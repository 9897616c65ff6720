-------------------------------- MODULE Cli --------------------------------
(***************************************************************************)
(* The commands run, renew and revoke of package cmd, over the files they  *)
(* leave for the next command: the account key, the account file, and per  *)
(* certificate the .crt, .issuer.crt, .key, .pem and .json files, each of  *)
(* which os.Create or ioutil.WriteFile first empties and then fills.  The  *)
(* process may stop between any two steps; an error of the disk, which the *)
(* code answers with log.Fatal, stops it in the same places.  Requests to  *)
(* the CA fail before or after the CA acted on them.                       *)
(***************************************************************************)
EXTENDS Integers, Sequences, Functions

CONSTANTS
  Domain, Base,    \* domain names; file names without their extension
  SanitizedDomain, \* sanitizedDomain: the file name of a domain, a function
  Continues,       \* per domain the other file names that its pattern domain.* matches
  Commands,        \* the command lines that are tried
  EabRequired,     \* the CA asks for an external account binding
  HoursPerDay,
  HoursLeft,       \* how long a certificate may still be valid when it is read
  MaxCommands, MaxFaults

ASSUME CliAssumption ==
  /\ SanitizedDomain \in [Domain -> Base] /\ IsInjective(SanitizedDomain)
  /\ Continues \in [Domain -> SUBSET Base] /\ \A d \in Domain : SanitizedDomain[d] \notin Continues[d]
  /\ \A c \in Commands : c.domains \in Seq(Domain) /\ c.domains # <<>> /\ c.filename \subseteq Base
  /\ HoursPerDay \in Nat \ {0} /\ HoursLeft \subseteq Int
  /\ MaxCommands \in Nat /\ MaxFaults \in Nat

Ext == {"crt", "issuer", "key", "pem", "json"}
Absent == 0      \* contents of a file: the number of the certificate it was written for,
Torn == -1       \* or one of these

VARIABLES
  keyFile, accountFile,  \* the account's files
  files, archive,        \* the certificates folder; the archive, a set of <<base, ext, content>>
  registered, certs, revoked,  \* the CA: the key's account, the certificates issued, those revoked
  conflict,              \* the CA answers 409 to a registration of a key that it knows
  pc, cmd,               \* where the process is ("idle": none runs); its command line
  acct, client,          \* account.Registration; newClient was passed
  old, left, res,        \* the certificate that renew read and its hours left; the one obtained
  todo, index,           \* the files still to write; revoke's loop index
  last, clean,           \* how the last command ended, and whether nothing failed under it
  torn,                  \* the file names under which the last save stopped midway or had no
                         \* key to write (history)
  commands, faults

disk == <<keyFile, accountFile, files, archive, torn>>
ca == <<registered, certs, revoked, conflict>>
vars == <<disk, ca, pc, cmd, acct, client, old, left, res, todo, index, last, clean, commands, faults>>

(* Failures that the network, the CA, a hook or the machine causes, up to  *)
(* MaxFaults.                                                              *)
Fault == faults < MaxFaults /\ faults' = faults + 1 /\ clean' = FALSE
NoFault == UNCHANGED <<faults, clean>>
Goto(l) == pc' = l /\ UNCHANGED last
End(o) == pc' = "idle" /\ last' = o
Fatal == End("fatal")

Nobody == [e \in Ext |-> Absent]
(* No account yet, or the file of an account as older versions wrote it.  *)
Init ==
  /\ \/ keyFile = "absent" /\ accountFile = "absent" /\ registered = FALSE
     \/ keyFile = "key" /\ accountFile = "incomplete" /\ registered \in BOOLEAN
  /\ files = [b \in Base |-> Nobody] /\ archive = {} /\ torn = {}
  /\ certs = <<>> /\ revoked = {} /\ conflict \in BOOLEAN
  /\ pc = "idle" /\ cmd \in Commands /\ acct = "nil" /\ client = FALSE
  /\ old = Absent /\ left = 0 /\ res = Absent /\ todo = <<>> /\ index = 1
  /\ last = "none" /\ clean = TRUE /\ commands = 0 /\ faults = 0

Invoke ==
  /\ pc = "idle" /\ commands < MaxCommands /\ commands' = commands + 1
  /\ cmd' \in Commands /\ Goto("key")
  /\ acct' = "nil" /\ client' = FALSE /\ old' = Absent /\ left' = 0 /\ res' = Absent
  /\ todo' = <<>> /\ index' = 1 /\ clean' = TRUE
  /\ UNCHANGED <<disk, ca, faults>>

-----------------------------------------------------------------------------
(* setup: the account key and the account.                                 *)

(* GetPrivateKey when there is a file.  pem.Decode finds nothing in an     *)
(* empty one, and the use of its result panics.                            *)
loadPrivateKey ==
  /\ pc = "key" /\ keyFile # "absent"
  /\ IF keyFile = "key" THEN Goto("account") ELSE Fatal
  /\ NoFault /\ UNCHANGED <<disk, ca, commands, cmd, acct, client, old, left, res, todo, index>>

(* GetPrivateKey when there is none: create, then encode.                  *)
createKeyFile ==
  /\ pc = "key" /\ keyFile = "absent" /\ keyFile' = "empty" /\ Goto("encode")
  /\ NoFault
  /\ UNCHANGED <<accountFile, files, archive, torn, ca, commands, cmd, acct, client, old, left, res,
                 todo, index>>
encodeKeyLater ==
  /\ pc = "encode" /\ Goto("account") /\ NoFault
  /\ UNCHANGED <<disk, ca, commands, cmd, acct, client, old, left, res, todo, index>>
encodeKey ==
  /\ pc = "encode" /\ keyFile' = "key" /\ Goto("account")
  /\ NoFault
  /\ UNCHANGED <<accountFile, files, archive, torn, ca, commands, cmd, acct, client, old, left, res,
                 todo, index>>

(* ExistsAccountFilePath and LoadAccount up to the recovery.  A file is    *)
(* "incomplete" without a registration or without its status.              *)
LoadAccountRecovers ==
  /\ pc = "account"
  /\ \/ accountFile = "empty" /\ Fatal /\ UNCHANGED acct
     \/ accountFile \in {"absent", "incomplete"} /\ Goto("recover") /\ UNCHANGED acct
     \/ accountFile = "complete" /\ acct' = accountFile /\ Goto("client")
  /\ NoFault /\ UNCHANGED <<disk, ca, commands, cmd, client, old, left, res, todo, index>>
LoadAccount ==
  /\ pc = "account"
  /\ \/ accountFile = "absent" /\ Goto("client") /\ UNCHANGED acct
     \/ accountFile = "empty" /\ Fatal /\ UNCHANGED acct
     \/ accountFile = "incomplete" /\ Goto("recover") /\ UNCHANGED acct
     \/ accountFile = "complete" /\ acct' = accountFile /\ Goto("client")
  /\ NoFault /\ UNCHANGED <<disk, ca, commands, cmd, client, old, left, res, todo, index>>

(* tryRecoverRegistration: the CA knows the key's account, or refuses.     *)
tryRecoverRegistration ==
  /\ pc = "recover"
  /\ \/ Fault /\ Fatal /\ UNCHANGED acct
     \/ ~registered /\ Fatal /\ NoFault /\ UNCHANGED acct
     \/ registered /\ acct' \in {"incomplete", "complete"} /\ Goto("saveAccount") /\ NoFault
  /\ UNCHANGED <<disk, ca, commands, cmd, client, old, left, res, todo, index>>

(* AccountsStorage.Save, for LoadAccount and for run.                      *)
SaveEmpties ==
  /\ pc = "saveAccount" /\ accountFile' = "empty" /\ Goto("fillAccount") /\ NoFault
  /\ UNCHANGED <<keyFile, files, archive, torn, ca, commands, cmd, acct, client, old, left, res,
                 todo, index>>
SaveFills ==
  /\ pc = "fillAccount" /\ accountFile' = acct /\ Goto(IF client THEN "obtain" ELSE "client")
  /\ NoFault
  /\ UNCHANGED <<keyFile, files, archive, torn, ca, commands, cmd, acct, client, old, left, res,
                 todo, index>>

(* newClient fetches the directory; run and renew then set up a challenge, *)
(* and only run goes on without a registration.                            *)
newClient ==
  /\ pc = "client" /\ client' = TRUE
  /\ \/ Fault /\ Fatal
     \/ /\ NoFault
        /\ IF \/ EabRequired /\ cmd.eab = "none"
              \/ cmd.op # "revoke" /\ ~cmd.challenge
              \/ cmd.op # "run" /\ acct = "nil"
           THEN Fatal
           ELSE Goto(CASE cmd.op = "revoke" -> "revoke"
                       [] cmd.op = "renew" -> "read"
                       [] cmd.op = "run" /\ acct = "nil" -> "tos"
                       [] OTHER -> "obtain")
  /\ UNCHANGED <<disk, ca, commands, cmd, acct, old, left, res, todo, index>>

(* handleTOS: --accept-tos, or the user's answer.  After an answer that    *)
(* is neither yes nor no it asks again; the end of the input is fatal.     *)
handleTOS ==
  /\ pc = "tos"
  /\ \/ Goto("register") /\ NoFault
     \/ ~cmd.acceptTos /\ Fault /\ (Fatal \/ UNCHANGED <<pc, last>>)
  /\ UNCHANGED <<disk, ca, commands, cmd, acct, client, old, left, res, todo, index>>

(* register: with a binding it needs --kid and --hmac.  For a key that it  *)
(* knows the CA returns the account, as RFC 8555 has it, or answers 409.   *)
(* Register means to accept that answer, but looks for an                  *)
(* acme.ProblemDetails in the error where the sender returned a pointer to *)
(* one, so it is an error.                                                 *)
register ==
  /\ pc = "register"
  /\ \/ cmd.eab = "incomplete" /\ Fatal /\ NoFault /\ UNCHANGED <<acct, registered>>
     \/ cmd.eab # "incomplete" /\ Fault /\ Fatal /\ registered' \in {registered, TRUE} /\ UNCHANGED acct
     \/ /\ cmd.eab # "incomplete" /\ conflict /\ registered
        /\ Fatal /\ NoFault /\ UNCHANGED <<acct, registered>>
     \/ /\ cmd.eab # "incomplete" /\ ~(conflict /\ registered) /\ NoFault
        /\ registered' = TRUE /\ acct' \in {"incomplete", "complete"} /\ Goto("saveAccount")
  /\ UNCHANGED <<disk, certs, revoked, conflict, commands, cmd, client, old, left, res, todo, index>>

-----------------------------------------------------------------------------
(* run and renew: what to ask for, and the files of the answer.            *)

(* needRenewal: the hours left are divided and truncated towards zero.     *)
Truncated(h) == IF h >= 0 THEN h \div HoursPerDay ELSE -((-h) \div HoursPerDay)
needRenewal(h) == cmd.days >= 0 => Truncated(h) <= cmd.days

(* The name that renew looks for: the first domain, or the common name of  *)
(* the CSR, which may be empty.                                            *)
ReadName == IF cmd.csr /\ ~cmd.commonName THEN {} ELSE {SanitizedDomain[cmd.domains[1]]}

(* renewForDomains and renewForCSR up to Obtain.  A certificate that does  *)
(* not parse, and with --reuse-key a private key that does not, ends them. *)
renewRead ==
  /\ pc = "read"
  /\ \/ /\ \A b \in ReadName : files[b]["crt"] \in {Absent, Torn}
        /\ Fatal /\ UNCHANGED <<old, left>>
     \/ \E b \in ReadName :
          /\ files[b]["crt"] \notin {Absent, Torn} /\ old' = files[b]["crt"] /\ left' \in HoursLeft
          /\ IF ~needRenewal(left') THEN End("ok")
             ELSE IF ~cmd.csr /\ cmd.reuseKey /\ files[b]["key"] \in {Absent, Torn} THEN Fatal
             ELSE Goto("obtain")
  /\ NoFault /\ UNCHANGED <<disk, ca, commands, cmd, acct, client, res, todo, index>>

(* merge keeps the old names in front and adds the ones it has not met.    *)
mergeNew(prevDomains, nextDomains) == nextDomains
merge(prevDomains, nextDomains) ==
  LET merged[i \in 0..Len(nextDomains)] ==
        IF i = 0 THEN prevDomains
        ELSE IF nextDomains[i] \in Range(merged[i-1]) THEN merged[i-1]
        ELSE Append(merged[i-1], nextDomains[i])
  IN merged[Len(nextDomains)]

(* obtainCertificate, and the requests of renew: the names and the key of  *)
(* the certificate that is asked for; key 0 is the key of a CSR.           *)
Request ==
  LET renewed == cmd.op = "renew" /\ ~cmd.csr IN
  [names |-> IF renewed THEN merge(certs[old].names, cmd.domains) ELSE cmd.domains,
   key |-> IF cmd.csr THEN 0
           ELSE IF renewed /\ cmd.reuseKey
           THEN certs[files[SanitizedDomain[cmd.domains[1]]]["key"]].key
           ELSE Len(certs) + 1]

(* The files SaveResource writes, in its order.  It gives up in the middle *)
(* when a .pem file is asked for and there is no key.                      *)
FilesNoKey(c, withIssuer) ==
  <<"crt">> \o (IF withIssuer THEN <<"issuer">> ELSE <<>>)
    \o (IF cmd.op = "run" THEN <<"key">> ELSE <<>>) \o <<"json">>
Files(c, withIssuer) ==
  <<"crt">> \o (IF withIssuer THEN <<"issuer">> ELSE <<>>)
    \o (IF c.key = 0 THEN (IF cmd.pem THEN <<"fatal">> ELSE <<>>)
        ELSE <<"key">> \o (IF cmd.pem THEN <<"pem">> ELSE <<>>))
    \o <<"json">>

(* Certifier.Obtain and ObtainForCSR, as ObtainContract promises: an error *)
(* (the CA may have issued the certificate nevertheless), or an issued     *)
(* certificate.                                                            *)
Obtain ==
  /\ pc = "obtain"
  /\ \/ Fault /\ Fatal /\ certs' \in {certs, Append(certs, Request)} /\ UNCHANGED <<res, todo>>
     \/ /\ NoFault /\ certs' = Append(certs, Request) /\ res' = Len(certs) + 1
        /\ \E withIssuer \in BOOLEAN : todo' = Files(Request, withIssuer)
        /\ Goto("save")
  /\ left' = 0
  /\ UNCHANGED <<disk, registered, revoked, conflict, commands, cmd, acct, client, old, index>>

(* WriteFile names the file after --filename, or after the certificate's   *)
(* first name.                                                             *)
WriteName == IF cmd.filename # {} THEN CHOOSE b \in cmd.filename : TRUE
             ELSE SanitizedDomain[certs[res].names[1]]

SaveResourceEmpties ==
  /\ pc = "save"
  /\ IF Head(todo) = "fatal"
     THEN Fatal /\ torn' = torn \cup {WriteName} /\ UNCHANGED files
     ELSE Goto("fill") /\ files' = [files EXCEPT ![WriteName][Head(todo)] = Torn] /\ UNCHANGED torn
  /\ NoFault
  /\ UNCHANGED <<keyFile, accountFile, archive, ca, commands, cmd, acct, client, old, left, res, todo,
                 index>>
SaveResourceFills ==
  /\ pc = "fill" /\ files' = [files EXCEPT ![WriteName][Head(todo)] = res] /\ todo' = Tail(todo)
  /\ IF Len(todo) > 1 THEN Goto("save") /\ UNCHANGED torn
     ELSE /\ Goto("hook")
          /\ torn' = IF certs[res].key = 0 THEN torn \cup {WriteName} ELSE torn \ {WriteName}
  /\ NoFault
  /\ UNCHANGED <<keyFile, accountFile, archive, ca, commands, cmd, acct, client, old, left, res, index>>

(* GetFileName: the path that the hook is told.                            *)
HookName == IF cmd.op = "run" THEN SanitizedDomain[certs[res].names[1]]
            ELSE SanitizedDomain[cmd.domains[1]]
launchHook ==
  /\ pc = "hook"
  /\ \/ End("ok") /\ NoFault
     \/ cmd.hook /\ Fault /\ Fatal
  /\ UNCHANGED <<disk, ca, commands, cmd, acct, client, old, left, res, todo, index>>

-----------------------------------------------------------------------------
(* revoke.                                                                 *)

(* One round of the loop up to MoveToArchive: read, revoke, then keep or   *)
(* archive.  The CA refuses what is revoked already.                       *)
revokeOneUnasked ==
  /\ pc = "revoke"
  /\ IF files[SanitizedDomain[cmd.domains[index]]]["crt"] \in {Absent, Torn} THEN Fatal
     ELSE Goto("archive")
  /\ NoFault
  /\ UNCHANGED <<disk, ca, commands, cmd, acct, client, old, left, res, todo, index>>
revokeOne ==
  /\ pc = "revoke"
  /\ LET i == files[SanitizedDomain[cmd.domains[index]]]["crt"] IN
     \/ i \in {Absent, Torn} \cup revoked /\ Fatal /\ NoFault /\ UNCHANGED revoked
     \/ /\ i \notin {Absent, Torn} /\ Fault /\ Fatal
        /\ revoked' \in {revoked, revoked \cup {i}}
     \/ /\ i \notin {Absent, Torn} \cup revoked /\ NoFault /\ revoked' = revoked \cup {i}
        /\ IF cmd.keep THEN End("ok") ELSE Goto("archive")
  /\ UNCHANGED <<disk, registered, certs, conflict, commands, cmd, acct, client, old, left, res, todo,
                 index>>

(* MoveToArchive: rename file by file, in Glob's fixed order, then the     *)
(* next domain.                                                            *)
Matches ==
  LET d == cmd.domains[index] IN
  {f \in ({SanitizedDomain[d]} \cup Continues[d]) \X Ext : files[f[1]][f[2]] # Absent}
MoveFile ==
  /\ pc = "archive" /\ Matches # {}
  /\ LET f == CHOOSE g \in Matches : TRUE IN
     /\ archive' = archive \cup {<<f[1], f[2], files[f[1]][f[2]]>>}
     /\ files' = [files EXCEPT ![f[1]][f[2]] = Absent]
  /\ NoFault
  /\ UNCHANGED <<keyFile, accountFile, torn, ca, commands, pc, last, cmd, acct, client, old, left,
                 res, todo, index>>
NextDomainPastEnd ==
  /\ pc = "archive" /\ Matches = {}
  /\ IF index <= Len(cmd.domains) THEN index' = index + 1 /\ Goto("revoke")
     ELSE End("ok") /\ UNCHANGED index
  /\ NoFault /\ UNCHANGED <<disk, ca, commands, cmd, acct, client, old, left, res, todo>>
NextDomain ==
  /\ pc = "archive" /\ Matches = {}
  /\ IF index < Len(cmd.domains) THEN index' = index + 1 /\ Goto("revoke")
     ELSE End("ok") /\ UNCHANGED index
  /\ NoFault /\ UNCHANGED <<disk, ca, commands, cmd, acct, client, old, left, res, todo>>

-----------------------------------------------------------------------------
Crash ==
  /\ pc # "idle" /\ Fault /\ End("crash")
  /\ torn' = IF pc \in {"save", "fill"} THEN torn \cup {WriteName} ELSE torn
  /\ UNCHANGED <<keyFile, accountFile, files, archive, ca, commands, cmd, acct, client, old, left, res, todo, index>>
Finished == pc = "idle" /\ commands = MaxCommands /\ UNCHANGED vars

Step ==
  \/ loadPrivateKey \/ createKeyFile \/ encodeKey \/ LoadAccount \/ tryRecoverRegistration
  \/ SaveEmpties \/ SaveFills \/ newClient \/ handleTOS \/ register
  \/ renewRead \/ Obtain \/ SaveResourceEmpties \/ SaveResourceFills \/ launchHook
  \/ revokeOne \/ MoveFile \/ NextDomain
Next == Invoke \/ Step \/ Crash \/ Finished
Spec == Init /\ [][Next]_vars
-----------------------------------------------------------------------------
TypeOK ==
  /\ keyFile \in {"absent", "empty", "key"}
  /\ accountFile \in {"absent", "empty", "incomplete", "complete"}
  /\ files \in [Base -> [Ext -> {Absent, Torn} \cup 1..Len(certs)]]
  /\ archive \subseteq Base \X Ext \X ({Torn} \cup 1..Len(certs))
  /\ registered \in BOOLEAN /\ conflict \in BOOLEAN /\ revoked \subseteq 1..Len(certs)
  /\ \A i \in 1..Len(certs) : /\ certs[i].names \in Seq(Domain) /\ certs[i].names # <<>>
                              /\ certs[i].key \in 0..i
  /\ pc \in {"idle", "key", "encode", "account", "recover", "saveAccount", "fillAccount",
             "client", "tos", "register", "read", "obtain", "save", "fill", "hook", "revoke",
             "archive"}
  /\ acct \in {"nil", "incomplete", "complete"} /\ client \in BOOLEAN
  /\ old \in 0..Len(certs) /\ res \in 0..Len(certs) /\ index \in 1..Len(cmd.domains)
  /\ last \in {"none", "ok", "fatal", "crash"} /\ clean \in BOOLEAN /\ torn \subseteq Base
  /\ left \in HoursLeft \cup {0} /\ commands \in 0..MaxCommands /\ faults \in 0..MaxFaults

(* Wherever a command stops, the CA never has an account whose key is not  *)
(* on disk, and a complete account file belongs to an account of the CA:   *)
(* GetPrivateKey writes the key before setup returns, and run saves the    *)
(* account after it is registered.                                         *)
KeyOutlivesCrash ==
  /\ registered => keyFile = "key"
  /\ accountFile = "complete" => registered

(* Whatever stopped earlier commands, a correct run under which nothing    *)
(* fails succeeds: it registers a key again whose account was not saved,   *)
(* if the CA then returns the account, and overwrites what an earlier save *)
(* left.  It cannot get past a CA that answers 409 instead (which Register *)
(* fails to recognise), past a key or account file that was emptied and    *)
(* not filled, past an account file without a registration that the CA     *)
(* does not know, nor write a .pem file for a CSR.                         *)
RunRecovers ==
  (/\ pc = "idle" /\ last = "fatal" /\ clean /\ cmd.op = "run"
   /\ cmd.challenge /\ (EabRequired => cmd.eab # "none") /\ cmd.eab # "incomplete")
  => \/ conflict /\ registered /\ accountFile = "absent"
     \/ keyFile = "empty" \/ accountFile = "empty"
     \/ accountFile = "incomplete" /\ ~registered
     \/ cmd.csr /\ cmd.pem

(* The .crt and the .key file of a name belong together, across renewals,  *)
(* reused keys, revocations and stopped commands, unless the last save     *)
(* under that name is under way, stopped midway, or was of a CSR, whose    *)
(* certificate SaveResource puts next to whatever .key file is there.      *)
PairsMatch ==
  \A b \in Base \ torn :
    files[b]["crt"] # Absent /\ files[b]["key"] # Absent =>
      \/ pc \in {"save", "fill"} /\ b = WriteName
      \/ /\ files[b]["crt"] # Torn /\ files[b]["key"] # Torn
         /\ certs[files[b]["crt"]].key = certs[files[b]["key"]].key

(* renew never narrows a certificate: the new one has every name of the    *)
(* old one and every name asked for, once, and is saved under the name     *)
(* from which the old one was read.                                        *)
RenewKeepsNames ==
  cmd.op = "renew" /\ ~cmd.csr /\ res # Absent =>
    /\ Range(certs[res].names) = Range(certs[old].names) \cup Range(cmd.domains)
    /\ IsInjective(certs[old].names) => IsInjective(certs[res].names)
    /\ cmd.filename = {} => WriteName = SanitizedDomain[cmd.domains[1]]

(* revoke archives a certificate only after the CA revoked it, except that *)
(* MoveToArchive's pattern also takes the files of names that continue the *)
(* revoked one (example.com.au for example.com).                           *)
ArchivedAreRevoked ==
  \A f \in archive :
    f[2] = "crt" => f[3] \in revoked \/ \E d \in Domain : f[1] \in Continues[d]
=============================================================================
