----------------------------- MODULE CliProof -----------------------------
(***************************************************************************)
(* Proofs about Cli for every set of domains and command lines, and any    *)
(* number of commands, failures and crashes: first the account, then the   *)
(* certificates and their files, which one command leaves for the next.    *)
(***************************************************************************)
EXTENDS Cli, Recursion

(* Past GetPrivateKey the key is on disk, and a registration in memory     *)
(* belongs to an account of the CA.                                        *)
KeyInv ==
  /\ KeyOutlivesCrash
  /\ pc \notin {"idle", "key", "encode"} => keyFile = "key"
  /\ acct = "complete" => registered

LEMMA KeyInit == Init => KeyInv
BY DEF Init, KeyInv, KeyOutlivesCrash

LEMMA KeyStep == KeyInv /\ [Next]_vars => KeyInv'
<1> SUFFICES ASSUME KeyInv, [Next]_vars PROVE KeyInv'
  OBVIOUS
<1> USE DEF KeyInv, KeyOutlivesCrash
<1>1. CASE loadPrivateKey
  BY <1>1 DEF loadPrivateKey, Goto, End, Fatal, disk, ca
<1>2. CASE createKeyFile
  BY <1>2 DEF createKeyFile, Goto, End, Fatal, disk, ca
<1>3. CASE encodeKey
  BY <1>3 DEF encodeKey, Goto, End, Fatal, disk, ca
<1>4. CASE LoadAccount
  BY <1>4 DEF LoadAccount, Goto, End, Fatal, disk, ca
<1>5. CASE tryRecoverRegistration
  BY <1>5 DEF tryRecoverRegistration, Goto, End, Fatal, disk, ca
<1>6. CASE SaveEmpties
  BY <1>6 DEF SaveEmpties, Goto, End, Fatal, disk, ca
<1>7. CASE SaveFills
  BY <1>7 DEF SaveFills, Goto, End, Fatal, disk, ca
<1>8. CASE newClient
  BY <1>8 DEF newClient, Goto, End, Fatal, disk, ca
<1>9. CASE handleTOS
  BY <1>9 DEF handleTOS, Goto, End, Fatal, disk, ca
<1>10. CASE register
  BY <1>10, Zenon DEF register, Goto, End, Fatal, disk, ca
<1>11. CASE renewRead
  BY <1>11 DEF renewRead, Goto, End, Fatal, disk, ca
<1>12. CASE Obtain
  BY <1>12 DEF Obtain, Goto, End, Fatal, disk, ca
<1>13. CASE SaveResourceEmpties
  BY <1>13 DEF SaveResourceEmpties, Goto, End, Fatal, disk, ca
<1>14. CASE SaveResourceFills
  BY <1>14 DEF SaveResourceFills, Goto, End, Fatal, disk, ca
<1>15. CASE launchHook
  BY <1>15 DEF launchHook, Goto, End, Fatal, disk, ca
<1>16. CASE revokeOne
  BY <1>16 DEF revokeOne, Goto, End, Fatal, disk, ca
<1>17. CASE MoveFile
  BY <1>17 DEF MoveFile, Goto, End, Fatal, disk, ca
<1>18. CASE NextDomain
  BY <1>18 DEF NextDomain, Goto, End, Fatal, disk, ca
<1>19. CASE Invoke
  BY <1>19 DEF Invoke, Goto, End, Fatal, disk, ca
<1>20. CASE Crash
  BY <1>20 DEF Crash, Goto, End, Fatal, disk, ca
<1>21. CASE UNCHANGED vars
  BY <1>21 DEF vars, disk, ca
<1> QED
  BY <1>1, <1>2, <1>3, <1>4, <1>5, <1>6, <1>7, <1>8, <1>9, <1>10, <1>11, <1>12, <1>13, <1>14, <1>15, <1>16, <1>17, <1>18, <1>19, <1>20, <1>21 DEF Next, Step, Finished

(* Wherever commands stop, the CA never has an account whose key is not on *)
(* disk, and a complete account file belongs to an account of the CA.      *)
THEOREM KeySafe == Spec => []KeyOutlivesCrash
<1>1. KeyInv => KeyOutlivesCrash
  BY DEF KeyInv
<1> QED
  BY <1>1, KeyInit, KeyStep, PTL DEF Spec

-----------------------------------------------------------------------------
(* merge returns the names of both lists, the old ones in front, and adds   *)
(* none that is there already.                                              *)
LEMMA Merged ==
  ASSUME NEW p \in Seq(Domain), NEW q \in Seq(Domain)
  PROVE  /\ merge(p, q) \in Seq(Domain)
         /\ Range(merge(p, q)) = Range(p) \cup Range(q)
         /\ p # <<>> => merge(p, q) # <<>> /\ merge(p, q)[1] = p[1]
         /\ IsInjective(p) => IsInjective(merge(p, q))
<1> DEFINE add(i, x) == IF q[i] \in Range(x) THEN x ELSE Append(x, q[i])
           F == [i \in Nat |-> [x \in Seq(Domain) |-> IF i < Len(q) THEN add(i + 1, x) ELSE x]]
           Loop(m) == m = [i \in 0..Len(q) |-> IF i = 0 THEN p ELSE add(i, m[i - 1])]
           M == CHOOSE m : Loop(m)
<1>1. merge(p, q) = M[Len(q)]
  BY DEF merge
<1>2. Loop(M)
  <2>1. F \in [Nat -> [Seq(Domain) -> Seq(Domain)]]
    OBVIOUS
  <2>2. PICK f \in [Nat -> Seq(Domain)] : f[0] = p /\ \A i \in Nat : f[i + 1] = F[i][f[i]]
    <3> HIDE DEF F
    <3>1. \E f : Iterates(f, Seq(Domain), p, F)
      BY <2>1, Recursion, Zenon
    <3> QED
      BY <3>1, Zenon DEF Iterates
  <2> DEFINE g == [i \in 0..Len(q) |-> f[i]]
  <2>3. ASSUME NEW i \in 0..Len(q), i # 0 PROVE g[i] = add(i, g[i - 1])
    <3>1. i - 1 \in Nat /\ i - 1 \in 0..Len(q) /\ i - 1 < Len(q) /\ (i - 1) + 1 = i
      BY <2>3
    <3>2. f[(i - 1) + 1] = F[i - 1][f[i - 1]] /\ f[i - 1] \in Seq(Domain)
      BY <2>2, <3>1, Zenon
    <3> QED
      BY <3>1, <3>2, Zenon
  <2>4. g[0] = p
    BY <2>2
  <2>5. Loop(g)
    <3> HIDE DEF add
    <3> QED
      BY <2>3, <2>4, Zenon
  <2> HIDE DEF g, Loop
  <2> QED
    BY <2>5
<1> HIDE DEF M
<1> DEFINE Good(i) == /\ M[i] \in Seq(Domain)
                      /\ Range(M[i]) = Range(p) \cup {q[j] : j \in 1..i}
                      /\ p # <<>> => M[i] # <<>> /\ M[i][1] = p[1]
                      /\ IsInjective(p) => IsInjective(M[i])
           T == {i \in Nat : i <= Len(q) => Good(i)}
<1>3. 0 \in T
  <2>1. M[0] = p
    BY <1>2
  <2>2. {q[j] : j \in 1..0} = {}
    OBVIOUS
  <2> QED
    BY <2>1, <2>2
<1>4. ASSUME NEW i \in Nat, i \in T PROVE i + 1 \in T
  <2>1. CASE i + 1 <= Len(q)
    <3>1. Good(i)
      <4>1. i <= Len(q)
        BY <2>1
      <4> HIDE DEF Good
      <4> QED
        BY <1>4, <4>1
    <3>a. q[i + 1] \in Domain
      BY <2>1
    <3>2. M[i + 1] = add(i + 1, M[i])
      <4>1. i + 1 \in 0..Len(q) /\ i + 1 # 0 /\ (i + 1) - 1 = i
        BY <2>1
      <4> HIDE DEF add
      <4> QED
        BY <1>2, <4>1
    <3>3. {q[j] : j \in 1..(i + 1)} = {q[j] : j \in 1..i} \cup {q[i + 1]}
      <4>1. 1..(i + 1) = 1..i \cup {i + 1}
        OBVIOUS
      <4> QED
        BY <4>1
    <3>4. Good(i + 1)
      <4>1. CASE q[i + 1] \in Range(M[i])
        BY <3>1, <3>2, <3>3, <4>1
      <4>2. CASE q[i + 1] \notin Range(M[i])
        <5>1. M[i + 1] = Append(M[i], q[i + 1])
          BY <3>2, <4>2
        <5>2. /\ M[i + 1] \in Seq(Domain) /\ M[i + 1] # <<>>
              /\ Range(M[i + 1]) = Range(M[i]) \cup {q[i + 1]}
              /\ M[i] # <<>> => M[i + 1][1] = M[i][1]
              /\ IsInjective(M[i]) => IsInjective(M[i + 1])
          <6>1. M[i] \in Seq(Domain)
            BY <3>1
          <6> QED
            BY <3>a, <4>2, <5>1, <6>1, Appended
        <5> QED
          BY <3>1, <3>3, <5>2
      <4> QED
        BY <4>1, <4>2
    <3> QED
      BY <3>4
  <2> QED
    BY <2>1
<1>5. Good(Len(q))
  <2>1. Nat \subseteq T
    <3> HIDE DEF T
    <3> QED
      BY <1>3, <1>4, Induction
  <2>2. Len(q) \in Nat
    OBVIOUS
  <2> HIDE DEF Good
  <2> QED
    BY <2>1, <2>2
<1>6. {q[j] : j \in 1..Len(q)} = Range(q)
  BY DEF Range
<1> HIDE DEF Loop
<1> QED
  BY <1>1, <1>5, <1>6

-----------------------------------------------------------------------------
(* Certificates, and where a command can be.                               *)
Certificate == [names : Seq(Domain) \ {<<>>}, key : Nat]
PC == {"idle", "key", "encode", "account", "recover", "saveAccount", "fillAccount",
       "client", "tos", "register", "read", "obtain", "save", "fill", "hook", "revoke", "archive"}

(* The process and the account; its bounds.                                *)
ControlOK ==
  /\ keyFile \in {"absent", "empty", "key"}
  /\ accountFile \in {"absent", "empty", "incomplete", "complete"}
  /\ registered \in BOOLEAN /\ conflict \in BOOLEAN /\ pc \in PC
  /\ acct \in {"nil", "incomplete", "complete"} /\ client \in BOOLEAN
  /\ pc \in {"saveAccount", "fillAccount"} => acct # "nil"
  /\ last \in {"none", "ok", "fatal", "crash"} /\ clean \in BOOLEAN
BoundsOK ==
  left \in HoursLeft \cup {0} /\ commands \in 0..MaxCommands /\ faults \in 0..MaxFaults

(* The certificates and their files.                                       *)
StoreOK ==
  /\ certs \in Seq(Certificate) /\ \A i \in 1..Len(certs) : certs[i].key \in 0..i
  /\ files \in [Base -> [Ext -> {Absent, Torn} \cup 1..Len(certs)]]
  /\ archive \subseteq Base \X Ext \X ({Torn} \cup 1..Len(certs))
  /\ revoked \subseteq 1..Len(certs) /\ torn \subseteq Base
  /\ cmd \in Commands /\ index \in 1..Len(cmd.domains)
  /\ old \in 0..Len(certs) /\ res \in 0..Len(certs)

(* Together they are the type invariant.                                   *)
LEMMA TypeParts == ControlOK /\ BoundsOK /\ StoreOK => TypeOK
<1> SUFFICES ASSUME ControlOK, BoundsOK, StoreOK PROVE TypeOK
  OBVIOUS
<1>1. \A i \in 1..Len(certs) : certs[i].names \in Seq(Domain) /\ certs[i].names # <<>>
                               /\ certs[i].key \in 0..i
  <2> SUFFICES ASSUME NEW i \in 1..Len(certs)
               PROVE  certs[i].names \in Seq(Domain) \ {<<>>} /\ certs[i].key \in 0..i
    OBVIOUS
  <2>1. certs[i] \in Certificate /\ certs[i].key \in 0..i
    BY DEF StoreOK
  <2> QED
    BY <2>1 DEF Certificate
<1>2. ControlOK /\ BoundsOK
  OBVIOUS
<1>3. StoreOK
  OBVIOUS
<1> QED
  BY <1>1, <1>2, <1>3, Zenon DEF ControlOK, BoundsOK, StoreOK, TypeOK, PC

(* They hold initially, and every step preserves the first two.            *)
LEMMA InitControl == Init => ControlOK /\ BoundsOK
<1>1. Init => ControlOK
  BY Zenon DEF Init, ControlOK, PC
<1>2. Init => BoundsOK
  BY CliAssumption DEF Init, BoundsOK
<1> QED
  BY <1>1, <1>2

LEMMA InitStore == Init => StoreOK
<1> SUFFICES ASSUME Init PROVE StoreOK
  OBVIOUS
<1>1. cmd \in Commands /\ index \in 1..Len(cmd.domains)
  BY CliAssumption DEF Init
<1> QED
  BY <1>1 DEF Init, StoreOK, Nobody, Absent

LEMMA ControlNext == ControlOK /\ [Next]_vars => ControlOK'
<1> SUFFICES ASSUME ControlOK, [Next]_vars PROVE ControlOK'
  OBVIOUS
<1> USE DEF ControlOK, PC, Goto, End, Fatal, Fault, NoFault, disk, ca
<1>1. CASE loadPrivateKey
  BY <1>1 DEF loadPrivateKey
<1>2. CASE createKeyFile
  BY <1>2 DEF createKeyFile
<1>3. CASE encodeKey
  BY <1>3 DEF encodeKey
<1>4. CASE LoadAccount
  BY <1>4 DEF LoadAccount
<1>5. CASE tryRecoverRegistration
  BY <1>5, Zenon DEF tryRecoverRegistration
<1>6. CASE SaveEmpties
  BY <1>6 DEF SaveEmpties
<1>7. CASE SaveFills
  BY <1>7 DEF SaveFills
<1>8. CASE newClient
  BY <1>8, Zenon DEF newClient
<1>9. CASE handleTOS
  <2>1. /\ pc' \in {"idle", "register", "tos"} /\ last' \in {"fatal", last} /\ clean' \in {FALSE, clean}
        /\ UNCHANGED <<keyFile, accountFile, registered, conflict, acct, client>> /\ pc = "tos"
    BY <1>9, Zenon DEF handleTOS
  <2>2. /\ clean' \in BOOLEAN /\ registered' \in BOOLEAN
        /\ conflict' \in BOOLEAN /\ client' \in BOOLEAN
    BY <2>1, Zenon
  <2>3. pc' \in PC /\ last' \in {"none", "ok", "fatal", "crash"}
    BY <2>1
  <2>4. pc' \notin {"saveAccount", "fillAccount"}
    BY <2>1
  <2> QED
    BY <2>1, <2>2, <2>3, <2>4, Zenon
<1>10. CASE register
  BY <1>10, Zenon DEF register
<1>11. CASE renewRead
  BY <1>11 DEF renewRead
<1>12. CASE Obtain
  <2>1. /\ pc' \in {"idle", "save"} /\ last' \in {"fatal", last} /\ clean' \in {FALSE, clean}
        /\ UNCHANGED <<keyFile, accountFile, registered, conflict, acct, client>>
    BY <1>12, Zenon DEF Obtain
  <2>2. /\ clean' \in BOOLEAN /\ registered' \in BOOLEAN
        /\ conflict' \in BOOLEAN /\ client' \in BOOLEAN
    BY <2>1, Zenon
  <2>3. pc' \in PC /\ last' \in {"none", "ok", "fatal", "crash"}
    BY <2>1
  <2>4. pc' \notin {"saveAccount", "fillAccount"}
    BY <2>1
  <2> QED
    BY <2>1, <2>2, <2>3, <2>4, Zenon
<1>13. CASE SaveResourceEmpties
  BY <1>13 DEF SaveResourceEmpties
<1>14. CASE SaveResourceFills
  BY <1>14 DEF SaveResourceFills
<1>15. CASE launchHook
  BY <1>15, Zenon DEF launchHook
<1>16. CASE revokeOne
  <2>1. /\ pc' \in {"idle", "archive"} /\ last' \in {"ok", "fatal", last} /\ clean' \in {FALSE, clean}
        /\ UNCHANGED <<keyFile, accountFile, registered, conflict, acct, client>>
    BY <1>16, Zenon DEF revokeOne
  <2>2. /\ clean' \in BOOLEAN /\ registered' \in BOOLEAN
        /\ conflict' \in BOOLEAN /\ client' \in BOOLEAN
    BY <2>1, Zenon
  <2>3. pc' \in PC /\ last' \in {"none", "ok", "fatal", "crash"}
    BY <2>1
  <2>4. pc' \notin {"saveAccount", "fillAccount"}
    BY <2>1
  <2> QED
    BY <2>1, <2>2, <2>3, <2>4, Zenon
<1>17. CASE MoveFile
  BY <1>17 DEF MoveFile
<1>18. CASE NextDomain
  BY <1>18 DEF NextDomain
<1>19. CASE Invoke
  BY <1>19, Zenon DEF Invoke
<1>20. CASE Crash
  BY <1>20, Zenon DEF Crash
<1>21. CASE UNCHANGED vars
  BY <1>21 DEF vars
<1> QED
  BY <1>1, <1>2, <1>3, <1>4, <1>5, <1>6, <1>7, <1>8, <1>9, <1>10, <1>11, <1>12, <1>13, <1>14, <1>15, <1>16, <1>17, <1>18, <1>19, <1>20, <1>21 DEF Next, Step, Finished

LEMMA BoundsNext == BoundsOK /\ [Next]_vars => BoundsOK'
<1> SUFFICES ASSUME BoundsOK, [Next]_vars PROVE BoundsOK'
  OBVIOUS
<1> USE CliAssumption DEF BoundsOK, Fault, NoFault, disk, ca
<1>1. CASE loadPrivateKey
  BY <1>1 DEF loadPrivateKey
<1>2. CASE createKeyFile
  BY <1>2 DEF createKeyFile
<1>3. CASE encodeKey
  BY <1>3 DEF encodeKey
<1>4. CASE LoadAccount
  BY <1>4 DEF LoadAccount
<1>5. CASE tryRecoverRegistration
  BY <1>5 DEF tryRecoverRegistration
<1>6. CASE SaveEmpties
  BY <1>6 DEF SaveEmpties
<1>7. CASE SaveFills
  BY <1>7 DEF SaveFills
<1>8. CASE newClient
  BY <1>8 DEF newClient
<1>9. CASE handleTOS
  BY <1>9 DEF handleTOS
<1>10. CASE register
  <2>1. (Fault \/ NoFault) /\ UNCHANGED <<commands, left>>
    BY <1>10, Zenon DEF register
  <2> QED
    BY <2>1
<1>11. CASE renewRead
  <2>1. left' \in HoursLeft \cup {0} /\ UNCHANGED <<commands, faults>>
    BY <1>11, Zenon DEF renewRead
  <2> QED
    BY <2>1
<1>12. CASE Obtain
  BY <1>12 DEF Obtain
<1>13. CASE SaveResourceEmpties
  BY <1>13 DEF SaveResourceEmpties
<1>14. CASE SaveResourceFills
  BY <1>14 DEF SaveResourceFills
<1>15. CASE launchHook
  BY <1>15 DEF launchHook
<1>16. CASE revokeOne
  <2>1. (Fault \/ NoFault) /\ UNCHANGED <<commands, left>>
    BY <1>16, Zenon DEF revokeOne
  <2> QED
    BY <2>1
<1>17. CASE MoveFile
  BY <1>17 DEF MoveFile
<1>18. CASE NextDomain
  BY <1>18 DEF NextDomain
<1>19. CASE Invoke
  BY <1>19 DEF Invoke
<1>20. CASE Crash
  BY <1>20 DEF Crash
<1>21. CASE UNCHANGED vars
  BY <1>21 DEF vars
<1> QED
  BY <1>1, <1>2, <1>3, <1>4, <1>5, <1>6, <1>7, <1>8, <1>9, <1>10, <1>11, <1>12, <1>13, <1>14, <1>15, <1>16, <1>17, <1>18, <1>19, <1>20, <1>21 DEF Next, Step, Finished

(* The domain whose turn it is in the loop of revoke.                      *)
Current == cmd.domains[index]
LEMMA CurrentDomain ==
  ASSUME cmd \in Commands, index \in 1..Len(cmd.domains)
  PROVE  Current \in Domain /\ SanitizedDomain[Current] \in Base
BY CliAssumption DEF Current


(* The file that renew looks for.                                          *)
Asked == SanitizedDomain[cmd.domains[1]]
Renewed == cmd.op = "renew" /\ ~cmd.csr

(* What a save has on its list.                                            *)
Kind == Ext \cup {"fatal"}

(* What obtain and save rely on: renew read a certificate, and its key when *)
(* it is to be reused; a save still has the files to write that do not yet  *)
(* hold the new certificate.                                                *)
SavingOK ==
  /\ res # Absent => pc \in {"save", "fill", "hook", "idle"}
  /\ pc = "obtain" /\ Renewed =>
       /\ old = files[Asked]["crt"] /\ old # Absent
       /\ cmd.reuseKey => files[Asked]["key"] \notin {Absent, Torn}
  /\ pc \in {"save", "fill"} =>
       /\ res # Absent /\ todo \in Seq(Kind) /\ todo # <<>>
       /\ certs[res].key # 0 =>
            \A e \in {"crt", "key"} : files[WriteName][e] = res \/ e \in Range(todo)
       /\ "fatal" \in Range(todo) => certs[res].key = 0 /\ cmd.pem
       /\ cmd.op = "run" /\ certs[res].key = 0 => cmd.csr
  /\ pc = "fill" => Head(todo) # "fatal"

(* The names on a command line and their files.                            *)
LEMMA AskedInBase ==
  ASSUME cmd \in Commands
  PROVE  /\ cmd.domains \in Seq(Domain) /\ cmd.domains # <<>> /\ cmd.filename \subseteq Base
         /\ 1 \in 1..Len(cmd.domains) /\ cmd.domains[1] \in Domain /\ Asked \in Base
<1>1. cmd.domains \in Seq(Domain) /\ cmd.domains # <<>> /\ cmd.filename \subseteq Base
  BY CliAssumption
<1>2. 1 \in 1..Len(cmd.domains) /\ cmd.domains[1] \in Domain
  BY <1>1
<1> QED
  BY <1>1, <1>2, CliAssumption DEF Asked

(* What obtain asks for is a certificate, with every name of the old one.  *)
LEMMA RequestOK ==
  ASSUME StoreOK, SavingOK, pc = "obtain"
  PROVE  /\ Request \in Certificate /\ Request.key \in 0..(Len(certs) + 1)
         /\ cmd.op = "run" /\ Request.key = 0 => cmd.csr
         /\ Renewed => /\ old \in 1..Len(certs) /\ old = files[Asked]["crt"]
                       /\ Request.names = merge(certs[old].names, cmd.domains)
<1>1. /\ cmd \in Commands /\ Len(certs) \in Nat /\ old \in 0..Len(certs)
      /\ certs \in Seq(Certificate) /\ \A i \in 1..Len(certs) : certs[i].key \in 0..i
      /\ files \in [Base -> [Ext -> {Absent, Torn} \cup 1..Len(certs)]]
  BY DEF StoreOK
<1>2. cmd.domains \in Seq(Domain) /\ cmd.domains # <<>> /\ Asked \in Base
  BY <1>1, AskedInBase
<1>3. Renewed => /\ old = files[Asked]["crt"] /\ old \in 1..Len(certs)
                 /\ cmd.reuseKey => files[Asked]["key"] \in 1..Len(certs)
  <2>1. files[Asked]["key"] \in {Absent, Torn} \cup 1..Len(certs)
    BY <1>1, <1>2 DEF Ext
  <2> QED
    BY <1>1, <2>1 DEF SavingOK, Absent
<1> DEFINE n == IF Renewed THEN merge(certs[old].names, cmd.domains) ELSE cmd.domains
           k == IF cmd.csr THEN 0
                ELSE IF Renewed /\ cmd.reuseKey THEN certs[files[Asked]["key"]].key
                ELSE Len(certs) + 1
<1>4. Request = [names |-> n, key |-> k]
  BY DEF Request, Renewed, Asked
<1>5. n \in Seq(Domain) \ {<<>>}
  <2>1. CASE Renewed
    <3>1. certs[old].names \in Seq(Domain) /\ certs[old].names # <<>>
      <4>1. certs[old] \in Certificate
        BY <1>1, <1>3, <2>1
      <4> QED
        BY <4>1 DEF Certificate
    <3> QED
      BY <1>2, <2>1, <3>1, Merged
  <2> QED
    BY <1>2, <2>1
<1>6. k \in 0..(Len(certs) + 1)
  <2>1. CASE Renewed /\ cmd.reuseKey
    <3> DEFINE f == files[Asked]["key"]
    <3>1. f \in 1..Len(certs)
      BY <1>3, <2>1
    <3> HIDE DEF f
    <3>2. certs[f].key \in 0..f
      BY <1>1, <3>1
    <3>3. certs[f].key \in 0..(Len(certs) + 1)
      BY <1>1, <3>1, <3>2
    <3> QED
      BY <1>1, <3>3 DEF f
  <2> QED
    BY <1>1, <2>1
<1>7. cmd.op = "run" /\ k = 0 => cmd.csr
  BY <1>1 DEF Renewed
<1>8. Renewed => n = merge(certs[old].names, cmd.domains)
  OBVIOUS
<1> HIDE DEF n, k
<1>9. Request \in Certificate /\ Request.names = n /\ Request.key = k
  <2>1. k \in Nat
    BY <1>1, <1>6
  <2> QED
    BY <1>4, <1>5, <2>1 DEF Certificate
<1> QED
  BY <1>3, <1>6, <1>7, <1>8, <1>9

(* Where a certificate is saved.                                           *)
LEMMA WriteNameInBase ==
  ASSUME StoreOK, res # Absent
  PROVE  /\ WriteName \in Base
         /\ WriteName = SanitizedDomain[certs[res].names[1]] \/ WriteName \in cmd.filename
<1>1. cmd \in Commands /\ res \in 1..Len(certs) /\ certs[res] \in Certificate
  BY DEF StoreOK, Absent
<1>2. cmd.filename \subseteq Base
  BY <1>1, AskedInBase
<1>3. SanitizedDomain[certs[res].names[1]] \in Base
  <2>1. certs[res].names[1] \in Domain
    BY <1>1 DEF Certificate
  <2> QED
    BY <2>1, CliAssumption
<1>4. cmd.filename # {} => WriteName \in cmd.filename
  BY DEF WriteName
<1> QED
  BY <1>2, <1>3, <1>4 DEF WriteName

(* A step between two saves leaves it.                                     *)
LEMMA SameWriteName ==
  ASSUME UNCHANGED <<certs, res, cmd>>
  PROVE  WriteName' = WriteName
BY DEF WriteName

-----------------------------------------------------------------------------
(* A step that leaves the certificates, their files and the command line.  *)
LEMMA StoreSame ==
  ASSUME StoreOK, UNCHANGED <<certs, files, archive, revoked, torn, cmd, index, old, res>>
  PROVE  StoreOK'
BY DEF StoreOK

(* A new certificate leaves the earlier ones in place.                     *)
LEMMA Issued ==
  ASSUME StoreOK, NEW r \in Certificate
  PROVE  /\ Append(certs, r) \in Seq(Certificate) /\ Len(Append(certs, r)) = Len(certs) + 1
         /\ Append(certs, r)[Len(certs) + 1] = r
         /\ \A i \in 1..Len(certs) : Append(certs, r)[i] = certs[i]
         /\ Len(certs) \in Nat
BY DEF StoreOK

(* Every step leaves certificates and files well-formed: obtain adds a     *)
(* certificate, a save writes the files of its own, revoke moves some.     *)
LEMMA StoreNext == StoreOK /\ SavingOK /\ [Next]_vars => StoreOK'
<1> SUFFICES ASSUME StoreOK, SavingOK, [Next]_vars PROVE StoreOK'
  OBVIOUS
<1>a. /\ certs \in Seq(Certificate) /\ \A i \in 1..Len(certs) : certs[i].key \in 0..i
      /\ files \in [Base -> [Ext -> {Absent, Torn} \cup 1..Len(certs)]]
      /\ archive \subseteq Base \X Ext \X ({Torn} \cup 1..Len(certs))
      /\ revoked \subseteq 1..Len(certs) /\ torn \subseteq Base
      /\ cmd \in Commands /\ index \in 1..Len(cmd.domains)
      /\ old \in 0..Len(certs) /\ res \in 0..Len(certs) /\ Len(certs) \in Nat
  BY DEF StoreOK
<1>1. CASE loadPrivateKey
  BY <1>1, StoreSame DEF loadPrivateKey, disk, ca
<1>2. CASE createKeyFile
  BY <1>2, StoreSame DEF createKeyFile, disk, ca
<1>3. CASE encodeKey
  BY <1>3, StoreSame DEF encodeKey, disk, ca
<1>4. CASE LoadAccount
  BY <1>4, StoreSame DEF LoadAccount, disk, ca
<1>5. CASE tryRecoverRegistration
  BY <1>5, StoreSame DEF tryRecoverRegistration, disk, ca
<1>6. CASE SaveEmpties
  BY <1>6, StoreSame DEF SaveEmpties, disk, ca
<1>7. CASE SaveFills
  BY <1>7, StoreSame DEF SaveFills, disk, ca
<1>8. CASE newClient
  BY <1>8, StoreSame DEF newClient, disk, ca
<1>9. CASE handleTOS
  BY <1>9, StoreSame DEF handleTOS, disk, ca
<1>10. CASE register
  BY <1>10, StoreSame DEF register, disk, ca
<1>11. CASE launchHook
  BY <1>11, StoreSame DEF launchHook, disk, ca
<1>12. CASE Invoke
  <2>1. cmd' \in Commands /\ index' \in 1..Len(cmd'.domains)
    BY <1>12, CliAssumption DEF Invoke
  <2>2. old' = 0 /\ res' = 0 /\ UNCHANGED <<certs, files, archive, revoked, torn>>
    BY <1>12 DEF Invoke, disk, ca, Absent
  <2> QED
    BY <1>a, <2>1, <2>2 DEF StoreOK
<1>13. CASE renewRead
  <2>1. UNCHANGED <<certs, files, archive, revoked, torn, cmd, index, res>>
    BY <1>13 DEF renewRead, disk, ca
  <2>2. old' \in 0..Len(certs)
    <3>1. CASE UNCHANGED old
      BY <1>a, <3>1
    <3>2. ASSUME NEW b \in ReadName, files[b]["crt"] \notin {Absent, Torn}, old' = files[b]["crt"]
          PROVE  old' \in 0..Len(certs)
      <4>1. b \in Base
        BY <1>a, AskedInBase DEF ReadName, Asked
      <4>2. files[b]["crt"] \in {Absent, Torn} \cup 1..Len(certs)
        BY <1>a, <4>1 DEF Ext
      <4> QED
        BY <1>a, <3>2, <4>2
    <3> QED
      BY <1>13, <3>1, <3>2, Zenon DEF renewRead
  <2> QED
    BY <1>a, <2>1, <2>2 DEF StoreOK
<1>14. CASE Obtain
  <2>1. Request \in Certificate /\ Request.key \in 0..(Len(certs) + 1)
    BY <1>14, RequestOK DEF Obtain
  <2>2. UNCHANGED <<files, archive, revoked, torn, cmd, index, old>>
    BY <1>14 DEF Obtain, disk
  <2>3. \/ certs' = certs /\ res' = res
        \/ certs' = Append(certs, Request) /\ res' \in {res, Len(certs) + 1}
    BY <1>14 DEF Obtain
  <2>4. CASE certs' = certs /\ res' = res
    BY <2>2, <2>4, StoreSame
  <2>5. CASE certs' = Append(certs, Request) /\ res' \in {res, Len(certs) + 1}
    <3>1. /\ certs' \in Seq(Certificate) /\ Len(certs') = Len(certs) + 1
          /\ certs'[Len(certs) + 1] = Request /\ \A i \in 1..Len(certs) : certs'[i] = certs[i]
      BY <2>1, <2>5, Issued
    <3>2. 1..Len(certs) \subseteq 1..Len(certs') /\ 0..Len(certs) \subseteq 0..Len(certs')
      BY <1>a, <3>1
    <3>3. \A i \in 1..Len(certs') : certs'[i].key \in 0..i
      <4> TAKE i \in 1..Len(certs')
      <4>1. i \in 1..Len(certs) \/ i = Len(certs) + 1
        BY <1>a, <3>1
      <4> QED
        BY <1>a, <2>1, <3>1, <4>1
    <3>4. res' \in 0..Len(certs')
      BY <1>a, <2>5, <3>1
    <3>5. files \in [Base -> [Ext -> {Absent, Torn} \cup 1..Len(certs')]]
      BY <1>a, <3>2
    <3>6. archive \subseteq Base \X Ext \X ({Torn} \cup 1..Len(certs'))
      BY <1>a, <3>2
    <3>7. revoked \subseteq 1..Len(certs') /\ old \in 0..Len(certs')
      BY <1>a, <3>2
    <3> QED
      BY <1>a, <2>2, <3>1, <3>3, <3>4, <3>5, <3>6, <3>7 DEF StoreOK
  <2> QED
    BY <2>3, <2>4, <2>5
<1>15. CASE SaveResourceEmpties
  <2>1. res # Absent /\ WriteName \in Base
    BY <1>15, WriteNameInBase DEF SaveResourceEmpties, SavingOK
  <2>2. UNCHANGED <<certs, archive, revoked, cmd, index, old, res>>
    BY <1>15 DEF SaveResourceEmpties, ca
  <2>3. files' \in [Base -> [Ext -> {Absent, Torn} \cup 1..Len(certs)]]
    <3>1. files' = files \/ files' = [files EXCEPT ![WriteName][Head(todo)] = Torn]
      BY <1>15 DEF SaveResourceEmpties
    <3>2. [files[WriteName] EXCEPT ![Head(todo)] = Torn]
            \in [Ext -> {Absent, Torn} \cup 1..Len(certs)]
      BY <1>a, <2>1, Zenon
    <3> QED
      BY <1>a, <2>1, <3>1, <3>2, Zenon
  <2>4. torn' \subseteq Base
    BY <1>15, <1>a, <2>1 DEF SaveResourceEmpties
  <2> QED
    BY <1>a, <2>2, <2>3, <2>4 DEF StoreOK
<1>16. CASE SaveResourceFills
  <2>1. res # Absent /\ WriteName \in Base
    BY <1>16, WriteNameInBase DEF SaveResourceFills, SavingOK
  <2>2. UNCHANGED <<certs, archive, revoked, cmd, index, old, res>>
    BY <1>16 DEF SaveResourceFills, ca
  <2>3. files' \in [Base -> [Ext -> {Absent, Torn} \cup 1..Len(certs)]]
    <3>1. files' = [files EXCEPT ![WriteName][Head(todo)] = res]
      BY <1>16 DEF SaveResourceFills
    <3>2. res \in {Absent, Torn} \cup 1..Len(certs)
      BY <1>a, <2>1 DEF Absent
    <3> QED
      BY <1>a, <2>1, <3>1, <3>2, Zenon
  <2>4. torn' \subseteq Base
    BY <1>16, <1>a, <2>1 DEF SaveResourceFills
  <2> QED
    BY <1>a, <2>2, <2>3, <2>4 DEF StoreOK
<1>17. CASE revokeOne
  <2>1. UNCHANGED <<certs, files, archive, torn, cmd, index, old, res>>
    BY <1>17, Zenon DEF revokeOne, disk
  <2> DEFINE i == files[SanitizedDomain[cmd.domains[index]]]["crt"]
  <2>2. i \in {Absent, Torn} \cup 1..Len(certs)
    BY <1>a, CurrentDomain DEF Current, Ext
  <2>3. \/ revoked' = revoked
        \/ i \notin {Absent, Torn} /\ revoked' = revoked \cup {i}
    BY <1>17, Zenon DEF revokeOne
  <2> HIDE DEF i
  <2>4. revoked' \subseteq 1..Len(certs)
    BY <1>a, <2>2, <2>3
  <2> QED
    BY <1>a, <2>1, <2>4 DEF StoreOK
<1>18. CASE MoveFile
  <2> DEFINE f == CHOOSE g \in Matches : TRUE
  <2>1. /\ f \in Matches /\ archive' = archive \cup {<<f[1], f[2], files[f[1]][f[2]]>>}
        /\ files' = [files EXCEPT ![f[1]][f[2]] = Absent]
        /\ UNCHANGED <<certs, revoked, torn, cmd, index, old, res>>
    BY <1>18 DEF MoveFile, ca
  <2> HIDE DEF f
  <2>2. /\ f[1] \in {SanitizedDomain[Current]} \cup Continues[Current]
        /\ f[2] \in Ext /\ files[f[1]][f[2]] # Absent
    <3>1. /\ f \in ({SanitizedDomain[Current]} \cup Continues[Current]) \X Ext
          /\ files[f[1]][f[2]] # Absent
      BY <2>1 DEF Matches, Current
    <3> QED
      BY <3>1
  <2>3. f[1] \in Base
    BY <1>a, <2>2, CurrentDomain, CliAssumption
  <2>4. files[f[1]][f[2]] \in {Torn} \cup 1..Len(certs)
    BY <1>a, <2>2, <2>3
  <2>5. archive' \subseteq Base \X Ext \X ({Torn} \cup 1..Len(certs))
    BY <1>a, <2>1, <2>2, <2>3, <2>4
  <2>6. files' \in [Base -> [Ext -> {Absent, Torn} \cup 1..Len(certs)]]
    BY <1>a, <2>1, <2>2, <2>3
  <2> QED
    BY <1>a, <2>1, <2>5, <2>6 DEF StoreOK
<1>19. CASE NextDomain
  <2>1. index' \in 1..Len(cmd.domains)
    BY <1>a, <1>19, CliAssumption DEF NextDomain
  <2>2. UNCHANGED <<certs, files, archive, revoked, torn, cmd, old, res>>
    BY <1>19 DEF NextDomain, disk, ca
  <2> QED
    BY <1>a, <2>1, <2>2 DEF StoreOK
<1>20. CASE Crash
  <2>1. torn' \subseteq Base
    <3>1. pc \in {"save", "fill"} => WriteName \in Base
      BY WriteNameInBase DEF SavingOK
    <3> QED
      BY <1>20, <1>a, <3>1 DEF Crash
  <2>2. UNCHANGED <<certs, files, archive, revoked, cmd, index, old, res>>
    BY <1>20 DEF Crash, ca
  <2> QED
    BY <1>a, <2>1, <2>2 DEF StoreOK
<1>21. CASE UNCHANGED vars
  BY <1>21, StoreSame DEF vars, disk, ca
<1> QED
  BY <1>1, <1>2, <1>3, <1>4, <1>5, <1>6, <1>7, <1>8, <1>9, <1>10, <1>11, <1>12, <1>13, <1>14, <1>15, <1>16, <1>17, <1>18, <1>19, <1>20, <1>21 DEF Next, Step, Finished
-----------------------------------------------------------------------------
(* The list that SaveResource works through.                               *)
LEMMA FilesOK ==
  ASSUME NEW c, NEW w \in BOOLEAN
  PROVE  /\ Files(c, w) \in Seq(Kind) /\ Files(c, w) # <<>> /\ "crt" \in Range(Files(c, w))
         /\ c.key # 0 => "key" \in Range(Files(c, w))
         /\ "fatal" \in Range(Files(c, w)) => c.key = 0 /\ cmd.pem
<1> DEFINE t0 == <<"crt">>
           t1 == IF w THEN <<"issuer">> ELSE <<>>
           t2 == IF c.key = 0 THEN (IF cmd.pem THEN <<"fatal">> ELSE <<>>)
                 ELSE <<"key">> \o (IF cmd.pem THEN <<"pem">> ELSE <<>>)
           t3 == <<"json">>
<1>1. Files(c, w) = ((t0 \o t1) \o t2) \o t3
  BY DEF Files
<1>a. {"crt", "issuer", "key", "pem", "json", "fatal"} \subseteq Kind
  BY DEF Kind, Ext
<1>2. t0 \in Seq(Kind) /\ Range(t0) = {"crt"} /\ t3 \in Seq(Kind) /\ Range(t3) = {"json"}
  BY <1>a, RangeShort
<1>3. t1 \in Seq(Kind) /\ "fatal" \notin Range(t1)
  <2>1. CASE w
    BY <1>a, <2>1, RangeShort
  <2>2. CASE ~w
    BY <2>2, RangeShort
  <2> QED
    BY <2>1, <2>2
<1>4. /\ t2 \in Seq(Kind)
      /\ c.key # 0 => "key" \in Range(t2)
      /\ "fatal" \in Range(t2) => c.key = 0 /\ cmd.pem
  <2>1. CASE c.key = 0 /\ cmd.pem
    BY <1>a, <2>1, RangeShort
  <2>2. CASE c.key = 0 /\ ~cmd.pem
    BY <2>2, RangeShort
  <2>3. CASE c.key # 0
    <3> DEFINE t4 == <<"key">>
               t5 == IF cmd.pem THEN <<"pem">> ELSE <<>>
    <3>1. t4 \in Seq(Kind) /\ Range(t4) = {"key"}
      BY <1>a, RangeShort
    <3>2. t5 \in Seq(Kind) /\ "fatal" \notin Range(t5)
      <4>1. CASE cmd.pem
        BY <1>a, <4>1, RangeShort
      <4>2. CASE ~cmd.pem
        BY <4>2, RangeShort
      <4> QED
        BY <4>1, <4>2
    <3>3. t2 = t4 \o t5
      BY <2>3
    <3> HIDE DEF t2, t4, t5
    <3>4. t2 \in Seq(Kind) /\ Range(t2) = Range(t4) \cup Range(t5)
      BY <3>1, <3>2, <3>3, RangeConcat
    <3> QED
      BY <2>3, <3>1, <3>2, <3>4
  <2> QED
    BY <2>1, <2>2, <2>3
<1> HIDE DEF t0, t1, t2, t3
<1> DEFINE u1 == t0 \o t1
           u2 == u1 \o t2
           u3 == u2 \o t3
<1>5. u1 \in Seq(Kind) /\ Range(u1) = Range(t0) \cup Range(t1)
  BY <1>2, <1>3, RangeConcat
<1> HIDE DEF u1
<1>6. u2 \in Seq(Kind) /\ Range(u2) = Range(u1) \cup Range(t2)
  BY <1>4, <1>5, RangeConcat
<1> HIDE DEF u2
<1>7. u3 \in Seq(Kind) /\ Range(u3) = Range(u2) \cup Range(t3)
  BY <1>2, <1>6, RangeConcat
<1>8. Files(c, w) = u3
  BY <1>1 DEF u1, u2
<1> HIDE DEF u3
<1>9. Range(u3) = {"crt"} \cup Range(t1) \cup Range(t2) \cup {"json"}
  BY <1>2, <1>5, <1>6, <1>7
<1>10. /\ "crt" \in Range(u3)
       /\ c.key # 0 => "key" \in Range(u3)
       /\ "fatal" \in Range(u3) => c.key = 0 /\ cmd.pem
  BY <1>3, <1>4, <1>9
<1>11. u3 # <<>>
  <2>1. Range(<<>>) = {}
    BY RangeShort
  <2> QED
    BY <1>10, <2>1
<1> QED
  BY <1>7, <1>8, <1>10, <1>11

-----------------------------------------------------------------------------
(* Where a command can be, and with which account.                         *)
PathOK ==
  /\ pc \in {"key", "encode", "account", "recover"} => ~client /\ acct = "nil"
  /\ pc = "client" /\ acct = "nil" => accountFile = "absent"
  /\ pc \in {"tos", "register"} => cmd.op = "run" /\ client /\ accountFile = "absent"
  /\ pc \in {"saveAccount", "fillAccount"} /\ client => cmd.op = "run"
  /\ pc = "recover" => accountFile = "incomplete"
  /\ pc = "read" => cmd.op = "renew"
  /\ pc \in {"revoke", "archive"} => cmd.op = "revoke"

(* Every step of a command leads on along its path.                        *)
LEMMA PathNext == ControlOK /\ PathOK /\ [Next]_vars => PathOK'
<1> SUFFICES ASSUME ControlOK, PathOK, [Next]_vars PROVE PathOK'
  OBVIOUS
<1> USE DEF PathOK, Goto, End, Fatal, disk, ca
<1>1. CASE loadPrivateKey
  BY <1>1 DEF loadPrivateKey
<1>2. CASE createKeyFile
  BY <1>2 DEF createKeyFile
<1>3. CASE encodeKey
  BY <1>3 DEF encodeKey
<1>4. CASE LoadAccount
  BY <1>4 DEF LoadAccount
<1>5. CASE tryRecoverRegistration
  BY <1>5 DEF tryRecoverRegistration
<1>6. CASE SaveEmpties
  BY <1>6 DEF SaveEmpties
<1>7. CASE SaveFills
  BY <1>7 DEF SaveFills, ControlOK
<1>8. CASE newClient
  BY <1>8 DEF newClient
<1>9. CASE handleTOS
  BY <1>9 DEF handleTOS
<1>10. CASE register
  BY <1>10, Zenon DEF register
<1>11. CASE renewRead
  BY <1>11 DEF renewRead
<1>12. CASE Obtain
  BY <1>12 DEF Obtain
<1>13. CASE SaveResourceEmpties
  BY <1>13 DEF SaveResourceEmpties
<1>14. CASE SaveResourceFills
  BY <1>14 DEF SaveResourceFills
<1>15. CASE launchHook
  BY <1>15 DEF launchHook
<1>16. CASE revokeOne
  BY <1>16, Zenon DEF revokeOne
<1>17. CASE MoveFile
  BY <1>17 DEF MoveFile
<1>18. CASE NextDomain
  BY <1>18 DEF NextDomain
<1>19. CASE Invoke
  BY <1>19 DEF Invoke
<1>20. CASE Crash
  BY <1>20 DEF Crash
<1>21. CASE UNCHANGED vars
  BY <1>21 DEF vars
<1> QED
  BY <1>1, <1>2, <1>3, <1>4, <1>5, <1>6, <1>7, <1>8, <1>9, <1>10, <1>11, <1>12, <1>13, <1>14, <1>15, <1>16, <1>17, <1>18, <1>19, <1>20, <1>21, Zenon DEF Next, Step, Finished

(* A step that does not lead to the request or the save.                   *)
LEMMA SavingQuiet ==
  ASSUME SavingOK, res' = res, pc' \notin {"obtain", "save", "fill"},
         pc \in {"save", "fill", "hook", "idle"} => pc' \in {"hook", "idle"}
  PROVE  SavingOK'
BY DEF SavingOK

(* Every step preserves what obtain and save rely on: renew reads what it  *)
(* goes on with, and every turn of a save takes one file off its list.     *)
LEMMA SavingNext == StoreOK /\ PathOK /\ SavingOK /\ [Next]_vars => SavingOK'
<1> SUFFICES ASSUME StoreOK, PathOK, SavingOK, [Next]_vars PROVE SavingOK'
  OBVIOUS
<1>1. CASE loadPrivateKey
  BY <1>1, SavingQuiet DEF loadPrivateKey, Goto, End, Fatal
<1>2. CASE createKeyFile
  BY <1>2, SavingQuiet DEF createKeyFile, Goto, End, Fatal
<1>3. CASE encodeKey
  BY <1>3, SavingQuiet DEF encodeKey, Goto, End, Fatal
<1>4. CASE LoadAccount
  BY <1>4, SavingQuiet DEF LoadAccount, Goto, End, Fatal
<1>5. CASE tryRecoverRegistration
  BY <1>5, SavingQuiet DEF tryRecoverRegistration, Goto, End, Fatal
<1>6. CASE SaveEmpties
  BY <1>6, SavingQuiet DEF SaveEmpties, Goto, End, Fatal
<1>7. CASE handleTOS
  BY <1>7, SavingQuiet DEF handleTOS, Goto, End, Fatal
<1>8. CASE register
  BY <1>8, SavingQuiet, Zenon DEF register, Goto, End, Fatal
<1>9. CASE launchHook
  BY <1>9, SavingQuiet DEF launchHook, Goto, End, Fatal
<1>10. CASE revokeOne
  BY <1>10, SavingQuiet DEF revokeOne, Goto, End, Fatal
<1>11. CASE MoveFile
  BY <1>11, SavingQuiet DEF MoveFile, Goto, End, Fatal
<1>12. CASE NextDomain
  BY <1>12, SavingQuiet DEF NextDomain, Goto, End, Fatal
<1>13. CASE Crash
  BY <1>13, SavingQuiet DEF Crash, Goto, End, Fatal
<1>14. CASE Invoke
  BY <1>14 DEF Invoke, Goto, SavingOK
<1>15. CASE SaveFills
  <2>1. CASE client
    <3>1. res' = Absent /\ pc' = "obtain" /\ ~Renewed'
      BY <1>15, <2>1 DEF SaveFills, Goto, PathOK, SavingOK, Renewed
    <3> QED
      BY <3>1 DEF SavingOK
  <2>2. CASE ~client
    BY <1>15, <2>2, SavingQuiet DEF SaveFills, Goto
  <2> QED
    BY <2>1, <2>2
<1>16. CASE newClient
  <2>1. CASE pc' = "obtain"
    <3>1. res' = Absent /\ ~Renewed'
      BY <1>16, <2>1 DEF newClient, Goto, Fatal, End, SavingOK, Renewed
    <3> QED
      BY <2>1, <3>1 DEF SavingOK
  <2>2. CASE pc' # "obtain"
    <3>1. pc = "client" /\ res' = res /\ pc' \notin {"save", "fill"}
      BY <1>16 DEF newClient, Goto, Fatal, End
    <3> QED
      BY <2>2, <3>1, SavingQuiet
  <2> QED
    BY <2>1, <2>2
<1>17. CASE renewRead
  <2>1. CASE pc' = "obtain"
    <3>1. res' = Absent
      BY <1>17 DEF renewRead, SavingOK
    <3>2. PICK b \in ReadName :
            /\ files[b]["crt"] \notin {Absent, Torn} /\ old' = files[b]["crt"]
            /\ ~(~cmd.csr /\ cmd.reuseKey /\ files[b]["key"] \in {Absent, Torn})
      BY <1>17, <2>1 DEF renewRead, Goto, Fatal, End
    <3>3. UNCHANGED <<files, cmd>>
      BY <1>17 DEF renewRead, disk
    <3>4. Renewed' => Renewed /\ b = Asked /\ Asked' = Asked
      BY <3>3 DEF Renewed, ReadName, Asked
    <3> QED
      BY <2>1, <3>1, <3>2, <3>3, <3>4 DEF SavingOK, Renewed
  <2>2. CASE pc' # "obtain"
    <3>1. pc = "read" /\ res' = res /\ pc' \notin {"save", "fill"}
      BY <1>17 DEF renewRead, Goto, Fatal, End
    <3> QED
      BY <2>2, <3>1, SavingQuiet
  <2> QED
    BY <2>1, <2>2
<1>18. CASE Obtain
  <2>1. CASE pc' = "save"
    <3>1. /\ certs' = Append(certs, Request) /\ res' = Len(certs) + 1 /\ cmd' = cmd
          /\ \E w \in BOOLEAN : todo' = Files(Request, w)
      BY <1>18, <2>1 DEF Obtain, Fatal, End
    <3>2. /\ Request \in Certificate
          /\ cmd.op = "run" /\ Request.key = 0 => cmd.csr
      BY <1>18, RequestOK DEF Obtain
    <3>3. certs'[res'] = Request /\ res' # Absent
      BY <3>1, <3>2, Issued DEF Absent
    <3>4. /\ todo' \in Seq(Kind) /\ todo' # <<>> /\ "crt" \in Range(todo')
          /\ Request.key # 0 => "key" \in Range(todo')
          /\ "fatal" \in Range(todo') => Request.key = 0 /\ cmd.pem
      BY <3>1, FilesOK
    <3> QED
      BY <2>1, <3>1, <3>2, <3>3, <3>4 DEF SavingOK, Kind
  <2>2. CASE pc' # "save"
    <3>1. pc = "obtain" /\ res' = res /\ pc' = "idle"
      BY <1>18, <2>2 DEF Obtain, Goto, Fatal, End
    <3> QED
      BY <3>1, SavingQuiet
  <2> QED
    BY <2>1, <2>2
<1>19. CASE SaveResourceEmpties
  <2>1. CASE Head(todo) = "fatal"
    <3>1. pc' = "idle" /\ res' = res
      BY <1>19, <2>1 DEF SaveResourceEmpties, Fatal, End
    <3> QED
      BY <3>1, SavingQuiet
  <2>2. CASE Head(todo) # "fatal"
    <3>1. /\ pc = "save" /\ pc' = "fill" /\ UNCHANGED <<todo, res, certs, cmd>>
          /\ files' = [files EXCEPT ![WriteName][Head(todo)] = Torn]
      BY <1>19, <2>2 DEF SaveResourceEmpties, Goto, ca
    <3>2. WriteName' = WriteName
      BY <3>1, SameWriteName
    <3>3. /\ res # Absent /\ todo \in Seq(Kind) /\ todo # <<>> /\ Head(todo) \in Range(todo)
          /\ WriteName \in Base
      BY <3>1, RangeTail, WriteNameInBase DEF SavingOK, Kind
    <3>4. ASSUME NEW e \in {"crt", "key"}, files[WriteName][e] = res \/ e \in Range(todo)
          PROVE  files'[WriteName][e] = res \/ e \in Range(todo)
      <4>1. CASE e = Head(todo)
        BY <3>3, <4>1
      <4>2. CASE e # Head(todo)
        <5>1. files'[WriteName][e] = files[WriteName][e]
          BY <3>1, <3>3, <4>2 DEF StoreOK, Ext
        <5> QED
          BY <3>4, <5>1
      <4> QED
        BY <4>1, <4>2
    <3> QED
      BY <2>2, <3>1, <3>2, <3>4 DEF SavingOK
  <2> QED
    BY <2>1, <2>2
<1>20. CASE SaveResourceFills
  <2>1. CASE ~(Len(todo) > 1)
    <3>1. pc' = "hook" /\ res' = res
      BY <1>20, <2>1 DEF SaveResourceFills, Goto
    <3> QED
      BY <3>1, SavingQuiet
  <2>2. CASE Len(todo) > 1
    <3>1. /\ pc = "fill" /\ pc' = "save" /\ UNCHANGED <<res, certs, cmd>> /\ todo' = Tail(todo)
          /\ files' = [files EXCEPT ![WriteName][Head(todo)] = res]
      BY <1>20, <2>2 DEF SaveResourceFills, Goto, ca
    <3>2. WriteName' = WriteName
      BY <3>1, SameWriteName
    <3>3. res # Absent /\ todo \in Seq(Kind) /\ todo # <<>> /\ WriteName \in Base
      BY <3>1, WriteNameInBase DEF SavingOK, Kind
    <3>4. /\ todo' \in Seq(Kind) /\ todo' # <<>>
          /\ Range(todo) = {Head(todo)} \cup Range(todo')
      BY <2>2, <3>1, <3>3, RangeTail
    <3>5. ASSUME NEW e \in {"crt", "key"}, files[WriteName][e] = res \/ e \in Range(todo)
          PROVE  files'[WriteName][e] = res \/ e \in Range(todo')
      <4>1. CASE e = Head(todo)
        BY <3>1, <3>3, <4>1 DEF StoreOK, Ext
      <4>2. CASE e # Head(todo)
        <5>1. files'[WriteName][e] = files[WriteName][e]
          BY <3>1, <3>3, <4>2 DEF StoreOK, Ext
        <5> QED
          BY <3>4, <3>5, <4>2, <5>1
      <4> QED
        BY <4>1, <4>2
    <3>6. "fatal" \in Range(todo') => "fatal" \in Range(todo)
      BY <3>4
    <3> QED
      BY <3>1, <3>2, <3>4, <3>5, <3>6 DEF SavingOK, Kind
  <2> QED
    BY <2>1, <2>2
<1>21. CASE UNCHANGED vars
  <2>1. WriteName' = WriteName
    BY <1>21, SameWriteName DEF vars, ca
  <2>2. Asked' = Asked /\ Renewed' = Renewed
    BY <1>21 DEF vars, Asked, Renewed
  <2> QED
    BY <1>21, <2>1, <2>2 DEF vars, disk, ca, SavingOK
<1> QED
  BY <1>1, <1>2, <1>3, <1>4, <1>5, <1>6, <1>7, <1>8, <1>9, <1>10, <1>11, <1>12, <1>13, <1>14, <1>15, <1>16, <1>17, <1>18, <1>19, <1>20, <1>21 DEF Next, Step, Finished

-----------------------------------------------------------------------------
(* While its files are moved, its certificate is revoked or already moved. *)
ArchiveInv ==
  /\ cmd \in Commands /\ index \in 1..Len(cmd.domains)
  /\ files = [b \in Base |-> [e \in Ext |-> files[b][e]]]
  /\ pc = "archive" => files[SanitizedDomain[Current]]["crt"] \in revoked \cup {Absent}
  /\ ArchivedAreRevoked

LEMMA ArchiveInit == Init => ArchiveInv
<1> SUFFICES ASSUME Init PROVE ArchiveInv
  OBVIOUS
<1>1. cmd \in Commands /\ index \in 1..Len(cmd.domains)
  BY CliAssumption DEF Init
<1> QED
  BY <1>1 DEF Init, Nobody, ArchiveInv, ArchivedAreRevoked

(* A step that moves no file and does not begin to.                        *)
LEMMA Elsewhere ==
  ASSUME ArchiveInv, archive' = archive, revoked \subseteq revoked', pc' # "archive",
         cmd' \in Commands, index' \in 1..Len(cmd'.domains),
         files' = [b \in Base |-> [e \in Ext |-> files'[b][e]]]
  PROVE  ArchiveInv'
BY DEF ArchiveInv, ArchivedAreRevoked

LEMMA ArchiveStep == ArchiveInv /\ [Next]_vars => ArchiveInv'
<1> SUFFICES ASSUME ArchiveInv, [Next]_vars PROVE ArchiveInv'
  OBVIOUS
<1>a. /\ cmd \in Commands /\ index \in 1..Len(cmd.domains)
      /\ files = [b \in Base |-> [e \in Ext |-> files[b][e]]]
  BY DEF ArchiveInv
<1>1. CASE loadPrivateKey
  BY <1>a, <1>1, Elsewhere DEF loadPrivateKey, Goto, End, Fatal, disk, ca
<1>2. CASE createKeyFile
  BY <1>a, <1>2, Elsewhere DEF createKeyFile, Goto, End, Fatal, disk, ca
<1>3. CASE encodeKey
  BY <1>a, <1>3, Elsewhere DEF encodeKey, Goto, End, Fatal, disk, ca
<1>4. CASE LoadAccount
  BY <1>a, <1>4, Elsewhere DEF LoadAccount, Goto, End, Fatal, disk, ca
<1>5. CASE tryRecoverRegistration
  BY <1>a, <1>5, Elsewhere DEF tryRecoverRegistration, Goto, End, Fatal, disk, ca
<1>6. CASE SaveEmpties
  BY <1>a, <1>6, Elsewhere DEF SaveEmpties, Goto, End, Fatal, disk, ca
<1>7. CASE SaveFills
  BY <1>a, <1>7, Elsewhere DEF SaveFills, Goto, End, Fatal, disk, ca
<1>8. CASE newClient
  BY <1>a, <1>8, Elsewhere DEF newClient, Goto, End, Fatal, disk, ca
<1>9. CASE handleTOS
  BY <1>a, <1>9, Elsewhere DEF handleTOS, Goto, End, Fatal, disk, ca
<1>10. CASE register
  BY <1>a, <1>10, Elsewhere, Zenon DEF register, Goto, End, Fatal, disk, ca
<1>11. CASE renewRead
  BY <1>a, <1>11, Elsewhere, Zenon DEF renewRead, Goto, End, Fatal, disk, ca
<1>12. CASE Obtain
  BY <1>a, <1>12, Elsewhere DEF Obtain, Goto, End, Fatal, disk, ca
<1>13. CASE launchHook
  BY <1>a, <1>13, Elsewhere DEF launchHook, Goto, End, Fatal, disk, ca
<1>14. CASE Crash
  BY <1>a, <1>14, Elsewhere DEF Crash, Goto, End, Fatal, disk, ca
<1>15. CASE SaveResourceEmpties
  <2>1. files' = [b \in Base |-> [e \in Ext |-> files'[b][e]]]
    BY <1>a, <1>15 DEF SaveResourceEmpties
  <2> QED
    BY <1>a, <1>15, <2>1, Elsewhere DEF SaveResourceEmpties, Goto, End, Fatal, disk, ca
<1>16. CASE SaveResourceFills
  <2>1. files' = [b \in Base |-> [e \in Ext |-> files'[b][e]]]
    BY <1>a, <1>16, Zenon DEF SaveResourceFills
  <2> QED
    BY <1>a, <1>16, <2>1, Elsewhere, SMTT(20) DEF SaveResourceFills, Goto, End, Fatal, disk, ca
<1>17. CASE Invoke
  <2>1. cmd' \in Commands /\ index' \in 1..Len(cmd'.domains)
    BY <1>17, CliAssumption DEF Invoke
  <2> QED
    BY <1>a, <1>17, <2>1, Elsewhere DEF Invoke, Goto, disk, ca
<1>18. CASE revokeOne
  <2>1. CASE pc' # "archive"
    <3>1. revoked \subseteq revoked'
      BY <1>18 DEF revokeOne
    <3> QED
      BY <1>a, <1>18, <2>1, <3>1, Elsewhere, Zenon DEF revokeOne, disk
  <2>2. CASE pc' = "archive"
    <3>1. revoked' = revoked \cup {files[SanitizedDomain[Current]]["crt"]}
      BY <1>18, <2>2 DEF revokeOne, Current, End, Fatal
    <3>2. Current' = Current /\ UNCHANGED <<cmd, index, files, archive>>
      BY <1>18 DEF revokeOne, Current, disk
    <3> QED
      BY <1>a, <3>1, <3>2 DEF ArchiveInv, ArchivedAreRevoked
  <2> QED
    BY <2>1, <2>2
<1>19. CASE MoveFile
  <2> DEFINE f == CHOOSE g \in Matches : TRUE
  <2>1. /\ pc = "archive" /\ f \in Matches /\ archive' = archive \cup {<<f[1], f[2], files[f[1]][f[2]]>>}
        /\ files' = [files EXCEPT ![f[1]][f[2]] = Absent]
        /\ Current' = Current /\ UNCHANGED <<cmd, index, revoked>>
    BY <1>19 DEF MoveFile, ca, Current
  <2> HIDE DEF f
  <2>2. /\ f[1] \in {SanitizedDomain[Current]} \cup Continues[Current]
        /\ f[2] \in Ext /\ files[f[1]][f[2]] # Absent
    <3>1. /\ f \in ({SanitizedDomain[Current]} \cup Continues[Current]) \X Ext
          /\ files[f[1]][f[2]] # Absent
      BY <2>1 DEF Matches, Current
    <3> QED
      BY <3>1
  <2>3. Current \in Domain /\ SanitizedDomain[Current] \in Base
    BY <1>a, CurrentDomain
  <2>4. files[SanitizedDomain[Current]]["crt"] \in revoked \cup {Absent}
    BY <2>1 DEF ArchiveInv
  <2>5. ArchivedAreRevoked'
    <3> SUFFICES ASSUME NEW g \in archive', g[2] = "crt"
                 PROVE  g[3] \in revoked \/ \E d \in Domain : g[1] \in Continues[d]
      BY <2>1 DEF ArchivedAreRevoked
    <3>1. CASE g \in archive
      BY <3>1 DEF ArchiveInv, ArchivedAreRevoked
    <3>2. CASE g = <<f[1], f[2], files[f[1]][f[2]]>>
      BY <2>2, <2>3, <2>4, <3>2
    <3> QED
      BY <2>1, <3>1, <3>2
  <2>6. files' = [b \in Base |-> [e \in Ext |-> files'[b][e]]]
    BY <1>a, <2>1, Zenon
  <2>7. files'[SanitizedDomain[Current]]["crt"] \in revoked \cup {Absent}
    BY <1>a, <2>1, <2>3, <2>4 DEF Ext
  <2> QED
    BY <1>a, <2>1, <2>5, <2>6, <2>7, Zenon DEF ArchiveInv
<1>20. CASE NextDomain
  <2>1. index' \in 1..Len(cmd.domains)
    BY <1>a, <1>20, CliAssumption DEF NextDomain
  <2> QED
    BY <1>a, <1>20, <2>1, Elsewhere DEF NextDomain, Goto, End, disk, ca
<1>21. CASE UNCHANGED vars
  BY <1>21 DEF vars, disk, ca, ArchiveInv, ArchivedAreRevoked, Current
<1> QED
  BY <1>1, <1>2, <1>3, <1>4, <1>5, <1>6, <1>7, <1>8, <1>9, <1>10, <1>11, <1>12, <1>13, <1>14, <1>15, <1>16, <1>17, <1>18, <1>19, <1>20, <1>21 DEF Next, Step, Finished

(* However many domains revoke is given, and wherever commands stop, a     *)
(* certificate is archived only after the CA revoked it, or because its    *)
(* name continues one of the domains.                                      *)
THEOREM ArchiveSafe == Spec => []ArchivedAreRevoked
<1>1. ArchiveInv => ArchivedAreRevoked
  BY DEF ArchiveInv
<1> QED
  BY <1>1, ArchiveInit, ArchiveStep, PTL DEF Spec

-----------------------------------------------------------------------------
(* Certificates are only added.                                            *)
LEMMA Grows ==
  ASSUME StoreOK, SavingOK, [Next]_vars
  PROVE  \A i \in 1..Len(certs) : i \in 1..Len(certs') /\ certs'[i] = certs[i]
<1>1. CASE UNCHANGED certs
  BY <1>1
<1>2. CASE Obtain
  <2>1. Request \in Certificate
    BY <1>2, RequestOK DEF Obtain
  <2>2. CASE certs' = Append(certs, Request)
    BY <2>1, <2>2, Issued
  <2> QED
    BY <1>1, <1>2, <2>2 DEF Obtain
<1> QED
  BY <1>1, <1>2, Zenon DEF Next, Step, Finished, vars, ca,
     loadPrivateKey, createKeyFile, encodeKey, LoadAccount, tryRecoverRegistration, SaveEmpties, SaveFills, newClient, handleTOS, register, renewRead, SaveResourceEmpties, SaveResourceFills, launchHook, revokeOne, MoveFile, NextDomain, Invoke, Crash

(* A step that writes no file keeps the pairs, unless it leaves a save.    *)
LEMMA PairsQuiet ==
  ASSUME StoreOK, PairsMatch, files' = files, torn \subseteq torn',
         \A i \in 1..Len(certs) : certs'[i] = certs[i],
         pc \in {"save", "fill"} => WriteName \in torn'
  PROVE  PairsMatch'
<1> SUFFICES ASSUME NEW b \in Base \ torn', files[b]["crt"] # Absent, files[b]["key"] # Absent
             PROVE  /\ files[b]["crt"] # Torn /\ files[b]["key"] # Torn
                    /\ certs'[files[b]["crt"]].key = certs'[files[b]["key"]].key
  BY DEF PairsMatch
<1>1. /\ files[b]["crt"] # Torn /\ files[b]["key"] # Torn
      /\ certs[files[b]["crt"]].key = certs[files[b]["key"]].key
  BY DEF PairsMatch
<1>2. files[b]["crt"] \in 1..Len(certs) /\ files[b]["key"] \in 1..Len(certs)
  BY <1>1 DEF StoreOK, Ext
<1> QED
  BY <1>1, <1>2

(* Every step keeps the pairs: a save that ends has written both files.    *)
LEMMA PairsNext == StoreOK /\ SavingOK /\ PairsMatch /\ [Next]_vars => PairsMatch'
<1> SUFFICES ASSUME StoreOK, SavingOK, PairsMatch, [Next]_vars PROVE PairsMatch'
  OBVIOUS
<1>a. \A i \in 1..Len(certs) : certs'[i] = certs[i]
  BY Grows
<1>1. CASE loadPrivateKey
  BY <1>a, <1>1, PairsQuiet DEF loadPrivateKey, disk
<1>2. CASE createKeyFile
  BY <1>a, <1>2, PairsQuiet DEF createKeyFile, disk
<1>3. CASE encodeKey
  BY <1>a, <1>3, PairsQuiet DEF encodeKey, disk
<1>4. CASE LoadAccount
  BY <1>a, <1>4, PairsQuiet DEF LoadAccount, disk
<1>5. CASE tryRecoverRegistration
  BY <1>a, <1>5, PairsQuiet DEF tryRecoverRegistration, disk
<1>6. CASE SaveEmpties
  BY <1>a, <1>6, PairsQuiet DEF SaveEmpties, disk
<1>7. CASE SaveFills
  BY <1>a, <1>7, PairsQuiet DEF SaveFills, disk
<1>8. CASE newClient
  BY <1>a, <1>8, PairsQuiet DEF newClient, disk
<1>9. CASE handleTOS
  BY <1>a, <1>9, PairsQuiet DEF handleTOS, disk
<1>10. CASE register
  BY <1>a, <1>10, PairsQuiet DEF register, disk
<1>11. CASE renewRead
  BY <1>a, <1>11, PairsQuiet DEF renewRead, disk
<1>12. CASE launchHook
  BY <1>a, <1>12, PairsQuiet DEF launchHook, disk
<1>13. CASE revokeOne
  BY <1>a, <1>13, PairsQuiet, Zenon DEF revokeOne, disk
<1>14. CASE NextDomain
  BY <1>a, <1>14, PairsQuiet DEF NextDomain, disk
<1>15. CASE Invoke
  BY <1>a, <1>15, PairsQuiet DEF Invoke, disk
<1>16. CASE Obtain
  BY <1>a, <1>16, PairsQuiet DEF Obtain, disk
<1>17. CASE Crash
  BY <1>a, <1>17, PairsQuiet DEF Crash, disk
<1>18. CASE SaveResourceEmpties
  <2>1. pc = "save" /\ UNCHANGED <<certs, res, cmd>>
    BY <1>18 DEF SaveResourceEmpties, ca
  <2>a. WriteName' = WriteName
    BY <2>1, SameWriteName
  <2>2. WriteName \in Base
    BY <2>1, WriteNameInBase DEF SavingOK
  <2>3. CASE Head(todo) = "fatal"
    <3>1. files' = files /\ torn' = torn \cup {WriteName}
      BY <1>18, <2>3 DEF SaveResourceEmpties
    <3> QED
      BY <1>a, <3>1, PairsQuiet
  <2>4. CASE Head(todo) # "fatal"
    <3>1. pc' = "fill" /\ torn' = torn /\ files' = [files EXCEPT ![WriteName][Head(todo)] = Torn]
      BY <1>18, <2>4 DEF SaveResourceEmpties, Goto
    <3>2. \A b \in Base \ {WriteName} : files'[b] = files[b]
      BY <2>2, <3>1 DEF StoreOK
    <3> QED
      BY <2>1, <2>a, <3>1, <3>2 DEF PairsMatch
  <2> QED
    BY <2>3, <2>4
<1>19. CASE SaveResourceFills
  <2>1. /\ pc = "fill" /\ UNCHANGED <<certs, res, cmd>>
        /\ files' = [files EXCEPT ![WriteName][Head(todo)] = res]
    BY <1>19 DEF SaveResourceFills, ca
  <2>a. WriteName' = WriteName
    BY <2>1, SameWriteName
  <2>b. res # Absent
    BY <2>1 DEF SavingOK
  <2>2. WriteName \in Base /\ res # Absent /\ res \in 1..Len(certs)
    <3>1. res \in 1..Len(certs)
      BY <2>b DEF StoreOK, Absent
    <3> QED
      BY <2>b, <3>1, WriteNameInBase
  <2>3. \A b \in Base \ {WriteName} : files'[b] = files[b]
    BY <2>1, <2>2 DEF StoreOK
  <2>4. CASE Len(todo) > 1
    <3>1. pc' = "save" /\ torn' = torn
      BY <1>19, <2>4 DEF SaveResourceFills, Goto
    <3> QED
      BY <2>1, <2>a, <2>3, <3>1 DEF PairsMatch
  <2>5. CASE ~(Len(todo) > 1)
    <3>1. torn' = IF certs[res].key = 0 THEN torn \cup {WriteName} ELSE torn \ {WriteName}
      BY <1>19, <2>5 DEF SaveResourceFills
    <3>2. ASSUME certs[res].key # 0
          PROVE  files'[WriteName]["crt"] = res /\ files'[WriteName]["key"] = res
      <4>1. todo \in Seq(Kind) /\ todo # <<>>
        BY <2>1 DEF SavingOK, Kind
      <4>2. Range(todo) = {Head(todo)}
        BY <2>5, <4>1, RangeTail
      <4>3. \A e \in {"crt", "key"} : files[WriteName][e] = res \/ e = Head(todo)
        BY <2>1, <3>2, <4>2 DEF SavingOK
      <4> QED
        BY <2>1, <2>2, <4>3 DEF StoreOK, Ext
    <3>3. res # Torn
      BY <2>2 DEF Torn, StoreOK
    <3> SUFFICES ASSUME NEW b \in Base \ torn', files'[b]["crt"] # Absent, files'[b]["key"] # Absent
                 PROVE  /\ files'[b]["crt"] # Torn /\ files'[b]["key"] # Torn
                        /\ certs[files'[b]["crt"]].key = certs[files'[b]["key"]].key
      BY <2>1 DEF PairsMatch
    <3>4. CASE b = WriteName
      BY <3>1, <3>2, <3>3, <3>4
    <3>5. CASE b # WriteName
      BY <2>1, <2>3, <3>1, <3>5 DEF PairsMatch
    <3> QED
      BY <3>4, <3>5
  <2> QED
    BY <2>4, <2>5
<1>20. CASE MoveFile
  <2>1. pc = "archive" /\ pc' = pc /\ UNCHANGED <<certs, torn>>
    BY <1>20 DEF MoveFile, ca
  <2>2. ASSUME NEW b \in Base, NEW e \in Ext
        PROVE  files'[b][e] \in {files[b][e], Absent}
    <3>1. PICK f : files' = [files EXCEPT ![f[1]][f[2]] = Absent]
      BY <1>20, Zenon DEF MoveFile
    <3> QED
      BY <3>1 DEF StoreOK
  <2> QED
    BY <2>1, <2>2 DEF PairsMatch, Ext
<1>21. CASE UNCHANGED vars
  <2>1. WriteName' = WriteName
    BY <1>21, SameWriteName DEF vars, ca
  <2> QED
    BY <1>21, <2>1 DEF vars, disk, ca, PairsMatch
<1> QED
  BY <1>1, <1>2, <1>3, <1>4, <1>5, <1>6, <1>7, <1>8, <1>9, <1>10, <1>11, <1>12, <1>13, <1>14, <1>15, <1>16, <1>17, <1>18, <1>19, <1>20, <1>21 DEF Next, Step, Finished

-----------------------------------------------------------------------------
(* A .crt file is named after its certificate's first name, or by          *)
(* --filename.                                                             *)
NamedAfter ==
  \A b \in Base : files[b]["crt"] \notin {Absent, Torn} =>
    \/ SanitizedDomain[certs[files[b]["crt"]].names[1]] = b
    \/ \E c \in Commands : b \in c.filename

(* A step that saves no certificate, and one that does.                    *)
LEMMA NamedQuiet ==
  ASSUME StoreOK, NamedAfter, \A i \in 1..Len(certs) : certs'[i] = certs[i],
         \A b \in Base : files'[b]["crt"] \in {files[b]["crt"], Absent, Torn}
  PROVE  NamedAfter'
<1> SUFFICES ASSUME NEW b \in Base, files'[b]["crt"] \notin {Absent, Torn}
             PROVE  \/ SanitizedDomain[certs'[files'[b]["crt"]].names[1]] = b
                    \/ \E c \in Commands : b \in c.filename
  BY DEF NamedAfter
<1>1. files'[b]["crt"] = files[b]["crt"] /\ files[b]["crt"] \in 1..Len(certs)
  BY DEF StoreOK, Ext
<1> QED
  BY <1>1 DEF NamedAfter

LEMMA NamedNext == StoreOK /\ SavingOK /\ NamedAfter /\ [Next]_vars => NamedAfter'
<1> SUFFICES ASSUME StoreOK, SavingOK, NamedAfter, [Next]_vars PROVE NamedAfter'
  OBVIOUS
<1>a. \A i \in 1..Len(certs) : certs'[i] = certs[i]
  BY Grows
<1>1. CASE loadPrivateKey
  BY <1>a, <1>1, NamedQuiet DEF loadPrivateKey, disk
<1>2. CASE createKeyFile
  BY <1>a, <1>2, NamedQuiet DEF createKeyFile, disk
<1>3. CASE encodeKey
  BY <1>a, <1>3, NamedQuiet DEF encodeKey, disk
<1>4. CASE LoadAccount
  BY <1>a, <1>4, NamedQuiet DEF LoadAccount, disk
<1>5. CASE tryRecoverRegistration
  BY <1>a, <1>5, NamedQuiet DEF tryRecoverRegistration, disk
<1>6. CASE SaveEmpties
  BY <1>a, <1>6, NamedQuiet DEF SaveEmpties, disk
<1>7. CASE SaveFills
  BY <1>a, <1>7, NamedQuiet DEF SaveFills, disk
<1>8. CASE newClient
  BY <1>a, <1>8, NamedQuiet DEF newClient, disk
<1>9. CASE handleTOS
  BY <1>a, <1>9, NamedQuiet DEF handleTOS, disk
<1>10. CASE register
  BY <1>a, <1>10, NamedQuiet DEF register, disk
<1>11. CASE renewRead
  BY <1>a, <1>11, NamedQuiet DEF renewRead, disk
<1>12. CASE launchHook
  BY <1>a, <1>12, NamedQuiet DEF launchHook, disk
<1>13. CASE revokeOne
  BY <1>a, <1>13, NamedQuiet, Zenon DEF revokeOne, disk
<1>14. CASE NextDomain
  BY <1>a, <1>14, NamedQuiet DEF NextDomain, disk
<1>15. CASE Invoke
  BY <1>a, <1>15, NamedQuiet DEF Invoke, disk
<1>16. CASE Obtain
  BY <1>a, <1>16, NamedQuiet DEF Obtain, disk
<1>17. CASE Crash
  BY <1>a, <1>17, NamedQuiet DEF Crash, disk
<1>18. CASE SaveResourceEmpties
  <2>1. files' = files \/ files' = [files EXCEPT ![WriteName][Head(todo)] = Torn]
    BY <1>18 DEF SaveResourceEmpties
  <2>2. \A b \in Base : files'[b]["crt"] \in {files[b]["crt"], Absent, Torn}
    BY <2>1, Zenon DEF StoreOK, Ext
  <2> QED
    BY <1>a, <2>2, NamedQuiet
<1>19. CASE SaveResourceFills
  <2>1. /\ pc = "fill" /\ UNCHANGED <<certs, res, cmd>>
        /\ files' = [files EXCEPT ![WriteName][Head(todo)] = res]
    BY <1>19 DEF SaveResourceFills, ca
  <2>2. /\ WriteName \in Base /\ cmd \in Commands
        /\ WriteName = SanitizedDomain[certs[res].names[1]] \/ WriteName \in cmd.filename
    BY <2>1, WriteNameInBase DEF SavingOK, StoreOK
  <2> SUFFICES ASSUME NEW b \in Base, files'[b]["crt"] \notin {Absent, Torn}
               PROVE  \/ SanitizedDomain[certs[files'[b]["crt"]].names[1]] = b
                      \/ \E c \in Commands : b \in c.filename
    BY <2>1 DEF NamedAfter
  <2>3. files'[b]["crt"] = files[b]["crt"] \/ (b = WriteName /\ files'[b]["crt"] = res)
    BY <2>1, <2>2 DEF StoreOK, Ext
  <2> QED
    BY <2>2, <2>3 DEF NamedAfter
<1>20. CASE MoveFile
  <2>1. \A b \in Base : files'[b]["crt"] \in {files[b]["crt"], Absent, Torn}
    <3>1. PICK f : files' = [files EXCEPT ![f[1]][f[2]] = Absent]
      BY <1>20, Zenon DEF MoveFile
    <3> QED
      BY <3>1 DEF StoreOK, Ext
  <2> QED
    BY <1>a, <2>1, NamedQuiet
<1>21. CASE UNCHANGED vars
  BY <1>a, <1>21, NamedQuiet DEF vars, disk
<1> QED
  BY <1>1, <1>2, <1>3, <1>4, <1>5, <1>6, <1>7, <1>8, <1>9, <1>10, <1>11, <1>12, <1>13, <1>14, <1>15, <1>16, <1>17, <1>18, <1>19, <1>20, <1>21 DEF Next, Step, Finished

(* The certificate that renew obtained, against the one that it read.      *)
RenewNames ==
  Renewed /\ res # Absent =>
    /\ Range(certs[res].names) = Range(certs[old].names) \cup Range(cmd.domains)
    /\ IsInjective(certs[old].names) => IsInjective(certs[res].names)
    /\ \/ SanitizedDomain[certs[res].names[1]] = Asked
       \/ \E c \in Commands : Asked \in c.filename

(* It is merged from that one.                                             *)
LEMMA RenewObtain ==
  ASSUME StoreOK, SavingOK, NamedAfter, Obtain
  PROVE  RenewNames'
<1>1. pc = "obtain" /\ res = Absent /\ UNCHANGED <<cmd, old>> /\ Asked' = Asked /\ Renewed' = Renewed
  BY DEF Obtain, SavingOK, Asked, Renewed
<1>2. CASE res' = Absent
  BY <1>2 DEF RenewNames
<1>3. CASE res' # Absent /\ Renewed
  <2>1. certs' = Append(certs, Request) /\ res' = Len(certs) + 1
    BY <1>1, <1>3 DEF Obtain
  <2>2. /\ Request \in Certificate /\ old \in 1..Len(certs) /\ old = files[Asked]["crt"]
        /\ Request.names = merge(certs[old].names, cmd.domains)
    BY <1>1, <1>3, RequestOK
  <2>3. certs'[res'] = Request /\ certs'[old] = certs[old]
    BY <2>1, <2>2, Issued
  <2>4. cmd.domains \in Seq(Domain) /\ Asked \in Base
    BY AskedInBase DEF StoreOK
  <2>5. certs[old].names \in Seq(Domain) /\ certs[old].names # <<>>
    <3>1. certs[old] \in Certificate
      BY <2>2 DEF StoreOK
    <3> QED
      BY <3>1 DEF Certificate
  <2>6. /\ Range(Request.names) = Range(certs[old].names) \cup Range(cmd.domains)
        /\ Request.names[1] = certs[old].names[1]
        /\ IsInjective(certs[old].names) => IsInjective(Request.names)
    <3> DEFINE p == certs[old].names
               q == cmd.domains
    <3>1. p \in Seq(Domain) /\ q \in Seq(Domain) /\ p # <<>>
      BY <2>4, <2>5
    <3> HIDE DEF p, q
    <3>2. /\ Range(merge(p, q)) = Range(p) \cup Range(q)
          /\ merge(p, q)[1] = p[1]
          /\ IsInjective(p) => IsInjective(merge(p, q))
      BY <3>1, Merged, Zenon
    <3> QED
      BY <2>2, <3>2, Zenon DEF p, q
  <2>7. files[Asked]["crt"] \notin {Absent, Torn}
    BY <2>2 DEF Absent, Torn, StoreOK
  <2>8. \/ SanitizedDomain[certs[old].names[1]] = Asked
        \/ \E c \in Commands : Asked \in c.filename
    BY <2>2, <2>4, <2>7 DEF NamedAfter
  <2> QED
    BY <1>1, <2>3, <2>6, <2>8 DEF RenewNames
<1> QED
  BY <1>1, <1>2, <1>3 DEF RenewNames

(* No other step changes either of them.                                   *)
LEMMA RenewNext == StoreOK /\ SavingOK /\ NamedAfter /\ RenewNames /\ [Next]_vars => RenewNames'
<1> SUFFICES ASSUME StoreOK, SavingOK, NamedAfter, RenewNames, [Next]_vars PROVE RenewNames'
  OBVIOUS
<1>1. CASE Obtain
  BY <1>1, RenewObtain
<1>2. CASE res' = Absent
  BY <1>2 DEF RenewNames
<1>3. CASE UNCHANGED <<certs, cmd, old, res>>
  BY <1>3 DEF RenewNames, Renewed, Asked
<1>4. CASE Invoke
  BY <1>2, <1>4 DEF Invoke
<1>5. CASE renewRead
  BY <1>2, <1>5 DEF renewRead, SavingOK
<1> QED
  BY <1>1, <1>3, <1>4, <1>5, Zenon DEF Next, Step, Finished, vars, ca,
     loadPrivateKey, createKeyFile, encodeKey, LoadAccount, tryRecoverRegistration, SaveEmpties, SaveFills, newClient, handleTOS, register, SaveResourceEmpties, SaveResourceFills, launchHook, revokeOne, MoveFile, NextDomain, Crash

(* A step after which no run has failed without a fault.                   *)
LEMMA RecoverQuiet ==
  ASSUME pc' # "idle" \/ last' # "fatal" \/ clean' # TRUE \/ cmd'.op # "run"
  PROVE  RunRecovers'
BY DEF RunRecovers

(* A run fails without a fault only for the reasons that RunRecovers names.*)
LEMMA RecoverNext ==
  ControlOK /\ PathOK /\ SavingOK /\ RunRecovers /\ [Next]_vars => RunRecovers'
<1> SUFFICES ASSUME ControlOK, PathOK, SavingOK, RunRecovers, [Next]_vars PROVE RunRecovers'
  OBVIOUS
<1> USE DEF Goto, End, Fatal, Fault
<1>1. CASE createKeyFile
  BY <1>1, RecoverQuiet DEF createKeyFile
<1>2. CASE encodeKey
  BY <1>2, RecoverQuiet DEF encodeKey
<1>3. CASE SaveEmpties
  BY <1>3, RecoverQuiet DEF SaveEmpties
<1>4. CASE SaveFills
  BY <1>4, RecoverQuiet DEF SaveFills
<1>5. CASE handleTOS
  BY <1>5, RecoverQuiet, Zenon DEF handleTOS
<1>6. CASE Obtain
  BY <1>6, RecoverQuiet, Zenon DEF Obtain
<1>7. CASE SaveResourceFills
  BY <1>7, RecoverQuiet, Zenon DEF SaveResourceFills
<1>8. CASE launchHook
  BY <1>8, RecoverQuiet, Zenon DEF launchHook
<1>9. CASE NextDomain
  BY <1>9, RecoverQuiet, Zenon DEF NextDomain
<1>10. CASE Invoke
  BY <1>10, RecoverQuiet DEF Invoke
<1>11. CASE Crash
  BY <1>11, RecoverQuiet DEF Crash
<1>12. CASE loadPrivateKey
  BY <1>12 DEF loadPrivateKey, disk, ControlOK, RunRecovers
<1>13. CASE LoadAccount
  BY <1>13 DEF LoadAccount, disk, RunRecovers
<1>14. CASE tryRecoverRegistration
  BY <1>14 DEF tryRecoverRegistration, disk, ca, PathOK, RunRecovers
<1>15. CASE newClient
  BY <1>15 DEF newClient, RunRecovers
<1>16. CASE register
  BY <1>16 DEF register, disk, PathOK, RunRecovers
<1>17. CASE renewRead
  BY <1>17, RecoverQuiet, Zenon DEF renewRead, PathOK
<1>18. CASE SaveResourceEmpties
  <2>1. CASE Head(todo) = "fatal"
    <3>1. pc = "save" /\ cmd' = cmd
      BY <1>18 DEF SaveResourceEmpties
    <3>2. "fatal" \in Range(todo)
      BY <2>1, <3>1, RangeTail DEF SavingOK
    <3>3. cmd.op = "run" => cmd.csr /\ cmd.pem
      BY <3>1, <3>2 DEF SavingOK
    <3> QED
      BY <3>1, <3>3 DEF RunRecovers
  <2>2. CASE Head(todo) # "fatal"
    BY <1>18, <2>2, RecoverQuiet DEF SaveResourceEmpties
  <2> QED
    BY <2>1, <2>2
<1>19. CASE revokeOne
  BY <1>19, RecoverQuiet, Zenon DEF revokeOne, PathOK
<1>20. CASE MoveFile
  BY <1>20, RecoverQuiet DEF MoveFile
<1>21. CASE UNCHANGED vars
  BY <1>21 DEF vars, disk, ca, RunRecovers
<1> QED
  BY <1>1, <1>2, <1>3, <1>4, <1>5, <1>6, <1>7, <1>8, <1>9, <1>10, <1>11, <1>12, <1>13, <1>14, <1>15, <1>16, <1>17, <1>18, <1>19, <1>20, <1>21 DEF Next, Step, Finished

-----------------------------------------------------------------------------
(* The inductive invariant.                                                *)
IInv ==
  /\ ControlOK /\ BoundsOK /\ StoreOK /\ PathOK /\ SavingOK
  /\ PairsMatch /\ NamedAfter /\ RenewNames /\ RunRecovers

(* It holds initially, and every step preserves it.                        *)
LEMMA InitIInv == Init => IInv
<1> SUFFICES ASSUME Init PROVE IInv
  OBVIOUS
<1>1. PathOK /\ SavingOK /\ RunRecovers /\ RenewNames
  BY DEF Init, PathOK, SavingOK, RunRecovers, RenewNames, Absent
<1>2. PairsMatch /\ NamedAfter
  BY DEF Init, PairsMatch, NamedAfter, Nobody, Ext
<1> QED
  BY <1>1, <1>2, InitControl, InitStore DEF IInv

LEMMA NextIInv == IInv /\ [Next]_vars => IInv'
BY ControlNext, BoundsNext, StoreNext, PathNext, SavingNext, PairsNext, NamedNext, RenewNext,
   RecoverNext DEF IInv

(* Whatever the commands, and wherever they stop, the invariant holds; in  *)
(* particular a renewed certificate has every name of the old one and every *)
(* name asked for, and no name twice unless the old one had.               *)
THEOREM Invariance == Spec => []IInv
BY InitIInv, NextIInv, PTL DEF Spec

(* The files, the CA and the running command stay within their types: no   *)
(* file holds a certificate that was not issued, and the loop of revoke    *)
(* stays within the domains of its command line.                           *)
THEOREM TypeCorrect == Spec => []TypeOK
<1>1. IInv => TypeOK
  BY TypeParts DEF IInv
<1> QED
  BY <1>1, Invariance, PTL

(* SaveResource leaves the .crt and the .key file of a name with one key,  *)
(* for any number of commands, unless a save is under way, stopped midway, *)
(* or was of a CSR.                                                        *)
THEOREM PairsBelongTogether == Spec => []PairsMatch
<1>1. IInv => PairsMatch
  BY DEF IInv
<1> QED
  BY <1>1, Invariance, PTL

(* Whatever stopped the commands before it, a correct run under which      *)
(* nothing fails ends in an error only because of an emptied key or        *)
(* account file, an account that the CA does not know, one that was not    *)
(* saved and that it reports with 409, or a .pem file for a CSR.           *)
THEOREM RunSucceedsAgain == Spec => []RunRecovers
<1>1. IInv => RunRecovers
  BY DEF IInv
<1> QED
  BY <1>1, Invariance, PTL

(* No --filename is the file name of a domain: renew would read a          *)
(* certificate under that domain's name and save the new one under another.*)
FilenamesApart == \A c \in Commands, d \in Domain : SanitizedDomain[d] \notin c.filename

(* renewForDomains never narrows a certificate, and saves the new one under*)
(* the name from which it read the old one.                                *)
THEOREM RenewedNamesKept ==
  ASSUME FilenamesApart
  PROVE  Spec => []RenewKeepsNames
<1>1. IInv => RenewKeepsNames
  <2> SUFFICES ASSUME IInv, Renewed, res # Absent
               PROVE  /\ Range(certs[res].names) = Range(certs[old].names) \cup Range(cmd.domains)
                      /\ IsInjective(certs[old].names) => IsInjective(certs[res].names)
                      /\ cmd.filename = {} => WriteName = SanitizedDomain[cmd.domains[1]]
    BY Zenon DEF RenewKeepsNames, Renewed
  <2>1. cmd.domains[1] \in Domain
    <3>1. cmd \in Commands
      BY DEF IInv, StoreOK
    <3> QED
      BY <3>1, AskedInBase, Zenon
  <2>2. \A c \in Commands : Asked \notin c.filename
    BY <2>1 DEF FilenamesApart, Asked
  <2> QED
    BY <2>2, Zenon DEF IInv, RenewNames, WriteName, Asked
<1> QED
  BY <1>1, Invariance, PTL
=============================================================================
