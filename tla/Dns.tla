--------------------------------- MODULE Dns ---------------------------------
(***************************************************************************)
(* challenge/dns01: the check that a TXT record has propagated (wait.For   *)
(* around preCheck.call) and the lookup of a name's zone behind it, with   *)
(* the process-wide SOA cache and its mutex.  Several goroutines check     *)
(* their own value at one name or at several; others only look a zone up,  *)
(* as DNS providers do, some through nameservers of their own              *)
(* (FindZoneByFqdnCustom).                                                 *)
(*                                                                         *)
(* A name is looked up label by label: label 1 is the name itself, label 2 *)
(* its parent, and so on.  The DNS (external) is what the constants say;   *)
(* every query may fail instead, MaxFaults times.                          *)
(***************************************************************************)
EXTENDS Integers, Sequences

CONSTANTS Proc,       \* goroutines
          Name,       \* names with a challenge record
          Depth,      \* labels of a name
          View,       \* sets of recursive nameservers; Public are the default ones
          Public,
          Apex,       \* Apex[v][n]: the labels of n that are a zone apex, seen by v
          Auth,       \* Auth[n][l]: the nameservers of the zone at label l of n
          Server,     \* all of them
          Alias,      \* Alias[n]: where a CNAME leads, or n itself
          MaxPolls, MaxFaults

Label == 1..Depth
NoProc == "nobody"

ASSUME DnsAssumption ==
  /\ Depth \in Nat \ {0} /\ Public \in View /\ NoProc \notin Proc
  /\ Apex \in [View -> [Name -> SUBSET Label]]
  /\ Auth \in [Name -> [Label -> Seq(Server)]]
  /\ Alias \in [Name -> Name] /\ \A n \in Name : Alias[Alias[n]] = Alias[n]
  /\ MaxPolls \in Nat /\ MaxFaults \in Nat

VARIABLES
  cacheZone,   \* fqdnSoaCache: per name the label of the cached apex, 0 if there is no
               \* entry or an expired one
  genuine,     \* per name: cached, and no query failed while it was fetched (history)
  holder,      \* who holds muFqdnSoaCache
  pc, goal,    \* per goroutine: where it is; "ready" a record, or only a "zone"
  view, full,  \* the nameservers it asks; requireCompletePropagation
  fqdn, name,  \* the name it is called with; the name it looks at, after a CNAME
  failing,     \* a query of its fetch failed
  zone, at,    \* the apex it found; the label or nameserver it is to ask next
  polls,       \* rounds of wait.For
  has,         \* <<s, p>>: nameserver s answers with the value of p
  faults       \* queries that may still fail

vars == <<cacheZone, genuine, holder, pc, goal, view, full, fqdn, name, failing, zone,
          at, polls, has, faults>>
cacheVars == <<cacheZone, genuine>>
config == <<goal, view, full, fqdn>>

(* The zone of a name: the first label that is an apex.                    *)
IsZone(v, n, l) == l \in Apex[v][n] /\ \A k \in Apex[v][n] : l <= k
Nameservers(n, l) == {Auth[n][l][i] : i \in DOMAIN Auth[n][l]}
(* Where the record of p is, whatever name p looks at.                     *)
Target(p) == Alias[fqdn[p]]

(* ent != nil && !ent.isExpired()                                          *)
Fresh(n) == cacheZone[n] # 0
Ended == {"ready", "timeout", "found", "error"}
Start(p) == IF goal[p] = "ready" THEN "poll" ELSE "lookup"

Init ==
  /\ cacheZone = [n \in Name |-> 0] /\ genuine = [n \in Name |-> FALSE]
  /\ holder = NoProc
  /\ goal \in [Proc -> {"ready", "zone"}]
  /\ view \in [Proc -> View] /\ full \in [Proc -> BOOLEAN]
  /\ \A p \in Proc : IF goal[p] = "ready" THEN view[p] = Public ELSE full[p]
  /\ fqdn \in [Proc -> Name] /\ name = fqdn
  /\ pc = [p \in Proc |-> Start(p)]
  /\ failing = [p \in Proc |-> FALSE]
  /\ zone = [p \in Proc |-> 0] /\ at = [p \in Proc |-> 1] /\ polls = [p \in Proc |-> 0]
  /\ has = {} /\ faults = MaxFaults

-----------------------------------------------------------------------------
Goto(p, l) == pc' = [pc EXCEPT ![p] = l]
(* A failed query is one of the MaxFaults.                                 *)
Fault == faults > 0 /\ faults' = faults - 1
(* A check that fails is repeated by wait.For; a bare lookup returns.      *)
Failed(p) == IF goal[p] = "ready" THEN "poll" ELSE "error"

(* for { select { case <-timeUp: return ...; default: } ; f() ... }.  The  *)
(* time may be up at any round, and is after MaxPolls.                     *)
Poll(p) ==
  /\ pc[p] = "poll"
  /\ \/ Goto(p, "timeout") /\ UNCHANGED polls
     \/ /\ polls[p] < MaxPolls /\ polls' = [polls EXCEPT ![p] = @ + 1]
        /\ Goto(p, "recursive")
  /\ name' = [name EXCEPT ![p] = fqdn[p]]
  /\ zone' = [zone EXCEPT ![p] = 0] /\ at' = [at EXCEPT ![p] = 1]
  /\ UNCHANGED <<cacheVars, holder, config, failing, has, faults>>

(* checkDNSPropagation: the recursive nameservers are asked for the TXT    *)
(* record; any answer will do, and it may show a CNAME.                    *)
RecursiveQuery(p) ==
  /\ pc[p] = "recursive"
  /\ \/ Fault /\ Goto(p, "poll") /\ UNCHANGED name
     \/ /\ full[p] /\ Goto(p, "lookup") /\ UNCHANGED faults
        /\ \E n \in {fqdn[p], Target(p)} : name' = [name EXCEPT ![p] = n]
     \/ ~full[p] /\ Goto(p, "ready") /\ UNCHANGED <<faults, name>>
  /\ UNCHANGED <<cacheVars, holder, config, failing, zone, at, polls, has>>

(* lookupSoaByFqdn: the mutex is held until it returns.                    *)
CacheHit(p) ==
  /\ pc[p] = "lookup" /\ holder = NoProc /\ Fresh(name[p])
  /\ zone' = [zone EXCEPT ![p] = cacheZone[name[p]]]
  /\ Goto(p, IF goal[p] = "ready" THEN "nameservers" ELSE "found")
  /\ UNCHANGED <<cacheVars, holder, config, name, failing, at, polls, has, faults>>
CacheMissUnlocked(p) ==
  /\ pc[p] = "lookup" /\ holder = NoProc /\ ~Fresh(name[p])
  /\ Goto(p, "fetch") /\ at' = [at EXCEPT ![p] = 1]
  /\ UNCHANGED <<cacheVars, holder, config, name, failing, zone, polls, has, faults>>
CacheMiss(p) ==
  /\ pc[p] = "lookup" /\ holder = NoProc /\ ~Fresh(name[p])
  /\ holder' = p
  /\ Goto(p, "fetch") /\ at' = [at EXCEPT ![p] = 1]
  /\ UNCHANGED <<cacheVars, config, name, failing, zone, polls, has, faults>>

(* fetchSoaByFqdn: one query per label, from the name upwards.             *)
NextLabel(p) ==
  /\ at' = [at EXCEPT ![p] = @ + 1]
  /\ UNCHANGED <<cacheVars, holder, config, name, zone, polls, has, pc>>
FetchNoSoaSameLabel(p) ==
  /\ pc[p] = "fetch" /\ at[p] \in Label \ Apex[view[p]][name[p]]
  /\ UNCHANGED vars
(* No SOA: NXDOMAIN, an empty answer, or a CNAME.                          *)
FetchNoSoa(p) ==
  /\ pc[p] = "fetch" /\ at[p] \in Label \ Apex[view[p]][name[p]]
  /\ NextLabel(p)
  /\ UNCHANGED <<failing, faults>>
(* The query fails at every nameserver; the loop goes on with the parent.  *)
FetchQueryFails(p) ==
  /\ pc[p] = "fetch" /\ at[p] \in Label /\ Fault
  /\ failing' = [failing EXCEPT ![p] = TRUE]
  /\ NextLabel(p)
FetchReturns(p) ==
  at' = [at EXCEPT ![p] = 1] /\ failing' = [failing EXCEPT ![p] = FALSE]
FetchSoaParent(p) ==
  /\ pc[p] = "fetch" /\ at[p] \in Apex[view[p]][name[p]]
  /\ zone' = [zone EXCEPT ![p] = at[p] + 1]
  /\ cacheZone' = [cacheZone EXCEPT ![name[p]] = at[p] + 1]
  /\ genuine' = [genuine EXCEPT ![name[p]] = ~failing[p]]
  /\ holder' = NoProc
  /\ Goto(p, IF goal[p] = "ready" THEN "nameservers" ELSE "found")
  /\ FetchReturns(p)
  /\ UNCHANGED <<config, name, polls, has, faults>>
FetchSoa(p) ==
  /\ pc[p] = "fetch" /\ at[p] \in Apex[view[p]][name[p]]
  /\ zone' = [zone EXCEPT ![p] = at[p]]
  /\ cacheZone' = [cacheZone EXCEPT ![name[p]] = at[p]]
  /\ genuine' = [genuine EXCEPT ![name[p]] = ~failing[p]]
  /\ holder' = NoProc
  /\ Goto(p, IF goal[p] = "ready" THEN "nameservers" ELSE "found")
  /\ FetchReturns(p)
  /\ UNCHANGED <<config, name, polls, has, faults>>
(* An unexpected response code ends the search, as does the last label.    *)
FetchFails(p) ==
  /\ pc[p] = "fetch"
  /\ \/ at[p] \in Label /\ Fault
     \/ at[p] \notin Label /\ UNCHANGED faults
  /\ holder' = NoProc
  /\ Goto(p, Failed(p))
  /\ FetchReturns(p)
  /\ UNCHANGED <<cacheVars, config, name, zone, polls, has>>

(* lookupNameservers, after the zone is known.                             *)
Nss(p) == Auth[name[p]][zone[p]]
LookupNameservers(p) ==
  /\ pc[p] = "nameservers"
  /\ \/ Fault /\ Goto(p, "poll") /\ UNCHANGED at
     \/ Nss(p) = <<>> /\ Goto(p, "poll") /\ UNCHANGED <<at, faults>>
     \/ /\ Nss(p) # <<>> /\ Goto(p, "authoritative") /\ at' = [at EXCEPT ![p] = 1]
        /\ UNCHANGED faults
  /\ UNCHANGED <<cacheVars, holder, config, name, failing, zone, polls, has>>

(* checkAuthoritativeNss: the first nameserver that does not answer with   *)
(* the value ends the round.                                               *)
AskNameserverAny(p) ==
  /\ pc[p] = "authoritative"
  /\ IF <<Nss(p)[at[p]], p>> \in has
     THEN Goto(p, "ready") /\ UNCHANGED <<at, faults>>
     ELSE Goto(p, "poll") /\ UNCHANGED <<at, faults>>
  /\ UNCHANGED <<cacheVars, holder, config, name, failing, zone, polls, has>>
AskNameserver(p) ==
  /\ pc[p] = "authoritative"
  /\ \/ Fault /\ Goto(p, "poll") /\ UNCHANGED at
     \/ <<Nss(p)[at[p]], p>> \notin has /\ Goto(p, "poll") /\ UNCHANGED <<at, faults>>
     \/ /\ <<Nss(p)[at[p]], p>> \in has /\ at[p] < Len(Nss(p))
        /\ at' = [at EXCEPT ![p] = @ + 1] /\ UNCHANGED <<pc, faults>>
     \/ /\ <<Nss(p)[at[p]], p>> \in has /\ at[p] >= Len(Nss(p))
        /\ Goto(p, "ready") /\ UNCHANGED <<at, faults>>
  /\ UNCHANGED <<cacheVars, holder, config, name, failing, zone, polls, has>>

(* The environment: the record reaches a nameserver; an entry expires      *)
(* (SOA refresh); ClearFqdnCache.                                          *)
Propagate ==
  /\ \E p \in Proc, l \in Label :
       /\ goal[p] = "ready" /\ IsZone(Public, Target(p), l)
       /\ \E s \in Nameservers(Target(p), l) : <<s, p>> \notin has /\ has' = has \cup {<<s, p>>}
  /\ UNCHANGED <<cacheVars, holder, pc, config, name, failing, zone, at, polls, faults>>
Expire ==
  /\ \E n \in Name : /\ Fresh(n) /\ cacheZone' = [cacheZone EXCEPT ![n] = 0]
                     /\ genuine' = [genuine EXCEPT ![n] = FALSE]
  /\ UNCHANGED <<holder, pc, config, name, failing, zone, at, polls,
                 has, faults>>
ClearFqdnCache ==
  /\ holder = NoProc /\ \E n \in Name : Fresh(n)
  /\ cacheZone' = [n \in Name |-> 0] /\ genuine' = [n \in Name |-> FALSE]
  /\ UNCHANGED <<holder, pc, config, name, failing, zone, at, polls, has, faults>>
Finished == (\A p \in Proc : pc[p] \in Ended) /\ UNCHANGED vars

Step(p) ==
  \/ Poll(p) \/ RecursiveQuery(p) \/ CacheHit(p) \/ CacheMiss(p)
  \/ FetchNoSoa(p) \/ FetchQueryFails(p) \/ FetchSoa(p) \/ FetchFails(p)
  \/ LookupNameservers(p) \/ AskNameserver(p)
Next == (\E p \in Proc : Step(p)) \/ Propagate \/ Expire \/ ClearFqdnCache \/ Finished
Spec == Init /\ [][Next]_vars

(* Every query ends (dnsTimeout): the goroutines do not all stop.          *)
FairSpec == Spec /\ WF_vars(\E p \in Proc : Step(p))

-----------------------------------------------------------------------------
TypeOK ==
  /\ cacheZone \in [Name -> 0..Depth]
  /\ genuine \in [Name -> BOOLEAN] /\ holder \in Proc \cup {NoProc}
  /\ goal \in [Proc -> {"ready", "zone"}] /\ view \in [Proc -> View]
  /\ full \in [Proc -> BOOLEAN] /\ fqdn \in [Proc -> Name] /\ name \in [Proc -> Name]
  /\ pc \in [Proc -> {"poll", "recursive", "lookup", "fetch", "nameservers",
                      "authoritative"} \cup Ended]
  /\ failing \in [Proc -> BOOLEAN] /\ zone \in [Proc -> 0..Depth]
  /\ at \in [Proc -> Nat] /\ polls \in [Proc -> 0..MaxPolls]
  /\ has \subseteq Server \X Proc /\ faults \in 0..MaxFaults

(* The check reports a record as propagated to all authoritative           *)
(* nameservers only when each nameserver of the zone it found serves the   *)
(* value (checkAuthoritativeNss asks them one after the other).            *)
ReadyOnlyIfServed ==
  \A p \in Proc : pc[p] = "ready" /\ full[p]
    => \A i \in DOMAIN Nss(p) : <<Nss(p)[i], p>> \in has

(* A cached entry that was fetched without a failing query is the zone of  *)
(* its name as some goroutine's nameservers see it: lookupSoaByFqdn keeps  *)
(* one entry per name, not one per set of nameservers.                     *)
GenuineEntries ==
  \A n \in Name : genuine[n] => \E p \in Proc : IsZone(view[p], n, cacheZone[n])

(* A fresh entry is never replaced by another fresh entry: goroutines that *)
(* look up one name at the same time fetch it once and agree (the mutex    *)
(* spans the test of the cache, the queries and the store).                *)
FreshKept ==
  [][\A n \in Name : Fresh(n) /\ Fresh(n)'
       => cacheZone'[n] = cacheZone[n] /\ genuine'[n] = genuine[n]]_vars

(* Every check and every lookup ends, although the mutex is held over      *)
(* network queries and a fetch may fail at any label.                      *)
ChecksEnd == \A p \in Proc : <>(pc[p] \in Ended)
=============================================================================
