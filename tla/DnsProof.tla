------------------------------ MODULE DnsProof ------------------------------
(***************************************************************************)
(* The mutex of the SOA cache and the propagation check, for any number of *)
(* goroutines, names, zones and nameservers, however many queries fail.    *)
(***************************************************************************)
EXTENDS Dns, TLAPS

-----------------------------------------------------------------------------
(* The inductive invariant.                                                *)

(* The types the argument needs.                                           *)
Shape ==
  /\ cacheZone \in [Name -> 0..Depth] /\ holder \in Proc \cup {NoProc}
  /\ view \in [Proc -> View] /\ fqdn \in [Proc -> Name] /\ name \in [Proc -> Name]
  /\ pc \in [Proc -> {"poll", "recursive", "lookup", "fetch", "nameservers",
                      "authoritative"} \cup Ended]
  /\ zone \in [Proc -> 0..Depth] /\ at \in [Proc -> Nat]
(* Who is between a miss and its store holds the mutex, and only they.     *)
MutexOK == \A p \in Proc : pc[p] = "fetch" <=> holder = p
(* Nobody stored the entry that is being fetched.                          *)
FetchOK == \A p \in Proc : pc[p] = "fetch" => cacheZone[name[p]] = 0
(* The nameservers asked so far serve the value.                           *)
ServedUpTo(p, k) == \A i \in 1..k : <<Nss(p)[i], p>> \in has
AskedAt(p) ==
  /\ pc[p] \in {"nameservers", "authoritative"} => zone[p] \in Label
  /\ pc[p] = "authoritative" => at[p] # 0 /\ ServedUpTo(p, at[p] - 1)
  /\ pc[p] = "ready" /\ full[p] => zone[p] \in Label /\ ServedUpTo(p, Len(Nss(p)))
AskedOK == \A p \in Proc : AskedAt(p)
IInv == Shape /\ MutexOK /\ FetchOK /\ AskedOK

LEMMA InitOK == Init => IInv
<1> USE DnsAssumption
<1> SUFFICES ASSUME Init PROVE IInv
  OBVIOUS
<1>1. Shape
  BY DEF Init, Shape, Start, Ended, Label
<1>2. MutexOK
  BY DEF Init, MutexOK, Start
<1>3. FetchOK
  BY DEF Init, FetchOK, Start
<1>4. AskedOK
  BY DEF Init, AskedOK, AskedAt, Start
<1> QED
  BY <1>1, <1>2, <1>3, <1>4 DEF IInv

(* Every step keeps the types.                                            *)
LEMMA ShapeStep == Shape /\ [Next]_vars => Shape'
<1> SUFFICES ASSUME Shape, [Next]_vars PROVE Shape'
  OBVIOUS
<1>a. Depth \in Nat /\ NoProc \notin Proc
  BY DnsAssumption
<1>b. Alias \in [Name -> Name] /\ \A v \in View, n \in Name : Apex[v][n] \subseteq Label
  BY DnsAssumption
<1>1. ASSUME NEW p \in Proc, Step(p) PROVE Shape'
  <2>1. CASE Poll(p)
    BY <1>a, <2>1 DEF Poll, Goto, cacheVars, config, Shape, Ended, Label
  <2>2. CASE RecursiveQuery(p)
    <3>1. fqdn[p] \in Name /\ Target(p) \in Name
      BY <1>b DEF Target, Shape
    <3>2. name' \in [Proc -> Name]
      BY <2>2, <3>1 DEF RecursiveQuery, Shape
    <3>3. pc' \in [Proc -> {"poll", "recursive", "lookup", "fetch", "nameservers",
                           "authoritative"} \cup Ended]
      BY <2>2 DEF RecursiveQuery, Goto, Shape, Ended
    <3> QED
      BY <2>2, <3>2, <3>3 DEF RecursiveQuery, cacheVars, config, Shape
  <2>3. CASE CacheHit(p)
    BY <1>a, <2>3 DEF CacheHit, Goto, Fresh, cacheVars, config, Shape, Ended, Label
  <2>4. CASE CacheMiss(p)
    BY <1>a, <2>4 DEF CacheMiss, Goto, Fresh, cacheVars, config, Shape, Ended, Label
  <2>5. CASE FetchNoSoa(p)
    BY <1>a, <2>5 DEF FetchNoSoa, NextLabel, cacheVars, config, Shape, Ended, Label
  <2>6. CASE FetchQueryFails(p)
    BY <1>a, <2>6 DEF FetchQueryFails, NextLabel, Fault, cacheVars, config, Shape, Ended, Label
  <2>7. CASE FetchSoa(p)
    BY <1>a, <1>b, <2>7 DEF FetchSoa, Goto, FetchReturns, cacheVars, config, Shape, Ended, Label
  <2>8. CASE FetchFails(p)
    BY <1>a, <2>8 DEF FetchFails, Goto, Fault, Failed, FetchReturns, cacheVars, config, Shape, Ended, Label
  <2>9. CASE LookupNameservers(p)
    <3>1. at' \in [Proc -> Nat]
      BY <2>9 DEF LookupNameservers, Shape
    <3>2. pc' \in [Proc -> {"poll", "recursive", "lookup", "fetch", "nameservers",
                           "authoritative"} \cup Ended]
      BY <2>9 DEF LookupNameservers, Goto, Shape, Ended
    <3> QED
      BY <2>9, <3>1, <3>2 DEF LookupNameservers, cacheVars, config, Shape
  <2>10. CASE AskNameserver(p)
    <3>a. at' = at \/ at' = [at EXCEPT ![p] = @ + 1]
      BY <2>10 DEF AskNameserver
    <3>1. at' \in [Proc -> Nat]
      BY <3>a DEF Shape
    <3>2. pc' \in [Proc -> {"poll", "recursive", "lookup", "fetch", "nameservers",
                           "authoritative"} \cup Ended]
      BY <2>10 DEF AskNameserver, Goto, Shape, Ended
    <3> QED
      BY <2>10, <3>1, <3>2 DEF AskNameserver, cacheVars, config, Shape
  <2> QED
    BY <1>1, <2>1, <2>2, <2>3, <2>4, <2>5, <2>6, <2>7, <2>8, <2>9, <2>10 DEF Step
<1>2. CASE Propagate
  BY <1>a, <1>2 DEF Propagate, cacheVars, config, Shape, Ended, Label, Nameservers, IsZone, Target
<1>3. CASE Expire
  BY <1>a, <1>3 DEF Expire, Fresh, cacheVars, config, Shape, Ended, Label
<1>4. CASE ClearFqdnCache
  BY <1>a, <1>4 DEF ClearFqdnCache, Fresh, cacheVars, config, Shape, Ended, Label
<1>5. CASE UNCHANGED vars
  BY <1>5 DEF vars, Shape, Ended, Label
<1> QED
  BY <1>1, <1>2, <1>3, <1>4, <1>5 DEF Next, Finished

(* Only CacheMiss takes the mutex and only the end of the fetch gives it. *)
LEMMA MutexStep == Shape /\ MutexOK /\ [Next]_vars => MutexOK'
<1> SUFFICES ASSUME Shape /\ MutexOK, [Next]_vars PROVE MutexOK'
  OBVIOUS
<1>a. Depth \in Nat /\ NoProc \notin Proc
  BY DnsAssumption
<1>b. Alias \in [Name -> Name] /\ \A v \in View, n \in Name : Apex[v][n] \subseteq Label
  BY DnsAssumption
<1>1. ASSUME NEW p \in Proc, Step(p) PROVE MutexOK'
  <2>1. CASE Poll(p)
    BY <1>a, <2>1 DEF Poll, Goto, cacheVars, config, MutexOK, Shape
  <2>2. CASE RecursiveQuery(p)
    BY <1>a, <1>b, <2>2 DEF RecursiveQuery, Goto, Fault, Target, cacheVars, config, MutexOK, Shape
  <2>3. CASE CacheHit(p)
    BY <1>a, <2>3 DEF CacheHit, Goto, Fresh, cacheVars, config, MutexOK, Shape
  <2>4. CASE CacheMiss(p)
    BY <1>a, <2>4 DEF CacheMiss, Goto, Fresh, cacheVars, config, MutexOK, Shape
  <2>5. CASE FetchNoSoa(p)
    BY <1>a, <2>5 DEF FetchNoSoa, NextLabel, cacheVars, config, MutexOK, Shape
  <2>6. CASE FetchQueryFails(p)
    BY <1>a, <2>6 DEF FetchQueryFails, NextLabel, Fault, cacheVars, config, MutexOK, Shape
  <2>7. CASE FetchSoa(p)
    BY <1>a, <1>b, <2>7 DEF FetchSoa, Goto, FetchReturns, cacheVars, config, MutexOK, Shape
  <2>8. CASE FetchFails(p)
    BY <1>a, <2>8 DEF FetchFails, Goto, Fault, Failed, FetchReturns, cacheVars, config, MutexOK, Shape
  <2>9. CASE LookupNameservers(p)
    BY <1>a, <2>9 DEF LookupNameservers, Goto, Fault, cacheVars, config, MutexOK, Shape
  <2>10. CASE AskNameserver(p)
    BY <1>a, <2>10 DEF AskNameserver, Goto, Fault, cacheVars, config, MutexOK, Shape
  <2> QED
    BY <1>1, <2>1, <2>2, <2>3, <2>4, <2>5, <2>6, <2>7, <2>8, <2>9, <2>10 DEF Step
<1>2. CASE Propagate
  BY <1>a, <1>2 DEF Propagate, cacheVars, config, MutexOK, Shape
<1>3. CASE Expire
  BY <1>a, <1>3 DEF Expire, Fresh, cacheVars, config, MutexOK, Shape
<1>4. CASE ClearFqdnCache
  BY <1>a, <1>4 DEF ClearFqdnCache, Fresh, cacheVars, config, MutexOK, Shape
<1>5. CASE UNCHANGED vars
  BY <1>5 DEF vars, MutexOK, Shape
<1> QED
  BY <1>1, <1>2, <1>3, <1>4, <1>5 DEF Next, Finished

(* A store needs the mutex, so it cannot precede another one's store.     *)
LEMMA FetchStep == Shape /\ MutexOK /\ FetchOK /\ [Next]_vars => FetchOK'
<1> SUFFICES ASSUME Shape /\ MutexOK /\ FetchOK, [Next]_vars PROVE FetchOK'
  OBVIOUS
<1>a. Depth \in Nat /\ NoProc \notin Proc
  BY DnsAssumption
<1>b. Alias \in [Name -> Name] /\ \A v \in View, n \in Name : Apex[v][n] \subseteq Label
  BY DnsAssumption
<1>1. ASSUME NEW p \in Proc, Step(p) PROVE FetchOK'
  <2>1. CASE Poll(p)
    BY <1>a, <2>1 DEF Poll, Goto, cacheVars, config, FetchOK, MutexOK, Shape
  <2>2. CASE RecursiveQuery(p)
    BY <1>a, <1>b, <2>2 DEF RecursiveQuery, Goto, Fault, Target, cacheVars, config, FetchOK, MutexOK, Shape
  <2>3. CASE CacheHit(p)
    BY <1>a, <2>3 DEF CacheHit, Goto, Fresh, cacheVars, config, FetchOK, MutexOK, Shape
  <2>4. CASE CacheMiss(p)
    BY <1>a, <2>4 DEF CacheMiss, Goto, Fresh, cacheVars, config, FetchOK, MutexOK, Shape
  <2>5. CASE FetchNoSoa(p)
    BY <1>a, <2>5 DEF FetchNoSoa, NextLabel, cacheVars, config, FetchOK, MutexOK, Shape
  <2>6. CASE FetchQueryFails(p)
    BY <1>a, <2>6 DEF FetchQueryFails, NextLabel, Fault, cacheVars, config, FetchOK, MutexOK, Shape
  <2>7. CASE FetchSoa(p)
    BY <1>a, <1>b, <2>7 DEF FetchSoa, Goto, FetchReturns, cacheVars, config, FetchOK, MutexOK, Shape
  <2>8. CASE FetchFails(p)
    BY <1>a, <2>8 DEF FetchFails, Goto, Fault, Failed, FetchReturns, cacheVars, config, FetchOK, MutexOK, Shape
  <2>9. CASE LookupNameservers(p)
    BY <1>a, <2>9 DEF LookupNameservers, Goto, Fault, cacheVars, config, FetchOK, MutexOK, Shape
  <2>10. CASE AskNameserver(p)
    BY <1>a, <2>10 DEF AskNameserver, Goto, Fault, cacheVars, config, FetchOK, MutexOK, Shape
  <2> QED
    BY <1>1, <2>1, <2>2, <2>3, <2>4, <2>5, <2>6, <2>7, <2>8, <2>9, <2>10 DEF Step
<1>2. CASE Propagate
  BY <1>a, <1>2 DEF Propagate, cacheVars, config, FetchOK, MutexOK, Shape
<1>3. CASE Expire
  BY <1>a, <1>3 DEF Expire, Fresh, cacheVars, config, FetchOK, MutexOK, Shape
<1>4. CASE ClearFqdnCache
  BY <1>a, <1>4 DEF ClearFqdnCache, Fresh, cacheVars, config, FetchOK, MutexOK, Shape
<1>5. CASE UNCHANGED vars
  BY <1>5 DEF vars, FetchOK, MutexOK, Shape
<1> QED
  BY <1>1, <1>2, <1>3, <1>4, <1>5 DEF Next, Finished

(* What is known of a goroutine stays true while others move.              *)
Same(q) ==
  /\ pc'[q] = pc[q] /\ zone'[q] = zone[q] /\ at'[q] = at[q] /\ name'[q] = name[q]
  /\ full'[q] = full[q] /\ has \subseteq has'
LEMMA Frame ==
  ASSUME NEW q \in Proc, AskedAt(q), Same(q)
  PROVE  AskedAt(q)'
BY DEF AskedAt, Same, ServedUpTo, Nss

LEMMA OthersSame ==
  ASSUME Shape, NEW p \in Proc, Step(p), NEW q \in Proc, q # p
  PROVE  Same(q)
<1>1. CASE Poll(p)
  BY <1>1 DEF Poll, Goto, config, Same, Shape
<1>2. CASE RecursiveQuery(p)
  BY <1>2 DEF RecursiveQuery, Goto, config, Same, Shape
<1>3. CASE CacheHit(p)
  BY <1>3 DEF CacheHit, Goto, config, Same, Shape
<1>4. CASE CacheMiss(p)
  BY <1>4 DEF CacheMiss, Goto, config, Same, Shape
<1>5. CASE FetchNoSoa(p)
  BY <1>5 DEF FetchNoSoa, NextLabel, config, Same, Shape
<1>6. CASE FetchQueryFails(p)
  BY <1>6 DEF FetchQueryFails, NextLabel, config, Same, Shape
<1>7. CASE FetchSoa(p)
  BY <1>7 DEF FetchSoa, Goto, FetchReturns, config, Same, Shape
<1>8. CASE FetchFails(p)
  BY <1>8 DEF FetchFails, Goto, FetchReturns, config, Same, Shape
<1>9. CASE LookupNameservers(p)
  BY <1>9 DEF LookupNameservers, Goto, config, Same, Shape
<1>10. CASE AskNameserver(p)
  BY <1>10 DEF AskNameserver, Goto, config, Same, Shape
<1> QED
  BY <1>1, <1>2, <1>3, <1>4, <1>5, <1>6, <1>7, <1>8, <1>9, <1>10 DEF Step

(* A goroutine reports "ready" after it asked the last nameserver, and     *)
(* goes on to the next only after the one before served the value.         *)
LEMMA AskedStep == IInv /\ [Next]_vars => AskedOK'
<1> SUFFICES ASSUME IInv, [Next]_vars, NEW q \in Proc PROVE AskedAt(q)'
  BY DEF AskedOK
<1>a. Shape /\ AskedAt(q)
  BY DEF IInv, AskedOK
<1>b. \A v \in View, n \in Name : Apex[v][n] \subseteq Label
  BY DnsAssumption
<1>1. ASSUME NEW p \in Proc, Step(p), q # p PROVE AskedAt(q)'
  BY <1>a, <1>1, OthersSame, Frame
<1>2. CASE Step(q)
  <2>1. CASE Poll(q)
    BY <1>a, <2>1 DEF Poll, Goto, Shape, AskedAt
  <2>2. CASE RecursiveQuery(q)
    BY <1>a, <2>2 DEF RecursiveQuery, Goto, config, Shape, AskedAt
  <2>3. CASE CacheHit(q)
    <3>1. cacheZone[name[q]] \in Label
      BY <1>a, <2>3, DnsAssumption DEF CacheHit, Fresh, Shape, Label
    <3> QED
      BY <1>a, <2>3, <3>1 DEF CacheHit, Goto, Shape, AskedAt
  <2>4. CASE CacheMiss(q)
    BY <1>a, <2>4 DEF CacheMiss, Goto, Shape, AskedAt
  <2>5. CASE FetchNoSoa(q)
    BY <1>a, <2>5 DEF FetchNoSoa, NextLabel, Shape, AskedAt
  <2>6. CASE FetchQueryFails(q)
    BY <1>a, <2>6 DEF FetchQueryFails, NextLabel, Shape, AskedAt
  <2>7. CASE FetchSoa(q)
    <3>1. at[q] \in Label
      BY <1>a, <1>b, <2>7 DEF FetchSoa, Shape
    <3> QED
      BY <1>a, <2>7, <3>1 DEF FetchSoa, Goto, Shape, AskedAt
  <2>8. CASE FetchFails(q)
    BY <1>a, <2>8 DEF FetchFails, Goto, Failed, Shape, AskedAt
  <2>9. CASE LookupNameservers(q)
    <3>1. zone[q] \in Label /\ zone'[q] = zone[q]
      BY <1>a, <2>9 DEF LookupNameservers, AskedAt
    <3>2. pc'[q] = "poll" \/ (pc'[q] = "authoritative" /\ at'[q] = 1)
      BY <1>a, <2>9 DEF LookupNameservers, Goto, Shape
    <3> QED
      BY <3>1, <3>2 DEF AskedAt, ServedUpTo
  <2>10. CASE AskNameserver(q)
    <3>1. /\ zone[q] \in Label /\ zone'[q] = zone[q] /\ name'[q] = name[q] /\ has' = has
          /\ at[q] \in Nat \ {0} /\ ServedUpTo(q, at[q] - 1)
      BY <1>a, <2>10 DEF AskNameserver, Shape, AskedAt
    <3>2. Nss(q)' = Nss(q)
      BY <3>1 DEF Nss
    <3>3. CASE pc'[q] = "poll"
      BY <3>3 DEF AskedAt
    <3>4. CASE /\ <<Nss(q)[at[q]], q>> \in has /\ at[q] < Len(Nss(q))
               /\ at'[q] = at[q] + 1 /\ pc'[q] = "authoritative"
      <4>1. at'[q] # 0 /\ at'[q] - 1 = at[q]
        BY <3>1, <3>4
      <4>2. ASSUME NEW i \in 1..at[q] PROVE <<Nss(q)[i], q>> \in has
        <5>1. i = at[q] \/ i \in 1..(at[q] - 1)
          BY <3>1
        <5> QED
          BY <3>1, <3>4, <5>1 DEF ServedUpTo
      <4>3. ServedUpTo(q, at[q] - 1)'
        BY <3>1, <3>2, <4>1, <4>2 DEF ServedUpTo
      <4> QED
        BY <3>1, <3>4, <4>1, <4>3 DEF AskedAt
    <3>5. CASE /\ <<Nss(q)[at[q]], q>> \in has /\ at[q] >= Len(Nss(q))
               /\ pc'[q] = "ready"
      <4>1. Len(Nss(q)) \in Nat
        BY <1>a, <3>1, DnsAssumption DEF Nss, Shape
      <4>2. ServedUpTo(q, Len(Nss(q)))
        <5> SUFFICES ASSUME NEW i \in 1..Len(Nss(q)) PROVE <<Nss(q)[i], q>> \in has
          BY DEF ServedUpTo
        <5>1. i = at[q] \/ i \in 1..(at[q] - 1)
          BY <3>1, <3>5, <4>1
        <5> QED
          BY <3>1, <3>5, <5>1 DEF ServedUpTo
      <4> QED
        BY <3>1, <3>2, <3>5, <4>2 DEF AskedAt, ServedUpTo
    <3> QED
      BY <1>a, <2>10, <3>3, <3>4, <3>5 DEF AskNameserver, Goto, Shape
  <2> QED
    BY <1>2, <2>1, <2>2, <2>3, <2>4, <2>5, <2>6, <2>7, <2>8, <2>9, <2>10 DEF Step
<1>3. CASE Propagate \/ Expire \/ ClearFqdnCache \/ UNCHANGED vars
  <2>1. Same(q)
    BY <1>3 DEF Propagate, Expire, ClearFqdnCache, vars, config, Same
  <2> QED
    BY <1>a, <2>1, Frame
<1> QED
  BY <1>1, <1>2, <1>3 DEF Next, Finished

LEMMA Inductive == IInv /\ [Next]_vars => IInv'
BY ShapeStep, MutexStep, FetchStep, AskedStep DEF IInv

LEMMA InvOK == Spec => []IInv
BY InitOK, Inductive, PTL DEF Spec

-----------------------------------------------------------------------------
(* No two goroutines are between a miss and its store.                     *)
OneFetch == \A p, q \in Proc : pc[p] = "fetch" /\ pc[q] = "fetch" => p = q

(* For every number of goroutines, the mutex of lookupSoaByFqdn admits one *)
(* fetch at a time.                                                        *)
THEOREM OneFetchAtATime == Spec => []OneFetch
<1>1. IInv => OneFetch
  BY DEF IInv, MutexOK, OneFetch
<1> QED
  BY <1>1, InvOK, PTL

(* For every zone and every set of nameservers, and however queries fail,  *)
(* checkDNSPropagation answers true only when each nameserver of the zone  *)
(* it found serves the value.                                              *)
THEOREM ReadyIsServed == Spec => []ReadyOnlyIfServed
<1>1. IInv => ReadyOnlyIfServed
  <2> SUFFICES ASSUME IInv, NEW p \in Proc, pc[p] = "ready", full[p]
               PROVE  \A i \in DOMAIN Nss(p) : <<Nss(p)[i], p>> \in has
    BY DEF ReadyOnlyIfServed
  <2>1. zone[p] \in Label /\ ServedUpTo(p, Len(Nss(p)))
    BY DEF IInv, AskedOK, AskedAt
  <2>2. Nss(p) \in Seq(Server)
    BY <2>1, DnsAssumption DEF Nss, IInv, Shape
  <2> QED
    BY <2>1, <2>2 DEF ServedUpTo
<1> QED
  BY <1>1, InvOK, PTL

(* A cached zone is replaced only after it expired or was cleared, so that *)
(* all goroutines that use it in the meantime agree on it.                 *)
THEOREM CacheAgrees == Spec => FreshKept
<1>1. ASSUME IInv, [Next]_vars, NEW n \in Name, Fresh(n), Fresh(n)'
      PROVE  cacheZone'[n] = cacheZone[n] /\ genuine'[n] = genuine[n]
  <2>1. ASSUME NEW p \in Proc, Step(p) PROVE cacheVars' = cacheVars \/ FetchSoa(p)
    BY <2>1 DEF Step, Poll, RecursiveQuery, CacheHit, CacheMiss, FetchNoSoa, FetchQueryFails,
                NextLabel, FetchFails, LookupNameservers, AskNameserver
  <2>2. ASSUME NEW p \in Proc, FetchSoa(p)
        PROVE  cacheZone'[n] = cacheZone[n] /\ genuine'[n] = genuine[n]
    <3>1. n # name[p]
      BY <1>1, <2>2 DEF IInv, FetchOK, FetchSoa, Fresh
    <3>2. /\ cacheZone' = [cacheZone EXCEPT ![name[p]] = at[p]]
          /\ genuine' = [genuine EXCEPT ![name[p]] = ~failing[p]]
      BY <2>2 DEF FetchSoa
    <3> QED
      BY <1>1, <3>1, <3>2 DEF IInv, Shape
  <2>3. CASE Propagate \/ UNCHANGED vars
    BY <2>3 DEF Propagate, vars, cacheVars
  <2>4. CASE Expire
    <3>1. PICK m \in Name : /\ cacheZone' = [cacheZone EXCEPT ![m] = 0]
                            /\ genuine' = [genuine EXCEPT ![m] = FALSE]
      BY <2>4 DEF Expire
    <3>2. n # m
      BY <1>1, <3>1 DEF Fresh, IInv, Shape
    <3> QED
      BY <3>1, <3>2
  <2>5. CASE ClearFqdnCache
    BY <1>1, <2>5 DEF ClearFqdnCache, Fresh
  <2> QED
    BY <1>1, <2>1, <2>2, <2>3, <2>4, <2>5 DEF Next, Finished, cacheVars
<1>2. IInv /\ [Next]_vars =>
        [\A n \in Name : Fresh(n) /\ Fresh(n)'
           => cacheZone'[n] = cacheZone[n] /\ genuine'[n] = genuine[n]]_vars
  BY <1>1
<1> QED
  BY <1>2, InvOK, PTL DEF Spec, FreshKept

-----------------------------------------------------------------------------
(* The rest of the types.                                                  *)
Counters ==
  /\ genuine \in [Name -> BOOLEAN] /\ goal \in [Proc -> {"ready", "zone"}]
  /\ full \in [Proc -> BOOLEAN] /\ failing \in [Proc -> BOOLEAN]
  /\ polls \in [Proc -> 0..MaxPolls]
  /\ has \subseteq Server \X Proc /\ faults \in 0..MaxFaults

LEMMA InitCounters == Init => Counters
BY DnsAssumption DEF Init, Counters

LEMMA FaultStep ==
  ASSUME faults \in 0..MaxFaults, Fault \/ UNCHANGED faults
  PROVE  faults' \in 0..MaxFaults
BY DnsAssumption DEF Fault

LEMMA CountersStep == Shape /\ Counters /\ [Next]_vars => Counters'
<1> SUFFICES ASSUME Shape, Counters, [Next]_vars PROVE Counters'
  OBVIOUS
<1> USE DEF cacheVars, config
<1>1. ASSUME NEW p \in Proc, Step(p) PROVE Counters'
  <2>0. UNCHANGED <<goal, full, has>>
    BY <1>1 DEF Step, Poll, RecursiveQuery, CacheHit, CacheMiss, FetchNoSoa, FetchQueryFails,
                NextLabel, FetchSoa, FetchFails, LookupNameservers, AskNameserver
  <2>1. faults' \in 0..MaxFaults
    <3>1. Fault \/ UNCHANGED faults
      BY <1>1 DEF Step, Poll, RecursiveQuery, CacheHit, CacheMiss, FetchNoSoa, FetchQueryFails,
                  FetchSoa, FetchFails, LookupNameservers, AskNameserver
    <3> QED
      BY <3>1, FaultStep DEF Counters
  <2>2. polls' \in [Proc -> 0..MaxPolls]
    <3>1. CASE Poll(p) /\ polls[p] < MaxPolls /\ polls' = [polls EXCEPT ![p] = @ + 1]
      <4>1. polls[p] + 1 \in 0..MaxPolls
        BY <3>1, DnsAssumption DEF Counters
      <4> QED
        BY <3>1, <4>1 DEF Counters
    <3>2. CASE UNCHANGED polls
      BY <3>2 DEF Counters
    <3> QED
      BY <1>1, <3>1, <3>2
      DEF Step, Poll, RecursiveQuery, CacheHit, CacheMiss, FetchNoSoa, FetchQueryFails,
          NextLabel, FetchSoa, FetchFails, LookupNameservers, AskNameserver
  <2>3. failing' \in [Proc -> BOOLEAN]
    <3>1. \/ failing' = failing \/ failing' = [failing EXCEPT ![p] = TRUE]
          \/ failing' = [failing EXCEPT ![p] = FALSE]
      BY <1>1 DEF Step, Poll, RecursiveQuery, CacheHit, CacheMiss, FetchNoSoa, FetchQueryFails,
                  FetchSoa, FetchFails, FetchReturns, LookupNameservers, AskNameserver
    <3> QED
      BY <3>1 DEF Counters
  <2>4. genuine' \in [Name -> BOOLEAN]
    <3>1. genuine' = genuine \/ genuine' = [genuine EXCEPT ![name[p]] = ~failing[p]]
      BY <1>1 DEF Step, Poll, RecursiveQuery, CacheHit, CacheMiss, FetchNoSoa, FetchQueryFails,
                  NextLabel, FetchSoa, FetchFails, LookupNameservers, AskNameserver
    <3> QED
      BY <3>1 DEF Counters
  <2> QED
    BY <2>0, <2>1, <2>2, <2>3, <2>4 DEF Counters
<1>2. CASE Propagate
  <2>0. PICK p \in Proc, l \in Label :
          \E s \in Nameservers(Target(p), l) : has' = has \cup {<<s, p>>}
    BY <1>2, Zenon DEF Propagate
  <2>1. PICK s \in Nameservers(Target(p), l) : has' = has \cup {<<s, p>>}
    BY <2>0
  <2>2. Target(p) \in Name
    BY DnsAssumption DEF Target, Shape
  <2>3. Auth[Target(p)][l] \in Seq(Server)
    BY <2>2, DnsAssumption
  <2>4. s \in Server
    BY <2>1, <2>3 DEF Nameservers
  <2> QED
    BY <1>2, <2>1, <2>4 DEF Propagate, Counters
<1>3. CASE Expire
  BY <1>3 DEF Expire, Counters
<1>4. CASE ClearFqdnCache
  BY <1>4 DEF ClearFqdnCache, Counters
<1>5. CASE UNCHANGED vars
  BY <1>5 DEF vars, Counters
<1> QED
  BY <1>1, <1>2, <1>3, <1>4, <1>5 DEF Next, Finished

(* Every variable of the lookups and checks keeps its type: the label that *)
(* lookupSoaByFqdn caches is a label of the name, wait.For counts no       *)
(* further than its bound, and only nameservers of a zone serve a value.   *)
THEOREM TypeCorrect == Spec => []TypeOK
<1>1. IInv /\ Counters => TypeOK
  BY DEF IInv, Shape, Counters, TypeOK
<1>2. IInv => Shape
  BY DEF IInv
<1> QED
  BY <1>1, <1>2, InvOK, InitCounters, CountersStep, PTL DEF Spec

(* While no query of a fetch has failed, no label below the one it is at   *)
(* is a zone apex.                                                         *)
SearchAt(p) ==
  pc[p] = "fetch" /\ ~failing[p] => \A k \in Apex[view[p]][name[p]] : at[p] <= k
SearchOK == \A p \in Proc : SearchAt(p)

LEMMA SearchStep ==
  ASSUME Shape, Counters, SearchOK, [Next]_vars
  PROVE  SearchOK'
<1> USE DEF cacheVars, config
<1> SUFFICES ASSUME NEW q \in Proc PROVE SearchAt(q)'
  BY DEF SearchOK
<1>a. SearchAt(q) /\ Apex[view[q]][name[q]] \subseteq Label
  BY DnsAssumption DEF SearchOK, Shape
<1>f. ASSUME Same(q), view'[q] = view[q], failing'[q] = failing[q]
      PROVE  SearchAt(q)'
  BY <1>a, <1>f DEF SearchAt, Same
<1>1. ASSUME NEW p \in Proc, Step(p), q # p
      PROVE  SearchAt(q)'
  <2>1. view' = view
    BY <1>1 DEF Step, Poll, RecursiveQuery, CacheHit, CacheMiss, FetchNoSoa, FetchQueryFails,
                NextLabel, FetchSoa, FetchFails, LookupNameservers, AskNameserver
  <2>2. \/ failing' = failing \/ failing' = [failing EXCEPT ![p] = TRUE]
        \/ failing' = [failing EXCEPT ![p] = FALSE]
    BY <1>1 DEF Step, Poll, RecursiveQuery, CacheHit, CacheMiss, FetchNoSoa, FetchQueryFails,
                FetchSoa, FetchFails, FetchReturns, LookupNameservers, AskNameserver
  <2>3. failing'[q] = failing[q]
    BY <1>1, <2>2 DEF Counters
  <2> QED
    BY <1>1, <1>f, <2>1, <2>3, OthersSame
<1>2. CASE Step(q)
  <2>1. CASE CacheMiss(q)
    <3>1. at'[q] = 1 /\ view' = view /\ name' = name
      BY <2>1 DEF CacheMiss, Shape
    <3>2. \A k \in Label : 1 <= k
      BY DnsAssumption DEF Label
    <3> QED
      BY <1>a, <3>1, <3>2 DEF SearchAt
  <2>2. CASE FetchNoSoa(q)
    <3>1. /\ at'[q] = at[q] + 1 /\ at[q] \in Label \ Apex[view[q]][name[q]]
          /\ UNCHANGED <<view, name, failing, pc>>
      BY <2>2 DEF FetchNoSoa, NextLabel, Shape
    <3>2. \A k \in Label : at[q] <= k /\ at[q] # k => at[q] + 1 <= k
      BY <3>1, DnsAssumption DEF Label
    <3> QED
      BY <1>a, <3>1, <3>2 DEF SearchAt
  <2>3. CASE FetchQueryFails(q)
    <3>1. failing'[q] = TRUE
      BY <2>3 DEF FetchQueryFails, Counters
    <3> QED
      BY <3>1 DEF SearchAt
  <2>4. CASE /\ ~CacheMiss(q) /\ ~FetchNoSoa(q) /\ ~FetchQueryFails(q)
    <3>1. pc'[q] # "fetch"
      BY <1>2, <2>4
      DEF Step, Poll, RecursiveQuery, CacheHit, FetchSoa, FetchFails, Failed, LookupNameservers,
          AskNameserver, Goto, Shape
    <3> QED
      BY <3>1 DEF SearchAt
  <2> QED
    BY <2>1, <2>2, <2>3, <2>4
<1>3. CASE Propagate \/ Expire \/ ClearFqdnCache \/ UNCHANGED vars
  BY <1>3, <1>f DEF Propagate, Expire, ClearFqdnCache, vars, Same
<1> QED
  BY <1>1, <1>2, <1>3 DEF Next, Finished

LEMMA GenuineStep ==
  ASSUME Shape, Counters, SearchOK, GenuineEntries, [Next]_vars
  PROVE  GenuineEntries'
<1> USE DEF cacheVars, config
<1> SUFFICES ASSUME NEW n \in Name, genuine'[n]
             PROVE  \E p \in Proc : IsZone(view[p], n, cacheZone[n])'
  BY DEF GenuineEntries
<1>1. view' = view
  BY DEF Next, Step, Poll, RecursiveQuery, CacheHit, CacheMiss, FetchNoSoa, FetchQueryFails,
         NextLabel, FetchSoa, FetchFails, LookupNameservers, AskNameserver, Propagate, Expire,
         ClearFqdnCache, Finished, vars
<1>2. CASE genuine[n] /\ cacheZone'[n] = cacheZone[n]
  <2>1. PICK p \in Proc : IsZone(view[p], n, cacheZone[n])
    BY <1>2 DEF GenuineEntries
  <2> QED
    BY <1>1, <1>2, <2>1 DEF IsZone
<1>3. ASSUME NEW p \in Proc, FetchSoa(p), n = name[p]
      PROVE  \E q \in Proc : IsZone(view[q], n, cacheZone[n])'
  <2>1. /\ cacheZone'[n] = at[p] /\ ~failing[p] /\ pc[p] = "fetch"
        /\ at[p] \in Apex[view[p]][n]
    BY <1>3 DEF FetchSoa, Shape, Counters
  <2>2. \A k \in Apex[view[p]][n] : at[p] <= k
    BY <1>3, <2>1 DEF SearchOK, SearchAt
  <2> QED
    BY <1>1, <2>1, <2>2 DEF IsZone
<1>4. ASSUME NEW p \in Proc, FetchSoa(p), n # name[p]
      PROVE  genuine[n] /\ cacheZone'[n] = cacheZone[n]
  BY <1>4 DEF FetchSoa, Shape, Counters
<1>5. ASSUME NEW p \in Proc, Step(p) PROVE cacheVars' = cacheVars \/ FetchSoa(p)
  BY <1>5 DEF Step, Poll, RecursiveQuery, CacheHit, CacheMiss, FetchNoSoa, FetchQueryFails,
              NextLabel, FetchFails, LookupNameservers, AskNameserver
<1>6. CASE Expire
  BY <1>2, <1>6 DEF Expire, Shape, Counters
<1>7. CASE ClearFqdnCache
  BY <1>7 DEF ClearFqdnCache
<1>8. CASE Propagate \/ UNCHANGED vars
  BY <1>2, <1>8 DEF Propagate, vars
<1> QED
  BY <1>2, <1>3, <1>4, <1>5, <1>6, <1>7, <1>8 DEF Next, Finished

(* An entry of the SOA cache that was fetched without a failing query is   *)
(* the zone of its name as the nameservers of some goroutine see it, for   *)
(* any number of names and views: fetchSoaByFqdn stops at the first apex.  *)
THEOREM EntriesAreGenuine == Spec => []GenuineEntries
<1>1. Init => SearchOK /\ GenuineEntries
  BY DEF Init, SearchOK, SearchAt, GenuineEntries, Start
<1>2. IInv => Shape
  BY DEF IInv
<1>3. Shape /\ Counters /\ SearchOK /\ GenuineEntries /\ [Next]_vars => SearchOK' /\ GenuineEntries'
  BY SearchStep, GenuineStep
<1> QED
  BY <1>1, <1>2, <1>3, InvOK, InitCounters, CountersStep, PTL DEF Spec
=============================================================================
