--------------------------- MODULE CertifierProof ---------------------------
(***************************************************************************)
(* Proofs about module Certifier, for every request, every CA policy and   *)
(* every offer of chains, except where a theorem names the policy it is    *)
(* about.                                                                  *)
(***************************************************************************)
EXTENDS CertifierInvariant

(* Past Solve, what was valid for it stays valid, and the CSR is sent only *)
(* then.                                                                   *)
LEMMA SolvedNext ==
    ASSUME IInv, [Next]_vars
    PROVE  SolvedOK'
<1> USE DEF request, orderVars, collecting, issuing, server, history
<1>s. SolvedOK
  BY DEF IInv
<1>u. ASSUME UNCHANGED <<pc, solve, responses, authorizations, csr, identifiers, status>>
      PROVE  SolvedOK'
  BY <1>u, <1>s DEF SolvedOK, Ordered
<1>b. ASSUME pc \in {"start", "sanitize", "order", "spawn", "collect"},
             pc' \in {"sanitize", "order", "spawn", "collect", "panic", "deactivate", "done"},
             UNCHANGED <<solve, csr>>
      PROVE  SolvedOK'
  BY <1>b, <1>s DEF SolvedOK
<1>d. ASSUME pc \in {"deactivate", "deactivating"}, pc' \in {"deactivate", "deactivating", "done"},
             UNCHANGED <<solve, csr>>
      PROVE  SolvedOK'
  BY <1>d, <1>s DEF SolvedOK
<1>a. ASSUME pc \in {"finalize", "poll", "links"}, pc' \in {"poll", "links", "done"},
             UNCHANGED <<solve, responses, authorizations, identifiers, status>>,
             csr' = csr \/ csr' = identifiers
      PROVE  SolvedOK'
  BY <1>a, <1>s DEF SolvedOK, Ordered
<1>1. ASSUME NEW ds \in Requests, NEW given \in BOOLEAN, NEW chain \in BOOLEAN,
             Enter(ds, given, chain)
      PROVE  SolvedOK'
  BY <1>1, <1>b DEF Enter, Return
<1>2. CASE Refused
  BY <1>2, <1>b DEF Refused, Return
<1>3. CASE Sanitize
  BY <1>3, <1>b DEF Sanitize
<1>4. CASE NewOrder
  BY <1>4, <1>b DEF NewOrder, Return
<1>5. CASE Spawn
  BY <1>5, <1>b DEF Spawn
<1>6. CASE GetAuthorization
  BY <1>6, <1>u DEF GetAuthorization
<1>7. CASE Collect
  BY <1>7, <1>b DEF Collect
<1>8. CASE CollectEnds
  <2>1. CASE pc' = "solve"
    <3>1. responses' = Ordered' /\ UNCHANGED <<solve, csr>>
      BY <1>8, <2>1, AllReceived
      DEF CollectEnds, Failed, Deactivating, IInv, CollectOK, Ordered
    <3> QED BY <1>8, <1>s, <2>1, <3>1 DEF CollectEnds, SolvedOK
  <2> QED BY <1>8, <1>b, <2>1 DEF CollectEnds, Deactivating
<1>9. CASE Solve
  <2>1. /\ pc = "solve" /\ csr' = csr /\ csr = {} /\ responses = Ordered
        /\ UNCHANGED <<responses, authorizations, status>>
    BY <1>9, <1>s DEF Solve, Resolver!ReturnFor, SolvedOK
  <2>2. \/ solve' = "ok" /\ pc' = "finalize" /\ \A u \in responses : status[u] = "valid"
        \/ solve' = "err" /\ pc' = "deactivate"
    BY <1>9 DEF Solve, Resolver!ReturnFor, Deactivating
  <2> QED BY <2>1, <2>2 DEF SolvedOK, Ordered
<1>10. CASE Validate
  <2>1. solve' = solve /\ \E u \in responses : status[u] \in Open
    BY <1>10, ValidateStep DEF IInv
  <2>2. solve # "ok"
    BY <1>s, <2>1 DEF SolvedOK, Open
  <2>3. UNCHANGED <<pc, responses, authorizations, csr, identifiers>>
    BY <1>10 DEF Validate
  <2> QED BY <1>s, <2>1, <2>2, <2>3 DEF SolvedOK, Ordered
<1>11. CASE GetBeforeDeactivate
  BY <1>11, <1>d DEF GetBeforeDeactivate
<1>12. CASE Deactivate
  BY <1>12, <1>d DEF Deactivate
<1>13. CASE Deactivated
  BY <1>13, <1>d DEF Deactivated, Return
<1>14. CASE Finalize
  <2>1. Names = identifiers
    BY <1>14, NamesOrdered DEF Finalize
  <2> QED BY <1>14, <1>a, <2>1 DEF Finalize, fail, Return
<1>15. CASE Issue
  BY <1>15, <1>u DEF Issue
<1>16. CASE Poll
  BY <1>16, <1>a DEF Poll
<1>17. CASE PollTimeout
  BY <1>17, <1>a DEF PollTimeout, fail, Return
<1>18. CASE Link
  BY <1>18, <1>a DEF Link, LinkFails, Loaded, fail, Return
<1>19. CASE UNCHANGED vars
  BY <1>19, <1>u DEF vars
<1> QED BY <1>1, <1>2, <1>3, <1>4, <1>5, <1>6, <1>7, <1>8, <1>9, <1>10, <1>11, <1>12, <1>13,
           <1>14, <1>15, <1>16, <1>17, <1>18, <1>19, EntryStep
        DEF Next, Client, Finished

(* deactivateAuthorizations closes one authorization after the other and   *)
(* never one that was valid when it began.                                 *)
LEMMA TidiedNext ==
    ASSUME IInv, [Next]_vars
    PROVE  TidiedOK'
<1> USE DEF request, orderVars, collecting, issuing, server, history
<1>s. TidiedOK /\ SolvedOK /\ OrderOK
  BY DEF IInv
<1>t. /\ status \in [Authz -> {"pending", "processing", "valid", "invalid", "deactivated"}]
      /\ authorizations \in Seq(Authz) /\ held \subseteq Authz
  BY DEF IInv, TypeOK
<1>n. Len(authorizations) \in Nat /\ n \in Nat \ {0}
  BY Indices
<1>u. ASSUME UNCHANGED <<pc, n, solve, authorizations, csr, status, held, skipped>>,
             order' = "pending" => order = "pending"
      PROVE  TidiedOK'
  BY <1>u, <1>s DEF TidiedOK
<1>k. ASSUME UNCHANGED <<held, status>>, pc' \notin {"deactivate", "deactivating"},
             pc' = "done" => solve' = "ok" \/ order' # "pending"
      PROVE  TidiedOK'
  BY <1>k, <1>s DEF TidiedOK
<1>d. ASSUME Deactivating, UNCHANGED <<authorizations, status>>, solve' # "ok"
      PROVE  TidiedOK'
  <2>1. /\ pc' = "deactivate" /\ n' = 1 /\ held' = {u \in Authz : status[u] = "valid"}
    BY <1>d DEF Deactivating
  <2>2. n' <= Len(authorizations') + 1 /\ \A k : k \notin 1..(n' - 1)
    BY <1>d, <1>n, <2>1
  <2> QED BY <1>d, <2>1, <2>2 DEF TidiedOK
<1>1. ASSUME NEW ds \in Requests, NEW given \in BOOLEAN, NEW chain \in BOOLEAN,
             Enter(ds, given, chain)
      PROVE  TidiedOK'
  BY <1>1, <1>s, <1>k DEF Enter, Return, OrderOK
<1>2. CASE Refused
  BY <1>2, <1>s, <1>k DEF Refused, Return, OrderOK
<1>3. CASE Sanitize
  BY <1>3, <1>s, <1>k DEF Sanitize
<1>4. CASE NewOrder
  BY <1>4, <1>s, <1>k DEF NewOrder, Return, OrderOK
<1>5. CASE Spawn
  BY <1>5, <1>k DEF Spawn
<1>6. CASE GetAuthorization
  BY <1>6, <1>u DEF GetAuthorization
<1>7. CASE Collect
  BY <1>7, <1>k DEF Collect
<1>8. CASE CollectEnds
  <2>1. solve' # "ok" /\ UNCHANGED <<authorizations, status>>
    BY <1>8, <1>s DEF CollectEnds, SolvedOK
  <2>2. Deactivating \/ (pc' \in {"panic", "solve"} /\ UNCHANGED held)
    BY <1>8 DEF CollectEnds
  <2> QED BY <1>d, <1>k, <2>1, <2>2
<1>9. CASE Solve
  <2>1. UNCHANGED <<authorizations, status>>
    BY <1>9 DEF Solve, Resolver!ReturnFor
  <2>2. (Deactivating /\ solve' # "ok") \/ (pc' = "finalize" /\ UNCHANGED held)
    BY <1>9 DEF Solve
  <2> QED BY <1>d, <1>k, <2>1, <2>2
<1>10. CASE Validate
  <2>1. PICK u \in responses, s \in {"processing", "valid", "invalid"} :
          status[u] \in Open /\ status' = [status EXCEPT ![u] = s]
    BY <1>10, ValidateStep DEF IInv
  <2>2. UNCHANGED <<pc, n, authorizations, csr, order, held, skipped>> /\ solve' = solve
    BY <1>10, ValidateStep DEF IInv, Validate
  <2>3. \A v \in Authz : status[v] \notin Open => status'[v] = status[v]
    BY <1>t, <2>1
  <2>4. \A v \in held' : status'[v] = "valid"
    BY <1>s, <1>t, <2>2, <2>3 DEF TidiedOK, Open
  <2>5. \A k \in 1..Len(authorizations) : authorizations[k] \in Authz
    BY <1>t
  <2>6. pc \in {"deactivate", "deactivating"} => \A k \in 1..(n - 1) : k \in 1..Len(authorizations)
    <3>1. pc \in {"deactivate", "deactivating"} => n <= Len(authorizations) + 1
      BY <1>s DEF TidiedOK
    <3> QED BY <1>n, <3>1
  <2>7. \A k \in 1..Len(authorizations) :
           status[authorizations[k]] \notin Open => status'[authorizations[k]] \notin Open
    BY <2>3, <2>5
  <2> QED BY <1>s, <2>2, <2>4, <2>6, <2>7 DEF TidiedOK
<1>v. ASSUME n <= Len(authorizations)
      PROVE  authorizations[n] \in Authz /\ n \in 1..Len(authorizations)
  <2>1. n \in 1..Len(authorizations)
    BY <1>v, <1>n
  <2> QED BY <1>t, <2>1
<1>11. CASE GetBeforeDeactivate
  <2>1. /\ pc = "deactivate" /\ n <= Len(authorizations) /\ skipped \subseteq skipped'
        /\ UNCHANGED <<solve, authorizations, csr, status, order, held>>
        /\ \/ /\ n' = n + 1 /\ pc' = pc
              /\ authorizations[n] \in skipped' \/ status[authorizations[n]] \notin Open
           \/ n' = n /\ pc' = "deactivating" /\ authorizations[n] \notin held
    BY <1>11, <1>s DEF GetBeforeDeactivate, Open, TidiedOK
  <2>2. n' <= Len(authorizations') + 1
    BY <1>n, <2>1
  <2>3. \A k : k \in 1..(n' - 1) => k \in 1..(n - 1) \/ (k = n /\ n' = n + 1)
    BY <1>n, <2>1
  <2>4. \A k \in 1..(n' - 1) :
          authorizations'[k] \in skipped' \/ status'[authorizations'[k]] \notin Open
    BY <1>s, <2>1, <2>3 DEF TidiedOK
  <2> QED BY <1>s, <2>1, <2>2, <2>4 DEF TidiedOK
<1>12. CASE Deactivate
  <2>1. /\ pc = "deactivating" /\ n <= Len(authorizations) /\ skipped \subseteq skipped'
        /\ UNCHANGED <<solve, authorizations, csr, order, held>>
        /\ n' = n + 1 /\ pc' = "deactivate" /\ authorizations[n] \notin held
        /\ \/ status' = [status EXCEPT ![authorizations[n]] = "deactivated"]
           \/ status' = status /\ authorizations[n] \in skipped'
    BY <1>12, <1>s DEF Deactivate, TidiedOK
  <2>2. n' <= Len(authorizations') + 1
    BY <1>n, <2>1
  <2>3. \A k : k \in 1..(n' - 1) => k \in 1..(n - 1) \/ k = n
    BY <1>n, <2>1
  <2>4. \A v \in Authz : \/ status'[v] = status[v]
                         \/ v = authorizations[n] /\ status'[v] = "deactivated"
    BY <1>t, <1>v, <2>1
  <2>5. \A v \in held' : status'[v] = "valid"
    BY <1>s, <1>t, <2>1, <2>4 DEF TidiedOK
  <2>6. authorizations[n] \in skipped' \/ status'[authorizations[n]] \notin Open
    BY <1>t, <1>v, <2>1 DEF Open
  <2>7. \A k \in 1..(n - 1) : authorizations[k] \in Authz
    BY <1>n, <1>t, <2>1
  <2>8. \A k \in 1..(n - 1) :
          authorizations[k] \in skipped' \/ status'[authorizations[k]] \notin Open
    BY <1>s, <2>1, <2>4, <2>7 DEF TidiedOK, Open
  <2>9. \A k \in 1..(n' - 1) :
          authorizations'[k] \in skipped' \/ status'[authorizations'[k]] \notin Open
    BY <2>1, <2>3, <2>6, <2>8
  <2> QED BY <1>s, <2>1, <2>2, <2>5, <2>9 DEF TidiedOK
<1>13. CASE Deactivated
  <2>1. /\ pc = "deactivate" /\ n > Len(authorizations) /\ n <= Len(authorizations) + 1
        /\ UNCHANGED <<n, solve, authorizations, csr, status, order, held, skipped>> /\ pc' = "done"
    BY <1>13, <1>s DEF Deactivated, Return, TidiedOK
  <2>2. n - 1 = Len(authorizations)
    BY <1>n, <2>1
  <2> QED BY <1>s, <2>1, <2>2 DEF TidiedOK
<1>14. CASE Finalize
  BY <1>14, <1>s, <1>k DEF Finalize, fail, Return, SolvedOK
<1>15. CASE Issue
  BY <1>15, <1>u DEF Issue
<1>16. CASE Poll
  BY <1>16, <1>k DEF Poll
<1>17. CASE PollTimeout
  BY <1>17, <1>s, <1>k DEF PollTimeout, fail, Return, SolvedOK
<1>18. CASE Link
  <2>1. pc' \in {"links", "poll", "done"} /\ solve' = solve /\ solve = "ok"
        /\ UNCHANGED <<held, status>>
    BY <1>18, <1>s DEF Link, LinkFails, Loaded, fail, Return, SolvedOK
  <2> QED BY <1>k, <2>1
<1>19. CASE UNCHANGED vars
  BY <1>19, <1>u DEF vars
<1> QED BY <1>1, <1>2, <1>3, <1>4, <1>5, <1>6, <1>7, <1>8, <1>9, <1>10, <1>11, <1>12, <1>13,
           <1>14, <1>15, <1>16, <1>17, <1>18, <1>19, EntryStep
        DEF Next, Client, Finished

(* The links are followed in order, and the first one that is wanted is    *)
(* returned.                                                               *)
LEMMA ChainsNext ==
    ASSUME IInv, [Next]_vars
    PROVE  ChainsOK'
<1> USE DEF request, orderVars, collecting, issuing, server, history
<1>s. ChainsOK /\ OrderOK /\ SolvedOK
  BY DEF IInv
<1>n. /\ Len(chains) \in Nat \ {0} /\ n \in Nat \ {0} /\ certRes \in 0..Len(chains)
      /\ result \in [cert : 0..Len(chains), err : {"running", "nil", "err"}]
  BY Indices DEF IInv, TypeOK
<1>u. ASSUME UNCHANGED <<pc, n, preferred, responses, csr, certRes, result, order, chains>>
      PROVE  ChainsOK'
  BY <1>u, <1>s DEF ChainsOK, FirstWanted, Wanted
<1>m. ASSUME pc # "done", pc' \notin {"done", "links"}, UNCHANGED <<result, certRes>>,
             certRes # 0 => order' = order
      PROVE  ChainsOK'
  BY <1>m, <1>s DEF ChainsOK
<1>e. ASSUME Return(0, "err"), certRes' = certRes, certRes # 0 => order' = order
      PROVE  ChainsOK'
  BY <1>e, <1>s DEF ChainsOK, Return
<1>f. ASSUME fail(0), certRes' = certRes, responses' = responses, certRes # 0 => order' = order
      PROVE  ChainsOK'
  BY <1>f, <1>s DEF ChainsOK, fail, Return
<1>1. ASSUME NEW ds \in Requests, NEW given \in BOOLEAN, NEW chain \in BOOLEAN,
             Enter(ds, given, chain)
      PROVE  ChainsOK'
  <2>1. /\ UNCHANGED <<certRes, order>> /\ pc = "start"
        /\ Return(0, "err") \/ (pc' \in {"order", "sanitize"} /\ result' = result)
    BY <1>1 DEF Enter
  <2> QED BY <1>e, <1>m, <2>1
<1>2. CASE Refused
  BY <1>2, <1>e DEF Refused
<1>3. CASE Sanitize
  BY <1>3, <1>m DEF Sanitize
<1>4. CASE NewOrder
  <2>1. certRes = 0 /\ certRes' = certRes
    BY <1>4, <1>s DEF NewOrder, OrderOK, ChainsOK
  <2>2. Return(0, "err") \/ (pc = "order" /\ pc' = "spawn" /\ result' = result)
    BY <1>4 DEF NewOrder
  <2> QED BY <1>e, <1>m, <2>1, <2>2
<1>5. CASE Spawn
  BY <1>5, <1>m DEF Spawn
<1>6. CASE GetAuthorization
  BY <1>6, <1>u DEF GetAuthorization
<1>7. CASE Collect
  BY <1>7, <1>m DEF Collect
<1>8. CASE CollectEnds
  BY <1>8, <1>m DEF CollectEnds, Deactivating
<1>9. CASE Solve
  BY <1>9, <1>m DEF Solve, Deactivating
<1>10. CASE Validate
  BY <1>10, <1>u DEF Validate
<1>11. CASE GetBeforeDeactivate
  BY <1>11, <1>m DEF GetBeforeDeactivate
<1>12. CASE Deactivate
  BY <1>12, <1>m DEF Deactivate
<1>13. CASE Deactivated
  BY <1>13, <1>e DEF Deactivated
<1>14. CASE Finalize
  <2>1. certRes = 0 /\ UNCHANGED <<certRes, responses, chains>> /\ pc = "finalize"
    BY <1>14, <1>s DEF Finalize, OrderOK, ChainsOK
  <2>2. \/ fail(0) \/ (pc' = "poll" /\ result' = result)
        \/ pc' = "links" /\ n' = 1 /\ result' = result
    BY <1>14, Zenon DEF Finalize
  <2>3. CASE pc' = "links" /\ n' = 1 /\ result' = result
    <3>1. n' <= Len(chains') /\ ~(n' > 1) /\ \A k : k \notin 1..(n' - 1)
      BY <1>n, <2>1, <2>3
    <3> QED BY <1>s, <2>1, <2>3, <3>1 DEF ChainsOK
  <2> QED BY <1>f, <1>m, <2>1, <2>2, <2>3
<1>15. CASE Issue
  <2>1. /\ certRes = 0 /\ pc # "links" /\ ~(result.cert # 0 /\ result.err = "nil")
        /\ UNCHANGED <<pc, n, preferred, responses, csr, certRes, result, chains>>
    BY <1>15, <1>s DEF Issue, OrderOK, ChainsOK
  <2> QED BY <1>s, <2>1 DEF ChainsOK
<1>16. CASE Poll
  <2>1. /\ pc = "poll" /\ pc' = "links" /\ n' = 1
        /\ UNCHANGED <<responses, csr, certRes, result, order, chains>>
    BY <1>16 DEF Poll
  <2>2. n' <= Len(chains') /\ ~(n' > 1) /\ \A k : k \notin 1..(n' - 1)
    BY <1>n, <2>1
  <2> QED BY <1>s, <2>1, <2>2 DEF ChainsOK
<1>17. CASE PollTimeout
  <2>1. /\ pc' = "done" /\ UNCHANGED <<responses, csr, certRes, order>>
        /\ result' = [cert |-> certRes, err |-> IF responses = {} THEN "nil" ELSE "err"]
    BY <1>17 DEF PollTimeout, fail, Return
  <2>2. certRes # 0 => order = "valid" /\ csr # {}
    BY <1>s DEF OrderOK, ChainsOK
  <2>3. result'.cert = certRes /\ result'.err # "running" /\ (result'.err = "nil" => responses = {})
    BY <2>1
  <2> QED BY <2>1, <2>2, <2>3 DEF ChainsOK
<1>18. CASE Link
  <2>1. /\ pc = "links" /\ order = "valid" /\ csr # {} /\ result.err = "running"
        /\ n <= Len(chains) /\ (n > 1 => certRes = 1 /\ preferred)
        /\ \A k \in 1..(n - 1) : chains[k] # "preferred"
        /\ UNCHANGED <<preferred, responses, csr, order, chains>>
    BY <1>18, <1>s DEF Link, OrderOK, ChainsOK
  <2>2. DefaultOf(certRes) = 1
    BY <1>n, <2>1 DEF DefaultOf
  <2>3. ASSUME NEW k, LinkFails(k)
        PROVE  ChainsOK'
    <3>1. CASE shortcut
      <4>1. /\ pc' = "done" /\ result' = [cert |-> 0, err |-> IF responses = {} THEN "nil" ELSE "err"]
        BY <2>3, <3>1 DEF LinkFails, fail, Return
      <4>2. result'.cert = 0 /\ result'.err # "running" /\ (result'.err = "nil" => responses = {})
        BY <4>1
      <4> QED BY <2>1, <4>1, <4>2 DEF ChainsOK
    <3>2. CASE ~shortcut
      BY <2>1, <2>3, <3>2 DEF LinkFails, ChainsOK
    <3> QED BY <3>1, <3>2
  <2>4. ASSUME NEW k \in Nat \ {0}, Loaded(k), FirstWanted(k)
        PROVE  ChainsOK'
    <3>1. pc' = "done" /\ result' = [cert |-> k, err |-> "nil"] /\ certRes' = k
      BY <2>4 DEF Loaded, Return
    <3>2. result'.cert = k /\ result'.err = "nil" /\ FirstWanted(k)'
      BY <2>1, <2>4, <3>1 DEF FirstWanted, Wanted
    <3>3. FirstWanted(result.cert)'
      BY <2>1, <2>4, <3>2 DEF FirstWanted, Wanted
    <3> QED BY <2>1, <3>1, <3>2, <3>3 DEF ChainsOK
  <2>5. CASE ~preferred /\ Loaded(DefaultOf(certRes))
    <3>1. FirstWanted(1)
      BY <2>5 DEF FirstWanted, Wanted
    <3> QED BY <2>2, <2>4, <2>5, <3>1
  <2>6. CASE preferred /\ hasPreferredChain(chains[n]) /\ Loaded(n)
    <3>1. n \in Wanted /\ \A k \in Wanted : n <= k
      BY <1>n, <2>1, <2>6 DEF Wanted, hasPreferredChain
    <3> QED BY <1>n, <2>4, <2>6, <3>1 DEF FirstWanted
  <2>7. CASE ~hasPreferredChain(chains[n]) /\ n = Len(chains) /\ Loaded(DefaultOf(certRes))
    <3>1. \A k \in 1..Len(chains) : k \in 1..(n - 1) \/ k = n
      BY <1>n, <2>7
    <3>2. Wanted = {}
      BY <2>1, <2>7, <3>1 DEF Wanted, hasPreferredChain
    <3> QED BY <2>2, <2>4, <2>7, <3>2 DEF FirstWanted
  <2>8. CASE /\ preferred /\ ~hasPreferredChain(chains[n]) /\ n # Len(chains)
             /\ n' = n + 1 /\ certRes' = DefaultOf(certRes) /\ UNCHANGED <<pc, failures, result>>
    <3>1. n' <= Len(chains') /\ \A k : k \in 1..(n' - 1) => k \in 1..(n - 1) \/ k = n
      BY <1>n, <2>1, <2>8
    <3>2. \A k \in 1..(n' - 1) : chains'[k] # "preferred"
      BY <2>1, <2>8, <3>1 DEF hasPreferredChain
    <3> QED BY <2>1, <2>2, <2>8, <3>1, <3>2 DEF ChainsOK
  <2>9. \/ LinkFails(certRes) \/ LinkFails(DefaultOf(certRes))
        \/ (~preferred /\ Loaded(DefaultOf(certRes)))
        \/ (preferred /\ hasPreferredChain(chains[n]) /\ Loaded(n))
        \/ (~hasPreferredChain(chains[n]) /\ n = Len(chains) /\ Loaded(DefaultOf(certRes)))
        \/ (/\ preferred /\ ~hasPreferredChain(chains[n]) /\ n # Len(chains)
            /\ n' = n + 1 /\ certRes' = DefaultOf(certRes) /\ UNCHANGED <<pc, failures, result>>)
    BY <1>18, Zenon DEF Link
  <2> QED BY <2>3, <2>5, <2>6, <2>7, <2>8, <2>9
<1>19. CASE UNCHANGED vars
  BY <1>19, <1>u DEF vars
<1> QED BY <1>1, <1>2, <1>3, <1>4, <1>5, <1>6, <1>7, <1>8, <1>9, <1>10, <1>11, <1>12, <1>13,
           <1>14, <1>15, <1>16, <1>17, <1>18, <1>19, EntryStep
        DEF Next, Client, Finished

LEMMA Inductive == IInv /\ [Next]_vars => IInv'
BY TypeNext, OrderNext, NamesNext, CollectNext, SolvedNext, TidiedNext, ChainsNext DEF IInv

(* The inductive invariant holds in every reachable state of the calls. *)
THEOREM Invariance == Spec => []IInv
<1> QED BY InitInv, Inductive, PTL DEF Spec

----------------------------------------------------------------------------
(* The variables of Obtain, ObtainForCSR and Renew keep their types: the   *)
(* loop index stays in bounds, every authorization is one the CA offered,  *)
(* and the CSR names only identifiers of the order.                        *)
THEOREM TypeCorrect == Spec => []TypeOK
<1>1. IInv => TypeOK
  BY DEF IInv
<1> QED BY <1>1, Invariance, PTL

(* getAuthorizations receives from exactly as many goroutines as it has    *)
(* started, so none is left blocked on a channel, in whatever order the    *)
(* requests return and however many of them fail.                          *)
THEOREM GoroutinesCollected == Spec => []NoGoroutineLeft
<1>1. IInv => NoGoroutineLeft
  BY DEF IInv, CollectOK, NoGoroutineLeft
<1> QED BY <1>1, Invariance, PTL

(* The CSR is sent only when every authorization of the order is valid,    *)
(* whatever the CA does while Solve runs and after it.                     *)
THEOREM OrderFinalizedWhenValid == Spec => []FinalizedOnlyWhenValid
<1>1. IInv => FinalizedOnlyWhenValid
  BY DEF IInv, SolvedOK, Ordered, FinalizedOnlyWhenValid
<1> QED BY <1>1, Invariance, PTL

(* deactivateAuthorizations leaves no authorization of a failed order open *)
(* unless a request about it failed, and deactivates none that was valid   *)
(* when it began, however the CA's validation overlaps with it.            *)
THEOREM FailedOrderTidied == Spec => []FailureTidied
<1>1. ASSUME IInv PROVE FailureTidied
  <2>1. \A u \in held : status[u] = "valid"
    BY <1>1 DEF IInv, TidiedOK
  <2>2. ASSUME pc = "done", order = "pending", csr = {}, solve # "ok",
               NEW u \in Range(authorizations) \ skipped
        PROVE  status[u] \notin {"pending", "processing"}
    <3>1. PICK k \in 1..Len(authorizations) : u = authorizations[k]
      BY <1>1, <2>2, OrderedFacts DEF Ordered
    <3> QED BY <1>1, <2>2, <3>1 DEF IInv, TidiedOK, Open
  <2> QED BY <2>1, <2>2 DEF FailureTidied
<1> QED BY <1>1, Invariance, PTL

----------------------------------------------------------------------------
(* What a certificate that is returned without an error names, whatever    *)
(* the request and the CA: exactly the identifiers of the order, and these *)
(* are the domains of the CSR or those that sanitizeDomain accepted.  When *)
(* the order had an authorization, it is the wanted chain.                 *)
CertificateOfAccepted ==
    Succeeded /\ result.cert # 0 =>
        /\ csr = identifiers
        /\ csr = IF csrGiven THEN Range(asked) ELSE Range(asked) \cap Encodable
        /\ responses # {} => FirstWanted(result.cert)

(* Obtain, ObtainForCSR and Renew return a certificate for exactly the     *)
(* domains they could order, and choose its chain by PreferredChain.       *)
THEOREM AcceptedNamesCertified == Spec => []CertificateOfAccepted
<1>1. ASSUME IInv PROVE CertificateOfAccepted
  <2> SUFFICES ASSUME Succeeded, result.cert # 0
               PROVE  /\ csr = identifiers
                      /\ csr = IF csrGiven THEN Range(asked) ELSE Range(asked) \cap Encodable
                      /\ responses # {} => FirstWanted(result.cert)
    BY DEF CertificateOfAccepted
  <2>1. order = "valid" /\ csr # {} /\ (responses # {} => FirstWanted(result.cert))
    BY <1>1 DEF IInv, ChainsOK, Succeeded
  <2>2. csr = identifiers
    BY <1>1, <2>1 DEF IInv, SolvedOK
  <2>3. identifiers = Range(domains)
    BY <1>1, <2>1 DEF IInv, OrderOK
  <2>4. Range(domains) = IF csrGiven THEN Range(asked) ELSE Range(asked) \cap Encodable
    BY <1>1, <2>1 DEF IInv, NamesOK
  <2> QED BY <2>1, <2>2, <2>3, <2>4
<1> QED BY <1>1, Invariance, PTL

(* A CA that puts an authorization into every order. *)
Authorizing == Policy \in {"one each", "extra"}

(* Every domain a caller asks for is one that idna.ToASCII accepts. *)
AllAccepted == \A ds \in Requests : Range(ds) \subseteq Encodable

LEMMA SomeResponse ==
    ASSUME IInv, Authorizing, solve = "ok", order # "none"
    PROVE  responses # {}
<1>1. /\ responses = Ordered /\ Len(authorizations) = AuthorizationCount(Cardinality(identifiers))
      /\ Cardinality(identifiers) \in Nat \ {0}
      /\ Ordered = {authorizations[k] : k \in 1..Len(authorizations)}
  BY OrderedFacts DEF IInv, SolvedOK
<1>2. Len(authorizations) \in Nat \ {0}
  <2> DEFINE c == Cardinality(identifiers)
  <2>1. AuthorizationCount(c) = c \/ AuthorizationCount(c) = c + 1
    BY <1>1, CountIs DEF Authorizing
  <2> QED BY <1>1, <2>1
<1>3. 1 \in 1..Len(authorizations)
  BY <1>2
<1>4. authorizations[1] \in Ordered
  BY <1>1, <1>3
<1> QED BY <1>1, <1>4

(* When the CA authorizes every order and every domain can be encoded, the *)
(* certificate names exactly the domains asked for and is the first        *)
(* offered chain of the preferred issuer, or the default one, however      *)
(* often checkResponse had to be tried.                                    *)
THEOREM CertificateIsAsAsked ==
    ASSUME Authorizing, AllAccepted
    PROVE  Spec => []CertificateAsAsked
<1>1. ASSUME IInv, CertificateOfAccepted PROVE CertificateAsAsked
  <2> SUFFICES ASSUME Succeeded, result.cert # 0
               PROVE  NoPartialCertificate /\ FirstWanted(result.cert)
    BY DEF CertificateAsAsked, FirstWanted, Wanted
  <2>1. order = "valid" /\ csr # {}
    BY <1>1 DEF IInv, ChainsOK, Succeeded
  <2>2. responses # {}
    BY <1>1, <2>1, SomeResponse DEF IInv, SolvedOK
  <2>3. Range(asked) \subseteq Encodable
    BY <1>1 DEF IInv, TypeOK, AllAccepted, Range
  <2>4. csr = identifiers /\ csr = Range(asked) /\ FirstWanted(result.cert)
    BY <1>1, <2>2, <2>3 DEF CertificateOfAccepted
  <2> QED BY <2>4 DEF NoPartialCertificate
<1> QED BY <1>1, Invariance, AcceptedNamesCertified, PTL

----------------------------------------------------------------------------
LEMMA OutcomeRunning ==
    result.err = "running" => Outcome = "running"
BY DEF Outcome

LEMMA InitContract == Init => Contract!Init
<1> SUFFICES ASSUME Init PROVE order # "valid" /\ Outcome = "running"
  BY DEF Contract!Init
<1>1. result.err = "running" /\ order = "none"
  BY DEF Init
<1> QED BY <1>1, OutcomeRunning

(* Each step of Obtain is a step of the contract or does not concern it. *)
LEMMA StepContract ==
    ASSUME Authorizing, IInv, IInv', [Next]_vars
    PROVE  [Contract!Next]_(Contract!vars)
<1> USE DEF request, orderVars, collecting, issuing, server, history
<1>s. ChainsOK /\ OrderOK /\ SolvedOK
  BY DEF IInv
<1>u. ASSUME result' = result, order = "valid" <=> order' = "valid"
      PROVE  [Contract!Next]_(Contract!vars)
  <2>1. Outcome' = Outcome /\ (order = "valid")' = (order = "valid")
    BY <1>u DEF Outcome
  <2> QED BY <2>1 DEF Contract!vars
<1>i. ASSUME result' = result, order' = "valid"
      PROVE  [Contract!Next]_(Contract!vars)
  <2>1. Outcome' = Outcome
    BY <1>i DEF Outcome
  <2> QED BY <1>i, <2>1 DEF Contract!Next, Contract!Issue
<1>e. ASSUME NEW c, result' = [cert |-> c, err |-> "err"], pc # "done",
             order = "valid" <=> order' = "valid"
      PROVE  [Contract!Next]_(Contract!vars)
  <2>1. result.err = "running" /\ result'.err = "err"
    BY <1>e, <1>s DEF ChainsOK
  <2>2. Outcome = "running"
    BY <2>1, OutcomeRunning
  <2>3. Outcome' = "error"
    BY <2>1 DEF Outcome
  <2> QED BY <1>e, <2>2, <2>3 DEF Contract!Next, Contract!Return
<1>f. ASSUME NEW c, fail(c), pc \in {"finalize", "poll", "links"},
             order = "valid" <=> order' = "valid"
      PROVE  [Contract!Next]_(Contract!vars)
  <2>1. responses # {}
    BY <1>f, <1>s, SomeResponse DEF SolvedOK, OrderOK
  <2>2. result' = [cert |-> c, err |-> "err"]
    BY <1>f, <2>1 DEF fail, Return
  <2> QED BY <1>e, <1>f, <2>2
<1>1. ASSUME NEW ds \in Requests, NEW given \in BOOLEAN, NEW chain \in BOOLEAN,
             Enter(ds, given, chain)
      PROVE  [Contract!Next]_(Contract!vars)
  BY <1>1, <1>e, <1>u DEF Enter, Return
<1>2. CASE Refused
  BY <1>2, <1>e DEF Refused, Return
<1>3. CASE Sanitize
  BY <1>3, <1>u DEF Sanitize
<1>4. CASE NewOrder
  <2>1. order = "none" /\ pc = "order" /\ order' # "valid"
    BY <1>4, <1>s DEF NewOrder, OrderOK
  <2>2. result' = result \/ result' = [cert |-> 0, err |-> "err"]
    BY <1>4 DEF NewOrder, Return
  <2> QED BY <1>e, <1>u, <2>1, <2>2
<1>5. CASE Spawn
  BY <1>5, <1>u DEF Spawn
<1>6. CASE GetAuthorization
  BY <1>6, <1>u DEF GetAuthorization
<1>7. CASE Collect
  BY <1>7, <1>u DEF Collect
<1>8. CASE CollectEnds
  BY <1>8, <1>u DEF CollectEnds
<1>9. CASE Solve
  BY <1>9, <1>u DEF Solve
<1>10. CASE Validate
  BY <1>10, <1>u DEF Validate
<1>11. CASE GetBeforeDeactivate
  BY <1>11, <1>u DEF GetBeforeDeactivate
<1>12. CASE Deactivate
  BY <1>12, <1>u DEF Deactivate
<1>13. CASE Deactivated
  BY <1>13, <1>e DEF Deactivated, Return
<1>14. CASE Finalize
  <2>1. order = "pending" /\ pc = "finalize"
    BY <1>14, <1>s DEF Finalize, OrderOK
  <2>2. \/ result' = result /\ (order' = "valid" \/ order' = "processing")
        \/ fail(0) /\ order' # "valid"
    BY <1>14, <2>1 DEF Finalize
  <2> QED BY <1>f, <1>i, <1>u, <2>1, <2>2
<1>15. CASE Issue
  BY <1>15, <1>i, <1>u DEF Issue
<1>16. CASE Poll
  BY <1>16, <1>u DEF Poll
<1>17. CASE PollTimeout
  BY <1>17, <1>f DEF PollTimeout
<1>18. CASE Link
  <2>1. /\ pc = "links" /\ order = "valid" /\ order' = order /\ result.err = "running"
        /\ n \in Nat \ {0} /\ (n > 1 => certRes = 1)
    BY <1>18, <1>s, Indices DEF Link, OrderOK, ChainsOK
  <2>2. DefaultOf(certRes) = 1
    BY <2>1 DEF DefaultOf
  <2>3. ASSUME NEW k, LinkFails(k)
        PROVE  [Contract!Next]_(Contract!vars)
    BY <1>f, <1>u, <2>1, <2>3 DEF LinkFails
  <2>4. ASSUME NEW k \in Nat \ {0}, Loaded(k)
        PROVE  [Contract!Next]_(Contract!vars)
    <3>1. result' = [cert |-> k, err |-> "nil"]
      BY <2>4 DEF Loaded, Return
    <3>2. result'.cert # 0 /\ result'.err = "nil"
      BY <3>1
    <3>3. Outcome = "running"
      BY <2>1, OutcomeRunning
    <3>4. Outcome' = "certificate"
      BY <3>2 DEF Outcome
    <3> QED BY <2>1, <3>3, <3>4 DEF Contract!Next, Contract!Return
  <2>5. \/ LinkFails(certRes) \/ LinkFails(DefaultOf(certRes))
        \/ Loaded(DefaultOf(certRes)) \/ Loaded(n) \/ result' = result
    BY <1>18, Zenon DEF Link
  <2> QED BY <1>u, <2>1, <2>2, <2>3, <2>4, <2>5
<1>19. CASE UNCHANGED vars
  BY <1>19, <1>u DEF vars
<1> QED BY <1>1, <1>2, <1>3, <1>4, <1>5, <1>6, <1>7, <1>8, <1>9, <1>10, <1>11, <1>12, <1>13,
           <1>14, <1>15, <1>16, <1>17, <1>18, <1>19, EntryStep
        DEF Next, Client, Finished

(* When the CA authorizes every order, Obtain, ObtainForCSR and Renew      *)
(* implement ObtainContract: they return a certificate the CA has issued,  *)
(* or an error, once.                                                      *)
THEOREM ObtainImplemented ==
    ASSUME Authorizing
    PROVE  Spec => ImplementsObtain
<1>1. IInv /\ IInv' /\ [Next]_vars => [Contract!Next]_(Contract!vars)
  BY StepContract
<1> QED BY <1>1, InitContract, Invariance, PTL DEF Spec, ImplementsObtain, Contract!Spec
=============================================================================
