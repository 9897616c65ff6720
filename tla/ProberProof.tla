---------------------------- MODULE ProberProof ----------------------------
(***************************************************************************)
(* Proofs about module Prober, for every list of authorizations and every  *)
(* set of offers: responses are served while they are needed and no        *)
(* longer, exclusive responses never coexist, and Solve implements the     *)
(* contract the certifier relies on.                                       *)
(***************************************************************************)
EXTENDS Prober, TLAPS

Modes == {"parallel", "sequential"}

(* The states in which the solver of list[mode][i] has presented its       *)
(* response and its Solve has not returned.                                *)
InFlight == {"propagate", "initiate", "check", "poll"}

Serving == pc \in InFlight \/ (mode = "sequential" /\ pc = "solve")

(* How many authorizations at the head of a list have been solved or have  *)
(* failed.                                                                 *)
SolvedTo(m) ==
    IF m = "parallel"
    THEN IF mode = "sequential" \/ pc = "cleanup" THEN Len(list[m])
         ELSE IF pc \in {"choose", "presolve"} THEN 0 ELSE i - 1
    ELSE IF mode = "parallel" THEN 0
         ELSE IF pc = "done" THEN Len(list[m]) ELSE i - 1

(* Where the goroutine can be. *)
Shape ==
    /\ Serving => i <= Len(list[mode])
    /\ pc # "choose" => i <= Len(list[mode]) + 1
    /\ mode = "sequential" => pc \notin {"choose", "cleanup"}
    /\ mode = "parallel" => pc # "done"
    /\ result = "running" <=> pc # "done"

(* The lists of the first pass: no authorization twice, each in the list   *)
(* its solver belongs to, and none forgotten.                              *)
ListsOK ==
    /\ \A m \in Modes :
         /\ Len(list[m]) <= Len(Authorizations)
         /\ pc = "choose" => Len(list[m]) < i
         /\ \A k \in 1..Len(list[m]) :
              /\ solver[list[m][k]] # NoSolver
              /\ (m = "sequential") <=> Sequential(solver[list[m][k]])
              /\ pc = "choose" => \E j \in 1..(i - 1) : list[m][k] = Authorizations[j]
         /\ \A j, k \in 1..Len(list[m]) : list[m][j] = list[m][k] => j = k
    /\ \A j \in 1..Len(Authorizations) :
         (pc = "choose" => j < i) =>
            \/ status[Authorizations[j]] = "valid"
            \/ Authorizations[j] \in failures
            \/ \E m \in Modes : \E k \in 1..Len(list[m]) : list[m][k] = Authorizations[j]

(* What the server knows: an authorization whose turn is over is valid or  *)
(* recorded as failed, one whose turn has not come is still pending.       *)
TurnsOK ==
    /\ pc = "choose" => \A a \in Authz : status[a] \in {"pending", "valid"}
    /\ \A m \in Modes : \A k \in 1..Len(list[m]) :
         /\ k <= SolvedTo(m) => \/ status[list[m][k]] = "valid"
                                \/ list[m][k] \in failures
         /\ k > SolvedTo(m) => \/ m = mode /\ k = i /\ pc \in {"check", "poll"}
                               \/ status[list[m][k]] = "pending"
    /\ \A a \in Authz : status[a] = "processing" =>
         a \in failures \/ (pc \in {"check", "poll"} /\ a = cur)

(* The response of the authorization being solved is in place, and so is   *)
(* the record of every dns-01 authorization PreSolve has passed without a  *)
(* failure.                                                                *)
PresentedOK ==
    /\ pc = "choose" => records = {}
    /\ Serving => cur \in records
    /\ mode = "parallel" /\ pc \in {"presolve", "solve"} \cup InFlight =>
         \A k \in 1..Len(list["parallel"]) :
            solver[list["parallel"][k]] = "dns-01" /\ (pc = "presolve" => k < i) =>
               list["parallel"][k] \in records \cup failures
    /\ missed \subseteq failures

(* Every response in place has a reason to be: a CleanUp or a Present that *)
(* reported an error, the authorization being solved, or the deferred      *)
(* clean-up of parallelSolve that is still to come.                        *)
Deferred(a) ==
    /\ mode = "parallel" /\ solver[a] = "dns-01"
    /\ \E k \in 1..Len(list["parallel"]) : list["parallel"][k] = a /\ (pc = "cleanup" => k >= i)

Accounted(a) ==
    \/ a \in cleaned.err
    \/ solver[a] # "dns-01" /\ a \in presented.err
    \/ Serving /\ a = cur
    \/ Deferred(a)

RecordsOK == \A a \in records : Accounted(a)

(* The inductive invariant. *)
IInv == TypeOK /\ Shape /\ ListsOK /\ TurnsOK /\ PresentedOK /\ RecordsOK

----------------------------------------------------------------------------
(* Steps of the client, sorted by what they do to the state. *)

(* A step inside the Solve of list[mode][i] that does not end it. *)
Continues ==
    /\ pc \in InFlight /\ pc' \in InFlight
    /\ \/ /\ status' = status
          /\ (pc \in {"check", "poll"}) <=> (pc' \in {"check", "poll"})
       \/ /\ status' = [status EXCEPT ![cur] = "processing"]
          /\ pc = "initiate" /\ pc' \in {"check", "poll"}
    /\ UNCHANGED <<config, solver, list, mode, i, failures, result, records, history>>

(* The Solve of list[mode][i] returns. *)
Returns ==
    /\ pc \in InFlight
    /\ \E ok \in BOOLEAN : Solved(ok) /\ (ok => status[cur] = "valid")
    /\ \/ status' = status
       \/ /\ status' = [status EXCEPT ![cur] = "processing"]
          /\ pc = "initiate" /\ Fail(cur)
    /\ UNCHANGED <<config, solver, list, mode, result, presented, missed>>

(* Every step taken while a Solve is running continues it or ends it. *)
LEMMA InFlightStep ==
    ASSUME Propagate \/ Initiate \/ Check \/ Poll \/ PollFails
    PROVE  Continues \/ Returns
<1>1. CASE Propagate
  BY <1>1, Zenon DEF Propagate, Continues, Returns, Solved, InFlight, history
<1>2. CASE Initiate
  BY <1>2 DEF Initiate, Continues, Returns, Solved, InFlight, history
<1>3. CASE Check
  BY <1>3 DEF Check, Continues, Returns, checkStatus, InFlight, history
<1>4. CASE Poll
  BY <1>4 DEF Poll, Continues, Returns, checkStatus, InFlight, history
<1>5. CASE PollFails
  BY <1>5 DEF PollFails, Continues, Returns, InFlight, history
<1> QED BY <1>1, <1>2, <1>3, <1>4, <1>5

(* chooseSolver returns a challenge type, or none. *)
LEMMA ChosenType ==
    ASSUME TypeOK, NEW a \in Authz
    PROVE  chooseSolver(a) \in Type \cup {NoSolver}
<1> DEFINE usable == offer[a] \cap solvers
<1>1. usable \subseteq Type
  BY DEF TypeOK
<1>2. CASE usable # {}
  <2>1. \E t \in usable : \A u \in usable : byType(u) <= byType(t)
    BY <1>1, <1>2 DEF Type, byType
  <2>2. chooseSolver(a) \in usable
    BY <1>2, <2>1 DEF chooseSolver
  <2> QED BY <1>1, <2>2
<1> QED BY <1>2 DEF chooseSolver

LEMMA CurTyped ==
    ASSUME TypeOK, Running
    PROVE  i \in 1..Len(list[mode]) /\ cur \in Authz
BY DEF TypeOK, Running, cur

LEMMA IndexTyped ==
    ASSUME TypeOK, Running, ListsOK, i' = i \/ i' = i + 1
    PROVE  i' \in 1..Len(Authorizations) + 1
<1>1. i \in 1..Len(list[mode]) /\ Len(list[mode]) <= Len(Authorizations)
  BY CurTyped DEF TypeOK, ListsOK, Modes
<1>2. Len(list[mode]) \in Nat /\ Len(Authorizations) \in Nat
  BY DistinctAuthorizations DEF TypeOK
<1> QED BY <1>1, <1>2

(* What CleanUp and Present change has its type. *)
LEMMA CleanUpTyped ==
    ASSUME TypeOK, NEW a \in Authz, NEW left \in SUBSET Authz, CleanUp(a, left)
    PROVE  records' \subseteq Authz /\ cleaned' \in Outcome
BY DEF TypeOK, CleanUp, Outcome

LEMMA PresentTyped ==
    ASSUME TypeOK, NEW a \in Authz, NEW ok \in BOOLEAN, Present(a, ok)
    PROVE  records' \subseteq Authz /\ presented' \in Outcome
BY DEF TypeOK, Present, Outcome

----------------------------------------------------------------------------
(* The invariant holds initially. *)
LEMMA InitInv == Init => IInv
<1> SUFFICES ASSUME Init PROVE IInv
  OBVIOUS
<1> USE DistinctAuthorizations
<1>1. TypeOK
  BY DEF Init, TypeOK, Outcome
<1>2. Shape
  BY DEF Init, Shape, Serving, InFlight
<1>3. ListsOK
  BY DEF Init, ListsOK, Modes
<1>4. TurnsOK
  BY DEF Init, TurnsOK, Modes
<1>5. PresentedOK
  BY DEF Init, PresentedOK, Serving, InFlight
<1>6. RecordsOK
  BY DEF Init, RecordsOK
<1> QED BY <1>1, <1>2, <1>3, <1>4, <1>5, <1>6 DEF IInv

(* Types are preserved. *)
LEMMA TypeNext ==
    ASSUME IInv, [Next]_vars
    PROVE  TypeOK'
<1> USE DistinctAuthorizations
<1>t. TypeOK
  BY DEF IInv
<1>s. Shape
  BY DEF IInv
<1>l. ListsOK
  BY DEF IInv
<1>1. CASE Choose
  <2> DEFINE a == Authorizations[i]
  <2>1. i \in 1..Len(Authorizations) /\ a \in Authz
    BY <1>1, <1>t DEF Choose, TypeOK, Authz
  <2>2. chooseSolver(a) \in Type \cup {NoSolver}
    BY <2>1, <1>t, ChosenType
  <2>3. solver' \in [Authz -> Type \cup {NoSolver}]
    BY <1>1, <1>t, <2>1, <2>2 DEF Choose, TypeOK
  <2>4. list' \in [{"parallel", "sequential"} -> Seq(Authz)]
    <3>1. \A m \in Modes : Append(list[m], a) \in Seq(Authz)
      BY <1>t, <2>1 DEF TypeOK, Modes
    <3> QED BY <1>1, <1>t, <3>1 DEF Choose, TypeOK, Modes
  <2>5. failures' \subseteq Authz
    BY <1>1, <1>t, <2>1 DEF Choose, TypeOK, Fail
  <2> QED BY <1>1, <1>t, <2>1, <2>3, <2>4, <2>5 DEF Choose, TypeOK, config, history
<1>2. CASE ChooseEnds
  BY <1>2, <1>t DEF ChooseEnds, TypeOK, config, history
<1>3. CASE PreSolve
  <2>1. i \in 1..Len(list[mode]) /\ cur \in Authz
    BY <1>3, <1>t, CurTyped DEF PreSolve
  <2>2. /\ records' \subseteq Authz /\ presented' \in Outcome
        /\ cleaned' \in Outcome /\ failures' \subseteq Authz
    <3>1. CASE solver[cur] # "dns-01"
      BY <1>3, <1>t, <3>1 DEF PreSolve, TypeOK
    <3>2. ASSUME NEW ok \in BOOLEAN, Present(cur, ok), UNCHANGED cleaned,
                 UNCHANGED failures \/ Fail(cur)
          PROVE  <2>2!:
      BY <1>t, <2>1, <3>2, PresentTyped DEF TypeOK, Fail
    <3>3. ASSUME NEW left \in {records, records \cup {cur}}, CleanUp(cur, left), Fail(cur),
                 presented' = [presented EXCEPT !.err = @ \cup {cur}]
          PROVE  <2>2!:
      <4>1. left \subseteq Authz
        BY <1>t, <2>1 DEF TypeOK
      <4>2. records' \subseteq Authz /\ cleaned' \in Outcome
        BY <1>t, <2>1, <3>3, <4>1, CleanUpTyped
      <4> QED BY <1>t, <2>1, <3>3, <4>2 DEF TypeOK, Fail, Outcome
    <3> QED BY <1>3, <3>1, <3>2, <3>3 DEF PreSolve
  <2>3. i' \in 1..Len(Authorizations) + 1
    BY <1>3, <1>t, <1>l, IndexTyped DEF PreSolve
  <2> QED BY <1>3, <1>t, <2>2, <2>3 DEF PreSolve, TypeOK, config
<1>4. CASE Solve
  <2>1. i \in 1..Len(list[mode]) /\ cur \in Authz
    BY <1>4, <1>t, CurTyped DEF Solve
  <2>2. i' \in 1..Len(Authorizations) + 1
    BY <1>4, <1>t, <1>l, IndexTyped DEF Solve
  <2> QED BY <1>4, <1>t, <2>2 DEF Solve, TypeOK, config, history
<1>5. ASSUME NEW t \in Type, Serve(t)
      PROVE  TypeOK'
  <2>1. i \in 1..Len(list[mode]) /\ cur \in Authz
    BY <1>5, <1>t, CurTyped DEF Serve
  <2>2. i' \in 1..Len(Authorizations) + 1
    BY <1>5, <1>t, <1>l, IndexTyped DEF Serve
  <2>3. records' \subseteq Authz /\ presented' \in Outcome
    BY <1>5, <1>t, <2>1, PresentTyped DEF Serve
  <2> QED BY <1>5, <1>t, <2>1, <2>2, <2>3 DEF Serve, TypeOK, Fail, config
<1>6. CASE Continues
  <2>1. cur \in Authz
    BY <1>6, <1>t, <1>s, CurTyped DEF Continues, Shape, Serving, Running
  <2> QED BY <1>6, <1>t, <2>1 DEF Continues, TypeOK, InFlight, config, history
<1>7. CASE Returns
  <2>1. i \in 1..Len(list[mode]) /\ cur \in Authz
    BY <1>7, <1>t, <1>s, CurTyped DEF Returns, Shape, Serving, Running
  <2>2. i' \in 1..Len(Authorizations) + 1
    BY <1>7, <1>t, <1>l, <2>1, IndexTyped DEF Returns, Solved, Running
  <2>4. failures' \subseteq Authz
    BY <1>7, <1>t, <2>1 DEF Returns, Solved, TypeOK, Fail
  <2>3. records' \subseteq Authz /\ cleaned' \in Outcome
    BY <1>7, <1>t, <2>1, CleanUpTyped DEF Returns, Solved, NoCleanUp, TypeOK
  <2> QED BY <1>7, <1>t, <2>1, <2>2, <2>3, <2>4 DEF Returns, Solved, TypeOK, config
<1>8. CASE DeferredCleanUp
  <2>1. i \in 1..Len(list[mode]) /\ cur \in Authz
    BY <1>8, <1>t, CurTyped DEF DeferredCleanUp
  <2>2. i' \in 1..Len(Authorizations) + 1
    BY <1>8, <1>t, <1>l, IndexTyped DEF DeferredCleanUp
  <2>3. records' \subseteq Authz /\ cleaned' \in Outcome
    BY <1>8, <1>t, <2>1, CleanUpTyped DEF DeferredCleanUp, NoCleanUp, TypeOK
  <2> QED BY <1>8, <1>t, <2>2, <2>3 DEF DeferredCleanUp, TypeOK, config
<1>9. CASE LoopEnds
  BY <1>9, <1>t DEF LoopEnds, TypeOK, config, history
<1>10. CASE ServerValidate
  BY <1>10, <1>t DEF ServerValidate, TypeOK, config
<1>11. CASE UNCHANGED vars
  BY <1>11, <1>t DEF TypeOK, vars, Outcome
<1> QED BY <1>1, <1>2, <1>3, <1>4, <1>5, <1>6, <1>7, <1>8, <1>9, <1>10, <1>11, InFlightStep
        DEF Next, Client, Finished, http01Solve, tlsalpn01Solve, Type

----------------------------------------------------------------------------
(* Facts about the authorization being worked on. *)

(* sequentialSolve is only given dns-01 solvers. *)
LEMMA SequentialIsDns ==
    ASSUME IInv, Running, mode = "sequential"
    PROVE  solver[cur] = "dns-01"
BY CurTyped DEF IInv, ListsOK, Modes, Sequential, cur

(* A challenge is initiated once: its authorization is still pending. *)
LEMMA InitiatedOnce ==
    ASSUME IInv, pc = "initiate"
    PROVE  status[cur] = "pending"
<1>1. Running /\ TypeOK
  BY DEF IInv, Shape, Serving, InFlight, Running
<1>2. i \in 1..Len(list[mode]) /\ mode \in Modes
  BY <1>1, CurTyped DEF TypeOK, Modes
<1>3. SolvedTo(mode) = i - 1
  BY <1>2 DEF SolvedTo, Modes
<1> QED BY <1>2, <1>3 DEF IInv, TurnsOK, cur

(* After the first pass the lists and solvers are fixed, failures are only *)
(* added and what the server holds valid stays so.                         *)
Kept ==
    /\ UNCHANGED <<list, solver, serial>>
    /\ pc' = "choose" <=> pc = "choose" /\ ~ChooseEnds
    /\ pc' = "choose" => UNCHANGED i
    /\ failures \subseteq failures'
    /\ \A a \in Authz : status[a] = "valid" => status'[a] = "valid"

LEMMA Frame ==
    ASSUME IInv, [Next]_vars, ~Choose
    PROVE  Kept
<1>1. CASE ChooseEnds
  BY <1>1 DEF Kept, ChooseEnds, config
<1>2. CASE PreSolve
  BY <1>2 DEF PreSolve, Kept, ChooseEnds, config, Fail
<1>3. CASE Solve
  BY <1>3 DEF Solve, Kept, ChooseEnds, config
<1>4. ASSUME NEW t \in Type, Serve(t)
      PROVE  Kept
  BY <1>4 DEF Serve, Kept, ChooseEnds, config, Fail
<1>5. CASE Continues
  BY <1>5, InitiatedOnce DEF Continues, Kept, ChooseEnds, config, InFlight, IInv, TypeOK
<1>6. CASE Returns
  BY <1>6, InitiatedOnce DEF Returns, Solved, Fail, Kept, ChooseEnds, config, InFlight, IInv, TypeOK
<1>7. CASE DeferredCleanUp
  BY <1>7 DEF DeferredCleanUp, Kept, ChooseEnds, config
<1>8. CASE LoopEnds
  BY <1>8 DEF LoopEnds, Kept, ChooseEnds, config
<1>9. CASE ServerValidate
  BY <1>9 DEF ServerValidate, Kept, ChooseEnds, config, IInv, TypeOK
<1>10. CASE UNCHANGED vars
  BY <1>10 DEF vars, Kept, ChooseEnds
<1> QED BY <1>1, <1>2, <1>3, <1>4, <1>5, <1>6, <1>7, <1>8, <1>9, <1>10, InFlightStep
        DEF Next, Client, Finished, http01Solve, tlsalpn01Solve, Type

----------------------------------------------------------------------------
LEMMA ShapeNext ==
    ASSUME IInv, [Next]_vars
    PROVE  Shape'
<1>t. TypeOK
  BY DEF IInv
<1>s. Shape
  BY DEF IInv
<1>n. \A m \in Modes : Len(list[m]) \in Nat
  BY <1>t DEF TypeOK, Modes
<1>1. CASE Choose
  BY <1>1, <1>t, <1>s DEF Choose, Shape, Serving, InFlight, TypeOK
<1>2. CASE ChooseEnds
  BY <1>2, <1>t, <1>s, <1>n DEF ChooseEnds, Shape, Serving, InFlight, TypeOK, Modes
<1>3. CASE PreSolve
  <2>1. i \in 1..Len(list[mode]) /\ (mode = "sequential" => solver[cur] = "dns-01")
    BY <1>3, <1>t, CurTyped, SequentialIsDns DEF PreSolve
  <2>2. \/ pc' = "presolve" /\ (i' = i \/ i' = i + 1)
        \/ pc' = "solve" /\ mode = "sequential" /\ i' = i
    BY <1>3, <1>t DEF PreSolve, TypeOK
  <2>3. UNCHANGED <<list, mode, result>> /\ pc = "presolve"
    BY <1>3 DEF PreSolve
  <2> QED BY <1>s, <1>n, <1>t, <2>1, <2>2, <2>3 DEF Shape, Serving, InFlight, TypeOK
<1>4. CASE Solve
  <2>1. i \in 1..Len(list[mode])
    BY <1>4, <1>t, CurTyped DEF Solve
  <2> QED BY <1>4, <1>s, <1>n, <1>t, <2>1 DEF Solve, Shape, Serving, InFlight, TypeOK
<1>5. ASSUME NEW t \in Type, t # "dns-01", Serve(t)
      PROVE  Shape'
  <2>1. i \in 1..Len(list[mode]) /\ mode = "parallel"
    BY <1>5, <1>t, CurTyped, SequentialIsDns DEF Serve, TypeOK
  <2>2. (pc' = "initiate" /\ i' = i) \/ (pc' = "solve" /\ i' = i + 1)
    BY <1>5, Zenon DEF Serve
  <2>3. UNCHANGED <<list, mode, result>> /\ pc = "solve"
    BY <1>5 DEF Serve
  <2> QED BY <1>s, <1>n, <1>t, <2>1, <2>2, <2>3 DEF Shape, Serving, InFlight, TypeOK
<1>6. CASE Continues
  BY <1>6, <1>s DEF Continues, Shape, Serving, InFlight
<1>7. CASE Returns
  <2>1. i \in 1..Len(list[mode])
    BY <1>7, <1>t, <1>s, CurTyped DEF Returns, Shape, Serving, Running
  <2>2. i' = i + 1 /\ pc' = (IF mode = "parallel" THEN "solve" ELSE "presolve")
    BY <1>7 DEF Returns, Solved
  <2>3. UNCHANGED <<list, mode, result>> /\ pc \in InFlight
    BY <1>7 DEF Returns
  <2> QED BY <1>s, <1>n, <1>t, <2>1, <2>2, <2>3 DEF Shape, Serving, InFlight, TypeOK
<1>8. CASE DeferredCleanUp
  <2>1. i \in 1..Len(list[mode])
    BY <1>8, <1>t, CurTyped DEF DeferredCleanUp
  <2> QED BY <1>8, <1>s, <1>n, <1>t, <2>1 DEF DeferredCleanUp, Shape, Serving, InFlight, TypeOK
<1>9. CASE LoopEnds
  <2>1. Len(list'[mode']) \in Nat
    BY <1>9, <1>n, <1>t DEF LoopEnds, Modes, TypeOK
  <2> QED BY <1>9, <1>s, <1>t, <2>1, SMTT(30) DEF LoopEnds, Shape, Serving, InFlight, Running, TypeOK
<1>10. CASE ServerValidate
  BY <1>10, <1>s DEF ServerValidate, Shape, Serving
<1>11. CASE UNCHANGED vars
  BY <1>11, <1>s DEF vars, Shape, Serving
<1> QED BY <1>1, <1>2, <1>3, <1>4, <1>5, <1>6, <1>7, <1>8, <1>9, <1>10, <1>11, InFlightStep
        DEF Next, Client, Finished, http01Solve, tlsalpn01Solve, Type

LEMMA ListsNext ==
    ASSUME IInv, [Next]_vars
    PROVE  ListsOK'
<1> USE DistinctAuthorizations
<1>t. TypeOK
  BY DEF IInv
<1>l. ListsOK
  BY DEF IInv
<1>a. \A j \in 1..Len(Authorizations) : Authorizations[j] \in Authz
  BY DEF Authz
<1>1. CASE Choose
  <2> DEFINE a == Authorizations[i]
  <2>1. i \in 1..Len(Authorizations) /\ a \in Authz
    BY <1>1, <1>t, <1>a DEF Choose, TypeOK
  <2>2. /\ pc = "choose" /\ pc' = "choose" /\ i' = i + 1
        /\ serial' = serial /\ status' = status /\ failures \subseteq failures'
    BY <1>1 DEF Choose, config, Fail
  <2>3. CASE list' = list /\ solver' = solver
    <3>1. status[a] = "valid" \/ a \in failures'
      BY <1>1, <2>3, <1>t, <2>1 DEF Choose, Fail, TypeOK
    <3>2. \A m \in Modes :
            /\ Len(list[m]) <= Len(Authorizations) /\ Len(list[m]) < i + 1
            /\ \A k \in 1..Len(list[m]) : \E j \in 1..i : list[m][k] = Authorizations[j]
      <4>1. \A m \in Modes : Len(list[m]) \in Nat
        BY <1>t DEF TypeOK, Modes
      <4>2. 1..(i - 1) \subseteq 1..i
        BY <2>1
      <4> QED BY <1>l, <2>1, <2>2, <4>1, <4>2 DEF ListsOK
    <3>3. \A j \in 1..Len(Authorizations) : j < i + 1 => j < i \/ j = i
      BY <2>1
    <3>4. i' - 1 = i
      BY <2>1, <2>2
    <3>5. ASSUME NEW j \in 1..Len(Authorizations), j < i'
          PROVE  \/ status'[Authorizations[j]] = "valid"
                 \/ Authorizations[j] \in failures'
                 \/ \E m \in Modes : \E k \in 1..Len(list'[m]) : list'[m][k] = Authorizations[j]
      <4>1. CASE j = i
        BY <2>2, <3>1, <4>1
      <4>2. CASE j < i
        BY <1>l, <2>2, <2>3, <4>2 DEF ListsOK
      <4> QED BY <2>2, <3>3, <3>5, <4>1, <4>2
    <3> QED BY <1>l, <2>2, <2>3, <3>2, <3>4, <3>5 DEF ListsOK, Sequential
  <2>4. ASSUME NEW m \in Modes, NEW t \in Type, solver' = [solver EXCEPT ![a] = t],
               list' = [list EXCEPT ![m] = Append(@, a)],
               m = "sequential" <=> Sequential(t)
        PROVE  ListsOK'
    <3>1. \A n \in Modes : \A k \in 1..Len(list[n]) : list[n][k] # a /\ list[n][k] \in Authz
      BY <1>t, <1>l, <2>1, <2>2 DEF ListsOK, TypeOK, Modes
    <3>2. /\ Len(list'[m]) = Len(list[m]) + 1 /\ list'[m][Len(list[m]) + 1] = a
          /\ \A k \in 1..Len(list[m]) : list'[m][k] = list[m][k]
          /\ \A n \in Modes \ {m} : list'[n] = list[n]
          /\ \A n \in Modes : Len(list[n]) \in Nat /\ Len(list[n]) < i
      BY <1>t, <1>l, <2>1, <2>2, <2>4 DEF TypeOK, Modes, ListsOK
    <3>3. ASSUME NEW n \in Modes
          PROVE  /\ Len(list'[n]) <= Len(Authorizations)
                 /\ Len(list'[n]) < i'
      BY <2>1, <2>2, <3>2
    <3>4. ASSUME NEW n \in Modes, NEW k \in 1..Len(list'[n])
          PROVE  /\ solver'[list'[n][k]] # NoSolver
                 /\ (n = "sequential") <=> Sequential(solver'[list'[n][k]])
                 /\ \E j \in 1..(i' - 1) : list'[n][k] = Authorizations[j]
      <4>1. CASE n = m /\ k = Len(list[m]) + 1
        BY <2>1, <2>2, <2>4, <3>2, <4>1, <1>t DEF TypeOK, Type, NoSolver
      <4>2. CASE ~(n = m /\ k = Len(list[m]) + 1)
        <5>1. k \in 1..Len(list[n]) /\ list'[n][k] = list[n][k]
          BY <3>2, <4>2
        <5>2. solver'[list[n][k]] = solver[list[n][k]]
          BY <2>4, <3>1, <5>1, <1>t DEF TypeOK
        <5>3. /\ solver[list[n][k]] # NoSolver
              /\ (n = "sequential") <=> Sequential(solver[list[n][k]])
              /\ \E j \in 1..(i - 1) : list[n][k] = Authorizations[j]
          BY <1>l, <2>2, <5>1 DEF ListsOK
        <5>4. 1..(i - 1) \subseteq 1..(i' - 1)
          BY <2>1, <2>2
        <5> QED BY <5>1, <5>2, <5>3, <5>4
      <4> QED BY <4>1, <4>2
    <3>5. ASSUME NEW n \in Modes, NEW j \in 1..Len(list'[n]), NEW k \in 1..Len(list'[n]),
                 list'[n][j] = list'[n][k]
          PROVE  j = k
      <4>1. CASE n # m
        BY <3>2, <3>5, <4>1, <1>l DEF ListsOK
      <4>2. CASE n = m /\ j <= Len(list[m]) /\ k <= Len(list[m])
        <5>1. j \in 1..Len(list[m]) /\ k \in 1..Len(list[m])
          BY <3>2, <4>2
        <5> QED BY <3>2, <3>5, <4>2, <5>1, <1>l DEF ListsOK
      <4>3. CASE n = m /\ ~(j <= Len(list[m]) /\ k <= Len(list[m]))
        <5>1. \A x \in 1..Len(list'[m]) : x \in 1..Len(list[m]) \/ x = Len(list[m]) + 1
          BY <3>2
        <5>2. \A x \in 1..Len(list[m]) : x <= Len(list[m]) /\ list'[m][x] # a
          BY <3>1, <3>2
        <5> QED BY <3>2, <3>5, <4>3, <5>1, <5>2
      <4> QED BY <4>1, <4>2, <4>3
    <3>6. ASSUME NEW j \in 1..Len(Authorizations), j < i'
          PROVE  \/ status'[Authorizations[j]] = "valid"
                 \/ Authorizations[j] \in failures'
                 \/ \E n \in Modes : \E k \in 1..Len(list'[n]) : list'[n][k] = Authorizations[j]
      <4>1. CASE j = i
        BY <3>2, <4>1
      <4>2. CASE j # i
        <5>1. j < i
          BY <2>1, <2>2, <3>6, <4>2
        <5>2. \A n \in Modes : \A k \in 1..Len(list[n]) :
                k \in 1..Len(list'[n]) /\ list'[n][k] = list[n][k]
          <6>1. \A k \in 1..Len(list[m]) : k \in 1..Len(list'[m])
            BY <3>2
          <6> QED BY <3>2, <6>1
        <5> QED BY <1>l, <2>2, <5>1, <5>2 DEF ListsOK
      <4> QED BY <4>1, <4>2
    <3>7. \A x : Sequential(x)' <=> Sequential(x)
      BY <2>2 DEF Sequential
    <3> QED BY <2>2, <3>3, <3>4, <3>5, <3>6, <3>7 DEF ListsOK, Sequential
  <2>5. chooseSolver(a) \in Type \cup {NoSolver}
    BY <2>1, <1>t, ChosenType
  <2> QED BY <1>1, <2>3, <2>4, <2>5 DEF Choose, Modes
<1>2. CASE ~Choose
  <2>1. Kept
    BY <1>2, Frame
  <2> QED BY <1>t, <1>l, <1>a, <2>1 DEF Kept, ListsOK, Sequential, ChooseEnds, TypeOK, Modes
<1> QED BY <1>1, <1>2

----------------------------------------------------------------------------
(* Steps by which no authorization's turn begins or ends. *)
LEMMA SameTurns ==
    ASSUME IInv, Kept, status' = status,
           \A m \in Modes : SolvedTo(m)' = SolvedTo(m),
           pc \in {"check", "poll"} =>
              pc' \in {"check", "poll"} /\ UNCHANGED <<i, mode>>
    PROVE  TurnsOK'
BY DEF Kept, IInv, TurnsOK, cur

(* Steps by which the turn of the current authorization ends. *)
LEMMA TurnEnds ==
    ASSUME IInv, Kept, Running,
           i' = i + 1, mode' = mode, pc' \notin {"choose", "check", "poll"},
           SolvedTo(mode) = i - 1, SolvedTo(mode)' = i,
           \A m \in Modes \ {mode} : SolvedTo(m)' = SolvedTo(m),
           \A a \in Authz \ {cur} : status'[a] = status[a],
           cur \in failures' \/ status'[cur] = "valid"
    PROVE  TurnsOK'
<1>1. i \in 1..Len(list[mode]) /\ cur \in Authz /\ mode \in Modes
  BY CurTyped DEF IInv, TypeOK, Modes
<1>2. list' = list /\ failures \subseteq failures'
  BY DEF Kept
<1>3. ASSUME NEW m \in Modes, NEW k \in 1..Len(list[m])
      PROVE  /\ list[m][k] \in Authz
             /\ list[m][k] = cur => m = mode /\ k = i
  BY <1>1, <1>3 DEF IInv, TypeOK, ListsOK, Modes, cur
<1>4. ASSUME NEW m \in Modes, NEW k \in 1..Len(list[m]), k <= SolvedTo(m)'
      PROVE  status'[list[m][k]] = "valid" \/ list[m][k] \in failures'
  <2>1. CASE list[m][k] = cur
    BY <2>1
  <2>2. CASE list[m][k] # cur
    <3>1. k <= SolvedTo(m)
      BY <1>1, <1>4, <2>2 DEF cur
    <3> QED BY <1>2, <1>3, <2>2, <3>1 DEF IInv, TurnsOK
  <2> QED BY <2>1, <2>2
<1>5. ASSUME NEW m \in Modes, NEW k \in 1..Len(list[m]), k > SolvedTo(m)'
      PROVE  status'[list[m][k]] = "pending"
  <2>1. k > SolvedTo(m) /\ ~(m = mode /\ k = i)
    BY <1>1, <1>5
  <2>2. status[list[m][k]] = "pending" /\ list[m][k] # cur
    BY <1>3, <2>1 DEF IInv, TurnsOK
  <2> QED BY <1>3, <2>2
<1>6. ASSUME NEW a \in Authz, status'[a] = "processing"
      PROVE  a \in failures'
  BY <1>2, <1>6 DEF IInv, TurnsOK
<1> QED BY <1>2, <1>4, <1>5, <1>6 DEF TurnsOK

LEMMA TurnsNext ==
    ASSUME IInv, [Next]_vars
    PROVE  TurnsOK'
<1>t. TypeOK
  BY DEF IInv
<1>s. Shape
  BY DEF IInv
<1>u. TurnsOK
  BY DEF IInv
<1>k. ASSUME ~Choose PROVE Kept
  BY <1>k, Frame
<1>n. \A m \in Modes : Len(list[m]) \in Nat
  BY <1>t DEF TypeOK, Modes
<1>1. CASE Choose
  <2> DEFINE a == Authorizations[i]
  <2>1. i \in 1..Len(Authorizations) /\ a \in Authz
    <3>1. Len(Authorizations) \in Nat /\ i \in Nat \ {0} /\ i <= Len(Authorizations)
      BY <1>1, <1>t, DistinctAuthorizations DEF Choose, TypeOK
    <3> QED BY <3>1 DEF Authz
  <2>2. pc = "choose" /\ pc' = "choose" /\ status' = status /\ mode = "parallel" /\ mode' = mode
    BY <1>1, <1>t, <1>s DEF Choose, Shape, TypeOK
  <2>3. \A m \in Modes : SolvedTo(m) = 0 /\ SolvedTo(m)' = 0
    BY <2>2 DEF SolvedTo, Modes
  <2>4. ASSUME NEW m \in Modes, NEW k \in 1..Len(list'[m])
        PROVE  status[list'[m][k]] = "pending"
    <3>1. k > SolvedTo(m)
      BY <2>3
    <3>2. CASE list' = list
      BY <1>u, <2>2, <2>4, <3>1, <3>2 DEF TurnsOK
    <3>3. ASSUME NEW n \in Modes, list' = [list EXCEPT ![n] = Append(@, a)], status[a] # "valid"
          PROVE  status[list'[m][k]] = "pending"
      <4>1. status[a] = "pending"
        BY <1>u, <2>1, <2>2, <3>3 DEF TurnsOK
      <4>2. list'[m][k] = a \/ (k \in 1..Len(list[m]) /\ list'[m][k] = list[m][k])
        BY <1>t, <2>1, <3>3 DEF TypeOK, Modes
      <4> QED BY <1>u, <2>2, <3>1, <4>1, <4>2 DEF TurnsOK
    <3> QED BY <1>1, <3>2, <3>3 DEF Choose, Modes
  <2> QED BY <1>u, <2>2, <2>3, <2>4 DEF TurnsOK
<1>2. CASE ChooseEnds
  <2>1. Kept /\ status' = status /\ \A m \in Modes : SolvedTo(m)' = SolvedTo(m)
    BY <1>2, <1>k, <1>s, <1>t DEF ChooseEnds, Choose, SolvedTo, Modes, Shape, TypeOK
  <2> QED BY <1>2, <2>1, SameTurns DEF ChooseEnds
<1>3. CASE PreSolve
  <2>1. /\ i \in 1..Len(list[mode]) /\ (mode = "sequential" => solver[cur] = "dns-01")
        /\ cur \in Authz /\ mode \in Modes
    BY <1>3, <1>t, CurTyped, SequentialIsDns DEF PreSolve, TypeOK, Modes
  <2>2. Kept /\ UNCHANGED <<status, mode, list>> /\ pc = "presolve" /\ Running
    BY <1>3, <1>k DEF PreSolve, Choose
  <2>3. CASE mode = "parallel"
    <3>1. pc' = "presolve"
      BY <1>3, <2>3 DEF PreSolve
    <3>2. \A m \in Modes : SolvedTo(m)' = SolvedTo(m)
      BY <2>2, <2>3, <3>1 DEF SolvedTo, Modes
    <3> QED BY <2>2, <3>2, SameTurns
  <2>4. CASE mode = "sequential" /\ pc' = "solve" /\ i' = i
    <3>1. \A m \in Modes : SolvedTo(m)' = SolvedTo(m)
      BY <2>2, <2>4 DEF SolvedTo, Modes
    <3> QED BY <2>2, <3>1, SameTurns
  <2>5. CASE mode = "sequential" /\ pc' = "presolve" /\ i' = i + 1 /\ Fail(cur)
    <3>1. /\ SolvedTo(mode) = i - 1 /\ SolvedTo(mode)' = i
          /\ \A m \in Modes \ {mode} : SolvedTo(m)' = SolvedTo(m)
      BY <2>1, <2>2, <2>5 DEF SolvedTo, Modes
    <3> QED BY <2>2, <2>5, <3>1, TurnEnds DEF Fail
  <2> QED BY <1>3, <2>1, <2>2, <2>3, <2>4, <2>5 DEF PreSolve, Modes
<1>4. CASE Solve
  <2>1. i \in 1..Len(list[mode]) /\ cur \in Authz /\ mode \in Modes
    BY <1>4, <1>t, CurTyped DEF Solve, TypeOK, Modes
  <2>2. Kept /\ UNCHANGED <<status, mode, list, failures>> /\ pc = "solve" /\ Running
    BY <1>4, <1>k DEF Solve, Choose
  <2>3. CASE pc' = "propagate" /\ i' = i
    <3>1. \A m \in Modes : SolvedTo(m)' = SolvedTo(m)
      BY <2>2, <2>3 DEF SolvedTo, Modes
    <3> QED BY <2>2, <3>1, SameTurns
  <2>4. CASE mode = "parallel" /\ pc' = "solve" /\ i' = i + 1 /\ cur \in failures
    <3>1. /\ SolvedTo(mode) = i - 1 /\ SolvedTo(mode)' = i
          /\ \A m \in Modes \ {mode} : SolvedTo(m)' = SolvedTo(m)
      BY <2>1, <2>2, <2>4 DEF SolvedTo, Modes
    <3> QED BY <2>2, <2>4, <3>1, TurnEnds
  <2> QED BY <1>4, <2>2, <2>3, <2>4 DEF Solve
<1>5. ASSUME NEW t \in Type, t # "dns-01", Serve(t)
      PROVE  TurnsOK'
  <2>1. i \in 1..Len(list[mode]) /\ cur \in Authz /\ mode = "parallel"
    BY <1>5, <1>t, CurTyped, SequentialIsDns DEF Serve, TypeOK
  <2>2. Kept /\ UNCHANGED <<status, mode, list>> /\ pc = "solve" /\ Running
    BY <1>5, <1>k DEF Serve, Choose
  <2>3. CASE pc' = "initiate" /\ i' = i
    <3>1. \A m \in Modes : SolvedTo(m)' = SolvedTo(m)
      BY <2>1, <2>2, <2>3 DEF SolvedTo, Modes
    <3> QED BY <2>2, <3>1, SameTurns
  <2>4. CASE pc' = "solve" /\ i' = i + 1 /\ Fail(cur)
    <3>1. /\ SolvedTo(mode) = i - 1 /\ SolvedTo(mode)' = i
          /\ \A m \in Modes \ {mode} : SolvedTo(m)' = SolvedTo(m)
      BY <2>1, <2>2, <2>4 DEF SolvedTo, Modes
    <3> QED BY <2>2, <2>4, <3>1, TurnEnds DEF Fail
  <2> QED BY <1>5, <2>2, <2>3, <2>4 DEF Serve
<1>6. CASE Continues
  <2>1. i \in 1..Len(list[mode]) /\ cur \in Authz /\ mode \in Modes /\ Running
    BY <1>6, <1>t, <1>s, CurTyped DEF Continues, Shape, Serving, Running, TypeOK, Modes
  <2>2. Kept /\ UNCHANGED <<i, mode, list, failures>> /\ pc \in InFlight /\ pc' \in InFlight
    BY <1>6, <1>k DEF Continues, Choose, InFlight
  <2>3. \A m \in Modes : SolvedTo(m)' = SolvedTo(m)
    BY <2>2 DEF SolvedTo, Modes, InFlight
  <2>4. CASE status' = status /\ ((pc \in {"check", "poll"}) <=> (pc' \in {"check", "poll"}))
    BY <2>2, <2>3, <2>4, SameTurns
  <2>5. CASE /\ status' = [status EXCEPT ![cur] = "processing"]
             /\ pc = "initiate" /\ pc' \in {"check", "poll"}
    <3>1. /\ \A a \in Authz \ {cur} : status'[a] = status[a]
          /\ status[cur] = "pending" /\ cur' = cur
      BY <1>t, <2>2, <2>5, InitiatedOnce DEF TypeOK, cur
    <3>2. ASSUME NEW m \in Modes, NEW k \in 1..Len(list[m])
          PROVE  /\ list[m][k] \in Authz
                 /\ list[m][k] = cur => m = mode /\ k = i
      BY <2>1, <3>2 DEF IInv, TypeOK, ListsOK, Modes, cur
    <3>3. SolvedTo(mode) = i - 1
      BY <2>1, <2>5 DEF SolvedTo, Modes
    <3>4. ASSUME NEW m \in Modes, NEW k \in 1..Len(list[m]), k <= SolvedTo(m)
          PROVE  status'[list[m][k]] = "valid" \/ list[m][k] \in failures
      <4>1. list[m][k] # cur
        BY <2>1, <3>2, <3>3, <3>4
      <4> QED BY <1>u, <3>1, <3>2, <3>4, <4>1 DEF TurnsOK
    <3>5. ASSUME NEW m \in Modes, NEW k \in 1..Len(list[m]), k > SolvedTo(m)
          PROVE  (m = mode /\ k = i) \/ status'[list[m][k]] = "pending"
      BY <1>u, <2>5, <3>1, <3>2, <3>5 DEF TurnsOK
    <3>6. ASSUME NEW a \in Authz, status'[a] = "processing"
          PROVE  a \in failures \/ a = cur
      BY <1>u, <2>5, <3>1, <3>6 DEF TurnsOK
    <3> QED BY <2>2, <2>3, <2>5, <3>1, <3>4, <3>5, <3>6 DEF TurnsOK
  <2> QED BY <1>6, <2>4, <2>5 DEF Continues
<1>7. CASE Returns
  <2>1. i \in 1..Len(list[mode]) /\ cur \in Authz /\ mode \in Modes /\ Running
    BY <1>7, <1>t, <1>s, CurTyped DEF Returns, Shape, Serving, Running, TypeOK, Modes
  <2>2. Kept /\ UNCHANGED <<mode, list>> /\ pc \in InFlight
    BY <1>7, <1>k DEF Returns, Choose, InFlight
  <2>3. i' = i + 1 /\ pc' = (IF mode = "parallel" THEN "solve" ELSE "presolve")
    BY <1>7 DEF Returns, Solved
  <2>4. /\ SolvedTo(mode) = i - 1 /\ SolvedTo(mode)' = i
        /\ \A m \in Modes \ {mode} : SolvedTo(m)' = SolvedTo(m)
    BY <2>1, <2>2, <2>3 DEF SolvedTo, Modes, InFlight
  <2>5. \A a \in Authz \ {cur} : status'[a] = status[a]
    BY <1>7, <1>t DEF Returns, TypeOK
  <2>6. cur \in failures' \/ status'[cur] = "valid"
    BY <1>7 DEF Returns, Solved, Fail
  <2> QED BY <2>1, <2>2, <2>3, <2>4, <2>5, <2>6, TurnEnds
<1>8. CASE DeferredCleanUp
  <2>1. Kept /\ UNCHANGED <<status, mode, list, pc>> /\ pc = "cleanup" /\ mode = "parallel"
    BY <1>8, <1>k, <1>s, <1>t DEF DeferredCleanUp, Choose, Shape, TypeOK
  <2>2. \A m \in Modes : SolvedTo(m)' = SolvedTo(m)
    BY <2>1 DEF SolvedTo, Modes
  <2> QED BY <2>1, <2>2, SameTurns
<1>9. CASE LoopEnds
  <2>1. Kept /\ UNCHANGED <<status, list>> /\ pc \in {"presolve", "solve", "cleanup"} /\ i' = 1
    BY <1>9, <1>k DEF LoopEnds, Choose
  <2>2. i - 1 = Len(list[mode]) \/ pc = "cleanup"
    BY <1>9, <1>s, <1>t, <1>n DEF LoopEnds, Shape, Running, TypeOK, Modes
  <2>3. \A m \in Modes : SolvedTo(m)' = SolvedTo(m)
    <3>1. CASE mode = "parallel" /\ pc = "presolve"
      BY <1>9, <2>1, <3>1 DEF LoopEnds, SolvedTo, Modes
    <3>2. CASE mode = "parallel" /\ pc = "solve"
      BY <1>9, <2>1, <2>2, <3>2 DEF LoopEnds, SolvedTo, Modes
    <3>3. CASE mode = "parallel" /\ pc = "cleanup"
      BY <1>9, <2>1, <3>3 DEF LoopEnds, SolvedTo, Modes
    <3>4. CASE mode = "sequential"
      BY <1>9, <1>s, <2>1, <2>2, <3>4 DEF LoopEnds, SolvedTo, Modes, Shape, Serving
    <3> QED BY <1>t, <2>1, <3>1, <3>2, <3>3, <3>4 DEF TypeOK
  <2> QED BY <2>1, <2>3, SameTurns
<1>10. CASE ServerValidate
  <2>1. PICK a \in Authz : /\ status[a] = "processing"
                           /\ \/ status' = [status EXCEPT ![a] = "valid"]
                              \/ status' = [status EXCEPT ![a] = "invalid"]
    BY <1>10 DEF ServerValidate
  <2>2. UNCHANGED <<list, mode, pc, i, failures>>
    BY <1>10 DEF ServerValidate
  <2>3. \A m \in Modes : SolvedTo(m)' = SolvedTo(m)
    BY <2>2 DEF SolvedTo
  <2>4. \A b \in Authz : /\ b # a => status'[b] = status[b]
                         /\ status'[a] \in {"valid", "invalid"}
    BY <1>t, <2>1 DEF TypeOK
  <2>5. \A m \in Modes : \A k \in 1..Len(list[m]) : list[m][k] \in Authz
    BY <1>t DEF TypeOK, Modes
  <2> QED BY <1>u, <2>1, <2>2, <2>3, <2>4, <2>5 DEF TurnsOK, cur
<1>11. CASE UNCHANGED vars
  <2>1. UNCHANGED <<list, mode, pc, i, failures, status, cur>>
    BY <1>11 DEF vars, cur
  <2>2. \A m \in Modes : SolvedTo(m)' = SolvedTo(m)
    BY <2>1 DEF SolvedTo
  <2> QED BY <1>u, <2>1, <2>2 DEF TurnsOK
<1> QED BY <1>1, <1>2, <1>3, <1>4, <1>5, <1>6, <1>7, <1>8, <1>9, <1>10, <1>11, InFlightStep
        DEF Next, Client, Finished, http01Solve, tlsalpn01Solve, Type

----------------------------------------------------------------------------
(* CleanUp removes one response, Present adds one, if anything. *)
LEMMA CleanUpEffect ==
    ASSUME TypeOK, NEW a \in Authz, NEW left \in SUBSET Authz, CleanUp(a, left)
    PROVE  /\ left \ {a} \subseteq records' /\ records' \subseteq left
           /\ a \in records' => a \in cleaned'.err
           /\ cleaned.err \subseteq cleaned'.err
BY DEF TypeOK, CleanUp, Outcome

LEMMA PresentEffect ==
    ASSUME TypeOK, NEW a \in Authz, NEW ok \in BOOLEAN, Present(a, ok)
    PROVE  /\ records \subseteq records' /\ records' \subseteq records \cup {a}
           /\ ok => a \in records'
           /\ ~ok => a \in presented'.err
           /\ presented.err \subseteq presented'.err
BY DEF TypeOK, Present, Outcome

LEMMA PresentedNext ==
    ASSUME IInv, [Next]_vars
    PROVE  PresentedOK'
<1>t. TypeOK
  BY DEF IInv
<1>s. Shape
  BY DEF IInv
<1>p. PresentedOK
  BY DEF IInv
<1>k. ASSUME ~Choose PROVE Kept
  BY <1>k, Frame
<1>n. Len(list["parallel"]) \in Nat
  BY <1>t DEF TypeOK
<1>1. CASE Choose
  <2>1. failures \subseteq failures'
    BY <1>1 DEF Choose, Fail
  <2> QED BY <1>1, <1>p, <2>1 DEF Choose, PresentedOK, Serving, InFlight, history
<1>2. CASE ChooseEnds
  <2>1. mode = "parallel" /\ mode' = mode /\ pc' = "presolve" /\ i' = 1
        /\ UNCHANGED <<failures, missed>>
    BY <1>2, <1>s, <1>t DEF ChooseEnds, Shape, TypeOK, history
  <2> QED BY <1>p, <2>1 DEF PresentedOK, Serving, InFlight
<1>3. CASE PreSolve
  <2>1. /\ i \in 1..Len(list[mode]) /\ (mode = "sequential" => solver[cur] = "dns-01")
        /\ cur \in Authz /\ mode \in Modes
    BY <1>3, <1>t, CurTyped, SequentialIsDns DEF PreSolve, TypeOK, Modes
  <2>2. Kept /\ UNCHANGED <<mode, missed>> /\ pc = "presolve"
    BY <1>3, <1>k DEF PreSolve, Choose
  <2>3. CASE mode = "parallel"
    <3>1. pc' = "presolve" /\ i' = i + 1
      BY <1>3, <2>3 DEF PreSolve
    <3>2. records \subseteq records' /\ (solver[cur] = "dns-01" => cur \in records' \cup failures')
      <4>1. ASSUME NEW ok \in BOOLEAN, Present(cur, ok), ~ok => Fail(cur)
            PROVE  records \subseteq records' /\ cur \in records' \cup failures'
        BY <1>t, <2>1, <4>1, PresentEffect DEF Fail
      <4> QED BY <1>3, <2>3, <4>1 DEF PreSolve
    <3>3. ASSUME NEW k \in 1..Len(list["parallel"]), solver[list["parallel"][k]] = "dns-01", k < i'
          PROVE  list["parallel"][k] \in records' \cup failures'
      <4>1. k < i \/ k = i
        BY <2>1, <3>1, <3>3
      <4>2. CASE k < i
        BY <1>p, <2>2, <2>3, <3>2, <3>3, <4>2 DEF PresentedOK, Kept
      <4>3. CASE k = i
        BY <2>3, <3>2, <3>3, <4>3 DEF cur
      <4> QED BY <4>1, <4>2, <4>3
    <3> QED BY <1>p, <2>2, <2>3, <3>1, <3>3 DEF PresentedOK, Kept, Serving, InFlight
  <2>4. CASE mode = "sequential" /\ pc' = "solve" /\ i' = i
    <3>1. cur \in records' /\ cur' = cur
      BY <1>3, <1>t, <2>1, <2>2, <2>4, PresentEffect DEF PreSolve, cur
    <3> QED BY <1>p, <2>2, <2>4, <3>1 DEF PresentedOK, Kept, Serving, InFlight
  <2>5. CASE mode = "sequential" /\ pc' = "presolve"
    BY <1>p, <2>2, <2>5 DEF PresentedOK, Kept, Serving, InFlight
  <2> QED BY <1>3, <2>1, <2>2, <2>3, <2>4, <2>5 DEF PreSolve, Modes
<1>4. CASE Solve
  <2>1. /\ i \in 1..Len(list[mode]) /\ (mode = "sequential" => solver[cur] = "dns-01")
        /\ cur \in Authz /\ mode \in Modes
    BY <1>4, <1>t, CurTyped, SequentialIsDns DEF Solve, TypeOK, Modes
  <2>2. UNCHANGED <<list, solver, mode, missed, failures, records>> /\ pc = "solve"
    BY <1>4 DEF Solve, history
  <2>3. CASE mode = "parallel" /\ pc' = "solve"
    BY <1>p, <2>2, <2>3 DEF PresentedOK, Serving, InFlight
  <2>4. CASE pc' = "propagate" /\ i' = i /\ cur \notin failures /\ solver[cur] = "dns-01"
    <3>1. cur \in records
      BY <1>p, <2>1, <2>2, <2>4 DEF PresentedOK, Serving, cur, Modes
    <3> QED BY <1>p, <2>2, <2>4, <3>1 DEF PresentedOK, cur, InFlight
  <2> QED BY <1>4, <2>2, <2>3, <2>4 DEF Solve
<1>5. ASSUME NEW t \in Type, t # "dns-01", Serve(t)
      PROVE  PresentedOK'
  <2>1. i \in 1..Len(list[mode]) /\ cur \in Authz /\ mode = "parallel"
    BY <1>5, <1>t, CurTyped, SequentialIsDns DEF Serve, TypeOK
  <2>2. Kept /\ UNCHANGED <<list, solver, mode, missed>> /\ pc = "solve"
    BY <1>5, <1>k DEF Serve, Choose
  <2>3. /\ records \subseteq records'
        /\ \/ pc' = "initiate" /\ i' = i /\ cur \in records'
           \/ pc' = "solve"
    BY <1>5, <1>t, <2>1, PresentEffect DEF Serve
  <2> QED BY <1>p, <2>1, <2>2, <2>3 DEF PresentedOK, Kept, cur, Serving, InFlight
<1>6. CASE Continues
  <2>1. UNCHANGED <<list, solver, mode, missed, failures, records, i>>
    BY <1>6 DEF Continues, history
  <2>2. pc \in InFlight /\ pc' \in InFlight
    BY <1>6 DEF Continues
  <2> QED BY <1>p, <2>1, <2>2 DEF PresentedOK, Serving, cur, InFlight
<1>7. CASE Returns
  <2>1. i \in 1..Len(list[mode]) /\ cur \in Authz /\ mode \in Modes
    BY <1>7, <1>t, <1>s, CurTyped DEF Returns, Shape, Serving, Running, TypeOK, Modes
  <2>2. Kept /\ UNCHANGED <<list, solver, mode, missed>> /\ pc \in InFlight
    BY <1>7, <1>k DEF Returns, Choose, InFlight
  <2>3. pc' = (IF mode = "parallel" THEN "solve" ELSE "presolve")
    BY <1>7 DEF Returns, Solved
  <2>4. mode = "parallel" /\ solver[cur] = "dns-01" => records' = records
    BY <1>7 DEF Returns, Solved, NoCleanUp
  <2>5. records \ {cur} \subseteq records'
    BY <1>7, <1>t, <2>1, CleanUpEffect DEF Returns, Solved, NoCleanUp, TypeOK
  <2> QED BY <1>p, <2>1, <2>2, <2>3, <2>4, <2>5 DEF PresentedOK, Kept, Serving, InFlight, Modes
<1>8. CASE DeferredCleanUp
  <2>1. Kept /\ UNCHANGED <<mode, missed>> /\ pc' = "cleanup"
    BY <1>8, <1>k DEF DeferredCleanUp, Choose
  <2> QED BY <1>p, <2>1 DEF PresentedOK, Kept, Serving, InFlight
<1>9. CASE LoopEnds
  <2>1. UNCHANGED <<list, solver, missed, failures, records>>
    BY <1>9 DEF LoopEnds, history
  <2>2. CASE mode = "parallel" /\ pc = "presolve"
    <3>1. pc' = "solve" /\ mode' = "parallel"
      BY <1>9, <2>2 DEF LoopEnds
    <3>2. \A k \in 1..Len(list["parallel"]) : k < i
      BY <1>9, <1>n, <1>t, <2>2 DEF LoopEnds, Running, TypeOK
    <3> QED BY <1>p, <2>1, <2>2, <3>1, <3>2 DEF PresentedOK, Serving, InFlight
  <2>3. CASE ~(mode = "parallel" /\ pc = "presolve")
    <3>1. pc' \in {"cleanup", "done"} \/ (mode' = "sequential" /\ pc' = "presolve")
      BY <1>9, <2>3 DEF LoopEnds
    <3> QED BY <1>p, <2>1, <3>1 DEF PresentedOK, Serving, InFlight
  <2> QED BY <2>2, <2>3
<1>10. CASE ServerValidate
  <2>1. PICK a \in Authz : /\ status[a] = "processing"
                           /\ missed' = IF a \in records THEN missed ELSE missed \cup {a}
    BY <1>10 DEF ServerValidate
  <2>2. a \in records \cup failures
    BY <1>p, <2>1 DEF IInv, TurnsOK, PresentedOK, Serving, InFlight
  <2>3. UNCHANGED <<list, solver, mode, pc, i, failures, records>>
    BY <1>10 DEF ServerValidate
  <2> QED BY <1>p, <2>1, <2>2, <2>3 DEF PresentedOK, Serving, cur
<1>11. CASE UNCHANGED vars
  BY <1>11, <1>p DEF vars, PresentedOK, Serving, cur
<1> QED BY <1>1, <1>2, <1>3, <1>4, <1>5, <1>6, <1>7, <1>8, <1>9, <1>10, <1>11, InFlightStep
        DEF Next, Client, Finished, http01Solve, tlsalpn01Solve, Type

LEMMA RecordsNext ==
    ASSUME IInv, [Next]_vars
    PROVE  RecordsOK'
<1>t. TypeOK
  BY DEF IInv
<1>s. Shape
  BY DEF IInv
<1>r. RecordsOK
  BY DEF IInv
<1>e. ASSUME pc = "choose" PROVE records = {}
  BY <1>e DEF IInv, PresentedOK
<1> SUFFICES ASSUME NEW a \in records'
             PROVE  Accounted(a)'
  BY DEF RecordsOK
<1>n. Len(list["parallel"]) \in Nat
  BY <1>t DEF TypeOK
<1>1. CASE Choose \/ ChooseEnds
  BY <1>1, <1>e DEF Choose, ChooseEnds
<1>3. CASE PreSolve
  <2>1. /\ i \in 1..Len(list[mode]) /\ (mode = "sequential" => solver[cur] = "dns-01")
        /\ cur \in Authz /\ mode \in Modes
    BY <1>3, <1>t, CurTyped, SequentialIsDns DEF PreSolve, TypeOK, Modes
  <2>2. UNCHANGED <<list, solver, mode>> /\ pc = "presolve"
    BY <1>3 DEF PreSolve
  <2>3. ~Serving
    BY <2>2 DEF Serving, InFlight
  <2>4. CASE mode = "parallel"
    <3>1. pc' = "presolve" /\ cleaned' = cleaned
      BY <1>3, <2>4 DEF PreSolve
    <3>2. /\ presented.err \subseteq presented'.err
          /\ records' \subseteq records \cup {cur}
          /\ a \in records \/ solver[cur] = "dns-01"
      BY <1>3, <1>t, <2>1, <2>4, PresentEffect DEF PreSolve
    <3>3. CASE a \in records
      BY <1>r, <2>2, <2>3, <3>1, <3>2, <3>3 DEF RecordsOK, Accounted, Deferred
    <3>4. CASE a = cur /\ solver[cur] = "dns-01"
      BY <2>1, <2>2, <2>4, <3>1, <3>4 DEF Accounted, Deferred, cur
    <3> QED BY <3>2, <3>3, <3>4
  <2>5. CASE mode = "sequential" /\ pc' = "solve" /\ i' = i
    <3>1. /\ presented.err \subseteq presented'.err /\ cleaned' = cleaned
          /\ records' \subseteq records \cup {cur}
      BY <1>3, <1>t, <2>1, <2>5, PresentEffect DEF PreSolve
    <3> QED BY <1>r, <2>2, <2>3, <2>5, <3>1 DEF RecordsOK, Accounted, Deferred, Serving, cur
  <2>6. CASE mode = "sequential" /\ pc' = "presolve"
    <3>1. PICK left \in {records, records \cup {cur}} : CleanUp(cur, left)
      BY <1>3, <2>1, <2>6 DEF PreSolve
    <3>2. /\ records' \subseteq left /\ (cur \in records' => cur \in cleaned'.err)
          /\ cleaned.err \subseteq cleaned'.err
      BY <1>t, <2>1, <3>1, CleanUpEffect DEF TypeOK
    <3>3. presented.err \subseteq presented'.err
      BY <1>3, <1>t, <2>1, <2>6 DEF PreSolve, TypeOK, Outcome
    <3> QED BY <1>r, <2>2, <2>3, <2>6, <3>1, <3>2, <3>3 DEF RecordsOK, Accounted, Deferred
  <2> QED BY <1>3, <2>1, <2>2, <2>4, <2>5, <2>6 DEF PreSolve, Modes
<1>4. CASE Solve
  <2>1. /\ UNCHANGED <<list, solver, mode, cleaned, presented, records>> /\ pc = "solve"
        /\ \/ mode = "parallel" /\ pc' = "solve"
           \/ pc' = "propagate" /\ i' = i
    BY <1>4 DEF Solve, history
  <2> QED BY <1>r, <2>1 DEF RecordsOK, Accounted, Deferred, Serving, InFlight, cur
<1>5. ASSUME NEW t \in Type, t # "dns-01", Serve(t)
      PROVE  Accounted(a)'
  <2>1. i \in 1..Len(list[mode]) /\ cur \in Authz /\ mode = "parallel"
    BY <1>5, <1>t, CurTyped, SequentialIsDns DEF Serve, TypeOK
  <2>2. /\ UNCHANGED <<list, solver, mode, cleaned>> /\ pc = "solve" /\ pc' # "cleanup"
        /\ solver[cur] # "dns-01"
    BY <1>5 DEF Serve
  <2>3. /\ presented.err \subseteq presented'.err /\ records' \subseteq records \cup {cur}
        /\ \/ pc' = "initiate" /\ i' = i
           \/ cur \in presented'.err
    BY <1>5, <1>t, <2>1, PresentEffect DEF Serve
  <2> QED BY <1>r, <2>1, <2>2, <2>3 DEF RecordsOK, Accounted, Deferred, Serving, InFlight, cur
<1>6. CASE Continues
  <2>1. UNCHANGED <<list, solver, mode, cleaned, presented, records, i>>
    BY <1>6 DEF Continues, history
  <2>2. pc \in InFlight /\ pc' \in InFlight
    BY <1>6 DEF Continues
  <2> QED BY <1>r, <2>1, <2>2 DEF RecordsOK, Accounted, Deferred, Serving, cur, InFlight
<1>7. CASE Returns
  <2>1. i \in 1..Len(list[mode]) /\ cur \in Authz /\ mode \in Modes
    BY <1>7, <1>t, <1>s, CurTyped DEF Returns, Shape, Serving, Running, TypeOK, Modes
  <2>2. UNCHANGED <<list, solver, mode, presented>> /\ pc \in InFlight
    BY <1>7 DEF Returns
  <2>3. pc' = (IF mode = "parallel" THEN "solve" ELSE "presolve")
    BY <1>7 DEF Returns, Solved
  <2>4. CASE mode = "parallel" /\ solver[cur] = "dns-01"
    <3>1. records' = records /\ cleaned' = cleaned
      BY <1>7, <2>4 DEF Returns, Solved, NoCleanUp
    <3>2. a = cur => Accounted(a)'
      <4>1. \E k \in 1..Len(list["parallel"]) : list["parallel"][k] = cur
        BY <2>1, <2>4 DEF cur
      <4> QED BY <2>2, <2>3, <2>4, <4>1 DEF Accounted, Deferred
    <3> QED BY <1>r, <2>2, <2>3, <2>4, <3>1, <3>2 DEF RecordsOK, Accounted, Deferred
  <2>5. CASE ~(mode = "parallel" /\ solver[cur] = "dns-01")
    <3>1. /\ records' \subseteq records /\ (cur \in records' => cur \in cleaned'.err)
          /\ cleaned.err \subseteq cleaned'.err
      BY <1>7, <1>t, <2>1, <2>5, CleanUpEffect DEF Returns, Solved, TypeOK
    <3> QED BY <1>r, <2>2, <2>3, <3>1 DEF RecordsOK, Accounted, Deferred
  <2> QED BY <2>4, <2>5
<1>8. CASE DeferredCleanUp
  <2>1. i \in 1..Len(list[mode]) /\ cur \in Authz /\ mode = "parallel"
    BY <1>8, <1>t, <1>s, CurTyped DEF DeferredCleanUp, TypeOK, Shape
  <2>2. /\ UNCHANGED <<list, solver, mode, presented, pc>> /\ pc = "cleanup" /\ i' = i + 1
        /\ ~Serving
    BY <1>8, <2>1 DEF DeferredCleanUp, Serving, InFlight
  <2>3. /\ records' \subseteq records /\ cleaned.err \subseteq cleaned'.err
        /\ cur \in records' /\ solver[cur] = "dns-01" => cur \in cleaned'.err
    BY <1>8, <1>t, <2>1, CleanUpEffect DEF DeferredCleanUp, NoCleanUp, TypeOK
  <2>4. \A k \in 1..Len(list["parallel"]) : k >= i => k >= i + 1 \/ list["parallel"][k] = cur
    BY <2>1 DEF cur
  <2> QED BY <1>r, <2>2, <2>3, <2>4 DEF RecordsOK, Accounted, Deferred
<1>9. CASE LoopEnds
  <2>1. UNCHANGED <<list, solver, cleaned, presented, records>> /\ ~Serving /\ i' = 1
    BY <1>9, <1>s DEF LoopEnds, history, Shape, Running, Serving, InFlight
  <2>2. CASE mode = "parallel" /\ pc # "cleanup"
    <3>1. mode' = "parallel"
      BY <1>9, <2>2 DEF LoopEnds
    <3>2. \A k \in 1..Len(list["parallel"]) : k >= 1
      BY <1>n
    <3> QED BY <1>r, <2>1, <2>2, <3>1, <3>2 DEF RecordsOK, Accounted, Deferred
  <2>3. CASE mode = "parallel" /\ pc = "cleanup"
    <3>1. \A k \in 1..Len(list["parallel"]) : ~(k >= i)
      BY <1>9, <1>n, <1>t, <2>3 DEF LoopEnds, Running, TypeOK
    <3> QED BY <1>r, <2>1, <2>3, <3>1 DEF RecordsOK, Accounted, Deferred
  <2>4. CASE mode = "sequential"
    BY <1>r, <2>1, <2>4 DEF RecordsOK, Accounted, Deferred
  <2> QED BY <1>t, <2>2, <2>3, <2>4 DEF TypeOK
<1>10. CASE ServerValidate
  BY <1>10, <1>r DEF ServerValidate, RecordsOK, Accounted, Deferred, Serving, cur
<1>11. CASE UNCHANGED vars
  BY <1>11, <1>r DEF vars, RecordsOK, Accounted, Deferred, Serving, cur
<1> QED BY <1>1, <1>3, <1>4, <1>5, <1>6, <1>7, <1>8, <1>9, <1>10, <1>11, InFlightStep
        DEF Next, Client, Finished, http01Solve, tlsalpn01Solve, Type

----------------------------------------------------------------------------
LEMMA Inductive == Spec => []IInv
<1>1. IInv /\ [Next]_vars => IInv'
  BY TypeNext, ShapeNext, ListsNext, TurnsNext, PresentedNext, RecordsNext DEF IInv
<1> QED BY <1>1, InitInv, PTL DEF Spec

(* Every variable of Solve keeps its type, whatever the authorizations,    *)
(* providers and server do.                                                *)
THEOREM TypeCorrect == Spec => []TypeOK
<1>1. IInv => TypeOK
  BY DEF IInv
<1> QED BY <1>1, Inductive, PTL

(* A response is in place as long as it is needed and no longer: when the  *)
(* server looks in vain, parallelSolve or sequentialSolve has recorded a   *)
(* failure for the domain, and what is left when Solve returns is left by  *)
(* a provider call that reported an error.                                 *)
THEOREM ResponsesServed == Spec => []ServedWhileNeeded
<1>1. IInv => ServedWhileNeeded
  <2> SUFFICES ASSUME IInv PROVE ServedWhileNeeded
    OBVIOUS
  <2>1. missed \subseteq failures
    BY DEF IInv, PresentedOK
  <2>2. ASSUME pc = "done", NEW a \in records
        PROVE  a \in cleaned.err \/ (solver[a] # "dns-01" /\ a \in presented.err)
    <3>1. mode # "parallel" /\ ~Serving
      BY <2>2 DEF IInv, Shape, Serving, InFlight
    <3> QED BY <2>2, <3>1 DEF IInv, RecordsOK, Accounted, Deferred
  <2> QED BY <2>1, <2>2 DEF ServedWhileNeeded
<1> QED BY <1>1, Inductive, PTL

(* Two responders are never up on one port, and a provider that implements *)
(* Sequential() never holds two records, unless a Present or CleanUp that  *)
(* reported an error left one behind.                                      *)
THEOREM ExclusiveResponses == Spec => []ServedAlone
<1>1. IInv => ServedAlone
  <2> SUFFICES ASSUME IInv, NEW a \in records \ Stuck, Exclusive(a)
               PROVE  a = cur
    BY DEF ServedAlone
  <2>1. CASE Deferred(a)
    BY <2>1 DEF Deferred, Exclusive, IInv, ListsOK, Modes, Sequential
  <2> QED BY <2>1 DEF IInv, RecordsOK, Accounted, Stuck
<1> QED BY <1>1, Inductive, PTL

(* Prober.Solve refines the contract the certifier relies on: a challenge  *)
(* is initiated for a pending authorization only, and Solve returns nil    *)
(* only when the server holds every authorization valid.                   *)
THEOREM ContractImplemented == Spec => ImplementsContract
<1>1. Init => Contract!Init
  BY DEF Init, Contract!Init
<1>2. IInv /\ [Next]_vars => [Contract!Next]_(Contract!vars)
  <2> SUFFICES ASSUME IInv, [Next]_vars
               PROVE  Contract!Next \/ UNCHANGED <<status, result>>
    BY DEF Contract!vars
  <2>t. TypeOK
    BY DEF IInv
  <2>1. CASE Choose \/ ChooseEnds \/ PreSolve \/ Solve \/ http01Solve \/ tlsalpn01Solve
             \/ DeferredCleanUp \/ UNCHANGED vars
    BY <2>1 DEF Choose, ChooseEnds, PreSolve, Solve, http01Solve, tlsalpn01Solve, Serve,
                DeferredCleanUp, vars
  <2>2. CASE Continues \/ Returns
    <3>1. result' = result
      BY <2>2 DEF Continues, Returns
    <3>2. CASE status' = [status EXCEPT ![cur] = "processing"] /\ pc = "initiate"
      <4>1. cur \in Authz /\ result = "running"
        BY <3>2, CurTyped DEF IInv, Shape, Serving, InFlight, Running
      <4> QED BY <3>1, <3>2, <4>1, InitiatedOnce DEF Contract!Next, Contract!Validate
    <3> QED BY <2>2, <3>1, <3>2 DEF Continues, Returns
  <2>3. CASE LoopEnds
    <3>1. CASE mode = "parallel"
      BY <2>3, <3>1 DEF LoopEnds
    <3>2. CASE mode = "sequential"
      <4>1. status' = status /\ result = "running" /\ pc' = "done"
            /\ result' = IF failures = {} THEN "ok" ELSE "err"
        BY <2>3, <3>2 DEF LoopEnds, IInv, Shape
      <4>2. ASSUME failures = {}, NEW a \in Authz
            PROVE  status[a] = "valid"
        <5>1. PICK j \in 1..Len(Authorizations) : a = Authorizations[j]
          BY DEF Authz
        <5>2. \A m \in Modes : \A k \in 1..Len(list[m]) : k <= SolvedTo(m)
          <6>1. Len(list["sequential"]) <= i - 1
            BY <2>3, <2>t, <3>2 DEF LoopEnds, Running, TypeOK
          <6> QED BY <2>3, <2>t, <3>2, <6>1 DEF SolvedTo, Modes, LoopEnds, TypeOK
        <5>3. pc # "choose"
          BY <2>3 DEF LoopEnds
        <5>4. \/ status[a] = "valid"
              \/ \E m \in Modes : \E k \in 1..Len(list[m]) : list[m][k] = a
          BY <4>2, <5>1, <5>3 DEF IInv, ListsOK
        <5> QED BY <4>2, <5>2, <5>4 DEF IInv, TurnsOK
      <4> QED BY <4>1, <4>2 DEF Contract!Next, Contract!Return, Contract!ReturnFor
    <3> QED BY <2>t, <3>1, <3>2 DEF TypeOK
  <2>4. CASE ServerValidate
    BY <2>4 DEF ServerValidate, Contract!Next, Contract!Validate
  <2> QED BY <2>1, <2>2, <2>3, <2>4, InFlightStep DEF Next, Client, Finished
<1> QED BY <1>1, <1>2, Inductive, PTL DEF Spec, ImplementsContract, Contract!Spec
=============================================================================
