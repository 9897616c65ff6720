------------------------------- MODULE Prober -------------------------------
(***************************************************************************)
(* challenge/resolver: Prober.Solve with the solver manager's choice of a  *)
(* solver and its validate loop, and the three challenges (dns01, http01,  *)
(* tlsalpn01) it drives.                                                   *)
(*                                                                         *)
(* Solve runs in one goroutine; what runs beside it is the ACME server,    *)
(* which looks for the challenge response when it pleases.  A response is  *)
(* a TXT record (dns-01) or a listening responder (http-01, tls-alpn-01);  *)
(* "records" holds the authorizations whose response is being served.      *)
(***************************************************************************)
EXTENDS Integers, Sequences, FiniteSets

CONSTANTS
    Authorizations,  \* the list given to Solve
    Offers           \* the sets of challenge types a server may offer

Authz == {Authorizations[k] : k \in 1..Len(Authorizations)}

Type == {"dns-01", "http-01", "tls-alpn-01"}

(* The server gives one authorization for each identifier of an order. *)
ASSUME DistinctAuthorizations ==
    /\ Authorizations \in Seq(Authz)
    /\ \A j, k \in 1..Len(Authorizations) :
          Authorizations[j] = Authorizations[k] => j = k

ASSUME OffersChallenges == Offers \subseteq SUBSET Type

VARIABLES
    solvers,     \* SolverManager.solvers: the challenge types with a solver
    unlimited,   \* Retry-After is 0, so MaxElapsedTime is 0: no limit
    serial,      \* the DNS provider implements Sequential()
    offer,       \* the challenges of each authorization
    solver,      \* the solver chosen for each authorization
    list,        \* the two lists of the first pass, by mode
    mode,        \* "parallel" or "sequential": whose list is being worked on
    pc,          \* the loop of parallelSolve / sequentialSolve being run
    i,           \* the loop's index
    failures,    \* the domains in the obtainError map
    result,      \* what Solve returned
    status,      \* external: the server's state of each authorization
    records,     \* external: challenge responses being served
    presented,   \* Present was called, by outcome
    cleaned,     \* CleanUp was called, by outcome
    missed       \* external: the server looked and found no response

config == <<solvers, unlimited, serial, offer>>
history == <<presented, cleaned, missed>>
vars == <<solvers, unlimited, serial, offer, solver, list, mode, pc, i, failures,
          result, status, records, presented, cleaned, missed>>

NoSolver == "none"

Init ==
    /\ solvers \in SUBSET Type
    /\ unlimited \in BOOLEAN /\ serial \in BOOLEAN
    /\ offer \in [Authz -> Offers]
    /\ solver = [a \in Authz |-> NoSolver]
    /\ list = [m \in {"parallel", "sequential"} |-> << >>]
    /\ mode = "parallel"
    /\ pc = "choose"
    /\ i = 1
    /\ failures = {}
    /\ result = "running"
    /\ status \in [Authz -> {"pending", "valid"}]
    /\ records = {}
    /\ presented = [ok |-> {}, err |-> {}]
    /\ cleaned = [ok |-> {}, err |-> {}]
    /\ missed = {}

----------------------------------------------------------------------------
(* First pass: challenges sorted by descending type name, the first with a *)
(* solver wins.  Authorizations already valid are skipped.                 *)

byType(t) == CASE t = "tls-alpn-01" -> 3 [] t = "http-01" -> 2 [] t = "dns-01" -> 1

chooseSolver(a) ==
    LET usable == offer[a] \cap solvers
    IN IF usable = {} THEN NoSolver
       ELSE CHOOSE t \in usable : \A u \in usable : byType(u) <= byType(t)

SequentialIgnored(t) == FALSE

Sequential(t) == t = "dns-01" /\ serial

FailByIndex(a) == failures' = failures \cup {i}

FailOnlyLogs(a) == UNCHANGED failures

Fail(a) == failures' = failures \cup {a}

Choose ==
    /\ pc = "choose" /\ i <= Len(Authorizations)
    /\ LET a == Authorizations[i]
           t == chooseSolver(a)
           m == IF Sequential(t) THEN "sequential" ELSE "parallel"
       IN \/ /\ status[a] = "valid"
             /\ UNCHANGED <<solver, list, failures>>
          \/ /\ status[a] # "valid" /\ t # NoSolver
             /\ solver' = [solver EXCEPT ![a] = t]
             /\ list' = [list EXCEPT ![m] = Append(@, a)]
             /\ UNCHANGED failures
          \/ /\ status[a] # "valid" /\ t = NoSolver
             /\ Fail(a)
             /\ UNCHANGED <<solver, list>>
    /\ i' = i + 1
    /\ UNCHANGED <<config, mode, pc, result, status, records, history>>

ChooseEnds ==
    /\ pc = "choose" /\ i > Len(Authorizations)
    /\ pc' = "presolve" /\ i' = 1
    /\ UNCHANGED <<config, solver, list, mode, failures, result, status, records,
                   history>>

cur == list[mode][i]

Running == i <= Len(list[mode])

----------------------------------------------------------------------------
(* Provider calls.  Present may fail half-way and leave its record behind; *)
(* CleanUp may fail and leave it too (the error is only logged).           *)

Present(a, ok) ==
    /\ presented' = IF ok THEN [presented EXCEPT !.ok = @ \cup {a}]
                          ELSE [presented EXCEPT !.err = @ \cup {a}]
    /\ \/ records' = records \cup {a}
       \/ ~ok /\ records' = records

NoCleanUp == UNCHANGED <<records, cleaned>>

CleanUp(a, left) ==
    \/ /\ cleaned' = [cleaned EXCEPT !.ok = @ \cup {a}]
       /\ records' = left \ {a}
    \/ /\ cleaned' = [cleaned EXCEPT !.err = @ \cup {a}]
       /\ records' = left

(* dns01.Challenge.PreSolve; the other challenges have none.  In sequence  *)
(* a failure is cleaned up at once; in parallel the deferred loop does it. *)
PreSolve ==
    /\ pc = "presolve" /\ Running
    /\ \/ /\ solver[cur] # "dns-01"
          /\ i' = i + 1
          /\ UNCHANGED <<pc, failures, records, presented, cleaned>>
       \/ /\ solver[cur] = "dns-01"
          /\ Present(cur, TRUE)
          /\ IF mode = "parallel" THEN i' = i + 1 /\ UNCHANGED pc
                                  ELSE pc' = "solve" /\ UNCHANGED i
          /\ UNCHANGED <<failures, cleaned>>
       \/ /\ solver[cur] = "dns-01" /\ mode = "parallel"
          /\ Present(cur, FALSE)
          /\ Fail(cur)
          /\ i' = i + 1
          /\ UNCHANGED <<pc, cleaned>>
       \/ /\ solver[cur] = "dns-01" /\ mode = "sequential"
          /\ presented' = [presented EXCEPT !.err = @ \cup {cur}]
          /\ \E left \in {records, records \cup {cur}} : CleanUp(cur, left)
          /\ Fail(cur)
          /\ i' = i + 1
          /\ UNCHANGED pc
    /\ UNCHANGED <<config, solver, list, mode, result, status, missed>>

(* The solver's Solve is entered; an authorization that failed in PreSolve *)
(* is skipped in parallel.                                                 *)
Solve ==
    /\ pc = "solve" /\ Running
    /\ \/ mode = "parallel" /\ cur \in failures /\ i' = i + 1 /\ UNCHANGED pc
       \/ /\ cur \notin failures /\ solver[cur] = "dns-01"
          /\ pc' = "propagate" /\ UNCHANGED i
    /\ UNCHANGED <<config, solver, list, mode, failures, result, status, records,
                   history>>

(* http-01 and tls-alpn-01 present their response in Solve. *)
Serve(t) ==
    /\ pc = "solve" /\ Running
    /\ cur \notin failures /\ solver[cur] = t
    /\ \/ Present(cur, TRUE) /\ pc' = "initiate" /\ UNCHANGED <<i, failures>>
       \/ Present(cur, FALSE) /\ Fail(cur) /\ i' = i + 1 /\ UNCHANGED pc
    /\ UNCHANGED <<config, solver, list, mode, result, status, cleaned, missed>>

http01Solve == Serve("http-01")

tlsalpn01Solve == Serve("tls-alpn-01")

(* The solver's Solve returns.  http-01 and tls-alpn-01 clean up in their  *)
(* own defer, sequentialSolve after each Solve, parallelSolve at the end.  *)
Solved(ok) ==
    /\ IF ok THEN UNCHANGED failures ELSE Fail(cur)
    /\ IF mode = "parallel" /\ solver[cur] = "dns-01"
       THEN NoCleanUp
       ELSE CleanUp(cur, records)
    /\ pc' = IF mode = "parallel" THEN "solve" ELSE "presolve"
    /\ i' = i + 1

(* dns01: wait.For the record to propagate, or time out. *)
Propagate ==
    /\ pc = "propagate"
    /\ \/ /\ pc' = "initiate"
          /\ UNCHANGED <<i, failures, records, cleaned>>
       \/ Solved(FALSE)
    /\ UNCHANGED <<config, solver, list, mode, result, status, presented, missed>>

(* validate: Challenges.New tells the server to look.  A call that reports *)
(* an error may have been executed all the same.                           *)
Initiate ==
    /\ pc = "initiate"
    /\ \/ /\ status' = [status EXCEPT ![cur] = "processing"]
          /\ pc' = "check"
          /\ UNCHANGED <<i, failures, records, cleaned>>
       \/ /\ Solved(FALSE)
          /\ status' \in {status, [status EXCEPT ![cur] = "processing"]}
    /\ UNCHANGED <<config, solver, list, mode, result, presented, missed>>

checkStatusEager(s) == IF s \in {"valid", "processing"} THEN "valid" ELSE "error"

checkStatus(s) == CASE s = "valid" -> "valid"
                    [] s \in {"pending", "processing"} -> "retry"
                    [] OTHER -> "error"

(* validate: the challenge in the answer to Challenges.New. *)
Check ==
    /\ pc = "check"
    /\ \/ checkStatus(status[cur]) = "valid" /\ Solved(TRUE)
       \/ checkStatus(status[cur]) = "error" /\ Solved(FALSE)
       \/ /\ checkStatus(status[cur]) = "retry"
          /\ pc' = "poll"
          /\ UNCHANGED <<i, failures, records, cleaned>>
    /\ UNCHANGED <<config, solver, list, mode, result, status, presented, missed>>

PollWithoutLimit ==
    /\ pc = "poll"
    /\ \/ checkStatus(status[cur]) = "valid" /\ Solved(TRUE)
       \/ checkStatus(status[cur]) = "error" /\ Solved(FALSE)
    /\ UNCHANGED <<config, solver, list, mode, result, status, presented, missed>>

(* validate: Authorizations.Get until the state is final, a request fails  *)
(* or the backoff's MaxElapsedTime has passed.  An answer "still pending"  *)
(* changes nothing.                                                        *)
Poll ==
    /\ pc = "poll"
    /\ \/ checkStatus(status[cur]) = "valid" /\ Solved(TRUE)
       \/ checkStatus(status[cur]) = "error" /\ Solved(FALSE)
       \/ checkStatus(status[cur]) = "retry" /\ ~unlimited /\ Solved(FALSE)
    /\ UNCHANGED <<config, solver, list, mode, result, status, presented, missed>>

PollFails ==
    /\ pc = "poll"
    /\ Solved(FALSE)
    /\ UNCHANGED <<config, solver, list, mode, result, status, presented, missed>>

DeferredCleanUpOfSolved ==
    /\ pc = "cleanup" /\ Running
    /\ i' = i + 1
    /\ IF solver[cur] = "dns-01" /\ cur \notin failures
       THEN CleanUp(cur, records) ELSE NoCleanUp
    /\ UNCHANGED <<config, solver, list, mode, pc, failures, result, status,
                   presented, missed>>

(* parallelSolve's deferred loop: cleanUp of every dns-01 authorization,   *)
(* those whose PreSolve failed included.                                   *)
DeferredCleanUp ==
    /\ pc = "cleanup" /\ Running
    /\ i' = i + 1
    /\ IF solver[cur] = "dns-01" THEN CleanUp(cur, records) ELSE NoCleanUp
    /\ UNCHANGED <<config, solver, list, mode, pc, failures, result, status,
                   presented, missed>>

(* A loop over the list ends: presolve, solve, cleanup, then the           *)
(* sequential list, then Solve returns the failures if there are any.      *)
LoopEnds ==
    /\ pc \in {"presolve", "solve", "cleanup"} /\ ~Running
    /\ i' = 1
    /\ \/ /\ mode = "parallel" /\ pc # "cleanup"
          /\ pc' = IF pc = "presolve" THEN "solve" ELSE "cleanup"
          /\ UNCHANGED <<mode, result>>
       \/ /\ mode = "parallel" /\ pc = "cleanup"
          /\ mode' = "sequential" /\ pc' = "presolve"
          /\ UNCHANGED result
       \/ /\ mode = "sequential"
          /\ pc' = "done"
          /\ result' = IF failures = {} THEN "ok" ELSE "err"
          /\ UNCHANGED mode
    /\ UNCHANGED <<config, solver, list, failures, status, records, history>>

(* External: the server looks for the response of a challenge it was told  *)
(* to validate.  It may reject one it finds.                               *)
ServerValidate ==
    /\ \E a \in Authz :
         /\ status[a] = "processing"
         /\ \/ a \in records /\ status' = [status EXCEPT ![a] = "valid"]
            \/ status' = [status EXCEPT ![a] = "invalid"]
         /\ missed' = IF a \in records THEN missed ELSE missed \cup {a}
    /\ UNCHANGED <<config, solver, list, mode, pc, i, failures, result,
                   records, presented, cleaned>>

Client ==
    \/ Choose \/ ChooseEnds \/ PreSolve \/ Solve \/ http01Solve \/ tlsalpn01Solve
    \/ Propagate \/ Initiate \/ Check \/ Poll \/ PollFails \/ DeferredCleanUp \/ LoopEnds

Finished == pc = "done" /\ UNCHANGED vars

Next == Client \/ ServerValidate \/ Finished

Spec == Init /\ [][Next]_vars

(* The goroutine runs, provider calls and timers return.  Nothing is       *)
(* assumed of the server, which may never validate.                        *)
ClientProgress ==
    /\ WF_vars(Choose \/ ChooseEnds \/ PreSolve \/ Solve \/ http01Solve
               \/ tlsalpn01Solve \/ Propagate \/ Initiate \/ Check \/ DeferredCleanUp \/ LoopEnds)
    /\ WF_vars(Poll)

FairSpec == Spec /\ ClientProgress

----------------------------------------------------------------------------
Outcome == [ok : SUBSET Authz, err : SUBSET Authz]

TypeOK ==
    /\ solvers \subseteq Type /\ unlimited \in BOOLEAN /\ serial \in BOOLEAN
    /\ offer \in [Authz -> Offers]
    /\ solver \in [Authz -> Type \cup {NoSolver}]
    /\ list \in [{"parallel", "sequential"} -> Seq(Authz)]
    /\ mode \in {"parallel", "sequential"}
    /\ pc \in {"choose", "presolve", "solve", "propagate", "initiate", "check",
              "poll", "cleanup", "done"}
    /\ i \in 1..Len(Authorizations) + 1
    /\ failures \subseteq Authz
    /\ result \in {"running", "ok", "err"}
    /\ status \in [Authz -> {"pending", "processing", "valid", "invalid"}]
    /\ records \subseteq Authz
    /\ presented \in Outcome /\ cleaned \in Outcome
    /\ missed \subseteq Authz

(* Prober.Solve implements the contract the certifier relies on: it        *)
(* returns nil only when the server holds every authorization valid.       *)
Contract == INSTANCE SolveContract

ImplementsContract == Contract!Spec

(* A response is in place as long as it is needed and no longer: whenever  *)
(* the server looks and finds nothing, Solve has already recorded a        *)
(* failure for that domain; and when Solve returns, every response it      *)
(* published has been cleaned up, except where CleanUp itself reported an  *)
(* error, or where a failing http-01/tls-alpn-01 Present left one (those   *)
(* are not cleaned).                                                       *)
ServedWhileNeeded ==
    /\ missed \subseteq failures
    /\ pc = "done" =>
          \A a \in records : \/ a \in cleaned.err
                             \/ solver[a] # "dns-01" /\ a \in presented.err

(* Responses that must not coexist do not: two responders on one port, or  *)
(* two TXT records of a provider that asks to be driven in sequence.       *)
Exclusive(a) == solver[a] # "dns-01" \/ serial

Stuck == cleaned.err \cup presented.err

ServedAlone ==
    \A a, b \in records \ Stuck : Exclusive(a) /\ Exclusive(b) => a = b

(* Solve returns, whatever the server does, unless Retry-After is 0: then  *)
(* validate polls until the server decides.                                *)
SolveReturns ==
    <>(pc = "done") \/ <>[](unlimited /\ pc = "poll" /\ status[cur] = "processing")

(* challenge/provider.go: "CleanUp will be called by the challenge if      *)
(* Present ends in a non-error state."                                     *)
CleanUpOnlyAfterPresent ==
    cleaned.ok \cup cleaned.err \subseteq presented.ok
=============================================================================
