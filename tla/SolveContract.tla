--------------------------- MODULE SolveContract ---------------------------
(***************************************************************************)
(* What the resolver promises the certifier: Solve returns without an      *)
(* error only when the server holds every authorization valid.  Validation *)
(* is the server's doing and may go on after Solve gave up.                *)
(***************************************************************************)
CONSTANT Authz

VARIABLES
    status,      \* the server's state of each authorization
    result       \* what Solve returned, "running" until it does

vars == <<status, result>>

Init ==
    /\ status \in [Authz -> {"pending", "valid"}]
    /\ result = "running"

Validate ==
    /\ \E a \in Authz :
         \/ /\ status[a] = "pending"
            /\ result = "running"
            /\ status' = [status EXCEPT ![a] = "processing"]
         \/ /\ status[a] = "processing"
            /\ \E s \in {"valid", "invalid"} : status' = [status EXCEPT ![a] = s]
    /\ UNCHANGED result

(* Solve returns to a caller that gave it the authorizations in "given". *)
ReturnFor(given) ==
    /\ result = "running"
    /\ \/ result' = "ok" /\ \A a \in given : status[a] = "valid"
       \/ result' = "err"
    /\ UNCHANGED status

Return == ReturnFor(Authz)

Next == Validate \/ Return

Spec == Init /\ [][Next]_vars
============================================================================
