------------------------------ MODULE ApiCall ------------------------------
(***************************************************************************)
(* What acme/api promises the services built on it (Orders, Challenges,    *)
(* Certificates, ...): a call returns after the server executed the        *)
(* request at most once, and returns without an error only if it did.      *)
(* Api implements this specification.                                      *)
(***************************************************************************)
EXTENDS Integers

CONSTANT Worker

VARIABLES
    calling,     \* the goroutines inside a call
    executed,    \* how often the server executed the goroutine's last call
    result       \* what the goroutine's last call returned

vars == <<calling, executed, result>>

Init ==
    /\ calling = {}
    /\ executed = [w \in Worker |-> 0]
    /\ result = [w \in Worker |-> "none"]

Call(w) ==
    /\ w \notin calling
    /\ calling' = calling \cup {w}
    /\ executed' = [executed EXCEPT ![w] = 0]
    /\ result' = [result EXCEPT ![w] = "none"]

Execute(w) ==
    /\ w \in calling
    /\ executed[w] = 0
    /\ executed' = [executed EXCEPT ![w] = 1]
    /\ UNCHANGED <<calling, result>>

Return(w) ==
    /\ w \in calling
    /\ calling' = calling \ {w}
    /\ \/ executed[w] = 1 /\ result' = [result EXCEPT ![w] = "ok"]
       \/ result' = [result EXCEPT ![w] = "err"]
    /\ UNCHANGED executed

Next == \E w \in Worker : Call(w) \/ Execute(w) \/ Return(w)

Spec == Init /\ [][Next]_vars
============================================================================
