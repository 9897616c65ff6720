--------------------------- MODULE ObtainContract ---------------------------
(***************************************************************************)
(* What the certifier promises its caller: Obtain returns without an error *)
(* only with a certificate the CA has issued.  The CA may issue one        *)
(* although Obtain reports an error (a lost answer, a timeout).            *)
(***************************************************************************)
VARIABLES
    issued,      \* the CA has issued a certificate for the order
    result       \* what Obtain returned: a certificate and an error

vars == <<issued, result>>

Init == issued = FALSE /\ result = "running"

Issue == issued' = TRUE /\ UNCHANGED result

Return ==
    /\ result = "running"
    /\ \/ issued /\ result' = "certificate"
       \/ result' = "error"
    /\ UNCHANGED issued

Next == Issue \/ Return

Spec == Init /\ [][Next]_vars
=============================================================================
