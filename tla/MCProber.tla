------------------------------ MODULE MCProber ------------------------------
EXTENDS Prober

CONSTANTS a1, a2, a3

TwoAuthz == <<a1, a2>>
ThreeAuthz == <<a1, a2, a3>>

(* A wildcard identifier is offered dns-01 only, the others everything. *)
WildcardOrNot == {{"dns-01"}, Type}
=============================================================================
