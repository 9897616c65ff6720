------------------------------- MODULE MCDns -------------------------------
(* Name 2 has a CNAME to name 1, a zone of its own, one of whose two       *)
(* nameservers also serves the parent zone; the private nameservers see    *)
(* only the parents' parent.                                               *)
EXTENDS Dns
MCApex ==
  [v \in View |-> [n \in Name |->
     CASE v = Public /\ n = 1 -> {1, 2}
       [] v = Public /\ n = 2 -> {2, 3}
       [] OTHER -> {3}]]
MCAuth ==
  [n \in Name |-> [l \in 1..Depth |->
     CASE n = 1 /\ l = 1 -> <<"n1", "n2">>
       [] n = 1 /\ l = 2 -> <<"n1">>
       [] n = 2 /\ l = 2 -> <<"n2">>
       [] OTHER -> <<>>]]
MCAlias == [n \in Name |-> 1]
=============================================================================
