---------------------------- MODULE MCResponder ----------------------------
(***************************************************************************)
(* Two domains in turn, of which one starts with the other.  Headers have  *)
(* one pair or two in their first element, with every combination of       *)
(* values and quoting, followed by another element or by none.             *)
(***************************************************************************)
EXTENDS Responder

Short == <<"example.co">>
Long == <<"example.co", "m">>
Other == <<"example.org">>
MCDomainOf == [r \in Round |-> IF r % 2 = 1 THEN Short ELSE Long]

Pair(names) ==
    {p \in [name: names, quoted: BOOLEAN, value: {Short, Long, Other, Short \o <<":80">>}] :
        ":80" \in Range(p.value) => p.quoted}
First ==
    {<<p>> : p \in Pair({"host", "Host", "for"})}
        \cup {<<p, q>> : p \in Pair({"Host"}), q \in Pair({"for"})}
        \cup {<<q, p>> : p \in Pair({"host"}), q \in Pair({"for"})}
Second == {<<>>, <<<<[name |-> "host", quoted |-> FALSE, value |-> Long]>>>>,
           <<<<[name |-> "host", quoted |-> TRUE, value |-> Short]>>>>}
MCHeaders == {[elements |-> <<f>> \o t, space |-> w] :
                 f \in First, t \in Second, w \in {<<>>, <<" ">>}}
============================================================================
