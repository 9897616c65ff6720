----------------------------- MODULE Forwarded -----------------------------
(***************************************************************************)
(* Which requests the http-01 server answers: the domain matchers, with    *)
(* the scanner for the Forwarded header, and as their reference what a     *)
(* well-formed header says.  A text is a sequence of tokens, each of which *)
(* stands for a run of characters that the scanner treats alike.           *)
(***************************************************************************)
EXTENDS Integers, Sequences, SequencesExt, Functions, TLC

Quote == "quote"
IsWS(t) == t = " "
(* A port's colon is no token character, so a port has to be quoted.       *)
tchar(t) == t \notin {Quote, ";", "=", ",", " ", ":80"}

-----------------------------------------------------------------------------
(* parseForwardedHeader.  "next" is the loop variable, which skipWS moves  *)
(* on; skipWS reads past the end of a text that it is at the end of.       *)
skipWS(s, i) == CHOOSE j \in i..Len(s) : /\ \A k \in (i + 1)..j : IsWS(s[k])
                                         /\ j = Len(s) \/ ~IsWS(s[j + 1])
TrimWS(s) ==
  LET solid == {i \in DOMAIN s : ~IsWS(s[i])} IN
  IF solid = {} THEN <<>> ELSE SubSeq(s, Min(solid), Max(solid))
ToLower(s) == [i \in DOMAIN s |-> IF s[i] = "Host" THEN "host" ELSE s[i]]

Start == [next |-> 1, pos |-> 1, key |-> <<>>, inquote |-> FALSE,
          cur |-> [k \in {} |-> <<>>], elements |-> <<>>, failed |-> FALSE]
Store(st, value) == [st EXCEPT !.cur = (st.key :> value) @@ @, !.key = <<>>]
(* An error is returned, or skipWS panics, which net/http recovers from by *)
(* closing the connection: either way there is no key authorization.       *)
Fail(st) == [st EXCEPT !.failed = TRUE]
(* Go on after character i and the white space that follows it.            *)
Skip(st, s, i) ==
  IF skipWS(s, i) = Len(s) THEN Fail(st)
  ELSE [st EXCEPT !.next = skipWS(s, i) + 1, !.pos = skipWS(s, i) + 1]

AtQuoteEnd(st, s, i) == [Store(st, SubSeq(s, st.pos, i - 1)) EXCEPT !.pos = i, !.inquote = FALSE]

(* The switch on a character outside quotes; its cases exclude each other. *)
Switch(st, s, i) ==
  LET text == SubSeq(s, st.pos, i - 1)
      full == IF st.key # <<>> THEN Store(st, text) ELSE st
  IN CASE s[i] = Quote -> IF st.key = <<>> THEN Fail(st)
                          ELSE [st EXCEPT !.inquote = TRUE, !.pos = i + 1]
       [] s[i] = ";" -> Skip(Store(st, text), s, i)
       [] s[i] = "=" -> Skip([st EXCEPT !.key = ToLower(TrimWS(text))], s, i)
       [] s[i] = "," -> Skip([full EXCEPT !.elements = Append(@, full.cur), !.cur = Start.cur], s, i)
       [] tchar(s[i]) \/ IsWS(s[i]) -> st
       [] OTHER -> Fail(st)

(* One turn of the loop, none for a character that was skipped.            *)
Advance(st, s, i) ==
  IF st.failed \/ i < st.next THEN st
  ELSE IF ~st.inquote THEN Switch(st, s, i)
  ELSE IF s[i] = Quote THEN AtQuoteEnd(st, s, i)
  ELSE st

parseForwardedHeader(s) ==
  LET scan[i \in 0..Len(s)] == IF i = 0 THEN Start ELSE Advance(scan[i - 1], s, i)
      st == scan[Len(s)]
      full == IF st.key # <<>> THEN Store(st, SubSeq(s, st.pos, Len(s))) ELSE st
  IN IF st.failed \/ st.inquote THEN Fail(st)
     ELSE IF full.cur = Start.cur THEN full
     ELSE [full EXCEPT !.elements = Append(@, full.cur)]

-----------------------------------------------------------------------------
(* strings.HasPrefix: a port may follow the domain, and so may the rest of *)
(* a longer name.                                                          *)
HasPrefix(s, domain) == IsPrefix(domain, s)
HostOf(element) == IF <<"host">> \in DOMAIN element THEN element[<<"host">>] ELSE <<>>

(* matches of hostMatcher, arbitraryMatcher and forwardedMatcher.          *)
matchesAnyElement(matcher, value, domain) ==
  IF matcher # "Forwarded" THEN HasPrefix(value, domain)
  ELSE LET fwds == parseForwardedHeader(value) IN
       ~fwds.failed /\ \E i \in DOMAIN fwds.elements : HasPrefix(HostOf(fwds.elements[i]), domain)
matches(matcher, value, domain) ==
  IF matcher # "Forwarded" THEN HasPrefix(value, domain)
  ELSE LET fwds == parseForwardedHeader(value) IN
       ~fwds.failed /\ fwds.elements # <<>> /\ HasPrefix(HostOf(fwds.elements[1]), domain)

-----------------------------------------------------------------------------
(* A header as RFC 7239 builds it: elements of pairs, a value quoted or a  *)
(* token, white space around the separators or none; and its text.         *)
PairText(p, space) ==
  <<p.name>> \o space \o <<"=">> \o space
    \o (IF p.quoted THEN <<Quote>> \o p.value \o <<Quote>> ELSE p.value)
Joined(parts, separator) ==
  FoldLeft(LAMBDA text, part : IF text = <<>> THEN part ELSE text \o separator \o part, <<>>, parts)
Text(header) ==
  Joined([i \in DOMAIN header.elements |->
            Joined([j \in DOMAIN header.elements[i] |-> PairText(header.elements[i][j], header.space)],
                   <<";">> \o header.space)],
         <<",">> \o header.space)
(* What its first element names as the host.                               *)
Asked(header) ==
  {p.value : p \in {q \in Range(header.elements[1]) : q.name \in {"host", "Host"}}}
=============================================================================
