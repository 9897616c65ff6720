------------------------- MODULE CertifierInvariant -------------------------
(***************************************************************************)
(* The inductive invariant of module Certifier, and the proof that its     *)
(* first half is kept: the types, the order, its names and the goroutines  *)
(* of getAuthorizations.  CertifierProof has the rest and the theorems.    *)
(***************************************************************************)
EXTENDS Certifier, FiniteSetTheorems, TLAPS

Ordered == Range(authorizations)

(* The goroutines whose value has been received. *)
Received == {u \in Authz : go[u] = "done"}

Open == {"pending", "processing"}

(* The order: what it is for and which authorizations it has. *)
OrderOK ==
    /\ chains \in Chains
    /\ order = "none" => authorizations = << >> /\ pc \in {"start", "sanitize", "order", "done"}
    /\ order # "none" => pc \notin {"start", "sanitize", "order"}
                         /\ domains # << >> /\ identifiers = Range(domains)
                         /\ authorizations = Authorizations(Cardinality(identifiers))
    /\ pc \in {"spawn", "collect", "solve", "deactivate", "deactivating", "finalize"} =>
          order = "pending"
    /\ pc = "links" => order = "valid"
    /\ order \in {"none", "pending"} \/ csr # {}

(* The names: what has passed sanitizeDomain so far. *)
NamesOK ==
    /\ pc = "start" => domains = << >> /\ n = 1
    /\ pc \in {"sanitize", "order"} => asked # << >>
    /\ pc = "sanitize" =>
          /\ n <= Len(asked) + 1 /\ Len(domains) < n /\ ~csrGiven
          /\ Range(domains) = {asked[k] : k \in 1..(n - 1)} \cap Encodable
    /\ pc \notin {"start", "sanitize", "done"} \/ order # "none" =>
          /\ Len(domains) <= Len(asked)
          /\ IF csrGiven THEN domains = asked
             ELSE Range(domains) = Range(asked) \cap Encodable

(* getAuthorizations: one goroutine for each authorization, and as many    *)
(* values received as the collecting loop has gone round.                  *)
CollectOK ==
    /\ pc \in {"start", "sanitize", "order"} =>
          /\ \A u \in Authz : go[u] = "none"
          /\ responses = {} /\ failures = {}
    /\ pc = "spawn" =>
          /\ n <= Len(authorizations) + 1 /\ Received = {}
          /\ responses = {} /\ failures = {}
          /\ \A u \in Authz :
               go[u] # "none" <=> \E k \in 1..(n - 1) : u = authorizations[k]
    /\ pc = "collect" =>
          /\ n <= Len(authorizations) + 1 /\ Cardinality(Received) = n - 1
          /\ \A u \in Authz : go[u] # "none" <=> u \in Ordered
          /\ failures = {} => responses = Received
    /\ pc \notin {"spawn", "collect", "panic"} => \A u \in Authz : go[u] \in {"none", "done"}

(* Solve was given every authorization of the order, and the order is      *)
(* finalized only after it returned nil.                                   *)
SolvedOK ==
    /\ pc \in {"start", "sanitize", "order", "spawn", "collect", "solve"} => solve = "running"
    /\ pc \in {"solve", "finalize", "poll", "links"} \/ solve = "ok" => responses = Ordered
    /\ pc \in {"finalize", "poll", "links"} \/ csr # {} => solve = "ok"
    /\ solve = "ok" => /\ pc \in {"finalize", "poll", "links", "done"}
                       /\ \A u \in Ordered : status[u] = "valid"
    /\ csr # {} => pc \in {"poll", "links", "done"} /\ csr = identifiers

(* deactivateAuthorizations: what it has visited is closed, and what was   *)
(* valid when it began still is.                                           *)
TidiedOK ==
    /\ \A u \in held : status[u] = "valid"
    /\ pc \in {"deactivate", "deactivating"} =>
          /\ n <= Len(authorizations) + 1 /\ solve # "ok"
          /\ \A k \in 1..(n - 1) :
               authorizations[k] \in skipped \/ status[authorizations[k]] \notin Open
    /\ pc = "deactivating" => n <= Len(authorizations) /\ authorizations[n] \notin held
    /\ pc = "done" /\ order = "pending" /\ csr = {} /\ solve # "ok" =>
          \A k \in 1..Len(authorizations) :
               authorizations[k] \in skipped \/ status[authorizations[k]] \notin Open

(* The chain of index c is the first one from the preferred issuer, or the *)
(* default one if there is none.                                           *)
Wanted == {k \in 1..Len(chains) : preferred /\ chains[k] = "preferred"}

FirstWanted(c) ==
    /\ Wanted = {} => c = 1
    /\ Wanted # {} => c \in Wanted /\ \A k \in Wanted : c <= k

(* checkResponse: no chain passed over was wanted, and the default chain   *)
(* is loaded from the first link on.                                       *)
ChainsOK ==
    /\ result.err = "running" <=> pc # "done"
    /\ pc = "links" =>
          /\ n <= Len(chains)
          /\ n > 1 => certRes = 1 /\ preferred
          /\ \A k \in 1..(n - 1) : chains[k] # "preferred"
    /\ certRes # 0 => order = "valid"
    /\ result.cert # 0 /\ result.err = "nil" =>
          /\ order = "valid" /\ csr # {}
          /\ responses # {} => FirstWanted(result.cert)
    /\ result.err = "nil" /\ responses # {} => result.cert # 0

(* The inductive invariant. *)
IInv ==
    TypeOK /\ OrderOK /\ NamesOK /\ CollectOK /\ SolvedOK /\ TidiedOK /\ ChainsOK

----------------------------------------------------------------------------
(* Lists and the sets of their elements. *)

LEMMA IntervalFinite ==
    ASSUME NEW m \in Nat
    PROVE  IsFiniteSet(1..m) /\ Cardinality(1..m) = m
<1>1. IsFiniteSet(1..m) /\ Cardinality(1..m) = IF 1 > m THEN 0 ELSE m - 1 + 1
  BY FS_Interval
<1> QED BY <1>1

LEMMA RangeOfList ==
    ASSUME NEW S, NEW s \in Seq(S)
    PROVE  /\ Range(s) = {s[k] : k \in 1..Len(s)}
           /\ Range(s) \subseteq S
           /\ IsFiniteSet(Range(s)) /\ Cardinality(Range(s)) \in Nat
           /\ Cardinality(Range(s)) <= Len(s)
<1>1. Range(s) = {s[k] : k \in 1..Len(s)} /\ Range(s) \subseteq S
  BY DEF Range
<1>2. s \in Surjection(1..Len(s), Range(s))
  BY <1>1 DEF Surjection
<1>3. IsFiniteSet(1..Len(s)) /\ Cardinality(1..Len(s)) = Len(s)
  <2>1. Len(s) \in Nat
    OBVIOUS
  <2> QED BY <2>1, IntervalFinite
<1>4. IsFiniteSet(Range(s)) /\ Cardinality(Range(s)) <= Len(s)
  BY <1>2, <1>3, FS_Surjection
<1> QED BY <1>1, <1>4, FS_CardinalityType

LEMMA RangeOfDistinct ==
    ASSUME NEW S, NEW s \in Seq(S),
           \A j, k \in 1..Len(s) : s[j] = s[k] => j = k
    PROVE  Cardinality(Range(s)) = Len(s)
<1>1. Range(s) = {s[k] : k \in 1..Len(s)}
  BY RangeOfList
<1>2. s \in Surjection(1..Len(s), Range(s)) /\ s \in Injection(1..Len(s), Range(s))
  <2>1. s \in [1..Len(s) -> Range(s)]
    BY <1>1
  <2>2. \A j, k \in 1..Len(s) : s[j] = s[k] => j = k
    OBVIOUS
  <2>3. s \in Injection(1..Len(s), Range(s))
    BY <2>1, <2>2 DEF Injection, IsInjective
  <2> QED BY <1>1, <2>1, <2>3 DEF Surjection
<1>3. IsFiniteSet(1..Len(s)) /\ Cardinality(1..Len(s)) = Len(s)
  <2>1. Len(s) \in Nat
    OBVIOUS
  <2> QED BY <2>1, IntervalFinite
<1> QED BY <1>2, <1>3, FS_Surjection

(* What sanitizeDomain appends becomes an element. *)
LEMMA RangeOfAppend ==
    ASSUME NEW S, NEW s \in Seq(S), NEW x \in S
    PROVE  Range(Append(s, x)) = Range(s) \cup {x}
<1>1. Append(s, x) \in Seq(S) /\ Len(Append(s, x)) = Len(s) + 1 /\ Len(s) \in Nat
  OBVIOUS
<1>2. \A k \in 1..Len(s) : Append(s, x)[k] = s[k]
  OBVIOUS
<1>3. Append(s, x)[Len(s) + 1] = x
  OBVIOUS
<1>4. \A k \in 1..(Len(s) + 1) : k \in 1..Len(s) \/ k = Len(s) + 1
  BY <1>1
<1>5. Len(s) + 1 \in 1..(Len(s) + 1) /\ \A k \in 1..Len(s) : k \in 1..(Len(s) + 1)
  BY <1>1
<1>6. /\ Range(s) = {s[k] : k \in 1..Len(s)}
      /\ Range(Append(s, x)) = {Append(s, x)[k] : k \in 1..(Len(s) + 1)}
  BY <1>1, RangeOfList
<1> QED BY <1>2, <1>3, <1>4, <1>5, <1>6

LEMMA AuthzFinite == IsFiniteSet(Authz)
BY DistinctURLs, RangeOfList DEF Authz

LEMMA CountIs ==
    ASSUME NEW k \in Nat
    PROVE  /\ AuthorizationCount(k) \in {0, k, k + 1}
           /\ Policy = "none" => AuthorizationCount(k) = 0
           /\ Policy = "one each" => AuthorizationCount(k) = k
           /\ Policy = "extra" => AuthorizationCount(k) = k + 1
<1>1. CASE Policy = "none"
  BY <1>1 DEF AuthorizationCount
<1>2. CASE Policy = "one each"
  BY <1>2 DEF AuthorizationCount
<1>3. CASE Policy = "extra"
  BY <1>3 DEF AuthorizationCount
<1> QED BY <1>1, <1>2, <1>3, EnoughURLs

(* The authorizations the CA puts into an order. *)
LEMMA AuthorizationsOf ==
    ASSUME NEW k \in Nat, AuthorizationCount(k) <= Len(URLs)
    PROVE  /\ Authorizations(k) \in Seq(Authz)
           /\ Len(Authorizations(k)) = AuthorizationCount(k)
           /\ \A i, j \in 1..AuthorizationCount(k) :
                 Authorizations(k)[i] = Authorizations(k)[j] => i = j
<1>1. AuthorizationCount(k) \in Nat
  <2>1. AuthorizationCount(k) \in {0, k, k + 1}
    BY CountIs
  <2> QED BY <2>1
<1>2. Authorizations(k) = [j \in 1..AuthorizationCount(k) |-> URLs[j]]
  BY <1>1, DistinctURLs DEF Authorizations
<1> QED BY <1>1, <1>2, DistinctURLs

(* Enough URLs for the names of a request, however many were left out.     *)
LEMMA CountBounded ==
    ASSUME NEW k \in Nat, NEW ds \in Requests, k <= Len(ds)
    PROVE  AuthorizationCount(k) <= Len(URLs)
<1>1. Len(ds) \in Nat /\ Len(URLs) \in Nat
  BY RequestsAreLists, DistinctURLs
<1>2. AuthorizationCount(Len(ds)) <= Len(URLs) /\ Policy \in {"one each", "none", "extra"}
  BY EnoughURLs
<1>3. CASE Policy = "none"
  BY <1>1, <1>3, CountIs
<1>4. CASE Policy = "one each"
  <2>1. AuthorizationCount(k) = k /\ AuthorizationCount(Len(ds)) = Len(ds)
    BY <1>1, <1>4, CountIs
  <2>2. Len(ds) <= Len(URLs)
    BY <1>2, <2>1
  <2> QED BY <1>1, <2>1, <2>2
<1>5. CASE Policy = "extra"
  <2>1. AuthorizationCount(k) = k + 1 /\ AuthorizationCount(Len(ds)) = Len(ds) + 1
    BY <1>1, <1>5, CountIs
  <2>2. Len(ds) + 1 <= Len(URLs)
    BY <1>2, <2>1
  <2> QED BY <1>1, <2>1, <2>2
<1> QED BY <1>2, <1>3, <1>4, <1>5

----------------------------------------------------------------------------
(* The steps by which a call is entered. *)
Refused ==
    /\ pc = "start" /\ Return(0, "err")
    /\ UNCHANGED <<request, n, orderVars, collecting, solve, issuing, server, chains,
                   history>>

LEMMA EntryStep ==
    ASSUME Obtain \/ ObtainForCSR \/ Renew
    PROVE  \/ \E ds \in Requests, given \in BOOLEAN, chain \in BOOLEAN : Enter(ds, given, chain)
           \/ Refused
<1>1. CASE Obtain
  BY <1>1, Zenon DEF Obtain
<1>2. CASE ObtainForCSR
  BY <1>2, Zenon DEF ObtainForCSR
<1>3. CASE Renew
  BY <1>3, Zenon DEF Renew, Refused
<1> QED BY <1>1, <1>2, <1>3

LEMMA Indices ==
    ASSUME IInv
    PROVE  /\ Len(asked) \in Nat /\ Len(authorizations) \in Nat /\ Len(domains) \in Nat
           /\ Len(chains) \in Nat \ {0} /\ chains \in Seq({"plain", "bare", "preferred"})
           /\ n \in Nat \ {0} /\ n <= Len(asked) + Len(authorizations) + Len(chains) + 1
<1>1. Len(asked) \in Nat
  BY RequestsAreLists DEF IInv, TypeOK
<1>2. Len(authorizations) \in Nat /\ Len(domains) \in Nat
  BY DEF IInv, TypeOK
<1>3. Len(chains) \in Nat \ {0} /\ chains \in Seq({"plain", "bare", "preferred"})
  BY ChainsAreOffered DEF IInv, OrderOK
<1>4. n \in 1..Len(asked) + Len(authorizations) + Len(chains) + 1
  BY DEF IInv, TypeOK
<1> QED BY <1>1, <1>2, <1>3, <1>4

(* What is sent in the CSR is what was ordered. *)
LEMMA NamesOrdered ==
    ASSUME IInv, pc = "finalize"
    PROVE  Names = identifiers /\ identifiers # {}
<1>1. domains # << >> /\ identifiers = Range(domains) /\ domains \in Seq(Domain)
  BY DEF IInv, TypeOK, OrderOK
<1>2. domains[1] \in Range(domains)
  BY <1>1, RangeOfList
<1> QED BY <1>1, <1>2 DEF Names, san

(* The authorizations of an order are distinct. *)
LEMMA OrderedFacts ==
    ASSUME IInv, order # "none"
    PROVE  /\ authorizations \in Seq(Authz) /\ Len(authorizations) \in Nat
           /\ Ordered = {authorizations[k] : k \in 1..Len(authorizations)}
           /\ \A j, k \in 1..Len(authorizations) : authorizations[j] = authorizations[k] => j = k
           /\ Ordered \subseteq Authz /\ IsFiniteSet(Ordered)
           /\ Cardinality(Ordered) = Len(authorizations)
           /\ identifiers # {} /\ Cardinality(identifiers) \in Nat \ {0}
           /\ Len(authorizations) = AuthorizationCount(Cardinality(identifiers))
<1>1. /\ domains # << >> /\ domains \in Seq(Domain) /\ identifiers = Range(domains)
      /\ authorizations = Authorizations(Cardinality(identifiers))
      /\ Len(domains) <= Len(asked) /\ asked \in Requests \cup {<< >>}
  BY DEF IInv, TypeOK, OrderOK, NamesOK
<1>2. /\ IsFiniteSet(identifiers) /\ Cardinality(identifiers) \in Nat
      /\ Cardinality(identifiers) <= Len(domains)
  BY <1>1, RangeOfList
<1>3. identifiers # {}
  <2>1. domains[1] \in Range(domains)
    BY <1>1, RangeOfList
  <2> QED BY <1>1, <2>1
<1>4. Cardinality(identifiers) # 0
  BY <1>2, <1>3, FS_EmptySet
<1>5. asked \in Requests /\ Cardinality(identifiers) <= Len(asked)
  <2>1. Len(domains) \in Nat /\ Len(domains) # 0
    BY <1>1
  <2>2. asked # << >>
    BY <1>1, <2>1
  <2>3. asked \in Requests /\ Len(asked) \in Nat
    BY <1>1, <2>2, RequestsAreLists
  <2> QED BY <1>1, <1>2, <2>1, <2>3
<1>6. AuthorizationCount(Cardinality(identifiers)) <= Len(URLs)
  BY <1>2, <1>5, CountBounded
<1>7. /\ authorizations \in Seq(Authz)
      /\ Len(authorizations) = AuthorizationCount(Cardinality(identifiers))
      /\ \A j, k \in 1..Len(authorizations) : authorizations[j] = authorizations[k] => j = k
  BY <1>1, <1>2, <1>6, AuthorizationsOf
<1>8. /\ Ordered = {authorizations[k] : k \in 1..Len(authorizations)}
      /\ Ordered \subseteq Authz /\ IsFiniteSet(Ordered)
  BY <1>7, RangeOfList DEF Ordered
<1>9. Cardinality(Ordered) = Len(authorizations)
  BY <1>7, RangeOfDistinct DEF Ordered
<1>10. Len(authorizations) \in Nat
  BY <1>7
<1> QED BY <1>2, <1>3, <1>4, <1>7, <1>8, <1>9, <1>10

(* When getAuthorizations has gone round once for each authorization, it   *)
(* has received the value of every goroutine.                              *)
LEMMA AllReceived ==
    ASSUME IInv, pc = "collect", AllCollected
    PROVE  Received = Ordered
<1>1. /\ IsFiniteSet(Ordered) /\ Cardinality(Ordered) = Len(authorizations)
      /\ Len(authorizations) \in Nat
  BY OrderedFacts DEF IInv, OrderOK
<1>2. n <= Len(authorizations) + 1 /\ Cardinality(Received) = n - 1 /\ n \in Nat
  BY Indices DEF IInv, CollectOK
<1>3. Cardinality(Received) = Cardinality(Ordered)
  BY <1>1, <1>2 DEF AllCollected
<1>4. Received \subseteq Ordered
  BY DEF IInv, CollectOK, Received
<1> QED BY <1>1, <1>3, <1>4, FS_Subset

----------------------------------------------------------------------------
LEMMA InitInv == Init => IInv
<1> SUFFICES ASSUME Init PROVE IInv
  OBVIOUS
<1> USE DEF Init
<1>c. /\ chains \in Chains /\ Len(chains) \in Nat /\ Len(<< >>) = 0
      /\ Range(<< >>) = {} /\ << >> \in Seq(Domain) /\ << >> \in Seq(Authz)
  BY ChainsAreOffered DEF Range
<1>1. TypeOK
  <2>1. n \in 1..Len(asked) + Len(authorizations) + Len(chains) + 1
    BY <1>c
  <2>2. certRes \in 0..Len(chains) /\ result \in [cert : 0..Len(chains), err : {"running", "nil", "err"}]
    BY <1>c
  <2>3. /\ status \in [Authz -> {"pending", "processing", "valid", "invalid", "deactivated"}]
        /\ go \in [Authz -> {"none", "get", "resc", "errc", "done"}]
    OBVIOUS
  <2> QED BY <1>c, <2>1, <2>2, <2>3 DEF TypeOK
<1>2. OrderOK
  BY <1>c DEF OrderOK
<1>3. NamesOK
  BY <1>c DEF NamesOK
<1>4. CollectOK
  BY <1>c DEF CollectOK
<1>5. SolvedOK
  BY <1>c DEF SolvedOK, Ordered
<1>6. TidiedOK
  BY <1>c DEF TidiedOK
<1>7. ChainsOK
  BY <1>c DEF ChainsOK
<1> QED BY <1>1, <1>2, <1>3, <1>4, <1>5, <1>6, <1>7 DEF IInv

(* The CA decides one of the authorizations that Solve was given. *)
LEMMA ValidateStep ==
    ASSUME TypeOK, Validate
    PROVE  /\ solve' = solve
           /\ \E u \in responses, s \in {"processing", "valid", "invalid"} :
                /\ status[u] \in Open /\ status' = [status EXCEPT ![u] = s]
                /\ status[u] = "pending" => pc = "solve"
<1>1. solve' = solve
  BY DEF Validate, Resolver!Validate
<1>2. PICK u \in Authz, s \in {"processing", "valid", "invalid"} :
        status[u] \in Open /\ s # status[u] /\ status' = [status EXCEPT ![u] = s]
  BY Zenon DEF Validate, Resolver!Validate, Open
<1>3. status'[u] = s
  BY <1>2 DEF TypeOK
<1>4. u \in responses
  BY <1>2, <1>3 DEF Validate
<1>5. status[u] = "pending" => pc = "solve"
  BY <1>2, <1>3 DEF Validate
<1> QED BY <1>1, <1>2, <1>4, <1>5, Zenon

LEMMA TypeNext ==
    ASSUME IInv, [Next]_vars
    PROVE  TypeOK'
<1> USE DEF request, orderVars, collecting, issuing, server, history
<1>t. TypeOK
  BY DEF IInv
<1>n. /\ Len(asked) \in Nat /\ Len(authorizations) \in Nat /\ Len(chains) \in Nat \ {0}
      /\ n \in Nat \ {0} /\ n <= Len(asked) + Len(authorizations) + Len(chains) + 1
  BY Indices
<1>1. ASSUME NEW ds \in Requests, NEW given \in BOOLEAN, NEW chain \in BOOLEAN,
             Enter(ds, given, chain)
      PROVE  TypeOK'
  <2>1. Len(ds) \in Nat /\ ds \in Seq(Domain)
    BY RequestsAreLists
  <2>2. n = 1 /\ n' = n /\ UNCHANGED <<authorizations, chains>>
    BY <1>1 DEF Enter, IInv, NamesOK
  <2>3. n' \in 1..Len(asked') + Len(authorizations') + Len(chains') + 1
    BY <1>1, <1>n, <2>1, <2>2 DEF Enter
  <2>4. domains' \in Seq(Domain) /\ asked' \in Requests
    BY <1>1, <1>t, <2>1 DEF Enter, TypeOK
  <2>5. /\ result' \in [cert : 0..Len(chains'), err : {"running", "nil", "err"}]
        /\ pc' \in {"sanitize", "order", "done"}
    BY <1>1, <1>n, <1>t, <2>2 DEF Enter, Return, TypeOK
  <2> QED BY <1>1, <1>t, <2>2, <2>3, <2>4, <2>5 DEF Enter, TypeOK
<1>r. ASSUME NEW cert \in 0..Len(chains), NEW err \in {"nil", "err"}, Return(cert, err), chains' = chains
      PROVE  /\ result' \in [cert : 0..Len(chains'), err : {"running", "nil", "err"}]
             /\ pc' = "done"
  BY <1>r DEF Return
<1>f. ASSUME NEW cert \in 0..Len(chains), fail(cert), chains' = chains
      PROVE  /\ result' \in [cert : 0..Len(chains'), err : {"running", "nil", "err"}]
             /\ pc' = "done" /\ failures' \subseteq Authz \cup {noDomain}
  BY <1>r, <1>f, <1>t DEF fail, TypeOK
<1>z. 0 \in 0..Len(chains)
  BY <1>n
<1>2. CASE Refused
  BY <1>2, <1>t, <1>r, <1>z DEF Refused, TypeOK
<1>3. CASE Sanitize
  <2>1. /\ n' \in Nat \ {0} /\ n' <= Len(asked) + Len(authorizations) + Len(chains) + 1
        /\ UNCHANGED <<asked, authorizations, chains>>
    BY <1>3, <1>n DEF Sanitize
  <2>2. n' \in 1..Len(asked') + Len(authorizations') + Len(chains') + 1
    BY <1>n, <2>1
  <2>3. domains' \in Seq(Domain)
    <3>1. CASE n <= Len(asked)
      <4>1. asked \in Requests /\ n \in 1..Len(asked)
        BY <1>n, <1>t, <3>1 DEF TypeOK
      <4>2. asked[n] \in Domain
        BY <4>1, RequestsAreLists
      <4>3. Append(domains, asked[n]) \in Seq(Domain)
        BY <1>t, <4>2 DEF TypeOK
      <4> QED BY <1>3, <1>t, <4>3 DEF Sanitize, TypeOK
    <3> QED BY <1>3, <1>t, <3>1 DEF Sanitize, TypeOK
  <2>4. pc' \in {"sanitize", "order"}
    BY <1>3 DEF Sanitize
  <2> QED BY <1>3, <1>t, <2>1, <2>2, <2>3, <2>4 DEF Sanitize, TypeOK
<1>4. CASE NewOrder
  <2>1. CASE domains # << >> /\ pc' = "spawn" /\ n' = 1 /\ order' = "pending"
             /\ identifiers' = Range(domains)
             /\ authorizations' = Authorizations(Cardinality(identifiers')) /\ result' = result
    <3>1. /\ IsFiniteSet(identifiers') /\ Cardinality(identifiers') \in Nat
          /\ Cardinality(identifiers') <= Len(domains) /\ identifiers' \subseteq Domain
      BY <1>t, <2>1, RangeOfList DEF TypeOK
    <3>2. asked \in Requests /\ Len(domains) <= Len(asked) /\ Len(domains) \in Nat
      BY <1>4, <1>t DEF NewOrder, IInv, NamesOK, TypeOK
    <3>3. AuthorizationCount(Cardinality(identifiers')) <= Len(URLs)
      BY <1>n, <3>1, <3>2, CountBounded
    <3>4. authorizations' \in Seq(Authz)
      BY <2>1, <3>1, <3>3, AuthorizationsOf
    <3>5. n' \in 1..Len(asked') + Len(authorizations') + Len(chains') + 1
      <4>1. Len(authorizations') \in Nat /\ UNCHANGED <<asked, chains>>
        BY <1>4, <3>4 DEF NewOrder
      <4> QED BY <1>n, <2>1, <4>1
    <3>6. csr = {} /\ csr' = csr
      BY <1>4 DEF NewOrder, IInv, SolvedOK
    <3> QED BY <1>4, <1>t, <2>1, <3>1, <3>4, <3>5, <3>6 DEF NewOrder, TypeOK
  <2>2. CASE Return(0, "err") /\ UNCHANGED <<n, orderVars, order>>
    BY <1>4, <1>t, <1>r, <1>z, <2>2 DEF NewOrder, TypeOK
  <2> QED BY <1>4, <2>1, <2>2 DEF NewOrder
<1>5. CASE Spawn
  <2>1. UNCHANGED <<asked, authorizations, chains>> /\ pc' \in {"spawn", "collect"}
    BY <1>5 DEF Spawn
  <2>2. n' \in 1..Len(asked) + Len(authorizations) + Len(chains) + 1
    BY <1>5, <1>n DEF Spawn
  <2>3. go' \in [Authz -> {"none", "get", "resc", "errc", "done"}]
    BY <1>5, <1>t DEF Spawn, TypeOK
  <2> QED BY <1>5, <1>t, <2>1, <2>2, <2>3 DEF Spawn, TypeOK
<1>6. CASE GetAuthorization
  BY <1>6, <1>t DEF GetAuthorization, TypeOK
<1>7. CASE Collect
  <2>1. UNCHANGED <<asked, authorizations, chains>>
    BY <1>7 DEF Collect
  <2>2. n' \in 1..Len(asked) + Len(authorizations) + Len(chains) + 1
    BY <1>7, <1>n DEF Collect
  <2>3. PICK u \in Authz :
          /\ \/ responses' = responses \cup {u} /\ UNCHANGED failures
             \/ failures' = failures \cup {failureKey(u)} /\ UNCHANGED responses
          /\ go' = [go EXCEPT ![u] = "done"]
    BY <1>7, Zenon DEF Collect
  <2>4. /\ go' \in [Authz -> {"none", "get", "resc", "errc", "done"}]
        /\ responses' \subseteq Authz /\ failures' \subseteq Authz \cup {noDomain}
    BY <1>t, <2>3 DEF TypeOK, failureKey
  <2> QED BY <1>7, <1>t, <2>1, <2>2, <2>4 DEF Collect, TypeOK
<1>d. ASSUME Deactivating
      PROVE  /\ pc' = "deactivate" /\ held' \subseteq Authz /\ skipped' = skipped
             /\ n' \in 1..Len(asked) + Len(authorizations) + Len(chains) + 1
  <2>1. 1 \in 1..Len(asked) + Len(authorizations) + Len(chains) + 1
    BY <1>n
  <2> QED BY <1>d, <2>1 DEF Deactivating
<1>8. CASE CollectEnds
  BY <1>8, <1>t, <1>d DEF CollectEnds, TypeOK
<1>9. CASE Solve
  <2>1. solve' \in {"ok", "err"} /\ status' = status
    BY <1>9 DEF Solve, Resolver!ReturnFor
  <2> QED BY <1>9, <1>t, <1>d, <2>1 DEF Solve, TypeOK
<1>10. CASE Validate
  <2>1. /\ status' \in [Authz -> {"pending", "processing", "valid", "invalid", "deactivated"}]
        /\ solve' = solve
    <3>1. PICK u \in responses, s \in {"processing", "valid", "invalid"} :
            status' = [status EXCEPT ![u] = s]
      BY <1>10, <1>t, ValidateStep, Zenon
    <3>2. solve' = solve
      BY <1>10, <1>t, ValidateStep
    <3> QED BY <1>t, <3>1, <3>2 DEF TypeOK
  <2> QED BY <1>10, <1>t, <2>1 DEF Validate, TypeOK
<1>v. ASSUME n <= Len(authorizations)
      PROVE  /\ authorizations[n] \in Authz
             /\ n + 1 \in 1..Len(asked) + Len(authorizations) + Len(chains) + 1
  BY <1>v, <1>n, <1>t DEF TypeOK
<1>11. CASE GetBeforeDeactivate
  <2>1. /\ skipped' \subseteq Authz /\ pc' \in {"deactivate", "deactivating"}
        /\ n' \in {n, n + 1}
    BY <1>11, <1>t, <1>v DEF GetBeforeDeactivate, TypeOK
  <2>2. n' \in 1..Len(asked) + Len(authorizations) + Len(chains) + 1
    BY <1>11, <1>t, <1>v, <2>1 DEF GetBeforeDeactivate, TypeOK
  <2> QED BY <1>11, <1>t, <2>1, <2>2 DEF GetBeforeDeactivate, TypeOK
<1>12. CASE Deactivate
  <2>1. n <= Len(authorizations)
    BY <1>12 DEF Deactivate, IInv, TidiedOK
  <2>2. /\ status' \in [Authz -> {"pending", "processing", "valid", "invalid", "deactivated"}]
        /\ skipped' \subseteq Authz
    BY <1>12, <1>t, <1>v, <2>1 DEF Deactivate, TypeOK
  <2> QED BY <1>12, <1>t, <1>v, <2>1, <2>2 DEF Deactivate, TypeOK
<1>13. CASE Deactivated
  BY <1>13, <1>t, <1>r, <1>z DEF Deactivated, TypeOK
<1>14. CASE Finalize
  <2>1. csr' \subseteq identifiers
    BY <1>14, <1>t, NamesOrdered DEF Finalize, TypeOK
  <2>2. /\ UNCHANGED <<asked, authorizations, chains, identifiers>>
        /\ n' \in 1..Len(asked) + Len(authorizations) + Len(chains) + 1
    <3>1. 1 \in 1..Len(asked) + Len(authorizations) + Len(chains) + 1
      BY <1>n
    <3> QED BY <1>14, <1>t, <3>1 DEF Finalize, TypeOK
  <2>3. /\ shortcut' \in BOOLEAN
        /\ order' \in {"none", "pending", "processing", "valid", "invalid"}
    BY <1>14, <1>t DEF Finalize, TypeOK
  <2>4. /\ result' \in [cert : 0..Len(chains'), err : {"running", "nil", "err"}]
        /\ failures' \subseteq Authz \cup {noDomain}
        /\ pc' \in {"links", "poll", "done"}
    <3>1. CASE fail(0)
      BY <1>f, <1>z, <2>2, <3>1
    <3> QED BY <1>14, <1>t, <2>2, <3>1 DEF Finalize, TypeOK
  <2> QED BY <1>14, <1>t, <2>1, <2>2, <2>3, <2>4 DEF Finalize, TypeOK
<1>15. CASE Issue
  BY <1>15, <1>t DEF Issue, TypeOK
<1>16. CASE Poll
  <2>1. 1 \in 1..Len(asked) + Len(authorizations) + Len(chains) + 1
    BY <1>n
  <2> QED BY <1>16, <1>t, <2>1 DEF Poll, TypeOK
<1>17. CASE PollTimeout
  <2>1. certRes \in 0..Len(chains) /\ chains' = chains
    BY <1>17, <1>t DEF PollTimeout, TypeOK
  <2> QED BY <1>17, <1>t, <1>f, <2>1 DEF PollTimeout, TypeOK
<1>18. CASE Link
  <2>1. n \in 1..Len(chains) /\ chains' = chains
    BY <1>18, <1>n DEF Link, IInv, ChainsOK
  <2>2. DefaultOf(certRes) \in 0..Len(chains) /\ certRes \in 0..Len(chains)
    BY <1>t, <1>n DEF TypeOK, DefaultOf
  <2> DEFINE Good == /\ result' \in [cert : 0..Len(chains'), err : {"running", "nil", "err"}]
                     /\ failures' \subseteq Authz \cup {noDomain}
                     /\ certRes' \in 0..Len(chains)
                     /\ pc' \in {"links", "poll", "done"}
                     /\ n' \in {n, n + 1}
  <2>3. ASSUME NEW k \in 0..Len(chains), LinkFails(k)
        PROVE  Good
    <3>1. CASE shortcut
      BY <1>f, <1>z, <2>1, <2>3, <3>1 DEF LinkFails
    <3>2. CASE ~shortcut
      BY <1>t, <2>1, <2>3, <3>2 DEF LinkFails, TypeOK
    <3> QED BY <3>1, <3>2
  <2>4. ASSUME NEW k \in 0..Len(chains), Loaded(k)
        PROVE  Good
    BY <1>r, <1>t, <2>1, <2>4 DEF Loaded, TypeOK
  <2>5. ASSUME n' = n + 1 /\ certRes' = DefaultOf(certRes) /\ UNCHANGED <<pc, failures, result>>
        PROVE  Good
    BY <1>t, <1>18, <2>1, <2>2, <2>5 DEF TypeOK, Link
  <2>6. n \in 0..Len(chains)
    BY <2>1
  <2>7. Good
    <3>1. \/ LinkFails(certRes) \/ LinkFails(DefaultOf(certRes))
          \/ Loaded(DefaultOf(certRes)) \/ Loaded(n)
          \/ n' = n + 1 /\ certRes' = DefaultOf(certRes) /\ UNCHANGED <<pc, failures, result>>
      BY <1>18, Zenon DEF Link
    <3> HIDE DEF Good
    <3> QED BY <2>2, <2>3, <2>4, <2>5, <2>6, <3>1
  <2>8. n' \in 1..Len(asked) + Len(authorizations) + Len(chains) + 1
    BY <1>n, <2>1, <2>7
  <2> QED BY <1>18, <1>t, <2>1, <2>7, <2>8 DEF Link, TypeOK
<1>19. CASE UNCHANGED vars
  BY <1>19, <1>t DEF vars, TypeOK
<1> QED BY <1>1, <1>2, <1>3, <1>4, <1>5, <1>6, <1>7, <1>8, <1>9, <1>10, <1>11, <1>12, <1>13,
           <1>14, <1>15, <1>16, <1>17, <1>18, <1>19, EntryStep
        DEF Next, Client, Finished

(* The order and its authorizations change only when it is made; its       *)
(* status moves on only with a CSR.                                        *)
LEMMA OrderNext ==
    ASSUME IInv, [Next]_vars
    PROVE  OrderOK'
<1> USE DEF request, orderVars, collecting, issuing, server, history
<1>o. OrderOK
  BY DEF IInv
<1>1. ASSUME NEW ds \in Requests, NEW given \in BOOLEAN, NEW chain \in BOOLEAN,
             Enter(ds, given, chain)
      PROVE  OrderOK'
  BY <1>1, <1>o DEF Enter, Return, OrderOK
<1>2. CASE Refused
  BY <1>2, <1>o DEF Refused, Return, OrderOK
<1>3. CASE Sanitize
  BY <1>3, <1>o DEF Sanitize, OrderOK
<1>4. CASE NewOrder
  BY <1>4, <1>o DEF NewOrder, Return, OrderOK
<1>5. CASE Spawn
  BY <1>5, <1>o DEF Spawn, OrderOK
<1>6. CASE GetAuthorization
  BY <1>6, <1>o DEF GetAuthorization, OrderOK
<1>7. CASE Collect
  BY <1>7, <1>o DEF Collect, OrderOK
<1>8. CASE CollectEnds
  BY <1>8, <1>o DEF CollectEnds, Deactivating, OrderOK
<1>9. CASE Solve
  BY <1>9, <1>o DEF Solve, Deactivating, OrderOK
<1>10. CASE Validate
  BY <1>10, <1>o DEF Validate, OrderOK
<1>11. CASE GetBeforeDeactivate
  BY <1>11, <1>o DEF GetBeforeDeactivate, OrderOK
<1>12. CASE Deactivate
  BY <1>12, <1>o DEF Deactivate, OrderOK
<1>13. CASE Deactivated
  BY <1>13, <1>o DEF Deactivated, Return, OrderOK
<1>14. CASE Finalize
  <2>1. /\ order = "pending" /\ UNCHANGED <<chains, domains, identifiers, authorizations>>
        /\ pc' \in {"links", "poll", "done"}
        /\ order' \in {"pending", "processing", "valid", "invalid"}
        /\ pc' = "links" => order' = "valid"
        /\ csr' = Names \/ (csr' = csr /\ order' = order)
    BY <1>14, <1>o DEF Finalize, fail, Return, OrderOK
  <2>2. Names # {}
    BY <1>14, NamesOrdered DEF Finalize
  <2> QED BY <1>o, <2>1, <2>2 DEF OrderOK
<1>15. CASE Issue
  BY <1>15, <1>o DEF Issue, OrderOK
<1>16. CASE Poll
  BY <1>16, <1>o DEF Poll, checkOrderStatus, OrderOK
<1>17. CASE PollTimeout
  BY <1>17, <1>o DEF PollTimeout, fail, Return, OrderOK
<1>18. CASE Link
  <2>1. pc' \in {"links", "poll", "done"} /\ pc = "links"
    BY <1>18 DEF Link, LinkFails, Loaded, fail, Return
  <2> QED BY <1>18, <1>o, <2>1 DEF Link, OrderOK
<1>19. CASE UNCHANGED vars
  BY <1>19, <1>o DEF vars, OrderOK
<1> QED BY <1>1, <1>2, <1>3, <1>4, <1>5, <1>6, <1>7, <1>8, <1>9, <1>10, <1>11, <1>12, <1>13,
           <1>14, <1>15, <1>16, <1>17, <1>18, <1>19, EntryStep
        DEF Next, Client, Finished

(* sanitizeDomain keeps the names that can be encoded, and nothing changes *)
(* them afterwards.                                                        *)
LEMMA NamesNext ==
    ASSUME IInv, [Next]_vars
    PROVE  NamesOK'
<1> USE DEF request, orderVars, collecting, issuing, server, history
<1>o. OrderOK /\ NamesOK
  BY DEF IInv
<1>n. /\ Len(asked) \in Nat /\ Len(domains) \in Nat /\ n \in Nat \ {0}
      /\ domains \in Seq(Domain)
  BY Indices DEF IInv, TypeOK
<1>u. ASSUME UNCHANGED <<asked, domains, csrGiven, pc, n, order>>
      PROVE  NamesOK'
  BY <1>u, <1>o DEF NamesOK
<1>k. ASSUME UNCHANGED <<asked, domains, csrGiven>>, pc' \notin {"start", "sanitize", "order"},
             pc \notin {"start", "sanitize", "done"} \/ order # "none"
      PROVE  NamesOK'
  BY <1>k, <1>o DEF NamesOK
<1>1. ASSUME NEW ds \in Requests, NEW given \in BOOLEAN, NEW chain \in BOOLEAN,
             Enter(ds, given, chain)
      PROVE  NamesOK'
  <2>1. /\ domains = << >> /\ n = 1 /\ n' = n /\ order = "none" /\ order' = order
        /\ asked' = ds /\ csrGiven' = given /\ pc' \in {"sanitize", "order", "done"}
        /\ pc' # "done" => ds # << >>
        /\ pc' = "sanitize" => ~given /\ domains' = domains
        /\ pc' = "order" => given /\ domains' = ds
    BY <1>1, <1>o DEF Enter, Return, OrderOK, NamesOK
  <2>2. Len(ds) \in Nat /\ Len(<< >>) = 0
    BY RequestsAreLists
  <2>3. CASE pc' = "sanitize"
    <3>1. /\ Range(domains') = {} /\ Len(domains') = 0
          /\ {asked'[k] : k \in 1..(n' - 1)} = {}
      BY <2>1, <2>2, <2>3 DEF Range
    <3> QED BY <2>1, <2>2, <2>3, <3>1 DEF NamesOK
  <2> QED BY <2>1, <2>2, <2>3 DEF NamesOK
<1>2. CASE Refused
  BY <1>2, <1>o DEF Refused, Return, OrderOK, NamesOK
<1>3. CASE Sanitize
  <2>1. /\ pc = "sanitize" /\ UNCHANGED <<asked, csrGiven, order>> /\ order = "none"
        /\ n <= Len(asked) + 1 /\ Len(domains) < n /\ ~csrGiven /\ asked # << >>
        /\ Range(domains) = {asked[k] : k \in 1..(n - 1)} \cap Encodable
    BY <1>3, <1>o DEF Sanitize, OrderOK, NamesOK
  <2>2. CASE n <= Len(asked)
    <3>1. asked[n] \in Domain /\ n' = n + 1 /\ pc' = pc
      <4>1. asked \in Requests
        BY <1>n, <2>1 DEF IInv, TypeOK
      <4>2. n \in 1..Len(asked)
        BY <1>n, <2>2
      <4> QED BY <1>3, <1>n, <2>2, <4>1, <4>2, RequestsAreLists DEF Sanitize
    <3>2. {asked[k] : k \in 1..(n' - 1)} = {asked[k] : k \in 1..(n - 1)} \cup {asked[n]}
      <4>1. \A k : k \in 1..(n' - 1) <=> k \in 1..(n - 1) \/ k = n
        BY <1>n, <3>1
      <4> QED BY <4>1
    <3>3. /\ Range(domains') = {asked[k] : k \in 1..(n' - 1)} \cap Encodable
          /\ Len(domains') < n'
      <4>1. CASE asked[n] \in Encodable
        <5>1. domains' = Append(domains, asked[n])
          BY <1>3, <1>n, <2>2, <4>1 DEF Sanitize
        <5>2. /\ Range(domains') = Range(domains) \cup {asked[n]}
              /\ Len(domains') = Len(domains) + 1
          BY <1>n, <3>1, <5>1, RangeOfAppend
        <5> QED BY <1>n, <2>1, <3>1, <3>2, <4>1, <5>2
      <4>2. CASE asked[n] \notin Encodable
        <5>1. domains' = domains
          BY <1>3, <1>n, <2>2, <4>2 DEF Sanitize
        <5> QED BY <1>n, <2>1, <3>1, <3>2, <4>2, <5>1
      <4> QED BY <4>1, <4>2
    <3> QED BY <1>n, <2>1, <2>2, <3>1, <3>3 DEF NamesOK
  <2>3. CASE ~(n <= Len(asked))
    <3>1. /\ n = Len(asked) + 1 /\ n - 1 = Len(asked) /\ Len(domains) <= Len(asked)
      BY <1>n, <2>1, <2>3
    <3>2. pc' = "order" /\ domains' = domains
      BY <1>3, <2>3 DEF Sanitize
    <3>3. Range(asked) = {asked[k] : k \in 1..Len(asked)}
      <4>1. asked \in Seq(Domain)
        BY <2>1, RequestsAreLists DEF IInv, TypeOK
      <4> QED BY <4>1, RangeOfList
    <3> QED BY <2>1, <3>1, <3>2, <3>3 DEF NamesOK
  <2> QED BY <2>2, <2>3
<1>4. CASE NewOrder
  BY <1>4, <1>k DEF NewOrder, Return
<1>5. CASE Spawn
  BY <1>5, <1>k DEF Spawn
<1>6. CASE GetAuthorization
  BY <1>6, <1>u DEF GetAuthorization
<1>7. CASE Collect
  BY <1>7, <1>k DEF Collect
<1>8. CASE CollectEnds
  BY <1>8, <1>k DEF CollectEnds, Deactivating
<1>9. CASE Solve
  BY <1>9, <1>k DEF Solve, Deactivating
<1>10. CASE Validate
  BY <1>10, <1>u DEF Validate
<1>11. CASE GetBeforeDeactivate
  BY <1>11, <1>k DEF GetBeforeDeactivate
<1>12. CASE Deactivate
  BY <1>12, <1>k DEF Deactivate
<1>13. CASE Deactivated
  BY <1>13, <1>k DEF Deactivated, Return
<1>14. CASE Finalize
  BY <1>14, <1>k DEF Finalize, fail, Return
<1>15. CASE Issue
  BY <1>15, <1>k, <1>o DEF Issue, OrderOK
<1>16. CASE Poll
  BY <1>16, <1>k DEF Poll
<1>17. CASE PollTimeout
  BY <1>17, <1>k DEF PollTimeout, fail, Return
<1>18. CASE Link
  BY <1>18, <1>k DEF Link, LinkFails, Loaded, fail, Return
<1>19. CASE UNCHANGED vars
  BY <1>19, <1>u DEF vars
<1> QED BY <1>1, <1>2, <1>3, <1>4, <1>5, <1>6, <1>7, <1>8, <1>9, <1>10, <1>11, <1>12, <1>13,
           <1>14, <1>15, <1>16, <1>17, <1>18, <1>19, EntryStep
        DEF Next, Client, Finished

(* Each round of the collecting loop receives the value of one more        *)
(* goroutine.                                                              *)
LEMMA CollectNext ==
    ASSUME IInv, [Next]_vars
    PROVE  CollectOK'
<1> USE DEF request, orderVars, collecting, issuing, server, history
<1>c. CollectOK
  BY DEF IInv
<1>t. go \in [Authz -> {"none", "get", "resc", "errc", "done"}]
  BY DEF IInv, TypeOK
<1>n. Len(authorizations) \in Nat /\ n \in Nat \ {0}
  BY Indices
<1>u. ASSUME UNCHANGED <<pc, n, authorizations, go, responses, failures>>
      PROVE  CollectOK'
  BY <1>u, <1>c DEF CollectOK, Received, Ordered
<1>b. ASSUME UNCHANGED collecting, pc \in {"start", "sanitize", "order"},
             pc' \in {"sanitize", "order", "done"}
      PROVE  CollectOK'
  BY <1>b, <1>c DEF CollectOK
<1>a. ASSUME UNCHANGED go, pc \notin {"start", "sanitize", "order", "spawn", "collect", "panic"},
             pc' \notin {"start", "sanitize", "order", "spawn", "collect", "panic"}
      PROVE  CollectOK'
  BY <1>a, <1>c DEF CollectOK
<1>1. ASSUME NEW ds \in Requests, NEW given \in BOOLEAN, NEW chain \in BOOLEAN,
             Enter(ds, given, chain)
      PROVE  CollectOK'
  BY <1>1, <1>b DEF Enter, Return
<1>2. CASE Refused
  BY <1>2, <1>b DEF Refused, Return
<1>3. CASE Sanitize
  BY <1>3, <1>b DEF Sanitize
<1>4. CASE NewOrder
  <2>1. CASE pc' = "spawn" /\ n' = 1
    <3>1. /\ \A u \in Authz : go[u] = "none"
          /\ responses = {} /\ failures = {} /\ UNCHANGED collecting
      BY <1>4, <1>c DEF NewOrder, CollectOK
    <3>2. Len(authorizations') \in Nat
      BY TypeNext DEF TypeOK
    <3>3. ~ \E k \in 1..(n' - 1) : TRUE
      BY <2>1
    <3> QED BY <2>1, <3>1, <3>2, <3>3 DEF CollectOK, Received
  <2> QED BY <1>4, <1>b, <2>1 DEF NewOrder, Return
<1>5. CASE Spawn
  <2>1. /\ pc = "spawn" /\ Received = {} /\ responses = {} /\ failures = {}
        /\ UNCHANGED <<authorizations, responses, failures>> /\ n <= Len(authorizations) + 1
        /\ \A u \in Authz : go[u] # "none" <=> \E k \in 1..(n - 1) : u = authorizations[k]
    BY <1>5, <1>c DEF Spawn, CollectOK
  <2>2. CASE n <= Len(authorizations)
    <3>1. go' = [go EXCEPT ![authorizations[n]] = "get"] /\ n' = n + 1 /\ pc' = pc
      BY <1>5, <1>n, <2>2 DEF Spawn
    <3>2. authorizations[n] \in Authz
      <4>1. n \in 1..Len(authorizations)
        BY <1>n, <2>2
      <4> QED BY <4>1 DEF IInv, TypeOK
    <3>3. \A u \in Authz : go'[u] # "none" <=> go[u] # "none" \/ u = authorizations[n]
      BY <1>t, <3>1, <3>2
    <3>4. \A k : k \in 1..(n' - 1) <=> k \in 1..(n - 1) \/ k = n
      BY <1>n, <3>1
    <3>5. \A u \in Authz : go'[u] # "none" <=> \E k \in 1..(n' - 1) : u = authorizations'[k]
      BY <2>1, <3>3, <3>4
    <3>6. Received' = {}
      BY <1>t, <2>1, <3>1, <3>2 DEF Received
    <3>7. n' <= Len(authorizations') + 1
      BY <1>n, <2>1, <2>2, <3>1
    <3> QED BY <2>1, <3>1, <3>5, <3>6, <3>7 DEF CollectOK
  <2>3. CASE ~(n <= Len(authorizations))
    <3>1. go' = go /\ n' = 1 /\ pc' = "collect"
      BY <1>5, <2>3 DEF Spawn
    <3>2. n - 1 = Len(authorizations) /\ n' <= Len(authorizations') + 1
      BY <1>n, <2>1, <2>3, <3>1
    <3>3. Ordered' = {authorizations[k] : k \in 1..Len(authorizations)}
      BY <2>1, OrderedFacts DEF IInv, OrderOK, Ordered
    <3>4. \A u \in Authz : go'[u] # "none" <=> u \in Ordered'
      BY <2>1, <3>1, <3>2, <3>3
    <3>5. Received' = {} /\ Cardinality(Received') = n' - 1
      BY <2>1, <3>1, FS_EmptySet DEF Received
    <3> QED BY <2>1, <3>1, <3>2, <3>4, <3>5 DEF CollectOK
  <2> QED BY <2>2, <2>3
<1>6. CASE GetAuthorization
  <2>1. PICK u \in Authz, answer \in {"resc", "errc"} :
          go[u] = "get" /\ go' = [go EXCEPT ![u] = answer]
    BY <1>6, Zenon DEF GetAuthorization
  <2>2. UNCHANGED <<pc, n, authorizations, responses, failures>>
    BY <1>6 DEF GetAuthorization
  <2>3. Received' = Received /\ \A v \in Authz : go'[v] = "none" <=> go[v] = "none"
    BY <1>t, <2>1 DEF Received
  <2>4. pc \in {"spawn", "collect", "panic"}
    BY <1>c, <2>1 DEF CollectOK
  <2> QED BY <1>c, <2>2, <2>3, <2>4 DEF CollectOK, Ordered
<1>7. CASE Collect
  <2>1. PICK u \in Authz :
          /\ \/ go[u] = "resc" /\ responses' = responses \cup {u} /\ UNCHANGED failures
             \/ go[u] = "errc" /\ failures' = failures \cup {failureKey(u)} /\ UNCHANGED responses
          /\ go' = [go EXCEPT ![u] = "done"]
    BY <1>7, Zenon DEF Collect
  <2>2. /\ pc = "collect" /\ n <= Len(authorizations) /\ n' = n + 1
        /\ UNCHANGED <<pc, authorizations>>
    BY <1>7 DEF Collect
  <2>3. u \notin Received /\ Received' = Received \cup {u}
    BY <1>t, <2>1 DEF Received
  <2>4. IsFiniteSet(Received) /\ Cardinality(Received) = n - 1
    <3>1. Received \subseteq Authz
      BY DEF Received
    <3> QED BY <1>c, <2>2, <3>1, AuthzFinite, FS_Subset DEF CollectOK
  <2>5. Cardinality(Received') = n' - 1
    <3>1. Cardinality(Received') = Cardinality(Received) + 1
      BY <2>3, <2>4, FS_AddElement
    <3> QED BY <1>n, <2>2, <2>4, <3>1
  <2>6. \A v \in Authz : go'[v] # "none" <=> v \in Ordered'
    BY <1>c, <1>t, <2>1, <2>2 DEF CollectOK, Ordered
  <2>7. failures' = {} => responses' = Received'
    BY <1>c, <2>1, <2>2, <2>3 DEF CollectOK
  <2>8. n' <= Len(authorizations') + 1
    BY <1>n, <2>2
  <2> QED BY <2>2, <2>5, <2>6, <2>7, <2>8 DEF CollectOK
<1>8. CASE CollectEnds
  <2>1. Received = Ordered
    BY <1>8, AllReceived DEF CollectEnds
  <2>2. \A u \in Authz : go[u] \in {"none", "done"}
    BY <1>8, <1>c, <2>1 DEF CollectEnds, CollectOK, Received
  <2>3. go' = go /\ pc' \in {"panic", "solve", "deactivate"}
    BY <1>8 DEF CollectEnds, Deactivating
  <2> QED BY <2>2, <2>3 DEF CollectOK
<1>9. CASE Solve
  BY <1>9, <1>a DEF Solve, Deactivating
<1>10. CASE Validate
  BY <1>10, <1>u DEF Validate
<1>11. CASE GetBeforeDeactivate
  BY <1>11, <1>a DEF GetBeforeDeactivate
<1>12. CASE Deactivate
  BY <1>12, <1>a DEF Deactivate
<1>13. CASE Deactivated
  BY <1>13, <1>a DEF Deactivated, Return
<1>14. CASE Finalize
  BY <1>14, <1>a DEF Finalize, fail, Return
<1>15. CASE Issue
  BY <1>15, <1>u DEF Issue
<1>16. CASE Poll
  BY <1>16, <1>a DEF Poll
<1>17. CASE PollTimeout
  BY <1>17, <1>a DEF PollTimeout, fail, Return
<1>18. CASE Link
  BY <1>18, <1>a DEF Link, LinkFails, Loaded, fail, Return
<1>19. CASE UNCHANGED vars
  BY <1>19, <1>u DEF vars
<1> QED BY <1>1, <1>2, <1>3, <1>4, <1>5, <1>6, <1>7, <1>8, <1>9, <1>10, <1>11, <1>12, <1>13,
           <1>14, <1>15, <1>16, <1>17, <1>18, <1>19, EntryStep
        DEF Next, Client, Finished
=============================================================================
