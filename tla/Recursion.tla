----------------------------- MODULE Recursion -----------------------------
(***************************************************************************)
(* Induction and definition by recursion over the natural numbers, stated  *)
(* with sets and functions in place of operators so that a proof can cite  *)
(* them, and the elements of lists.  They follow from the library's        *)
(* theorem that a non-empty set of natural numbers has a least element.    *)
(***************************************************************************)
EXTENDS Integers, Sequences, Functions, WellFoundedInduction, TLAPS

(* A set that has 0, and n + 1 with n, has every natural number.           *)
LEMMA Induction ==
  ASSUME NEW T, 0 \in T, \A n \in Nat : n \in T => n + 1 \in T
  PROVE  Nat \subseteq T
<1> DEFINE R == {p \in Nat \X Nat : p[1] < p[2]}
           S == Nat \ T
<1>1. IsWellFoundedOn(OpToRel(<, Nat), Nat)
  BY NatLessThanWellFounded
<1>2. \A x, y \in Nat : x < y => <<x, y>> \in OpToRel(<, Nat)
  BY DEF OpToRel
<1>3. ASSUME S # {} PROVE FALSE
  <2>1. PICK m \in S : \A y \in S : ~ (<<y, m>> \in OpToRel(<, Nat))
    <3> HIDE DEF S
    <3>1. S \subseteq Nat
      BY DEF S
    <3> QED
      BY <1>1, <1>3, <3>1, WFMin
  <2>2. m \in Nat /\ m # 0
    OBVIOUS
  <2>3. m - 1 \in S
    BY <2>2
  <2>4. m - 1 < m
    BY <2>2
  <2> QED
    BY <1>2, <2>1, <2>2, <2>3, <2>4
<1> QED
  BY <1>3

(* f starts with s and goes on with F.                                     *)
Iterates(f, S, s, F) ==
  f \in [Nat -> S] /\ f[0] = s /\ \A n \in Nat : f[n+1] = F[n][f[n]]

(* There is such a function: what a recursive definition relies on.        *)
LEMMA Recursion ==
  ASSUME NEW S, NEW s \in S, NEW F \in [Nat -> [S -> S]]
  PROVE  \E f : Iterates(f, S, s, F)
<1> DEFINE Upto(n, f) == /\ f \in [0..n -> S] /\ f[0] = s
                         /\ \A i \in 0..(n-1) : f[i+1] = F[i][f[i]]
           T == {n \in Nat : \E f : Upto(n, f)}
<1>1. 0 \in T
  <2> DEFINE g == [i \in 0..0 |-> s]
  <2>1. Upto(0, g)
    OBVIOUS
  <2> QED
    BY <2>1
<1>2. ASSUME NEW n \in Nat, n \in T PROVE n + 1 \in T
  <2>1. PICK f : Upto(n, f)
    BY <1>2
  <2> DEFINE g == [i \in 0..(n+1) |-> IF i <= n THEN f[i] ELSE F[n][f[n]]]
  <2>2. f[n] \in S /\ F[n][f[n]] \in S
    BY <2>1
  <2>3. g \in [0..(n+1) -> S]
    BY <2>1, <2>2
  <2>4. g[0] = s
    BY <2>1
  <2>5. ASSUME NEW i \in 0..n PROVE g[i+1] = F[i][g[i]]
    BY <2>1, <2>5
  <2>6. (n + 1) - 1 = n
    OBVIOUS
  <2>7. Upto(n + 1, g)
    <3> HIDE DEF g
    <3> QED
      BY <2>3, <2>4, <2>5, <2>6
  <2>8. \E ff : Upto(n + 1, ff)
    <3> HIDE DEF g, Upto
    <3> QED
      BY <2>7
  <2> QED
    BY <2>8
<1>3. Nat \subseteq T
  <2> HIDE DEF T
  <2> QED
    BY <1>1, <1>2, Induction
<1> DEFINE G(n) == CHOOSE f : Upto(n, f)
           h == [n \in Nat |-> G(n)[n]]
<1>4. ASSUME NEW n \in Nat PROVE Upto(n, G(n))
  BY <1>3
<1>5. ASSUME NEW n \in Nat, NEW m \in Nat, NEW f, NEW g, Upto(n, f), Upto(m, g), n <= m
      PROVE  f[n] = g[n]
  <2> DEFINE V == {i \in Nat : i <= n => f[i] = g[i]}
  <2>1. 0 \in V
    BY <1>5
  <2>2. ASSUME NEW i \in Nat, i \in V PROVE i + 1 \in V
    <3>1. CASE i + 1 <= n
      <4>1. f[i] = g[i]
        BY <2>2, <3>1
      <4>2. i \in 0..(n-1) /\ i \in 0..(m-1)
        BY <3>1, <1>5
      <4> QED
        BY <1>5, <4>1, <4>2
    <3> QED
      BY <3>1
  <2>3. Nat \subseteq V
    <3> HIDE DEF V
    <3> QED
      BY <2>1, <2>2, Induction
  <2> QED
    BY <2>3
<1>6. h \in [Nat -> S]
  <2>1. ASSUME NEW n \in Nat PROVE G(n)[n] \in S
    <3>1. Upto(n, G(n))
      BY <1>4
    <3> HIDE DEF G
    <3> QED
      BY <3>1
  <2> HIDE DEF G
  <2> QED
    BY <2>1
<1>7. h[0] = s
  <2>1. Upto(0, G(0))
    BY <1>4
  <2> HIDE DEF G
  <2> QED
    BY <2>1
<1>8. ASSUME NEW n \in Nat PROVE h[n+1] = F[n][h[n]]
  <2>1. Upto(n, G(n)) /\ Upto(n+1, G(n+1))
    <3>1. n + 1 \in Nat
      OBVIOUS
    <3> HIDE DEF Upto, G
    <3> QED
      BY <1>4, <3>1
  <2>2. G(n)[n] = G(n+1)[n]
    <3>1. n + 1 \in Nat /\ n <= n + 1
      OBVIOUS
    <3> HIDE DEF Upto, G
    <3> QED
      BY <2>1, <1>5, <3>1
  <2>3. G(n+1)[n+1] = F[n][G(n+1)[n]]
    <3> HIDE DEF G
    <3> QED
      BY <2>1
  <2> HIDE DEF G, Upto
  <2> QED
    BY <2>2, <2>3
<1> QED
  <2> HIDE DEF h
  <2> QED
    BY <1>6, <1>7, <1>8 DEF Iterates

-----------------------------------------------------------------------------
(* A list with one more element.                                           *)
LEMMA Appended ==
  ASSUME NEW S, NEW s \in Seq(S), NEW d \in S
  PROVE  /\ Append(s, d) \in Seq(S) /\ Append(s, d) # <<>>
         /\ Range(Append(s, d)) = Range(s) \cup {d}
         /\ s # <<>> => Append(s, d)[1] = s[1]
         /\ IsInjective(s) /\ d \notin Range(s) => IsInjective(Append(s, d))
<1> DEFINE t == Append(s, d)
<1>1. /\ t \in Seq(S) /\ t # <<>> /\ Len(t) = Len(s) + 1 /\ DOMAIN t = 1..(Len(s) + 1)
      /\ DOMAIN s = 1..Len(s) /\ t[Len(s) + 1] = d /\ \A i \in 1..Len(s) : t[i] = s[i]
  OBVIOUS
<1> HIDE DEF t
<1>2. Range(t) = Range(s) \cup {d}
  BY <1>1 DEF Range
<1>3. s # <<>> => t[1] = s[1]
  BY <1>1
<1>4. IsInjective(s) /\ d \notin Range(s) => IsInjective(t)
  BY <1>1 DEF Range, IsInjective
<1> QED
  BY <1>1, <1>2, <1>3, <1>4 DEF t

(* The elements of a concatenation, of short lists, of a tail.             *)
LEMMA RangeConcat ==
  ASSUME NEW S, NEW s \in Seq(S), NEW t \in Seq(S)
  PROVE  s \o t \in Seq(S) /\ Range(s \o t) = Range(s) \cup Range(t)
<1> DEFINE u == s \o t
<1>1. /\ u \in Seq(S) /\ DOMAIN u = 1..(Len(s) + Len(t)) /\ DOMAIN s = 1..Len(s) /\ DOMAIN t = 1..Len(t)
      /\ Len(s) \in Nat /\ Len(t) \in Nat
      /\ \A i \in 1..(Len(s) + Len(t)) : u[i] = IF i <= Len(s) THEN s[i] ELSE t[i - Len(s)]
  OBVIOUS
<1> HIDE DEF u
<1>2. Range(u) \subseteq Range(s) \cup Range(t)
  <2> SUFFICES ASSUME NEW i \in 1..(Len(s) + Len(t)) PROVE u[i] \in Range(s) \cup Range(t)
    BY <1>1 DEF Range
  <2>1. CASE i <= Len(s)
    BY <1>1, <2>1 DEF Range
  <2>2. CASE ~(i <= Len(s))
    <3>1. i - Len(s) \in 1..Len(t)
      BY <1>1, <2>2
    <3> QED
      BY <1>1, <2>2, <3>1 DEF Range
  <2> QED
    BY <2>1, <2>2
<1>3. Range(s) \subseteq Range(u)
  BY <1>1 DEF Range
<1>4. Range(t) \subseteq Range(u)
  <2> SUFFICES ASSUME NEW i \in 1..Len(t) PROVE t[i] \in Range(u)
    BY <1>1 DEF Range
  <2>1. Len(s) + i \in 1..(Len(s) + Len(t)) /\ ~(Len(s) + i <= Len(s)) /\ (Len(s) + i) - Len(s) = i
    BY <1>1
  <2> QED
    BY <1>1, <2>1 DEF Range
<1> QED
  BY <1>1, <1>2, <1>3, <1>4 DEF u

LEMMA RangeShort ==
  ASSUME NEW S
  PROVE  /\ <<>> \in Seq(S) /\ Range(<<>>) = {}
         /\ \A x \in S : <<x>> \in Seq(S) /\ Range(<<x>>) = {x}
BY DEF Range

LEMMA RangeTail ==
  ASSUME NEW S, NEW s \in Seq(S), s # <<>>
  PROVE  /\ Tail(s) \in Seq(S) /\ Head(s) \in S /\ Head(s) \in Range(s)
         /\ Range(s) = {Head(s)} \cup Range(Tail(s))
         /\ Len(s) > 1 => Tail(s) # <<>>
         /\ ~(Len(s) > 1) => Range(s) = {Head(s)}
<1> DEFINE t == Tail(s)
<1>1. /\ t \in Seq(S) /\ Head(s) = s[1] /\ Len(s) \in Nat /\ Len(s) >= 1 /\ DOMAIN s = 1..Len(s)
      /\ Len(t) = Len(s) - 1 /\ DOMAIN t = 1..(Len(s) - 1)
      /\ \A i \in 1..(Len(s) - 1) : t[i] = s[i + 1]
  OBVIOUS
<1> HIDE DEF t
<1>2. Len(s) > 1 => t # <<>>
  BY <1>1
<1>3. Head(s) \in Range(s) /\ Head(s) \in S
  BY <1>1 DEF Range
<1>4. Range(t) \subseteq Range(s)
  <2> SUFFICES ASSUME NEW i \in 1..(Len(s) - 1) PROVE t[i] \in Range(s)
    BY <1>1 DEF Range
  <2>1. i + 1 \in 1..Len(s)
    BY <1>1
  <2> QED
    BY <1>1, <2>1 DEF Range
<1>5. Range(s) \subseteq {Head(s)} \cup Range(t)
  <2> SUFFICES ASSUME NEW i \in 1..Len(s), i # 1 PROVE s[i] \in Range(t)
    BY <1>1 DEF Range
  <2>1. i - 1 \in 1..(Len(s) - 1) /\ (i - 1) + 1 = i
    BY <1>1
  <2> QED
    BY <1>1, <2>1 DEF Range
<1>6. ~(Len(s) > 1) => Range(s) = {Head(s)}
  BY <1>1 DEF Range
<1> QED
  BY <1>1, <1>2, <1>3, <1>4, <1>5, <1>6 DEF t
============================================================================
