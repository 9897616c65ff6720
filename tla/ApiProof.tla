------------------------------ MODULE ApiProof ------------------------------
(***************************************************************************)
(* Proofs about Api, for any finite set of goroutines, any number of calls *)
(* and any retry budget.                                                   *)
(***************************************************************************)
EXTENDS Api, FiniteSetTheorems, SequenceTheorems, TLAPS

(* The nonce a goroutine is responsible for: signed into the JWS it is     *)
(* about to deliver, or carried by the answer it is about to read.         *)
Token(w) ==
    CASE pc[w] = "post" -> held[w]
      [] pc[w] = "recv" -> reply[w].nonce
      [] OTHER -> NoNonce

Pooled == {nonces[i] : i \in 1..Len(nonces)}

(* Every nonce is in one place: in the stack once, with one goroutine, or  *)
(* delivered.                                                              *)
Placement ==
    /\ delivered \subseteq 1..lastNonce
    /\ \A w \in Worker : pc[w] = "post" => held[w] # NoNonce
    /\ \A w \in Worker : Token(w) # NoNonce =>
          Token(w) \in 1..lastNonce /\ Token(w) \notin delivered
                                    /\ Token(w) \notin Pooled
    /\ \A v, w \in Worker : v # w /\ Token(w) # NoNonce => Token(v) # Token(w)
    /\ \A i \in 1..Len(nonces) :
          nonces[i] \in 1..lastNonce /\ nonces[i] \notin delivered
    /\ \A i, j \in 1..Len(nonces) : i # j => nonces[i] # nonces[j]

(* A goroutine that waits for newNonce saw an empty stack, so it counts as *)
(* a borrower already: without it PoolBound is not inductive.              *)
Committed == {w \in Worker : pc[w] \in {"head", "post", "recv"}}

Balance == Len(nonces) + Cardinality(Committed) <= Cardinality(Worker)

(* The server has executed a call exactly when its answer says so. *)
Execution ==
    \A w \in Worker :
        /\ executed[w] \in {0, 1}
        /\ pc[w] \in {"sign", "head", "post", "backoff"} => executed[w] = 0
        /\ pc[w] = "recv" =>
              (executed[w] = 1 <=> reply[w].code = "2xx")
        /\ pc[w] # "idle" => result[w] = "none"
        /\ result[w] = "ok" => executed[w] = 1

IInv == TypeOK /\ Placement /\ Balance /\ Execution

-----------------------------------------------------------------------------
(* Pop takes the last nonce off a stack that has one (nonce_manager.go). *)
LEMMA PopLemma ==
  ASSUME NEW S, NEW n \in Seq(S), Len(n) # 0
  PROVE  /\ Pop(n) \in Seq(S)
         /\ Len(Pop(n)) = Len(n) - 1
         /\ \A i \in 1..Len(Pop(n)) : Pop(n)[i] = n[i]
         /\ Top(n) \in S
<1>1. Len(n) \in Nat /\ \A i \in 1..Len(n) : n[i] \in S
  BY LenProperties, ElementOfSeq
<1>2. \A i \in 1..Len(n) - 1 : n[i] \in S
  BY <1>1
<1>3. /\ SubSeq(n, 1, Len(n) - 1) \in Seq(S)
      /\ Len(SubSeq(n, 1, Len(n) - 1)) = IF 1 <= Len(n) - 1 THEN Len(n) - 1 - 1 + 1 ELSE 0
      /\ \A i \in 1..Len(n) - 1 - 1 + 1 : SubSeq(n, 1, Len(n) - 1)[i] = n[1 + i - 1]
  BY <1>1, <1>2, SubSeqProperties
<1>4. Len(n) \in 1..Len(n)
  BY <1>1
<1>5. Len(Pop(n)) = Len(n) - 1
  <2>1. ASSUME NEW k \in Nat, k # 0
        PROVE  k - 1 = IF 1 <= k - 1 THEN k - 1 - 1 + 1 ELSE 0
    BY <2>1
  <2> QED
    BY <1>1, <1>3, <2>1, Zenon DEF Pop
<1>6. ASSUME NEW i \in 1..Len(n) - 1 PROVE Pop(n)[i] = n[i]
  <2>1. i \in 1..Len(n) - 1 - 1 + 1 /\ 1 + i - 1 = i
    BY <1>1
  <2>2. Pop(n)[i] = n[1 + i - 1]
    BY <1>3, <2>1 DEF Pop
  <2> QED
    BY <2>1, <2>2
<1>7. Pop(n) \in Seq(S) /\ Top(n) \in S
  BY <1>1, <1>3, <1>4 DEF Pop, Top
<1> QED
  BY <1>5, <1>6, <1>7

(* Push adds the nonce of an answer that has one. *)
LEMMA PushLemma ==
  ASSUME NEW S, NEW n \in Seq(S), NEW r, r.nonce # NoNonce => r.nonce \in S
  PROVE  /\ Push(n, r) \in Seq(S)
         /\ Len(Push(n, r)) = IF r.nonce = NoNonce THEN Len(n) ELSE Len(n) + 1
         /\ \A i \in 1..Len(n) : Push(n, r)[i] = n[i]
         /\ r.nonce # NoNonce => Push(n, r)[Len(n) + 1] = r.nonce
BY DEF Push

LEMMA ResponseLemma ==
  /\ NoResponse \in Response
  /\ NoResponse.nonce = NoNonce
  /\ \A r \in Response : r.nonce \in Nat /\ r.code \in Code
BY DEF NoResponse, Response, Body, Code, NoNonce

LEMMA ReturnLemma ==
  ASSUME TypeOK, NEW w \in Worker, NEW res \in {"ok", "err"}, Return(w, res)
  PROVE  /\ pc' \in [Worker -> {"idle", "sign", "head", "post", "recv", "backoff", "crashed"}]
         /\ held' \in [Worker -> Nat]
         /\ retries' \in [Worker -> 0..MaxRetries]
         /\ reply' \in [Worker -> Response]
         /\ result' \in [Worker -> {"none", "ok", "err"}]
BY BoundAssumption, ResponseLemma DEF TypeOK, Return, NoNonce

(* The type invariant of the request path is preserved by every step.      *)
LEMMA TypeNext == TypeOK /\ [Next]_vars => TypeOK'
<1> SUFFICES ASSUME TypeOK, [Next]_vars PROVE TypeOK'
  OBVIOUS
<1>1. ASSUME NEW w \in Worker, Post(w) PROVE TypeOK'
  <2>1. calls' \in [Worker -> Nat] /\ \A v \in Worker : calls'[v] <= MaxCalls[v]
    <3>1. /\ calls \in [Worker -> Nat] /\ \A v \in Worker : calls[v] <= MaxCalls[v]
          /\ MaxCalls \in [Worker -> Nat]
          /\ calls[w] < MaxCalls[w] /\ calls' = [calls EXCEPT ![w] = @ + 1]
      BY <1>1, BoundAssumption DEF TypeOK, Post
    <3>2. ASSUME NEW v \in Worker PROVE calls'[v] <= MaxCalls[v]
      <4>1. calls[w] \in Nat /\ calls[w] + 1 <= MaxCalls[w]
        BY <3>1
      <4> QED
        BY <3>1, <4>1
    <3>3. calls' \in [Worker -> Nat]
      BY <3>1
    <3> QED
      BY <3>2, <3>3
  <2> QED
    BY <1>1, <2>1, BoundAssumption DEF TypeOK, Post
<1>2. ASSUME NEW w \in Worker, Nonce(w) PROVE TypeOK'
  <2>1. CASE Len(nonces) = 0
    BY <1>2, <2>1 DEF TypeOK, Nonce, server
  <2>2. CASE Len(nonces) # 0
    <3>1. Pop(nonces) \in Seq(Nat \ {0}) /\ Top(nonces) \in Nat \ {0}
      <4>1. nonces \in Seq(Nat \ {0})
        BY DEF TypeOK
      <4> QED
        BY <4>1, <2>2, PopLemma
    <3> QED
      BY <1>2, <2>2, <3>1 DEF TypeOK, Nonce, server
  <2> QED
    BY <2>1, <2>2
<1>3. ASSUME NEW w \in Worker, SignFails(w) PROVE TypeOK'
  <2>1. nonces' \in Seq(Nat \ {0})
    <3>1. nonces \in Seq(Nat \ {0})
      BY DEF TypeOK
    <3>2. Len(nonces) # 0 => Pop(nonces) \in Seq(Nat \ {0})
      BY <3>1, PopLemma
    <3>3. nonces' = nonces \/ (Len(nonces) > 0 /\ nonces' = Pop(nonces))
      BY <1>3 DEF SignFails
    <3> QED
      BY <3>1, <3>2, <3>3
  <2> QED
    BY <1>3, <2>1, ReturnLemma DEF TypeOK, SignFails, server
<1>4. ASSUME NEW w \in Worker, getNonce(w) PROVE TypeOK'
  <2>1. CASE Return(w, "err") /\ UNCHANGED <<lastNonce, live>>
    BY <1>4, <2>1, ReturnLemma DEF TypeOK, getNonce
  <2>2. CASE ~ (Return(w, "err") /\ UNCHANGED <<lastNonce, live>>)
    <3>1. lastNonce' = lastNonce + 1 /\ live' = live \cup {lastNonce + 1}
      BY <1>4, <2>2 DEF getNonce
    <3>2. lastNonce' \in Nat /\ live' \subseteq 1..lastNonce' /\ 1..lastNonce \subseteq 1..lastNonce'
      BY <3>1 DEF TypeOK
    <3>3. held' = [held EXCEPT ![w] = lastNonce + 1] /\ pc' = [pc EXCEPT ![w] = "post"]
      BY <1>4, <2>2 DEF getNonce
    <3>4. UNCHANGED <<nonces, reply, retries, result, calls, delivered, executed>>
      BY <1>4, <2>2 DEF getNonce
    <3> QED
      BY <3>2, <3>3, <3>4 DEF TypeOK
  <2> QED
    BY <2>1, <2>2
<1>5. ASSUME NEW w \in Worker, ServerReceive(w) PROVE TypeOK'
  <2>1. PICK fresh \in {NoNonce, lastNonce + 1}, code \in Code, body \in Body :
          /\ executed' = [executed EXCEPT ![w] = IF code = "2xx" THEN @ + 1 ELSE @]
          /\ lastNonce' = IF fresh = NoNonce THEN lastNonce ELSE fresh
          /\ live' = (live \ {held[w]}) \cup ({fresh} \ {NoNonce})
          /\ reply' = [reply EXCEPT ![w] = [code |-> code, body |-> body, nonce |-> fresh]]
    BY <1>5 DEF ServerReceive
  <2>2. [code |-> code, body |-> body, nonce |-> fresh] \in Response
    BY DEF Response, TypeOK, NoNonce
  <2>3. lastNonce' \in Nat /\ 1..lastNonce \subseteq 1..lastNonce'
    BY <2>1 DEF TypeOK, NoNonce
  <2>4. live' \subseteq 1..lastNonce'
    <3>1. live \subseteq 1..lastNonce'
      BY <2>3 DEF TypeOK
    <3>2. {fresh} \ {NoNonce} \subseteq 1..lastNonce'
      BY <2>1 DEF TypeOK, NoNonce
    <3> QED
      BY <2>1, <3>1, <3>2, Zenon
  <2>6. delivered' \subseteq Nat
    <3>1. held[w] \in Nat
      BY DEF TypeOK
    <3>2. delivered' = delivered \cup {held[w]}
      BY <1>5 DEF ServerReceive
    <3> QED
      BY <3>1, <3>2 DEF TypeOK
  <2>7. executed' \in [Worker -> Nat] /\ reply' \in [Worker -> Response]
    BY <2>1, <2>2 DEF TypeOK
  <2> QED
    BY <1>5, <2>3, <2>4, <2>6, <2>7 DEF TypeOK, ServerReceive
<1>6. ASSUME NEW w \in Worker, TransportError(w) PROVE TypeOK'
  BY <1>6, ReturnLemma DEF TypeOK, TransportError, server
<1>7. ASSUME NEW w \in Worker, Receive(w) PROVE TypeOK'
  <2>1. nonces' \in Seq(Nat \ {0})
    BY <1>7, PushLemma, ResponseLemma DEF TypeOK, Receive, NoNonce
  <2>2. CASE Return(w, "ok") \/ Return(w, "err")
    BY <1>7, <2>1, <2>2, ReturnLemma DEF TypeOK, Receive, server
  <2>3. CASE /\ retries[w] < MaxRetries
             /\ pc' = [pc EXCEPT ![w] = "backoff"]
             /\ held' = [held EXCEPT ![w] = NoNonce]
             /\ reply' = [reply EXCEPT ![w] = NoResponse]
             /\ retries' = [retries EXCEPT ![w] = @ + 1]
             /\ UNCHANGED result
    BY <1>7, <2>1, <2>3, ResponseLemma, BoundAssumption
       DEF TypeOK, Receive, server, NoNonce
  <2> QED
    BY <1>7, <2>2, <2>3 DEF Receive
<1>8. ASSUME NEW w \in Worker, Retry(w) PROVE TypeOK'
  BY <1>8 DEF TypeOK, Retry, server
<1>9. ASSUME NEW w \in Worker, Panic(w) PROVE TypeOK'
  BY <1>9 DEF TypeOK, Panic, server
<1>10. CASE Expire
  BY <1>10 DEF TypeOK, Expire, client
<1>11. CASE UNCHANGED vars
  BY <1>11 DEF TypeOK, vars
<1> QED
  BY <1>1, <1>2, <1>3, <1>4, <1>5, <1>6, <1>7, <1>8, <1>9, <1>10, <1>11
     DEF Next, Exchange, Finished

-----------------------------------------------------------------------------
(* A step of goroutine w leaves the nonces of the other goroutines alone.  *)
OthersKeep(w) == \A v \in Worker \ {w} : Token(v)' = Token(v)
                                       /\ pc'[v] = pc[v] /\ held'[v] = held[v]

LEMMA OthersLemma ==
  ASSUME TypeOK, TypeOK', NEW w \in Worker,
         \/ Post(w) \/ Nonce(w) \/ SignFails(w) \/ getNonce(w)
         \/ ServerReceive(w) \/ Receive(w) \/ TransportError(w) \/ Retry(w)
  PROVE  OthersKeep(w)
<1> SUFFICES ASSUME NEW v \in Worker \ {w}
             PROVE  pc'[v] = pc[v] /\ held'[v] = held[v] /\ reply'[v] = reply[v]
  BY DEF OthersKeep, Token
<1>1. CASE Post(w) \/ Nonce(w) \/ Retry(w)
  BY <1>1 DEF TypeOK, Post, Nonce, Retry
<1>2. CASE SignFails(w) \/ TransportError(w)
  BY <1>2 DEF TypeOK, SignFails, TransportError, Return
<1>3. CASE getNonce(w)
  BY <1>3 DEF TypeOK, getNonce, Return
<1>4. CASE ServerReceive(w)
  BY <1>4 DEF TypeOK, ServerReceive
<1>5. CASE Receive(w)
  BY <1>5 DEF TypeOK, Receive, Return
<1> QED
  BY <1>1, <1>2, <1>3, <1>4, <1>5

(* A panic takes the nonces of all goroutines with it.                     *)
LEMMA PanicLemma ==
  ASSUME TypeOK, NEW w \in Worker, Panic(w)
  PROVE  /\ \A v \in Worker : pc'[v] \in {"idle", "crashed"} /\ (pc'[v] = "idle" <=> pc[v] = "idle")
         /\ \A v \in Worker : Token(v)' = NoNonce
         /\ UNCHANGED <<nonces, reply, result, lastNonce, delivered, executed>>
<1>1. \A v \in Worker : pc'[v] = IF pc[v] = "idle" THEN "idle" ELSE "crashed"
  BY DEF Panic
<1>2. \A v \in Worker : pc'[v] \in {"idle", "crashed"} /\ (pc'[v] = "idle" <=> pc[v] = "idle")
  BY <1>1
<1>3. \A v \in Worker : Token(v)' = NoNonce
  BY <1>2 DEF Token
<1> QED
  BY <1>2, <1>3 DEF Panic, server

(* The nonce's four moves: issued to a goroutine, taken from the stack,    *)
(* delivered or dropped, put back on the stack.                            *)
LEMMA TakeLemma ==
  ASSUME TypeOK, TypeOK', Placement, NEW w \in Worker, OthersKeep(w),
         Len(nonces) # 0, nonces' = Pop(nonces),
         Token(w)' \in {NoNonce, Top(nonces)},
         pc'[w] = "post" => held'[w] # NoNonce,
         UNCHANGED <<lastNonce, delivered>>
  PROVE  Placement'
<1>1. /\ nonces \in Seq(Nat \ {0}) /\ Len(nonces) \in Nat /\ Len(nonces) \in 1..Len(nonces)
      /\ Len(nonces') = Len(nonces) - 1
      /\ \A i \in 1..Len(nonces') : nonces'[i] = nonces[i]
  <2>1. nonces \in Seq(Nat \ {0})
    BY DEF TypeOK
  <2>2. Len(nonces) \in Nat /\ Len(nonces) \in 1..Len(nonces)
    BY <2>1, LenProperties
  <2>3. /\ Len(Pop(nonces)) = Len(nonces) - 1
        /\ \A i \in 1..Len(Pop(nonces)) : Pop(nonces)[i] = nonces[i]
    BY <2>1, PopLemma
  <2> QED
    BY <2>1, <2>2, <2>3, Zenon
<1>2. 1..Len(nonces') \subseteq 1..Len(nonces) /\ Len(nonces) \notin 1..Len(nonces')
  BY <1>1
<1>3. \A x \in Pooled' : x \in Pooled /\ x # Top(nonces)
  <2> SUFFICES ASSUME NEW i \in 1..Len(nonces')
               PROVE  nonces'[i] \in Pooled /\ nonces'[i] # Top(nonces)
    BY DEF Pooled
  <2>1. nonces'[i] = nonces[i] /\ i \in 1..Len(nonces) /\ i # Len(nonces)
    BY <1>1, <1>2, Zenon
  <2> QED
    BY <1>1, <2>1, Zenon DEF Pooled, Placement, Top
<1>4. Top(nonces) \in Pooled /\ Top(nonces) \in 1..lastNonce /\ Top(nonces) \notin delivered
  BY <1>1 DEF Pooled, Placement, Top
<1>5. \A v \in Worker \ {w} : Token(v) # NoNonce => Token(v) # Top(nonces)
  BY <1>4 DEF Placement
<1>6. \A v \in Worker : Token(v)' # NoNonce =>
        Token(v)' \in 1..lastNonce' /\ Token(v)' \notin delivered' /\ Token(v)' \notin Pooled'
  BY <1>3, <1>4 DEF Placement, OthersKeep
<1>7. \A u, v \in Worker : u # v /\ Token(v)' # NoNonce => Token(u)' # Token(v)'
  BY <1>5 DEF Placement, OthersKeep
<1>8. \A i \in 1..Len(nonces') : nonces'[i] \in 1..lastNonce' /\ nonces'[i] \notin delivered'
  BY <1>1, <1>2 DEF Placement
<1>9. ASSUME NEW i \in 1..Len(nonces'), NEW j \in 1..Len(nonces'), i # j
      PROVE  nonces'[i] # nonces'[j]
  <2>1. /\ i \in 1..Len(nonces) /\ j \in 1..Len(nonces)
        /\ nonces'[i] = nonces[i] /\ nonces'[j] = nonces[j]
    BY <1>1, <1>2, Zenon
  <2> QED
    BY <1>9, <2>1, Zenon DEF Placement
<1>10. \A v \in Worker : pc'[v] = "post" => held'[v] # NoNonce
  BY DEF Placement, OthersKeep
<1> QED
  BY <1>6, <1>7, <1>8, <1>9, <1>10 DEF Placement

LEMMA DeliverLemma ==
  ASSUME TypeOK, TypeOK', Placement, NEW w \in Worker, OthersKeep(w),
         nonces' = nonces,
         \/ lastNonce' = lastNonce /\ Token(w)' \in {NoNonce, Token(w)}
         \/ lastNonce' = lastNonce + 1 /\ Token(w)' = lastNonce + 1,
         \/ delivered' = delivered
         \/ /\ Token(w) # NoNonce /\ Token(w)' # Token(w)
            /\ delivered' = delivered \cup {Token(w)},
         pc'[w] = "post" => held'[w] # NoNonce
  PROVE  Placement'
<1> USE DEF NoNonce
<1>0. lastNonce \in Nat /\ lastNonce' \in Nat /\ Pooled' = Pooled
  BY DEF TypeOK, Pooled
<1>1. 1..lastNonce \subseteq 1..lastNonce' /\ lastNonce + 1 \notin 1..lastNonce
  BY <1>0
<1>2. \A x \in Pooled : x \in 1..lastNonce /\ x # Token(w)
  BY <1>0 DEF Pooled, Placement
<1>3. delivered' \subseteq 1..lastNonce'
  BY <1>1 DEF Placement
<1>4. \A v \in Worker \ {w} : Token(v) # NoNonce => Token(v) \in 1..lastNonce /\ Token(v) # Token(w)
  BY DEF Placement
<1>5. Token(w)' # NoNonce =>
        Token(w)' \in 1..lastNonce' /\ Token(w)' \notin delivered' /\ Token(w)' \notin Pooled
  <2>1. CASE lastNonce' = lastNonce /\ Token(w)' \in {NoNonce, Token(w)}
    BY <2>1 DEF Placement
  <2>2. CASE lastNonce' = lastNonce + 1 /\ Token(w)' = lastNonce + 1
    <3>1. Token(w)' \in 1..lastNonce' /\ Token(w)' \notin delivered /\ Token(w)' \notin Pooled
      BY <1>0, <1>1, <1>2, <2>2 DEF Placement
    <3> QED
      BY <3>1
  <2> QED
    BY <2>1, <2>2
<1>6. \A v \in Worker : Token(v)' # NoNonce =>
        Token(v)' \in 1..lastNonce' /\ Token(v)' \notin delivered' /\ Token(v)' \notin Pooled'
  BY <1>0, <1>1, <1>4, <1>5 DEF Placement, OthersKeep
<1>7. \A v \in Worker \ {w} : Token(v) # NoNonce => Token(v) # Token(w)'
  BY <1>1, <1>4
<1>8. \A u, v \in Worker : u # v /\ Token(v)' # NoNonce => Token(u)' # Token(v)'
  BY <1>7 DEF Placement, OthersKeep
<1>9. \A i \in 1..Len(nonces) : nonces[i] \in 1..lastNonce' /\ nonces[i] \notin delivered'
  BY <1>1, <1>2 DEF Placement, Pooled
<1>10. \A v \in Worker : pc'[v] = "post" => held'[v] # NoNonce
  BY DEF Placement, OthersKeep
<1> QED
  BY <1>3, <1>6, <1>8, <1>9, <1>10 DEF Placement

LEMMA GiveBackLemma ==
  ASSUME TypeOK, TypeOK', Placement, NEW w \in Worker, OthersKeep(w),
         pc[w] = "recv", nonces' = Push(nonces, reply[w]),
         Token(w)' = NoNonce, pc'[w] # "post",
         UNCHANGED <<lastNonce, delivered>>
  PROVE  Placement'
<1>1. CASE reply[w].nonce = NoNonce
  <2>1. nonces' = nonces
    BY <1>1 DEF Push
  <2> QED
    BY <2>1, DeliverLemma
<1>2. CASE reply[w].nonce # NoNonce
  <2> DEFINE t == reply[w].nonce
  <2>1. Token(w) = t
    BY DEF Token
  <2>2. t \in 1..lastNonce /\ t \notin delivered /\ t \notin Pooled
    BY <1>2, <2>1, Zenon DEF Placement
  <2>3. nonces \in Seq(Nat \ {0}) /\ t \in Nat \ {0} /\ Len(nonces) \in Nat
    BY <1>2, <2>2, LenProperties, ResponseLemma DEF TypeOK, NoNonce
  <2>4. /\ Len(nonces') = Len(nonces) + 1
        /\ \A i \in 1..Len(nonces) : nonces'[i] = nonces[i]
        /\ nonces'[Len(nonces) + 1] = t
    <3>1. /\ Len(Push(nonces, reply[w])) = Len(nonces) + 1
          /\ \A i \in 1..Len(nonces) : Push(nonces, reply[w])[i] = nonces[i]
          /\ Push(nonces, reply[w])[Len(nonces) + 1] = t
      BY <1>2, <2>3 DEF Push
    <3> QED
      BY <3>1, Zenon
  <2>5. \A i \in 1..Len(nonces') : i \in 1..Len(nonces) \/ i = Len(nonces) + 1
    BY <2>3, <2>4
  <2>6. \A x \in Pooled' : x \in Pooled \/ x = t
    BY <2>4, <2>5, Zenon DEF Pooled
  <2>7. \A v \in Worker : Token(v)' # NoNonce =>
          /\ v # w /\ Token(v)' = Token(v)
          /\ Token(v)' \in 1..lastNonce' /\ Token(v)' \notin delivered'
          /\ Token(v)' \notin Pooled'
    <3> SUFFICES ASSUME NEW v \in Worker, Token(v)' # NoNonce
                 PROVE  /\ v # w /\ Token(v)' = Token(v)
                        /\ Token(v)' \in 1..lastNonce' /\ Token(v)' \notin delivered'
                        /\ Token(v)' \notin Pooled'
      BY Zenon
    <3>1. v # w /\ Token(v)' = Token(v)
      BY Zenon DEF OthersKeep
    <3>2. /\ Token(v) \in 1..lastNonce /\ Token(v) \notin delivered
          /\ Token(v) \notin Pooled /\ Token(v) # t
      BY <1>2, <2>1, <3>1, Zenon DEF Placement
    <3> QED
      BY <2>6, <3>1, <3>2, Zenon
  <2>8. \A u, v \in Worker : u # v /\ Token(v)' # NoNonce => Token(u)' # Token(v)'
    BY <2>7 DEF Placement, OthersKeep
  <2>9. \A i \in 1..Len(nonces') : nonces'[i] \in 1..lastNonce' /\ nonces'[i] \notin delivered'
    BY <2>2, <2>4, <2>5, Zenon DEF Placement
  <2>10. \A i, j \in 1..Len(nonces') : i # j => nonces'[i] # nonces'[j]
    <3>1. \A i \in 1..Len(nonces) : nonces[i] # t
      BY <2>2 DEF Pooled
    <3>2. SUFFICES ASSUME NEW i \in 1..Len(nonces'), NEW j \in 1..Len(nonces'), i # j
                   PROVE  nonces'[i] # nonces'[j]
      OBVIOUS
    <3>3. CASE i \in 1..Len(nonces) /\ j \in 1..Len(nonces)
      <4>1. nonces'[i] = nonces[i] /\ nonces'[j] = nonces[j]
        BY <2>4, <3>3, Zenon
      <4>2. nonces[i] # nonces[j]
        BY <3>2, <3>3, Zenon DEF Placement
      <4> QED
        BY <4>1, <4>2, Zenon
    <3>4. CASE i \in 1..Len(nonces) /\ j = Len(nonces) + 1
      BY <2>4, <3>1, <3>4, Zenon
    <3>5. CASE i = Len(nonces) + 1 /\ j \in 1..Len(nonces)
      BY <2>4, <3>1, <3>5, Zenon
    <3> QED
      BY <2>5, <3>2, <3>3, <3>4, <3>5, Zenon
  <2>11. \A v \in Worker : pc'[v] = "post" => held'[v] # NoNonce
    BY DEF Placement, OthersKeep
  <2>12. delivered' \subseteq 1..lastNonce'
    BY DEF Placement
  <2> QED
    BY <2>7, <2>8, <2>9, <2>10, <2>11, <2>12, Zenon DEF Placement
<1> QED
  BY <1>1, <1>2

(* Every nonce stays in one place whatever the goroutines do.              *)
LEMMA PlacementNext ==
  TypeOK /\ TypeOK' /\ Placement /\ [Next]_vars => Placement'
<1> SUFFICES ASSUME TypeOK, TypeOK', Placement, [Next]_vars PROVE Placement'
  OBVIOUS
<1>1. ASSUME NEW w \in Worker, Post(w) \/ Retry(w) PROVE Placement'
  <2>1. OthersKeep(w)
    BY <1>1, OthersLemma
  <2>2. pc'[w] = "sign" /\ UNCHANGED <<nonces, lastNonce, delivered>>
    BY <1>1 DEF Post, Retry, TypeOK, server
  <2> QED
    BY <2>1, <2>2, DeliverLemma DEF Token
<1>2. ASSUME NEW w \in Worker, Nonce(w) PROVE Placement'
  <2>1. OthersKeep(w)
    BY <1>2, OthersLemma
  <2>2. UNCHANGED <<lastNonce, delivered>>
    BY <1>2 DEF Nonce, server
  <2>3. CASE Len(nonces) = 0
    <3>1. pc'[w] = "head" /\ nonces' = nonces
      BY <1>2, <2>3 DEF Nonce, TypeOK
    <3> QED
      BY <2>1, <2>2, <3>1, DeliverLemma DEF Token
  <2>4. CASE Len(nonces) # 0
    <3>1. pc'[w] = "post" /\ held'[w] = Top(nonces) /\ nonces' = Pop(nonces)
      BY <1>2, <2>4 DEF Nonce, TypeOK
    <3>2. Top(nonces) # NoNonce
      <4>1. nonces \in Seq(Nat \ {0})
        BY DEF TypeOK
      <4>2. Top(nonces) \in Nat \ {0}
        BY <2>4, <4>1, PopLemma
      <4> QED
        BY <4>2 DEF NoNonce
    <3>3. Token(w)' = Top(nonces)
      BY <3>1 DEF Token
    <3> QED
      BY <2>1, <2>2, <2>4, <3>1, <3>2, <3>3, TakeLemma
  <2> QED
    BY <2>3, <2>4
<1>3. ASSUME NEW w \in Worker, SignFails(w) PROVE Placement'
  <2>1. OthersKeep(w)
    BY <1>3, OthersLemma
  <2>2. pc'[w] = "idle" /\ Token(w)' = NoNonce /\ UNCHANGED <<lastNonce, delivered>>
    BY <1>3 DEF SignFails, Return, TypeOK, Token, server
  <2>3. nonces' = nonces \/ (Len(nonces) # 0 /\ nonces' = Pop(nonces))
    BY <1>3 DEF SignFails
  <2> QED
    BY <2>1, <2>2, <2>3, DeliverLemma, TakeLemma
<1>4. ASSUME NEW w \in Worker, getNonce(w) PROVE Placement'
  <2>1. OthersKeep(w)
    BY <1>4, OthersLemma
  <2>2. \/ lastNonce' = lastNonce /\ Token(w)' = NoNonce /\ pc'[w] = "idle"
        \/ lastNonce' = lastNonce + 1 /\ Token(w)' = lastNonce + 1 /\ held'[w] # NoNonce
    BY <1>4 DEF getNonce, Return, TypeOK, Token, NoNonce
  <2>3. UNCHANGED <<nonces, delivered>>
    BY <1>4 DEF getNonce
  <2> QED
    BY <2>1, <2>2, <2>3, DeliverLemma
<1>5. ASSUME NEW w \in Worker, ServerReceive(w) PROVE Placement'
  <2>1. OthersKeep(w)
    BY <1>5, OthersLemma
  <2>2. PICK fresh \in {NoNonce, lastNonce + 1}, code \in Code, body \in Body :
          /\ lastNonce' = IF fresh = NoNonce THEN lastNonce ELSE fresh
          /\ reply' = [reply EXCEPT ![w] = [code |-> code, body |-> body, nonce |-> fresh]]
    BY <1>5 DEF ServerReceive
  <2>3. pc[w] = "post" /\ pc'[w] = "recv" /\ nonces' = nonces
    BY <1>5 DEF ServerReceive, TypeOK
  <2>4. Token(w) = held[w] /\ Token(w)' = fresh
    BY <2>2, <2>3 DEF Token, TypeOK
  <2>5. Token(w) # NoNonce /\ Token(w) \in 1..lastNonce
    BY <2>3, <2>4, Zenon DEF Placement
  <2>6. Token(w)' # Token(w)
    BY <2>4, <2>5 DEF TypeOK, NoNonce
  <2>7. delivered' = delivered \cup {Token(w)}
    BY <1>5, <2>4 DEF ServerReceive
  <2>8. \/ lastNonce' = lastNonce /\ Token(w)' = NoNonce
        \/ lastNonce' = lastNonce + 1 /\ Token(w)' = lastNonce + 1
    BY <2>2, <2>4
  <2> QED
    BY <2>1, <2>3, <2>5, <2>6, <2>7, <2>8, DeliverLemma
<1>6. ASSUME NEW w \in Worker, TransportError(w) PROVE Placement'
  <2>1. OthersKeep(w)
    BY <1>6, OthersLemma
  <2>2. pc'[w] = "idle" /\ Token(w)' = NoNonce /\ UNCHANGED <<nonces, lastNonce, delivered>>
    BY <1>6 DEF TransportError, Return, TypeOK, Token, server
  <2> QED
    BY <2>1, <2>2, DeliverLemma
<1>7. ASSUME NEW w \in Worker, Receive(w) PROVE Placement'
  <2>1. OthersKeep(w)
    BY <1>7, OthersLemma
  <2>2. pc[w] = "recv" /\ nonces' = Push(nonces, reply[w]) /\ UNCHANGED <<lastNonce, delivered>>
    BY <1>7 DEF Receive, server
  <2>3. pc'[w] \in {"idle", "backoff"}
    BY <1>7 DEF Receive, Return, TypeOK
  <2>4. Token(w)' = NoNonce
    BY <2>3 DEF Token
  <2> QED
    BY <2>1, <2>2, <2>3, <2>4, GiveBackLemma
<1>8. ASSUME NEW w \in Worker, Panic(w) PROVE Placement'
  <2>1. /\ \A v \in Worker : pc'[v] \in {"idle", "crashed"} /\ Token(v)' = NoNonce
        /\ UNCHANGED <<nonces, lastNonce, delivered>>
    BY <1>8, PanicLemma
  <2> QED
    BY <2>1 DEF Placement
<1>9. CASE Expire \/ UNCHANGED vars
  BY <1>9 DEF Expire, vars, client, Placement, Token, Pooled
<1> QED
  BY <1>1, <1>2, <1>3, <1>4, <1>5, <1>6, <1>7, <1>8, <1>9
     DEF Next, Exchange, Finished

-----------------------------------------------------------------------------
LEMMA CommittedFinite ==
  /\ IsFiniteSet(Worker) /\ Cardinality(Worker) \in Nat
  /\ IsFiniteSet(Committed) /\ Cardinality(Committed) \in Nat
  /\ Cardinality(Committed) <= Cardinality(Worker)
<1>1. IsFiniteSet(Worker) /\ Committed \in SUBSET Worker
  BY WorkerAssumption DEF Committed
<1> QED
  BY <1>1, FS_Subset, FS_CardinalityType

(* What the count of committed goroutines does when one of them moves.     *)
LEMMA CommittedMove ==
  ASSUME TypeOK, TypeOK', NEW w \in Worker, OthersKeep(w)
  PROVE  /\ (w \in Committed <=> w \in Committed') => Committed' = Committed
         /\ (w \notin Committed /\ w \in Committed') =>
               Cardinality(Committed') = Cardinality(Committed) + 1
         /\ (w \in Committed /\ w \notin Committed') =>
               Cardinality(Committed') = Cardinality(Committed) - 1
<1>1. \A v \in Worker \ {w} : v \in Committed <=> v \in Committed'
  BY DEF OthersKeep, Committed
<1>2. Committed \subseteq Worker /\ Committed' \subseteq Worker
  BY DEF Committed
<1>3. (w \in Committed <=> w \in Committed') => Committed' = Committed
  BY <1>1, <1>2
<1>4. w \notin Committed /\ w \in Committed' => Committed' = Committed \cup {w}
  BY <1>1, <1>2
<1>5. w \in Committed /\ w \notin Committed' => Committed' = Committed \ {w}
  BY <1>1, <1>2
<1> QED
  BY <1>3, <1>4, <1>5, CommittedFinite, FS_AddElement, FS_RemoveElement

(* The nonces in the stack and the goroutines committed to return one      *)
(* never outnumber the goroutines.                                         *)
LEMMA BalanceNext == TypeOK /\ TypeOK' /\ Balance /\ [Next]_vars => Balance'
<1> SUFFICES ASSUME TypeOK, TypeOK', Balance, [Next]_vars PROVE Balance'
  OBVIOUS
<1>0. /\ Len(nonces) \in Nat /\ Len(nonces') \in Nat
      /\ Cardinality(Committed) \in Nat /\ Cardinality(Worker) \in Nat
      /\ nonces \in Seq(Nat \ {0})
  BY CommittedFinite, LenProperties DEF TypeOK
<1>1. ASSUME NEW w \in Worker, Post(w) \/ Retry(w) PROVE Balance'
  <2>1. OthersKeep(w)
    BY <1>1, OthersLemma
  <2>2. w \notin Committed /\ w \notin Committed' /\ nonces' = nonces
    BY <1>1 DEF Post, Retry, TypeOK, Committed
  <2> QED
    BY <2>1, <2>2, CommittedMove DEF Balance
<1>2. ASSUME NEW w \in Worker, Nonce(w) PROVE Balance'
  <2>1. OthersKeep(w)
    BY <1>2, OthersLemma
  <2>2. w \notin Committed /\ w \in Committed'
    BY <1>2 DEF Nonce, TypeOK, Committed
  <2>3. Cardinality(Committed') = Cardinality(Committed) + 1
    BY <2>1, <2>2, CommittedMove
  <2>4. CASE Len(nonces) = 0
    <3>1. nonces' = nonces
      BY <1>2, <2>4 DEF Nonce
    <3>2. Cardinality(Committed') <= Cardinality(Worker)
      <4>1. IsFiniteSet(Worker) /\ Committed' \in SUBSET Worker
        BY WorkerAssumption DEF Committed
      <4> QED
        BY <4>1, FS_Subset
    <3>3. Len(nonces') = 0
      BY <2>4, <3>1
    <3> QED
      BY <1>0, <2>3, <3>2, <3>3 DEF Balance
  <2>5. CASE Len(nonces) # 0
    <3>1. nonces' = Pop(nonces) /\ Len(Pop(nonces)) = Len(nonces) - 1
      BY <1>0, <1>2, <2>5, PopLemma DEF Nonce
    <3>2. Len(nonces') = Len(nonces) - 1
      BY <3>1, Zenon
    <3> QED
      BY <1>0, <2>3, <3>2 DEF Balance
  <2> QED
    BY <2>4, <2>5
<1>3. ASSUME NEW w \in Worker, SignFails(w) PROVE Balance'
  <2>1. OthersKeep(w)
    BY <1>3, OthersLemma
  <2>2. w \notin Committed /\ w \notin Committed'
    BY <1>3 DEF SignFails, Return, TypeOK, Committed
  <2>3. Committed' = Committed
    BY <2>1, <2>2, CommittedMove
  <2>4. nonces' = nonces \/ (Len(nonces) # 0 /\ nonces' = Pop(nonces))
    BY <1>3 DEF SignFails
  <2>5. Len(nonces) # 0 => Len(Pop(nonces)) = Len(nonces) - 1
    BY <1>0, PopLemma
  <2>6. Len(nonces') = Len(nonces) \/ Len(nonces') = Len(nonces) - 1
    BY <2>4, <2>5, Zenon
  <2> QED
    BY <1>0, <2>3, <2>6 DEF Balance
<1>4. ASSUME NEW w \in Worker, getNonce(w) \/ TransportError(w) PROVE Balance'
  <2>1. OthersKeep(w)
    BY <1>4, OthersLemma
  <2>2. w \in Committed /\ nonces' = nonces
    BY <1>4 DEF getNonce, TransportError, TypeOK, Committed
  <2>3. Cardinality(Committed') \in {Cardinality(Committed), Cardinality(Committed) - 1}
    BY <2>1, <2>2, CommittedMove
  <2> QED
    BY <1>0, <2>2, <2>3 DEF Balance
<1>5. ASSUME NEW w \in Worker, ServerReceive(w) PROVE Balance'
  <2>1. OthersKeep(w)
    BY <1>5, OthersLemma
  <2>2. w \in Committed /\ w \in Committed' /\ nonces' = nonces
    BY <1>5 DEF ServerReceive, TypeOK, Committed
  <2> QED
    BY <2>1, <2>2, CommittedMove DEF Balance
<1>6. ASSUME NEW w \in Worker, Receive(w) PROVE Balance'
  <2>1. OthersKeep(w)
    BY <1>6, OthersLemma
  <2>2. pc'[w] \in {"idle", "backoff"} /\ pc[w] = "recv"
    BY <1>6 DEF Receive, Return, TypeOK
  <2>3. w \in Committed /\ w \notin Committed'
    BY <2>2 DEF Committed
  <2>4. Cardinality(Committed') = Cardinality(Committed) - 1
    BY <2>1, <2>3, CommittedMove
  <2>5. reply[w].nonce \in Nat
    BY ResponseLemma DEF TypeOK
  <2>6. Len(Push(nonces, reply[w])) \in {Len(nonces), Len(nonces) + 1}
    BY <1>0, <2>5 DEF Push, NoNonce
  <2>7. nonces' = Push(nonces, reply[w])
    BY <1>6 DEF Receive
  <2>8. Len(nonces') \in {Len(nonces), Len(nonces) + 1}
    BY <2>6, <2>7, Zenon
  <2> QED
    BY <1>0, <2>4, <2>8 DEF Balance
<1>7. ASSUME NEW w \in Worker, Panic(w) PROVE Balance'
  <2>1. Committed' = {} /\ nonces' = nonces
    BY <1>7, PanicLemma DEF Committed
  <2>2. Cardinality(Committed') = 0
    BY <2>1, FS_EmptySet
  <2> QED
    BY <1>0, <2>1, <2>2 DEF Balance
<1>8. CASE Expire \/ UNCHANGED vars
  BY <1>8 DEF Expire, vars, client, Balance, Committed
<1> QED
  BY <1>1, <1>2, <1>3, <1>4, <1>5, <1>6, <1>7, <1>8
     DEF Next, Exchange, Finished

-----------------------------------------------------------------------------
(* A call is executed at most once and its answer says whether it was.     *)
LEMMA ExecutionNext ==
  TypeOK /\ TypeOK' /\ Execution /\ [Next]_vars => Execution'
<1> DEFINE E(v) == /\ executed[v] \in {0, 1}
                   /\ pc[v] \in {"sign", "head", "post", "backoff"} => executed[v] = 0
                   /\ pc[v] = "recv" => (executed[v] = 1 <=> reply[v].code = "2xx")
                   /\ pc[v] # "idle" => result[v] = "none"
                   /\ result[v] = "ok" => executed[v] = 1
<1> SUFFICES ASSUME TypeOK, TypeOK', Execution, [Next]_vars, NEW v \in Worker
             PROVE  E(v)'
  BY DEF Execution
<1>0. E(v)
  BY DEF Execution
<1>1. ASSUME NEW w \in Worker, Post(w) \/ Nonce(w) \/ Retry(w) PROVE E(v)'
  <2>1. CASE Post(w)
    BY <1>0, <2>1 DEF Post, TypeOK, server
  <2>2. CASE Nonce(w)
    BY <1>0, <2>2 DEF Nonce, TypeOK, server
  <2>3. CASE Retry(w)
    BY <1>0, <2>3 DEF Retry, TypeOK, server
  <2> QED
    BY <1>1, <2>1, <2>2, <2>3
<1>2. ASSUME NEW w \in Worker, SignFails(w) \/ TransportError(w) PROVE E(v)'
  <2>1. CASE SignFails(w)
    BY <1>0, <2>1 DEF SignFails, Return, TypeOK, server
  <2>2. CASE TransportError(w)
    BY <1>0, <2>2 DEF TransportError, Return, TypeOK, server
  <2> QED
    BY <1>2, <2>1, <2>2
<1>3. ASSUME NEW w \in Worker, getNonce(w) PROVE E(v)'
  <2>1. executed' = executed /\ result'[v] \in {result[v], "err"}
    BY <1>3 DEF getNonce, Return, TypeOK
  <2>2. CASE v = w
    BY <1>0, <1>3, <2>1, <2>2, SMTT(30) DEF getNonce, Return, TypeOK
  <2>3. CASE v # w
    BY <1>0, <1>3, <2>3, SMTT(30) DEF getNonce, Return, TypeOK
  <2> QED
    BY <2>2, <2>3
<1>4. ASSUME NEW w \in Worker, ServerReceive(w) PROVE E(v)'
  <2>1. PICK fresh \in {NoNonce, lastNonce + 1}, code \in Code, body \in Body :
          /\ executed' = [executed EXCEPT ![w] = IF code = "2xx" THEN @ + 1 ELSE @]
          /\ reply' = [reply EXCEPT ![w] = [code |-> code, body |-> body, nonce |-> fresh]]
    BY <1>4, ZenonT(60) DEF ServerReceive
  <2>2. CASE v = w
    <3>1. executed[v] = 0 /\ result[v] = "none"
      BY <1>0, <1>4, <2>2 DEF ServerReceive
    <3>a. reply'[v] = [code |-> code, body |-> body, nonce |-> fresh]
      BY <2>1, <2>2 DEF TypeOK
    <3>b. executed'[v] = IF code = "2xx" THEN 1 ELSE 0
      BY <2>1, <2>2, <3>1 DEF TypeOK
    <3>2. reply'[v].code = code /\ executed'[v] = IF code = "2xx" THEN 1 ELSE 0
      BY <3>a, <3>b
    <3>3. pc'[v] = "recv" /\ result'[v] = "none"
      BY <1>4, <2>2, <3>1 DEF ServerReceive, TypeOK
    <3> QED
      BY <3>2, <3>3
  <2>3. CASE v # w
    BY <1>0, <1>4, <2>1, <2>3, SMTT(30) DEF ServerReceive, TypeOK
  <2> QED
    BY <2>2, <2>3
<1>5. ASSUME NEW w \in Worker, Receive(w) PROVE E(v)'
  <2>1. /\ do(reply[w]) = "nil" => reply[w].code = "2xx"
        /\ do(reply[w]) = "NonceError" => reply[w].code # "2xx"
    BY DEF do, checkError
  <2>2. CASE v = w
    BY <1>0, <1>5, <2>1, <2>2, SMTT(30) DEF Receive, Return, TypeOK, server
  <2>3. CASE v # w
    BY <1>0, <1>5, <2>3, SMTT(30) DEF Receive, Return, TypeOK, server
  <2> QED
    BY <2>2, <2>3
<1>6. ASSUME NEW w \in Worker, Panic(w) PROVE E(v)'
  BY <1>0, <1>6, PanicLemma
<1>7. CASE Expire \/ UNCHANGED vars
  BY <1>0, <1>7 DEF Expire, vars, client
<1> QED
  BY <1>1, <1>2, <1>3, <1>4, <1>5, <1>6, <1>7 DEF Next, Exchange, Finished

-----------------------------------------------------------------------------
LEMMA InitInv == Init => IInv
<1> SUFFICES ASSUME Init PROVE IInv
  OBVIOUS
<1>1. TypeOK
  BY ResponseLemma, BoundAssumption DEF Init, TypeOK, NoNonce
<1>2. Placement
  BY DEF Init, Placement, Token, NoNonce
<1>3. Balance
  <2>1. Committed = {} /\ Len(nonces) = 0
    BY DEF Init, Committed
  <2> QED
    BY <2>1, FS_EmptySet, CommittedFinite DEF Balance
<1>4. Execution
  BY DEF Init, Execution
<1> QED
  BY <1>1, <1>2, <1>3, <1>4 DEF IInv

LEMMA NextInv == IInv /\ [Next]_vars => IInv'
BY TypeNext, PlacementNext, BalanceNext, ExecutionNext DEF IInv

(* The inductive invariant of the request path.                            *)
THEOREM Invariance == Spec => []IInv
BY InitInv, NextInv, PTL DEF Spec

(* Type correctness of the nonce manager and of the request path, for any  *)
(* number of goroutines and calls.                                         *)
THEOREM TypeCorrect == Spec => []TypeOK
<1>1. IInv => TypeOK
  BY DEF IInv
<1> QED
  BY <1>1, Invariance, PTL

(* No nonce is ever sent twice: Pop and Push under one mutex are enough    *)
(* for any number of goroutines sharing a Core.                            *)
THEOREM NoNonceReplayed == Spec => []NoReplay
<1>1. IInv => NoReplay
  BY DEF IInv, Placement, Token, NoReplay
<1> QED
  BY <1>1, Invariance, PTL

(* The nonce stack never holds more nonces than there are goroutines.      *)
THEOREM NoncePoolBounded == Spec => []PoolBound
<1>1. IInv => PoolBound
  <2> SUFFICES ASSUME IInv PROVE PoolBound
    OBVIOUS
  <2>1. Borrowed \in SUBSET Committed
    BY DEF Borrowed, Committed
  <2>2. Cardinality(Borrowed) <= Cardinality(Committed) /\ IsFiniteSet(Borrowed)
    BY <2>1, CommittedFinite, FS_Subset
  <2>3. Cardinality(Borrowed) \in Nat
    BY <2>2, FS_CardinalityType
  <2>4. Len(nonces) \in Nat
    BY LenProperties DEF IInv, TypeOK
  <2> QED
    BY <2>2, <2>3, <2>4, CommittedFinite DEF IInv, Balance, PoolBound
<1> QED
  BY <1>1, Invariance, PTL

(* The request path implements the contract of a call: executed at most    *)
(* once, and reported as a success only if it was executed.                *)
THEOREM CallContract == Spec => ImplementsCall
<1>1. Init => Call!Init
  BY DEF Init, Call!Init, Calling
<1>2. IInv /\ IInv' /\ [Next]_vars => [Call!Next]_(Call!vars)
  <2> SUFFICES ASSUME IInv, IInv', [Next]_vars PROVE [Call!Next]_(Call!vars)
    OBVIOUS
  <2> USE DEF IInv
  <2>1. ASSUME NEW w \in Worker, Post(w) PROVE Call!Call(w)
    BY <2>1 DEF Post, Call!Call, Calling, TypeOK
  <2>2. ASSUME NEW w \in Worker, Nonce(w) \/ Retry(w) PROVE UNCHANGED Call!vars
    BY <2>2 DEF Nonce, Retry, Call!vars, Calling, TypeOK, server
  <2>3. ASSUME NEW w \in Worker, SignFails(w) \/ TransportError(w) PROVE Call!Return(w)
    BY <2>3 DEF SignFails, TransportError, Return, Call!Return, Calling, TypeOK, server
  <2>4. ASSUME NEW w \in Worker, getNonce(w)
        PROVE  Call!Return(w) \/ UNCHANGED Call!vars
    BY <2>4 DEF getNonce, Return, Call!Return, Call!vars, Calling, TypeOK
  <2>5. ASSUME NEW w \in Worker, ServerReceive(w)
        PROVE  Call!Execute(w) \/ UNCHANGED Call!vars
    <3>1. PICK code \in Code :
            executed' = [executed EXCEPT ![w] = IF code = "2xx" THEN @ + 1 ELSE @]
      BY <2>5, ZenonT(60) DEF ServerReceive
    <3>a. pc[w] = "post" /\ pc' = [pc EXCEPT ![w] = "recv"] /\ result' = result
      BY <2>5 DEF ServerReceive
    <3>b. executed[w] = 0
      BY <3>a DEF Execution
    <3>c. Calling' = Calling /\ w \in Calling
      BY <3>a DEF Calling, TypeOK
    <3>2. executed[w] = 0 /\ Calling' = Calling /\ w \in Calling /\ result' = result
      BY <3>a, <3>b, <3>c
    <3>3. CASE code = "2xx"
      BY <3>1, <3>2, <3>3 DEF Call!Execute, TypeOK
    <3>4. CASE code # "2xx"
      BY <3>1, <3>2, <3>4 DEF Call!vars, TypeOK
    <3> QED
      BY <3>3, <3>4
  <2>6. ASSUME NEW w \in Worker, Receive(w)
        PROVE  Call!Return(w) \/ UNCHANGED Call!vars
    <3>1. do(reply[w]) = "nil" => reply[w].code = "2xx"
      BY DEF do, checkError
    <3> QED
      BY <2>6, <3>1, SMTT(30) DEF Receive, Return, Call!Return, Call!vars, Calling, TypeOK,
         Execution, server
  <2>7. ASSUME NEW w \in Worker, Panic(w) PROVE UNCHANGED Call!vars
    BY <2>7, PanicLemma DEF Call!vars, Calling
  <2>8. CASE Expire \/ UNCHANGED vars
    BY <2>8 DEF Expire, vars, client, Call!vars, Calling
  <2> QED
    BY <2>1, <2>2, <2>3, <2>4, <2>5, <2>6, <2>7, <2>8
       DEF Next, Exchange, Finished, Call!Next
<1> QED
  BY <1>1, <1>2, Invariance, PTL DEF Spec, ImplementsCall, Call!Spec
=============================================================================
