-------------------------------- MODULE Api --------------------------------
(***************************************************************************)
(* The signed request path of acme/api: Core.retrievablePost, signedPost,  *)
(* the nonce manager they share and the sender's error classification.     *)
(*                                                                         *)
(* Every ACME request of lego goes through this path, and several          *)
(* goroutines use one Core at the same time (getAuthorizations starts one  *)
(* per authorization), so the nonce stack is shared.  The ACME server is   *)
(* external: it issues nonces, accepts each at most once, forgets nonces   *)
(* whenever it likes, and its answers can be lost.                         *)
(***************************************************************************)
EXTENDS Integers, Sequences, FiniteSets

CONSTANTS
    Worker,        \* goroutines that call post / postAsGet on one Core
    MaxCalls,      \* bound: calls made by each goroutine, a function
    MaxRetries     \* retries that fit in MaxElapsedTime (20 s) of the backoff

ASSUME WorkerAssumption == IsFiniteSet(Worker)
ASSUME BoundAssumption == MaxCalls \in [Worker -> Nat] /\ MaxRetries \in Nat

VARIABLES
    nonces,        \* Manager.nonces, the last element is the top of the stack
    pc,            \* where each goroutine stands in retrievablePost
    held,          \* the nonce signed into the goroutine's current JWS
    retries,       \* retries taken by the current call
    reply,         \* the HTTP response on its way to the goroutine
    result,        \* what the last call returned
    calls,         \* calls started (bound)
    lastNonce,     \* external: the server has issued the nonces 1..lastNonce
    live,          \* external: the nonces the server still accepts
    delivered,     \* external: nonces of the JWS that reached the server
    executed       \* external: times the server executed the current call

client == <<nonces, pc, held, retries, reply, result, calls>>
server == <<lastNonce, live, delivered, executed>>
vars == <<nonces, pc, held, retries, reply, result, calls,
          lastNonce, live, delivered, executed>>

----------------------------------------------------------------------------
(* Responses.  A nonce of 0 is an absent Replay-Nonce header.  "problem"   *)
(* bodies carry a type and a status member; the status member is optional  *)
(* in RFC 7807.  "garbled" is a body that is not the JSON asked for, and   *)
(* "null" one that leaves checkError without a problem document.           *)

NoNonce == 0

Body == {"resource", "garbled"} \cup
        {"badNonce", "badNonceNoStatus", "otherProblem", "null"}

Code == {"2xx", "4xx"}

Response == [code : Code, body : Body, nonce : Nat]

NoResponse == [code |-> "4xx", body |-> "garbled", nonce |-> NoNonce]

(* errorDetails is a pointer, nil after Unmarshal of a null.               *)
checkError(r) ==
    IF r.code = "2xx" THEN "nil"
    ELSE IF r.body = "null" THEN "panic"
    ELSE IF r.body = "badNonce" THEN "NonceError"
    ELSE "error"

doRetriesEverything(r) ==
    IF r.code = "2xx" /\ r.body = "resource" THEN "nil" ELSE "NonceError"

do(r) ==
    IF checkError(r) = "nil" /\ r.body = "garbled" THEN "error"
    ELSE checkError(r)

----------------------------------------------------------------------------
(* The nonce manager.  Push and Pop hold the mutex, so each is one step.   *)

PopPeeks(n) == n

Pop(n) == SubSeq(n, 1, Len(n) - 1)

Top(n) == n[Len(n)]

PushUnchecked(n, r) == Append(n, r.nonce)

Push(n, r) == IF r.nonce = NoNonce THEN n ELSE Append(n, r.nonce)

Init ==
    /\ nonces = << >>
    /\ pc = [w \in Worker |-> "idle"]
    /\ held = [w \in Worker |-> NoNonce]
    /\ retries = [w \in Worker |-> 0]
    /\ reply = [w \in Worker |-> NoResponse]
    /\ result = [w \in Worker |-> "none"]
    /\ calls = [w \in Worker |-> 0]
    /\ lastNonce = 0
    /\ live = {}
    /\ delivered = {}
    /\ executed = [w \in Worker |-> 0]

Return(w, res) ==
    /\ pc' = [pc EXCEPT ![w] = "idle"]
    /\ held' = [held EXCEPT ![w] = NoNonce]
    /\ reply' = [reply EXCEPT ![w] = NoResponse]
    /\ retries' = [retries EXCEPT ![w] = 0]
    /\ result' = [result EXCEPT ![w] = res]

Crashed == \E w \in Worker : pc[w] = "crashed"

(* A goroutine enters retrievablePost. *)
Post(w) ==
    /\ pc[w] = "idle" /\ ~Crashed
    /\ calls[w] < MaxCalls[w]
    /\ pc' = [pc EXCEPT ![w] = "sign"]
    /\ calls' = [calls EXCEPT ![w] = @ + 1]
    /\ result' = [result EXCEPT ![w] = "none"]
    /\ executed' = [executed EXCEPT ![w] = 0]
    /\ UNCHANGED <<nonces, held, retries, reply, lastNonce, live, delivered>>

NonceWaits(w) ==
    /\ pc[w] = "sign"
    /\ Len(nonces) > 0
    /\ nonces' = Pop(nonces)
    /\ held' = [held EXCEPT ![w] = Top(nonces)]
    /\ pc' = [pc EXCEPT ![w] = "post"]
    /\ UNCHANGED <<retries, reply, result, calls, server>>

(* SignContent asks Nonce() for a nonce: the stack's top if there is one. *)
Nonce(w) ==
    /\ pc[w] = "sign"
    /\ IF Len(nonces) = 0
       THEN /\ pc' = [pc EXCEPT ![w] = "head"]
            /\ UNCHANGED <<nonces, held>>
       ELSE /\ nonces' = Pop(nonces)
            /\ held' = [held EXCEPT ![w] = Top(nonces)]
            /\ pc' = [pc EXCEPT ![w] = "post"]
    /\ UNCHANGED <<retries, reply, result, calls, server>>

(* SignContent fails: before a nonce was taken, or after (it is dropped). *)
SignFails(w) ==
    /\ pc[w] = "sign"
    /\ \/ UNCHANGED nonces
       \/ Len(nonces) > 0 /\ nonces' = Pop(nonces)
    /\ Return(w, "err")
    /\ UNCHANGED <<calls, server>>

getNoncePushes(w) ==
    /\ pc[w] = "head"
    /\ lastNonce' = lastNonce + 1
    /\ live' = live \cup {lastNonce + 1}
    /\ nonces' = Append(nonces, lastNonce + 1)
    /\ held' = [held EXCEPT ![w] = lastNonce + 1]
    /\ pc' = [pc EXCEPT ![w] = "post"]
    /\ UNCHANGED <<retries, reply, result, calls, delivered, executed>>

(* getNonce: HEAD newNonce, outside the lock; the nonce is used at once.   *)
(* A failed request or an answer without a nonce ends the whole call.      *)
getNonce(w) ==
    /\ pc[w] = "head"
    /\ \/ /\ lastNonce' = lastNonce + 1
          /\ live' = live \cup {lastNonce + 1}
          /\ held' = [held EXCEPT ![w] = lastNonce + 1]
          /\ pc' = [pc EXCEPT ![w] = "post"]
          /\ UNCHANGED <<reply, retries, result>>
       \/ /\ Return(w, "err")
          /\ UNCHANGED <<lastNonce, live>>
    /\ UNCHANGED <<nonces, calls, delivered, executed>>

(* The bodies the server may answer with, by whether it accepted the nonce. *)
Answers(accepted, code) ==
    CASE accepted /\ code = "2xx" -> {"resource", "garbled"}
      [] accepted /\ code = "4xx" -> {"otherProblem", "null"}
      [] ~accepted /\ code = "4xx" -> {"badNonce", "badNonceNoStatus"}
      [] OTHER -> {}

(* The server receives the JWS.  It executes the request only if it still  *)
(* accepts the nonce, and answers with or without a fresh nonce.           *)
ServerReceive(w) ==
    /\ pc[w] = "post"
    /\ \E fresh \in {NoNonce, lastNonce + 1}, code \in Code, body \in Body :
         /\ body \in Answers(held[w] \in live, code)
         /\ executed' = [executed EXCEPT ![w] =
                            IF code = "2xx" THEN @ + 1 ELSE @]
         /\ lastNonce' = IF fresh = NoNonce THEN lastNonce ELSE fresh
         /\ live' = (live \ {held[w]}) \cup ({fresh} \ {NoNonce})
         /\ reply' = [reply EXCEPT ![w] =
                [code |-> code, body |-> body, nonce |-> fresh]]
    /\ delivered' = delivered \cup {held[w]}
    /\ pc' = [pc EXCEPT ![w] = "recv"]
    /\ UNCHANGED <<nonces, held, retries, result, calls>>

(* The request or its answer is lost: resp is nil, so nothing is pushed,   *)
(* and the error is not a NonceError, so nothing is retried.               *)
TransportError(w) ==
    /\ pc[w] \in {"post", "recv"}
    /\ Return(w, "err")
    /\ UNCHANGED <<nonces, calls, server>>

(* signedPost pushes the answer's nonce whatever the answer says, then     *)
(* retrievablePost retries on a NonceError only, while the backoff allows. *)
Receive(w) ==
    /\ pc[w] = "recv"
    /\ nonces' = Push(nonces, reply[w])
    /\ \/ /\ do(reply[w]) = "nil"
          /\ Return(w, "ok")
       \/ /\ do(reply[w]) = "NonceError"
          /\ retries[w] < MaxRetries
          /\ pc' = [pc EXCEPT ![w] = "backoff"]
          /\ held' = [held EXCEPT ![w] = NoNonce]
          /\ reply' = [reply EXCEPT ![w] = NoResponse]
          /\ retries' = [retries EXCEPT ![w] = @ + 1]
          /\ UNCHANGED result
       \/ /\ do(reply[w]) \in {"NonceError", "error"}
          /\ Return(w, "err")
    /\ UNCHANGED <<calls, server>>

(* checkError dereferences nil: the panic ends the program, and no call in *)
(* it returns.                                                             *)
Panic(w) ==
    /\ pc[w] = "recv" /\ do(reply[w]) = "panic"
    /\ pc' = [v \in Worker |-> IF pc[v] = "idle" THEN "idle" ELSE "crashed"]
    /\ UNCHANGED <<nonces, held, retries, reply, result, calls, server>>

(* The backoff's timer fires and the operation runs again. *)
Retry(w) ==
    /\ pc[w] = "backoff"
    /\ pc' = [pc EXCEPT ![w] = "sign"]
    /\ UNCHANGED <<nonces, held, retries, reply, result, calls, server>>

(* The server forgets a nonce it issued. *)
Expire ==
    /\ ~Crashed
    /\ \E n \in live : live' = live \ {n}
    /\ UNCHANGED <<client, lastNonce, delivered, executed>>

(* The exchange of one request: it reaches the server, its answer comes    *)
(* back, or the HTTP transport gives up on it.                             *)
Exchange(w) == ServerReceive(w) \/ Receive(w) \/ Panic(w) \/ TransportError(w)

(* Every goroutine has made its calls (MaxCalls), or the program is dead.  *)
Finished ==
    /\ Crashed \/ \A w \in Worker : pc[w] = "idle" /\ calls[w] = MaxCalls[w]
    /\ UNCHANGED vars

Next ==
    \/ \E w \in Worker : \/ Post(w) \/ Nonce(w) \/ SignFails(w) \/ getNonce(w)
                          \/ Exchange(w) \/ Retry(w)
    \/ Expire
    \/ Finished

Spec == Init /\ [][Next]_vars

(* Go schedules every goroutine, the backoff's timer fires, and a request  *)
(* ends: client_config.go bounds the connection, the handshake and the     *)
(* wait for the headers, but sets no http.Client.Timeout, so that a body   *)
(* which stalls for ever is assumed away.  Nothing is assumed of           *)
(* SignFails, of Expire or of callers starting another call.               *)
FairSpec ==
    /\ Spec
    /\ \A w \in Worker : /\ WF_vars(Nonce(w))
                         /\ WF_vars(getNonce(w))
                         /\ WF_vars(Exchange(w))
                         /\ WF_vars(Retry(w))

----------------------------------------------------------------------------
TypeOK ==
    /\ nonces \in Seq(Nat \ {0})
    /\ pc \in [Worker -> {"idle", "sign", "head", "post", "recv", "backoff", "crashed"}]
    /\ held \in [Worker -> Nat]
    /\ retries \in [Worker -> 0..MaxRetries]
    /\ reply \in [Worker -> Response]
    /\ result \in [Worker -> {"none", "ok", "err"}]
    /\ calls \in [Worker -> Nat] /\ \A w \in Worker : calls[w] <= MaxCalls[w]
    /\ lastNonce \in Nat
    /\ live \subseteq 1..lastNonce
    /\ delivered \subseteq Nat
    /\ executed \in [Worker -> Nat]

(* A nonce is never sent twice: whatever the goroutines' interleaving, the *)
(* JWS a goroutine is about to deliver carries a nonce that no delivered   *)
(* JWS carried (nonce_manager.go Pop/Push under the mutex).                *)
NoReplay == \A w \in Worker : pc[w] = "post" => held[w] \notin delivered

(* The stack never outgrows the goroutines: a call takes one nonce for     *)
(* each it can give back, so the nonces in the stack and those about to be *)
(* pushed are at most one per goroutine (nonce_manager.go has no limit).   *)
Borrowed == {w \in Worker : pc[w] \in {"post", "recv"}}

PoolBound == Len(nonces) + Cardinality(Borrowed) <= Cardinality(Worker)

(* The contract of a call (ApiCall): it is executed at most once, retries  *)
(* included, because only a refused nonce is retried, and a call that      *)
(* returned without an error was executed (api.go retrievablePost).        *)
Calling == {w \in Worker : pc[w] # "idle"}

Call == INSTANCE ApiCall WITH calling <- Calling

ImplementsCall == Call!Spec

(* Every call returns, however often the server refuses its nonces         *)
(* (MaxElapsedTime of the backoff), unless the program panics.             *)
CallsReturn == \A w \in Worker : pc[w] # "idle" ~> pc[w] = "idle" \/ Crashed

(* acme/errors.go: a NonceError is what is returned when the nonce sent    *)
(* was not accepted by the server.  A refusal whose problem document has   *)
(* no status member is not recognised as one.                              *)
RefusedNonceIsNonceError ==
    \A w \in Worker :
        pc[w] = "recv" /\ reply[w].body \in {"badNonce", "badNonceNoStatus"}
            => do(reply[w]) = "NonceError"
============================================================================
