-------------------------- MODULE ResponderProof --------------------------
(***************************************************************************)
(* Proofs about the responders, for any number of rounds, any domains and  *)
(* any headers.                                                            *)
(***************************************************************************)
EXTENDS Responder, TLAPS

(* One http-01 goroutine is alive at a time, that of the round whose       *)
(* CleanUp is to come or is waiting; it reads what its own Present stored. *)
OneAtATime ==
    kind = "http-01" =>
        \A r \in Round : Alive(r) =>
            /\ r = round /\ listener = r /\ done = r /\ pc \in {"presented", "waiting"}
            /\ go[r] = "serving" => serving[r] = r
            /\ go[r] = "sending" => sendsTo[r] = r

(* And while its CleanUp is to come, or waits, it is alive.                *)
StillThere ==
    /\ pc = "waiting" => kind = "http-01"
    /\ pc \in {"presented", "waiting"} => round \in Round
    /\ kind = "http-01" =>
         pc # "crashed" /\ (pc \in {"presented", "waiting"} => Alive(round))

IInv == TypeOK /\ OneAtATime /\ StillThere

(* The invariant holds initially: no goroutine has been started.           *)
LEMMA InitIInv == Init => IInv
<1> SUFFICES ASSUME Init PROVE IInv
  OBVIOUS
<1>1. TypeOK
  BY RoundsAssumption DEF Init, TypeOK, Nothing, Round
<1>2. \A r \in Round : ~Alive(r)
  BY DEF Init, Alive
<1> QED
  BY <1>1, <1>2 DEF IInv, OneAtATime, StillThere, Init

(* The handler reports a host of the request, and gives its own key        *)
(* authorization or none.                                                  *)
LEMMA HandleTypes ==
  ASSUME TypeOK, NEW r \in Round, Handle(r)
  PROVE  answer'.asked \subseteq Hosts /\ answer'.listener \in 0..Rounds /\ answer'.keyAuth \in 0..Rounds
<1>1. PICK h \in Headers, get \in BOOLEAN :
        LET value == IF matcher = "Forwarded" THEN Text(h) ELSE h.elements[1][1].value IN
        answer' = [asked |-> IF ~get THEN {}
                             ELSE IF matcher = "Forwarded" THEN Asked(h) ELSE {value},
                   listener |-> serving[r],
                   keyAuth |-> IF get /\ matches(matcher, value, DomainOf[r]) THEN r ELSE 0]
  BY Zenon DEF Handle
<1> DEFINE value == IF matcher = "Forwarded" THEN Text(h) ELSE h.elements[1][1].value
<1>2. /\ answer'.asked = IF ~get THEN {} ELSE IF matcher = "Forwarded" THEN Asked(h) ELSE {value}
      /\ answer'.listener = serving[r]
      /\ answer'.keyAuth = IF get /\ matches(matcher, value, DomainOf[r]) THEN r ELSE 0
  BY <1>1, Zenon
<1>3. answer'.keyAuth \in {r, 0} /\ answer'.listener = serving[r]
  BY <1>2, Zenon
<1>4. answer'.listener \in 0..Rounds /\ answer'.keyAuth \in 0..Rounds
  BY <1>3, RoundsAssumption DEF TypeOK, Round
<1>5. Asked(h) \subseteq {p.value : p \in Range(h.elements[1])}
  BY DEF Asked
<1>6. h.elements[1][1].value \in {p.value : p \in Range(h.elements[1])}
  BY HeadersAssumption, Zenon DEF Range
<1>7. {p.value : p \in Range(h.elements[1])} \subseteq Hosts
  BY DEF Hosts
<1>8. answer'.asked \in {{}, Asked(h), {h.elements[1][1].value}}
  BY <1>2, Zenon
<1> QED
  BY <1>4, <1>5, <1>6, <1>7, <1>8

(* Types are preserved.                                                    *)
LEMMA TypeNext ==
  ASSUME TypeOK, StillThere, [Next]_vars
  PROVE  TypeOK'
<1> USE RoundsAssumption DEF TypeOK, Round, goroutines, requests
<1>1. CASE SetProxyHeader
  BY <1>1 DEF SetProxyHeader
<1>2. CASE Present
  <2>1. round \in Round /\ UNCHANGED <<kind, serving, sendsTo, matcher, answer>>
    BY <1>2 DEF Present
  <2>2. /\ open' \in {open, {round}} /\ listener' \in {0, listener, round} /\ done' \in {done, round}
        /\ go' \in {go, [go EXCEPT ![round] = "started"]}
        /\ pc' \in {"presented", pc} /\ round' \in {round, round + 1}
    BY <1>2 DEF Present, PresentFails
  <2>3. go' \in [Round -> {"none", "started", "serving", "sending", "ended"}]
    BY <2>1, <2>2
  <2>4. round' \in 1..Rounds + 1 /\ listener' \in 0..Rounds /\ done' \in 0..Rounds
    BY <2>1, <2>2
  <2>5. open' \subseteq Round /\ pc' \in {"idle", "presented", "waiting", "crashed"}
    BY <2>1, <2>2
  <2> QED
    BY <2>1, <2>3, <2>4, <2>5, Zenon
<1>3. ASSUME NEW r \in Round, Serve(r) PROVE TypeOK'
  BY <1>3 DEF Serve
<1>4. ASSUME NEW r \in Round, ServeEnds(r) PROVE TypeOK'
  BY <1>4 DEF ServeEnds
<1>5. ASSUME NEW r \in Round, Handle(r) PROVE TypeOK'
  <2>1. answer'.asked \subseteq Hosts /\ answer'.listener \in 0..Rounds /\ answer'.keyAuth \in 0..Rounds
    BY <1>5, HandleTypes
  <2> QED
    BY <1>5, <2>1 DEF Handle
<1>6. CASE CleanUp
  <2>1. /\ round \in Round /\ round' \in {round, round + 1} /\ pc' \in {"waiting", "idle"}
        /\ open' \subseteq open
    BY <1>6 DEF CleanUp, NextRound, StillThere
  <2>2. UNCHANGED <<kind, listener, done, go, serving, sendsTo, matcher, answer>>
    BY <1>6 DEF CleanUp
  <2>3. round' \in 1..Rounds + 1 /\ open' \subseteq Round
    BY <2>1
  <2> QED
    BY <2>1, <2>2, <2>3, Zenon
<1>7. CASE CleanUpReceives
  <2>1. PICK r \in Round : go' = [go EXCEPT ![r] = "ended"]
    BY <1>7 DEF CleanUpReceives
  <2>2. /\ round \in Round /\ round' = round + 1 /\ pc' = "idle"
        /\ UNCHANGED <<kind, listener, done, open, serving, sendsTo, matcher, answer>>
    BY <1>7 DEF CleanUpReceives, NextRound, StillThere
  <2>3. go' \in [Round -> {"none", "started", "serving", "sending", "ended"}]
    BY <2>1
  <2>4. round' \in 1..Rounds + 1
    BY <2>2
  <2> QED
    BY <2>2, <2>3, <2>4, Zenon
<1>8. CASE UNCHANGED vars
  BY <1>8 DEF vars
<1> QED
  BY <1>1, <1>2, <1>3, <1>4, <1>5, <1>6, <1>7, <1>8 DEF Next, Goroutine, Finished

(* Present starts a goroutine when none is alive, and CleanUp does not     *)
(* return before that one has sent.                                        *)
LEMMA OneNext ==
  ASSUME TypeOK, OneAtATime, StillThere, [Next]_vars
  PROVE  OneAtATime'
<1> SUFFICES ASSUME kind' = "http-01", NEW q \in Round, Alive(q)'
             PROVE  /\ q = round' /\ listener' = q /\ done' = q /\ pc' \in {"presented", "waiting"}
                    /\ go'[q] = "serving" => serving'[q] = q
                    /\ go'[q] = "sending" => sendsTo'[q] = q
  BY DEF OneAtATime
<1>a. /\ go \in [Round -> {"none", "started", "serving", "sending", "ended"}]
      /\ serving \in [Round -> 0..Rounds] /\ sendsTo \in [Round -> 0..Rounds]
  BY DEF TypeOK
<1>b. kind' = kind /\ kind = "http-01"
  BY DEF Next, SetProxyHeader, Present, Goroutine, Serve, ServeEnds, Handle, CleanUp, CleanUpReceives, Finished, vars
<1>c. Alive(q) => /\ q = round /\ listener = q /\ done = q /\ pc \in {"presented", "waiting"}
                  /\ go[q] = "serving" => serving[q] = q
                  /\ go[q] = "sending" => sendsTo[q] = q
  BY <1>b DEF OneAtATime
<1> USE DEF goroutines, requests
<1>1. CASE SetProxyHeader \/ UNCHANGED vars
  <2>1. UNCHANGED <<pc, round, listener, done, go, serving, sendsTo>>
    BY <1>1 DEF SetProxyHeader, vars
  <2> QED
    BY <1>c, <2>1 DEF Alive
<1>2. CASE Present
  <2>1. ~Alive(q) /\ UNCHANGED <<serving, sendsTo>>
    BY <1>2, <1>c DEF Present
  <2>2. \/ go' = go
        \/ /\ go' = [go EXCEPT ![round] = "started"] /\ round' = round /\ pc' = "presented"
           /\ listener' = round /\ done' = round
    BY <1>2, <1>b DEF Present, PresentFails
  <2>3. go'[q] # go[q]
    BY <2>1 DEF Alive
  <2> QED
    BY <1>a, <2>1, <2>2, <2>3
<1>3. ASSUME NEW r \in Round, Serve(r)
      PROVE  /\ q = round' /\ listener' = q /\ done' = q /\ pc' \in {"presented", "waiting"}
             /\ go'[q] = "serving" => serving'[q] = q
             /\ go'[q] = "sending" => sendsTo'[q] = q
  <2>1. Alive(r) /\ UNCHANGED <<round, listener, done, sendsTo>>
    BY <1>3 DEF Serve, Alive
  <2>2. r = round /\ listener = r /\ r # 0
    BY <1>b, <2>1 DEF OneAtATime, Round
  <2>3. go' = [go EXCEPT ![r] = "serving"] /\ serving' = [serving EXCEPT ![r] = listener] /\ pc' = pc
    BY <1>3, <2>2 DEF Serve
  <2>4. Alive(q)
    BY <1>a, <2>1, <2>3 DEF Alive
  <2> QED
    BY <1>a, <1>c, <2>1, <2>2, <2>3, <2>4
<1>4. ASSUME NEW r \in Round, ServeEnds(r)
      PROVE  /\ q = round' /\ listener' = q /\ done' = q /\ pc' \in {"presented", "waiting"}
             /\ go'[q] = "serving" => serving'[q] = q
             /\ go'[q] = "sending" => sendsTo'[q] = q
  <2>1. Alive(r) /\ UNCHANGED <<pc, round, listener, done, serving>>
    BY <1>4 DEF ServeEnds, Alive
  <2>2. done = r
    BY <1>b, <2>1 DEF OneAtATime
  <2>3. go' = [go EXCEPT ![r] = "sending"] /\ sendsTo' = [sendsTo EXCEPT ![r] = done]
    BY <1>4, <1>b DEF ServeEnds
  <2>4. Alive(q)
    BY <1>a, <2>1, <2>3 DEF Alive
  <2> QED
    BY <1>a, <1>c, <2>1, <2>2, <2>3, <2>4
<1>5. ASSUME NEW r \in Round, Handle(r)
      PROVE  UNCHANGED <<pc, round, listener, done, go, serving, sendsTo>>
  BY <1>5 DEF Handle
<1>6. CASE CleanUp
  <2>1. pc' = "waiting" /\ UNCHANGED <<round, listener, done, go, serving, sendsTo>>
    BY <1>6, <1>b DEF CleanUp
  <2> QED
    BY <1>c, <2>1 DEF Alive
<1>7. CASE CleanUpReceives
  <2>1. PICK r \in Round : go[r] = "sending" /\ go' = [go EXCEPT ![r] = "ended"]
    BY <1>7 DEF CleanUpReceives
  <2>2. q # r /\ Alive(q) /\ Alive(r)
    BY <1>a, <2>1 DEF Alive
  <2> QED
    BY <1>b, <2>2 DEF OneAtATime
<1> QED
  BY <1>1, <1>2, <1>3, <1>4, <1>5, <1>6, <1>7, <1>c DEF Next, Goroutine, Finished, Alive

(* No goroutine of http-01 ends before the CleanUp of its round received.  *)
LEMMA StillNext ==
  ASSUME TypeOK, OneAtATime, StillThere, [Next]_vars
  PROVE  StillThere'
<1>a. go \in [Round -> {"none", "started", "serving", "sending", "ended"}]
  BY DEF TypeOK
<1> USE DEF goroutines, requests
<1>1. CASE SetProxyHeader \/ UNCHANGED vars
  <2>1. UNCHANGED <<kind, pc, round, go>>
    BY <1>1 DEF SetProxyHeader, vars
  <2> QED
    BY <2>1 DEF StillThere, Alive
<1>2. CASE Present
  <2>1. kind' = kind /\ pc = "idle" /\ round \in Round
    BY <1>2 DEF Present
  <2>2. \/ pc' = pc
        \/ pc' = "presented" /\ go' = [go EXCEPT ![round] = "started"] /\ round' = round
    BY <1>2 DEF Present, PresentFails
  <2>3. CASE pc' = pc
    BY <2>1, <2>3 DEF StillThere
  <2>4. CASE pc' = "presented" /\ go' = [go EXCEPT ![round] = "started"] /\ round' = round
    <3>1. go'[round'] = "started"
      BY <1>a, <2>1, <2>4
    <3> QED
      BY <2>1, <2>4, <3>1 DEF StillThere, Alive
  <2> QED
    BY <2>2, <2>3, <2>4
<1>3. ASSUME NEW r \in Round, Serve(r) PROVE StillThere'
  <2>1. Alive(r) /\ UNCHANGED <<kind, round, listener>>
    BY <1>3 DEF Serve, Alive
  <2>2. CASE listener # 0
    <3>1. go' = [go EXCEPT ![r] = "serving"] /\ pc' = pc
      BY <1>3, <2>2 DEF Serve
    <3>2. round \in Round /\ Alive(round) => Alive(round)'
      BY <1>a, <2>1, <3>1 DEF Alive
    <3> QED
      BY <2>1, <3>1, <3>2 DEF StillThere
  <2>3. CASE listener = 0
    <3>1. kind # "http-01" /\ pc' = "crashed"
      BY <1>3, <2>1, <2>3 DEF Serve, OneAtATime, Round
    <3> QED
      BY <2>1, <3>1 DEF StillThere
  <2> QED
    BY <2>2, <2>3
<1>4. ASSUME NEW r \in Round, ServeEnds(r) PROVE StillThere'
  <2>1. UNCHANGED <<kind, pc, round>>
    BY <1>4 DEF ServeEnds
  <2>2. kind = "http-01" => go' = [go EXCEPT ![r] = "sending"]
    BY <1>4 DEF ServeEnds
  <2>3. kind = "http-01" /\ round \in Round /\ Alive(round) => Alive(round)'
    BY <1>a, <2>1, <2>2 DEF Alive
  <2> QED
    BY <2>1, <2>3 DEF StillThere
<1>5. ASSUME NEW r \in Round, Handle(r) PROVE StillThere'
  BY <1>5 DEF Handle, StillThere, Alive
<1>6. CASE CleanUp
  BY <1>6 DEF CleanUp, NextRound, StillThere, Alive
<1>7. CASE CleanUpReceives
  BY <1>7 DEF CleanUpReceives, NextRound, StillThere
<1> QED
  BY <1>1, <1>2, <1>3, <1>4, <1>5, <1>6, <1>7 DEF Next, Goroutine, Finished

(* Every step of the caller and of the goroutines keeps the invariant.     *)
THEOREM Invariance == Spec => []IInv
<1>1. IInv /\ [Next]_vars => IInv'
  BY TypeNext, OneNext, StillNext DEF IInv
<1> QED
  BY <1>1, InitIInv, PTL DEF Spec

(* Whatever the order in which the goroutines run, the server's fields and *)
(* what the handler answers stay within their types.                       *)
THEOREM TypeCorrect == Spec => []TypeOK
<1>1. IInv => TypeOK
  BY DEF IInv
<1> QED
  BY <1>1, Invariance, PTL

(* The http-01 server never serves a nil listener, which would panic, and  *)
(* when its CleanUp waits on s.done, the goroutine it waits for is alive   *)
(* and sends on that channel, for any number of rounds.                    *)
THEOREM CleanUpAnswered == Spec => []CleanUpIsAnswered
<1>1. IInv => CleanUpIsAnswered
  BY DEF IInv, OneAtATime, StillThere, CleanUpIsAnswered
<1> QED
  BY <1>1, Invariance, PTL

(* parseForwardedHeader reads the headers: forwardedMatcher accepts one    *)
(* exactly if its first element names a host that starts with the domain.  *)
HeadersRead ==
    \A h \in Headers, r \in Round :
        matches("Forwarded", Text(h), DomainOf[r])
            <=> \E host \in Asked(h) : IsPrefix(DomainOf[r], host)

(* The handler of a round decides on the request's host.                   *)
LEMMA HandleAnswers ==
  ASSUME HeadersRead, TypeOK, OneAtATime, NEW r \in Round, Handle(r)
  PROVE  AnswersItsDomain'
<1>1. PICK h \in Headers, get \in BOOLEAN :
        LET value == IF matcher = "Forwarded" THEN Text(h) ELSE h.elements[1][1].value IN
        answer' = [asked |-> IF ~get THEN {}
                             ELSE IF matcher = "Forwarded" THEN Asked(h) ELSE {value},
                   listener |-> serving[r],
                   keyAuth |-> IF get /\ matches(matcher, value, DomainOf[r]) THEN r ELSE 0]
  BY Zenon DEF Handle
<1> DEFINE value == IF matcher = "Forwarded" THEN Text(h) ELSE h.elements[1][1].value
<1>2. /\ answer'.asked = IF ~get THEN {} ELSE IF matcher = "Forwarded" THEN Asked(h) ELSE {value}
      /\ answer'.listener = serving[r]
      /\ answer'.keyAuth = IF get /\ matches(matcher, value, DomainOf[r]) THEN r ELSE 0
  BY <1>1, Zenon
<1>3. serving[r] = r
  BY DEF Handle, OneAtATime, Alive
<1>4. CASE ~get
  <2>1. answer'.asked = {} /\ answer'.keyAuth = 0
    BY <1>2, <1>4, Zenon
  <2> QED
    BY <2>1 DEF AnswersItsDomain
<1>5. CASE get /\ matcher = "Forwarded"
  <2>1. answer'.asked = Asked(h)
    BY <1>2, <1>5, Zenon
  <2>2. answer'.keyAuth = IF matches("Forwarded", Text(h), DomainOf[r]) THEN r ELSE 0
    BY <1>2, <1>5, Zenon
  <2> QED
    BY <1>2, <1>3, <2>1, <2>2, Zenon DEF AnswersItsDomain, HeadersRead
<1>6. CASE get /\ matcher # "Forwarded"
  <2> DEFINE host == h.elements[1][1].value
  <2>1. answer'.asked = {host}
    BY <1>2, <1>6, Zenon
  <2>2. answer'.keyAuth = IF IsPrefix(DomainOf[r], host) THEN r ELSE 0
    BY <1>2, <1>6, Zenon DEF matches, HasPrefix
  <2> QED
    BY <1>2, <1>3, <2>1, <2>2, Zenon DEF AnswersItsDomain
<1> QED
  BY <1>4, <1>5, <1>6, Zenon

(* While http-01 validates a domain, a GET request gets that round's key   *)
(* authorization exactly when its host starts with the domain, for any     *)
(* number of rounds and any interleaving of their goroutines, provided     *)
(* that the scanner reads the headers.                                     *)
THEOREM DomainAnswered ==
  ASSUME HeadersRead
  PROVE  Spec => []AnswersItsDomain
<1>1. Init => AnswersItsDomain
  BY DEF Init, Nothing, AnswersItsDomain
<1>2. IInv /\ AnswersItsDomain /\ [Next]_vars => AnswersItsDomain'
  <2> SUFFICES ASSUME IInv, AnswersItsDomain, [Next]_vars PROVE AnswersItsDomain'
    OBVIOUS
  <2>1. CASE answer' = answer
    BY <2>1 DEF AnswersItsDomain
  <2>2. ASSUME NEW r \in Round, Handle(r) PROVE AnswersItsDomain'
    BY <2>2, HandleAnswers DEF IInv
  <2>3. answer' = answer \/ \E r \in Round : Handle(r)
    BY DEF Next, SetProxyHeader, Present, Goroutine, Serve, ServeEnds, CleanUp, CleanUpReceives,
           Finished, vars, requests
  <2> QED
    BY <2>1, <2>2, <2>3
<1> QED
  BY <1>1, <1>2, Invariance, PTL DEF Spec
=============================================================================
