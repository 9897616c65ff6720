----------------------------- MODULE Responder -----------------------------
(***************************************************************************)
(* The built-in responders of http-01 and tls-alpn-01: one ProviderServer, *)
(* presented and cleaned up for one domain after the other by Prober, and  *)
(* the goroutines its Present starts.  These read the fields listener and  *)
(* done when they get to run, not when they are started.  The http-01      *)
(* server answers the requests for its token that its matcher accepts.     *)
(***************************************************************************)
EXTENDS Forwarded

CONSTANTS
    Rounds,      \* bound on the number of calls of Present
    DomainOf,    \* the domain of each of them, a text
    Headers      \* headers of the requests

ASSUME RoundsAssumption == Rounds \in Nat \ {0} /\ DOMAIN DomainOf = 1..Rounds
(* There is something in a header: of Host and of an arbitrary header the  *)
(* value is that of the first pair.                                        *)
ASSUME HeadersAssumption ==
    \A h \in Headers : 1 \in DOMAIN h.elements /\ 1 \in DOMAIN h.elements[1]

Round == 1..Rounds
Hosts == UNION {{p.value : p \in Range(h.elements[1])} : h \in Headers}
Nothing == [asked |-> {}, listener |-> 0, keyAuth |-> 0]

VARIABLES
    kind,        \* which of the two servers it is
    pc,          \* the caller: "idle", "presented", "waiting", or "crashed"
    round,       \* the number of the current call of Present
    listener,    \* s.listener: the round it was made in, 0 for nil
    done,        \* s.done: the round it was made in, 0 for nil
    open,        \* external: listeners bound to the port
    go,          \* the goroutine of each round
    serving,     \* the listener each goroutine was given
    sendsTo,     \* the channel each goroutine sends on
    matcher,     \* s.matcher
    answer       \* the last request: the host it is for, the listener it came in on, and
                 \* whose key authorization it was given, 0 for none (history)

requests == <<matcher, answer>>
goroutines == <<go, serving, sendsTo>>
vars == <<kind, pc, round, listener, done, open, go, serving, sendsTo, requests>>

Init ==
    /\ kind \in {"http-01", "tls-alpn-01"}
    /\ pc = "idle" /\ round = 1
    /\ listener = 0 /\ done = 0 /\ open = {}
    /\ go = [r \in Round |-> "none"]
    /\ serving = [r \in Round |-> 0]
    /\ sendsTo = [r \in Round |-> 0]
    /\ matcher = "Host" /\ answer = Nothing

(* net.Listen or tls.Listen.  It fails if the port is in use, by another   *)
(* program too, and the field is assigned its nil result.  Before it,      *)
(* tls-alpn-01 fails to make its certificate, and keeps the old listener.  *)
PresentFails ==
    /\ listener' = 0 \/ (kind = "tls-alpn-01" /\ UNCHANGED listener)
    /\ round' = round + 1
    /\ UNCHANGED <<pc, done, open, go>>

Present ==
    /\ pc = "idle" /\ round \in Round
    /\ \/ /\ open = {} /\ open' = {round} /\ listener' = round
          /\ done' = IF kind = "http-01" THEN round ELSE done
          /\ go' = [go EXCEPT ![round] = "started"]
          /\ pc' = "presented"
          /\ UNCHANGED round
       \/ PresentFails
    /\ UNCHANGED <<kind, serving, sendsTo, requests>>

ServeReturnsEarly(r) ==
    /\ go[r] = "started"
    /\ go' = [go EXCEPT ![r] = "sending"]
    /\ sendsTo' = [sendsTo EXCEPT ![r] = done]
    /\ UNCHANGED <<kind, pc, round, listener, done, open, serving, requests>>

(* serve, or the function tls-alpn-01 starts: Serve(s.listener).  A nil    *)
(* listener makes it panic, which ends the program.                        *)
Serve(r) ==
    /\ go[r] = "started" /\ pc # "crashed"
    /\ \/ /\ listener # 0
          /\ serving' = [serving EXCEPT ![r] = listener]
          /\ go' = [go EXCEPT ![r] = "serving"]
          /\ UNCHANGED pc
       \/ listener = 0 /\ pc' = "crashed" /\ UNCHANGED <<serving, go>>
    /\ UNCHANGED <<kind, round, listener, done, open, sendsTo, requests>>

(* Serve returns when its listener is closed, and closes it when accepting *)
(* fails; then http-01 sends on s.done.                                    *)
ServeEnds(r) ==
    /\ go[r] = "serving" /\ pc # "crashed"
    /\ open' = open \ {serving[r]}
    /\ \/ /\ kind = "http-01"
          /\ go' = [go EXCEPT ![r] = "sending"]
          /\ sendsTo' = [sendsTo EXCEPT ![r] = done]
       \/ /\ kind = "tls-alpn-01"
          /\ go' = [go EXCEPT ![r] = "ended"]
          /\ UNCHANGED sendsTo
    /\ UNCHANGED <<kind, pc, round, listener, done, serving, requests>>

(* Prober is done with the challenge and calls CleanUp. *)
NextRound == pc' = "idle" /\ round' = round + 1

CleanUpWithoutWaiting ==
    /\ pc = "presented"
    /\ open' = open \ {listener}
    /\ NextRound
    /\ UNCHANGED <<kind, listener, done, goroutines, requests>>

CleanUpWithoutClosing ==
    /\ pc = "presented"
    /\ IF kind = "http-01" THEN pc' = "waiting" /\ UNCHANGED round ELSE NextRound
    /\ UNCHANGED <<kind, open, listener, done, goroutines, requests>>

CleanUp ==
    /\ pc = "presented"
    /\ open' = open \ {listener}
    /\ IF kind = "http-01" THEN pc' = "waiting" /\ UNCHANGED round ELSE NextRound
    /\ UNCHANGED <<kind, listener, done, goroutines, requests>>

CleanUpReceives ==
    /\ pc = "waiting"
    /\ \E r \in Round : /\ go[r] = "sending" /\ sendsTo[r] = done
                        /\ go' = [go EXCEPT ![r] = "ended"]
    /\ NextRound
    /\ UNCHANGED <<kind, listener, done, open, serving, sendsTo, requests>>

(* SetProxyHeader, before the server is used.                              *)
SetProxyHeader ==
    /\ kind = "http-01" /\ round = 1 /\ pc = "idle" /\ matcher = "Host"
    /\ matcher' \in {"Forwarded", "X-Forwarded-Host"}
    /\ UNCHANGED <<kind, pc, round, listener, done, open, goroutines, answer>>

(* The handler that serve installs, for a GET or another request with the  *)
(* token's path and the header that the matcher looks at.                  *)
Handle(r) ==
    /\ kind = "http-01" /\ go[r] = "serving" /\ pc # "crashed"
    /\ \E h \in Headers, get \in BOOLEAN :
         LET value == IF matcher = "Forwarded" THEN Text(h) ELSE h.elements[1][1].value IN
         answer' = [asked |-> IF ~get THEN {}
                              ELSE IF matcher = "Forwarded" THEN Asked(h) ELSE {value},
                    listener |-> serving[r],
                    keyAuth |-> IF get /\ matches(matcher, value, DomainOf[r]) THEN r ELSE 0]
    /\ UNCHANGED <<kind, pc, round, listener, done, open, goroutines, matcher>>

Goroutine == \E r \in Round : Serve(r) \/ ServeEnds(r) \/ Handle(r)

Finished == (round > Rounds \/ pc = "crashed") /\ UNCHANGED vars

Next == SetProxyHeader \/ Present \/ Goroutine \/ CleanUp \/ CleanUpReceives \/ Finished

Spec == Init /\ [][Next]_vars

(* Goroutines that can run do; one is only required to end once its        *)
(* listener has been closed.  Prober may take for ever to call CleanUp.    *)
FairSpec ==
    /\ Spec
    /\ WF_vars(CleanUpReceives)
    /\ \A r \in Round : /\ WF_vars(Serve(r))
                        /\ WF_vars(serving[r] \notin open /\ ServeEnds(r))

----------------------------------------------------------------------------
TypeOK ==
    /\ kind \in {"http-01", "tls-alpn-01"}
    /\ pc \in {"idle", "presented", "waiting", "crashed"}
    /\ round \in 1..Rounds + 1
    /\ listener \in 0..Rounds /\ done \in 0..Rounds
    /\ open \subseteq Round
    /\ go \in [Round -> {"none", "started", "serving", "sending", "ended"}]
    /\ serving \in [Round -> 0..Rounds] /\ sendsTo \in [Round -> 0..Rounds]
    /\ matcher \in {"Host", "Forwarded", "X-Forwarded-Host"}
    /\ answer.asked \subseteq Hosts /\ answer.listener \in 0..Rounds /\ answer.keyAuth \in 0..Rounds

(* A GET request that comes in while http-01 validates a domain gets this  *)
(* round's key authorization exactly when the host in the header that the  *)
(* server was told to look at starts with the domain, and none otherwise:  *)
(* no goroutine of an earlier round answers it.  Of a Forwarded header the *)
(* first element counts, and its layout does not matter:                   *)
(* parseForwardedHeader reads every well-formed one.  A longer name that   *)
(* starts with the domain is answered too, as the matchers' comments say.  *)
AnswersItsDomain ==
    LET validated == answer.listener IN
    validated # 0 =>
        answer.keyAuth = IF \E host \in answer.asked : IsPrefix(DomainOf[validated], host)
                         THEN validated ELSE 0

(* A goroutine that may still read the fields of its server.               *)
Alive(r) == go[r] \in {"started", "serving", "sending"}

(* The http-01 server never serves a nil listener, which would panic, and  *)
(* when its CleanUp waits on s.done, the goroutine it waits for is alive   *)
(* and the channel on which that sends is this very one: CleanUp waits, so *)
(* that no later Present changes the fields under a goroutine.             *)
CleanUpIsAnswered ==
    kind = "http-01" =>
        /\ pc # "crashed"
        /\ pc = "waiting" => Alive(round) /\ (go[round] = "sending" => sendsTo[round] = done)

(* CleanUp returns: serve sends on the channel that CleanUp waits on.      *)
CleanUpReturns == pc = "waiting" ~> pc = "idle"

(* What Present made reachable is served without waiting for anything the  *)
(* caller does, or its listener was closed.                                *)
Served ==
    \A r \in Round :
        r \in open ~> (r \notin open \/ \E g \in Round : go[g] = "serving" /\ serving[g] = r)
============================================================================
