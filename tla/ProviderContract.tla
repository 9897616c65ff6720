-------------------------- MODULE ProviderContract --------------------------
(***************************************************************************)
(* What challenge.Provider promises, for challenges that share a provider  *)
(* and whatever the other challenges do in between: a Present that returns *)
(* nil has published the challenge's own TXT record, the record stays      *)
(* until its own CleanUp starts, and a CleanUp that returns nil has        *)
(* withdrawn it.  A failed method may have done its work or not.           *)
(***************************************************************************)
CONSTANT Challenge
VARIABLES bound,      \* the provider keeps the contract
          published,  \* the challenges whose record is in the zone
          doing,      \* per challenge: idle, present, cleanUp
          pres, clean \* per challenge: what the methods returned

cvars == <<bound, published, doing, pres, clean>>

CInit ==
  /\ bound \in BOOLEAN /\ published = {}
  /\ doing = [c \in Challenge |-> "idle"]
  /\ pres = [c \in Challenge |-> "none"] /\ clean = [c \in Challenge |-> "none"]

Begin(c) ==
  /\ doing[c] = "idle"
  /\ \/ pres[c] = "none" /\ doing' = [doing EXCEPT ![c] = "present"]
     \/ pres[c] # "none" /\ clean[c] = "none" /\ doing' = [doing EXCEPT ![c] = "cleanUp"]
  /\ UNCHANGED <<bound, published, pres, clean>>
Publish(c) ==
  /\ doing[c] = "present" /\ published' = published \cup {c}
  /\ UNCHANGED <<bound, doing, pres, clean>>
Withdraw(c) ==
  /\ doing[c] = "cleanUp" /\ published' = published \ {c}
  /\ UNCHANGED <<bound, doing, pres, clean>>
PresentReturns(c) ==
  /\ doing[c] = "present" /\ doing' = [doing EXCEPT ![c] = "idle"]
  /\ \E r \in {"nil", "error"} :
       (r = "nil" => c \in published) /\ pres' = [pres EXCEPT ![c] = r]
  /\ UNCHANGED <<bound, published, clean>>
CleanUpReturns(c) ==
  /\ doing[c] = "cleanUp" /\ doing' = [doing EXCEPT ![c] = "idle"]
  /\ \E r \in {"nil", "error"} :
       (r = "nil" => c \notin published) /\ clean' = [clean EXCEPT ![c] = r]
  /\ UNCHANGED <<bound, published, pres>>
(* A provider that does not keep the contract.                             *)
Unbound == ~bound /\ UNCHANGED bound

CNext ==
  \/ Unbound
  \/ \E c \in Challenge : Begin(c) \/ Publish(c) \/ Withdraw(c) \/ PresentReturns(c)
                          \/ CleanUpReturns(c)
CSpec == CInit /\ [][CNext]_cvars
=============================================================================
