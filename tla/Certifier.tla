----------------------------- MODULE Certifier -----------------------------
(***************************************************************************)
(* certificate: Certifier.Obtain, ObtainForCSR and Renew, from the order   *)
(* to the download of the certificate.                                     *)
(*                                                                         *)
(* The caller's goroutine and the goroutines of getAuthorizations talk     *)
(* over two unbuffered channels; beside them the CA validates challenges   *)
(* and issues the certificate when it pleases.  The resolver is composed   *)
(* in through its contract, which Prober implements.                       *)
(***************************************************************************)
EXTENDS Integers, Sequences, FiniteSets, Functions

CONSTANTS
    Requests,    \* the lists of domains a caller may ask for
    Encodable,   \* the domains idna.ToASCII accepts
    URLs,        \* a sequence of authorization URLs the CA draws from
    Policy,      \* how many authorizations the CA puts into an order
    Chains       \* the lists of certificate chains the CA may offer

Authz == Range(URLs)

Domain == UNION {Range(ds) : ds \in Requests}

(* How many authorizations an order for k identifiers has.                 *)
AuthorizationCount(k) == CASE Policy = "one each" -> k
                           [] Policy = "none" -> 0
                           [] Policy = "extra" -> k + 1

ASSUME RequestsAreLists == \A ds \in Requests : ds \in Seq(Domain)

ASSUME DistinctURLs ==
    /\ URLs \in Seq(Authz)
    /\ \A j, k \in 1..Len(URLs) : URLs[j] = URLs[k] => j = k

ASSUME EnoughURLs ==
    /\ Policy \in {"one each", "none", "extra"}
    /\ \A ds \in Requests : AuthorizationCount(Len(ds)) <= Len(URLs)

ASSUME ChainsAreOffered ==
    \A c \in Chains : c \in Seq({"plain", "bare", "preferred"}) /\ c # << >>

VARIABLES
    asked,           \* the domains of the request
    domains,         \* those that are ordered, the common name first
    csrGiven,        \* ObtainForCSR: the caller provides the CSR
    preferred,       \* request.PreferredChain is set
    pc,              \* where the caller's goroutine is
    n,               \* the index of the loop it is in
    identifiers,     \* order.Identifiers
    authorizations,  \* order.Authorizations
    go,              \* the goroutine of each authorization URL
    responses,       \* authorizations received from resc
    failures,        \* keys of the obtainError map
    solve,           \* what resolver.Solve returned
    csr,             \* the names in the CSR sent
    certRes,         \* the chain loaded into certRes, 0 for none
    shortcut,        \* checkResponse was called before wait.For
    result,          \* the resource and the error returned
    status,          \* external: the CA's state of each authorization
    order,           \* external: the CA's state of the order
    chains,          \* external: the chains the CA offers
    held, skipped    \* history of deactivateAuthorizations

request == <<asked, domains, csrGiven, preferred>>
orderVars == <<identifiers, authorizations>>
collecting == <<go, responses, failures>>
issuing == <<csr, certRes, shortcut>>
server == <<status, order>>
history == <<held, skipped>>
vars == <<asked, domains, csrGiven, preferred, pc, n, identifiers, authorizations,
          go, responses, failures, solve, csr, certRes, shortcut, result, status,
          order, chains, held, skipped>>

Resolver == INSTANCE SolveContract WITH result <- solve

Init ==
    /\ asked = << >> /\ domains = << >> /\ csrGiven = FALSE /\ preferred = FALSE
    /\ pc = "start" /\ n = 1
    /\ identifiers = {} /\ authorizations = << >>
    /\ go = [u \in Authz |-> "none"]
    /\ responses = {} /\ failures = {}
    /\ solve = "running"
    /\ csr = {} /\ certRes = 0 /\ shortcut = FALSE
    /\ result = [cert |-> 0, err |-> "running"]
    /\ status \in [Authz -> {"pending", "valid"}]
    /\ order = "none"
    /\ chains \in Chains
    /\ held = {} /\ skipped = {}

(* Obtain returns; a caller looks at err first. *)
Return(cert, err) ==
    /\ pc' = "done"
    /\ result' = [cert |-> cert, err |-> err]

----------------------------------------------------------------------------
(* The entry points.  An empty list stands for a missing CSR too.          *)

Enter(ds, given, chain) ==
    /\ pc = "start"
    /\ asked' = ds /\ csrGiven' = given /\ preferred' = chain
    /\ \/ /\ ds = << >> /\ Return(0, "err") /\ UNCHANGED domains
       \/ /\ ds # << >> /\ UNCHANGED result
          /\ IF given THEN pc' = "order" /\ domains' = ds
                      ELSE pc' = "sanitize" /\ UNCHANGED domains
    /\ UNCHANGED <<n, orderVars, collecting, solve, issuing, server, chains, history>>

Obtain ==
    \E ds \in Requests, chain \in BOOLEAN : Enter(ds, FALSE, chain)

ObtainForCSR ==
    \E ds \in Requests, chain \in BOOLEAN : Enter(ds, TRUE, chain)

(* A certificate that was made from a CSR is renewed with it; otherwise    *)
(* the request is built without the preferred chain.  An unreadable        *)
(* certificate, CSR or key ends the call.                                  *)
Renew ==
    \/ \E ds \in Requests \ {<< >>} :
          \/ Enter(ds, FALSE, FALSE)
          \/ \E chain \in BOOLEAN : Enter(ds, TRUE, chain)
    \/ /\ pc = "start"
       /\ Return(0, "err")
       /\ UNCHANGED <<request, n, orderVars, collecting, solve, issuing, server,
                      chains, history>>

SanitizeFirst ==
    /\ pc = "sanitize"
    /\ domains' = <<asked[1]>> /\ pc' = "order"
    /\ UNCHANGED <<asked, csrGiven, preferred, n, orderVars, collecting, solve, issuing,
                   result, server, chains, history>>

(* sanitizeDomain: a domain that cannot be encoded is left out.            *)
Sanitize ==
    /\ pc = "sanitize"
    /\ \/ /\ n <= Len(asked)
          /\ domains' = IF asked[n] \in Encodable THEN Append(domains, asked[n])
                                                 ELSE domains
          /\ n' = n + 1 /\ UNCHANGED pc
       \/ n > Len(asked) /\ pc' = "order" /\ UNCHANGED <<domains, n>>
    /\ UNCHANGED <<asked, csrGiven, preferred, orderVars, collecting, solve, issuing,
                   result, server, chains, history>>

(* Orders.New.  The CA rejects an order without identifiers. *)
Authorizations(k) == SubSeq(URLs, 1, AuthorizationCount(k))

NewOrder ==
    /\ pc = "order"
    /\ \/ /\ domains # << >>
          /\ identifiers' = Range(domains)
          /\ authorizations' = Authorizations(Cardinality(identifiers'))
          /\ order' = "pending"
          /\ pc' = "spawn" /\ n' = 1
          /\ UNCHANGED result
       \/ /\ Return(0, "err") /\ UNCHANGED <<n, orderVars, order>>
    /\ UNCHANGED <<request, collecting, solve, issuing, status, chains, history>>

----------------------------------------------------------------------------
(* getAuthorizations *)

Spawn ==
    /\ pc = "spawn"
    /\ \/ /\ n <= Len(authorizations)
          /\ go' = [go EXCEPT ![authorizations[n]] = "get"]
          /\ n' = n + 1 /\ UNCHANGED pc
       \/ n > Len(authorizations) /\ pc' = "collect" /\ n' = 1 /\ UNCHANGED go
    /\ UNCHANGED <<request, orderVars, responses, failures, solve, issuing, result,
                   server, chains, history>>

(* A goroutine's request returns; it then blocks until its value is taken. *)
GetAuthorization ==
    /\ \E u \in Authz, answer \in {"resc", "errc"} :
          go[u] = "get" /\ go' = [go EXCEPT ![u] = answer]
    /\ UNCHANGED <<request, pc, n, orderVars, responses, failures, solve, issuing,
                   result, server, chains, history>>

(* On an error the authorization is the zero value, so is its domain. *)
noDomain == ""

failureKey(u) == noDomain

Collect ==
    /\ pc = "collect" /\ n <= Len(authorizations)
    /\ \E u \in Authz :
          /\ \/ /\ go[u] = "resc" /\ responses' = responses \cup {u}
                /\ UNCHANGED failures
             \/ /\ go[u] = "errc" /\ failures' = failures \cup {failureKey(u)}
                /\ UNCHANGED responses
          /\ go' = [go EXCEPT ![u] = "done"]
    /\ n' = n + 1
    /\ UNCHANGED <<request, pc, orderVars, solve, issuing, result, server, chains,
                   history>>

AllCollectedOrFailed == n > Len(authorizations) \/ failures # {}

AllCollected == n > Len(authorizations)

FailedIgnored == FALSE

Failed == failures # {}

(* deactivateAuthorizations is entered. *)
Deactivating ==
    /\ pc' = "deactivate" /\ n' = 1
    /\ held' = {u \in Authz : status[u] = "valid"}
    /\ UNCHANGED skipped

(* The log line before the channels are closed indexes order.Identifiers.  *)
CollectEnds ==
    /\ pc = "collect" /\ AllCollected
    /\ \/ /\ Len(authorizations) > Cardinality(identifiers)
          /\ pc' = "panic" /\ UNCHANGED <<n, history>>
       \/ /\ Len(authorizations) <= Cardinality(identifiers) /\ ~Failed
          /\ pc' = "solve" /\ UNCHANGED <<n, history>>
       \/ /\ Len(authorizations) <= Cardinality(identifiers) /\ Failed
          /\ Deactivating
    /\ UNCHANGED <<request, orderVars, collecting, solve, issuing, result, server,
                   chains>>

----------------------------------------------------------------------------
(* resolver.Solve, by its contract. *)

Solve ==
    /\ pc = "solve"
    /\ Resolver!ReturnFor(responses)
    /\ \/ solve' = "ok" /\ pc' = "finalize" /\ UNCHANGED <<n, history>>
       \/ solve' = "err" /\ Deactivating
    /\ UNCHANGED <<request, orderVars, collecting, issuing, result, order, chains>>

(* External: challenges are started while Solve runs, and the CA decides   *)
(* them then or later.                                                     *)
Validate ==
    /\ Resolver!Validate
    /\ pc = "solve" \/ \A u \in Authz : status[u] = "pending" => status'[u] = "pending"
    /\ \A u \in Authz \ responses : status'[u] = status[u]
    /\ UNCHANGED <<request, pc, n, orderVars, collecting, issuing, result, order,
                   chains, history>>

(* deactivateAuthorizations: one Get per authorization, and a Deactivate   *)
(* unless it failed or showed a valid authorization.                       *)
GetBeforeDeactivateBlindly ==
    /\ pc = "deactivate" /\ n <= Len(authorizations)
    /\ \/ pc' = "deactivating" /\ UNCHANGED <<n, skipped>>
       \/ /\ skipped' = skipped \cup {authorizations[n]}
          /\ n' = n + 1 /\ UNCHANGED pc
    /\ UNCHANGED <<request, orderVars, collecting, solve, issuing, result, server,
                   chains, held>>

GetBeforeDeactivate ==
    /\ pc = "deactivate" /\ n <= Len(authorizations)
    /\ \/ /\ status[authorizations[n]] = "valid"
          /\ n' = n + 1 /\ UNCHANGED <<pc, skipped>>
       \/ /\ status[authorizations[n]] # "valid"
          /\ pc' = "deactivating" /\ UNCHANGED <<n, skipped>>
       \/ /\ skipped' = skipped \cup {authorizations[n]}
          /\ n' = n + 1 /\ UNCHANGED pc
    /\ UNCHANGED <<request, orderVars, collecting, solve, issuing, result, server,
                   chains, held>>

(* The CA deactivates what is not invalid; an answer may get lost.         *)
Deactivate ==
    /\ pc = "deactivating"
    /\ LET u == authorizations[n]
       IN \/ /\ status[u] # "invalid"
             /\ status' = [status EXCEPT ![u] = "deactivated"]
             /\ skipped' \in {skipped, skipped \cup {u}}
          \/ skipped' = skipped \cup {u} /\ UNCHANGED status
    /\ pc' = "deactivate" /\ n' = n + 1
    /\ UNCHANGED <<request, orderVars, collecting, solve, issuing, result, order,
                   chains, held>>

DeactivatedFirst ==
    /\ pc = "deactivate" /\ n > 1
    /\ Return(0, "err")
    /\ UNCHANGED <<request, n, orderVars, collecting, solve, issuing, server, chains,
                   history>>

Deactivated ==
    /\ pc = "deactivate" /\ n > Len(authorizations)
    /\ Return(0, "err")
    /\ UNCHANGED <<request, n, orderVars, collecting, solve, issuing, server, chains,
                   history>>

----------------------------------------------------------------------------
(* getForOrder and getForCSR *)

(* An error is returned as one entry per authorization, and not at all if  *)
(* there is none.                                                          *)
failWithoutKeys(cert) == Return(cert, "nil") /\ failures' = responses

fail(cert) ==
    /\ failures' = responses
    /\ Return(cert, IF responses = {} THEN "nil" ELSE "err")

san == {domains[1]} \cup (identifiers \ {domains[1]})

Names == IF csrGiven THEN Range(domains) ELSE san

Finalizable ==
    /\ order = "pending"
    /\ \A k \in 1..Len(authorizations) : status[authorizations[k]] = "valid"
    /\ Names = identifiers

(* The key and CSR may not be made; UpdateForCSR may fail, its effect      *)
(* lost or not, and reports an invalid order as an error.                  *)
Finalize ==
    /\ pc = "finalize"
    /\ \/ ~csrGiven /\ fail(0) /\ UNCHANGED <<n, csr, shortcut, order>>
       \/ /\ csr' = Names
          /\ \/ /\ Finalizable /\ order' = "valid" /\ shortcut' = TRUE
                /\ pc' = "links" /\ n' = 1 /\ UNCHANGED <<failures, result>>
             \/ /\ Finalizable /\ order' = "processing" /\ pc' = "poll"
                /\ UNCHANGED <<n, shortcut, failures, result>>
             \/ /\ Finalizable /\ order' \in {"invalid", "processing"} /\ fail(0)
                /\ UNCHANGED <<n, shortcut>>
             \/ fail(0) /\ UNCHANGED <<n, shortcut, order>>
    /\ UNCHANGED <<request, orderVars, go, responses, solve, certRes, status,
                   chains, history>>

(* External: the CA issues the certificate, or gives the order up. *)
Issue ==
    /\ order = "processing"
    /\ order' \in {"valid", "invalid"}
    /\ UNCHANGED <<request, pc, n, orderVars, collecting, solve, issuing, result,
                   status, chains, history>>

checkOrderStatus(s) == s = "valid"

(* wait.For: the order is polled until checkResponse is done or time is    *)
(* up.  A failed request, an invalid order and one still in processing     *)
(* are all tried again.                                                    *)
Poll ==
    /\ pc = "poll" /\ checkOrderStatus(order)
    /\ pc' = "links" /\ n' = 1 /\ shortcut' = FALSE
    /\ UNCHANGED <<request, orderVars, collecting, solve, csr, certRes, result,
                   server, chains, history>>

PollAgainOnTimeout ==
    /\ pc = "poll"
    /\ UNCHANGED vars

PollTimeout ==
    /\ pc = "poll"
    /\ fail(certRes)
    /\ UNCHANGED <<request, n, orderVars, go, responses, solve, issuing, server,
                   chains, history>>

----------------------------------------------------------------------------
(* checkResponse: the links of a valid order, the default one first.       *)

LoadedNext(k) == Return(k + 1, "nil") /\ certRes' = k /\ UNCHANGED <<n, failures>>

Loaded(k) == Return(k, "nil") /\ certRes' = k /\ UNCHANGED <<n, failures>>

(* A download fails, or an issuer without a certificate cannot be parsed.  *)
LinkFails(k) ==
    /\ certRes' = k
    /\ IF shortcut THEN fail(0) /\ UNCHANGED n
                   ELSE pc' = "poll" /\ UNCHANGED <<n, failures, result>>

DefaultOf(k) == IF n = 1 THEN 1 ELSE k

hasPreferredChainNever(c) == FALSE

hasPreferredChain(c) == c = "preferred"

Link ==
    /\ pc = "links"
    /\ LET default == DefaultOf(certRes)
       IN \/ LinkFails(certRes)
          \/ ~preferred /\ Loaded(default)
          \/ preferred /\ chains[n] = "bare" /\ LinkFails(default)
          \/ preferred /\ hasPreferredChain(chains[n]) /\ Loaded(n)
          \/ /\ preferred /\ chains[n] # "bare" /\ ~hasPreferredChain(chains[n])
             /\ IF n = Len(chains) THEN Loaded(default)
                ELSE /\ n' = n + 1 /\ certRes' = default
                     /\ UNCHANGED <<pc, failures, result>>
    /\ UNCHANGED <<request, orderVars, go, responses, solve, csr, shortcut, server,
                   chains, history>>

----------------------------------------------------------------------------
Client ==
    \/ Obtain \/ ObtainForCSR \/ Renew \/ Sanitize \/ NewOrder \/ Spawn \/ Collect
    \/ CollectEnds \/ Solve \/ GetBeforeDeactivate \/ Deactivate \/ Deactivated
    \/ Finalize \/ Poll \/ Link

Finished == pc \in {"done", "panic"} /\ UNCHANGED vars

Next == Client \/ GetAuthorization \/ PollTimeout \/ Validate \/ Issue \/ Finished

Spec == Init /\ [][Next]_vars

Undecided == \E u \in responses : status[u] = "processing"

(* Requests return, and wait.For's timer fires: the loop cannot come round *)
(* to its test for ever without finding that time is up.  Solve returns as *)
(* SolveReturns of Prober says: it may poll for ever while the CA leaves a *)
(* challenge undecided.  Nothing is assumed of the CA.                     *)
FairSpec ==
    /\ Spec
    /\ WF_vars(pc # "solve" /\ Client)
    /\ WF_vars(~Undecided /\ Solve)
    /\ WF_vars(GetAuthorization)
    /\ SF_vars(PollTimeout)

----------------------------------------------------------------------------
TypeOK ==
    /\ asked \in Requests \cup {<< >>}
    /\ domains \in Seq(Domain)
    /\ csrGiven \in BOOLEAN /\ preferred \in BOOLEAN /\ shortcut \in BOOLEAN
    /\ pc \in {"start", "sanitize", "order", "spawn", "collect", "solve", "deactivate",
              "deactivating", "finalize", "poll", "links", "done", "panic"}
    /\ n \in 1..Len(asked) + Len(authorizations) + Len(chains) + 1
    /\ identifiers \subseteq Domain
    /\ authorizations \in Seq(Authz)
    /\ go \in [Authz -> {"none", "get", "resc", "errc", "done"}]
    /\ responses \subseteq Authz /\ failures \subseteq Authz \cup {noDomain}
    /\ solve \in {"running", "ok", "err"}
    /\ csr \subseteq identifiers
    /\ certRes \in 0..Len(chains)
    /\ result \in [cert : 0..Len(chains), err : {"running", "nil", "err"}]
    /\ status \in [Authz -> {"pending", "processing", "valid", "invalid", "deactivated"}]
    /\ order \in {"none", "pending", "processing", "valid", "invalid"}
    /\ held \subseteq Authz /\ skipped \subseteq Authz

Succeeded == pc = "done" /\ result.err = "nil"

(* getAuthorizations leaves no goroutine behind: past it, none is still at *)
(* work or blocked on a channel that is never read again or is closed.     *)
NoGoroutineLeft ==
    pc \notin {"spawn", "collect", "panic"} => \A u \in Authz : go[u] \in {"none", "done"}

(* Obtain and ObtainForCSR "will never return a partial certificate": the  *)
(* CSR of a certificate returned without an error names every domain that  *)
(* was asked for, and the order was made for exactly these names.          *)
NoPartialCertificate ==
    Succeeded /\ result.cert # 0 =>
        csr = identifiers /\ csr = Range(asked)

(* The order is finalized only when all its authorizations are valid.      *)
FinalizedOnlyWhenValid ==
    csr # {} => \A u \in Range(authorizations) : status[u] = "valid"

(* A failed challenge leaves the order's authorizations as the next        *)
(* attempt needs them: none is left open for the CA to wait for, unless a  *)
(* request about it failed, and one that was valid when the failure        *)
(* happened stays valid (deactivateAuthorizations).                        *)
FailureTidied ==
    /\ pc = "done" /\ order = "pending" /\ csr = {} /\ solve # "ok" =>
          \A u \in Range(authorizations) \ skipped : status[u] \notin {"pending", "processing"}
    /\ \A u \in held : status[u] = "valid"

(* The certificate returned is the one that was asked for: it names every  *)
(* domain, and is the first offered chain from the preferred issuer, or    *)
(* the default one; chains loaded by an earlier poll leave no trace.       *)
CertificateAsAsked ==
    Succeeded /\ result.cert # 0 =>
        LET matching == {k \in 1..Len(chains) : preferred /\ chains[k] = "preferred"}
        IN /\ NoPartialCertificate
           /\ matching = {} => result.cert = 1
           /\ matching # {} => result.cert \in matching /\ \A k \in matching : result.cert <= k

(* What the caller has in hand. *)
Outcome ==
    CASE result.err = "running" -> "running"
      [] result.err = "err" -> "error"
      [] result.err \notin {"running", "err"} /\ result.cert # 0 -> "certificate"
      [] OTHER -> "nothing"

(* A certificate or an error: Obtain implements its contract.              *)
Contract == INSTANCE ObtainContract WITH issued <- order = "valid", result <- Outcome

ImplementsObtain == Contract!Spec

(* Obtain returns unless Solve never does, because the CA never decides a  *)
(* challenge and asked to be polled without pause: the wait for the        *)
(* certificate ends whatever the CA does.                                  *)
ObtainReturns == <>(pc = "done") \/ <>[](pc = "solve" /\ Undecided)

(* certificate/certificates.go: Renew "will return a new certificate in    *)
(* ANY case that is not an error."                                         *)
CertificateUnlessError == Succeeded => result.cert # 0

(* acme/commons.go: "there may not be a 1:1 relationship between the order *)
(* identifiers and the authorizations required."                           *)
NoPanic == pc # "panic"
============================================================================
