# A TLA+ model of lego

lego is an ACME (RFC 8555) client: it registers an account, orders
certificates, proves control of the ordered domains by answering challenges
(http-01, tls-alpn-01, dns-01), finalizes the order, downloads the chain, and
keeps accounts and certificates in a directory from which it renews and
revokes them. This directory holds TLA+ modules that model its components, the
TLC configurations that check them on small instances and TLAPS proofs of what
holds for every instance.

## Inventory of the system

| Part | Source | Module |
|---|---|---|
| Nonce manager | `acme/api/internal/nonces` | `Api` |
| Signed request path: sign, post, classify, retry | `acme/api/api.go`, `acme/api/internal/sender`, `.../secure` | `Api`, contract `ApiCall` |
| Order, authorization, certificate, challenge services | `acme/api/*.go` | request steps of `Certifier` and `Prober` |
| Certifier: obtain and renew | `certificate/*.go` | `Certifier`, contract `ObtainContract` |
| Prober, solver manager, validate loop | `challenge/resolver` | `Prober`, contract `SolveContract` |
| Challenges dns-01, http-01, tls-alpn-01 | `challenge/dns01`, `http01`, `tlsalpn01` | `Prober` |
| Built-in http-01 and tls-alpn-01 responders | `*_challenge_server.go` | `Responder` |
| Poll loop with timeout | `platform/wait` | `Certifier`, `Prober` |
| Domain matchers, `Forwarded` header | `challenge/http01/domain_matcher.go` | `Forwarded`, used by `Responder` |
| DNS lookups, SOA cache, propagation check | `challenge/dns01` | `Dns` |
| 77 DNS providers and their API clients | `providers/dns` | `ProvidersById`, `ProvidersByLookup`, `ProvidersDirect`, `ProvidersRewrite`, run by `DnsProvider`, contract `ProviderContract` |
| CLI run, renew, revoke; hooks; account and certificate storage; registration | `cmd`, `registration`, `acme/api/account.go` | `Cli` |
| HTTP providers webroot and memcached, manual DNS provider, client construction, keys and PEM, message types, logging, flags, generated help, test support | `providers/http`, `lego`, `certcrypto`, `acme`, `log`, `platform`, `internal` | not modelled, see the end |

How they interact: the CLI builds a client and calls the certifier. The
certifier creates an order, fetches its authorizations in parallel and hands
them to the prober, which answers one challenge per authorization through a
provider and waits for the CA's verdict; then the certifier finalizes the
order and downloads the chain. Every request of these parts goes through the
signed request path. Each boundary has a contract module: `ApiCall`,
`SolveContract` (implemented by `Prober`, used by `Certifier`) and
`ObtainContract` (implemented by `Certifier`, for the CLI). `ProviderContract`
is what one would wish of a DNS provider behind `Prober`.

## The signed request path: `Api`

Every ACME request goes through `Core.retrievablePost`. `Api` models a set of
goroutines (`Worker`) that use one `Core` at once, as `getAuthorizations`
does. Its state is the nonce stack (`nonces`), the place of each goroutine in
the call (`pc`), the nonce it signed (`held`), its retry count, the answer on
its way (`reply`) and the call's `result`. `Post`, `Nonce`, `getNonce`,
`SignFails`, `TransportError`, `Receive`, `Retry` and `Panic` are the client's
steps; `ServerReceive` and `Expire` are the server, which is external: it accepts a
nonce at most once, forgets nonces at will, and answers with or without a new
one. `checkError` and `do` classify answers as `sender.go` does. A 4xx answer
whose body is `null` leaves `checkError` with a nil pointer: it panics
(`Panic`), which ends the process with all its goroutines ("crashed").

`ApiCall` states what callers rely on: the server executes a call at most
once, and a call returns without an error only if it was executed.

Runs:

* `api` (2 goroutines, one making 2 calls and one making 1, 1 retry): type
  invariant, `NoReplay` (no nonce is sent twice), `PoolBound` (the stack plus
  the nonces out with goroutines never exceed the number of goroutines), the
  refinement `ImplementsCall`, and `CallsReturn` (unless the process panicked).
  The second call of one
  goroutine meets the nonces its first call and the other goroutine left.
* `api_refused_nonce`: a violation. `checkError` looks at the `status` member
  of the problem document, which is optional, so a refused nonce may be
  reported as an ordinary error and not be retried, while `acme/errors.go`
  says a `NonceError` is what a refused nonce gives.

Fairness: Go schedules every goroutine, a request is answered or fails, and the
backoff timer fires. The HTTP transport has timeouts for the connection, the TLS
handshake and the header of an answer (`lego/client_config.go`), but the client
has none for the whole exchange: a server that stalls in the middle of a body
is assumed away, and with it a call would not return. Nothing is assumed of
the server keeping nonces, of signing failures or of new calls.

Proofs (`ApiProof`), for any finite set of goroutines, any number of calls and
retries: `TypeCorrect`, `NoNonceReplayed`, `NoncePoolBounded` and
`CallContract`. The inductive invariant `IInv` adds to the type invariant:
every nonce is in one place (`Placement`); goroutines waiting for `newNonce`
count against the stack (`Balance`: they saw it empty, so without them
`PoolBound` is not inductive); the server has executed a call exactly when its
answer says so (`Execution`).

## Resolving challenges: `Prober`

`Prober` models `Prober.Solve` for a list of authorizations: the loop that
chooses their solvers (`Choose`, `ChooseEnds`), `parallelSolve` and
`sequentialSolve` as loops over their lists (`PreSolve`, `Solve`,
`http01Solve`, `tlsalpn01Solve`, `Propagate`, `DeferredCleanUp`, `LoopEnds`)
and the validate loop (`Initiate`, `Check`, `Poll`, `PollFails`). Each call of
a provider can succeed, fail, or fail half-way and leave its record behind. The
CA (`ServerValidate`, external) looks for the response at any time after it was
told to, also after the client gave up.

* `prober` (3 authorizations, all sets of solvers, dns-01 sequential or not,
  wildcard or not, Retry-After 0 or not): `ServedWhileNeeded`, `ServedAlone`,
  the refinement of `SolveContract`, and `SolveReturns`. Three authorizations
  give a list with a failing one before and after another. With `Retry-After: 0`
  the backoff has no limit (`MaxElapsedTime` 0), so `SolveReturns` allows
  `Solve` to poll for ever in that case alone, as long as the CA does not
  decide.
* `prober_cleanup_doc`: a violation. `CleanUp` of a dns-01 provider is called
  although `Present` failed, unlike what `challenge/provider.go` says.

Fairness: the goroutine runs, and provider calls and timers return.

Proofs (`ProberProof`), for any list of authorizations, any offers and any
solvers: `TypeCorrect`, `ResponsesServed`, `ExclusiveResponses` and the
refinement `ContractImplemented`. The assumptions are that the authorizations
are distinct (the CA gives each its own URL) and that an offer is a set of
challenge types. The inductive invariant follows the loops: the two lists of
the first pass hold each authorization that is not settled once, in the list of
its solver (`ListsOK`); those whose turn is over are valid or failed and those
whose turn has not come are pending (`TurnsOK`, from which the contract
follows: a challenge is initiated once, and nil means that all are valid); the
response that is being validated is in place (`PresentedOK`), and every record
has a reason to be there (`RecordsOK`), which is what `ServedWhileNeeded` and
`ServedAlone` need and neither implies after a step.

## Obtaining a certificate: `Certifier`

`Certifier` models `Obtain`, `ObtainForCSR` and `Renew`. `Sanitize` is one
turn of `sanitizeDomain`. `Spawn`,
`GetAuthorization`, `Collect` and `CollectEnds` are `getAuthorizations` with
one goroutine per authorization on two unbuffered channels; `Solve` is the
resolver by its contract; `GetBeforeDeactivate`, `Deactivate` and
`Deactivated` are `deactivateAuthorizations`; `Finalize`, `Poll` and
`PollTimeout` are `getForOrder` and `getForCSR`; `Link` is one turn of
`checkResponse`. `Validate` and `Issue` are the CA. A chain is "plain",
"preferred" (from the preferred issuer) or "bare" (no issuer to parse). The
index `n` serves the loop that is running. A nil resource and a resource
without a certificate are both `cert = 0`.

* `certifier` (orders for 2 and 3 domains, five offers of chains): no goroutine
  left behind, finalized only when valid, authorizations left as the next
  attempt needs them after a failure (`FailureTidied`), every name and the right
  chain in the certificate (`CertificateAsAsked`), the refinement of
  `ObtainContract`, and `ObtainReturns`: `Obtain` returns, unless it is in
  `Solve` for ever with a challenge that the CA never decides, which `Prober`
  shows to be possible. So `Solve` is fair only once the CA has decided on all
  challenges that were started, and nothing is assumed of the CA. `PollTimeout`
  is strongly fair: the loop that waits for the certificate comes back to its
  timer test again and again, and the timer fires.
* Violations: `certifier_no_authorizations` (the error of `getForOrder`, or in
  the same way of `getForCSR`, is lost when the order has no authorizations),
  `certifier_extra_authorizations` (index out of range when there are more
  authorizations than identifiers) and `certifier_idna` (a domain that cannot be
  encoded is dropped silently).

One authorization per identifier is assumed in the passing runs; the two runs
on other numbers show what happens without it. `Renew` without a CSR drops
its `preferredChain` argument, and so does the model.

Proofs (`CertifierInvariant` with the invariant and its first half,
`CertifierProof` with the rest and the theorems), for any requests, any number
of authorizations, any offers of chains and any of the three policies of the
CA: `TypeCorrect`, `GoroutinesCollected`, `OrderFinalizedWhenValid`,
`FailedOrderTidied` and `AcceptedNamesCertified` (a certificate names exactly
what `sanitizeDomain` accepted). The assumptions on the constants are that
authorization URLs are distinct and enough of them exist, and that an offer has
a chain. Two theorems have a hypothesis, and it excludes what the violation
runs show: `CertificateIsAsAsked` needs that the CA puts an authorization into
every order and that every domain can be encoded, the refinement
`ObtainImplemented` the former. The invariant relates the number of values
received in `getAuthorizations` to the cardinality of the goroutines that are
done (`CollectOK`), the list of domains to the part of the request that was
passed (`NamesOK`), `Solve` to the validity of the whole order (`SolvedOK`),
the progress of `deactivateAuthorizations` to what is closed (`TidiedOK`) and
the links followed so far to the preferred chain (`ChainsOK`).

## Built-in responders: `Responder` and `Forwarded`

Run `responder`: one `ProviderServer` used for four domains in turn. The
goroutine of each `Present` reads `s.listener` and `s.done` when it runs. For
http-01 `CleanUp` waits for it; for tls-alpn-01 it does not, so a late
goroutine may serve a later listener, and panics if a later `Listen` failed.
A `Present` that fails (`PresentFails`) leaves `s.listener` nil when `Listen`
failed, and as it was when tls-alpn-01 failed earlier, on the certificate.
`Handle` is the handler that `serve` installs, `SetProxyHeader` chooses the
matcher, and `Forwarded` has the matchers with `parseForwardedHeader` over
tokens (a token stands for a run of characters that the scanner treats alike).

* `AnswersItsDomain`: a request that comes in on a round's listener gets that
  round's key authorization exactly when the host of the header starts with the
  domain. The headers are the texts of structured ones (one or two pairs,
  quoted or not, white space or none, a second element or none), and the
  property compares the parser with the structure. `strings.HasPrefix` is kept:
  the two domains of the run are one a prefix of the other, and the server of
  the shorter one also answers for the longer one, as the comments on the
  matchers say ("starts with a domain name"). Headers that are not well-formed
  are not in the run; the model has the failures of the scanner on them.
* `CleanUpIsAnswered`: whenever http-01's `CleanUp` would wait, a goroutine is
  alive that sends on that channel, and none serves a nil listener.
* `CleanUpReturns` and `Served` (every listener gets served). Four rounds let a
  goroutine be late by more than one. Fairness: runnable goroutines run;
  nothing is assumed of when `CleanUp` is called.

Proofs (`ResponderProof`), for any number of rounds, any domains and any
headers that have a pair to take the value of `Host` from: `TypeCorrect`;
`CleanUpAnswered`, that is `CleanUpIsAnswered`, which is what `CleanUpReturns`
needs besides fairness; and `DomainAnswered`, that is
`AnswersItsDomain`. The inductive invariant is that one http-01 goroutine is
alive at a time, that of the current round, and that the fields it may still
read are those its own `Present` wrote (`OneAtATime`, `StillThere`). The
hypothesis of `DomainAnswered`, `HeadersRead`, is that the scanner reads the
headers; it concerns the `Forwarded` header only, and the run `responder`
evaluates it on every header there, since the handler is reached with each.
That the scanner reads every well-formed header is not proved.

A second `CleanUp` for one `Present` of http-01 would wait for ever, because
the listener is not reset; `Prober` does not make that call.

## Zone lookup and propagation: `Dns`

`Dns` models `lookupSoaByFqdn` with its process-wide cache and mutex
(`CacheHit`, `CacheMiss`, `FetchSoa`, `FetchNoSoa`, ...), and the check that a
record has propagated, polled by `wait.For` (`Poll`, `RecursiveQuery`,
`AskNameserver`). A name is looked up label by label; the DNS is given by
constants, and each query may fail instead. Some goroutines use nameservers of
their own, as `FindZoneByFqdnCustom` does, and share the cache.

Run `dns` (2 goroutines, 2 names, 3 labels, 2 nameservers, 2 polls, 1 failing
query; a CNAME, a delegated name, and a nameserver shared by parent and child):

* `ReadyOnlyIfServed`: reported as propagated only when every nameserver of the
  zone that was found serves the value.
* `GenuineEntries`: an entry that was fetched without a failing query is the
  zone as some goroutine's nameservers see it. It says no more, because the
  cache is keyed by name only, and because a query that fails at the right
  label makes the search go on and caches the parent zone.
* `FreshKept`: a fresh entry is not replaced, so goroutines agree on it.
* `ChecksEnd`. Fairness: queries have timeouts and goroutines run.

Proofs (`DnsProof`): `TypeCorrect`, `OneFetchAtATime`, `ReadyIsServed`,
`CacheAgrees` and `EntriesAreGenuine`, for any goroutines, names, zones and
nameservers and however many queries fail. The
inductive invariant says that the goroutine between a miss and its store is the
holder of the mutex (`MutexOK`), that the entry it fetches is still missing
(`FetchOK`, which makes `FreshKept` inductive), and that the nameservers asked
so far serve the value (`AskedOK`, the loop invariant of
`checkAuthoritativeNss`). `GenuineEntries` needs the loop invariant of
`fetchSoaByFqdn` as well: while no query failed, no label that was passed is a
zone apex (`SearchOK`).

## DNS providers: `DnsProvider`

A provider's `Present` and `CleanUp`, and the client functions they call, are
sequences of steps (`DnsSteps`): requests that list, create, replace or delete
records, accesses to what the provider remembers, branches, lock operations,
deferred calls, early returns. The four `Providers...` modules give these
sequences, one definition per function of the source; `DnsProvider` executes
them, a step at a time, for two challenges against one zone. A request may be
refused, or executed while its answer is lost (`Refuse`, `Lose`). The zone
holds other people's records too, one of them a TXT record at the challenge's
name: that is also what an earlier process that stopped before `CleanUp` leaves.
Somebody may add another while a call is between reading and writing the zone
(`OthersAdd`). `acmedns` starts without stored accounts, or with those of an
earlier process.

The APIs are external. One that creates an RRset is taken to refuse one that
exists, and one that updates a record by its ID to refuse one that is gone. One
that is asked to remove what is gone, or to add to an RRset that has changed,
may accept or refuse (`MayRefuse`). One that deletes an RRset by its content
(route53, gcloud, nifcloud) refuses another content. The list that `checkdomain`
writes back is all of the zone but for what `skipRecord` skips. Wire formats,
authentication and the constructors are left out. `hostingde` reads its map
without the mutex; the model reads it in one step, and that Go may end a program
that reads and writes a map at once is not modelled.

Run `provider`: all 77 providers (`pdns` with both API versions), two challenges
for one name (a domain and its wildcard) or for two, in the order of `Prober`
with up to two failing requests, or interleaved as two orders would, with up to
one. Two failures are a failing `Present` and a failing `CleanUp` of one
challenge, or one of each challenge. A property names the providers of which it
does not hold, with the reason in its comment:

| Property | What it says | Does not hold of |
|---|---|---|
| `Published` | a record is there until the CleanUps begin | exoscale, gcloud, glesys, pdns (API version 0) |
| `CleanUpTruthful` | a `CleanUp` that returned nil removed the record | acmedns, bluecat, clouddns, cloudns, cloudxns, vegadns, exoscale, cloudflare, stackpath, easydns, gandi, gandiv5, glesys |
| `NothingLeft` | nothing is left unless a `CleanUp` failed | acmedns, rackspace, glesys, bluecat, clouddns, cloudns, cloudxns, vegadns, exoscale; after a failing `Present` also the providers that know a record by a remembered ID |
| `RoundSucceeds` | without failures both challenges succeed, the map is empty and the session closed | acmedns, edgedns, gandi, nifcloud, otc (`Present`); azure, bindman, dyn, ns1, pdns, rackspace, stackpath (`CleanUp`); acmedns, checkdomain (map); clouddns, mythicbeasts, and after an error bluecat, dyn (session) |
| `ElsewhereKept` | other people's records at other names stay | the records that checkdomain and godaddy leave out on purpose; a record added since the provider read the zone, for those that write back what they read (checkdomain, gandi, godaddy, joker, namecheap, sakuracloud, versio) |
| `ImplementsContract` | `ProviderContract`, also interleaved and with failures | holds of the 27 providers in `KeepsContract` |
| `MutexReleased` | a call that returned holds no mutex, none unlocks what it does not hold | none |

The `CleanUp` of azure, bindman, dyn, ns1, pdns and stackpath removes all TXT
records of the name, those of a domain and of its wildcard; the second `CleanUp`
finds them gone and returns an error, its own or the API's. That of rackspace
refuses to choose between two records.

`ProviderContract` binds only the providers in `KeepsContract`; for the others
its step relation allows anything. Many of these read an RRset and write it
back, so that interleaved calls lose a value; `Prober` does not interleave
them. `edgedns` deserves a look: `Present` goes on to create the RRset that it
has just updated, and `CleanUp` goes on to delete it. The run has no fairness
and no liveness property: what could block a call is the mutex.

## The command line: `Cli`

`Cli` models `run`, `renew` and `revoke` over the files they leave behind. A
file is first emptied, then filled. `Crash` may happen between any two steps;
an error of the disk ends the process (`log.Fatal`) at the same places. A
request to the CA fails before or after the CA acted on it. A key that the CA
knows is registered again with its account as the answer, as RFC 8555 has it,
or with 409 (`conflict`): `Register` has a branch for 409, but the error it
looks for is a value where the sender returns a pointer, so it returns the
error. `Obtain` is the certifier by its contract. How long a certificate is still valid is chosen when
it is read, in hours of a two-hour day, so that the truncation in `needRenewal`
is met on both sides of zero.

Run `cli` (17 command lines over two domains of which one continues the other's
name, 3 commands, 1 failure or crash; three commands are one that stops, one
that goes on from what it left, and one that uses the result):

* `KeyOutlivesCrash`: an account that the CA knows has its key on disk.
* `RunRecovers`: a later `run` under which nothing fails succeeds. The property
  lists what it cannot get past: a CA that answers 409 for an account that was
  not saved, an emptied key or account file, an account file without a
  registration that the CA does not know, and a `.pem` file for a CSR.
* `PairsMatch`: a `.crt` and a `.key` file belong together, unless the last
  save was stopped midway or was for a CSR.
* `RenewKeepsNames`: no name is lost or doubled, and without `--filename` the
  file name is kept. Names are compared as they are given; the conversion of
  `sanitizedDomain` to ASCII is an injective function (`SanitizedDomain`).
  `merge` is the loop of the code; one of the commands names a domain twice.
* `ArchivedAreRevoked`, except that the pattern `domain.*` also takes files of
  names that continue the domain.

With `--filename` the model shows a disagreement with the documentation that no
run checks: `WriteFile` uses the name given, `GetFileName` and `ReadFile` do not
(`cmd/certs_storage.go`), so the hook is given the paths of files that were not
written, while `docs/content/usage/cli/examples.md:33-34` and `:60-61` say that
they are "the path of the certificate" and "the path of the certificate key";
and a later `renew` does not find the certificate.

What the model has and no property asks for, because no document of the
repository says otherwise: `revoke --keep` stops
after the first domain; a `revoke` that stopped before it archived cannot be
repeated, as the CA refuses to revoke twice; `--pem` with a CSR fails after the
`.crt` file is written.

Proofs (`CliProof`), for any domains, command lines and number of commands,
failures and crashes:

* `KeySafe`. `KeyInv` adds that past `GetPrivateKey` the key is on disk and that
  a registration in memory belongs to an account of the CA.
* `ArchiveSafe`. `ArchiveInv` adds that while `revoke` archives, the certificate
  of the current domain is revoked, and that the index is within the list.
* `TypeCorrect`, `PairsBelongTogether`, `RunSucceedsAgain` and
  `RenewedNamesKept` from one invariant `IInv`: types (`ControlOK`, `BoundsOK`,
  `StoreOK`); where a command can be and with which account (`PathOK`); that a
  save still has on its list what does not yet hold the new certificate, and
  that a renewal has read the old one, with its key when that is to be reused
  (`SavingOK`, without which `PairsMatch` is not inductive, as the last file of
  a save establishes it); that a `.crt` file is named after its certificate or
  by a `--filename` (`NamedAfter`); and what the certificate of a renewal names
  (`RenewNames`).

The assumptions on the constants are that a domain's file name is its own
(`SanitizedDomain` is injective), that the files taken by the pattern `domain.*`
are other names, that a command names at least one domain (`run` and `renew`
refuse one that does not, `revoke` does nothing) and that `--filename` is a
file name. `RenewedNamesKept` has the
hypothesis `FilenamesApart`: no `--filename` is the file name of a domain.
Without it `RenewKeepsNames` is false: `renew` finds the certificate of another
domain under that name and saves the new one under its own.

`merge` is a loop over a list, and `Merged` says what it computes for any two
lists: a list of domains with the names of both, that starts as the old one
does and repeats no name unless the old one did. `Recursion` has what such a
lemma needs, for any set and any step: induction over the natural numbers in
its set form (from the well-foundedness of `<`), and the existence of the
function that a recursive definition denotes. They are stated without operator
parameters, so that the provers can use them.

## What is proved and what is only checked

Proved by TLAPS for every value of the constants: the theorems of `ApiProof`,
`ProberProof`, `CertifierProof`, `ResponderProof`, `DnsProof` and `CliProof`,
from the assumptions on the constants that the modules name and the hypotheses
given above. With them every safety invariant, action property and refinement
of the six component runs is proved. Only model-checked, on the instances
above:

* liveness (`CallsReturn`, `SolveReturns`, `ObtainReturns`, `CleanUpReturns`,
  `Served`, `ChecksEnd`), as TLAPS cannot reason about
  fairness;
* what the scanner of `Forwarded` computes, beyond the hypothesis above;
* the DNS providers: their properties are facts about 77 given sequences of
  steps, which TLC executes one by one; there is no constant to generalize
  over but the number of failures;
* the violations, which are counterexamples.

## Not modelled

* webroot and memcached: one call each to publish and none or one to remove,
  under a name no other challenge uses.
* The manual DNS provider (prompts), logging, flags, `list`, `dnshelp`,
  generated code and test support: input and output only.
* Client construction, provider constructors and configuration: they run once,
  before there is any state, check that values are present and set up clients.
* Keys, CSRs, PEM, JWS signing, wire formats and request signing of the provider
  APIs: cryptography and encodings; which requests are made, in which order and
  what is done on an error does not depend on them, and that is in the models.
* Of the challenges, certifier, services and registration, the parts marked
  "partly" in `PROJECT.json`: content of messages and certificates, and
  functions that no command or component calls.
