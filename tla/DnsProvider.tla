----------------------------- MODULE DnsProvider -----------------------------
(***************************************************************************)
(* Two DNS-01 challenges of one order, served by one instance of a DNS     *)
(* provider.  Each method of the provider is the sequence of steps that    *)
(* the Providers modules give; this module executes it, one step at a      *)
(* time, against the zone the provider's API (external) keeps.             *)
(*                                                                         *)
(* The calls come as resolver.Prober makes them (both Present, then both   *)
(* CleanUp; one challenge after the other for a provider with a Sequential *)
(* method; CleanUp also after a failed Present), or interleaved, as two    *)
(* orders of one program share a provider.                                 *)
(***************************************************************************)
EXTENDS ProvidersById, ProvidersByLookup, ProvidersDirect, ProvidersRewrite,
        FiniteSets, Integers

CONSTANTS Providers,        \* the providers to be checked: a subset of DOMAIN Program
          MaxFaults,        \* how many requests may fail in Prober's order
          MaxOverlapFaults  \* how many requests may fail when the calls interleave

VARIABLES prov,       \* the provider
          overlap,    \* the two challenges run interleaved
          sameName,   \* they are for the same FQDN (example.com, *.example.com)
          zone,       \* the zone's records
          nextId,     \* the ID the API gives to the next record
          ids,        \* the provider's map (recordIDs, inProgressFQDNs, ...)
          holder,     \* who holds the provider's mutex: a challenge or 0
          session,    \* the provider holds a session token
          zoneCached, \* the provider knows the zone's ID
          call,       \* per challenge, the call being executed
          pres, clean,\* per challenge, what Present and CleanUp returned
          faults,     \* failures still to come
          failed      \* the phases in which a request failed

vars == <<prov, overlap, sameName, zone, nextId, ids, holder, session, zoneCached,
          call, pres, clean, faults, failed>>

Challenge == 1..2

(* The methods of each provider, and whether it has a Sequential method.   *)
Methods(present, cleanUp) == [present |-> present, cleanUp |-> cleanUp]
Sequential == {"dode", "duckdns", "easydns", "exec", "rfc2136"}
Program ==
  [acmedns |-> Methods(acmedns_Present, acmedns_CleanUp),
   alidns |-> Methods(alidns_Present, alidns_CleanUp),
   arvancloud |-> Methods(arvancloud_Present, arvancloud_CleanUp),
   auroradns |-> Methods(auroradns_Present, auroradns_CleanUp),
   autodns |-> Methods(autodns_Present, autodns_CleanUp),
   azure |-> Methods(azure_Present, azure_CleanUp),
   bindman |-> Methods(bindman_Present, bindman_CleanUp),
   bluecat |-> Methods(bluecat_Present, bluecat_CleanUp),
   checkdomain |-> Methods(checkdomain_Present, checkdomain_CleanUp),
   clouddns |-> Methods(clouddns_Present, clouddns_CleanUp),
   cloudflare |-> Methods(cloudflare_Present, cloudflare_CleanUp),
   cloudns |-> Methods(cloudns_Present, cloudns_CleanUp),
   cloudxns |-> Methods(cloudxns_Present, cloudxns_CleanUp),
   conoha |-> Methods(conoha_Present, conoha_CleanUp),
   constellix |-> Methods(constellix_Present, constellix_CleanUp),
   desec |-> Methods(desec_Present, desec_CleanUp),
   designate |-> Methods(designate_Present, designate_CleanUp),
   digitalocean |-> Methods(digitalocean_Present, digitalocean_CleanUp),
   dnsimple |-> Methods(dnsimple_Present, dnsimple_CleanUp),
   dnsmadeeasy |-> Methods(dnsmadeeasy_Present, dnsmadeeasy_CleanUp),
   dnspod |-> Methods(dnspod_Present, dnspod_CleanUp),
   dode |-> Methods(dode_Present, dode_CleanUp),
   dreamhost |-> Methods(dreamhost_Present, dreamhost_CleanUp),
   duckdns |-> Methods(duckdns_Present, duckdns_CleanUp),
   dyn |-> Methods(dyn_Present, dyn_CleanUp),
   dynu |-> Methods(dynu_Present, dynu_CleanUp),
   easydns |-> Methods(easydns_Present, easydns_CleanUp),
   edgedns |-> Methods(edgedns_Present, edgedns_CleanUp),
   exec |-> Methods(exec_Present, exec_CleanUp),
   exoscale |-> Methods(exoscale_Present, exoscale_CleanUp),
   gandi |-> Methods(gandi_Present, gandi_CleanUp),
   gandiv5 |-> Methods(gandiv5_Present, gandiv5_CleanUp),
   gcloud |-> Methods(gcloud_Present, gcloud_CleanUp),
   glesys |-> Methods(glesys_Present, glesys_CleanUp),
   godaddy |-> Methods(godaddy_Present, godaddy_CleanUp),
   hetzner |-> Methods(hetzner_Present, hetzner_CleanUp),
   hostingde |-> Methods(hostingde_Present, hostingde_CleanUp),
   httpreq |-> Methods(httpreq_Present, httpreq_CleanUp),
   hyperone |-> Methods(hyperone_Present, hyperone_CleanUp),
   iij |-> Methods(iij_Present, iij_CleanUp),
   inwx |-> Methods(inwx_Present, inwx_CleanUp),
   joker |-> Methods(joker_Present, joker_CleanUp),
   lightsail |-> Methods(lightsail_Present, lightsail_CleanUp),
   linode |-> Methods(linode_Present, linode_CleanUp),
   liquidweb |-> Methods(liquidweb_Present, liquidweb_CleanUp),
   luadns |-> Methods(luadns_Present, luadns_CleanUp),
   mydnsjp |-> Methods(mydnsjp_Present, mydnsjp_CleanUp),
   mythicbeasts |-> Methods(mythicbeasts_Present, mythicbeasts_CleanUp),
   namecheap |-> Methods(namecheap_Present, namecheap_CleanUp),
   namedotcom |-> Methods(namedotcom_Present, namedotcom_CleanUp),
   namesilo |-> Methods(namesilo_Present, namesilo_CleanUp),
   netcup |-> Methods(netcup_Present, netcup_CleanUp),
   netlify |-> Methods(netlify_Present, netlify_CleanUp),
   nifcloud |-> Methods(nifcloud_Present, nifcloud_CleanUp),
   ns1 |-> Methods(ns1_Present, ns1_CleanUp),
   oraclecloud |-> Methods(oraclecloud_Present, oraclecloud_CleanUp),
   otc |-> Methods(otc_Present, otc_CleanUp),
   ovh |-> Methods(ovh_Present, ovh_CleanUp),
   pdns |-> Methods(pdns_Present(1), pdns_CleanUp(1)),
   pdns0 |-> Methods(pdns_Present(0), pdns_CleanUp(0)),
   rackspace |-> Methods(rackspace_Present, rackspace_CleanUp),
   regru |-> Methods(regru_Present, regru_CleanUp),
   rfc2136 |-> Methods(rfc2136_Present, rfc2136_CleanUp),
   rimuhosting |-> Methods(rimuhosting_Present, rimuhosting_CleanUp),
   route53 |-> Methods(route53_Present, route53_CleanUp),
   sakuracloud |-> Methods(sakuracloud_Present, sakuracloud_CleanUp),
   scaleway |-> Methods(scaleway_Present, scaleway_CleanUp),
   selectel |-> Methods(selectel_Present, selectel_CleanUp),
   servercow |-> Methods(servercow_Present, servercow_CleanUp),
   stackpath |-> Methods(stackpath_Present, stackpath_CleanUp),
   transip |-> Methods(transip_Present, transip_CleanUp),
   vegadns |-> Methods(vegadns_Present, vegadns_CleanUp),
   versio |-> Methods(versio_Present, versio_CleanUp),
   vscale |-> Methods(vscale_Present, vscale_CleanUp),
   vultr |-> Methods(vultr_Present, vultr_CleanUp),
   yandex |-> Methods(yandex_Present, yandex_CleanUp),
   zoneee |-> Methods(zoneee_Present, zoneee_CleanUp),
   zonomi |-> Methods(zonomi_Present, zonomi_CleanUp)]

(* Providers whose session is a field shared by all calls.                 *)
SharedSession == {"dyn", "bluecat", "joker", "mythicbeasts", "clouddns"}

-----------------------------------------------------------------------------
(* The zone.                                                               *)

fqdn(c) == IF sameName THEN 1 ELSE c
Record(id, name, type, val) == [id |-> id, name |-> name, type |-> type, val |-> val]
Empty == -1
(* Somebody else's records: at the first challenge's name, elsewhere, one  *)
(* without a value and one that is the zone's own among them; and a record *)
(* somebody adds later.                                                    *)
Foreign == {Record(1, 1, "TXT", 0), Record(2, 1, "A", 0),
            Record(3, 0, "TXT", 0), Record(4, 0, "TXT", Empty), Record(5, 0, "NS", 0)}
Late == Record(6, 0, "TXT", 0)

AtName(c, r) == r.name = fqdn(c)
IsTxt(c, r) == AtName(c, r) /\ r.type = "TXT"
IsOwn(c, r) == IsTxt(c, r) /\ r.val = c
Selects(sel, c, r) ==
  CASE sel = "name"  -> IsTxt(c, r)
    [] sel = "any"   -> AtName(c, r)
    [] sel = "value" -> IsOwn(c, r)
    [] sel = "txt"   -> r.type = "TXT"
    [] sel = "zone"  -> TRUE
Selected(sel, c) == {r \in zone : Selects(sel, c, r)}
Own(c) == {r \in zone : IsOwn(c, r)}
(* The own record, with the ID it has or is about to get.                  *)
OwnRecord(c) ==
  IF Own(c) = {} THEN {Record(nextId, fqdn(c), "TXT", c)} ELSE Own(c)
Written(what, c) ==
  LET found == call[c].found IN
  CASE what = "own"        -> OwnRecord(c)
    [] what = "found"      -> found
    [] what = "found+own"  -> {r \in found : ~IsOwn(c, r)} \cup OwnRecord(c)
    [] what = "found-own"  -> {r \in found : ~IsOwn(c, r)}
    [] what = "found-name" -> {r \in found : ~IsTxt(c, r)}
    [] what = "found-any"  -> {r \in found : ~AtName(c, r)}
    [] what = "unskipped"  -> {r \in found : ~IsOwn(c, r) /\ r.val # Empty /\ r.type # "NS"}
    [] what = "nonempty+own" ->
         {r \in found : ~IsOwn(c, r) /\ r.val # Empty} \cup OwnRecord(c)
    [] what = "nonempty-own" ->
         LET keep == {r \in found : r.val \notin {c, Empty}}
         IN IF keep = {} THEN {Record(nextId, 0, "TXT", Empty)} ELSE keep
WithId(c) == {r \in zone : r.id = call[c].id}

(* The API's side of request s of challenge c: the new zone, and whether   *)
(* it refuses or may refuse, as an API may when what is to be removed or   *)
(* updated is gone.                                                        *)
ZoneAfter(s, c) ==
  CASE s.do \in {"add", "addInto"} -> zone \cup OwnRecord(c)
    [] s.do = "make"       -> zone \cup Written(s.what, c)
    [] s.do = "updateId"   ->
         (zone \ WithId(c)) \cup {Record(call[c].id, fqdn(c), "TXT", c)}
    [] s.do = "put"        -> (zone \ Selected(s.scope, c)) \cup Written(s.what, c)
    [] s.do = "deleteId"   -> zone \ WithId(c)
    [] s.do = "remove"     -> zone \ Selected(s.sel, c)
    [] s.do = "removeSame" -> zone \ Selected("name", c)
    [] s.do = "merge"      -> zone \cup Written(s.what, c)
    [] OTHER               -> zone
Refuses(s, c) ==
  \/ s.do = "updateId" /\ WithId(c) = {}
  \/ s.do = "make" /\ Selected("name", c) # {}
  \/ s.do = "addInto" /\ Selected("name", c) = {}
  \/ s.do = "removeSame" /\ Selected("name", c) # Written(s.what, c)
  \/ s.do = "logoutHeld" /\ ~session
  \/ s.counted /\ ZoneAfter(s, c) = zone
  \/ /\ prov \in SharedSession /\ ~session
     /\ s.do \notin {"zone", "login", "loginOnce", "logout"}
MayRefuse(s, c) ==
  \/ s.do = "deleteId" /\ WithId(c) = {}
  \/ s.do = "remove" /\ Selected(s.sel, c) = {}
  \/ s.do = "merge" /\ ~(call[c].found \subseteq zone)
NewIdUsed(z) == \E r \in z : r.id = nextId

-----------------------------------------------------------------------------
(* The client's side: the call of challenge c is at step Head(todo).       *)

Idle == [doing |-> "idle", todo |-> <<>>, defers |-> <<>>, found |-> {}, id |-> 0,
         kept |-> FALSE, result |-> "nil"]
Running(c) == call[c].doing \in {"present", "cleanUp"}
Step(c) == Head(call[c].todo)
At(c, kinds) == Running(c) /\ call[c].todo # <<>> /\ Step(c).do \in kinds
Rest(c) == Tail(call[c].todo)
Goto(c, todo) == call' = [call EXCEPT ![c].todo = todo]
Remember(c, rest, found, id) ==
  call' = [call EXCEPT ![c].todo = rest, ![c].found = found, ![c].id = id]

(* return: the deferred steps run, last deferred first.                    *)
Returning(k, result) ==
  [k EXCEPT !.todo = k.defers, !.defers = <<>>, !.found = {}, !.result = result]
OnError(c, s, rest) ==
  CASE s.err = "return" -> call' = [call EXCEPT ![c] = Returning(@, "error")]
    [] s.err = "keep"   -> call' = [call EXCEPT ![c].kept = TRUE, ![c].todo = rest]
    [] s.err = "ignore" -> Goto(c, rest)

Key(kind, c) ==
  CASE kind = "token" -> <<"token", c>>
    [] kind = "value" -> <<"value", c>>
    [] kind = "zone"  -> <<"zone", 0>>
    [] OTHER          -> <<kind, fqdn(c)>>
Without(f, k) == [x \in DOMAIN f \ {k} |-> f[x]]

Condition(cond, c) ==
  LET found == call[c].found IN
  CASE cond = "none"      -> found = {}
    [] cond = "own"       -> \E r \in found : IsOwn(c, r)
    [] cond = "others"    -> \E r \in found : ~IsOwn(c, r)
    [] cond = "many"      -> Cardinality(found) > 1
    [] cond = "no name"   -> \A r \in found : ~IsTxt(c, r)
    [] cond = "zone held" -> Key("zone", c) \in DOMAIN ids

Environment == <<prov, overlap, sameName>>
Results == <<pres, clean>>
Server == <<zone, nextId, session, zoneCached>>

(* A request for which the client needs no answer: it is logged in, it is  *)
(* logged out, it knows the zone.                                          *)
Known(s) ==
  \/ s.do = "loginOnce" /\ session
  \/ s.do = "logout" /\ ~session
  \/ s.do = "readCached" /\ zoneCached

Requests == {"zone", "read", "readCached", "list", "add", "addInto", "make", "updateId",
             "put", "merge", "deleteId", "remove", "removeSame", "login", "loginOnce", "logout",
             "logoutHeld"}

(* The request takes effect.                                               *)
Effect(s, c) ==
  /\ zone' = ZoneAfter(s, c)
  /\ nextId' = IF NewIdUsed(zone') THEN nextId + 1 ELSE nextId
  /\ session' = CASE s.do \in {"login", "loginOnce"} -> TRUE
                   [] s.do \in {"logout", "logoutHeld"} -> FALSE
                   [] OTHER -> session
(* What the client keeps of a good answer.                                 *)
Accept(s, c) ==
  Remember(c, Rest(c),
    IF s.do = "list" THEN Selected(s.sel, c) ELSE call[c].found,
    IF s.do = "add" THEN (CHOOSE r \in OwnRecord(c) : TRUE).id ELSE call[c].id)
(* A refusal taken for a success carries no records and no ID.             *)
AcceptEmpty(s, c) ==
  Remember(c, Rest(c), IF s.do = "list" THEN {} ELSE call[c].found,
           IF s.do = "add" THEN 0 ELSE call[c].id)

Skip(c) ==
  /\ At(c, Requests) /\ Known(Step(c))
  /\ Goto(c, Rest(c))
  /\ UNCHANGED <<Environment, Server, ids, holder, Results, faults, failed>>

Succeed(c) ==
  /\ At(c, Requests) /\ ~Known(Step(c)) /\ ~Refuses(Step(c), c)
  /\ Effect(Step(c), c)
  /\ Accept(Step(c), c)
  /\ zoneCached' = (zoneCached \/ Step(c).do = "readCached")
  /\ UNCHANGED <<Environment, ids, holder, Results, faults, failed>>

(* The API refuses, because it must or because it fails; the client sees   *)
(* an error, or, where it does not look, a success.                        *)
Refuse(c) ==
  /\ At(c, Requests) /\ ~Known(Step(c))
  /\ \/ (Refuses(Step(c), c) \/ MayRefuse(Step(c), c)) /\ UNCHANGED <<faults, failed>>
     \/ faults > 0 /\ faults' = faults - 1 /\ failed' = failed \cup {call[c].doing}
  /\ \/ OnError(c, Step(c), Rest(c))
     \/ Step(c).blind /\ AcceptEmpty(Step(c), c)
  /\ UNCHANGED <<Environment, Server, ids, holder, Results>>

(* The request takes effect and its answer is lost; the client sees an     *)
(* error, or sends the request again.                                      *)
Lose(c) ==
  /\ At(c, Requests) /\ ~Known(Step(c)) /\ ~Refuses(Step(c), c)
  /\ faults > 0 /\ faults' = faults - 1 /\ failed' = failed \cup {call[c].doing}
  /\ Effect(Step(c), c)
  /\ zone' # zone
  /\ \/ OnError(c, Step(c), Rest(c))
     \/ Step(c).retry /\ Goto(c, call[c].todo)
  /\ UNCHANGED <<Environment, zoneCached, ids, holder, Results>>

(* for _, record := range records { delete(record) }                       *)
DeleteNext(c) ==
  /\ At(c, {"deleteEach"})
  /\ \/ call[c].found = {} /\ Goto(c, Rest(c))
     \/ \E r \in call[c].found :
          Remember(c, <<[Step(c) EXCEPT !.do = "deleteId"]>> \o call[c].todo,
                   call[c].found \ {r}, r.id)
  /\ UNCHANGED <<Environment, Server, ids, holder, Results, faults, failed>>

(* The provider's map.                                                     *)
SaveId(c) ==
  /\ At(c, {"save"})
  /\ LET k == Key(Step(c).key, c) IN
     ids' = [x \in DOMAIN ids \cup {k} |->
               IF x = k THEN [id |-> call[c].id, found |-> call[c].found] ELSE ids[x]]
  /\ Goto(c, Rest(c))
  /\ UNCHANGED <<Environment, Server, holder, Results, faults, failed>>
LoadId(c) ==
  /\ At(c, {"load"})
  /\ LET k == Key(Step(c).key, c) IN
     IF k \in DOMAIN ids THEN Remember(c, Rest(c), ids[k].found, ids[k].id)
                         ELSE Goto(c, Step(c).else \o Rest(c))
  /\ UNCHANGED <<Environment, Server, ids, holder, Results, faults, failed>>
DropId(c) ==
  /\ At(c, {"drop"})
  /\ ids' = Without(ids, Key(Step(c).key, c))
  /\ Goto(c, Rest(c))
  /\ UNCHANGED <<Environment, Server, holder, Results, faults, failed>>

(* Records found, branches.                                                *)
PickRecord(c) ==
  /\ At(c, {"pick", "first"})
  /\ LET s == Step(c)
         candidates == IF s.do = "pick" /\ s.own
                       THEN {r \in call[c].found : IsOwn(c, r)} ELSE call[c].found
     IN IF candidates = {}
        THEN Goto(c, (IF s.do = "pick" THEN s.else ELSE <<>>) \o Rest(c))
        ELSE \E r \in candidates :
               Remember(c, Rest(c), IF s.do = "first" THEN {r} ELSE call[c].found, r.id)
  /\ UNCHANGED <<Environment, Server, ids, holder, Results, faults, failed>>
Branch(c) ==
  /\ At(c, {"if"})
  /\ LET s == Step(c) IN
     \E taken \in BOOLEAN :
       /\ s.cond # "choice" => taken = Condition(s.cond, c)
       /\ Goto(c, (IF taken THEN s.then ELSE s.else) \o Rest(c))
  /\ UNCHANGED <<Environment, Server, ids, holder, Results, faults, failed>>

(* The mutex, deferred steps, return.                                      *)
AcquireMutex(c) ==
  /\ At(c, {"lock"}) /\ holder = 0
  /\ holder' = c
  /\ Goto(c, Rest(c))
  /\ UNCHANGED <<Environment, Server, ids, Results, faults, failed>>
ReleaseMutex(c) ==
  /\ At(c, {"unlock"})
  /\ holder' = 0
  /\ Goto(c, Rest(c))
  /\ UNCHANGED <<Environment, Server, ids, Results, faults, failed>>
DeferStep(c) ==
  /\ At(c, {"defer"})
  /\ call' = [call EXCEPT ![c].todo = Rest(c), ![c].defers = <<Step(c).step>> \o @]
  /\ UNCHANGED <<Environment, Server, ids, holder, Results, faults, failed>>
ReturnEarly(c) ==
  /\ At(c, {"return"})
  /\ call' = [call EXCEPT ![c] = Returning(@, Step(c).result)]
  /\ UNCHANGED <<Environment, Server, ids, holder, Results, faults, failed>>
RunDeferred(c) ==
  /\ Running(c) /\ call[c].todo = <<>> /\ call[c].defers # <<>>
  /\ call' = [call EXCEPT ![c] = Returning(@, IF @.kept THEN "error" ELSE "nil")]
  /\ UNCHANGED <<Environment, Server, ids, holder, Results, faults, failed>>
Finish(c) ==
  /\ Running(c) /\ call[c].todo = <<>> /\ call[c].defers = <<>>
  /\ LET result == IF call[c].kept THEN "error" ELSE call[c].result IN
     IF call[c].doing = "present"
     THEN pres' = [pres EXCEPT ![c] = result] /\ UNCHANGED clean
     ELSE clean' = [clean EXCEPT ![c] = result] /\ UNCHANGED pres
  /\ call' = [call EXCEPT ![c] = Idle]
  /\ UNCHANGED <<Environment, Server, ids, holder, faults, failed>>

-----------------------------------------------------------------------------
(* The order in which the methods are called.                              *)
Quiet == \A d \in Challenge : ~Running(d)
Returned(r, c) == r[c] # "none"
StartPresent(c) ==
  /\ ~Running(c) /\ ~Returned(pres, c)
  /\ overlap \/ (Quiet /\ (c = 2 => Returned(IF prov \in Sequential THEN clean ELSE pres, 1)))
  /\ call' = [call EXCEPT ![c] = [Idle EXCEPT !.doing = "present",
                                              !.todo = Program[prov].present]]
  /\ UNCHANGED <<Environment, Server, ids, holder, Results, faults, failed>>
StartCleanUp(c) ==
  /\ ~Running(c) /\ Returned(pres, c) /\ ~Returned(clean, c)
  /\ overlap \/ (Quiet /\ (prov \in Sequential \/ Returned(pres, 2))
                     /\ (c = 2 => Returned(clean, 1)))
  /\ call' = [call EXCEPT ![c] = [Idle EXCEPT !.doing = "cleanUp",
                                              !.todo = Program[prov].cleanUp]]
  /\ UNCHANGED <<Environment, Server, ids, holder, Results, faults, failed>>

(* External: somebody adds a record at another name.  It matters, and is   *)
(* left to happen, while a call that has read the zone is about to write.  *)
OthersAdd ==
  /\ Late \notin zone /\ \E c \in Challenge : At(c, {"put"})
  /\ zone' = zone \cup {Late}
  /\ UNCHANGED <<Environment, nextId, session, zoneCached, ids, holder, call, Results,
                 faults, failed>>

Done == \A c \in Challenge : Returned(clean, c)
Finished == Done /\ UNCHANGED vars

Init ==
  /\ prov \in Providers
  /\ overlap \in BOOLEAN /\ sameName \in BOOLEAN
  /\ zone \in {{}, Foreign}
  /\ nextId = 7
  /\ \/ ids = <<>>
     \/ prov = "acmedns" /\ ids = [k \in {Key("domain", c) : c \in Challenge} |->
                                      [id |-> 0, found |-> {}]]
  /\ holder = 0 /\ session = FALSE /\ zoneCached = FALSE
  /\ call = [c \in Challenge |-> Idle]
  /\ pres = [c \in Challenge |-> "none"]
  /\ clean = [c \in Challenge |-> "none"]
  /\ faults = IF overlap THEN MaxOverlapFaults ELSE MaxFaults
  /\ failed = {}

CallStep(c) ==
  \/ Skip(c) \/ Succeed(c) \/ Refuse(c) \/ Lose(c) \/ DeleteNext(c)
  \/ SaveId(c) \/ LoadId(c) \/ DropId(c) \/ PickRecord(c) \/ Branch(c)
  \/ AcquireMutex(c) \/ ReleaseMutex(c) \/ DeferStep(c) \/ ReturnEarly(c)
  \/ RunDeferred(c) \/ Finish(c)
Next ==
  \/ \E c \in Challenge : StartPresent(c) \/ StartCleanUp(c) \/ CallStep(c)
  \/ OthersAdd
  \/ Finished
Spec == Init /\ [][Next]_vars

-----------------------------------------------------------------------------
(* Record IDs are the API's, and a remembered ID is one the API gave: the  *)
(* exceptions remember no ID (acmedns an account, gandi and gandiv5 a zone *)
(* or a name, checkdomain a domain), or keep the zero ID of an answer they *)
(* did not look into (glesys).                                             *)
TypeOK ==
  /\ prov \in Providers /\ overlap \in BOOLEAN /\ sameName \in BOOLEAN
  /\ \A r \in zone : r.id \in 1..(nextId - 1) /\ r.name \in 0..2 /\ r.val \in Empty..2
  /\ \A r, s \in zone : r.id = s.id => r = s
  /\ holder \in 0..2 /\ session \in BOOLEAN /\ faults \in 0..MaxFaults + MaxOverlapFaults
  /\ \A c \in Challenge : /\ pres[c] \in {"none", "nil", "error"}
                          /\ clean[c] \in {"none", "nil", "error"}
  /\ prov \notin {"acmedns", "gandi", "gandiv5", "checkdomain", "glesys"}
       => \A k \in DOMAIN ids : ids[k].id \in 1..(nextId - 1)

InProberOrder == ~overlap
(* The record of c is to be seen by the ACME server: its Present returned  *)
(* nil and no CleanUp of the round has begun.                              *)
Needed(c) ==
  /\ pres[c] = "nil" /\ ~Returned(clean, c) /\ call[c].doing # "cleanUp"
  /\ prov \in Sequential \/ \A d \in Challenge : ~Returned(clean, d)
                                                  /\ call[d].doing # "cleanUp"

(* In the order of resolver.Prober, a challenge whose Present returned nil *)
(* has its TXT record in the zone until the CleanUps begin, in particular  *)
(* while the second challenge, which may be for the same name, is          *)
(* presented.  Not so for exoscale, which changes the first record of the  *)
(* name into the new one, pdns with API version 0, which writes back only  *)
(* the first, gcloud, which deletes the RRset before it creates it, and    *)
(* glesys, which does not read the answer's status.                        *)
Published ==
  InProberOrder /\ prov \notin {"exoscale", "pdns0", "gcloud", "glesys"}
    => \A c \in Challenge : Needed(c) => Own(c) # {}

(* A CleanUp that returned nil has removed the challenge's own record.     *)
(* Not so for the providers that remove another record of the name instead *)
(* (RemovesOne) or none at all (acmedns), only log a failed deletion       *)
(* (cloudflare, stackpath), return nil for a key they do not know          *)
(* (easydns, gandi, gandiv5) or do not read the answer's status (glesys).  *)
RemovesOne == {"bluecat", "clouddns", "cloudns", "cloudxns", "vegadns", "exoscale"}
CleanUpTruthful ==
  InProberOrder /\ prov \notin RemovesOne \cup {"acmedns"}
                  /\ prov \notin {"cloudflare", "stackpath"}
                  /\ prov \notin {"easydns", "gandi", "gandiv5", "glesys"}
    => \A c \in Challenge : clean[c] = "nil" => Own(c) = {}

(* Nothing of a finished round is left in the zone unless a CleanUp failed *)
(* to do its work, whoever else has a record at the name: also a record    *)
(* that Present created although it returned an error, unless the provider *)
(* knows its records only by what it remembered when Present succeeded.    *)
(* rackspace refuses to choose between two records, and glesys remembers   *)
(* one record per name.                                                    *)
KnowsByMemory == {"arvancloud", "auroradns", "cloudflare", "digitalocean", "easydns", "gandi",
                  "gandiv5", "liquidweb", "luadns", "netlify", "ovh"}
NothingLeft ==
  /\ InProberOrder /\ Done /\ "cleanUp" \notin failed
  /\ failed # {} => prov \notin KnowsByMemory
  /\ prov \notin RemovesOne \cup {"acmedns", "rackspace", "glesys"}
  => \A c \in Challenge : Own(c) = {}

(* Without failures both challenges of a round succeed, for one name (a    *)
(* domain and its wildcard) as for two, and the provider ends as it began, *)
(* with an empty map and no session.  In Present, acmedns fails until the  *)
(* user has set the CNAME, otc, edgedns and nifcloud create an RRset that  *)
(* may exist, gandi serves one challenge per zone at a time.  In CleanUp,  *)
(* rackspace fails if the name has two records; pdns and stackpath, whose  *)
(* first CleanUp removes the records of both, take it for an error that    *)
(* none is left; azure, bindman, dyn and ns1 ask the API to remove them    *)
(* again and return its refusal.                                           *)
(* acmedns keeps its accounts, checkdomain drops its ID under another key, *)
(* clouddns and mythicbeasts never log out, bluecat and dyn do not after   *)
(* an error.                                                               *)
RoundSucceeds ==
  failed = {} =>
    /\ InProberOrder /\ prov \notin {"acmedns", "edgedns", "gandi", "nifcloud", "otc"}
         => \A c \in Challenge : pres[c] # "error"
    /\ InProberOrder /\ prov \notin {"pdns", "pdns0", "rackspace", "stackpath"}
         /\ prov \notin {"azure", "bindman", "dyn", "ns1"}
         /\ (\A c \in Challenge : pres[c] = "nil")
         => \A c \in Challenge : clean[c] # "error"
    /\ Done /\ prov \notin {"acmedns", "checkdomain"} => ids = <<>>
    /\ Done /\ prov \notin {"clouddns", "mythicbeasts"}
         /\ (prov \in {"bluecat", "dyn"} => \A c \in Challenge : pres[c] = "nil" /\ clean[c] = "nil")
         => ~session

(* No call removes somebody else's record at another name, although some   *)
(* providers write all TXT records or the whole zone, and some of them     *)
(* while another call writes it.  What these lose is a record that was     *)
(* added after they had read the zone (gandi: at any time until CleanUp),  *)
(* and none they have read, except those that godaddy and checkdomain      *)
(* leave out on purpose.                                                   *)
RewritesZone == {"checkdomain", "gandi", "godaddy", "joker", "namecheap", "sakuracloud", "versio"}
LeftOut(r) == \/ prov \in {"checkdomain", "godaddy"} /\ r.val = Empty
              \/ prov = "checkdomain" /\ r.type = "NS"
AddedSinceRead(r) ==
  /\ r = Late /\ prov \in RewritesZone
  /\ \E c \in Challenge : At(c, {"put"}) /\ r \notin call[c].found
ElsewhereKept ==
  [][\A r \in zone \ zone' : r.name = 0 => LeftOut(r) \/ AddedSinceRead(r)]_vars

(* challenge.Provider as one would wish it, see ProviderContract, however  *)
(* the calls interleave and whichever requests fail (MaxFaults of them in  *)
(* Prober's order, MaxOverlapFaults otherwise): the providers that name    *)
(* their own record, by ID or by value, in the one request that changes    *)
(* the zone, and send no other.                                            *)
KeepsContract ==
  {"arvancloud", "auroradns", "autodns", "conoha", "digitalocean", "dreamhost", "dynu",
   "exec", "hetzner", "hostingde", "httpreq", "iij", "lightsail", "linode", "liquidweb",
   "luadns", "mydnsjp", "mythicbeasts", "netlify", "nifcloud", "oraclecloud", "ovh",
   "regru", "scaleway", "transip", "yandex", "zoneee"}
Contract == INSTANCE ProviderContract WITH
  bound <- prov \in KeepsContract,
  published <- {c \in Challenge : Own(c) # {}},
  doing <- [c \in Challenge |-> call[c].doing]
ImplementsContract == Contract!CSpec

(* A method that has returned holds no mutex, on whichever path it did, so *)
(* that the next call is not blocked for ever; and none unlocks a mutex it *)
(* does not hold, which would end the program.                             *)
MutexReleased ==
  \A c \in Challenge : /\ holder = c => Running(c)
                       /\ At(c, {"unlock"}) => holder = c
=============================================================================
