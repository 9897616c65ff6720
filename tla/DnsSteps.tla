------------------------------ MODULE DnsSteps ------------------------------
(***************************************************************************)
(* The vocabulary in which the Present and CleanUp methods of the DNS      *)
(* providers under providers/dns are written.  A method is a sequence of   *)
(* steps; DnsProvider executes them.  A step stands for one request to the *)
(* provider's API, one access to the provider's own memory, or one branch. *)
(*                                                                         *)
(* Every request may be refused (no effect), or answered by an error after *)
(* it took effect.  Field `err' says what the code does with the error:    *)
(* "return" it, "keep" it and go on (lastErr), or "ignore" it.  Field      *)
(* `blind' is TRUE where the client can take a refusal for a success,      *)
(* `retry' where it repeats a request whose answer did not arrive, and     *)
(* `counted' where it takes an answer that nothing changed for an error.   *)
(*                                                                         *)
(* A selector names records: "name" the TXT records of the challenge's     *)
(* FQDN, "any" all records of that FQDN, "value" the TXT record of that    *)
(* FQDN with the challenge's own value, "txt" all TXT records of the zone, *)
(* "zone" every record of the zone.                                        *)
(***************************************************************************)
EXTENDS Sequences, TLC

Request(do) ==
  [do |-> do, err |-> "return", blind |-> FALSE, retry |-> FALSE, counted |-> FALSE]

(* dns01.FindZoneByFqdn, and an API request that only reads or that only   *)
(* makes earlier changes visible (log in, find the zone, refresh, wait).   *)
Zone == Request("zone")
Read == Request("read")
(* A read whose successful answer the client caches.                       *)
ReadCached == Request("readCached")

(* Requests that list records: the answer is kept in `found'.              *)
List(sel) == Request("list") @@ [sel |-> sel]

(* Requests that change the zone: add the own record (the answer carries   *)
(* its ID), or add it to an RRset that must exist; create the RRset of the *)
(* FQDN, which must not exist; change the record with the ID at hand into  *)
(* the own record; replace a part of the zone; update the records sent, by *)
(* their IDs, and create those that have none; delete by ID, by selector,  *)
(* or an RRset given by its exact content.  `what' says what is sent: the  *)
(* own value, what was found, both, or what was found less some.           *)
Add == Request("add")
AddInto == Request("addInto")
MakeOf(what) == Request("make") @@ [what |-> what]
Make == MakeOf("own")
UpdateId == Request("updateId")
Put(scope, what) == Request("put") @@ [scope |-> scope, what |-> what]
Merge(what) == Request("merge") @@ [what |-> what]
DeleteId == Request("deleteId")
DeleteEach == Request("deleteEach")
Remove(sel) == Request("remove") @@ [sel |-> sel]
RemoveSame(what) == Request("removeSame") @@ [what |-> what]

(* A session token held in the provider, shared by its calls; LoginOnce    *)
(* asks for one only when there is none; LogoutHeld fails without one.     *)
Login == Request("login")
LoginOnce == Request("loginOnce")
Logout == Request("logout")
LogoutHeld == Request("logoutHeld")

(* What the code does with an error of step s.                             *)
Ignore(s) == [s EXCEPT !.err = "ignore"]
Keep(s) == [s EXCEPT !.err = "keep"]
(* A bare HTTP exchange succeeds whatever the answer says (Sent), until    *)
(* the client looks at its status or its body (Checked).                   *)
Sent(s) == [s EXCEPT !.blind = TRUE]
Checked(s) == [s EXCEPT !.blind = FALSE]
Retry(s) == [s EXCEPT !.retry = TRUE]
Counted(s) == [s EXCEPT !.counted = TRUE]

(* The provider's map from a key of the challenge to a record ID (gandi    *)
(* also keeps the zone it replaced).                                       *)
Save(key) == [do |-> "save", key |-> key]
Drop(key) == [do |-> "drop", key |-> key]
Load(key, missing) == [do |-> "load", key |-> key, else |-> missing]

(* Control: take one of the records found, or the own one among them (else *)
(* branch when there is none), branch on a condition, return, lock and     *)
(* unlock the provider's mutex, run a step when the method returns.        *)
Pick(none) == [do |-> "pick", own |-> FALSE, else |-> none]
PickOwn(none) == [do |-> "pick", own |-> TRUE, else |-> none]
TakeFirst == [do |-> "first"]
If(cond, then, else) == [do |-> "if", cond |-> cond, then |-> then, else |-> else]
Return == [do |-> "return", result |-> "nil"]
Fail == [do |-> "return", result |-> "error"]
Lock == [do |-> "lock"]
Unlock == [do |-> "unlock"]
Defer(s) == [do |-> "defer", step |-> s]
=============================================================================
