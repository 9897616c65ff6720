---------------------------- MODULE ProvidersById ----------------------------
(***************************************************************************)
(* Providers that remember, between Present and CleanUp, which record they *)
(* created: a map from a key of the challenge (its token, its FQDN, its    *)
(* FQDN and value, or its domain) to the ID the API answered.  Every       *)
(* definition is one function of the package it is named after.            *)
(***************************************************************************)
EXTENDS DnsSteps

digitalocean_addTxtRecord == <<Zone, Checked(Sent(Add))>>
digitalocean_removeTxtRecord == <<Zone, Checked(Sent(DeleteId))>>
digitalocean_PresentSavesFirst == <<Save("token")>> \o digitalocean_addTxtRecord
digitalocean_Present == digitalocean_addTxtRecord \o <<Save("token")>>
digitalocean_CleanUp ==
  <<Zone, Load("token", <<Fail>>)>> \o digitalocean_removeTxtRecord \o <<Drop("token")>>

(* The zone ID is cached; a failed deletion is only logged.                *)
cloudflare_ZoneIDByName == <<ReadCached>>
cloudflare_CreateDNSRecord == <<Add>>
cloudflare_DeleteDNSRecord == <<DeleteId>>
cloudflare_Present ==
  <<Zone>> \o cloudflare_ZoneIDByName \o cloudflare_CreateDNSRecord \o <<Save("token")>>
cloudflare_CleanUp ==
  <<Zone>> \o cloudflare_ZoneIDByName
    \o <<Load("token", <<Fail>>), Ignore(cloudflare_DeleteDNSRecord[1]), Drop("token")>>

liquidweb_Present == <<Add, Save("token")>>
liquidweb_CleanUpIgnoresError == <<Load("token", <<Fail>>), Ignore(DeleteId), Drop("token")>>
liquidweb_CleanUp == <<Load("token", <<Fail>>), DeleteId, Drop("token")>>

auroradns_getZoneInformationByName == <<Read>>
auroradns_Present ==
  <<Zone>> \o auroradns_getZoneInformationByName \o <<Add, Save("token")>>
auroradns_CleanUp ==
  <<Load("token", <<Fail>>), Zone>> \o auroradns_getZoneInformationByName
    \o <<DeleteId, Drop("token")>>

(* The second request refreshes the zone: a record whose refresh fails     *)
(* exists and is not remembered.                                           *)
ovh_Present == <<Zone, Add, Read, Save("token")>>
ovh_CleanUpKeepsId == <<Load("token", <<Fail>>), Zone, DeleteId, Read>>
ovh_CleanUp == <<Load("token", <<Fail>>), Zone, DeleteId, Read, Drop("token")>>

(* One record is remembered per FQDN, and the answer's own status code is  *)
(* not an error.  The mutex is held over the request.                      *)
glesys_sendRequest(s) == Sent(s)
glesys_addTXTRecord == <<glesys_sendRequest(Add)>>
glesys_deleteTXTRecord == <<glesys_sendRequest(DeleteId)>>
glesys_Present == <<Zone, Lock, Defer(Unlock)>> \o glesys_addTXTRecord \o <<Save("fqdn")>>
glesys_CleanUp ==
  <<Lock, Defer(Unlock), Load("fqdn", <<Return>>), Drop("fqdn")>> \o glesys_deleteTXTRecord

(* The key is the FQDN and the value; the entry goes whatever the answer.  *)
easydns_doRequest(s) == Checked(Sent(s))
easydns_addRecord == <<easydns_doRequest(Add)>>
easydns_deleteRecord == <<easydns_doRequest(DeleteId)>>
easydns_Present == easydns_addRecord \o <<Save("value")>>
easydns_CleanUp ==
  <<Load("value", <<Return>>), Defer(Drop("value"))>> \o easydns_deleteRecord

(* The map is the account file: a domain without an account is registered, *)
(* and Present fails so that the user adds the CNAME.  Nothing is removed. *)
acmedns_register == <<Read, Save("domain"), Read, Fail>>
acmedns_Present == <<Load("domain", acmedns_register), Add>>
acmedns_CleanUp == <<>>

netlify_CreateRecord == <<Checked(Sent(Add))>>
netlify_RemoveRecord == <<Checked(Sent(DeleteId))>>
netlify_Present == <<Zone>> \o netlify_CreateRecord \o <<Save("token")>>
netlify_CleanUp ==
  <<Zone, Load("token", <<Fail>>)>> \o netlify_RemoveRecord \o <<Drop("token")>>

arvancloud_getZone == <<Zone>>
arvancloud_CreateRecord == <<Checked(Sent(Add))>>
arvancloud_DeleteRecord == <<Checked(Sent(DeleteId))>>
arvancloud_Present == arvancloud_getZone \o arvancloud_CreateRecord \o <<Save("token")>>
arvancloud_CleanUp ==
  arvancloud_getZone \o <<Load("token", <<Fail>>)>> \o arvancloud_DeleteRecord
    \o <<Drop("token")>>

luadns_ListZones == <<Checked(Sent(Read))>>
luadns_CreateRecord == <<Checked(Sent(Add))>>
luadns_DeleteRecord == <<Checked(Sent(DeleteId))>>
luadns_Present == luadns_ListZones \o luadns_CreateRecord \o <<Save("token")>>
luadns_CleanUp == <<Load("token", <<Fail>>)>> \o luadns_DeleteRecord \o <<Drop("token")>>

(* Present looks the own record up in the answer and remembers its ID,     *)
(* then reads the map, without the lock, to see whether it did.  CleanUp   *)
(* only drops the entry: the deletion names FQDN and value.                *)
hostingde_listZoneConfigs == <<Checked(Sent(Read))>>
hostingde_updateZone(s) == <<Checked(Sent(s))>>
hostingde_getZone == hostingde_listZoneConfigs
hostingde_Present ==
  hostingde_getZone \o hostingde_updateZone(Add) \o <<Save("fqdn"), Load("fqdn", <<Fail>>)>>
hostingde_CleanUpFromMemory ==
  hostingde_getZone \o <<Load("fqdn", <<Return>>), Drop("fqdn")>>
    \o hostingde_updateZone(Remove("value"))
hostingde_CleanUp ==
  hostingde_getZone \o <<Drop("fqdn")>> \o hostingde_updateZone(Remove("value"))

(* Only the FQDN is remembered; the deletion removes its whole RRset.      *)
gandiv5_checkResponse(s) == Checked(s)
gandiv5_do(s) == gandiv5_checkResponse(Sent(s))
gandiv5_getTXTRecord == <<gandiv5_do(List("name"))>>
gandiv5_addTXTRecord == gandiv5_getTXTRecord \o <<gandiv5_do(Put("name", "found+own"))>>
gandiv5_deleteTXTRecord == <<gandiv5_do(Remove("name"))>>
gandiv5_Present == <<Zone, Lock, Defer(Unlock)>> \o gandiv5_addTXTRecord \o <<Save("fqdn")>>
gandiv5_CleanUpUnlocksLast ==
  <<Lock, Load("fqdn", <<Return>>), Drop("fqdn")>> \o gandiv5_deleteTXTRecord \o <<Unlock>>
gandiv5_CleanUp ==
  <<Lock, Defer(Unlock), Load("fqdn", <<Return>>), Drop("fqdn")>> \o gandiv5_deleteTXTRecord

(* The zone is cloned, the record added to the clone, and the domain moved *)
(* to the clone; CleanUp moves it back to the zone it had.  One challenge  *)
(* at a time per zone.                                                     *)
gandi_rpcCall(s) == Checked(Sent(s))
gandi_getZoneID == <<gandi_rpcCall(Read)>>
gandi_cloneZone == <<gandi_rpcCall(List("zone"))>>
gandi_newZoneVersion == <<gandi_rpcCall(Read)>>
gandi_addTXTRecord == <<gandi_rpcCall(Read)>>
gandi_setZoneVersion == <<gandi_rpcCall(Read)>>
gandi_setZone(what) == <<gandi_rpcCall(Put("zone", what))>>
gandi_deleteZone == <<gandi_rpcCall(Read)>>
gandi_Present ==
  <<Zone>> \o gandi_getZoneID \o <<Lock, Defer(Unlock), If("zone held", <<Fail>>, <<>>)>>
    \o gandi_cloneZone \o gandi_newZoneVersion \o gandi_addTXTRecord
    \o gandi_setZoneVersion \o gandi_setZone("found+own") \o <<Save("fqdn"), Save("zone")>>
gandi_CleanUp ==
  <<Lock, Defer(Unlock), Load("fqdn", <<Return>>), Drop("fqdn"), Drop("zone")>>
    \o gandi_setZone("found") \o gandi_deleteZone

(* The domain's ID is cached under the domain and dropped under the FQDN.  *)
(* CleanUp replaces the zone by what it listed less what skipRecord skips: *)
(* the own record, records without a value, SOA and NS, the apex, www.     *)
checkdomain_checkResponse(s) == Checked(s)
checkdomain_sendRequest(s) == checkdomain_checkResponse(Sent(s))
checkdomain_listDomains == <<checkdomain_sendRequest(Read)>>
checkdomain_getDomainIDByName ==
  <<Load("domain", checkdomain_listDomains \o <<Save("domain")>>)>>
checkdomain_getNameserverInfo == <<checkdomain_sendRequest(Read)>>
checkdomain_checkNameservers == checkdomain_getNameserverInfo
checkdomain_createRecord == <<checkdomain_sendRequest(Add)>>
checkdomain_getDomainInfo == <<checkdomain_sendRequest(Read)>>
checkdomain_listRecords == <<checkdomain_sendRequest(List("zone"))>>
checkdomain_replaceRecords(what) == <<checkdomain_sendRequest(Put("zone", what))>>
checkdomain_skipRecord == "unskipped"
checkdomain_deleteTXTRecord ==
  checkdomain_getDomainInfo \o checkdomain_getNameserverInfo \o checkdomain_listRecords
    \o checkdomain_replaceRecords(checkdomain_skipRecord)
checkdomain_Present ==
  checkdomain_getDomainIDByName \o checkdomain_checkNameservers \o checkdomain_createRecord
checkdomain_CleanUp ==
  checkdomain_getDomainIDByName \o checkdomain_checkNameservers
    \o checkdomain_deleteTXTRecord \o <<Drop("fqdn")>>
=============================================================================
