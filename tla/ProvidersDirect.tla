--------------------------- MODULE ProvidersDirect ---------------------------
(***************************************************************************)
(* Providers whose API adds and removes a TXT record in one request each:  *)
(* the removal names the FQDN and the value, or only the FQDN.  Every      *)
(* definition is one function of the package it is named after.            *)
(***************************************************************************)
EXTENDS DnsSteps

bindman_Present == <<Add>>
bindman_CleanUp == <<Remove("name")>>

(* The user's program and the user's server are given the FQDN and value.  *)
exec_Present == <<Add>>
exec_CleanUp == <<Remove("value")>>

httpreq_doPost(s) == Checked(Sent(s))
httpreq_Present == <<httpreq_doPost(Add)>>
httpreq_CleanUp == <<httpreq_doPost(Remove("value"))>>

mydnsjp_doRequest(s) == Checked(Sent(s))
mydnsjp_Present == <<mydnsjp_doRequest(Add)>>
mydnsjp_CleanUp == <<mydnsjp_doRequest(Remove("value"))>>

(* dode and duckdns hold one value: setting it replaces, clearing empties. *)
dode_updateTxtRecord(s) == Checked(Sent(s))
dode_Present == <<dode_updateTxtRecord(Put("name", "own"))>>
dode_CleanUp == <<dode_updateTxtRecord(Remove("name"))>>

duckdns_updateTxtRecord(s) == Checked(Sent(s))
duckdns_Present == <<duckdns_updateTxtRecord(Put("name", "own"))>>
duckdns_CleanUp == <<duckdns_updateTxtRecord(Remove("name"))>>

lightsail_newTxtRecord == <<Add>>
lightsail_Present == lightsail_newTxtRecord
lightsail_CleanUpByName == <<Remove("name")>>
lightsail_CleanUp == <<Remove("value")>>

dreamhost_updateTxtRecord(s) == Checked(Sent(s))
dreamhost_Present == <<dreamhost_updateTxtRecord(Add)>>
dreamhost_CleanUp == <<dreamhost_updateTxtRecord(Remove("value"))>>

(* An update message that inserts first removes the whole RRset.           *)
rfc2136_changeRecord(s) == <<Zone, Checked(Sent(s))>>
rfc2136_Present == rfc2136_changeRecord(Put("name", "own"))
rfc2136_CleanUp == rfc2136_changeRecord(Remove("value"))

autodns_checkResponse(s) == Checked(s)
autodns_sendRequest(s) == autodns_checkResponse(Sent(s))
autodns_makeZoneUpdateRequest(s) == <<autodns_sendRequest(s)>>
autodns_addTxtRecord == autodns_makeZoneUpdateRequest(Add)
autodns_removeTXTRecord == autodns_makeZoneUpdateRequest(Remove("value"))
autodns_Present == autodns_addTxtRecord
autodns_CleanUp == autodns_removeTXTRecord

(* The session token is one field of the provider.                         *)
dyn_sendRequest(s) == Checked(Sent(s))
dyn_login == <<dyn_sendRequest(Login)>>
dyn_logout == <<Logout>>
dyn_publish == <<dyn_sendRequest(Read)>>
dyn_Present == <<Zone>> \o dyn_login \o <<dyn_sendRequest(Add)>> \o dyn_publish \o dyn_logout
dyn_CleanUpStaysLoggedIn ==
  <<Zone>> \o dyn_login \o <<Checked(Sent(Remove("name")))>> \o dyn_publish
dyn_CleanUp ==
  <<Zone>> \o dyn_login \o <<Checked(Sent(Remove("name")))>> \o dyn_publish \o dyn_logout

regru_HasError(s) == Checked(s)
regru_do(s) == regru_HasError(Sent(s))
regru_AddTXTRecord == <<regru_do(Add)>>
regru_RemoveTxtRecord == <<regru_do(Remove("value"))>>
regru_Present == <<Zone>> \o regru_AddTXTRecord
regru_CleanUp == <<Zone>> \o regru_RemoveTxtRecord

scaleway_checkResponse(s) == Checked(s)
scaleway_do(s) == scaleway_checkResponse(Sent(s))
scaleway_AddRecord == <<scaleway_do(Add)>>
scaleway_DeleteRecord == <<scaleway_do(Remove("value"))>>
scaleway_Present == scaleway_AddRecord
scaleway_CleanUp == scaleway_DeleteRecord

(* A change of an RRset of one value is requested, then awaited: CREATE    *)
(* needs a name without an RRset, DELETE the RRset's exact content.        *)
nifcloud_ChangeResourceRecordSets(s) == <<Checked(Sent(s))>>
nifcloud_GetChange == <<Checked(Sent(Read))>>
nifcloud_changeRecord(s) == nifcloud_ChangeResourceRecordSets(s) \o nifcloud_GetChange
nifcloud_Present == nifcloud_changeRecord(Make)
nifcloud_CleanUp == nifcloud_changeRecord(RemoveSame("own"))

(* Logged in once.  The answer says how many records were added or removed,*)
(* and a number other than 1 is an error.                                  *)
mythicbeasts_login == <<Checked(Sent(LoginOnce))>>
mythicbeasts_createTXTRecord == <<Counted(Checked(Sent(Add)))>>
mythicbeasts_removeTXTRecord == <<Counted(Checked(Sent(Remove("value"))))>>
mythicbeasts_Present == <<Zone>> \o mythicbeasts_login \o mythicbeasts_createTXTRecord
mythicbeasts_CleanUp == <<Zone>> \o mythicbeasts_login \o mythicbeasts_removeTXTRecord
=============================================================================
