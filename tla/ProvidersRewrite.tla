-------------------------- MODULE ProvidersRewrite --------------------------
(***************************************************************************)
(* Providers whose API replaces an RRset, all TXT records, or the whole    *)
(* zone: Present reads what is there and writes it back with the own       *)
(* value, CleanUp writes it back without.  Every definition is one         *)
(* function of the package it is named after.                              *)
(***************************************************************************)
EXTENDS DnsSteps

godaddy_getZone == <<Zone>>
godaddy_getRecords(sel) == <<Checked(Sent(List(sel)))>>
godaddy_updateTxtRecords(scope, what) == <<Checked(Sent(Put(scope, what)))>>
(* Records without data are not written back, and one of that kind is      *)
(* written when CleanUp has nothing else to write.                         *)
godaddy_Present ==
  godaddy_getZone \o godaddy_getRecords("name")
    \o godaddy_updateTxtRecords("name", "nonempty+own")
godaddy_CleanUp ==
  godaddy_getZone \o godaddy_getRecords("name") \o <<If("none", <<Return>>, <<>>)>>
    \o godaddy_getRecords("txt") \o godaddy_updateTxtRecords("txt", "nonempty-own")

namecheap_do(s) == Checked(Sent(s))
namecheap_getHostsOfName == <<namecheap_do(List("name"))>>
namecheap_getHosts == <<namecheap_do(List("zone"))>>
namecheap_setHosts(what) == <<namecheap_do(Put("zone", what))>>
namecheap_Present == namecheap_getHosts \o namecheap_setHosts("found+own")
namecheap_CleanUp ==
  namecheap_getHosts \o <<If("no name", <<Return>>, <<>>)>> \o namecheap_setHosts("found-name")

(* The client of rimuhosting and zonomi: SET replaces the values of a name *)
(* by the ones in the request, so the values that are there are sent again.*)
rimuhosting_do(s) == Checked(Sent(s))
rimuhosting_DoActions(s) == <<rimuhosting_do(s)>>
rimuhosting_FindTXTRecords == rimuhosting_DoActions(List("name"))
rimuhosting_Present ==
  rimuhosting_FindTXTRecords \o rimuhosting_DoActions(Put("name", "found+own"))
rimuhosting_CleanUp == rimuhosting_DoActions(Remove("value"))
zonomi_Present ==
  rimuhosting_FindTXTRecords \o rimuhosting_DoActions(Put("name", "found+own"))
zonomi_CleanUp == rimuhosting_DoActions(Remove("value"))

(* Get answers no record on any error, and Present then creates one.       *)
ns1_getAuthZone == <<Zone>>
ns1_getHostedZone == ns1_getAuthZone \o <<Read>>
ns1_Present ==
  ns1_getHostedZone
    \o <<Ignore(List("name")), If("none", <<Make>>, <<Put("name", "found+own")>>)>>
ns1_CleanUp == ns1_getHostedZone \o <<Remove("name")>>

desec_Present ==
  <<Zone, List("name"), If("none", <<Make>>, <<Put("name", "found+own")>>)>>
desec_CleanUp ==
  <<Zone, List("name"), If("none", <<Fail>>, <<>>), Put("name", "found-own")>>

(* A process-wide lock is held over the read and the write.                *)
sakuracloud_getHostedZone == <<Zone, List("zone")>>
sakuracloud_addTXTRecord ==
  <<Lock, Defer(Unlock)>> \o sakuracloud_getHostedZone \o <<Put("zone", "found+own")>>
sakuracloud_cleanupTXTRecord ==
  <<Lock, Defer(Unlock)>> \o sakuracloud_getHostedZone \o <<Put("zone", "found-name")>>
sakuracloud_Present == sakuracloud_addTXTRecord
sakuracloud_CleanUp == sakuracloud_cleanupTXTRecord

(* Neither method returns after updating an existing RRset: Present goes   *)
(* on to create it, CleanUp goes on to delete it.                          *)
edgedns_findZone == <<Zone>>
edgedns_Present ==
  edgedns_findZone
    \o <<List("name"),
         If("none", <<>>, <<If("own", <<Return>>, <<Put("name", "found+own")>>)>>),
         Make>>
edgedns_CleanUp ==
  edgedns_findZone
    \o <<List("name"),
         If("own", <<>>, <<Return>>),
         If("others", <<Put("name", "found-own")>>, <<>>),
         Remove("name")>>

designate_getZoneID == <<Read>>
designate_getRecord == <<List("name")>>
designate_createRecord == <<Make>>
designate_updateRecord == <<Put("name", "found+own")>>
designate_PresentCreates ==
  <<Zone>> \o designate_getZoneID \o <<Lock, Defer(Unlock)>> \o designate_createRecord
designate_Present ==
  <<Zone>> \o designate_getZoneID \o <<Lock, Defer(Unlock)>> \o designate_getRecord
    \o <<If("none", designate_createRecord,
                    <<If("own", <<Return>>, designate_updateRecord)>>)>>
designate_CleanUpMustFind ==
  <<Zone>> \o designate_getZoneID \o <<Lock, Defer(Unlock)>> \o designate_getRecord
    \o <<If("none", <<Fail>>, <<Remove("name")>>)>>
designate_CleanUp ==
  <<Zone>> \o designate_getZoneID \o <<Lock, Defer(Unlock)>> \o designate_getRecord
    \o <<If("none", <<Return>>, <<Remove("name")>>)>>

versio_do(s) == Checked(Sent(s))
versio_getDNSRecords == <<versio_do(List("zone"))>>
versio_postDNSRecords(what) == <<versio_do(Put("zone", what))>>
versio_Present ==
  <<Zone, Lock, Defer(Unlock)>> \o versio_getDNSRecords \o versio_postDNSRecords("found+own")
versio_CleanUp ==
  <<Zone, Lock, Defer(Unlock)>> \o versio_getDNSRecords \o versio_postDNSRecords("found-any")

(* A configured zone ID saves the search; the API deletes an RRset only    *)
(* when the request lists its exact content; then the change is awaited.   *)
route53_getHostedZoneID == <<If("choice", <<>>, <<Zone, Read>>)>>
route53_getExistingRecordSets == <<List("name")>>
route53_changeRecord(s) == <<s, Read>>
route53_Present ==
  route53_getHostedZoneID \o route53_getExistingRecordSets
    \o route53_changeRecord(Put("name", "found+own"))
route53_CleanUp ==
  route53_getHostedZoneID \o route53_getExistingRecordSets
    \o <<If("none", <<Return>>, <<>>)>> \o route53_changeRecord(RemoveSame("found"))

azure_getHostedZoneID == <<Zone, Read>>
azure_PresentOwnOnly == azure_getHostedZoneID \o <<List("name"), Put("name", "own")>>
azure_Present == azure_getHostedZoneID \o <<List("name"), Put("name", "found+own")>>
azure_CleanUp == azure_getHostedZoneID \o <<Remove("name")>>

(* Present deletes the RRset it found and creates it anew with one value   *)
(* more, in two changes; a change refused with 404 counts as made.         *)
gcloud_getHostedZone == <<Zone, Read>>
gcloud_findTxtRecords == <<List("name")>>
gcloud_applyChanges(s) == <<Sent(s), Read>>
gcloud_Present ==
  gcloud_getHostedZone \o gcloud_findTxtRecords
    \o <<If("own", <<Return>>, <<>>), If("none", <<>>, gcloud_applyChanges(RemoveSame("found")))>>
    \o gcloud_applyChanges(MakeOf("found+own"))
gcloud_CleanUp ==
  gcloud_getHostedZone \o gcloud_findTxtRecords
    \o <<If("none", <<Return>>, <<>>), RemoveSame("found")>>

(* The whole zone file is read and written back.  The session is one field *)
(* of the provider: Present opens it, CleanUp closes it.                   *)
joker_postRequest(s) == Checked(Sent(s))
joker_login == <<joker_postRequest(LoginOnce)>>
joker_logout == joker_postRequest(LogoutHeld)
joker_getZone == <<joker_postRequest(List("zone"))>>
joker_putZone(what) == <<joker_postRequest(Put("zone", what))>>
joker_addTxtEntryToZone == "found+own"
joker_removeTxtEntryFromZone == "found-name"
joker_Present ==
  <<Zone>> \o joker_login \o joker_getZone \o joker_putZone(joker_addTxtEntryToZone)
joker_CleanUp ==
  <<Zone>> \o joker_login \o <<Defer(Ignore(joker_logout))>> \o joker_getZone
    \o <<If("no name", <<>>, joker_putZone(joker_removeTxtEntryFromZone))>>
    \o <<joker_logout>>

(* findTxtRecord reads the zone again before it looks.  Version 0 of the   *)
(* API lists single records, of which the first of the name is taken for   *)
(* the whole RRset.                                                        *)
pdns_sendRequest(s) == Checked(Sent(s))
pdns_getHostedZone == <<Zone, pdns_sendRequest(Read), pdns_sendRequest(List("name"))>>
pdns_findTxtRecord(version) ==
  pdns_getHostedZone \o <<pdns_sendRequest(Read)>>
    \o (IF version = 0 THEN <<TakeFirst>> ELSE <<>>)
pdns_Present(version) ==
  pdns_getHostedZone \o pdns_findTxtRecord(version)
    \o <<pdns_sendRequest(Put("name", "found+own"))>>
pdns_CleanUp(version) ==
  pdns_getHostedZone \o pdns_findTxtRecord(version)
    \o <<If("none", <<Fail>>, <<>>), pdns_sendRequest(Remove("name"))>>

otc_sendRequest(s) == Checked(Sent(s))
otc_loginRequest == <<Checked(Sent(Read))>>
otc_login == otc_loginRequest
otc_getZoneID == <<otc_sendRequest(Read)>>
otc_getRecordSetID == <<otc_sendRequest(List("name")), If("none", <<Fail>>, <<>>)>>
otc_deleteRecordSet == <<otc_sendRequest(Remove("name"))>>
otc_Present == <<Zone>> \o otc_login \o otc_getZoneID \o <<otc_sendRequest(Make)>>
otc_CleanUp ==
  <<Zone>> \o otc_login \o otc_getZoneID \o otc_getRecordSetID \o otc_deleteRecordSet

servercow_getAuthZone == <<Zone>>
servercow_GetRecords == <<Checked(Sent(List("name")))>>
servercow_CreateUpdateRecord(what) == <<Checked(Sent(Put("name", what)))>>
servercow_DeleteRecord == <<Checked(Sent(Remove("name")))>>
servercow_Present ==
  servercow_getAuthZone \o servercow_GetRecords \o <<If("own", <<Return>>, <<>>)>>
    \o servercow_CreateUpdateRecord("found+own")
servercow_CleanUp ==
  servercow_getAuthZone \o servercow_GetRecords \o <<If("own", <<>>, <<Return>>)>>
    \o <<If("many", servercow_CreateUpdateRecord("found-own"), servercow_DeleteRecord)>>

hyperone_checkResponse(s) == Checked(s)
hyperone_do(s) == hyperone_checkResponse(Sent(s))
hyperone_GetZones == <<hyperone_do(Read)>>
hyperone_FindZone == hyperone_GetZones
hyperone_getHostedZone == <<Zone>> \o hyperone_FindZone
hyperone_FindRecordset == <<hyperone_do(List("name"))>>
hyperone_CreateRecordset == <<hyperone_do(Make)>>
hyperone_DeleteRecordset == <<hyperone_do(Remove("name"))>>
hyperone_GetRecords == <<hyperone_do(List("name"))>>
hyperone_CreateRecord == <<hyperone_do(AddInto)>>
hyperone_DeleteRecord == <<hyperone_do(DeleteId)>>
hyperone_Present ==
  hyperone_getHostedZone \o hyperone_FindRecordset
    \o <<If("none", hyperone_CreateRecordset, hyperone_CreateRecord)>>
hyperone_CleanUp ==
  hyperone_getHostedZone \o hyperone_FindRecordset \o <<If("none", <<Fail>>, <<>>)>>
    \o hyperone_GetRecords
    \o <<If("many", <<PickOwn(<<Fail>>)>> \o hyperone_DeleteRecord,
                     <<If("own", hyperone_DeleteRecordset, <<Fail>>)>>)>>

constellix_checkResponse(s) == Checked(s)
constellix_do(s) == constellix_checkResponse(Sent(s))
constellix_GetByName == <<constellix_do(Read)>>
constellix_Search == <<constellix_do(List("name"))>>
constellix_Get == <<constellix_do(List("name")), If("none", <<Fail>>, <<>>)>>
constellix_Create == <<constellix_do(Make)>>
constellix_Update(what) == <<constellix_do(Put("name", what))>>
constellix_Delete == <<constellix_do(Remove("name"))>>
constellix_createRecord == constellix_Create
constellix_appendRecordValue ==
  constellix_Get \o <<If("own", <<Return>>, <<>>)>> \o constellix_Update("found+own")
constellix_removeRecordValue == constellix_Update("found-own")
constellix_Present ==
  <<Zone>> \o constellix_GetByName \o constellix_Search
    \o <<If("none", constellix_createRecord, constellix_appendRecordValue)>>
constellix_CleanUp ==
  <<Zone>> \o constellix_GetByName \o constellix_Search \o <<If("none", <<Return>>, <<>>)>>
    \o constellix_Get \o <<If("own", <<>>, <<Return>>)>>
    \o <<If("many", constellix_removeRecordValue, constellix_Delete)>>
=============================================================================
