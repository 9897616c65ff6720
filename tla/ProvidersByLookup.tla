-------------------------- MODULE ProvidersByLookup --------------------------
(***************************************************************************)
(* Providers that keep nothing between Present and CleanUp: CleanUp lists  *)
(* the records, selects some, by name or by name and value, and deletes    *)
(* them by ID.  Every definition is one function of the package it is      *)
(* named after.                                                            *)
(***************************************************************************)
EXTENDS DnsSteps

(* GetRecordID answers one TXT record of the name, whatever its value.     *)
vegadns_Present == <<Read, Add>>
vegadns_CleanUp == <<Read, List("name"), Pick(<<Fail>>), DeleteId>>

(* The client of selectel and vscale: GetDomainByName strips labels until  *)
(* the API knows the domain; checkResponse reports every status >= 400.    *)
selectel_checkResponse(s) == Checked(s)
selectel_do(s) == selectel_checkResponse(Sent(s))
selectel_GetDomainByName == <<selectel_do(Read)>>
selectel_AddRecord == <<selectel_do(Add)>>
selectel_ListRecords == <<selectel_do(List("any"))>>
selectel_DeleteRecord == selectel_do(DeleteEach)
selectel_Present == selectel_GetDomainByName \o selectel_AddRecord
selectel_CleanUp ==
  selectel_GetDomainByName \o selectel_ListRecords \o <<Keep(selectel_DeleteRecord)>>
vscale_Present == selectel_GetDomainByName \o selectel_AddRecord
vscale_CleanUp ==
  selectel_GetDomainByName \o selectel_ListRecords \o <<Keep(selectel_DeleteRecord)>>

namesilo_getZoneNameByDomain == <<Zone>>
namesilo_Present == namesilo_getZoneNameByDomain \o <<Add>>
namesilo_CleanUp ==
  namesilo_getZoneNameByDomain \o <<List("name"), Keep(DeleteEach)>>

transip_Present == <<Zone, Add>>
transip_CleanUpAnyValue == <<Zone, List("name"), Pick(<<Return>>), DeleteId>>
transip_CleanUp == <<Zone, List("value"), Pick(<<Return>>), DeleteId>>

namedotcom_getRecords == <<List("name")>>
namedotcom_Present == <<Read, Add>>
namedotcom_CleanUp == namedotcom_getRecords \o <<DeleteEach>>

vultr_getHostedZone == <<Read>>
vultr_findTxtRecords == vultr_getHostedZone \o <<List("name")>>
vultr_Present == vultr_getHostedZone \o <<Add>>
vultr_CleanUp == vultr_findTxtRecords \o <<Keep(DeleteEach)>>

(* The first record of the name is changed into the own one.               *)
exoscale_FindZoneAndRecordName == <<Zone>>
exoscale_FindExistingRecordID == <<List("any")>>
exoscale_Present ==
  exoscale_FindZoneAndRecordName \o exoscale_FindExistingRecordID
    \o <<If("none", <<Add>>, <<Pick(<<Fail>>), UpdateId>>)>>
exoscale_CleanUp ==
  exoscale_FindZoneAndRecordName \o exoscale_FindExistingRecordID
    \o <<Pick(<<Return>>), DeleteId>>

dnspod_getHostedZone == <<Read, Zone>>
dnspod_findTxtRecords == dnspod_getHostedZone \o <<List("any")>>
dnspod_Present == dnspod_getHostedZone \o <<Add>>
dnspod_CleanUp == dnspod_findTxtRecords \o dnspod_getHostedZone \o <<DeleteEach>>

linode_getHostedZoneInfo == <<Zone, Read>>
linode_Present == linode_getHostedZoneInfo \o <<Add>>
linode_CleanUp == linode_getHostedZoneInfo \o <<List("value"), DeleteEach>>

(* Logging out is deferred and its error only logged; a refusal because    *)
(* the record exists counts as success (see Add in DnsProvider).           *)
inwx_twoFactorAuth == <<Read>>
inwx_Present == <<Zone, Read, Defer(Ignore(Read))>> \o inwx_twoFactorAuth \o <<Add>>
inwx_CleanUp ==
  <<Zone, Read, Defer(Ignore(Read))>> \o inwx_twoFactorAuth
    \o <<List("name"), Keep(DeleteEach)>>

dnsimple_getAccountID == <<Read>>
dnsimple_getHostedZone == <<Zone>> \o dnsimple_getAccountID \o <<Read>>
dnsimple_findTxtRecords ==
  dnsimple_getHostedZone \o dnsimple_getAccountID \o <<List("name")>>
dnsimple_Present == dnsimple_getHostedZone \o dnsimple_getAccountID \o <<Add>>
dnsimple_CleanUp ==
  dnsimple_findTxtRecords \o dnsimple_getAccountID \o <<Keep(DeleteEach)>>

iij_listZones == <<Read>>
iij_commit == <<Read>>
iij_findTxtRecord == <<List("value"), Pick(<<Fail>>)>>
iij_addTxtRecord == iij_listZones \o <<Add>> \o iij_commit
iij_deleteTxtRecord == iij_listZones \o iij_findTxtRecord \o <<DeleteId>> \o iij_commit
iij_Present == iij_addTxtRecord
iij_CleanUp == iij_deleteTxtRecord

alidns_getHostedZone == <<Read, Zone>>
alidns_findTxtRecords == alidns_getHostedZone \o <<List("any")>>
alidns_Present == alidns_getHostedZone \o <<Add>>
alidns_CleanUp == alidns_findTxtRecords \o alidns_getHostedZone \o <<DeleteEach>>

oraclecloud_Present == <<Zone, Add>>
oraclecloud_CleanUp == <<Zone, List("value"), Pick(<<Fail>>), DeleteId>>

zoneee_checkResponse(s) == Checked(s)
zoneee_sendRequest(s) == zoneee_checkResponse(Sent(s))
zoneee_addTxtRecord == <<zoneee_sendRequest(Add)>>
zoneee_getTxtRecords == <<zoneee_sendRequest(List("value"))>>
zoneee_removeTxtRecord == <<zoneee_sendRequest(DeleteId)>>
zoneee_getHostedZone == <<Zone>>
zoneee_Present == zoneee_getHostedZone \o zoneee_addTxtRecord
zoneee_CleanUp ==
  zoneee_getHostedZone \o zoneee_getTxtRecords \o <<Pick(<<Fail>>)>> \o zoneee_removeTxtRecord

cloudxns_doRequest(s) == Checked(Sent(s))
cloudxns_GetDomainInformation == <<Zone, cloudxns_doRequest(Read)>>
cloudxns_FindTxtRecord == <<cloudxns_doRequest(List("name")), Pick(<<Fail>>)>>
cloudxns_AddTxtRecord == <<cloudxns_doRequest(Add)>>
cloudxns_RemoveTxtRecord == <<cloudxns_doRequest(DeleteId)>>
cloudxns_Present == cloudxns_GetDomainInformation \o cloudxns_AddTxtRecord
cloudxns_CleanUp ==
  cloudxns_GetDomainInformation \o cloudxns_FindTxtRecord \o cloudxns_RemoveTxtRecord

yandex_AddRecord == <<Checked(Sent(Add))>>
yandex_RemoveRecord == <<Checked(Sent(DeleteId))>>
yandex_GetRecords == <<Checked(Sent(List("value")))>>
yandex_Present == yandex_AddRecord
yandex_CleanUp == yandex_GetRecords \o <<Pick(<<Fail>>)>> \o yandex_RemoveRecord

dnsmadeeasy_sendRequest(s) == Checked(Sent(s))
dnsmadeeasy_GetDomain == <<dnsmadeeasy_sendRequest(Read)>>
dnsmadeeasy_GetRecords == <<dnsmadeeasy_sendRequest(List("name"))>>
dnsmadeeasy_CreateRecord == <<dnsmadeeasy_sendRequest(Add)>>
dnsmadeeasy_DeleteRecord == dnsmadeeasy_sendRequest(DeleteEach)
dnsmadeeasy_Present == <<Zone>> \o dnsmadeeasy_GetDomain \o dnsmadeeasy_CreateRecord
dnsmadeeasy_CleanUp ==
  <<Zone>> \o dnsmadeeasy_GetDomain \o dnsmadeeasy_GetRecords
    \o <<Keep(dnsmadeeasy_DeleteRecord)>>

conoha_do(s) == Checked(Sent(s))
conoha_GetDomainID == <<conoha_do(Read)>>
conoha_GetRecordID == <<conoha_do(List("value")), Pick(<<Fail>>)>>
conoha_CreateRecord == <<conoha_do(Add)>>
conoha_DeleteRecord == <<conoha_do(DeleteId)>>
conoha_Present == <<Zone>> \o conoha_GetDomainID \o conoha_CreateRecord
conoha_CleanUp ==
  <<Zone>> \o conoha_GetDomainID \o conoha_GetRecordID \o conoha_DeleteRecord

(* More than one TXT record of the name is an error of CleanUp.            *)
rackspace_makeRequest(s) == Checked(Sent(s))
rackspace_getHostedZoneID == <<Zone, rackspace_makeRequest(Read)>>
rackspace_findTxtRecord ==
  <<rackspace_makeRequest(List("name")), If("many", <<Fail>>, <<>>), Pick(<<Fail>>)>>
rackspace_Present == rackspace_getHostedZoneID \o <<rackspace_makeRequest(Add)>>
rackspace_CleanUp ==
  rackspace_getHostedZoneID \o rackspace_findTxtRecord \o <<rackspace_makeRequest(DeleteId)>>

(* A failed deletion is only logged.                                       *)
stackpath_checkResponse(s) == Checked(s)
stackpath_do(s) == stackpath_checkResponse(Sent(s))
stackpath_getZones == <<stackpath_do(Read)>>
stackpath_getZoneRecords == <<stackpath_do(List("name")), If("none", <<Fail>>, <<>>)>>
stackpath_createZoneRecord == <<stackpath_do(Add)>>
stackpath_deleteZoneRecord == stackpath_do(DeleteEach)
stackpath_Present == stackpath_getZones \o stackpath_createZoneRecord
stackpath_CleanUp ==
  stackpath_getZones \o stackpath_getZoneRecords \o <<Ignore(stackpath_deleteZoneRecord)>>

hetzner_getZone == <<Zone>>
hetzner_getZones == <<Checked(Sent(Read))>>
hetzner_GetZoneID == hetzner_getZones
hetzner_getRecords == <<Checked(Sent(List("value")))>>
hetzner_GetTxtRecord == hetzner_getRecords \o <<Pick(<<Fail>>)>>
hetzner_CreateRecord == <<Checked(Sent(Add))>>
hetzner_DeleteRecord == <<Checked(Sent(DeleteId))>>
hetzner_Present == hetzner_getZone \o hetzner_GetZoneID \o hetzner_CreateRecord
hetzner_CleanUp ==
  hetzner_getZone \o hetzner_GetZoneID \o hetzner_GetTxtRecord \o hetzner_DeleteRecord

cloudns_doRequest(s) == Checked(Sent(s))
cloudns_GetZone == <<Zone, cloudns_doRequest(Read)>>
cloudns_FindTxtRecord == <<cloudns_doRequest(List("name")), Pick(<<Return>>)>>
cloudns_AddTxtRecord == <<cloudns_doRequest(Add)>>
cloudns_RemoveTxtRecord == <<cloudns_doRequest(DeleteId)>>
cloudns_Present == cloudns_GetZone \o cloudns_AddTxtRecord
cloudns_CleanUp == cloudns_GetZone \o cloudns_FindTxtRecord \o cloudns_RemoveTxtRecord

(* The session token is one field; an early return leaves it open.  When   *)
(* there is no TXT entity of the name the API is asked to delete ID 0.     *)
bluecat_sendRequest(s) == Checked(Sent(s))
bluecat_login == <<bluecat_sendRequest(Login)>>
bluecat_logout == <<bluecat_sendRequest(Logout)>>
bluecat_lookupConfID == <<bluecat_sendRequest(Read)>>
bluecat_lookupViewID == bluecat_lookupConfID \o <<bluecat_sendRequest(Read)>>
bluecat_getZone == <<bluecat_sendRequest(Read)>>
bluecat_lookupParentZoneID == bluecat_getZone
bluecat_deploy == <<bluecat_sendRequest(Read)>>
bluecat_Present ==
  bluecat_login \o bluecat_lookupViewID \o bluecat_lookupParentZoneID
    \o <<bluecat_sendRequest(Add)>> \o bluecat_deploy \o bluecat_logout
bluecat_CleanUp ==
  bluecat_login \o bluecat_lookupViewID \o bluecat_lookupParentZoneID
    \o <<bluecat_sendRequest(List("name")), Pick(<<>>), bluecat_sendRequest(DeleteId)>>
    \o bluecat_deploy \o bluecat_logout

(* A request whose answer is cut off (io.EOF) is sent again.               *)
dynu_doRetry(s) == Retry(s)
dynu_GetRootDomain == <<dynu_doRetry(Read)>>
dynu_GetRecords == <<dynu_doRetry(List("value"))>>
dynu_AddNewRecord == <<dynu_doRetry(Add)>>
dynu_DeleteRecord == <<dynu_doRetry(DeleteEach)>>
dynu_Present ==
  dynu_GetRootDomain \o dynu_GetRecords \o <<If("own", <<Return>>, <<>>)>>
    \o dynu_AddNewRecord
dynu_CleanUp == dynu_GetRootDomain \o dynu_GetRecords \o dynu_DeleteRecord

(* Logged in once, at the first request; one record of the name is deleted.*)
clouddns_doRequest(s) == Checked(Sent(s))
clouddns_login == <<clouddns_doRequest(LoginOnce)>>
clouddns_doAPIRequest(s) == clouddns_login \o <<clouddns_doRequest(s)>>
clouddns_getDomain == clouddns_doAPIRequest(Read)
clouddns_addTxtRecord == clouddns_doAPIRequest(Add)
clouddns_getRecord == clouddns_doAPIRequest(List("name")) \o <<Pick(<<Fail>>)>>
clouddns_deleteRecord == clouddns_doAPIRequest(DeleteId)
clouddns_publishRecords == clouddns_doAPIRequest(Read)
clouddns_AddRecord ==
  clouddns_getDomain \o clouddns_addTxtRecord \o clouddns_publishRecords
clouddns_DeleteRecord ==
  clouddns_getDomain \o clouddns_getRecord \o clouddns_deleteRecord \o clouddns_publishRecords
clouddns_Present == <<Zone>> \o clouddns_AddRecord
clouddns_CleanUp == <<Zone>> \o clouddns_DeleteRecord

(* Every call has its own session.  Present sends the records it listed    *)
(* back with the new one: the API updates those with an ID and adds the    *)
(* others.  A failed listing is only logged.                               *)
netcup_doRequest(s) == Checked(Sent(s))
netcup_Login == <<netcup_doRequest(Read)>>
netcup_Logout == netcup_doRequest(Read)
netcup_GetDNSRecords == netcup_doRequest(List("zone"))
netcup_UpdateDNSRecord(s) == <<netcup_doRequest(s)>>
netcup_GetDNSRecordIdx == <<PickOwn(<<Fail>>)>>
netcup_Present ==
  <<Zone>> \o netcup_Login
    \o <<Defer(Ignore(netcup_Logout)), Ignore(netcup_GetDNSRecords)>>
    \o netcup_UpdateDNSRecord(Merge("found+own"))
netcup_CleanUp ==
  <<Zone>> \o netcup_Login \o <<Defer(Ignore(netcup_Logout)), netcup_GetDNSRecords>>
    \o netcup_GetDNSRecordIdx \o netcup_UpdateDNSRecord(DeleteId)
=============================================================================
