--------------------------- MODULE MCDnsProvider ---------------------------
EXTENDS DnsProvider
AllProviders == DOMAIN Program
=============================================================================
