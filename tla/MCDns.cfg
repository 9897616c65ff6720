SPECIFICATION FairSpec
CONSTANTS
  Proc = {p1, p2}
  Name = {1, 2}
  Depth = 3
  View = {"public", "private"}
  Public = "public"
  Apex <- MCApex
  Auth <- MCAuth
  Server = {"n1", "n2"}
  Alias <- MCAlias
  MaxPolls = 2
  MaxFaults = 1
INVARIANTS TypeOK ReadyOnlyIfServed GenuineEntries
PROPERTIES FreshKept ChecksEnd
