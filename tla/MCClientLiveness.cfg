CONSTANTS
  MaxTid = 2
  Reads = {r1}
  Lookups = {k1}
  Logouts = {l1}
  MaxConnects = 1
  MaxSessions = 2
  NoOne = NoOne
SPECIFICATION FairSpec
INVARIANT LookupFindsData
PROPERTIES CallsEnd ShutdownHonoured
