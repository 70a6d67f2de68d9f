CONSTANTS
  MaxTid = 3
  Reads = {r1}
  Lookups = {}
  Logouts = {}
  MaxConnects = 1
  MaxSessions = 1
  NoOne = NoOne
SPECIFICATION Spec
INVARIANT UnawaitedIsLogged
