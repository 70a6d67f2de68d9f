CONSTANTS
  MaxTid = 2
  Reads = {r1, r2, r3}
  Lookups = {}
  Logouts = {}
  MaxConnects = 1
  MaxSessions = 1
  NoOne = NoOne
SPECIFICATION Spec
SYMMETRY Symmetry
PROPERTY TooManyMeansInProgress
