CONSTANTS
  MaxTid = 5
  Reads = {r1, r2}
  Lookups = {}
  Logouts = {}
  MaxConnects = 1
  MaxSessions = 2
  NoOne = NoOne
SPECIFICATION Spec
SYMMETRY Symmetry
INVARIANT OwnReply
