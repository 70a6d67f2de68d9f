CONSTANTS
  MaxTid = 2
  Reads = {r1, r2}
  Lookups = {}
  Logouts = {}
  MaxConnects = 1
  MaxSessions = 3
  NoOne = NoOne
SPECIFICATION Spec
SYMMETRY Symmetry
INVARIANTS
  TypeOK IInv LockHeldInWindow AwaitHasSender HeldByWaitingOrGivenUp MisdeliveryCrossesLaps
  PanicNeedsGivenUp
