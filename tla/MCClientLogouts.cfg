CONSTANTS
  MaxTid = 2
  Reads = {r1}
  Lookups = {}
  Logouts = {l1, l2}
  MaxConnects = 2
  MaxSessions = 2
  NoOne = NoOne
SPECIFICATION Spec
INVARIANTS ReadyMeansLoggedIn LogoutEndsConnect
PROPERTIES ImplementsLifecycle ClientFollowsConnection
