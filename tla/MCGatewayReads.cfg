CONSTANTS
  Requests = {q1, q2}
  Ids = {"g1", "g2"}
  Targets <- MCTargets
  Logins <- MCLogins
  Lifetime = 2
  ReadTime = 2
  MaxTime = 4
SPECIFICATION Spec
SYMMETRY Symmetry
INVARIANTS IInv BoundedAge TimeoutMeansSilence
PROPERTIES BoundedSetback NewZonesShow
