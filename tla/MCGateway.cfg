CONSTANTS
  Requests = {q1, q2}
  MaxConnects = 3
SPECIFICATION FairSpec
INVARIANTS IInv DisabledDuringRetry CleanExit DrainedBeforeLogout
PROPERTIES ImplementsService Reconnects DownClientUnserved ServesAgain ShutdownEnds
