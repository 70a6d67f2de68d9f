CONSTANTS
  Requests = {q1}
  MaxConnects = 2
SPECIFICATION FairSpec
PROPERTY JoinFailurePanics
