CONSTANT MaxLogins = 4
SPECIFICATION Spec
INVARIANTS IInv HeldIsLive LeftOnlyByFailure
PROPERTY SessionFollowsConnection
