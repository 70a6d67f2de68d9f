CONSTANT MaxTid = 5
SPECIFICATION FairSpec
INVARIANT TypeOK
PROPERTIES PicksNearestFree SearchEnds
CHECK_DEADLOCK TRUE
