\* Three starts of IntPe9, which may end at any point; a file of three pieces.
CONSTANTS
  Chunks = 3
  MaxFiles = 3
SPECIFICATION FairSpec
INVARIANTS OpenedIsBuilt LateIsWhole
PROPERTY LoadingEnds
CHECK_DEADLOCK FALSE
