CONSTANTS
  WindowSize = 3
  Windows = 8
  FreeWindows = 4
  GroupWindowSize = 2
  FreeGroupWindows = 2
  UnreliableLimit = 2
  Fragments = 3
  Before = 22
  Kinds = {"reliable", "fragmented", "unreliable", "unsequenced"}
  MaxPackets = 4
  MaxAhead = 12
  MaxLag = 4
SPECIFICATION FairSpec
INVARIANTS
  TypeOK
  OnlyWholePackets
  NothingHeldBack
PROPERTIES
  ImplementsDeliveryContract
  ReliableGetThrough
CHECK_DEADLOCK FALSE
