CONSTANTS
  WindowSize = 2
  Windows = 6
  FreeWindows = 3
  MaxSpan = 9
  MaxLag = 9
  MaxPackets = 13
  MaxInFlight = 2
  MaxUnacked = 3
SPECIFICATION Spec
CONSTRAINT FewInFlight
INVARIANTS
  TypeOK
  ForgottenHasArrived
PROPERTY ImplementsChannelContract
CHECK_DEADLOCK FALSE
