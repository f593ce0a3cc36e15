CONSTANTS
  WindowSize = 2
  Windows = 6
  FreeWindows = 3
  MaxSpan = 15
  MaxLag = 9
  MaxPackets = 15
  MaxInFlight = 1
  MaxUnacked = 3
SPECIFICATION Spec
CONSTRAINT FewInFlight
INVARIANT ForgottenHasArrived
CHECK_DEADLOCK FALSE
