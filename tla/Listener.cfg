\* Two slots and two sessions, with every kind of disconnect.
CONSTANTS
  PeerCount = 2
  Sessions = {x1, x2}
  MaxData = 2
  EarlyDisconnect = TRUE
  MaxDatagrams = 4
SPECIFICATION Spec
SYMMETRY SessionSymmetry
CONSTRAINT FewDatagrams
INVARIANTS TypeOK HandlersReadLiveInfo NoClientInfoLost OneSlotPerSession DispatchQueueSound
CHECK_DEADLOCK FALSE
