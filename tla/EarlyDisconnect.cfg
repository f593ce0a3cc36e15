CONSTANTS
  PeerCount = 1
  Sessions = {x1}
  MaxData = 0
  EarlyDisconnect = TRUE
  MaxDatagrams = 3
SPECIFICATION Spec
INVARIANT DisconnectDeletesLiveInfo
