\* One slot used by two sessions; no DISCONNECT meets an open handshake.
CONSTANTS
  PeerCount = 1
  Sessions = {x1, x2}
  MaxData = 1
  EarlyDisconnect = FALSE
  MaxDatagrams = 9
SPECIFICATION FairSpec
INVARIANT DisconnectDeletesLiveInfo
PROPERTIES ImplementsPeerContract HandshakeEnds DisconnectCompletes DispatchedIsHandled
