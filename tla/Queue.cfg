\* Two threads of the game, a queue of two, five packets of which one is too large
\* for it; IntPe9 may be closed.
CONSTANTS
  g1 = g1  g2 = g2  ui = ui
  Threads = {g1, g2, ui}
  Receiver = ui
  MaxMsg = 2
  MaxPackets = 5
  TooLarge = {3}
SPECIFICATION QueueFairSpec
INVARIANTS QueueTypeOK InOrder NoLostWakeup
PROPERTIES Listed SendReturns
CHECK_DEADLOCK FALSE
