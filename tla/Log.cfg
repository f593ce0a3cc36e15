\* Six packets; the game exits or is killed anywhere.
CONSTANTS
  MaxPackets = 6
  MaxCount = 16
SPECIFICATION Spec
INVARIANT AllOrNothing
CHECK_DEADLOCK FALSE
