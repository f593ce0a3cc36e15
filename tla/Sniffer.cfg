\* Four messages of the server and two of the game. Datagrams to the game are
\* lost, repeated and reordered, and hold acknowledgements or not.
CONSTANTS
  Count <- MCCount
  Start <- MCStart
  MaxCommands = 2
  MaxSent = 2
  MaxShown = 2
  MaxUnderway = 1
  Misleading = {2}
SPECIFICATION Spec
INVARIANTS ReceivedWhole SentRight NotMixed
CHECK_DEADLOCK FALSE
