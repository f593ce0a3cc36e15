\* Two players, one of them with a key of its own, and two requests out of turn.
CONSTANTS
  a = a  x = x
  Clients = {a, x}
  OtherKey = {x}
  Uses = {"KeyCheck", "QueryStatusReq", "Ping_Load_Info", "ClientReady"}
  MaxStrays = 2
SPECIFICATION FairSpec
INVARIANTS TypeOK Understood KnowsWhom
PROPERTY Served
CHECK_DEADLOCK FALSE
