CONSTANTS
  Client = {c1, c2}
  NoConn = NoConn
  MaxConns = 3
  GateIndex = 2
  FrontEndEvents = "OnNetEvent_BackEnd"
SPECIFICATION Spec
INVARIANT EveryClientIsAGuest
CHECK_DEADLOCK FALSE
