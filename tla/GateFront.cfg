CONSTANTS
  Client = {c1, c2, c3}
  NoConn = NoConn
  MaxConns = 2
  GateIndex = 2
  FrontEndEvents = "OnNetEvent_FrontEnd"
SPECIFICATION Spec
INVARIANTS TypeOK AckFindsGuest GateDiesOnlyWithoutCenter
PROPERTY LoginAnswered
CHECK_DEADLOCK FALSE
