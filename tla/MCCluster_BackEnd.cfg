CONSTANTS
  NoConn = NoConn
  Gate = {g1, g2}
  World = {w1}
  MaxConns = 3
  FrontEndEvents = "OnNetEvent_BackEnd"
  MaxClients = 1
SPECIFICATION Spec
SYMMETRY Symmetry
INVARIANTS TypeOK KnowsOrWillKnow NoSyncSkipped
CHECK_DEADLOCK FALSE
