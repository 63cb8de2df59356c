CONSTANTS
  NoConn = NoConn
  Gate = {g1}
  World = {w1}
  MaxConns = 3
  FrontEndEvents = "OnNetEvent_FrontEnd"
  MaxClients = 1
SPECIFICATION Spec
PROPERTIES Convergence Answered
CHECK_DEADLOCK FALSE
