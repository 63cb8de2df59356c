CONSTANTS
  Conn = {c1, c2, c3, c4, c5}
  NoConn = NoConn
  MaxConns = 4
SPECIFICATION NetServerSpec
INVARIANTS NetServerTypeOK MapConsistent PoolPartition
PROPERTY ImplementsSlots
CHECK_DEADLOCK FALSE
