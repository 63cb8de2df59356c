CONSTANTS
  NoConn = NoConn
  Gate = {g1, g2}
  World = {w1}
  MaxConns = 3
  FrontEndEvents = "OnNetEvent_FrontEnd"
  MaxClients = 1
SPECIFICATION Spec
SYMMETRY Symmetry
INVARIANTS KnowsOrWillKnow WorldOnlyHearsItsName RemoveFindsType RegistryHasChannels IdentityRoutesBack
PROPERTY ImplementsDirectory
CHECK_DEADLOCK FALSE
