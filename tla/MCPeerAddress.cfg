SPECIFICATION Spec
CONSTANTS
  Gate <- MCGate
  Client <- MCClient
  GateOf <- MCGateOf
  CenterIndex <- MCCenterIndex
  GuestIndex <- MCGuestIndex
INVARIANTS PeerAddressTypeOK GateIsReached ClientIsReached
