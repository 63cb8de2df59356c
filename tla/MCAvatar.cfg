SPECIFICATION Spec
CONSTANTS
  Observer = {mission, achievement, datasync}
  LEVEL_UP_EXP = 10
  LEVEL_MAX = 4
  Argument <- MCArgument
SYMMETRY Symmetry
INVARIANTS AvatarTypeOK ObserversInStep NothingLost NoDipSeen
