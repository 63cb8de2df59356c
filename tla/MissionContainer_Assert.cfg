CONSTANTS
  MissionID = {m1, m2}
  NULL = NULL
  MAX_MISSION_COUNT = 3
SPECIFICATION ContainerSpec
INVARIANT PushFindsEmptySlot
