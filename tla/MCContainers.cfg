CONSTANTS
  MissionID = {m1, m2, m3}
  NULL = NULL
  MAX_MISSION_COUNT = 4
  Byte = {1, 2}
  size_ = 4
  INT_RANGE = 16
  MaxLen = 4
SPECIFICATION MCSpec
INVARIANTS ContainerTypeOK RingBufferTypeOK
PROPERTIES NoMissionLost ImplementsQueue
