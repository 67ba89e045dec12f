CONSTANTS
  MaxFilter = 5
  MaxTopic = 3
  MaxLevels = 3
SPECIFICATION Spec
CHECK_DEADLOCK FALSE
INVARIANTS WellFormedAccepted OnlyUnseenAccepted StoredAsForwarded
