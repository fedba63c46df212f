SPECIFICATION Spec
CONSTANTS
  ValidSegments = {"kennel", "home", "status", "feeder", "water", "door", "sensor", "gps", "camera", "scale", "hub"}
  Chars = {"|", "%", "7", "C", "2"}
  MaxText = 5
  MaxField = 3
  DeviceKinds <- MCKinds
  Levels = {"home", "door", "b d", ""}
  MaxLevels = 5
INVARIANTS WithinStep FieldsSurvive SavedStays TopicsUnambiguous MatchesAsMqtt
PROPERTIES UlawMonotone
CHECK_DEADLOCK FALSE
