SPECIFICATION Spec
PROPERTIES UnreadableChipKeepsReading
CONSTANTS
  c1 = c1
  l1 = l1
  b1 = b1
  NoCrit = NoCrit
  CpuSensors = {c1}
  CoolantSensors = {}
  BoardSensors = {}
  Values <- MCBoardValues
  Crit <- MCBoardCrit
  Temps <- MCTemps
  FailThreshold = 1
  PollInterval = 1
  StaleIntervals = 1
  StaleCeiling = 5
  BelowBoardMargin = 15
  CpuAbsoluteMin = 10
  BaseTrigger = 105
  TriggerCap = 115
  TriggerMargin = 5
  Release = 80
  NoSensorThreshold = 2
  NoSensorPct = 40
  CoolantMin = 40
  CoolantMax = 70
  CoolantDefault = 60
  CoolantMargin = 5
  CoolantRequests = {60}
