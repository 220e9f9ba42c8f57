CONSTANTS
  Minutes = 2
  Alarms <- LevelAlarms
  Masks <- MCMasks
  Modes <- LevelModes
SPECIFICATION Spec
INVARIANT
  AlarmLevel
