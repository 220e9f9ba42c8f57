CONSTANTS
  Minutes = 1
  Alarms <- EdgeAlarms
  Masks <- MCMasks
  Modes <- EdgeModes
SPECIFICATION Spec
INVARIANTS
  TypeOK
  NoLostEdge
  AlarmSetUp
PROPERTY
  EdgeSignalled
