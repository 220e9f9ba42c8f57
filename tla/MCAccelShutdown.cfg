SPECIFICATION Spec
CONSTANT Parts = 2
PROPERTY ShutdownEnds
CHECK_DEADLOCK FALSE
