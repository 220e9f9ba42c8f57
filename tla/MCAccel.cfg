SPECIFICATION Spec
CONSTANT Parts = 2
INVARIANTS TypeOK SamplesWhole QuietBus
PROPERTY PauseEnds
\* A halted MCU stays halted.
CHECK_DEADLOCK FALSE
