SPECIFICATION Spec
CONSTANTS
  Ids = {id}
  Types = {type}
  MaxCommands = 2
  MaxResets = 1
INVARIANTS TypeOK UsedOnlyWithPower ClockFits SaveKept
PROPERTIES UnplugTurnsOff
