SPECIFICATION Spec
CONSTANTS
  Ids = {id}
  Types = {type}
  MaxCommands = 0
  MaxResets = 0
PROPERTY
  PlugTurnsOn
