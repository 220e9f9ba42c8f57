SPECIFICATION Spec
CONSTANTS
  Pages = 10
  McuPages = 2
  SectorPages = 2
  Unprotected = 4
  Board = 1
  Images <- MCImages
  Trouble = 2
INVARIANTS TypeOK InstalledIsWhole
PROPERTIES NothingFromBadImage RetrySucceeds
