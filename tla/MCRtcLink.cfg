SPECIFICATION Spec
CONSTANTS
  Prompt = TRUE
  Payloads <- MCPayloads
  Times <- MCTimes
  Dates <- MCDates
  OddHours <- MCOddHours
  OddDays <- MCOddDays
CHECK_DEADLOCK FALSE
INVARIANTS TypeOK ReadsBack
PROPERTIES WritesWhole CommandEnds
