CONSTANTS
  Timers <- AllTimers
  Others <- Everybody
  MaxStream = 1
SPECIFICATION FairSpec
INVARIANTS TypeOK RecordConverges
PROPERTIES LiveFollows
