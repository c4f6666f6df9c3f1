CONSTANTS
  TimerMinutes <- TwoTimers
  Limits <- OneLimit
  MaxOnCeil = 1
  DayMinutes = 4
  MinuteUnits = 4
  PollUnits = 2
  GraceUnits = 3
  AssumedBlock = 1
  MinOff = 0
  TickMod = 65536
  OffCap = 0
  ClockAtStart = TRUE
  Others <- Everybody
SPECIFICATION Spec
INVARIANT TypeOK
PROPERTIES GuardHolds ServedOnce NoMissedTimer
