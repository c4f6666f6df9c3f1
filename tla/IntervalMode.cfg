CONSTANTS
  TimerMinutes <- OneTimer
  Limits <- OffOrOne
  MaxOnCeil = 1
  DayMinutes = 4
  MinuteUnits = 2
  PollUnits = 1
  GraceUnits = 2
  AssumedBlock = 1
  MinOff = 1
  TickMod = 65536
  OffCap = 8
  ClockAtStart = FALSE
  Others <- UserOnly
SPECIFICATION FairSpec
PROPERTIES IntervalAlternates RestKept
