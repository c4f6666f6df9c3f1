CONSTANTS
  Timers <- OffSix
  Others <- LeakAndDrop
  MaxStream = 2
SPECIFICATION Spec
PROPERTY LatchNeedsUser
