CONSTANTS
  Limits <- TheLimits
  Skews <- Right
  Spread = 0
  Outages <- TheOutages
  Sane = 5
  MaxCrashes = 1
  MaxOutages = 1
  MaxRestarts = 2
SPECIFICATION Spec
PROPERTY NoEarlyCutoff
