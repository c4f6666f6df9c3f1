CONSTANTS
  Limits <- TheLimits
  Skews <- RightOrWrong
  Spread = 2
  Outages <- TheOutages
  Sane = 5
  MaxCrashes = 1
  MaxOutages = 1
  MaxRestarts = 1
SPECIFICATION FairSpec
INVARIANT TypeOK
PROPERTIES NoEarlyCutoff RunBounded RunsEnd
