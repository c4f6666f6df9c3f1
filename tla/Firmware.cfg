CONSTANTS
  Mixes <- FirmwareMixes
  MinFloor = 1
  MinCeil = 3
  MaxFloor = 3
  MaxCeil = 4
  Deadband = 2
  Bytes <- FarOut
  Minutes <- SomeMinutes
  MaxOnCeil = 1
  Levels <- SomeLevels
  RetryAfter = 3
  a1 = a1
  a2 = a2
  b1 = b1
  Creds <- TwoAccounts
  OwnerOf <- Accounts
  NoCred = NoCred
  NoUser = NoUser
  TokenLife = 2
  EarlyBy = 1
  Dormant = 4
  MaxFails = 3
  MaxStep = 1
SPECIFICATION FairSpec
INVARIANTS TypeOK UndisturbedIsKept HoldingsAreOurs
PROPERTIES HysteresisKept ProbeReported RejectedRests CloudReached
