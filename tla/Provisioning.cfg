CONSTANTS
  Users <- TheUsers
  Ssids <- TheSsids
  Passwords <- ThePasswords
  Opens <- TheOpens
  MaxRetries = 1
  MaxRestarts = 1
SPECIFICATION FairSpec
INVARIANTS TypeOK OneFirebaseTask StatusTruthful SavedWasJoined
PROPERTIES LinkRecovers
