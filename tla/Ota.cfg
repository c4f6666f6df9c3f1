CONSTANTS
  Versions <- ThreeVersions
  MaxPublished = 2
  MaxCuts = 2
SPECIFICATION FairSpec
INVARIANTS TypeOK 
PROPERTIES  StaysInService
