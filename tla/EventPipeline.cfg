CONSTANTS
  Producers <- TwoTasks
  RingMax = 3
  QueueDepth = 2
  Part = 2
  MaxEvents = 4
  MaxRestarts = 1
SPECIFICATION FairSpec
INVARIANTS TypeOK CloudKeepsOrder
PROPERTIES RingIsLog AckLosesNothing 
