CONSTANT Mixes <- RelayMixes
SPECIFICATION FairSpec
INVARIANTS TypeOK PinFollowsState UndisturbedIsPersisted
PROPERTIES PinIsInterlocked FactoryResetLeavesOff LeakCutsPower
