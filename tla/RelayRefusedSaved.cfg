CONSTANT Mixes <- SchedLeak
SPECIFICATION Spec
INVARIANT RestedIsPersisted
