SPECIFICATION FairSpec
CONSTANTS
  Words = 2
  Mems <- MCMems
  Accesses <- MCAccesses
INVARIANTS TypeOK HoldsTransfer InStep OnlyPending
PROPERTIES AtomicAccess Completes
