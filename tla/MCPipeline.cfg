SPECIFICATION Spec
CONSTANTS
  Size = 6
  Progs <- MCProgs
  Boot = 0
  Exc = 4
  Irq = 5
  Nmi = 5
  DmHalt = 5
  DmException = 5
  Breakpoint <- NoBreakpoint
  EbreakToDebug = {}
  BranchTargetALU = TRUE
  data_ind_timing = FALSE
  Inputs <- MCInputs
  Steady = FALSE
INVARIANTS TypeOK StartsAfresh StandingRequest
PROPERTIES Precise PipeEmptyOnIrq ExpectedUnlessGone
