SPECIFICATION FairSpec
CONSTANTS
  Size = 6
  Progs <- ReqProgs
  Boot = 5
  Exc = 4
  Irq = 5
  Nmi = 5
  DmHalt = 3
  DmException = 5
  Breakpoint <- NoBreakpoint
  EbreakToDebug = {}
  BranchTargetALU = TRUE
  data_ind_timing = FALSE
  Inputs <- ReqInputs
  Steady = TRUE
INVARIANT CauseKnown
PROPERTY Served
