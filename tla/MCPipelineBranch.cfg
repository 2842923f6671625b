SPECIFICATION Spec
CONSTANTS
  Size = 6
  Progs <- BranchProgs
  Boot = 0
  Exc = 4
  Irq = 5
  Nmi = 5
  DmHalt = 5
  DmException = 5
  Breakpoint <- NoBreakpoint
  EbreakToDebug = {}
  BranchTargetALU = FALSE
  data_ind_timing = FALSE
  Inputs <- MCInputs
  Steady = FALSE
PROPERTY BranchesToTarget
