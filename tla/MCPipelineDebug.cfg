SPECIFICATION Spec
CONSTANTS
  Size = 6
  Progs <- DbgTimingProgs
  Boot = 0
  Exc = 3
  Irq = 3
  Nmi = 3
  DmHalt = 4
  DmException = 5
  Breakpoint = 2
  EbreakToDebug = {"M"}
  BranchTargetALU = TRUE
  data_ind_timing = TRUE
  Inputs <- DbgInputs
  Steady = FALSE
PROPERTIES Precise NeverDoubleBranch
