SPECIFICATION Spec
CONSTANTS
  sv_paths <- MCSv
  svh_paths <- MCSvh
  pkg_paths <- MCPkg
  LogInputs <- MCLogs
  TestInputs <- MCTests
  CmdInputs <- MCCmds
  ReqInputs <- MCReqs
  OptInputs <- MCOpts
CHECK_DEADLOCK FALSE
INVARIANT RefusesUnmeant
