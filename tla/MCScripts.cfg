SPECIFICATION MCSpec
CONSTANTS
  N = 2
  Invocations <- MCInvocations
  MaxOwn = 1
  Protocols <- MCProtocols
  Suite <- MCSuite
  ExitCodes <- MCExitCodes
  Both = "both"
INVARIANTS
  OneResultEach
  ExitZeroIsClean
  ReplacedTargetIsClean
  HungMeansReported
  ZeroMeansEveryScriptPassed
PROPERTIES
  ImplementsScriptProcess
  NothingKeepsTheSuite
CHECK_DEADLOCK FALSE
