SPECIFICATION MCSpec
CONSTANTS
  l1 = l1
  l2 = l2
  Plan <- MCPlan
  Provisioned <- MCProvisioned
  Protocols <- MCProtocols
  Scripts = {"02_io", "14_vxi11_flags"}
  RunsOn <- MCRunsOn
  NameHas <- MCNameHas
  ExitCodes <- MCExitCodes
  \* A reply of three reads that may grow past the slack, three operations.
  RefLen = 3
  Growth = 2
  ReadSlack = 1
  Ticks = 3
  MaxMishaps = 2
  ScriptNames <- MCScriptNames
  Reports <- MCReports
  Width = 3
  \* As many rows as are printed, and one more.
  MaxRows = 1
INVARIANTS
  ConformingLibraryPasses
  FlawsAreCaught
  NothingLeftBehind
  SoakStaysInStep
  RedMeansOurBug
  GapsAreNamed
  TablesLoseNothing
CHECK_DEADLOCK FALSE
