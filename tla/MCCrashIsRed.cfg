SPECIFICATION Spec
CONSTANTS
  l1 = l1
  l2 = l2
  Plan = {l1, l2}
  Provisioned = {l1, l2}
  Protocols <- MCProtocols
  Scripts = {"02_io", "14_vxi11_flags"}
  RunsOn <- MCRunsOn
  NameHas <- MCNameHas
  ExitCodes = {1, 2, 3}
SYMMETRY Symmetry
INVARIANTS
  CrashIsRed
CHECK_DEADLOCK FALSE
