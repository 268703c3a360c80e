SPECIFICATION Spec
CONSTANTS
  Pid = {p1, p2, p3}
  None = None
  NApps = 1
  Requires <- DaemonRequires
  ModeOf <- DaemonModes
  Group = {"db", "www"}
  ChecksOf <- DaemonChecks
  StartTimeout = 3
  StopTimeout = 2
  RestartDelay = 1
  RunsAsInit = FALSE
  Faults = {"spawn"}
  MaxSigs = 2
  MaxTerm = 1
  MaxFail = 1
INVARIANTS NoPanic
CHECK_DEADLOCK FALSE
SYMMETRY Symmetry
