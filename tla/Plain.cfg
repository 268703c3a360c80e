SPECIFICATION Spec
CONSTANTS
  Pid = {p1, p2, p3}
  None = None
  NApps = 3
  Requires <- PlainRequires
  ModeOf <- PlainModes
  Group = {"db", "www"}
  ChecksOf <- PlainChecks
  StartTimeout = 3
  StopTimeout = 2
  RestartDelay = 1
  RunsAsInit = TRUE
  Faults = {"crash", "spawn"}
  MaxSigs = 2
  MaxTerm = 2
  MaxFail = 2
INVARIANTS ProcessesTracked Watched NoPanic Accounted
CHECK_DEADLOCK FALSE
SYMMETRY Symmetry
