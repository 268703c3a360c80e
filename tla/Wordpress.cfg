SPECIFICATION Spec
CONSTANTS
  Pid = {p1, p2, p3}
  None = None
  NApps = 3
  Requires <- WebRequires
  ModeOf <- WebModes
  Group = {"db", "www"}
  ChecksOf <- WebChecks
  StartTimeout = 3
  StopTimeout = 2
  RestartDelay = 1
  RunsAsInit = FALSE
  Faults = {"crash", "spawn", "pidfile"}
  MaxSigs = 2
  MaxTerm = 1
  MaxFail = 1
INVARIANTS TypeOK DependencyOrder StopsAreServiceable SnapshotsHold Orderly HeldPidsAreOwn RunningIsAlive HeldUntilMishap
PROPERTIES ShutdownIsFinal Promise
CHECK_DEADLOCK FALSE
SYMMETRY Symmetry
