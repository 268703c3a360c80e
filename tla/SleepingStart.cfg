SPECIFICATION FairSpec
CONSTANTS
  Pid = {p1, p2}
  None = None
  NApps = 2
  Requires <- ServiceRequires
  ModeOf <- ServiceModes
  Group = {"db", "www"}
  ChecksOf <- ServiceChecks
  StartTimeout = 3
  StopTimeout = 2
  RestartDelay = 1
  RunsAsInit = FALSE
  Faults = {}
  MaxSigs = 2
  MaxTerm = 0
  MaxFail = 0
PROPERTIES AllStartsAreServed
CHECK_DEADLOCK FALSE
