SPECIFICATION FairSpec
CONSTANTS
  Pid = {p1, p2, p3}
  None = None
  NApps = 3
  Requires <- PlainRequires
  ModeOf <- PlainModes
  Group = {"db", "www"}
  ChecksOf <- PlainChecks
  StartTimeout = 3
  StopTimeout = 2
  RestartDelay = 1
  RunsAsInit = FALSE
  Faults = {}
  MaxSigs = 2
  MaxTerm = 1
  MaxFail = 2
PROPERTIES TerminationServed StopsAreServed StartsAreServed
