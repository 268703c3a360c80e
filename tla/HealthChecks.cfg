SPECIFICATION FairSpec
CONSTANTS
  db = db
  www = www
  disk = disk
  Check = {db, www, disk}
  KindOf <- Kinds
  Interval <- Intervals
  Timeout <- Timeouts
  Patience <- Patiences
  Required <- NoSpace
  BlockSize = 4096
  Space = {0}
  Limits = {1, 3}
  MaxLate = 1
  MaxAlarms = 1
INVARIANTS TypeOK FewThreads Unbroken
PROPERTIES FailureIsReal Vigilance ChecksGoOn IllIsReported
