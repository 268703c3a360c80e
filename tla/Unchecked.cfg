SPECIFICATION Spec
CONSTANTS
  db = db
  www = www
  disk = disk
  Check = {disk}
  KindOf <- DiskOnly
  Interval <- EachNone
  Timeout <- EachOne
  Patience <- EachOne
  Required <- NoSpace
  BlockSize = 4096
  Space = {0}
  Limits = {2}
  MaxLate = 1
  MaxAlarms = 1
INVARIANTS SelectHasAnEvent
