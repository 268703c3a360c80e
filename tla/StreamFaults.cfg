SPECIFICATION Spec
CONSTANTS
  stdout = stdout
  stderr = stderr
  log = log
  syslog = syslog
  Conn = {stdout, stderr}
  Sink = {log, syslog}
  Files = {log}
  SinkOf <- ToBoth
  None = None
  Close = Close
  Capacity = 1
  Faults = {"half", "bad", "multibyte", "syslog", "register", "poll"}
  MaxLines = 2
INVARIANTS TypeOK InOrder
