SPECIFICATION Spec
CONSTANTS
  stdout = stdout
  stderr = stderr
  log = log
  syslog = syslog
  Conn = {stdout, stderr}
  Sink = {log, syslog}
  Files = {log}
  SinkOf <- ToSyslog
  None = None
  Close = Close
  Capacity = 2
  Faults = {"half"}
  MaxLines = 2
INVARIANTS LinesAreWhole
