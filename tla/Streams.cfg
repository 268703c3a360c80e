SPECIFICATION FairSpec
CONSTANTS
  stdout = stdout
  stderr = stderr
  log = log
  syslog = syslog
  Conn = {stdout, stderr}
  Sink = {syslog}
  Files = {}
  SinkOf <- ToSyslog
  None = None
  Close = Close
  Capacity = 2
  Faults = {}
  MaxLines = 3
INVARIANTS Attentive
PROPERTIES Relayed DropReturns LinesAreRead
