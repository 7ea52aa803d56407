CONSTANTS
  PID = {p1, p2}
  NoPid = NoPid
  Absent = Absent
  Empty = Empty
SPECIFICATION Spec

PROPERTY MonitorsPidOfFile
