SPECIFICATION Spec
CONSTANTS
  old = old
  new = new
  restart = restart
  backup = backup
  Bases = {old, new}
  Written <- MCWritten
  Broken <- MCBroken
  Ops = {restart, backup}
  Type <- MCType
  Down = Down
  Absent = Absent
  MaxEdits = 1
  MaxCommands = 2
  MaxFaults = 1
INVARIANTS LatestIsKept LeftRunnable
PROPERTIES ReportIsTrue RestartKeepsConfig
CHECK_DEADLOCK FALSE
