SPECIFICATION LiveSpec
CONSTANTS
  daemon = daemon
  panel = panel
  applet = applet
  c1 = c1
  r1 = r1
  r2 = r2
  App <- MCApp
  PhaseOf <- MCPhaseOf
  DelayedApp = {daemon}
  RestartApp = {applet}
  Conn <- MCConn
  Kind <- MCKind
  IdOf <- MCIdOf
  Cookie = {}
  MaxRequests = 1
  MaxOwed = 0
INVARIANTS
  TypeOK
  WaitsOnlyForStartingApps
PROPERTIES
  OnlyOwnAnswerCounts
  OnlyOwnReportCounts
  StartupEnds
CHECK_DEADLOCK FALSE
