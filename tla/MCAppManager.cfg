SPECIFICATION ManagerSpec
CONSTANTS
  app = app
  daemon = daemon
  App <- MCApp
  Pid = {p1, p2, p3}
  NoPid = NoPid
  Config <- MCConfig
  NoFile = NoFile
  SettingsDaemon = daemon
  Second = 2
  IntLimit = 4
INVARIANTS
  ManagerTypeOK
  LoadedByPrecedence
  SignalsOwnProcess
  NoneForgotten
  DisabledNeverRuns
PROPERTIES
  ImplementsAppProcess
  LaunchableAppsStart
CHECK_DEADLOCK FALSE
