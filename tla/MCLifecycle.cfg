SPECIFICATION LiveSpec
CONSTANTS
  x1 = x1
  x2 = x2
  d1 = d1
  App = {}
  PhaseOf <- NoPhase
  DelayedApp = {}
  RestartApp = {}
  Conn <- TwoConns
  Kind <- MCKind
  IdOf <- MCIdOf
  Cookie = {k1}
  MaxRequests = 2
  MaxOwed = 2
INVARIANTS
  CleanWhenNotEnding
  ExitHasPowerAction
  CancelReachesAll
  WaitsOnlyForAnswers
PROPERTIES
  ImplementsLifecycle
  QuerySettles
  EndingSettles
CHECK_DEADLOCK FALSE
