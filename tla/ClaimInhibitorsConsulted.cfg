SPECIFICATION Spec
CONSTANTS
  x1 = x1
  x2 = x2
  d1 = d1
  App = {}
  PhaseOf <- NoPhase
  DelayedApp = {}
  RestartApp = {}
  Conn <- TwoConns
  Kind <- MCKind
  IdOf <- MCIdOf
  Cookie = {k1}
  MaxRequests = 1
  MaxOwed = 2
PROPERTIES InhibitorsConsulted
CHECK_DEADLOCK FALSE
