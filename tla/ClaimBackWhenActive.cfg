SPECIFICATION Spec
CONSTANTS
  AlarmId = {a1, a2, a3, a4}
  None = None
  MaxIdle = 3
  MaxEvents = 2
  Delay = {2}
  Minute = 1
  IntLimit = 8
  StatusArg = {}
  Cookie = {1, 2}
  StartupId = {s1}
  Anonymous = Anonymous
INVARIANTS BackWhenActive
