SPECIFICATION Spec
CONSTANTS
  AlarmId = {a1, a2, a3, a4}
  None = None
  MaxIdle = 2
  MaxEvents = 2
  Delay = {0, 1, 2, 16}
  Minute = 1
  IntLimit = 8
  StatusArg = {"BUSY"}
  Cookie = {1, 2}
  StartupId = {s1}
  Anonymous = Anonymous
INVARIANTS
  TypeOK
  EnabledUnlessInhibited
  AlarmsFollowSettings
  NeverDeaf
PROPERTIES
  IdleOnlyWhenWatched
  IdleHasWayBack
