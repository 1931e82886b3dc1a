------------------------------- MODULE Presence -------------------------------
(***************************************************************************)
(* Presence: the status of the session as other programs see it.  The user *)
(* being away turns it to IDLE and the user's return to AVAILABLE, unless  *)
(* idle-delay is 0 or the idle timeout is disabled; any program may set it *)
(* as well.                                                                *)
(***************************************************************************)
EXTENDS IdleXAlarm

CONSTANTS
  Delay,      \* values of the setting idle-delay, in minutes
  Minute,     \* 60000 ms
  IntLimit,   \* 2^31
  StatusArg   \* statuses that programs set

ASSUME PresenceAssumption ==
  /\ Delay \subseteq Int
  /\ Minute \in Nat \ {0}
  /\ IntLimit \in Nat \ {0}

VARIABLES
  running,      \* init() was called
  enabled,      \* enabled_idle_timeout_
  idleTimeout,  \* idle_timeout_
  status        \* status_

presenceVars == <<running, enabled, idleTimeout, status>>

\* KSMPresenceStatus.
Status == {"AVAILABLE", "INVISIBLE", "BUSY", "IDLE"}

PresenceTypeOK ==
  /\ AlarmTypeOK
  /\ running \in BOOLEAN
  /\ enabled \in BOOLEAN
  /\ idleTimeout \in Delay \cup {0}
  /\ status \in Status \cup StatusArg

PresenceInit ==
  /\ AlarmInit
  /\ running = FALSE
  /\ enabled = TRUE
  /\ idleTimeout = 0
  /\ status = "AVAILABLE"

\* The product of two int32_t, passed as uint32_t and cast back in set().
ToInt32(n) == ((n + IntLimit) % (2 * IntLimit)) - IntLimit

\* update_idle_xlarm.
UpdateIdleXalarm(found, xs, on, delay) ==
  \/ /\ ~on \/ delay <= 0
     /\ Unset(xs, "IDLE_TIMEOUT")
  \/ /\ on /\ delay > 0
     /\ Set(found, xs, "IDLE_TIMEOUT", ToInt32(delay * Minute))

\* init(), with or without an IDLETIME counter; only with one is there a RESET
\* alarm.
InitPresence ==
  /\ ~running
  /\ running' = TRUE
  /\ idleTimeout' \in Delay
  /\ \E found \in BOOLEAN :
       /\ idleCounter' = found
       /\ UpdateIdleXalarm(found, IF found THEN Add(xalarms, "RESET") ELSE xalarms,
                           enabled, idleTimeout')
  /\ UNCHANGED <<idle, enabled, status>>

\* enable_idle_timeout.
EnableIdleTimeout(on) ==
  /\ enabled' = on
  /\ \/ /\ enabled = on
        /\ UNCHANGED <<xalarms, alarms, events>>
     \/ /\ enabled # on
        /\ UpdateIdleXalarm(idleCounter, xalarms, on, idleTimeout)

\* on_settings_changed, for idle-delay.
SettingsChanged ==
  /\ running
  /\ idleTimeout' \in Delay
  /\ UpdateIdleXalarm(idleCounter, xalarms, enabled, idleTimeout')
  /\ UNCHANGED <<idleCounter, idle, running, enabled, status>>

\* SetStatus, which refuses what is no status.
SetStatus(s) ==
  /\ running
  /\ s \in Status
  /\ status' = s
  /\ UNCHANGED <<running, enabled, idleTimeout>>
  /\ UNCHANGED alarmVars

\* The writable D-Bus property, whose handler takes any value.
StatusProperty(s) ==
  /\ running
  /\ status' = s
  /\ UNCHANGED <<running, enabled, idleTimeout>>
  /\ UNCHANGED alarmVars

\* on_alarm_triggered_cb and on_alarm_reset_cb, within the event filter.
OnAlarmTriggered ==
  /\ AlarmTriggered
  /\ status' = "IDLE"
  /\ UNCHANGED <<running, enabled, idleTimeout>>

OnAlarmReset ==
  /\ AlarmReset
  /\ status' = "AVAILABLE"
  /\ UNCHANGED <<running, enabled, idleTimeout>>

OnAlarmUnknown == AlarmUnknown /\ UNCHANGED presenceVars

User == (UserIsIdle \/ UserIsActive) /\ UNCHANGED presenceVars

PresenceNext ==
  \/ InitPresence \/ SettingsChanged
  \/ \E s \in StatusArg : SetStatus(s) \/ StatusProperty(s)
  \/ OnAlarmTriggered \/ OnAlarmReset \/ OnAlarmUnknown
  \/ User
=============================================================================
