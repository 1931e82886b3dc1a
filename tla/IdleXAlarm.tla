------------------------------ MODULE IdleXAlarm ------------------------------
(***************************************************************************)
(* IdleXAlarm: two alarms on the IDLETIME counter of the X server.  The    *)
(* IDLE_TIMEOUT alarm fires when the user has been idle for long enough;   *)
(* it is then spent, and the RESET alarm is created to notice the user's   *)
(* return and to arm IDLE_TIMEOUT again.                                   *)
(*                                                                         *)
(* The X server is external: it keeps the alarms, moves the counter and    *)
(* queues AlarmNotify events.  Requests are taken to reach it at once: an  *)
(* event it sends before a delayed request reaches it is one that was in   *)
(* the queue already when the request was made.                            *)
(***************************************************************************)
EXTENDS Integers, Sequences, Functions

CONSTANTS
  AlarmId,    \* ids of server alarms; an id in use or in an event is not reused
  None,       \* no alarm
  MaxIdle,    \* bound: the counter stops there
  MaxEvents   \* bound: AlarmNotify events in the queue

ASSUME AlarmAssumption ==
  /\ None \notin AlarmId
  /\ MaxIdle \in Nat

VARIABLES
  idleCounter,  \* idle_counter_ is not None
  xalarms,      \* xalarms_: id and timeout of each type that was added
  alarms,       \* the server's alarms: transition, wait value, active
  events,       \* AlarmNotify events on their way to the event filter
  idle          \* the server's IDLETIME counter

alarmVars == <<idleCounter, xalarms, alarms, events, idle>>

XAlarmType == {"RESET", "IDLE_TIMEOUT"}
XAlarmInfo == [id : AlarmId \cup {None}, timeout : Int]
Alarm == [test : {"positive", "negative"}, wait : Int, active : BOOLEAN]
AlarmNotify == [alarm : AlarmId, counter : Int]

AlarmTypeOK ==
  /\ idleCounter \in BOOLEAN
  /\ DOMAIN xalarms \subseteq XAlarmType
  /\ xalarms \in [DOMAIN xalarms -> XAlarmInfo]
  /\ DOMAIN alarms \subseteq AlarmId
  /\ alarms \in [DOMAIN alarms -> Alarm]
  /\ events \in Seq(AlarmNotify)
  /\ idle \in Nat

AlarmInit ==
  /\ idleCounter = FALSE
  /\ xalarms = <<>>
  /\ alarms = <<>>
  /\ events = <<>>
  /\ idle = 0

-----------------------------------------------------------------------------
(* The X server.                                                           *)

InEvents == {events[i].alarm : i \in 1 .. Len(events)}
FreeIds  == AlarmId \ (DOMAIN alarms \cup InEvents)
\* Any one will do.  (Bound: with no id left, no alarm is created.)
NewId    == {a \in FreeIds : a = CHOOSE b \in FreeIds : TRUE}

\* XSyncCreateAlarm and XSyncChangeAlarm: the alarm is active afterwards.
Armed(as, a, test, wait) ==
  [b \in DOMAIN as \cup {a} |->
     IF b = a THEN [test |-> test, wait |-> wait, active |-> TRUE] ELSE as[b]]

\* XSyncDestroyAlarm, which is notified with one more event.
Destroyed(as, a)    == Restrict(as, DOMAIN as \ {a})
DestroyEvent(es, a) == Append(es, [alarm |-> a, counter |-> idle])

\* The active alarms whose transition the counter makes when it moves to n.
Triggered(n) ==
  {a \in DOMAIN alarms : alarms[a].active /\
     \/ alarms[a].test = "positive" /\ idle < alarms[a].wait /\ alarms[a].wait <= n
     \/ alarms[a].test = "negative" /\ idle > alarms[a].wait /\ alarms[a].wait >= n}

\* A spent alarm is inactive according to register_xalarm_by_xsync; the Sync
\* extension says that of comparisons only, not of transitions.  Both may happen.
MoveCounter(n) ==
  /\ idle' = n
  /\ \/ /\ Triggered(n) = {}
        /\ UNCHANGED <<alarms, events>>
     \/ \E a \in Triggered(n) :
          /\ Len(events) < MaxEvents
          /\ events' = Append(events, [alarm |-> a, counter |-> n])
          /\ alarms' \in {alarms, [alarms EXCEPT ![a].active = FALSE]}
  /\ UNCHANGED <<idleCounter, xalarms>>

UserIsIdle   == idle < MaxIdle /\ MoveCounter(idle + 1)
UserIsActive == idle > 0 /\ MoveCounter(0)

-----------------------------------------------------------------------------
(* The list of alarms.  xs and as are the list and the server's alarms at  *)
(* the point of the handler where the function is called.                  *)

Add(xs, t) ==
  [u \in DOMAIN xs \cup {t} |->
     IF u \in DOMAIN xs THEN xs[u] ELSE [id |-> None, timeout |-> 0]]

\* remove() takes the first entry with the id of the given one; RESET is first.
Remove(xs, t) ==
  LET same == {u \in DOMAIN xs : xs[u].id = xs[t].id}
  IN Restrict(xs, DOMAIN xs \ {IF "RESET" \in same THEN "RESET" ELSE t})

\* register_xalarm_by_xsync; without a counter there is nothing to register with.
RegisterXalarm(found, xs, as, t, test) ==
  \/ /\ ~found
     /\ xalarms' = xs
     /\ alarms' = as
  \/ /\ found
     /\ \E a \in IF xs[t].id = None THEN NewId ELSE {xs[t].id} :
          /\ xalarms' = [xs EXCEPT ![t].id = a]
          /\ alarms' = Armed(as, a, test, xs[t].timeout)

\* set(), which refuses a timeout of 0.
Set(found, xs, t, timeout) ==
  /\ \/ /\ timeout = 0
        /\ xalarms' = xs
        /\ UNCHANGED alarms
     \/ /\ timeout # 0
        /\ RegisterXalarm(found, [Add(xs, t) EXCEPT ![t].timeout = timeout], alarms,
                          t, "positive")
  /\ UNCHANGED events

\* Fault: the entry is removed, the server's alarm is not destroyed.
UnsetEntryOnly(xs, t) ==
  /\ xalarms' = IF t \in DOMAIN xs THEN Remove(xs, t) ELSE xs
  /\ UNCHANGED <<alarms, events>>

\* Fault: the server's alarm is destroyed, the entry is not removed.
UnsetAlarmOnly(xs, t) ==
  /\ xalarms' = xs
  /\ \/ /\ t \in DOMAIN xs /\ xs[t].id \in DOMAIN alarms
        /\ Len(events) < MaxEvents
        /\ alarms' = Destroyed(alarms, xs[t].id)
        /\ events' = DestroyEvent(events, xs[t].id)
     \/ /\ t \in DOMAIN xs => xs[t].id \notin DOMAIN alarms
        /\ UNCHANGED <<alarms, events>>

\* Fault: an alarm that was never registered is destroyed as well.
UnsetUnregistered(xs, t) ==
  \/ /\ t \notin DOMAIN xs
     /\ xalarms' = xs
     /\ UNCHANGED <<alarms, events>>
  \/ /\ t \in DOMAIN xs
     /\ xalarms' = Remove(xs, t)
     /\ Len(events) < MaxEvents
     /\ alarms' = Destroyed(alarms, xs[t].id)
     /\ events' = DestroyEvent(events, xs[t].id)

\* unset().
Unset(xs, t) ==
  \/ /\ t \notin DOMAIN xs
     /\ xalarms' = xs
     /\ UNCHANGED <<alarms, events>>
  \/ /\ t \in DOMAIN xs
     /\ xalarms' = Remove(xs, t)
     /\ \/ /\ xs[t].id # None
           /\ Len(events) < MaxEvents
           /\ alarms' = Destroyed(alarms, xs[t].id)
           /\ events' = DestroyEvent(events, xs[t].id)
        \/ /\ xs[t].id = None
           /\ UNCHANGED <<alarms, events>>

-----------------------------------------------------------------------------
(* on_event_filter_cb, for the event at the head of the queue.             *)

\* The entry of the alarm that sent the event; the event may be older than that.
Notified(t) ==
  /\ events # <<>>
  /\ t \in DOMAIN xalarms
  /\ xalarms[t].id = Head(events).alarm

\* Nobody's alarm, or one that exists no more.
AlarmUnknown ==
  /\ events # <<>>
  /\ \A t \in XAlarmType : ~Notified(t)
  /\ events' = Tail(events)
  /\ UNCHANGED <<idleCounter, xalarms, alarms, idle>>

\* Fault: nothing is prepared for the user's return.
AlarmTriggeredOnly ==
  /\ Notified("IDLE_TIMEOUT")
  /\ events' = Tail(events)
  /\ UNCHANGED <<idleCounter, xalarms, alarms, idle>>

\* The user has been idle: RESET will fire once the counter falls below the
\* value it had then.
AlarmTriggered ==
  /\ Notified("IDLE_TIMEOUT")
  /\ \/ /\ "RESET" \in DOMAIN xalarms /\ xalarms["RESET"].id = None
        /\ RegisterXalarm(idleCounter, [xalarms EXCEPT !["RESET"].timeout = Head(events).counter - 1],
                          alarms, "RESET", "negative")
     \/ /\ "RESET" \in DOMAIN xalarms => xalarms["RESET"].id # None
        /\ UNCHANGED <<xalarms, alarms>>
  /\ events' = Tail(events)
  /\ UNCHANGED <<idleCounter, idle>>

\* Fault: the other alarms are left as they are.
AlarmResetOnly ==
  LET r == xalarms["RESET"].id IN
  /\ Notified("RESET")
  /\ xalarms' = [xalarms EXCEPT !["RESET"].id = None]
  /\ alarms' = Destroyed(alarms, r)
  /\ events' = DestroyEvent(Tail(events), r)
  /\ UNCHANGED <<idleCounter, idle>>

\* reset_all_xalarm.
AlarmReset ==
  LET r  == xalarms["RESET"].id
      xs == [xalarms EXCEPT !["RESET"].id = None]
      as == Destroyed(alarms, r)
  IN
  /\ Notified("RESET")
  /\ \/ /\ "IDLE_TIMEOUT" \in DOMAIN xalarms
        /\ RegisterXalarm(idleCounter, xs, as, "IDLE_TIMEOUT", "positive")
     \/ /\ "IDLE_TIMEOUT" \notin DOMAIN xalarms
        /\ xalarms' = xs
        /\ alarms' = as
  /\ events' = DestroyEvent(Tail(events), r)
  /\ UNCHANGED <<idleCounter, idle>>
=============================================================================
