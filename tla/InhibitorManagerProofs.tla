------------------------ MODULE InhibitorManagerProofs ------------------------
(***************************************************************************)
(* Idleness is watched as the settings and the inhibitors say, for any     *)
(* cookies, ids of alarms and delays, however far the counter counts and   *)
(* however many events the server queues.                                  *)
(***************************************************************************)
EXTENDS InhibitorManager, TLAPS

\* The list xs and the server's alarms as agree, with a counter or without: RESET
\* is there for a counter only, entries are registered with a counter only, under
\* ids of their own, and the server has these alarms and no others.
ListOK(found, xs, as) ==
  /\ xs \in [DOMAIN xs -> XAlarmInfo] /\ DOMAIN xs \subseteq XAlarmType
  /\ as \in [DOMAIN as -> Alarm] /\ DOMAIN as \subseteq AlarmId
  /\ found <=> "RESET" \in DOMAIN xs
  /\ ~found => \A t \in DOMAIN xs : xs[t].id = None
  /\ found /\ "IDLE_TIMEOUT" \in DOMAIN xs =>
       /\ xs["IDLE_TIMEOUT"].id # None
       /\ xs["IDLE_TIMEOUT"].id # xs["RESET"].id
       /\ as[xs["IDLE_TIMEOUT"].id].wait = xs["IDLE_TIMEOUT"].timeout
  /\ DOMAIN as = {xs[t].id : t \in DOMAIN xs} \ {None}

\* The entry IDLE_TIMEOUT is there only to watch for the timeout that is set.
TimeoutWatched ==
  "IDLE_TIMEOUT" \in DOMAIN xalarms =>
    /\ enabled /\ idleTimeout > 0
    /\ idleTimeout * Minute < IntLimit =>
         xalarms["IDLE_TIMEOUT"].timeout = idleTimeout * Minute

\* A timeout that fits an int is watched for unless it is disabled or 0.
FittingTimeoutWatched ==
  running /\ idleTimeout * Minute < IntLimit /\ enabled /\ idleTimeout > 0 =>
    "IDLE_TIMEOUT" \in DOMAIN xalarms

\* RESET, once registered, is armed, or its event is on the way.
ResetListens ==
  "RESET" \in DOMAIN xalarms /\ xalarms["RESET"].id # None =>
    \/ xalarms["RESET"].id \in InEvents
    \/ alarms[xalarms["RESET"].id].active

\* Nothing is there before init().
QuietBeforeInit ==
  ~running =>
    /\ DOMAIN inhibitors = {} /\ enabled
    /\ DOMAIN xalarms = {} /\ DOMAIN alarms = {} /\ ~idleCounter

\* The inductive invariant.  What holds of the alarms of the server follows from the
\* list (ListOK); an event spends an alarm, and the daemon hears of the next one only
\* because RESET is never spent without an event on the way (ResetListens).
IInv ==
  /\ TypeOK
  /\ ListOK(idleCounter, xalarms, alarms)
  /\ TimeoutWatched
  /\ FittingTimeoutWatched
  /\ ResetListens
  /\ NeverDeaf
  /\ EnabledUnlessInhibited
  /\ QuietBeforeInit

-----------------------------------------------------------------------------
(* The queue of events.                                                    *)

\* The alarms that es has events of.
AlarmsIn(es) == {es[i].alarm : i \in 1 .. Len(es)}

\* An event more at the end.
LEMMA AppendEvent ==
  ASSUME NEW es \in Seq(AlarmNotify), NEW e \in AlarmNotify
  PROVE  /\ Append(es, e) \in Seq(AlarmNotify)
         /\ AlarmsIn(Append(es, e)) = AlarmsIn(es) \cup {e.alarm}
  <1> DEFINE fs == Append(es, e)
  <1>1. /\ fs \in Seq(AlarmNotify) /\ Len(fs) = Len(es) + 1 /\ Len(es) \in Nat
        /\ \A i \in 1 .. Len(es) : fs[i] = es[i]
        /\ fs[Len(es) + 1] = e
    OBVIOUS
  <1> HIDE DEF fs
  <1>2. \A x : x \in AlarmsIn(fs) <=> x \in AlarmsIn(es) \/ x = e.alarm
    <2>1. ASSUME NEW i \in 1 .. Len(fs)
          PROVE  fs[i].alarm \in AlarmsIn(es) \/ fs[i].alarm = e.alarm
      <3>1. i \in 1 .. Len(es) \/ i = Len(es) + 1
        BY <1>1
      <3> QED BY <1>1, <3>1 DEF AlarmsIn
    <2>2. ASSUME NEW i \in 1 .. Len(es) PROVE es[i].alarm \in AlarmsIn(fs)
      <3>1. i \in 1 .. Len(fs) /\ fs[i].alarm = es[i].alarm
        BY <1>1
      <3> QED BY <3>1 DEF AlarmsIn
    <2>3. e.alarm \in AlarmsIn(fs)
      <3>1. Len(fs) \in 1 .. Len(fs) /\ fs[Len(fs)].alarm = e.alarm
        BY <1>1
      <3> QED BY <3>1 DEF AlarmsIn
    <2> QED BY <2>1, <2>2, <2>3 DEF AlarmsIn
  <1> QED BY <1>1, <1>2 DEF fs

\* The event at the head is taken.
LEMMA TakeEvent ==
  ASSUME NEW es \in Seq(AlarmNotify), es # <<>>
  PROVE  /\ Head(es) \in AlarmNotify
         /\ Tail(es) \in Seq(AlarmNotify)
         /\ AlarmsIn(es) \subseteq AlarmsIn(Tail(es)) \cup {Head(es).alarm}
  <1>1. /\ Head(es) = es[1] /\ es[1] \in AlarmNotify
        /\ Tail(es) \in Seq(AlarmNotify) /\ Len(Tail(es)) = Len(es) - 1
        /\ Len(es) \in Nat
        /\ \A i \in 2 .. Len(es) : es[i] = Tail(es)[i - 1]
    OBVIOUS
  <1>2. ASSUME NEW i \in 1 .. Len(es)
        PROVE  es[i].alarm = Head(es).alarm \/ es[i].alarm \in AlarmsIn(Tail(es))
    <2>1. CASE i = 1
      BY <1>1, <2>1
    <2>2. CASE i # 1
      <3>1. i - 1 \in 1 .. Len(Tail(es)) /\ es[i].alarm = Tail(es)[i - 1].alarm
        BY <1>1, <2>2
      <3> QED BY <3>1 DEF AlarmsIn
    <2> QED BY <2>1, <2>2
  <1> QED BY <1>1, <1>2 DEF AlarmsIn

-----------------------------------------------------------------------------
(* What registering, setting and unsetting make of the list.               *)

\* The list is in order but for the entry t, which is about to be registered.
AllButOne(found, xs, as, t) ==
  /\ xs \in [DOMAIN xs -> XAlarmInfo] /\ DOMAIN xs \subseteq XAlarmType
  /\ as \in [DOMAIN as -> Alarm] /\ DOMAIN as \subseteq AlarmId
  /\ DOMAIN as \subseteq DOMAIN alarms
  /\ t \in DOMAIN xs
  /\ found <=> "RESET" \in DOMAIN xs
  /\ ~found => \A u \in DOMAIN xs : xs[u].id = None
  /\ \A u \in DOMAIN xs \ {t} : xs[u].id = xs[t].id => xs[u].id = None
  /\ found /\ t = "RESET" /\ "IDLE_TIMEOUT" \in DOMAIN xs =>
       /\ xs["IDLE_TIMEOUT"].id # None
       /\ as[xs["IDLE_TIMEOUT"].id].wait = xs["IDLE_TIMEOUT"].timeout
  /\ DOMAIN as = {xs[u].id : u \in DOMAIN xs} \ {None}

\* Registering t puts the list in order and arms the alarm of t; nothing else changes.
LEMMA RegisterLands ==
  ASSUME NEW found \in BOOLEAN, NEW xs, NEW as, NEW t \in XAlarmType,
         NEW test \in {"positive", "negative"},
         AllButOne(found, xs, as, t),
         RegisterXalarm(found, xs, as, t, test)
  PROVE  /\ ListOK(found, xalarms', alarms')
         /\ DOMAIN xalarms' = DOMAIN xs
         /\ \A u \in DOMAIN xs : xalarms'[u].timeout = xs[u].timeout
         /\ \A u \in DOMAIN xs \ {t} :
              /\ xalarms'[u] = xs[u]
              /\ xs[u].id # None => alarms'[xs[u].id] = as[xs[u].id]
         /\ found => xalarms'[t].id # None /\ alarms'[xalarms'[t].id].active
  <1>1. CASE ~found /\ xalarms' = xs /\ alarms' = as
    BY <1>1 DEF AllButOne, ListOK
  <1>2. ASSUME found, NEW a \in IF xs[t].id = None THEN NewId ELSE {xs[t].id},
               xalarms' = [xs EXCEPT ![t].id = a],
               alarms' = Armed(as, a, test, xs[t].timeout)
        PROVE  /\ ListOK(found, xalarms', alarms')
               /\ DOMAIN xalarms' = DOMAIN xs
               /\ \A u \in DOMAIN xs : xalarms'[u].timeout = xs[u].timeout
               /\ \A u \in DOMAIN xs \ {t} :
                    /\ xalarms'[u] = xs[u]
                    /\ xs[u].id # None => alarms'[xs[u].id] = as[xs[u].id]
               /\ found => xalarms'[t].id # None /\ alarms'[xalarms'[t].id].active
    <2> DEFINE ys == xalarms'
               bs == alarms'
    <2>1. /\ xs \in [DOMAIN xs -> XAlarmInfo] /\ t \in DOMAIN xs /\ xs[t] \in XAlarmInfo
          /\ \A u \in DOMAIN xs : xs[u].id \in AlarmId \cup {None} /\ xs[u].timeout \in Int
      BY DEF AllButOne, XAlarmInfo
    <2>2. a \in AlarmId /\ a # None /\ \A u \in DOMAIN xs \ {t} : a # xs[u].id
      <3>1. CASE xs[t].id = None
        <4>1. a \in AlarmId \ DOMAIN alarms
          BY <1>2, <3>1 DEF NewId, FreeIds
        <4>2. a \notin DOMAIN as
          BY <4>1 DEF AllButOne
        <4>3. a # None
          BY <4>1, AlarmAssumption
        <4> QED BY <4>1, <4>2, <4>3, <2>1 DEF AllButOne
      <3>2. CASE xs[t].id # None
        <4>1. a = xs[t].id
          BY <1>2, <3>2
        <4>2. a \in AlarmId
          BY <4>1, <3>2, <2>1
        <4> QED BY <4>1, <4>2, <3>2, <2>1 DEF AllButOne
      <3> QED BY <3>1, <3>2
    <2>3. /\ DOMAIN ys = DOMAIN xs
          /\ ys[t] = [id |-> a, timeout |-> xs[t].timeout]
          /\ \A u \in DOMAIN xs \ {t} : ys[u] = xs[u]
      BY <1>2, <2>1 DEF XAlarmInfo
    <2>4. ys \in [DOMAIN ys -> XAlarmInfo] /\ DOMAIN ys \subseteq XAlarmType
      <3>1. \A u \in DOMAIN xs : ys[u] \in XAlarmInfo
        BY <2>1, <2>2, <2>3 DEF XAlarmInfo
      <3>2. ys = [u \in DOMAIN xs |-> ys[u]]
        BY <1>2
      <3> HIDE DEF ys
      <3> QED BY <3>1, <3>2, <2>3 DEF AllButOne
    <2>5. /\ DOMAIN bs = DOMAIN as \cup {a}
          /\ bs[a] = [test |-> test, wait |-> xs[t].timeout, active |-> TRUE]
          /\ \A b \in DOMAIN as \ {a} : bs[b] = as[b]
      BY <1>2 DEF Armed
    <2>6. bs \in [DOMAIN bs -> Alarm] /\ DOMAIN bs \subseteq AlarmId
      <3>1. [test |-> test, wait |-> xs[t].timeout, active |-> TRUE] \in Alarm
        BY <2>1 DEF Alarm
      <3>2. as \in [DOMAIN as -> Alarm] /\ DOMAIN as \subseteq AlarmId
        BY DEF AllButOne
      <3>3. bs = [b \in DOMAIN as \cup {a} |-> bs[b]]
        BY <1>2 DEF Armed
      <3> HIDE DEF bs
      <3>4. \A b \in DOMAIN as \cup {a} : bs[b] \in Alarm
        BY <3>1, <3>2, <2>5
      <3> QED BY <3>2, <3>3, <3>4, <2>2, <2>5
    <2> HIDE DEF ys, bs
    <2>7. DOMAIN bs = {ys[u].id : u \in DOMAIN ys} \ {None}
      <3>1. DOMAIN as = {xs[u].id : u \in DOMAIN xs} \ {None}
        BY DEF AllButOne
      <3>2. ys[t].id = a
        BY <2>3
      <3>3. xs[t].id = None \/ xs[t].id = a
        BY <1>2
      <3> QED BY <3>1, <3>2, <3>3, <2>1, <2>2, <2>3, <2>5
    <2>8. \A u \in DOMAIN xs \ {t} : xs[u].id # None => bs[xs[u].id] = as[xs[u].id]
      <3>1. \A u \in DOMAIN xs \ {t} : xs[u].id # None => xs[u].id \in DOMAIN as \ {a}
        BY <2>2 DEF AllButOne
      <3> QED BY <3>1, <2>5
    <2>9. ASSUME "IDLE_TIMEOUT" \in DOMAIN ys
          PROVE  /\ ys["IDLE_TIMEOUT"].id # None
                 /\ ys["IDLE_TIMEOUT"].id # ys["RESET"].id
                 /\ bs[ys["IDLE_TIMEOUT"].id].wait = ys["IDLE_TIMEOUT"].timeout
      <3>1. "RESET" \in DOMAIN xs
        BY <1>2 DEF AllButOne
      <3>2. CASE t = "IDLE_TIMEOUT"
        BY <3>1, <3>2, <2>2, <2>3, <2>5
      <3>3. CASE t = "RESET"
        <4>1. /\ xs["IDLE_TIMEOUT"].id # None
              /\ as[xs["IDLE_TIMEOUT"].id].wait = xs["IDLE_TIMEOUT"].timeout
          BY <1>2, <2>3, <2>9, <3>3 DEF AllButOne
        <4>2. "IDLE_TIMEOUT" \in DOMAIN xs \ {t} /\ ys["IDLE_TIMEOUT"] = xs["IDLE_TIMEOUT"]
          BY <3>3, <2>3, <2>9
        <4>3. ys["RESET"].id = a
          BY <3>3, <2>3
        <4> QED BY <4>1, <4>2, <4>3, <2>2, <2>8
      <3> QED BY <3>2, <3>3 DEF XAlarmType
    <2>10. ListOK(found, ys, bs)
      BY <1>2, <2>3, <2>4, <2>6, <2>7, <2>9 DEF ListOK, AllButOne
    <2>11. \A u \in DOMAIN xs : ys[u].timeout = xs[u].timeout
      BY <2>3
    <2>12. ys[t].id # None /\ bs[ys[t].id].active
      BY <2>2, <2>3, <2>5
    <2>13. DOMAIN ys = DOMAIN xs /\ \A u \in DOMAIN xs \ {t} : ys[u] = xs[u]
      BY <2>3
    <2> QED BY <2>8, <2>10, <2>11, <2>12, <2>13 DEF ys, bs
  <1> QED BY <1>1, <1>2 DEF RegisterXalarm

\* The list with the server's alarms, and what is in the queue, after a change to
\* the entry IDLE_TIMEOUT of xs.
OnlyIdleChanged(xs) ==
  /\ \A u \in DOMAIN xs \ {"IDLE_TIMEOUT"} :
       /\ u \in DOMAIN xalarms' /\ xalarms'[u] = xs[u]
       /\ xs[u].id # None => alarms'[xs[u].id] = alarms[xs[u].id]
  /\ DOMAIN xalarms' \subseteq DOMAIN xs \cup {"IDLE_TIMEOUT"}
  /\ events' \in Seq(AlarmNotify)
  /\ AlarmsIn(events) \subseteq AlarmsIn(events')

\* set() arms the alarm of IDLE_TIMEOUT with the timeout, unless that is 0.
LEMMA SetLands ==
  ASSUME NEW found \in BOOLEAN, NEW xs, NEW timeout \in Int,
         ListOK(found, xs, alarms), events \in Seq(AlarmNotify),
         Set(found, xs, "IDLE_TIMEOUT", timeout)
  PROVE  /\ ListOK(found, xalarms', alarms')
         /\ OnlyIdleChanged(xs)
         /\ timeout = 0 => xalarms' = xs /\ alarms' = alarms /\ events' = events
         /\ timeout # 0 =>
              /\ "IDLE_TIMEOUT" \in DOMAIN xalarms'
              /\ xalarms'["IDLE_TIMEOUT"].timeout = timeout
              /\ found => alarms'[xalarms'["IDLE_TIMEOUT"].id].active
  <1> DEFINE t == "IDLE_TIMEOUT"
             ys == [Add(xs, t) EXCEPT ![t].timeout = timeout]
  <1>1. events' = events
    BY DEF Set
  <1>2. CASE timeout = 0 /\ xalarms' = xs /\ alarms' = alarms
    BY <1>1, <1>2 DEF OnlyIdleChanged
  <1>3. CASE timeout # 0 /\ RegisterXalarm(found, ys, alarms, t, "positive")
    <2>1. /\ xs \in [DOMAIN xs -> XAlarmInfo] /\ DOMAIN xs \subseteq XAlarmType
          /\ t \in XAlarmType
      BY DEF ListOK, XAlarmType
    <2>2. /\ DOMAIN ys = DOMAIN xs \cup {t}
          /\ \A u \in DOMAIN xs \ {t} : ys[u] = xs[u]
          /\ ys[t].timeout = timeout
          /\ ys[t].id = IF t \in DOMAIN xs THEN xs[t].id ELSE None
          /\ ys[t] \in XAlarmInfo
          /\ ys = [u \in DOMAIN xs \cup {t} |-> ys[u]]
      BY <2>1 DEF Add, XAlarmInfo
    <2> HIDE DEF ys
    <2>3. ys \in [DOMAIN ys -> XAlarmInfo] /\ DOMAIN ys \subseteq XAlarmType
      BY <2>1, <2>2
    <2>4. DOMAIN alarms = {ys[u].id : u \in DOMAIN ys} \ {None}
      <3>1. DOMAIN alarms = {xs[u].id : u \in DOMAIN xs} \ {None}
        BY DEF ListOK
      <3>2. ASSUME NEW a, a # None
            PROVE  (\E u \in DOMAIN xs : xs[u].id = a) <=> (\E u \in DOMAIN ys : ys[u].id = a)
        <4>1. CASE t \in DOMAIN xs
          BY <4>1, <2>2
        <4>2. CASE t \notin DOMAIN xs
          <5>1. /\ DOMAIN ys = DOMAIN xs \cup {t} /\ ys[t].id = None
                /\ \A u \in DOMAIN xs : ys[u].id = xs[u].id
            BY <4>2, <2>2
          <5> QED BY <3>2, <5>1
        <4> QED BY <4>1, <4>2
      <3>3. {xs[u].id : u \in DOMAIN xs} \ {None} = {ys[u].id : u \in DOMAIN ys} \ {None}
        BY <3>2
      <3> QED BY <3>1, <3>3
    <2>5. AllButOne(found, ys, alarms, t)
      <3>1. \A u \in DOMAIN ys \ {t} : u = "RESET"
        BY <2>3 DEF XAlarmType
      <3>2. \A u \in DOMAIN ys \ {t} : ys[u].id = ys[t].id => ys[u].id = None
        BY <3>1, <2>2 DEF ListOK
      <3>3. ~found => \A u \in DOMAIN ys : ys[u].id = None
        BY <2>2 DEF ListOK
      <3> QED BY <2>2, <2>3, <2>4, <3>2, <3>3 DEF AllButOne, ListOK
    <2>6. /\ ListOK(found, xalarms', alarms')
          /\ DOMAIN xalarms' = DOMAIN ys
          /\ xalarms'[t].timeout = ys[t].timeout
          /\ \A u \in DOMAIN ys \ {t} :
               /\ xalarms'[u] = ys[u]
               /\ ys[u].id # None => alarms'[ys[u].id] = alarms[ys[u].id]
          /\ found => alarms'[xalarms'[t].id].active
      BY <1>3, <2>1, <2>2, <2>5, RegisterLands
    <2>7. OnlyIdleChanged(xs)
      BY <1>1, <2>2, <2>6 DEF OnlyIdleChanged
    <2> QED BY <1>3, <2>2, <2>6, <2>7
  <1> QED BY <1>2, <1>3 DEF Set

\* unset() removes IDLE_TIMEOUT, and its alarm from the server.
LEMMA UnsetLands ==
  ASSUME NEW found \in BOOLEAN, NEW xs,
         ListOK(found, xs, alarms), events \in Seq(AlarmNotify), idle \in Nat,
         Unset(xs, "IDLE_TIMEOUT")
  PROVE  /\ ListOK(found, xalarms', alarms')
         /\ OnlyIdleChanged(xs)
         /\ "IDLE_TIMEOUT" \notin DOMAIN xalarms'
  <1> DEFINE t == "IDLE_TIMEOUT"
  <1>1. CASE t \notin DOMAIN xs /\ xalarms' = xs /\ alarms' = alarms /\ events' = events
    BY <1>1 DEF OnlyIdleChanged
  <1>2. CASE t \in DOMAIN xs /\ xalarms' = Remove(xs, t)
    <2>1. /\ xs \in [DOMAIN xs -> XAlarmInfo] /\ DOMAIN xs \subseteq XAlarmType
          /\ alarms \in [DOMAIN alarms -> Alarm] /\ DOMAIN alarms \subseteq AlarmId
          /\ DOMAIN alarms = {xs[u].id : u \in DOMAIN xs} \ {None}
      BY DEF ListOK
    <2>2. "RESET" \in DOMAIN xs => xs["RESET"].id # xs[t].id
      BY <1>2 DEF ListOK
    <2>3. xalarms' = Restrict(xs, DOMAIN xs \ {t})
      BY <1>2, <2>2 DEF Remove
    <2>4. /\ DOMAIN xalarms' = DOMAIN xs \ {t}
          /\ \A u \in DOMAIN xs \ {t} : xalarms'[u] = xs[u]
          /\ xalarms' \in [DOMAIN xs \ {t} -> XAlarmInfo]
      BY <2>1, <2>3 DEF Restrict
    <2>5. CASE /\ xs[t].id # None
               /\ alarms' = Destroyed(alarms, xs[t].id)
               /\ events' = DestroyEvent(events, xs[t].id)
      <3>1. xs[t].id \in AlarmId
        BY <1>2, <2>1, <2>5
      <3>2. events' \in Seq(AlarmNotify) /\ AlarmsIn(events) \subseteq AlarmsIn(events')
        <4>1. [alarm |-> xs[t].id, counter |-> idle] \in AlarmNotify
          BY <3>1 DEF AlarmNotify
        <4> QED BY <4>1, <2>5, AppendEvent DEF DestroyEvent
      <3>3. /\ DOMAIN alarms' = DOMAIN alarms \ {xs[t].id}
            /\ alarms' \in [DOMAIN alarms \ {xs[t].id} -> Alarm]
            /\ \A a \in DOMAIN alarms \ {xs[t].id} : alarms'[a] = alarms[a]
        BY <2>1, <2>5 DEF Destroyed, Restrict
      <3>4. \A u \in DOMAIN xs \ {t} : u = "RESET"
        BY <2>1 DEF XAlarmType
      <3>5. DOMAIN alarms' = {xalarms'[u].id : u \in DOMAIN xalarms'} \ {None}
        BY <2>1, <2>2, <2>4, <3>3, <3>4
      <3>6. \A u \in DOMAIN xs \ {t} : xs[u].id # None => alarms'[xs[u].id] = alarms[xs[u].id]
        BY <2>1, <2>2, <3>3, <3>4
      <3>7. ListOK(found, xalarms', alarms')
        BY <2>1, <2>4, <3>3, <3>5 DEF ListOK
      <3> QED BY <2>4, <3>2, <3>6, <3>7 DEF OnlyIdleChanged
    <2>6. CASE xs[t].id = None /\ alarms' = alarms /\ events' = events
      <3>1. DOMAIN alarms = {xalarms'[u].id : u \in DOMAIN xalarms'} \ {None}
        BY <2>1, <2>4, <2>6
      <3>2. ListOK(found, xalarms', alarms')
        BY <2>1, <2>4, <2>6, <3>1 DEF ListOK
      <3> QED BY <2>4, <2>6, <3>2 DEF OnlyIdleChanged
    <2> QED BY <1>2, <2>5, <2>6 DEF Unset
  <1> QED BY <1>1, <1>2 DEF Unset

\* A timeout that fits an int is passed as it is.
LEMMA ToInt32Fits ==
  /\ \A n \in Int : ToInt32(n) \in Int
  /\ \A n \in Nat : n < IntLimit => ToInt32(n) = n
  <1>1. \A x, y \in Nat : x < y => x % y = x
    BY SMTT(30)
  <1>2. IntLimit \in Nat \ {0}
    BY PresenceAssumption
  <1>3. ASSUME NEW n \in Int PROVE ToInt32(n) \in Int
    <2>1. n + IntLimit \in Int /\ 2 * IntLimit \in Nat \ {0}
      BY <1>2
    <2>2. (n + IntLimit) % (2 * IntLimit) \in Int
      BY <2>1
    <2> QED BY <1>2, <2>2 DEF ToInt32
  <1>4. ASSUME NEW n \in Nat, n < IntLimit PROVE ToInt32(n) = n
    <2>1. n + IntLimit \in Nat /\ 2 * IntLimit \in Nat /\ n + IntLimit < 2 * IntLimit
      BY <1>2, <1>4
    <2>2. (n + IntLimit) % (2 * IntLimit) = n + IntLimit
      BY <1>1, <2>1
    <2> QED BY <1>2, <2>2 DEF ToInt32
  <1> QED BY <1>3, <1>4

\* update_idle_xlarm: the entry is there to watch for the timeout that is given, if
\* it is to be watched for; it is armed, or nothing changed.
LEMMA UpdateLands ==
  ASSUME NEW found \in BOOLEAN, NEW xs, NEW on \in BOOLEAN, NEW delay \in Int,
         ListOK(found, xs, alarms), events \in Seq(AlarmNotify), idle \in Nat,
         UpdateIdleXalarm(found, xs, on, delay)
  PROVE  /\ ListOK(found, xalarms', alarms')
         /\ OnlyIdleChanged(xs)
         /\ "IDLE_TIMEOUT" \in DOMAIN xalarms' =>
              /\ on /\ delay > 0
              /\ delay * Minute < IntLimit =>
                   xalarms'["IDLE_TIMEOUT"].timeout = delay * Minute
         /\ on /\ delay > 0 /\ delay * Minute < IntLimit =>
              "IDLE_TIMEOUT" \in DOMAIN xalarms'
         /\ found /\ "IDLE_TIMEOUT" \in DOMAIN xalarms' =>
              \/ alarms'[xalarms'["IDLE_TIMEOUT"].id].active
              \/ xalarms' = xs /\ alarms' = alarms /\ events' = events
  <1>1. CASE (~on \/ delay <= 0) /\ Unset(xs, "IDLE_TIMEOUT")
    BY <1>1, UnsetLands
  <1>2. CASE on /\ delay > 0 /\ Set(found, xs, "IDLE_TIMEOUT", ToInt32(delay * Minute))
    <2> DEFINE n == ToInt32(delay * Minute)
    <2>1. delay * Minute \in Nat \ {0}
      <3>1. delay \in Nat \ {0} /\ Minute \in Nat \ {0}
        BY <1>2, PresenceAssumption
      <3>2. \A x, y \in Nat \ {0} : x * y \in Nat \ {0}
        OBVIOUS
      <3> QED BY <3>1, <3>2
    <2>2. n \in Int /\ (delay * Minute < IntLimit => n = delay * Minute)
      BY <2>1, ToInt32Fits
    <2>3. delay * Minute < IntLimit => n # 0
      BY <2>1, <2>2
    <2>4. Set(found, xs, "IDLE_TIMEOUT", n)
      BY <1>2
    <2> HIDE DEF n
    <2>5. /\ ListOK(found, xalarms', alarms')
          /\ OnlyIdleChanged(xs)
          /\ n = 0 => xalarms' = xs /\ alarms' = alarms /\ events' = events
          /\ n # 0 =>
               /\ "IDLE_TIMEOUT" \in DOMAIN xalarms'
               /\ xalarms'["IDLE_TIMEOUT"].timeout = n
               /\ found => alarms'[xalarms'["IDLE_TIMEOUT"].id].active
      BY <2>2, <2>4, SetLands
    <2> QED BY <1>2, <2>2, <2>3, <2>5
  <1> QED BY <1>1, <1>2 DEF UpdateIdleXalarm

-----------------------------------------------------------------------------
(* The invariant, one operation at a time.                                 *)

\* What the invariant says of the alarms, for the settings as they are.
AlarmsOK ==
  /\ AlarmTypeOK
  /\ ListOK(idleCounter, xalarms, alarms)
  /\ TimeoutWatched
  /\ FittingTimeoutWatched
  /\ ResetListens
  /\ NeverDeaf

\* init(), on_settings_changed and enable_idle_timeout, once they have set what
\* update_idle_xlarm looks at.  init() may have added RESET to an empty list.
LEMMA UpdateKeepsAlarms ==
  ASSUME AlarmsOK, NEW xs,
         \/ xs = xalarms /\ idleCounter' = idleCounter
         \/ /\ DOMAIN xalarms = {} /\ DOMAIN alarms = {}
            /\ xs = IF idleCounter' THEN Add(xalarms, "RESET") ELSE xalarms,
         idleCounter' \in BOOLEAN, idle' = idle,
         enabled' \in BOOLEAN, idleTimeout' \in Delay \cup {0},
         UpdateIdleXalarm(idleCounter', xs, enabled', idleTimeout')
  PROVE  /\ AlarmsOK'
         /\ OnlyIdleChanged(xs)
  <1> DEFINE found == idleCounter'
             Listens(es, x, as) == x.id \in AlarmsIn(es) \/ as[x.id].active
  <1>1. /\ events \in Seq(AlarmNotify) /\ idle \in Nat
        /\ InEvents = AlarmsIn(events) /\ InEvents' = AlarmsIn(events')
    BY DEF AlarmsOK, AlarmTypeOK, InEvents, AlarmsIn
  <1>2. /\ ListOK(found, xs, alarms)
        /\ "RESET" \in DOMAIN xs /\ xs["RESET"].id # None =>
             Listens(events, xs["RESET"], alarms)
        /\ found /\ "IDLE_TIMEOUT" \in DOMAIN xs =>
             \E t \in DOMAIN xs :
               \/ xs[t].id \in AlarmsIn(events)
               \/ xs[t].id \in DOMAIN alarms /\ alarms[xs[t].id].active
    <2>1. CASE xs = xalarms /\ found = idleCounter
      BY <1>1, <2>1 DEF AlarmsOK, ResetListens, NeverDeaf
    <2>2. CASE /\ DOMAIN xalarms = {} /\ DOMAIN alarms = {}
               /\ xs = IF found THEN Add(xalarms, "RESET") ELSE xalarms
      <3>1. alarms \in [DOMAIN alarms -> Alarm] /\ xalarms \in [DOMAIN xalarms -> XAlarmInfo]
        BY DEF AlarmsOK, ListOK
      <3>2. CASE found
        <4>1. DOMAIN xs = {"RESET"} /\ xs["RESET"] = [id |-> None, timeout |-> 0]
          BY <2>2, <3>2 DEF Add
        <4>2. xs \in [{"RESET"} -> XAlarmInfo]
          <5>1. xs = [u \in {"RESET"} |-> xs[u]]
            BY <2>2, <3>2 DEF Add
          <5> QED BY <4>1, <5>1 DEF XAlarmInfo
        <4> QED BY <2>2, <3>1, <3>2, <4>1, <4>2 DEF ListOK, XAlarmType
      <3>3. CASE ~found
        BY <2>2, <3>1, <3>3 DEF ListOK
      <3> QED BY <3>2, <3>3
    <2> QED BY <2>1, <2>2
  <1>3. idleTimeout' \in Int
    BY PresenceAssumption
  <1>4. /\ ListOK(found, xalarms', alarms')
        /\ OnlyIdleChanged(xs)
        /\ "IDLE_TIMEOUT" \in DOMAIN xalarms' =>
             /\ enabled' /\ idleTimeout' > 0
             /\ idleTimeout' * Minute < IntLimit =>
                  xalarms'["IDLE_TIMEOUT"].timeout = idleTimeout' * Minute
        /\ enabled' /\ idleTimeout' > 0 /\ idleTimeout' * Minute < IntLimit =>
             "IDLE_TIMEOUT" \in DOMAIN xalarms'
        /\ found /\ "IDLE_TIMEOUT" \in DOMAIN xalarms' =>
             \/ alarms'[xalarms'["IDLE_TIMEOUT"].id].active
             \/ xalarms' = xs /\ alarms' = alarms /\ events' = events
    BY <1>1, <1>2, <1>3, UpdateLands
  <1>5. /\ events' \in Seq(AlarmNotify)
        /\ AlarmsIn(events) \subseteq AlarmsIn(events')
        /\ "RESET" \in DOMAIN xs =>
             /\ "RESET" \in DOMAIN xalarms' /\ xalarms'["RESET"] = xs["RESET"]
             /\ xs["RESET"].id # None => alarms'[xs["RESET"].id] = alarms[xs["RESET"].id]
        /\ "RESET" \in DOMAIN xalarms' => "RESET" \in DOMAIN xs
    BY <1>4 DEF OnlyIdleChanged
  <1>6. AlarmTypeOK'
    BY <1>1, <1>4, <1>5 DEF AlarmTypeOK, ListOK
  <1>7. TimeoutWatched' /\ FittingTimeoutWatched'
    BY <1>4 DEF TimeoutWatched, FittingTimeoutWatched
  <1>8. ResetListens'
    <2>1. "RESET" \in DOMAIN xalarms' /\ xalarms'["RESET"].id # None =>
            Listens(events', xalarms'["RESET"], alarms')
      BY <1>2, <1>5
    <2> QED BY <1>1, <2>1 DEF ResetListens
  <1>9. NeverDeaf'
    <2> SUFFICES ASSUME found, "IDLE_TIMEOUT" \in DOMAIN xalarms'
                 PROVE  \E t \in DOMAIN xalarms' :
                          \/ xalarms'[t].id \in AlarmsIn(events')
                          \/ xalarms'[t].id \in DOMAIN alarms' /\ alarms'[xalarms'[t].id].active
      BY <1>1 DEF NeverDeaf
    <2>1. CASE alarms'[xalarms'["IDLE_TIMEOUT"].id].active
      BY <1>4, <2>1 DEF ListOK
    <2>2. CASE xalarms' = xs /\ alarms' = alarms /\ events' = events
      BY <1>2, <2>2
    <2> QED BY <1>4, <2>1, <2>2
  <1> QED BY <1>4, <1>6, <1>7, <1>8, <1>9 DEF AlarmsOK

\* The counter moves: the alarm that it spends has its event in the queue.
LEMMA MoveKeepsAlarms ==
  ASSUME AlarmsOK, NEW n \in Nat, MoveCounter(n), UNCHANGED <<enabled, idleTimeout, running>>
  PROVE  AlarmsOK'
  <1> USE DEF MoveCounter
  <1>1. /\ events \in Seq(AlarmNotify) /\ InEvents = AlarmsIn(events)
        /\ InEvents' = AlarmsIn(events')
        /\ alarms \in [DOMAIN alarms -> Alarm] /\ DOMAIN alarms \subseteq AlarmId
    BY DEF AlarmsOK, AlarmTypeOK, InEvents, AlarmsIn
  <1>2. CASE alarms' = alarms /\ events' = events
    BY <1>1, <1>2 DEF AlarmsOK, AlarmTypeOK, ListOK, TimeoutWatched, FittingTimeoutWatched,
                      ResetListens, NeverDeaf
  <1>3. ASSUME NEW a \in Triggered(n),
               events' = Append(events, [alarm |-> a, counter |-> n]),
               alarms' \in {alarms, [alarms EXCEPT ![a].active = FALSE]}
        PROVE  AlarmsOK'
    <2>1. a \in DOMAIN alarms /\ [alarm |-> a, counter |-> n] \in AlarmNotify
      BY <1>1 DEF Triggered, AlarmNotify
    <2>2. events' \in Seq(AlarmNotify) /\ InEvents' = InEvents \cup {a}
      BY <1>1, <1>3, <2>1, AppendEvent
    <2>3. /\ DOMAIN alarms' = DOMAIN alarms
          /\ \A b \in DOMAIN alarms : alarms'[b] \in Alarm /\ alarms'[b].wait = alarms[b].wait
          /\ \A b \in DOMAIN alarms \ {a} : alarms'[b] = alarms[b]
          /\ alarms' = [b \in DOMAIN alarms |-> alarms'[b]]
      <3>1. CASE alarms' = alarms
        BY <1>1, <3>1
      <3>2. CASE alarms' = [alarms EXCEPT ![a].active = FALSE]
        <4>1. alarms[a] \in Alarm
          BY <1>1, <2>1
        <4>2. /\ alarms'[a] = [alarms[a] EXCEPT !.active = FALSE]
              /\ DOMAIN alarms' = DOMAIN alarms
              /\ \A b \in DOMAIN alarms \ {a} : alarms'[b] = alarms[b]
              /\ alarms' = [b \in DOMAIN alarms |-> alarms'[b]]
          BY <1>1, <2>1, <3>2
        <4>3. alarms'[a] \in Alarm /\ alarms'[a].wait = alarms[a].wait
          BY <4>1, <4>2 DEF Alarm
        <4> QED BY <1>1, <4>2, <4>3
      <3> QED BY <1>3, <3>1, <3>2
    <2>4. alarms' \in [DOMAIN alarms' -> Alarm] /\ DOMAIN alarms' \subseteq AlarmId
      BY <1>1, <2>3
    <2>5. ListOK(idleCounter, xalarms, alarms')
      <3>1. ListOK(idleCounter, xalarms, alarms)
        BY DEF AlarmsOK
      <3>2. \A t \in DOMAIN xalarms : xalarms[t].id # None => xalarms[t].id \in DOMAIN alarms
        BY <3>1 DEF ListOK
      <3> QED BY <3>1, <3>2, <2>3, <2>4 DEF ListOK
    <2>6. ResetListens'
      <3>1. "RESET" \in DOMAIN xalarms /\ xalarms["RESET"].id # None =>
              xalarms["RESET"].id \in DOMAIN alarms
        BY DEF AlarmsOK, ListOK
      <3> QED BY <3>1, <2>2, <2>3 DEF AlarmsOK, ResetListens
    <2>7. NeverDeaf'
      BY <2>2, <2>3 DEF AlarmsOK, NeverDeaf
    <2> QED BY <2>2, <2>4, <2>5, <2>6, <2>7 DEF AlarmsOK, AlarmTypeOK, TimeoutWatched,
                                                FittingTimeoutWatched
  <1> QED BY <1>2, <1>3

\* An event of nobody's alarm is dropped.
LEMMA UnknownKeepsAlarms ==
  ASSUME AlarmsOK, AlarmUnknown, UNCHANGED <<enabled, idleTimeout, running>>
  PROVE  AlarmsOK'
  <1>1. /\ events \in Seq(AlarmNotify) /\ events # <<>> /\ InEvents = AlarmsIn(events)
        /\ events' = Tail(events) /\ InEvents' = AlarmsIn(events')
    BY DEF AlarmsOK, AlarmTypeOK, AlarmUnknown, InEvents, AlarmsIn
  <1>2. events' \in Seq(AlarmNotify) /\ InEvents \subseteq InEvents' \cup {Head(events).alarm}
    BY <1>1, TakeEvent
  <1>3. \A t \in DOMAIN xalarms : xalarms[t].id # Head(events).alarm
    BY <1>1 DEF AlarmsOK, AlarmTypeOK, AlarmUnknown, Notified
  <1> USE DEF AlarmUnknown
  <1>4. ResetListens' /\ NeverDeaf'
    BY <1>2, <1>3 DEF AlarmsOK, ResetListens, NeverDeaf
  <1> QED BY <1>2, <1>4 DEF AlarmsOK, AlarmTypeOK, ListOK, TimeoutWatched, FittingTimeoutWatched

\* An event of an alarm in the list: there is a counter, and a RESET entry.
LEMMA NotifiedByRegistered ==
  ASSUME AlarmsOK, NEW t \in XAlarmType, Notified(t)
  PROVE  /\ events \in Seq(AlarmNotify) /\ Head(events) \in AlarmNotify
         /\ Tail(events) \in Seq(AlarmNotify)
         /\ InEvents \subseteq AlarmsIn(Tail(events)) \cup {xalarms[t].id}
         /\ xalarms[t].id # None /\ xalarms[t].id \in AlarmId
         /\ idleCounter /\ "RESET" \in DOMAIN xalarms
  <1>1. events \in Seq(AlarmNotify) /\ events # <<>> /\ InEvents = AlarmsIn(events)
    BY DEF AlarmsOK, AlarmTypeOK, Notified, InEvents, AlarmsIn
  <1>2. /\ Head(events) \in AlarmNotify /\ Tail(events) \in Seq(AlarmNotify)
        /\ InEvents \subseteq AlarmsIn(Tail(events)) \cup {Head(events).alarm}
    BY <1>1, TakeEvent
  <1>3. xalarms[t].id = Head(events).alarm /\ t \in DOMAIN xalarms
    BY DEF Notified
  <1>4. Head(events).alarm \in AlarmId /\ Head(events).alarm # None
    BY <1>2, AlarmAssumption DEF AlarmNotify
  <1> QED BY <1>1, <1>2, <1>3, <1>4 DEF AlarmsOK, ListOK

\* The user is idle: RESET listens from now on.
LEMMA TriggeredKeepsAlarms ==
  ASSUME AlarmsOK, AlarmTriggered, UNCHANGED <<enabled, idleTimeout, running>>
  PROVE  /\ AlarmsOK'
         /\ "RESET" \in DOMAIN xalarms' /\ xalarms'["RESET"].id # None
         /\ "RESET" \in DOMAIN xalarms /\ xalarms["RESET"].id # None => xalarms' = xalarms
  <1> DEFINE xs == [xalarms EXCEPT !["RESET"].timeout = Head(events).counter - 1]
  <1>1. Notified("IDLE_TIMEOUT") /\ "IDLE_TIMEOUT" \in DOMAIN xalarms
    BY DEF AlarmTriggered, Notified
  <1>2. /\ events \in Seq(AlarmNotify) /\ Head(events) \in AlarmNotify
        /\ Tail(events) \in Seq(AlarmNotify)
        /\ InEvents \subseteq AlarmsIn(Tail(events)) \cup {xalarms["IDLE_TIMEOUT"].id}
        /\ xalarms["IDLE_TIMEOUT"].id # None
        /\ idleCounter /\ "RESET" \in DOMAIN xalarms
    BY <1>1, NotifiedByRegistered DEF XAlarmType
  <1>3. /\ events' = Tail(events) /\ idleCounter' = idleCounter /\ idle' = idle
        /\ InEvents' = AlarmsIn(events')
    BY DEF AlarmTriggered, InEvents, AlarmsIn
  <1>4. CASE xalarms["RESET"].id = None /\ RegisterXalarm(idleCounter, xs, alarms, "RESET", "negative")
    <2>1. Head(events).counter - 1 \in Int
      BY <1>2 DEF AlarmNotify
    <2>2. /\ xalarms \in [DOMAIN xalarms -> XAlarmInfo] /\ DOMAIN xalarms \subseteq XAlarmType
          /\ ListOK(idleCounter, xalarms, alarms)
      BY DEF AlarmsOK, ListOK
    <2>3. /\ xs \in [DOMAIN xalarms -> XAlarmInfo] /\ DOMAIN xs = DOMAIN xalarms
          /\ \A u \in DOMAIN xalarms : xs[u].id = xalarms[u].id
          /\ xs["IDLE_TIMEOUT"] = xalarms["IDLE_TIMEOUT"]
      BY <1>1, <2>1, <2>2 DEF XAlarmInfo
    <2> HIDE DEF xs
    <2>4. DOMAIN alarms = {xs[u].id : u \in DOMAIN xs} \ {None}
      BY <2>2, <2>3 DEF ListOK
    <2>5. AllButOne(idleCounter, xs, alarms, "RESET")
      BY <1>1, <1>2, <1>4, <2>2, <2>3, <2>4 DEF AllButOne, ListOK, XAlarmType
    <2>6. /\ ListOK(idleCounter, xalarms', alarms')
          /\ DOMAIN xalarms' = DOMAIN xs
          /\ xalarms'["IDLE_TIMEOUT"] = xs["IDLE_TIMEOUT"]
          /\ xalarms'["RESET"].id # None /\ alarms'[xalarms'["RESET"].id].active
      <3>1. /\ idleCounter \in BOOLEAN /\ "RESET" \in XAlarmType
            /\ "negative" \in {"positive", "negative"}
            /\ "IDLE_TIMEOUT" \in DOMAIN xs \ {"RESET"}
        BY <1>1, <2>3 DEF AlarmsOK, AlarmTypeOK, XAlarmType
      <3>2. /\ ListOK(idleCounter, xalarms', alarms')
            /\ DOMAIN xalarms' = DOMAIN xs
            /\ \A u \in DOMAIN xs \ {"RESET"} : xalarms'[u] = xs[u]
            /\ idleCounter => xalarms'["RESET"].id # None /\ alarms'[xalarms'["RESET"].id].active
        BY <1>4, <2>5, <3>1, RegisterLands
      <3> QED BY <1>2, <3>1, <3>2
    <2>7. AlarmTypeOK'
      BY <1>2, <1>3, <2>6 DEF AlarmsOK, AlarmTypeOK, ListOK
    <2>8. TimeoutWatched' /\ FittingTimeoutWatched'
      BY <2>3, <2>6 DEF AlarmsOK, TimeoutWatched, FittingTimeoutWatched
    <2>9. ResetListens' /\ NeverDeaf'
      BY <1>2, <2>3, <2>6 DEF ResetListens, NeverDeaf, ListOK
    <2> QED BY <1>2, <1>3, <1>4, <2>3, <2>6, <2>7, <2>8, <2>9 DEF AlarmsOK
  <1>5. CASE xalarms["RESET"].id # None /\ UNCHANGED <<xalarms, alarms>>
    <2>1. xalarms["RESET"].id # xalarms["IDLE_TIMEOUT"].id
      BY <1>1, <1>2 DEF AlarmsOK, ListOK
    <2>2. ResetListens'
      BY <1>2, <1>3, <1>5, <2>1 DEF AlarmsOK, ResetListens
    <2>3. NeverDeaf'
      BY <1>2, <1>3, <1>5, <2>2 DEF AlarmsOK, ResetListens, NeverDeaf, ListOK
    <2> QED BY <1>2, <1>3, <1>5, <2>2, <2>3 DEF AlarmsOK, AlarmTypeOK, ListOK,
                                                TimeoutWatched, FittingTimeoutWatched
  <1> QED BY <1>2, <1>4, <1>5 DEF AlarmTriggered

\* The user is back: RESET is given up, and IDLE_TIMEOUT is armed if it is there.
LEMMA ResetKeepsAlarms ==
  ASSUME AlarmsOK, AlarmReset, UNCHANGED <<enabled, idleTimeout, running>>
  PROVE  AlarmsOK'
  <1> DEFINE r  == xalarms["RESET"].id
             xs == [xalarms EXCEPT !["RESET"].id = None]
             as == Destroyed(alarms, r)
             t  == "IDLE_TIMEOUT"
  <1>1. Notified("RESET")
    BY DEF AlarmReset
  <1>2. /\ Tail(events) \in Seq(AlarmNotify)
        /\ r # None /\ r \in AlarmId
        /\ idleCounter /\ "RESET" \in DOMAIN xalarms
    BY <1>1, NotifiedByRegistered DEF XAlarmType
  <1>3. /\ xalarms \in [DOMAIN xalarms -> XAlarmInfo] /\ DOMAIN xalarms \subseteq XAlarmType
        /\ alarms \in [DOMAIN alarms -> Alarm] /\ DOMAIN alarms \subseteq AlarmId
        /\ ListOK(idleCounter, xalarms, alarms) /\ idle \in Nat
    BY DEF AlarmsOK, ListOK, AlarmTypeOK
  <1>4. /\ xs \in [DOMAIN xalarms -> XAlarmInfo] /\ DOMAIN xs = DOMAIN xalarms
        /\ \A u \in DOMAIN xalarms \ {"RESET"} : xs[u] = xalarms[u]
        /\ xs["RESET"].id = None
        /\ \A u \in DOMAIN xalarms : xs[u].timeout = xalarms[u].timeout
    BY <1>2, <1>3 DEF XAlarmInfo
  <1>5. /\ DOMAIN as = DOMAIN alarms \ {r} /\ as \in [DOMAIN as -> Alarm]
        /\ \A a \in DOMAIN as : as[a] = alarms[a]
    BY <1>3 DEF Destroyed, Restrict
  <1>6. /\ events' \in Seq(AlarmNotify) /\ idleCounter' = idleCounter /\ idle' = idle
    <2>1. [alarm |-> r, counter |-> idle] \in AlarmNotify
      BY <1>2, <1>3 DEF AlarmNotify
    <2>2. events' = Append(Tail(events), [alarm |-> r, counter |-> idle])
      BY DEF AlarmReset, DestroyEvent
    <2> QED BY <1>2, <2>1, <2>2, AppendEvent DEF AlarmReset
  <1>7. \/ t \in DOMAIN xalarms /\ RegisterXalarm(idleCounter, xs, as, t, "positive")
        \/ t \notin DOMAIN xalarms /\ xalarms' = xs /\ alarms' = as
    BY DEF AlarmReset
  <1> HIDE DEF r, xs, as
  <1>8. DOMAIN as = {xs[u].id : u \in DOMAIN xs} \ {None}
    <2>1. DOMAIN alarms = {xalarms[u].id : u \in DOMAIN xalarms} \ {None}
      BY <1>3 DEF ListOK
    <2>2. \A u \in DOMAIN xalarms \ {"RESET"} : u = t /\ xalarms[u].id # r
      BY <1>2, <1>3 DEF ListOK, XAlarmType, r
    <2>3. "RESET" \in DOMAIN xalarms /\ xalarms["RESET"].id = r
      BY <1>2 DEF r
    <2> QED BY <2>1, <2>2, <2>3, <1>4, <1>5
  <1>9. /\ ListOK(idleCounter, xalarms', alarms')
        /\ DOMAIN xalarms' = DOMAIN xalarms
        /\ \A u \in DOMAIN xalarms : xalarms'[u].timeout = xalarms[u].timeout
        /\ xalarms'["RESET"].id = None
        /\ t \in DOMAIN xalarms => alarms'[xalarms'[t].id].active
    <2>1. CASE t \in DOMAIN xalarms /\ RegisterXalarm(idleCounter, xs, as, t, "positive")
      <3>1. AllButOne(idleCounter, xs, as, t)
        BY <1>2, <1>3, <1>4, <1>5, <1>8, <2>1 DEF AllButOne, XAlarmType
      <3>2. idleCounter \in BOOLEAN /\ t \in XAlarmType
        BY DEF AlarmsOK, AlarmTypeOK, XAlarmType
      <3>4. RegisterXalarm(idleCounter, xs, as, t, "positive")
        BY <2>1
      <3>5. "positive" \in {"positive", "negative"}
        OBVIOUS
      <3>3. /\ ListOK(idleCounter, xalarms', alarms')
            /\ DOMAIN xalarms' = DOMAIN xs
            /\ \A u \in DOMAIN xs : xalarms'[u].timeout = xs[u].timeout
            /\ \A u \in DOMAIN xs \ {t} :
                 /\ xalarms'[u] = xs[u]
                 /\ xs[u].id # None => alarms'[xs[u].id] = as[xs[u].id]
            /\ idleCounter => xalarms'[t].id # None /\ alarms'[xalarms'[t].id].active
        <4> HIDE DEF t
        <4> QED BY <3>1, <3>2, <3>4, <3>5, RegisterLands, ZenonT(60)
      <3> QED BY <1>2, <1>4, <3>3
    <2>2. CASE t \notin DOMAIN xalarms /\ xalarms' = xs /\ alarms' = as
      <3>1. ListOK(idleCounter, xs, as)
        BY <1>2, <1>3, <1>4, <1>5, <1>8, <2>2 DEF ListOK
      <3> QED BY <1>4, <2>2, <3>1
    <2> QED BY <1>7, <2>1, <2>2
  <1>10. AlarmTypeOK'
    BY <1>6, <1>9 DEF AlarmsOK, AlarmTypeOK, ListOK
  <1>11. TimeoutWatched' /\ FittingTimeoutWatched'
    BY <1>9 DEF AlarmsOK, TimeoutWatched, FittingTimeoutWatched
  <1>12. ResetListens' /\ NeverDeaf'
    BY <1>2, <1>6, <1>9 DEF ResetListens, NeverDeaf, ListOK
  <1> QED BY <1>6, <1>9, <1>10, <1>11, <1>12 DEF AlarmsOK

\* The inhibitors become inh, and the timeout is enabled as they say.
LEMMA UpdatePresenceKeeps ==
  ASSUME IInv, running, NEW inh, DOMAIN inh \subseteq Cookie,
         inh \in [DOMAIN inh -> Inhibitor], UpdatePresence(inh)
  PROVE  /\ IInv'
         /\ OnlyIdleChanged(xalarms)
  <1> DEFINE on == ~HasInhibitor(inh, {"IDLE"})
  <1>1. /\ EnableIdleTimeout(on) /\ inhibitors' = inh
        /\ UNCHANGED <<idleCounter, idle, running, idleTimeout, status>>
    BY DEF UpdatePresence
  <1>2. AlarmsOK
    BY DEF IInv, TypeOK, PresenceTypeOK, AlarmsOK
  <1>3. idleCounter \in BOOLEAN /\ idleTimeout \in Delay \cup {0} /\ events \in Seq(AlarmNotify)
    BY DEF IInv, TypeOK, PresenceTypeOK, AlarmTypeOK
  <1>4. enabled' = on /\ enabled' \in BOOLEAN
    BY <1>1 DEF EnableIdleTimeout
  <1>5. AlarmsOK' /\ OnlyIdleChanged(xalarms)
    <2>1. CASE enabled = on /\ UNCHANGED <<xalarms, alarms, events>>
      <3>1. AlarmsOK'
        BY <1>1, <1>2, <1>4, <2>1 DEF AlarmsOK, AlarmTypeOK, ListOK, TimeoutWatched,
                               FittingTimeoutWatched, ResetListens, NeverDeaf, InEvents
      <3> QED BY <1>3, <2>1, <3>1 DEF OnlyIdleChanged
    <2>2. CASE UpdateIdleXalarm(idleCounter, xalarms, on, idleTimeout)
      <3>1. UpdateIdleXalarm(idleCounter', xalarms, enabled', idleTimeout')
        BY <1>1, <1>4, <2>2
      <3> HIDE DEF on
      <3> QED BY <1>1, <1>2, <1>3, <1>4, <3>1, UpdateKeepsAlarms
    <2> QED BY <1>1, <2>1, <2>2 DEF EnableIdleTimeout
  <1>6. EnabledUnlessInhibited'
    BY <1>1, <1>4 DEF EnabledUnlessInhibited, HasInhibitor
  <1>7. TypeOK'
    BY <1>1, <1>3, <1>4, <1>5 DEF IInv, TypeOK, PresenceTypeOK, AlarmsOK
  <1> QED BY <1>1, <1>5, <1>6, <1>7 DEF IInv, AlarmsOK, QuietBeforeInit

\* Some inhibitors are deleted.
LEMMA DeleteInhibitorsKeeps ==
  ASSUME IInv, NEW ks, ks \subseteq DOMAIN inhibitors, DeleteInhibitors(ks)
  PROVE  /\ IInv'
         /\ OnlyIdleChanged(xalarms)
  <1> DEFINE inh == Restrict(inhibitors, DOMAIN inhibitors \ ks)
  <1>1. running
    BY DEF IInv, QuietBeforeInit, DeleteInhibitors
  <1>2. DOMAIN inh \subseteq Cookie /\ inh \in [DOMAIN inh -> Inhibitor]
    BY DEF IInv, TypeOK, Restrict
  <1>3. UpdatePresence(inh)
    BY DEF DeleteInhibitors
  <1> HIDE DEF inh
  <1> QED BY <1>1, <1>2, <1>3, UpdatePresenceKeeps

\* An inhibitor is added, or no cookie is found for it.
LEMMA AddInhibitorKeeps ==
  ASSUME IInv, running, NEW flags \in SUBSET Flag, NEW id \in StartupId \cup {Anonymous},
         AddInhibitor(flags, id)
  PROVE  \/ IInv' /\ OnlyIdleChanged(xalarms)
         \/ UNCHANGED vars
  <1> SUFFICES ASSUME NEW k \in Cookie \ DOMAIN inhibitors,
                      UpdatePresence([c \in DOMAIN inhibitors \cup {k} |->
                                        IF c = k THEN [flags |-> flags, startupId |-> id]
                                                 ELSE inhibitors[c]])
               PROVE  IInv' /\ OnlyIdleChanged(xalarms)
    BY DEF AddInhibitor
  <1> DEFINE inh == [c \in DOMAIN inhibitors \cup {k} |->
                       IF c = k THEN [flags |-> flags, startupId |-> id] ELSE inhibitors[c]]
  <1>1. DOMAIN inh \subseteq Cookie /\ inh \in [DOMAIN inh -> Inhibitor]
    <2>1. [flags |-> flags, startupId |-> id] \in Inhibitor
      BY DEF Inhibitor
    <2>2. DOMAIN inhibitors \subseteq Cookie /\ inhibitors \in [DOMAIN inhibitors -> Inhibitor]
      BY DEF IInv, TypeOK
    <2> QED BY <2>1, <2>2
  <1>2. UpdatePresence(inh)
    OBVIOUS
  <1> HIDE DEF inh
  <1> QED BY <1>1, <1>2, UpdatePresenceKeeps

-----------------------------------------------------------------------------
(* The theorems.                                                           *)

\* IInv holds at first.
LEMMA InitIInv == Init => IInv
  <1> SUFFICES ASSUME Init PROVE IInv
    OBVIOUS
  <1> USE DEF Init, PresenceInit, AlarmInit
  <1>1. /\ DOMAIN xalarms = {} /\ DOMAIN alarms = {} /\ DOMAIN inhibitors = {}
        /\ xalarms \in [DOMAIN xalarms -> XAlarmInfo]
        /\ alarms \in [DOMAIN alarms -> Alarm]
        /\ inhibitors \in [DOMAIN inhibitors -> Inhibitor]
        /\ events \in Seq(AlarmNotify)
    OBVIOUS
  <1>2. TypeOK
    BY <1>1 DEF TypeOK, PresenceTypeOK, AlarmTypeOK, Status
  <1>3. ListOK(idleCounter, xalarms, alarms)
    BY <1>1 DEF ListOK
  <1> QED BY <1>1, <1>2, <1>3 DEF IInv, TimeoutWatched, FittingTimeoutWatched, ResetListens,
                                NeverDeaf, EnabledUnlessInhibited, QuietBeforeInit

\* Every step keeps IInv, and does one of four things to the alarms.
LEMMA NextIInv ==
  ASSUME IInv, [Next]_vars
  PROVE  /\ IInv'
         /\ \/ OnAlarmTriggered /\ UNCHANGED inhibitors
            \/ OnAlarmReset /\ UNCHANGED inhibitors
            \/ /\ xalarms' = xalarms /\ DOMAIN alarms' = DOMAIN alarms
               /\ events' # events => status' = status
            \/ status' = status /\ (~running \/ OnlyIdleChanged(xalarms))
  <1> DEFINE Steps ==
        \/ OnAlarmTriggered /\ UNCHANGED inhibitors
        \/ OnAlarmReset /\ UNCHANGED inhibitors
        \/ /\ xalarms' = xalarms /\ DOMAIN alarms' = DOMAIN alarms
           /\ events' # events => status' = status
        \/ status' = status /\ (~running \/ OnlyIdleChanged(xalarms))
  <1>1. AlarmsOK /\ events \in Seq(AlarmNotify) /\ idle \in Nat
    BY DEF IInv, AlarmsOK, TypeOK, PresenceTypeOK, AlarmTypeOK
  <1>2. ASSUME AlarmsOK', UNCHANGED <<inhibitors, enabled, running, idleTimeout>>,
               ~running => UNCHANGED <<xalarms, idleCounter>> /\ DOMAIN alarms' = DOMAIN alarms,
               status' \in Status \cup StatusArg
        PROVE  IInv'
    BY <1>2 DEF IInv, TypeOK, PresenceTypeOK, AlarmsOK, EnabledUnlessInhibited, QuietBeforeInit
  <1>3. ASSUME InitPresence, UNCHANGED inhibitors PROVE IInv' /\ Steps
    <2>1. /\ ~running /\ running' = TRUE /\ idleTimeout' \in Delay /\ idleCounter' \in BOOLEAN
          /\ idle' = idle /\ enabled' = enabled /\ status' = status
          /\ UpdateIdleXalarm(idleCounter',
                              IF idleCounter' THEN Add(xalarms, "RESET") ELSE xalarms,
                              enabled', idleTimeout')
      BY <1>3 DEF InitPresence
    <2>2. DOMAIN xalarms = {} /\ DOMAIN alarms = {} /\ enabled \in BOOLEAN
      BY <2>1 DEF IInv, QuietBeforeInit, TypeOK, PresenceTypeOK
    <2>3. AlarmsOK'
      BY <1>1, <2>1, <2>2, UpdateKeepsAlarms
    <2> QED BY <1>3, <2>1, <2>3 DEF IInv, TypeOK, PresenceTypeOK, AlarmsOK,
                                    EnabledUnlessInhibited, QuietBeforeInit
  <1>4. ASSUME SettingsChanged, UNCHANGED inhibitors PROVE IInv' /\ Steps
    <2>1. /\ running /\ idleTimeout' \in Delay
          /\ idleCounter \in BOOLEAN /\ enabled \in BOOLEAN
          /\ UNCHANGED <<idleCounter, idle, running, enabled, status>>
          /\ UpdateIdleXalarm(idleCounter', xalarms, enabled', idleTimeout')
      BY <1>4 DEF SettingsChanged, IInv, TypeOK, PresenceTypeOK, AlarmTypeOK
    <2>2. AlarmsOK' /\ OnlyIdleChanged(xalarms)
      BY <1>1, <2>1, UpdateKeepsAlarms
    <2> QED BY <1>4, <2>1, <2>2 DEF IInv, TypeOK, PresenceTypeOK, AlarmsOK,
                                    EnabledUnlessInhibited, QuietBeforeInit
  <1>5. ASSUME NEW s \in StatusArg, SetStatus(s) \/ StatusProperty(s), UNCHANGED inhibitors
        PROVE  IInv' /\ Steps
    <2>1. /\ UNCHANGED <<running, enabled, idleTimeout>> /\ UNCHANGED alarmVars
          /\ status' \in Status \cup StatusArg
      BY <1>5 DEF SetStatus, StatusProperty
    <2>2. AlarmsOK'
      BY <1>1, <2>1 DEF AlarmsOK, AlarmTypeOK, ListOK, TimeoutWatched, FittingTimeoutWatched,
                        ResetListens, NeverDeaf, InEvents, alarmVars
    <2> QED BY <1>2, <1>5, <2>1, <2>2 DEF alarmVars
  <1>6. ASSUME OnAlarmTriggered, UNCHANGED inhibitors PROVE IInv' /\ Steps
    <2>1. /\ AlarmTriggered /\ UNCHANGED <<enabled, idleTimeout, running>>
          /\ status' \in Status
      BY <1>6 DEF OnAlarmTriggered, Status
    <2>2. AlarmsOK'
      BY <1>1, <2>1, TriggeredKeepsAlarms
    <2>3. running
      BY <2>1 DEF AlarmTriggered, Notified, IInv, QuietBeforeInit
    <2>4. ~running => UNCHANGED <<xalarms, idleCounter>> /\ DOMAIN alarms' = DOMAIN alarms
      BY <2>3
    <2>5. status' \in Status \cup StatusArg
      BY <2>1
    <2>6. UNCHANGED <<inhibitors, enabled, running, idleTimeout>>
      BY <1>6, <2>1
    <2>7. IInv'
      BY <1>2, <2>2, <2>4, <2>5, <2>6
    <2> QED BY <1>6, <2>7
  <1>7. ASSUME OnAlarmReset, UNCHANGED inhibitors PROVE IInv' /\ Steps
    <2>1. /\ AlarmReset /\ UNCHANGED <<enabled, idleTimeout, running>>
          /\ status' \in Status
      BY <1>7 DEF OnAlarmReset, Status
    <2>2. AlarmsOK'
      BY <1>1, <2>1, ResetKeepsAlarms
    <2>3. running
      BY <2>1 DEF AlarmReset, Notified, IInv, QuietBeforeInit
    <2>4. ~running => UNCHANGED <<xalarms, idleCounter>> /\ DOMAIN alarms' = DOMAIN alarms
      BY <2>3
    <2>5. status' \in Status \cup StatusArg
      BY <2>1
    <2>6. UNCHANGED <<inhibitors, enabled, running, idleTimeout>>
      BY <1>7, <2>1
    <2>7. IInv'
      BY <1>2, <2>2, <2>4, <2>5, <2>6
    <2> QED BY <1>7, <2>7
  <1>8. ASSUME OnAlarmUnknown, UNCHANGED inhibitors PROVE IInv' /\ Steps
    <2>1. /\ AlarmUnknown /\ UNCHANGED <<enabled, idleTimeout, running, status>>
      BY <1>8 DEF OnAlarmUnknown, presenceVars
    <2>2. AlarmsOK' /\ UNCHANGED <<xalarms, alarms, idleCounter>>
      BY <1>1, <2>1, UnknownKeepsAlarms DEF AlarmUnknown
    <2>3. status \in Status \cup StatusArg
      BY DEF IInv, TypeOK, PresenceTypeOK
    <2> QED BY <1>2, <1>8, <2>1, <2>2, <2>3
  <1>9. ASSUME User, UNCHANGED inhibitors PROVE IInv' /\ Steps
    <2>1. PICK n \in Nat : MoveCounter(n)
      BY <1>1, <1>9 DEF User, UserIsIdle, UserIsActive
    <2>2. /\ UNCHANGED <<enabled, idleTimeout, running, status>>
          /\ UNCHANGED <<xalarms, idleCounter>> /\ DOMAIN alarms' = DOMAIN alarms
      BY <1>9, <2>1 DEF User, presenceVars, MoveCounter
    <2>3. AlarmsOK' /\ status \in Status \cup StatusArg
      BY <1>1, <2>1, <2>2, MoveKeepsAlarms DEF IInv, TypeOK, PresenceTypeOK
    <2> QED BY <1>2, <1>9, <2>2, <2>3
  <1>10. ASSUME UNCHANGED vars PROVE IInv' /\ Steps
    <2>1. /\ UNCHANGED <<inhibitors, running, enabled, idleTimeout, status, idleCounter,
                         xalarms, alarms, events, idle>>
      BY <1>10 DEF vars, presenceVars, alarmVars
    <2>2. AlarmsOK' /\ status \in Status \cup StatusArg
      BY <1>1, <2>1 DEF AlarmsOK, AlarmTypeOK, ListOK, TimeoutWatched, FittingTimeoutWatched,
                        ResetListens, NeverDeaf, InEvents, IInv, TypeOK, PresenceTypeOK
    <2> QED BY <1>2, <2>1, <2>2
  <1>11. ASSUME running, NEW flags \in SUBSET Flag, NEW id \in StartupId \cup {Anonymous},
                AddInhibitor(flags, id)
         PROVE  IInv' /\ Steps
    <2>1. CASE UNCHANGED vars
      BY <1>10, <2>1
    <2>2. CASE IInv' /\ OnlyIdleChanged(xalarms) /\ ~UNCHANGED vars
      BY <1>11, <2>2 DEF AddInhibitor, UpdatePresence
    <2> QED BY <1>11, <2>1, <2>2, AddInhibitorKeeps
  <1>12. ASSUME NEW ks, ks \subseteq DOMAIN inhibitors, DeleteInhibitors(ks)
         PROVE  IInv' /\ Steps
    BY <1>12, DeleteInhibitorsKeeps DEF DeleteInhibitors, UpdatePresence
  <1> HIDE DEF Steps
  <1>13. CASE PresenceNext /\ UNCHANGED inhibitors
    BY <1>3, <1>4, <1>5, <1>6, <1>7, <1>8, <1>9, <1>13 DEF PresenceNext, Steps
  <1>14. CASE \E flags \in SUBSET Flag : Inhibit(flags)
    BY <1>11, <1>14 DEF Inhibit, Steps
  <1>15. CASE \E k \in Cookie : Uninhibit(k)
    BY <1>12, <1>15 DEF Uninhibit, Steps
  <1>16. CASE \E id \in StartupId : InhibitForClient(id)
    <2>1. {"QUIT"} \in SUBSET Flag
      BY DEF Flag
    <2> QED BY <1>11, <1>16, <2>1 DEF InhibitForClient, Steps
  <1>17. CASE \E id \in StartupId : ClientFinished(id)
    BY <1>12, <1>17 DEF ClientFinished, Steps
  <1>18. CASE CancelEndSession
    BY <1>12, <1>18 DEF CancelEndSession, Steps
  <1> QED BY <1>10, <1>13, <1>14, <1>15, <1>16, <1>17, <1>18 DEF Next, Steps

\* The inductive invariant holds of every behaviour.
THEOREM Invariance == Spec => []IInv
  <1>1. IInv /\ [Next]_vars => IInv'
    BY NextIInv
  <1> QED BY InitIInv, <1>1, PTL DEF Spec

\* Every variable keeps its type, through every order of settings, inhibitors,
\* events and moves of the counter.
THEOREM TypeCorrect == Spec => []TypeOK
  <1>1. IInv => TypeOK
    BY DEF IInv
  <1> QED BY Invariance, <1>1, PTL

\* The idle timeout is enabled exactly when no inhibitor has the IDLE flag
\* (update_presence).
THEOREM TimeoutEnabledUnlessInhibited == Spec => []EnabledUnlessInhibited
  <1>1. IInv => EnabledUnlessInhibited
    BY DEF IInv
  <1> QED BY Invariance, <1>1, PTL

\* The list of alarms and the server's alarms follow the settings and the
\* inhibitors: no alarm is leaked and none is lost (set, unset, reset_all_xalarm).
THEOREM AlarmsFollow == Spec => []AlarmsFollowSettings
  <1>1. IInv => AlarmsFollowSettings
    <2> SUFFICES ASSUME IInv PROVE AlarmsFollowSettings
      OBVIOUS
    <2> DEFINE a == xalarms["IDLE_TIMEOUT"].id
    <2>1. DOMAIN alarms = {xalarms[t].id : t \in DOMAIN xalarms} \ {None}
      BY DEF IInv, ListOK
    <2>2. running /\ idleTimeout * Minute < IntLimit =>
            ("IDLE_TIMEOUT" \in DOMAIN xalarms <=> enabled /\ idleTimeout > 0)
      BY DEF IInv, TimeoutWatched, FittingTimeoutWatched
    <2>3. "IDLE_TIMEOUT" \in DOMAIN xalarms /\ idleCounter =>
            a \in DOMAIN alarms /\ alarms[a].wait = xalarms["IDLE_TIMEOUT"].timeout
      BY DEF IInv, ListOK
    <2>4. "IDLE_TIMEOUT" \in DOMAIN xalarms /\ idleTimeout * Minute < IntLimit =>
            xalarms["IDLE_TIMEOUT"].timeout = idleTimeout * Minute
      BY DEF IInv, TimeoutWatched
    <2> QED BY <2>1, <2>2, <2>3, <2>4 DEF AlarmsFollowSettings
  <1> QED BY Invariance, <1>1, PTL

\* While the user's idleness is watched, something of the alarms is armed or on
\* the way (on_event_filter_cb, register_xalarm_by_xsync).
THEOREM NotDeaf == Spec => []NeverDeaf
  <1>1. IInv => NeverDeaf
    BY DEF IInv
  <1> QED BY Invariance, <1>1, PTL

\* An event that is older than the inhibitor or the setting that stopped the
\* watching does not turn the status to IDLE (unset, find_xalarm_by_id).
THEOREM IdleByItself == Spec => IdleOnlyWhenWatched
  <1>1. IInv /\ [Next]_vars =>
          [events' # events /\ status # "IDLE" /\ status' = "IDLE"
             => enabled /\ idleTimeout > 0]_vars
    <2> SUFFICES ASSUME IInv, [Next]_vars,
                        events' # events, status # "IDLE", status' = "IDLE"
                 PROVE  enabled /\ idleTimeout > 0
      OBVIOUS
    <2>1. OnAlarmTriggered
      BY NextIInv DEF OnAlarmReset
    <2> QED BY <2>1 DEF OnAlarmTriggered, AlarmTriggered, Notified, IInv, TimeoutWatched
  <1> QED BY Invariance, <1>1, PTL DEF Spec, IdleOnlyWhenWatched

\* RESET is registered when the alarm turns the status to IDLE, and it is given up
\* only by turning it to AVAILABLE (on_event_filter_cb, reset_all_xalarm).
THEOREM WayBack == Spec => IdleHasWayBack
  <1> DEFINE A == /\ events' # events /\ status # "IDLE" /\ status' = "IDLE" => ResetRegistered'
                  /\ ResetRegistered /\ ~ResetRegistered' => status' = "AVAILABLE"
  <1>1. ASSUME IInv, [Next]_vars PROVE A
    <2>1. IInv' /\ AlarmsOK
      BY <1>1, NextIInv DEF IInv, AlarmsOK, TypeOK, PresenceTypeOK
    <2>2. ResetRegistered => /\ "RESET" \in DOMAIN xalarms
                             /\ xalarms["RESET"].id # None /\ running
      <3>1. None \notin DOMAIN alarms
        BY <1>1, AlarmAssumption DEF IInv, ListOK
      <3> QED BY <1>1, <3>1 DEF ResetRegistered, IInv, QuietBeforeInit
    <2>3. ASSUME "RESET" \in DOMAIN xalarms', xalarms'["RESET"].id # None
          PROVE  ResetRegistered'
      BY <2>1, <2>3 DEF IInv, ListOK, ResetRegistered
    <2>4. CASE OnAlarmTriggered
      <3>1. "RESET" \in DOMAIN xalarms' /\ xalarms'["RESET"].id # None
        BY <2>1, <2>4, TriggeredKeepsAlarms DEF OnAlarmTriggered
      <3> QED BY <2>3, <3>1
    <2>5. CASE OnAlarmReset
      BY <2>5 DEF OnAlarmReset
    <2>6. CASE /\ xalarms' = xalarms /\ DOMAIN alarms' = DOMAIN alarms
               /\ events' # events => status' = status
      BY <2>6 DEF ResetRegistered
    <2>7. CASE status' = status /\ (~running \/ OnlyIdleChanged(xalarms))
      <3>1. ASSUME ResetRegistered PROVE ResetRegistered'
        BY <2>2, <2>3, <2>7, <3>1 DEF OnlyIdleChanged
      <3> QED BY <2>7, <3>1
    <2> QED BY <1>1, <2>4, <2>5, <2>6, <2>7, NextIInv
  <1>2. IInv /\ [Next]_vars => [A]_vars
    BY <1>1
  <1> QED BY Invariance, <1>2, PTL DEF Spec, IdleHasWayBack
=============================================================================
