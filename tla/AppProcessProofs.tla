--------------------------- MODULE AppProcessProofs ---------------------------
(* Theorems about AppProcess, for any sets of apps and pids.                 *)
EXTENDS AppProcess, TLAPS

\* No two processes have one pid, and none has that of somebody else.
PidsAreExclusive ==
  /\ \A q, r \in procs : q.pid = r.pid => q = r
  /\ \A r \in procs : r.pid \notin others

\* An app has no process before its first start.
QuietBeforeStart == \A r \in procs : r.app \in started

\* What TypeOK, SignalsOwnProcess and NoneForgotten need of each other: a launch
\* takes a free pid, and an exit leaves pid_ alone unless it is the one that exits.
IInv ==
  /\ TypeOK
  /\ SignalsOwnProcess
  /\ NoneForgotten
  /\ PidsAreExclusive
  /\ QuietBeforeStart

\* What stop() leaves: the same processes, of which the app has none running.
LEMMA StoppedLeavesNoneRunning ==
  ASSUME IInv, NEW a \in App
  PROVE  /\ Stopped(a) \subseteq Process
         /\ \A r \in Stopped(a) : \E q \in procs : q.pid = r.pid /\ q.app = r.app
         /\ \A q \in procs : \E r \in Stopped(a) : q.pid = r.pid /\ q.app = r.app
         /\ \A q, r \in Stopped(a) : q.pid = r.pid => q = r
         /\ \A r \in Stopped(a) : r.state = "running" => r.app # a /\ r.pid = pid[r.app]
  <1> DEFINE S(q) == IF q.pid = pid[a] /\ q.state = "running"
                       THEN [q EXCEPT !.state = "told"] ELSE q
  <1>1. \A q \in procs : S(q) \in Process /\ S(q).pid = q.pid /\ S(q).app = q.app
    BY DEF IInv, TypeOK, Process, ProcState
  <1>2. Stopped(a) = {S(q) : q \in procs}
    BY DEF Stopped
  <1>3. \A q \in procs : S(q).state = "running" => q.app # a /\ q.pid = pid[q.app]
    BY DEF IInv, TypeOK, Process, ProcState, NoneForgotten
  <1>4. \A q, r \in procs : q.pid = r.pid => q = r
    BY DEF IInv, PidsAreExclusive
  <1> HIDE DEF S
  <1> QED BY <1>1, <1>2, <1>3, <1>4

\* start() of apps none of whose processes ps is running keeps the invariant
\* (App::start).
LEMMA LaunchKeepsIInv ==
  ASSUME IInv, NEW batch \in SUBSET App, NEW ps \in SUBSET Process, Launch(batch, ps),
         \A r \in ps : \E q \in procs : q.pid = r.pid /\ q.app = r.app,
         \A q \in procs : \E r \in ps : q.pid = r.pid /\ q.app = r.app,
         \A q, r \in ps : q.pid = r.pid => q = r,
         \A r \in ps : r.state = "running" => r.app \notin batch /\ r.pid = pid[r.app],
         started' \subseteq App, started \cup batch \subseteq started', others' = others
  PROVE  IInv'
  <1>1. PICK f \in [batch -> Pid \ (PidsOf(ps) \cup others)] :
          /\ \A a, b \in batch : f[a] = f[b] => a = b
          /\ pid' = [a \in App |-> IF a \in batch THEN f[a] ELSE pid[a]]
          /\ procs' = ps \cup {[pid |-> f[a], app |-> a, state |-> "running"] : a \in batch}
    BY DEF Launch
  <1> DEFINE new(a) == [pid |-> f[a], app |-> a, state |-> "running"]
  <1>2. \A a \in batch : /\ new(a) \in Process /\ new(a).pid = f[a]
                      /\ new(a).app = a /\ new(a).state = "running"
    BY <1>1 DEF Process, ProcState
  <1>3. \A r : r \in procs' <=> r \in ps \/ \E a \in batch : r = new(a)
    BY <1>1
  <1>4. \A a \in batch : /\ f[a] \in Pid /\ f[a] \notin others
                      /\ \A r \in ps : r.pid # f[a]
    <2> SUFFICES ASSUME NEW a \in batch
                 PROVE  /\ f[a] \in Pid /\ f[a] \notin others
                        /\ \A r \in ps : r.pid # f[a]
      OBVIOUS
    <2>1. f[a] \in Pid \ (PidsOf(ps) \cup others)
      BY <1>1
    <2>2. \A r \in ps : r.pid \in PidsOf(ps)
      BY DEF PidsOf
    <2> QED BY <2>1, <2>2
  <1> HIDE DEF new
  <1>5. TypeOK'
    <2>1. pid' \in [App -> Pid \cup {NoPid}]
      BY <1>1, <1>4 DEF IInv, TypeOK
    <2>2. procs' \subseteq Process
      BY <1>2, <1>3
    <2> QED BY <2>1, <2>2 DEF IInv, TypeOK
  <1>6. SignalsOwnProcess'
    <2> SUFFICES ASSUME NEW a \in App, pid'[a] # NoPid
                 PROVE  /\ \E r \in procs' : r.pid = pid'[a] /\ r.app = a
                        /\ pid'[a] \notin others'
      BY DEF SignalsOwnProcess
    <2>1. CASE a \in batch
      <3>1. pid'[a] = f[a] /\ new(a) \in procs'
        BY <2>1, <1>1, <1>3
      <3>2. new(a).pid = f[a] /\ new(a).app = a
        BY <2>1, <1>2
      <3>3. f[a] \notin others
        BY <2>1, <1>4
      <3> QED BY <3>1, <3>2, <3>3
    <2>2. CASE a \notin batch
      <3>1. pid'[a] = pid[a]
        BY <2>2, <1>1
      <3>2. PICK q \in procs : q.pid = pid[a] /\ q.app = a
        BY <3>1 DEF IInv, SignalsOwnProcess
      <3>3. pid[a] \notin others
        BY <3>1 DEF IInv, SignalsOwnProcess
      <3>4. PICK r \in ps : r.pid = pid[a] /\ r.app = a
        BY <3>2
      <3>5. r \in procs'
        BY <1>3
      <3> QED BY <3>1, <3>3, <3>4, <3>5
    <2> QED BY <2>1, <2>2
  <1>7. NoneForgotten'
    <2> SUFFICES ASSUME NEW r \in procs', r.state = "running" PROVE r.pid = pid'[r.app]
      BY DEF NoneForgotten
    <2>1. CASE r \in ps
      BY <2>1, <1>1 DEF Process
    <2>2. CASE \E a \in batch : r = new(a)
      BY <2>2, <1>1, <1>2
    <2> QED BY <2>1, <2>2, <1>3
  <1>8. PidsAreExclusive'
    <2>1. \A q, r \in procs' : q.pid = r.pid => q = r
      BY <1>1, <1>2, <1>3, <1>4
    <2>2. \A r \in procs' : r.pid \notin others'
      BY <1>2, <1>3, <1>4 DEF IInv, PidsAreExclusive
    <2> QED BY <2>1, <2>2 DEF PidsAreExclusive
  <1>9. QuietBeforeStart'
    BY <1>2, <1>3 DEF IInv, QuietBeforeStart
  <1> QED BY <1>5, <1>6, <1>7, <1>8, <1>9 DEF IInv

\* The invariant holds at first: there is no process yet (App::App).
LEMMA InitIInv == Init => IInv
  BY DEF Init, IInv, TypeOK, SignalsOwnProcess, NoneForgotten, PidsAreExclusive,
         QuietBeforeStart

\* Every step keeps the invariant.
LEMMA NextIInv == IInv /\ [Next]_vars => IInv'
  <1> SUFFICES ASSUME IInv, [Next]_vars PROVE IInv'
    OBVIOUS
  <1>1. ASSUME NEW batch \in SUBSET App, Start(batch)
        PROVE  IInv'
    <2>1. \A r \in procs : r.state = "running" => r.app \notin batch /\ r.pid = pid[r.app]
      BY <1>1 DEF Start, IInv, QuietBeforeStart, NoneForgotten
    <2>2. procs \in SUBSET Process /\ \A q, r \in procs : q.pid = r.pid => q = r
      BY DEF IInv, TypeOK, PidsAreExclusive
    <2>3. /\ batch \in SUBSET App /\ Launch(batch, procs) /\ others' = others
          /\ started' \subseteq App /\ started \cup batch \subseteq started'
      BY <1>1 DEF Start, IInv, TypeOK
    <2> QED BY <2>1, <2>2, <2>3, LaunchKeepsIInv
  <1>2. ASSUME NEW a \in App, NEW launched \in SUBSET {a}, Restart(a, launched)
        PROVE  IInv'
    <2>1. /\ launched \in SUBSET App /\ Launch(launched, Stopped(a)) /\ others' = others
          /\ started' \subseteq App /\ started \cup launched \subseteq started'
      BY <1>2 DEF Restart, IInv, TypeOK
    <2>2. \A r \in Stopped(a) :
            r.state = "running" => r.app \notin launched /\ r.pid = pid[r.app]
      BY StoppedLeavesNoneRunning
    <2> QED BY <2>1, <2>2, StoppedLeavesNoneRunning, LaunchKeepsIInv
  <1>3. ASSUME NEW r \in procs, ProcessEnds(r) PROVE IInv'
    <2> DEFINE d == [r EXCEPT !.state = "dead"]
    <2>1. r \in Process
      BY DEF IInv, TypeOK
    <2>2. d \in Process /\ d.pid = r.pid /\ d.app = r.app /\ d.state = "dead"
      BY <2>1 DEF Process, ProcState
    <2>3. procs' = (procs \ {r}) \cup {d} /\ UNCHANGED <<started, pid, others>>
      BY <1>3 DEF ProcessEnds
    <2> HIDE DEF d
    <2>4. TypeOK' /\ QuietBeforeStart' /\ NoneForgotten'
      BY <2>2, <2>3 DEF IInv, TypeOK, QuietBeforeStart, NoneForgotten
    <2>5. SignalsOwnProcess' /\ PidsAreExclusive'
      BY <2>2, <2>3 DEF IInv, SignalsOwnProcess, PidsAreExclusive
    <2> QED BY <2>4, <2>5 DEF IInv
  <1>4. ASSUME NEW r \in procs, OnAppExited(r) PROVE IInv'
    <2>1. r \in Process /\ pid \in [App -> Pid \cup {NoPid}]
      BY DEF IInv, TypeOK
    <2>2. \A a \in App : pid'[a] = pid[a] \/ (a = r.app /\ pid[a] = r.pid /\ pid'[a] = NoPid)
      BY <1>4, <2>1 DEF OnAppExited
    <2>3. pid[r.app] = r.pid => pid'[r.app] = NoPid
      BY <1>4, <2>1 DEF OnAppExited, Process
    <2>4. procs' = procs \ {r} /\ r.state = "dead" /\ UNCHANGED <<started, others>>
      BY <1>4 DEF OnAppExited
    <2>5. TypeOK'
      BY <1>4, <2>1 DEF OnAppExited, IInv, TypeOK, Process
    <2>6. SignalsOwnProcess'
      <3> SUFFICES ASSUME NEW a \in App, pid'[a] # NoPid
                   PROVE  /\ \E q \in procs' : q.pid = pid'[a] /\ q.app = a
                          /\ pid'[a] \notin others'
        BY DEF SignalsOwnProcess
      <3>1. pid'[a] = pid[a] /\ pid[a] # NoPid
        BY <2>2
      <3>2. PICK q \in procs : q.pid = pid[a] /\ q.app = a
        BY <3>1 DEF IInv, SignalsOwnProcess
      <3>3. q # r
        BY <3>1, <3>2, <2>3
      <3> QED BY <3>1, <3>2, <3>3, <2>4 DEF IInv, SignalsOwnProcess
    <2>7. NoneForgotten'
      <3> SUFFICES ASSUME NEW q \in procs', q.state = "running" PROVE q.pid = pid'[q.app]
        BY DEF NoneForgotten
      <3>1. q \in procs /\ q # r /\ q \in Process
        BY <2>4 DEF IInv, TypeOK
      <3>2. q.pid = pid[q.app] /\ q.pid # r.pid
        BY <3>1 DEF IInv, NoneForgotten, PidsAreExclusive
      <3> QED BY <3>1, <3>2, <2>2 DEF Process
    <2>8. PidsAreExclusive' /\ QuietBeforeStart'
      BY <2>4 DEF IInv, PidsAreExclusive, QuietBeforeStart
    <2> QED BY <2>5, <2>6, <2>7, <2>8 DEF IInv
  <1>5. ASSUME NEW p \in Pid, OtherProcess(p) PROVE IInv'
    <2>1. \A r \in procs : r.pid # p
      BY <1>5 DEF OtherProcess, PidsOf
    <2>2. \A q \in others' : q \in others \/ q = p
      BY <1>5 DEF OtherProcess
    <2>3. TypeOK'
      BY <1>5 DEF OtherProcess, IInv, TypeOK
    <2> QED BY <1>5, <2>1, <2>2, <2>3 DEF OtherProcess, IInv, SignalsOwnProcess,
              NoneForgotten, PidsAreExclusive, QuietBeforeStart
  <1>6. CASE UNCHANGED vars
    BY <1>6 DEF vars, IInv, TypeOK, SignalsOwnProcess, NoneForgotten,
                PidsAreExclusive, QuietBeforeStart
  <1> QED BY <1>1, <1>2, <1>3, <1>4, <1>5, <1>6 DEF Next, System

\* The inductive invariant holds in every reachable state.
THEOREM Invariance == Spec => []IInv
  BY InitIInv, NextIInv, PTL DEF Spec

\* The pid that stop() signals is that of a process of the app that was not
\* reaped, for any number of apps, pids and processes (App::stop, on_app_exited_cb).
THEOREM StopHitsOwnProcess == Spec => []SignalsOwnProcess
  <1>1. IInv => SignalsOwnProcess
    BY DEF IInv
  <1> QED BY <1>1, Invariance, PTL

\* Restarts and exits in any order leave no process of an app running but the one
\* that stop() signals (the comment on restart->stop->start->on_app_exited_cb).
THEOREM RestartForgetsNone == Spec => []NoneForgotten
  <1>1. IInv => NoneForgotten
    BY DEF IInv
  <1> QED BY <1>1, Invariance, PTL
=============================================================================
