------------------------------ MODULE AppProcess ------------------------------
(***************************************************************************)
(* App: the processes of the autostart apps.  A restart tells the process  *)
(* of its app to stop and launches another at once, so that several        *)
(* processes of one app may be there, each with its child watch, and exits *)
(* are reported in any order.  The system gives a pid to somebody else     *)
(* once it was reaped, another app included.                               *)
(***************************************************************************)
CONSTANTS
  App,    \* the apps, by desktop id
  Pid,    \* bound: the pids of the system
  NoPid   \* -1

ASSUME PidAssumption == NoPid \notin Pid

VARIABLES
  started,  \* apps that were launched
  pid,      \* pid_ of each app
  procs,    \* processes of apps not reaped yet: running, told to stop, or dead
  others    \* pids of processes that are not of an app

vars == <<started, pid, procs, others>>

ProcState == {"running", "told", "dead"}
Process == [pid : Pid, app : App, state : ProcState]

TypeOK ==
  /\ started \subseteq App
  /\ pid \in [App -> Pid \cup {NoPid}]
  /\ procs \subseteq Process
  /\ others \subseteq Pid

Init ==
  /\ started = {}
  /\ pid = [a \in App |-> NoPid]
  /\ procs = {}
  /\ others \in SUBSET Pid

PidsOf(ps) == {r.pid : r \in ps}

\* Fault: pid_ becomes what a failed launch leaves in it.
LaunchClearing(batch, ps) ==
  \E f \in [batch -> Pid \ (PidsOf(ps) \cup others)] :
    /\ \A a, b \in batch : f[a] = f[b] => a = b
    /\ pid' = [a \in App |-> IF a \in batch THEN f[a] ELSE 0]
    /\ procs' = ps \cup {[pid |-> f[a], app |-> a, state |-> "running"] : a \in batch}

\* start() of apps with processes ps: GLib spawns a child that App has to reap
\* and tells its pid to on_launch_cb.
Launch(batch, ps) ==
  \E f \in [batch -> Pid \ (PidsOf(ps) \cup others)] :
    /\ \A a, b \in batch : f[a] = f[b] => a = b
    /\ pid' = [a \in App |-> IF a \in batch THEN f[a] ELSE pid[a]]
    /\ procs' = ps \cup {[pid |-> f[a], app |-> a, state |-> "running"] : a \in batch}

\* What stop() of a leaves of the processes: SIGTERM ends nothing by itself, and
\* does nothing to a process that is dead.
Stopped(a) ==
  {IF r.pid = pid[a] /\ r.state = "running" THEN [r EXCEPT !.state = "told"] ELSE r :
     r \in procs}

\* The first start() of the apps of batch that launches them, from start_apps or
\* after a delay; an app whose launch fails stays as it was.
Start(batch) ==
  /\ batch \cap started = {}
  /\ started' = started \cup batch
  /\ Launch(batch, procs)
  /\ UNCHANGED others

\* Fault: the old process is not stopped.
RestartWithoutStop(a, launched) ==
  /\ a \in started
  /\ launched \subseteq {a}
  /\ Launch(launched, procs)
  /\ UNCHANGED <<started, others>>

\* restart(), when a client of the app has gone; the launch may fail.
Restart(a, launched) ==
  /\ a \in started
  /\ launched \subseteq {a}
  /\ Launch(launched, Stopped(a))
  /\ UNCHANGED <<started, others>>

\* The system: a process of an app ends, somebody else starts or ends.
ProcessEnds(r) ==
  /\ r.state # "dead"
  /\ procs' = (procs \ {r}) \cup {[r EXCEPT !.state = "dead"]}
  /\ UNCHANGED <<started, pid, others>>

OtherProcess(p) ==
  /\ p \notin PidsOf(procs)
  /\ others' = IF p \in others THEN others \ {p} ELSE others \cup {p}
  /\ UNCHANGED <<started, pid, procs>>

\* Fault: pid_ is kept after its process was reaped.
OnAppExitedKeepPid(r) ==
  /\ r.state = "dead"
  /\ procs' = procs \ {r}
  /\ UNCHANGED <<started, pid, others>>

\* on_app_exited_cb: GLib has reaped r and reports it with its pid and app.
OnAppExited(r) ==
  /\ r.state = "dead"
  /\ procs' = procs \ {r}
  /\ pid' = IF pid[r.app] = r.pid THEN [pid EXCEPT ![r.app] = NoPid] ELSE pid
  /\ UNCHANGED <<started, others>>

System ==
  \/ \E r \in procs : ProcessEnds(r) \/ OnAppExited(r)
  \/ \E p \in Pid : OtherProcess(p)

Next ==
  \/ \E batch \in SUBSET App : Start(batch)
  \/ \E a \in App : \E launched \in SUBSET {a} : Restart(a, launched)
  \/ System

Spec == Init /\ [][Next]_vars

-----------------------------------------------------------------------------
\* The pid that stop() would signal is never somebody else's, nor that of another
\* app: it belongs to a process of this app that was not reaped
\* (on_app_exited_cb, stop).
SignalsOwnProcess ==
  \A a \in App : pid[a] # NoPid =>
    /\ \E r \in procs : r.pid = pid[a] /\ r.app = a
    /\ pid[a] \notin others

\* No process of an app is forgotten: all but the one that stop() would signal
\* have been told to stop or are dead, however restarts and exits interleave
\* (the comment in on_app_exited_cb on restart->stop->start->on_app_exited_cb).
NoneForgotten == \A r \in procs : r.state = "running" => r.pid = pid[r.app]
=============================================================================
