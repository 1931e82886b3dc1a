------------------------------ MODULE AppManager ------------------------------
(***************************************************************************)
(* AppManager: which apps a session has, and when each of them is started. *)
(* The desktop files are read once, before the main loop: the autostart    *)
(* directories, the user's first, less the blacklist, and then the         *)
(* installed files of the required components.  The first file of an app   *)
(* is the one that counts.  Phase by phase the apps are started, some of   *)
(* them from a timer.                                                      *)
(***************************************************************************)
EXTENDS AppProcess, KsmPhases, Integers, Sequences

CONSTANTS
  Config,          \* what the disk may hold at start-up, see ConfigOf
  NoFile,          \* there is no such file, or GLib cannot load it
  SettingsDaemon,  \* mate-settings-daemon.desktop
  Second,          \* 1000 ms
  IntLimit         \* 2^31

VARIABLES
  config,   \* the files that load_apps found
  apps,     \* apps_: the file that counts, by app
  current,  \* the last phase whose apps were started
  delayed,  \* apps with a timer that is to start them
  tried     \* apps whose start() was called

managerVars == <<vars, config, apps, current, delayed, tried>>

Key == {"unset", "true", "false"}
PhaseOfName ==
  [Initialization |-> INITIALIZATION, WindowManager |-> WINDOW_MANAGER,
   Panel |-> PANEL, Desktop |-> DESKTOP]
PhaseName == DOMAIN PhaseOfName \cup {"", "other"}

\* The keys of a desktop file that App reads, for KIRAN and for MATE; shown is
\* whether either desktop may show it.
File ==
  [ksmEnabled : Key, gsmEnabled : Key, hidden : BOOLEAN, shown : BOOLEAN,
   ksmPhase : PhaseName, gsmPhase : PhaseName, ksmRestart : Key, gsmRestart : Key,
   delay : Int, dbusActivatable : BOOLEAN]

Folder == [App -> File \cup {NoFile}]
\* The directory of the user is one of get_autostart_dirs in any case.
ConfigOf ==
  [autostart : Seq(Folder) \ {<<>>}, installed : Folder, required : SUBSET App,
   blacklist : SUBSET App]

ASSUME ManagerAssumption ==
  /\ Config \subseteq ConfigOf
  /\ NoFile \notin File
  /\ Second \in Nat \ {0}
  /\ IntLimit \in Nat \ {0}

ManagerTypeOK ==
  /\ TypeOK
  /\ config \in Config
  /\ DOMAIN apps \subseteq App
  /\ \A a \in DOMAIN apps : apps[a] \in File
  /\ current \in IDLE .. APPLICATION
  /\ delayed \subseteq DOMAIN apps
  /\ tried \subseteq DOMAIN apps

-----------------------------------------------------------------------------
(* What App makes of its file.                                             *)

\* Fault: the key of KIRAN decides alone when it is there.
CanLaunchedEitherKey(f) ==
  /\ f.ksmEnabled = "true" \/ (f.ksmEnabled = "unset" /\ f.gsmEnabled # "false")
  /\ ~f.hidden
  /\ f.shown

CanLaunched(f) ==
  /\ f.ksmEnabled # "false"
  /\ f.gsmEnabled # "false"
  /\ ~f.hidden
  /\ f.shown

\* Fault: a phase that is not known is no phase of start-up.
PhaseOfFileStrict(f) ==
  LET name == IF f.ksmPhase = "" THEN f.gsmPhase ELSE f.ksmPhase
  IN  IF name \in DOMAIN PhaseOfName THEN PhaseOfName[name] ELSE RUNNING

PhaseOfFile(f) ==
  LET name == IF f.ksmPhase = "" THEN f.gsmPhase ELSE f.ksmPhase
  IN  IF name \in DOMAIN PhaseOfName THEN PhaseOfName[name] ELSE APPLICATION

AutoRestart(f) ==
  "true" = IF f.ksmRestart = "unset" THEN f.gsmRestart ELSE f.ksmRestart

ToInt32(n) == ((n + IntLimit) % (2 * IntLimit)) - IntLimit

\* A delay, a long stored in an int, is only taken in APPLICATION; -1 stands for
\* none.
DelayOf(f) == IF PhaseOfFile(f) = APPLICATION THEN ToInt32(f.delay) ELSE -1

\* Whether start_apps makes a timer for a: seconds times 1000 in an int.  When
\* that overflows the product may wrap, or the compiler compares the delay itself.
Postponed(a) ==
  LET delay == DelayOf(apps[a])
  IN  IF a = SettingsDaemon THEN {TRUE}
      ELSE {ToInt32(delay * Second) > 0, delay > 0}

-----------------------------------------------------------------------------
(* Loading.                                                                *)

Present(folder) == {a \in App : folder[a] # NoFile}

\* add_app, for the files of a directory: the app that is there stays.
AddApps(loaded, files) ==
  [a \in DOMAIN loaded \cup DOMAIN files |->
     IF a \in DOMAIN loaded THEN loaded[a] ELSE files[a]]

FilesOf(c, i) == [a \in Present(c.autostart[i]) \ c.blacklist |-> c.autostart[i][a]]

\* Fault: a later directory replaces the file of an earlier one.
LoadAutostartAppsLast(c) ==
  LET loaded[i \in 0 .. Len(c.autostart)] ==
        IF i = 0 THEN <<>> ELSE AddApps(FilesOf(c, i), loaded[i - 1])
  IN  loaded[Len(c.autostart)]

LoadAutostartApps(c) ==
  LET loaded[i \in 0 .. Len(c.autostart)] ==
        IF i = 0 THEN <<>> ELSE AddApps(loaded[i - 1], FilesOf(c, i))
  IN  loaded[Len(c.autostart)]

\* GIO finds no app for an installed file that is hidden.
LoadRequiredApps(c, loaded) ==
  AddApps(loaded,
          [a \in {b \in c.required \cap Present(c.installed) : ~c.installed[b].hidden} |->
             c.installed[a]])

LoadApps(c) == LoadRequiredApps(c, LoadAutostartApps(c))

ManagerInit ==
  /\ Init
  /\ config \in Config
  /\ apps = LoadApps(config)
  /\ current = IDLE
  /\ delayed = {}
  /\ tried = {}

-----------------------------------------------------------------------------
(* Starting.                                                               *)

\* get_apps_by_phase.
AppsByPhase(phase) == {a \in App : a \in DOMAIN apps /\ PhaseOfFile(apps[a]) = phase}

\* Apps for which start() does not give up at once.
Launchable == {a \in DOMAIN apps : ~apps[a].dbusActivatable}

\* start_apps, for one phase after the other.
StartApps ==
  /\ current < APPLICATION
  /\ current' = current + 1
  /\ LET due == {a \in AppsByPhase(current + 1) : CanLaunched(apps[a])}
     IN  \E later \in SUBSET due : \E launched \in SUBSET ((due \ later) \cap Launchable) :
           /\ \A a \in due : (a \in later) \in Postponed(a)
           /\ delayed' = delayed \cup later
           /\ tried' = tried \cup (due \ later)
           /\ started' = started \cup launched
           /\ Launch(launched, procs)
  /\ UNCHANGED <<others, config, apps>>

\* Fault: the timer goes on.
DelayedStartRepeats(a) ==
  /\ a \in delayed
  /\ tried' = tried \cup {a}
  /\ \E launched \in SUBSET ({a} \cap Launchable) :
       /\ CanLaunched(apps[a])
       /\ started' = started \cup launched
       /\ Launch(launched, procs)
  /\ UNCHANGED <<others, config, apps, current, delayed>>

\* The timer of start_apps; its file has not changed, so it can be launched still.
DelayedStart(a) ==
  /\ a \in delayed
  /\ delayed' = delayed \ {a}
  /\ tried' = tried \cup {a}
  /\ \E launched \in SUBSET ({a} \cap Launchable) :
       /\ CanLaunched(apps[a])
       /\ started' = started \cup launched
       /\ Launch(launched, procs)
  /\ UNCHANGED <<others, config, apps, current>>

\* A client of a has gone in RUNNING, which follows APPLICATION at once.
RestartApp(a) ==
  /\ current = APPLICATION
  /\ a \in DOMAIN apps
  /\ AutoRestart(apps[a])
  /\ \E launched \in SUBSET {a} : Restart(a, launched)
  /\ UNCHANGED <<config, apps, current, delayed, tried>>

ManagerNext ==
  \/ StartApps
  \/ \E a \in App : DelayedStart(a) \/ RestartApp(a)
  \/ System /\ UNCHANGED <<config, apps, current, delayed, tried>>

\* Every phase of start-up is reached: SessionManager leaves the one before when
\* its apps are there or its timeout has passed.  Timers of GLib fire.
ManagerSpec ==
  /\ ManagerInit
  /\ [][ManagerNext]_managerVars
  /\ WF_managerVars(StartApps)
  /\ \A a \in App : WF_managerVars(DelayedStart(a))

-----------------------------------------------------------------------------
\* The file that counts for an app is that of the first directory that has one,
\* if it is not on the blacklist, and else the one installed, if the app is
\* required; there is no other app (load_apps, add_app).
LoadedByPrecedence ==
  \A a \in App :
    LET folders == {i \in DOMAIN config.autostart : config.autostart[i][a] # NoFile}
        first == CHOOSE i \in folders : \A j \in folders : i <= j
    IN  \/ /\ a \notin config.blacklist /\ folders # {}
           /\ a \in DOMAIN apps /\ apps[a] = config.autostart[first][a]
        \/ /\ a \in config.blacklist \/ folders = {}
           /\ IF /\ a \in config.required
                 /\ config.installed[a] # NoFile
                 /\ ~config.installed[a].hidden
                THEN a \in DOMAIN apps /\ apps[a] = config.installed[a]
                ELSE a \notin DOMAIN apps

\* An app that the user's own file hides or disables never has a process, not as
\* a required component, from a timer or by a restart either; only on the
\* blacklist is that file not read (can_launched).
UserDisables(f) == f.hidden \/ "false" \in {f.ksmEnabled, f.gsmEnabled}
DisabledNeverRuns ==
  \A r \in procs :
    \/ r.app \in config.blacklist
    \/ config.autostart[1][r.app] = NoFile
    \/ ~UserDisables(config.autostart[1][r.app])

\* An app is launched once and from then on only by restart(), which stops it
\* first (start_apps and its timers).
ImplementsAppProcess == Spec

\* Whatever phase and delay its file asks for, an app that can be launched is
\* tried in the end (phase_str2enum, start_apps).
LaunchableAppsStart ==
  \A a \in App : (a \in DOMAIN apps /\ CanLaunched(apps[a])) ~> a \in tried
=============================================================================
