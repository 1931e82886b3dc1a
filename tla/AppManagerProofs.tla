--------------------------- MODULE AppManagerProofs ---------------------------
(* AppManager implements AppProcess, whatever the desktop files say, and so    *)
(* has what is proved of AppProcess.                                           *)
EXTENDS AppManager, AppProcessProofs, RecursionLemmas

\* The apps of the phases to come are neither launched nor waiting for a timer, and
\* one that waits for its timer was not launched.
OnceEach ==
  /\ current \in Nat
  /\ delayed \cap started = {}
  /\ \A a \in started \cup delayed : PhaseOfFile(apps[a]) <= current

\* The phase of an app is one of start-up, whatever its file says
\* (Utils::phase_str2enum).
LEMMA PhaseOfFileIsStartup == \A f : PhaseOfFile(f) \in INITIALIZATION .. APPLICATION
  <1>1. \A name \in DOMAIN PhaseOfName :
          PhaseOfName[name] \in INITIALIZATION .. APPLICATION
    BY DEF PhaseOfName, INITIALIZATION, WINDOW_MANAGER, PANEL, DESKTOP, APPLICATION
  <1>2. APPLICATION \in INITIALIZATION .. APPLICATION
    BY DEF INITIALIZATION, APPLICATION
  <1> QED BY <1>1, <1>2 DEF PhaseOfFile

\* Nothing was started at first.
LEMMA ManagerInitOnceEach == ManagerInit => Init /\ OnceEach
  BY DEF ManagerInit, Init, OnceEach, IDLE

\* A step of AppManager is one of AppProcess, and keeps the phases apart.
LEMMA ManagerStepImplements ==
  OnceEach /\ [ManagerNext]_managerVars => [Next]_vars /\ OnceEach'
  <1> SUFFICES ASSUME OnceEach, [ManagerNext]_managerVars PROVE [Next]_vars /\ OnceEach'
    OBVIOUS
  <1>1. CASE StartApps
    <2> DEFINE due == {a \in AppsByPhase(current + 1) : CanLaunched(apps[a])}
    <2>1. PICK later \in SUBSET due, launched \in SUBSET due :
            /\ later \cap launched = {}
            /\ delayed' = delayed \cup later
            /\ started' = started \cup launched
            /\ Launch(launched, procs)
      BY <1>1 DEF StartApps
    <2>2. \A a \in due : a \in App /\ a \notin started /\ a \notin delayed
      BY DEF OnceEach, AppsByPhase
    <2>3. UNCHANGED <<others, apps>> /\ current' = current + 1
      BY <1>1 DEF StartApps
    <2>4. Start(launched) /\ launched \in SUBSET App
      BY <2>1, <2>2, <2>3 DEF Start
    <2>5. \A a \in started \cup delayed : PhaseOfFile(apps[a]) <= current + 1
      <3>1. \A f : PhaseOfFile(f) \in Int
        BY PhaseOfFileIsStartup DEF INITIALIZATION, APPLICATION
      <3> QED BY <3>1 DEF OnceEach
    <2>6. \A a \in due : PhaseOfFile(apps[a]) <= current + 1
      BY DEF OnceEach, AppsByPhase
    <2>7. OnceEach'
      BY <2>1, <2>2, <2>3, <2>5, <2>6 DEF OnceEach
    <2> QED BY <2>4, <2>7 DEF Next
  <1>2. ASSUME NEW a \in App, DelayedStart(a) PROVE [Next]_vars /\ OnceEach'
    <2>1. PICK launched \in SUBSET ({a} \cap Launchable) :
            started' = started \cup launched /\ Launch(launched, procs)
      BY <1>2 DEF DelayedStart
    <2>2. /\ a \in delayed /\ delayed' = delayed \ {a}
          /\ UNCHANGED <<others, apps, current>>
      BY <1>2 DEF DelayedStart
    <2>3. Start(launched) /\ launched \in SUBSET App
      BY <2>1, <2>2 DEF Start, OnceEach
    <2>4. OnceEach'
      BY <2>1, <2>2 DEF OnceEach
    <2> QED BY <2>3, <2>4 DEF Next
  <1>3. ASSUME NEW a \in App, RestartApp(a) PROVE [Next]_vars /\ OnceEach'
    <2>1. PICK launched \in SUBSET {a} : Restart(a, launched)
      BY <1>3 DEF RestartApp
    <2>2. UNCHANGED <<started, apps, current, delayed>>
      BY <1>3, <2>1 DEF RestartApp, Restart
    <2> QED BY <2>1, <2>2 DEF Next, OnceEach
  <1>4. CASE System /\ UNCHANGED <<config, apps, current, delayed, tried>>
    <2>1. UNCHANGED started
      BY <1>4 DEF System, ProcessEnds, OnAppExited, OtherProcess
    <2> QED BY <1>4, <2>1 DEF Next, OnceEach
  <1>5. CASE UNCHANGED managerVars
    BY <1>5 DEF managerVars, vars, OnceEach
  <1> QED BY <1>1, <1>2, <1>3, <1>4, <1>5 DEF ManagerNext

\* An app is launched once, whatever phase and delay its file says, and then again
\* only by a restart, which stops it first (AppManager::start_apps, App::restart).
THEOREM ManagerImplementsAppProcess == ManagerSpec => ImplementsAppProcess
  BY ManagerInitOnceEach, ManagerStepImplements, PTL
  DEF ManagerSpec, Spec, ImplementsAppProcess

\* What holds of the processes of apps holds under AppManager: stop() signals a
\* process of its app that was not reaped, and no other one is running.
THEOREM ManagerKeepsProcesses == ManagerSpec => [](SignalsOwnProcess /\ NoneForgotten)
  BY ManagerImplementsAppProcess, StopHitsOwnProcess, RestartForgetsNone, PTL
  DEF ImplementsAppProcess

-----------------------------------------------------------------------------
(* Which file of an app counts.                                              *)

AppTables == UNION {[S -> File] : S \in SUBSET App}

\* A file of directory i of c that may count: it is there, and not on the blacklist.
Counts(c, i, a) == c.autostart[i][a] # NoFile /\ a \notin c.blacklist

\* What add_app leaves: the apps of both, each with its first file.
LEMMA AddAppsKeeps ==
  ASSUME NEW loaded \in AppTables, NEW files \in AppTables
  PROVE  /\ AddApps(loaded, files) \in AppTables
         /\ DOMAIN AddApps(loaded, files) = DOMAIN loaded \cup DOMAIN files
         /\ \A a \in DOMAIN loaded : AddApps(loaded, files)[a] = loaded[a]
         /\ \A a \in DOMAIN files \ DOMAIN loaded : AddApps(loaded, files)[a] = files[a]
  <1>1. /\ DOMAIN loaded \in SUBSET App /\ loaded \in [DOMAIN loaded -> File]
        /\ DOMAIN files \in SUBSET App /\ files \in [DOMAIN files -> File]
    BY DEF AppTables
  <1>2. AddApps(loaded, files) \in [DOMAIN loaded \cup DOMAIN files -> File]
    BY <1>1 DEF AddApps
  <1>3. AddApps(loaded, files) \in AppTables
    BY <1>1, <1>2 DEF AppTables
  <1> QED BY <1>3 DEF AddApps

\* The files of a directory that may count.
LEMMA FilesOfDirectory ==
  ASSUME NEW c \in ConfigOf, NEW i \in DOMAIN c.autostart
  PROVE  /\ FilesOf(c, i) \in AppTables
         /\ DOMAIN FilesOf(c, i) = {a \in App : Counts(c, i, a)}
         /\ \A a \in DOMAIN FilesOf(c, i) : FilesOf(c, i)[a] = c.autostart[i][a]
  <1> DEFINE D == Present(c.autostart[i]) \ c.blacklist
  <1>1. c.autostart[i] \in [App -> File \cup {NoFile}]
    <2>1. c.autostart \in Seq(Folder)
      BY DEF ConfigOf
    <2>2. c.autostart[i] \in Folder
      BY <2>1
    <2> QED BY <2>2 DEF Folder
  <1>2. D = {a \in App : Counts(c, i, a)}
    BY DEF Present, Counts
  <1>3. \A a \in D : c.autostart[i][a] \in File
    BY <1>1 DEF Present
  <1>4. FilesOf(c, i) = [a \in D |-> c.autostart[i][a]]
    BY DEF FilesOf
  <1> HIDE DEF D
  <1>5. FilesOf(c, i) \in [D -> File] /\ D \in SUBSET App
    BY <1>2, <1>3, <1>4
  <1> QED BY <1>2, <1>4, <1>5 DEF AppTables

\* The loop over the autostart directories loads apps, directory by directory
\* (AppManager::load_autostart_apps).
LEMMA LoadAutostartAppsLoops ==
  ASSUME NEW c \in ConfigOf
  PROVE  \E u \in [0 .. Len(c.autostart) -> AppTables] :
           /\ DOMAIN u[0] = {}
           /\ \A i \in 0 .. Len(c.autostart) - 1 : u[i + 1] = AddApps(u[i], FilesOf(c, i + 1))
           /\ LoadAutostartApps(c) = u[Len(c.autostart)]
  <1> DEFINE n == Len(c.autostart)
             F(g) == [i \in 0 .. n |-> IF i = 0 THEN <<>> ELSE AddApps(g[i - 1], FilesOf(c, i))]
             step == [i \in 1 .. n |-> [t \in AppTables |-> AddApps(t, FilesOf(c, i))]]
             u == CHOOSE g : g = F(g)
  <1>1. n \in Nat /\ DOMAIN c.autostart = 1 .. n
    BY DEF ConfigOf
  <1>2. \A t \in AppTables, i \in 1 .. n : AddApps(t, FilesOf(c, i)) \in AppTables
    BY <1>1, FilesOfDirectory, AddAppsKeeps
  <1>3. <<>> \in AppTables /\ DOMAIN <<>> = {}
    <2>1. <<>> \in [{} -> File] /\ {} \in SUBSET App
      OBVIOUS
    <2> QED BY <2>1 DEF AppTables
  <1>4. step \in Steps(AppTables, n)
    BY <1>2 DEF Steps
  <1>5. PICK g \in [0 .. n -> AppTables] :
          g[0] = <<>> /\ \A i \in 1 .. n : g[i] = step[i][g[i - 1]]
    <2> HIDE DEF step, n
    <2>1. Results(AppTables, <<>>, n, step) # {}
      BY <1>1, <1>3, <1>4, LoopHasResults
    <2> QED BY <2>1 DEF Results
  <1>6. ASSUME NEW i \in 1 .. n
        PROVE  g[i] = AddApps(g[i - 1], FilesOf(c, i))
    <2>1. g[i - 1] \in AppTables /\ g[i] = step[i][g[i - 1]]
      <3> HIDE DEF step, n
      <3>1. i - 1 \in 0 .. n
        BY <1>1
      <3> QED BY <1>5, <3>1
    <2> QED BY <2>1
  <1>7. g = F(g)
    <2> HIDE DEF step, n
    <2>1. \A i \in 0 .. n : g[i] = IF i = 0 THEN <<>> ELSE AddApps(g[i - 1], FilesOf(c, i))
      BY <1>1, <1>5, <1>6
    <2> QED BY <2>1
  <1>8. u = F(u)
    <2> HIDE DEF F
    <2> QED BY <1>7
  <1>9. LoadAutostartApps(c) = u[n]
    BY DEF LoadAutostartApps
  <1> HIDE DEF u, n, step
  <1>10. u[0] = <<>> /\ \A i \in 0 .. n - 1 : u[i + 1] = AddApps(u[i], FilesOf(c, i + 1))
    <2>1. \A i \in 0 .. n : u[i] = IF i = 0 THEN <<>> ELSE AddApps(u[i - 1], FilesOf(c, i))
      BY <1>8
    <2>2. \A i \in 0 .. n - 1 : i + 1 \in 0 .. n /\ i + 1 # 0 /\ (i + 1) - 1 = i
      BY <1>1
    <2> QED BY <1>1, <2>1, <2>2
  <1> HIDE DEF F
  <1>11. ASSUME NEW i \in 0 .. n PROVE u[i] \in AppTables
    <2> DEFINE S == {j \in 0 .. n : u[j] \in AppTables}
    <2>1. 0 \in S
      BY <1>1, <1>3, <1>10
    <2>2. ASSUME NEW j \in 0 .. i - 1, j \in S PROVE j + 1 \in S
      <3>1. j \in 0 .. n - 1 /\ j + 1 \in 1 .. n /\ j + 1 \in 0 .. n
        BY <1>1
      <3> QED BY <1>2, <1>10, <2>2, <3>1
    <2> HIDE DEF S
    <2>3. S \in SUBSET Nat
      BY DEF S
    <2>4. i \in S
      BY <1>1, <2>1, <2>2, <2>3, SetInduction
    <2> QED BY <2>4 DEF S
  <1>12. u \in [0 .. n -> AppTables]
    BY <1>8, <1>11 DEF F
  <1> QED BY <1>3, <1>9, <1>10, <1>12 DEF n

\* The first directory that has a file of the app decides, less the blacklist
\* (AppManager::load_autostart_apps).
LEMMA FirstDirectoryCounts ==
  ASSUME NEW c \in ConfigOf, NEW a \in App
  PROVE  /\ LoadAutostartApps(c) \in AppTables
         /\ a \in DOMAIN LoadAutostartApps(c) <=> \E i \in DOMAIN c.autostart : Counts(c, i, a)
         /\ \A i \in DOMAIN c.autostart :
              Counts(c, i, a) /\ (\A j \in DOMAIN c.autostart : Counts(c, j, a) => i <= j)
                => LoadAutostartApps(c)[a] = c.autostart[i][a]
  <1> DEFINE n == Len(c.autostart)
  <1>1. n \in Nat /\ DOMAIN c.autostart = 1 .. n
    BY DEF ConfigOf
  <1>2. PICK u \in [0 .. n -> AppTables] :
          /\ DOMAIN u[0] = {}
          /\ \A i \in 0 .. n - 1 : u[i + 1] = AddApps(u[i], FilesOf(c, i + 1))
          /\ LoadAutostartApps(c) = u[n]
    BY LoadAutostartAppsLoops
  <1> HIDE DEF n
  <1>3. ASSUME NEW k \in 0 .. n - 1
        PROVE  /\ a \in DOMAIN u[k + 1] <=> a \in DOMAIN u[k] \/ Counts(c, k + 1, a)
               /\ a \in DOMAIN u[k] => u[k + 1][a] = u[k][a]
               /\ Counts(c, k + 1, a) /\ a \notin DOMAIN u[k]
                    => u[k + 1][a] = c.autostart[k + 1][a]
    <2>1. k \in 0 .. n /\ k + 1 \in DOMAIN c.autostart
      BY <1>1
    <2> DEFINE files == FilesOf(c, k + 1)
    <2>2. u[k] \in AppTables /\ u[k + 1] = AddApps(u[k], files)
      BY <1>2, <2>1
    <2>3. /\ files \in AppTables
          /\ DOMAIN files = {b \in App : Counts(c, k + 1, b)}
          /\ \A b \in DOMAIN files : files[b] = c.autostart[k + 1][b]
      BY <2>1, FilesOfDirectory
    <2> HIDE DEF files
    <2>4. /\ DOMAIN u[k + 1] = DOMAIN u[k] \cup DOMAIN files
          /\ \A b \in DOMAIN u[k] : u[k + 1][b] = u[k][b]
          /\ \A b \in DOMAIN files \ DOMAIN u[k] : u[k + 1][b] = files[b]
      <3> DEFINE both == AddApps(u[k], files)
      <3>1. /\ DOMAIN both = DOMAIN u[k] \cup DOMAIN files
            /\ \A b \in DOMAIN u[k] : both[b] = u[k][b]
            /\ \A b \in DOMAIN files \ DOMAIN u[k] : both[b] = files[b]
        BY <2>2, <2>3, AddAppsKeeps
      <3> HIDE DEF both
      <3>2. u[k + 1] = both
        BY <2>2 DEF both
      <3> QED BY <3>1, <3>2
    <2> QED BY <2>3, <2>4
  <1> DEFINE S == {k \in 0 .. n :
                     /\ a \in DOMAIN u[k] <=> \E i \in 1 .. k : Counts(c, i, a)
                     /\ \A i \in 1 .. k :
                          Counts(c, i, a) /\ (\A j \in 1 .. n : Counts(c, j, a) => i <= j)
                            => u[k][a] = c.autostart[i][a]}
  <1>4. 0 \in S
    BY <1>1, <1>2
  <1>5. ASSUME NEW k \in 0 .. n - 1, k \in S
        PROVE  k + 1 \in S
    <2>1. k + 1 \in 0 .. n /\ 1 .. k + 1 = 1 .. k \cup {k + 1} /\ k \in Nat
      BY <1>1
    <2>2. a \in DOMAIN u[k + 1] <=> \E i \in 1 .. k + 1 : Counts(c, i, a)
      BY <1>3, <1>5, <2>1
    <2>3. ASSUME NEW i \in 1 .. k + 1, Counts(c, i, a),
                 \A j \in 1 .. n : Counts(c, j, a) => i <= j
          PROVE  u[k + 1][a] = c.autostart[i][a]
      <3>1. CASE i \in 1 .. k
        <4>1. a \in DOMAIN u[k] /\ u[k][a] = c.autostart[i][a]
          BY <1>5, <2>3, <3>1
        <4> QED BY <1>3, <4>1
      <3>2. CASE i = k + 1
        <4>1. \A j \in 1 .. k : j \in 1 .. n /\ ~ (k + 1 <= j)
          BY <1>1
        <4>2. a \notin DOMAIN u[k]
          BY <1>5, <2>3, <3>2, <4>1
        <4> QED BY <1>3, <2>3, <3>2, <4>2
      <3> QED BY <2>1, <3>1, <3>2
    <2> QED BY <2>1, <2>2, <2>3
  <1>6. S \in SUBSET Nat
    OBVIOUS
  <1> HIDE DEF S
  <1>7. n \in S
    BY <1>1, <1>4, <1>5, <1>6, SetInduction
  <1>8. n \in 0 .. n
    BY <1>1
  <1>9. /\ a \in DOMAIN u[n] <=> \E i \in 1 .. n : Counts(c, i, a)
        /\ \A i \in 1 .. n :
             Counts(c, i, a) /\ (\A j \in 1 .. n : Counts(c, j, a) => i <= j)
               => u[n][a] = c.autostart[i][a]
    BY <1>7 DEF S
  <1>10. u[n] \in AppTables
    <2> HIDE DEF AppTables
    <2> QED BY <1>2, <1>8
  <1> QED BY <1>1, <1>2, <1>9, <1>10

\* Apps without a directory that decides are typed as well.
LEMMA AutostartAppsTyped ==
  ASSUME NEW c \in ConfigOf
  PROVE  LoadAutostartApps(c) \in AppTables
  <1>1. Len(c.autostart) \in Nat
    BY DEF ConfigOf
  <1>2. PICK u \in [0 .. Len(c.autostart) -> AppTables] :
          LoadAutostartApps(c) = u[Len(c.autostart)]
    BY LoadAutostartAppsLoops
  <1> QED BY <1>1, <1>2

\* What is loaded obeys the precedence of directories, blacklist and required
\* components (AppManager::load_apps).
LEMMA LoadedAtFirst == ManagerInit => LoadedByPrecedence /\ apps \in AppTables
  <1> SUFFICES ASSUME ManagerInit PROVE LoadedByPrecedence /\ apps \in AppTables
    OBVIOUS
  <1> DEFINE c == config
             auto == LoadAutostartApps(c)
             R == {b \in c.required \cap Present(c.installed) : ~c.installed[b].hidden}
             required == [b \in R |-> c.installed[b]]
  <1>1. c \in ConfigOf /\ apps = AddApps(auto, required)
    BY ManagerAssumption DEF ManagerInit, LoadApps, LoadRequiredApps
  <1>2. c.installed \in [App -> File \cup {NoFile}] /\ c.required \in SUBSET App
    BY <1>1 DEF ConfigOf, Folder
  <1>3. required \in AppTables
    <2>1. R \in SUBSET App /\ \A b \in R : c.installed[b] \in File
      BY <1>2 DEF Present
    <2> HIDE DEF R
    <2>2. required \in [R -> File]
      BY <2>1
    <2> QED BY <2>1, <2>2 DEF AppTables
  <1>4. DOMAIN c.autostart \in SUBSET Nat
    BY <1>1 DEF ConfigOf
  <1> HIDE DEF c
  <1>5. ASSUME NEW a \in App
        PROVE  LET folders == {i \in DOMAIN c.autostart : c.autostart[i][a] # NoFile}
                   first == CHOOSE i \in folders : \A j \in folders : i <= j
               IN  \/ /\ a \notin c.blacklist /\ folders # {}
                      /\ a \in DOMAIN apps /\ apps[a] = c.autostart[first][a]
                   \/ /\ a \in c.blacklist \/ folders = {}
                      /\ IF /\ a \in c.required
                            /\ c.installed[a] # NoFile
                            /\ ~c.installed[a].hidden
                           THEN a \in DOMAIN apps /\ apps[a] = c.installed[a]
                           ELSE a \notin DOMAIN apps
    <2> DEFINE folders == {i \in DOMAIN c.autostart : c.autostart[i][a] # NoFile}
               first == CHOOSE i \in folders : \A j \in folders : i <= j
    <2>1. /\ auto \in AppTables
          /\ a \in DOMAIN auto <=> \E i \in DOMAIN c.autostart : Counts(c, i, a)
          /\ \A i \in DOMAIN c.autostart :
               Counts(c, i, a) /\ (\A j \in DOMAIN c.autostart : Counts(c, j, a) => i <= j)
                 => auto[a] = c.autostart[i][a]
      BY <1>1, FirstDirectoryCounts
    <2> HIDE DEF auto
    <2>2. /\ DOMAIN apps = DOMAIN auto \cup R
          /\ a \in DOMAIN auto => apps[a] = auto[a]
          /\ a \in R \ DOMAIN auto => apps[a] = c.installed[a]
      <3>1. DOMAIN required = R /\ \A b \in R : required[b] = c.installed[b]
        OBVIOUS
      <3> HIDE DEF required, R
      <3>2. /\ DOMAIN apps = DOMAIN auto \cup DOMAIN required
            /\ \A b \in DOMAIN auto : apps[b] = auto[b]
            /\ \A b \in DOMAIN required \ DOMAIN auto : apps[b] = required[b]
        BY <1>1, <1>3, <2>1, AddAppsKeeps
      <3> QED BY <3>1, <3>2
    <2>3. a \in R <=> a \in c.required /\ c.installed[a] # NoFile /\ ~c.installed[a].hidden
      BY DEF Present
    <2> HIDE DEF R
    <2>4. a \in DOMAIN auto <=> a \notin c.blacklist /\ folders # {}
      BY <2>1 DEF Counts
    <2>5. ASSUME a \notin c.blacklist, folders # {}
          PROVE  auto[a] = c.autostart[first][a]
      <3>1. folders \in SUBSET Nat
        BY <1>4
      <3>2. first \in folders /\ \A j \in folders : first <= j
        <4> HIDE DEF folders
        <4>1. \E i \in folders : \A j \in folders : i <= j
          BY <2>5, <3>1, LeastElement
        <4> QED BY <4>1
      <3> HIDE DEF first
      <3> QED BY <2>1, <2>5, <3>2 DEF Counts
    <2> HIDE DEF first, folders
    <2>6. \/ /\ a \notin c.blacklist /\ folders # {}
             /\ a \in DOMAIN apps /\ apps[a] = c.autostart[first][a]
          \/ /\ a \in c.blacklist \/ folders = {}
             /\ IF /\ a \in c.required
                   /\ c.installed[a] # NoFile
                   /\ ~c.installed[a].hidden
                  THEN a \in DOMAIN apps /\ apps[a] = c.installed[a]
                  ELSE a \notin DOMAIN apps
      BY <2>2, <2>3, <2>4, <2>5
    <2> QED BY <2>6 DEF first, folders
  <1>6. LoadedByPrecedence
    BY <1>5 DEF LoadedByPrecedence, c
  <1>7. apps \in AppTables
    BY <1>1, <1>3, AutostartAppsTyped, AddAppsKeeps
  <1> QED BY <1>6, <1>7

-----------------------------------------------------------------------------
(* What runs.                                                                *)

\* Only apps that can be launched were launched or have a timer.
LaunchedMayBe ==
  \A a \in started \cup delayed : a \in DOMAIN apps /\ CanLaunched(apps[a])

\* The inductive invariant.  A process is that of an app that was launched (IInv of
\* AppProcess), that app could be launched, and its file is the one that counts.
MInv ==
  /\ IInv
  /\ OnceEach
  /\ ManagerTypeOK
  /\ LoadedByPrecedence
  /\ LaunchedMayBe

\* It holds once the files are loaded (AppManager::init).
LEMMA ManagerInitMInv == ManagerInit => MInv
  <1> SUFFICES ASSUME ManagerInit PROVE MInv
    OBVIOUS
  <1>1. Init /\ OnceEach /\ IInv
    BY ManagerInitOnceEach, InitIInv
  <1>2. LoadedByPrecedence /\ apps \in AppTables
    BY LoadedAtFirst
  <1>3. DOMAIN apps \subseteq App /\ \A a \in DOMAIN apps : apps[a] \in File
    BY <1>2 DEF AppTables
  <1>4. ManagerTypeOK
    BY <1>1, <1>3 DEF ManagerInit, ManagerTypeOK, IInv, IDLE, APPLICATION
  <1>5. LaunchedMayBe
    BY <1>1 DEF ManagerInit, Init, LaunchedMayBe
  <1> QED BY <1>1, <1>2, <1>4, <1>5 DEF MInv

\* Every step keeps it.
LEMMA ManagerNextMInv == MInv /\ [ManagerNext]_managerVars => MInv'
  <1> SUFFICES ASSUME MInv, [ManagerNext]_managerVars PROVE MInv'
    OBVIOUS
  <1>1. [Next]_vars /\ OnceEach' /\ IInv'
    <2>1. IInv /\ OnceEach
      BY DEF MInv
    <2> QED BY <2>1, ManagerStepImplements, NextIInv
  <1>2. UNCHANGED <<config, apps>>
    BY DEF ManagerNext, StartApps, DelayedStart, RestartApp, managerVars
  <1>3. LoadedByPrecedence'
    BY <1>2 DEF MInv, LoadedByPrecedence
  <1>4. current' \in IDLE .. APPLICATION
    BY DEF ManagerNext, StartApps, DelayedStart, RestartApp, managerVars, MInv,
           ManagerTypeOK, IDLE, APPLICATION
  <1>5. LaunchedMayBe' /\ delayed' \subseteq DOMAIN apps /\ tried' \subseteq DOMAIN apps
    <2>1. CASE StartApps
      <3> DEFINE due == {a \in AppsByPhase(current + 1) : CanLaunched(apps[a])}
      <3>1. PICK later \in SUBSET due, launched \in SUBSET due :
              /\ delayed' = delayed \cup later
              /\ tried' = tried \cup (due \ later)
              /\ started' = started \cup launched
        BY <2>1 DEF StartApps
      <3>2. \A a \in due : a \in DOMAIN apps /\ CanLaunched(apps[a])
        BY DEF AppsByPhase
      <3> HIDE DEF due
      <3> QED BY <1>2, <3>1, <3>2 DEF LaunchedMayBe, MInv, ManagerTypeOK
    <2>2. ASSUME NEW a \in App, DelayedStart(a)
          PROVE  LaunchedMayBe' /\ delayed' \subseteq DOMAIN apps /\ tried' \subseteq DOMAIN apps
      <3>1. PICK launched \in SUBSET {a} : started' = started \cup launched
        BY <2>2 DEF DelayedStart
      <3>2. a \in delayed /\ delayed' = delayed \ {a} /\ tried' = tried \cup {a}
        BY <2>2 DEF DelayedStart
      <3> QED BY <1>2, <3>1, <3>2 DEF LaunchedMayBe, MInv, ManagerTypeOK
    <2>3. ASSUME UNCHANGED <<started, delayed, tried>>
          PROVE  LaunchedMayBe' /\ delayed' \subseteq DOMAIN apps /\ tried' \subseteq DOMAIN apps
      BY <1>2, <2>3 DEF LaunchedMayBe, MInv, ManagerTypeOK
    <2>4. ASSUME NEW a \in App, RestartApp(a)
          PROVE  UNCHANGED <<started, delayed, tried>>
      BY <2>4 DEF RestartApp, Restart
    <2>5. CASE System /\ UNCHANGED <<config, apps, current, delayed, tried>>
      BY <2>3, <2>5 DEF System, ProcessEnds, OnAppExited, OtherProcess
    <2>6. CASE UNCHANGED managerVars
      BY <2>3, <2>6 DEF managerVars, vars
    <2> QED BY <2>1, <2>2, <2>3, <2>4, <2>5, <2>6 DEF ManagerNext
  <1>6. ManagerTypeOK'
    BY <1>1, <1>2, <1>4, <1>5 DEF MInv, ManagerTypeOK, IInv
  <1> QED BY <1>1, <1>3, <1>5, <1>6 DEF MInv

\* The inductive invariant holds in every reachable state of the manager of apps.
THEOREM ManagerInvariance == ManagerSpec => []MInv
  BY ManagerInitMInv, ManagerNextMInv, PTL DEF ManagerSpec

\* The apps, their files, phases and timers stay what AppManager takes them for.
THEOREM ManagerTyped == ManagerSpec => []ManagerTypeOK
  <1>1. MInv => ManagerTypeOK
    BY DEF MInv
  <1> QED BY <1>1, ManagerInvariance, PTL

\* For any number of directories and whatever they hold, the file that counts is that
\* of the first directory, less the blacklist, and then the one of a required component
\* (AppManager::load_apps, add_app).
THEOREM FirstFileCounts == ManagerSpec => []LoadedByPrecedence
  <1>1. MInv => LoadedByPrecedence
    BY DEF MInv
  <1> QED BY <1>1, ManagerInvariance, PTL

\* What the file of the user hides or disables never runs, by whatever way it could be
\* started (App::can_launched).
THEOREM NothingDisabledRuns == ManagerSpec => []DisabledNeverRuns
  <1>1. MInv => DisabledNeverRuns
    <2> SUFFICES ASSUME MInv, NEW r \in procs,
                        r.app \notin config.blacklist,
                        config.autostart[1][r.app] # NoFile
                 PROVE  ~UserDisables(config.autostart[1][r.app])
      BY DEF DisabledNeverRuns
    <2> DEFINE a == r.app
               folders == {i \in DOMAIN config.autostart : config.autostart[i][a] # NoFile}
               first == CHOOSE i \in folders : \A j \in folders : i <= j
    <2>1. a \in App /\ a \in DOMAIN apps /\ CanLaunched(apps[a])
      BY DEF MInv, IInv, TypeOK, Process, QuietBeforeStart, LaunchedMayBe
    <2>2. 1 \in DOMAIN config.autostart /\ DOMAIN config.autostart \in SUBSET (Nat \ {0})
      <3>1. config.autostart \in Seq(Folder) /\ config.autostart # <<>>
        BY ManagerAssumption DEF MInv, ManagerTypeOK, ConfigOf
      <3> QED BY <3>1
    <2>3. first = 1 /\ folders # {}
      <3>1. 1 \in folders /\ \A j \in folders : 1 <= j
        BY <2>2
      <3>2. \A i \in folders : i \in Nat \ {0} /\ (i <= 1 => i = 1)
        BY <2>2
      <3> HIDE DEF folders
      <3>3. first \in folders /\ \A j \in folders : first <= j
        BY <3>1
      <3> QED BY <3>1, <3>2, <3>3
    <2>4. apps[a] = config.autostart[first][a]
      BY <2>1, <2>3 DEF MInv, LoadedByPrecedence
    <2> QED BY <2>1, <2>3, <2>4 DEF CanLaunched, UserDisables
  <1> QED BY <1>1, ManagerInvariance, PTL
=============================================================================
