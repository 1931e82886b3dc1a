# TLA+ verification of kiran-session-manager

This directory models the session daemon of kiran-session-manager
(`src/kiran-session-daemon`, the sources under `src/src` of the repository),
checks the models with TLC and proves the central results with TLAPS. Paths below
are relative to the repository; line numbers are those of the commit the project
was written against and are repeated, per definition, in `PROJECT.json`.

## 1. The system

The daemon is started by the display manager, starts the desktop phase by phase,
keeps track of the programs of the session, and ends the session when somebody
asks for it. It is **one GLib main loop**: D-Bus methods, XSMP callbacks of libSM,
timers, child watches, X events and dialog buttons are dispatched one at a time,
and each runs to its end together with every sigc++ signal handler it triggers.
What is concurrent is everything else: clients, apps, D-Bus callers, the user and
the X server act between any two handlers.

| Component | State | Operations | Interacts with |
|---|---|---|---|
| **SessionManager** `session-manager.cpp` | phase, power action, the apps and clients waited for with one timer each, second-phase requests, exit window | D-Bus: RegisterClient, Logout, Shutdown, Reboot, Inhibit, Uninhibit, queries; handlers for clients, apps, timers, the exit window | everything below |
| **ClientManager** `client/*` | map of clients by start-up id; of an XSMP client, an array of properties | registration and removal (XSMP, D-Bus), forwarding of protocol messages, properties | signals to SessionManager; messages to clients |
| **AppManager, App** `app/*` | apps by desktop id, of each its desktop file, phase, delay, pid and child watch | load, start a phase, delayed start, restart, stop, exit | files of user and system; signals to SessionManager; kernel |
| **InhibitorManager** `inhibitor-manager.cpp` | inhibitors by cookie | add, delete by cookie, by client, of all clients | Presence |
| **Presence** `presence.cpp` | status, idle setting | SetStatus, settings, alarms | IdleXAlarm; D-Bus |
| **IdleXAlarm** `idle-xalarm.cpp` | list of alarms on the IDLETIME counter | set, unset, event filter | X server |
| **XsmpServer** `xsmp-server.cpp` | ICE listeners, connection watches and protocol timeouts | listen and update the ICE authority file, accept, process messages, close | libICE; ClientManager; other sessions of the user, by the file |
| **Power, wrappers** `power.cpp`, `wrapper/*` | none of their own | power actions | login1, display manager, screen saver |
| **Exit window** `ui/*` | the dialog | shown, answered | SessionManager |
| **Utils, lib, main** | none | conversions, set-up | all |

### What is hard

* *Interleaving of messages and removals.* A client can answer late, interact, ask
  for a second phase, leave or stay silent in any phase. Answers do not say what
  they answer (`client-manager.h:93`), and lists are matched by start-up id, which
  several connections of one app share.
* *Nested phase changes.* `start_next_phase`, `process_phase` and the phase
  functions call each other; one handler can cross several phases. Both waiting
  lists and both timers are cleared by every phase change.
* *Timeouts.* A phase of start-up, the query (300 ms) and the ending phase (30 s)
  are limited by timers that race the last answer, a cancel, and the next attempt.
* *Stale state.* The exit window outlives the state it was opened in. Inhibitors of
  clients that have left, second-phase requests of clients that have left, and the
  answers owed from a cancelled attempt live on.
* *Processes.* A restart stops the old process without waiting for its exit.
* *A file shared with other sessions.* Every session of a user rewrites the same ICE
  authority file, under a lock that a session may take to its grave, and a session may
  die with the file half written.
* *Precedence.* The file of an app may be in several directories, on the blacklist and
  among the required components at once; phase, delay and restart each come from one of
  two keys.
* *Arrays without order.* The properties of an XSMP client are searched by name, and
  deleting one moves another.
* *Events in flight.* The X server queues alarm events while settings and
  inhibitors destroy and create the alarms that sent them.

`PROJECT.json` lists each of these at the line where it bites, with the properties
that cover it.

### What makes the components correct

* SessionManager and ClientManager: the daemon never waits for what cannot happen;
  a client is waited for only while it owes an answer; an objection is respected
  unless the user overrides it; a cancelled attempt leaves nothing behind; the
  session never ends without somebody having asked; start-up and ending finish
  whatever the others do.
* App: no process is forgotten, no stranger's process is signalled.
* AppManager: of the files of an app the right one counts; what the user disabled never
  runs; an app is launched once and then only by a restart; whatever phase and delay it
  asks for, it is started in the end.
* XsmpServer: no source outlives its connection, no client loses its connection to
  another, no handshake stays open; in the authority file, no session's cookies are lost
  or shadowed, and a lock left behind holds nobody up.
* ClientXsmp: the properties are those set last, each once.
* InhibitorManager, Presence, IdleXAlarm: idleness is watched exactly as settings
  and inhibitors say; no alarm is leaked or lost; a spent alarm is always armed
  again; IDLE has a way back.

## 2. The modules

| Module | Models | Notes |
|---|---|---|
| `KsmPhases` | `ksm-i.h` phases, `power.h` actions | phases are numbers, for their order |
| `SessionManager` | SessionManager, ClientManager, and the part of AppManager, InhibitorManager and the exit window that phases depend on | the core; one action per handler |
| `SessionLifecycle` | what the daemon promises | abstract; `SessionManager` refines it |
| `AppProcess` | `app.cpp`: processes, child watches, pids | of all apps |
| `AppManager` | `app-manager.cpp` and what `app.cpp` reads of a desktop file: loading, phases, delays | extends `AppProcess` and refines it |
| `IdleXAlarm` | `idle-xalarm.cpp`, with the X server as its environment | |
| `Presence` | `presence.cpp` | extends `IdleXAlarm` |
| `InhibitorManager` | `inhibitor-manager.cpp` and its callers | extends `Presence`: the closed system of the three |
| `XsmpServer` | `xsmp-server.cpp`: connections, watches, timeouts, with the registry of `client-manager.cpp` | a connection's life below the protocol |
| `PropertyMap` | what XSMP promises of properties | abstract; `ClientXsmp` refines it |
| `ClientXsmp` | `client-xsmp.cpp`: the properties of XSMP clients | extends `XsmpServer`: clients come and go with their connections |
| `IceAuthority` | `xsmp-server.cpp`, `listen_socket` and the update of the authority file | several daemons at once |
| `SessionClaims`, `PresenceClaims` | what comments and documentation say and the code does not do | section 5 |
| `SessionManagerProofs`, `AppProcessProofs`, `AppManagerProofs`, `XsmpServerProofs`, `ClientXsmpProofs`, `IceAuthorityProofs`, `InhibitorManagerProofs` | theorems | section 6 |
| `RecursionLemmas` | induction over the places of a sequence, for the loops of the code | used by three of the proofs |
| `MC*` | instances for TLC | section 4 |

### SessionManager

The variables are named after the members of the classes, in the comment beside
each. Some abstractions:

* *Actions are handlers.* `StartNextPhase` and the `ProcessPhase...` operators are
  the functions of the same name; since they call each other they are written as
  operators on the state at the point of the call (`cs`, `ow`, `pr`, `inh`, `pw`),
  and an action gives them what its handler has changed before. They describe
  where the handler comes to rest: the phases APPLICATION and PHASE2 are passed
  within one handler. The missing `break` after `KSM_PHASE_END_SESSION_PHASE2`
  (`session-manager.cpp:336`) and the calls of the exit that follow from it are
  modelled as they are (`ProcessPhaseEndSessionPhase2`).
* *Connections and start-up ids.* A client is a connection `c \in Conn` with the
  start-up id `IdOf[c]`. Connections that share an id are refused while one of them
  is registered, as `clients_.emplace` does. Clients of an app carry the app as
  their id. An XSMP client without a previous id (`"xsmp-new"`) gets a fresh id and
  is asked for a local save (`"initial"`), which does not allow interaction.
* *What is in flight.* `owed[c]` is the sequence of requests XSMP client `c` has been
  sent and has not answered. Connections are ordered and reliable; a client answers
  in order, at any time or never. The daemon never reads `owed`: the code
  cannot know what an answer belongs to. `MaxOwed` bounds it: a client that owes so many
  answers asks for no further local save (`on_save_yourself_request_cb` has no such
  check, and the theorems hold for every `MaxOwed`).
* *XSMP clients follow the XSMP library.* SaveYourselfDone, InteractRequest and
  SaveYourselfPhase2Request are sent only by a client that has been asked
  something, InteractRequest only in a save that allows it (QueryEndSession, or a local
  save the client asked for), InteractDone only after InteractRequest: libSM enforces it.
* *D-Bus clients* answer whenever they like, without being asked and more than once:
  `ClientDBus::EndSessionResponse` is a method that anybody may call.
* *Who was told.* `ending` are the clients last told that the session is ending. No code
  reads it either; it is there for `CancelReachesAll`. The loop of `cancel_end_session`
  that takes the word back is `ShutdownCancelled`.
* *Launches that fail.* `launched` of `ProcessPhaseStartup` leaves out the apps that cannot
  be launched, as `start_apps` does. The timer of a delayed app ignores the result
  (`app-manager.cpp:78`): the app stays in `waiting_apps_` with nothing left that could
  report. `unlaunched` is the history of such apps.
* *Inhibitors* are the QUIT inhibitors only (`has_inhibitor` with that flag is all
  this component asks), named by the client or the cookie. Uninhibit removes any of
  them, as the code does not ask whose it is. The IDLE side is module
  `InhibitorManager`.
* *The power action* is carried out by `DoPowerAction`, which keeps which action was
  asked of `power.cpp`; what login1 makes of it is not modelled.
* *Left out:* the XSMP properties, which only feed the names shown to the user and have a
  module of their own; the D-Bus query methods, which change nothing; logging.

### SessionLifecycle

Stage, whether something objects, whether the user is being asked. It says that
the session exits only by way of consultation, that an objection is passed only
when the user insists, that start and end finish. A session without clients goes
from `running` to `exit` directly: the code looks at inhibitors only after at
least one client was asked. `Background` allows the window to be answered late.
The progress parts of its `LiveSpec` are written as leads-to formulas; since each
stage is left by its own actions only, they say the same as weak fairness of those
actions, and TLC can evaluate them under the mapping (`MCLifecycle`). The mapping itself,
`StageOf` and `Lifecycle`, stands at the end of `SessionManager`, for the run and for the
proof of its safety.

### AppProcess and AppManager

`AppProcess` is the life of the processes of all apps. `procs` are those GLib has not
reaped, each running, told to stop, or dead; `others` are the pids of the rest of the
system, and a pid is free for others, another app included, once it was reaped. A batch
of apps is launched in one step, as `start_apps` does. GLib reaps a child and dispatches
its watch in one step here; in the library both happen in the same iteration of the main
context, with other dispatches possible in between.

`AppManager` adds what decides when that happens. `config` is what the disk holds, read
once before the main loop: the autostart directories in the order of the search, the
blacklist, the required components and the files installed for them. A file is the
record of the keys that `App` reads, for KIRAN and for MATE, with `shown` for the
desktops it is for; `NoFile` also stands for one that GLib cannot load, which shadows
nothing. `StartApps` is `start_apps` of the next phase: SessionManager calls it once for
each phase, in order (module `SessionManager` has when). Which of the due apps get a timer is
`Postponed`: `delay * 1000` is a signed product in an `int`, whose overflow is undefined, so
both what a wrapped product and what a comparison of the delay itself would decide are
allowed. `Second` and `IntLimit` scale the clock and the width. An app that GLib
fails to launch, or that is D-Bus activatable (`start` gives up), was tried but has no
process.

`Spec` of `AppProcess` lets any app be launched at any time, once, and be restarted from
then on; that AppManager does no more than that is `ImplementsAppProcess`.

### IdleXAlarm, Presence, InhibitorManager

The list `xalarms` (`xalarms_`) and the server's `alarms` are separate: the
properties relate the two. The X server moves the IDLETIME counter up by one or to
zero and queues an event per transition; a fired alarm may or may not become
inactive (the comment in `register_xalarm_by_xsync` says it does, the extension's
text says so of comparisons only), and both are allowed. Requests take effect at
once: an Xlib request that is still buffered is overtaken only by events the server
sends meanwhile, and those are the same as events that were queued before the
request was made, which the model has. A destroyed alarm notifies once more, with
an id that is no longer in the list.

`ToInt32` is the width of the product of minutes and 60000. `GetInhibitors` is the
loop of the method of that name as a function from array index to cookie.
The statuses that programs set through the writable property are not validated
(`presence.cpp:79`), unlike those set through `SetStatus`; both are actions.

### XsmpServer

`conns` are the connections that libICE has allocated, by address; an address is free
again when its connection was freed. `watches` and `timeouts` are the GLib sources that
hold such an address as their data: the `ConnectionWatch` of the code, which is freed
with them. `clients` is `clients_` of ClientManager with the connection of each client,
which `SessionManager` names by the client alone: there, `XsmpClientGone` stands for
`CloseConnection` and for `IOError` with a client.

`on_auth_iochannel_watch_cb` is one action per outcome of `IceProcessMessages`: the peer
has authenticated itself, has set up XSMP (`on_new_client_connection_cb`), has registered,
has closed, or the read has failed; in the last case `ice_conn_status_changed` and the
removal of the client belong to the same action. The messages of the protocol in
between concern `SessionManager` only. A connection stays after CloseConnection until its
end is read, without a client, with its old id.

libICE and libSM are the environment. A peer follows libSM: it registers once, and sends
nothing after CloseConnection. It may die at any time, and may say nothing at all.

A D-Bus program `n \in BusName` may register as several clients, under one name. On
`NameOwnerChanged` the code looks at the old and the new owner only, so that the signal
may also be about a well-known name that the program gave up while it stays on the bus;
either way it deletes the first of the program's clients and keeps the others
(`client-manager.cpp:163`).

### ClientXsmp and PropertyMap

`props[i]` is the array `props_` of client `i`, in the order of the code: deleting
moves the last one into the gap, setting deletes and appends. `PropsFollow` is the
constructor and the destructor of the clients that a step of `XsmpServer` adds and
removes; addresses and ids are used again while properties come and go. A message is a
sequence of properties or names, from `Message` and `Deletion`; the loop over it is a
function of the number of entries that are done (`UpdateEach`, `DeleteEach`).
`ImplementsPropertyMap` says that the arrays, seen as maps from names to values,
behave as `PropertyMap`, and that each message has exactly the effect it should have
there: a lost update would be a stutter of the map, which the refinement alone forgives.

### IceAuthority

Every session of the user runs `listen_socket`, one after or beside the other, and may
die at any point of it (`Die`). A session that ends is not told from one that dies: the
code takes nothing back. `NetOf` is the network id that a session listens on, with the
process id in it, so that it is used again after the process is gone and not before.
An entry is its protocol, its network id and who wrote it, which stands for the cookie.

* *The lock* is the file that `IceLockAuthFile` of libICE makes. The library also
  breaks a lock that is too old; looking at its age and removing it is one step here.
  `LockGetsOld` is allowed only when the holder is dead: one that lives is done within
  milliseconds, and the age is 16 s. `IceUnlockAuthFile` removes the lock whoever
  made it, so `Unlock` does not look at it either.
* *Failing to take it.* `IceLockTaken` is an attempt that meets a lock, and another one or,
  after the last, none; `IceLockError` is a failure that libICE does not try again. The
  code does not tell them apart: the session serves without its cookies in the file.
* *Writing.* The file is written over from its start and not truncated. Entries go out
  when the buffer is full (`WriteBuffer`) and when the file is closed (`CloseFile`); a
  reader then finds the new ones, and may or may not make sense of what is left of
  the old ones behind (`Overwritten`). What a session leaves that dies between two
  writes is there for the others to read.
* `ClientsCanAuthenticate` is about what a client finds with `IceGetAuthFileEntry`: the
  first entry of its network id (`Finds`), whenever nobody is between two writes
  (`HalfWritten`). A death there can cut off the entries of others: `lost` is the history of
  the sessions that were not found at that moment (`CutOff`). The property goes on for all
  others, and for everything that happens to the file afterwards.

### Fault operators

An operator whose comment begins with `Fault:` stands just before the definition it
alters and is used by no behaviour. It is that definition with a plausible mistake
(a dropped reset, a missing answer, the wrong list). `PROJECT.json` names, for each
property, the mistake that TLC finds by that property: it shows that the property
can fail and at which code.

## 3. Fairness

`LiveSpec` of `SessionManager` states fairness only of what GLib schedules: `start()`
is called, an armed timer expires. Nothing is assumed of clients, apps, callers or the
user; a client may stay silent forever. All three are *weak* fairness: an armed timer
stays enabled until it fires or is dropped by the phase change that replaces it, and
each replacement moves the phase on. `LiveSpec` of `XsmpServer` says the same of the
protocol timeout of each connection, and nothing of peers (`ClientLiveSpec` the same with
the properties of clients).

`ManagerSpec` of `AppManager` assumes that the next phase of start-up comes and that timers
fire. The first is what `StartupEnds` shows of `SessionManager`, the second is GLib.
`IceSpec` assumes that a session goes on with `listen_socket`, which is a plain sequence of
calls with sleeps between the attempts at the lock; not that anybody starts, dies, or that a
lock gets old. All three are weak: a step of one session is not disabled by another, since
a lock that is taken is answered by `IceLockTaken`.

## 4. The runs

The configurations of `SessionManager` say `CHECK_DEADLOCK FALSE`, because the daemon may
really stop: after a log-out the main loop quits. So do `MCAppManager` (all apps of a system
without free pids are started) and `MCIceAuthority` (every session is dead). The others
check that something can always happen.

| Run | Instance | Shows |
|---|---|---|
| `MCEndSession` | two XSMP clients (one new), one D-Bus client, one D-Bus inhibitor, one attempt | `NeverStuck`, `WaitsOnlyForAnswers`, `InhibitedUntilForced` |
| `MCLifecycle` | one XSMP, one D-Bus client, two attempts, with fairness | `CleanWhenNotEnding`, `ExitHasPowerAction`, `CancelReachesAll`, `WaitsOnlyForAnswers`, refinement of `SessionLifecycle`, `QuerySettles`, `EndingSettles` |
| `MCStartup` | three apps in three phases (one delayed, one restarting), a D-Bus client, two connections of the restarting app | `TypeOK`, `WaitsOnlyForStartingApps`, `OnlyOwnAnswerCounts`, `OnlyOwnReportCounts`, `StartupEnds` |
| `MCPresence` | two cookies, one client, idle-delay 0, 1, 2 or 16, four alarm ids, two queued events | the six properties of `InhibitorManager` |
| `MCAppManager` | an app and mate-settings-daemon, six kinds of file, three pids, with fairness | `ManagerTypeOK`, `LoadedByPrecedence`, `SignalsOwnProcess`, `NoneForgotten`, `DisabledNeverRuns`, refinement of `AppProcess`, `LaunchableAppsStart` |
| `MCIceAuthority` | three sessions, two of them with one network id, three contents of the file, with fairness | `IceTypeOK`, `UpdatesExclude`, `ClientsCanAuthenticate`, `SessionServes` |
| `MCXsmpServer` | three connections, two ids, two D-Bus programs, two properties with two values, with fairness | `ClientTypeOK`, `SourcesFollowConnections`, `ClientsAreConnected`, `OnePropertyEach`, `OnlyOwnEndRemoves`, `HandshakeEnds`, refinement of `PropertyMap` |
| `Claim...` | the instances above | one refuted statement each, section 5 |

### Bounds

* Each connection registers once. A client asks for a local save while it owes less than
  `MaxOwed` answers: two in `MCLifecycle`, where a local save comes before, between and behind
  the requests of a phase; one in `MCEndSession`; none in `MCStartup`, whose questions are
  others.
* Three clients are enough for one that is answered for, one that is waited for and
  one that interferes; two kinds of XSMP client and a D-Bus client take all the
  paths. Two attempts are enough for what one leaves to the next. The theorems of
  section 6 remove both bounds for most of these properties.
* Three app phases are enough for a phase with a delayed app, one with a client and
  one that is not waited for; phases without apps are passed within a handler.
* Three pids allow two processes of an app while another app or a stranger has the
  third. Section 6 removes this bound and that of two apps.
* The six files of `MCAppManager` cover every key but `shown`, which acts as the enabling
  keys do: phase from either key or unknown, restart from either key, hidden, disabled by one key and enabled by the
  other, D-Bus activatable, a delay, and one of 3 that fits the `int` and whose milliseconds
  do not (`Second = 2`, `IntLimit = 4`). Every one of them meets every one of the system's
  and the installed files; two directories are enough for one to shadow the other.
* Three sessions: the last is given the network id of the first when that is dead, the
  second has its own and lies between them. Two attempts at the lock are the fewest
  with a retry (the code has six). A buffer of one entry lets a session die between any two of its
  entries: one of them then cuts off the entries of the session beside it, and the third
  comes to find what is left. The file of five
  entries holds two without network id and one entry twice.
* Three connections are enough for one that lingers after CloseConnection, one that has
  its id since, and one that takes a freed address; two ids for one of the same and one
  of another client. Nothing is counted, so the connections have no other bound, and
  section 6 removes this one. With two ids a program may have two clients, an id may
  pass from a program to a connection and back.
* The messages about properties set one, set two in either order, set one twice, and
  delete one, two, or one twice: all that an array of two properties can meet. Section 6
  has the single operations for any array.
* `MaxIdle = 2`: a delay of 1 shows the user idle for longer, a delay of 2 the counter
  at its bound. Four alarm ids allow two alarms
  and two dead ones in the queue; ids are never reused while in use, as in X. A
  step that would need a third queued event is disabled (`MaxEvents`); of the
  handlers, that only delays `unset` until an event is handled.
* `Minute = 1` and `IntLimit = 8` scale the clock and the width down together; the
  delay of 16 stands for one whose milliseconds do not fit (it wraps to 0).

## 5. Where the code differs from what is said of it

Each of these is a run that finds the statement refuted; `PROJECT.json` quotes it.

| Claim | Disagreement |
|---|---|
| `Phase2BeforeExit` | the second phase is told to go on and not waited for (missing `break`) |
| `Phase1Answered` | a late answer counts as the answer to EndSession |
| `InhibitorsConsulted` | a QUIT inhibitor has no effect when no client is registered |
| `BackWhenActive` | a user who returns while the idle event is queued stays IDLE |
| `ListsInhibitors` | GetInhibitors returns one inhibitor |

In the models as well, without a run of their own:

* Logout, Shutdown and Reboot during start-up skip the wait of the current phase and
  report success; the session is not ended (`EndSession`, `session-manager.cpp:230`).
* A client that is still interacting can cancel in EXIT, after the power action was
  requested (`CancelEndSession`, `session-manager.cpp:437`).
* A client that asked for a second phase and left is sent SaveYourselfPhase2 over its
  closed connection (`session-manager.cpp:746`).
* `EndSessionResponse(FALSE)` is only logged: the client stays waited for, with nothing
  left to answer, and is later listed as not responding (`client-manager.cpp:267`).
* `idle-delay` times 60000 overflows an `int32_t` (`ToInt32`, `presence.cpp:107`).
* The writable property Status takes values that `SetStatus` refuses
  (`StatusProperty`, `presence.cpp:79`).

* A delayed app that cannot be launched is waited for until its phase times out
  (`DelayedStart`, `app-manager.cpp:78`).
* Anybody may remove the inhibitor of a client by its cookie (`Uninhibit`,
  `session-manager.cpp:112`), or answer for a D-Bus client (`EndSessionResponse`).
* A client that interacts in a local save while the session is being queried adds an
  inhibitor and is crossed off (`InteractRequest`, `session-manager.cpp:711`).
* The last interaction's end does not move the query on; its timer or the next answer
  does (`InteractDone`, `session-manager.cpp:731`).
* A file that the user hides or disables does not count when the app is on the blacklist
  and a required component as well: the blacklist keeps the file from being
  read, and the installed one is taken (`LoadRequiredApps`, `app-manager.cpp:209`).
* A delay whose milliseconds do not fit an `int` may start the app at once
  (`Postponed`, `app-manager.cpp:78`).
* A file of the user that GLib cannot load does not shadow the system's
  (`NoFile`).
* Of several clients of one D-Bus program one is deleted when it leaves, and one is
  deleted also when it only gives up a well-known name (`NameOwnerChanged`,
  `client-manager.cpp:184`).
* An inhibitor whose D-Bus caller has died stays (`session-manager.cpp:102`): Uninhibit is
  never due in `SessionManager`.
* A session that finds the lock taken, or cannot take it, serves without having written its
  cookies (`IceLockTaken`, `IceLockError`, `xsmp-server.cpp:163`).
* A session that dies between two writes may cut off the entries of other sessions, which
  nobody writes again (`CutOff`, `xsmp-server.cpp:231`).

Met while reading, outside of the models: `shutdown_request_` is emitted and nobody
listens (`client-manager.cpp:374`); the D-Bus descriptions promise one and ten seconds
for the answers (`org.gnome.SessionManager.ClientPrivate.xml`) where the code waits
300 ms and 30 s; `power.cpp` calls `reboot()` of login1 twice; `init_env` of `main.cpp`
matches the value of a variable, too, against the expression for keys; `ScreenSaver::init` is
never called; `on_set_properties_cb` returns without freeing the properties when the
client is not there; the exit window's rows are not refreshed when it is presented again.

## 6. What is proved

All proofs are checked by TLAPS down to their leaves, for every set of apps, pids,
connections, programs, ids, cookies, sessions, alarms and directories, every number of
attempts and files and messages of every length, from the assumptions on the constants
only (`AppAssumption`, `ConnAssumption`, `PidAssumption`, `ConnectionAssumption`,
`PropertyAssumption`, `IceAssumption`, `AlarmAssumption`, ..., with facts of the library
about sequences and well-founded orders). Every invariant and every action property of the
passing runs is the statement of a theorem. So are the safety of `SessionLifecycle` and
the two other refinements.

**SessionManagerProofs.** `Invariance` is the inductive invariant `IInv`: the types
(`PhaseTypes` for what a phase change writes, `OtherTypes` for the rest),
`NeverStuck`, `CleanWhenNotEnding`, a power action while the session ends,
waiting for registered clients only, and one client per start-up id. The conjuncts
need each other: a timer that fires finds its own phase only because of
`NeverStuck`; leaving RUNNING establishes `NeverStuck` only because no window was
left open there; the removal of a client ends the wait only because a waiting client
is a registered one; and an answer crosses off one client only because ids are unique.

The argument follows the code. A phase change *lands* (`Landed`): whatever the
phase functions call, they come to rest in a well-typed state that is not stuck, at
or after the phase they began in (`ExitLands` up to `StartNextPhaseLands`). A handler
that answers, starts or deletes keeps `IInv` because of where it lands (`ResponseLands`,
`AppFinishedLands`, one `...Kept` lemma per action). `Kept` also collects what each
step preserves, so that the action properties follow from the same case analysis.

| Theorem | Result |
|---|---|
| `Invariance` | `Spec => []IInv` |
| `TypeCorrect` | `[]TypeOK` |
| `NeverComesToRest` | `[]NeverStuck` |
| `CancelForgets` | `[]CleanWhenNotEnding` |
| `ExitCarriesOut` | `[]ExitHasPowerAction` |
| `InhibitorsHold` | `InhibitedUntilForced` |
| `AnswersAreOwn` | `OnlyOwnAnswerCounts` |
| `ListsInvariance` | `Spec => []WInv` |
| `AnswersAreOwed` | `[]WaitsOnlyForAnswers` |
| `AppsAreStarting` | `[]WaitsOnlyForStartingApps` |
| `CancelIsTold` | `[]CancelReachesAll` |
| `ReportsAreOwn` | `OnlyOwnReportCounts` |
| `ImplementsStages` | `Spec => Lifecycle!Spec` |

`WInv` adds the two waiting lists and who was told. The list of clients is right although
answers are matched by start-up id only, because a request is appended behind what a client
owes already, and only local saves come behind it (`SendLast`, `LocalKeeps`): the request of
the phase is outstanding until the client has answered everything before it. The list of
apps needs one fact more, `ClientsStarted`: an app learns its
start-up id when it is launched, so no client has the id of an app whose phase has not
come, and the phase does not begin by waiting for an app that is there. `Pending` is what
an app waited for may still be doing, and the one case where it is nothing: its delayed
launch failed. `CancelReachesAll` holds because a client that registers uses up its connection
(`Comings`) and was not told anything before: what is left to show is that a phase that ends
tells everybody it then waits for, and that there is no way back but the cancel
(`ListsRight`).

`ReportsAreOwn` is its own case analysis (`NextReports`): outside of start-up no app is waited
for, and when the last one has reported, the apps launched next are of another phase, so
that its process count has gone down for good (`ExitedReports`).

`ImplementsStages` is the refinement of `SessionLifecycle`, step by step. `Moves` says of
each handler how far it may take the phase and what it does to inhibitors and window on
the way; every handler is shown to move so (`NextMoves`), and every such move is a step of
the life cycle or shows nothing of it (`NextImplements`).

**AppProcessProofs.** `Invariance`, `StopHitsOwnProcess` (`[]SignalsOwnProcess`) and
`RestartForgetsNone` (`[]NoneForgotten`), for any set of apps and pids. The invariant adds
that no two processes have one pid, that no pid is an app's and somebody else's at once, and
that nothing runs before the first start of its app.

**AppManagerProofs.** `ManagerImplementsAppProcess`: AppManager refines AppProcess,
whatever the files say. The one thing to show is that an app is launched for the first
time once: `OnceEach` says that the apps launched or waiting for their timer belong
to phases that have come, and that none is both. `ManagerKeepsProcesses` then carries the
two properties over.

`ManagerInvariance` has what is loaded as well. `load_autostart_apps` goes through
directories: after the first `k` of them an app has its file of the first directory
among these that counts (`Counts`, `FirstDirectoryCounts`), which gives `FirstFileCounts`
(`[]LoadedByPrecedence`) for any number of directories. The invariant adds that everything that
was ever launched may be launched (`LaunchedMayBe`): a restart does not ask again
(`App::restart`). `NothingDisabledRuns` (`[]DisabledNeverRuns`) follows from the two, since
the user's directory is the first.

**IceAuthorityProofs.** `OneUpdateAtATime` (`[]UpdatesExclude`), for any number of sessions,
network ids and retries. Unlocking does not look at whose lock it removes, and
breaking does not either: the invariant adds `OldLockIsDead`, that only the lock of a dead
session is ever old enough.

`AuthorityTyped` (`[]IceTypeOK`) and `CookiesAreFound` (`[]ClientsCanAuthenticate`) are about
the entries, in a file of any length. First the loop that drops entries: `WithoutKeepsFirst`
says that whoever was found first among those of a network id that is kept is found first
afterwards; own entries come behind all others and are found because nothing of that
network id was kept (`OwnEntriesFound`, `KeptAndOwnFound`); what is left of an older, longer
file behind the entries does not matter (`ConcatKeepsFirst`). The invariant `AInv` then says where the
cookies of a session that serves are: in the file unless somebody is between two writes
(`ServedFind`), and in whatever anybody is about to write (`WritersFind`), unless a death has cut them off (`lost`). The
second keeps the first when the writer closes the file, and the first gives the second when
a writer reads it, which it does alone (`UpdatesExclude`). Both need `OneOwner`: a session
drops the entries of its own network id, and nobody who lives has the same one.

**ClientXsmpProofs.** `DeletePropertyClearsOne` and `UpdatePropertySetsOne`: of any array in
which each name comes once, the operation changes the value of one name and of no other,
and each name comes once still. By induction over a message
(`UpdateEachSetsLast`, `DeleteEachClears`) this gives `PropertiesTyped` (`[]ClientTypeOK`), `NoPropertyTwice`
(`[]OnePropertyEach`) and `PropertiesAreAMap` (`ImplementsPropertyMap`): the value of a name
after a message is that of its last entry in the message, whatever the array and its
order. The induction is over the places after that last entry, which
`GreatestElement` finds. `PropertiesKeepXsmpServer` carries the results of
`XsmpServerProofs` over to the composition.

**XsmpServerProofs.** `Invariance`, `NoSourceIsLeft` (`[]SourcesFollowConnections`),
`ClientsKeepTheirConnections` (`[]ClientsAreConnected`) and `NoStrangerRemoves`
(`OnlyOwnEndRemoves`), for any set of addresses, D-Bus programs and ids. A client names its connection by
`ClientsAreConnected`; the invariant adds the other direction (`IdsHaveTheirClients`: a
connection that speaks XSMP under an id is that client's), which makes the lookup by id of
CloseConnection and the lookup by connection of errors find the same client, and that no
connection has an id before it speaks XSMP. The timeout may free a connection without a
word to ClientManager only because a connection in its handshake has no client.

**InhibitorManagerProofs.** `Invariance` and all six properties of `MCPresence`, for any
cookies, delays, ids of alarms and widths, however far the counter counts and however many
events are queued: `TypeCorrect`, `TimeoutEnabledUnlessInhibited`, `AlarmsFollow`, `NotDeaf`,
`IdleByItself`, `WayBack`. What holds of the server's alarms follows from the list
(`ListOK`: entries registered under ids of their own, and no other alarms). That the
daemon is not deaf once an alarm is spent is `ResetListens`: RESET is armed or its event is
on the way, also while events of alarms that were destroyed lie before it in the queue.
That an event of a destroyed alarm does nothing rests on ids that are not used again while an
event with them is queued.

**RecursionLemmas.** The induction theorems of the library take an operator as parameter,
which the provers cannot instantiate. Here a set of numbers stands for the predicate:
`LeastElement` follows from the well-foundedness of `<`, `SetInduction` from that, and
`LoopHasResults` says that a loop that keeps to a set of values has its results, which is
what gives meaning to a recursive function over `0 .. n`. The loops of the models are
such functions: `UpdateEach`, `DeleteEach`, `LoadAutostartApps`, `Without`.

### Only model-checked

Liveness, because fairness and ENABLED are outside the prover's reach: `StartupEnds`,
`QuerySettles`, `EndingSettles`, `HandshakeEnds`, `LaunchableAppsStart`, `SessionServes`, and
of `ImplementsLifecycle` the progress that `LiveSpec` adds to `Lifecycle!Spec`. What those
rest on that is safety is proved: a phase that waits has its timer (`NeverComesToRest`),
a connection in its handshake has its timeout (`NoSourceIsLeft`).

## 7. What is not modelled

* Power, login1, display manager, screen saver: stateless calls. The model keeps which
  power action is carried out, when, and how often; that login1 may refuse is ignored by
  the code, and then the daemon stays in EXIT, where it does nothing more.
* The rows, texts and looks of the exit window: what is drawn does not act on
  anything. When it is shown and closed and what its answers do is in `SessionManager`.
* Utils and lib, apart from `phase_str2enum` and the order of the autostart directories:
  conversions, error texts, environment variables. Generated cookies and start-up ids are
  fresh values or collisions in the models.
* main: options, translations, the order in which the parts are made.
* Presence's `status_text`: a string that nothing reads.

## 8. Plan

In this order; done unless marked.

1. `KsmPhases`, `SessionManager`: phases, clients, end of session; `MCEndSession`,
   `MCLifecycle`.
2. Start-up and apps in the same module; `MCStartup`.
3. `SessionLifecycle` and the refinement; `MCLifecycle`.
4. `SessionClaims`: what is said and does not hold.
5. `SessionManagerProofs`: the inductive invariant and the properties it gives.
6. `IdleXAlarm`, `Presence`, `InhibitorManager`; `MCPresence`, `PresenceClaims`.
7. `AppProcess` and its proofs.
8. `XsmpServer` and its proofs: accept, protocol timeout, watch and close of a
   connection, with the removal of its client; D-Bus programs with several clients;
   `MCXsmpServer`.
9. `AppManager` and its proofs: desktop files, phases, delays; `MCAppManager`.
10. `IceAuthority` and its proofs: the file shared by the sessions, crashes;
    `MCIceAuthority`.
11. `PropertyMap`, `ClientXsmp` and their proofs; in `MCXsmpServer`.
12. `InhibitorManagerProofs`; in `SessionManagerProofs`, the waiting lists and the step
    simulation of `SessionLifecycle`.
13. `RecursionLemmas`, and with them the properties of arrays, directories and authority
    entries in `ClientXsmpProofs`, `AppManagerProofs` and `IceAuthorityProofs`.
14. *To do:* theorems beside the runs' properties: what `SessionLifecycle` promises by
    itself (nothing is overruled unless the user was asked, the exit is final but for a
    cancel), carried over to `SessionManager` by `ImplementsStages`.
