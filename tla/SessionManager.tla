--------------------------- MODULE SessionManager ---------------------------
(***************************************************************************)
(* The session daemon: SessionManager with the client registry of          *)
(* ClientManager and the part of AppManager that start-up depends on.      *)
(*                                                                         *)
(* The daemon is one GLib main loop.  A D-Bus method, an XSMP callback, a  *)
(* timer or a dialog button runs to its end, with every signal handler it  *)
(* triggers, before the next one starts: each action below is one such     *)
(* run.  start_next_phase and process_phase call each other, so one run    *)
(* may cross several phases; the operators named after the process_phase   *)
(* functions describe where it comes to rest.                              *)
(*                                                                         *)
(* Clients are other processes.  What is in flight between them and the    *)
(* daemon is owed: the requests an XSMP client has been sent and has not   *)
(* answered, in order.  A client may answer at any time, never, or die; a  *)
(* D-Bus client may also answer without having been asked.                 *)
(***************************************************************************)
EXTENDS KsmPhases, Sequences

CONSTANTS
  App,          \* autostart apps; an app's start-up id is the app itself
  PhaseOf,      \* the phase of each app
  DelayedApp,   \* apps that AppManager starts from a timer
  RestartApp,   \* apps with the auto-restart key
  Conn,         \* client connections; each one registers at most once
  Kind,         \* "xsmp", "xsmp-new" (no previous id) or "dbus", per connection
  IdOf,         \* the start-up id each connection registers with
  Cookie,       \* cookies of the inhibitors taken over D-Bus
  MaxRequests,  \* bound: Logout, Shutdown and Reboot calls accepted
  MaxOwed       \* bound: a client that owes so many answers asks for no local save

ClientKind == {"xsmp", "xsmp-new", "dbus"}
ClientId   == {IdOf[c] : c \in Conn}

ASSUME AppAssumption ==
  /\ PhaseOf \in [App -> INITIALIZATION .. APPLICATION]
  /\ DelayedApp \subseteq App
  /\ RestartApp \subseteq App

ASSUME ConnAssumption ==
  /\ DOMAIN IdOf = Conn
  /\ Kind \in [Conn -> ClientKind]
  /\ ClientId \cap Cookie = {}
  /\ {MaxRequests, MaxOwed} \subseteq Nat

VARIABLES
  \* SessionManager
  phase,          \* current_phase_
  powerAction,    \* power_action_
  waitingApps,    \* waiting_apps_
  appTimer,       \* waiting_apps_timeout_id_ is connected
  waitingClients, \* waiting_clients_
  clientTimer,    \* what waiting_clients_timeout_id_ will call, or "none"
  phase2Requests, \* phase2_request_clients_
  exitWindow,     \* exit_query_window_ is not null
  \* ClientManager, InhibitorManager, AppManager
  clients,        \* clients_
  inhibitors,     \* QUIT inhibitors: a client's start-up id or a D-Bus cookie
  procs,          \* live processes of each app
  delayed,        \* apps whose delay timer is pending
  unlaunched,     \* history: apps whose delay timer could not launch them
  restarts,       \* apps whose idle restart is pending
  \* Clients and the system
  used,           \* connections that have registered
  owed,           \* requests each XSMP client has not answered yet, in order
  ending,         \* history: clients last told that the session is ending
  interacting,    \* clients between InteractRequest and InteractDone
  stopped,        \* clients that were sent SmsDie
  performed,      \* the calls of Power::do_power_action, in order
  quit,           \* gtk_main_quit was called
  requests        \* Logout, Shutdown and Reboot calls accepted so far

startupVars  == <<waitingApps, appTimer, procs, delayed, unlaunched>>
endVars      == <<phase, waitingClients, clientTimer, phase2Requests, ending,
                  stopped, performed, quit>>
clientVars   == <<clients, used, interacting>>
vars == <<phase, powerAction, waitingApps, appTimer, waitingClients,
          clientTimer, phase2Requests, exitWindow, clients, inhibitors, procs,
          delayed, unlaunched, restarts, used, owed, ending, interacting,
          stopped, performed, quit, requests>>

\* SaveYourself in its four uses, and SaveYourselfPhase2.
Request == {"initial", "local", "query", "end", "phase2"}

IsXsmp(c) == Kind[c] # "dbus"

TypeOK ==
  /\ phase \in Phase
  /\ powerAction \in PowerAction
  /\ waitingApps \subseteq App
  /\ appTimer \in BOOLEAN
  /\ waitingClients \subseteq Conn
  /\ clientTimer \in {"none", "query_end_session_complete", "start_next_phase"}
  /\ phase2Requests \subseteq Conn
  /\ exitWindow \in BOOLEAN
  /\ clients \subseteq Conn
  /\ inhibitors \subseteq ClientId \cup Cookie
  /\ procs \in [App -> Nat]
  /\ delayed \subseteq App
  /\ unlaunched \subseteq App
  /\ restarts \subseteq App
  /\ used \subseteq Conn
  /\ owed \in [Conn -> Seq(Request)]
  /\ ending \subseteq Conn
  /\ interacting \subseteq Conn
  /\ stopped \subseteq Conn
  /\ performed \in Seq(PowerAction)
  /\ quit \in BOOLEAN
  /\ requests \in Nat

-----------------------------------------------------------------------------
(* Before SessionManager::start; the main loop is not running yet.         *)
Init ==
  /\ phase = IDLE
  /\ powerAction = "none"
  /\ waitingApps = {}
  /\ appTimer = FALSE
  /\ waitingClients = {}
  /\ clientTimer = "none"
  /\ phase2Requests = {}
  /\ exitWindow = FALSE
  /\ clients = {}
  /\ inhibitors = {}
  /\ procs = [a \in App |-> 0]
  /\ delayed = {}
  /\ unlaunched = {}
  /\ restarts = {}
  /\ used = {}
  /\ owed = [c \in Conn |-> <<>>]
  /\ ending = {}
  /\ interacting = {}
  /\ stopped = {}
  /\ performed = <<>>
  /\ quit = FALSE
  /\ requests = 0

\* The main loop dispatches handlers.
Dispatching == phase # IDLE /\ ~quit

\* The requests outstanding in ow once request r has been sent to all of cs.  A
\* response over D-Bus is a call of its own, which no request is needed for.
Send(ow, cs, r) ==
  [c \in Conn |-> IF c \in cs /\ IsXsmp(c) THEN Append(ow[c], r) ELSE ow[c]]

-----------------------------------------------------------------------------
(* Phase changes.  cs, ow, pr, inh and pw are the registered clients, the  *)
(* outstanding requests, the app processes, the QUIT inhibitors and the    *)
(* power action at the point of the handler where the function is called.  *)

\* Fault: the timer of the clients is left running.
AwaitClientsTwice(cs, callback) ==
  /\ waitingApps' = {}
  /\ appTimer' = FALSE
  /\ waitingClients' = cs
  /\ clientTimer' = IF cs = {} THEN clientTimer ELSE callback

\* Fault: the answers to QueryEndSession are waited for without a timer.
AwaitQueryForever(cs, callback) ==
  /\ waitingApps' = {}
  /\ appTimer' = FALSE
  /\ waitingClients' = cs
  /\ clientTimer' = IF callback = "start_next_phase" THEN callback ELSE "none"

\* Fault: the answers to EndSession are waited for without a timer.
AwaitEndForever(cs, callback) ==
  /\ waitingApps' = {}
  /\ appTimer' = FALSE
  /\ waitingClients' = cs
  /\ clientTimer' = IF callback = "start_next_phase" THEN "none" ELSE callback

\* The head of process_phase, which empties both lists and drops both timers,
\* with the clients the new phase then waits for and what their timer calls.
AwaitClients(cs, callback) ==
  /\ waitingApps' = {}
  /\ appTimer' = FALSE
  /\ waitingClients' = cs
  /\ clientTimer' = callback

ClearWaiting == AwaitClients({}, "none")

\* Power::do_power_action: LOGOUT ends the main loop here; for the others login1
\* acts, or fails, outside of the process.
DoPowerAction(pw) == quit' = (quit \/ pw = "logout")

\* quit_session, called n times in a row.
QuitSession(pw, n) ==
  /\ performed' = performed \o [i \in 1 .. n |-> pw]
  /\ DoPowerAction(pw)

\* process_phase for EXIT.  n counts the calls of start_next_phase that find
\* the phase at EXIT.
ProcessPhaseExit(cs, ow, pw, n) ==
  /\ phase' = EXIT
  /\ ClearWaiting
  /\ phase2Requests' = {}
  /\ stopped' = stopped \cup {c \in cs : IsXsmp(c)}
  /\ QuitSession(pw, n)
  /\ owed' = ow
  /\ UNCHANGED <<ending, procs, delayed, unlaunched>>

\* process_phase for PHASE2.  The case has no break: process_phase_exit runs
\* after process_phase_end_session_phase2 returns.  With requests, the clients
\* have just been told and the daemon exits at once; without, the exit was
\* reached already and is run a second time.
ProcessPhaseEndSessionPhase2(cs, ow, pw) ==
  \/ /\ phase2Requests # {}
     /\ ProcessPhaseExit(cs, Send(ow, phase2Requests \cap cs, "phase2"), pw, 1)
  \/ /\ phase2Requests = {}
     /\ ProcessPhaseExit(cs, ow, pw, 2)

ProcessPhaseEndSessionPhase1(cs, ow, pw) ==
  \/ /\ cs # {}
     /\ phase' = PHASE1
     /\ AwaitClients(cs, "start_next_phase")
     /\ owed' = Send(ow, cs, "end")
     /\ ending' = ending \cup cs
     /\ UNCHANGED <<phase2Requests, stopped, performed, quit, procs, delayed,
                    unlaunched>>
  \/ /\ cs = {}
     /\ ProcessPhaseEndSessionPhase2(cs, ow, pw)

\* With no client to ask, the inhibitors are not looked at either.
ProcessPhaseQueryEndSession(cs, ow, pw) ==
  \/ /\ cs # {}
     /\ phase' = QUERY
     /\ AwaitClients(cs, "query_end_session_complete")
     /\ owed' = Send(ow, cs, "query")
     /\ ending' = ending \cup cs
     /\ UNCHANGED <<phase2Requests, stopped, performed, quit, procs, delayed,
                    unlaunched>>
  \/ /\ cs = {}
     /\ ProcessPhaseEndSessionPhase1(cs, ow, pw)

\* Fault: the old timer is dropped after the new one is armed.
StartupTimerOnce(next) == appTimer' = (next # RUNNING /\ ~appTimer)

\* The wait for the apps of phase next is limited.
StartupTimer(next) == appTimer' = (next # RUNNING)

\* process_phase_startup, from the current phase on: phases none of whose apps
\* could be launched are passed, APPLICATION is not waited for.  launched is
\* what AppManager::start_apps returns; delayed apps have no process yet.
ProcessPhaseStartup(ow, pr) ==
  \E next \in (phase + 1 .. DESKTOP) \cup {RUNNING} :
  \E launched \in SUBSET {a \in App : PhaseOf[a] =
                            IF next = RUNNING THEN APPLICATION ELSE next} :
    /\ next # RUNNING => launched # {}
    /\ phase' = next
    /\ waitingApps' = IF next = RUNNING THEN {} ELSE launched
    /\ StartupTimer(next)
    /\ waitingClients' = {}
    /\ clientTimer' = "none"
    /\ procs' = [a \in App |->
                   IF a \in launched \ DelayedApp THEN pr[a] + 1 ELSE pr[a]]
    /\ delayed' = delayed \cup (launched \cap DelayedApp)
    /\ owed' = ow
    /\ UNCHANGED <<unlaunched, phase2Requests, ending, stopped, performed, quit>>

\* The daemon never rests in APPLICATION or in PHASE2.
StartNextPhase(cs, ow, pw) ==
  \/ phase \in WaitedStartupPhase /\ ProcessPhaseStartup(ow, procs)
  \/ phase = RUNNING /\ ProcessPhaseQueryEndSession(cs, ow, pw)
  \/ phase = QUERY /\ ProcessPhaseEndSessionPhase1(cs, ow, pw)
  \/ phase = PHASE1 /\ ProcessPhaseEndSessionPhase2(cs, ow, pw)
  \/ /\ phase = EXIT
     /\ QuitSession(pw, 1)
     /\ owed' = ow
     /\ UNCHANGED <<phase, waitingClients, clientTimer, phase2Requests, ending,
                    stopped>>
     /\ UNCHANGED startupVars

\* Fault: an exit window that is open counts as the user's consent.
InhibitedWithoutWindow(inh) == inh # {} /\ ~exitWindow

\* InhibitorManager::has_inhibitor(QUIT); inh holds QUIT inhibitors only.
Inhibited(inh) == inh # {}

\* The exit window is created, or presented when there is one.
QueryEndSessionComplete(cs, ow, inh) ==
  /\ phase = QUERY
  /\ \/ /\ ~Inhibited(inh)
        /\ ProcessPhaseEndSessionPhase1(cs, ow, powerAction)
        /\ UNCHANGED exitWindow
     \/ /\ Inhibited(inh)
        /\ waitingClients' = {}
        /\ clientTimer' = "none"
        /\ exitWindow' = TRUE
        /\ owed' = ow
        /\ UNCHANGED <<phase, phase2Requests, ending, stopped, performed, quit>>
        /\ UNCHANGED startupVars

\* Fault: only the inhibitors of clients that are still there are removed.
WithoutRegisteredIds(inh) == inh \ {IdOf[c] : c \in clients}

\* InhibitorManager::delete_inhibitors_with_startup_id.
WithoutStartupIds(inh) == inh \ ClientId

\* Fault: only the clients that have not answered yet are told.
SilentShutdownCancelled == ending' = ending \ waitingClients

\* The loop of cancel_end_session: every registered client is sent CancelEndSession
\* or ShutdownCancelled, which it does not answer.
ShutdownCancelled == ending' = ending \ clients

\* cancel_end_session from a phase that ends the session; extra is removed from
\* the inhibitors as well.
CancelEndSession(extra) ==
  /\ phase >= QUERY
  /\ inhibitors' = WithoutStartupIds(inhibitors) \ extra
  /\ ShutdownCancelled
  /\ exitWindow' = FALSE
  /\ powerAction' = "none"
  /\ phase' = RUNNING
  /\ phase2Requests' = {}
  /\ ClearWaiting
  /\ UNCHANGED <<owed, stopped, performed, quit, procs, delayed, unlaunched>>

\* Fault: remove_if without erase.
AppsLeftAll(a) == waitingApps

\* Fault: whoever reports ends the wait.
AppsLeftNone(a) == {}

\* What is left of waiting_apps_ once a has reported, matched by app id.
AppsLeft(a) == waitingApps \ {a}

\* on_app_startup_finished.
OnAppStartupFinished(a, ow, pr) ==
  LET rest == AppsLeft(a) IN
  \/ /\ rest = {} /\ phase < APPLICATION
     /\ ProcessPhaseStartup(ow, pr)
  \/ /\ rest # {} \/ phase >= APPLICATION
     /\ waitingApps' = rest
     /\ procs' = pr
     /\ owed' = ow
     /\ UNCHANGED <<appTimer, delayed, unlaunched>>
     /\ UNCHANGED endVars

\* What is left of waiting_clients_ once c has answered, matched by start-up id.
ClientsLeft(c) == {w \in waitingClients : IdOf[w] # IdOf[c]}

\* on_end_session_response_cb: an answer of c, to whatever c was asked.
OnEndSessionResponse(c, cs, ow, inh) ==
  LET rest == ClientsLeft(c) IN
  \/ /\ phase = QUERY /\ rest = {}
     /\ QueryEndSessionComplete(cs, ow, inh)
  \/ /\ phase = PHASE1 /\ rest = {}
     /\ ProcessPhaseEndSessionPhase2(cs, ow, powerAction)
     /\ UNCHANGED exitWindow
  \/ /\ phase \in {QUERY, PHASE1} => rest # {}
     /\ waitingClients' = IF phase < QUERY THEN waitingClients ELSE rest
     /\ owed' = ow
     /\ UNCHANGED <<phase, clientTimer, phase2Requests, ending, stopped,
                    performed, quit, exitWindow>>
     /\ UNCHANGED startupVars

-----------------------------------------------------------------------------
(* Start-up and apps.                                                      *)

\* SessionManager::start, before gtk_main.
Start ==
  /\ phase = IDLE
  /\ ProcessPhaseStartup(owed, procs)
  /\ UNCHANGED <<powerAction, exitWindow, inhibitors, restarts, requests>>
  /\ UNCHANGED clientVars

\* on_phase_startup_timeout, KSM_PHASE_STARTUP_TIMEOUT after the phase began.
PhaseStartupTimeout ==
  /\ Dispatching
  /\ appTimer
  /\ StartNextPhase(clients, owed, powerAction)
  /\ UNCHANGED <<powerAction, exitWindow, inhibitors, restarts, requests>>
  /\ UNCHANGED clientVars

\* The delay timer of start_apps: the app is started now, whatever the phase.  If
\* it cannot be, nobody is told, and nobody waits any the less for it.
DelayedStart(a) ==
  /\ Dispatching
  /\ a \in delayed
  /\ delayed' = delayed \ {a}
  /\ \/ /\ procs' = [procs EXCEPT ![a] = @ + 1]
        /\ UNCHANGED unlaunched
     \/ /\ unlaunched' = unlaunched \cup {a}
        /\ UNCHANGED procs
  /\ UNCHANGED <<waitingApps, appTimer, powerAction, exitWindow, inhibitors,
                 restarts, requests, owed>>
  /\ UNCHANGED clientVars /\ UNCHANGED endVars

\* App::on_app_exited_cb and the two on_app_exited_cb it is forwarded to.
AppExited(a) ==
  /\ Dispatching
  /\ procs[a] > 0
  /\ OnAppStartupFinished(a, owed, [procs EXCEPT ![a] = @ - 1])
  /\ UNCHANGED <<powerAction, exitWindow, inhibitors, restarts, requests>>
  /\ UNCHANGED clientVars

\* App::restart, from the idle source of on_client_deleted_cb.  The process told
\* to stop ends later, as one more AppExited; the launch may fail.
AppRestart(a) ==
  /\ Dispatching
  /\ a \in restarts
  /\ restarts' = restarts \ {a}
  /\ procs' \in {procs, [procs EXCEPT ![a] = @ + 1]}
  /\ UNCHANGED <<waitingApps, appTimer, delayed, unlaunched, powerAction,
                 exitWindow, inhibitors, requests, owed>>
  /\ UNCHANGED clientVars /\ UNCHANGED endVars

-----------------------------------------------------------------------------
(* Clients.                                                                *)

\* Fault: a second client takes the place of the first.
IdIsAlwaysFree(c) == TRUE

\* Whether clients_.emplace inserts.
IdIsFree(c) == \A d \in clients : IdOf[d] # IdOf[c]

\* ClientManager::add_client and on_client_added_cb; ow as above.  An app learns
\* its start-up id when it is launched, so no earlier than in its phase.
AddClient(c, ow) ==
  /\ Dispatching
  /\ c \notin used
  /\ IdOf[c] \in App => PhaseOf[IdOf[c]] <= phase
  /\ IdIsFree(c)
  /\ clients' = clients \cup {c}
  /\ used' = used \cup {c}
  /\ \/ /\ IdOf[c] \in App
        /\ OnAppStartupFinished(IdOf[c], ow, procs)
     \/ /\ IdOf[c] \notin App
        /\ owed' = ow
        /\ UNCHANGED endVars /\ UNCHANGED startupVars
  /\ UNCHANGED <<interacting, powerAction, exitWindow, inhibitors, restarts,
                 requests>>

\* The D-Bus method, refused once the session is ending.
RegisterClient(c) ==
  /\ Kind[c] = "dbus"
  /\ phase <= RUNNING
  /\ AddClient(c, owed)

\* on_register_client_cb, which has no such check.  A client without a previous
\* id is asked for a local save, which it will answer like any other.
RegisterXsmpClient(c) ==
  \/ /\ Kind[c] = "xsmp"
     /\ AddClient(c, owed)
  \/ /\ Kind[c] = "xsmp-new"
     /\ AddClient(c, Send(owed, {c}, "initial"))

\* Fault: nobody answers for a client that has left.
DeleteClientUnanswered(c) ==
  /\ Dispatching
  /\ c \in clients
  /\ clients' = clients \ {c}
  /\ interacting' = interacting \ {c}
  /\ owed' = [owed EXCEPT ![c] = <<>>]
  /\ UNCHANGED <<restarts, used, powerAction, exitWindow, inhibitors, requests>>
  /\ UNCHANGED endVars /\ UNCHANGED startupVars

\* ClientManager::delete_client and on_client_deleted_cb.
DeleteClient(c) ==
  /\ Dispatching
  /\ c \in clients
  /\ clients' = clients \ {c}
  /\ interacting' = interacting \ {c}
  /\ OnEndSessionResponse(c, clients \ {c}, [owed EXCEPT ![c] = <<>>], inhibitors)
  /\ restarts' = IF phase = RUNNING /\ IdOf[c] \in RestartApp
                   THEN restarts \cup {IdOf[c]} ELSE restarts
  /\ UNCHANGED <<used, powerAction, inhibitors, requests>>

\* on_close_connection_cb, or IceProcessMessagesIOError.
XsmpClientGone(c) == IsXsmp(c) /\ DeleteClient(c)

\* NameOwnerChanged for the bus name of c.
DBusClientGone(c) == ~IsXsmp(c) /\ DeleteClient(c)

\* An XSMP client answers the oldest request it has; libSM lets no others through.
Answers(c) ==
  /\ Dispatching
  /\ c \in clients
  /\ IsXsmp(c)
  /\ owed[c] # <<>>

\* on_save_yourself_done_cb; the success flag is only logged.
SaveYourselfDone(c) ==
  /\ Answers(c)
  /\ c \notin interacting
  /\ OnEndSessionResponse(c, clients, [owed EXCEPT ![c] = Tail(@)], inhibitors)
  /\ UNCHANGED <<powerAction, inhibitors, restarts, requests>>
  /\ UNCHANGED clientVars

\* ClientDBus::EndSessionResponse, asked for or not, as often as the client likes:
\* is_ok = FALSE is only logged.
EndSessionResponse(c, isOk) ==
  /\ Dispatching
  /\ c \in clients
  /\ ~IsXsmp(c)
  /\ \/ /\ isOk
        /\ OnEndSessionResponse(c, clients, owed, inhibitors)
     \/ /\ ~isOk
        /\ UNCHANGED <<owed, exitWindow>>
        /\ UNCHANGED endVars /\ UNCHANGED startupVars
  /\ UNCHANGED <<powerAction, inhibitors, restarts, requests>>
  /\ UNCHANGED clientVars

\* on_interact_request_cb: a client wants to talk to the user, in a save whose
\* interact style is SmInteractStyleAny.  SmsInteract always follows.
InteractRequest(c) ==
  /\ Answers(c)
  /\ Head(owed[c]) \in {"query", "local"}
  /\ c \notin interacting
  /\ interacting' = interacting \cup {c}
  /\ \/ /\ phase = QUERY
        /\ inhibitors' = inhibitors \cup {IdOf[c]}
        /\ OnEndSessionResponse(c, clients, owed, inhibitors')
     \/ /\ phase # QUERY
        /\ UNCHANGED <<inhibitors, exitWindow, owed>>
        /\ UNCHANGED endVars /\ UNCHANGED startupVars
  /\ UNCHANGED <<clients, used, powerAction, restarts, requests>>

\* on_interact_done_cb.
InteractDone(c, cancelShutdown) ==
  /\ Dispatching
  /\ c \in clients \cap interacting
  /\ interacting' = interacting \ {c}
  /\ \/ /\ cancelShutdown /\ phase >= QUERY
        /\ CancelEndSession({IdOf[c]})
     \/ /\ ~cancelShutdown \/ phase < QUERY
        /\ inhibitors' = inhibitors \ {IdOf[c]}
        /\ UNCHANGED <<exitWindow, powerAction, owed>>
        /\ UNCHANGED endVars /\ UNCHANGED startupVars
  /\ UNCHANGED <<clients, used, restarts, requests>>

\* on_save_yourself_phase2_request_cb and on_end_session_phase2_request_cb: a
\* client that is saving itself wants a second round.
SaveYourselfPhase2Request(c) ==
  /\ Answers(c)
  /\ phase2Requests' = phase2Requests \cup {c}
  /\ UNCHANGED <<phase, powerAction, waitingClients, clientTimer, exitWindow,
                 inhibitors, restarts, owed, ending, stopped,
                 performed, quit, requests>>
  /\ UNCHANGED startupVars /\ UNCHANGED clientVars

\* on_save_yourself_request_cb, neither shutdown nor global: a local save of the
\* client that asks, whatever it has not answered yet.
SaveYourselfRequest(c) ==
  /\ Dispatching
  /\ c \in clients
  /\ IsXsmp(c)
  /\ Len(owed[c]) < MaxOwed
  /\ owed' = Send(owed, {c}, "local")
  /\ UNCHANGED <<powerAction, exitWindow, inhibitors, restarts, requests>>
  /\ UNCHANGED endVars /\ UNCHANGED startupVars /\ UNCHANGED clientVars

-----------------------------------------------------------------------------
(* Ending the session.                                                     *)

\* Fault: the power action is stored after the phase has advanced.
EndSessionTooEarly(action) ==
  /\ Dispatching
  /\ requests < MaxRequests
  /\ phase <= RUNNING
  /\ powerAction' = action
  /\ requests' = requests + 1
  /\ StartNextPhase(clients, owed, powerAction)
  /\ UNCHANGED <<exitWindow, inhibitors, restarts>>
  /\ UNCHANGED clientVars

\* The D-Bus methods that end the session, once the power action is supported;
\* a refused call changes nothing.
EndSession(action) ==
  /\ Dispatching
  /\ requests < MaxRequests
  /\ phase <= RUNNING
  /\ powerAction' = action
  /\ requests' = requests + 1
  /\ StartNextPhase(clients, owed, action)
  /\ UNCHANGED <<exitWindow, inhibitors, restarts>>
  /\ UNCHANGED clientVars

Logout   == EndSession("logout")
Shutdown == EndSession("shutdown")
Reboot   == EndSession("reboot")

\* Fault: the inhibitor is named after the connection.
SilentConnections == waitingClients

\* The owners of the inhibitors added for clients that have not answered.
SilentClients == {IdOf[c] : c \in waitingClients}

\* on_waiting_session_timeout: 300 ms after QueryEndSession, 30 s after
\* EndSession.  Who has not answered inhibits, then the bound callback runs.
WaitingSessionTimeout ==
  /\ Dispatching
  /\ clientTimer # "none"
  /\ inhibitors' = inhibitors \cup SilentClients
  /\ \/ /\ clientTimer = "query_end_session_complete"
        /\ QueryEndSessionComplete(clients, owed, inhibitors')
     \/ /\ clientTimer = "start_next_phase"
        /\ StartNextPhase(clients, owed, powerAction)
        /\ UNCHANGED exitWindow
  /\ UNCHANGED <<powerAction, restarts, requests>>
  /\ UNCHANGED clientVars

\* on_exit_window_response, for the two buttons of the window.
ExitWindowOk ==
  /\ Dispatching
  /\ exitWindow
  /\ exitWindow' = FALSE
  /\ StartNextPhase(clients, owed, powerAction)
  /\ UNCHANGED <<powerAction, inhibitors, restarts, requests>>
  /\ UNCHANGED clientVars

ExitWindowCancel ==
  /\ Dispatching
  /\ exitWindow
  /\ CancelEndSession({})
  /\ UNCHANGED <<restarts, requests>>
  /\ UNCHANGED clientVars

\* Inhibit and Uninhibit over D-Bus, with the QUIT flag.  Any caller may remove any
\* inhibitor whose cookie it knows, also one that was added for a client.
Inhibit(k) ==
  /\ Dispatching
  /\ inhibitors' = inhibitors \cup {k}
  /\ UNCHANGED <<powerAction, exitWindow, restarts, owed, requests>>
  /\ UNCHANGED endVars /\ UNCHANGED startupVars /\ UNCHANGED clientVars

Uninhibit(k) ==
  /\ Dispatching
  /\ k \in inhibitors
  /\ inhibitors' = inhibitors \ {k}
  /\ UNCHANGED <<powerAction, exitWindow, restarts, owed, requests>>
  /\ UNCHANGED endVars /\ UNCHANGED startupVars /\ UNCHANGED clientVars

-----------------------------------------------------------------------------
AppNext(a) == DelayedStart(a) \/ AppExited(a) \/ AppRestart(a)

ClientNext(c) ==
  \/ RegisterClient(c) \/ RegisterXsmpClient(c)
  \/ XsmpClientGone(c) \/ DBusClientGone(c)
  \/ SaveYourselfDone(c)
  \/ \E isOk \in BOOLEAN : EndSessionResponse(c, isOk)
  \/ InteractRequest(c)
  \/ \E cancelShutdown \in BOOLEAN : InteractDone(c, cancelShutdown)
  \/ SaveYourselfPhase2Request(c) \/ SaveYourselfRequest(c)

SessionNext ==
  \/ Start \/ PhaseStartupTimeout
  \/ Logout \/ Shutdown \/ Reboot
  \/ WaitingSessionTimeout
  \/ ExitWindowOk \/ ExitWindowCancel

Next ==
  \/ SessionNext
  \/ \E a \in App : AppNext(a)
  \/ \E c \in Conn : ClientNext(c)
  \/ \E k \in Cookie : Inhibit(k)
  \/ \E k \in Cookie \cup ClientId : Uninhibit(k)

Spec == Init /\ [][Next]_vars

\* GLib runs a source that is ready: start() is called, and an armed timer
\* expires.  Nothing is assumed of clients, apps, callers or the user.
TimerFairness ==
  /\ WF_vars(Start)
  /\ WF_vars(PhaseStartupTimeout)
  /\ WF_vars(WaitingSessionTimeout)

LiveSpec == Spec /\ TimerFairness
-----------------------------------------------------------------------------
(* Safety.                                                                 *)

\* Whenever the main loop is idle, something it waits for will move the session
\* on: a started app and the start-up timer; a client and the timer bound to the
\* callback of that very phase; or the exit window.  RUNNING and EXIT wait for
\* nothing, and no handler leaves the daemon inside APPLICATION or PHASE2
\* (process_phase, start_next_phase and every handler that clears a list).
NeverStuck ==
  LET none == /\ waitingApps = {} /\ ~appTimer
              /\ waitingClients = {} /\ clientTimer = "none"
  IN
  \/ phase = IDLE /\ none
  \/ /\ phase \in WaitedStartupPhase
     /\ waitingApps # {} /\ appTimer
     /\ waitingClients = {} /\ clientTimer = "none"
  \/ phase = RUNNING /\ none
  \/ /\ phase = QUERY
     /\ waitingApps = {} /\ ~appTimer
     /\ \/ /\ waitingClients # {} /\ ~exitWindow
           /\ clientTimer = "query_end_session_complete"
        \/ waitingClients = {} /\ exitWindow /\ clientTimer = "none"
  \/ /\ phase = PHASE1
     /\ waitingApps = {} /\ ~appTimer
     /\ waitingClients # {} /\ clientTimer = "start_next_phase"
  \/ phase = EXIT /\ none

\* Among the requests s of a client is r, and after it at most local saves, which the
\* client asked for itself.
Outstanding(s, r) ==
  \E i \in 1 .. Len(s) :
    /\ s[i] = r
    /\ \A j \in i + 1 .. Len(s) : s[j] = "local"

\* Nobody is waited for who has left (delete_client answers for the client,
\* matching by start-up id), and an XSMP client that is waited for still has to
\* answer the request of this very phase, whatever it owed before or asks for since.
WaitsOnlyForAnswers ==
  /\ waitingClients \subseteq clients
  /\ \A c \in waitingClients :
       IsXsmp(c) => Outstanding(owed[c], IF phase = QUERY THEN "query" ELSE "end")

\* During start-up only apps of the current phase are waited for, none of which has
\* a client yet; their process lives, or their timer is to start it, or that timer
\* could not, the one case in which nothing is left that could report
\* (start_apps, on_app_startup_finished, App::on_app_exited_cb).
WaitsOnlyForStartingApps ==
  \A a \in waitingApps :
    /\ PhaseOf[a] = phase
    /\ \A c \in clients : IdOf[c] # a
    /\ procs[a] > 0 \/ a \in delayed \/ a \in unlaunched

\* A session that is not ending shows no exit window and is not inhibited by a
\* client of an attempt that was cancelled, whatever happened in that attempt
\* (cancel_end_session, on_exit_window_response, on_interact_request_cb).
CleanWhenNotEnding ==
  phase <= RUNNING => ~exitWindow /\ inhibitors \cap ClientId = {}

\* Whoever was told that the session is ending, and is still there, is told when it
\* is not: no client of a session that runs believes that it ends, whether it had
\* answered, was interacting or registered in the middle of the attempt; and who is
\* waited for has been told (cancel_end_session, query_end_session, end_session).
CancelReachesAll ==
  /\ phase <= RUNNING => clients \cap ending = {}
  /\ waitingClients \subseteq ending

\* The daemon never goes through its exit with no power action to do: a left
\* over window, timer or answer cannot restart the exit of a cancelled session.
ExitHasPowerAction ==
  /\ phase >= QUERY => powerAction \in EndAction
  /\ \A i \in 1 .. Len(performed) : performed[i] \in EndAction

(* Action properties.                                                      *)

\* The query phase is left towards the end of the session only with no QUIT
\* inhibitor left or by the user forcing it in the exit window
\* (query_end_session_complete, on_waiting_session_timeout).
InhibitedUntilForced ==
  [][phase = QUERY /\ phase' > QUERY
       => inhibitors' = {} \/ (exitWindow /\ ~exitWindow')]_vars

\* As long as a phase goes on waiting, a client is crossed off only by a step of its
\* own: it left, answered, or started to interact.  The list is matched by start-up
\* id, which several connections of one app share (on_end_session_response_cb,
\* add_client, delete_client).
OnlyOwnAnswerCounts ==
  [][\A c \in waitingClients \ waitingClients' :
       phase' # phase \/ exitWindow' \/ ClientNext(c)]_vars

\* An app that start-up waits for is given up only by what happened to that app, or
\* with its whole phase: it exited, a client of it registered, the timer of the phase
\* expired, or somebody ended the session.  Apps of other phases, which exit and
\* register at any time, neither cross it off nor move the phase on
\* (on_app_startup_finished, on_phase_startup_timeout, Logout).
OnlyOwnReportCounts ==
  [][\A a \in waitingApps \ waitingApps' :
       \/ procs'[a] < procs[a]
       \/ \E c \in clients' \ clients : IdOf[c] = a
       \/ PhaseStartupTimeout \/ requests' > requests]_vars

(* Liveness.                                                               *)

\* Start-up ends, whichever apps fail to launch, hang, exit or never register
\* (process_phase_startup, on_phase_startup_timeout).
StartupEnds == (phase < RUNNING) ~> (phase >= RUNNING)

\* The query phase ends or asks the user: no silent client can hold it
\* (process_phase_query_end_session, on_waiting_session_timeout).
QuerySettles == (phase = QUERY) ~> (phase # QUERY \/ exitWindow)

\* Once the clients are told to end, the session exits or is cancelled
\* (process_phase_end_session_phase1).
EndingSettles == (phase = PHASE1) ~> (phase \in {RUNNING, EXIT})

-----------------------------------------------------------------------------
(* What the daemon promises, and how its state shows it.                   *)

StageOf(p) ==
  CASE p < RUNNING -> "starting"
    [] p = RUNNING -> "running"
    [] p = QUERY   -> "querying"
    [] p = PHASE1  -> "ending"
    [] p = EXIT    -> "exit"

Lifecycle == INSTANCE SessionLifecycle WITH
  stage     <- StageOf(phase),
  inhibited <- inhibitors # {},
  asking    <- exitWindow
=============================================================================
