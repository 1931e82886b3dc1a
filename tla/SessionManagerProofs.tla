------------------------ MODULE SessionManagerProofs ------------------------
(***************************************************************************)
(* SessionManager keeps its types, never comes to rest where nothing would *)
(* move it on, forgets a cancelled attempt, and exits only to carry out a  *)
(* power action - for any apps, clients and number of attempts.            *)
(***************************************************************************)
EXTENDS SessionManager, TLAPS, SequenceTheorems

(* The types of the variables that a phase change writes, and of the rest. *)
PhaseTypes ==
  /\ phase \in Phase
  /\ waitingApps \subseteq App
  /\ appTimer \in BOOLEAN
  /\ waitingClients \subseteq Conn
  /\ clientTimer \in {"none", "query_end_session_complete", "start_next_phase"}
  /\ phase2Requests \subseteq Conn
  /\ procs \in [App -> Nat]
  /\ delayed \subseteq App
  /\ unlaunched \subseteq App
  /\ owed \in [Conn -> Seq(Request)]
  /\ ending \subseteq Conn
  /\ stopped \subseteq Conn
  /\ performed \in Seq(EndAction)
  /\ quit \in BOOLEAN

OtherTypes ==
  /\ powerAction \in PowerAction
  /\ exitWindow \in BOOLEAN
  /\ clients \subseteq Conn
  /\ inhibitors \subseteq ClientId \cup Cookie
  /\ restarts \subseteq App
  /\ used \subseteq Conn
  /\ interacting \subseteq Conn
  /\ requests \in Nat

\* Distinct registered clients have distinct start-up ids (add_client).
OneClientPerId ==
  \A c, d \in clients : IdOf[c] = IdOf[d] => c = d

\* The inductive invariant.  A phase change needs to know that the exit window is
\* closed in RUNNING and that a session that ends has a power action, and a
\* cancelled attempt that it left no window behind; an answer concerns one client
\* because ids are unique and only registered clients are waited for.
IInv ==
  /\ PhaseTypes
  /\ OtherTypes
  /\ NeverStuck
  /\ CleanWhenNotEnding
  /\ phase >= QUERY => powerAction \in EndAction
  /\ waitingClients \subseteq clients
  /\ OneClientPerId

\* What a phase change establishes, with cs the clients registered after it.
Landed(cs) ==
  /\ PhaseTypes'
  /\ NeverStuck'
  /\ phase' >= phase
  /\ waitingClients' \subseteq cs

-----------------------------------------------------------------------------
(* Sequences: the requests a client owes and the power actions performed.  *)

LEMMA SendType ==
  ASSUME NEW ow \in [Conn -> Seq(Request)], NEW cs, NEW r \in Request
  PROVE  Send(ow, cs, r) \in [Conn -> Seq(Request)]
<1>1. SUFFICES ASSUME NEW c \in Conn
               PROVE  (IF c \in cs /\ IsXsmp(c) THEN Append(ow[c], r) ELSE ow[c])
                        \in Seq(Request)
  BY DEF Send
<1>2. ow[c] \in Seq(Request)
  OBVIOUS
<1>3. Append(ow[c], r) \in Seq(Request)
  BY <1>2, AppendProperties
<1> QED
  BY <1>2, <1>3

LEMMA AnswerType ==
  ASSUME owed \in [Conn -> Seq(Request)], NEW c \in Conn, owed[c] # <<>>
  PROVE  [owed EXCEPT ![c] = Tail(@)] \in [Conn -> Seq(Request)]
<1>1. Tail(owed[c]) \in Seq(Request)
  BY HeadTailProperties
<1> QED
  BY <1>1

LEMMA PerformedType ==
  ASSUME performed \in Seq(EndAction), NEW pw \in EndAction, NEW n \in Nat,
         QuitSession(pw, n)
  PROVE  performed' \in Seq(EndAction) /\ quit' \in BOOLEAN
<1>1. [i \in 1 .. n |-> pw] \in Seq(EndAction)
  BY IsASeq
<1>2. performed' \in Seq(EndAction)
  BY <1>1, ConcatProperties DEF QuitSession, DoPowerAction
<1> QED
  BY <1>2 DEF QuitSession, DoPowerAction

-----------------------------------------------------------------------------
(* Phase changes.                                                          *)

LEMMA ExitLands ==
  ASSUME PhaseTypes, NEW cs \in SUBSET Conn,
         NEW ow \in [Conn -> Seq(Request)], NEW pw \in EndAction, NEW n \in Nat,
         ProcessPhaseExit(cs, ow, pw, n)
  PROVE  Landed(cs)
<1>1. performed' \in Seq(EndAction) /\ quit' \in BOOLEAN
  BY PerformedType DEF ProcessPhaseExit, PhaseTypes
<1>2. phase' \in Phase /\ AwaitClients({}, "none")
  BY DEF ProcessPhaseExit, ClearWaiting, Phase, IDLE, EXIT
<1>3. stopped' \subseteq Conn /\ phase2Requests' \subseteq Conn
      /\ owed' \in [Conn -> Seq(Request)]
      /\ UNCHANGED <<procs, delayed, unlaunched, ending>>
  BY DEF ProcessPhaseExit, PhaseTypes
<1>4. PhaseTypes'
  BY <1>1, <1>2, <1>3 DEF PhaseTypes, AwaitClients
<1>5. NeverStuck'
  BY DEF ProcessPhaseExit, ClearWaiting, AwaitClients, NeverStuck
<1>6. phase' >= phase /\ waitingClients' \subseteq cs
  BY DEF ProcessPhaseExit, ClearWaiting, AwaitClients, PhaseTypes, Phase, IDLE, EXIT
<1> QED
  BY <1>4, <1>5, <1>6 DEF Landed

LEMMA Phase2Lands ==
  ASSUME PhaseTypes, NEW cs \in SUBSET Conn,
         NEW ow \in [Conn -> Seq(Request)], NEW pw \in EndAction,
         ProcessPhaseEndSessionPhase2(cs, ow, pw)
  PROVE  Landed(cs) /\ phase' = EXIT
<1>1. Send(ow, phase2Requests \cap cs, "phase2") \in [Conn -> Seq(Request)]
  BY SendType DEF Request
<1> QED
  BY <1>1, ExitLands DEF ProcessPhaseEndSessionPhase2, ProcessPhaseExit

LEMMA Phase1Lands ==
  ASSUME PhaseTypes, NEW cs \in SUBSET Conn, phase <= QUERY,
         NEW ow \in [Conn -> Seq(Request)], NEW pw \in EndAction,
         ProcessPhaseEndSessionPhase1(cs, ow, pw)
  PROVE  Landed(cs) /\ phase' > QUERY
<1>1. CASE cs = {}
  <2>1. Landed(cs) /\ phase' = EXIT
    BY <1>1, Phase2Lands DEF ProcessPhaseEndSessionPhase1
  <2> QED
    BY <2>1 DEF EXIT, QUERY
<1>2. CASE cs # {}
  <2>1. Send(ow, cs, "end") \in [Conn -> Seq(Request)]
    BY SendType DEF Request
  <2>2. /\ phase' = PHASE1
        /\ AwaitClients(cs, "start_next_phase")
        /\ owed' = Send(ow, cs, "end")
        /\ ending' = ending \cup cs
        /\ UNCHANGED <<phase2Requests, stopped, performed, quit, procs, delayed,
                       unlaunched>>
    BY <1>2 DEF ProcessPhaseEndSessionPhase1
  <2>a. phase' \in Phase
    BY <2>2 DEF Phase, IDLE, EXIT, PHASE1
  <2>3. PhaseTypes'
    BY <2>1, <2>2, <2>a DEF AwaitClients, PhaseTypes
  <2>4. NeverStuck'
    BY <1>2, <2>2 DEF AwaitClients, NeverStuck
  <2>5. phase' >= phase /\ waitingClients' \subseteq cs
    BY <2>2 DEF AwaitClients, PhaseTypes, Phase, QUERY, PHASE1, IDLE, EXIT
  <2> QED
    BY <2>2, <2>3, <2>4, <2>5 DEF Landed, QUERY, PHASE1
<1> QED
  BY <1>1, <1>2

LEMMA QueryLands ==
  ASSUME PhaseTypes, NEW cs \in SUBSET Conn, phase = RUNNING,
         NEW ow \in [Conn -> Seq(Request)], NEW pw \in EndAction,
         ~exitWindow',
         ProcessPhaseQueryEndSession(cs, ow, pw)
  PROVE  Landed(cs)
<1>1. CASE cs = {}
  BY <1>1, Phase1Lands DEF ProcessPhaseQueryEndSession, RUNNING, QUERY
<1>2. CASE cs # {}
  <2>1. Send(ow, cs, "query") \in [Conn -> Seq(Request)]
    BY SendType DEF Request
  <2>2. /\ phase' = QUERY
        /\ AwaitClients(cs, "query_end_session_complete")
        /\ owed' = Send(ow, cs, "query")
        /\ ending' = ending \cup cs
        /\ UNCHANGED <<phase2Requests, stopped, performed, quit, procs, delayed,
                       unlaunched>>
    BY <1>2 DEF ProcessPhaseQueryEndSession
  <2>a. phase' \in Phase
    BY <2>2 DEF Phase, IDLE, EXIT, QUERY
  <2>3. PhaseTypes'
    BY <2>1, <2>2, <2>a DEF AwaitClients, PhaseTypes
  <2>4. NeverStuck'
    BY <1>2, <2>2 DEF AwaitClients, NeverStuck
  <2>5. phase' >= phase /\ waitingClients' \subseteq cs
    BY <2>2 DEF AwaitClients, QUERY, RUNNING
  <2> QED
    BY <2>3, <2>4, <2>5 DEF Landed
<1> QED
  BY <1>1, <1>2

\* One choice of ProcessPhaseStartup.
StartsPhase(next, launched, ow, pr) ==
  /\ next # RUNNING => launched # {}
  /\ phase' = next
  /\ waitingApps' = IF next = RUNNING THEN {} ELSE launched
  /\ appTimer' = (next # RUNNING)
  /\ waitingClients' = {}
  /\ clientTimer' = "none"
  /\ procs' = [a \in App |->
                 IF a \in launched \ DelayedApp THEN pr[a] + 1 ELSE pr[a]]
  /\ delayed' = delayed \cup (launched \cap DelayedApp)
  /\ owed' = ow
  /\ UNCHANGED <<unlaunched, phase2Requests, ending, stopped, performed, quit>>

\* A start-up phase is followed by a later one with launched apps, or RUNNING.
LEMMA StartupLands ==
  ASSUME PhaseTypes, phase < RUNNING,
         NEW ow \in [Conn -> Seq(Request)], NEW pr \in [App -> Nat],
         ProcessPhaseStartup(ow, pr), NEW cs
  PROVE  Landed(cs) /\ phase' <= RUNNING
<1>1. PICK next \in (phase + 1 .. DESKTOP) \cup {RUNNING} :
        \E launched \in SUBSET {a \in App : PhaseOf[a] =
                              IF next = RUNNING THEN APPLICATION ELSE next} :
          StartsPhase(next, launched, ow, pr)
  BY DEF ProcessPhaseStartup, StartupTimer, StartsPhase
<1>a. PICK launched \in SUBSET {a \in App : PhaseOf[a] =
                              IF next = RUNNING THEN APPLICATION ELSE next} :
        StartsPhase(next, launched, ow, pr)
  BY <1>1
<1>2. next \in Phase /\ next > phase /\ next <= RUNNING
      /\ (next = RUNNING \/ next \in WaitedStartupPhase)
  BY DEF PhaseTypes, Phase, IDLE, EXIT, DESKTOP, RUNNING, WaitedStartupPhase,
         INITIALIZATION
<1>3. procs' \in [App -> Nat]
  BY <1>a DEF StartsPhase
<1>4. PhaseTypes'
  BY <1>a, <1>2, <1>3 DEF PhaseTypes, StartsPhase
<1>5. NeverStuck'
  BY <1>a, <1>2 DEF NeverStuck, StartsPhase, IDLE
<1>6. phase' >= phase /\ phase' <= RUNNING
  BY <1>a, <1>2 DEF PhaseTypes, Phase, IDLE, EXIT, RUNNING, StartsPhase
<1> QED
  BY <1>a, <1>4, <1>5, <1>6 DEF Landed, StartsPhase

\* start_next_phase, from the phases a handler can find.
LEMMA StartNextPhaseLands ==
  ASSUME PhaseTypes, NeverStuck, phase # IDLE, NEW cs \in SUBSET Conn,
         NEW ow \in [Conn -> Seq(Request)], NEW pw,
         phase >= RUNNING => pw \in EndAction,
         phase = RUNNING => ~exitWindow',
         StartNextPhase(cs, ow, pw)
  PROVE  /\ Landed(cs)
         /\ phase < RUNNING => phase' <= RUNNING
         /\ phase' # phase \/ waitingClients = {}
<1> USE DEF Phase, WaitedStartupPhase, IDLE, INITIALIZATION, DESKTOP, RUNNING,
            QUERY, PHASE1, EXIT
<1>1. CASE phase \in WaitedStartupPhase /\ ProcessPhaseStartup(ow, procs)
  <2>1. phase < RUNNING /\ procs \in [App -> Nat]
    BY <1>1 DEF PhaseTypes
  <2>2. waitingClients = {}
    BY <1>1 DEF NeverStuck
  <2> QED
    BY <1>1, <2>1, <2>2, StartupLands
<1>2. CASE phase = RUNNING /\ ProcessPhaseQueryEndSession(cs, ow, pw)
  <2>1. waitingClients = {}
    BY <1>2 DEF NeverStuck
  <2> QED
    BY <1>2, <2>1, QueryLands
<1>3. CASE phase = QUERY /\ ProcessPhaseEndSessionPhase1(cs, ow, pw)
  BY <1>3, Phase1Lands
<1>4. CASE phase = PHASE1 /\ ProcessPhaseEndSessionPhase2(cs, ow, pw)
  BY <1>4, Phase2Lands
<1>5. CASE /\ phase = EXIT
           /\ QuitSession(pw, 1)
           /\ owed' = ow
           /\ UNCHANGED <<phase, waitingClients, clientTimer, phase2Requests, ending,
                          stopped>>
           /\ UNCHANGED startupVars
  <2>1. performed' \in Seq(EndAction) /\ quit' \in BOOLEAN
    BY <1>5, PerformedType DEF PhaseTypes
  <2>2. PhaseTypes'
    BY <1>5, <2>1 DEF PhaseTypes, startupVars
  <2>3. NeverStuck' /\ waitingClients' = {} /\ waitingClients = {}
    BY <1>5 DEF NeverStuck, startupVars
  <2> QED
    BY <1>5, <2>2, <2>3 DEF Landed
<1> QED
  BY <1>1, <1>2, <1>3, <1>4, <1>5 DEF StartNextPhase

\* query_end_session_complete goes on only when nothing inhibits.
LEMMA QueryCompleteLands ==
  ASSUME IInv, NEW cs \in SUBSET Conn, NEW ow \in [Conn -> Seq(Request)], NEW inh,
         QueryEndSessionComplete(cs, ow, inh)
  PROVE  /\ Landed(cs)
         /\ phase = QUERY
         /\ exitWindow' \in BOOLEAN
         /\ phase' > QUERY => inh = {}
         /\ phase' # phase \/ exitWindow'
<1>1. phase = QUERY
  BY DEF QueryEndSessionComplete
<1>2. CASE /\ ~Inhibited(inh)
           /\ ProcessPhaseEndSessionPhase1(cs, ow, powerAction)
           /\ UNCHANGED exitWindow
  <2>1. powerAction \in EndAction
    BY <1>1 DEF IInv, QUERY
  <2>a. PhaseTypes /\ phase <= QUERY
    BY <1>1 DEF IInv, QUERY
  <2>2. Landed(cs) /\ phase' > QUERY
    BY <1>2, <2>1, <2>a, Phase1Lands
  <2> QED
    BY <1>1, <1>2, <2>2 DEF Inhibited, IInv, OtherTypes, QUERY
<1>3. CASE /\ waitingClients' = {}
           /\ clientTimer' = "none"
           /\ exitWindow' = TRUE
           /\ owed' = ow
           /\ UNCHANGED <<phase, phase2Requests, ending, stopped, performed, quit>>
           /\ UNCHANGED startupVars
  <2>1. PhaseTypes'
    BY <1>3 DEF IInv, PhaseTypes, startupVars
  <2>2. NeverStuck'
    BY <1>1, <1>3 DEF IInv, NeverStuck, startupVars, WaitedStartupPhase, IDLE,
                      INITIALIZATION, DESKTOP, RUNNING, QUERY, PHASE1, EXIT
  <2> QED
    BY <1>1, <1>3, <2>1, <2>2 DEF Landed, QUERY
<1> QED
  BY <1>2, <1>3 DEF QueryEndSessionComplete

\* An answer that is not awaited in start-up or in RUNNING changes no phase.
LEMMA ResponseLands ==
  ASSUME IInv, NEW c \in Conn, NEW cs \in SUBSET Conn, clients \ {c} \subseteq cs,
         NEW ow \in [Conn -> Seq(Request)], NEW inh,
         OnEndSessionResponse(c, cs, ow, inh)
  PROVE  /\ Landed(cs)
         /\ exitWindow' \in BOOLEAN
         /\ phase <= RUNNING => phase' = phase /\ exitWindow' = exitWindow
         /\ phase = QUERY /\ phase' > QUERY => inh = {}
         /\ \/ phase' # phase \/ exitWindow'
            \/ waitingClients \ waitingClients' \subseteq
                 {w \in waitingClients : IdOf[w] = IdOf[c]}
<1> DEFINE rest == ClientsLeft(c)
<1>1. CASE phase = QUERY /\ rest = {} /\ QueryEndSessionComplete(cs, ow, inh)
  <2>1. /\ Landed(cs) /\ exitWindow' \in BOOLEAN
        /\ phase' > QUERY => inh = {}
        /\ phase' # phase \/ exitWindow'
    BY <1>1, QueryCompleteLands
  <2> QED
    BY <1>1, <2>1 DEF QUERY, RUNNING
<1>2. CASE /\ phase = PHASE1 /\ rest = {}
           /\ ProcessPhaseEndSessionPhase2(cs, ow, powerAction)
           /\ UNCHANGED exitWindow
  <2>1. Landed(cs) /\ phase' = EXIT
    BY <1>2, Phase2Lands DEF IInv, PHASE1, QUERY
  <2> QED
    BY <1>2, <2>1 DEF PHASE1, QUERY, RUNNING, EXIT, IInv, OtherTypes
<1>3. CASE /\ phase \in {QUERY, PHASE1} => rest # {}
           /\ waitingClients' = IF phase < QUERY THEN waitingClients ELSE rest
           /\ owed' = ow
           /\ UNCHANGED <<phase, clientTimer, phase2Requests, ending, stopped,
                          performed, quit, exitWindow>>
           /\ UNCHANGED startupVars
  <2>1. rest \subseteq waitingClients /\ rest \subseteq cs
    BY DEF ClientsLeft, IInv
  <2>2. PhaseTypes'
    BY <1>3, <2>1 DEF IInv, PhaseTypes, startupVars
  <2>3. phase < QUERY => waitingClients = {}
    BY DEF IInv, NeverStuck, IDLE, QUERY, PHASE1, EXIT, WaitedStartupPhase,
           RUNNING
  <2>4. NeverStuck'
    BY <1>3, <2>1, <2>3 DEF IInv, NeverStuck, startupVars, WaitedStartupPhase,
                 IDLE, INITIALIZATION, DESKTOP, RUNNING, QUERY, PHASE1, EXIT
  <2>5. phase' >= phase /\ waitingClients' \subseteq cs
    BY <1>3, <2>1, <2>3 DEF IInv, PhaseTypes, Phase, IDLE, EXIT, QUERY
  <2>6. waitingClients \ waitingClients' \subseteq
          {w \in waitingClients : IdOf[w] = IdOf[c]}
    BY <1>3 DEF ClientsLeft
  <2> QED
    BY <1>3, <2>2, <2>4, <2>5, <2>6 DEF Landed, IInv, OtherTypes, PhaseTypes, Phase,
                                  IDLE, EXIT, QUERY
<1> QED
  BY <1>1, <1>2, <1>3 DEF OnEndSessionResponse

LEMMA AppFinishedLands ==
  ASSUME IInv, NEW a \in App, NEW ow \in [Conn -> Seq(Request)],
         NEW pr \in [App -> Nat], exitWindow' = exitWindow,
         OnAppStartupFinished(a, ow, pr)
  PROVE  /\ Landed(clients)
         /\ phase' <= RUNNING \/ phase' = phase
         /\ waitingClients \subseteq waitingClients'
<1> DEFINE rest == AppsLeft(a)
<1>1. CASE rest = {} /\ phase < APPLICATION /\ ProcessPhaseStartup(ow, pr)
  <2>1. phase < RUNNING /\ PhaseTypes
    BY <1>1 DEF IInv, PhaseTypes, Phase, IDLE, EXIT, APPLICATION, RUNNING
  <2>2. waitingClients = {}
    BY <1>1 DEF IInv, NeverStuck, APPLICATION, QUERY, PHASE1
  <2> QED
    BY <1>1, <2>1, <2>2, StartupLands
<1>2. CASE /\ rest # {} \/ phase >= APPLICATION
           /\ waitingApps' = rest
           /\ procs' = pr
           /\ owed' = ow
           /\ UNCHANGED <<appTimer, delayed, unlaunched>>
           /\ UNCHANGED endVars
  <2>1. rest \subseteq waitingApps
    BY DEF AppsLeft
  <2>2. PhaseTypes'
    BY <1>2, <2>1 DEF IInv, PhaseTypes, endVars
  <2>3. NeverStuck'
    BY <1>2, <2>1 DEF IInv, NeverStuck, endVars, WaitedStartupPhase, APPLICATION,
                IDLE, INITIALIZATION, DESKTOP, RUNNING, QUERY, PHASE1, EXIT
  <2> QED
    BY <1>2, <2>2, <2>3 DEF Landed, IInv, endVars, PhaseTypes, Phase, IDLE, EXIT
<1> QED
  BY <1>1, <1>2 DEF OnAppStartupFinished

-----------------------------------------------------------------------------
(* One lemma per action.                                                   *)

\* Who is no longer waited for has acted, unless the waiting as such is over.
CrossedOff ==
  \A c \in waitingClients \ waitingClients' :
    phase' # phase \/ exitWindow' \/ ClientNext(c)

\* What every step keeps: the invariant, and what the action properties say.
Kept ==
  /\ IInv'
  /\ phase = QUERY /\ phase' > QUERY
       => inhibitors' = {} \/ (exitWindow /\ ~exitWindow')
  /\ phase' < phase => phase' = RUNNING
  /\ CrossedOff

\* A handler that may change the phase: what is left to show of it.
LEMMA LandedKept ==
  ASSUME IInv, Landed(clients'), OtherTypes', OneClientPerId', CleanWhenNotEnding',
         phase' >= QUERY => powerAction' \in EndAction,
         phase = QUERY /\ phase' > QUERY
           => inhibitors' = {} \/ (exitWindow /\ ~exitWindow'),
         CrossedOff
  PROVE  Kept
<1>1. phase' \in Int /\ phase \in Int
  BY DEF IInv, Landed, PhaseTypes, Phase, IDLE, EXIT
<1> QED
  BY <1>1 DEF Kept, IInv, Landed

\* A handler that changes no phase and no list.
LEMMA QuietKept ==
  ASSUME IInv,
         UNCHANGED <<phase, waitingApps, appTimer, waitingClients, clientTimer,
                     exitWindow, powerAction, stopped, performed, quit>>,
         phase2Requests' \subseteq Conn, owed' \in [Conn -> Seq(Request)],
         procs' \in [App -> Nat], delayed' \subseteq App, unlaunched' \subseteq App,
         UNCHANGED ending,
         OtherTypes', OneClientPerId', waitingClients \subseteq clients',
         phase <= RUNNING => inhibitors' \cap ClientId = {}
  PROVE  Kept
<1>1. phase \in Int /\ PhaseTypes'
  BY DEF IInv, PhaseTypes, Phase, IDLE, EXIT
<1>2. NeverStuck'
  BY DEF IInv, NeverStuck
<1>3. CleanWhenNotEnding' /\ CrossedOff
  BY DEF IInv, CleanWhenNotEnding, CrossedOff
<1> QED
  BY <1>1, <1>2, <1>3 DEF Kept, IInv

LEMMA StartKept == ASSUME IInv, Start PROVE Kept
<1>1. phase < RUNNING /\ PhaseTypes
  BY DEF Start, IInv, IDLE, RUNNING
<1>2. owed \in [Conn -> Seq(Request)] /\ procs \in [App -> Nat]
  BY DEF IInv, PhaseTypes
<1>3. Landed(clients') /\ phase' <= RUNNING
  BY <1>1, <1>2, StartupLands DEF Start
<1>4. OtherTypes' /\ OneClientPerId' /\ CleanWhenNotEnding'
  BY <1>1 DEF Start, clientVars, IInv, OtherTypes, OneClientPerId,
              CleanWhenNotEnding, IDLE, RUNNING
<1>5. phase' \in Int
  BY <1>3 DEF Landed, PhaseTypes, Phase, IDLE, EXIT
<1>6. CrossedOff
  BY DEF Start, IInv, NeverStuck, CrossedOff, IDLE, QUERY, PHASE1
<1> QED
  BY <1>1, <1>3, <1>4, <1>5, <1>6, LandedKept DEF QUERY, RUNNING

LEMMA PhaseStartupTimeoutKept == ASSUME IInv, PhaseStartupTimeout PROVE Kept
<1>1. phase < RUNNING /\ phase # IDLE /\ PhaseTypes /\ NeverStuck
  BY DEF PhaseStartupTimeout, Dispatching, IInv, NeverStuck, WaitedStartupPhase,
         INITIALIZATION, DESKTOP, RUNNING, IDLE
<1>2. phase \in Int /\ clients \in SUBSET Conn /\ owed \in [Conn -> Seq(Request)]
  BY DEF IInv, PhaseTypes, OtherTypes, Phase, IDLE, EXIT
<1>3. StartNextPhase(clients, owed, powerAction)
  BY DEF PhaseStartupTimeout
<1>a. /\ phase >= RUNNING => powerAction \in EndAction
      /\ phase = RUNNING => ~exitWindow'
  BY <1>1, <1>2 DEF RUNNING
<1>4. /\ Landed(clients) /\ phase' <= RUNNING
      /\ phase' # phase \/ waitingClients = {}
  BY <1>1, <1>2, <1>3, <1>a, StartNextPhaseLands
<1>5. OtherTypes' /\ OneClientPerId' /\ CleanWhenNotEnding' /\ clients' = clients
  BY <1>1, <1>2 DEF PhaseStartupTimeout, clientVars, IInv, OtherTypes,
                    OneClientPerId, CleanWhenNotEnding, RUNNING
<1>6. phase' \in Int
  BY <1>4 DEF Landed, PhaseTypes, Phase, IDLE, EXIT
<1>7. CrossedOff
  BY <1>4 DEF CrossedOff
<1> QED
  BY <1>1, <1>2, <1>4, <1>5, <1>6, <1>7, LandedKept DEF QUERY, RUNNING

LEMMA DelayedStartKept ==
  ASSUME IInv, NEW a \in App, DelayedStart(a) PROVE Kept
<1>1. procs' \in [App -> Nat] /\ delayed' \subseteq App /\ unlaunched' \subseteq App
  BY DEF DelayedStart, IInv, PhaseTypes
<1>2. OtherTypes' /\ OneClientPerId' /\ clients' = clients
  BY DEF DelayedStart, clientVars, IInv, OtherTypes, OneClientPerId
<1>3. phase <= RUNNING => inhibitors' \cap ClientId = {}
  BY DEF DelayedStart, IInv, CleanWhenNotEnding
<1> QED
  BY <1>1, <1>2, <1>3, QuietKept DEF DelayedStart, endVars, clientVars, IInv, PhaseTypes

LEMMA AppExitedKept ==
  ASSUME IInv, NEW a \in App, AppExited(a) PROVE Kept
<1>1. /\ [procs EXCEPT ![a] = @ - 1] \in [App -> Nat]
      /\ owed \in [Conn -> Seq(Request)]
  BY DEF AppExited, IInv, PhaseTypes
<1>2. exitWindow' = exitWindow
      /\ OnAppStartupFinished(a, owed, [procs EXCEPT ![a] = @ - 1])
  BY DEF AppExited
<1>3. /\ Landed(clients) /\ (phase' <= RUNNING \/ phase' = phase)
      /\ waitingClients \subseteq waitingClients'
  BY <1>1, <1>2, AppFinishedLands
<1>4. OtherTypes' /\ OneClientPerId' /\ clients' = clients
      /\ powerAction' = powerAction /\ inhibitors' = inhibitors
  BY DEF AppExited, clientVars, IInv, OtherTypes, OneClientPerId
<1>5. phase \in Int /\ phase' \in Int /\ phase' >= phase
  BY <1>3 DEF IInv, Landed, PhaseTypes, Phase, IDLE, EXIT
<1>6. CleanWhenNotEnding'
  BY <1>2, <1>4, <1>5 DEF IInv, CleanWhenNotEnding, RUNNING
<1>7. CrossedOff
  BY <1>3 DEF CrossedOff
<1> QED
  BY <1>3, <1>4, <1>5, <1>6, <1>7, LandedKept DEF QUERY, RUNNING, IInv

LEMMA AppRestartKept ==
  ASSUME IInv, NEW a \in App, AppRestart(a) PROVE Kept
<1>1. procs' \in [App -> Nat]
  BY DEF AppRestart, IInv, PhaseTypes
<1>2. OtherTypes' /\ OneClientPerId' /\ clients' = clients
  BY DEF AppRestart, clientVars, IInv, OtherTypes, OneClientPerId
<1>3. phase <= RUNNING => inhibitors' \cap ClientId = {}
  BY DEF AppRestart, IInv, CleanWhenNotEnding
<1> QED
  BY <1>1, <1>2, <1>3, QuietKept DEF AppRestart, endVars, clientVars, IInv, PhaseTypes

\* The two ways to register differ in what the client is sent.
LEMMA AddClientKept ==
  ASSUME IInv, NEW c \in Conn, NEW ow \in [Conn -> Seq(Request)], AddClient(c, ow)
  PROVE  Kept
<1>1. OtherTypes' /\ clients \subseteq clients'
  BY DEF AddClient, IInv, OtherTypes
<1>2. OneClientPerId'
  BY DEF AddClient, IdIsFree, IInv, OneClientPerId
<1>3. /\ powerAction' = powerAction /\ inhibitors' = inhibitors
      /\ exitWindow' = exitWindow
  BY DEF AddClient
<1>4. CASE IdOf[c] \in App /\ OnAppStartupFinished(IdOf[c], ow, procs)
  <2>1. /\ Landed(clients) /\ (phase' <= RUNNING \/ phase' = phase)
        /\ waitingClients \subseteq waitingClients'
    BY <1>3, <1>4, AppFinishedLands DEF IInv, PhaseTypes
  <2>2. Landed(clients')
    BY <1>1, <2>1 DEF Landed
  <2>3. phase \in Int /\ phase' \in Int /\ phase' >= phase
    BY <2>1 DEF IInv, Landed, PhaseTypes, Phase, IDLE, EXIT
  <2>4. CleanWhenNotEnding'
    BY <1>3, <2>3 DEF IInv, CleanWhenNotEnding, RUNNING
  <2>5. CrossedOff
    BY <2>1 DEF CrossedOff
  <2> QED
    BY <1>1, <1>2, <1>3, <2>1, <2>2, <2>3, <2>4, <2>5, LandedKept
       DEF QUERY, RUNNING, IInv
<1>5. CASE owed' = ow /\ UNCHANGED endVars /\ UNCHANGED startupVars
  BY <1>1, <1>2, <1>3, <1>5, QuietKept
     DEF endVars, startupVars, IInv, PhaseTypes, CleanWhenNotEnding
<1> QED
  BY <1>4, <1>5 DEF AddClient

LEMMA RegisterKept ==
  ASSUME IInv, NEW c \in Conn, RegisterClient(c) \/ RegisterXsmpClient(c)
  PROVE  Kept
<1>1. owed \in [Conn -> Seq(Request)]
  BY DEF IInv, PhaseTypes
<1>2. Send(owed, {c}, "initial") \in [Conn -> Seq(Request)]
  BY <1>1, SendType DEF Request
<1> QED
  BY <1>1, <1>2, AddClientKept DEF RegisterClient, RegisterXsmpClient

\* An answer, of a client that stays or of one that leaves.
LEMMA ResponseKept ==
  ASSUME IInv, NEW c \in Conn, NEW ow \in [Conn -> Seq(Request)],
         OnEndSessionResponse(c, clients', ow, inhibitors'),
         c \in clients, clients' \in SUBSET clients, clients \ {c} \subseteq clients',
         inhibitors' \subseteq ClientId \cup Cookie,
         phase <= RUNNING => inhibitors' = inhibitors,
         restarts' \subseteq App, used' \subseteq Conn, interacting' \subseteq Conn,
         UNCHANGED <<powerAction, requests>>,
         ClientNext(c)
  PROVE  Kept
<1>1. clients' \in SUBSET Conn
  BY DEF IInv, OtherTypes
<1>2. /\ Landed(clients')
      /\ exitWindow' \in BOOLEAN
      /\ phase <= RUNNING => phase' = phase /\ exitWindow' = exitWindow
      /\ phase = QUERY /\ phase' > QUERY => inhibitors' = {}
      /\ \/ phase' # phase \/ exitWindow'
         \/ waitingClients \ waitingClients' \subseteq
              {w \in waitingClients : IdOf[w] = IdOf[c]}
  BY <1>1, ResponseLands
<1>3. phase \in Int /\ phase' \in Int /\ phase' >= phase
  BY <1>2 DEF IInv, Landed, PhaseTypes, Phase, IDLE, EXIT
<1>4. OtherTypes' /\ OneClientPerId'
  BY <1>1, <1>2 DEF IInv, OtherTypes, OneClientPerId
<1>5. CleanWhenNotEnding'
  BY <1>2, <1>3 DEF IInv, CleanWhenNotEnding, RUNNING
<1>6. phase' >= QUERY => powerAction' \in EndAction
  BY <1>2, <1>3 DEF IInv, QUERY, RUNNING
<1>7. CrossedOff
  <2> SUFFICES ASSUME NEW w \in waitingClients \ waitingClients',
                      phase' = phase, ~exitWindow'
               PROVE  ClientNext(w)
    BY DEF CrossedOff
  <2>1. IdOf[w] = IdOf[c]
    BY <1>2
  <2>2. w = c
    BY <2>1 DEF IInv, OneClientPerId
  <2> QED
    BY <2>2
<1> QED
  BY <1>2, <1>4, <1>5, <1>6, <1>7, LandedKept

LEMMA DeleteClientKept ==
  ASSUME IInv, NEW c \in Conn, DeleteClient(c) PROVE Kept
<1>1. [owed EXCEPT ![c] = <<>>] \in [Conn -> Seq(Request)]
  <2>1. <<>> \in Seq(Request)
    BY EmptySeq
  <2> QED
    BY <2>1 DEF IInv, PhaseTypes
<1>2. /\ c \in clients
      /\ clients' = clients \ {c} /\ inhibitors' = inhibitors
      /\ OnEndSessionResponse(c, clients', [owed EXCEPT ![c] = <<>>], inhibitors')
  BY DEF DeleteClient
<1>3. /\ inhibitors' \subseteq ClientId \cup Cookie
      /\ used' \subseteq Conn /\ interacting' \subseteq Conn
      /\ UNCHANGED <<powerAction, requests>>
  BY DEF DeleteClient, IInv, OtherTypes
<1>4. restarts' \subseteq App
  BY AppAssumption DEF DeleteClient, IInv, OtherTypes
<1>5. ClientNext(c)
  BY DEF ClientNext, XsmpClientGone, DBusClientGone
<1> QED
  BY <1>1, <1>2, <1>3, <1>4, <1>5, ResponseKept

LEMMA SaveYourselfDoneKept ==
  ASSUME IInv, NEW c \in Conn, SaveYourselfDone(c) PROVE Kept
<1>1. [owed EXCEPT ![c] = Tail(@)] \in [Conn -> Seq(Request)]
  BY AnswerType DEF SaveYourselfDone, Answers, IInv, PhaseTypes
<1>2. /\ clients' = clients /\ inhibitors' = inhibitors
      /\ OnEndSessionResponse(c, clients', [owed EXCEPT ![c] = Tail(@)], inhibitors')
  BY DEF SaveYourselfDone, clientVars
<1>3. /\ inhibitors' \subseteq ClientId \cup Cookie /\ restarts' \subseteq App
      /\ used' \subseteq Conn /\ interacting' \subseteq Conn
      /\ UNCHANGED <<powerAction, requests>>
  BY DEF SaveYourselfDone, clientVars, IInv, OtherTypes
<1>4. c \in clients /\ ClientNext(c)
  BY DEF SaveYourselfDone, Answers, ClientNext
<1> QED
  BY <1>1, <1>2, <1>3, <1>4, ResponseKept

LEMMA EndSessionResponseKept ==
  ASSUME IInv, NEW c \in Conn, NEW isOk \in BOOLEAN, EndSessionResponse(c, isOk)
  PROVE  Kept
<1>1. owed \in [Conn -> Seq(Request)] /\ c \in clients /\ ClientNext(c)
  BY DEF EndSessionResponse, ClientNext, IInv, PhaseTypes
<1>2. /\ clients' = clients /\ inhibitors' = inhibitors /\ restarts' \subseteq App
      /\ used' \subseteq Conn /\ interacting' \subseteq Conn
      /\ UNCHANGED <<powerAction, requests>>
      /\ inhibitors' \subseteq ClientId \cup Cookie
  BY DEF EndSessionResponse, clientVars, IInv, OtherTypes
<1>3. CASE OnEndSessionResponse(c, clients, owed, inhibitors)
  <2>1. OnEndSessionResponse(c, clients', owed, inhibitors')
    BY <1>2, <1>3
  <2> QED
    BY <1>1, <1>2, <2>1, ResponseKept
<1>4. CASE UNCHANGED <<owed, exitWindow>> /\ UNCHANGED endVars /\ UNCHANGED startupVars
  <2>1. OtherTypes' /\ OneClientPerId'
    BY <1>2, <1>4 DEF IInv, OtherTypes, OneClientPerId
  <2> QED
    BY <1>1, <1>2, <1>4, <2>1, QuietKept
       DEF endVars, startupVars, IInv, PhaseTypes, CleanWhenNotEnding
<1> QED
  BY <1>3, <1>4 DEF EndSessionResponse

\* What changes neither clients nor anything a phase is made of.
LEMMA InhibitorsKept ==
  ASSUME IInv, UNCHANGED endVars, UNCHANGED startupVars,
         UNCHANGED <<exitWindow, powerAction, clients, used, restarts, requests>>,
         owed' \in [Conn -> Seq(Request)], interacting' \subseteq Conn,
         inhibitors' \subseteq ClientId \cup Cookie,
         phase <= RUNNING => inhibitors' \cap ClientId = {}
  PROVE  Kept
<1>1. OtherTypes' /\ OneClientPerId'
  BY DEF IInv, OtherTypes, OneClientPerId
<1> QED
  BY <1>1, QuietKept DEF endVars, startupVars, IInv, PhaseTypes

LEMMA InteractRequestKept ==
  ASSUME IInv, NEW c \in Conn, InteractRequest(c) PROVE Kept
<1>1. /\ interacting' \subseteq Conn
      /\ UNCHANGED <<clients, used, powerAction, restarts, requests>>
  BY DEF InteractRequest, IInv, OtherTypes
<1>2. owed \in [Conn -> Seq(Request)]
  BY DEF IInv, PhaseTypes
<1>3. CASE /\ phase = QUERY
           /\ inhibitors' = inhibitors \cup {IdOf[c]}
           /\ OnEndSessionResponse(c, clients, owed, inhibitors')
  <2>1. inhibitors' \subseteq ClientId \cup Cookie
    BY <1>3 DEF ClientId, IInv, OtherTypes
  <2>2. OnEndSessionResponse(c, clients', owed, inhibitors') /\ clients' = clients
    BY <1>1, <1>3
  <2>3. restarts' \subseteq App /\ used' \subseteq Conn
    BY <1>1 DEF IInv, OtherTypes
  <2>4. ~(phase <= RUNNING)
    BY <1>3 DEF QUERY, RUNNING
  <2>5. c \in clients /\ ClientNext(c)
    BY DEF InteractRequest, Answers, ClientNext
  <2> QED
    BY <1>1, <1>2, <2>1, <2>2, <2>3, <2>4, <2>5, ResponseKept
<1>4. CASE /\ UNCHANGED <<inhibitors, exitWindow, owed>>
           /\ UNCHANGED endVars /\ UNCHANGED startupVars
  <2>1. /\ inhibitors' \subseteq ClientId \cup Cookie
        /\ phase <= RUNNING => inhibitors' \cap ClientId = {}
    BY <1>4 DEF IInv, OtherTypes, CleanWhenNotEnding
  <2> QED
    BY <1>1, <1>2, <1>4, <2>1, InhibitorsKept
<1> QED
  BY <1>3, <1>4 DEF InteractRequest

\* The one way back: the invariant holds in RUNNING after a cancelled attempt.
LEMMA CancelKept ==
  ASSUME IInv, NEW extra, CancelEndSession(extra), interacting' \subseteq Conn,
         UNCHANGED <<clients, used, restarts, requests>>
  PROVE  Kept
<1>1. /\ phase' = RUNNING /\ phase >= QUERY /\ AwaitClients({}, "none")
      /\ exitWindow' = FALSE /\ powerAction' = "none" /\ phase2Requests' = {}
      /\ UNCHANGED <<owed, stopped, performed, quit, procs, delayed, unlaunched>>
      /\ ending' = ending \ clients
  BY DEF CancelEndSession, ClearWaiting, ShutdownCancelled
<1>2. inhibitors' \subseteq inhibitors /\ inhibitors' \cap ClientId = {}
  BY DEF CancelEndSession, WithoutStartupIds
<1>3. phase' \in Phase
  BY <1>1 DEF Phase, IDLE, EXIT, RUNNING
<1>4. PhaseTypes'
  BY <1>1, <1>3 DEF AwaitClients, IInv, PhaseTypes
<1>5. OtherTypes' /\ OneClientPerId'
  BY <1>1, <1>2 DEF IInv, OtherTypes, OneClientPerId, PowerAction
<1>6. NeverStuck' /\ CleanWhenNotEnding' /\ waitingClients' = {}
  BY <1>1, <1>2 DEF AwaitClients, NeverStuck, CleanWhenNotEnding
<1>7. ~(phase' >= QUERY) /\ ~(phase' > QUERY)
  BY <1>1 DEF QUERY, RUNNING
<1>8. CrossedOff
  BY <1>1 DEF CrossedOff, QUERY, RUNNING
<1> QED
  BY <1>1, <1>4, <1>5, <1>6, <1>7, <1>8 DEF Kept, IInv

LEMMA InteractDoneKept ==
  ASSUME IInv, NEW c \in Conn, NEW cancelShutdown \in BOOLEAN,
         InteractDone(c, cancelShutdown)
  PROVE  Kept
<1>1. interacting' \subseteq Conn /\ UNCHANGED <<clients, used, restarts, requests>>
  BY DEF InteractDone, IInv, OtherTypes
<1>2. CASE CancelEndSession({IdOf[c]})
  BY <1>1, <1>2, CancelKept
<1>3. CASE /\ inhibitors' = inhibitors \ {IdOf[c]}
           /\ UNCHANGED <<exitWindow, powerAction, owed>>
           /\ UNCHANGED endVars /\ UNCHANGED startupVars
  <2>1. /\ inhibitors' \subseteq ClientId \cup Cookie
        /\ phase <= RUNNING => inhibitors' \cap ClientId = {}
        /\ owed' \in [Conn -> Seq(Request)]
    BY <1>3 DEF IInv, PhaseTypes, OtherTypes, CleanWhenNotEnding
  <2> QED
    BY <1>1, <1>3, <2>1, InhibitorsKept
<1> QED
  BY <1>2, <1>3 DEF InteractDone

LEMMA SaveYourselfPhase2RequestKept ==
  ASSUME IInv, NEW c \in Conn, SaveYourselfPhase2Request(c) PROVE Kept
<1>1. OtherTypes' /\ OneClientPerId' /\ clients' = clients
  BY DEF SaveYourselfPhase2Request, clientVars, IInv, OtherTypes, OneClientPerId
<1>2. phase <= RUNNING => inhibitors' \cap ClientId = {}
  BY DEF SaveYourselfPhase2Request, IInv, CleanWhenNotEnding
<1> QED
  BY <1>1, <1>2, QuietKept
     DEF SaveYourselfPhase2Request, startupVars, IInv, PhaseTypes

LEMMA SaveYourselfRequestKept ==
  ASSUME IInv, NEW c \in Conn, SaveYourselfRequest(c) PROVE Kept
<1>1. Send(owed, {c}, "local") \in [Conn -> Seq(Request)]
  BY SendType DEF Request, IInv, PhaseTypes
<1> QED
  BY <1>1, InhibitorsKept
     DEF SaveYourselfRequest, clientVars, IInv, OtherTypes, CleanWhenNotEnding

\* The session starts to end: the exit window is closed until RUNNING is left.
LEMMA EndSessionKept ==
  ASSUME IInv, NEW action \in EndAction, EndSession(action) PROVE Kept
<1>1. /\ phase # IDLE /\ phase <= RUNNING /\ StartNextPhase(clients, owed, action)
      /\ ~exitWindow' /\ inhibitors' = inhibitors /\ powerAction' = action
  BY DEF EndSession, Dispatching, IInv, CleanWhenNotEnding
<1>2. clients \in SUBSET Conn /\ owed \in [Conn -> Seq(Request)]
      /\ PhaseTypes /\ NeverStuck
  BY DEF IInv, PhaseTypes, OtherTypes
<1>3. Landed(clients) /\ (phase' # phase \/ waitingClients = {})
  BY <1>1, <1>2, StartNextPhaseLands
<1>4. OtherTypes' /\ OneClientPerId' /\ clients' = clients
  BY DEF EndSession, clientVars, IInv, OtherTypes, OneClientPerId, EndAction
<1>5. CleanWhenNotEnding'
  BY <1>1 DEF IInv, CleanWhenNotEnding
<1>6. phase # QUERY
  BY <1>1 DEF QUERY, RUNNING
<1>7. CrossedOff
  BY <1>3 DEF CrossedOff
<1> QED
  BY <1>1, <1>3, <1>4, <1>5, <1>6, <1>7, LandedKept

LEMMA WaitingSessionTimeoutKept ==
  ASSUME IInv, WaitingSessionTimeout PROVE Kept
<1>1. /\ clientTimer = "query_end_session_complete" => phase = QUERY
      /\ clientTimer = "start_next_phase" => phase = PHASE1
  BY DEF IInv, NeverStuck
<1>2. clients \in SUBSET Conn /\ owed \in [Conn -> Seq(Request)]
      /\ PhaseTypes /\ NeverStuck
  BY DEF IInv, PhaseTypes, OtherTypes
<1>3. inhibitors' \subseteq ClientId \cup Cookie
  BY DEF WaitingSessionTimeout, SilentClients, ClientId, IInv, OtherTypes, PhaseTypes
<1>4. clients' = clients /\ powerAction' = powerAction /\ OneClientPerId'
  BY DEF WaitingSessionTimeout, clientVars, IInv, OneClientPerId
<1>5. CASE /\ clientTimer = "query_end_session_complete"
           /\ QueryEndSessionComplete(clients, owed, inhibitors')
  <2>1. /\ Landed(clients) /\ phase = QUERY /\ exitWindow' \in BOOLEAN
        /\ phase' > QUERY => inhibitors' = {}
        /\ phase' # phase \/ exitWindow'
    BY <1>2, <1>5, QueryCompleteLands
  <2>2. phase' \in Int /\ ~(phase' <= RUNNING) /\ powerAction' \in EndAction
    BY <1>4, <2>1 DEF Landed, PhaseTypes, Phase, IDLE, EXIT, QUERY, RUNNING, IInv
  <2>3. OtherTypes' /\ CleanWhenNotEnding'
    BY <1>3, <1>4, <2>1, <2>2
       DEF WaitingSessionTimeout, clientVars, IInv, OtherTypes, CleanWhenNotEnding
  <2>4. CrossedOff
    BY <2>1 DEF CrossedOff
  <2> QED
    BY <1>4, <2>1, <2>2, <2>3, <2>4, LandedKept
<1>6. CASE /\ clientTimer = "start_next_phase"
           /\ StartNextPhase(clients, owed, powerAction)
           /\ UNCHANGED exitWindow
  <2>1. phase = PHASE1 /\ phase # IDLE /\ phase # RUNNING /\ phase # QUERY
        /\ powerAction \in EndAction
    BY <1>1, <1>6 DEF IInv, PHASE1, IDLE, RUNNING, QUERY
  <2>2. Landed(clients) /\ (phase' # phase \/ waitingClients = {})
    BY <1>2, <1>6, <2>1, StartNextPhaseLands
  <2>3. phase' \in Int /\ ~(phase' <= RUNNING)
    BY <2>1, <2>2 DEF Landed, PhaseTypes, Phase, IDLE, EXIT, PHASE1, RUNNING
  <2>4. OtherTypes' /\ CleanWhenNotEnding'
    BY <1>3, <1>4, <1>6, <2>3
       DEF WaitingSessionTimeout, clientVars, IInv, OtherTypes, CleanWhenNotEnding
  <2>5. CrossedOff
    BY <2>2 DEF CrossedOff
  <2> QED
    BY <1>4, <2>1, <2>2, <2>4, <2>5, LandedKept
<1> QED
  BY <1>5, <1>6 DEF WaitingSessionTimeout

LEMMA ExitWindowOkKept == ASSUME IInv, ExitWindowOk PROVE Kept
<1>1. /\ exitWindow /\ ~exitWindow' /\ StartNextPhase(clients, owed, powerAction)
      /\ phase # IDLE /\ phase >= QUERY
  BY DEF ExitWindowOk, IInv, CleanWhenNotEnding, PhaseTypes, Phase, IDLE, EXIT,
         QUERY, RUNNING, Dispatching
<1>2. clients \in SUBSET Conn /\ owed \in [Conn -> Seq(Request)]
      /\ PhaseTypes /\ NeverStuck /\ powerAction \in EndAction
  BY <1>1 DEF IInv, PhaseTypes, OtherTypes
<1>3. Landed(clients) /\ (phase' # phase \/ waitingClients = {})
  BY <1>1, <1>2, StartNextPhaseLands
<1>4. OtherTypes' /\ OneClientPerId' /\ clients' = clients
      /\ powerAction' = powerAction
  BY DEF ExitWindowOk, clientVars, IInv, OtherTypes, OneClientPerId
<1>5. CleanWhenNotEnding'
  BY <1>1, <1>3 DEF Landed, PhaseTypes, Phase, IDLE, EXIT, QUERY, RUNNING,
                    CleanWhenNotEnding, IInv
<1>6. CrossedOff
  BY <1>3 DEF CrossedOff
<1> QED
  BY <1>1, <1>2, <1>3, <1>4, <1>5, <1>6, LandedKept

LEMMA InhibitKept ==
  ASSUME IInv, NEW k, (Inhibit(k) /\ k \in Cookie) \/ Uninhibit(k)
  PROVE  Kept
<1>1. /\ inhibitors' \subseteq ClientId \cup Cookie
      /\ phase <= RUNNING => inhibitors' \cap ClientId = {}
  BY ConnAssumption DEF Inhibit, Uninhibit, IInv, OtherTypes, CleanWhenNotEnding
<1> QED
  BY <1>1, InhibitorsKept
     DEF Inhibit, Uninhibit, clientVars, IInv, OtherTypes, PhaseTypes

-----------------------------------------------------------------------------
(* The invariant, and the theorems.                                        *)

LEMMA InitInvariant == Init => IInv
<1> SUFFICES ASSUME Init PROVE IInv
  OBVIOUS
<1>1. <<>> \in Seq(Request) /\ <<>> \in Seq(EndAction)
  BY EmptySeq
<1>a. /\ phase \in Phase
      /\ owed \in [Conn -> Seq(Request)] /\ performed \in Seq(EndAction)
      /\ procs \in [App -> Nat]
  BY <1>1 DEF Init, Phase, IDLE, EXIT
<1>2. PhaseTypes
  BY <1>a DEF Init, PhaseTypes
<1>3. OtherTypes
  BY DEF Init, OtherTypes, PowerAction
<1>4. NeverStuck /\ CleanWhenNotEnding /\ OneClientPerId /\ ~(phase >= QUERY)
  BY DEF Init, NeverStuck, CleanWhenNotEnding, OneClientPerId, IDLE, QUERY
<1> QED
  BY <1>2, <1>3, <1>4 DEF Init, IInv

LEMMA NextKept == ASSUME IInv, Next PROVE Kept
<1>1. CASE Start
  BY <1>1, StartKept
<1>2. CASE PhaseStartupTimeout
  BY <1>2, PhaseStartupTimeoutKept
<1>3. CASE Logout \/ Shutdown \/ Reboot
  BY <1>3, EndSessionKept DEF Logout, Shutdown, Reboot, EndAction, PowerAction
<1>4. CASE WaitingSessionTimeout
  BY <1>4, WaitingSessionTimeoutKept
<1>5. CASE ExitWindowOk
  BY <1>5, ExitWindowOkKept
<1>6. CASE ExitWindowCancel
  <2>1. /\ CancelEndSession({}) /\ interacting' \subseteq Conn
        /\ UNCHANGED <<clients, used, restarts, requests>>
    BY <1>6 DEF ExitWindowCancel, clientVars, IInv, OtherTypes
  <2> QED
    BY <2>1, CancelKept
<1>7. CASE \E a \in App : AppNext(a)
  BY <1>7, DelayedStartKept, AppExitedKept, AppRestartKept DEF AppNext
<1>8. ASSUME NEW c \in Conn, ClientNext(c) PROVE Kept
  <2>1. CASE RegisterClient(c) \/ RegisterXsmpClient(c)
    BY <2>1, RegisterKept
  <2>2. CASE XsmpClientGone(c) \/ DBusClientGone(c)
    BY <2>2, DeleteClientKept DEF XsmpClientGone, DBusClientGone
  <2>3. CASE SaveYourselfDone(c)
    BY <2>3, SaveYourselfDoneKept
  <2>4. CASE \E isOk \in BOOLEAN : EndSessionResponse(c, isOk)
    BY <2>4, EndSessionResponseKept
  <2>5. CASE InteractRequest(c)
    BY <2>5, InteractRequestKept
  <2>6. CASE \E cancelShutdown \in BOOLEAN : InteractDone(c, cancelShutdown)
    BY <2>6, InteractDoneKept
  <2>7. CASE SaveYourselfPhase2Request(c)
    BY <2>7, SaveYourselfPhase2RequestKept
  <2>8. CASE SaveYourselfRequest(c)
    BY <2>8, SaveYourselfRequestKept
  <2> QED
    BY <1>8, <2>1, <2>2, <2>3, <2>4, <2>5, <2>6, <2>7, <2>8 DEF ClientNext
<1>9. CASE (\E k \in Cookie : Inhibit(k)) \/ \E k \in Cookie \cup ClientId : Uninhibit(k)
  BY <1>9, InhibitKept
<1> QED
  BY <1>1, <1>2, <1>3, <1>4, <1>5, <1>6, <1>7, <1>8, <1>9 DEF Next, SessionNext

LEMMA StutterKept == ASSUME IInv, UNCHANGED vars PROVE Kept
<1>1. PhaseTypes' /\ OtherTypes'
  BY DEF vars, IInv, PhaseTypes, OtherTypes
<1>2. NeverStuck' /\ CleanWhenNotEnding' /\ OneClientPerId'
  BY DEF vars, IInv, NeverStuck, CleanWhenNotEnding, OneClientPerId
<1>3. phase \in Int /\ CrossedOff
  BY DEF vars, IInv, PhaseTypes, Phase, IDLE, EXIT, CrossedOff
<1> QED
  BY <1>1, <1>2, <1>3 DEF vars, Kept, IInv

\* The inductive invariant holds of every state the daemon reaches.
THEOREM Invariance == Spec => []IInv
<1>1. IInv /\ [Next]_vars => IInv'
  BY NextKept, StutterKept DEF Kept
<1> QED
  BY <1>1, InitInvariant, PTL DEF Spec

\* Every variable keeps its type in all states (the whole of SessionManager).
THEOREM TypeCorrect == Spec => []TypeOK
<1>1. IInv => TypeOK
  <2> SUFFICES ASSUME IInv PROVE TypeOK
    OBVIOUS
  <2>1. Seq(EndAction) \subseteq Seq(PowerAction)
    <3>1. EndAction \subseteq PowerAction
      BY DEF EndAction
    <3> QED
      BY <3>1
  <2> QED
    BY <2>1 DEF IInv, PhaseTypes, OtherTypes, TypeOK
<1> QED
  BY <1>1, Invariance, PTL

\* Whenever the main loop is idle the phase is one that waits for nothing, or
\* what it waits for is there with the timer of that phase, or the exit window
\* is open (start_next_phase and the process_phase functions).
THEOREM NeverComesToRest == Spec => []NeverStuck
<1>1. IInv => NeverStuck
  BY DEF IInv
<1> QED
  BY <1>1, Invariance, PTL

\* A session that is not ending has no exit window, and no client inhibits it
\* on behalf of an attempt that was cancelled (cancel_end_session).
THEOREM CancelForgets == Spec => []CleanWhenNotEnding
<1>1. IInv => CleanWhenNotEnding
  BY DEF IInv
<1> QED
  BY <1>1, Invariance, PTL

\* An ending session has a power action, and only such actions were ever carried
\* out (on_end_session_response_cb, quit_session).
THEOREM ExitCarriesOut == Spec => []ExitHasPowerAction
<1>1. IInv => ExitHasPowerAction
  <2> SUFFICES ASSUME IInv PROVE ExitHasPowerAction
    OBVIOUS
  <2>1. \A i \in 1 .. Len(performed) : performed[i] \in EndAction
    BY ElementOfSeq DEF IInv, PhaseTypes
  <2> QED
    BY <2>1 DEF IInv, ExitHasPowerAction
<1> QED
  BY <1>1, Invariance, PTL

\* The query phase is left forward only with nothing inhibiting or by the OK
\* button of the exit window (query_end_session_complete).
THEOREM InhibitorsHold == Spec => InhibitedUntilForced
<1>1. IInv /\ [Next]_vars
        => [phase = QUERY /\ phase' > QUERY
              => inhibitors' = {} \/ (exitWindow /\ ~exitWindow')]_vars
  BY NextKept, StutterKept DEF Kept
<1> QED
  BY <1>1, Invariance, PTL DEF Spec, InhibitedUntilForced

\* As long as a phase goes on waiting, a client is crossed off only by a step of its
\* own: it left, answered or started to interact (on_end_session_response_cb).
THEOREM AnswersAreOwn == Spec => OnlyOwnAnswerCounts
<1>1. IInv /\ [Next]_vars
        => [\A c \in waitingClients \ waitingClients' :
              phase' # phase \/ exitWindow' \/ ClientNext(c)]_vars
  BY NextKept, StutterKept DEF Kept, CrossedOff
<1> QED
  BY <1>1, Invariance, PTL DEF Spec, OnlyOwnAnswerCounts

-----------------------------------------------------------------------------
(* What is waited for: apps that have not reported, and answers that are   *)
(* still owed; and who was told that the session is ending.                *)

\* Client c has still to answer the request of phase p.
OwesAnswer(ow, c, p) == Outstanding(ow[c], IF p = QUERY THEN "query" ELSE "end")

\* App a runs, is about to be launched, or could not be.
Pending(a) == procs[a] > 0 \/ a \in delayed \/ a \in unlaunched

\* An app learns its start-up id in its phase, so that no client has the id of an
\* app of a later phase.
ClientsStarted(cs, p) == \A c \in cs : IdOf[c] \in App => PhaseOf[IdOf[c]] <= p

\* The invariant with the two waiting lists and the clients that were told.  An app of
\* the phase that starts cannot have a client yet because of ClientsStarted, and who
\* registers was not told anything in an earlier life, because connections that have
\* registered are used.
WInv ==
  /\ IInv
  /\ WaitsOnlyForAnswers
  /\ WaitsOnlyForStartingApps
  /\ CancelReachesAll
  /\ ClientsStarted(clients, phase)
  /\ clients \cup ending \subseteq used

\* Clients come and go; who comes has not been there before.
Comings ==
  /\ used \cup clients' \subseteq used'
  /\ (clients' \ clients) \cap used = {}

\* What a phase change establishes of the lists, with cs the registered clients.
ListsRight(cs) ==
  /\ \A a \in waitingApps' :
       /\ PhaseOf[a] = phase'
       /\ Pending(a)'
       /\ \A c \in cs : IdOf[c] # a
  /\ \A c \in waitingClients' : IsXsmp(c) => OwesAnswer(owed', c, phase')
  /\ waitingClients' \subseteq ending' /\ ending' \subseteq ending \cup cs
  /\ phase' <= RUNNING => cs \cap ending' = {} \/ (phase <= RUNNING /\ ending' = ending)

\* A request that is sent is outstanding.
LEMMA SendLast ==
  ASSUME NEW ow \in [Conn -> Seq(Request)], NEW cs \in SUBSET Conn, NEW r \in Request,
         NEW c \in cs, IsXsmp(c)
  PROVE  Outstanding(Send(ow, cs, r)[c], r)
<1> DEFINE t == Append(ow[c], r)
<1>1. Send(ow, cs, r)[c] = t /\ ow[c] \in Seq(Request)
  BY DEF Send
<1>2. Len(ow[c]) \in Nat /\ Len(t) = Len(ow[c]) + 1 /\ t[Len(ow[c]) + 1] = r
  BY <1>1, AppendProperties, LenProperties
<1> HIDE DEF t
<1>3. Len(ow[c]) + 1 \in 1 .. Len(t)
  BY <1>2
<1>4. \A j \in (Len(ow[c]) + 1) + 1 .. Len(t) : t[j] = "local"
  BY <1>2
<1> QED
  BY <1>1, <1>2, <1>3, <1>4 DEF Outstanding

\* A local save that is asked for settles nothing.
LEMMA LocalKeeps ==
  ASSUME NEW s \in Seq(Request), NEW r, Outstanding(s, r)
  PROVE  Outstanding(Append(s, "local"), r)
<1> DEFINE t == Append(s, "local")
<1>1. /\ Len(s) \in Nat /\ Len(t) = Len(s) + 1 /\ t[Len(s) + 1] = "local"
      /\ \A j \in 1 .. Len(s) : t[j] = s[j]
  BY AppendProperties, LenProperties DEF Request
<1>2. PICK i \in 1 .. Len(s) :
        s[i] = r /\ \A j \in i + 1 .. Len(s) : s[j] = "local"
  BY DEF Outstanding
<1> HIDE DEF t
<1>3. i \in 1 .. Len(t) /\ t[i] = r
  BY <1>1, <1>2
<1>4. ASSUME NEW j \in i + 1 .. Len(t) PROVE t[j] = "local"
  <2>1. CASE j = Len(s) + 1
    BY <1>1, <2>1
  <2>2. CASE j # Len(s) + 1
    <3>1. j \in i + 1 .. Len(s) /\ j \in 1 .. Len(s)
      BY <1>1, <1>2, <1>4, <2>2
    <3> QED
      BY <1>1, <1>2, <3>1
  <2> QED
    BY <2>1, <2>2
<1>5. Outstanding(t, r)
  BY <1>3, <1>4 DEF Outstanding
<1> QED
  BY <1>5 DEF t

LEMMA Phase2Lists ==
  ASSUME NEW cs, NEW ow, NEW pw, ProcessPhaseEndSessionPhase2(cs, ow, pw)
  PROVE  waitingApps' = {} /\ waitingClients' = {} /\ phase' = EXIT /\ ending' = ending
BY DEF ProcessPhaseEndSessionPhase2, ProcessPhaseExit, ClearWaiting, AwaitClients

LEMMA Phase1Lists ==
  ASSUME NEW cs \in SUBSET Conn, NEW ow \in [Conn -> Seq(Request)], NEW pw,
         ProcessPhaseEndSessionPhase1(cs, ow, pw)
  PROVE  ListsRight(cs) /\ phase' \in {PHASE1, EXIT}
<1>1. CASE cs # {}
  <2>1. /\ phase' = PHASE1 /\ owed' = Send(ow, cs, "end")
        /\ waitingClients' = cs /\ waitingApps' = {} /\ ending' = ending \cup cs
    BY <1>1 DEF ProcessPhaseEndSessionPhase1, AwaitClients
  <2>2. \A c \in cs : IsXsmp(c) => OwesAnswer(owed', c, phase')
    BY <2>1, SendLast DEF OwesAnswer, Request, PHASE1, QUERY
  <2> QED
    BY <2>1, <2>2 DEF ListsRight, RUNNING, PHASE1
<1>2. CASE cs = {}
  BY <1>2, Phase2Lists DEF ProcessPhaseEndSessionPhase1, ListsRight, RUNNING, EXIT
<1> QED
  BY <1>1, <1>2

LEMMA QueryLists ==
  ASSUME NEW cs \in SUBSET Conn, NEW ow \in [Conn -> Seq(Request)], NEW pw,
         ProcessPhaseQueryEndSession(cs, ow, pw)
  PROVE  ListsRight(cs) /\ phase' \in {QUERY, EXIT}
<1>1. CASE cs # {}
  <2>1. /\ phase' = QUERY /\ owed' = Send(ow, cs, "query")
        /\ waitingClients' = cs /\ waitingApps' = {} /\ ending' = ending \cup cs
    BY <1>1 DEF ProcessPhaseQueryEndSession, AwaitClients
  <2>2. \A c \in cs : IsXsmp(c) => OwesAnswer(owed', c, phase')
    BY <2>1, SendLast DEF OwesAnswer, Request
  <2> QED
    BY <2>1, <2>2 DEF ListsRight, RUNNING, QUERY
<1>2. CASE cs = {}
  <2>1. ProcessPhaseEndSessionPhase2(cs, ow, pw)
    BY <1>2 DEF ProcessPhaseQueryEndSession, ProcessPhaseEndSessionPhase1
  <2> QED
    BY <2>1, Phase2Lists DEF ListsRight, RUNNING, EXIT
<1> QED
  BY <1>1, <1>2

LEMMA StartupLists ==
  ASSUME PhaseTypes, phase < RUNNING, NEW cs, ClientsStarted(cs, phase),
         NEW ow, NEW pr \in [App -> Nat], ProcessPhaseStartup(ow, pr)
  PROVE  ListsRight(cs) /\ phase' > phase /\ phase' <= RUNNING
<1>1. PICK next \in (phase + 1 .. DESKTOP) \cup {RUNNING} :
        \E launched \in SUBSET {a \in App : PhaseOf[a] =
                              IF next = RUNNING THEN APPLICATION ELSE next} :
          StartsPhase(next, launched, ow, pr)
  BY DEF ProcessPhaseStartup, StartupTimer, StartsPhase
<1>2. PICK launched \in SUBSET {a \in App : PhaseOf[a] =
                              IF next = RUNNING THEN APPLICATION ELSE next} :
        StartsPhase(next, launched, ow, pr)
  BY <1>1
<1>3. next > phase /\ next <= RUNNING /\ phase \in Int /\ next \in Int
  BY DEF PhaseTypes, Phase, IDLE, EXIT, DESKTOP, RUNNING
<1>4. phase' = next /\ waitingClients' = {} /\ ending' = ending
  BY <1>2 DEF StartsPhase
<1>5. ASSUME NEW a \in waitingApps'
      PROVE  /\ PhaseOf[a] = phase'
             /\ Pending(a)'
             /\ \A c \in cs : IdOf[c] # a
  <2>1. a \in App /\ a \in launched /\ PhaseOf[a] = next
    BY <1>2, <1>5 DEF StartsPhase
  <2>2. procs'[a] = pr[a] + 1 \/ a \in delayed'
    BY <1>2, <2>1 DEF StartsPhase
  <2>3. pr[a] \in Nat
    BY <2>1
  <2>4. \A c \in cs : IdOf[c] # a
    BY <1>3, <2>1 DEF ClientsStarted
  <2> QED
    BY <1>4, <2>1, <2>2, <2>3, <2>4 DEF Pending
<1>6. phase <= RUNNING
  BY <1>3 DEF RUNNING
<1> QED
  BY <1>3, <1>4, <1>5, <1>6 DEF ListsRight

\* Lists that have not changed, or only lost members, in the same phase.
LEMMA FewerLists ==
  ASSUME WInv, phase' = phase, waitingApps' \subseteq waitingApps,
         waitingClients' \subseteq waitingClients, ending' = ending,
         \A a \in waitingApps' : Pending(a) => Pending(a)',
         \A c \in waitingClients' :
           owed'[c] = owed[c] \/ owed'[c] = Append(owed[c], "local"),
         NEW cs, \A a \in waitingApps', c \in cs : IdOf[c] # a
  PROVE  ListsRight(cs)
<1>1. ASSUME NEW a \in waitingApps'
      PROVE  PhaseOf[a] = phase' /\ Pending(a)'
  BY DEF WInv, WaitsOnlyForStartingApps, Pending
<1>2. ASSUME NEW c \in waitingClients', IsXsmp(c)
      PROVE  OwesAnswer(owed', c, phase')
  <2>1. OwesAnswer(owed, c, phase) /\ owed[c] \in Seq(Request)
    BY <1>2 DEF WInv, WaitsOnlyForAnswers, OwesAnswer, IInv, PhaseTypes
  <2> QED
    BY <2>1, LocalKeeps DEF OwesAnswer
<1>3. waitingClients' \subseteq ending'
  BY DEF WInv, CancelReachesAll
<1> QED
  BY <1>1, <1>2, <1>3 DEF ListsRight

LEMMA StartNextPhaseLists ==
  ASSUME WInv, phase # IDLE, NEW cs \in SUBSET clients,
         NEW ow \in [Conn -> Seq(Request)], NEW pw, StartNextPhase(cs, ow, pw)
  PROVE  /\ ListsRight(cs)
         /\ phase < RUNNING => phase' <= RUNNING
         /\ phase = RUNNING => phase' \in {QUERY, EXIT}
         /\ phase = QUERY => phase' \in {PHASE1, EXIT}
         /\ phase > QUERY => phase' = EXIT
<1>1. /\ PhaseTypes /\ cs \in SUBSET Conn /\ ClientsStarted(cs, phase)
      /\ NeverStuck /\ procs \in [App -> Nat]
  BY DEF WInv, IInv, OtherTypes, PhaseTypes, ClientsStarted
<1>2. CASE phase \in WaitedStartupPhase /\ ProcessPhaseStartup(ow, procs)
  <2>1. phase < RUNNING /\ ~(phase >= RUNNING)
    BY <1>2 DEF WaitedStartupPhase, INITIALIZATION, DESKTOP, RUNNING
  <2> QED
    BY <1>1, <1>2, <2>1, StartupLists DEF RUNNING, QUERY, WaitedStartupPhase,
                                          INITIALIZATION, DESKTOP
<1>3. CASE phase = RUNNING /\ ProcessPhaseQueryEndSession(cs, ow, pw)
  <2>1. ListsRight(cs) /\ phase' \in {QUERY, EXIT}
    BY <1>1, <1>3, QueryLists
  <2> QED
    BY <1>3, <2>1 DEF RUNNING, QUERY
<1>4. CASE phase = QUERY /\ ProcessPhaseEndSessionPhase1(cs, ow, pw)
  <2>1. ListsRight(cs) /\ phase' \in {PHASE1, EXIT}
    BY <1>1, <1>4, Phase1Lists
  <2> QED
    BY <1>4, <2>1 DEF RUNNING, QUERY
<1>5. CASE phase = PHASE1 /\ ProcessPhaseEndSessionPhase2(cs, ow, pw)
  BY <1>5, Phase2Lists DEF ListsRight, RUNNING, QUERY, PHASE1, EXIT
<1>6. CASE phase = EXIT /\ UNCHANGED <<phase, waitingClients, ending>>
           /\ UNCHANGED startupVars
  <2>1. waitingApps = {} /\ waitingClients = {}
    BY <1>1, <1>6 DEF NeverStuck, EXIT, WaitedStartupPhase, INITIALIZATION, DESKTOP,
                      QUERY, PHASE1
  <2> QED
    BY <1>6, <2>1 DEF ListsRight, startupVars, EXIT, RUNNING, QUERY
<1> QED
  BY <1>2, <1>3, <1>4, <1>5, <1>6 DEF StartNextPhase

LEMMA QueryCompleteLists ==
  ASSUME WInv, NEW cs \in SUBSET Conn, NEW ow \in [Conn -> Seq(Request)], NEW inh,
         QueryEndSessionComplete(cs, ow, inh)
  PROVE  /\ ListsRight(cs) /\ phase = QUERY
         /\ \/ phase' = QUERY /\ exitWindow' /\ inh # {}
            \/ phase' \in {PHASE1, EXIT} /\ exitWindow' = exitWindow /\ inh = {}
<1>1. CASE ~Inhibited(inh) /\ ProcessPhaseEndSessionPhase1(cs, ow, powerAction)
           /\ UNCHANGED exitWindow
  BY <1>1, Phase1Lists DEF QueryEndSessionComplete, Inhibited
<1>2. CASE /\ Inhibited(inh) /\ waitingClients' = {} /\ exitWindow' = TRUE
           /\ UNCHANGED <<phase, ending>> /\ UNCHANGED startupVars
  <2>1. waitingApps = {} /\ phase = QUERY
    BY <1>2 DEF QueryEndSessionComplete, WInv, IInv, NeverStuck, QUERY, IDLE,
                WaitedStartupPhase, INITIALIZATION, DESKTOP, RUNNING, PHASE1, EXIT
  <2> QED
    BY <1>2, <2>1 DEF ListsRight, startupVars, Inhibited, QUERY, RUNNING
<1> QED
  BY <1>1, <1>2 DEF QueryEndSessionComplete

\* How the phase, the inhibitors and the exit window change together.
Moves ==
  /\ phase < RUNNING /\ phase' >= RUNNING =>
       phase' = RUNNING /\ inhibitors' = inhibitors
  /\ phase = RUNNING /\ phase' > RUNNING =>
       phase' \in {QUERY, EXIT} /\ inhibitors' = inhibitors /\ exitWindow' = exitWindow
  /\ phase = QUERY /\ phase' = QUERY =>
       exitWindow' = exitWindow \/ (exitWindow' /\ inhibitors' # {})
  /\ phase = QUERY /\ phase' > QUERY =>
       /\ phase' \in {PHASE1, EXIT}
       /\ \/ inhibitors' = {} /\ exitWindow' = exitWindow
          \/ exitWindow /\ ~exitWindow' /\ inhibitors' = inhibitors
  /\ phase > QUERY /\ phase' > QUERY => (exitWindow' => exitWindow)

LEMMA ResponseLists ==
  ASSUME WInv, NEW c \in Conn, NEW cs \in SUBSET clients,
         NEW ow \in [Conn -> Seq(Request)], \A d \in Conn \ {c} : ow[d] = owed[d],
         OnEndSessionResponse(c, cs, ow, inhibitors')
  PROVE  ListsRight(cs) /\ Moves
<1>1. cs \in SUBSET Conn /\ phase \in Int
  BY DEF WInv, IInv, OtherTypes, PhaseTypes, Phase, IDLE, EXIT
<1>2. CASE QueryEndSessionComplete(cs, ow, inhibitors')
  <2>1. /\ ListsRight(cs) /\ phase = QUERY
        /\ \/ phase' = QUERY /\ exitWindow' /\ inhibitors' # {}
           \/ phase' \in {PHASE1, EXIT} /\ exitWindow' = exitWindow /\ inhibitors' = {}
    BY <1>1, <1>2, QueryCompleteLists
  <2> QED
    BY <2>1 DEF Moves, QUERY, RUNNING, PHASE1, EXIT
<1>3. CASE /\ phase = PHASE1
           /\ ProcessPhaseEndSessionPhase2(cs, ow, powerAction)
           /\ UNCHANGED exitWindow
  BY <1>3, Phase2Lists DEF ListsRight, Moves, QUERY, RUNNING, PHASE1, EXIT,
                           WInv, CancelReachesAll
<1>4. CASE /\ waitingClients' = IF phase < QUERY THEN waitingClients ELSE ClientsLeft(c)
           /\ owed' = ow
           /\ UNCHANGED <<phase, ending, exitWindow>>
           /\ UNCHANGED startupVars
  <2>1. waitingClients' \subseteq waitingClients \ {c}
    <3>1. phase < QUERY => waitingClients = {}
      BY DEF WInv, IInv, NeverStuck, QUERY, PHASE1
    <3> QED
      BY <1>4, <3>1 DEF ClientsLeft
  <2>2. \A d \in waitingClients' : owed'[d] = owed[d]
    BY <1>4, <2>1 DEF WInv, IInv, PhaseTypes
  <2>3. \A a \in waitingApps' : Pending(a) => Pending(a)'
    BY <1>4 DEF startupVars, Pending
  <2>4. \A a \in waitingApps', d \in cs : IdOf[d] # a
    BY <1>4 DEF startupVars, WInv, WaitsOnlyForStartingApps
  <2>5. ListsRight(cs)
    BY <1>4, <2>1, <2>2, <2>3, <2>4, FewerLists DEF startupVars
  <2> QED
    BY <1>1, <1>4, <2>5 DEF Moves, RUNNING, QUERY
<1> QED
  BY <1>2, <1>3, <1>4 DEF OnEndSessionResponse

\* An app has reported: its process ended, or its client registered.
LEMMA AppFinishedLists ==
  ASSUME WInv, NEW a \in App, NEW ow, \A d \in waitingClients : ow[d] = owed[d],
         NEW pr \in [App -> Nat], \A b \in App \ {a} : pr[b] = procs[b],
         NEW cs, ClientsStarted(cs, phase), \A c \in cs \ clients : IdOf[c] = a,
         OnAppStartupFinished(a, ow, pr)
  PROVE  /\ ListsRight(cs)
         /\ phase' = phase \/ (phase < APPLICATION /\ phase' <= RUNNING)
<1>1. CASE phase < APPLICATION /\ ProcessPhaseStartup(ow, pr)
  BY <1>1, StartupLists DEF WInv, IInv, PhaseTypes, Phase, IDLE, EXIT, APPLICATION, RUNNING
<1>2. CASE /\ waitingApps' = AppsLeft(a)
           /\ procs' = pr
           /\ owed' = ow
           /\ UNCHANGED <<delayed, unlaunched>>
           /\ UNCHANGED endVars
  <2>1. waitingApps' \subseteq waitingApps \ {a} /\ waitingApps' \subseteq App
    BY <1>2 DEF AppsLeft, WInv, IInv, PhaseTypes
  <2>2. \A b \in waitingApps' : Pending(b) => Pending(b)'
    BY <1>2, <2>1 DEF Pending
  <2>3. \A b \in waitingApps', c \in cs : IdOf[c] # b
    BY <2>1 DEF WInv, WaitsOnlyForStartingApps
  <2>4. waitingClients' = waitingClients /\ phase' = phase /\ ending' = ending
    BY <1>2 DEF endVars
  <2> QED
    BY <1>2, <2>1, <2>2, <2>3, <2>4, FewerLists
<1> QED
  BY <1>1, <1>2 DEF OnAppStartupFinished

-----------------------------------------------------------------------------
(* Every step keeps WInv, and moves the session as Moves says.             *)

\* What is left to show of a handler, once Kept is known.
LEMMA ListsKept ==
  ASSUME WInv, Kept, Comings, ListsRight(clients'), ClientsStarted(clients', phase)
  PROVE  WInv'
<1>1. phase \in Int /\ phase' \in Int /\ (phase' < phase => phase' = RUNNING)
  BY DEF WInv, Kept, IInv, PhaseTypes, Phase, IDLE, EXIT
<1>2. ClientsStarted(clients', phase')
  <2> SUFFICES ASSUME NEW c \in clients', IdOf[c] \in App
               PROVE  PhaseOf[IdOf[c]] <= phase'
    BY DEF ClientsStarted
  <2>1. /\ PhaseOf[IdOf[c]] \in Int /\ PhaseOf[IdOf[c]] <= phase
        /\ PhaseOf[IdOf[c]] <= RUNNING
    BY AppAssumption DEF ClientsStarted, INITIALIZATION, APPLICATION, RUNNING
  <2> QED
    BY <1>1, <2>1
<1>3. WaitsOnlyForAnswers' /\ WaitsOnlyForStartingApps'
  BY DEF ListsRight, OwesAnswer, Pending, WaitsOnlyForAnswers, WaitsOnlyForStartingApps,
         Kept, IInv
<1>4. CancelReachesAll' /\ (clients \cup ending \subseteq used)'
  <2>1. phase' <= RUNNING => clients' \cap ending' = {}
    <3>1. CASE phase <= RUNNING /\ ending' = ending
      BY <3>1 DEF Comings, WInv, CancelReachesAll
    <3> QED
      BY <3>1 DEF ListsRight
  <2> QED
    BY <2>1 DEF Comings, WInv, ListsRight, CancelReachesAll
<1> QED
  BY <1>2, <1>3, <1>4 DEF WInv, Kept

\* A handler that leaves phases, lists and clients as they are.
LEMMA QuietLists ==
  ASSUME WInv, Kept, Comings,
         UNCHANGED <<phase, waitingApps, waitingClients, clients, ending, exitWindow>>,
         \A a \in App : Pending(a) => Pending(a)',
         \A c \in waitingClients :
           owed'[c] = owed[c] \/ owed'[c] = Append(owed[c], "local")
  PROVE  WInv' /\ Moves
<1>1. /\ waitingApps' \subseteq waitingApps /\ waitingClients' \subseteq waitingClients
      /\ \A a \in waitingApps' : Pending(a) => Pending(a)'
      /\ \A a \in waitingApps', c \in clients' : IdOf[c] # a
  BY DEF WInv, IInv, PhaseTypes, WaitsOnlyForStartingApps
<1>2. ListsRight(clients')
  BY <1>1, FewerLists
<1>3. WInv'
  BY <1>2, ListsKept DEF WInv
<1>4. phase \in Int
  BY DEF WInv, IInv, PhaseTypes, Phase, IDLE, EXIT
<1> QED
  BY <1>3, <1>4 DEF Moves, RUNNING, QUERY

\* The handlers that call start_next_phase.
LEMMA StartNextPhaseSteps ==
  ASSUME WInv, Kept, Comings, NEW ow \in [Conn -> Seq(Request)], NEW pw, phase # IDLE,
         StartNextPhase(clients, ow, pw), clients' = clients,
         phase <= RUNNING => inhibitors' = inhibitors /\ exitWindow' = exitWindow,
         phase = QUERY => exitWindow /\ ~exitWindow' /\ inhibitors' = inhibitors,
         phase > QUERY => (exitWindow' => exitWindow)
  PROVE  WInv' /\ Moves
<1>1. /\ ListsRight(clients)
      /\ phase < RUNNING => phase' <= RUNNING
      /\ phase = RUNNING => phase' \in {QUERY, EXIT}
      /\ phase = QUERY => phase' \in {PHASE1, EXIT}
  BY StartNextPhaseLists
<1>2. WInv'
  BY <1>1, ListsKept DEF WInv
<1>3. phase \in Int /\ phase' \in Int
  BY DEF WInv, Kept, IInv, PhaseTypes, Phase, IDLE, EXIT
<1>4. phase' # QUERY \/ phase # QUERY
  BY <1>1 DEF QUERY, PHASE1, EXIT
<1> QED
  BY <1>1, <1>2, <1>3, <1>4 DEF Moves, RUNNING, QUERY

\* An answer, of a client that stays or of one that leaves.
LEMMA ResponseSteps ==
  ASSUME WInv, Kept, Comings, NEW c \in Conn, NEW ow \in [Conn -> Seq(Request)],
         \A d \in Conn \ {c} : ow[d] = owed[d],
         clients' \subseteq clients, OnEndSessionResponse(c, clients', ow, inhibitors')
  PROVE  WInv' /\ Moves
<1>1. ListsRight(clients') /\ Moves
  BY ResponseLists
<1>2. ClientsStarted(clients', phase)
  BY DEF WInv, ClientsStarted
<1> QED
  BY <1>1, <1>2, ListsKept

\* The end of the session is cancelled.
LEMMA CancelSteps ==
  ASSUME WInv, Kept, Comings, NEW extra, CancelEndSession(extra), clients' = clients
  PROVE  WInv' /\ Moves
<1>1. /\ phase' = RUNNING /\ phase >= QUERY
      /\ waitingApps' = {} /\ waitingClients' = {} /\ ending' = ending \ clients
  BY DEF CancelEndSession, ClearWaiting, AwaitClients, ShutdownCancelled
<1>2. WInv'
  BY <1>1, ListsKept DEF ListsRight, WInv
<1>3. phase \in Int
  BY DEF WInv, IInv, PhaseTypes, Phase, IDLE, EXIT
<1> QED
  BY <1>1, <1>2, <1>3 DEF Moves, RUNNING, QUERY

\* What apps and start-up do.
LEMMA AppSteps ==
  ASSUME WInv, Kept, Comings, Start \/ PhaseStartupTimeout \/ \E a \in App : AppNext(a)
  PROVE  WInv' /\ Moves
<1>1. /\ phase \in Int /\ phase' \in Int /\ PhaseTypes
      /\ owed \in [Conn -> Seq(Request)] /\ procs \in [App -> Nat]
      /\ ClientsStarted(clients, phase)
  BY DEF WInv, Kept, IInv, PhaseTypes, Phase, IDLE, EXIT
<1>2. CASE Start
  <2>1. phase < RUNNING /\ ProcessPhaseStartup(owed, procs)
        /\ clients' = clients /\ inhibitors' = inhibitors
    BY <1>2 DEF Start, clientVars, IDLE, RUNNING
  <2>2. ListsRight(clients) /\ phase' <= RUNNING
    BY <1>1, <2>1, StartupLists
  <2>3. WInv'
    BY <1>1, <2>1, <2>2, ListsKept
  <2> QED
    BY <1>1, <2>1, <2>2, <2>3 DEF Moves, RUNNING, QUERY
<1>3. CASE PhaseStartupTimeout
  <2>1. /\ phase \in WaitedStartupPhase
        /\ StartNextPhase(clients, owed, powerAction)
        /\ clients' = clients /\ inhibitors' = inhibitors /\ exitWindow' = exitWindow
    BY <1>3 DEF PhaseStartupTimeout, clientVars, WInv, IInv, NeverStuck
  <2>2. phase # IDLE /\ phase # QUERY /\ ~(phase > QUERY)
    BY <2>1 DEF WaitedStartupPhase, INITIALIZATION, DESKTOP, IDLE, QUERY
  <2> QED
    BY <1>1, <2>1, <2>2, StartNextPhaseSteps
<1>4. ASSUME NEW a \in App, DelayedStart(a) \/ AppRestart(a) PROVE WInv' /\ Moves
  <2>1. UNCHANGED <<phase, waitingApps, waitingClients, clients, ending, exitWindow,
                    owed>>
    BY <1>4 DEF DelayedStart, AppRestart, endVars, clientVars
  <2>2. ASSUME NEW b \in App, Pending(b) PROVE Pending(b)'
    <3>1. CASE DelayedStart(a)
      BY <1>1, <2>2, <3>1 DEF DelayedStart, Pending
    <3>2. CASE AppRestart(a)
      BY <1>1, <2>2, <3>2 DEF AppRestart, Pending
    <3> QED
      BY <1>4, <3>1, <3>2
  <2> QED
    BY <2>1, <2>2, QuietLists
<1>5. ASSUME NEW a \in App, AppExited(a) PROVE WInv' /\ Moves
  <2> DEFINE pr == [procs EXCEPT ![a] = @ - 1]
  <2>1. /\ OnAppStartupFinished(a, owed, pr) /\ procs[a] > 0
        /\ clients' = clients /\ inhibitors' = inhibitors /\ exitWindow' = exitWindow
    BY <1>5 DEF AppExited, clientVars
  <2>2. pr \in [App -> Nat] /\ \A b \in App \ {a} : pr[b] = procs[b]
    BY <1>1, <2>1
  <2> HIDE DEF pr
  <2>3. /\ ListsRight(clients)
        /\ phase' = phase \/ (phase < APPLICATION /\ phase' <= RUNNING)
    BY <1>1, <2>1, <2>2, AppFinishedLists
  <2>4. WInv'
    BY <1>1, <2>1, <2>3, ListsKept
  <2> QED
    BY <1>1, <2>1, <2>3, <2>4 DEF Moves, APPLICATION, RUNNING, QUERY
<1> QED
  BY <1>2, <1>3, <1>4, <1>5 DEF AppNext

\* A client that registers.
LEMMA AddClientSteps ==
  ASSUME WInv, Kept, Comings, NEW c \in Conn, NEW ow \in [Conn -> Seq(Request)],
         \A d \in Conn \ {c} : ow[d] = owed[d], AddClient(c, ow)
  PROVE  WInv' /\ Moves
<1>1. /\ clients' = clients \cup {c} /\ c \notin clients
      /\ inhibitors' = inhibitors /\ exitWindow' = exitWindow
      /\ IdOf[c] \in App => PhaseOf[IdOf[c]] <= phase
  BY DEF AddClient, IdIsFree
<1>2. /\ phase \in Int /\ phase' \in Int /\ procs \in [App -> Nat]
      /\ waitingClients \subseteq clients /\ waitingClients \subseteq Conn
  BY DEF WInv, Kept, IInv, PhaseTypes, Phase, IDLE, EXIT
<1>3. ClientsStarted(clients', phase)
  BY <1>1 DEF WInv, ClientsStarted
<1>4. \A d \in waitingClients : ow[d] = owed[d]
  BY <1>1, <1>2
<1>5. CASE IdOf[c] \in App /\ OnAppStartupFinished(IdOf[c], ow, procs)
  <2>1. /\ ListsRight(clients')
        /\ phase' = phase \/ (phase < APPLICATION /\ phase' <= RUNNING)
    BY <1>1, <1>2, <1>3, <1>4, <1>5, AppFinishedLists
  <2>2. WInv'
    BY <1>3, <2>1, ListsKept
  <2> QED
    BY <1>1, <1>2, <2>1, <2>2 DEF Moves, APPLICATION, RUNNING, QUERY
<1>6. CASE IdOf[c] \notin App /\ owed' = ow /\ UNCHANGED endVars /\ UNCHANGED startupVars
  <2>1. /\ phase' = phase /\ waitingApps' = waitingApps /\ waitingClients' = waitingClients
        /\ UNCHANGED <<procs, delayed, unlaunched, ending>>
    BY <1>6 DEF endVars, startupVars
  <2>2. \A a \in waitingApps', d \in clients' : IdOf[d] # a
    BY <1>1, <1>6, <2>1 DEF WInv, WaitsOnlyForStartingApps, IInv, PhaseTypes
  <2>3. \A a \in waitingApps' : Pending(a) => Pending(a)'
    BY <2>1 DEF Pending
  <2>4. ListsRight(clients')
    BY <1>4, <1>6, <2>1, <2>2, <2>3, FewerLists
  <2>5. WInv'
    BY <1>3, <2>4, ListsKept
  <2> QED
    BY <1>1, <1>2, <2>1, <2>5 DEF Moves, RUNNING, QUERY
<1> QED
  BY <1>5, <1>6 DEF AddClient

\* What a client does.
LEMMA ClientSteps ==
  ASSUME WInv, Kept, Comings, NEW c \in Conn, ClientNext(c) PROVE WInv' /\ Moves
<1>1. /\ owed \in [Conn -> Seq(Request)] /\ procs \in [App -> Nat]
      /\ waitingClients \subseteq clients /\ waitingClients \subseteq Conn
  BY DEF WInv, IInv, PhaseTypes
<1>2. UNCHANGED startupVars => \A a \in App : Pending(a) => Pending(a)'
  BY DEF startupVars, Pending
<1>3. CASE RegisterClient(c) \/ RegisterXsmpClient(c)
  <2>1. /\ Send(owed, {c}, "initial") \in [Conn -> Seq(Request)]
        /\ \A d \in Conn \ {c} : Send(owed, {c}, "initial")[d] = owed[d]
    BY <1>1, SendType DEF Request, Send
  <2> QED
    BY <1>1, <1>3, <2>1, AddClientSteps DEF RegisterClient, RegisterXsmpClient
<1>4. CASE DeleteClient(c)
  <2> DEFINE ow == [owed EXCEPT ![c] = <<>>]
  <2>1. ow \in [Conn -> Seq(Request)]
    <3>1. <<>> \in Seq(Request)
      BY EmptySeq
    <3> QED
      BY <1>1, <3>1
  <2>2. \A d \in Conn \ {c} : ow[d] = owed[d]
    BY <1>1
  <2>3. clients' \subseteq clients /\ OnEndSessionResponse(c, clients', ow, inhibitors')
    BY <1>4 DEF DeleteClient
  <2> HIDE DEF ow
  <2> QED
    BY <2>1, <2>2, <2>3, ResponseSteps
<1>5. CASE SaveYourselfDone(c)
  <2> DEFINE ow == [owed EXCEPT ![c] = Tail(@)]
  <2>1. ow \in [Conn -> Seq(Request)]
    BY <1>1, <1>5, AnswerType DEF SaveYourselfDone, Answers
  <2>2. \A d \in Conn \ {c} : ow[d] = owed[d]
    BY <1>1
  <2>3. clients' \subseteq clients /\ OnEndSessionResponse(c, clients', ow, inhibitors')
    BY <1>5 DEF SaveYourselfDone, clientVars
  <2> HIDE DEF ow
  <2> QED
    BY <2>1, <2>2, <2>3, ResponseSteps
<1>10. CASE \E isOk \in BOOLEAN : EndSessionResponse(c, isOk)
  <2>1. clients' = clients /\ inhibitors' = inhibitors
    BY <1>10 DEF EndSessionResponse, clientVars
  <2>2. CASE OnEndSessionResponse(c, clients, owed, inhibitors)
    <3>1. OnEndSessionResponse(c, clients', owed, inhibitors') /\ clients' \subseteq clients
      BY <2>1, <2>2
    <3> QED
      BY <1>1, <3>1, ResponseSteps
  <2>3. CASE UNCHANGED <<owed, exitWindow>> /\ UNCHANGED endVars /\ UNCHANGED startupVars
    BY <1>2, <2>1, <2>3, QuietLists DEF endVars, startupVars
  <2> QED
    BY <1>10, <2>2, <2>3 DEF EndSessionResponse
<1>6. CASE InteractRequest(c)
  <2>1. clients' = clients
    BY <1>6 DEF InteractRequest
  <2>2. CASE OnEndSessionResponse(c, clients, owed, inhibitors')
    <3>1. OnEndSessionResponse(c, clients', owed, inhibitors') /\ clients' \subseteq clients
      BY <2>1, <2>2
    <3> QED
      BY <1>1, <3>1, ResponseSteps
  <2>3. CASE UNCHANGED <<exitWindow, owed>> /\ UNCHANGED endVars /\ UNCHANGED startupVars
    BY <1>2, <2>1, <2>3, QuietLists DEF endVars, startupVars
  <2> QED
    BY <1>6, <2>2, <2>3 DEF InteractRequest
<1>7. CASE \E cancelShutdown \in BOOLEAN : InteractDone(c, cancelShutdown)
  <2>1. clients' = clients
    BY <1>7 DEF InteractDone
  <2>2. CASE CancelEndSession({IdOf[c]})
    BY <2>1, <2>2, CancelSteps
  <2>3. CASE UNCHANGED <<exitWindow, owed>> /\ UNCHANGED endVars /\ UNCHANGED startupVars
    BY <1>2, <2>1, <2>3, QuietLists DEF endVars, startupVars
  <2> QED
    BY <1>7, <2>2, <2>3 DEF InteractDone
<1>8. CASE SaveYourselfPhase2Request(c)
  BY <1>2, <1>8, QuietLists DEF SaveYourselfPhase2Request, startupVars, clientVars
<1>9. CASE SaveYourselfRequest(c)
  <2>1. /\ owed' = Send(owed, {c}, "local") /\ UNCHANGED startupVars
        /\ UNCHANGED <<phase, waitingApps, waitingClients, clients, ending, exitWindow>>
    BY <1>9 DEF SaveYourselfRequest, endVars, startupVars, clientVars
  <2>2. \A d \in waitingClients :
          owed'[d] = owed[d] \/ owed'[d] = Append(owed[d], "local")
    BY <1>1, <2>1 DEF Send
  <2> QED
    BY <1>2, <2>1, <2>2, QuietLists
<1> QED
  BY <1>3, <1>4, <1>5, <1>6, <1>7, <1>8, <1>9, <1>10
     DEF ClientNext, XsmpClientGone, DBusClientGone

\* What a caller, the user or the timer of the clients does.
LEMMA SessionSteps ==
  ASSUME WInv, Kept, Comings, Logout \/ Shutdown \/ Reboot \/ WaitingSessionTimeout
                       \/ ExitWindowOk \/ ExitWindowCancel
  PROVE  WInv' /\ Moves
<1>1. owed \in [Conn -> Seq(Request)] /\ phase \in Int /\ clients \in SUBSET Conn
  BY DEF WInv, IInv, PhaseTypes, OtherTypes, Phase, IDLE, EXIT
<1>2. ASSUME NEW action, EndSession(action) PROVE WInv' /\ Moves
  <2>1. /\ StartNextPhase(clients, owed, action) /\ phase # IDLE /\ phase <= RUNNING
        /\ clients' = clients /\ inhibitors' = inhibitors /\ exitWindow' = exitWindow
    BY <1>2 DEF EndSession, Dispatching, clientVars
  <2>2. phase # QUERY /\ ~(phase > QUERY)
    BY <1>1, <2>1 DEF RUNNING, QUERY
  <2> QED
    BY <1>1, <2>1, <2>2, StartNextPhaseSteps
<1>3. CASE WaitingSessionTimeout
  <2>1. clients' = clients
    BY <1>3 DEF WaitingSessionTimeout, clientVars
  <2>2. CASE QueryEndSessionComplete(clients, owed, inhibitors')
    <3>1. /\ ListsRight(clients) /\ phase = QUERY
          /\ \/ phase' = QUERY /\ exitWindow' /\ inhibitors' # {}
             \/ phase' \in {PHASE1, EXIT} /\ exitWindow' = exitWindow /\ inhibitors' = {}
      BY <1>1, <2>2, QueryCompleteLists
    <3>2. WInv'
      BY <2>1, <3>1, ListsKept DEF WInv
    <3> QED
      BY <3>1, <3>2 DEF Moves, RUNNING, QUERY
  <2>3. CASE /\ clientTimer = "start_next_phase"
             /\ StartNextPhase(clients, owed, powerAction)
             /\ UNCHANGED exitWindow
    <3>1. phase = PHASE1
      BY <2>3 DEF WInv, IInv, NeverStuck
    <3>2. phase # IDLE /\ phase # QUERY /\ ~(phase <= RUNNING)
      BY <3>1 DEF IDLE, QUERY, PHASE1, RUNNING
    <3> QED
      BY <1>1, <2>1, <2>3, <3>2, StartNextPhaseSteps
  <2> QED
    BY <1>3, <2>2, <2>3 DEF WaitingSessionTimeout
<1>4. CASE ExitWindowOk
  <2>1. /\ StartNextPhase(clients, owed, powerAction) /\ exitWindow /\ ~exitWindow'
        /\ clients' = clients /\ inhibitors' = inhibitors /\ phase # IDLE
    BY <1>4 DEF ExitWindowOk, Dispatching, clientVars
  <2>2. ~(phase <= RUNNING)
    BY <2>1 DEF WInv, IInv, CleanWhenNotEnding
  <2> QED
    BY <1>1, <2>1, <2>2, StartNextPhaseSteps
<1>5. CASE ExitWindowCancel
  BY <1>5, CancelSteps DEF ExitWindowCancel, clientVars
<1> QED
  BY <1>2, <1>3, <1>4, <1>5 DEF Logout, Shutdown, Reboot

\* Only registering adds a client, and it uses up the connection.
LEMMA NextComings == ASSUME WInv, [Next]_vars PROVE Comings
<1>1. clients \subseteq used
  BY DEF WInv
<1>2. CASE clients' = clients /\ used' = used
  BY <1>1, <1>2 DEF Comings
<1>3. ASSUME NEW c, NEW ow, AddClient(c, ow) PROVE Comings
  BY <1>1, <1>3 DEF AddClient, Comings
<1>4. ASSUME NEW c, DeleteClient(c) PROVE Comings
  BY <1>1, <1>4 DEF DeleteClient, Comings
<1>5. ASSUME NEW c \in Conn, ClientNext(c) PROVE Comings
  <2>1. CASE RegisterClient(c) \/ RegisterXsmpClient(c)
    BY <1>3, <2>1 DEF RegisterClient, RegisterXsmpClient
  <2>2. CASE XsmpClientGone(c) \/ DBusClientGone(c)
    BY <1>4, <2>2 DEF XsmpClientGone, DBusClientGone
  <2>3. CASE SaveYourselfDone(c) \/ \E isOk \in BOOLEAN : EndSessionResponse(c, isOk)
    BY <1>2, <2>3 DEF SaveYourselfDone, EndSessionResponse, clientVars
  <2>4. CASE InteractRequest(c) \/ \E cancelShutdown \in BOOLEAN : InteractDone(c, cancelShutdown)
    BY <1>2, <2>4 DEF InteractRequest, InteractDone
  <2>5. CASE SaveYourselfPhase2Request(c) \/ SaveYourselfRequest(c)
    BY <1>2, <2>5 DEF SaveYourselfPhase2Request, SaveYourselfRequest, clientVars
  <2> QED
    BY <1>5, <2>1, <2>2, <2>3, <2>4, <2>5 DEF ClientNext
<1>6. ASSUME NEW a \in App, AppNext(a) PROVE Comings
  BY <1>2, <1>6 DEF AppNext, DelayedStart, AppExited, AppRestart, clientVars
<1>7. CASE SessionNext
  BY <1>2, <1>7 DEF SessionNext, Start, PhaseStartupTimeout, Logout, Shutdown, Reboot,
     EndSession, WaitingSessionTimeout, ExitWindowOk, ExitWindowCancel, clientVars
<1>8. ASSUME NEW k, Inhibit(k) \/ Uninhibit(k) PROVE Comings
  BY <1>2, <1>8 DEF Inhibit, Uninhibit, clientVars
<1>9. CASE UNCHANGED vars
  BY <1>2, <1>9 DEF vars
<1> QED
  BY <1>5, <1>6, <1>7, <1>8, <1>9 DEF Next

LEMMA NextMoves == ASSUME WInv, [Next]_vars PROVE WInv' /\ Moves
<1>1. Kept /\ Comings
  BY NextKept, StutterKept, NextComings DEF WInv
<1>2. UNCHANGED startupVars => \A a \in App : Pending(a) => Pending(a)'
  BY DEF startupVars, Pending
<1>3. ASSUME NEW k, Inhibit(k) \/ Uninhibit(k) PROVE WInv' /\ Moves
  BY <1>1, <1>2, <1>3, QuietLists DEF Inhibit, Uninhibit, endVars, startupVars, clientVars
<1>4. CASE UNCHANGED vars
  <2>1. UNCHANGED startupVars
        /\ UNCHANGED <<phase, waitingApps, waitingClients, clients, ending, exitWindow,
                       owed>>
    BY <1>4 DEF vars, startupVars
  <2> QED
    BY <1>1, <1>2, <2>1, QuietLists
<1> QED
  BY <1>1, <1>3, <1>4, AppSteps, ClientSteps, SessionSteps DEF Next, SessionNext

LEMMA InitLists == Init => WInv
BY InitInvariant DEF Init, WInv, WaitsOnlyForAnswers, WaitsOnlyForStartingApps,
                     CancelReachesAll, ClientsStarted

\* The lists agree with the phase in every state the daemon reaches.
THEOREM ListsInvariance == Spec => []WInv
<1>1. WInv /\ [Next]_vars => WInv'
  BY NextMoves
<1> QED
  BY <1>1, InitLists, PTL DEF Spec

\* Whoever is waited for is there, and an XSMP client that is waited for still has
\* to answer the request of this very phase (on_end_session_response_cb).
THEOREM AnswersAreOwed == Spec => []WaitsOnlyForAnswers
<1>1. WInv => WaitsOnlyForAnswers
  BY DEF WInv
<1> QED
  BY <1>1, ListsInvariance, PTL

\* An app that is waited for belongs to the phase and has no client, and it lives,
\* its timer is to start it, or that timer could not (on_app_startup_finished,
\* App::on_app_exited_cb, the timer in start_apps).
THEOREM AppsAreStarting == Spec => []WaitsOnlyForStartingApps
<1>1. WInv => WaitsOnlyForStartingApps
  BY DEF WInv
<1> QED
  BY <1>1, ListsInvariance, PTL

\* Who was told that the session is ending is told when that is cancelled, and who is
\* waited for was told (cancel_end_session, query_end_session, end_session).
THEOREM CancelIsTold == Spec => []CancelReachesAll
<1>1. WInv => CancelReachesAll
  BY DEF WInv
<1> QED
  BY <1>1, ListsInvariance, PTL

-----------------------------------------------------------------------------
(* Who is given up by start-up has reported.                               *)

\* Why app a is no longer waited for.
Reported(a) ==
  \/ procs'[a] < procs[a]
  \/ \E c \in clients' \ clients : IdOf[c] = a
  \/ PhaseStartupTimeout \/ requests' > requests

\* When the session ends no app is waited for, so that nothing can be given up.
LEMMA NoAppsAtEnd ==
  ASSUME WInv, phase >= RUNNING \/ phase = IDLE PROVE waitingApps = {}
BY DEF WInv, IInv, NeverStuck, IDLE, WaitedStartupPhase, INITIALIZATION, DESKTOP, RUNNING

\* An answer, a leaving client or an interaction concerns no app.
LEMMA ResponseApps ==
  ASSUME WInv, NEW c, NEW cs, NEW ow, NEW inh, OnEndSessionResponse(c, cs, ow, inh)
  PROVE  waitingApps \ waitingApps' = {}
<1>1. phase \in {QUERY, PHASE1} => waitingApps = {}
  BY NoAppsAtEnd DEF QUERY, PHASE1, RUNNING
<1>2. phase \in {QUERY, PHASE1} \/ waitingApps' = waitingApps
  BY DEF OnEndSessionResponse, QueryEndSessionComplete, startupVars
<1> QED
  BY <1>1, <1>2

\* The process of a ended: whatever start-up does next, it launches no app of the
\* phase that a belongs to.
LEMMA ExitedReports ==
  ASSUME WInv, NEW a \in App, AppExited(a), NEW b \in waitingApps \ waitingApps'
  PROVE  procs'[b] < procs[b]
<1> DEFINE pr == [procs EXCEPT ![a] = @ - 1]
<1>1. /\ OnAppStartupFinished(a, owed, pr) /\ procs \in [App -> Nat] /\ b \in App
      /\ phase \in Int /\ PhaseOf[b] = phase
  BY DEF AppExited, WInv, IInv, PhaseTypes, Phase, IDLE, EXIT, WaitsOnlyForStartingApps
<1>2. pr[a] = procs[a] - 1 /\ procs[a] \in Nat
  BY <1>1
<1> HIDE DEF pr
<1>3. b = a
  BY <1>1 DEF OnAppStartupFinished, AppsLeft
<1>4. procs'[a] = pr[a]
  <2>1. CASE ProcessPhaseStartup(owed, pr)
    <3>1. PICK next \in (phase + 1 .. DESKTOP) \cup {RUNNING} :
            \E launched \in SUBSET {d \in App : PhaseOf[d] =
                                  IF next = RUNNING THEN APPLICATION ELSE next} :
              StartsPhase(next, launched, owed, pr)
      BY <2>1 DEF ProcessPhaseStartup, StartupTimer, StartsPhase
    <3>2. PICK launched \in SUBSET {d \in App : PhaseOf[d] =
                                  IF next = RUNNING THEN APPLICATION ELSE next} :
            StartsPhase(next, launched, owed, pr)
      BY <3>1
    <3>3. phase < APPLICATION
      BY NoAppsAtEnd, <1>1 DEF WInv, IInv, NeverStuck, WaitedStartupPhase,
         INITIALIZATION, DESKTOP, APPLICATION, IDLE, RUNNING, QUERY, PHASE1, EXIT
    <3>4. a \notin launched
      BY <1>1, <1>3, <3>1, <3>3 DEF DESKTOP, RUNNING, APPLICATION
    <3> QED
      BY <3>2, <3>4 DEF StartsPhase
  <2>2. CASE procs' = pr
    BY <2>2
  <2> QED
    BY <1>1, <2>1, <2>2 DEF OnAppStartupFinished
<1> QED
  BY <1>2, <1>3, <1>4

LEMMA ClientReports ==
  ASSUME WInv, NEW c \in Conn, ClientNext(c), NEW a \in waitingApps \ waitingApps'
  PROVE  Reported(a)
<1>1. CASE RegisterClient(c) \/ RegisterXsmpClient(c)
  <2>1. PICK ow : AddClient(c, ow)
    BY <1>1 DEF RegisterClient, RegisterXsmpClient
  <2>2. clients' = clients \cup {c} /\ c \notin clients
    BY <2>1 DEF AddClient, IdIsFree
  <2>3. IdOf[c] = a
    BY <2>1 DEF AddClient, OnAppStartupFinished, AppsLeft, startupVars
  <2> QED
    BY <2>2, <2>3 DEF Reported
<1>2. CASE XsmpClientGone(c) \/ DBusClientGone(c)
  BY <1>2, ResponseApps DEF XsmpClientGone, DBusClientGone, DeleteClient
<1>3. CASE SaveYourselfDone(c) \/ \E isOk \in BOOLEAN : EndSessionResponse(c, isOk)
  BY <1>3, ResponseApps DEF SaveYourselfDone, EndSessionResponse, startupVars
<1>4. CASE InteractRequest(c)
  BY <1>4, ResponseApps DEF InteractRequest, startupVars
<1>5. CASE \E cancelShutdown \in BOOLEAN : InteractDone(c, cancelShutdown)
  <2>1. phase >= QUERY \/ waitingApps' = waitingApps
    BY <1>5 DEF InteractDone, startupVars
  <2>2. phase \in Int
    BY DEF WInv, IInv, PhaseTypes, Phase, IDLE, EXIT
  <2> QED
    BY <2>1, <2>2, NoAppsAtEnd DEF QUERY, RUNNING
<1>6. CASE SaveYourselfPhase2Request(c) \/ SaveYourselfRequest(c)
  BY <1>6 DEF SaveYourselfPhase2Request, SaveYourselfRequest, startupVars
<1> QED
  BY <1>1, <1>2, <1>3, <1>4, <1>5, <1>6 DEF ClientNext

LEMMA NextReports ==
  ASSUME WInv, [Next]_vars, NEW a \in waitingApps \ waitingApps' PROVE Reported(a)
<1>1. phase \in Int /\ requests \in Nat /\ phase # IDLE /\ ~(phase >= RUNNING)
  BY NoAppsAtEnd DEF WInv, IInv, OtherTypes, PhaseTypes, Phase, IDLE, EXIT
<1>2. CASE Start
  BY <1>1, <1>2 DEF Start
<1>3. CASE PhaseStartupTimeout
  BY <1>3 DEF Reported
<1>4. CASE Logout \/ Shutdown \/ Reboot
  BY <1>1, <1>4 DEF Logout, Shutdown, Reboot, EndSession, Reported
<1>5. CASE WaitingSessionTimeout
  BY <1>1, <1>5 DEF WaitingSessionTimeout, WInv, IInv, NeverStuck, QUERY, PHASE1, RUNNING
<1>6. CASE ExitWindowOk \/ ExitWindowCancel
  <2>1. exitWindow /\ phase <= RUNNING
    BY <1>1, <1>6 DEF ExitWindowOk, ExitWindowCancel, RUNNING
  <2> QED
    BY <2>1 DEF WInv, IInv, CleanWhenNotEnding
<1>7. ASSUME NEW b \in App, AppNext(b) PROVE Reported(a)
  <2>1. CASE AppExited(b)
    BY <2>1, ExitedReports DEF Reported
  <2> QED
    BY <1>7, <2>1 DEF AppNext, DelayedStart, AppRestart
<1>8. ASSUME NEW k, Inhibit(k) \/ Uninhibit(k) PROVE Reported(a)
  BY <1>8 DEF Inhibit, Uninhibit, startupVars
<1>9. CASE UNCHANGED vars
  BY <1>9 DEF vars
<1> QED
  BY <1>2, <1>3, <1>4, <1>5, <1>6, <1>7, <1>8, <1>9, ClientReports DEF Next, SessionNext

\* An app that start-up waits for is given up because its process ended, a client of it
\* registered, the phase timed out or the session is to end: other apps, which exit
\* and register at any time, neither cross it off nor move the phase on
\* (on_app_startup_finished, on_phase_startup_timeout).
THEOREM ReportsAreOwn == Spec => OnlyOwnReportCounts
<1>1. WInv /\ [Next]_vars
        => [\A a \in waitingApps \ waitingApps' :
              \/ procs'[a] < procs[a]
              \/ \E c \in clients' \ clients : IdOf[c] = a
              \/ PhaseStartupTimeout \/ requests' > requests]_vars
  BY NextReports DEF Reported
<1> QED
  BY <1>1, ListsInvariance, PTL DEF Spec, OnlyOwnReportCounts

-----------------------------------------------------------------------------
(* The life cycle, without its liveness.                                   *)

\* The stages of the phases in which the daemon rests.
LEMMA Stages ==
  ASSUME NEW p, p \in IDLE .. RUNNING \/ p \in {QUERY, PHASE1, EXIT}
  PROVE  /\ p < RUNNING => StageOf(p) = "starting"
         /\ p = RUNNING => StageOf(p) = "running"
         /\ p = QUERY   => StageOf(p) = "querying"
         /\ p = PHASE1  => StageOf(p) = "ending"
         /\ p = EXIT    => StageOf(p) = "exit"
BY DEF StageOf, IDLE, RUNNING, QUERY, PHASE1, EXIT

\* Every step is a step of the life cycle, or shows nothing of it.
LEMMA NextImplements == ASSUME WInv, WInv', Kept, Moves PROVE Lifecycle!Next
<1>1. /\ phase \in IDLE .. RUNNING \/ phase \in {QUERY, PHASE1, EXIT}
      /\ phase' \in IDLE .. RUNNING \/ phase' \in {QUERY, PHASE1, EXIT}
      /\ phase \in Int /\ phase' \in Int
  <2> USE DEF WaitedStartupPhase, IDLE, INITIALIZATION, DESKTOP, RUNNING, QUERY, PHASE1, EXIT
  <2>1. phase \in Phase /\ phase' \in Phase /\ NeverStuck /\ NeverStuck'
    BY DEF WInv, IInv, PhaseTypes
  <2>2. phase \in IDLE .. RUNNING \/ phase \in {QUERY, PHASE1, EXIT}
    BY <2>1 DEF NeverStuck
  <2>3. phase' \in IDLE .. RUNNING \/ phase' \in {QUERY, PHASE1, EXIT}
    BY <2>1 DEF NeverStuck
  <2> QED
    BY <2>1, <2>2, <2>3 DEF Phase
<1>2. /\ phase < RUNNING => StageOf(phase) = "starting"
      /\ phase = RUNNING => StageOf(phase) = "running"
      /\ phase = QUERY   => StageOf(phase) = "querying"
      /\ phase = PHASE1  => StageOf(phase) = "ending"
      /\ phase = EXIT    => StageOf(phase) = "exit"
  BY <1>1, Stages
<1>3. /\ phase' < RUNNING => StageOf(phase)' = "starting"
      /\ phase' = RUNNING => StageOf(phase)' = "running"
      /\ phase' = QUERY   => StageOf(phase)' = "querying"
      /\ phase' = PHASE1  => StageOf(phase)' = "ending"
      /\ phase' = EXIT    => StageOf(phase)' = "exit"
  BY <1>1, Stages
<1>4. /\ exitWindow \in BOOLEAN /\ exitWindow' \in BOOLEAN
      /\ phase <= RUNNING => ~exitWindow
      /\ phase' <= RUNNING => ~exitWindow'
      /\ phase' < phase => phase' = RUNNING
  BY DEF WInv, IInv, OtherTypes, CleanWhenNotEnding, Kept
<1>5. (inhibitors # {})' \in BOOLEAN
  OBVIOUS
<1>6. ASSUME StageOf(phase)' = StageOf(phase), exitWindow' => exitWindow,
             StageOf(phase) = "querying" => exitWindow' = exitWindow
      PROVE  Lifecycle!Next
  <2>1. Lifecycle!Background
    BY <1>5, <1>6 DEF Lifecycle!Background
  <2> QED
    BY <2>1 DEF Lifecycle!Next
<1>7. CASE phase < RUNNING
  <2>1. CASE phase' < RUNNING
    <3>1. phase' <= RUNNING /\ StageOf(phase)' = StageOf(phase) /\ StageOf(phase) = "starting"
      BY <1>1, <1>2, <1>3, <1>7, <2>1 DEF RUNNING
    <3> QED
      BY <1>4, <1>6, <3>1
  <2>2. CASE phase' >= RUNNING
    <3>1. phase' = RUNNING /\ inhibitors' = inhibitors
      BY <1>7, <2>2 DEF Moves
    <3>2. phase <= RUNNING /\ phase' <= RUNNING
      BY <1>1, <1>7, <3>1 DEF RUNNING
    <3>3. Lifecycle!Started
      BY <1>2, <1>3, <1>4, <1>7, <3>1, <3>2 DEF Lifecycle!Started
    <3> QED
      BY <3>3 DEF Lifecycle!Next
  <2> QED
    BY <1>1, <2>1, <2>2 DEF RUNNING
<1>8. CASE phase = RUNNING
  <2>1. CASE phase' = RUNNING
    BY <1>2, <1>3, <1>4, <1>6, <1>8, <2>1 DEF RUNNING
  <2>2. CASE phase' > RUNNING
    <3>1. phase' \in {QUERY, EXIT} /\ inhibitors' = inhibitors /\ exitWindow' = exitWindow
      BY <1>8, <2>2 DEF Moves
    <3>2. Lifecycle!Ask
      BY <1>2, <1>3, <1>8, <3>1 DEF Lifecycle!Ask
    <3> QED
      BY <3>2 DEF Lifecycle!Next
  <2> QED
    BY <1>1, <1>4, <1>8, <2>1, <2>2 DEF RUNNING
<1>9. ASSUME phase > RUNNING, phase' = RUNNING PROVE Lifecycle!Next
  <2>1. phase \in {QUERY, PHASE1, EXIT} /\ ~exitWindow'
    BY <1>1, <1>4, <1>9 DEF IDLE, RUNNING
  <2>2. Lifecycle!Cancel
    BY <1>2, <1>3, <1>5, <1>9, <2>1 DEF Lifecycle!Cancel
  <2> QED
    BY <2>2 DEF Lifecycle!Next
<1>10. CASE phase = QUERY /\ phase' # RUNNING
  <2>1. CASE phase' = QUERY
    <3>1. CASE exitWindow' = exitWindow
      BY <1>2, <1>3, <1>6, <1>10, <2>1, <3>1
    <3>2. CASE exitWindow' /\ inhibitors' # {}
      <4>1. Lifecycle!Object
        BY <1>2, <1>3, <1>10, <2>1, <3>2 DEF Lifecycle!Object
      <4> QED
        BY <4>1 DEF Lifecycle!Next
    <3> QED
      BY <1>10, <2>1, <3>1, <3>2 DEF Moves
  <2>2. CASE phase' > QUERY
    <3>1. /\ phase' \in {PHASE1, EXIT}
          /\ \/ inhibitors' = {} /\ exitWindow' = exitWindow
             \/ exitWindow /\ ~exitWindow' /\ inhibitors' = inhibitors
      BY <1>10, <2>2 DEF Moves
    <3>2. /\ StageOf(phase) = "querying" /\ StageOf(phase)' \in {"ending", "exit"}
      BY <1>2, <1>3, <1>10, <3>1
    <3>3. CASE inhibitors' = {} /\ exitWindow' = exitWindow
      BY <3>2, <3>3 DEF Lifecycle!Proceed, Lifecycle!Next
    <3>4. CASE exitWindow /\ ~exitWindow' /\ inhibitors' = inhibitors
      BY <3>2, <3>4 DEF Lifecycle!Proceed, Lifecycle!Next
    <3> QED
      BY <3>1, <3>3, <3>4
  <2> QED
    BY <1>1, <1>4, <1>10, <2>1, <2>2 DEF RUNNING, QUERY
<1>11. CASE phase > QUERY /\ phase' # RUNNING
  <2>1. /\ phase \in {PHASE1, EXIT} /\ phase' > QUERY /\ phase' \in {PHASE1, EXIT}
        /\ phase' >= phase
    BY <1>1, <1>4, <1>11 DEF IDLE, RUNNING, QUERY, PHASE1, EXIT
  <2>2. exitWindow' => exitWindow
    BY <1>11, <2>1 DEF Moves
  <2>3. CASE phase' = phase
    <3>1. StageOf(phase)' = StageOf(phase) /\ StageOf(phase) # "querying"
      BY <1>2, <1>3, <2>1, <2>3
    <3> QED
      BY <1>6, <2>2, <3>1
  <2>4. CASE phase' # phase
    <3>1. phase = PHASE1 /\ phase' = EXIT
      BY <2>1, <2>4 DEF PHASE1, EXIT
    <3>2. Lifecycle!Finish
      BY <1>2, <1>3, <1>5, <2>2, <3>1 DEF Lifecycle!Finish
    <3> QED
      BY <3>2 DEF Lifecycle!Next
  <2> QED
    BY <2>3, <2>4
<1> QED
  BY <1>1, <1>7, <1>8, <1>9, <1>10, <1>11 DEF IDLE, RUNNING, QUERY, PHASE1, EXIT

\* SessionManager implements the safety of SessionLifecycle: clients are consulted
\* before the end, an objection is overruled by the user only, and the session ends
\* or returns to running as the life cycle says (start_next_phase,
\* query_end_session_complete, cancel_end_session).
THEOREM ImplementsStages == Spec => Lifecycle!Spec
<1>1. Init => Lifecycle!Init
  <2> SUFFICES ASSUME Init PROVE Lifecycle!Init
    OBVIOUS
  <2>1. phase = IDLE /\ inhibitors = {} /\ exitWindow = FALSE
    BY DEF Init
  <2>2. StageOf(phase) = "starting"
    BY <2>1, Stages DEF IDLE, RUNNING
  <2> QED
    BY <2>1, <2>2 DEF Lifecycle!Init
<1>2. WInv /\ WInv' /\ [Next]_vars => [Lifecycle!Next]_(Lifecycle!vars)
  <2> SUFFICES ASSUME WInv, WInv', [Next]_vars PROVE Lifecycle!Next
    OBVIOUS
  <2> QED
    BY NextKept, StutterKept, NextMoves, NextImplements DEF WInv
<1> QED
  BY <1>1, <1>2, ListsInvariance, PTL DEF Spec, Lifecycle!Spec
=============================================================================
