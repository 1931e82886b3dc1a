---------------------------- MODULE SessionClaims ----------------------------
(***************************************************************************)
(* What documentation and comments say of the end of a session and the     *)
(* code does not do.  Each property is refuted by a run of its own.        *)
(***************************************************************************)
EXTENDS SessionManager

\* The requests that client c has not answered once the step is taken.
OwesNext(c, r) == \E i \in 1 .. Len(owed'[c]) : owed'[c][i] = r

\* client-manager.h: the exit comes after the answers of both phases.  As long as
\* a registered client has asked for a second phase, the daemon does not pass from
\* PHASE1 straight to EXIT (process_phase, the case of PHASE2).
Phase2BeforeExit ==
  [][phase = PHASE1 /\ phase' = EXIT => phase2Requests \cap clients = {}]_vars

\* client-manager.h: PHASE1 ends with the answers of all clients.  When the
\* daemon exits on an answer, no registered client owes it another one to
\* EndSession (on_end_session_response_cb cannot tell which request is answered).
Phase1Answered ==
  [][\A c \in Conn : SaveYourselfDone(c) /\ phase = PHASE1 /\ phase' = EXIT
       => \A d \in clients : ~OwesNext(d, "end")]_vars

\* ksm-i.h: a QUIT inhibitor inhibits log-out, shutdown and reboot, whether or not
\* any client is registered (process_phase_query_end_session).
InhibitorsConsulted ==
  [][phase = RUNNING /\ phase' > QUERY => inhibitors = {}]_vars
=============================================================================
