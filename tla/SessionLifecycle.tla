-------------------------- MODULE SessionLifecycle --------------------------
(***************************************************************************)
(* What the session daemon promises to whoever asks for the end of the     *)
(* session, without apps, clients, timers or messages: the stage of the    *)
(* session, whether something inhibits its end, and whether the user is    *)
(* being asked.  SessionManager implements it.                             *)
(***************************************************************************)

VARIABLES
  stage,      \* "starting", "running", "querying", "ending" or "exit"
  inhibited,  \* an app or a client objects to the end of the session
  asking      \* the user is asked whether to end it all the same

vars == <<stage, inhibited, asking>>

Stage == {"starting", "running", "querying", "ending", "exit"}

TypeOK ==
  /\ stage \in Stage
  /\ inhibited \in BOOLEAN
  /\ asking \in BOOLEAN

Init == stage = "starting" /\ ~inhibited /\ ~asking

\* Everything started, or was given up on.
Started ==
  /\ stage = "starting"
  /\ stage' = "running"
  /\ UNCHANGED <<inhibited, asking>>

\* Somebody asks for the end of the session.  Clients are consulted first; a
\* session with none exits at once.
Ask ==
  /\ stage = "running"
  /\ stage' \in {"querying", "exit"}
  /\ UNCHANGED <<inhibited, asking>>

\* All the answers are in, or time is up: with an objection the user is asked.
Object ==
  /\ stage = "querying"
  /\ inhibited'
  /\ asking'
  /\ UNCHANGED stage

\* Nothing objects, or the user insists.
Proceed ==
  /\ stage = "querying"
  /\ stage' \in {"ending", "exit"}
  /\ \/ ~inhibited' /\ asking' = asking
     \/ asking /\ ~asking' /\ UNCHANGED inhibited

\* The clients are told, or time is up, or the user answers a window that was
\* left open.
Finish ==
  /\ stage = "ending"
  /\ stage' = "exit"
  /\ asking' => asking
  /\ inhibited' \in BOOLEAN

\* The end of the session is cancelled, by the user or by a client.
Cancel ==
  /\ stage \in {"querying", "ending", "exit"}
  /\ stage' = "running"
  /\ ~asking'
  /\ inhibited' \in BOOLEAN

\* Apps and clients come and go with their objections; a window left open may
\* be answered when it no longer matters.
Background ==
  /\ UNCHANGED stage
  /\ inhibited' \in BOOLEAN
  /\ asking' => asking
  /\ stage = "querying" => asking' = asking

Next == Started \/ Ask \/ Object \/ Proceed \/ Finish \/ Cancel \/ Background

Spec == Init /\ [][Next]_vars

\* The start of the session ends, and so does its end once it was agreed on.
\* Each stage is left by its own actions only, so that this is weak fairness of
\* Started and of Finish \/ Cancel.
LiveSpec ==
  /\ Spec
  /\ (stage = "starting") ~> (stage # "starting")
  /\ (stage = "ending") ~> (stage # "ending")
=============================================================================
