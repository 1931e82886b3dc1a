------------------------------ MODULE KsmPhases ------------------------------
(***************************************************************************)
(* The enumerations of include/ksm-i.h and src/power.h that the session    *)
(* manager branches on.  Phases keep the numbers of the C enumeration:     *)
(* the code compares them with < and > and moves on by adding one.         *)
(***************************************************************************)
EXTENDS Integers

IDLE           == 0
INITIALIZATION == 1
WINDOW_MANAGER == 2
PANEL          == 3
DESKTOP        == 4
APPLICATION    == 5
RUNNING        == 6
QUERY          == 7   \* KSM_PHASE_QUERY_END_SESSION
PHASE1         == 8   \* KSM_PHASE_END_SESSION_PHASE1
PHASE2         == 9   \* KSM_PHASE_END_SESSION_PHASE2
EXIT           == 10

\* KSMPhase.
Phase == IDLE .. EXIT

\* The phases in which SessionManager waits for the apps it started.
WaitedStartupPhase == INITIALIZATION .. DESKTOP

\* The members of PowerAction that SessionManager ever stores.
PowerAction == {"none", "logout", "shutdown", "reboot"}

\* The members of PowerAction that a D-Bus method of SessionManager asks for.
EndAction == PowerAction \ {"none"}
=============================================================================
