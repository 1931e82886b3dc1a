---------------------------- MODULE PresenceClaims ----------------------------
(***************************************************************************)
(* What documentation and comments say of presence and inhibitors and the  *)
(* code does not do.  Each property is refuted by a run of its own.        *)
(***************************************************************************)
EXTENDS InhibitorManager

\* idle-xalarm.cpp: when the user is back, the event of RESET arrives.  Once every
\* event is handled, the status is IDLE only if the user has stayed idle for the
\* timeout, as long as no program set it and the setting was not changed
\* (on_event_filter_cb registers RESET when it handles the event of IDLE_TIMEOUT).
BackWhenActive ==
  events = <<>> /\ status = "IDLE" => \E d \in Delay : d > 0 /\ idle >= d * Minute

\* org.gnome.SessionManager.xml: GetInhibitors lists all the inhibitors.
ListsInhibitors ==
  {GetInhibitors[i] : i \in DOMAIN GetInhibitors} = DOMAIN inhibitors
=============================================================================
