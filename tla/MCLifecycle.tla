----------------------------- MODULE MCLifecycle -----------------------------
(* SessionManager implements SessionLifecycle.                               *)
EXTENDS MCEndSession

\* The session manager, with the timers GLib runs, implements the life cycle:
\* consultation before the end, no end against an objection unless forced, start
\* and end that finish.
ImplementsLifecycle == Lifecycle!LiveSpec
=============================================================================
