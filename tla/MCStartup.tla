------------------------------ MODULE MCStartup ------------------------------
(* A start-up with an app to wait for in two phases, one of them started by  *)
(* a timer, an app that is not waited for and restarts, and the clients of   *)
(* two of them.  r and s are two connections of the restarting app.          *)
EXTENDS SessionManager, TLC

CONSTANTS daemon, panel, applet, c1, r1, r2

MCApp     == {daemon, panel, applet}
MCPhaseOf == (daemon :> INITIALIZATION) @@ (panel :> PANEL) @@ (applet :> APPLICATION)
MCConn    == {c1, r1, r2}
MCKind    == (c1 :> "dbus") @@ (r1 :> "xsmp") @@ (r2 :> "xsmp")
MCIdOf    == (c1 :> panel) @@ (r1 :> applet) @@ (r2 :> applet)
=============================================================================
