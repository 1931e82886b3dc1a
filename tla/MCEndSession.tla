---------------------------- MODULE MCEndSession ----------------------------
(* The end of a session without apps: XSMP clients, one of which registers   *)
(* without a previous id, and a D-Bus client.                                *)
EXTENDS SessionManager, TLC

CONSTANTS x1, x2, d1

TwoConns   == {x2, d1}
ThreeConns == {x1, x2, d1}
MCKind     == [c \in Conn |-> CASE c = x1 -> "xsmp"
                                [] c = x2 -> "xsmp-new"
                                [] c = d1 -> "dbus"]
MCIdOf     == [c \in Conn |-> c]
NoPhase    == [a \in {} |-> APPLICATION]
=============================================================================
