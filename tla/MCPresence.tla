------------------------------ MODULE MCPresence ------------------------------
(* Presence with the inhibitors and the X server.                            *)
EXTENDS InhibitorManager, TLC
=============================================================================
