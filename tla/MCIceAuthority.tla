---------------------------- MODULE MCIceAuthority ----------------------------
(* Three sessions, the first and the last with one process id, and a file that *)
(* is missing, holds entries of an earlier owner of that id, or one without.   *)
EXTENDS IceAuthority, TLC
CONSTANTS first, second, third, net1, net2

MCSession == {first, second, third}
MCNetOf == (first :> net1) @@ (second :> net2) @@ (third :> net1)
Old(proto, net) == [proto |-> proto, net |-> net, by |-> Earlier]
MCInitialFile ==
  {NoFile, <<Old("ICE", net1), Old("XSMP", net1)>>,
   <<Old("ICE", NoNet), Old("XSMP", NoNet), Old("ICE", net1), Old("XSMP", net1),
     Old("XSMP", net1)>>}
=============================================================================
