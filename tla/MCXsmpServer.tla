----------------------------- MODULE MCXsmpServer -----------------------------
(* Three connections at a time, two start-up ids and two properties.  Messages *)
(* name a property alone, two of them in either order, or one of them twice.   *)
EXTENDS ClientXsmp
CONSTANTS n1, n2, v1, v2

P(n, v) == [name |-> n, value |-> v]
MCMessage ==
  {<<P(n1, v1)>>, <<P(n1, v2), P(n2, v1)>>, <<P(n2, v2), P(n1, v1)>>,
   <<P(n2, v1), P(n2, v2)>>}
MCDeletion == {<<n1>>, <<n2, n1>>, <<n2, n2>>}
=============================================================================
