----------------------------- MODULE PropertyMap -----------------------------
(***************************************************************************)
(* What XSMP promises of the properties of a client: by name, the value    *)
(* that was set last and not deleted since, until the client leaves.       *)
(***************************************************************************)
EXTENDS Naturals, Sequences

CONSTANTS
  Client,     \* clients, by start-up id
  Name,       \* names of properties
  Value,      \* their values
  Missing,    \* in place of the value of a property that is not set
  Message     \* the SetProperties messages, each a sequence of properties

VARIABLE table  \* the properties of the clients that are there

MapInit == table = [c \in {} |-> <<>>]

Register(c) ==
  /\ c \notin DOMAIN table
  /\ table' = [d \in DOMAIN table \cup {c} |->
                 IF d = c THEN [n \in Name |-> Missing] ELSE table[d]]

Leave(c) ==
  /\ c \in DOMAIN table
  /\ table' = [d \in DOMAIN table \ {c} |-> table[d]]

\* Of a name that comes twice in a message the last value counts.
Places(message, n) == {k \in DOMAIN message : message[k].name = n}
LastValue(message, n) ==
  message[CHOOSE k \in Places(message, n) : \A l \in Places(message, n) : l <= k].value

SetMessage(c, message) ==
  /\ c \in DOMAIN table
  /\ table' = [table EXCEPT ![c] =
       [n \in Name |-> IF Places(message, n) = {} THEN @[n] ELSE LastValue(message, n)]]

DeleteMessage(c, names) ==
  /\ c \in DOMAIN table
  /\ table' = [table EXCEPT ![c] =
       [n \in Name |-> IF n \in names THEN Missing ELSE @[n]]]

MapNext ==
  \E c \in Client :
    \/ Register(c) \/ Leave(c)
    \/ \E m \in Message : SetMessage(c, m)
    \/ \E names \in SUBSET Name : DeleteMessage(c, names)

MapSpec == MapInit /\ [][MapNext]_table
=============================================================================
