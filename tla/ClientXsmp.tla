------------------------------ MODULE ClientXsmp ------------------------------
(***************************************************************************)
(* ClientXsmp: the properties of an XSMP client, an array that has no      *)
(* order and in which the place of one that is deleted goes to the last.   *)
(* They come and go with the client, while connections, addresses and      *)
(* start-up ids are used again.                                            *)
(***************************************************************************)
EXTENDS XsmpServer, SequencesExt, Naturals

CONSTANTS
  Name,       \* names of properties
  Value,      \* their values
  Missing,    \* there is no property of a name
  Message,    \* bound: the SetProperties messages, each a sequence of properties
  Deletion    \* bound: the DeleteProperties messages, each a sequence of names

VARIABLE props  \* props_ of each client of XSMP

clientVars == <<vars, props>>

Property == [name : Name, value : Value]

ASSUME PropertyAssumption ==
  /\ Missing \notin Value
  /\ Message \subseteq Seq(Property)
  /\ Deletion \subseteq Seq(Name)

\* The clients of XSMP among those of ClientManager.
XsmpClients(cs) == {i \in DOMAIN cs : cs[i] \notin BusName}

ClientTypeOK ==
  /\ TypeOK
  /\ props \in [XsmpClients(clients) -> Seq(Property)]

ClientInit ==
  /\ Init
  /\ props = [i \in {} |-> <<>>]

\* The constructor and destructor of the clients that a step adds and removes.
PropsFollow ==
  props' = [i \in XsmpClients(clients') |->
              IF i \in DOMAIN props THEN props[i] ELSE <<>>]

\* get_property_index, or 0.
PropertyIndex(ps, n) ==
  LET found == {k \in DOMAIN ps : ps[k].name = n}
  IN  IF found = {} THEN 0 ELSE CHOOSE k \in found : \A l \in found : k <= l

\* Fault: the first index of the array is taken for none (index > 0).
DeletePropertyButFirst(ps, n) ==
  LET k == PropertyIndex(ps, n)
  IN  IF k <= 1 THEN ps ELSE Front([ps EXCEPT ![k] = Last(ps)])

DeleteProperty(ps, n) ==
  LET k == PropertyIndex(ps, n)
  IN  IF k = 0 THEN ps ELSE Front([ps EXCEPT ![k] = Last(ps)])

\* Fault: the old value is left.
UpdatePropertyTwice(ps, p) == Append(ps, p)

UpdateProperty(ps, p) == Append(DeleteProperty(ps, p.name), p)

\* The loops of the two handlers.
UpdateEach(ps, message) ==
  LET updated[k \in 0 .. Len(message)] ==
        IF k = 0 THEN ps ELSE UpdateProperty(updated[k - 1], message[k])
  IN  updated[Len(message)]

DeleteEach(ps, names) ==
  LET left[k \in 0 .. Len(names)] ==
        IF k = 0 THEN ps ELSE DeleteProperty(left[k - 1], names[k])
  IN  left[Len(names)]

\* on_set_properties_cb and on_delete_properties_cb, from a client that is there.
Speaks(a) == Processes(a) /\ conns[a].stage = "active"

SetProperties(a, message) ==
  /\ Speaks(a)
  /\ \E i \in ClientOf(a) : props' = [props EXCEPT ![i] = UpdateEach(@, message)]
  /\ UNCHANGED vars

DeleteProperties(a, names) ==
  /\ Speaks(a)
  /\ \E i \in ClientOf(a) : props' = [props EXCEPT ![i] = DeleteEach(@, names)]
  /\ UNCHANGED vars

ClientNext ==
  \/ Next /\ PropsFollow
  \/ \E a \in IceConn :
       \/ \E message \in Message : SetProperties(a, message)
       \/ \E names \in Deletion : DeleteProperties(a, names)

ClientSpec == ClientInit /\ [][ClientNext]_clientVars

\* As in LiveSpec: the protocol timeout expires.
ClientLiveSpec ==
  ClientSpec /\ \A a \in IceConn : WF_clientVars(ProtocolTimeout(a) /\ PropsFollow)

-----------------------------------------------------------------------------
\* The answer to GetProperties has a property once at most (update_property,
\* delete_property).
OnePropertyEach ==
  \A i \in DOMAIN props : \A k, l \in DOMAIN props[i] :
    props[i][k].name = props[i][l].name => k = l

ValueOf(ps, n) == LET k == PropertyIndex(ps, n) IN IF k = 0 THEN Missing ELSE ps[k].value

\* The values of every client, by name.
Table == [i \in DOMAIN props |-> [n \in Name |-> ValueOf(props[i], n)]]

PropertyTable == INSTANCE PropertyMap WITH Client <- Id, table <- Table

\* A message has its whole effect, in the order of its entries, and no other.
MessagesTakeEffect ==
  UNCHANGED vars => \A a \in IceConn :
    /\ \A message \in Message : SetProperties(a, message) =>
         \E i \in ClientOf(a) : PropertyTable!SetMessage(i, message)
    /\ \A names \in Deletion : DeleteProperties(a, names) =>
         \E i \in ClientOf(a) : PropertyTable!DeleteMessage(i, Range(names))

\* A client has the values that were set last and not deleted since, and a new one
\* has none, also under an id and an address that another client had before.
ImplementsPropertyMap == PropertyTable!MapSpec /\ [][MessagesTakeEffect]_clientVars
=============================================================================
