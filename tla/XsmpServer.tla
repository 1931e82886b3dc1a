------------------------------ MODULE XsmpServer ------------------------------
(***************************************************************************)
(* XsmpServer: the ICE connections of XSMP clients, each with a watch on   *)
(* its socket and a timeout until its handshake is over, and the part of   *)
(* ClientManager that finds the client of a connection, by start-up id     *)
(* for messages and by address for failures.                               *)
(*                                                                         *)
(* libICE and libSM are external: they allocate connections, free them     *)
(* when they are closed (the address is used again), and call back within  *)
(* IceProcessMessages.  A peer follows libSM: it registers once, and says  *)
(* nothing after CloseConnection.  It may die at any time.                 *)
(***************************************************************************)
EXTENDS Functions

CONSTANTS
  IceConn,  \* addresses of connections
  Id,       \* start-up ids
  NoId,     \* of a connection that has not registered
  BusName   \* programs on D-Bus, by unique name

ASSUME ConnectionAssumption == NoId \notin Id /\ BusName \cap IceConn = {}

VARIABLES
  conns,     \* connections that libICE has not freed: stage, and SmsClientID
  watches,   \* connections for which on_auth_iochannel_watch_cb is a source
  timeouts,  \* connections for which on_ice_protocol_timeout_cb is a source
  clients    \* clients_: the connection or program of each client, by start-up id

vars == <<conns, watches, timeouts, clients>>

\* Authenticating, connected, speaking XSMP, and after CloseConnection.
Stage == {"pending", "accepted", "active", "closed"}

Handshaking(a) == conns[a].stage \in {"pending", "accepted"}

TypeOK ==
  /\ DOMAIN conns \subseteq IceConn
  /\ conns \in [DOMAIN conns -> [stage : Stage, id : Id \cup {NoId}]]
  /\ watches \subseteq IceConn
  /\ timeouts \subseteq IceConn
  /\ DOMAIN clients \subseteq Id
  /\ clients \in [DOMAIN clients -> IceConn \cup BusName]

Init ==
  /\ conns = [a \in {} |-> NoId]
  /\ watches = {}
  /\ timeouts = {}
  /\ clients = [i \in {} |-> NoId]

\* IceCloseConnection, or libICE closing by itself: the connection is freed.
Freed(a) == Restrict(conns, DOMAIN conns \ {a})

\* Fault: the timeout is left.
FreeWatchOnly(a) ==
  /\ watches' = watches \ {a}
  /\ UNCHANGED timeouts

FreeConnectionWatch(a) ==
  /\ watches' = watches \ {a}
  /\ timeouts' = timeouts \ {a}

\* Fault: no id is generated for a client that has none.
AddClientWithoutId(id, c) ==
  clients' = [i \in DOMAIN clients \cup {NoId} |-> IF i = NoId THEN c ELSE clients[i]]

\* add_client: an id that is taken is refused.
AddClient(id, c) ==
  /\ id \notin DOMAIN clients
  /\ clients' = [i \in DOMAIN clients \cup {id} |-> IF i = id THEN c ELSE clients[i]]

\* delete_client.
Without(ids) == Restrict(clients, DOMAIN clients \ ids)

-----------------------------------------------------------------------------
\* Fault: the handshake is not limited.
AcceptWithoutTimeout(a) ==
  /\ a \notin DOMAIN conns
  /\ conns' = [b \in DOMAIN conns \cup {a} |->
                 IF b = a THEN [stage |-> "pending", id |-> NoId] ELSE conns[b]]
  /\ watches' = watches \cup {a}
  /\ UNCHANGED <<timeouts, clients>>

\* on_accept_ice_connection_cb; a failed accept changes nothing.
Accept(a) ==
  /\ a \notin DOMAIN conns
  /\ conns' = [b \in DOMAIN conns \cup {a} |->
                 IF b = a THEN [stage |-> "pending", id |-> NoId] ELSE conns[b]]
  /\ watches' = watches \cup {a}
  /\ timeouts' = timeouts \cup {a}
  /\ UNCHANGED clients

\* on_ice_protocol_timeout_cb, 5 s after the connection was accepted.
ProtocolTimeout(a) ==
  /\ a \in timeouts
  /\ FreeConnectionWatch(a)
  /\ conns' = Freed(a)
  /\ UNCHANGED clients

-----------------------------------------------------------------------------
(* on_auth_iochannel_watch_cb, by what IceProcessMessages finds.           *)

Processes(a) == a \in watches /\ a \in DOMAIN conns

\* libICE: the peer has authenticated itself.
Authenticated(a) ==
  /\ Processes(a)
  /\ conns[a].stage = "pending"
  /\ conns' = [conns EXCEPT ![a].stage = "accepted"]
  /\ UNCHANGED <<watches, timeouts, clients>>

\* on_new_client_connection_cb.
NewClientConnection(a) ==
  /\ Processes(a)
  /\ conns[a].stage = "accepted"
  /\ conns' = [conns EXCEPT ![a].stage = "active"]
  /\ timeouts' = timeouts \ {a}
  /\ UNCHANGED <<watches, clients>>

\* on_register_client_cb, with a previous id or a new one; refused if the id is
\* taken, after which libSM's client registers without one.
RegisterClient(a, id) ==
  /\ Processes(a)
  /\ conns[a].stage = "active"
  /\ conns[a].id = NoId
  /\ AddClient(id, a)
  /\ conns' = [conns EXCEPT ![a].id = id]
  /\ UNCHANGED <<watches, timeouts>>

\* get_client_by_sms_conn: the XSMP client with the id of the connection.
ClientOf(a) == {i \in DOMAIN clients : i = conns[a].id /\ clients[i] \notin BusName}

\* get_client_by_ice_conn: a client whose connection has the address.
ClientAt(a) == {i \in DOMAIN clients : clients[i] = a}

\* on_close_connection_cb.  The connection stays until its end is read.
CloseConnection(a) ==
  /\ Processes(a)
  /\ conns[a].stage = "active"
  /\ clients' = Without(ClientOf(a))
  /\ conns' = [conns EXCEPT ![a].stage = "closed"]
  /\ UNCHANGED <<watches, timeouts>>

\* Fault: the client of the connection is not told about.
IOErrorUnreported(a) ==
  /\ Processes(a)
  /\ FreeConnectionWatch(a)
  /\ conns' = Freed(a)
  /\ UNCHANGED clients

\* Fault: the client is looked for by id.
IOErrorById(a) ==
  /\ Processes(a)
  /\ FreeConnectionWatch(a)
  /\ conns' = Freed(a)
  /\ clients' = Without({conns[a].id})

\* IceProcessMessagesIOError, with on_ice_conn_status_changed_cb.
IOError(a) ==
  /\ Processes(a)
  /\ FreeConnectionWatch(a)
  /\ conns' = Freed(a)
  /\ \/ /\ ClientAt(a) = {}
        /\ UNCHANGED clients
     \/ \E i \in ClientAt(a) : clients' = Without({i})

\* IceProcessMessagesConnectionClosed: the peer wanted to close a connection that
\* speaks no XSMP, and libICE has freed it.
ConnectionClosed(a) ==
  /\ Processes(a)
  /\ conns[a].stage = "accepted"
  /\ FreeConnectionWatch(a)
  /\ conns' = Freed(a)
  /\ UNCHANGED clients

\* RegisterClient, called by program n, any number of times.
RegisterDBusClient(id, n) ==
  /\ AddClient(id, n)
  /\ UNCHANGED <<conns, watches, timeouts>>

\* get_client_by_dbus_name finds the first of these.
ClientsNamed(n) == {i \in DOMAIN clients : clients[i] = n}

\* on_dbus_daemon_signal_cb: program n has left the bus, or has only given up a
\* well-known name.  Other clients of n stay.
NameOwnerChanged(n) ==
  /\ \E i \in ClientsNamed(n) : clients' = Without({i})
  /\ UNCHANGED <<conns, watches, timeouts>>

Next ==
  \/ \E a \in IceConn :
       \/ Accept(a) \/ ProtocolTimeout(a)
       \/ Authenticated(a) \/ NewClientConnection(a)
       \/ CloseConnection(a) \/ IOError(a) \/ ConnectionClosed(a)
       \/ \E id \in Id : RegisterClient(a, id)
  \/ \E n \in BusName :
       \/ NameOwnerChanged(n)
       \/ \E id \in Id : RegisterDBusClient(id, n)

Spec == Init /\ [][Next]_vars

\* GLib: a timeout that is not removed expires.  Nothing is assumed of peers.
LiveSpec == Spec /\ \A a \in IceConn : WF_vars(ProtocolTimeout(a))

-----------------------------------------------------------------------------
\* A source is left for a connection only as long as libICE has not freed it, and
\* every connection has its watch; the timeout is there exactly during the
\* handshake, however set-up, errors, closes and timeouts follow each other
\* (free_connection_watch, on_new_client_connection_cb).
SourcesFollowConnections ==
  /\ watches = DOMAIN conns
  /\ timeouts = {a \in DOMAIN conns : Handshaking(a)}

\* A registered XSMP client has a connection that is not freed, speaks XSMP and
\* carries its id, so that what is sent to the client and what arrives for it
\* reach the right one although addresses and ids are used again
\* (get_client_by_sms_conn, get_client_by_ice_conn).
ClientsAreConnected ==
  \A i \in DOMAIN clients : clients[i] \notin BusName =>
    /\ clients[i] \in DOMAIN conns
    /\ conns[clients[i]] = [stage |-> "active", id |-> i]

\* The end of the connection or program of client i.
OwnEnd(i) ==
  IF clients[i] \in BusName THEN NameOwnerChanged(clients[i])
  ELSE clients[i] \in DOMAIN conns' => conns'[clients[i]].stage = "closed"

\* A client is removed only by the end of its own connection, by its own
\* CloseConnection, or by a signal about its own program: a connection that lingers
\* after CloseConnection does not take away the client that has registered with the
\* same id since (on_ice_conn_status_changed_cb, on_close_connection_cb,
\* on_dbus_daemon_signal_cb).
OnlyOwnEndRemoves == [][\A i \in DOMAIN clients \ DOMAIN clients' : OwnEnd(i)]_vars

\* No peer can leave its handshake unfinished for ever (the protocol timeout).
HandshakeEnds ==
  \A a \in IceConn :
    (a \in DOMAIN conns /\ Handshaking(a))
      ~> (a \notin DOMAIN conns \/ ~Handshaking(a))
=============================================================================
