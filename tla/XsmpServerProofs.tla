--------------------------- MODULE XsmpServerProofs ---------------------------
(***************************************************************************)
(* Sources, connections and clients of XsmpServer stay in step, for any    *)
(* set of addresses and start-up ids.                                      *)
(***************************************************************************)
EXTENDS XsmpServer, TLAPS

\* A connection that speaks XSMP under an id is the one of the client with that id.
IdsHaveTheirClients ==
  \A a \in DOMAIN conns :
    conns[a].stage = "active" /\ conns[a].id # NoId =>
      /\ conns[a].id \in DOMAIN clients
      /\ clients[conns[a].id] = a

\* Ids are given to connections that speak XSMP.
HandshakesHaveNoId ==
  \A a \in DOMAIN conns : Handshaking(a) => conns[a].id = NoId

\* The inductive invariant.  That a message removes only the client of its own
\* connection needs both directions between connections and clients; that the
\* watch of a connection is only dispatched while libICE knows the connection
\* needs the sources to follow it.
IInv ==
  /\ TypeOK
  /\ SourcesFollowConnections
  /\ ClientsAreConnected
  /\ IdsHaveTheirClients
  /\ HandshakesHaveNoId

\* The connection of a client, field by field.
LEMMA ConnectionOfClient ==
  ASSUME ClientsAreConnected, NEW i \in DOMAIN clients, clients[i] \notin BusName
  PROVE  /\ clients[i] \in DOMAIN conns
         /\ conns[clients[i]].stage = "active"
         /\ conns[clients[i]].id = i
  <1>1. clients[i] \in DOMAIN conns /\ conns[clients[i]] = [stage |-> "active", id |-> i]
    BY DEF ClientsAreConnected
  <1> QED BY <1>1

\* What add_client returns: the old clients and the new one (ClientManager::add_client).
LEMMA AddClientAdds ==
  ASSUME NEW id \in Id, NEW c \in IceConn \cup BusName, TypeOK, AddClient(id, c)
  PROVE  /\ DOMAIN clients' = DOMAIN clients \cup {id}
         /\ clients' \in [DOMAIN clients' -> IceConn \cup BusName]
         /\ clients'[id] = c
         /\ \A i \in DOMAIN clients : clients'[i] = clients[i] /\ i # id
  BY DEF AddClient, TypeOK

\* What delete_client leaves (ClientManager::delete_client).
LEMMA WithoutRemoves ==
  ASSUME NEW ids, TypeOK, clients' = Without(ids)
  PROVE  /\ DOMAIN clients' = DOMAIN clients \ ids
         /\ clients' \in [DOMAIN clients' -> IceConn \cup BusName]
         /\ \A i \in DOMAIN clients' : clients'[i] = clients[i]
  BY DEF Without, Restrict, TypeOK

\* What libICE keeps when a connection is freed (XsmpServer::disconnect_ice_connection).
LEMMA FreedRemoves ==
  ASSUME NEW a, TypeOK, conns' = Freed(a)
  PROVE  /\ DOMAIN conns' = DOMAIN conns \ {a}
         /\ conns' \in [DOMAIN conns' -> [stage : Stage, id : Id \cup {NoId}]]
         /\ \A b \in DOMAIN conns' : conns'[b] = conns[b]
  BY DEF Freed, Restrict, TypeOK

\* Freeing a connection with its sources keeps the part of the invariant that
\* concerns neither clients nor ids (XsmpServer::free_connection_watch).
LEMMA FreeKeepsSources ==
  ASSUME IInv, NEW a, FreeConnectionWatch(a), conns' = Freed(a)
  PROVE  /\ DOMAIN conns' \subseteq IceConn
         /\ conns' \in [DOMAIN conns' -> [stage : Stage, id : Id \cup {NoId}]]
         /\ watches' \subseteq IceConn
         /\ timeouts' \subseteq IceConn
         /\ SourcesFollowConnections'
  BY FreedRemoves DEF IInv, TypeOK, SourcesFollowConnections, FreeConnectionWatch,
                      Handshaking

\* A connection that has no client can be freed (the timeout, and a close outside
\* of XSMP).
LEMMA FreeWithoutClient ==
  ASSUME IInv, NEW a, \A i \in DOMAIN clients : clients[i] # a,
         FreeConnectionWatch(a), conns' = Freed(a), clients' = clients
  PROVE  IInv'
  <1>1. TypeOK' /\ SourcesFollowConnections'
    BY FreeKeepsSources DEF IInv, TypeOK
  <1>2. /\ DOMAIN conns' = DOMAIN conns \ {a}
        /\ \A b \in DOMAIN conns' : conns'[b] = conns[b]
    BY FreedRemoves DEF IInv
  <1>3. ClientsAreConnected'
    BY <1>2 DEF IInv, ClientsAreConnected
  <1>4. IdsHaveTheirClients' /\ HandshakesHaveNoId'
    BY <1>2 DEF IInv, IdsHaveTheirClients, HandshakesHaveNoId, Handshaking
  <1> QED BY <1>1, <1>3, <1>4 DEF IInv

\* A connection that is freed with its client (on_ice_conn_status_changed_cb).
LEMMA FreeWithClient ==
  ASSUME IInv, NEW i \in DOMAIN clients, NEW a, clients[i] = a, a \notin BusName,
         FreeConnectionWatch(a), conns' = Freed(a), clients' = Without({i})
  PROVE  IInv'
  <1>1. /\ DOMAIN clients' = DOMAIN clients \ {i}
        /\ clients' \in [DOMAIN clients' -> IceConn \cup BusName]
        /\ \A j \in DOMAIN clients' : clients'[j] = clients[j]
    BY WithoutRemoves DEF IInv
  <1>2. TypeOK' /\ SourcesFollowConnections'
    BY <1>1, FreeKeepsSources DEF IInv, TypeOK
  <1>3. /\ DOMAIN conns' = DOMAIN conns \ {a}
        /\ \A b \in DOMAIN conns' : conns'[b] = conns[b]
    BY FreedRemoves DEF IInv
  <1>4. conns[a].id = i
    BY ConnectionOfClient DEF IInv
  <1>5. ClientsAreConnected'
    BY <1>1, <1>3, <1>4 DEF IInv, ClientsAreConnected
  <1>6. IdsHaveTheirClients' /\ HandshakesHaveNoId'
    BY <1>1, <1>3 DEF IInv, IdsHaveTheirClients, HandshakesHaveNoId, Handshaking
  <1> QED BY <1>2, <1>5, <1>6 DEF IInv

\* The invariant holds at first: there is neither connection nor client.
LEMMA InitIInv == Init => IInv
  BY DEF Init, IInv, TypeOK, SourcesFollowConnections, ClientsAreConnected,
         IdsHaveTheirClients, HandshakesHaveNoId

-----------------------------------------------------------------------------
(* What each handler keeps.                                                *)

\* A new connection takes an address that no client has
\* (XsmpServer::on_accept_ice_connection_cb).
LEMMA AcceptKept ==
  ASSUME IInv, NEW a \in IceConn, Accept(a)
  PROVE  IInv'
  <1>1. /\ DOMAIN conns' = DOMAIN conns \cup {a}
        /\ conns'[a] = [stage |-> "pending", id |-> NoId]
        /\ \A b \in DOMAIN conns : conns'[b] = conns[b] /\ b # a
        /\ clients' = clients
    BY DEF Accept
  <1>2. TypeOK'
    BY DEF IInv, TypeOK, Accept, Stage
  <1>3. SourcesFollowConnections'
    BY <1>1 DEF IInv, SourcesFollowConnections, Accept, Handshaking
  <1>4. ClientsAreConnected'
    BY <1>1 DEF IInv, ClientsAreConnected
  <1>5. IdsHaveTheirClients' /\ HandshakesHaveNoId'
    BY <1>1 DEF IInv, IdsHaveTheirClients, HandshakesHaveNoId, Handshaking
  <1> QED BY <1>2, <1>3, <1>4, <1>5 DEF IInv

\* A connection in its handshake has no client, so that its timeout may free it
\* without a word to ClientManager (XsmpServer::on_ice_protocol_timeout_cb).
LEMMA ProtocolTimeoutKept ==
  ASSUME IInv, NEW a \in IceConn, ProtocolTimeout(a)
  PROVE  IInv'
  <1>1. a \in DOMAIN conns /\ conns[a].stage # "active"
    BY DEF ProtocolTimeout, IInv, SourcesFollowConnections, Handshaking
  <1>2. \A i \in DOMAIN clients : clients[i] # a
    BY <1>1, ConnectionOfClient, ConnectionAssumption DEF IInv
  <1> QED BY <1>2, FreeWithoutClient DEF ProtocolTimeout

\* The handshake goes on, or succeeds and loses its timeout
\* (XsmpServer::on_new_client_connection_cb).
LEMMA HandshakeKept ==
  ASSUME IInv, NEW a \in IceConn, Authenticated(a) \/ NewClientConnection(a)
  PROVE  IInv'
  <1> DEFINE st == conns'[a].stage
  <1>1. /\ a \in DOMAIN conns
        /\ conns[a].stage \in {"pending", "accepted"}
        /\ conns[a].id = NoId
        /\ watches' = watches
        /\ clients' = clients
    BY DEF Authenticated, NewClientConnection, Processes, IInv, HandshakesHaveNoId,
           Handshaking
  <1>2. /\ DOMAIN conns' = DOMAIN conns
        /\ conns'[a] = [stage |-> st, id |-> NoId]
        /\ st \in {"accepted", "active"}
        /\ \A b \in DOMAIN conns : b # a => conns'[b] = conns[b]
        /\ timeouts' = IF st = "active" THEN timeouts \ {a} ELSE timeouts
    BY <1>1 DEF Authenticated, NewClientConnection, IInv, TypeOK, Stage
  <1>3. TypeOK'
    BY <1>1, <1>2 DEF IInv, TypeOK, Stage, Authenticated, NewClientConnection
  <1>4. SourcesFollowConnections'
    BY <1>1, <1>2 DEF IInv, SourcesFollowConnections, Handshaking
  <1>5. ClientsAreConnected'
    BY <1>1, <1>2 DEF IInv, ClientsAreConnected
  <1>6. IdsHaveTheirClients' /\ HandshakesHaveNoId'
    BY <1>1, <1>2 DEF IInv, IdsHaveTheirClients, HandshakesHaveNoId, Handshaking
  <1> QED BY <1>3, <1>4, <1>5, <1>6 DEF IInv

\* A registration adds the client of the connection, under the id it gives it
\* (ClientManager::on_register_client_cb).
LEMMA RegisterClientKept ==
  ASSUME IInv, NEW a \in IceConn, NEW id \in Id, RegisterClient(a, id)
  PROVE  IInv'
  <1>1. /\ a \in DOMAIN conns
        /\ conns[a].stage = "active"
        /\ conns[a].id = NoId
        /\ DOMAIN conns' = DOMAIN conns
        /\ conns'[a] = [stage |-> "active", id |-> id]
        /\ \A b \in DOMAIN conns : b # a => conns'[b] = conns[b]
    BY DEF RegisterClient, Processes, IInv, TypeOK
  <1>2. /\ DOMAIN clients' = DOMAIN clients \cup {id}
        /\ clients' \in [DOMAIN clients' -> IceConn \cup BusName]
        /\ clients'[id] = a
        /\ \A i \in DOMAIN clients : clients'[i] = clients[i] /\ i # id
    BY AddClientAdds DEF IInv, RegisterClient
  <1>3. TypeOK'
    BY <1>1, <1>2 DEF IInv, TypeOK, RegisterClient
  <1>4. SourcesFollowConnections'
    BY <1>1 DEF IInv, SourcesFollowConnections, Handshaking, RegisterClient
  <1>5. ClientsAreConnected'
    <2>1. \A i \in DOMAIN clients : clients[i] # a
      <3> SUFFICES ASSUME NEW i \in DOMAIN clients, clients[i] = a PROVE FALSE
        OBVIOUS
      <3>1. i = NoId
        BY <1>1, ConnectionOfClient, ConnectionAssumption DEF IInv
      <3> QED BY <3>1, ConnectionAssumption DEF IInv, TypeOK
    <2> QED BY <1>1, <1>2, <2>1 DEF IInv, ClientsAreConnected
  <1>6. IdsHaveTheirClients' /\ HandshakesHaveNoId'
    BY <1>1, <1>2 DEF IInv, IdsHaveTheirClients, HandshakesHaveNoId, Handshaking
  <1> QED BY <1>3, <1>4, <1>5, <1>6 DEF IInv

\* CloseConnection removes the client of the connection and of no other
\* (ClientManager::on_close_connection_cb).
LEMMA ClosesOwnClient ==
  ASSUME IInv, NEW a \in DOMAIN conns, conns[a].stage = "active"
  PROVE  ClientOf(a) = ClientAt(a)
  <1>1. a \notin BusName /\ NoId \notin DOMAIN clients
    BY ConnectionAssumption DEF IInv, TypeOK
  <1>2. ASSUME NEW i \in DOMAIN clients, i = conns[a].id
        PROVE  clients[i] = a
    BY <1>1, <1>2 DEF IInv, IdsHaveTheirClients
  <1>3. ASSUME NEW i \in DOMAIN clients, clients[i] = a
        PROVE  i = conns[a].id
    BY <1>1, <1>3, ConnectionOfClient DEF IInv
  <1> QED BY <1>1, <1>2, <1>3 DEF ClientOf, ClientAt

\* The connection that lingers after CloseConnection has no client any more.
LEMMA CloseConnectionKept ==
  ASSUME IInv, NEW a \in IceConn, CloseConnection(a)
  PROVE  IInv'
  <1>1. /\ a \in DOMAIN conns
        /\ conns[a].stage = "active"
        /\ DOMAIN conns' = DOMAIN conns
        /\ conns'[a].stage = "closed"
        /\ \A b \in DOMAIN conns : b # a => conns'[b] = conns[b]
    BY DEF CloseConnection, Processes, IInv, TypeOK
  <1>2. /\ DOMAIN clients' = {i \in DOMAIN clients : clients[i] # a}
        /\ clients' \in [DOMAIN clients' -> IceConn \cup BusName]
        /\ \A i \in DOMAIN clients' : clients'[i] = clients[i]
    <2>1. ClientOf(a) = {i \in DOMAIN clients : clients[i] = a}
      BY <1>1, ClosesOwnClient DEF ClientAt
    <2>2. clients' = Without(ClientOf(a)) /\ TypeOK
      BY DEF CloseConnection, IInv
    <2>3. /\ DOMAIN clients' = DOMAIN clients \ ClientOf(a)
          /\ clients' \in [DOMAIN clients' -> IceConn \cup BusName]
          /\ \A i \in DOMAIN clients' : clients'[i] = clients[i]
      BY <2>2, WithoutRemoves
    <2> QED BY <2>1, <2>3
  <1>3. TypeOK'
    BY <1>1, <1>2 DEF IInv, TypeOK, Stage, CloseConnection
  <1>4. SourcesFollowConnections'
    BY <1>1 DEF IInv, SourcesFollowConnections, Handshaking, CloseConnection
  <1>5. ClientsAreConnected'
    BY <1>1, <1>2 DEF IInv, ClientsAreConnected
  <1>6. IdsHaveTheirClients' /\ HandshakesHaveNoId'
    BY <1>1, <1>2 DEF IInv, IdsHaveTheirClients, HandshakesHaveNoId, Handshaking
  <1> QED BY <1>3, <1>4, <1>5, <1>6 DEF IInv

\* A failed connection is freed, with its client if it has one
\* (XsmpServer::on_auth_iochannel_watch_cb).
LEMMA IOErrorKept ==
  ASSUME IInv, NEW a \in IceConn, IOError(a)
  PROVE  IInv'
  <1>1. CASE (\A i \in DOMAIN clients : clients[i] # a) /\ clients' = clients
    BY <1>1, FreeWithoutClient DEF IOError, ClientAt
  <1>2. CASE \E i \in DOMAIN clients : clients[i] = a /\ clients' = Without({i})
    BY <1>2, FreeWithClient, ConnectionAssumption DEF IOError, ClientAt
  <1> QED BY <1>1, <1>2 DEF IOError, ClientAt

\* libICE frees a connection that speaks no XSMP; it has no client.
LEMMA ConnectionClosedKept ==
  ASSUME IInv, NEW a \in IceConn, ConnectionClosed(a)
  PROVE  IInv'
  <1>1. \A i \in DOMAIN clients : clients[i] # a
    BY ConnectionOfClient, ConnectionAssumption DEF IInv, ConnectionClosed
  <1> QED BY <1>1, FreeWithoutClient DEF ConnectionClosed

\* Clients of D-Bus come and go beside the connections
\* (ClientManager::add_client_dbus, on_dbus_daemon_signal_cb).
LEMMA RegisterDBusClientKept ==
  ASSUME IInv, NEW id \in Id, NEW n \in BusName, RegisterDBusClient(id, n)
  PROVE  IInv'
  <1>1. UNCHANGED <<conns, watches, timeouts>>
    BY DEF RegisterDBusClient
  <1>2. SourcesFollowConnections' /\ HandshakesHaveNoId'
    BY <1>1 DEF IInv, SourcesFollowConnections, HandshakesHaveNoId, Handshaking
  <1>3. /\ DOMAIN clients' = DOMAIN clients \cup {id}
        /\ clients' \in [DOMAIN clients' -> IceConn \cup BusName]
        /\ clients'[id] = n
        /\ \A i \in DOMAIN clients : clients'[i] = clients[i] /\ i # id
    BY AddClientAdds DEF IInv, RegisterDBusClient
  <1>4. TypeOK'
    BY <1>1, <1>3 DEF IInv, TypeOK
  <1>5. ClientsAreConnected' /\ IdsHaveTheirClients'
    BY <1>1, <1>3 DEF IInv, ClientsAreConnected, IdsHaveTheirClients
  <1> QED BY <1>2, <1>4, <1>5 DEF IInv

LEMMA NameOwnerChangedKept ==
  ASSUME IInv, NEW n \in BusName, NameOwnerChanged(n)
  PROVE  IInv'
  <1>1. UNCHANGED <<conns, watches, timeouts>>
    BY DEF NameOwnerChanged
  <1>2. SourcesFollowConnections' /\ HandshakesHaveNoId'
    BY <1>1 DEF IInv, SourcesFollowConnections, HandshakesHaveNoId, Handshaking
  <1>3. PICK j \in DOMAIN clients : clients[j] = n /\ clients' = Without({j})
    BY DEF NameOwnerChanged, ClientsNamed
  <1>4. /\ DOMAIN clients' = DOMAIN clients \ {j}
        /\ clients' \in [DOMAIN clients' -> IceConn \cup BusName]
        /\ \A i \in DOMAIN clients' : clients'[i] = clients[i]
    BY <1>3, WithoutRemoves DEF IInv
  <1>5. TypeOK'
    BY <1>1, <1>4 DEF IInv, TypeOK
  <1>6. ClientsAreConnected'
    BY <1>1, <1>4 DEF IInv, ClientsAreConnected
  <1>7. n \notin DOMAIN conns
    BY ConnectionAssumption DEF IInv, TypeOK
  <1>8. IdsHaveTheirClients'
    BY <1>1, <1>3, <1>4, <1>7 DEF IInv, IdsHaveTheirClients
  <1> QED BY <1>2, <1>5, <1>6, <1>8 DEF IInv

-----------------------------------------------------------------------------
\* Every step keeps the invariant.
LEMMA NextIInv == IInv /\ [Next]_vars => IInv'
  <1> SUFFICES ASSUME IInv, [Next]_vars PROVE IInv'
    OBVIOUS
  <1>1. ASSUME NEW a \in IceConn,
               \/ Accept(a) \/ ProtocolTimeout(a)
               \/ Authenticated(a) \/ NewClientConnection(a)
        PROVE  IInv'
    BY <1>1, AcceptKept, ProtocolTimeoutKept, HandshakeKept
  <1>2. ASSUME NEW a \in IceConn,
               CloseConnection(a) \/ IOError(a) \/ ConnectionClosed(a)
        PROVE  IInv'
    BY <1>2, CloseConnectionKept, IOErrorKept, ConnectionClosedKept
  <1>3. ASSUME NEW a \in IceConn, NEW id \in Id, RegisterClient(a, id)
        PROVE  IInv'
    BY <1>3, RegisterClientKept
  <1>4. ASSUME NEW n \in BusName,
               NameOwnerChanged(n) \/ \E id \in Id : RegisterDBusClient(id, n)
        PROVE  IInv'
    BY <1>4, NameOwnerChangedKept, RegisterDBusClientKept
  <1>5. CASE UNCHANGED vars
    BY <1>5 DEF vars, IInv, TypeOK, SourcesFollowConnections, ClientsAreConnected,
                IdsHaveTheirClients, HandshakesHaveNoId, Handshaking
  <1> QED BY <1>1, <1>2, <1>3, <1>4, <1>5 DEF Next

\* A step removes a client only with its connection, by its CloseConnection or on a
\* signal about its program.
LEMMA NextRemovesOwn ==
  ASSUME IInv, Next, NEW i \in DOMAIN clients \ DOMAIN clients'
  PROVE  OwnEnd(i)
  <1>1. ASSUME NEW a \in IceConn, CloseConnection(a)
        PROVE  OwnEnd(i)
    <2>1. a \in DOMAIN conns /\ conns[a].stage = "active"
      BY <1>1 DEF CloseConnection, Processes
    <2>2. DOMAIN clients' = DOMAIN clients \ ClientOf(a)
      BY <1>1, WithoutRemoves DEF CloseConnection, IInv
    <2>3. clients[i] = a
      BY <2>1, <2>2, ClosesOwnClient DEF ClientAt
    <2>4. conns'[a].stage = "closed"
      BY <1>1, <2>1 DEF CloseConnection, IInv, TypeOK
    <2> QED BY <2>3, <2>4, ConnectionAssumption DEF OwnEnd
  <1>2. ASSUME NEW a \in IceConn, IOError(a)
        PROVE  OwnEnd(i)
    <2>1. PICK j \in DOMAIN clients : clients[j] = a /\ clients' = Without({j})
      BY <1>2 DEF IOError, ClientAt
    <2>2. DOMAIN clients' = DOMAIN clients \ {j}
      BY <2>1, WithoutRemoves DEF IInv
    <2>3. i = j
      BY <2>2
    <2>4. a \notin DOMAIN conns'
      BY <1>2, FreedRemoves DEF IOError, IInv
    <2> QED BY <2>1, <2>3, <2>4, ConnectionAssumption DEF OwnEnd
  <1>3. ASSUME NEW n \in BusName, NameOwnerChanged(n)
        PROVE  OwnEnd(i)
    <2>1. PICK j \in DOMAIN clients : clients[j] = n /\ clients' = Without({j})
      BY <1>3 DEF NameOwnerChanged, ClientsNamed
    <2>2. DOMAIN clients' = DOMAIN clients \ {j}
      BY <2>1, WithoutRemoves DEF IInv
    <2>3. i = j
      BY <2>2
    <2> QED BY <1>3, <2>1, <2>3 DEF OwnEnd
  <1>4. ASSUME NEW id \in Id, NEW a \in IceConn, RegisterClient(a, id)
        PROVE  FALSE
    BY <1>4, AddClientAdds DEF RegisterClient, IInv
  <1>5. ASSUME NEW n \in BusName, NEW id \in Id, RegisterDBusClient(id, n)
        PROVE  FALSE
    BY <1>5, AddClientAdds DEF RegisterDBusClient, IInv
  <1>6. ASSUME NEW a \in IceConn,
               \/ Accept(a) \/ ProtocolTimeout(a) \/ ConnectionClosed(a)
               \/ Authenticated(a) \/ NewClientConnection(a)
        PROVE  FALSE
    BY <1>6 DEF Accept, ProtocolTimeout, ConnectionClosed, Authenticated,
                NewClientConnection
  <1> QED BY <1>1, <1>2, <1>3, <1>4, <1>5, <1>6 DEF Next

-----------------------------------------------------------------------------
\* The inductive invariant holds in every reachable state of the ICE connections.
THEOREM Invariance == Spec => []IInv
  <1> QED BY InitIInv, NextIInv, PTL DEF Spec

\* However set-up, errors, closes and timeouts follow each other, no watch and no
\* timeout is left for a connection that was freed (free_connection_watch).
THEOREM NoSourceIsLeft == Spec => []SourcesFollowConnections
  <1>1. IInv => SourcesFollowConnections
    BY DEF IInv
  <1> QED BY <1>1, Invariance, PTL

\* Whatever addresses and ids are used again, a client and its connection name each
\* other (get_client_by_sms_conn, get_client_by_ice_conn).
THEOREM ClientsKeepTheirConnections == Spec => []ClientsAreConnected
  <1>1. IInv => ClientsAreConnected
    BY DEF IInv
  <1> QED BY <1>1, Invariance, PTL

\* No connection takes away the client of another, the one that has its id now
\* included (on_close_connection_cb, on_ice_conn_status_changed_cb,
\* on_dbus_daemon_signal_cb).
THEOREM NoStrangerRemoves == Spec => OnlyOwnEndRemoves
  <1>1. IInv /\ [Next]_vars =>
          [\A i \in DOMAIN clients \ DOMAIN clients' : OwnEnd(i)]_vars
    BY NextRemovesOwn
  <1> QED BY <1>1, Invariance, PTL DEF Spec, OnlyOwnEndRemoves
=============================================================================
