SPECIFICATION ClientLiveSpec
CONSTANTS
  IceConn = {a1, a2, a3}
  Id = {i1, i2}
  NoId = NoId
  BusName = {b1, b2}
  n1 = n1
  n2 = n2
  v1 = v1
  v2 = v2
  Name = {n1, n2}
  Value = {v1, v2}
  Missing = Missing
  Message <- MCMessage
  Deletion <- MCDeletion
INVARIANTS
  ClientTypeOK
  SourcesFollowConnections
  ClientsAreConnected
  OnePropertyEach
PROPERTIES
  OnlyOwnEndRemoves
  HandshakeEnds
  ImplementsPropertyMap
