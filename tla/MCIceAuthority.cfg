SPECIFICATION IceSpec
CONSTANTS
  first = first
  second = second
  third = third
  net1 = net1
  net2 = net2
  Session <- MCSession
  NetOf <- MCNetOf
  NoNet = NoNet
  Earlier = Earlier
  InitialFile <- MCInitialFile
  NoFile = NoFile
  NoOne = NoOne
  LockRetries = 2
  Buffer = 1
INVARIANTS
  IceTypeOK
  UpdatesExclude
  ClientsCanAuthenticate
PROPERTIES
  SessionServes
CHECK_DEADLOCK FALSE
