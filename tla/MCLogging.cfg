CONSTANTS
  Capacity = 2
  NoItem = NoItem
  Clients = {c1}
  Backends = {b1, b2}
  Messages = {m1, m2}
  Flush = Flush
  Terminate = Terminate
SPECIFICATION Spec
INVARIANTS
  TypeOK
  ItemsReachABackend
  RoomReachesALogger
  NothingLostOrTwice
  DestroyedWhenUnused
PROPERTIES
  LogServiceSpec
