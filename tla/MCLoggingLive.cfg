CONSTANTS
  Capacity = 1
  NoItem = NoItem
  Clients = {c1}
  Backends = {b1, b2}
  Messages = {m1}
  Flush = Flush
  Terminate = Terminate
SPECIFICATION LiveSpec
PROPERTIES
  LogServiceLiveSpec
