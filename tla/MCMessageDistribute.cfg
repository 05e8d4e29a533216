CONSTANTS
  PoolSize = 0
  Clients = {c1}
  Messages = {m1, m2}
  Tokens = {a, b, e}
  EmptyTokens = {e}
  NoTask = NoTask
SPECIFICATION LiveSpec
INVARIANTS
  TypeOK
  MembersOutliveCallbacks
  StartOrder
  NothingLeftBehind
PROPERTIES
  PubSubLiveSpec
