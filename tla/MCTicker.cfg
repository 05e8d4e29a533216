CONSTANTS
  MaxLag = 1
  PoolSize = 2
  NoTask = NoTask
  Worker = worker
  User = user
  Clients = {worker, user}
  Ticks = 2
  Messages = {1, 2}
  Tokens = {a, b, f}
  EmptyTokens = {}
  Feeders = {f}
SPECIFICATION TickerLiveSpec
INVARIANTS
  ObserversDrained
  PipelineFedInTime
PROPERTIES
  TickerEnds
