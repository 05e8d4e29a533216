CONSTANTS
  PoolSize = 2
  Clients = {c1, c2}
  Tasks = {k1, k2, k3}
  NoTask = NoTask
SPECIFICATION LiveSpec
INVARIANTS
  TypeOK
  BacklogIsCovered
  DrainedWhenDestroyed
PROPERTIES
  ServiceLiveSpec
