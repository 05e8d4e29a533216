CONSTANTS
  MaxCount = 2
  Acquirers = {a1}
  Releasers = {r1, r2}
  Stoppers = {s1, s2}
SPECIFICATION LiveSpec
INVARIANTS
  TypeOK
  TokensReachSomebody
  StopReachesEverybody
PROPERTIES
  SemaphoreLiveSpec
