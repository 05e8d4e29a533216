CONSTANTS
  ProcessWorkers = {p1, p2}
  CallbackWorkers = {c1, c2}
  Jobs = {j1, j2}
  Counts = {1, 2}
  NoJob = NoJob
  DelayCoversSleep = TRUE
SPECIFICATION Spec
SYMMETRY Alike
INVARIANTS
  TypeOK
  JobsConserved
  IdleMeansProduced
  AllFiredWhenDestroyed
  JobsReachAWorker
PROPERTIES
  FactorySpec
