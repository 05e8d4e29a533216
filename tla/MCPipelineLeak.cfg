CONSTANTS
  ProcessWorkers = {p1, p2}
  CallbackWorkers = {c1}
  Jobs = {j1}
  Counts = {0, 1}
  NoJob = NoJob
  DelayCoversSleep = TRUE
SPECIFICATION Spec
INVARIANTS
  AllFiredWhenDestroyed
