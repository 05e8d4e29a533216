CONSTANTS
  ProcessWorkers = {p1}
  CallbackWorkers = {c1}
  Jobs = {j1, j2}
  Counts = {0, 1}
  NoJob = NoJob
  DelayCoversSleep = FALSE
SPECIFICATION FairSpec
PROPERTIES
  StaffingEnds
  JobsComeOut
