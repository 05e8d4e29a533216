CONSTANTS
  MaxLag = 1
  Owners = {o1}
  Setters = {s1}
  Replacers = {}
  Periods = {p1, p2}
  FirstPeriod = p1
  Callbacks = {f, NoCallback}
  FirstCallback = f
  NoCallback = NoCallback
SPECIFICATION LiveSpec
PROPERTIES
  TaskLiveSpec
  NewPeriodIsUsed
