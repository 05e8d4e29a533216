CONSTANTS
  MaxLag = 2
  Owners = {o1, o2}
  Setters = {s1}
  Replacers = {x1}
  Periods = {p1, p2}
  FirstPeriod = p1
  Callbacks = {f, g, NoCallback}
  FirstCallback = f
  NoCallback = NoCallback
SPECIFICATION Spec
INVARIANT OneThreadJoins
