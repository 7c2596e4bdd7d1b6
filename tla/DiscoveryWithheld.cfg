CONSTANTS
  f = f
  g = g
  d1 = d1
  d2 = d2
  Field = {f, g}
  Shape <- MCShape
  MaxRuns = 2
  MaxChanges = 2
  Decider = {d1}
SPECIFICATION Spec
PROPERTY
  CriticalChangesAreWithheld
