\* Discovery with three runs, the runners with two scans of two objects.
CONSTANTS
  f = f
  g = g
  d1 = d1
  d2 = d2
  o1 = o1
  o2 = o2
  Field = {f, g}
  Shape <- MCShape
  MaxRuns = 3
  MaxChanges = 2
  Decider = {d1, d2}
  Object = {o1, o2}
  Varied = {o1}
  MaxRewrites = 1
  MaxScans = 2
SPECIFICATION MCSpec
SYMMETRY Symmetry
INVARIANTS
  TypeOK
  DriftAccounted
  OverlapMakesDuplicates
  DriftHasAReason
PROPERTY
  DecisionsAreFinal
