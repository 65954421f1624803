SPECIFICATION Spec
CONSTANTS
  p1 = p1
  p2 = p2
  a = a
  b = b
  v1 = v1
  v2 = v2
  Pids = {p1, p2}
  Names = {a}
  Values = {v1, v2}
  Attempts = 2
  MaxPublications = 1
PROPERTY
  OverwritesAreConfirmed
CHECK_DEADLOCK FALSE
