SPECIFICATION Spec
CONSTANTS
  c1 = c1
  c2 = c2
  c3 = c3
  o1 = o1
  p1 = p1
  p2 = p2
  p3 = p3
  r1 = r1
  r2 = r2
  Nil = Nil
PROPERTIES AlwaysAnswered Recovers
CHECK_DEADLOCK FALSE
