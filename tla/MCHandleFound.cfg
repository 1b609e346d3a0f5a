SPECIFICATION Spec
CONSTANTS
  HANDLE_MASK = 15
  INITIAL_SLOTS = 4
  c1 = c1
  c2 = c2
  c3 = c3
  c4 = c4
  c5 = c5
  n1 = n1
  n2 = n2
  Context = {c1, c2, c3, c4, c5}
  Name = {n1, n2}
  Nil = Nil
SYMMETRY Symmetry
CHECK_DEADLOCK FALSE
INVARIANTS
  Found
