CONSTANTS
  r1 = r1
  r2 = r2
  w0 = w0
  Replicas = {r1, r2}
  Order <- TwoReplicas
  W = 2
  R = 1
  Writes = {w0, w1, w2}
  Reads = {q1, q2}
  Writers = {"gateway"}
  writerOf <- Gateway
  MaxDowns = 1
  MaxUps = 0
SPECIFICATION SeededSpec
CHECK_DEADLOCK FALSE
SYMMETRY Symmetry
INVARIANTS
  NoStaleRead
