SPECIFICATION Spec
CONSTANTS
  Threads = {t1, t2}
  Keys = {k1, k2}
  Values = {v1, v2}
  NumShards = 2
  Nil = Nil
  MaxPoisonings = 2
SYMMETRY Interchangeable
INVARIANTS
  RecoveredOnce
