SPECIFICATION Spec
CONSTANTS
  t1 = t1
  t2 = t2
  Threads = {t1, t2}
  k1 = k1
  k2 = k2
  k3 = k3
  Keys = {k1, k2, k3}
  NoKey = NoKey
  b1 = b1
  Buckets = {b1}
  hash <- OneBucket
  Capacity = 3
  Nil = Nil
  Threshold = 8
INVARIANT FindSeesPresent
CHECK_DEADLOCK FALSE
