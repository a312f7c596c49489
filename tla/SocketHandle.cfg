\* Three threads construct, move, swap, mark and destroy three handles.
SPECIFICATION HandleSpec
CONSTANTS
  t1 = t1
  t3 = t3
  t2 = t2
  a = a
  b = b
  c = c
  d1 = d1
  d2 = d2
  EIO = EIO
  EPIPE = EPIPE
  Nil = Nil
  Threads = {t1, t2, t3}
  Handles = {a, b, c}
  Descriptors = {d1, d2}
  Errors = {EIO, EPIPE}
SYMMETRY HandleSymmetry
INVARIANTS HandleTypeOK ErrorSurvivesSwap
PROPERTY SwapsAreAtomic
