\* Three queues and four tasks; three clock ticks in a millisecond, signals at any
\* tick, wake-ups up to two milliseconds late; three functors, a callable type that
\* can be copied (and may throw) and one that cannot.
SPECIFICATION PartsSpec
CONSTANTS
  read = read
  write = write
  ready = ready
  a = a
  b = b
  c = c
  d = d
  None = None
  Heads = {read, write, ready}
  Tasks = {a, b, c, d}
  Durations <- SomeDurations
  Tick = 3
  Late = 6
  MaxInterrupts = 3
  Horizon = 36
  f = f
  g = g
  h = h
  lambda = lambda
  unique = unique
  v = v
  w = w
  Nil = Nil
  Functors = {f, g, h}
  Types = {lambda, unique}
  Copyable = {lambda}
  Throwing = {lambda}
  Values = {v, w}
INVARIANTS LinksOK TailIsLast PollTypeOK NotEarly BoundedOvershoot
INVARIANTS FunctorTypeOK HoldsItsCallable NoMisuse
PROPERTIES PointersAreQueues FunctorsAreCells OnlyDenseSignalsDelay
