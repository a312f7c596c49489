\* Two threads that start operations and run the event loop with wait_for and wait().
\* Both may end up blocked in poll().
SPECIFICATION Spec
CONSTANTS
  t1 = t1
  t2 = t2
  o1 = o1
  o2 = o2
  Nil = Nil
  Threads = {t1, t2}
  Waiters = {t1, t2}
  Clients = {t1, t2}
  Sockets = {0}
  Ops = {o1, o2}
  KernelEvents = {"POLLIN", "POLLERR"}
  Intervals = {"finite", "infinite"}
  Throws = {"poll", "getsockopt"}
SYMMETRY AllSymmetry
CHECK_DEADLOCK FALSE
INVARIANTS TypeOK PlacedOnce
PROPERTY FirstInFirstOut
