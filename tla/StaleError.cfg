\* An error stays on the handle after it was delivered.
SPECIFICATION AsyncSpec
CONSTANTS
  t1 = t1
  o1 = o1
  o2 = o2
  Nil = Nil
  Threads = {t1}
  Waiters = {t1}
  Clients = {t1}
  Sockets = {0}
  Ops = {o1, o2}
  KernelEvents = {"POLLIN", "POLLERR"}
  Intervals = {"finite"}
  Throws = {}
  Wrap = 3
  Sequential = TRUE
CHECK_DEADLOCK FALSE
INVARIANT ValueReachesReceiver
