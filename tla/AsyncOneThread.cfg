\* One thread that issues operations one after the other and runs the loop;
\* with nothing to wait for it may stay in poll().
SPECIFICATION AsyncLiveSpec
CONSTANTS
  t1 = t1
  o1 = o1
  o2 = o2
  o3 = o3
  Nil = Nil
  Threads = {t1}
  Waiters = {t1}
  Clients = {t1}
  Sockets = {0}
  Ops = {o1, o2, o3}
  KernelEvents = {"POLLIN", "POLLOUT", "POLLERR"}
  Intervals = {"infinite"}
  Throws = {}
  Wrap = 2
  Sequential = TRUE
CHECK_DEADLOCK FALSE
INVARIANTS AsyncTypeOK Armed NoStaleInterest NoWouldBlock NoFault
PROPERTY NotStuckReady
