\* After POLLHUP the program lets go of the socket.
SPECIFICATION Spec
CONSTANTS
  t1 = t1
  o1 = o1
  Nil = Nil
  Threads = {t1}
  Waiters = {t1}
  Clients = {t1}
  Sockets = {0}
  Ops = {o1}
  KernelEvents = {"POLLHUP"}
  Intervals = {"finite"}
  Throws = {}
INVARIANT NoFault
