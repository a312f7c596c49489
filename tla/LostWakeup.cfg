\* The loop dispatches between connect and start of the other thread.
SPECIFICATION LiveSpec
CONSTANTS
  t1 = t1
  t2 = t2
  o1 = o1
  Nil = Nil
  Threads = {t1, t2}
  Waiters = {t1}
  Clients = {t2}
  Sockets = {0}
  Ops = {o1}
  KernelEvents = {"POLLIN"}
  Intervals = {"finite"}
  Throws = {}
PROPERTY ReadyOpCompletes
