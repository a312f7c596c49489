\* A client with a message of four bytes in four buffers, and one that says
\* nothing; a server with a buffer of three bytes.  A server that listens may wait
\* for ever.
SPECIFICATION EchoSpec
CONSTANTS
  c1 = c1
  c2 = c2
  Nil = Nil
  Clients = {c1, c2}
  Ranges <- SomeRanges
  RecvRanges <- SomeRecvRanges
  BufferSize = 3
  Capacity = 2
  MaxSignals = 1
  Faults = {"setup", "fcntl", "accept", "reset"}
CHECK_DEADLOCK FALSE
INVARIANTS EchoTypeOK NothingLost EchoIsPadded
PROPERTIES EchoArrives BacklogDrains
