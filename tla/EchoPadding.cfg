\* One client, and a server with a buffer that its data does not fill.
SPECIFICATION EchoSpec
CONSTANTS
  c1 = c1
  c2 = c2
  Nil = Nil
  Clients = {c1}
  Ranges <- SomeRanges
  RecvRanges <- SomeRecvRanges
  BufferSize = 2
  Capacity = 3
  MaxSignals = 0
  Faults = {}
CHECK_DEADLOCK FALSE
INVARIANT EchoIsReceived
