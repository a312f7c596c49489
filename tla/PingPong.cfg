\* Messages of two bytes, room for three of them, and every fault.  After an error the
\* client waits for nothing.
SPECIFICATION PingSpec
CONSTANTS
  ping_count = 3
  Ping <- ThePing
  Pong <- ThePong
  PongBuffer = 4
  Capacity = 6
  Faults = {"refused", "reset", "close", "split"}
CHECK_DEADLOCK FALSE
INVARIANTS PingTypeOK OneInFlight SequenceCountsPongs
PROPERTY RunEnds
