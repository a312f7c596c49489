\* A wait of one millisecond, with signals less than a millisecond apart.
SPECIFICATION PollSpec
CONSTANTS
  Durations = {1}
  Tick = 3
  Late = 0
  MaxInterrupts = 0
  Horizon = 3
PROPERTY FiniteWaitEnds
