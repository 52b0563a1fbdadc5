\* A stream that may fall behind two sessions, over a channel that holds a third
\* of their events.
SPECIFICATION FairSpec
CONSTANTS
  Sessions  = {s1, s2}
  Streams   = {r1}
  Capacity  = 2
  MaxEvents = 4
INVARIANTS
  LossHasCause
PROPERTIES
  LastArrives
CHECK_DEADLOCK FALSE
