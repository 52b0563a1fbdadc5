\* Racing detections over every kind of host, with lost and cut answers.
SPECIFICATION PlatformSpec
CONSTANTS
  Chmods   = {m1, m2}
  BadModes = {m2}
  Others   = {o1, o2}
SYMMETRY OtherSymmetry
INVARIANTS
  UnixIsSafe
  WrongFormHasCause
CHECK_DEADLOCK FALSE
