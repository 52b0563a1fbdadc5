\* One session under every kind of call; both channels can be full.
SPECIFICATION Spec
CONSTANTS
  Sessions    = {s1}
  Inputs      = {i1}
  Resizes     = {}
  Execs       = {e1, e2}
  Completions = {h1}
  Disconnects = {d1}
  CmdCap      = 1
  ExecCap     = 1
  NoCall      = NoCall
SYMMETRY CallSymmetry
INVARIANTS
  TypeOK
  AtMostOnce
  NotFoundNeverSent
  OkWasSent
  NoLostRequest
  LifecycleOrder
  AfterFinalStatus
  SenderAlive
CHECK_DEADLOCK FALSE
