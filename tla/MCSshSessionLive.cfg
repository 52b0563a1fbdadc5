\* Liveness: a disconnect beside any two of an input, a command and a completion,
\* in a queue that holds two; with a server that answers, and with one that need not.
SPECIFICATION FairSpec
CONSTANTS
  Sessions    = {s1}
  Inputs      = {i1}
  Resizes     = {}
  Execs       = {e1}
  Completions = {h1}
  Disconnects = {d1}
  CmdCap      = 2
  ExecCap     = 1
  NoCall      = NoCall
PROPERTIES
  DisconnectTakesEffect
  EveryCallReturns
  WorkerStops
  CompletionReturns
CONSTRAINT FewCalls
CHECK_DEADLOCK FALSE
