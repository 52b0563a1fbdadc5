\* Two sessions, whose ends must not disturb each other, against the abstract
\* contract of exec.
SPECIFICATION Spec
CONSTANTS
  Sessions    = {s1, s2}
  Inputs      = {}
  Resizes     = {}
  Execs       = {e1}
  Completions = {h1}
  Disconnects = {}
  CmdCap      = 1
  ExecCap     = 1
  NoCall      = NoCall
SYMMETRY SessionSymmetry
PROPERTIES
  KeepsContract
CHECK_DEADLOCK FALSE
