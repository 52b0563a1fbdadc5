\* Uploads of up to two chunks and a create on shared or separate paths; a
\* failed upload can be followed by another one as its retry.
SPECIFICATION Spec
CONSTANTS
  Uploads = {u1, u2}
  Creates = {k1}
  Paths   = {p1, p2}
  Chunks  = 2
  Absent  = Absent
SYMMETRY UploadSymmetry
INVARIANTS
  OkIsWhole
  ErrHasCause
  NoSilentDamage
  NoLeftover
CHECK_DEADLOCK FALSE
