\* What a failed detection leaves in the cache.
SPECIFICATION PlatformSpec
CONSTANTS
  Chmods   = {m1, m2}
  BadModes = {m2}
  Others   = {o1, o2}
SYMMETRY OtherSymmetry
INVARIANT
  CachedIsHost
CHECK_DEADLOCK FALSE
