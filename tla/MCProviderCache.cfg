\* Three lookups of a source that changes once, two of any sources of one provider,
\* in a time that lets an entry expire and be replaced, and one of a repository
\* that git works on.
SPECIFICATION Spec
CONSTANTS
  Lookups      = {l1, l2, l3}
  Scenarios    <- SmallScenarios
  Worked       <- SmallWorked
  Home         <- SmallHome
  Repositories <- SmallRepositories
  ProcessPath  = "p0"
  Unset        = Unset
  Branches     = {b1}
  Ttl          = 2
  MaxTime      = 4
  MaxVersion   = 1
SYMMETRY LookupSymmetry
INVARIANTS
  Fresh
  NeverBackwards
  RightSource
  BranchesAreTrue
CHECK_DEADLOCK FALSE
