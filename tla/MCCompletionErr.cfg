\* What an error of the host does to a completion.
SPECIFICATION Spec
CONSTANTS
  Words           <- SmallWords
  Git             = "git"
  WithOptions     <- SmallOptions
  WithSubcommands <- SmallSubcommands
  Blocked         = {"sudo"}
  Flags           = {"-v"}
  PathWords       = {"./x"}
  Variables       = {"$V"}
  Controls        <- SmallControls
  Unsafe          <- SmallUnsafe
  Empty           = "empty"
  Lines           <- SmallLines
  Sampled         <- SampledLines
  Texts           <- SmallTexts
  Directories     <- SmallDirectories
  MaxHistory      = 3
  MaxRemote       = 2
  Requests        <- SmallRequests
  Unset           = Unset
  DefaultItems    = 3
  MostItems       = 4
  MergedItems     = 4
CHECK_DEADLOCK FALSE
INVARIANT
  LocalAlwaysMerged
