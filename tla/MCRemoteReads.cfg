SPECIFICATION Spec
CONSTANTS
  Letters    <- SmallLetters
  Upper      <- SmallUpper
  MaxLength  = 2
  Listed     <- SmallListed
  MaxEntries = 3
  MaxPieces  = 3
  HelpLines  <- SmallHelp
  MaxHelp    = 3
  Typed      <- SmallTyped
  Commands   <- SmallCommands
  HostLimit  = 3
  Dash       = 0
  Sign       = 9
  HelpLimit  = 2
  NameLimit  = 2
INVARIANTS
  ResolvesUniquely
  ListingIsTrue
  ReadIsWhole
  SnapshotIsTrue
  SuggestionsAreTrue
CHECK_DEADLOCK FALSE
