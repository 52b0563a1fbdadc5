\* Every profile, every answer or silence of the server, and every order of
\* output, end of file, exit status and close, and every loss.
SPECIFICATION ConnSpec
CONSTANT
  MaxData = 3
INVARIANTS
  WholeOutput
  VerdictIsTrue
  LoginHasCause
PROPERTIES
  ReaderEnds
  ConnectEnds
CHECK_DEADLOCK FALSE
