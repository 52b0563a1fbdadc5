---------------------------- MODULE ChannelOutput ----------------------------
(***************************************************************************)
(* What the client makes of the messages of one SSH channel: run_exec      *)
(* collects the output of a command and its exit status; the interactive   *)
(* shell (SshRuntime::run) passes its output on.  The server sends output  *)
(* and error output, then the end of file, and closes the channel last;    *)
(* the exit status comes somewhere before the close; a command that was    *)
(* killed has a signal instead, one that was refused only a failure.  The  *)
(* connection may be lost at any time.                                     *)
(***************************************************************************)
EXTENDS Naturals, SequencesExt

CONSTANTS
  MaxData     \* bound: pieces of output

ASSUME DataAssumption == MaxData \in Nat

VARIABLES
  reader,     \* "exec" or "shell"; never changes
  process,    \* how the remote process ends: with exit status zero or not,
              \* by a "signal", or "refused" before it began
  sent,       \* all messages of the server so far
  taken,      \* how many of them the client has received
  lost,       \* the connection is lost
  output,     \* what the client collected or passed on
  status,     \* exit_status in run_exec
  result      \* "none" while the loop runs, then "ok" or "err"

vars == <<reader, process, sent, taken, lost, output, status, result>>

\* Pieces of output are numbered; odd ones go to stdout, even ones to stderr.
Data(i) == IF i % 2 = 1 THEN <<"Data", i>> ELSE <<"ExtendedData", i>>

\* The message that reports the end of the process.
Report == [zero |-> "ExitStatus", nonzero |-> "ExitStatus", signal |-> "ExitSignal", refused |-> "Failure"]

Init ==
  /\ reader  \in {"exec", "shell"}
  /\ process \in DOMAIN Report
  /\ sent    = <<>>
  /\ taken   = 0
  /\ lost    = FALSE
  /\ output  = <<>>
  /\ status  = "none"
  /\ result  = "none"

DataSent == Cardinality({i \in DOMAIN sent : sent[i][1] \in {"Data", "ExtendedData"}})
HasSent(kind) == \E i \in DOMAIN sent : sent[i][1] = kind

Sends(m) ==
  /\ ~lost /\ ~HasSent("Close")
  /\ sent' = Append(sent, m)
  /\ UNCHANGED <<reader, process, taken, lost, output, status, result>>

SendData   == DataSent < MaxData /\ ~HasSent("Eof") /\ process # "refused" /\ Sends(Data(DataSent + 1))
SendEof    == ~HasSent("Eof") /\ Sends(<<"Eof", 0>>)
SendReport == ~HasSent(Report[process]) /\ Sends(<<Report[process], 0>>)
SendClose  == HasSent(Report[process]) /\ Sends(<<"Close", 0>>)

\* Messages that were received before stay to be read.
Lose ==
  /\ ~lost /\ lost' = TRUE
  /\ UNCHANGED <<reader, process, sent, taken, output, status, result>>

Message == sent[taken + 1]
Waits(kinds) == result = "none" /\ taken < Len(sent) /\ Message[1] \in kinds
Takes == taken' = taken + 1

TakeData ==
  /\ Waits({"Data", "ExtendedData"}) /\ Takes
  /\ output' = Append(output, Message[2])
  /\ UNCHANGED <<reader, process, sent, lost, status, result>>

\* Seeded fault: a command succeeded when it printed something.
VerdictOfOutput == IF output # <<>> THEN "ok" ELSE "err"

\* run_exec after its loop: a status that did not come counts as success.
Verdict == IF reader = "exec" /\ status = "nonzero" THEN "err" ELSE "ok"

Ends == result' = Verdict /\ UNCHANGED <<reader, process, sent, lost, output, status>>

\* Seeded fault: run_exec stops at the exit status.
TakeStatusLast ==
  /\ Waits({"ExitStatus"}) /\ Takes
  /\ status' = process
  /\ result' = IF process = "zero" THEN "ok" ELSE "err"
  /\ UNCHANGED <<reader, process, sent, lost, output>>

\* run_exec keeps the status and reads on; the shell ends.
TakeStatus ==
  /\ Waits({"ExitStatus"}) /\ Takes
  /\ IF reader = "exec"
     THEN status' = process /\ UNCHANGED <<reader, process, sent, lost, output, result>>
     ELSE Ends

\* Neither looks at other messages.
TakeOther ==
  /\ Waits({"ExitSignal", "Failure"}) /\ Takes
  /\ UNCHANGED <<reader, process, sent, lost, output, status, result>>

\* Both stop at the end of file, without waiting for the close.
TakeEnd == Waits({"Eof", "Close"}) /\ Takes /\ Ends

\* Seeded fault: the end of the messages is waited out.
TakeNoneRetrying == result = "none" /\ lost /\ taken = Len(sent) /\ UNCHANGED vars

\* wait() returns None after a loss, once everything received is read.
TakeNone == result = "none" /\ lost /\ taken = Len(sent) /\ Ends /\ UNCHANGED taken

Server == SendData \/ SendEof \/ SendReport \/ SendClose \/ Lose
Client == TakeData \/ TakeStatus \/ TakeOther \/ TakeEnd \/ TakeNone

Next == Server \/ Client

Spec == Init /\ [][Next]_vars

\* The reader is a task that the runtime schedules.
FairSpec == Spec /\ WF_vars(Client)

-----------------------------------------------------------------------------

Position(kind) == IF HasSent(kind) THEN CHOOSE i \in DOMAIN sent : sent[i][1] = kind ELSE 0

\* Output is whole and in order, of both kinds, however the messages were
\* ordered: in run_exec unless the connection was lost, in the shell when it saw
\* the end of file -- it also stops at the exit status, and drops what follows.
WholeOutput ==
  result # "none" /\ taken > 0 /\ ((reader = "exec" /\ ~lost) \/ sent[taken][1] = "Eof")
    => output = [i \in 1 .. DataSent |-> i]

\* What run_exec says of a command is true: an error is the fault of the command
\* and of nothing else; a command that failed reads as a success only if its
\* status did not come before its end of file, or was lost with the connection.
VerdictIsTrue ==
  /\ result = "err" => reader = "exec" /\ process = "nonzero"
  /\ reader = "exec" /\ process = "nonzero" /\ result = "ok" =>
       \/ lost
       \/ HasSent("Eof") /\ Position("Eof") < Position("ExitStatus")
       \/ ~HasSent("ExitStatus")

\* Once the server closed the channel, or the connection is lost, the reader
\* comes to an end.  Without either nothing ends it: there is no timeout.
ReaderEnds == (HasSent("Close") \/ lost) ~> result # "none"
=============================================================================
