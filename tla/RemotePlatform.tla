--------------------------- MODULE RemotePlatform ---------------------------
(***************************************************************************)
(* detect_remote_platform and the remote operations that ask it which      *)
(* command to send.  The operations of one session are futures of their    *)
(* own: each reads the session's cached platform, on a miss asks the host  *)
(* with a command of its own, stores what it made of the answer and sends  *)
(* the Unix or the Windows form of its command.  exec is seen through its  *)
(* contract: it yields the output, a part of it (a lost channel reads as   *)
(* its end) or an error, and only an error if the session is gone.         *)
(***************************************************************************)
EXTENDS Naturals, SequencesExt

CONSTANTS
  Chmods,   \* calls of chmod_remote_path
  BadModes, \* those of them whose mode is not three or four octal digits
  Others    \* calls of the other remote operations (list, mkdir, upload, ...)

Ops == Chmods \cup Others

ASSUME OpsAssumption == Chmods \cap Others = {} /\ BadModes \subseteq Chmods

VARIABLES
  host,       \* what the host is; never changes
  gone,       \* the session has left the map
  cache,      \* remote_platform of the session
  phase,      \* where each operation is
  asked,      \* the operations that sent the detection command to the host
  seen,       \* the platform an operation decides on
  command,    \* the form in which an operation puts its command
  misheard    \* ghost: some detection failed or lost a part of its output

platformVars == <<host, gone, cache, phase, asked, seen, command, misheard>>

Platforms == {"Unix", "WindowsCmd", "WindowsPowerShell"}

PlatformInit ==
  /\ host     \in Platforms
  /\ gone     = FALSE
  /\ cache    = "none"
  /\ phase    = [o \in Ops |-> "start"]
  /\ asked    = {}
  /\ seen     = [o \in Ops |-> "none"]
  /\ command  = [o \in Ops |-> "none"]
  /\ misheard = FALSE

\* What the login shell of the host prints for
\* echo PORTIX_DETECT && echo %OS% && echo $env:OS
Echo ==
  [Unix              |-> <<"PORTIX_DETECT", "%OS%", ":OS">>,
   WindowsCmd        |-> <<"PORTIX_DETECT", "Windows_NT", "$env:OS">>,
   WindowsPowerShell |-> <<"PORTIX_DETECT", "%OS%", "Windows_NT">>]

\* Seeded fault: the marker of cmd.exe is taken for that of any Windows.
ClassifyByPercent(lines) ==
  IF "%OS%" \notin ToSet(lines) THEN "WindowsCmd" ELSE "Unix"

Classify(lines) ==
  IF "Windows_NT" \notin ToSet(lines) THEN "Unix"
  ELSE IF "%OS%" \in ToSet(lines) THEN "WindowsPowerShell" ELSE "WindowsCmd"

SessionEnds ==
  /\ ~gone
  /\ gone' = TRUE
  /\ UNCHANGED <<host, cache, phase, asked, seen, command, misheard>>

Moves(o, to) == phase' = [phase EXCEPT ![o] = to]

\* The cache is read under its lock; nothing holds it while the host is asked.
CheckCache(o) ==
  /\ phase[o] = "start"
  /\ IF ~gone /\ cache # "none"
     THEN Moves(o, "choosing") /\ seen' = [seen EXCEPT ![o] = cache] /\ UNCHANGED asked
     ELSE /\ Moves(o, "asking") /\ UNCHANGED seen
          /\ asked' = IF gone THEN asked ELSE asked \cup {o}
  /\ UNCHANGED <<host, gone, cache, command, misheard>>

\* The answer to the detection command: all of it, a part, or an error.
Hears(o) ==
  /\ phase[o] = "asking"
  /\ Moves(o, "storing")
  /\ \/ \E n \in 0 .. Len(Echo[host]) :
          /\ o \in asked
          /\ seen' = [seen EXCEPT ![o] = Classify(SubSeq(Echo[host], 1, n))]
          /\ misheard' = (misheard \/ n < Len(Echo[host]))
     \/ seen' = [seen EXCEPT ![o] = "Unix"] /\ misheard' = TRUE
  /\ UNCHANGED <<host, gone, cache, asked, command>>

\* Whoever comes last decides what the cache says.
Store(o) ==
  /\ phase[o] = "storing"
  /\ Moves(o, "choosing")
  /\ cache' = IF gone THEN cache ELSE seen[o]
  /\ UNCHANGED <<host, gone, asked, seen, command, misheard>>

\* chmod_remote_path has no form for Windows: there it returns Ok, even for a
\* mode that it rejects elsewhere.
FormOf(o, platform) ==
  IF platform = "Unix" THEN IF o \in BadModes THEN "rejected" ELSE "unix"
  ELSE IF o \in Chmods THEN "skipped" ELSE "windows"

\* Seeded fault: what to send is read from the cache once more.
IssueFromCache(o) ==
  /\ phase[o] = "choosing"
  /\ Moves(o, "returned")
  /\ command' = [command EXCEPT ![o] = FormOf(o, cache)]
  /\ UNCHANGED <<host, gone, cache, asked, seen, misheard>>

\* The command in the form for the platform goes to exec.
Issue(o) ==
  /\ phase[o] = "choosing"
  /\ Moves(o, "returned")
  /\ command' = [command EXCEPT ![o] = FormOf(o, seen[o])]
  /\ UNCHANGED <<host, gone, cache, asked, seen, misheard>>

PlatformNext ==
  \/ SessionEnds
  \/ \E o \in Ops : CheckCache(o) \/ Hears(o) \/ Store(o) \/ Issue(o)

PlatformSpec == PlatformInit /\ [][PlatformNext]_platformVars

-----------------------------------------------------------------------------

\* A Unix host is never sent PowerShell, never has its chmod skipped and is never
\* sent a bad mode, whatever detections race, fail or are cut short.
UnixIsSafe ==
  host = "Unix" =>
    \A o \in Ops : command[o] \in {"none", IF o \in BadModes THEN "rejected" ELSE "unix"}

\* A command in the wrong form for the host has a cause: a detection of this
\* session that failed or was cut short.  Racing alone never does it.
WrongFormHasCause ==
  \A o \in Ops : command[o] # "none" /\ ~misheard => command[o] = FormOf(o, host)

\* The comment on is_remote_windows: "Detect if the remote host is Windows ...
\* Result is cached per session".  Not so: an error is cached as "Unix".
CachedIsHost == cache # "none" => cache = host
=============================================================================
