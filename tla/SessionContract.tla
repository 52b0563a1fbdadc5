-------------------------- MODULE SessionContract --------------------------
(***************************************************************************)
(* What SessionManager promises the callers of exec, without channels,     *)
(* workers or oneshots: a session has a life, a request is sent to the     *)
(* host at most once while the session is up or being wound up, and what   *)
(* the caller is told is true of the command and of the session.           *)
(***************************************************************************)
EXTENDS Naturals

CONSTANTS
  Sessions,   \* session ids
  Requests,   \* calls of exec
  Deadlined   \* those of them whose caller sets a deadline

VARIABLES
  life,    \* of each session
  of,      \* the session a request names
  sent,    \* how often a request's command was sent to the host
  answer   \* what the caller was told

vars == <<life, of, sent, answer>>

Init ==
  /\ life   = [s \in Sessions |-> "absent"]
  /\ of     \in [Requests -> Sessions]
  /\ sent   = [r \in Requests |-> 0]
  /\ answer = [r \in Requests |-> "none"]

Ages(s, from, to) ==
  /\ life[s] = from
  /\ life' = [life EXCEPT ![s] = to]
  /\ UNCHANGED <<of, sent, answer>>

Starts(s)  == Ages(s, "absent", "starting")
ComesUp(s) == Ages(s, "starting", "up")
Ends(s)    == Ages(s, "starting", "over") \/ Ages(s, "up", "over")

\* The command goes to the host: the caller is still waiting or has run into
\* its deadline, but was not told that this would not happen.
SendCommand(r) ==
  /\ life[of[r]] \in {"up", "over"}
  /\ sent[r] = 0
  /\ answer[r] \in {"none", "timeout"}
  /\ sent' = [sent EXCEPT ![r] = 1]
  /\ UNCHANGED <<life, of, answer>>

Tell(r, a) ==
  /\ answer[r] = "none"
  /\ answer' = [answer EXCEPT ![r] = a]
  /\ UNCHANGED <<life, of, sent>>

\* No such session: there is none, and the command was not sent.
NotFound(r) == life[of[r]] \in {"absent", "over"} /\ sent[r] = 0 /\ Tell(r, "notfound")

\* The worker has no connection: only once the session has been up.
Unreachable(r) == life[of[r]] \in {"up", "over"} /\ sent[r] = 0 /\ Tell(r, "unreachable")

Succeeded(r) == sent[r] = 1 /\ Tell(r, "ok")
Failed(r)    == life[of[r]] \in {"up", "over"} /\ Tell(r, "err")

\* The deadline can pass whatever became of the command.
TimedOut(r) == r \in Deadlined /\ life[of[r]] # "absent" /\ Tell(r, "timeout")

Next ==
  \/ \E s \in Sessions : Starts(s) \/ ComesUp(s) \/ Ends(s)
  \/ \E r \in Requests :
       \/ SendCommand(r) \/ NotFound(r) \/ Unreachable(r)
       \/ Succeeded(r) \/ Failed(r) \/ TimedOut(r)

Spec == Init /\ [][Next]_vars
=============================================================================
