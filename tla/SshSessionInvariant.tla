------------------------ MODULE SshSessionInvariant ------------------------
(***************************************************************************)
(* The inductive invariant behind the safety properties of SshSession.     *)
(* Its idea: a request that was sent into the system is in exactly one of  *)
(* four places (command channel, runtime's hand, exec channel, worker's    *)
(* hand) until its oneshot is used, and only the worker's hand sends it.   *)
(* A second part, over the first, follows the phases of the runtime.       *)
(***************************************************************************)
EXTENDS SshSession

Busy(s)    == runtime[s] \in {"writing", "forwarding", "closing"}
Working(s) == worker[s] \in {"dialing", "redialing", "ready", "running"}

\* Where a call of session s can be.
Queued(s)    == ToSet(commandQ[s])
Forwarded(s) == ToSet(execQ[s])
Places(s)    == Queued(s) \cup Forwarded(s) \cup ({inHand[s], job[s]} \ {NoCall})

\* The four places hold different calls, each of this session.
OnePlace(s) ==
  /\ \A c \in Places(s) : target[c] = s
  /\ IsInjective(commandQ[s]) /\ IsInjective(execQ[s])
  /\ Queued(s) \cap Forwarded(s) = {}
  /\ ({inHand[s], job[s]} \ {NoCall}) \cap (Queued(s) \cup Forwarded(s)) = {}
  /\ inHand[s] = job[s] => job[s] = NoCall

\* The worker starts with the shell, and the hands of the two tasks are full
\* when they are busy, with the right kind of call.
Hands(s) ==
  /\ runtime[s] \in {"absent", "connecting", "opening"} => worker[s] = "none"
  /\ inHand[s] # NoCall <=> Busy(s)
  /\ runtime[s] = "forwarding" => inHand[s] \in Requests
  /\ job[s] # NoCall <=> Working(s)
  /\ job[s] \in Requests \cup {NoCall}
  /\ Forwarded(s) \subseteq Requests

\* The channels are in use only while somebody is there to empty them.
Open(s) ==
  /\ commandQ[s] # <<>> => RxOpen(s)
  /\ ExecTxOpen(s) => worker[s] \notin {"none", "exited"}
  /\ worker[s] \in {"none", "exited"} => execQ[s] = <<>>

\* A call in one of the places has been sent into the system; if it is a
\* request it is unanswered, and its command unsent unless it is running.
Pending(s) ==
  \A c \in Places(s) :
    /\ phase[c] \in {"waiting", "returned"}
    /\ c \in Requests =>
         /\ reply[c] = "none"
         /\ result[c] \in {"none", "timeout"}
         /\ sent[c] = IF job[s] = c /\ worker[s] = "running" THEN 1 ELSE 0

\* What a call's phase, oneshot and result say of each other.
History(c) ==
  /\ phase[c] \in {"unused", "sending"} =>
       sent[c] = 0 /\ reply[c] = "none"
  /\ phase[c] = "returned" <=> result[c] # "none"
  /\ sent[c] <= 1
  /\ reply[c] \in {"dropped", "unreachable"} => sent[c] = 0
  /\ reply[c] = "ok" => sent[c] = 1

\* What the result of a request says of the command.
Told == NotFoundNeverSent /\ OkWasSent

IInv ==
  /\ TypeOK
  /\ \A s \in Sessions : Hands(s) /\ OnePlace(s) /\ Open(s) /\ Pending(s)
  /\ \A c \in Requests : History(c)
  /\ Told

-----------------------------------------------------------------------------
(* The phases of the runtime against the map, the log and the calls        *)

\* The map has the session from its connect until its task unregisters it.
Registered(s) == s \in sessions <=> RxOpen(s) \/ runtime[s] = "ended"

UpLogs      == {<<"Connecting", "Connected">>, <<"Connecting", "Connected", "Output">>}
StartedLogs == {<<"Connecting">>} \cup UpLogs

\* What has been emitted when run is about to return with a status.
EndedLogs(status) ==
  IF status = "Error" THEN {Append(log, "ErrorEvent") : log \in StartedLogs} ELSE UpLogs

\* The log of a session is that of its phase.
Logged(s) ==
  /\ runtime[s] = "absent" => events[s] = <<>>
  /\ runtime[s] \in {"connecting", "opening"} => events[s] = <<"Connecting">>
  /\ ExecTxOpen(s) => events[s] \in UpLogs
  /\ runtime[s] \in {"ended", "removed"} => events[s] \in EndedLogs(finalStatus[s])
  /\ runtime[s] = "done" =>
       \E log \in EndedLogs(finalStatus[s]) : events[s] = Append(log, finalStatus[s])

\* The runtime has a request in hand only to pass it on, and never returns with one.
Carried(s) == inHand[s] \in Requests => runtime[s] = "forwarding"

\* A call that is under way names a session that was started; a request that
\* waits without an answer is in one of the places; its answer came from a worker,
\* or from a runtime that has returned.
Followed(c) ==
  /\ phase[c] \in {"sending", "waiting"} => runtime[target[c]] # "absent"
  /\ phase[c] = "waiting" /\ reply[c] = "none" => c \in Places(target[c])
  /\ reply[c] = "dropped" => runtime[target[c]] \in {"ended", "removed", "done"}
  /\ reply[c] \notin {"none", "dropped"} => worker[target[c]] # "none"

LifeInv ==
  /\ \A s \in Sessions : Registered(s) /\ Logged(s) /\ Carried(s)
  /\ \A c \in Requests : Followed(c)
=============================================================================
