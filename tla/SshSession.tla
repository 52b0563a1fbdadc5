----------------------------- MODULE SshSession -----------------------------
(***************************************************************************)
(* The core of portix-serv: SessionManager (the map of live sessions and   *)
(* the API calls that use it), the SshRuntime task that owns a session's   *)
(* interactive shell, and the exec worker that runs remote commands for it *)
(* over a second SSH connection.                                           *)
(*                                                                         *)
(* Every API call is a future of its own (one element of Calls): it looks  *)
(* its session up, awaits room in the command channel and, when it asks    *)
(* for a remote command, awaits the oneshot answer.  The calls, the        *)
(* runtime and the worker are tokio tasks that meet only at the two        *)
(* bounded channels, the oneshots and the session map; an action is what   *)
(* one of them does between two awaits.                                    *)
(*                                                                         *)
(* Not represented: what the bytes, commands and outputs are.              *)
(***************************************************************************)
EXTENDS Naturals, SequencesExt

CONSTANTS
  Sessions,     \* session ids; each is a fresh UUID, so used by one connect
  Inputs,       \* calls of send_terminal_input
  Resizes,      \* calls of resize_terminal
  Execs,        \* calls of exec without a deadline (snapshot, files, detection)
  Completions,  \* calls of exec under COMPLETION_TIMEOUT (help, history)
  Disconnects,  \* calls of disconnect
  CmdCap,       \* capacity of the command channel (512)
  ExecCap,      \* capacity of the exec channel (64)
  NoCall        \* stands for "no command in hand"

Writes   == Inputs \cup Resizes       \* become one write to the shell channel
Requests == Execs \cup Completions    \* carry a oneshot sender for the answer
Calls    == Writes \cup Requests \cup Disconnects

ASSUME CallsAssumption ==
  /\ Inputs \cap Resizes = {}
  /\ Execs \cap Completions = {}
  /\ Writes \cap Requests = {}
  /\ Writes \cap Disconnects = {}
  /\ Requests \cap Disconnects = {}
  /\ NoCall \notin Calls
ASSUME CapAssumption == CmdCap \in Nat \ {0} /\ ExecCap \in Nat \ {0}

VARIABLES
  sessions,     \* keys of SessionManager.sessions
  runtime,      \* where the session's spawned task is
  inHand,       \* the command a select! arm is still carrying out
  commandQ,     \* the command channel: sent and not yet received
  finalStatus,  \* final_status, known when run has returned
  events,       \* what was emitted for the session, in order
  execQ,        \* the exec channel
  worker,       \* where the session's exec worker is
  link,         \* the worker's `session` is Some
  job,          \* the request the worker has taken
  phase,        \* how far each call is
  target,       \* the session each call names
  result,       \* what each call returned
  reply,        \* the oneshot of each request
  sent          \* how often a request's command was sent to the host

sessionVars == <<sessions, runtime, inHand, commandQ, finalStatus, events>>
workerVars  == <<execQ, worker, link, job, sent>>
callVars    == <<phase, target, result>>
vars        == <<sessionVars, workerVars, callVars, reply>>

RuntimePhases == {"absent", "connecting", "opening", "selecting", "writing",
                  "forwarding", "closing", "ended", "removed", "done"}
WorkerPhases  == {"none", "connecting", "idle", "dialing", "redialing",
                  "ready", "running", "exited"}
CallPhases    == {"unused", "sending", "waiting", "returned"}
Replies       == {"none", "ok", "err", "unreachable", "dropped"}
Results       == {"none", "ok", "err", "unreachable", "notfound", "timeout"}
FinalStatuses == {"Disconnected", "Error"}
Events        == {"Connecting", "Connected", "Output", "ErrorEvent"}
                   \cup FinalStatuses

\* Seeded fault: command_rx is kept until the final status is out.
RxOpenLong(s) == runtime[s] \notin {"absent", "done"}

\* command_rx lives as long as run does.
RxOpen(s) == runtime[s] \in {"connecting", "opening", "selecting",
                             "writing", "forwarding", "closing"}

\* Seeded fault: the worker is handed a sender of its own channel.
ExecTxOpenForever(s) == runtime[s] \notin {"absent", "connecting", "opening"}

\* exec_tx lives from the shell being up on.
ExecTxOpen(s) == runtime[s] \in {"selecting", "writing", "forwarding", "closing"}

Init ==
  /\ sessions    = {}
  /\ runtime     = [s \in Sessions |-> "absent"]
  /\ inHand      = [s \in Sessions |-> NoCall]
  /\ commandQ    = [s \in Sessions |-> <<>>]
  /\ finalStatus = [s \in Sessions |-> "Disconnected"]
  /\ events      = [s \in Sessions |-> <<>>]
  /\ execQ       = [s \in Sessions |-> <<>>]
  /\ worker      = [s \in Sessions |-> "none"]
  /\ link        = [s \in Sessions |-> FALSE]
  /\ job         = [s \in Sessions |-> NoCall]
  /\ phase       = [c \in Calls |-> "unused"]
  /\ target      \in [Calls -> Sessions]
  /\ result      = [c \in Calls |-> "none"]
  /\ reply       = [c \in Calls |-> "none"]
  /\ sent        = [c \in Calls |-> 0]

-----------------------------------------------------------------------------
(* SessionManager::connect and the task it spawns                          *)

\* A valid profile: the session is in the map and its "Connecting" is out
\* before the caller learns the id.  (An invalid one changes nothing.)
Connect(s) ==
  /\ runtime[s] = "absent"
  /\ sessions' = sessions \cup {s}
  /\ runtime'  = [runtime EXCEPT ![s] = "connecting"]
  /\ events'   = [events EXCEPT ![s] = Append(@, "Connecting")]
  /\ UNCHANGED <<inHand, commandQ, finalStatus, workerVars, callVars, reply>>

\* run returns: command_rx and exec_tx are dropped, and with the commands
\* nobody received the oneshots in them; an error is announced at once.
EndRunDropping(s, status, dropped) ==
  /\ runtime'     = [runtime EXCEPT ![s] = "ended"]
  /\ finalStatus' = [finalStatus EXCEPT ![s] = status]
  /\ commandQ'    = [commandQ EXCEPT ![s] = <<>>]
  /\ inHand'      = [inHand EXCEPT ![s] = NoCall]
  /\ reply'       = [c \in Calls |-> IF c \in dropped THEN "dropped" ELSE reply[c]]
  /\ events'      = IF status = "Error"
                    THEN [events EXCEPT ![s] = Append(@, "ErrorEvent")] ELSE events
  /\ UNCHANGED <<sessions, workerVars, callVars>>

\* Seeded fault: the worker's requests are dropped with the task.
EndRunAbortingWorker(s, status) ==
  EndRunDropping(s, status, {c \in Requests : target[c] = s /\ phase[c] = "waiting"
                                              /\ reply[c] = "none"})

EndRun(s, status) == EndRunDropping(s, status, Requests \cap ToSet(commandQ[s]))

\* Seeded fault: the entry outlives the task.
UnregisterForgets(s) ==
  /\ runtime[s] = "ended"
  /\ runtime'  = [runtime EXCEPT ![s] = "removed"]
  /\ UNCHANGED <<sessions, inHand, commandQ, finalStatus, events,
                 workerVars, callVars, reply>>

Unregister(s) ==
  /\ runtime[s] = "ended"
  /\ runtime'  = [runtime EXCEPT ![s] = "removed"]
  /\ sessions' = sessions \ {s}
  /\ UNCHANGED <<inHand, commandQ, finalStatus, events, workerVars, callVars, reply>>

EmitFinal(s) ==
  /\ runtime[s] = "removed"
  /\ runtime' = [runtime EXCEPT ![s] = "done"]
  /\ events'  = [events EXCEPT ![s] = Append(@, finalStatus[s])]
  /\ UNCHANGED <<sessions, inHand, commandQ, finalStatus, workerVars, callVars, reply>>

-----------------------------------------------------------------------------
(* SshRuntime::run                                                         *)

\* Seeded fault: "Connected" as soon as the password is accepted.
AuthenticatedAnnounces(s) ==
  /\ runtime[s] = "connecting"
  /\ runtime' = [runtime EXCEPT ![s] = "opening"]
  /\ events'  = [events EXCEPT ![s] = Append(@, "Connected")]
  /\ UNCHANGED <<sessions, inHand, commandQ, finalStatus, workerVars, callVars, reply>>

\* connect_and_authenticate, under CONNECT_TIMEOUT and AUTH_TIMEOUT.
Authenticated(s) ==
  /\ runtime[s] = "connecting"
  /\ runtime' = [runtime EXCEPT ![s] = "opening"]
  /\ UNCHANGED <<sessions, inHand, commandQ, finalStatus, events,
                 workerVars, callVars, reply>>

ConnectFails(s) == runtime[s] = "connecting" /\ EndRun(s, "Error")

\* channel, pty and shell requested: the worker is spawned and "Connected" is
\* emitted without an await in between.
ShellReady(s) ==
  /\ runtime[s] = "opening"
  /\ runtime' = [runtime EXCEPT ![s] = "selecting"]
  /\ events'  = [events EXCEPT ![s] = Append(@, "Connected")]
  /\ worker'  = [worker EXCEPT ![s] = "connecting"]
  /\ UNCHANGED <<sessions, inHand, commandQ, finalStatus,
                 execQ, link, job, sent, callVars, reply>>

OpenFails(s) == runtime[s] = "opening" /\ EndRun(s, "Error")

\* The select! arm command_rx.recv(): the command leaves the queue, and while
\* the arm carries it out neither branch of the select! is polled.
\* (Its None arm needs every sender gone, and the map holds one until the
\* task has ended: SenderAlive below.)
Receive(s, kind, during) ==
  /\ runtime[s] = "selecting"
  /\ commandQ[s] # <<>>
  /\ Head(commandQ[s]) \in kind
  /\ runtime'  = [runtime EXCEPT ![s] = during]
  /\ inHand'   = [inHand EXCEPT ![s] = Head(commandQ[s])]
  /\ commandQ' = [commandQ EXCEPT ![s] = Tail(@)]
  /\ UNCHANGED <<sessions, finalStatus, events, workerVars, callVars, reply>>

ReceiveWrite(s) == Receive(s, Writes, "writing")
ReceiveExec(s)  == Receive(s, Requests, "forwarding")

\* Seeded fault: the arm forgets to leave the loop.
ReceiveDisconnectStays(s) == Receive(s, Disconnects, "selecting")

ReceiveDisconnect(s) == Receive(s, Disconnects, "closing")

\* channel.eof, channel.close and session.disconnect, their errors ignored.
Closed(s) == runtime[s] = "closing" /\ EndRun(s, "Disconnected")

\* channel.data or channel.window_change.
WriteDone(s) ==
  /\ runtime[s] = "writing"
  /\ runtime' = [runtime EXCEPT ![s] = "selecting"]
  /\ inHand'  = [inHand EXCEPT ![s] = NoCall]
  /\ UNCHANGED <<sessions, commandQ, finalStatus, events, workerVars, callVars, reply>>

WriteFails(s) == runtime[s] = "writing" /\ EndRun(s, "Error")

Push(s) ==
  /\ runtime[s] = "forwarding"
  /\ execQ'   = [execQ EXCEPT ![s] = Append(@, inHand[s])]
  /\ runtime' = [runtime EXCEPT ![s] = "selecting"]
  /\ inHand'  = [inHand EXCEPT ![s] = NoCall]
  /\ UNCHANGED <<sessions, commandQ, finalStatus, events,
                 worker, link, job, sent, callVars, reply>>

\* Seeded fault: an exec channel without a bound.
ForwardUnbounded(s) == Push(s)

\* exec_tx.send awaits room.  It cannot fail: the worker outlives exec_tx.
Forward(s) == Len(execQ[s]) < ExecCap /\ Push(s)

\* The arm channel.wait().  One "Output" stands for any number of chunks.
ShellOutput(s) ==
  /\ runtime[s] = "selecting"
  /\ Last(events[s]) # "Output"
  /\ events' = [events EXCEPT ![s] = Append(@, "Output")]
  /\ UNCHANGED <<sessions, runtime, inHand, commandQ, finalStatus,
                 workerVars, callVars, reply>>

ShellEnds(s) == runtime[s] = "selecting" /\ EndRun(s, "Disconnected")

-----------------------------------------------------------------------------
(* run_exec_worker                                                         *)

WorkerUnchanged == UNCHANGED <<sessionVars, callVars>>

WorkerConnect(s) ==
  /\ worker[s] = "connecting"
  /\ worker' = [worker EXCEPT ![s] = "idle"]
  /\ \E up \in BOOLEAN : link' = [link EXCEPT ![s] = up]
  /\ UNCHANGED <<execQ, job, sent, reply>> /\ WorkerUnchanged

Take(s) ==
  /\ worker[s] = "idle"
  /\ execQ[s] # <<>>
  /\ job'    = [job EXCEPT ![s] = Head(execQ[s])]
  /\ execQ'  = [execQ EXCEPT ![s] = Tail(@)]
  /\ worker' = [worker EXCEPT ![s] = IF link[s] THEN "ready" ELSE "dialing"]
  /\ UNCHANGED <<link, sent, reply>> /\ WorkerUnchanged

\* response_tx.send, then back to rx.recv().
Answer(s, r, up) ==
  /\ reply'  = [reply EXCEPT ![job[s]] = r]
  /\ link'   = [link EXCEPT ![s] = up]
  /\ worker' = [worker EXCEPT ![s] = "idle"]
  /\ job'    = [job EXCEPT ![s] = NoCall]
  /\ UNCHANGED execQ /\ WorkerUnchanged

\* The first attempt to reconnect, and the one 500 ms later.
Redial(s) ==
  /\ worker[s] \in {"dialing", "redialing"}
  /\ worker' = [worker EXCEPT ![s] = "ready"]
  /\ link'   = [link EXCEPT ![s] = TRUE]
  /\ UNCHANGED <<execQ, job, sent, reply>> /\ WorkerUnchanged

RedialFails(s) ==
  /\ worker[s] = "dialing"
  /\ worker' = [worker EXCEPT ![s] = "redialing"]
  /\ UNCHANGED <<execQ, link, job, sent, reply>> /\ WorkerUnchanged

\* Seeded fault: the request is skipped.
GiveUpSilently(s) ==
  /\ worker[s] = "redialing"
  /\ worker' = [worker EXCEPT ![s] = "idle"]
  /\ job'    = [job EXCEPT ![s] = NoCall]
  /\ UNCHANGED <<execQ, link, sent, reply>> /\ WorkerUnchanged

GiveUp(s) ==
  /\ worker[s] = "redialing"
  /\ Answer(s, "unreachable", FALSE)
  /\ UNCHANGED sent

\* Seeded fault: the failed command is answered as if it had no output.
ExecRefusedAsEmpty(s) ==
  /\ worker[s] = "ready"
  /\ Answer(s, "ok", FALSE)
  /\ UNCHANGED sent

\* run_exec: no channel, so the command is never sent to the host ...
ExecRefused(s) ==
  /\ worker[s] = "ready"
  /\ Answer(s, "err", FALSE)
  /\ UNCHANGED sent

\* ... or channel.exec sends it ...
ExecSend(s) ==
  /\ worker[s] = "ready"
  /\ worker' = [worker EXCEPT ![s] = "running"]
  /\ sent'   = [sent EXCEPT ![job[s]] = @ + 1]
  /\ UNCHANGED <<execQ, link, job, reply>> /\ WorkerUnchanged

\* Seeded fault: a failed command is tried again over a fresh connection.
ExecEndRetrying(s) ==
  /\ worker[s] = "running"
  /\ \/ Answer(s, "ok", TRUE)
     \/ /\ worker' = [worker EXCEPT ![s] = "dialing"]
        /\ link'   = [link EXCEPT ![s] = FALSE]
        /\ UNCHANGED <<execQ, job, reply>> /\ WorkerUnchanged
  /\ UNCHANGED sent

\* ... and channel.wait reports its end, or the loss of the connection, which
\* reads as an end; any Err costs the worker its connection.
ExecEnd(s) ==
  /\ worker[s] = "running"
  /\ Answer(s, "ok", TRUE) \/ Answer(s, "err", FALSE)
  /\ UNCHANGED sent

Exit(s) ==
  /\ worker[s] = "idle" /\ ~ExecTxOpen(s)
  /\ worker' = [worker EXCEPT ![s] = "exited"]
  /\ link'   = [link EXCEPT ![s] = FALSE]
  /\ UNCHANGED <<execQ, job, sent, reply>> /\ WorkerUnchanged

\* Seeded fault: the worker stops as soon as exec_tx is gone.
WorkerExitEarly(s) == Exit(s)

\* rx.recv() yields None: exec_tx is dropped and nothing is queued.
WorkerExit(s) == execQ[s] = <<>> /\ Exit(s)

-----------------------------------------------------------------------------
(* The API calls                                                           *)

Return(c, r) ==
  /\ phase'  = [phase EXCEPT ![c] = "returned"]
  /\ result' = [result EXCEPT ![c] = r]

CallUnchanged == UNCHANGED <<target, workerVars, reply>>

LookUpIn(c, found) ==
  /\ phase[c] = "unused"
  /\ IF target[c] \in found
     THEN phase' = [phase EXCEPT ![c] = "sending"] /\ UNCHANGED result
     ELSE Return(c, "notfound")
  /\ UNCHANGED sessionVars /\ CallUnchanged

\* Seeded fault: a session that is still connecting is not found.
LookupConnectedOnly(c) ==
  LookUpIn(c, {s \in sessions : runtime[s] \notin {"connecting", "opening"}})

\* SessionManager::session, a read of the map.  The call keeps a clone of the
\* sender; the entry may be gone by the time it uses it.
Lookup(c) == LookUpIn(c, sessions)

\* send_terminal_input of no bytes returns before the lookup.
EmptyInput(c) ==
  /\ c \in Inputs
  /\ phase[c] = "unused"
  /\ Return(c, "ok")
  /\ UNCHANGED sessionVars /\ CallUnchanged

\* command_tx.send: everything but a request is done once it is queued.
Send(c) ==
  /\ phase[c] = "sending"
  /\ RxOpen(target[c])
  /\ Len(commandQ[target[c]]) < CmdCap
  /\ commandQ' = [commandQ EXCEPT ![target[c]] = Append(@, c)]
  /\ IF c \in Requests
     THEN phase' = [phase EXCEPT ![c] = "waiting"] /\ UNCHANGED result
     ELSE Return(c, "ok")
  /\ UNCHANGED <<sessions, runtime, inHand, finalStatus, events>> /\ CallUnchanged

SendFails(c) ==
  /\ phase[c] = "sending"
  /\ ~RxOpen(target[c])
  /\ Return(c, "notfound")
  /\ UNCHANGED sessionVars /\ CallUnchanged

\* response_rx.await: a dropped sender reads as SessionNotFound.
Collect(c) ==
  /\ c \in Requests
  /\ phase[c] = "waiting"
  /\ reply[c] # "none"
  /\ Return(c, IF reply[c] = "dropped" THEN "notfound" ELSE reply[c])
  /\ UNCHANGED sessionVars /\ CallUnchanged

\* Seeded fault: the deadline covers the answer but not the send.
TimeoutOfAnswer(c) ==
  /\ c \in Completions
  /\ phase[c] = "waiting" /\ reply[c] = "none"
  /\ Return(c, "timeout")
  /\ UNCHANGED sessionVars /\ CallUnchanged

\* COMPLETION_TIMEOUT: timeout polls exec first, so it expires only while exec
\* cannot move.  A request already sent stays where it is and is carried out.
Timeout(c) ==
  /\ c \in Completions
  /\ \/ /\ phase[c] = "sending"
        /\ RxOpen(target[c]) /\ Len(commandQ[target[c]]) = CmdCap
     \/ phase[c] = "waiting" /\ reply[c] = "none"
  /\ Return(c, "timeout")
  /\ UNCHANGED sessionVars /\ CallUnchanged

-----------------------------------------------------------------------------

RuntimeStep(s) ==
  \/ Connect(s)       \/ Authenticated(s)     \/ ConnectFails(s)
  \/ ShellReady(s)    \/ OpenFails(s)         \/ ReceiveWrite(s)
  \/ ReceiveExec(s)   \/ ReceiveDisconnect(s) \/ Closed(s)
  \/ WriteDone(s)     \/ WriteFails(s)        \/ Forward(s)
  \/ ShellOutput(s)   \/ ShellEnds(s)         \/ Unregister(s)
  \/ EmitFinal(s)

WorkerStep(s) ==
  \/ WorkerConnect(s) \/ Take(s)   \/ Redial(s)      \/ RedialFails(s)
  \/ GiveUp(s)        \/ ExecRefused(s) \/ ExecSend(s)
  \/ ExecEnd(s)       \/ WorkerExit(s)

CallStep(c) ==
  \/ Lookup(c)    \/ EmptyInput(c) \/ Send(c)
  \/ SendFails(c) \/ Collect(c)    \/ Timeout(c)

Next ==
  \/ \E s \in Sessions : RuntimeStep(s)
  \/ \E s \in Sessions : WorkerStep(s)
  \/ \E c \in Calls : CallStep(c)

Spec == Init /\ [][Next]_vars

(***************************************************************************)
(* Fairness.  LocalFairness is what the process owes by itself: tokio      *)
(* polls woken tasks, select! picks its ready arms at random, waiting      *)
(* senders are served in order (hence SF), and CONNECT_TIMEOUT,            *)
(* AUTH_TIMEOUT and COMPLETION_TIMEOUT expire.  RemoteFairness is what no  *)
(* timeout in the code enforces: that the server answers the opening of a  *)
(* channel, reads the terminal input and ends the commands it runs; it is  *)
(* no part of FairSpec, and a property that needs it says so.              *)
(***************************************************************************)
LocalFairness ==
  /\ \A s \in Sessions :
       /\ WF_vars(Authenticated(s) \/ ConnectFails(s))
       /\ SF_vars(ReceiveWrite(s) \/ ReceiveExec(s) \/ ReceiveDisconnect(s))
       /\ WF_vars(Forward(s))
       /\ WF_vars(Unregister(s) \/ EmitFinal(s))
       /\ WF_vars(WorkerConnect(s))
       /\ WF_vars(Take(s) \/ WorkerExit(s))
       /\ WF_vars(Redial(s) \/ RedialFails(s) \/ GiveUp(s))
  /\ \A c \in Calls :
       /\ SF_vars(Send(c))
       /\ WF_vars(SendFails(c) \/ Collect(c))
       /\ WF_vars(Timeout(c))

RemoteFairness ==
  \A s \in Sessions :
    /\ WF_vars(ShellReady(s) \/ OpenFails(s))
    /\ WF_vars(WriteDone(s) \/ WriteFails(s))
    /\ WF_vars(Closed(s))
    /\ WF_vars(ExecSend(s) \/ ExecRefused(s))
    /\ WF_vars(ExecEnd(s))

FairSpec == Spec /\ LocalFairness

-----------------------------------------------------------------------------
(* Invariants                                                              *)

\* Every variable has its type and neither channel holds more than its
\* capacity (mpsc::channel(512) and mpsc::channel(64)).
TypeOK ==
  /\ sessions    \in SUBSET Sessions
  /\ runtime     \in [Sessions -> RuntimePhases]
  /\ inHand      \in [Sessions -> Calls \cup {NoCall}]
  /\ commandQ    \in [Sessions -> Seq(Calls)]
  /\ finalStatus \in [Sessions -> FinalStatuses]
  /\ events      \in [Sessions -> Seq(Events)]
  /\ execQ       \in [Sessions -> Seq(Calls)]
  /\ worker      \in [Sessions -> WorkerPhases]
  /\ link        \in [Sessions -> BOOLEAN]
  /\ job         \in [Sessions -> Calls \cup {NoCall}]
  /\ phase       \in [Calls -> CallPhases]
  /\ target      \in [Calls -> Sessions]
  /\ result      \in [Calls -> Results]
  /\ reply       \in [Calls -> Replies]
  /\ sent        \in [Calls -> Nat]
  /\ \A s \in Sessions : Len(commandQ[s]) <= CmdCap /\ Len(execQ[s]) <= ExecCap

\* No remote command is sent to the host twice, whatever fails and reconnects:
\* the retry in run_exec_worker is of the connection, never of the command.
AtMostOnce == \A c \in Requests : sent[c] <= 1

\* A caller told that the session does not exist, or that the host could not
\* be reached, may repeat the request elsewhere: exec answers so only for a
\* command that has not been sent and never will be.
NotFoundNeverSent ==
  \A c \in Requests : result[c] \in {"notfound", "unreachable"} => sent[c] = 0

\* An exec that returned Ok did send its command, once.  (Whether the host ran
\* it is another matter: a lost connection reads as the end of the output.)
OkWasSent == \A c \in Requests : result[c] = "ok" => sent[c] = 1

\* A request that is waiting is still somewhere an answer can come from: in
\* the command channel of a task that will receive or drop it, in that task's
\* hands, or with a worker that has not stopped.
NoLostRequest ==
  \A c \in Requests :
    phase[c] = "waiting" /\ reply[c] = "none" =>
      LET s == target[c] IN
        \/ RxOpen(s) /\ (c \in ToSet(commandQ[s]) \/ inHand[s] = c)
        \/ worker[s] \notin {"none", "exited"}
           /\ (c \in ToSet(execQ[s]) \/ job[s] = c)

\* The log of a session is a legal life: one start, at most one "Connected",
\* output only while connected, an error event before an "Error" status and
\* only then, one final status and nothing after it.
LegalLogs ==
  LET up      == {<<"Connecting", "Connected">>, <<"Connecting", "Connected", "Output">>}
      started == {<<"Connecting">>} \cup up
  IN  {<<>>} \cup started
        \cup {log \o <<"ErrorEvent">> : log \in started}
        \cup {log \o <<"ErrorEvent", "Error">> : log \in started}
        \cup {log \o <<"Disconnected">> : log \in up}
LifecycleOrder == \A s \in Sessions : events[s] \in LegalLogs

\* Whoever has seen the final status finds no trace of the session: it is out
\* of the map, so no new call reaches it, and no earlier call can still queue
\* or has queued a command nobody will drop.
AfterFinalStatus ==
  \A s \in Sessions :
    ToSet(events[s]) \cap FinalStatuses # {} =>
      s \notin sessions /\ ~RxOpen(s) /\ commandQ[s] = <<>>

\* run never sees its command channel without senders: the map still holds
\* one, so the None arm beside Disconnect is not what ends a session.
SenderAlive == \A s \in Sessions : RxOpen(s) => s \in sessions

-----------------------------------------------------------------------------
(* Liveness properties                                                     *)

\* With a server that answers, a disconnect that was accepted ends the session
\* even behind queued input and commands.
DisconnectTakesEffect ==
  RemoteFairness =>
    \A c \in Disconnects : result[c] = "ok" ~> runtime[target[c]] = "done"

\* With a server that answers, every call that was started returns.
EveryCallReturns ==
  RemoteFairness => \A c \in Calls : phase[c] # "unused" ~> phase[c] = "returned"

\* With a server that answers, the worker outlives its session only to finish
\* what is queued.
WorkerStops ==
  RemoteFairness =>
    \A s \in Sessions : runtime[s] = "done" ~> worker[s] \in {"none", "exited"}

\* A completion returns even when the server has stopped answering: the
\* deadline covers the wait for room as well as the wait for the answer.
CompletionReturns ==
  \A c \in Completions : phase[c] # "unused" ~> phase[c] = "returned"
=============================================================================
