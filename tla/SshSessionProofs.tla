-------------------------- MODULE SshSessionProofs --------------------------
(***************************************************************************)
(* Proofs about SshSession for every set of sessions and calls and every   *)
(* capacity of the two channels: first that no command is sent twice and   *)
(* what is told of it is true; then what the map and the log say in each   *)
(* phase of a runtime, and that no request is lost; last that the tasks    *)
(* implement SessionContract.                                              *)
(***************************************************************************)
EXTENDS SshSessionRefinement, SequenceLemmas

-----------------------------------------------------------------------------
(* Types, and what the tasks have in their hands                           *)

TypeHands == TypeOK /\ \A s \in Sessions : Hands(s)

\* SessionManager::new starts with everything typed and empty hands.
LEMMA TypeInit == Init => TypeHands
<1> SUFFICES ASSUME Init PROVE TypeHands
  OBVIOUS
<1>1. TypeOK
  BY CapAssumption DEF Init, TypeOK, RuntimePhases, WorkerPhases, CallPhases,
     Replies, Results, FinalStatuses
<1>2. ASSUME NEW s \in Sessions PROVE Hands(s)
  BY <1>2, CallsAssumption DEF Init, Hands, Busy, Working, Forwarded, ToSet
<1> QED
  BY <1>1, <1>2 DEF TypeHands

\* Leaving SshRuntime::run preserves the types and empties the runtime's hand.
LEMMA EndRunType ==
  ASSUME TypeHands, NEW s \in Sessions, NEW st \in FinalStatuses, EndRun(s, st)
  PROVE  TypeHands'
<1> USE DEF TypeHands, TypeOK, EndRun, EndRunDropping, workerVars, callVars, Calls
<1>1. TypeOK'
  <2>1. runtime' \in [Sessions -> RuntimePhases]
    BY DEF RuntimePhases
  <2>2. events' \in [Sessions -> Seq(Events)]
    BY DEF Events
  <2>3. reply' \in [Calls -> Replies]
    BY DEF Replies
  <2>4. commandQ' \in [Sessions -> Seq(Calls)] /\ \A t \in Sessions : Len(commandQ'[t]) <= CmdCap
    BY CapAssumption
  <2> QED
    BY <2>1, <2>2, <2>3, <2>4
<1>2. ASSUME NEW t \in Sessions PROVE Hands(t)'
  BY DEF Hands, Busy, Working, Forwarded
<1> QED
  BY <1>1, <1>2

\* A command taken out of the channel fills the runtime's hand.
LEMMA ReceiveType ==
  ASSUME TypeHands, NEW s \in Sessions, NEW kind \in SUBSET Calls,
         NEW during \in {"writing", "forwarding", "closing"},
         during = "forwarding" => kind \subseteq Requests,
         Receive(s, kind, during)
  PROVE  TypeHands'
<1> USE DEF TypeHands, TypeOK, Receive, workerVars, callVars
<1>1. /\ commandQ[s] \in Seq(Calls) /\ commandQ[s] # <<>>
      /\ Len(commandQ[s]) \in Nat /\ Len(commandQ[s]) <= CmdCap
  OBVIOUS
<1>2. /\ Head(commandQ[s]) \in Calls
      /\ Tail(commandQ[s]) \in Seq(Calls)
      /\ Len(Tail(commandQ[s])) <= CmdCap
  BY <1>1, ToSetTail, CapAssumption
<1>3. TypeOK'
  BY <1>2 DEF RuntimePhases
<1>4. ASSUME NEW t \in Sessions PROVE Hands(t)'
  BY <1>2, <1>4, CallsAssumption DEF Hands, Busy, Working, Forwarded, Calls
<1> QED
  BY <1>3, <1>4

\* One step of the system preserves the types and the hands.
LEMMA TypeNext == TypeHands /\ [Next]_vars => TypeHands'
<1> SUFFICES ASSUME TypeHands, [Next]_vars PROVE TypeHands'
  OBVIOUS
<1> USE CallsAssumption, CapAssumption
<1> USE DEF TypeHands, TypeOK, Hands, Busy, Working, Forwarded,
        sessionVars, workerVars, callVars
<1>1. ASSUME NEW s \in Sessions, Connect(s) PROVE TypeHands'
  <2>1. events' \in [Sessions -> Seq(Events)]
    BY <1>1 DEF Connect, Events
  <2>2. TypeOK'
    BY <1>1, <2>1 DEF Connect, RuntimePhases
  <2>3. ASSUME NEW t \in Sessions PROVE Hands(t)'
    BY <1>1, <2>3 DEF Connect
  <2> QED
    BY <2>2, <2>3
<1>2. ASSUME NEW s \in Sessions, Authenticated(s) PROVE TypeHands'
  BY <1>2 DEF Authenticated, RuntimePhases
<1>3. ASSUME NEW s \in Sessions, ShellReady(s) PROVE TypeHands'
  <2>1. events' \in [Sessions -> Seq(Events)]
    BY <1>3 DEF ShellReady, Events
  <2>2. /\ runtime' \in [Sessions -> RuntimePhases]
        /\ worker' \in [Sessions -> WorkerPhases]
    BY <1>3 DEF ShellReady, RuntimePhases, WorkerPhases
  <2>3. TypeOK'
    BY <1>3, <2>1, <2>2 DEF ShellReady
  <2>4. ASSUME NEW t \in Sessions PROVE Hands(t)'
    BY <1>3, <2>4 DEF ShellReady
  <2> QED
    BY <2>3, <2>4
<1>4. ASSUME NEW s \in Sessions, ReceiveWrite(s) PROVE TypeHands'
  BY <1>4, ReceiveType DEF ReceiveWrite, Calls
<1>5. ASSUME NEW s \in Sessions, ReceiveExec(s) PROVE TypeHands'
  BY <1>5, ReceiveType DEF ReceiveExec, Calls
<1>6. ASSUME NEW s \in Sessions, ReceiveDisconnect(s) PROVE TypeHands'
  BY <1>6, ReceiveType DEF ReceiveDisconnect, Calls
<1>7. ASSUME NEW s \in Sessions, WriteDone(s) PROVE TypeHands'
  BY <1>7 DEF WriteDone, RuntimePhases
<1>8. ASSUME NEW s \in Sessions, Forward(s) PROVE TypeHands'
  <2>1. inHand[s] \in Requests /\ Requests \subseteq Calls
    BY <1>8 DEF Forward, Push, Calls
  <2>2. /\ execQ[s] \in Seq(Calls)
        /\ execQ'[s] = Append(execQ[s], inHand[s])
        /\ \A t \in Sessions \ {s} : execQ'[t] = execQ[t]
    BY <1>8 DEF Forward, Push
  <2>3. /\ execQ'[s] \in Seq(Calls)
        /\ Len(execQ'[s]) = Len(execQ[s]) + 1
        /\ ToSet(execQ'[s]) = ToSet(execQ[s]) \cup {inHand[s]}
    BY <2>1, <2>2, AppendProperties, ToSetAppend
  <2>4. \A t \in Sessions : execQ'[t] \in Seq(Calls) /\ Len(execQ'[t]) <= ExecCap
    BY <1>8, <2>2, <2>3 DEF Forward, Push
  <2>5. TypeOK'
    BY <1>8, <2>4 DEF Forward, Push, RuntimePhases
  <2>6. ASSUME NEW t \in Sessions PROVE Hands(t)'
    BY <1>8, <2>1, <2>2, <2>3, <2>6 DEF Forward, Push
  <2> QED
    BY <2>5, <2>6
<1>9. ASSUME NEW s \in Sessions, ShellOutput(s) PROVE TypeHands'
  <2>1. events' \in [Sessions -> Seq(Events)]
    BY <1>9 DEF ShellOutput, Events
  <2>2. TypeOK'
    BY <1>9, <2>1 DEF ShellOutput
  <2>3. ASSUME NEW t \in Sessions PROVE Hands(t)'
    BY <1>9, <2>3 DEF ShellOutput
  <2> QED
    BY <2>2, <2>3
<1>10. ASSUME NEW s \in Sessions, Unregister(s) PROVE TypeHands'
  BY <1>10 DEF Unregister, RuntimePhases
<1>11. ASSUME NEW s \in Sessions, EmitFinal(s) PROVE TypeHands'
  <2>1. events' \in [Sessions -> Seq(Events)]
    BY <1>11 DEF EmitFinal, Events
  <2>2. TypeOK'
    BY <1>11, <2>1 DEF EmitFinal, RuntimePhases
  <2>3. ASSUME NEW t \in Sessions PROVE Hands(t)'
    BY <1>11, <2>3 DEF EmitFinal
  <2> QED
    BY <2>2, <2>3
<1>12. ASSUME NEW s \in Sessions, ConnectFails(s) PROVE TypeHands'
  BY <1>12, EndRunType DEF ConnectFails, FinalStatuses
<1>13. ASSUME NEW s \in Sessions, OpenFails(s) PROVE TypeHands'
  BY <1>13, EndRunType DEF OpenFails, FinalStatuses
<1>14. ASSUME NEW s \in Sessions, Closed(s) PROVE TypeHands'
  BY <1>14, EndRunType DEF Closed, FinalStatuses
<1>15. ASSUME NEW s \in Sessions, WriteFails(s) PROVE TypeHands'
  BY <1>15, EndRunType DEF WriteFails, FinalStatuses
<1>16. ASSUME NEW s \in Sessions, ShellEnds(s) PROVE TypeHands'
  BY <1>16, EndRunType DEF ShellEnds, FinalStatuses
<1>17. ASSUME NEW s \in Sessions, WorkerConnect(s) PROVE TypeHands'
  BY <1>17 DEF WorkerConnect, WorkerPhases, WorkerUnchanged
<1>18. ASSUME NEW s \in Sessions, Take(s) PROVE TypeHands'
  <2>1. execQ[s] \in Seq(Calls) /\ execQ[s] # <<>> /\ Len(execQ[s]) \in Nat
    BY <1>18 DEF Take
  <2>2. /\ Head(execQ[s]) \in Calls
        /\ Tail(execQ[s]) \in Seq(Calls)
        /\ Len(Tail(execQ[s])) <= ExecCap
        /\ ToSet(execQ[s]) = {Head(execQ[s])} \cup ToSet(Tail(execQ[s]))
    BY <2>1, ToSetTail
  <2>3. TypeOK'
    BY <1>18, <2>2 DEF Take, WorkerPhases, WorkerUnchanged
  <2>4. ASSUME NEW t \in Sessions PROVE Hands(t)'
    BY <1>18, <2>2, <2>4 DEF Take, WorkerUnchanged, Calls
  <2> QED
    BY <2>3, <2>4
<1>19. ASSUME NEW s \in Sessions, Redial(s) PROVE TypeHands'
  BY <1>19 DEF Redial, WorkerPhases, WorkerUnchanged
<1>20. ASSUME NEW s \in Sessions, RedialFails(s) PROVE TypeHands'
  BY <1>20 DEF RedialFails, WorkerPhases, WorkerUnchanged
<1>21. ASSUME NEW s \in Sessions, GiveUp(s) PROVE TypeHands'
  BY <1>21 DEF GiveUp, Answer, WorkerPhases, Replies, WorkerUnchanged
<1>22. ASSUME NEW s \in Sessions, ExecRefused(s) PROVE TypeHands'
  BY <1>22 DEF ExecRefused, Answer, WorkerPhases, Replies, WorkerUnchanged
<1>23. ASSUME NEW s \in Sessions, ExecSend(s) PROVE TypeHands'
  <2>1. job[s] \in Calls
    BY <1>23 DEF ExecSend
  <2>2. TypeOK'
    BY <1>23, <2>1 DEF ExecSend, WorkerPhases, WorkerUnchanged
  <2>3. ASSUME NEW t \in Sessions PROVE Hands(t)'
    BY <1>23, <2>3 DEF ExecSend, WorkerUnchanged
  <2> QED
    BY <2>2, <2>3
<1>24. ASSUME NEW s \in Sessions, ExecEnd(s) PROVE TypeHands'
  <2>1. CASE Answer(s, "ok", TRUE)
    BY <1>24, <2>1 DEF ExecEnd, Answer, WorkerPhases, Replies, WorkerUnchanged
  <2>2. CASE Answer(s, "err", FALSE)
    BY <1>24, <2>2 DEF ExecEnd, Answer, WorkerPhases, Replies, WorkerUnchanged
  <2> QED
    BY <1>24, <2>1, <2>2 DEF ExecEnd
<1>25. ASSUME NEW s \in Sessions, WorkerExit(s) PROVE TypeHands'
  BY <1>25 DEF WorkerExit, Exit, WorkerPhases, WorkerUnchanged
<1>26. ASSUME NEW c \in Calls, Lookup(c) PROVE TypeHands'
  BY <1>26 DEF Lookup, LookUpIn, Return, CallUnchanged, CallPhases, Results
<1>27. ASSUME NEW c \in Calls, EmptyInput(c) PROVE TypeHands'
  BY <1>27 DEF EmptyInput, Return, CallUnchanged, CallPhases, Results
<1>28. ASSUME NEW c \in Calls, Send(c) PROVE TypeHands'
  <2> DEFINE q == commandQ[target[c]]
  <2>1. /\ target[c] \in Sessions
        /\ Append(q, c) \in Seq(Calls)
        /\ Len(Append(q, c)) <= CmdCap
    BY <1>28, AppendProperties DEF Send
  <2>2. TypeOK'
    BY <1>28, <2>1 DEF Send, Return, CallUnchanged, CallPhases, Results
  <2>3. ASSUME NEW t \in Sessions PROVE Hands(t)'
    BY <1>28, <2>3 DEF Send, CallUnchanged
  <2> QED
    BY <2>2, <2>3
<1>29. ASSUME NEW c \in Calls, SendFails(c) PROVE TypeHands'
  BY <1>29 DEF SendFails, Return, CallUnchanged, CallPhases, Results
<1>30. ASSUME NEW c \in Calls, Collect(c) PROVE TypeHands'
  BY <1>30 DEF Collect, Return, Replies, CallUnchanged, CallPhases, Results
<1>31. ASSUME NEW c \in Calls, Timeout(c) PROVE TypeHands'
  BY <1>31 DEF Timeout, Return, CallUnchanged, CallPhases, Results
<1>32. CASE UNCHANGED vars
  BY <1>32 DEF vars
<1> QED
  BY <1>1, <1>2, <1>3, <1>4, <1>5, <1>6, <1>7, <1>8, <1>9, <1>10, <1>11, <1>12, <1>13, <1>14, <1>15, <1>16, <1>17, <1>18, <1>19, <1>20, <1>21, <1>22, <1>23, <1>24, <1>25, <1>26, <1>27, <1>28, <1>29, <1>30, <1>31, <1>32
  DEF Next, RuntimeStep, WorkerStep, CallStep

\* Every variable keeps its type, and neither channel exceeds its capacity.
THEOREM TypeCorrect == Spec => []TypeOK
<1>1. Spec => []TypeHands
  BY TypeInit, TypeNext, PTL DEF Spec
<1> QED
  BY <1>1, PTL DEF TypeHands

-----------------------------------------------------------------------------
(* One place for every request                                             *)

\* What the channels and the hands of a session hold are calls.
LEMMA PlacesType ==
  ASSUME TypeOK, NEW s \in Sessions
  PROVE  Places(s) \subseteq Calls
<1>1. commandQ[s] \in Seq(Calls) /\ execQ[s] \in Seq(Calls)
  BY DEF TypeOK
<1>2. Queued(s) \subseteq Calls /\ Forwarded(s) \subseteq Calls
  BY <1>1, ToSetType DEF Queued, Forwarded
<1> QED
  BY <1>2 DEF Places, TypeOK

\* Nothing is in any place at the start.
LEMMA IInvInit == Init => IInv
<1> SUFFICES ASSUME Init PROVE IInv
  OBVIOUS
<1>1. TypeHands
  BY TypeInit
<1>2. ASSUME NEW s \in Sessions PROVE OnePlace(s) /\ Open(s) /\ Pending(s)
  <2>1. Places(s) = {}
    BY DEF Init, Places, Queued, Forwarded, ToSet
  <2>2. IsInjective(<<>>)
    BY DEF IsInjective
  <2> QED
    BY <2>1, <2>2 DEF Init, OnePlace, Open, Pending, Places, ExecTxOpen
<1>3. ASSUME NEW c \in Requests PROVE History(c)
  BY <1>3 DEF Init, History, Calls
<1>4. Told
  BY DEF Init, Told, NotFoundNeverSent, OkWasSent, Calls
<1> QED
  BY <1>1, <1>2, <1>3, <1>4 DEF IInv, TypeHands

\* Steps that touch neither the places nor the requests.
LEMMA QuietStep ==
  ASSUME IInv, TypeHands',
         UNCHANGED <<inHand, commandQ, execQ, job, callVars, reply, sent>>,
         \A s \in Sessions :
           /\ RxOpen(s) => RxOpen(s)' \/ commandQ[s] = <<>>
           /\ ExecTxOpen(s)' => worker'[s] \notin {"none", "exited"}
           /\ worker'[s] \in {"none", "exited"} => execQ[s] = <<>>
           /\ worker'[s] = "running" <=> worker[s] = "running"
  PROVE  IInv'
<1>1. ASSUME NEW s \in Sessions PROVE (OnePlace(s) /\ Open(s) /\ Pending(s))'
  BY <1>1 DEF IInv, OnePlace, Open, Pending, Places, Queued, Forwarded, callVars
<1>2. ASSUME NEW c \in Requests PROVE History(c)'
  BY <1>2 DEF IInv, History, callVars
<1>3. Told'
  BY DEF IInv, Told, NotFoundNeverSent, OkWasSent, callVars
<1> QED
  BY <1>1, <1>2, <1>3 DEF IInv, TypeHands

\* What a step does to one session leaves the others as they are.
LEMMA OtherSession ==
  ASSUME IInv, NEW t \in Sessions,
         UNCHANGED <<commandQ[t], inHand[t], runtime[t]>>,
         UNCHANGED <<execQ[t], job[t], worker[t], target>>,
         \A c \in Places(t) :
           /\ phase'[c] \in {"waiting", "returned"}
           /\ c \in Requests =>
                /\ reply'[c] = reply[c] /\ sent'[c] = sent[c]
                /\ result'[c] \in {"none", "timeout"}
  PROVE  (OnePlace(t) /\ Open(t) /\ Pending(t))'
<1>1. /\ Places(t)' = Places(t)
      /\ Queued(t)' = Queued(t) /\ Forwarded(t)' = Forwarded(t)
  BY DEF Places, Queued, Forwarded
<1>2. OnePlace(t)'
  BY <1>1 DEF IInv, OnePlace
<1>3. Open(t)'
  BY DEF IInv, Open, RxOpen, ExecTxOpen
<1>4. Pending(t)'
  BY <1>1 DEF IInv, Pending
<1> QED
  BY <1>2, <1>3, <1>4

\* Leaving run empties the command channel and drops the oneshots in it.
LEMMA EndRunStep ==
  ASSUME IInv, TypeHands', NEW s \in Sessions, NEW st \in FinalStatuses,
         EndRun(s, st), runtime[s] # "forwarding"
  PROVE  IInv'
<1>1. UNCHANGED <<execQ, worker, job, sent, phase, target, result>>
  BY DEF EndRun, EndRunDropping, workerVars, callVars
<1>2. /\ Queued(s)' = {} /\ inHand'[s] = NoCall
      /\ commandQ'[s] = <<>> /\ ~ExecTxOpen(s)'
  BY DEF EndRun, EndRunDropping, IInv, TypeOK, Queued, ToSet, ExecTxOpen
<1>3. ASSUME NEW t \in Sessions \ {s}
      PROVE  UNCHANGED <<commandQ[t], inHand[t], runtime[t]>>
  BY <1>3 DEF EndRun, EndRunDropping, IInv, TypeOK
<1>4. ASSUME NEW c \in Requests
      PROVE  reply'[c] = IF c \in Queued(s) THEN "dropped" ELSE reply[c]
  BY <1>4 DEF EndRun, EndRunDropping, Calls, Queued
<1>5. ASSUME NEW t \in Sessions PROVE (OnePlace(t) /\ Open(t) /\ Pending(t))'
  <2>1. CASE t = s
    <3> Forwarded(s)' = Forwarded(s)
      BY <1>1 DEF Forwarded
    <3>0. Places(s)' = Forwarded(s) \cup ({job[s]} \ {NoCall})
      BY <1>1, <1>2 DEF Places
    <3>1. Places(s)' \subseteq Places(s) /\ Places(s)' \cap Queued(s) = {}
      BY <3>0 DEF Places, IInv, OnePlace
    <3>2. IsInjective(commandQ'[s])
      BY <1>2 DEF IsInjective
    <3>3. OnePlace(s)'
      BY <1>1, <1>2, <3>1, <3>2 DEF IInv, OnePlace
    <3>4. Open(s)'
      BY <1>1, <1>2 DEF IInv, Open
    <3>5. Pending(s)'
      BY <1>1, <1>4, <3>1 DEF IInv, Pending
    <3> QED
      BY <2>1, <3>3, <3>4, <3>5
  <2>2. CASE t # s
    <3>1. Places(t) \cap Queued(s) = {}
      BY <2>2 DEF IInv, OnePlace, Places
    <3> QED
      BY <1>1, <1>3, <1>4, <2>2, <3>1, OtherSession DEF IInv, Pending
  <2> QED
    BY <2>1, <2>2
<1>6. ASSUME NEW c \in Requests PROVE History(c)'
  <2>1. CASE c \in Queued(s)
    <3>1. /\ phase[c] \in {"waiting", "returned"} /\ sent[c] = 0
      BY <1>6, <2>1, CallsAssumption DEF IInv, Pending, Places, OnePlace, Calls
    <3> QED
      BY <1>1, <1>4, <1>6, <2>1, <3>1 DEF IInv, History
  <2>2. CASE c \notin Queued(s)
    BY <1>1, <1>4, <1>6, <2>2 DEF IInv, History
  <2> QED
    BY <2>1, <2>2
<1>7. Told'
  BY <1>1 DEF IInv, Told, NotFoundNeverSent, OkWasSent
<1> QED
  BY <1>5, <1>6, <1>7 DEF IInv, TypeHands

\* A command received goes from the channel to the runtime's hand.
LEMMA ReceiveStep ==
  ASSUME IInv, TypeHands', NEW s \in Sessions, NEW kind \in SUBSET Calls,
         NEW during \in {"writing", "forwarding", "closing"},
         Receive(s, kind, during)
  PROVE  IInv'
<1>1. UNCHANGED <<execQ, worker, job, sent, reply, phase, target, result>>
  BY DEF Receive, workerVars, callVars
<1> DEFINE h == Head(commandQ[s])
<1>2. /\ h \in Calls /\ inHand'[s] = h /\ inHand[s] = NoCall
      /\ Queued(s) = {h} \cup Queued(s)'
      /\ h \notin Queued(s)' /\ IsInjective(commandQ'[s])
      /\ RxOpen(s)' /\ ExecTxOpen(s)' /\ ExecTxOpen(s)
  <2>1. commandQ[s] \in Seq(Calls) /\ commandQ[s] # <<>> /\ IsInjective(commandQ[s])
    BY DEF Receive, IInv, TypeOK, OnePlace
  <2>2. commandQ'[s] = Tail(commandQ[s]) /\ inHand'[s] = h
    BY DEF Receive, IInv, TypeOK
  <2>3. runtime'[s] = during /\ runtime[s] = "selecting"
    BY DEF Receive, IInv, TypeOK
  <2> QED
    BY <2>1, <2>2, <2>3, ToSetTail, InjectiveTail
       DEF Queued, RxOpen, ExecTxOpen, IInv, Hands, Busy
<1> HIDE DEF h
<1>3. ASSUME NEW t \in Sessions \ {s}
      PROVE  UNCHANGED <<commandQ[t], inHand[t], runtime[t]>>
  BY <1>3 DEF Receive, IInv, TypeOK
<1>4. ASSUME NEW t \in Sessions PROVE (OnePlace(t) /\ Open(t) /\ Pending(t))'
  <2> Forwarded(t)' = Forwarded(t)
    BY <1>1 DEF Forwarded
  <2>1. CASE t = s
    <3>1. Places(s)' = Places(s)
      BY <1>1, <1>2, <2>1, CallsAssumption DEF Places
    <3>2. OnePlace(s)'
      BY <1>1, <1>2, <2>1, <3>1 DEF IInv, OnePlace
    <3>3. Open(s)'
      BY <1>1, <1>2 DEF IInv, Open
    <3>4. Pending(s)'
      BY <1>1, <3>1 DEF IInv, Pending
    <3> QED
      BY <2>1, <3>2, <3>3, <3>4
  <2>2. CASE t # s
    BY <1>1, <1>3, <2>2, OtherSession DEF IInv, Pending
  <2> QED
    BY <2>1, <2>2
<1>5. ASSUME NEW c \in Requests PROVE History(c)'
  BY <1>1, <1>5 DEF IInv, History
<1>6. Told'
  BY <1>1 DEF IInv, Told, NotFoundNeverSent, OkWasSent
<1> QED
  BY <1>4, <1>5, <1>6 DEF IInv, TypeHands

\* A write done empties the runtime's hand.
LEMMA WriteDoneStep ==
  ASSUME IInv, TypeHands', NEW s \in Sessions, WriteDone(s)
  PROVE  IInv'
<1>1. UNCHANGED <<commandQ, execQ, worker, job, sent, reply, phase, target, result>>
  BY DEF WriteDone, workerVars, callVars
<1>2. inHand'[s] = NoCall /\ RxOpen(s)' /\ ExecTxOpen(s)' /\ ExecTxOpen(s)
  BY DEF WriteDone, IInv, TypeOK, RxOpen, ExecTxOpen
<1>3. ASSUME NEW t \in Sessions PROVE (OnePlace(t) /\ Open(t) /\ Pending(t))'
  <2>1. CASE t = s
    <3>1. /\ Queued(s)' = Queued(s) /\ Forwarded(s)' = Forwarded(s)
      BY <1>1 DEF Queued, Forwarded
    <3>2. Places(s)' \subseteq Places(s)
      BY <1>1, <1>2, <3>1 DEF Places
    <3>3. OnePlace(s)'
      BY <1>1, <1>2, <3>1, <3>2 DEF IInv, OnePlace
    <3>4. Open(s)' /\ Pending(s)'
      BY <1>1, <1>2, <3>2 DEF IInv, Open, Pending
    <3> QED
      BY <2>1, <3>3, <3>4
  <2>2. CASE t # s
    BY <1>1, <1>3, <2>2, OtherSession DEF WriteDone, IInv, TypeOK, Pending
  <2> QED
    BY <2>1, <2>2
<1>4. ASSUME NEW c \in Requests PROVE History(c)'
  BY <1>1, <1>4 DEF IInv, History
<1>5. Told'
  BY <1>1 DEF IInv, Told, NotFoundNeverSent, OkWasSent
<1> QED
  BY <1>3, <1>4, <1>5 DEF IInv, TypeHands

\* A forwarded request goes from the runtime's hand to the exec channel.
LEMMA ForwardStep ==
  ASSUME IInv, TypeHands', NEW s \in Sessions, Forward(s)
  PROVE  IInv'
<1>1. UNCHANGED <<commandQ, worker, job, sent, reply, phase, target, result>>
  BY DEF Forward, Push, callVars
<1>2. /\ inHand'[s] = NoCall /\ RxOpen(s)' /\ ExecTxOpen(s)' /\ ExecTxOpen(s)
      /\ inHand[s] # NoCall
  BY DEF Forward, Push, IInv, TypeOK, RxOpen, ExecTxOpen, Hands, Busy
<1>3. /\ Forwarded(s)' = Forwarded(s) \cup {inHand[s]}
      /\ IsInjective(execQ'[s])
  <2>1. /\ execQ[s] \in Seq(Calls) /\ IsInjective(execQ[s])
        /\ inHand[s] \in Calls /\ inHand[s] \notin ToSet(execQ[s])
    BY <1>2 DEF IInv, TypeOK, OnePlace, Forwarded
  <2>2. execQ'[s] = Append(execQ[s], inHand[s])
    BY DEF Forward, Push, IInv, TypeOK
  <2> QED
    BY <2>1, <2>2, ToSetAppend, InjectiveAppend DEF Forwarded
<1>4. ASSUME NEW t \in Sessions PROVE (OnePlace(t) /\ Open(t) /\ Pending(t))'
  <2>1. CASE t = s
    <3>1. Queued(s)' = Queued(s)
      BY <1>1 DEF Queued
    <3>2. Places(s)' = Places(s)
      BY <1>1, <1>2, <1>3, <3>1 DEF Places
    <3>3. OnePlace(s)'
      BY <1>1, <1>2, <1>3, <3>1, <3>2 DEF IInv, OnePlace
    <3>4. Open(s)' /\ Pending(s)'
      BY <1>1, <1>2, <3>2 DEF IInv, Open, Pending
    <3> QED
      BY <2>1, <3>3, <3>4
  <2>2. CASE t # s
    BY <1>1, <1>4, <2>2, OtherSession DEF Forward, Push, IInv, TypeOK, Pending
  <2> QED
    BY <2>1, <2>2
<1>5. ASSUME NEW c \in Requests PROVE History(c)'
  BY <1>1, <1>5 DEF IInv, History
<1>6. Told'
  BY <1>1 DEF IInv, Told, NotFoundNeverSent, OkWasSent
<1> QED
  BY <1>4, <1>5, <1>6 DEF IInv, TypeHands

\* A request taken goes from the exec channel to the worker's hand.
LEMMA TakeStep ==
  ASSUME IInv, TypeHands', NEW s \in Sessions, Take(s)
  PROVE  IInv'
<1>1. UNCHANGED <<runtime, inHand, commandQ, sent, reply, phase, target, result>>
  BY DEF Take, WorkerUnchanged, sessionVars, callVars
<1> DEFINE h == Head(execQ[s])
<1>2. /\ h \in Calls /\ job'[s] = h /\ job[s] = NoCall
      /\ Forwarded(s) = {h} \cup Forwarded(s)'
      /\ h \notin Forwarded(s)' /\ IsInjective(execQ'[s])
      /\ worker[s] = "idle" /\ worker'[s] \in {"ready", "dialing"}
  <2>1. execQ[s] \in Seq(Calls) /\ execQ[s] # <<>> /\ IsInjective(execQ[s])
    BY DEF Take, IInv, TypeOK, OnePlace
  <2>2. execQ'[s] = Tail(execQ[s]) /\ job'[s] = h
    BY DEF Take, IInv, TypeOK
  <2>3. worker[s] = "idle" /\ worker'[s] \in {"ready", "dialing"}
    BY DEF Take, IInv, TypeOK
  <2> QED
    BY <2>1, <2>2, <2>3, ToSetTail, InjectiveTail DEF Forwarded, IInv, Hands, Working
<1> HIDE DEF h
<1>3. ASSUME NEW t \in Sessions PROVE (OnePlace(t) /\ Open(t) /\ Pending(t))'
  <2>1. CASE t = s
    <3>1. Queued(s)' = Queued(s)
      BY <1>1 DEF Queued
    <3>2. Places(s)' = Places(s)
      BY <1>1, <1>2, <3>1, CallsAssumption DEF Places
    <3>3. OnePlace(s)'
      BY <1>1, <1>2, <3>1, <3>2 DEF IInv, OnePlace
    <3>4. Open(s)'
      BY <1>1, <1>2 DEF IInv, Open, RxOpen, ExecTxOpen
    <3>5. Pending(s)'
      BY <1>1, <1>2, <3>2 DEF IInv, Pending
    <3> QED
      BY <2>1, <3>3, <3>4, <3>5
  <2>2. CASE t # s
    <3>1. UNCHANGED <<execQ[t], job[t], worker[t]>>
      BY <2>2 DEF Take, IInv, TypeOK
    <3> QED
      BY <1>1, <1>3, <2>2, <3>1, OtherSession DEF IInv, Pending
  <2> QED
    BY <2>1, <2>2
<1>4. ASSUME NEW c \in Requests PROVE History(c)'
  BY <1>1, <1>4 DEF IInv, History
<1>5. Told'
  BY <1>1 DEF IInv, Told, NotFoundNeverSent, OkWasSent
<1> QED
  BY <1>3, <1>4, <1>5 DEF IInv, TypeHands

\* An answer empties the worker's hand and fills the oneshot.
LEMMA AnswerStep ==
  ASSUME IInv, TypeHands', NEW s \in Sessions, NEW up \in BOOLEAN,
         NEW r \in {"ok", "err", "unreachable"},
         Answer(s, r, up), UNCHANGED sent, Working(s),
         r = "ok" => worker[s] = "running",
         r = "unreachable" => worker[s] # "running"
  PROVE  IInv'
<1>1. UNCHANGED <<runtime, inHand, commandQ, execQ, sent, phase, target, result>>
  BY DEF Answer, WorkerUnchanged, sessionVars, callVars
<1>2. /\ job[s] \in Requests /\ job'[s] = NoCall /\ worker'[s] = "idle"
      /\ target[job[s]] = s /\ phase[job[s]] \in {"waiting", "returned"}
      /\ sent[job[s]] = IF worker[s] = "running" THEN 1 ELSE 0
      /\ reply'[job[s]] = r
  BY CallsAssumption
     DEF Answer, IInv, TypeOK, Hands, OnePlace, Pending, Places, Calls
<1>3. \A c \in Calls \ {job[s]} : reply'[c] = reply[c]
  BY DEF Answer, IInv, TypeOK
<1>4. ASSUME NEW t \in Sessions PROVE (OnePlace(t) /\ Open(t) /\ Pending(t))'
  <2>1. CASE t = s
    <3>1. Queued(s)' = Queued(s) /\ Forwarded(s)' = Forwarded(s)
      BY <1>1 DEF Queued, Forwarded
    <3>2. Places(s)' \subseteq Places(s) /\ job[s] \notin Places(s)'
      BY <1>1, <1>2, <3>1, CallsAssumption DEF Places, IInv, OnePlace, Calls
    <3>3. OnePlace(s)'
      BY <1>1, <1>2, <3>1, <3>2 DEF IInv, OnePlace
    <3>4. Open(s)'
      BY <1>1, <1>2 DEF IInv, Open, RxOpen, ExecTxOpen
    <3>5. Pending(s)'
      BY <1>1, <1>2, <1>3, <3>2 DEF IInv, Pending, Calls
    <3> QED
      BY <2>1, <3>3, <3>4, <3>5
  <2>2. CASE t # s
    <3>1. job[s] \notin Places(t)
      BY <1>2, <2>2 DEF IInv, OnePlace
    <3>2. UNCHANGED <<job[t], worker[t]>>
      BY <2>2 DEF Answer, IInv, TypeOK
    <3> QED
      BY <1>1, <1>3, <2>2, <3>1, <3>2, OtherSession DEF IInv, Pending, Calls
  <2> QED
    BY <2>1, <2>2
<1>5. ASSUME NEW c \in Requests PROVE History(c)'
  <2>1. CASE c = job[s]
    BY <1>1, <1>2, <1>5, <2>1 DEF IInv, History
  <2>2. CASE c # job[s]
    BY <1>1, <1>3, <1>5, <2>2 DEF IInv, History, Calls
  <2> QED
    BY <2>1, <2>2
<1>6. Told'
  BY <1>1 DEF IInv, Told, NotFoundNeverSent, OkWasSent
<1> QED
  BY <1>4, <1>5, <1>6 DEF IInv, TypeHands

\* The command in the worker's hand is sent to the host, once.
LEMMA ExecSendStep ==
  ASSUME IInv, TypeHands', NEW s \in Sessions, ExecSend(s)
  PROVE  IInv'
<1>1. UNCHANGED <<runtime, inHand, commandQ, execQ, job, reply, phase, target, result>>
  BY DEF ExecSend, WorkerUnchanged, sessionVars, callVars
<1>2. /\ job[s] \in Requests /\ job[s] \in Places(s) /\ target[job[s]] = s
      /\ worker[s] = "ready" /\ worker'[s] = "running"
      /\ sent[job[s]] = 0 /\ sent'[job[s]] = 1
      /\ phase[job[s]] \in {"waiting", "returned"} /\ reply[job[s]] = "none"
      /\ result[job[s]] \in {"none", "timeout"}
  <2>1. worker[s] = "ready" /\ worker'[s] = "running"
    BY DEF ExecSend, IInv, TypeOK
  <2>2. job[s] \in Requests /\ job[s] \in Places(s)
    BY <2>1, CallsAssumption DEF IInv, Hands, Working, Places, Calls
  <2>3. /\ sent[job[s]] = 0 /\ target[job[s]] = s
        /\ phase[job[s]] \in {"waiting", "returned"} /\ reply[job[s]] = "none"
        /\ result[job[s]] \in {"none", "timeout"}
    BY <2>1, <2>2 DEF IInv, OnePlace, Pending
  <2>4. sent'[job[s]] = 1
    BY <2>2, <2>3 DEF ExecSend, IInv, TypeOK, Calls
  <2> QED
    BY <2>1, <2>2, <2>3, <2>4
<1>3. \A c \in Calls \ {job[s]} : sent'[c] = sent[c]
  BY DEF ExecSend, IInv, TypeOK
<1>4. ASSUME NEW t \in Sessions PROVE (OnePlace(t) /\ Open(t) /\ Pending(t))'
  <2>1. CASE t = s
    <3>1. Queued(s)' = Queued(s) /\ Forwarded(s)' = Forwarded(s)
      BY <1>1 DEF Queued, Forwarded
    <3>2. Places(s)' = Places(s)
      BY <1>1, <3>1 DEF Places
    <3>3. OnePlace(s)'
      BY <1>1, <3>1, <3>2 DEF IInv, OnePlace
    <3>4. Open(s)'
      BY <1>1, <1>2 DEF IInv, Open, RxOpen, ExecTxOpen
    <3>5. Pending(s)'
      BY <1>1, <1>2, <1>3, <3>2 DEF IInv, Pending, Calls
    <3> QED
      BY <2>1, <3>3, <3>4, <3>5
  <2>2. CASE t # s
    <3>1. job[s] \notin Places(t)
      BY <1>2, <2>2 DEF IInv, OnePlace
    <3>2. UNCHANGED worker[t]
      BY <2>2 DEF ExecSend, IInv, TypeOK
    <3> QED
      BY <1>1, <1>3, <2>2, <3>1, <3>2, OtherSession DEF IInv, Pending, Calls
  <2> QED
    BY <2>1, <2>2
<1>5. ASSUME NEW c \in Requests PROVE History(c)'
  <2>1. CASE c = job[s]
    BY <1>1, <1>2, <1>5, <2>1 DEF IInv, History
  <2>2. CASE c # job[s]
    BY <1>1, <1>3, <1>5, <2>2 DEF IInv, History, Calls
  <2> QED
    BY <2>1, <2>2
<1>6. Told'
  BY <1>1, <1>2, <1>3 DEF IInv, Told, NotFoundNeverSent, OkWasSent, Calls
<1> QED
  BY <1>4, <1>5, <1>6 DEF IInv, TypeHands

\* A command sent joins the end of its session's command channel.
LEMMA SendStep ==
  ASSUME IInv, TypeHands', NEW c \in Calls, Send(c),
         NEW s \in Sessions, s = target[c]
  PROVE  IInv'
<1>1. UNCHANGED <<runtime, inHand, execQ, worker, job, sent, reply, target>>
  BY DEF Send, CallUnchanged, workerVars
<1>2. /\ s \in Sessions /\ phase[c] = "sending" /\ RxOpen(s)
      /\ phase'[c] \in {"waiting", "returned"}
      /\ c \in Requests => phase'[c] = "waiting" /\ result' = result
      /\ c \notin Requests => result' = [result EXCEPT ![c] = "ok"]
      /\ \A d \in Calls \ {c} : phase'[d] = phase[d]
  BY DEF Send, Return, IInv, TypeOK
<1>3. /\ \A t \in Sessions : c \notin Places(t)
      /\ \A d \in Requests : result'[d] = result[d]
  BY <1>2 DEF IInv, Pending, TypeOK, Calls
<1>4. c \in Requests => sent[c] = 0 /\ reply[c] = "none" /\ result[c] = "none"
  BY <1>2 DEF IInv, History, TypeOK, CallPhases
<1>5. Queued(s)' = Queued(s) \cup {c} /\ IsInjective(commandQ'[s])
  <2>1. /\ commandQ[s] \in Seq(Calls) /\ IsInjective(commandQ[s])
        /\ c \notin ToSet(commandQ[s])
    BY <1>2, <1>3 DEF IInv, TypeOK, OnePlace, Places, Queued
  <2>2. commandQ'[s] = Append(commandQ[s], c) /\ target' = target
    BY <1>1, <1>2 DEF Send, IInv, TypeOK
  <2> QED
    BY <2>1, <2>2, ToSetAppend, InjectiveAppend DEF Queued
<1>6. ASSUME NEW t \in Sessions PROVE (OnePlace(t) /\ Open(t) /\ Pending(t))'
  <2>1. CASE t = s
    <3>1. Forwarded(s)' = Forwarded(s)
      BY <1>1 DEF Forwarded
    <3>2. Places(s)' = Places(s) \cup {c}
      BY <1>1, <1>5, <3>1, CallsAssumption DEF Places
    <3>3. OnePlace(s)'
      BY <1>1, <1>2, <1>3, <1>5, <3>1, <3>2 DEF IInv, OnePlace, Places
    <3>4. Open(s)'
      BY <1>1, <1>2 DEF IInv, Open, RxOpen, ExecTxOpen
    <3>5. Pending(s)'
      <4> SUFFICES ASSUME NEW d \in Places(s)'
                   PROVE  /\ phase'[d] \in {"waiting", "returned"}
                          /\ d \in Requests =>
                               /\ reply'[d] = "none"
                               /\ result'[d] \in {"none", "timeout"}
                               /\ sent'[d] = IF job'[s] = d /\ worker'[s] = "running"
                                            THEN 1 ELSE 0
        BY <1>1 DEF Pending
      <4>1. CASE d = c
        <5>1. c # job[s]
          BY <1>2, <1>3, CallsAssumption DEF Places
        <5> QED
          BY <1>1, <1>2, <1>3, <1>4, <4>1, <5>1
      <4>2. CASE d # c
        <5>1. d \in Places(s) /\ d \in Calls
          BY <1>2, <3>2, <4>2, PlacesType DEF IInv
        <5> QED
          BY <1>1, <1>2, <1>3, <4>2, <5>1 DEF IInv, Pending
      <4> QED
        BY <4>1, <4>2
    <3> QED
      BY <2>1, <3>3, <3>4, <3>5
  <2>2. CASE t # s
    <3>1. UNCHANGED commandQ[t]
      BY <1>1, <1>2, <2>2 DEF Send, IInv, TypeOK
    <3>2. Places(t) \subseteq Calls \ {c}
      BY <1>3, <2>2, PlacesType DEF IInv
    <3> QED
      BY <1>1, <1>2, <1>3, <2>2, <3>1, <3>2, OtherSession DEF IInv, Pending
  <2> QED
    BY <2>1, <2>2
<1>7. ASSUME NEW d \in Requests PROVE History(d)'
  BY <1>1, <1>2, <1>3, <1>4, <1>7 DEF IInv, History, Calls
<1>8. Told'
  BY <1>1, <1>3 DEF IInv, Told, NotFoundNeverSent, OkWasSent
<1> QED
  BY <1>6, <1>7, <1>8 DEF IInv, TypeHands

\* A call that moves on or returns touches nothing but its own phase and
\* result; when it returns, what it says of its command is so.
LEMMA CallMoves ==
  ASSUME IInv, TypeHands', NEW c \in Calls,
         UNCHANGED <<sessionVars, workerVars, target, reply>>,
         \A d \in Calls \ {c} : phase'[d] = phase[d] /\ result'[d] = result[d],
         \/ /\ \A t \in Sessions : c \notin Places(t)
            /\ \/ phase[c] = "unused" /\ phase'[c] = "sending" /\ result'[c] = result[c]
               \/ phase'[c] = "returned" /\ result'[c] # "none"
            /\ c \in Requests =>
                 /\ result'[c] \in {"notfound", "unreachable"} => sent[c] = 0
                 /\ result'[c] = "ok" => sent[c] = 1
         \/ phase'[c] = "returned" /\ result'[c] = "timeout"
  PROVE  IInv'
<1>1. ASSUME NEW t \in Sessions PROVE (OnePlace(t) /\ Open(t) /\ Pending(t))'
  <2>1. Places(t) \subseteq Calls
    BY <1>1, PlacesType DEF IInv
  <2>2. ASSUME NEW d \in Places(t)
        PROVE  /\ phase'[d] \in {"waiting", "returned"}
               /\ d \in Requests => result'[d] \in {"none", "timeout"}
    BY <2>1, <2>2 DEF IInv, Pending
  <2> QED
    BY <2>2, OtherSession DEF sessionVars, workerVars
<1>2. ASSUME NEW d \in Requests PROVE History(d)'
  BY <1>2 DEF IInv, History, workerVars, Calls
<1>3. Told'
  BY DEF IInv, Told, NotFoundNeverSent, OkWasSent, workerVars, Calls
<1> QED
  BY <1>1, <1>2, <1>3 DEF IInv, TypeHands

\* One step of the system preserves the invariant.
LEMMA IInvNext == IInv /\ [Next]_vars => IInv'
<1> SUFFICES ASSUME IInv, [Next]_vars PROVE IInv'
  OBVIOUS
<1> TypeHands'
  BY TypeNext DEF IInv, TypeHands
<1> USE CallsAssumption
<1>1. ASSUME NEW s \in Sessions, Connect(s) PROVE IInv'
  BY <1>1, QuietStep
     DEF Connect, IInv, TypeOK, Hands, Open, Working, RxOpen, ExecTxOpen, workerVars
<1>2. ASSUME NEW s \in Sessions, Authenticated(s) PROVE IInv'
  BY <1>2, QuietStep
     DEF Authenticated, IInv, TypeOK, Hands, Open, Working, RxOpen, ExecTxOpen, workerVars
<1>3. ASSUME NEW s \in Sessions, ShellReady(s) PROVE IInv'
  BY <1>3, QuietStep
     DEF ShellReady, IInv, TypeOK, Hands, Open, Working, RxOpen, ExecTxOpen, workerVars
<1>4. ASSUME NEW s \in Sessions, ShellOutput(s) PROVE IInv'
  BY <1>4, QuietStep
     DEF ShellOutput, IInv, TypeOK, Hands, Open, Working, RxOpen, ExecTxOpen, workerVars
<1>5. ASSUME NEW s \in Sessions, Unregister(s) PROVE IInv'
  BY <1>5, QuietStep
     DEF Unregister, IInv, TypeOK, Hands, Open, Working, RxOpen, ExecTxOpen, workerVars
<1>6. ASSUME NEW s \in Sessions, EmitFinal(s) PROVE IInv'
  BY <1>6, QuietStep
     DEF EmitFinal, IInv, TypeOK, Hands, Open, Working, RxOpen, ExecTxOpen, workerVars
<1>7. ASSUME NEW s \in Sessions, ConnectFails(s) PROVE IInv'
  BY <1>7, EndRunStep DEF ConnectFails, FinalStatuses
<1>8. ASSUME NEW s \in Sessions, OpenFails(s) PROVE IInv'
  BY <1>8, EndRunStep DEF OpenFails, FinalStatuses
<1>9. ASSUME NEW s \in Sessions, Closed(s) PROVE IInv'
  BY <1>9, EndRunStep DEF Closed, FinalStatuses
<1>10. ASSUME NEW s \in Sessions, WriteFails(s) PROVE IInv'
  BY <1>10, EndRunStep DEF WriteFails, FinalStatuses
<1>11. ASSUME NEW s \in Sessions, ShellEnds(s) PROVE IInv'
  BY <1>11, EndRunStep DEF ShellEnds, FinalStatuses
<1>12. ASSUME NEW s \in Sessions, ReceiveWrite(s) PROVE IInv'
  BY <1>12, ReceiveStep DEF ReceiveWrite, Calls
<1>13. ASSUME NEW s \in Sessions, ReceiveExec(s) PROVE IInv'
  BY <1>13, ReceiveStep DEF ReceiveExec, Calls
<1>14. ASSUME NEW s \in Sessions, ReceiveDisconnect(s) PROVE IInv'
  BY <1>14, ReceiveStep DEF ReceiveDisconnect, Calls
<1>15. ASSUME NEW s \in Sessions, WriteDone(s) PROVE IInv'
  BY <1>15, WriteDoneStep
<1>16. ASSUME NEW s \in Sessions, Forward(s) PROVE IInv'
  BY <1>16, ForwardStep
<1>17. ASSUME NEW s \in Sessions, Take(s) PROVE IInv'
  BY <1>17, TakeStep
<1>18. ASSUME NEW s \in Sessions, WorkerConnect(s) PROVE IInv'
  BY <1>18, QuietStep
     DEF WorkerConnect, IInv, TypeOK, Hands, Open, Working, RxOpen, ExecTxOpen,
         WorkerUnchanged, sessionVars
<1>19. ASSUME NEW s \in Sessions, Redial(s) PROVE IInv'
  BY <1>19, QuietStep
     DEF Redial, IInv, TypeOK, Hands, Open, Working, RxOpen, ExecTxOpen,
         WorkerUnchanged, sessionVars
<1>20. ASSUME NEW s \in Sessions, RedialFails(s) PROVE IInv'
  BY <1>20, QuietStep
     DEF RedialFails, IInv, TypeOK, Hands, Open, Working, RxOpen, ExecTxOpen,
         WorkerUnchanged, sessionVars
<1>21. ASSUME NEW s \in Sessions, WorkerExit(s) PROVE IInv'
  BY <1>21, QuietStep
     DEF WorkerExit, Exit, IInv, TypeOK, Hands, Open, Working, RxOpen, ExecTxOpen,
         WorkerUnchanged, sessionVars
<1>22. ASSUME NEW s \in Sessions, GiveUp(s) PROVE IInv'
  BY <1>22, AnswerStep DEF GiveUp, Working
<1>23. ASSUME NEW s \in Sessions, ExecRefused(s) PROVE IInv'
  BY <1>23, AnswerStep DEF ExecRefused, Working
<1>24. ASSUME NEW s \in Sessions, ExecEnd(s) PROVE IInv'
  BY <1>24, AnswerStep DEF ExecEnd, Working
<1>25. ASSUME NEW s \in Sessions, ExecSend(s) PROVE IInv'
  BY <1>25, ExecSendStep
<1>26. ASSUME NEW c \in Calls, Send(c) PROVE IInv'
  <2>1. target[c] \in Sessions
    BY <1>26 DEF IInv, TypeOK
  <2> QED
    BY <1>26, <2>1, SendStep
<1>27. ASSUME NEW c \in Calls, Lookup(c) PROVE IInv'
  <2>1. c \in Requests => sent[c] = 0
    BY <1>27 DEF Lookup, LookUpIn, IInv, History
  <2>2. \A t \in Sessions : c \notin Places(t)
    BY <1>27 DEF Lookup, LookUpIn, IInv, Pending
  <2>3. CASE target[c] \in sessions
    <3>1. /\ phase[c] = "unused" /\ phase'[c] = "sending" /\ result'[c] = result[c]
          /\ \A d \in Calls \ {c} : phase'[d] = phase[d] /\ result'[d] = result[d]
          /\ UNCHANGED <<sessionVars, workerVars, target, reply>>
      BY <1>27, <2>3 DEF Lookup, LookUpIn, CallUnchanged, IInv, TypeOK
    <3>2. c \in Requests => result[c] = "none"
      BY <3>1 DEF IInv, History, TypeOK, CallPhases, Calls
    <3> QED
      BY <2>1, <2>2, <3>1, <3>2, CallMoves
  <2>4. CASE target[c] \notin sessions
    BY <1>27, <2>1, <2>2, <2>4, CallMoves DEF Lookup, LookUpIn, Return, CallUnchanged, IInv, TypeOK
  <2> QED
    BY <2>3, <2>4
<1>28. ASSUME NEW c \in Calls, EmptyInput(c) PROVE IInv'
  <2>1. c \notin Requests
    BY <1>28 DEF EmptyInput, Writes
  <2>2. \A t \in Sessions : c \notin Places(t)
    BY <1>28 DEF EmptyInput, IInv, Pending
  <2> QED
    BY <1>28, <2>1, <2>2, CallMoves DEF EmptyInput, Return, CallUnchanged, IInv, TypeOK
<1>29. ASSUME NEW c \in Calls, SendFails(c) PROVE IInv'
  BY <1>29, CallMoves
     DEF SendFails, Return, CallUnchanged, IInv, TypeOK, History, Pending, Calls
<1>30. ASSUME NEW c \in Calls, Collect(c) PROVE IInv'
  <2> DEFINE r == IF reply[c] = "dropped" THEN "notfound" ELSE reply[c]
  <2>1. /\ r # "none"
        /\ r \in {"notfound", "unreachable"} => sent[c] = 0
        /\ r = "ok" => sent[c] = 1
    BY <1>30 DEF Collect, IInv, TypeOK, Replies, History
  <2>2. \A t \in Sessions : c \notin Places(t)
    BY <1>30 DEF Collect, IInv, Pending
  <2>3. /\ phase'[c] = "returned" /\ result'[c] = r
        /\ \A d \in Calls \ {c} : phase'[d] = phase[d] /\ result'[d] = result[d]
        /\ UNCHANGED <<sessionVars, workerVars, target, reply>>
    BY <1>30 DEF Collect, Return, CallUnchanged, IInv, TypeOK
  <2> HIDE DEF r
  <2> QED
    BY <2>1, <2>2, <2>3, CallMoves
<1>31. ASSUME NEW c \in Calls, Timeout(c) PROVE IInv'
  BY <1>31, CallMoves
     DEF Timeout, Return, CallUnchanged, IInv, TypeOK, History, Pending, Calls
<1>32. CASE UNCHANGED vars
  BY <1>32, QuietStep
     DEF vars, sessionVars, workerVars, IInv, TypeOK, Open, RxOpen, ExecTxOpen
<1> QED
  BY <1>1, <1>2, <1>3, <1>4, <1>5, <1>6, <1>7, <1>8, <1>9, <1>10,
     <1>11, <1>12, <1>13, <1>14, <1>15, <1>16, <1>17, <1>18, <1>19, <1>20,
     <1>21, <1>22, <1>23, <1>24, <1>25, <1>26, <1>27, <1>28, <1>29, <1>30,
     <1>31, <1>32
     DEF Next, RuntimeStep, WorkerStep, CallStep

\* The inductive invariant holds: every request that was sent into the system is
\* in one place until its oneshot is used, and only the worker sends its command.
THEOREM Invariance == Spec => []IInv
  BY IInvInit, IInvNext, PTL DEF Spec

\* A remote command is sent to the host at most once.
THEOREM AtMostOnceHolds == Spec => []AtMostOnce
<1>1. IInv => AtMostOnce
  BY DEF IInv, History, AtMostOnce
<1> QED
  BY <1>1, Invariance, PTL

\* "Session not found" and "unreachable" are said only of commands that never
\* reach the host.
THEOREM NotFoundNeverSentHolds == Spec => []NotFoundNeverSent
<1>1. IInv => NotFoundNeverSent
  BY DEF IInv, Told
<1> QED
  BY <1>1, Invariance, PTL

\* An exec that returned Ok sent its command, exactly once.
THEOREM OkWasSentHolds == Spec => []OkWasSent
<1>1. IInv => OkWasSent
  BY DEF IInv, Told
<1> QED
  BY <1>1, Invariance, PTL

-----------------------------------------------------------------------------
(* The log                                                                 *)

\* The logs that the phases allow are legal ones.
LEMMA LoggedIsLegal ==
  ASSUME TypeOK, NEW s \in Sessions, Logged(s)
  PROVE  events[s] \in LegalLogs
<1> DEFINE up      == {<<"Connecting", "Connected">>, <<"Connecting", "Connected", "Output">>}
           started == {<<"Connecting">>} \cup up
<1>1. /\ \A log \in started : Append(log, "ErrorEvent") = log \o <<"ErrorEvent">>
      /\ \A log \in started : Append(Append(log, "ErrorEvent"), "Error") = log \o <<"ErrorEvent", "Error">>
      /\ \A log \in up : Append(log, "Disconnected") = log \o <<"Disconnected">>
  OBVIOUS
<1>2. StartedLogs = started /\ UpLogs = up
  BY DEF StartedLogs, UpLogs
<1>3. LegalLogs = {<<>>} \cup started
                    \cup {log \o <<"ErrorEvent">> : log \in started}
                    \cup {log \o <<"ErrorEvent", "Error">> : log \in started}
                    \cup {log \o <<"Disconnected">> : log \in up}
  BY DEF LegalLogs
<1> HIDE DEF up, started
<1>4. <<"Connecting">> \in started /\ up \subseteq started
  BY DEF up, started
<1>5. CASE runtime[s] \in {"ended", "removed"}
  <2>1. CASE finalStatus[s] = "Error"
    <3>1. PICK first \in started : events[s] = Append(first, "ErrorEvent")
      BY <1>2, <1>5, <2>1 DEF Logged, EndedLogs
    <3> QED
      BY <1>1, <1>3, <3>1
  <2>2. CASE finalStatus[s] # "Error"
    BY <1>2, <1>3, <1>4, <1>5, <2>2 DEF Logged, EndedLogs
  <2> QED
    BY <2>1, <2>2
<1>6. CASE runtime[s] = "done"
  <2>1. PICK log \in EndedLogs(finalStatus[s]) : events[s] = Append(log, finalStatus[s])
    BY <1>6 DEF Logged
  <2>2. CASE finalStatus[s] = "Error"
    <3>1. PICK first \in started : log = Append(first, "ErrorEvent")
      BY <1>2, <2>1, <2>2 DEF EndedLogs
    <3> QED
      BY <1>1, <1>3, <2>1, <2>2, <3>1
  <2>3. CASE finalStatus[s] = "Disconnected"
    BY <1>1, <1>2, <1>3, <2>1, <2>3 DEF EndedLogs
  <2> QED
    BY <2>2, <2>3 DEF TypeOK, FinalStatuses
<1>7. CASE runtime[s] \in {"absent", "connecting", "opening"} \/ ExecTxOpen(s)
  BY <1>2, <1>3, <1>4, <1>7 DEF Logged
<1> QED
  BY <1>5, <1>6, <1>7 DEF TypeOK, RuntimePhases, ExecTxOpen

-----------------------------------------------------------------------------
(* The map, the log and the runtime's hand                                 *)

SessionLife(s) == Registered(s) /\ Logged(s) /\ Carried(s)

\* Nothing is in the map or in a log at the start, and no call is under way.
LEMMA LifeInit == Init => LifeInv
<1> SUFFICES ASSUME Init PROVE LifeInv
  OBVIOUS
<1>1. ASSUME NEW s \in Sessions PROVE SessionLife(s)
  BY <1>1, CallsAssumption
     DEF Init, SessionLife, Registered, Logged, Carried, RxOpen, ExecTxOpen, Calls
<1>2. ASSUME NEW c \in Requests PROVE Followed(c)
  BY <1>2 DEF Init, Followed, Calls
<1> QED
  BY <1>1, <1>2 DEF LifeInv, SessionLife

\* A session whose variables keep their values keeps its life.
LEMMA SessionKept ==
  ASSUME NEW s \in Sessions, SessionLife(s),
         s \in sessions' <=> s \in sessions,
         runtime'[s] = runtime[s], inHand'[s] = inHand[s],
         events'[s] = events[s], finalStatus'[s] = finalStatus[s]
  PROVE  SessionLife(s)'
  BY DEF SessionLife, Registered, Logged, Carried, RxOpen, ExecTxOpen

\* run returns: with an error from any phase, without one only once the shell is
\* up; the hand is emptied.
LEMMA EndRunLife ==
  ASSUME TypeOK, NEW s \in Sessions, SessionLife(s), RxOpen(s),
         NEW st \in FinalStatuses, EndRun(s, st),
         st = "Disconnected" => ExecTxOpen(s)
  PROVE  SessionLife(s)'
<1>1. /\ runtime'[s] = "ended" /\ finalStatus'[s] = st /\ inHand'[s] = NoCall
      /\ sessions' = sessions
      /\ events'[s] = IF st = "Error" THEN Append(events[s], "ErrorEvent") ELSE events[s]
  BY DEF EndRun, EndRunDropping, TypeOK
<1>2. Registered(s)'
  BY <1>1 DEF SessionLife, Registered, RxOpen
<1>3. Carried(s)'
  BY <1>1, CallsAssumption DEF Carried, Calls
<1>4. events[s] \in StartedLogs /\ (ExecTxOpen(s) => events[s] \in UpLogs)
  BY DEF SessionLife, Logged, RxOpen, ExecTxOpen, StartedLogs
<1>5. events'[s] \in EndedLogs(st)
  BY <1>1, <1>4 DEF EndedLogs, FinalStatuses
<1>6. Logged(s)'
  BY <1>1, <1>5 DEF Logged, ExecTxOpen
<1> QED
  BY <1>2, <1>3, <1>6 DEF SessionLife

\* How the log of a session that is up begins and goes on.
LEMMA LogsGrow ==
  /\ Append(<<"Connecting">>, "Connected") \in UpLogs
  /\ \A log \in UpLogs : Last(log) # "Output" => Append(log, "Output") \in UpLogs
<1>1. Append(<<"Connecting">>, "Connected") = <<"Connecting", "Connected">>
  BY AppendToOne
<1>2. Append(<<"Connecting", "Connected">>, "Output") = <<"Connecting", "Connected", "Output">>
  BY AppendToTwo
<1>3. Last(<<"Connecting", "Connected", "Output">>) = "Output"
  BY DEF Last
<1> QED
  BY <1>1, <1>2, <1>3 DEF UpLogs

\* What a runtime does keeps the life of its session.
LEMMA RuntimeLife ==
  ASSUME IInv, NEW s \in Sessions, SessionLife(s), RuntimeStep(s)
  PROVE  SessionLife(s)'
<1> USE CallsAssumption DEF IInv, TypeOK
<1> USE DEF SessionLife, Registered, Carried, RxOpen
<1>1. CASE Connect(s)
  <2>1. events'[s] = <<"Connecting">>
    BY <1>1 DEF Connect, Logged
  <2> QED
    BY <1>1, <2>1 DEF Connect, Logged, ExecTxOpen
<1>2. CASE Authenticated(s)
  BY <1>2 DEF Authenticated, Logged, ExecTxOpen
<1>3. CASE ShellReady(s)
  <2>1. events'[s] \in UpLogs
    <3>1. events[s] = <<"Connecting">>
      BY <1>3 DEF ShellReady, Logged
    <3>2. events'[s] = Append(events[s], "Connected")
      BY <1>3 DEF ShellReady
    <3> QED
      BY <3>1, <3>2, LogsGrow
  <2> QED
    BY <1>3, <2>1 DEF ShellReady, Logged, ExecTxOpen
<1>4. CASE ShellOutput(s)
  <2>1. events'[s] \in UpLogs
    <3>1. events[s] \in UpLogs
      BY <1>4 DEF ShellOutput, Logged, ExecTxOpen
    <3>2. events'[s] = Append(events[s], "Output") /\ Last(events[s]) # "Output"
      BY <1>4 DEF ShellOutput
    <3> QED
      BY <3>1, <3>2, LogsGrow
  <2> QED
    BY <1>4, <2>1 DEF ShellOutput, Logged, ExecTxOpen
<1>5. CASE Unregister(s)
  BY <1>5 DEF Unregister, Logged, ExecTxOpen
<1>6. CASE EmitFinal(s)
  BY <1>6 DEF EmitFinal, Logged, ExecTxOpen
<1>7. CASE ReceiveWrite(s)
  BY <1>7 DEF ReceiveWrite, Receive, Logged, ExecTxOpen
<1>8. CASE ReceiveExec(s)
  BY <1>8 DEF ReceiveExec, Receive, Logged, ExecTxOpen
<1>9. CASE ReceiveDisconnect(s)
  BY <1>9 DEF ReceiveDisconnect, Receive, Logged, ExecTxOpen
<1>10. CASE WriteDone(s)
  BY <1>10 DEF WriteDone, Logged, ExecTxOpen, Calls
<1>11. CASE Forward(s)
  BY <1>11 DEF Forward, Push, Logged, ExecTxOpen, Calls
<1>12. CASE ConnectFails(s) \/ OpenFails(s) \/ WriteFails(s)
  BY <1>12, EndRunLife DEF ConnectFails, OpenFails, WriteFails, FinalStatuses
<1>13. CASE Closed(s) \/ ShellEnds(s)
  BY <1>13, EndRunLife DEF Closed, ShellEnds, FinalStatuses, ExecTxOpen
<1> QED
  BY <1>1, <1>2, <1>3, <1>4, <1>5, <1>6, <1>7, <1>8, <1>9, <1>10, <1>11,
     <1>12, <1>13 DEF RuntimeStep

\* ... and of the others.
LEMMA RuntimeOthers ==
  ASSUME IInv, NEW s \in Sessions, RuntimeStep(s), NEW t \in Sessions \ {s}
  PROVE  /\ t \in sessions' <=> t \in sessions
         /\ runtime'[t] = runtime[t] /\ inHand'[t] = inHand[t]
         /\ events'[t] = events[t] /\ finalStatus'[t] = finalStatus[t]
         /\ commandQ'[t] = commandQ[t] /\ execQ'[t] = execQ[t]
         /\ worker'[t] = worker[t] /\ job'[t] = job[t]
<1> USE DEF IInv, TypeOK, workerVars
<1>1. CASE Connect(s) \/ Authenticated(s) \/ ShellReady(s) \/ ShellOutput(s)
           \/ Unregister(s) \/ EmitFinal(s)
  BY <1>1 DEF Connect, Authenticated, ShellReady, ShellOutput, Unregister, EmitFinal
<1>2. CASE ReceiveWrite(s) \/ ReceiveExec(s) \/ ReceiveDisconnect(s)
  BY <1>2 DEF ReceiveWrite, ReceiveExec, ReceiveDisconnect, Receive
<1>3. CASE WriteDone(s) \/ Forward(s)
  BY <1>3 DEF WriteDone, Forward, Push
<1>4. CASE ConnectFails(s) \/ OpenFails(s) \/ WriteFails(s) \/ Closed(s) \/ ShellEnds(s)
  BY <1>4 DEF ConnectFails, OpenFails, WriteFails, Closed, ShellEnds, EndRun, EndRunDropping
<1> QED
  BY <1>1, <1>2, <1>3, <1>4 DEF RuntimeStep

-----------------------------------------------------------------------------
(* Requests under way                                                      *)

Over == {"ended", "removed", "done"}

\* A session that was started stays so, one that is over stays over, and a worker
\* that was started is never unmade.
PhasesAdvance ==
  \A t \in Sessions :
    /\ runtime[t] # "absent" => runtime'[t] # "absent"
    /\ runtime[t] \in Over => runtime'[t] \in Over
    /\ worker[t] # "none" => worker'[t] # "none"

\* Every step of a runtime is one forward.
LEMMA RuntimeAdvances ==
  ASSUME IInv, NEW s \in Sessions, RuntimeStep(s)
  PROVE  PhasesAdvance
<1> USE DEF IInv, TypeOK, Over, workerVars
<1>1. /\ runtime[s] # "absent" => runtime'[s] # "absent"
      /\ runtime[s] \in Over => runtime'[s] \in Over
      /\ worker[s] # "none" => worker'[s] # "none"
  <2>1. CASE Connect(s) \/ Authenticated(s) \/ ShellReady(s) \/ ShellOutput(s)
             \/ Unregister(s) \/ EmitFinal(s)
    BY <2>1 DEF Connect, Authenticated, ShellReady, ShellOutput, Unregister, EmitFinal
  <2>2. CASE ReceiveWrite(s) \/ ReceiveExec(s) \/ ReceiveDisconnect(s)
    BY <2>2 DEF ReceiveWrite, ReceiveExec, ReceiveDisconnect, Receive
  <2>3. CASE WriteDone(s) \/ Forward(s)
    BY <2>3 DEF WriteDone, Forward, Push
  <2>4. CASE ConnectFails(s) \/ OpenFails(s) \/ WriteFails(s) \/ Closed(s) \/ ShellEnds(s)
    BY <2>4 DEF ConnectFails, OpenFails, WriteFails, Closed, ShellEnds, EndRun, EndRunDropping
  <2> QED
    BY <2>1, <2>2, <2>3, <2>4 DEF RuntimeStep
<1>2. \A t \in Sessions \ {s} : runtime'[t] = runtime[t] /\ worker'[t] = worker[t]
  BY RuntimeOthers
<1> QED
  BY <1>1, <1>2 DEF PhasesAdvance

\* Every step of a worker is one forward, and leaves session and calls alone.
LEMMA WorkerAdvances ==
  ASSUME IInv, NEW s \in Sessions, WorkerStep(s)
  PROVE  PhasesAdvance /\ UNCHANGED <<sessionVars, callVars>>
<1> USE DEF IInv, TypeOK, sessionVars, callVars, WorkerUnchanged
<1>1. UNCHANGED <<sessionVars, callVars>>
  BY DEF WorkerStep, WorkerConnect, Take, Redial, RedialFails, GiveUp, ExecRefused,
     ExecSend, ExecEnd, WorkerExit, Exit, Answer
<1>2. \A t \in Sessions : worker[t] # "none" => worker'[t] # "none"
  BY DEF WorkerStep, WorkerConnect, Take, Redial, RedialFails, GiveUp, ExecRefused,
     ExecSend, ExecEnd, WorkerExit, Exit, Answer
<1> QED
  BY <1>1, <1>2 DEF PhasesAdvance

\* Where a request under way is looked for after a step.
LEMMA FollowedStep ==
  ASSUME IInv, NEW c \in Requests, Followed(c), PhasesAdvance, target' = target,
         phase'[c] \in {"sending", "waiting"} => phase[c] \in {"sending", "waiting"},
         phase'[c] = "waiting" /\ reply'[c] = "none" => c \in Places(target[c])',
         \/ reply'[c] = reply[c]
         \/ reply'[c] = "dropped" /\ runtime'[target[c]] \in Over
         \/ reply'[c] \notin {"none", "dropped"} /\ worker'[target[c]] # "none"
  PROVE  Followed(c)'
<1>1. target[c] \in Sessions /\ target'[c] = target[c]
  BY DEF IInv, TypeOK, Calls
<1> QED
  BY <1>1 DEF Followed, PhasesAdvance, Over

\* What a runtime does with its places: it moves requests, or drops them with
\* their oneshots when it returns.
LEMMA RuntimePlaces ==
  ASSUME IInv, NEW s \in Sessions, SessionLife(s), RuntimeStep(s), NEW c \in Requests
  PROVE  \/ reply'[c] = reply[c] /\ (c \in Places(s) => c \in Places(s)')
         \/ reply'[c] = "dropped" /\ c \in Queued(s) /\ runtime'[s] \in Over
<1> USE CallsAssumption DEF IInv, TypeOK, Places, Queued, Forwarded
<1>1. CASE Connect(s) \/ Authenticated(s) \/ ShellReady(s) \/ ShellOutput(s)
           \/ Unregister(s) \/ EmitFinal(s)
  BY <1>1 DEF Connect, Authenticated, ShellReady, ShellOutput, Unregister, EmitFinal, workerVars
<1>2. CASE ReceiveWrite(s) \/ ReceiveExec(s) \/ ReceiveDisconnect(s)
  <2>1. /\ commandQ[s] # <<>> /\ commandQ[s] \in Seq(Calls)
        /\ commandQ'[s] = Tail(commandQ[s]) /\ inHand'[s] = Head(commandQ[s])
        /\ runtime[s] = "selecting"
        /\ UNCHANGED <<execQ, job, reply>>
    BY <1>2 DEF ReceiveWrite, ReceiveExec, ReceiveDisconnect, Receive, workerVars
  <2>2. inHand[s] = NoCall
    BY <2>1 DEF Hands, Busy
  <2>3. /\ Head(commandQ[s]) \in Calls
        /\ ToSet(commandQ[s]) = {Head(commandQ[s])} \cup ToSet(Tail(commandQ[s]))
    BY <2>1, ToSetTail
  <2> QED
    BY <2>1, <2>2, <2>3
<1>3. CASE WriteDone(s)
  <2>1. inHand[s] \notin Requests
    BY <1>3 DEF WriteDone, SessionLife, Carried
  <2>2. inHand'[s] = NoCall /\ UNCHANGED <<commandQ, execQ, job, reply>>
    BY <1>3 DEF WriteDone, workerVars
  <2> QED
    BY <2>1, <2>2
<1>4. CASE Forward(s)
  <2>1. /\ inHand[s] \in Requests /\ Requests \subseteq Calls
        /\ execQ[s] \in Seq(Calls) /\ execQ'[s] = Append(execQ[s], inHand[s])
        /\ UNCHANGED <<commandQ, job, reply>>
    BY <1>4 DEF Forward, Push, Hands, Calls
  <2>2. ToSet(execQ'[s]) = ToSet(execQ[s]) \cup {inHand[s]}
    BY <2>1, ToSetAppend
  <2> QED
    BY <2>1, <2>2
<1>5. CASE ConnectFails(s) \/ OpenFails(s) \/ WriteFails(s) \/ Closed(s) \/ ShellEnds(s)
  <2>1. PICK st \in FinalStatuses : EndRun(s, st) /\ runtime[s] # "forwarding"
    BY <1>5 DEF ConnectFails, OpenFails, WriteFails, Closed, ShellEnds, FinalStatuses
  <2>2. inHand[s] \notin Requests
    BY <2>1 DEF SessionLife, Carried
  <2>3. /\ runtime'[s] = "ended" /\ commandQ'[s] = <<>> /\ inHand'[s] = NoCall
        /\ UNCHANGED <<execQ, job>>
        /\ reply'[c] = IF c \in ToSet(commandQ[s]) THEN "dropped" ELSE reply[c]
    BY <2>1 DEF EndRun, EndRunDropping, workerVars, Calls
  <2> QED
    BY <2>2, <2>3 DEF Over
<1> QED
  BY <1>1, <1>2, <1>3, <1>4, <1>5 DEF RuntimeStep

\* No step of a runtime loses a request.
LEMMA RuntimeFollows ==
  ASSUME IInv, LifeInv, NEW s \in Sessions, RuntimeStep(s), NEW c \in Requests
  PROVE  Followed(c)'
<1>1. PhasesAdvance
  BY RuntimeAdvances
<1>2. UNCHANGED <<phase, target>>
  BY DEF RuntimeStep, Connect, Authenticated, ShellReady, ShellOutput, Unregister, EmitFinal,
     ReceiveWrite, ReceiveExec, ReceiveDisconnect, Receive, WriteDone, Forward, Push,
     ConnectFails, OpenFails, WriteFails, Closed, ShellEnds, EndRun, EndRunDropping, callVars
<1>3. target[c] \in Sessions /\ Followed(c) /\ SessionLife(s)
  BY DEF IInv, TypeOK, LifeInv, SessionLife, Calls
<1>4. CASE target[c] = s
  BY <1>1, <1>2, <1>3, <1>4, RuntimePlaces, FollowedStep DEF Followed
<1>5. CASE target[c] # s
  <2>1. Places(target[c])' = Places(target[c])
    BY <1>2, <1>3, <1>5, RuntimeOthers DEF Places, Queued, Forwarded
  <2>2. c \notin Queued(s)
    BY <1>5 DEF IInv, OnePlace, Places
  <2>3. reply'[c] = reply[c]
    BY <1>3, <2>2, RuntimePlaces
  <2> QED
    BY <1>1, <1>2, <1>3, <2>1, <2>3, FollowedStep DEF Followed
<1> QED
  BY <1>4, <1>5

\* No step of a worker loses a request: what it lets go of, it has answered.
LEMMA WorkerFollows ==
  ASSUME IInv, LifeInv, NEW s \in Sessions, WorkerStep(s), NEW c \in Requests
  PROVE  Followed(c)'
<1>1. PhasesAdvance /\ UNCHANGED <<sessionVars, callVars>>
  BY WorkerAdvances
<1>2. target[c] \in Sessions /\ Followed(c) /\ target' = target /\ phase' = phase
  BY <1>1 DEF IInv, TypeOK, LifeInv, Calls, callVars
<1> DEFINE t == target[c]
<1>3. CASE Take(s)
  <2>1. /\ execQ[s] \in Seq(Calls) /\ execQ[s] # <<>>
        /\ job' = [job EXCEPT ![s] = Head(execQ[s])]
        /\ execQ' = [execQ EXCEPT ![s] = Tail(@)]
        /\ job[s] = NoCall /\ reply' = reply
    BY <1>3 DEF Take, IInv, TypeOK, Hands, Working
  <2>2. /\ Head(execQ[s]) \in Calls
        /\ ToSet(execQ[s]) = {Head(execQ[s])} \cup ToSet(Tail(execQ[s]))
    BY <2>1, ToSetTail
  <2>3. c \in Places(t) => c \in Places(t)'
    BY <1>1, <1>2, <2>1, <2>2, CallsAssumption
       DEF Places, Queued, Forwarded, IInv, TypeOK, sessionVars, Calls
  <2> QED
    BY <1>1, <1>2, <2>1, <2>3, FollowedStep DEF Followed
<1>4. CASE GiveUp(s) \/ ExecRefused(s) \/ ExecEnd(s)
  <2>1. PICK r \in {"unreachable", "err", "ok"}, up \in BOOLEAN : Answer(s, r, up)
    BY <1>4 DEF GiveUp, ExecRefused, ExecEnd
  <2>2. /\ job[s] \in Requests /\ target[job[s]] = s
        /\ worker'[s] = "idle"
        /\ execQ' = execQ /\ job' = [job EXCEPT ![s] = NoCall]
        /\ reply' = [reply EXCEPT ![job[s]] = r]
    BY <1>4, <2>1, CallsAssumption
       DEF Answer, GiveUp, ExecRefused, ExecEnd, IInv, TypeOK, Hands, Working, OnePlace, Places
  <2>3. CASE c = job[s]
    BY <1>1, <1>2, <2>1, <2>2, <2>3, FollowedStep DEF IInv, TypeOK, Calls
  <2>4. CASE c # job[s]
    <3>1. c \in Places(t) => c \in Places(t)'
      BY <1>1, <1>2, <2>2, <2>4, CallsAssumption
         DEF Places, Queued, Forwarded, IInv, TypeOK, sessionVars, Calls
    <3>2. reply'[c] = reply[c]
      BY <2>2, <2>4 DEF IInv, TypeOK, Calls
    <3> QED
      BY <1>1, <1>2, <3>1, <3>2, FollowedStep DEF Followed
  <2> QED
    BY <2>3, <2>4
<1>5. CASE WorkerConnect(s) \/ Redial(s) \/ RedialFails(s) \/ ExecSend(s) \/ WorkerExit(s)
  <2>1. UNCHANGED <<execQ, job, reply>>
    BY <1>5 DEF WorkerConnect, Redial, RedialFails, ExecSend, WorkerExit, Exit
  <2>2. c \in Places(t) => c \in Places(t)'
    BY <1>1, <1>2, <2>1 DEF Places, Queued, Forwarded, sessionVars
  <2> QED
    BY <1>1, <1>2, <2>1, <2>2, FollowedStep DEF Followed
<1> QED
  BY <1>3, <1>4, <1>5 DEF WorkerStep

\* What a call does leaves the session, the worker and their places alone, but
\* for the command that it queues.
LEMMA CallLeaves ==
  ASSUME NEW c \in Calls, CallStep(c)
  PROVE  /\ UNCHANGED <<sessions, runtime, inHand, events, finalStatus, workerVars, target, reply>>
         /\ ~Send(c) => UNCHANGED commandQ
  BY DEF CallStep, Lookup, LookUpIn, EmptyInput, Send, SendFails, Collect, Timeout,
     Return, CallUnchanged, sessionVars

\* No step of a call loses a request, its own included.
LEMMA CallFollows ==
  ASSUME IInv, LifeInv, NEW c \in Calls, CallStep(c), NEW d \in Requests
  PROVE  Followed(d)'
<1>1. /\ UNCHANGED <<sessions, runtime, inHand, events, finalStatus, workerVars, target, reply>>
      /\ PhasesAdvance
  BY CallLeaves DEF PhasesAdvance, workerVars
<1>2. target[d] \in Sessions /\ Followed(d) /\ d \in Calls
  BY DEF IInv, TypeOK, LifeInv, Calls
<1>3. CASE Send(c)
  <2>1. /\ target[c] \in Sessions /\ commandQ[target[c]] \in Seq(Calls)
        /\ commandQ' = [commandQ EXCEPT ![target[c]] = Append(@, c)]
        /\ phase[c] = "sending"
        /\ phase'[d] = IF d = c THEN "waiting" ELSE phase[d]
    BY <1>2, <1>3 DEF Send, Return, IInv, TypeOK
  <2>2. /\ ToSet(commandQ'[target[c]]) = ToSet(commandQ[target[c]]) \cup {c}
        /\ \A t \in Sessions \ {target[c]} : commandQ'[t] = commandQ[t]
    BY <2>1, ToSetAppend DEF IInv, TypeOK
  <2>3. d \in Places(target[d]) \/ d = c => d \in Places(target[d])'
    BY <1>1, <1>2, <2>2 DEF Places, Queued, Forwarded, workerVars
  <2> QED
    BY <1>1, <1>2, <2>1, <2>3, FollowedStep DEF Followed
<1>4. CASE ~Send(c)
  <2>1. Places(target[d])' = Places(target[d])
    BY <1>1, <1>4, CallLeaves DEF Places, Queued, Forwarded, workerVars
  <2>2. CASE d = c /\ Lookup(c)
    <3>1. phase'[c] # "waiting" /\ (phase'[c] = "sending" => target[c] \in sessions)
      BY <2>2 DEF Lookup, LookUpIn, Return, IInv, TypeOK
    <3>2. phase'[c] = "sending" => runtime'[target[c]] # "absent"
      BY <1>1, <1>2, <2>2, <3>1 DEF LifeInv, Registered, RxOpen
    <3> QED
      BY <1>1, <1>2, <2>2, <3>1, <3>2 DEF Followed, workerVars
  <2>3. CASE ~(d = c /\ Lookup(c))
    <3>1. phase'[d] \in {"sending", "waiting"} => phase'[d] = phase[d]
      BY <1>2, <1>4, <2>3
         DEF CallStep, Lookup, LookUpIn, EmptyInput, SendFails, Collect, Timeout, Return, IInv, TypeOK
    <3> QED
      BY <1>1, <1>2, <2>1, <3>1, FollowedStep DEF Followed
  <2> QED
    BY <2>2, <2>3
<1> QED
  BY <1>3, <1>4

\* One step of the system preserves the life of every session and of every
\* request under way.
LEMMA LifeNext == IInv /\ LifeInv /\ [Next]_vars => LifeInv'
<1> SUFFICES ASSUME IInv, LifeInv, [Next]_vars PROVE LifeInv'
  OBVIOUS
<1>1. \A t \in Sessions : SessionLife(t)
  BY DEF LifeInv, SessionLife
<1>2. ASSUME NEW s \in Sessions, RuntimeStep(s) PROVE LifeInv'
  <2>1. ASSUME NEW t \in Sessions PROVE SessionLife(t)'
    <3>1. CASE t = s
      BY <1>1, <1>2, <3>1, RuntimeLife
    <3>2. CASE t # s
      BY <1>1, <1>2, <3>2, RuntimeOthers, SessionKept
    <3> QED
      BY <3>1, <3>2
  <2> QED
    BY <1>2, <2>1, RuntimeFollows DEF LifeInv, SessionLife
<1>3. ASSUME NEW s \in Sessions, WorkerStep(s) PROVE LifeInv'
  <2>1. ASSUME NEW t \in Sessions PROVE SessionLife(t)'
    BY <1>1, <1>3, WorkerAdvances, SessionKept DEF sessionVars
  <2> QED
    BY <1>3, <2>1, WorkerFollows DEF LifeInv, SessionLife
<1>4. ASSUME NEW c \in Calls, CallStep(c) PROVE LifeInv'
  <2>1. ASSUME NEW t \in Sessions PROVE SessionLife(t)'
    BY <1>1, <1>4, CallLeaves, SessionKept
  <2> QED
    BY <1>4, <2>1, CallFollows DEF LifeInv, SessionLife
<1>5. CASE UNCHANGED vars
  BY <1>5 DEF LifeInv, Registered, Logged, Carried, RxOpen, ExecTxOpen, Followed, Places,
     Queued, Forwarded, vars, sessionVars, workerVars, callVars
<1> QED
  BY <1>2, <1>3, <1>4, <1>5 DEF Next

\* What the map, the log and the calls say in each phase of a runtime holds in
\* every reachable state.
THEOREM LifeInvariance == Spec => []LifeInv
  BY LifeInit, LifeNext, Invariance, PTL DEF Spec

\* The events of a session are those of a legal life: one start, "Connected" at
\* most once, an error before an "Error" status, one final status, nothing after.
THEOREM LifecycleOrderHolds == Spec => []LifecycleOrder
<1>1. TypeOK /\ LifeInv => LifecycleOrder
  BY LoggedIsLegal DEF LifeInv, LifecycleOrder
<1> QED
  BY <1>1, TypeCorrect, LifeInvariance, PTL

\* The runtime never sees its command channel without senders.
THEOREM SenderAliveHolds == Spec => []SenderAlive
<1>1. LifeInv => SenderAlive
  BY DEF LifeInv, Registered, SenderAlive
<1> QED
  BY <1>1, LifeInvariance, PTL

\* The logs of the phases before the last have no final status.
LEMMA NotFinalBefore ==
  ASSUME NEW log \in {<<>>} \cup StartedLogs \cup EndedLogs("Error") \cup EndedLogs("Disconnected")
  PROVE  ToSet(log) \cap FinalStatuses = {}
<1>1. ASSUME NEW first \in {<<>>} \cup StartedLogs
      PROVE  first \in Seq(Events) /\ ToSet(first) \cap FinalStatuses = {}
  <2> DEFINE S == {"Connecting", "Connected", "Output"}
  <2>1. /\ <<>> \in Seq(S) /\ <<"Connecting">> \in Seq(S)
        /\ <<"Connecting", "Connected">> \in Seq(S)
        /\ <<"Connecting", "Connected", "Output">> \in Seq(S)
    OBVIOUS
  <2> HIDE DEF S
  <2>2. first \in Seq(S)
    BY <2>1 DEF StartedLogs, UpLogs
  <2>3. S \subseteq Events /\ S \cap FinalStatuses = {}
    BY DEF S, Events, FinalStatuses
  <2>4. first \in Seq(Events)
    BY <2>2, <2>3
  <2> QED
    BY <2>2, <2>3, <2>4, ToSetType
<1>2. ASSUME NEW first \in StartedLogs
      PROVE  ToSet(Append(first, "ErrorEvent")) \cap FinalStatuses = {}
  <2>1. ToSet(Append(first, "ErrorEvent")) = ToSet(first) \cup {"ErrorEvent"}
    BY <1>1, ToSetAppend DEF Events
  <2> QED
    BY <1>1, <2>1 DEF FinalStatuses
<1> QED
  BY <1>1, <1>2 DEF EndedLogs, StartedLogs

\* Who has seen the final status of a session finds no trace of it.
THEOREM AfterFinalStatusHolds == Spec => []AfterFinalStatus
<1>1. IInv /\ LifeInv => AfterFinalStatus
  <2> SUFFICES ASSUME IInv, LifeInv, NEW s \in Sessions,
                      ToSet(events[s]) \cap FinalStatuses # {}
               PROVE  s \notin sessions /\ ~RxOpen(s) /\ commandQ[s] = <<>>
    BY DEF AfterFinalStatus
  <2>1. Logged(s) /\ runtime[s] \in RuntimePhases /\ finalStatus[s] \in {"Error", "Disconnected"}
    BY DEF IInv, TypeOK, LifeInv, FinalStatuses
  <2>2. events[s] \notin {<<>>} \cup StartedLogs \cup EndedLogs("Error") \cup EndedLogs("Disconnected")
    BY NotFinalBefore
  <2>3. runtime[s] = "done"
    BY <2>1, <2>2 DEF RuntimePhases, Logged, ExecTxOpen, StartedLogs
  <2> QED
    BY <2>3 DEF IInv, Open, LifeInv, Registered, RxOpen
<1> QED
  BY <1>1, Invariance, LifeInvariance, PTL

\* A request that waits is where an answer can come from.
THEOREM NoLostRequestHolds == Spec => []NoLostRequest
<1>1. IInv /\ LifeInv => NoLostRequest
  <2> SUFFICES ASSUME IInv, LifeInv, NEW c \in Requests,
                      phase[c] = "waiting", reply[c] = "none",
                      NEW s \in Sessions, s = target[c]
               PROVE  \/ RxOpen(s) /\ (c \in Queued(s) \/ inHand[s] = c)
                      \/ worker[s] \notin {"none", "exited"}
                         /\ (c \in Forwarded(s) \/ job[s] = c)
    BY DEF NoLostRequest, IInv, TypeOK, Calls, Queued, Forwarded
  <2>1. c \in Places(s) /\ c # NoCall
    BY CallsAssumption DEF LifeInv, Followed, Calls
  <2>2. CASE c \in Queued(s) \/ inHand[s] = c
    BY <2>1, <2>2 DEF IInv, Open, Hands, Busy, RxOpen, Queued, ToSet
  <2>3. CASE c \in Forwarded(s) \/ job[s] = c
    BY <2>1, <2>3 DEF IInv, Open, Hands, Working, Forwarded, ToSet
  <2> QED
    BY <2>1, <2>2, <2>3 DEF Places
<1> QED
  BY <1>1, Invariance, LifeInvariance, PTL

-----------------------------------------------------------------------------
(* The steps of the contract, in the variables of the tasks                *)

\* The life of a session in each phase of its runtime.
LEMMA LifeOfPhases ==
  /\ LifeOf("absent") = "absent"
  /\ \A at \in {"connecting", "opening"} : LifeOf(at) = "starting"
  /\ \A at \in {"selecting", "writing", "forwarding", "closing"} : LifeOf(at) = "up"
  /\ \A at \in Over : LifeOf(at) = "over"
  BY DEF LifeOf, Over

\* What the contract knows of the requests.
RequestsKept ==
  \A r \in Requests : target'[r] = target[r] /\ sent'[r] = sent[r] /\ result'[r] = result[r]

LivesKept(S) == \A s \in S : Life(s)' = Life(s)

\* A step that changes neither a life nor what becomes of a request is none.
LEMMA Stutters ==
  ASSUME LivesKept(Sessions), RequestsKept
  PROVE  [Contract!Next]_(Contract!vars)
  BY DEF LivesKept, RequestsKept, Contract!vars, OnRequests

\* A session goes on in its life.
LEMMA AgesStep ==
  ASSUME NEW s \in Sessions, NEW to, Life(s)' = to,
         LivesKept(Sessions \ {s}), RequestsKept
  PROVE  Contract!Ages(s, Life(s), to)
<1> DEFINE l == [t \in Sessions |-> Life(t)]
<1>1. l' = [l EXCEPT ![s] = to]
  BY DEF LivesKept
<1>2. l[s] = Life(s)
  OBVIOUS
<1> HIDE DEF l
<1>3. UNCHANGED <<OnRequests(target), OnRequests(sent), OnRequests(result)>>
  BY DEF RequestsKept, OnRequests
<1> QED
  BY <1>1, <1>2, <1>3 DEF l, Contract!Ages

\* A request is told something.
LEMMA TellStep ==
  ASSUME NEW r \in Requests, NEW a, result[r] = "none", result'[r] = a,
         LivesKept(Sessions),
         \A q \in Requests \ {r} : result'[q] = result[q],
         \A q \in Requests : target'[q] = target[q] /\ sent'[q] = sent[q]
  PROVE  Contract!Tell(r, a)
<1>1. OnRequests(result)' = [OnRequests(result) EXCEPT ![r] = a]
  BY DEF OnRequests
<1>2. OnRequests(result)[r] = "none"
  BY DEF OnRequests
<1>3. UNCHANGED <<[t \in Sessions |-> Life(t)], OnRequests(target), OnRequests(sent)>>
  BY DEF LivesKept, OnRequests
<1> QED
  BY <1>1, <1>2, <1>3 DEF Contract!Tell

\* The start of the tasks is a start of the contract.
LEMMA ContractInit == Init => Contract!Init
<1> SUFFICES ASSUME Init PROVE Contract!Init
  OBVIOUS
<1>1. [s \in Sessions |-> Life(s)] = [s \in Sessions |-> "absent"]
  BY LifeOfPhases DEF Init, Life
<1>2. /\ OnRequests(target) \in [Requests -> Sessions]
      /\ OnRequests(sent) = [r \in Requests |-> 0]
      /\ OnRequests(result) = [r \in Requests |-> "none"]
  BY DEF Init, OnRequests, Calls
<1> QED
  BY <1>1, <1>2 DEF Contract!Init

-----------------------------------------------------------------------------
(* The steps of the tasks                                                  *)

\* A runtime starts, brings up or ends its session, or does what the contract does
\* not see.
LEMMA RuntimeRefines ==
  ASSUME IInv, LifeInv, NEW s \in Sessions, RuntimeStep(s)
  PROVE  [Contract!Next]_(Contract!vars)
<1>1. LivesKept(Sessions \ {s})
  BY RuntimeOthers DEF LivesKept, Life
<1>2. RequestsKept
  BY DEF RequestsKept, RuntimeStep, Connect, Authenticated, ShellReady, ShellOutput, Unregister,
     EmitFinal, ReceiveWrite, ReceiveExec, ReceiveDisconnect, Receive, WriteDone, Forward, Push,
     ConnectFails, OpenFails, WriteFails, Closed, ShellEnds, EndRun, EndRunDropping,
     callVars, workerVars
<1> USE LifeOfPhases DEF Life
<1>3. CASE Connect(s)
  <2>1. Life(s) = "absent" /\ Life(s)' = "starting"
    BY <1>3 DEF Connect, IInv, TypeOK
  <2>2. Contract!Starts(s)
    BY <1>1, <1>2, <2>1, AgesStep DEF Contract!Starts
  <2> QED
    BY <2>2 DEF Contract!Next
<1>4. CASE ShellReady(s)
  <2>1. Life(s) = "starting" /\ Life(s)' = "up"
    BY <1>4 DEF ShellReady, IInv, TypeOK
  <2>2. Contract!ComesUp(s)
    BY <1>1, <1>2, <2>1, AgesStep DEF Contract!ComesUp
  <2> QED
    BY <2>2 DEF Contract!Next
<1>5. CASE ConnectFails(s) \/ OpenFails(s) \/ WriteFails(s) \/ Closed(s) \/ ShellEnds(s)
  <2>1. Life(s) \in {"starting", "up"} /\ Life(s)' = "over"
    BY <1>5 DEF ConnectFails, OpenFails, WriteFails, Closed, ShellEnds, EndRun, EndRunDropping,
       Over, IInv, TypeOK
  <2>2. Contract!Ends(s)
    BY <1>1, <1>2, <2>1, AgesStep DEF Contract!Ends
  <2> QED
    BY <2>2 DEF Contract!Next
<1>6. CASE Authenticated(s) \/ ReceiveWrite(s) \/ ReceiveExec(s) \/ ReceiveDisconnect(s)
           \/ WriteDone(s) \/ Forward(s) \/ ShellOutput(s) \/ Unregister(s) \/ EmitFinal(s)
  <2>1. Life(s)' = Life(s)
    BY <1>6 DEF Authenticated, ReceiveWrite, ReceiveExec, ReceiveDisconnect, Receive,
       WriteDone, Forward, Push, ShellOutput, Unregister, EmitFinal, Over, IInv, TypeOK
  <2>2. LivesKept(Sessions)
    BY <1>1, <2>1 DEF LivesKept
  <2> QED
    BY <1>2, <2>2, Stutters
<1> QED
  BY <1>3, <1>4, <1>5, <1>6 DEF RuntimeStep

\* A worker sends a command, or does what the contract does not see.
LEMMA WorkerRefines ==
  ASSUME IInv, NEW s \in Sessions, WorkerStep(s)
  PROVE  [Contract!Next]_(Contract!vars)
<1>1. LivesKept(Sessions) /\ target' = target /\ result' = result
  BY WorkerAdvances DEF LivesKept, Life, sessionVars, callVars
<1>2. CASE ExecSend(s)
  <2> DEFINE r == job[s]
  <2>1. /\ r \in Requests /\ target[r] = s /\ sent[r] = 0
        /\ result[r] \in {"none", "timeout"}
        /\ runtime[s] \notin {"absent", "connecting", "opening"}
    BY <1>2, CallsAssumption
       DEF ExecSend, IInv, Hands, Working, OnePlace, Pending, Places, Calls
  <2>2. Life(s) \in {"up", "over"}
    BY <2>1, LifeOfPhases DEF IInv, TypeOK, RuntimePhases, Over, Life
  <2>3. OnRequests(sent)' = [OnRequests(sent) EXCEPT ![r] = 1]
    <3>1. sent' = [sent EXCEPT ![r] = 1] /\ sent \in [Calls -> Nat] /\ Requests \subseteq Calls
      BY <1>2, <2>1 DEF ExecSend, IInv, TypeOK, Calls
    <3> HIDE DEF r
    <3> QED
      BY <2>1, <3>1 DEF OnRequests
  <2>4. UNCHANGED <<[t \in Sessions |-> Life(t)], OnRequests(target), OnRequests(result)>>
    BY <1>1 DEF LivesKept, OnRequests
  <2>5. /\ [t \in Sessions |-> Life(t)][OnRequests(target)[r]] \in {"up", "over"}
        /\ OnRequests(sent)[r] = 0 /\ OnRequests(result)[r] \in {"none", "timeout"}
    BY <2>1, <2>2 DEF OnRequests
  <2> HIDE DEF r
  <2>6. Contract!SendCommand(r)
    BY <2>3, <2>4, <2>5 DEF Contract!SendCommand
  <2> QED
    BY <2>1, <2>6 DEF Contract!Next
<1>3. CASE ~ExecSend(s)
  <2>1. sent' = sent
    BY <1>3 DEF WorkerStep, WorkerConnect, Take, Redial, RedialFails, GiveUp, ExecRefused,
       ExecEnd, WorkerExit, Exit
  <2> QED
    BY <1>1, <2>1, Stutters DEF RequestsKept
<1> QED
  BY <1>2, <1>3

\* A call tells its caller what the contract allows, or does what it does not see.
LEMMA CallRefines ==
  ASSUME IInv, LifeInv, NEW c \in Calls, CallStep(c)
  PROVE  [Contract!Next]_(Contract!vars)
<1>1. /\ LivesKept(Sessions) /\ target' = target /\ sent' = sent
      /\ \A d \in Calls \ {c} : result'[d] = result[d]
  <2>1. \A d \in Calls \ {c} : result'[d] = result[d]
    BY DEF CallStep, Lookup, LookUpIn, EmptyInput, Send, SendFails, Collect, Timeout,
       Return, IInv, TypeOK
  <2> QED
    BY <2>1, CallLeaves DEF LivesKept, Life, workerVars
<1>2. Requests \subseteq Calls
  BY DEF Calls
<1>3. CASE c \notin Requests \/ result'[c] = result[c]
  BY <1>1, <1>2, <1>3, Stutters DEF RequestsKept
<1>4. CASE c \in Requests /\ result'[c] # result[c]
  <2> DEFINE s == target[c]
             l == [t \in Sessions |-> Life(t)]
  <2>1. /\ s \in Sessions /\ Followed(c) /\ History(c) /\ Registered(s) /\ Hands(s)
        /\ runtime[s] \in RuntimePhases
    BY <1>4 DEF IInv, LifeInv, TypeOK, Calls
  <2>2. result[c] = "none"
    BY <1>4, <2>1 DEF CallStep, Lookup, LookUpIn, EmptyInput, Send, SendFails, Collect, Timeout,
       History, IInv, TypeOK, CallPhases
  <2>3. Contract!Tell(c, result'[c])
    BY <1>1, <1>2, <1>4, <2>2, TellStep
  <2>4. /\ l[OnRequests(target)[c]] = LifeOf(runtime[s])
        /\ OnRequests(sent)[c] = sent[c]
    BY <1>4, <2>1 DEF OnRequests, Life
  <2> HIDE DEF l
  <2> USE LifeOfPhases DEF Over, RuntimePhases
  <2>5. ASSUME sent[c] = 0, LifeOf(runtime[s]) \in {"absent", "over"}, result'[c] = "notfound"
        PROVE  Contract!NotFound(c)
    BY <2>3, <2>4, <2>5 DEF Contract!NotFound, l
  <2>6. CASE Lookup(c)
    <3>1. s \notin sessions /\ sent[c] = 0 /\ result'[c] = "notfound"
      BY <1>4, <2>1, <2>6 DEF Lookup, LookUpIn, Return, History, IInv, TypeOK, Calls
    <3>2. LifeOf(runtime[s]) \in {"absent", "over"}
      BY <2>1, <3>1 DEF Registered, RxOpen
    <3> QED
      BY <1>4, <2>5, <3>1, <3>2 DEF Contract!Next
  <2>7. CASE SendFails(c)
    <3>1. sent[c] = 0 /\ result'[c] = "notfound"
      BY <1>4, <2>1, <2>7 DEF SendFails, Return, History, IInv, TypeOK, Calls
    <3>2. LifeOf(runtime[s]) \in {"absent", "over"}
      BY <2>1, <2>7 DEF SendFails, RxOpen
    <3> QED
      BY <1>4, <2>5, <3>1, <3>2 DEF Contract!Next
  <2>8. CASE Timeout(c)
    <3>1. c \in Completions /\ result'[c] = "timeout" /\ runtime[s] # "absent"
      BY <1>4, <2>1, <2>8 DEF Timeout, Return, Followed, RxOpen, IInv, TypeOK, Calls
    <3>2. LifeOf(runtime[s]) # "absent"
      BY <2>1, <3>1
    <3>3. Contract!TimedOut(c)
      BY <2>3, <2>4, <3>1, <3>2 DEF Contract!TimedOut, l
    <3> QED
      BY <1>4, <3>3 DEF Contract!Next
  <2>9. CASE Collect(c)
    <3>1. /\ reply[c] \in {"ok", "err", "unreachable", "dropped"}
          /\ result'[c] = IF reply[c] = "dropped" THEN "notfound" ELSE reply[c]
      BY <1>4, <2>1, <2>9 DEF Collect, Return, IInv, TypeOK, Replies, Calls
    <3>2. CASE reply[c] = "dropped"
      <4>1. sent[c] = 0 /\ LifeOf(runtime[s]) = "over"
        BY <2>1, <3>2 DEF History, Followed
      <4> QED
        BY <1>4, <2>5, <3>1, <3>2, <4>1 DEF Contract!Next
    <3>3. CASE reply[c] # "dropped"
      <4>1. runtime[s] \notin {"absent", "connecting", "opening"}
        BY <2>1, <3>1, <3>3 DEF Followed, Hands
      <4>2. LifeOf(runtime[s]) \in {"up", "over"}
        BY <2>1, <4>1
      <4>3. CASE reply[c] = "unreachable"
        <5>1. sent[c] = 0
          BY <2>1, <4>3 DEF History
        <5>2. Contract!Unreachable(c)
          BY <2>3, <2>4, <3>1, <4>2, <4>3, <5>1 DEF Contract!Unreachable, l
        <5> QED
          BY <1>4, <5>2 DEF Contract!Next
      <4>4. CASE reply[c] = "err"
        <5>1. Contract!Failed(c)
          BY <2>3, <2>4, <3>1, <4>2, <4>4 DEF Contract!Failed, l
        <5> QED
          BY <1>4, <5>1 DEF Contract!Next
      <4>5. CASE reply[c] = "ok"
        <5>1. sent[c] = 1
          BY <2>1, <4>5 DEF History
        <5>2. Contract!Succeeded(c)
          BY <2>3, <2>4, <3>1, <4>5, <5>1 DEF Contract!Succeeded
        <5> QED
          BY <1>4, <5>2 DEF Contract!Next
      <4> QED
        BY <3>1, <3>3, <4>3, <4>4, <4>5
    <3> QED
      BY <3>2, <3>3
  <2>10. CASE EmptyInput(c) \/ Send(c)
    BY <1>4, <2>10, CallsAssumption DEF EmptyInput, Send, Writes
  <2> QED
    BY <2>6, <2>7, <2>8, <2>9, <2>10 DEF CallStep
<1> QED
  BY <1>3, <1>4

\* Every step of the system is a step of the contract or none.
LEMMA ContractNext ==
  IInv /\ LifeInv /\ [Next]_vars => [Contract!Next]_(Contract!vars)
<1> SUFFICES ASSUME IInv, LifeInv, [Next]_vars PROVE [Contract!Next]_(Contract!vars)
  OBVIOUS
<1>1. CASE UNCHANGED vars
  <2>1. runtime' = runtime /\ target' = target /\ sent' = sent /\ result' = result
    BY <1>1 DEF vars, sessionVars, workerVars, callVars
  <2> QED
    BY <2>1, Stutters DEF LivesKept, RequestsKept, Life
<1> QED
  BY <1>1, RuntimeRefines, WorkerRefines, CallRefines DEF Next

\* The tasks, channels and oneshots of the code keep the contract of exec, for
\* every number of sessions and calls and every capacity.
THEOREM KeepsContractHolds == Spec => KeepsContract
  BY ContractInit, ContractNext, Invariance, LifeInvariance, PTL
     DEF Spec, KeepsContract, Contract!Spec
=============================================================================
