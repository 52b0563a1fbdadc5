----------------------------- MODULE EventStream -----------------------------
(***************************************************************************)
(* One of the three event channels of SessionManager and the tasks that    *)
(* forward it to the streams of the user interface (forward_json_stream).  *)
(* tokio's broadcast channel keeps the last Capacity events for its        *)
(* receivers; one that falls further behind is told that it lagged and     *)
(* goes on with the oldest event that is left.  The senders are static and *)
(* never dropped, so that the channel is never closed.                     *)
(*                                                                         *)
(* Each session sends its events in order; event n of session s is <<s,n>>.*)
(***************************************************************************)
EXTENDS Naturals, SequencesExt

CONSTANTS
  Sessions,
  Streams,     \* calls of terminal_output_stream, ..., each with its sink
  Capacity,    \* of the channel
  MaxEvents    \* bound: events of one session

ASSUME CapacityAssumption == Capacity \in Nat \ {0}

VARIABLES
  log,         \* every event sent on the channel, from the first
  state,       \* "absent", "forwarding" or "stopped": the task of a stream
  next,        \* the place in log of the next event of a stream's receiver
  sinkOpen,    \* the sink of a stream still takes events
  delivered,   \* the places in log of what a stream handed to its sink
  since        \* ghost: where in log a stream subscribed

vars == <<log, state, next, sinkOpen, delivered, since>>

Init ==
  /\ log       = <<>>
  /\ state     = [r \in Streams |-> "absent"]
  /\ next      = [r \in Streams |-> 1]
  /\ sinkOpen  = [r \in Streams |-> TRUE]
  /\ delivered = [r \in Streams |-> <<>>]
  /\ since     = [r \in Streams |-> 1]

SentBy(s) == {i \in DOMAIN log : log[i][1] = s}

\* The first place that the channel still holds.
Oldest == IF Len(log) > Capacity THEN Len(log) - Capacity + 1 ELSE 1

\* Sending never waits; without receivers the event is gone.
Emit(s) ==
  /\ Cardinality(SentBy(s)) < MaxEvents
  /\ log' = Append(log, <<s, Cardinality(SentBy(s)) + 1>>)
  /\ UNCHANGED <<state, next, sinkOpen, delivered, since>>

\* A receiver sees what is sent after it subscribed.
Subscribe(r) ==
  /\ state[r] = "absent"
  /\ state' = [state EXCEPT ![r] = "forwarding"]
  /\ next'  = [next EXCEPT ![r] = Len(log) + 1]
  /\ since' = [since EXCEPT ![r] = Len(log) + 1]
  /\ UNCHANGED <<log, sinkOpen, delivered>>

CloseSink(r) ==
  /\ sinkOpen[r]
  /\ sinkOpen' = [sinkOpen EXCEPT ![r] = FALSE]
  /\ UNCHANGED <<log, state, next, delivered, since>>

\* The next event goes to the sink; a sink that is closed ends the task.
Forward(r) ==
  /\ state[r] = "forwarding" /\ next[r] \in Oldest .. Len(log)
  /\ next' = [next EXCEPT ![r] = @ + 1]
  /\ IF sinkOpen[r]
     THEN delivered' = [delivered EXCEPT ![r] = Append(@, next[r])] /\ UNCHANGED state
     ELSE state' = [state EXCEPT ![r] = "stopped"] /\ UNCHANGED delivered
  /\ UNCHANGED <<log, sinkOpen, since>>

\* Seeded faults: a lag ends the task; it goes on with what is sent next.
LaggedBreaks(r) ==
  /\ state[r] = "forwarding" /\ next[r] < Oldest
  /\ state' = [state EXCEPT ![r] = "stopped"]
  /\ UNCHANGED <<log, next, sinkOpen, delivered, since>>
LaggedResubscribes(r) ==
  /\ state[r] = "forwarding" /\ next[r] < Oldest
  /\ next' = [next EXCEPT ![r] = Len(log) + 1]
  /\ UNCHANGED <<log, state, sinkOpen, delivered, since>>

\* RecvError::Lagged: the receiver moves to the oldest event that is left.
Lagged(r) ==
  /\ state[r] = "forwarding" /\ next[r] < Oldest
  /\ next' = [next EXCEPT ![r] = Oldest]
  /\ UNCHANGED <<log, state, sinkOpen, delivered, since>>

Next ==
  \/ \E s \in Sessions : Emit(s)
  \/ \E r \in Streams : Subscribe(r) \/ CloseSink(r) \/ Forward(r) \/ Lagged(r)

Spec == Init /\ [][Next]_vars

\* The runtime schedules every task that can run.
Fairness == \A r \in Streams : WF_vars(Forward(r) \/ Lagged(r))

FairSpec == Spec /\ Fairness

-----------------------------------------------------------------------------

\* However far a stream falls behind, the user interface sees what was sent after
\* it subscribed, in the order in which it was sent and nothing twice; and it
\* misses an event only if Capacity newer ones were sent before it was forwarded,
\* or if its sink had closed.
LossHasCause ==
  \A r \in Streams :
    /\ delivered[r] \in Seq(since[r] .. next[r] - 1)
    /\ \A i, j \in DOMAIN delivered[r] : i < j => delivered[r][i] < delivered[r][j]
    /\ \A i \in since[r] .. next[r] - 1 :
         i \in ToSet(delivered[r]) \/ i + Capacity <= Len(log) \/ state[r] = "stopped"

\* The last event of the channel -- the final status of the session that ended
\* last -- reaches every stream that subscribed before it and stays open, lag
\* or not, once no more events follow.
LastArrives ==
  \A r \in Streams :
    [](state[r] = "forwarding" /\ since[r] <= Len(log)
         => <>(Len(log) \in ToSet(delivered[r]) \/ ~sinkOpen[r]))
=============================================================================
