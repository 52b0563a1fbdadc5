------------------------- MODULE EventStreamProofs -------------------------
(***************************************************************************)
(* Proofs about EventStream for every channel, stream and number of        *)
(* events.                                                                 *)
(***************************************************************************)
EXTENDS EventStream, SequenceLemmas, FiniteSetTheorems

Types ==
  /\ log       \in Seq(Sessions \X Nat)
  /\ state     \in [Streams -> {"absent", "forwarding", "stopped"}]
  /\ next      \in [Streams -> Nat \ {0}]
  /\ sinkOpen  \in [Streams -> BOOLEAN]
  /\ delivered \in [Streams -> Seq(Nat)]
  /\ since     \in [Streams -> Nat \ {0}]

\* A receiver is between its subscription and the end of the log.
Placed(r) ==
  /\ since[r] <= next[r] /\ next[r] <= Len(log) + 1
  /\ state[r] = "absent" => delivered[r] = <<>>

InOrder(seq) == \A i, j \in DOMAIN seq : i < j => seq[i] < seq[j]

\* Every event that a receiver has passed was delivered, or lost for a cause.
Accounted(r) ==
  \A i \in since[r] .. next[r] - 1 :
    i \in ToSet(delivered[r]) \/ i + Capacity <= Len(log) \/ state[r] = "stopped"

Faithful(r) ==
  /\ Placed(r)
  /\ delivered[r] \in Seq(since[r] .. next[r] - 1)
  /\ InOrder(delivered[r])
  /\ Accounted(r)

StreamInv == Types /\ \A r \in Streams : Faithful(r)

-----------------------------------------------------------------------------
(* Sequences of places                                                     *)

\* What was in a range is in a range that ends later.
LEMMA WiderRange ==
  ASSUME NEW low \in Nat, NEW high \in Nat, NEW top \in Nat, high <= top,
         NEW seq \in Seq(low .. high)
  PROVE  seq \in Seq(low .. top)
<1>1. low .. high \subseteq low .. top
  OBVIOUS
<1> DEFINE S == low .. high
           T == low .. top
<1>2. seq \in Seq(S) /\ S \subseteq T
  BY <1>1
<1> HIDE DEF S, T
<1>3. seq \in Seq(T)
  BY <1>2
<1> QED
  BY <1>3 DEF T

\* A place after all others goes to the end of an ordered sequence.
LEMMA AppendInOrder ==
  ASSUME NEW low \in Nat \ {0}, NEW n \in Nat \ {0}, low <= n,
         NEW seq \in Seq(low .. n - 1), InOrder(seq)
  PROVE  /\ Append(seq, n) \in Seq(low .. n)
         /\ InOrder(Append(seq, n))
         /\ ToSet(Append(seq, n)) = ToSet(seq) \cup {n}
<1> DEFINE longer == Append(seq, n)
<1>1. seq \in Seq(low .. n) /\ n \in low .. n
  BY WiderRange
<1>2. longer \in Seq(low .. n) /\ ToSet(longer) = ToSet(seq) \cup {n}
  <2> DEFINE S == low .. n
  <2>1. seq \in Seq(S) /\ n \in S
    BY <1>1
  <2> HIDE DEF S
  <2>2. longer \in Seq(S) /\ ToSet(longer) = ToSet(seq) \cup {n}
    BY <2>1, ToSetAppend
  <2> QED
    BY <2>2 DEF S
<1>3. InOrder(longer)
  <2>1. /\ DOMAIN seq = 1 .. Len(seq) /\ Len(seq) \in Nat
        /\ \A i \in 1 .. Len(seq) : seq[i] \in low .. n - 1
    OBVIOUS
  <2>2. /\ DOMAIN longer = 1 .. Len(seq) + 1
        /\ longer[Len(seq) + 1] = n
        /\ \A i \in 1 .. Len(seq) : longer[i] = seq[i]
    BY <1>1
  <2> HIDE DEF longer
  <2>3. SUFFICES ASSUME NEW i \in DOMAIN longer, NEW j \in DOMAIN longer, i < j
                 PROVE  longer[i] < longer[j]
    BY DEF InOrder
  <2>4. i \in 1 .. Len(seq) /\ longer[i] = seq[i] /\ seq[i] \in low .. n - 1
    BY <2>1, <2>2, <2>3
  <2>5. CASE j = Len(seq) + 1
    BY <2>1, <2>2, <2>4, <2>5
  <2>6. CASE j # Len(seq) + 1
    <3>1. j \in 1 .. Len(seq) /\ longer[j] = seq[j]
      BY <2>1, <2>2, <2>3, <2>6
    <3> QED
      BY <2>1, <2>3, <2>4, <3>1 DEF InOrder
  <2> QED
    BY <2>5, <2>6
<1> QED
  BY <1>2, <1>3

-----------------------------------------------------------------------------
(* The steps                                                               *)

\* A stream that a step leaves alone stays faithful while the log grows.
LEMMA Unmoved ==
  ASSUME StreamInv, NEW r \in Streams, Len(log') \in Nat, Len(log') >= Len(log),
         next'[r] = next[r], since'[r] = since[r], delivered'[r] = delivered[r],
         state'[r] = state[r]
  PROVE  Faithful(r)'
<1>1. Faithful(r) /\ Types
  BY DEF StreamInv
<1>2. next[r] \in Nat /\ since[r] \in Nat /\ Len(log) \in Nat
  BY <1>1 DEF Types
<1>3. Placed(r)'
  BY <1>1, <1>2 DEF Faithful, Placed
<1>4. Accounted(r)'
  BY <1>1, <1>2, CapacityAssumption DEF Faithful, Accounted
<1>5. delivered'[r] \in Seq(since'[r] .. next'[r] - 1) /\ InOrder(delivered'[r])
  BY <1>1 DEF Faithful
<1> QED
  BY <1>3, <1>4, <1>5 DEF Faithful

LEMMA StreamInit == Init => StreamInv
<1> SUFFICES ASSUME Init PROVE StreamInv
  OBVIOUS
<1>1. Types
  BY DEF Init, Types
<1>2. ASSUME NEW r \in Streams PROVE Faithful(r)
  <2>1. Placed(r) /\ Accounted(r)
    BY DEF Init, Placed, Accounted
  <2>2. delivered[r] = <<>> /\ since[r] = 1 /\ next[r] = 1
    BY DEF Init
  <2> QED
    BY <2>1, <2>2 DEF Faithful, InOrder
<1> QED
  BY <1>1, <1>2 DEF StreamInv

\* Counting what a session sent gives a number.
LEMMA SentByCount ==
  ASSUME Types, NEW s \in Sessions
  PROVE  Cardinality(SentBy(s)) \in Nat
<1>1. Len(log) \in Nat /\ DOMAIN log = 1 .. Len(log)
  BY DEF Types
<1>2. IsFiniteSet(1 .. Len(log))
  BY <1>1, FS_Interval
<1>3. IsFiniteSet(SentBy(s))
  BY <1>1, <1>2, FS_Subset DEF SentBy
<1> QED
  BY <1>3, FS_CardinalityType

LEMMA EmitKeeps ==
  ASSUME StreamInv, NEW s \in Sessions, Emit(s)
  PROVE  StreamInv'
<1>1. Types
  BY DEF StreamInv
<1>2. <<s, Cardinality(SentBy(s)) + 1>> \in Sessions \X Nat
  BY <1>1, SentByCount
<1>3. log' \in Seq(Sessions \X Nat) /\ Len(log') = Len(log) + 1 /\ Len(log) \in Nat
  BY <1>1, <1>2 DEF Types, Emit
<1>4. Types'
  BY <1>1, <1>3 DEF Types, Emit
<1>5. \A r \in Streams : Faithful(r)'
  BY <1>3, Unmoved DEF Emit
<1> QED
  BY <1>4, <1>5 DEF StreamInv

LEMMA SubscribeKeeps ==
  ASSUME StreamInv, NEW r \in Streams, Subscribe(r)
  PROVE  StreamInv'
<1>1. Types /\ Faithful(r) /\ Len(log) \in Nat /\ Len(log') = Len(log)
  BY DEF StreamInv, Types, Subscribe
<1>2. Types'
  BY <1>1 DEF Types, Subscribe
<1>3. \A q \in Streams \ {r} : Faithful(q)'
  <2>1. \A q \in Streams \ {r} : next'[q] = next[q] /\ since'[q] = since[q] /\ state'[q] = state[q]
    BY <1>1 DEF Types, Subscribe
  <2> QED
    BY <1>1, <2>1, Unmoved DEF Subscribe
<1>4. Faithful(r)'
  <2>1. since'[r] = Len(log) + 1 /\ next'[r] = Len(log) + 1 /\ state'[r] = "forwarding"
    BY <1>1 DEF Types, Subscribe
  <2>2. delivered'[r] = <<>>
    BY <1>1 DEF Subscribe, Faithful, Placed
  <2>3. Placed(r)' /\ Accounted(r)'
    BY <1>1, <2>1, <2>2 DEF Placed, Accounted
  <2> QED
    BY <2>2, <2>3 DEF Faithful, InOrder
<1> QED
  BY <1>2, <1>3, <1>4 DEF StreamInv

LEMMA CloseSinkKeeps ==
  ASSUME StreamInv, NEW r \in Streams, CloseSink(r)
  PROVE  StreamInv'
<1>1. Types /\ Len(log) \in Nat /\ Len(log') = Len(log)
  BY DEF StreamInv, Types, CloseSink
<1>2. Types'
  BY <1>1 DEF Types, CloseSink
<1>3. \A q \in Streams : Faithful(q)'
  BY <1>1, Unmoved DEF CloseSink
<1> QED
  BY <1>2, <1>3 DEF StreamInv

\* What a receiver does while it forwards disturbs no other.
LEMMA ForwardKeeps ==
  ASSUME StreamInv, NEW r \in Streams, Forward(r)
  PROVE  StreamInv'
<1>1. Types /\ Faithful(r) /\ Len(log) \in Nat /\ Len(log') = Len(log)
  BY DEF StreamInv, Types, Forward
<1>2. next[r] \in Nat \ {0} /\ since[r] \in Nat \ {0} /\ since[r] <= next[r]
  BY <1>1 DEF Types, Faithful, Placed
<1>3. next'[r] = next[r] + 1 /\ since'[r] = since[r]
  BY <1>1 DEF Types, Forward
<1>4. next[r] <= Len(log)
  <2>1. Oldest \in Nat
    BY <1>1, CapacityAssumption DEF Oldest
  <2> QED
    BY <1>1, <1>2, <2>1 DEF Forward
<1>5. \A q \in Streams \ {r} : Faithful(q)'
  <2>1. \A q \in Streams \ {r} : /\ next'[q] = next[q] /\ since'[q] = since[q]
                                 /\ state'[q] = state[q] /\ delivered'[q] = delivered[q]
    BY <1>1 DEF Types, Forward
  <2> QED
    BY <1>1, <2>1, Unmoved
<1>6. next' \in [Streams -> Nat \ {0}]
  BY <1>1, <1>2 DEF Types, Forward
<1>7. CASE sinkOpen[r]
  <2>1. delivered'[r] = Append(delivered[r], next[r]) /\ state'[r] = state[r]
    BY <1>1, <1>7 DEF Types, Forward
  <2>2. /\ delivered'[r] \in Seq(since[r] .. next[r])
        /\ InOrder(delivered'[r])
        /\ ToSet(delivered'[r]) = ToSet(delivered[r]) \cup {next[r]}
    <3>1. delivered[r] \in Seq(since[r] .. next[r] - 1) /\ InOrder(delivered[r])
      BY <1>1 DEF Faithful
    <3> QED
      BY <1>2, <2>1, <3>1, AppendInOrder
  <2>3. Placed(r)'
    BY <1>1, <1>2, <1>3, <1>4, <2>1 DEF Placed, Forward
  <2>4. Accounted(r)'
    <3>1. since'[r] .. next'[r] - 1 = (since[r] .. next[r] - 1) \cup {next[r]}
      BY <1>2, <1>3
    <3> QED
      BY <1>1, <2>1, <2>2, <3>1 DEF Faithful, Accounted
  <2>5. Types'
    <3>1. delivered[r] \in Seq(Nat) /\ Append(delivered[r], next[r]) \in Seq(Nat)
      BY <1>1, <1>2 DEF Types
    <3>2. delivered' = [delivered EXCEPT ![r] = Append(delivered[r], next[r])] /\ state' = state
      BY <1>7 DEF Forward
    <3>3. delivered' \in [Streams -> Seq(Nat)] /\ state' \in [Streams -> {"absent", "forwarding", "stopped"}]
      BY <1>1, <3>1, <3>2 DEF Types
    <3> QED
      BY <1>1, <1>6, <3>3 DEF Types, Forward
  <2>6. next'[r] - 1 = next[r]
    BY <1>2, <1>3
  <2>7. Faithful(r)'
    BY <1>3, <2>2, <2>3, <2>4, <2>6 DEF Faithful
  <2> QED
    BY <1>5, <2>5, <2>7 DEF StreamInv
<1>8. CASE ~sinkOpen[r]
  <2>1. delivered'[r] = delivered[r] /\ state'[r] = "stopped"
    BY <1>1, <1>8 DEF Types, Forward
  <2>2. Placed(r)' /\ Accounted(r)'
    BY <1>1, <1>2, <1>3, <1>4, <2>1 DEF Placed, Accounted, Forward
  <2>3. delivered'[r] \in Seq(since'[r] .. next'[r] - 1) /\ InOrder(delivered'[r])
    <3>1. next'[r] - 1 = next[r] /\ next[r] - 1 \in Nat /\ next[r] - 1 <= next[r]
      BY <1>2, <1>3
    <3>2. delivered[r] \in Seq(since[r] .. next[r])
      BY <1>1, <1>2, <3>1, WiderRange DEF Faithful
    <3> QED
      BY <1>1, <1>3, <2>1, <3>1, <3>2 DEF Faithful
  <2>4. Types'
    <3>1. delivered' = delivered /\ state' = [state EXCEPT ![r] = "stopped"]
      BY <1>8 DEF Forward
    <3>2. state' \in [Streams -> {"absent", "forwarding", "stopped"}]
      BY <1>1, <3>1 DEF Types
    <3> QED
      BY <1>1, <1>6, <3>1, <3>2 DEF Types, Forward
  <2> QED
    BY <1>5, <2>2, <2>3, <2>4 DEF StreamInv, Faithful
<1> QED
  BY <1>7, <1>8

\* A lag skips only events that the channel has already dropped.
LEMMA LaggedKeeps ==
  ASSUME StreamInv, NEW r \in Streams, Lagged(r)
  PROVE  StreamInv'
<1>1. Types /\ Faithful(r) /\ Len(log) \in Nat /\ log' = log
  BY DEF StreamInv, Types, Lagged
<1>2. next[r] \in Nat \ {0} /\ since[r] \in Nat \ {0} /\ since[r] <= next[r]
  BY <1>1 DEF Types, Faithful, Placed
<1>3. Oldest = Len(log) - Capacity + 1 /\ Oldest \in Nat \ {0} /\ next[r] < Oldest
  BY <1>1, <1>2, CapacityAssumption DEF Oldest, Lagged
<1>4. next'[r] = Oldest /\ since'[r] = since[r] /\ delivered'[r] = delivered[r] /\ state'[r] = state[r]
  BY <1>1 DEF Types, Lagged
<1>5. Types'
  BY <1>1, <1>3 DEF Types, Lagged
<1>6. \A q \in Streams \ {r} : Faithful(q)'
  <2>1. \A q \in Streams \ {r} : next'[q] = next[q]
    BY <1>1 DEF Types, Lagged
  <2> QED
    BY <1>1, <2>1, Unmoved DEF Lagged
<1>7. Placed(r)'
  BY <1>1, <1>2, <1>3, <1>4, CapacityAssumption DEF Faithful, Placed
<1>8. Accounted(r)'
  <2>1. SUFFICES ASSUME NEW i \in since[r] .. Oldest - 1, i \notin since[r] .. next[r] - 1
                 PROVE  i + Capacity <= Len(log)
    BY <1>1, <1>4 DEF Faithful, Accounted
  <2> QED
    BY <1>1, <1>2, <1>3, <2>1, CapacityAssumption
<1>9. delivered'[r] \in Seq(since'[r] .. next'[r] - 1) /\ InOrder(delivered'[r])
  <2>1. next[r] - 1 \in Nat /\ Oldest - 1 \in Nat /\ next[r] - 1 <= Oldest - 1
    BY <1>2, <1>3
  <2>2. delivered[r] \in Seq(since[r] .. Oldest - 1)
    BY <1>1, <1>2, <2>1, WiderRange DEF Faithful
  <2> QED
    BY <1>1, <1>4, <2>2 DEF Faithful
<1> QED
  BY <1>5, <1>6, <1>7, <1>8, <1>9 DEF StreamInv, Faithful

\* Every step keeps the streams faithful.
LEMMA StreamNext == StreamInv /\ [Next]_vars => StreamInv'
<1> SUFFICES ASSUME StreamInv, [Next]_vars PROVE StreamInv'
  OBVIOUS
<1>1. ASSUME NEW s \in Sessions, Emit(s) PROVE StreamInv'
  BY <1>1, EmitKeeps
<1>2. ASSUME NEW r \in Streams, Subscribe(r) PROVE StreamInv'
  BY <1>2, SubscribeKeeps
<1>3. ASSUME NEW r \in Streams, CloseSink(r) PROVE StreamInv'
  BY <1>3, CloseSinkKeeps
<1>4. ASSUME NEW r \in Streams, Forward(r) PROVE StreamInv'
  BY <1>4, ForwardKeeps
<1>5. ASSUME NEW r \in Streams, Lagged(r) PROVE StreamInv'
  BY <1>5, LaggedKeeps
<1>6. CASE UNCHANGED vars
  BY <1>6 DEF vars, StreamInv, Types, Faithful, Placed, Accounted
<1> QED
  BY <1>1, <1>2, <1>3, <1>4, <1>5, <1>6 DEF Next

\* In every run the streams stay faithful to the log of their channel.
THEOREM StreamInvariance == Spec => []StreamInv
<1>1. Init => StreamInv
  BY StreamInit
<1>2. StreamInv /\ [Next]_vars => StreamInv'
  BY StreamNext
<1> QED
  BY <1>1, <1>2, PTL DEF Spec

\* For every capacity and any number of sessions, streams and events: a stream
\* hands on what was sent since it subscribed, in order and nothing twice, and
\* misses an event only to an overflow of the channel or to its closed sink
\* (forward_json_stream).
THEOREM LossHasCauseHolds == Spec => []LossHasCause
<1>1. StreamInv => LossHasCause
  BY DEF StreamInv, Faithful, InOrder, Accounted, LossHasCause
<1> QED
  BY <1>1, StreamInvariance, PTL
=============================================================================
