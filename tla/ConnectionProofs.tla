-------------------------- MODULE ConnectionProofs --------------------------
(***************************************************************************)
(* Proofs about ChannelOutput and Connection for any amount of output.     *)
(***************************************************************************)
EXTENDS Connection, SequenceLemmas, FiniteSetTheorems

DataKinds == {"Data", "ExtendedData"}
OnceKinds == {"Eof", "ExitStatus", "ExitSignal", "Failure"}
Kinds     == DataKinds \cup OnceKinds \cup {"Close"}

\* The places of output among the first n messages.
DataIn(messages, n) == {i \in 1 .. n : messages[i][1] \in DataKinds}

Types ==
  /\ reader  \in {"exec", "shell"}
  /\ process \in {"zero", "nonzero", "signal", "refused"}
  /\ sent    \in Seq(Kinds \X Nat)
  /\ taken   \in 0 .. Len(sent)
  /\ lost    \in BOOLEAN
  /\ output  \in Seq(Nat)
  /\ status  \in {"none", process}
  /\ result  \in {"none", "ok", "err"}

\* The server sends the end of file and the report once, numbers its output,
\* ends it with the end of file, and closes after the report, last of all.
Orderly ==
  /\ \A i, j \in 1 .. Len(sent) : sent[i][1] = sent[j][1] /\ sent[i][1] \in OnceKinds => i = j
  /\ \A i, j \in 1 .. Len(sent) : sent[i][1] \in DataKinds /\ sent[j][1] = "Eof" => i < j
  /\ \A i \in 1 .. Len(sent) : sent[i][1] \in DataKinds => sent[i][2] = Cardinality(DataIn(sent, i))
  /\ HasSent("Close") => HasSent(Report[process]) /\ sent[Len(sent)][1] = "Close"
  /\ \A i \in 1 .. Len(sent) : sent[i][1] = "Close" => i = Len(sent)

\* The reader has the output of the messages that it took, ...
Collects ==
  /\ Len(output) = Cardinality(DataIn(sent, taken))
  /\ \A i \in 1 .. Len(output) : output[i] = i

\* ... run_exec the status among them, ...
Remembers ==
  reader = "exec" => \A i \in 1 .. taken : sent[i][1] = "ExitStatus" => status = process

\* ... and it ends for a reason, with the verdict on that status.
Stops ==
  result # "none" =>
    /\ result = Verdict
    /\ \/ lost
       \/ taken > 0 /\ (reader = "exec" => sent[taken][1] \in {"Eof", "Close"})

ChannelInv == Types /\ Orderly /\ Collects /\ Remembers /\ Stops

-----------------------------------------------------------------------------
(* Output among messages                                                   *)

\* The output among the first messages can be counted, and the next message adds
\* one to the count if it is output.
LEMMA DataInNext ==
  ASSUME NEW messages, NEW n \in Nat
  PROVE  /\ IsFiniteSet(DataIn(messages, n)) /\ Cardinality(DataIn(messages, n)) \in Nat
         /\ Cardinality(DataIn(messages, n + 1)) =
              Cardinality(DataIn(messages, n)) + IF messages[n + 1][1] \in DataKinds THEN 1 ELSE 0
<1> DEFINE few  == DataIn(messages, n)
           more == DataIn(messages, n + 1)
<1>1. IsFiniteSet(few) /\ Cardinality(few) \in Nat
  <2>1. IsFiniteSet(1 .. n)
    BY FS_Interval
  <2>2. few \in SUBSET (1 .. n)
    BY DEF DataIn
  <2> HIDE DEF few
  <2>3. IsFiniteSet(few)
    BY <2>1, <2>2, FS_Subset
  <2> QED
    BY <2>3, FS_CardinalityType
<1>2. n + 1 \notin few /\ 1 .. n + 1 = (1 .. n) \cup {n + 1}
  BY DEF DataIn
<1>3. CASE messages[n + 1][1] \in DataKinds
  <2>1. more = few \cup {n + 1}
    BY <1>2, <1>3 DEF DataIn
  <2> HIDE DEF few, more
  <2>2. Cardinality(more) = Cardinality(few) + 1
    BY <1>1, <1>2, <2>1, FS_AddElement
  <2> QED
    BY <1>1, <1>3, <2>2 DEF few, more
<1>4. CASE messages[n + 1][1] \notin DataKinds
  <2>1. more = few
    BY <1>2, <1>4 DEF DataIn
  <2> QED
    BY <1>1, <1>4, <2>1
<1> QED
  BY <1>3, <1>4

\* It depends on those messages alone.
LEMMA DataInSame ==
  ASSUME NEW first, NEW second, NEW n \in Nat, \A i \in 1 .. n : first[i] = second[i]
  PROVE  DataIn(first, n) = DataIn(second, n)
  BY DEF DataIn

\* All output that was sent.
LEMMA DataSentIs ==
  ASSUME Types
  PROVE  DataSent = Cardinality(DataIn(sent, Len(sent)))
<1>1. DOMAIN sent = 1 .. Len(sent)
  BY DEF Types
<1> QED
  BY <1>1 DEF DataSent, DataIn, DataKinds

-----------------------------------------------------------------------------
(* The server                                                              *)

\* What a send leaves as it was.
LEMMA SendAdds ==
  ASSUME ChannelInv, NEW m \in Kinds \X Nat, Sends(m)
  PROVE  /\ Len(sent) \in Nat /\ Len(sent') = Len(sent) + 1
         /\ sent' \in Seq(Kinds \X Nat)
         /\ sent'[Len(sent) + 1] = m
         /\ \A i \in 1 .. Len(sent) : sent'[i] = sent[i]
         /\ \A i \in 1 .. Len(sent) : sent[i][1] # "Close"
         /\ \A n \in 0 .. Len(sent) : DataIn(sent', n) = DataIn(sent, n)
<1>1. sent \in Seq(Kinds \X Nat) /\ sent' = Append(sent, m)
  BY DEF ChannelInv, Types, Sends
<1> DEFINE S == Kinds \X Nat
<1>2. m \in S /\ sent \in Seq(S)
  BY <1>1
<1> HIDE DEF S
<1>3. /\ Len(sent) \in Nat /\ Len(sent') = Len(sent) + 1
      /\ sent' \in Seq(S)
      /\ sent'[Len(sent) + 1] = m
      /\ \A i \in 1 .. Len(sent) : sent'[i] = sent[i]
  BY <1>1, <1>2, AppendProperties
<1>4. \A i \in 1 .. Len(sent) : sent[i][1] # "Close"
  BY <1>2 DEF Sends, HasSent
<1>5. ASSUME NEW n \in 0 .. Len(sent)  PROVE DataIn(sent', n) = DataIn(sent, n)
  <2>1. n \in Nat /\ \A i \in 1 .. n : sent'[i] = sent[i]
    BY <1>3
  <2> QED
    BY <2>1, DataInSame
<1> QED
  BY <1>3, <1>4, <1>5 DEF S

\* The reader has not changed, and what it took is as it was.
LEMMA SendLeavesReader ==
  ASSUME ChannelInv, NEW m \in Kinds \X Nat, Sends(m)
  PROVE  Types' /\ Collects' /\ Remembers' /\ Stops'
<1>1. /\ Len(sent) \in Nat /\ Len(sent') = Len(sent) + 1 /\ sent' \in Seq(Kinds \X Nat)
      /\ \A i \in 1 .. Len(sent) : sent'[i] = sent[i]
      /\ \A n \in 0 .. Len(sent) : DataIn(sent', n) = DataIn(sent, n)
  BY SendAdds
<1>2. UNCHANGED <<reader, process, taken, lost, output, status, result>>
  BY DEF Sends
<1>3. taken \in 0 .. Len(sent) /\ \A i \in 1 .. taken : sent'[i] = sent[i]
  BY <1>1 DEF ChannelInv, Types
<1>4. Types'
  BY <1>1, <1>2, <1>3 DEF ChannelInv, Types
<1>5. Collects'
  BY <1>1, <1>2, <1>3 DEF ChannelInv, Collects
<1>6. Remembers'
  BY <1>2, <1>3 DEF ChannelInv, Remembers
<1>7. Stops'
  <2>1. taken > 0 => sent'[taken] = sent[taken]
    BY <1>1, <1>3
  <2>2. Verdict' = Verdict
    BY <1>2 DEF Verdict
  <2> QED
    BY <1>2, <2>1, <2>2 DEF ChannelInv, Stops
<1> QED
  BY <1>4, <1>5, <1>6, <1>7

LEMMA SendDataKeeps == ChannelInv /\ SendData => ChannelInv'
<1> SUFFICES ASSUME ChannelInv, SendData PROVE ChannelInv'
  OBVIOUS
<1> DEFINE m == Data(DataSent + 1)
           n == Len(sent)
<1>1. Types /\ Orderly /\ n \in Nat
  BY DEF ChannelInv, Types
<1>2. DataSent = Cardinality(DataIn(sent, n)) /\ DataSent \in Nat
  BY <1>1, DataSentIs, DataInNext
<1>3. m[1] \in DataKinds /\ m[2] = DataSent + 1 /\ m \in Kinds \X Nat
  BY <1>2 DEF Data, DataKinds, Kinds
<1>4. Sends(m) /\ \A i \in 1 .. n : sent[i][1] # "Eof"
  BY <1>1 DEF SendData, HasSent, Types
<1> HIDE DEF m
<1>5. /\ Len(sent') = n + 1 /\ sent'[n + 1] = m
      /\ \A i \in 1 .. n : sent'[i] = sent[i]
      /\ \A i \in 1 .. n : sent[i][1] # "Close"
      /\ \A i \in 0 .. n : DataIn(sent', i) = DataIn(sent, i)
  BY <1>3, <1>4, SendAdds
<1>6. DOMAIN sent' = 1 .. n + 1 /\ 1 .. n + 1 = (1 .. n) \cup {n + 1}
  <2>1. sent' \in Seq(Kinds \X Nat)
    BY <1>3, <1>4, SendAdds
  <2> QED
    BY <1>1, <1>5, <2>1
<1>7. m[1] \notin OnceKinds \cup {"Close"}
  BY <1>3 DEF DataKinds, OnceKinds
<1>8. Orderly'
  <2>1. \A i, j \in 1 .. n + 1 : sent'[i][1] = sent'[j][1] /\ sent'[i][1] \in OnceKinds => i = j
    BY <1>1, <1>5, <1>6, <1>7 DEF Orderly
  <2>2. \A i, j \in 1 .. n + 1 : sent'[i][1] \in DataKinds /\ sent'[j][1] = "Eof" => i < j
    BY <1>4, <1>5, <1>6, <1>7 DEF OnceKinds
  <2>3. \A i \in 1 .. n + 1 : sent'[i][1] \in DataKinds => sent'[i][2] = Cardinality(DataIn(sent', i))
    <3>1. Cardinality(DataIn(sent', n + 1)) = Cardinality(DataIn(sent', n)) + 1
      BY <1>1, <1>3, <1>5, DataInNext
    <3>2. sent'[n + 1][2] = Cardinality(DataIn(sent', n + 1))
      BY <1>1, <1>2, <1>3, <1>5, <3>1
    <3> QED
      BY <1>1, <1>5, <1>6, <3>2 DEF Orderly
  <2>4. \A i \in 1 .. n + 1 : sent'[i][1] # "Close"
    BY <1>5, <1>6, <1>7
  <2>5. ~HasSent("Close")'
    BY <1>6, <2>4 DEF HasSent
  <2> QED
    BY <1>5, <2>1, <2>2, <2>3, <2>4, <2>5 DEF Orderly
<1> QED
  BY <1>3, <1>4, <1>8, SendLeavesReader DEF ChannelInv

\* A message that is sent once, not output and not the close.
LEMMA SendOnceKeeps ==
  ASSUME ChannelInv, NEW kind \in OnceKinds, ~HasSent(kind), Sends(<<kind, 0>>)
  PROVE  ChannelInv'
<1> DEFINE m == <<kind, 0>>
           n == Len(sent)
<1>1. Types /\ Orderly /\ n \in Nat
  BY DEF ChannelInv, Types
<1>2. m \in Kinds \X Nat /\ m[1] = kind /\ kind # "Close" /\ kind \notin DataKinds
  BY DEF Kinds, OnceKinds, DataKinds
<1>3. Sends(m) /\ \A i \in 1 .. n : sent[i][1] # kind
  BY <1>1 DEF HasSent, Types
<1> HIDE DEF m
<1>4. /\ Len(sent') = n + 1 /\ sent'[n + 1] = m
      /\ \A i \in 1 .. n : sent'[i] = sent[i]
      /\ \A i \in 1 .. n : sent[i][1] # "Close"
      /\ \A i \in 0 .. n : DataIn(sent', i) = DataIn(sent, i)
      /\ sent' \in Seq(Kinds \X Nat)
  BY <1>2, <1>3, SendAdds
<1>5. DOMAIN sent' = 1 .. n + 1 /\ 1 .. n + 1 = (1 .. n) \cup {n + 1}
  BY <1>1, <1>4
<1>6. Orderly'
  <2>1. \A i, j \in 1 .. n + 1 : sent'[i][1] = sent'[j][1] /\ sent'[i][1] \in OnceKinds => i = j
    BY <1>1, <1>2, <1>3, <1>4, <1>5 DEF Orderly
  <2>2. \A i, j \in 1 .. n + 1 : sent'[i][1] \in DataKinds /\ sent'[j][1] = "Eof" => i < j
    <3>1. ASSUME NEW i \in 1 .. n + 1, sent'[i][1] \in DataKinds
          PROVE  i \in 1 .. n /\ sent[i][1] \in DataKinds
      BY <1>2, <1>4, <1>5, <3>1
    <3>2. ASSUME NEW i \in 1 .. n, NEW j \in 1 .. n + 1, sent[i][1] \in DataKinds, sent'[j][1] = "Eof"
          PROVE  i < j
      <4>1. CASE j \in 1 .. n
        <5>1. sent[j][1] = "Eof"
          BY <1>4, <3>2, <4>1
        <5> QED
          BY <1>1, <3>2, <4>1, <5>1 DEF Orderly
      <4>2. CASE j = n + 1
        BY <1>1, <4>2
      <4> QED
        BY <1>5, <4>1, <4>2
    <3> QED
      BY <3>1, <3>2
  <2>3. \A i \in 1 .. n + 1 : sent'[i][1] \in DataKinds => sent'[i][2] = Cardinality(DataIn(sent', i))
    BY <1>1, <1>2, <1>4, <1>5 DEF Orderly
  <2>4. \A i \in 1 .. n + 1 : sent'[i][1] # "Close"
    BY <1>2, <1>4, <1>5
  <2>5. ~HasSent("Close")'
    BY <1>5, <2>4 DEF HasSent
  <2> QED
    BY <1>4, <2>1, <2>2, <2>3, <2>4, <2>5 DEF Orderly
<1> QED
  BY <1>2, <1>3, <1>6, SendLeavesReader DEF ChannelInv

LEMMA SendCloseKeeps == ChannelInv /\ SendClose => ChannelInv'
<1> SUFFICES ASSUME ChannelInv, SendClose PROVE ChannelInv'
  OBVIOUS
<1> DEFINE m == <<"Close", 0>>
           n == Len(sent)
<1>1. Types /\ Orderly /\ n \in Nat
  BY DEF ChannelInv, Types
<1>2. m \in Kinds \X Nat /\ m[1] = "Close" /\ "Close" \notin DataKinds \cup OnceKinds
  BY DEF Kinds, OnceKinds, DataKinds
<1>3. Sends(m) /\ HasSent(Report[process]) /\ process' = process
  BY DEF SendClose, Sends
<1> HIDE DEF m
<1>4. /\ Len(sent') = n + 1 /\ sent'[n + 1] = m
      /\ \A i \in 1 .. n : sent'[i] = sent[i]
      /\ \A i \in 1 .. n : sent[i][1] # "Close"
      /\ \A i \in 0 .. n : DataIn(sent', i) = DataIn(sent, i)
      /\ sent' \in Seq(Kinds \X Nat)
  BY <1>2, <1>3, SendAdds
<1>5. DOMAIN sent' = 1 .. n + 1 /\ DOMAIN sent = 1 .. n /\ 1 .. n + 1 = (1 .. n) \cup {n + 1}
  BY <1>1, <1>4 DEF Types
<1>6. Orderly'
  <2>1. \A i, j \in 1 .. n + 1 : sent'[i][1] = sent'[j][1] /\ sent'[i][1] \in OnceKinds => i = j
    BY <1>1, <1>2, <1>4, <1>5 DEF Orderly
  <2>2. \A i, j \in 1 .. n + 1 : sent'[i][1] \in DataKinds /\ sent'[j][1] = "Eof" => i < j
    <3>1. ASSUME NEW i \in 1 .. n + 1, sent'[i][1] \in DataKinds \cup {"Eof"}
          PROVE  i \in 1 .. n /\ sent'[i] = sent[i]
      BY <1>2, <1>4, <1>5, <3>1 DEF OnceKinds
    <3> QED
      BY <1>1, <3>1 DEF Orderly
  <2>3. \A i \in 1 .. n + 1 : sent'[i][1] \in DataKinds => sent'[i][2] = Cardinality(DataIn(sent', i))
    <3>1. ASSUME NEW i \in 1 .. n + 1, sent'[i][1] \in DataKinds
          PROVE  i \in 1 .. n /\ sent'[i] = sent[i] /\ DataIn(sent', i) = DataIn(sent, i)
      BY <1>2, <1>4, <1>5, <3>1
    <3> QED
      BY <1>1, <3>1 DEF Orderly
  <2>4. \A i \in 1 .. n + 1 : sent'[i][1] = "Close" => i = n + 1
    BY <1>4, <1>5
  <2>5. HasSent(Report[process])'
    BY <1>3, <1>4, <1>5 DEF HasSent
  <2> QED
    BY <1>2, <1>4, <2>1, <2>2, <2>3, <2>4, <2>5 DEF Orderly
<1> QED
  BY <1>2, <1>3, <1>6, SendLeavesReader DEF ChannelInv

\* Whatever the server does.
LEMMA ServerKeeps == ChannelInv /\ Server => ChannelInv'
<1> SUFFICES ASSUME ChannelInv, Server PROVE ChannelInv'
  OBVIOUS
<1>1. CASE SendData
  BY <1>1, SendDataKeeps
<1>2. CASE SendEof
  <2>1. "Eof" \in OnceKinds
    BY DEF OnceKinds
  <2> QED
    BY <1>2, <2>1, SendOnceKeeps DEF SendEof
<1>3. CASE SendReport
  <2>1. Report[process] \in OnceKinds
    BY DEF ChannelInv, Types, Report, OnceKinds
  <2> QED
    BY <1>3, <2>1, SendOnceKeeps DEF SendReport
<1>4. CASE SendClose
  BY <1>4, SendCloseKeeps
<1>5. CASE Lose
  <2>1. UNCHANGED <<reader, process, sent, taken, output, status, result>> /\ lost' = TRUE
    BY <1>5 DEF Lose
  <2>2. Types' /\ Collects' /\ Remembers'
    BY <2>1 DEF ChannelInv, Types, Collects, Remembers
  <2>3. Orderly'
    BY <2>1 DEF ChannelInv, Orderly, HasSent
  <2>4. Stops'
    BY <2>1 DEF ChannelInv, Stops, Verdict
  <2> QED
    BY <2>2, <2>3, <2>4 DEF ChannelInv
<1> QED
  BY <1>1, <1>2, <1>3, <1>4, <1>5 DEF Server

-----------------------------------------------------------------------------
(* The reader                                                              *)

\* The message that a reader takes, and what it changes about the output that it
\* is to have.
LEMMA TakesNext ==
  ASSUME ChannelInv, NEW kinds \in SUBSET Kinds, Waits(kinds), Takes
  PROVE  /\ taken \in Nat /\ taken + 1 \in 1 .. Len(sent)
         /\ taken' = taken + 1 /\ taken' \in 0 .. Len(sent)
         /\ 1 .. taken' = (1 .. taken) \cup {taken + 1}
         /\ sent[taken + 1] \in Kinds \X Nat /\ sent[taken + 1][1] \in kinds
         /\ Cardinality(DataIn(sent, taken + 1)) =
              Cardinality(DataIn(sent, taken))
                + IF sent[taken + 1][1] \in DataKinds THEN 1 ELSE 0
<1>1. taken \in Nat /\ taken + 1 \in 1 .. Len(sent) /\ sent \in Seq(Kinds \X Nat)
  BY DEF ChannelInv, Types, Waits
<1>2. sent[taken + 1] \in Kinds \X Nat
  BY <1>1
<1> QED
  BY <1>1, <1>2, DataInNext DEF Waits, Message, Takes

LEMMA TakeDataKeeps == ChannelInv /\ TakeData => ChannelInv'
<1> SUFFICES ASSUME ChannelInv, TakeData PROVE ChannelInv'
  OBVIOUS
<1>1. Types /\ Orderly /\ Collects /\ Remembers /\ result = "none"
  BY DEF ChannelInv, TakeData, Waits
<1>2. DataKinds \in SUBSET Kinds /\ Waits(DataKinds) /\ Takes
  BY DEF TakeData, DataKinds, Kinds
<1>3. /\ taken \in Nat /\ taken + 1 \in 1 .. Len(sent) /\ taken' = taken + 1
      /\ taken' \in 0 .. Len(sent) /\ 1 .. taken' = (1 .. taken) \cup {taken + 1}
      /\ sent[taken + 1] \in Kinds \X Nat /\ sent[taken + 1][1] \in DataKinds
      /\ Cardinality(DataIn(sent, taken + 1)) = Cardinality(DataIn(sent, taken)) + 1
  BY <1>2, TakesNext
<1>4. UNCHANGED <<reader, process, sent, lost, status, result>>
  BY DEF TakeData
<1> DEFINE k == sent[taken + 1][2]
<1>5. /\ output' = Append(output, k) /\ k \in Nat /\ k = Len(output) + 1
      /\ Len(output) \in Nat /\ output \in Seq(Nat)
  BY <1>1, <1>3 DEF TakeData, Message, Orderly, Collects, Types
<1> HIDE DEF k
<1>6. /\ output' \in Seq(Nat) /\ Len(output') = Len(output) + 1 /\ output'[Len(output) + 1] = k
      /\ \A i \in 1 .. Len(output) : output'[i] = output[i]
  BY <1>5, AppendProperties
<1>7. Types'
  BY <1>1, <1>3, <1>4, <1>6 DEF Types
<1>8. Collects'
  <2>1. Len(output') = Cardinality(DataIn(sent, taken + 1))
    BY <1>1, <1>3, <1>6 DEF Collects
  <2>2. \A i \in 1 .. Len(output') : output'[i] = i
    BY <1>1, <1>5, <1>6 DEF Collects
  <2> QED
    BY <1>3, <1>4, <2>1, <2>2 DEF Collects
<1>9. Remembers'
  <2>1. sent[taken + 1][1] # "ExitStatus"
    BY <1>3 DEF DataKinds
  <2> QED
    BY <1>1, <1>3, <1>4, <2>1 DEF Remembers
<1>10. Orderly' /\ Stops'
  BY <1>1, <1>4 DEF Orderly, HasSent, Stops
<1> QED
  BY <1>7, <1>8, <1>9, <1>10 DEF ChannelInv

\* Of the other messages only what they do to the status and the result counts.
LEMMA TakesNoData ==
  ASSUME ChannelInv, NEW kinds \in SUBSET (Kinds \ DataKinds), Waits(kinds), Takes,
         UNCHANGED <<reader, process, sent, lost, output>>,
         status' \in {"none", process}, result' \in {"none", "ok", "err"}
  PROVE  Types' /\ Orderly' /\ Collects'
<1>1. Types /\ Orderly /\ Collects
  BY DEF ChannelInv
<1>2. kinds \in SUBSET Kinds
  OBVIOUS
<1>3. /\ taken' = taken + 1 /\ taken' \in 0 .. Len(sent)
      /\ sent[taken + 1][1] \in kinds /\ Cardinality(DataIn(sent, taken)) \in Nat
      /\ Cardinality(DataIn(sent, taken + 1)) =
           Cardinality(DataIn(sent, taken))
             + IF sent[taken + 1][1] \in DataKinds THEN 1 ELSE 0
  <2>1. taken \in Nat
    BY <1>1 DEF Types
  <2> QED
    BY <1>2, <2>1, TakesNext, DataInNext
<1>4. Cardinality(DataIn(sent, taken + 1)) = Cardinality(DataIn(sent, taken))
  BY <1>3
<1>5. Types'
  BY <1>1, <1>3 DEF Types
<1>6. Collects'
  BY <1>1, <1>3, <1>4 DEF Collects
<1>7. Orderly'
  BY <1>1 DEF Orderly, HasSent
<1> QED
  BY <1>5, <1>6, <1>7

LEMMA TakeStatusKeeps == ChannelInv /\ TakeStatus => ChannelInv'
<1> SUFFICES ASSUME ChannelInv, TakeStatus PROVE ChannelInv'
  OBVIOUS
<1> DEFINE kinds == {"ExitStatus"}
<1>1. kinds \in SUBSET (Kinds \ DataKinds) /\ kinds \in SUBSET Kinds /\ Waits(kinds) /\ Takes
  BY DEF TakeStatus, Kinds, OnceKinds, DataKinds
<1> HIDE DEF kinds
<1>2. taken' = taken + 1 /\ taken \in Nat /\ 1 .. taken' = (1 .. taken) \cup {taken + 1}
  BY <1>1, TakesNext
<1>3. Types /\ Remembers /\ result = "none"
  BY <1>1 DEF ChannelInv, Waits
<1>4. CASE reader = "exec"
  <2>1. UNCHANGED <<reader, process, sent, lost, output, result>> /\ status' = process
    BY <1>4 DEF TakeStatus
  <2>2. Types' /\ Orderly' /\ Collects'
    BY <1>1, <1>3, <2>1, TakesNoData
  <2>3. Remembers' /\ Stops'
    BY <1>3, <2>1 DEF Remembers, Stops
  <2> QED
    BY <2>2, <2>3 DEF ChannelInv
<1>5. CASE reader # "exec"
  <2>1. UNCHANGED <<reader, process, sent, lost, output, status>> /\ result' = Verdict
    BY <1>5 DEF TakeStatus, Ends
  <2>2. result' \in {"none", "ok", "err"} /\ status' \in {"none", process}
    BY <1>3, <2>1 DEF Types, Verdict
  <2>3. Types' /\ Orderly' /\ Collects'
    BY <1>1, <2>1, <2>2, TakesNoData
  <2>4. Remembers' /\ Stops'
    BY <1>2, <1>5, <2>1 DEF Remembers, Stops, Verdict
  <2> QED
    BY <2>3, <2>4 DEF ChannelInv
<1> QED
  BY <1>4, <1>5

LEMMA TakeOtherKeeps == ChannelInv /\ TakeOther => ChannelInv'
<1> SUFFICES ASSUME ChannelInv, TakeOther PROVE ChannelInv'
  OBVIOUS
<1> DEFINE kinds == {"ExitSignal", "Failure"}
<1>1. kinds \in SUBSET (Kinds \ DataKinds) /\ kinds \in SUBSET Kinds /\ Waits(kinds) /\ Takes
  BY DEF TakeOther, Kinds, OnceKinds, DataKinds
<1>2. "ExitStatus" \notin kinds
  OBVIOUS
<1> HIDE DEF kinds
<1>3. Types /\ Remembers /\ result = "none"
  BY <1>1 DEF ChannelInv, Waits
<1>4. UNCHANGED <<reader, process, sent, lost, output, status, result>>
  BY DEF TakeOther
<1>5. Types' /\ Orderly' /\ Collects'
  BY <1>1, <1>3, <1>4, TakesNoData DEF Types
<1>6. Remembers'
  <2>1. taken' = taken + 1 /\ 1 .. taken' = (1 .. taken) \cup {taken + 1} /\ sent[taken + 1][1] \in kinds
    BY <1>1, TakesNext
  <2> QED
    BY <1>2, <1>3, <1>4, <2>1 DEF Remembers
<1>7. Stops'
  BY <1>3, <1>4 DEF Stops
<1> QED
  BY <1>5, <1>6, <1>7 DEF ChannelInv

LEMMA TakeEndKeeps == ChannelInv /\ TakeEnd => ChannelInv'
<1> SUFFICES ASSUME ChannelInv, TakeEnd PROVE ChannelInv'
  OBVIOUS
<1> DEFINE kinds == {"Eof", "Close"}
<1>1. kinds \in SUBSET (Kinds \ DataKinds) /\ kinds \in SUBSET Kinds /\ Waits(kinds) /\ Takes
  BY DEF TakeEnd, Kinds, OnceKinds, DataKinds
<1>2. "ExitStatus" \notin kinds
  OBVIOUS
<1>3. Types /\ Remembers
  BY DEF ChannelInv
<1>4. UNCHANGED <<reader, process, sent, lost, output, status>> /\ result' = Verdict
  BY DEF TakeEnd, Ends
<1>5. /\ taken \in Nat /\ taken' = taken + 1 /\ 1 .. taken' = (1 .. taken) \cup {taken + 1}
      /\ sent[taken + 1][1] \in kinds
  BY <1>1, TakesNext
<1>6. Stops'
  BY <1>4, <1>5 DEF Stops, Verdict
<1> HIDE DEF kinds
<1>7. result' \in {"none", "ok", "err"} /\ status' \in {"none", process}
  BY <1>3, <1>4 DEF Types, Verdict
<1>8. Types' /\ Orderly' /\ Collects'
  BY <1>1, <1>4, <1>7, TakesNoData
<1>9. Remembers'
  BY <1>2, <1>3, <1>4, <1>5 DEF Remembers
<1> QED
  BY <1>6, <1>8, <1>9 DEF ChannelInv

LEMMA TakeNoneKeeps == ChannelInv /\ TakeNone => ChannelInv'
<1> SUFFICES ASSUME ChannelInv, TakeNone PROVE ChannelInv'
  OBVIOUS
<1>1. UNCHANGED <<reader, process, sent, taken, lost, output, status>> /\ result' = Verdict /\ lost
  BY DEF TakeNone, Ends
<1>2. Types'
  BY <1>1 DEF ChannelInv, Types, Verdict
<1>3. Orderly' /\ Collects' /\ Remembers'
  BY <1>1 DEF ChannelInv, Orderly, HasSent, Collects, Remembers
<1>4. Stops'
  BY <1>1 DEF Stops, Verdict
<1> QED
  BY <1>2, <1>3, <1>4 DEF ChannelInv

LEMMA ChannelInit == Init => ChannelInv
<1> SUFFICES ASSUME Init PROVE ChannelInv
  OBVIOUS
<1>1. Types
  <2>1. process \in {"zero", "nonzero", "signal", "refused"}
    BY DEF Init, Report
  <2>2. sent \in Seq(Kinds \X Nat) /\ output \in Seq(Nat) /\ taken \in 0 .. Len(sent)
    BY DEF Init
  <2> QED
    BY <2>1, <2>2 DEF Init, Types
<1>2. Orderly /\ Remembers /\ Stops
  BY DEF Init, Orderly, HasSent, Remembers, Stops
<1>3. Collects
  <2>1. DataIn(sent, taken) = {}
    BY DEF Init, DataIn
  <2> QED
    BY <2>1, FS_EmptySet DEF Init, Collects
<1> QED
  BY <1>1, <1>2, <1>3 DEF ChannelInv

\* Every step of either side keeps what holds between them.
LEMMA ChannelNext == ChannelInv /\ [Next]_vars => ChannelInv'
<1> SUFFICES ASSUME ChannelInv, [Next]_vars PROVE ChannelInv'
  OBVIOUS
<1>1. CASE Server
  BY <1>1, ServerKeeps
<1>2. CASE Client
  BY <1>2, TakeDataKeeps, TakeStatusKeeps, TakeOtherKeeps, TakeEndKeeps, TakeNoneKeeps DEF Client
<1>3. CASE UNCHANGED vars
  BY <1>3 DEF vars, ChannelInv, Types, Orderly, HasSent, Collects, Remembers, Stops, Verdict
<1> QED
  BY <1>1, <1>2, <1>3 DEF Next

-----------------------------------------------------------------------------
(* What the invariant says of the output and the verdict                   *)

\* A reader that saw the end of the output has all of it.
LEMMA OutputIsWhole == ChannelInv => WholeOutput
<1> SUFFICES ASSUME ChannelInv, result # "none", taken > 0,
                    (reader = "exec" /\ ~lost) \/ sent[taken][1] = "Eof"
             PROVE  output = [i \in 1 .. DataSent |-> i]
  BY DEF WholeOutput
<1>1. Types /\ Orderly /\ Collects /\ Stops
  BY DEF ChannelInv
<1>2. Len(sent) \in Nat /\ taken \in 1 .. Len(sent) /\ DOMAIN sent = 1 .. Len(sent)
  BY <1>1 DEF Types
<1>3. sent[taken][1] \in {"Eof", "Close"}
  BY <1>1 DEF Stops
<1>4. \A i \in 1 .. Len(sent) : sent[i][1] \in DataKinds => i <= taken
  <2>1. CASE sent[taken][1] = "Eof"
    <3>1. \A i, j \in 1 .. Len(sent) : sent[i][1] \in DataKinds /\ sent[j][1] = "Eof" => i < j
      BY <1>1 DEF Orderly
    <3> QED
      BY <1>2, <2>1, <3>1
  <2>2. CASE sent[taken][1] = "Close"
    <3>1. \A i \in 1 .. Len(sent) : sent[i][1] = "Close" => i = Len(sent)
      BY <1>1 DEF Orderly
    <3>2. taken = Len(sent)
      BY <1>2, <2>2, <3>1
    <3> QED
      BY <1>2, <3>2
  <2> QED
    BY <1>3, <2>1, <2>2
<1>5. DataIn(sent, Len(sent)) = DataIn(sent, taken)
  BY <1>2, <1>4 DEF DataIn
<1>6. DataSent = Len(output)
  BY <1>1, <1>5, DataSentIs DEF Collects
<1>7. output = [i \in 1 .. Len(output) |-> output[i]]
  BY <1>1 DEF Types
<1>8. \A i \in 1 .. Len(output) : output[i] = i
  BY <1>1 DEF Collects
<1> QED
  BY <1>6, <1>7, <1>8

\* A verdict that is not that of the process has one of three reasons.
LEMMA VerdictHasReason == ChannelInv => VerdictIsTrue
<1> SUFFICES ASSUME ChannelInv PROVE VerdictIsTrue
  OBVIOUS
<1>1. Types /\ Orderly /\ Remembers /\ Stops
  BY DEF ChannelInv
<1>2. result = "err" => reader = "exec" /\ process = "nonzero"
  BY <1>1 DEF Types, Stops, Verdict
<1>3. ASSUME reader = "exec", process = "nonzero", result = "ok", ~lost, HasSent("ExitStatus")
      PROVE  HasSent("Eof") /\ Position("Eof") < Position("ExitStatus")
  <2>1. /\ Len(sent) \in Nat /\ taken \in 1 .. Len(sent) /\ DOMAIN sent = 1 .. Len(sent)
        /\ sent[taken][1] \in {"Eof", "Close"}
    BY <1>1, <1>3 DEF Types, Stops
  <2>2. PICK p \in 1 .. Len(sent) : Position("ExitStatus") = p /\ sent[p][1] = "ExitStatus"
    BY <1>3, <2>1 DEF Position, HasSent
  <2>3. status # "nonzero"
    BY <1>1, <1>3 DEF Stops, Verdict
  <2>4. p > taken
    BY <1>1, <1>3, <2>1, <2>2, <2>3 DEF Remembers
  <2>5. sent[taken][1] = "Eof"
    <3>1. \A i \in 1 .. Len(sent) : sent[i][1] = "Close" => i = Len(sent)
      BY <1>1 DEF Orderly
    <3>2. p \in Nat /\ taken \in Nat /\ Len(sent) \in Nat /\ p <= Len(sent)
      BY <2>1
    <3>3. taken # Len(sent)
      BY <2>4, <3>2
    <3> QED
      BY <2>1, <3>1, <3>3
  <2>6. HasSent("Eof")
    BY <2>1, <2>5 DEF HasSent
  <2>7. PICK e \in 1 .. Len(sent) : Position("Eof") = e /\ sent[e][1] = "Eof"
    BY <2>1, <2>6 DEF Position, HasSent
  <2>8. e = taken
    BY <1>1, <2>1, <2>5, <2>7 DEF Orderly, OnceKinds
  <2> QED
    BY <2>1, <2>2, <2>4, <2>6, <2>7, <2>8
<1> QED
  BY <1>2, <1>3 DEF VerdictIsTrue

-----------------------------------------------------------------------------
(* The login                                                               *)

Stages == {"validating", "rejected", "connecting", "authenticating", "answering",
           "opening", "open", "failed"}

\* The profile gives a credential that can be sent.
Sendable ==
  Credential = "password" \/ (Credential = "key" /\ profile.key = "path" /\ keyFile = "good")

LoginInv ==
  /\ profile \in Profiles /\ keyFile \in {"good", "bad"} /\ accepts \in SUBSET {"key", "password"}
  /\ stage \in Stages
  /\ stage = "rejected" => ~Acceptable
  /\ stage \notin {"validating", "rejected"} => Acceptable
  /\ stage \in {"validating", "rejected", "connecting", "authenticating"} => tried = "none"
  /\ stage \in {"answering", "opening", "open"} => tried # "none"
  /\ stage \in {"opening", "open"} => tried \in accepts
  /\ tried # "none" => tried = Credential /\ Sendable /\ Acceptable
  /\ cause = "credential" => Acceptable /\ (~Sendable \/ Credential \notin accepts)

LEMMA LoginInit == ConnInit => LoginInv
  BY DEF ConnInit, LoginInv, Stages

LEMMA LoginNext == LoginInv /\ [ConnNext]_connVars => LoginInv'
<1> SUFFICES ASSUME LoginInv, [ConnNext]_connVars PROVE LoginInv'
  OBVIOUS
<1>1. UNCHANGED given
  BY DEF ConnNext, connVars
<1>2. Acceptable' = Acceptable /\ Sendable' = Sendable /\ Credential' = Credential
  BY <1>1 DEF given, Acceptable, Sendable, Credential
<1>3. CASE UNCHANGED login
  BY <1>1, <1>2, <1>3 DEF given, login, LoginInv
<1>4. CASE Login
  <2>1. CASE Validate
    BY <1>1, <1>2, <2>1 DEF given, LoginInv, Stages, Validate, Moves
  <2>2. CASE Connects \/ ConnectFails \/ ConnectTimesOut
    BY <1>1, <1>2, <2>2 DEF given, LoginInv, Stages, Connects, ConnectFails, ConnectTimesOut, Moves, Fails
  <2>3. CASE NoCredential
    BY <1>1, <1>2, <2>3 DEF given, LoginInv, Stages, NoCredential, Sendable, Moves, Fails
  <2>4. CASE Authenticate
    <3>1. Sendable /\ Credential # "none"
      BY <2>4 DEF Authenticate, Sendable
    <3> QED
      BY <1>1, <1>2, <2>4, <3>1 DEF given, LoginInv, Stages, Authenticate, Moves
  <2>5. CASE Accepted \/ Denied
    BY <1>1, <1>2, <2>5 DEF given, LoginInv, Stages, Accepted, Denied, Moves, Fails
  <2>6. CASE AuthFails \/ AuthTimesOut
    BY <1>1, <1>2, <2>6 DEF given, LoginInv, Stages, AuthFails, AuthTimesOut, Moves, Fails
  <2>7. CASE Opens \/ OpenFails
    BY <1>1, <1>2, <2>7 DEF given, LoginInv, Stages, Opens, OpenFails, Moves, Fails
  <2> QED
    BY <1>4, <2>1, <2>2, <2>3, <2>4, <2>5, <2>6, <2>7 DEF Login
<1> QED
  BY <1>3, <1>4 DEF ConnNext, connVars

\* A credential that is sent is one that the profile gives.
LEMMA LoginIsCaused == LoginInv => LoginHasCause
<1> SUFFICES ASSUME LoginInv PROVE LoginHasCause
  OBVIOUS
<1> DEFINE gives == (IF profile.key = "path" THEN {"key"} ELSE {})
                      \cup (IF profile.password = "text" THEN {"password"} ELSE {})
<1>1. /\ profile.complete \in BOOLEAN /\ profile.key \in {"none", "blank", "path"}
      /\ profile.password \in {"none", "empty", "text"}
  BY DEF LoginInv, Profiles
<1>2. ("key" \in gives <=> profile.key = "path") /\ ("password" \in gives <=> profile.password = "text")
  OBVIOUS
<1>3. Acceptable => profile.complete /\ gives # {}
  BY <1>2 DEF Acceptable
<1>4. Acceptable /\ Sendable => Credential \in gives
  BY <1>1, <1>2 DEF Acceptable, Sendable, Credential
<1>5. cause = "credential" =>
        \/ profile.key = "blank"
        \/ "key" \in gives /\ (keyFile = "bad" \/ "key" \notin accepts)
        \/ "key" \notin gives /\ "password" \notin accepts
  BY <1>1, <1>2 DEF LoginInv, Acceptable, Sendable, Credential
<1>6. stage \in {"opening", "open"} => tried \in gives \cap accepts
  BY <1>4 DEF LoginInv
<1>7. tried # "none" => tried \in gives
  BY <1>4 DEF LoginInv
<1>8. stage = "rejected" => ~profile.complete \/ gives = {}
  <2>1. gives # {} => profile.key = "path" \/ profile.password = "text"
    OBVIOUS
  <2> QED
    BY <2>1 DEF LoginInv, Acceptable
<1> QED
  BY <1>5, <1>6, <1>7, <1>8 DEF LoginHasCause

-----------------------------------------------------------------------------

\* In every run of a connection, the invariants of its login and of its channel
\* hold: no step of the one disturbs the other.
THEOREM ConnectionInvariance == ConnSpec => [](ChannelInv /\ LoginInv)
<1>1. ConnInit => ChannelInv /\ LoginInv
  BY ChannelInit, LoginInit DEF ConnInit
<1>2. ChannelInv /\ LoginInv /\ [ConnNext]_connVars => (ChannelInv /\ LoginInv)'
  <2>1. [ConnNext]_connVars => [Next]_vars
    BY DEF ConnNext, connVars, Reads, Next
  <2> QED
    BY <2>1, ChannelNext, LoginNext
<1> QED
  BY <1>1, <1>2, PTL DEF ConnSpec

\* For every amount of output: what run_exec collected is whole and in order unless
\* the connection was lost, and so is what the shell passed on until the end of
\* file.
THEOREM WholeOutputHolds == ConnSpec => []WholeOutput
  BY ConnectionInvariance, OutputIsWhole, PTL

\* For every order of its messages: run_exec blames a command only for its own
\* exit status, and takes a failure for a success only for the reasons that
\* VerdictIsTrue lists.
THEOREM VerdictIsTrueHolds == ConnSpec => []VerdictIsTrue
  BY ConnectionInvariance, VerdictHasReason, PTL

\* For every profile, key file and server, whatever fails and when: a login
\* succeeds only with what the profile gives and the server accepts, and fails for
\* its credential only for a cause (SshProfile::validate,
\* connect_and_authenticate_profile).
THEOREM LoginHasCauseHolds == ConnSpec => []LoginHasCause
  BY ConnectionInvariance, LoginIsCaused, PTL
=============================================================================
