-------------------------- MODULE RemoteHostProofs --------------------------
(***************************************************************************)
(* Proofs about RemoteUpload, for any number of calls, paths and chunks,   *)
(* and about RemotePlatform, for every set of operations.                  *)
(***************************************************************************)
EXTENDS RemoteUpload, RemotePlatform, SequenceLemmas

Contents == Seq((Writers \cup {"old"}) \X Nat)

Types ==
  /\ form     \in {"unix", "windows"}
  /\ file     \in [Paths -> Contents \cup {Absent}]
  /\ temp     \in [Paths -> Contents \cup {Absent}]
  /\ path     \in [Writers -> Paths]
  /\ size     \in [Writers -> Nat]
  /\ \A k \in Creates : size[k] = 0
  /\ step     \in [Writers -> Nat]
  /\ result   \in [Writers -> {"none", "ok", "err"}]
  /\ landed   \in [Writers -> Contents \cup {Absent}]
  /\ shared   \in SUBSET Writers
  /\ failures \in [Writers -> Nat]
  /\ writing  \in SUBSET Uploads

\* Two calls that are at work on a path are known to overlap.
Disjoint ==
  \A u, v \in Writers : Active(u) /\ Active(v) /\ path[u] = path[v] /\ u # v => u \in shared

\* A content that may begin with what was left behind, and ends with n chunks of u.
EndsWith(content, u, n) ==
  /\ n <= Len(content)
  /\ \A i \in 1 .. n : content[Len(content) - n + i] = <<u, i>>

\* What the temporary file of a call that nobody disturbed holds before its next
\* command: after one failure that went unnoticed, either a chunk is missing, or
\* what was left behind was not removed.
Filled(u) ==
  Active(u) /\ u \notin shared =>
    /\ failures[u] = 0 => temp[path[u]] = Part(u, step[u] - 1)
    /\ failures[u] = 1 =>
         \/ Len(Decoded(u)) = step[u] - 2
         \/ EndsWith(Decoded(u), u, step[u] - 1)

\* Only one last command is at work at a time, and what the target holds meanwhile
\* is a beginning of what that decodes.
AtWork ==
  \A u \in writing :
    /\ writing = {u}
    /\ step[u] = size[u] + 1 /\ result[u] = "none"
    /\ \E n \in 0 .. Len(Decoded(u)) : file[path[u]] = SubSeq(Decoded(u), 1, n)

UploadInv ==
  /\ Types /\ AtWork
  /\ Disjoint
  /\ \A u \in Writers : result[u] = "none" => landed[u] = Absent
  /\ \A u \in Uploads : Filled(u)
  /\ OkIsWhole
  /\ ErrHasCause
  /\ NoSilentDamage
  /\ NoLeftover

-----------------------------------------------------------------------------
(* Contents                                                                *)

\* The chunks of a call, one more with each append.
LEMMA PartIs ==
  ASSUME NEW u \in Writers, NEW n \in Nat
  PROVE  /\ Part(u, n) \in Contents /\ Len(Part(u, n)) = n
         /\ \A i \in 1 .. n : Part(u, n)[i] = <<u, i>>
         /\ <<u, n + 1>> \in (Writers \cup {"old"}) \X Nat
         /\ Append(Part(u, n), <<u, n + 1>>) = Part(u, n + 1)
<1> DEFINE S == (Writers \cup {"old"}) \X Nat
           now  == Part(u, n)
           then == Part(u, n + 1)
<1>1. \A i \in Nat : <<u, i>> \in S
  OBVIOUS
<1>2. /\ now \in Seq(S) /\ then \in Seq(S) /\ Len(now) = n /\ Len(then) = n + 1
      /\ \A i \in 1 .. n : now[i] = <<u, i>>
      /\ \A i \in 1 .. n + 1 : then[i] = <<u, i>>
  <2> HIDE DEF S
  <2> QED
    BY <1>1 DEF Part
<1>3. <<u, n + 1>> \in S
  BY <1>1
<1> HIDE DEF S, now, then
<1>4. Len(then) = Len(now) + 1 /\ then[Len(now) + 1] = <<u, n + 1>> /\ \A i \in 1 .. Len(now) : then[i] = now[i]
  <2>1. n + 1 \in 1 .. n + 1 /\ \A i \in 1 .. n : i \in 1 .. n + 1
    OBVIOUS
  <2> QED
    BY <1>2, <2>1
<1>5. Append(now, <<u, n + 1>>) = then
  BY <1>2, <1>3, <1>4, AppendIs
<1> QED
  BY <1>2, <1>3, <1>5 DEF S, now, then, Contents

\* A content of n chunks that ends with n chunks of a call is those chunks.
LEMMA EndsWithAll ==
  ASSUME NEW u \in Writers, NEW n \in Nat, NEW content \in Contents,
         Len(content) = n, EndsWith(content, u, n)
  PROVE  content = Part(u, n)
<1>1. \A i \in 1 .. n : content[i] = <<u, i>>
  BY DEF EndsWith
<1>2. content = [i \in 1 .. n |-> content[i]]
  BY DEF Contents
<1> QED
  BY <1>1, <1>2 DEF Part

\* One more chunk goes to the end.
LEMMA EndsWithNext ==
  ASSUME NEW u \in Writers, NEW n \in Nat, NEW content \in Contents, EndsWith(content, u, n)
  PROVE  EndsWith(Append(content, <<u, n + 1>>), u, n + 1)
<1> DEFINE more == Append(content, <<u, n + 1>>)
           m    == Len(content)
<1>1. /\ m \in Nat /\ Len(more) = m + 1 /\ more[m + 1] = <<u, n + 1>>
      /\ \A i \in 1 .. m : more[i] = content[i]
  <2> DEFINE S == (Writers \cup {"old"}) \X Nat
  <2>1. content \in Seq(S) /\ <<u, n + 1>> \in S
    BY DEF Contents
  <2> HIDE DEF S
  <2> QED
    BY <2>1, AppendProperties
<1>2. n <= m /\ \A i \in 1 .. n : content[m - n + i] = <<u, i>>
  BY DEF EndsWith
<1> HIDE DEF more, m
<1>3. ASSUME NEW i \in 1 .. n + 1  PROVE more[(m + 1) - (n + 1) + i] = <<u, i>>
  <2>1. (m + 1) - (n + 1) + i = m - n + i
    BY <1>1
  <2>2. CASE i = n + 1
    BY <1>1, <2>1, <2>2
  <2>3. CASE i # n + 1
    <3>1. i \in 1 .. n /\ m - n + i \in 1 .. m
      BY <1>1, <1>2, <2>3
    <3> QED
      BY <1>1, <1>2, <2>1, <3>1
  <2> QED
    BY <2>2, <2>3
<1>4. n + 1 <= m + 1
  BY <1>1, <1>2
<1>5. EndsWith(more, u, n + 1)
  BY <1>1, <1>3, <1>4 DEF EndsWith
<1> QED
  BY <1>5 DEF more

\* A part of a content from the start, as long as the whole, is the whole.
LEMMA PrefixIsAll ==
  ASSUME NEW content \in Contents, NEW n \in 0 .. Len(content)
  PROVE  /\ SubSeq(content, 1, n) \in Contents /\ Len(SubSeq(content, 1, n)) = n
         /\ n = Len(content) => SubSeq(content, 1, n) = content
<1> DEFINE S == (Writers \cup {"old"}) \X Nat
<1>1. content \in Seq(S)
  BY DEF Contents
<1> HIDE DEF S
<1>2. SubSeq(content, 1, n) \in Seq(S) /\ Len(SubSeq(content, 1, n)) = n
  BY <1>1
<1>3. n = Len(content) => SubSeq(content, 1, n) = content
  BY <1>1
<1> QED
  BY <1>2, <1>3 DEF S, Contents

\* What decoding yields is a content, and that of the temporary file if it is there.
LEMMA DecodedIs ==
  ASSUME Types, NEW u \in Writers
  PROVE  /\ path[u] \in Paths /\ Decoded(u) \in Contents /\ Len(Decoded(u)) \in Nat
         /\ temp[path[u]] # Absent => Decoded(u) = temp[path[u]]
<1>1. path[u] \in Paths /\ temp[path[u]] \in Contents \cup {Absent}
  BY DEF Types
<1>2. <<>> \in Contents
  BY DEF Contents
<1>3. Decoded(u) \in Contents
  BY <1>1, <1>2 DEF Decoded
<1> QED
  BY <1>1, <1>3 DEF Decoded, Contents

-----------------------------------------------------------------------------
(* The steps of a call                                                     *)

\* The last command works on the target, runs to its end, or something of it fails.
Works(u) ==
  /\ writing' = {u}
  /\ \E n \in 0 .. Len(Decoded(u)) : file' = [file EXCEPT ![path[u]] = SubSeq(Decoded(u), 1, n)]
  /\ UNCHANGED <<args, step, result, temp, landed, failures>>

Clean(u) ==
  /\ writing = {u} /\ file[path[u]] = Decoded(u)
  /\ Ends(u, Verdict(u, Decoded(u))) /\ RemoveTemp(path[u]) /\ UNCHANGED failures

Marred(u) ==
  /\ Fails(u) /\ UNCHANGED file
  /\ writing \subseteq {u} /\ writing' = {}
  /\ RemoveTemp(path[u]) \/ UNCHANGED temp
  /\ landed' = landed \/ (u \in writing /\ landed' = [landed EXCEPT ![u] = file[path[u]]])
  /\ \/ Returns(u, "err")
     \/ form = "windows" /\ Returns(u, Verdict(u, file[path[u]]))

\* A beginning of a content grows by the next element of it.
LEMMA PrefixGrows ==
  ASSUME NEW content \in Contents, NEW n \in 0 .. Len(content), n < Len(content)
  PROVE  Append(SubSeq(content, 1, n), content[n + 1]) = SubSeq(content, 1, n + 1)
<1> DEFINE S == (Writers \cup {"old"}) \X Nat
           now  == SubSeq(content, 1, n)
           then == SubSeq(content, 1, n + 1)
<1>1. content \in Seq(S)
  BY DEF Contents
<1> HIDE DEF S
<1>2. n + 1 \in 1 .. Len(content) /\ content[n + 1] \in S
  BY <1>1
<1>3. /\ now \in Seq(S) /\ Len(now) = n /\ then \in Seq(S) /\ Len(then) = n + 1
      /\ \A i \in 1 .. n : now[i] = content[i]
      /\ \A i \in 1 .. n + 1 : then[i] = content[i]
  BY <1>1, <1>2
<1>4. n + 1 \in 1 .. n + 1 /\ \A i \in 1 .. n : i \in 1 .. n + 1
  OBVIOUS
<1> HIDE DEF now, then
<1>5. Append(now, content[n + 1]) = then
  BY <1>2, <1>3, <1>4, AppendIs
<1> QED
  BY <1>5 DEF now, then

\* What the command writes is a beginning, whenever it writes.
LEMMA WritesWork ==
  ASSUME Types, AtWork, NEW u \in Writers, FinishStarts(u) \/ FinishWrites(u)
  PROVE  Works(u)
<1> DEFINE D == Decoded(u)
<1>1. D \in Contents /\ Len(D) \in Nat
  BY DecodedIs
<1>2. CASE FinishStarts(u)
  <2>1. 0 \in 0 .. Len(D) /\ SubSeq(D, 1, 0) = <<>>
    BY <1>1
  <2> QED
    BY <1>2, <2>1 DEF FinishStarts, Works
<1>3. CASE FinishWrites(u)
  <2>1. u \in writing /\ writing = {u} /\ writing' = {u}
    BY <1>3 DEF FinishWrites, AtWork
  <2>2. PICK n \in 0 .. Len(D) : file[path[u]] = SubSeq(D, 1, n)
    BY <2>1 DEF AtWork
  <2>3. Len(file[path[u]]) = n
    BY <1>1, <2>2, PrefixIsAll
  <2>4. n < Len(D)
    BY <1>3, <2>3 DEF FinishWrites
  <2>5. Append(file[path[u]], D[n + 1]) = SubSeq(D, 1, n + 1)
    <3> HIDE DEF D
    <3> QED
      BY <1>1, <2>2, <2>4, PrefixGrows
  <2>6. file' = [file EXCEPT ![path[u]] = Append(file[path[u]], D[Len(file[path[u]]) + 1])]
    BY <1>3 DEF FinishWrites
  <2>7. n + 1 \in 0 .. Len(D)
    BY <1>1, <2>4
  <2> HIDE DEF D
  <2>8. file' = [file EXCEPT ![path[u]] = SubSeq(D, 1, n + 1)]
    BY <2>3, <2>5, <2>6
  <2> QED
    BY <1>3, <2>1, <2>7, <2>8 DEF FinishWrites, Works, D
<1> QED
  BY <1>2, <1>3

LEMMA FinishKinds ==
  ASSUME Types, AtWork, NEW u \in Writers, FinishUpload(u)
  PROVE  /\ u \in Uploads /\ step[u] = size[u] + 1 /\ result[u] = "none"
         /\ writing \subseteq {u}
         /\ UNCHANGED shared
         /\ Works(u) \/ Clean(u) \/ Marred(u)
<1>1. u \in Uploads /\ step[u] = size[u] + 1 /\ result[u] = "none" /\ UNCHANGED shared
  BY DEF FinishUpload
<1>2. u \in writing => writing = {u}
  BY DEF AtWork
<1>3. CASE FinishStarts(u) \/ FinishWrites(u)
  BY <1>1, <1>2, <1>3, WritesWork DEF FinishStarts, FinishWrites
<1>4. CASE FinishEnds(u)
  BY <1>1, <1>2, <1>4 DEF FinishEnds, Ends, Clean, Marred
<1>5. CASE FinishStops(u)
  BY <1>1, <1>2, <1>5 DEF FinishStops, Ends, Marred
<1>6. CASE FinishFails(u)
  BY <1>1, <1>6 DEF FinishFails, Marred
<1> QED
  BY <1>1, <1>3, <1>4, <1>5, <1>6 DEF FinishUpload

Acts(u) == Begin(u) \/ AppendChunk(u) \/ FinishUpload(u) \/ Create(u)

\* What a step of one call leaves alone.
LEMMA ActsApart ==
  ASSUME Types, AtWork, NEW u \in Writers, Acts(u)
  PROVE  /\ UNCHANGED args /\ result[u] = "none" /\ shared \subseteq shared'
         /\ \A v \in Writers \ {u} : /\ step'[v] = step[v] /\ result'[v] = result[v]
                                     /\ landed'[v] = landed[v] /\ failures'[v] = failures[v]
         /\ \A p \in Paths \ {path[u]} : file'[p] = file[p] /\ temp'[p] = temp[p]
         /\ failures'[u] \in {failures[u], failures[u] + 1}
         /\ step[u] = 0 => Meets(u)
         /\ writing \subseteq {u} /\ writing' \subseteq {u}
<1>1. /\ DOMAIN step = Writers /\ DOMAIN result = Writers /\ DOMAIN landed = Writers
      /\ DOMAIN failures = Writers /\ DOMAIN file = Paths /\ DOMAIN temp = Paths
      /\ size[u] \in Nat /\ path[u] \in Paths
  BY DEF Types
<1>2. CASE Begin(u)
  BY <1>1, <1>2 DEF Begin, Runs, Meets, Continues, Returns, Fails, OpenTemp
<1>3. CASE AppendChunk(u)
  BY <1>1, <1>3 DEF AppendChunk, Runs, Continues, Returns, Fails, AppendTemp
<1>4. CASE FinishUpload(u)
  <2>1. /\ UNCHANGED shared /\ result[u] = "none" /\ step[u] # 0 /\ writing \subseteq {u}
        /\ Works(u) \/ Clean(u) \/ Marred(u)
    BY <1>1, <1>4, FinishKinds
  <2>2. CASE Works(u)
    BY <1>1, <2>1, <2>2 DEF Works
  <2>3. CASE Clean(u)
    BY <1>1, <2>1, <2>3 DEF Clean, Ends, RemoveTemp, Returns
  <2>4. CASE Marred(u)
    BY <1>1, <2>1, <2>4 DEF Marred, RemoveTemp, Returns, Fails
  <2> QED
    BY <2>1, <2>2, <2>3, <2>4
<1>5. CASE Create(u)
  <2>1. Meets(u) /\ shared \subseteq shared' /\ result[u] = "none"
    BY <1>5 DEF Create, Meets
  <2>2. UNCHANGED args /\ \A v \in Writers \ {u} : step'[v] = step[v] /\ result'[v] = result[v]
    BY <1>1, <1>5 DEF Create, Returns
  <2>3. /\ \A v \in Writers \ {u} : landed'[v] = landed[v] /\ failures'[v] = failures[v]
        /\ failures'[u] \in {failures[u], failures[u] + 1}
    BY <1>1, <1>5 DEF Create, Lands, Fails
  <2>4. \A p \in Paths \ {path[u]} : file'[p] = file[p] /\ temp'[p] = temp[p]
    BY <1>1, <1>5 DEF Create, Lands, OpenTemp, RemoveTemp
  <2>5. writing = {} /\ writing' = {}
    BY <1>5 DEF Create
  <2> QED
    BY <2>1, <2>2, <2>3, <2>4, <2>5
<1> QED
  BY <1>2, <1>3, <1>4, <1>5 DEF Acts

\* A command before the last, with an effect or with a failure.
LEMMA EarlySteps ==
  ASSUME Types, NEW u \in Writers, Begin(u) \/ AppendChunk(u)
  PROVE  /\ u \in Uploads /\ UNCHANGED <<args, file, landed, writing>> /\ writing = {}
         /\ \/ result' = result /\ step'[u] = step[u] + 1
            \/ result'[u] = "err" /\ step' = step /\ failures'[u] = failures[u] + 1
         /\ \/ /\ failures' = failures /\ result' = result
               /\ \/ Begin(u) /\ temp' = [temp EXCEPT ![path[u]] = <<>>]
                  \/ /\ AppendChunk(u)
                     /\ temp' = [temp EXCEPT ![path[u]] = Append(Decoded(u), <<u, step[u]>>)]
            \/ failures'[u] = failures[u] + 1 /\ temp' = temp
<1>1. DOMAIN step = Writers /\ DOMAIN result = Writers /\ DOMAIN failures = Writers /\ DOMAIN temp = Paths
  BY DEF Types
<1>2. CASE Begin(u)
  BY <1>1, <1>2 DEF Begin, Runs, Continues, Returns, Fails, OpenTemp
<1>3. CASE AppendChunk(u)
  <2>1. AppendTemp(path[u], <<u, step[u]>>) =>
          temp' = [temp EXCEPT ![path[u]] = Append(Decoded(u), <<u, step[u]>>)]
    BY DEF AppendTemp, Decoded
  <2> QED
    BY <1>1, <1>3, <2>1 DEF AppendChunk, Runs, Continues, Returns, Fails
<1> QED
  BY <1>2, <1>3

-----------------------------------------------------------------------------
(* Types and overlaps                                                      *)

LEMMA TypesStep ==
  ASSUME Types, AtWork, NEW u \in Writers, Acts(u)
  PROVE  Types'
<1>1. UNCHANGED args
  BY ActsApart
<1>2. /\ path[u] \in Paths /\ Decoded(u) \in Contents /\ <<>> \in Contents
      /\ step[u] \in Nat /\ failures[u] \in Nat
      /\ \A content : Verdict(u, content) \in {"ok", "err"}
  BY DecodedIs DEF Types, Contents, Verdict
<1>3. Append(Decoded(u), <<u, step[u]>>) \in Contents
  <2> DEFINE S == (Writers \cup {"old"}) \X Nat
  <2>1. Decoded(u) \in Seq(S) /\ <<u, step[u]>> \in S
    BY <1>2 DEF Contents
  <2> HIDE DEF S
  <2>2. Append(Decoded(u), <<u, step[u]>>) \in Seq(S)
    BY <2>1, AppendProperties
  <2> QED
    BY <2>2 DEF S, Contents
<1>4. /\ Returns(u, "ok") \/ Returns(u, "err") =>
           result' \in [Writers -> {"none", "ok", "err"}] /\ step' = step
      /\ Continues(u) => step' \in [Writers -> Nat] /\ result' = result
      /\ Fails(u) => failures' \in [Writers -> Nat]
  <2>1. /\ result \in [Writers -> {"none", "ok", "err"}]
        /\ step \in [Writers -> Nat] /\ failures \in [Writers -> Nat]
        /\ step[u] + 1 \in Nat /\ failures[u] + 1 \in Nat
    BY <1>2 DEF Types
  <2>2. Returns(u, "ok") \/ Returns(u, "err") => result' \in [Writers -> {"none", "ok", "err"}] /\ step' = step
    BY <2>1 DEF Returns
  <2>3. Continues(u) => step' \in [Writers -> Nat] /\ result' = result
    BY <2>1 DEF Continues
  <2>4. Fails(u) => failures' \in [Writers -> Nat]
    BY <2>1 DEF Fails
  <2> QED
    BY <2>2, <2>3, <2>4
<1>5. /\ OpenTemp(path[u]) \/ RemoveTemp(path[u]) => temp' \in [Paths -> Contents \cup {Absent}]
      /\ AppendTemp(path[u], <<u, step[u]>>) => temp' \in [Paths -> Contents \cup {Absent}]
  <2>1. AppendTemp(path[u], <<u, step[u]>>) =>
          temp' = [temp EXCEPT ![path[u]] = Append(Decoded(u), <<u, step[u]>>)]
    BY DEF AppendTemp, Decoded
  <2>2. temp \in [Paths -> Contents \cup {Absent}]
    BY DEF Types
  <2>3. \A content \in Contents \cup {Absent} :
          [temp EXCEPT ![path[u]] = content] \in [Paths -> Contents \cup {Absent}]
    BY <1>2, <2>2
  <2> QED
    BY <1>2, <1>3, <2>1, <2>3 DEF OpenTemp, RemoveTemp
<1>6. \A content \in Contents : Lands(u, content) =>
        file' \in [Paths -> Contents \cup {Absent}] /\ landed' \in [Writers -> Contents \cup {Absent}]
  BY <1>2 DEF Types, Lands
<1>7. Meets(u) => shared' \in SUBSET Writers
  BY DEF Meets, Types
<1>8. \A content : Returns(u, Verdict(u, content)) => Returns(u, "ok") \/ Returns(u, "err")
  BY <1>2
<1>9. CASE Begin(u) \/ AppendChunk(u)
  BY <1>1, <1>4, <1>5, <1>7, <1>9 DEF Types, args, Begin, AppendChunk, Runs
<1>10. CASE FinishUpload(u)
  <2>1. UNCHANGED shared /\ u \in Uploads /\ (Works(u) \/ Clean(u) \/ Marred(u))
    BY <1>10, FinishKinds
  <2>2. CASE Works(u)
    <3>1. PICK n \in 0 .. Len(Decoded(u)) :
            file' = [file EXCEPT ![path[u]] = SubSeq(Decoded(u), 1, n)]
      BY <2>2 DEF Works
    <3>2. SubSeq(Decoded(u), 1, n) \in Contents
      BY <1>2, PrefixIsAll
    <3>3. file' \in [Paths -> Contents \cup {Absent}]
      BY <1>2, <3>1, <3>2 DEF Types
    <3> QED
      BY <1>1, <2>1, <2>2, <3>3 DEF Types, args, Works
  <2>3. file[path[u]] \in Contents \cup {Absent} /\ landed \in [Writers -> Contents \cup {Absent}]
    BY <1>2 DEF Types
  <2>4. [landed EXCEPT ![u] = file[path[u]]] \in [Writers -> Contents \cup {Absent}]
    BY <2>3
  <2>5. CASE Clean(u)
    BY <1>1, <1>4, <1>5, <1>8, <2>1, <2>4, <2>5 DEF Types, args, Clean, Ends
  <2>6. CASE Marred(u)
    BY <1>1, <1>4, <1>5, <1>8, <2>1, <2>3, <2>4, <2>6 DEF Types, args, Marred
  <2> QED
    BY <2>1, <2>2, <2>5, <2>6
<1>11. CASE Create(u)
  BY <1>1, <1>2, <1>4, <1>5, <1>6, <1>7, <1>11 DEF Types, args, Create
<1> QED
  BY <1>9, <1>10, <1>11 DEF Acts

\* Nobody touches the path of a last command while that is at work.
LEMMA AtWorkStep ==
  ASSUME Types, AtWork, NEW u \in Writers, Acts(u)
  PROVE  AtWork'
<1>1. CASE Begin(u) \/ AppendChunk(u)
  BY <1>1, EarlySteps DEF AtWork
<1>2. CASE Create(u)
  BY <1>2 DEF Create, AtWork
<1>3. CASE FinishUpload(u)
  <2>1. step[u] = size[u] + 1 /\ result[u] = "none" /\ (Works(u) \/ Clean(u) \/ Marred(u))
    BY <1>3, FinishKinds
  <2>2. CASE Works(u)
    <3>1. PICK n \in 0 .. Len(Decoded(u)) :
            file' = [file EXCEPT ![path[u]] = SubSeq(Decoded(u), 1, n)]
      BY <2>2 DEF Works
    <3>2. writing' = {u} /\ UNCHANGED <<path, size, step, result, temp>> /\ Decoded(u)' = Decoded(u)
      BY <2>2 DEF Works, args, Decoded
    <3>3. file'[path[u]] = SubSeq(Decoded(u), 1, n)
      BY <3>1 DEF Types
    <3> QED
      BY <2>1, <3>2, <3>3 DEF AtWork
  <2>3. CASE Clean(u) \/ Marred(u)
    BY <2>3 DEF Clean, Ends, Marred, AtWork
  <2> QED
    BY <2>1, <2>2, <2>3
<1> QED
  BY <1>1, <1>2, <1>3 DEF Acts

\* Only the step that begins a call makes it active, and that step looks for others.
LEMMA DisjointStep ==
  ASSUME Types, AtWork, Disjoint, NEW u \in Writers, Acts(u)
  PROVE  Disjoint'
<1>1. /\ UNCHANGED args /\ result[u] = "none" /\ shared \subseteq shared'
      /\ \A v \in Writers \ {u} : step'[v] = step[v] /\ result'[v] = result[v]
      /\ step[u] = 0 => Meets(u)
  BY ActsApart
<1>2. UNCHANGED path /\ step[u] \in Nat
  BY <1>1 DEF args, Types
<1>3. \A v \in Writers \ {u} : Active(v)' <=> Active(v)
  BY <1>1 DEF Active
<1>4. ASSUME NEW v \in Writers \ {u}, Active(v), path[v] = path[u]
      PROVE  u \in shared' /\ v \in shared'
  <2>1. CASE step[u] = 0
    BY <1>1, <1>4, <2>1 DEF Meets
  <2>2. CASE step[u] # 0
    <3>1. Active(u)
      BY <1>1, <1>2, <2>2 DEF Active
    <3> QED
      BY <1>1, <1>4, <3>1 DEF Disjoint
  <2> QED
    BY <2>1, <2>2
<1> QED
  BY <1>1, <1>2, <1>3, <1>4 DEF Disjoint

\* Nobody but a call itself writes to its path without being noticed.
LEMMA Undisturbed ==
  ASSUME Types, AtWork, Disjoint, NEW u \in Writers, Acts(u),
         NEW v \in Writers \ {u}, Active(v)', v \notin shared'
  PROVE  Active(v) /\ v \notin shared /\ path[v] # path[u] /\ path[v] \in Paths
<1>1. /\ result[u] = "none" /\ shared \subseteq shared'
      /\ step'[v] = step[v] /\ result'[v] = result[v]
      /\ step[u] = 0 => Meets(u)
  BY ActsApart
<1>2. Active(v) /\ v \notin shared
  BY <1>1 DEF Active
<1>3. CASE step[u] = 0 /\ path[v] = path[u]
  BY <1>1, <1>2, <1>3 DEF Meets
<1>4. CASE step[u] # 0 /\ path[v] = path[u]
  <2>1. Active(u)
    BY <1>1, <1>4 DEF Active, Types
  <2> QED
    BY <1>2, <1>4, <2>1 DEF Disjoint
<1> QED
  BY <1>2, <1>3, <1>4 DEF Types

-----------------------------------------------------------------------------
(* What an undisturbed call finds                                          *)

LEMMA FilledStep ==
  ASSUME Types, AtWork, Disjoint, \A v \in Uploads : Filled(v), NEW u \in Writers, Acts(u)
  PROVE  \A v \in Uploads : Filled(v)'
<1>1. /\ UNCHANGED args /\ shared \subseteq shared' /\ result[u] = "none"
      /\ \A v \in Writers \ {u} : step'[v] = step[v] /\ failures'[v] = failures[v]
      /\ \A p \in Paths \ {path[u]} : temp'[p] = temp[p]
  BY ActsApart
<1>2. UNCHANGED path /\ step[u] \in Nat /\ failures[u] \in Nat /\ path[u] \in Paths
  BY <1>1 DEF args, Types
<1>3. ASSUME NEW v \in Uploads \ {u}  PROVE Filled(v)'
  <2>1. SUFFICES ASSUME Active(v)', v \notin shared'  PROVE Filled(v)'
    BY DEF Filled
  <2>2. v \in Writers \ {u}
    BY DEF Writers
  <2>3. Active(v) /\ v \notin shared /\ path[v] # path[u] /\ path[v] \in Paths
    BY <2>1, <2>2, Undisturbed
  <2>4. temp'[path'[v]] = temp[path[v]] /\ Decoded(v)' = Decoded(v)
    BY <1>1, <1>2, <2>3 DEF Decoded
  <2> QED
    BY <1>1, <1>2, <2>2, <2>3, <2>4 DEF Filled
<1>4. ASSUME u \in Uploads  PROVE Filled(u)'
  <2> DEFINE k == step[u]
             D == Decoded(u)
  <2>1. SUFFICES ASSUME Active(u)', u \notin shared'  PROVE Filled(u)'
    BY DEF Filled
  <2>2. result'[u] = "none" /\ u \notin shared
    BY <1>1, <2>1 DEF Active
  <2>3. Begin(u) \/ AppendChunk(u) \/ Works(u)
    <3>1. FinishUpload(u) => Works(u)
      <4>1. ASSUME FinishUpload(u)  PROVE Works(u)
        <5>1. (Works(u) \/ Clean(u) \/ Marred(u)) /\ DOMAIN result = Writers
          BY <4>1, FinishKinds DEF Types
        <5> QED
          BY <2>2, <5>1 DEF Clean, Ends, Marred, Returns, Verdict
      <4> QED
        BY <4>1
    <3>2. ~Create(u)
      BY <2>2 DEF Create, Returns, Types
    <3> QED
      BY <3>1, <3>2 DEF Acts
  <2>4. D \in Contents /\ Len(D) \in Nat /\ (temp[path[u]] # Absent => D = temp[path[u]])
    BY DecodedIs
  <2>5. CASE failures'[u] = failures[u] + 1 /\ ~Works(u)
    <3>1. step'[u] = k + 1 /\ temp' = temp
      <4>1. failures' # failures
        BY <1>2, <2>5
      <4> QED
        BY <2>2, <2>3, <2>5, <4>1, EarlySteps
    <3>2. Decoded(u)' = D
      BY <1>2, <3>1 DEF Decoded
    <3>3. CASE failures[u] # 0
      BY <1>2, <2>5, <3>3 DEF Filled
    <3>4. CASE failures[u] = 0 /\ Begin(u)
      <4>1. k = 0
        BY <3>4 DEF Begin
      <4>2. EndsWith(D, u, 0)
        BY <2>4 DEF EndsWith
      <4> HIDE DEF D, k
      <4>3. EndsWith(Decoded(u)', u, step'[u] - 1)
        BY <3>1, <3>2, <4>1, <4>2
      <4> QED
        BY <2>5, <3>4, <4>3 DEF Filled
    <3>5. CASE failures[u] = 0 /\ AppendChunk(u)
      <4>1. k \in Nat \ {0} /\ Active(u)
        BY <1>2, <3>5 DEF AppendChunk, Active
      <4>2. temp[path[u]] = Part(u, k - 1)
        BY <1>4, <2>2, <3>5, <4>1 DEF Filled
      <4>3. Part(u, k - 1) \in Contents /\ Len(Part(u, k - 1)) = k - 1
        <5>1. k - 1 \in Nat
          BY <4>1
        <5> HIDE DEF k
        <5> QED
          BY <5>1, PartIs
      <4>4. Len(D) = k - 1
        BY <2>4, <4>2, <4>3, AbsentAssumption DEF Contents
      <4>5. Len(Decoded(u)') = step'[u] - 2
        BY <3>1, <3>2, <4>1, <4>4
      <4> QED
        BY <2>5, <3>5, <4>5 DEF Filled
    <3> QED
      BY <2>3, <2>5, <3>3, <3>4, <3>5
  <2>6. CASE failures' = failures /\ result' = result /\ Begin(u) /\ temp' = [temp EXCEPT ![path[u]] = <<>>]
    <3>1. step'[u] = 1 /\ failures'[u] = failures[u]
      <4>1. step'[u] = step[u] + 1
        BY <2>2, <2>6, EarlySteps
      <4> QED
        BY <2>6, <4>1 DEF Begin
    <3>2. temp'[path'[u]] = <<>>
      BY <1>2, <2>6 DEF Types
    <3>3. <<>> = Part(u, 0) /\ <<>> \in Contents
      BY DEF Part, Contents
    <3>4. Decoded(u)' = <<>>
      BY <3>2 DEF Decoded
    <3>5. EndsWith(Decoded(u)', u, step'[u] - 1)
      BY <3>1, <3>4 DEF EndsWith
    <3> QED
      BY <3>1, <3>2, <3>3, <3>5 DEF Filled
  <2>7. CASE /\ failures' = failures /\ result' = result /\ AppendChunk(u)
             /\ temp' = [temp EXCEPT ![path[u]] = Append(D, <<u, k>>)]
    <3>1. k \in Nat \ {0} /\ Active(u)
      BY <1>2, <2>7 DEF AppendChunk, Active
    <3>2. step'[u] = k + 1
      BY <2>2, <2>7, EarlySteps
    <3> DEFINE E == Append(D, <<u, k>>)
    <3>3. E \in Contents /\ Len(E) = Len(D) + 1
      <4> DEFINE S == (Writers \cup {"old"}) \X Nat
      <4>1. D \in Seq(S) /\ <<u, k>> \in S
        BY <2>4, <3>1 DEF Contents
      <4> HIDE DEF S, D
      <4>2. E \in Seq(S) /\ Len(E) = Len(D) + 1
        BY <4>1, AppendProperties
      <4> QED
        BY <4>2 DEF S, Contents
    <3>4. temp'[path'[u]] = E
      BY <1>2, <2>7 DEF Types
    <3>5. Decoded(u)' = E
      BY <3>3, <3>4, AbsentAssumption DEF Decoded, Contents
    <3>6. failures[u] = 0 => E = Part(u, k)
      <4>1. SUFFICES ASSUME failures[u] = 0  PROVE E = Part(u, k)
        OBVIOUS
      <4>2. temp[path[u]] = Part(u, k - 1)
        BY <1>4, <2>2, <3>1, <4>1 DEF Filled
      <4>3. k - 1 \in Nat /\ (k - 1) + 1 = k
        BY <3>1
      <4>4. /\ Part(u, k - 1) \in Contents
            /\ Append(Part(u, k - 1), <<u, k>>) = Part(u, k)
        <5> HIDE DEF k
        <5>1. /\ Part(u, k - 1) \in Contents
              /\ Append(Part(u, k - 1), <<u, (k - 1) + 1>>) = Part(u, (k - 1) + 1)
          BY <4>3, PartIs
        <5> QED
          BY <4>3, <5>1
      <4>5. D = Part(u, k - 1)
        BY <2>4, <4>2, <4>4, AbsentAssumption DEF Contents
      <4> HIDE DEF D, k
      <4> QED
        BY <4>4, <4>5
    <3>7. failures[u] = 1 => Len(E) = k - 1 \/ EndsWith(E, u, k)
      <4>1. SUFFICES ASSUME failures[u] = 1  PROVE Len(E) = k - 1 \/ EndsWith(E, u, k)
        OBVIOUS
      <4>2. Len(D) = k - 2 \/ EndsWith(D, u, k - 1)
        BY <1>4, <2>2, <3>1, <4>1 DEF Filled
      <4>3. CASE Len(D) = k - 2
        BY <3>1, <3>3, <4>3
      <4>4. CASE EndsWith(D, u, k - 1)
        <5>1. k - 1 \in Nat /\ (k - 1) + 1 = k
          BY <3>1
        <5>2. EndsWith(Append(D, <<u, (k - 1) + 1>>), u, (k - 1) + 1)
          <6> HIDE DEF D, k
          <6> QED
            BY <2>4, <4>4, <5>1, EndsWithNext
        <5> QED
          BY <5>1, <5>2
      <4> QED
        BY <4>2, <4>3, <4>4
    <3> HIDE DEF E
    <3>8. step'[u] - 1 = k /\ step'[u] - 2 = k - 1 /\ failures'[u] = failures[u]
      BY <2>7, <3>1, <3>2
    <3> QED
      BY <3>4, <3>5, <3>6, <3>7, <3>8 DEF Filled
  <2>8. CASE Works(u)
    <3>1. UNCHANGED <<args, step, result, temp, failures>>
      BY <2>8 DEF Works
    <3>2. Decoded(u)' = Decoded(u) /\ Filled(u) /\ Active(u)
      BY <1>2, <1>4, <2>1, <3>1 DEF Decoded, Active
    <3> QED
      BY <1>2, <2>2, <3>1, <3>2 DEF Filled
  <2> QED
    BY <2>2, <2>3, <2>5, <2>6, <2>7, <2>8, EarlySteps
<1> QED
  BY <1>3, <1>4

-----------------------------------------------------------------------------
(* What the last command makes of it                                       *)

LEMMA DataIs == \A u : Data(u) = Part(u, size[u])
  BY DEF Data, Part

\* After no failure the temporary file is the whole file; after one, if the length
\* is right.
LEMMA FinishFinds ==
  ASSUME UploadInv, NEW u \in Writers, FinishUpload(u), u \notin shared
  PROVE  /\ failures[u] = 0 =>
              temp[path[u]] # Absent /\ Decoded(u) = Data(u) /\ Len(Decoded(u)) = size[u]
         /\ failures[u] = 1 /\ Len(Decoded(u)) = size[u] => Decoded(u) = Data(u)
<1> DEFINE n == size[u]
           D == Decoded(u)
<1>1. Types /\ u \in Uploads /\ step[u] = n + 1 /\ result[u] = "none" /\ n \in Nat
  BY DEF FinishUpload, UploadInv, Types
<1>2. Active(u) /\ step[u] - 1 = n /\ step[u] - 2 = n - 1
  BY <1>1 DEF Active
<1>3. Filled(u)
  BY <1>1 DEF UploadInv
<1>4. D \in Contents /\ Len(D) \in Nat /\ (temp[path[u]] # Absent => D = temp[path[u]])
  BY <1>1, DecodedIs
<1>5. Part(u, n) \in Contents /\ Len(Part(u, n)) = n /\ Data(u) = Part(u, n)
  <2> HIDE DEF n
  <2>1. Part(u, n) \in Contents /\ Len(Part(u, n)) = n
    BY <1>1, PartIs
  <2> QED
    BY <2>1, DataIs DEF n
<1> HIDE DEF n, D
<1>6. ASSUME failures[u] = 0
      PROVE  temp[path[u]] # Absent /\ D = Data(u) /\ Len(D) = n
  <2>1. temp[path[u]] = Part(u, n)
    BY <1>2, <1>3, <1>6 DEF Filled
  <2>2. Part(u, n) # Absent
    BY <1>5, AbsentAssumption DEF Contents
  <2> QED
    BY <1>4, <1>5, <2>1, <2>2
<1>7. ASSUME failures[u] = 1, Len(D) = n
      PROVE  D = Data(u)
  <2>1. Len(D) = n - 1 \/ EndsWith(D, u, n)
    BY <1>2, <1>3, <1>7 DEF Filled, D
  <2>2. EndsWith(D, u, n)
    BY <1>1, <1>7, <2>1
  <2> QED
    BY <1>1, <1>4, <1>5, <1>7, <2>2, EndsWithAll
<1> QED
  BY <1>6, <1>7 DEF n, D

\* An upload that reports success did so in its last command.
LEMMA OkByFinish ==
  ASSUME Types, AtWork, NEW u \in Uploads, u \in Writers, Acts(u), result'[u] = "ok"
  PROVE  FinishUpload(u)
<1>1. result[u] = "none" /\ u \notin Creates
  BY ActsApart, CallsAssumption
<1>2. ~Begin(u) /\ ~AppendChunk(u)
  BY <1>1, EarlySteps
<1> QED
  BY <1>1, <1>2 DEF Acts, Create

LEMMA OkIsWholeStep ==
  ASSUME UploadInv, NEW u \in Writers, Acts(u)
  PROVE  OkIsWhole'
<1>1. Types /\ AtWork /\ OkIsWhole /\ (result[u] = "none" => landed[u] = Absent)
  BY DEF UploadInv
<1>2. /\ UNCHANGED args /\ result[u] = "none" /\ shared \subseteq shared'
      /\ \A v \in Writers \ {u} : /\ step'[v] = step[v] /\ result'[v] = result[v]
                                  /\ landed'[v] = landed[v] /\ failures'[v] = failures[v]
      /\ failures'[u] \in {failures[u], failures[u] + 1}
  BY <1>1, ActsApart
<1>3. UNCHANGED <<form, path, size>> /\ \A v : Data(v)' = Data(v)
  BY <1>2 DEF args, Data
<1>4. ASSUME NEW v \in Uploads \ {u}, result'[v] = "ok", v \notin shared', failures'[v] < 2
      PROVE  landed'[v] = Data(v) \/ (form = "windows" /\ failures'[v] = 1 /\ landed'[v] = Absent)
  <2>1. v \in Writers \ {u}
    BY DEF Writers
  <2> QED
    BY <1>1, <1>2, <1>4, <2>1 DEF OkIsWhole
<1>5. ASSUME u \in Uploads, result'[u] = "ok", u \notin shared', failures'[u] < 2
      PROVE  landed'[u] = Data(u) \/ (form = "windows" /\ failures'[u] = 1 /\ landed'[u] = Absent)
  <2> DEFINE D == Decoded(u)
  <2>1. FinishUpload(u) /\ u \notin shared
    BY <1>1, <1>2, <1>5, OkByFinish
  <2>2. Clean(u) \/ Marred(u)
    BY <1>1, <1>2, <1>5, <2>1, FinishKinds DEF Works
  <2>3. /\ failures[u] = 0 => D = Data(u) /\ Len(D) = size[u]
        /\ failures[u] = 1 /\ Len(D) = size[u] => D = Data(u)
    BY <2>1, FinishFinds
  <2>4. /\ failures[u] \in Nat /\ size[u] \in Nat /\ D \in Contents /\ Len(D) \in Nat
        /\ DOMAIN result = Writers /\ DOMAIN landed = Writers /\ DOMAIN failures = Writers
    BY <1>1, DecodedIs DEF Types
  <2>5. \A content : Verdict(u, content) = "ok" => Len(content) = size[u]
    BY DEF Verdict
  <2> HIDE DEF D
  <2>6. CASE Clean(u)
    <3>1. Verdict(u, D) = "ok" /\ landed'[u] = D /\ failures' = failures
      BY <1>5, <2>4, <2>6 DEF Clean, Ends, Returns, D
    <3>2. failures[u] \in {0, 1}
      BY <1>5, <2>4, <3>1
    <3> QED
      BY <2>3, <2>5, <3>1, <3>2
  <2>7. CASE Marred(u)
    <3>1. failures'[u] = failures[u] + 1
      BY <2>4, <2>7 DEF Marred, Fails
    <3>2. failures[u] = 0 /\ failures'[u] = 1
      BY <1>5, <2>4, <3>1
    <3>3. form = "windows" /\ Verdict(u, file[path[u]]) = "ok"
      BY <1>5, <2>4, <2>7 DEF Marred, Returns
    <3>4. CASE landed' = landed
      BY <1>1, <1>2, <3>2, <3>3, <3>4
    <3>5. CASE u \in writing /\ landed' = [landed EXCEPT ![u] = file[path[u]]]
      <4>1. PICK n \in 0 .. Len(D) : file[path[u]] = SubSeq(D, 1, n)
        BY <1>1, <3>5 DEF AtWork, D
      <4>2. Len(file[path[u]]) = n /\ (n = Len(D) => file[path[u]] = D)
        BY <2>4, <4>1, PrefixIsAll
      <4>3. landed'[u] = file[path[u]]
        BY <2>4, <3>5
      <4> QED
        BY <2>3, <2>5, <3>2, <3>3, <4>2, <4>3
    <3> QED
      BY <2>7, <3>4, <3>5 DEF Marred
  <2> QED
    BY <2>2, <2>6, <2>7
<1> QED
  BY <1>3, <1>4, <1>5 DEF OkIsWhole

LEMMA ErrHasCauseStep ==
  ASSUME UploadInv, NEW u \in Writers, Acts(u)
  PROVE  ErrHasCause'
<1>1. Types /\ AtWork /\ ErrHasCause
  BY DEF UploadInv
<1>2. /\ result[u] = "none" /\ shared \subseteq shared'
      /\ \A v \in Writers \ {u} : result'[v] = result[v] /\ failures'[v] = failures[v]
      /\ failures'[u] \in {failures[u], failures[u] + 1}
  BY <1>1, ActsApart
<1>3. ASSUME u \in Uploads, result'[u] = "err"  PROVE u \in shared' \/ failures'[u] > 0
  <2>1. failures[u] \in Nat /\ DOMAIN result = Writers /\ DOMAIN failures = Writers
    BY <1>1 DEF Types
  <2>2. CASE Begin(u) \/ AppendChunk(u)
    BY <1>1, <1>2, <1>3, <2>1, <2>2, EarlySteps
  <2>3. CASE FinishUpload(u)
    <3>1. Clean(u) \/ Marred(u)
      BY <1>1, <1>2, <1>3, <2>3, FinishKinds DEF Works
    <3>2. CASE Marred(u)
      BY <2>1, <3>2 DEF Marred, Fails
    <3>3. CASE Clean(u) /\ failures[u] = 0 /\ u \notin shared
      <4>1. temp[path[u]] # Absent /\ Decoded(u) = Data(u) /\ Len(Decoded(u)) = size[u]
        BY <2>3, <3>3, FinishFinds
      <4>2. Decoded(u) # Absent
        BY <1>1, DecodedIs, AbsentAssumption DEF Contents
      <4>3. Verdict(u, Decoded(u)) = "ok"
        BY <4>1, <4>2 DEF Verdict
      <4> QED
        BY <1>3, <2>1, <3>3, <4>3 DEF Clean, Ends, Returns
    <3>4. CASE Clean(u) /\ (failures[u] # 0 \/ u \in shared)
      BY <1>2, <2>1, <3>4 DEF Clean
    <3> QED
      BY <3>1, <3>2, <3>3, <3>4
  <2>4. CASE Create(u)
    BY <1>3, <2>4, CallsAssumption DEF Create
  <2> QED
    BY <2>2, <2>3, <2>4 DEF Acts
<1>4. ASSUME NEW v \in Uploads \ {u}, result'[v] = "err"  PROVE v \in shared' \/ failures'[v] > 0
  <2>1. v \in Writers \ {u}
    BY DEF Writers
  <2> QED
    BY <1>1, <1>2, <1>4, <2>1 DEF ErrHasCause
<1> QED
  BY <1>3, <1>4 DEF ErrHasCause

\* What a call left in the target stays unknown until it returns.
LEMMA LandedStep ==
  ASSUME Types, AtWork, \A v \in Writers : result[v] = "none" => landed[v] = Absent,
         NEW u \in Writers, Acts(u)
  PROVE  \A v \in Writers : result'[v] = "none" => landed'[v] = Absent
<1>1. /\ result[u] = "none"
      /\ \A v \in Writers \ {u} : result'[v] = result[v] /\ landed'[v] = landed[v]
  BY ActsApart
<1>2. ASSUME result'[u] = "none"  PROVE landed'[u] = Absent
  <2>1. DOMAIN result = Writers
    BY DEF Types
  <2>2. ASSUME FinishUpload(u)  PROVE Works(u)
    <3>1. Works(u) \/ Clean(u) \/ Marred(u)
      BY <2>2, FinishKinds
    <3> QED
      BY <1>2, <2>1, <3>1 DEF Clean, Ends, Marred, Returns, Verdict
  <2>3. ~Create(u)
    BY <1>2, <2>1 DEF Create, Returns
  <2>4. UNCHANGED landed
    BY <2>2, <2>3, EarlySteps DEF Acts, Works
  <2> QED
    BY <1>1, <2>4
<1> QED
  BY <1>1, <1>2

\* The last command of a call that nothing disturbed writes its data.
LEMMA CleanFinish ==
  ASSUME UploadInv, NEW u \in Writers, FinishUpload(u), failures'[u] = 0, u \notin shared
  PROVE  \/ /\ writing' = {u} /\ result' = result
            /\ \E n \in 0 .. size[u] : file'[path[u]] = Part(u, n)
         \/ result'[u] = "ok" /\ file'[path[u]] = Data(u)
<1>1. /\ Types /\ AtWork /\ u \in Uploads
      /\ Works(u) \/ Clean(u) \/ Marred(u)
  BY FinishKinds DEF UploadInv
<1>2. /\ failures[u] \in Nat /\ size[u] \in Nat /\ path[u] \in Paths
      /\ DOMAIN failures = Writers /\ DOMAIN file = Paths /\ DOMAIN result = Writers
  BY <1>1 DEF Types
<1>3. ~Marred(u) /\ failures[u] = 0
  <2>1. Fails(u) => failures'[u] = failures[u] + 1
    BY <1>2 DEF Fails
  <2> QED
    BY <1>1, <1>2, <2>1 DEF Marred, Works, Clean
<1>4. temp[path[u]] # Absent /\ Decoded(u) = Data(u) /\ Len(Decoded(u)) = size[u]
  BY <1>3, FinishFinds
<1>5. CASE Works(u)
  <2>1. PICK n \in 0 .. Len(Decoded(u)) : file' = [file EXCEPT ![path[u]] = SubSeq(Decoded(u), 1, n)]
    BY <1>5 DEF Works
  <2>2. file'[path[u]] = SubSeq(Data(u), 1, n) /\ n \in 0 .. size[u]
    BY <1>2, <1>4, <2>1
  <2>3. SubSeq(Data(u), 1, n) = Part(u, n)
    BY <1>2, <2>2 DEF Data, Part
  <2> QED
    BY <1>5, <2>2, <2>3 DEF Works
<1>6. CASE Clean(u)
  <2>1. Decoded(u) # Absent
    BY <1>1, DecodedIs, AbsentAssumption DEF Contents
  <2>2. Verdict(u, Decoded(u)) = "ok"
    BY <1>4, <2>1 DEF Verdict
  <2> QED
    BY <1>2, <1>4, <1>6, <2>2 DEF Clean, Ends, Returns
<1> QED
  BY <1>1, <1>3, <1>5, <1>6

\* Without a failure and without an overlap, a target changes from one whole to
\* the next, through the beginnings of that.
LEMMA NoSilentDamageStep ==
  ASSUME UploadInv, NEW u \in Writers, Acts(u)
  PROVE  NoSilentDamage'
<1>1. Types /\ AtWork /\ NoSilentDamage
  BY DEF UploadInv
<1>2. /\ UNCHANGED args /\ shared \subseteq shared'
      /\ \A v \in Writers \ {u} : failures'[v] = failures[v] /\ result'[v] = result[v]
      /\ \A p \in Paths \ {path[u]} : file'[p] = file[p]
      /\ failures'[u] \in {failures[u], failures[u] + 1}
      /\ result[u] = "none" /\ writing \subseteq {u} /\ writing' \subseteq {u}
  BY <1>1, ActsApart
<1>3. UNCHANGED <<path, size>> /\ \A v : Data(v)' = Data(v)
  BY <1>2 DEF args, Data, Part
<1> DEFINE Calls(p) == {v \in Writers : path[v] = p}
           Done(v)  == result[v] = "ok"
<1>4. SUFFICES ASSUME NEW p \in Paths, \A v \in Calls(p) : failures'[v] = 0 /\ v \notin shared'
               PROVE  \/ (\A v \in Calls(p) : ~Done(v)') /\ file'[p] \in {Absent, Old}
                      \/ \E v \in Calls(p) : Done(v)' /\ file'[p] = Data(v)
                      \/ \E v \in Calls(p) \cap writing' : \E n \in 0 .. size[v] : file'[p] = Part(v, n)
  BY <1>3 DEF NoSilentDamage
<1>5. \A v \in Calls(p) : failures[v] = 0 /\ v \notin shared
  <2>1. failures[u] \in Nat
    BY <1>1 DEF Types
  <2> QED
    BY <1>2, <1>4, <2>1
<1>6. \/ (\A v \in Calls(p) : ~Done(v)) /\ file[p] \in {Absent, Old}
      \/ \E v \in Calls(p) : Done(v) /\ file[p] = Data(v)
      \/ \E v \in Calls(p) \cap writing : \E n \in 0 .. size[v] : file[p] = Part(v, n)
  BY <1>1, <1>5 DEF NoSilentDamage
<1>7. CASE path[u] # p
  <2>1. u \notin Calls(p) /\ Calls(p) \cap writing = {} /\ file'[p] = file[p]
    BY <1>2, <1>7
  <2>2. \A v \in Calls(p) : Done(v)' <=> Done(v)
    BY <1>2, <2>1
  <2> QED
    BY <1>6, <2>1, <2>2
<1>8. CASE path[u] = p
  <2>1. u \in Calls(p) /\ failures[u] = 0 /\ failures'[u] = 0 /\ u \notin shared
    BY <1>4, <1>5, <1>8
  <2>2. DOMAIN failures = Writers /\ DOMAIN file = Paths /\ DOMAIN result = Writers
    BY <1>1 DEF Types
  <2>3. ~Fails(u)
    BY <2>1, <2>2 DEF Fails
  <2>4. CASE Begin(u) \/ AppendChunk(u)
    <3>1. file' = file /\ writing' = writing /\ result' = result
      BY <1>1, <2>1, <2>4, EarlySteps
    <3> QED
      BY <1>6, <3>1
  <2>5. CASE FinishUpload(u)
    BY <1>8, <2>1, <2>5, CleanFinish
  <2>6. CASE Create(u)
    <3>1. Lands(u, <<>>) /\ Returns(u, "ok") /\ size[u] = 0
      BY <1>1, <2>3, <2>6 DEF Create, Types
    <3>2. Data(u) = <<>>
      BY <3>1 DEF Data, Part
    <3>3. file'[p] = Data(u) /\ Done(u)'
      BY <1>8, <2>2, <3>1, <3>2 DEF Lands, Returns
    <3> QED
      BY <2>1, <3>3
  <2> QED
    BY <2>4, <2>5, <2>6 DEF Acts
<1> QED
  BY <1>7, <1>8

\* The call that succeeds last removes the temporary file, or found none.
LEMMA NoLeftoverStep ==
  ASSUME UploadInv, NEW u \in Writers, Acts(u)
  PROVE  NoLeftover'
<1>1. Types /\ AtWork /\ NoLeftover
  BY DEF UploadInv
<1>2. /\ UNCHANGED args /\ result[u] = "none"
      /\ \A v \in Writers \ {u} : /\ step'[v] = step[v] /\ result'[v] = result[v]
                                  /\ failures'[v] = failures[v]
      /\ \A p \in Paths \ {path[u]} : temp'[p] = temp[p]
      /\ failures'[u] \in {failures[u], failures[u] + 1}
  BY <1>1, ActsApart
<1>3. UNCHANGED path /\ failures[u] \in Nat /\ step[u] \in Nat
      /\ DOMAIN failures = Writers /\ DOMAIN result = Writers /\ DOMAIN temp = Paths
  BY <1>1, <1>2 DEF args, Types
<1> DEFINE Begun(v) == step[v] > 0 \/ result[v] # "none"
           Done(v)  == result[v] = "ok" /\ failures[v] = 0
<1>4. SUFFICES ASSUME NEW p \in Paths,
                      \A v \in Writers : path[v] = p /\ Begun(v)' => Done(v)'
               PROVE  temp'[p] = Absent
  BY <1>3 DEF NoLeftover
<1>5. \A v \in Writers \ {u} : path[v] = p /\ Begun(v) => Done(v)
  BY <1>2, <1>4
<1>6. (path[u] = p => ~Begun(u)) => temp[p] = Absent
  BY <1>1, <1>5 DEF NoLeftover
<1>7. CASE path[u] # p
  BY <1>2, <1>6, <1>7
<1>8. CASE path[u] = p
  <2>1. result'[u] = "ok" /\ ~Fails(u)
    <3>1. CASE Begin(u) \/ AppendChunk(u)
      <4>1. Begun(u)'
        BY <1>1, <1>3, <3>1, EarlySteps
      <4> QED
        BY <1>1, <1>2, <1>4, <1>8, <3>1, <4>1, EarlySteps
    <3>2. CASE FinishUpload(u)
      <4>1. Works(u) \/ Clean(u) \/ Marred(u)
        BY <1>1, <3>2, FinishKinds
      <4>2. Begun(u)'
        <5>1. step[u] > 0 /\ step' = step
          BY <1>1, <1>3, <3>2, <4>1 DEF FinishUpload, Types, Works, Clean, Ends, Marred, Returns
        <5> QED
          BY <1>3, <5>1
      <4> QED
        BY <1>3, <1>4, <1>8, <4>2 DEF Fails
    <3>3. CASE Create(u)
      <4>1. Begun(u)'
        BY <1>3, <3>3 DEF Create, Returns
      <4> QED
        BY <1>3, <1>4, <1>8, <4>1 DEF Fails
    <3> QED
      BY <3>1, <3>2, <3>3 DEF Acts
  <2>2. CASE FinishUpload(u)
    <3>1. Clean(u)
      BY <1>1, <1>2, <2>1, <2>2, FinishKinds DEF Marred, Works
    <3> QED
      BY <1>3, <1>8, <3>1 DEF Clean, RemoveTemp
  <2>3. CASE Create(u)
    <3>1. step[u] = 0 /\ (RemoveTemp(p) \/ UNCHANGED temp)
      BY <1>8, <2>1, <2>3 DEF Create
    <3>2. CASE RemoveTemp(p)
      BY <1>3, <3>2 DEF RemoveTemp
    <3>3. CASE UNCHANGED temp
      BY <1>2, <1>6, <3>1, <3>3
    <3> QED
      BY <3>1, <3>2, <3>3
  <2>4. ~(Begin(u) \/ AppendChunk(u))
    BY <1>1, <1>2, <2>1, EarlySteps
  <2> QED
    BY <2>2, <2>3, <2>4 DEF Acts
<1> QED
  BY <1>7, <1>8

-----------------------------------------------------------------------------
(* The theorems                                                            *)

LEMMA UploadInit == Init => UploadInv
<1> SUFFICES ASSUME Init  PROVE UploadInv
  OBVIOUS
<1>1. Types
  <2>1. <<"old", 1>> \in (Writers \cup {"old"}) \X Nat
    OBVIOUS
  <2>2. Old \in Contents
    <3> DEFINE S == (Writers \cup {"old"}) \X Nat
               c == <<"old", 1>>
    <3>1. c \in S
      BY <2>1
    <3> HIDE DEF S, c
    <3>2. << c >> \in Seq(S)
      BY <3>1
    <3> QED
      BY <3>2 DEF Old, Contents, S, c
  <2>3. /\ file \in [Paths -> Contents \cup {Absent}]
        /\ temp \in [Paths -> Contents \cup {Absent}]
        /\ landed \in [Writers -> Contents \cup {Absent}]
    BY <2>2 DEF Init
  <2>4. size \in [Writers -> Nat] /\ \A k \in Creates : size[k] = 0
    <3>1. 0 .. Chunks \subseteq Nat
      BY ChunksAssumption
    <3> QED
      BY <3>1 DEF Init
  <2> QED
    BY <2>3, <2>4 DEF Init, Types
<1>2. \A u \in Writers : /\ ~Active(u) /\ step[u] = 0 /\ result[u] = "none"
                         /\ landed[u] = Absent
  BY DEF Init, Active
<1>3. Uploads \subseteq Writers
  BY DEF Writers
<1>4. Disjoint /\ \A u \in Uploads : Filled(u)
  BY <1>2, <1>3 DEF Disjoint, Filled
<1>5. OkIsWhole /\ ErrHasCause
  BY <1>2, <1>3 DEF OkIsWhole, ErrHasCause
<1>6. NoSilentDamage
  BY <1>2 DEF Init, NoSilentDamage
<1>7. NoLeftover
  BY DEF Init, NoLeftover
<1>8. AtWork
  BY DEF Init, AtWork
<1> QED
  BY <1>1, <1>2, <1>4, <1>5, <1>6, <1>7, <1>8 DEF UploadInv

LEMMA UploadNext == UploadInv /\ [Next]_vars => UploadInv'
<1> SUFFICES ASSUME UploadInv, [Next]_vars  PROVE UploadInv'
  OBVIOUS
<1>1. ASSUME NEW u \in Writers, Acts(u)  PROVE UploadInv'
  <2>1. /\ Types /\ AtWork /\ Disjoint /\ \A v \in Uploads : Filled(v)
        /\ \A v \in Writers : result[v] = "none" => landed[v] = Absent
    BY DEF UploadInv
  <2>2. Types' /\ AtWork' /\ Disjoint'
    BY <1>1, <2>1, TypesStep, AtWorkStep, DisjointStep
  <2>3. \A v \in Writers : result'[v] = "none" => landed'[v] = Absent
    BY <1>1, <2>1, LandedStep
  <2>4. \A v \in Uploads : Filled(v)'
    BY <1>1, <2>1, FilledStep
  <2>5. OkIsWhole' /\ ErrHasCause'
    BY <1>1, OkIsWholeStep, ErrHasCauseStep
  <2>6. NoSilentDamage' /\ NoLeftover'
    BY <1>1, NoSilentDamageStep, NoLeftoverStep
  <2> QED
    BY <2>2, <2>3, <2>4, <2>5, <2>6 DEF UploadInv
<1>2. CASE UNCHANGED vars
  <2>1. UNCHANGED <<form, path, size, file, temp, step, result, landed, shared, failures, writing>>
    BY <1>2 DEF vars, args
  <2>2. \A u : Data(u)' = Data(u) /\ Decoded(u)' = Decoded(u) /\ (Active(u)' <=> Active(u))
    BY <2>1 DEF Data, Part, Decoded, Active
  <2>3. Types' /\ AtWork' /\ Disjoint' /\ \A u \in Uploads : Filled(u)'
    BY <2>1, <2>2 DEF UploadInv, Types, AtWork, Disjoint, Filled, Part, EndsWith
  <2>4. OkIsWhole' /\ ErrHasCause'
    BY <2>1, <2>2 DEF UploadInv, OkIsWhole, ErrHasCause
  <2>5. NoSilentDamage'
    BY <2>1, <2>2 DEF UploadInv, NoSilentDamage
  <2>6. NoLeftover'
    BY <2>1 DEF UploadInv, NoLeftover
  <2> QED
    BY <2>1, <2>3, <2>4, <2>5, <2>6 DEF UploadInv
<1> QED
  BY <1>1, <1>2 DEF Next, Acts

\* What a temporary file holds is known from the calls that are at work on its
\* path, for every mix of uploads, creations, failures and overlaps.
THEOREM UploadInvariance == Spec => []UploadInv
  BY UploadInit, UploadNext, PTL DEF Spec

\* An upload that reports success wrote the whole of its data, whatever earlier
\* attempts left behind, even if one of its commands failed unnoticed.
THEOREM OkIsWholeHolds == Spec => []OkIsWhole
<1>1. UploadInv => OkIsWhole
  BY DEF UploadInv
<1> QED
  BY <1>1, UploadInvariance, PTL

\* An upload that reports an error had a command that failed, or company.
THEOREM ErrHasCauseHolds == Spec => []ErrHasCause
<1>1. UploadInv => ErrHasCause
  BY DEF UploadInv
<1> QED
  BY <1>1, UploadInvariance, PTL

\* Without a failure and without an overlap, a target holds whole data, or the
\* beginning of what the last command at work on it writes, in every state.
THEOREM NoSilentDamageHolds == Spec => []NoSilentDamage
<1>1. UploadInv => NoSilentDamage
  BY DEF UploadInv
<1> QED
  BY <1>1, UploadInvariance, PTL

\* When every call on a path succeeded, its temporary file is gone.
THEOREM NoLeftoverHolds == Spec => []NoLeftover
<1>1. UploadInv => NoLeftover
  BY DEF UploadInv
<1> QED
  BY <1>1, UploadInvariance, PTL

-----------------------------------------------------------------------------
(* Remote platform detection                                               *)

Phases == {"start", "asking", "storing", "choosing", "returned"}
Forms  == {"unix", "windows", "rejected", "skipped"}

PlatformTypes ==
  /\ host     \in Platforms
  /\ gone     \in BOOLEAN
  /\ cache    \in Platforms \cup {"none"}
  /\ phase    \in [Ops -> Phases]
  /\ asked    \in SUBSET Ops
  /\ seen     \in [Ops -> Platforms \cup {"none"}]
  /\ command  \in [Ops -> Forms \cup {"none"}]
  /\ misheard \in BOOLEAN

\* Nothing can have told an operation a platform other than the host's: a host
\* that is Unix is never taken for another, the others only after a mishap.
Truthful == host = "Unix" \/ ~misheard

\* What an operation and the cache know of the host, and what was sent.
Knows(o) ==
  /\ phase[o] \in {"storing", "choosing", "returned"} => seen[o] # "none"
  /\ Truthful => seen[o] \in {"none", host}
  /\ Truthful => command[o] \in {"none", FormOf(o, host)}

PlatformInv ==
  /\ PlatformTypes
  /\ Truthful => cache \in {"none", host}
  /\ \A o \in Ops : Knows(o)

-----------------------------------------------------------------------------
(* What is made of the answer                                              *)

Lines == {"PORTIX_DETECT", "%OS%", ":OS", "Windows_NT", "$env:OS"}

\* The lines that a host prints.
LEMMA EchoLines ==
  ASSUME NEW h \in Platforms
  PROVE  /\ Echo[h] \in Seq(Lines) /\ Len(Echo[h]) = 3
         /\ "Windows_NT" \in ToSet(Echo[h]) <=> h # "Unix"
         /\ "%OS%" \in ToSet(Echo[h]) <=> h # "WindowsCmd"
<1>1. /\ Echo["Unix"] = <<"PORTIX_DETECT", "%OS%", ":OS">>
      /\ Echo["WindowsCmd"] = <<"PORTIX_DETECT", "Windows_NT", "$env:OS">>
      /\ Echo["WindowsPowerShell"] = <<"PORTIX_DETECT", "%OS%", "Windows_NT">>
  BY DEF Echo
<1>2. ASSUME NEW a \in Lines, NEW b \in Lines, NEW c \in Lines, Echo[h] = <<a, b, c>>
      PROVE  Echo[h] \in Seq(Lines) /\ Len(Echo[h]) = 3 /\ ToSet(Echo[h]) = {a, b, c}
  <2>1. /\ <<a, b, c>> \in Seq(Lines) /\ Len(<<a, b, c>>) = 3
        /\ ToSet(<<a, b, c>>) = {a, b, c}
    <3> HIDE DEF Lines
    <3> QED
      BY ToSetThree
  <2> QED
    BY <1>2, <2>1, Zenon
<1>3. CASE h = "Unix"
  <2>1. /\ Echo[h] \in Seq(Lines) /\ Len(Echo[h]) = 3
        /\ ToSet(Echo[h]) = {"PORTIX_DETECT", "%OS%", ":OS"}
    BY <1>1, <1>2, <1>3 DEF Lines
  <2> QED
    BY <1>3, <2>1
<1>4. CASE h = "WindowsCmd"
  <2>1. /\ Echo[h] \in Seq(Lines) /\ Len(Echo[h]) = 3
        /\ ToSet(Echo[h]) = {"PORTIX_DETECT", "Windows_NT", "$env:OS"}
    BY <1>1, <1>2, <1>4 DEF Lines
  <2> QED
    BY <1>4, <2>1
<1>5. CASE h = "WindowsPowerShell"
  <2>1. /\ Echo[h] \in Seq(Lines) /\ Len(Echo[h]) = 3
        /\ ToSet(Echo[h]) = {"PORTIX_DETECT", "%OS%", "Windows_NT"}
    BY <1>1, <1>2, <1>5 DEF Lines
  <2> QED
    BY <1>5, <2>1
<1> QED
  BY <1>3, <1>4, <1>5 DEF Platforms

\* A whole answer is read as the host that gave it.
LEMMA WholeEcho ==
  ASSUME NEW h \in Platforms
  PROVE  Classify(SubSeq(Echo[h], 1, Len(Echo[h]))) = h
<1>1. SubSeq(Echo[h], 1, Len(Echo[h])) = Echo[h]
  BY EchoLines, SubSeqFull
<1> QED
  BY <1>1, EchoLines DEF Classify, Platforms

\* A Unix host is recognized by any part of its answer, an empty one included.
LEMMA PartialEcho ==
  ASSUME NEW n \in 0 .. Len(Echo["Unix"])
  PROVE  Classify(SubSeq(Echo["Unix"], 1, n)) = "Unix"
<1>1. "Windows_NT" \notin ToSet(Echo["Unix"])
  BY EchoLines DEF Platforms
<1>2. ToSet(SubSeq(Echo["Unix"], 1, n)) \subseteq ToSet(Echo["Unix"])
  BY EchoLines, ToSetPrefix DEF Platforms
<1> QED
  BY <1>1, <1>2 DEF Classify

\* Whatever was heard, a platform comes of it.
LEMMA ClassifyType ==
  ASSUME NEW lines
  PROVE  Classify(lines) \in Platforms
  BY DEF Classify, Platforms

-----------------------------------------------------------------------------
(* The invariant                                                           *)

\* Nothing is known and nothing was sent at the start.
LEMMA PlatformStarts == PlatformInit => PlatformInv
  BY DEF PlatformInit, PlatformInv, PlatformTypes, Phases, Platforms, Knows

\* What an operation hears is true of a truthful host.
LEMMA HearsTruth ==
  ASSUME PlatformInv, NEW o \in Ops, Hears(o)
  PROVE  /\ seen' \in [Ops -> Platforms \cup {"none"}] /\ seen'[o] # "none"
         /\ \A p \in Ops \ {o} : seen'[p] = seen[p]
         /\ misheard' \in BOOLEAN /\ (misheard => misheard')
         /\ Truthful' => seen'[o] = host
<1> USE DEF PlatformInv, PlatformTypes
<1>1. CASE \E n \in 0 .. Len(Echo[host]) :
             /\ seen' = [seen EXCEPT ![o] = Classify(SubSeq(Echo[host], 1, n))]
             /\ misheard' = (misheard \/ n < Len(Echo[host]))
  <2>1. PICK n \in 0 .. Len(Echo[host]) :
          /\ seen' = [seen EXCEPT ![o] = Classify(SubSeq(Echo[host], 1, n))]
          /\ misheard' = (misheard \/ n < Len(Echo[host]))
    BY <1>1
  <2>2. Classify(SubSeq(Echo[host], 1, n)) \in Platforms /\ "none" \notin Platforms
    BY ClassifyType DEF Platforms
  <2>3. host' = host /\ host \in Platforms
    BY DEF Hears
  <2>4. CASE n < Len(Echo[host])
    BY <2>1, <2>2, <2>3, <2>4, PartialEcho DEF Truthful
  <2>5. CASE n = Len(Echo[host])
    BY <2>1, <2>2, <2>3, <2>5, WholeEcho DEF Truthful
  <2>6. Len(Echo[host]) = 3
    BY <2>3, EchoLines
  <2> QED
    BY <2>4, <2>5, <2>6
<1>2. CASE seen' = [seen EXCEPT ![o] = "Unix"] /\ misheard' = TRUE
  BY <1>2 DEF Hears, Truthful, Platforms
<1> QED
  BY <1>1, <1>2 DEF Hears

\* One step of the system preserves the invariant.
LEMMA PlatformKeeps == PlatformInv /\ [PlatformNext]_platformVars => PlatformInv'
<1> SUFFICES ASSUME PlatformInv, [PlatformNext]_platformVars PROVE PlatformInv'
  OBVIOUS
<1> USE DEF PlatformInv, PlatformTypes
<1>1. CASE SessionEnds
  BY <1>1 DEF SessionEnds, Knows, Truthful, FormOf
<1>2. ASSUME NEW o \in Ops, CheckCache(o) PROVE PlatformInv'
  BY <1>2 DEF CheckCache, Moves, Phases, Knows, Truthful, FormOf
<1>3. ASSUME NEW o \in Ops, Hears(o) PROVE PlatformInv'
  <2>1. /\ UNCHANGED <<host, gone, cache, asked, command>>
        /\ phase' = [phase EXCEPT ![o] = "storing"]
    BY <1>3 DEF Hears, Moves
  <2>2. /\ seen' \in [Ops -> Platforms \cup {"none"}] /\ seen'[o] # "none"
        /\ \A p \in Ops \ {o} : seen'[p] = seen[p]
        /\ misheard' \in BOOLEAN /\ (Truthful' => Truthful)
        /\ Truthful' => seen'[o] = host
    BY <1>3, <2>1, HearsTruth DEF Truthful
  <2>3. PlatformTypes'
    BY <2>1, <2>2 DEF Phases
  <2>4. ASSUME NEW p \in Ops PROVE Knows(p)'
    BY <2>1, <2>2, <2>4 DEF Knows, FormOf
  <2> QED
    BY <2>1, <2>2, <2>3, <2>4
<1>4. ASSUME NEW o \in Ops, Store(o) PROVE PlatformInv'
  BY <1>4 DEF Store, Moves, Phases, Knows, Truthful, FormOf
<1>5. ASSUME NEW o \in Ops, Issue(o) PROVE PlatformInv'
  <2>1. FormOf(o, seen[o]) \in Forms
    BY DEF FormOf, Forms
  <2>2. PlatformTypes'
    BY <1>5, <2>1 DEF Issue, Moves, Phases
  <2>3. seen[o] # "none"
    BY <1>5 DEF Issue, Moves, Knows
  <2>4. ASSUME NEW p \in Ops PROVE Knows(p)'
    BY <1>5, <2>3, <2>4 DEF Issue, Moves, Knows, Truthful, FormOf
  <2> QED
    BY <1>5, <2>2, <2>4 DEF Issue, Truthful
<1>6. CASE UNCHANGED platformVars
  BY <1>6 DEF platformVars, Knows, Truthful, FormOf
<1> QED
  BY <1>1, <1>2, <1>3, <1>4, <1>5, <1>6 DEF PlatformNext

\* What the cache and the operations know of the host is true of a Unix host in
\* every reachable state, and of the others while no detection has failed.
THEOREM PlatformInvariance == PlatformSpec => []PlatformInv
  BY PlatformStarts, PlatformKeeps, PTL DEF PlatformSpec

\* A Unix host is never taken for another one.
THEOREM UnixIsSafeHolds == PlatformSpec => []UnixIsSafe
<1>1. PlatformInv => UnixIsSafe
  BY DEF PlatformInv, PlatformTypes, Knows, Truthful, FormOf, UnixIsSafe
<1> QED
  BY <1>1, PlatformInvariance, PTL

\* A command in the wrong form has a cause: a detection that failed or was cut.
THEOREM WrongFormHasCauseHolds == PlatformSpec => []WrongFormHasCause
<1>1. PlatformInv => WrongFormHasCause
  BY DEF PlatformInv, PlatformTypes, Knows, Truthful, WrongFormHasCause
<1> QED
  BY <1>1, PlatformInvariance, PTL
=============================================================================
