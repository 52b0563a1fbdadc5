-------------------------- MODULE CompletionProofs --------------------------
(***************************************************************************)
(* Proofs about Completion for every set of words, lines and texts and all *)
(* limits: what its sorting, its folds and its merge return, and that a    *)
(* request keeps to them.                                                  *)
(***************************************************************************)
EXTENDS Completion, SequenceLemmas

Sources == {"git", "branch", "env", "option", "command", "directory", "file", "history"}
Items   == [source : Sources, text : Nat]

\* The texts of a list.
TextsOf(items) == {i.text : i \in ToSet(items)}

-----------------------------------------------------------------------------
(* The order of items                                                      *)

\* No two sources share a score and a rank, so that two items are only ever
\* alike when they are equal.
LEMMA SourcesDiffer ==
  ASSUME NEW s \in Sources, NEW t \in Sources
  PROVE  /\ Score[s] \in Nat /\ Rank[s] \in Nat
         /\ Score[s] = Score[t] /\ Rank[s] = Rank[t] => s = t
<1>1. /\ Score["git"] = 95 /\ Score["branch"] = 85 /\ Score["env"] = 90 /\ Score["option"] = 90
      /\ Score["command"] = 80 /\ Score["directory"] = 75 /\ Score["file"] = 65
      /\ Score["history"] = 20
  BY DEF Score
<1>2. /\ Rank["git"] = 0 /\ Rank["branch"] = 0 /\ Rank["env"] = 1 /\ Rank["option"] = 2
      /\ Rank["command"] = 2 /\ Rank["directory"] = 3 /\ Rank["file"] = 4
      /\ Rank["history"] = 6
  BY DEF Rank
<1>3. Score[s] \in Nat /\ Rank[s] \in Nat
  BY <1>1, <1>2 DEF Sources
<1>4. ASSUME Score[s] = Score[t], Rank[s] = Rank[t]  PROVE s = t
  BY <1>1, <1>2, <1>4 DEF Sources
<1> QED
  BY <1>3, <1>4

\* The order in which ranked_dedup sorts is strict and total.
LEMMA PrecedesIs ==
  ASSUME NEW a \in Items, NEW b \in Items, NEW c \in Items
  PROVE  /\ ~Precedes(a, a)
         /\ Precedes(a, b) => ~Precedes(b, a)
         /\ a # b => Precedes(a, b) \/ Precedes(b, a)
         /\ Precedes(a, b) /\ Precedes(b, c) => Precedes(a, c)
         /\ Precedes(a, c) => Precedes(a, b) \/ Precedes(b, c)
<1>1. /\ a.source \in Sources /\ b.source \in Sources /\ c.source \in Sources
      /\ a.text \in Nat /\ b.text \in Nat /\ c.text \in Nat
      /\ a.source = b.source /\ a.text = b.text => a = b
  BY DEF Items
<1>2. \A s, t \in Sources : /\ Score[s] \in Nat /\ Rank[s] \in Nat
                            /\ Score[s] = Score[t] /\ Rank[s] = Rank[t] => s = t
  BY SourcesDiffer
<1>3. ~Precedes(a, a)
  BY <1>1, <1>2 DEF Precedes
<1>4. Precedes(a, b) => ~Precedes(b, a)
  BY <1>1, <1>2 DEF Precedes
<1>5. a # b => Precedes(a, b) \/ Precedes(b, a)
  BY <1>1, <1>2 DEF Precedes
<1>6. Precedes(a, b) /\ Precedes(b, c) => Precedes(a, c)
  BY <1>1, <1>2 DEF Precedes
<1>7. Precedes(a, c) => Precedes(a, b) \/ Precedes(b, c)
  BY <1>1, <1>2 DEF Precedes
<1> QED
  BY <1>3, <1>4, <1>5, <1>6, <1>7

\* A list is sorted without loss.
LEMMA SortedByIs ==
  ASSUME NEW list \in Seq(Items)
  PROVE  /\ SortedBy(list, Precedes) \in Seq(Items)
         /\ ToSet(SortedBy(list, Precedes)) = ToSet(list)
         /\ \A i, j \in DOMAIN SortedBy(list, Precedes) :
              i < j => ~Precedes(SortedBy(list, Precedes)[j], SortedBy(list, Precedes)[i])
         /\ IsInjective(list) => IsInjective(SortedBy(list, Precedes))
<1> DEFINE n == Len(list)
           D == DOMAIN list
           R == {p \in D \X D : Precedes(list[p[1]], list[p[2]])}
           place == [x \in D |-> Cardinality({y \in D : Precedes(list[y], list[x])
                                                  \/ (y < x /\ ~Precedes(list[x], list[y]))}) + 1]
           order == InPlace(place, D)
           sorted == [k \in DOMAIN order |-> list[order[k]]]
<1>1. n \in Nat /\ D = 1 .. n /\ \A i \in D : list[i] \in Items
  OBVIOUS
<1>2. D \subseteq Nat /\ IsFiniteSet(D)
  BY <1>1, FS_Interval
<1>3. \A i, j \in D : <<i, j>> \in R <=> Precedes(list[i], list[j])
  OBVIOUS
<1>4. SortedBy(list, Precedes) = sorted
  BY DEF SortedBy, InOrder, InPlace
<1>5. place = Place(Stably(R, D), D)
  <2>1. \A i, j \in D : (<<i, j>> \in Stably(R, D)) <=>
          (Precedes(list[i], list[j]) \/ (i < j /\ ~Precedes(list[j], list[i])))
    BY DEF Stably
  <2>2. \A x \in D : {y \in D : <<y, x>> \in Stably(R, D)} =
          {y \in D : Precedes(list[y], list[x]) \/ (y < x /\ ~Precedes(list[x], list[y]))}
    BY <2>1
  <2> QED
    BY <2>2 DEF Place
<1> HIDE DEF n, D, R, place
<1>6. KeyOrder(R, D)
  <2>1. \A x, y \in D : <<x, y>> \in R => <<y, x>> \notin R
    BY <1>1, <1>3, PrecedesIs
  <2>2. \A x, y, z \in D : <<x, z>> \in R => <<x, y>> \in R \/ <<y, z>> \in R
    BY <1>1, <1>3, PrecedesIs
  <2> QED
    BY <2>1, <2>2 DEF KeyOrder
<1> HIDE DEF order
<1>7. Sorts(sorted, list, R)
  BY <1>2, <1>5, <1>6, SortIs DEF D, order
<1>8. PICK ord \in [1 .. n -> D] :
        /\ sorted = [k \in 1 .. n |-> list[ord[k]]]
        /\ \A x \in D : \E k \in 1 .. n : ord[k] = x
        /\ \A i, j \in 1 .. n : i < j => ord[i] # ord[j] /\ <<ord[j], ord[i]>> \notin R
  <2>1. Cardinality(D) = n
    BY <1>1, FS_Interval
  <2> QED
    BY <1>7, <2>1 DEF Sorts, D
<1> HIDE DEF sorted
<1>9. sorted \in Seq(Items)
  <2>1. \A k \in 1 .. n : list[ord[k]] \in Items
    BY <1>1
  <2>2. sorted \in [1 .. n -> Items]
    BY <1>8, <2>1
  <2> QED
    BY <1>1, <2>2
<1>10. ToSet(sorted) = ToSet(list)
  <2>1. \A x \in ToSet(sorted) : x \in ToSet(list)
    BY <1>8 DEF ToSet, D
  <2>2. ASSUME NEW x \in D  PROVE list[x] \in ToSet(sorted)
    BY <1>8 DEF ToSet
  <2> QED
    BY <2>1, <2>2 DEF ToSet, D
<1>11. ASSUME NEW i \in DOMAIN sorted, NEW j \in DOMAIN sorted, i < j
       PROVE  ~Precedes(sorted[j], sorted[i])
  BY <1>3, <1>8, <1>11
<1>12. ASSUME IsInjective(list)  PROVE IsInjective(sorted)
  <2>1. SUFFICES ASSUME NEW i \in 1 .. n, NEW j \in 1 .. n, sorted[i] = sorted[j]  PROVE i = j
    BY <1>8 DEF IsInjective
  <2>2. ord[i] \in D /\ ord[j] \in D /\ list[ord[i]] = list[ord[j]]
    BY <1>8, <2>1
  <2>3. ord[i] = ord[j]
    BY <1>12, <2>2 DEF IsInjective, D
  <2>4. ~(i < j) /\ ~(j < i)
    BY <1>8, <2>3
  <2> QED
    BY <1>1, <2>4
<1> QED
  BY <1>4, <1>9, <1>10, <1>11, <1>12

-----------------------------------------------------------------------------
(* The merge                                                               *)

\* What the merge makes of one item.
MergeStep(acc, x) ==
  IF Len(acc) >= MergedItems \/ x.text \in TextsOf(acc) THEN acc ELSE Append(acc, x)

\* The merge goes from one list to the next by such steps.
MergeTrace(src, last) ==
  \E T \in [0 .. Len(src) -> Seq(Items)] :
    /\ T[0] = <<>>
    /\ \A k \in 1 .. Len(src) : T[k] = MergeStep(T[k - 1], src[k])
    /\ T[Len(src)] = last

LEMMA MergeFold ==
  ASSUME NEW local \in Seq(Items), NEW host \in Seq(Items), NEW src, src = local \o host
  PROVE  MergeTrace(src, Merge(local, host))
<1> DEFINE A == Seq(Items)
           step == [p \in A \X Items |-> MergeStep(p[1], p[2])]
           body(it) == [s \in SUBSET DOMAIN src |->
                          IF s = {} THEN <<>> ELSE MergeStep(it[s \ {Max(s)}], src[Max(s)])]
           iter == CHOOSE it : it = body(it)
<1>1. src \in Seq(Items) /\ Len(src) \in Nat /\ DOMAIN src = 1 .. Len(src)
  OBVIOUS
<1>2. Merge(local, host) = iter[DOMAIN src]
  BY DEF Merge, FoldLeft, MapThenFoldSet, MergeStep, TextsOf
<1>3. IsStep(step, A, Items) /\ <<>> \in A
  BY DEF IsStep, MergeStep
<1>4. \A acc \in A, x \in Items : step[<<acc, x>>] = MergeStep(acc, x)
  OBVIOUS
<1> HIDE DEF A, step, body, iter
<1>5. PICK it : IsFold(it, A, Items, <<>>, step, src)
  BY <1>1, <1>3, FoldExists
<1>6. it = body(it)
  <2>1. \A s \in SUBSET DOMAIN src : s # {} =>
          step[<<it[s \ {Max(s)}], src[Max(s)]>>] = MergeStep(it[s \ {Max(s)}], src[Max(s)])
    BY <1>4, <1>5 DEF IsFold
  <2> QED
    BY <1>5, <2>1 DEF IsFold, FoldOver, body
<1>7. iter = body(iter)
  BY <1>6 DEF iter
<1>8. iter[{}] = <<>>
  BY <1>7 DEF body
<1>9. ASSUME NEW k \in 1 .. Len(src)
      PROVE  iter[1 .. k] = MergeStep(iter[1 .. k - 1], src[k])
  <2>1. k \in Nat /\ k # 0 /\ 1 .. k \in SUBSET DOMAIN src
    BY <1>1
  <2>2. 1 .. k # {} /\ Max(1 .. k) = k /\ (1 .. k) \ {k} = 1 .. k - 1
    BY <2>1, Positions
  <2> QED
    BY <1>7, <2>1, <2>2 DEF body
<1>10. \A k \in 1 .. Len(src) : src[k] \in Items
  BY <1>1
<1>11. \A k \in 1 .. Len(src) : iter[1 .. k - 1] \in A =>
         iter[1 .. k] = step[<<iter[1 .. k - 1], src[k]>>]
  BY <1>4, <1>9, <1>10
<1>12. IsRun(iter, A, <<>>, step, src)
  BY <1>8, <1>11 DEF IsRun
<1>13. HasTrace(A, <<>>, step, src, iter[DOMAIN src])
  BY <1>1, <1>3, <1>12, FoldTrace
<1>14. PICK T \in [0 .. Len(src) -> A] :
         /\ T[0] = <<>>
         /\ \A k \in 1 .. Len(src) : T[k] = step[<<T[k - 1], src[k]>>]
         /\ T[Len(src)] = iter[DOMAIN src]
  BY <1>13 DEF HasTrace
<1>15. \A k \in 1 .. Len(src) : T[k - 1] \in A
  <2>1. \A k \in 1 .. Len(src) : k - 1 \in 0 .. Len(src)
    BY <1>1
  <2> QED
    BY <1>14, <2>1
<1>16. \A k \in 1 .. Len(src) : T[k] = MergeStep(T[k - 1], src[k])
  BY <1>4, <1>10, <1>14, <1>15
<1> QED
  BY <1>2, <1>14, <1>16 DEF A, MergeTrace

\* The places where a text is offered for the first time.
Firsts(src) == {k \in DOMAIN src : \A i \in 1 .. k - 1 : src[i].text # src[k].text}

\* What the merge has made of the first k items.
Merged(acc, k, src) ==
  /\ acc \in Seq(Items)
  /\ Len(acc) <= MergedItems
  /\ \A i, j \in DOMAIN acc : acc[i].text = acc[j].text => i = j
  /\ \A i \in 1 .. k : src[i].text \in TextsOf(acc) \/ Len(acc) = MergedItems
  /\ \A i \in DOMAIN acc : \E p \in Firsts(src) : p <= k /\ acc[i] = src[p]
  /\ \A p, q \in Firsts(src), j \in DOMAIN acc :
       p < q /\ acc[j] = src[q] => \E i \in 1 .. j - 1 : acc[i] = src[p]

\* A text is offered for the first time only once.
LEMMA FirstIsOne ==
  ASSUME NEW src \in Seq(Items), NEW p \in Firsts(src), NEW q \in Firsts(src), src[p].text = src[q].text
  PROVE  p = q
<1>1. p \in Nat /\ q \in Nat /\ p >= 1 /\ q >= 1
  BY DEF Firsts
<1>2. ~(p < q)
  <2>1. p < q => p \in 1 .. q - 1
    BY <1>1
  <2> QED
    BY <2>1 DEF Firsts
<1>3. ~(q < p)
  <2>1. q < p => q \in 1 .. p - 1
    BY <1>1
  <2> QED
    BY <2>1 DEF Firsts
<1> QED
  BY <1>1, <1>2, <1>3

\* One more: if it is added, then its text is new, and all earlier ones are there.
LEMMA MergeStepKeeps ==
  ASSUME NEW src \in Seq(Items), NEW k \in 1 .. Len(src), NEW acc, Merged(acc, k - 1, src)
  PROVE  Merged(MergeStep(acc, src[k]), k, src)
<1> DEFINE n == Len(acc)
           x == src[k]
           more == Append(acc, x)
<1>1. /\ Len(src) \in Nat /\ DOMAIN src = 1 .. Len(src)
      /\ k \in Nat /\ 1 <= k /\ k - 1 \in Nat
  OBVIOUS
<1>2. x \in Items /\ x.text \in Nat
  <2>1. x \in Items
    BY <1>1
  <2> HIDE DEF x
  <2> QED
    BY <2>1 DEF Items
<1>3. MergedItems \in Nat /\ acc \in Seq(Items) /\ n \in Nat /\ DOMAIN acc = 1 .. n /\ n <= MergedItems
  BY ItemsAssumption DEF Merged
<1>4. /\ n >= MergedItems => n = MergedItems
      /\ ~(n >= MergedItems) => n < MergedItems /\ n # MergedItems /\ n + 1 <= MergedItems
  <2>1. n \in Nat /\ MergedItems \in Nat /\ n <= MergedItems
    BY <1>3
  <2> HIDE DEF n
  <2> QED
    BY <2>1
<1>5. ASSUME NEW i \in 1 .. k, i # k  PROVE i \in 1 .. k - 1
  BY <1>1, <1>5
<1>6. \A p \in Firsts(src) : p \in Nat /\ (p <= k - 1 => p <= k)
  BY <1>1 DEF Firsts
<1>7. CASE Len(acc) >= MergedItems \/ x.text \in TextsOf(acc)
  <2>1. MergeStep(acc, x) = acc
    BY <1>7 DEF MergeStep
  <2>2. x.text \in TextsOf(acc) \/ Len(acc) = MergedItems
    BY <1>4, <1>7
  <2>3. \A i \in 1 .. k : src[i].text \in TextsOf(acc) \/ Len(acc) = MergedItems
    BY <1>5, <2>2 DEF Merged
  <2>4. \A i \in DOMAIN acc : \E p \in Firsts(src) : p <= k /\ acc[i] = src[p]
    BY <1>6 DEF Merged
  <2> QED
    BY <2>1, <2>3, <2>4 DEF Merged
<1>8. CASE ~(Len(acc) >= MergedItems \/ x.text \in TextsOf(acc))
  <2>1. MergeStep(acc, x) = more
    BY <1>8 DEF MergeStep
  <2>2. /\ more \in Seq(Items) /\ Len(more) = n + 1 /\ DOMAIN more = 1 .. n + 1
        /\ more[n + 1] = x /\ \A i \in 1 .. n : more[i] = acc[i]
    BY <1>2, <1>3, AppendProperties
  <2>3. ToSet(more) = ToSet(acc) \cup {x}
    BY <1>2, <1>3, ToSetAppend
  <2>4. TextsOf(more) = TextsOf(acc) \cup {x.text}
    BY <2>3 DEF TextsOf
  <2> HIDE DEF more
  <2>5. n < MergedItems /\ Len(acc) # MergedItems /\ x.text \notin TextsOf(acc) /\ n + 1 <= MergedItems
    BY <1>4, <1>8
  <2>6. \A i \in 1 .. n : acc[i] \in ToSet(acc) /\ acc[i].text \in TextsOf(acc)
    BY <1>3 DEF ToSet, TextsOf
  <2>7. \A i \in 1 .. n + 1 : i \in 1 .. n \/ i = n + 1
    BY <1>3
  <2>8. \A i, j \in DOMAIN more : more[i].text = more[j].text => i = j
    <3>1. \A i \in 1 .. n : more[i].text # x.text
      BY <2>2, <2>5, <2>6
    <3>2. \A i, j \in 1 .. n : more[i].text = more[j].text => i = j
      BY <1>3, <2>2 DEF Merged
    <3> QED
      BY <2>2, <2>7, <3>1, <3>2
  <2>9. \A i \in 1 .. k - 1 : src[i].text \in TextsOf(acc)
    BY <2>5 DEF Merged
  <2>10. \A i \in 1 .. k : src[i].text \in TextsOf(more)
    BY <1>5, <2>4, <2>9
  <2>11. k \in Firsts(src)
    BY <1>1, <2>5, <2>9 DEF Firsts
  <2>12. ASSUME NEW i \in DOMAIN more
         PROVE  \E p \in Firsts(src) : p <= k /\ more[i] = src[p]
    <3>1. CASE i = n + 1
      BY <1>1, <2>2, <2>11, <3>1
    <3>2. CASE i # n + 1
      <4>1. i \in 1 .. n /\ more[i] = acc[i]
        BY <2>2, <2>7, <3>2
      <4>2. PICK p \in Firsts(src) : p <= k - 1 /\ acc[i] = src[p]
        BY <1>3, <4>1 DEF Merged
      <4>3. p <= k
        BY <1>6, <4>2
      <4> QED
        BY <4>1, <4>2, <4>3
    <3> QED
      BY <3>1, <3>2
  <2>13. ASSUME NEW p \in Firsts(src), NEW q \in Firsts(src), NEW j \in DOMAIN more,
                p < q, more[j] = src[q]
         PROVE  \E i \in 1 .. j - 1 : more[i] = src[p]
    <3>1. CASE j # n + 1
      <4>1. j \in 1 .. n /\ acc[j] = src[q]
        BY <2>2, <2>7, <2>13, <3>1
      <4>2. PICK i \in 1 .. j - 1 : acc[i] = src[p]
        BY <1>3, <2>13, <4>1 DEF Merged
      <4>3. i \in 1 .. n
        BY <1>3, <4>1
      <4> QED
        BY <2>2, <4>2, <4>3
    <3>2. CASE j = n + 1
      <4>1. q = k
        <5>1. src[q].text = src[k].text
          BY <2>2, <2>13, <3>2
        <5> QED
          BY <2>11, <5>1, FirstIsOne
      <4>2. p \in 1 .. k - 1
        <5>1. p \in Nat /\ p >= 1
          BY <1>1 DEF Firsts
        <5> QED
          BY <1>1, <2>13, <4>1, <5>1
      <4>3. PICK i \in 1 .. n : acc[i].text = src[p].text
        BY <1>3, <2>9, <4>2 DEF TextsOf, ToSet
      <4>4. PICK r \in Firsts(src) : acc[i] = src[r]
        BY <1>3 DEF Merged
      <4>5. r = p
        BY <4>3, <4>4, FirstIsOne
      <4>6. i \in 1 .. j - 1
        BY <1>3, <3>2
      <4> QED
        BY <2>2, <4>4, <4>5, <4>6
    <3> QED
      BY <3>1, <3>2
  <2> QED
    BY <2>1, <2>2, <2>5, <2>8, <2>10, <2>12, <2>13 DEF Merged
<1> QED
  BY <1>7, <1>8

\* What the merge of two lists is.
LEMMA MergeIs ==
  ASSUME NEW local \in Seq(Items), NEW host \in Seq(Items)
  PROVE  Merged(Merge(local, host), Len(local \o host), local \o host)
<1> DEFINE src == local \o host
<1>1. src \in Seq(Items) /\ Len(src) \in Nat
  OBVIOUS
<1>2. MergeTrace(src, Merge(local, host))
  BY MergeFold
<1> HIDE DEF src
<1>3. PICK T \in [0 .. Len(src) -> Seq(Items)] :
        /\ T[0] = <<>>
        /\ \A k \in 1 .. Len(src) : T[k] = MergeStep(T[k - 1], src[k])
        /\ T[Len(src)] = Merge(local, host)
  BY <1>2 DEF MergeTrace
<1> DEFINE S == {k \in 0 .. Len(src) : Merged(T[k], k, src)}
<1>4. 0 \in S
  <2>1. T[0] = <<>> /\ 0 <= MergedItems /\ 0 \in 0 .. Len(src)
    BY <1>1, <1>3, ItemsAssumption
  <2>2. Merged(<<>>, 0, src)
    BY <2>1 DEF Merged
  <2> QED
    BY <2>1, <2>2
<1>5. ASSUME NEW k \in 0 .. Len(src) - 1, k \in S  PROVE k + 1 \in S
  <2>1. k + 1 \in 1 .. Len(src) /\ k + 1 \in 0 .. Len(src) /\ (k + 1) - 1 = k
    BY <1>1
  <2>2. Merged(T[k], k, src)
    BY <1>5
  <2>3. Merged(MergeStep(T[k], src[k + 1]), k + 1, src)
    BY <1>1, <2>1, <2>2, MergeStepKeeps
  <2>4. T[k + 1] = MergeStep(T[k], src[k + 1])
    BY <1>3, <2>1
  <2> QED
    BY <2>1, <2>3, <2>4
<1> HIDE DEF S
<1>6. Len(src) \in S
  <2>1. Len(src) \in 0 .. Len(src)
    BY <1>1
  <2> QED
    BY <1>1, <1>4, <1>5, <2>1, UpTo
<1> QED
  BY <1>3, <1>6 DEF S, src

-----------------------------------------------------------------------------
(* Ranking                                                                 *)

\* What ranked_dedup has chosen, and whether that is as many as it may.
Selections == [out : Seq(Items), full : BOOLEAN]

\* What it makes of one item.
DedupStep(acc, x, limit) ==
  IF acc.full THEN acc
  ELSE LET out == IF x \in ToSet(acc.out) THEN acc.out ELSE Append(acc.out, x)
       IN  [out |-> out, full |-> Len(out) >= limit]

DedupTrace(src, limit, last) ==
  \E T \in [0 .. Len(src) -> Selections] :
    /\ T[0] = [out |-> <<>>, full |-> FALSE]
    /\ \A k \in 1 .. Len(src) : T[k] = DedupStep(T[k - 1], src[k], limit)
    /\ T[Len(src)].out = last

\* It goes through the sorted items by such steps.
LEMMA DedupFold ==
  ASSUME NEW items, NEW src, src = SortedBy(items, Precedes), src \in Seq(Items), NEW limit \in Nat
  PROVE  DedupTrace(src, limit, RankedDedup(items, limit))
<1> DEFINE base == [out |-> <<>>, full |-> FALSE]
           step == [p \in Selections \X Items |-> DedupStep(p[1], p[2], limit)]
           body(it) == [s \in SUBSET DOMAIN src |->
                          IF s = {} THEN base ELSE DedupStep(it[s \ {Max(s)}], src[Max(s)], limit)]
           iter == CHOOSE it : it = body(it)
<1>1. src \in Seq(Items) /\ Len(src) \in Nat /\ DOMAIN src = 1 .. Len(src)
  OBVIOUS
<1>2. RankedDedup(items, limit) = iter[DOMAIN src].out
  BY DEF RankedDedup, FoldLeft, MapThenFoldSet, DedupStep
<1>3. \A acc \in Selections, x \in Items : DedupStep(acc, x, limit) \in Selections
  <2>1. ASSUME NEW acc \in Selections, NEW x \in Items  PROVE DedupStep(acc, x, limit) \in Selections
    <3>1. acc.out \in Seq(Items) /\ Append(acc.out, x) \in Seq(Items)
      BY DEF Selections
    <3>2. \A out \in Seq(Items) : [out |-> out, full |-> Len(out) >= limit] \in Selections
      BY DEF Selections
    <3> QED
      BY <3>1, <3>2 DEF DedupStep
  <2> QED
    BY <2>1
<1>4. \A acc \in Selections, x \in Items : step[<<acc, x>>] = DedupStep(acc, x, limit)
  OBVIOUS
<1>5. IsStep(step, Selections, Items)
  BY <1>3 DEF IsStep
<1>6. base \in Selections
  BY DEF Selections
<1> HIDE DEF base, step, body, iter
<1>7. PICK it : IsFold(it, Selections, Items, base, step, src)
  BY <1>1, <1>5, <1>6, FoldExists
<1>8. it = body(it)
  <2>1. \A s \in SUBSET DOMAIN src : s # {} =>
          step[<<it[s \ {Max(s)}], src[Max(s)]>>] = DedupStep(it[s \ {Max(s)}], src[Max(s)], limit)
    BY <1>4, <1>7 DEF IsFold
  <2> QED
    BY <1>7, <2>1 DEF IsFold, FoldOver, body
<1>9. iter = body(iter)
  BY <1>8 DEF iter
<1>10. IsRun(iter, Selections, base, step, src)
  <2>1. iter[{}] = base
    BY <1>9 DEF body
  <2>2. ASSUME NEW k \in 1 .. Len(src), iter[1 .. k - 1] \in Selections
        PROVE  iter[1 .. k] = step[<<iter[1 .. k - 1], src[k]>>]
    <3>1. k \in Nat /\ k # 0 /\ 1 .. k \in SUBSET DOMAIN src /\ src[k] \in Items
      BY <1>1
    <3>2. 1 .. k # {} /\ Max(1 .. k) = k /\ (1 .. k) \ {k} = 1 .. k - 1
      BY <3>1, Positions
    <3>3. iter[1 .. k] = DedupStep(iter[1 .. k - 1], src[k], limit)
      BY <1>9, <3>1, <3>2 DEF body
    <3> QED
      BY <1>4, <2>2, <3>1, <3>3
  <2> QED
    BY <2>1, <2>2 DEF IsRun
<1>11. HasTrace(Selections, base, step, src, iter[DOMAIN src])
  BY <1>1, <1>5, <1>6, <1>10, FoldTrace
<1>12. PICK T \in [0 .. Len(src) -> Selections] :
         /\ T[0] = base
         /\ \A k \in 1 .. Len(src) : T[k] = step[<<T[k - 1], src[k]>>]
         /\ T[Len(src)] = iter[DOMAIN src]
  BY <1>11 DEF HasTrace
<1>13. ASSUME NEW k \in 1 .. Len(src)  PROVE T[k] = DedupStep(T[k - 1], src[k], limit)
  <2>1. k - 1 \in 0 .. Len(src) /\ src[k] \in Items
    BY <1>1
  <2> QED
    BY <1>4, <1>12, <2>1
<1> QED
  BY <1>2, <1>12, <1>13 DEF DedupTrace, base

\* What has been chosen of the first k items.
Ranked(acc, k, src, limit) ==
  /\ acc \in Selections
  /\ IF acc.full THEN Len(acc.out) = limit ELSE Len(acc.out) < limit
  /\ \A y \in ToSet(acc.out) : \E j \in 1 .. k : y = src[j]
  /\ \A i, j \in DOMAIN acc.out : i < j => Precedes(acc.out[i], acc.out[j])
  /\ \A i \in 1 .. k :
       src[i] \in ToSet(acc.out) \/ (acc.full /\ \A y \in ToSet(acc.out) : Precedes(y, src[i]))

\* One more: it comes after all that were chosen, unless it is one of them.
LEMMA DedupStepKeeps ==
  ASSUME NEW src \in Seq(Items), NEW limit \in Nat,
         \A i, j \in DOMAIN src : i < j => ~Precedes(src[j], src[i]),
         NEW k \in 1 .. Len(src), NEW acc, Ranked(acc, k - 1, src, limit)
  PROVE  Ranked(DedupStep(acc, src[k], limit), k, src, limit)
<1> DEFINE x == src[k]
           n == Len(acc.out)
<1>1. /\ Len(src) \in Nat /\ DOMAIN src = 1 .. Len(src) /\ k \in Nat
      /\ \A i \in 1 .. k : src[i] \in Items /\ (i # k => i \in 1 .. k - 1)
      /\ \A i \in 1 .. k - 1 : i \in 1 .. k /\ i < k
  OBVIOUS
<1>2. acc.out \in Seq(Items) /\ acc.full \in BOOLEAN /\ n \in Nat /\ DOMAIN acc.out = 1 .. n
  BY DEF Ranked, Selections
<1>3. x \in Items
  BY <1>1
<1>4. ASSUME NEW y \in ToSet(acc.out), x \notin ToSet(acc.out)  PROVE Precedes(y, x)
  <2>1. PICK j \in 1 .. k - 1 : y = src[j]
    BY DEF Ranked
  <2>2. y \in Items /\ y # x /\ ~Precedes(x, y)
    BY <1>1, <1>4, <2>1
  <2> QED
    BY <1>3, <2>2, PrecedesIs
<1>5. CASE acc.full
  <2>1. DedupStep(acc, x, limit) = acc
    BY <1>5 DEF DedupStep
  <2>2. \/ x \in ToSet(acc.out)
        \/ acc.full /\ \A y \in ToSet(acc.out) : Precedes(y, x)
    BY <1>4, <1>5
  <2>3. \A i \in 1 .. k :
          src[i] \in ToSet(acc.out) \/ (acc.full /\ \A y \in ToSet(acc.out) : Precedes(y, src[i]))
    BY <1>1, <2>2 DEF Ranked
  <2>4. \A y \in ToSet(acc.out) : \E j \in 1 .. k : y = src[j]
    BY <1>1 DEF Ranked
  <2> QED
    BY <2>1, <2>3, <2>4 DEF Ranked
<1>6. CASE ~acc.full /\ x \in ToSet(acc.out)
  <2>1. ~(n >= limit) /\ n < limit
    BY <1>2, <1>6 DEF Ranked
  <2>2. DedupStep(acc, x, limit) = [out |-> acc.out, full |-> FALSE]
    <3>1. DedupStep(acc, x, limit) = [out |-> acc.out, full |-> n >= limit]
      BY <1>6 DEF DedupStep
    <3>2. (n >= limit) = FALSE
      BY <2>1
    <3> QED
      BY <3>1, <3>2
  <2>3. [out |-> acc.out, full |-> FALSE] = acc
    BY <1>6 DEF Ranked, Selections
  <2>4. \A i \in 1 .. k : src[i] \in ToSet(acc.out)
    BY <1>1, <1>6 DEF Ranked
  <2>5. \A y \in ToSet(acc.out) : \E j \in 1 .. k : y = src[j]
    BY <1>1 DEF Ranked
  <2> QED
    BY <2>2, <2>3, <2>4, <2>5 DEF Ranked
<1>7. CASE ~acc.full /\ x \notin ToSet(acc.out)
  <2> DEFINE more == Append(acc.out, x)
             next == [out |-> more, full |-> Len(more) >= limit]
  <2>1. DedupStep(acc, x, limit) = next
    BY <1>7 DEF DedupStep
  <2>2. /\ more \in Seq(Items) /\ Len(more) = n + 1 /\ DOMAIN more = 1 .. n + 1
        /\ more[n + 1] = x /\ \A i \in 1 .. n : more[i] = acc.out[i]
    BY <1>2, <1>3, AppendProperties
  <2>3. ToSet(more) = ToSet(acc.out) \cup {x}
    BY <1>2, <1>3, ToSetAppend
  <2> HIDE DEF more
  <2>4. next \in Selections /\ next.out = more /\ next.full = (n + 1 >= limit)
    BY <2>2 DEF Selections
  <2>5. IF next.full THEN Len(more) = limit ELSE Len(more) < limit
    <3>1. n < limit
      BY <1>7 DEF Ranked
    <3>2. n \in Nat
      BY <1>2
    <3> HIDE DEF n, next
    <3>3. IF n + 1 >= limit THEN n + 1 = limit ELSE n + 1 < limit
      BY <3>1, <3>2
    <3> QED
      BY <2>2, <2>4, <3>3
  <2>6. \A y \in ToSet(more) : \E j \in 1 .. k : y = src[j]
    BY <1>1, <2>3 DEF Ranked
  <2>7. ASSUME NEW i \in DOMAIN more, NEW j \in DOMAIN more, i < j
        PROVE  Precedes(more[i], more[j])
    <3>1. i \in 1 .. n
      BY <1>2, <2>2, <2>7
    <3>2. CASE j = n + 1
      <4>1. acc.out[i] \in ToSet(acc.out)
        BY <1>2, <3>1 DEF ToSet
      <4> QED
        BY <1>4, <1>7, <2>2, <3>1, <3>2, <4>1
    <3>3. CASE j # n + 1
      <4>1. j \in 1 .. n
        BY <1>2, <2>2, <3>3
      <4> QED
        BY <1>2, <2>2, <2>7, <3>1, <4>1 DEF Ranked
    <3> QED
      BY <3>2, <3>3
  <2>8. \A i \in 1 .. k : src[i] \in ToSet(more)
    BY <1>1, <1>7, <2>3 DEF Ranked
  <2> HIDE DEF next
  <2>9. Ranked(next, k, src, limit)
    <3>1. /\ next \in Selections
          /\ IF next.full THEN Len(next.out) = limit ELSE Len(next.out) < limit
      BY <2>4, <2>5
    <3>2. \A y \in ToSet(next.out) : \E j \in 1 .. k : y = src[j]
      BY <2>4, <2>6
    <3>3. \A i, j \in DOMAIN next.out : i < j => Precedes(next.out[i], next.out[j])
      BY <2>4, <2>7
    <3>4. \A i \in 1 .. k : src[i] \in ToSet(next.out)
      BY <2>4, <2>8
    <3> QED
      BY <3>1, <3>2, <3>3, <3>4 DEF Ranked
  <2> QED
    BY <2>1, <2>9
<1> QED
  BY <1>2, <1>5, <1>6, <1>7

\* The best of what is offered, each once and in order, as many as there may be.
Best(list, offered, limit) ==
  /\ list \in Seq(Items) /\ Len(list) <= limit
  /\ \A i, j \in DOMAIN list : i < j => Precedes(list[i], list[j])
  /\ ToSet(list) \subseteq offered
  /\ \A x \in offered \ ToSet(list) : Len(list) = limit /\ \A y \in ToSet(list) : Precedes(y, x)

\* Which is what ranked_dedup makes of its items.
LEMMA RankedIs ==
  ASSUME NEW items \in Seq(Items), NEW limit \in Nat \ {0}
  PROVE  Best(RankedDedup(items, limit), ToSet(items), limit)
<1> DEFINE src == SortedBy(items, Precedes)
           ranked == RankedDedup(items, limit)
<1>1. /\ src \in Seq(Items) /\ ToSet(src) = ToSet(items)
      /\ \A i, j \in DOMAIN src : i < j => ~Precedes(src[j], src[i])
  BY SortedByIs
<1>2. DedupTrace(src, limit, ranked)
  BY <1>1, DedupFold
<1> HIDE DEF src, ranked
<1>3. Len(src) \in Nat /\ DOMAIN src = 1 .. Len(src)
  BY <1>1
<1>4. PICK T \in [0 .. Len(src) -> Selections] :
        /\ T[0] = [out |-> <<>>, full |-> FALSE]
        /\ \A k \in 1 .. Len(src) : T[k] = DedupStep(T[k - 1], src[k], limit)
        /\ T[Len(src)].out = ranked
  BY <1>2 DEF DedupTrace
<1> DEFINE S == {k \in 0 .. Len(src) : Ranked(T[k], k, src, limit)}
<1>5. 0 \in S
  <2> DEFINE none == [out |-> <<>>, full |-> FALSE]
  <2>1. /\ none \in Selections /\ none.out = <<>> /\ none.full = FALSE
        /\ Len(<<>>) = 0 /\ 0 < limit /\ ToSet(<<>>) = {} /\ DOMAIN <<>> = {} /\ 1 .. 0 = {}
    BY DEF Selections, ToSet
  <2> HIDE DEF none
  <2>2. Ranked(none, 0, src, limit)
    BY <2>1 DEF Ranked
  <2>3. T[0] = none /\ 0 \in 0 .. Len(src)
    BY <1>3, <1>4 DEF none
  <2> QED
    BY <2>2, <2>3
<1>6. ASSUME NEW k \in 0 .. Len(src) - 1, k \in S  PROVE k + 1 \in S
  <2>1. k + 1 \in 1 .. Len(src) /\ k + 1 \in 0 .. Len(src) /\ (k + 1) - 1 = k
    BY <1>3
  <2>2. Ranked(T[k], k, src, limit)
    BY <1>6
  <2>3. Ranked(DedupStep(T[k], src[k + 1], limit), k + 1, src, limit)
    BY <1>1, <2>1, <2>2, DedupStepKeeps
  <2>4. T[k + 1] = DedupStep(T[k], src[k + 1], limit)
    BY <1>4, <2>1
  <2> QED
    BY <2>1, <2>3, <2>4
<1> DEFINE acc == T[Len(src)]
<1>7. Ranked(acc, Len(src), src, limit)
  <2> HIDE DEF S
  <2>1. Len(src) \in 0 .. Len(src)
    BY <1>3
  <2>2. Len(src) \in S
    BY <1>3, <1>5, <1>6, <2>1, UpTo
  <2> QED
    BY <2>2 DEF S
<1>8. acc.out = ranked
  BY <1>4
<1> HIDE DEF acc
<1>9. ranked \in Seq(Items) /\ Len(ranked) \in Nat /\ Len(ranked) <= limit /\ (acc.full => Len(ranked) = limit)
  BY <1>7, <1>8 DEF Ranked, Selections
<1>10. \A i, j \in DOMAIN ranked : i < j => Precedes(ranked[i], ranked[j])
  BY <1>7, <1>8 DEF Ranked
<1>11. ToSet(ranked) \subseteq ToSet(items)
  <2>1. \A y \in ToSet(ranked) : \E j \in 1 .. Len(src) : y = src[j]
    BY <1>7, <1>8 DEF Ranked
  <2> QED
    BY <1>1, <1>3, <2>1 DEF ToSet
<1>12. ASSUME NEW x \in ToSet(items) \ ToSet(ranked)
       PROVE  Len(ranked) = limit /\ \A y \in ToSet(ranked) : Precedes(y, x)
  <2>1. PICK i \in 1 .. Len(src) : x = src[i]
    BY <1>1, <1>3 DEF ToSet
  <2>2. acc.full /\ \A y \in ToSet(ranked) : Precedes(y, x)
    BY <1>7, <1>8, <2>1 DEF Ranked
  <2> QED
    BY <1>9, <2>2
<1>13. Best(ranked, ToSet(items), limit)
  BY <1>9, <1>10, <1>11, <1>12 DEF Best
<1> QED
  BY <1>13 DEF ranked

-----------------------------------------------------------------------------
(* The lists that are ranked                                               *)

\* Truncation keeps the first elements of a list.
LEMMA AtMostIs ==
  ASSUME NEW S, NEW list \in Seq(S), NEW limit \in Nat
  PROVE  /\ AtMost(list, limit) \in Seq(S)
         /\ Len(AtMost(list, limit)) = IF Len(list) < limit THEN Len(list) ELSE limit
         /\ \A i \in 1 .. Len(AtMost(list, limit)) : AtMost(list, limit)[i] = list[i]
<1> DEFINE n == IF Len(list) < limit THEN Len(list) ELSE limit
<1>1. Len(list) \in Nat /\ \A i \in 1 .. Len(list) : list[i] \in S
  OBVIOUS
<1>2. n \in Nat /\ n <= Len(list)
  BY <1>1
<1>3. AtMost(list, limit) = SubSeq(list, 1, n) /\ n = IF Len(list) < limit THEN Len(list) ELSE limit
  BY DEF AtMost
<1> HIDE DEF n
<1>4. \A i \in 1 .. n : list[i] \in S
  BY <1>1, <1>2
<1>5. /\ SubSeq(list, 1, n) \in Seq(S) /\ Len(SubSeq(list, 1, n)) = n
      /\ \A i \in 1 .. n : SubSeq(list, 1, n)[i] = list[i]
  BY <1>2, <1>4, SubSeqProperties
<1> QED
  BY <1>3, <1>5

\* What one list and another hold together.
LEMMA ToSetConcat ==
  ASSUME NEW S, NEW a \in Seq(S), NEW b \in Seq(S)
  PROVE  a \o b \in Seq(S) /\ ToSet(a \o b) = ToSet(a) \cup ToSet(b)
<1> DEFINE m == Len(a)
           n == Len(b)
           j == a \o b
<1>1. /\ m \in Nat /\ n \in Nat /\ DOMAIN a = 1 .. m /\ DOMAIN b = 1 .. n
      /\ j \in Seq(S) /\ DOMAIN j = 1 .. m + n
      /\ \A i \in 1 .. m + n : j[i] = IF i <= m THEN a[i] ELSE b[i - m]
  BY ConcatProperties
<1> HIDE DEF m, n, j
<1>2. ASSUME NEW i \in 1 .. m  PROVE a[i] \in ToSet(j)
  <2>1. i \in DOMAIN j /\ j[i] = a[i]
    BY <1>1
  <2> QED
    BY <2>1 DEF ToSet
<1>3. ASSUME NEW i \in 1 .. n  PROVE b[i] \in ToSet(j)
  <2>1. i + m \in 1 .. m + n /\ ~(i + m <= m) /\ (i + m) - m = i
    BY <1>1
  <2>2. i + m \in DOMAIN j /\ j[i + m] = b[i]
    BY <1>1, <2>1
  <2> QED
    BY <2>2 DEF ToSet
<1>4. ASSUME NEW i \in 1 .. m + n  PROVE j[i] \in ToSet(a) \cup ToSet(b)
  <2>1. CASE i <= m
    BY <1>1, <2>1 DEF ToSet
  <2>2. CASE ~(i <= m)
    <3>1. i - m \in 1 .. n
      BY <1>1, <2>2
    <3> QED
      BY <1>1, <2>2, <3>1 DEF ToSet
  <2> QED
    BY <2>1, <2>2
<1>5. ToSet(j) \subseteq ToSet(a) \cup ToSet(b)
  BY <1>1, <1>4 DEF ToSet
<1>6. ToSet(a) \subseteq ToSet(j) /\ ToSet(b) \subseteq ToSet(j)
  BY <1>1, <1>2, <1>3 DEF ToSet
<1> QED
  BY <1>1, <1>5, <1>6 DEF j

\* A line of the history as an item, and what the history makes of one.
Past(x) == Item("history", x)
RecallStep(acc, x) == IF acc # <<>> /\ Last(acc).text = x THEN acc ELSE Append(acc, Past(x))

\* All items of the history, before they are cut.
Recollection(src) ==
  LET add(acc, x) == IF acc # <<>> /\ Last(acc).text = x THEN acc ELSE Append(acc, Item("history", x))
  IN  FoldLeft(add, <<>>, src)

RecallTrace(src, last) ==
  \E T \in [0 .. Len(src) -> Seq(Items)] :
    /\ T[0] = <<>>
    /\ \A k \in 1 .. Len(src) : T[k] = RecallStep(T[k - 1], src[k])
    /\ T[Len(src)] = last

LEMMA PastIs ==
  ASSUME NEW x \in Texts
  PROVE  Past(x) \in Items /\ Past(x).text = x /\ Past(x).source = "history"
  BY ItemsAssumption DEF Past, Item, Items, Sources

\* They are made one by one, from the newest line to the oldest.
LEMMA HistoryFold ==
  ASSUME NEW src \in Seq(Texts)
  PROVE  RecallTrace(src, Recollection(src))
<1> DEFINE A == Seq(Items)
           step == [p \in A \X Texts |-> RecallStep(p[1], p[2])]
           body(it) == [s \in SUBSET DOMAIN src |->
                          IF s = {} THEN <<>> ELSE RecallStep(it[s \ {Max(s)}], src[Max(s)])]
           iter == CHOOSE it : it = body(it)
<1>1. Len(src) \in Nat /\ DOMAIN src = 1 .. Len(src) /\ \A k \in 1 .. Len(src) : src[k] \in Texts
  OBVIOUS
<1>2. Recollection(src) = iter[DOMAIN src]
  BY DEF Recollection, FoldLeft, MapThenFoldSet, RecallStep, Past
<1>3. \A acc \in A, x \in Texts : RecallStep(acc, x) \in A
  BY PastIs DEF RecallStep
<1>4. \A acc \in A, x \in Texts : step[<<acc, x>>] = RecallStep(acc, x)
  OBVIOUS
<1>5. IsStep(step, A, Texts) /\ <<>> \in A
  BY <1>3 DEF IsStep
<1> HIDE DEF A, step, body, iter
<1>6. PICK it : IsFold(it, A, Texts, <<>>, step, src)
  BY <1>1, <1>5, FoldExists
<1>7. it = body(it)
  <2>1. \A s \in SUBSET DOMAIN src : s # {} =>
          step[<<it[s \ {Max(s)}], src[Max(s)]>>] = RecallStep(it[s \ {Max(s)}], src[Max(s)])
    BY <1>4, <1>6 DEF IsFold
  <2> QED
    BY <1>6, <2>1 DEF IsFold, FoldOver, body
<1>8. iter = body(iter)
  BY <1>7 DEF iter
<1>9. IsRun(iter, A, <<>>, step, src)
  <2>1. iter[{}] = <<>>
    BY <1>8 DEF body
  <2>2. ASSUME NEW k \in 1 .. Len(src), iter[1 .. k - 1] \in A
        PROVE  iter[1 .. k] = step[<<iter[1 .. k - 1], src[k]>>]
    <3>1. k \in Nat /\ k # 0 /\ 1 .. k \in SUBSET DOMAIN src /\ src[k] \in Texts
      BY <1>1
    <3>2. 1 .. k # {} /\ Max(1 .. k) = k /\ (1 .. k) \ {k} = 1 .. k - 1
      BY <3>1, Positions
    <3>3. iter[1 .. k] = RecallStep(iter[1 .. k - 1], src[k])
      BY <1>8, <3>1, <3>2 DEF body
    <3> QED
      BY <1>4, <2>2, <3>1, <3>3
  <2> QED
    BY <2>1, <2>2 DEF IsRun
<1>10. HasTrace(A, <<>>, step, src, iter[DOMAIN src])
  BY <1>1, <1>5, <1>9, FoldTrace
<1>11. PICK T \in [0 .. Len(src) -> A] :
         /\ T[0] = <<>>
         /\ \A k \in 1 .. Len(src) : T[k] = step[<<T[k - 1], src[k]>>]
         /\ T[Len(src)] = iter[DOMAIN src]
  BY <1>10 DEF HasTrace
<1>12. ASSUME NEW k \in 1 .. Len(src)  PROVE T[k] = RecallStep(T[k - 1], src[k])
  <2>1. k - 1 \in 0 .. Len(src) /\ src[k] \in Texts
    BY <1>1
  <2> QED
    BY <1>4, <1>11, <2>1
<1> QED
  BY <1>2, <1>11, <1>12 DEF RecallTrace, A

\* Where the items come from: each from a later line than the one before, and
\* with it all lines up to there are among the items up to it.
Places(acc, k, src, place) ==
  /\ place \in [1 .. Len(acc) -> 1 .. k]
  /\ \A i, j \in 1 .. Len(acc) : i < j => place[i] < place[j]
  /\ \A i \in 1 .. Len(acc) : acc[i] = Past(src[place[i]])
  /\ \A i \in 1 .. Len(acc) : \A j \in 1 .. place[i] : \E a \in 1 .. i : acc[a] = Past(src[j])

\* What has been made of the first k lines.
Recalled(acc, k, src) ==
  /\ acc \in Seq(Items)
  /\ \A i \in 1 .. Len(acc) - 1 : acc[i] # acc[i + 1]
  /\ \A j \in 1 .. k : Past(src[j]) \in ToSet(acc)
  /\ \E place : Places(acc, k, src, place)

LEMMA RecallStepKeeps ==
  ASSUME NEW src \in Seq(Texts), NEW k \in 1 .. Len(src), NEW acc, Recalled(acc, k - 1, src)
  PROVE  Recalled(RecallStep(acc, src[k]), k, src)
<1> DEFINE n == Len(acc)
           x == src[k]
           more == Append(acc, Past(x))
<1>1. /\ Len(src) \in Nat /\ DOMAIN src = 1 .. Len(src) /\ \A i \in 1 .. k : src[i] \in Texts
      /\ k \in Nat /\ 1 <= k /\ k - 1 \in Nat /\ \A i \in 1 .. k - 1 : i \in 1 .. k
      /\ \A i \in 1 .. k : i # k => i \in 1 .. k - 1
  OBVIOUS
<1>2. x \in Texts /\ Past(x) \in Items /\ Past(x).text = x
  BY <1>1, PastIs
<1>3. acc \in Seq(Items) /\ n \in Nat /\ DOMAIN acc = 1 .. n
  BY DEF Recalled
<1>4. PICK place : Places(acc, k - 1, src, place)
  BY DEF Recalled
<1>5. \A i \in 1 .. n : place[i] \in 1 .. k /\ place[i] \in 1 .. k - 1
  BY <1>1, <1>4 DEF Places
<1>6. CASE acc # <<>> /\ Last(acc).text = x
  <2>1. RecallStep(acc, x) = acc
    BY <1>6 DEF RecallStep
  <2>2. n \in 1 .. n /\ Last(acc) = acc[n]
    BY <1>3, <1>6 DEF Last
  <2>3. acc[n] = Past(x)
    <3>1. acc[n] = Past(src[place[n]]) /\ src[place[n]] \in Texts
      BY <1>1, <1>4, <1>5, <2>2 DEF Places
    <3>2. acc[n].text = src[place[n]]
      BY <3>1, PastIs
    <3> QED
      BY <1>6, <2>2, <3>1, <3>2
  <2>4. Past(x) \in ToSet(acc)
    BY <1>3, <2>2, <2>3 DEF ToSet
  <2>5. \A j \in 1 .. k : Past(src[j]) \in ToSet(acc)
    BY <1>1, <2>4 DEF Recalled
  <2>6. place \in [1 .. Len(acc) -> 1 .. k]
    BY <1>4, <1>5 DEF Places
  <2>7. Places(acc, k, src, place)
    BY <1>4, <2>6 DEF Places
  <2> QED
    BY <2>1, <2>5, <2>7 DEF Recalled
<1>7. CASE ~(acc # <<>> /\ Last(acc).text = x)
  <2>1. RecallStep(acc, x) = more
    BY <1>7 DEF RecallStep
  <2>2. /\ more \in Seq(Items) /\ Len(more) = n + 1 /\ DOMAIN more = 1 .. n + 1
        /\ more[n + 1] = Past(x) /\ \A i \in 1 .. n : more[i] = acc[i]
    BY <1>2, <1>3, AppendProperties
  <2>3. ToSet(more) = ToSet(acc) \cup {Past(x)}
    BY <1>2, <1>3, ToSetAppend
  <2> HIDE DEF more
  <2>4. \A i \in 1 .. n + 1 : i \in 1 .. n \/ i = n + 1
    BY <1>3
  <2>5. ASSUME NEW i \in 1 .. n  PROVE more[i] # more[i + 1]
    <3>1. CASE i = n
      <4>1. acc # <<>> /\ Last(acc) = acc[n]
        BY <1>3, <3>1 DEF Last
      <4>2. acc[n] # Past(x)
        BY <1>2, <1>7, <4>1
      <4> QED
        BY <2>2, <3>1, <4>2
    <3>2. CASE i # n
      <4>1. i \in 1 .. n - 1 /\ i + 1 \in 1 .. n
        <5>1. n \in Nat
          BY <1>3
        <5> HIDE DEF n
        <5> QED
          BY <3>2, <5>1
      <4>2. acc[i] # acc[i + 1]
        BY <4>1 DEF Recalled
      <4> QED
        BY <2>2, <4>1, <4>2
    <3> QED
      BY <3>1, <3>2
  <2>6. \A j \in 1 .. k : Past(src[j]) \in ToSet(more)
    BY <1>1, <2>3 DEF Recalled
  <2> DEFINE next == [i \in 1 .. n + 1 |-> IF i = n + 1 THEN k ELSE place[i]]
  <2>7. /\ next[n + 1] = k /\ n + 1 \in 1 .. n + 1
        /\ \A i \in 1 .. n : next[i] = place[i] /\ i \in 1 .. n + 1
    BY <1>3
  <2>8. next \in [1 .. n + 1 -> 1 .. k]
    BY <1>1, <1>5, <2>4
  <2> HIDE DEF next
  <2>9. ASSUME NEW i \in 1 .. n + 1, NEW j \in 1 .. n + 1, i < j  PROVE next[i] < next[j]
    <3>1. i \in 1 .. n
      BY <1>3, <2>9
    <3>2. CASE j = n + 1
      <4>1. place[i] < k
        BY <1>1, <1>5, <3>1
      <4> QED
        BY <2>7, <3>1, <3>2, <4>1
    <3>3. CASE j \in 1 .. n
      BY <1>4, <2>7, <2>9, <3>1, <3>3 DEF Places
    <3> QED
      BY <2>4, <3>2, <3>3
  <2>10. \A i \in 1 .. n + 1 : more[i] = Past(src[next[i]])
    BY <1>4, <2>2, <2>4, <2>7 DEF Places
  <2>11. ASSUME NEW i \in 1 .. n + 1, NEW j \in 1 .. next[i]
         PROVE  \E a \in 1 .. i : more[a] = Past(src[j])
    <3>1. CASE i \in 1 .. n
      <4>1. PICK a \in 1 .. i : acc[a] = Past(src[j])
        BY <1>4, <2>7, <3>1 DEF Places
      <4>2. a \in 1 .. n
        BY <1>3, <3>1
      <4> QED
        BY <2>2, <4>1, <4>2
    <3>2. CASE i = n + 1
      <4>1. Past(src[j]) \in ToSet(more)
        BY <2>6, <2>7, <3>2
      <4> QED
        BY <2>2, <3>2, <4>1 DEF ToSet
    <3> QED
      BY <2>4, <3>1, <3>2
  <2>12. Places(more, k, src, next)
    BY <2>2, <2>8, <2>9, <2>10, <2>11 DEF Places
  <2>13. Len(more) - 1 = n
    BY <1>3, <2>2
  <2> QED
    BY <2>1, <2>2, <2>5, <2>6, <2>12, <2>13 DEF Recalled
<1> QED
  BY <1>6, <1>7

\* What they are in the end.
LEMMA RecallIs ==
  ASSUME NEW src \in Seq(Texts)
  PROVE  Recalled(Recollection(src), Len(src), src)
<1>1. Len(src) \in Nat
  OBVIOUS
<1>2. PICK T \in [0 .. Len(src) -> Seq(Items)] :
        /\ T[0] = <<>>
        /\ \A k \in 1 .. Len(src) : T[k] = RecallStep(T[k - 1], src[k])
        /\ T[Len(src)] = Recollection(src)
  BY HistoryFold DEF RecallTrace
<1> DEFINE S == {k \in 0 .. Len(src) : Recalled(T[k], k, src)}
<1>3. 0 \in S
  <2>1. 0 \in 0 .. Len(src) /\ Len(<<>>) = 0 /\ 1 .. 0 = {}
    BY <1>1
  <2>2. <<>> \in [1 .. 0 -> 1 .. 0]
    BY <2>1
  <2>3. Places(<<>>, 0, src, <<>>)
    BY <2>1, <2>2 DEF Places
  <2>4. <<>> \in Seq(Items) /\ 1 .. Len(<<>>) - 1 = {}
    OBVIOUS
  <2>5. Recalled(<<>>, 0, src)
    BY <2>1, <2>3, <2>4 DEF Recalled
  <2> QED
    BY <1>2, <2>1, <2>5
<1>4. ASSUME NEW k \in 0 .. Len(src) - 1, k \in S  PROVE k + 1 \in S
  <2>1. k + 1 \in 1 .. Len(src) /\ k + 1 \in 0 .. Len(src) /\ (k + 1) - 1 = k
    BY <1>1
  <2>2. Recalled(T[k], k, src)
    BY <1>4
  <2>3. Recalled(RecallStep(T[k], src[k + 1]), k + 1, src)
    BY <2>1, <2>2, RecallStepKeeps
  <2>4. T[k + 1] = RecallStep(T[k], src[k + 1])
    BY <1>2, <2>1
  <2> QED
    BY <2>1, <2>3, <2>4
<1> HIDE DEF S
<1>5. Len(src) \in S
  <2>1. Len(src) \in 0 .. Len(src)
    BY <1>1
  <2> QED
    BY <1>1, <1>3, <1>4, <2>1, UpTo
<1> QED
  BY <1>2, <1>5 DEF S

\* The list of the history: lines up to some age, all of them if there is room,
\* and none twice unless the history repeats itself.
PastList(list, lines, limit) ==
  /\ list \in Seq(Items) /\ Len(list) <= limit
  /\ \A i \in DOMAIN list : \E p \in DOMAIN lines :
       list[i] = Past(lines[p]) /\ \A j \in p .. Len(lines) : Past(lines[j]) \in ToSet(list)
  /\ \A p \in DOMAIN lines : Past(lines[p]) \in ToSet(list) \/ Len(list) = limit
  /\ IsInjective(list) \/ Repeats(lines)

LEMMA HistoryItemsAre ==
  ASSUME NEW lines \in Seq(Texts), NEW limit \in Nat
  PROVE  PastList(HistoryItems(lines, limit), lines, limit)
<1> DEFINE src == Reverse(lines)
           n == Len(lines)
           acc == Recollection(src)
           list == AtMost(acc, limit)
           m == Len(list)
<1>1. HistoryItems(lines, limit) = list
  BY DEF HistoryItems, Recollection
<1>2. /\ n \in Nat /\ DOMAIN lines = 1 .. n /\ \A i \in 1 .. n : lines[i] \in Texts /\ n - i + 1 \in 1 .. n
      /\ \A i \in 1 .. n : n - (n - i + 1) + 1 = i
  OBVIOUS
<1>3. src \in Seq(Texts) /\ Len(src) = n /\ \A i \in 1 .. n : src[i] = lines[n - i + 1]
  BY <1>2 DEF Reverse
<1>4. Recalled(acc, n, src)
  BY <1>3, RecallIs
<1> HIDE DEF src, n, acc
<1>5. acc \in Seq(Items) /\ Len(acc) \in Nat
  BY <1>4 DEF Recalled
<1>6. /\ list \in Seq(Items) /\ m = IF Len(acc) < limit THEN Len(acc) ELSE limit
      /\ \A i \in 1 .. m : list[i] = acc[i]
  BY <1>5, AtMostIs
<1>7. DOMAIN list = 1 .. m /\ m \in Nat /\ m <= limit /\ m <= Len(acc)
  BY <1>5, <1>6
<1> HIDE DEF list, m
<1>8. \A i \in 1 .. m : i \in 1 .. Len(acc)
  BY <1>5, <1>7
<1>9. PICK place : Places(acc, n, src, place)
  BY <1>4 DEF Recalled
<1>10. ASSUME NEW i \in 1 .. m
       PROVE  \E p \in 1 .. n : list[i] = Past(lines[p]) /\ \A j \in p .. n : Past(lines[j]) \in ToSet(list)
  <2>1. place[i] \in 1 .. n /\ acc[i] = Past(src[place[i]])
    BY <1>8, <1>9 DEF Places
  <2>2. list[i] = Past(lines[n - place[i] + 1]) /\ n - place[i] + 1 \in 1 .. n
    BY <1>2, <1>3, <1>6, <2>1
  <2>3. ASSUME NEW j \in n - place[i] + 1 .. n  PROVE Past(lines[j]) \in ToSet(list)
    <3>1. n - j + 1 \in 1 .. place[i] /\ n - j + 1 \in 1 .. n /\ j \in 1 .. n
      BY <1>2, <2>1
    <3>2. src[n - j + 1] = lines[j]
      BY <1>2, <1>3, <3>1
    <3>3. PICK a \in 1 .. i : acc[a] = Past(src[n - j + 1])
      BY <1>8, <1>9, <3>1 DEF Places
    <3>4. a \in 1 .. m
      BY <1>7
    <3> QED
      BY <1>6, <1>7, <3>2, <3>3, <3>4 DEF ToSet
  <2> QED
    BY <2>2, <2>3
<1>11. ASSUME NEW p \in 1 .. n  PROVE Past(lines[p]) \in ToSet(list) \/ m = limit
  <2>1. n - p + 1 \in 1 .. n /\ src[n - p + 1] = lines[p]
    BY <1>2, <1>3
  <2>2. Past(lines[p]) \in ToSet(acc)
    BY <1>4, <2>1 DEF Recalled
  <2>3. m # limit => m = Len(acc)
    BY <1>6
  <2>4. m = Len(acc) => ToSet(list) = ToSet(acc)
    BY <1>5, <1>6, <1>7 DEF ToSet
  <2> QED
    BY <2>2, <2>3, <2>4
<1>12. ASSUME ~IsInjective(list)  PROVE Repeats(lines)
  <2>1. PICK a \in 1 .. m, b \in 1 .. m : list[a] = list[b] /\ a # b
    BY <1>7, <1>12 DEF IsInjective
  <2>2. ASSUME NEW c \in 1 .. m, NEW d \in 1 .. m, list[c] = list[d], c < d  PROVE Repeats(lines)
    <3>1. c \in 1 .. Len(acc) - 1 /\ c + 1 \in 1 .. m /\ acc[c] # acc[c + 1]
      <4>1. c \in 1 .. Len(acc) - 1 /\ c + 1 \in 1 .. m
        BY <1>5, <1>7, <2>2
      <4> QED
        BY <1>4, <4>1 DEF Recalled
    <3>2. c + 1 # d
      BY <1>6, <2>2, <3>1
    <3>3. c < c + 1 /\ c + 1 < d
      BY <1>7, <2>2, <3>2
    <3>4. /\ place[c] \in 1 .. n /\ place[c + 1] \in 1 .. n /\ place[d] \in 1 .. n
          /\ place[c] < place[c + 1] /\ place[c + 1] < place[d]
          /\ acc[c] = Past(src[place[c]]) /\ acc[c + 1] = Past(src[place[c + 1]])
          /\ acc[d] = Past(src[place[d]])
      BY <1>8, <1>9, <3>1, <3>3 DEF Places
    <3> DEFINE i == n - place[d] + 1
               j == n - place[c + 1] + 1
               l == n - place[c] + 1
    <3>5. i \in 1 .. n /\ j \in 1 .. n /\ l \in 1 .. n /\ i < j /\ j < l
      <4>1. \A x, y, z \in 1 .. n : x < y /\ y < z =>
              /\ n - x + 1 \in 1 .. n /\ n - y + 1 \in 1 .. n /\ n - z + 1 \in 1 .. n
              /\ n - z + 1 < n - y + 1 /\ n - y + 1 < n - x + 1
        BY <1>2
      <4> QED
        BY <3>4, <4>1
    <3>6. acc[d] = Past(lines[i]) /\ acc[c + 1] = Past(lines[j]) /\ acc[c] = Past(lines[l])
      BY <1>3, <3>4
    <3> HIDE DEF i, j, l
    <3>7. lines[i] = acc[d].text /\ lines[l] = acc[c].text
      BY <1>2, <3>5, <3>6, PastIs
    <3>8. acc[c] = acc[d]
      BY <1>6, <2>2
    <3>9. lines[i] = lines[l] /\ lines[j] # lines[i]
      BY <3>1, <3>6, <3>7, <3>8
    <3> QED
      BY <1>2, <3>5, <3>9 DEF Repeats
  <2>3. a < b \/ b < a
    BY <1>7, <2>1
  <2> QED
    BY <2>1, <2>2, <2>3
<1>13. PastList(list, lines, limit)
  <2>1. \A i \in DOMAIN list : \E p \in DOMAIN lines :
          list[i] = Past(lines[p]) /\ \A j \in p .. Len(lines) : Past(lines[j]) \in ToSet(list)
    BY <1>2, <1>7, <1>10 DEF n
  <2>2. \A p \in DOMAIN lines : Past(lines[p]) \in ToSet(list) \/ Len(list) = limit
    BY <1>2, <1>11 DEF m
  <2>3. list \in Seq(Items) /\ Len(list) <= limit
    BY <1>6, <1>7 DEF m
  <2> QED
    BY <1>12, <2>1, <2>2, <2>3 DEF PastList
<1> QED
  BY <1>1, <1>13

\* What a provider has: no item twice, and none of the history.
LEMMA CandidatesAre ==
  ASSUME NEW source \in {"env", "git", "branch", "option", "command", "path", "none"},
         NEW texts \in Seq(Texts), IsInjective(texts)
  PROVE  /\ Candidates(source, texts) \in Seq(Items)
         /\ IsInjective(Candidates(source, texts))
         /\ \A x \in ToSet(Candidates(source, texts)) : x.source # "history"
<1>1. /\ Len(texts) \in Nat /\ DOMAIN texts = 1 .. Len(texts)
      /\ \A i, j \in 1 .. Len(texts) : texts[i] = texts[j] => i = j
      /\ \A i \in 1 .. Len(texts) : texts[i] \in Nat
  <2>1. Len(texts) \in Nat /\ DOMAIN texts = 1 .. Len(texts) /\ \A i \in 1 .. Len(texts) : texts[i] \in Texts
    OBVIOUS
  <2>2. \A i, j \in 1 .. Len(texts) : texts[i] = texts[j] => i = j
    BY <2>1 DEF IsInjective
  <2> QED
    BY <2>1, <2>2, ItemsAssumption
<1>2. CASE source = "none"
  BY <1>2 DEF Candidates, IsInjective, ToSet
<1>3. CASE source = "path"
  <2> DEFINE items == [i \in DOMAIN texts |-> PathItem(texts[i])]
  <2>1. \A t \in Nat : PathItem(t) \in Items /\ PathItem(t).text = t /\ PathItem(t).source # "history"
    BY DEF PathItem, Item, Items, Sources
  <2>2. /\ items \in Seq(Items) /\ DOMAIN items = 1 .. Len(texts)
        /\ \A i \in 1 .. Len(texts) : items[i] = PathItem(texts[i])
    BY <1>1, <2>1
  <2> HIDE DEF items
  <2>3. \A i \in 1 .. Len(texts) : items[i].text = texts[i] /\ items[i].source # "history"
    BY <1>1, <2>1, <2>2
  <2>4. IsInjective(items)
    <3>1. \A i, j \in 1 .. Len(texts) : items[i] = items[j] => i = j
      BY <1>1, <2>3
    <3> QED
      BY <2>2, <3>1 DEF IsInjective
  <2>5. \A x \in ToSet(items) : x.source # "history"
    BY <2>2, <2>3 DEF ToSet
  <2>6. Candidates(source, texts) = SortedBy(items, Precedes)
    BY <1>3 DEF Candidates, items
  <2> QED
    BY <2>2, <2>4, <2>5, <2>6, SortedByIs
<1>4. CASE source \notin {"none", "path"}
  <2> DEFINE items == [i \in DOMAIN texts |-> Item(source, texts[i])]
  <2>1. \A t \in Nat : Item(source, t) \in Items /\ Item(source, t).text = t /\ Item(source, t).source # "history"
    BY <1>4 DEF Item, Items, Sources
  <2>2. /\ items \in Seq(Items) /\ DOMAIN items = 1 .. Len(texts)
        /\ \A i \in 1 .. Len(texts) : items[i] = Item(source, texts[i])
    BY <1>1, <2>1
  <2> HIDE DEF items
  <2>3. \A i \in 1 .. Len(texts) : items[i].text = texts[i] /\ items[i].source # "history"
    BY <1>1, <2>1, <2>2
  <2>4. IsInjective(items)
    <3>1. \A i, j \in 1 .. Len(texts) : items[i] = items[j] => i = j
      BY <1>1, <2>3
    <3> QED
      BY <2>2, <3>1 DEF IsInjective
  <2>5. \A x \in ToSet(items) : x.source # "history"
    BY <2>2, <2>3 DEF ToSet
  <2>6. Candidates(source, texts) = items
    BY <1>4 DEF Candidates, items
  <2> QED
    BY <2>2, <2>4, <2>5, <2>6
<1> QED
  BY <1>2, <1>3, <1>4
\* A line is served by one of the providers, or by none.
LEMMA SourceIs ==
  ASSUME NEW typed
  PROVE  Source(typed) \in {"env", "git", "branch", "option", "command", "path", "none"}
  BY DEF Source, GitSource

\* Every request may have one item at least.
LEMMA MaxItemsIs ==
  ASSUME NEW n \in Requests \cup {Unset}
  PROVE  MaxItems(n) \in Nat \ {0}
<1>1. /\ DefaultItems \in Nat \ {0} /\ MostItems \in Nat \ {0}
      /\ n # Unset => n \in Nat
  BY ItemsAssumption
<1> QED
  BY <1>1 DEF MaxItems

-----------------------------------------------------------------------------
(* The state of a request                                                  *)

\* Its data, which no step changes.
RequestInv ==
  /\ session \in BOOLEAN /\ wanted \in Requests \cup {Unset} /\ line \in Lines
  /\ provided \in Seq(Texts) /\ IsInjective(provided) /\ history \in Seq(Texts)

\* How far it is: only a request with a session asks the host, what the host is
\* asked for it may be asked, and only an error of the host ends it early.
ProgressInv ==
  /\ remote \in Seq(Texts)
  /\ help \in {"none", "skipped", "ok", "timeout", "err"}
  /\ phase \in {"help", "suggest", "local", "done"} /\ result \in {"none", "ok", "err"}
  /\ phase = "help" => session /\ help = "none"
  /\ help \in {"skipped", "ok", "timeout"} => session
  /\ help = "ok" => AsksHost(line)
  /\ result # "none" => phase = "done"
  /\ help = "err" <=> result = "err"
  /\ phase = "done" => result # "none"

\* An answer is what the lists make of it.
AnswerInv == Answered => answer = IF session THEN Merge(LocalItems, HostItems) ELSE LocalItems

IInv == RequestInv /\ ProgressInv /\ AnswerInv

LEMMA Starts == Init => IInv
<1> SUFFICES ASSUME Init  PROVE IInv
  OBVIOUS
<1>1. RequestInv
  <2>1. <<>> \in Seq(Texts) /\ IsInjective(<<>>)
    BY DEF IsInjective
  <2>2. SeqOf(Texts, MaxHistory) \subseteq Seq(Texts) /\ \A q \in Orders : q \in Seq(Texts) /\ IsInjective(q)
    BY DEF SeqOf, Orders
  <2>3. provided \in Seq(Texts) /\ IsInjective(provided) /\ history \in Seq(Texts)
    BY <2>1, <2>2 DEF Init
  <2> QED
    BY <2>3 DEF Init, RequestInv
<1>2. ProgressInv
  BY DEF Init, ProgressInv
<1>3. AnswerInv
  BY DEF Init, AnswerInv, Answered
<1> QED
  BY <1>1, <1>2, <1>3 DEF IInv

\* The local items are made of the request alone.
LEMMA LocalItemsStay ==
  ASSUME UNCHANGED request
  PROVE  LocalItems' = LocalItems
  BY DEF request, LocalItems

LEMMA Keeps == IInv /\ [Next]_vars => IInv'
<1> SUFFICES ASSUME IInv, [Next]_vars  PROVE IInv'
  OBVIOUS
<1> USE DEF IInv
<1>1. UNCHANGED request
  BY DEF Next, vars, Fails, HelpSkipped, HelpArrives, HelpTimesOut, HelpFails, Suggest, Complete
<1>2. RequestInv'
  BY <1>1 DEF RequestInv, request
<1>3. UNCHANGED <<session, line, wanted>> /\ LocalItems' = LocalItems
  BY <1>1, LocalItemsStay DEF request
<1> USE DEF ProgressInv, AnswerInv, Answered
<1>4. CASE HelpSkipped
  BY <1>2, <1>3, <1>4 DEF HelpSkipped
<1>5. CASE HelpArrives
  <2>1. remote' \in Seq(Texts)
    <3>1. PICK texts \in SeqOf(Texts, MaxRemote) : remote' = AtMost(texts, MaxItems(wanted))
      BY <1>5 DEF HelpArrives
    <3>2. texts \in Seq(Texts)
      BY <3>1 DEF SeqOf
    <3>3. MaxItems(wanted) \in Nat
      BY MaxItemsIs DEF RequestInv
    <3> QED
      BY <3>1, <3>2, <3>3, AtMostIs
  <2>2. AsksHost(line)'
    BY <1>3, <1>5 DEF HelpArrives, AsksHost
  <2>3. ProgressInv'
    BY <1>3, <1>5, <2>1, <2>2 DEF HelpArrives
  <2>4. AnswerInv'
    BY <1>5 DEF HelpArrives
  <2> QED
    BY <1>2, <2>3, <2>4
<1>6. CASE HelpTimesOut
  BY <1>2, <1>3, <1>6 DEF HelpTimesOut
<1>7. CASE HelpFails
  BY <1>2, <1>3, <1>7 DEF HelpFails, Fails
<1>8. CASE Suggest
  <2>1. AsksHost(line)' = AsksHost(line)
    BY <1>3 DEF AsksHost
  <2>2. ProgressInv'
    BY <1>3, <1>8, <2>1 DEF Suggest
  <2>3. AnswerInv'
    BY <1>8 DEF Suggest
  <2> QED
    BY <1>2, <2>2, <2>3
<1>9. CASE Complete
  <2>1. AsksHost(line)' = AsksHost(line) /\ HostItems' = HostItems
    BY <1>3, <1>9 DEF AsksHost, Complete, HostItems
  <2>2. ProgressInv'
    BY <1>3, <1>9, <2>1 DEF Complete
  <2>3. answer' = IF session THEN Merge(LocalItems, HostItems) ELSE LocalItems
    BY <1>9 DEF Complete, HostItems
  <2>4. AnswerInv'
    BY <1>3, <2>1, <2>3
  <2> QED
    BY <1>2, <2>2, <2>4
<1>10. CASE UNCHANGED vars
  <2>1. UNCHANGED <<remote, help, phase, answer, result>>
    BY <1>10 DEF vars
  <2>2. AsksHost(line)' = AsksHost(line) /\ HostItems' = HostItems
    BY <1>3, <2>1 DEF AsksHost, HostItems
  <2>3. ProgressInv'
    BY <1>3, <2>1, <2>2
  <2>4. AnswerInv'
    BY <1>3, <2>1, <2>2
  <2> QED
    BY <1>2, <2>3, <2>4
<1> QED
  BY <1>4, <1>5, <1>6, <1>7, <1>8, <1>9, <1>10 DEF Next

\* A request keeps to this through all its steps.
THEOREM CompletionKept == Spec => []IInv
<1> QED
  BY Starts, Keeps, PTL DEF Spec

-----------------------------------------------------------------------------
(* Local answers                                                           *)

\* What ranked_dedup is given: of the provider, and of the history as many as the
\* provider left places for.
Given == ProviderItems(Source(line), provided, MaxItems(wanted))
Filled == IF Len(Given) < MaxItems(wanted) THEN HistoryItems(history, MaxItems(wanted) - Len(Given)) ELSE <<>>

\* There are no more than it may return: it sorts them, and drops no text.
LEMMA LocalItemsAre ==
  ASSUME RequestInv
  PROVE  /\ LocalItems \in Seq(Items) /\ Len(LocalItems) <= MaxItems(wanted)
         /\ \A i, j \in DOMAIN LocalItems : i < j => Precedes(LocalItems[i], LocalItems[j])
         /\ Given \in Seq(Items) /\ Filled \in Seq(Items)
         /\ ToSet(LocalItems) = ToSet(Given) \cup ToSet(Filled)
         /\ IsInjective(LocalItems)
<1> DEFINE max == MaxItems(wanted)
           src == Given \o Filled
<1>1. max \in Nat \ {0}
  BY MaxItemsIs DEF RequestInv
<1>2. Given \in Seq(Items) /\ Len(Given) \in Nat /\ Len(Given) <= max
  <2> DEFINE own == Candidates(Source(line), provided)
  <2>1. own \in Seq(Items)
    BY SourceIs, CandidatesAre DEF RequestInv
  <2> HIDE DEF own, max
  <2>2. AtMost(own, max) \in Seq(Items) /\ Len(AtMost(own, max)) = IF Len(own) < max THEN Len(own) ELSE max
    BY <1>1, <2>1, AtMostIs
  <2>3. Given = AtMost(own, max)
    BY DEF Given, ProviderItems, own, max
  <2> QED
    BY <1>1, <2>1, <2>2, <2>3
<1>3. LocalItems = RankedDedup(src, max)
  BY DEF LocalItems, Given, Filled
<1>4. Filled \in Seq(Items) /\ Len(Filled) \in Nat /\ Len(Given) + Len(Filled) <= max
  <2> HIDE DEF max
  <2>1. CASE Len(Given) < max
    <3>1. max - Len(Given) \in Nat
      BY <1>1, <1>2, <2>1
    <3>2. Filled = HistoryItems(history, max - Len(Given))
      BY <2>1 DEF Filled, max
    <3>3. PastList(Filled, history, max - Len(Given))
      BY <3>1, <3>2, HistoryItemsAre DEF RequestInv
    <3>4. Filled \in Seq(Items) /\ Len(Filled) <= max - Len(Given)
      BY <3>3 DEF PastList
    <3>5. Len(Filled) \in Nat
      BY <3>4
    <3> QED
      BY <1>1, <1>2, <3>4, <3>5
  <2>2. CASE ~(Len(Given) < max)
    <3>1. Filled = <<>>
      BY <2>2 DEF Filled, max
    <3> QED
      BY <1>1, <1>2, <3>1
  <2> QED
    BY <2>1, <2>2
<1>5. src \in Seq(Items) /\ ToSet(src) = ToSet(Given) \cup ToSet(Filled) /\ Len(src) <= max /\ Len(src) \in Nat
  <2>1. src \in Seq(Items) /\ Len(src) = Len(Given) + Len(Filled)
    BY <1>2, <1>4
  <2>2. ToSet(src) = ToSet(Given) \cup ToSet(Filled)
    BY <1>2, <1>4, ToSetConcat
  <2> QED
    BY <1>2, <1>4, <2>1, <2>2
<1> HIDE DEF max, src
<1>6. Best(LocalItems, ToSet(src), max)
  BY <1>1, <1>3, <1>5, RankedIs
<1>7. LocalItems \in Seq(Items) /\ Len(LocalItems) \in Nat /\ DOMAIN LocalItems = 1 .. Len(LocalItems)
  BY <1>6 DEF Best
<1>8. IsInjective(LocalItems)
  <2>1. SUFFICES ASSUME NEW i \in DOMAIN LocalItems, NEW j \in DOMAIN LocalItems, LocalItems[i] = LocalItems[j]
                 PROVE  i = j
    BY DEF IsInjective
  <2>2. LocalItems[i] \in Items
    BY <1>7
  <2>3. ~(i < j) /\ ~(j < i)
    BY <1>6, <2>1, <2>2, PrecedesIs DEF Best
  <2> QED
    BY <1>7, <2>3
<1>9. ToSet(LocalItems) = ToSet(src)
  <2>1. ToSet(LocalItems) \subseteq ToSet(src)
    BY <1>6 DEF Best
  <2>2. SUFFICES ASSUME ToSet(LocalItems) # ToSet(src)  PROVE FALSE
    OBVIOUS
  <2>3. PICK x \in ToSet(src) : x \notin ToSet(LocalItems)
    BY <2>1, <2>2
  <2>4. Len(LocalItems) = max
    BY <1>6, <2>3 DEF Best
  <2>5. Cardinality(ToSet(LocalItems)) = max
    BY <1>7, <1>8, <2>4, ToSetSize
  <2>6. IsFiniteSet(ToSet(src)) /\ Cardinality(ToSet(src)) \in Nat /\ Cardinality(ToSet(src)) <= max
    <3>1. /\ IsFiniteSet(ToSet(src)) /\ Cardinality(ToSet(src)) \in Nat
          /\ Cardinality(ToSet(src)) <= Len(src)
      BY <1>5, ToSetSize
    <3> QED
      BY <1>1, <1>5, <3>1
  <2>7. Cardinality(ToSet(LocalItems)) <= Cardinality(ToSet(src))
    BY <2>1, <2>6, FS_Subset
  <2>8. Cardinality(ToSet(src)) = Cardinality(ToSet(LocalItems))
    BY <1>1, <2>5, <2>6, <2>7
  <2> QED
    BY <2>1, <2>2, <2>6, <2>8, FS_Subset
<1> QED
  BY <1>2, <1>4, <1>5, <1>6, <1>7, <1>8, <1>9 DEF Best, max

\* A local answer leaves out only what it must, for want of places.
THEOREM LocalIsCompleteHolds == Spec => []LocalIsComplete
<1>1. IInv => LocalIsComplete
  <2> SUFFICES ASSUME IInv, Answered, ~session
               PROVE  LocalIsComplete
    BY DEF LocalIsComplete
  <2> DEFINE max == MaxItems(wanted)
             own == Candidates(Source(line), provided)
             past == [i \in DOMAIN history |-> Item("history", history[i])]
             shown == ToSet(answer)
             n == Len(own)
             m == Len(Given)
  <2>1. answer = LocalItems
    BY DEF IInv, AnswerInv
  <2>2. /\ answer \in Seq(Items) /\ Len(answer) <= max /\ IsInjective(answer)
        /\ \A i, j \in DOMAIN answer : i < j => Precedes(answer[i], answer[j])
        /\ Given \in Seq(Items) /\ Filled \in Seq(Items)
        /\ shown = ToSet(Given) \cup ToSet(Filled)
    BY <2>1, LocalItemsAre DEF IInv
  <2>3. max \in Nat \ {0}
    BY MaxItemsIs DEF IInv, RequestInv
  <2>4. /\ own \in Seq(Items) /\ IsInjective(own)
        /\ \A x \in ToSet(own) : x.source # "history"
    BY SourceIs, CandidatesAre DEF IInv, RequestInv
  <2>5. history \in Seq(Texts) /\ DOMAIN history = 1 .. Len(history) /\ Len(history) \in Nat
    BY DEF IInv, RequestInv
  <2>6. /\ DOMAIN past = DOMAIN history /\ Len(past) = Len(history)
        /\ \A i \in DOMAIN history : past[i] = Past(history[i]) /\ past[i].source = "history"
    <3>1. \A x : Past(x) = Item("history", x) /\ Past(x).source = "history"
      BY DEF Past, Item
    <3>2. DOMAIN past = DOMAIN history /\ \A i \in DOMAIN history : past[i] = Past(history[i])
      BY <3>1
    <3>3. Len(past) = Len(history)
      BY <2>5
    <3> QED
      BY <3>1, <3>2, <3>3
  <2> HIDE DEF max, own, past, shown
  <2>7. n \in Nat /\ DOMAIN own = 1 .. n
    BY <2>4
  <2>8. m = (IF n < max THEN n ELSE max) /\ DOMAIN Given = 1 .. m /\ \A i \in 1 .. m : Given[i] = own[i]
    <3>1. Given = AtMost(own, max)
      BY DEF Given, ProviderItems, own, max
    <3> QED
      BY <2>2, <2>3, <2>4, <3>1, AtMostIs
  <2> HIDE DEF n, m
  <2>9. m \in Nat /\ m <= max /\ m <= n /\ (m < max => n = m)
    BY <2>3, <2>7, <2>8
  <2>10. \A i \in 1 .. m : i \in 1 .. n
    BY <2>7, <2>9
  <2>11. ToSet(Given) \subseteq ToSet(own) /\ IsInjective(Given)
    BY <2>4, <2>7, <2>8, <2>10 DEF ToSet, IsInjective
  <2>12. \/ m = max /\ Filled = <<>>
         \/ m < max /\ PastList(Filled, history, max - m)
    <3>1. CASE m < max
      <4>1. max - m \in Nat
        BY <2>3, <2>9, <3>1
      <4>2. Filled = HistoryItems(history, max - m)
        BY <3>1 DEF Filled, m, max
      <4> QED
        BY <2>5, <3>1, <4>1, <4>2, HistoryItemsAre
    <3>2. CASE ~(m < max)
      <4>1. Filled = <<>>
        BY <3>2 DEF Filled, m, max
      <4> QED
        BY <2>3, <2>9, <3>2, <4>1
    <3> QED
      BY <3>1, <3>2
  <2>13. ASSUME NEW x \in ToSet(Filled)
         PROVE  /\ m < max
                /\ \E p \in DOMAIN history :
                     x = past[p] /\ \A j \in p .. Len(past) : past[j] \in shown
    <3>1. m < max /\ PastList(Filled, history, max - m)
      BY <2>12, <2>13 DEF ToSet
    <3>2. PICK i \in DOMAIN Filled : x = Filled[i]
      BY <2>13 DEF ToSet
    <3>3. PICK p \in DOMAIN history :
            Filled[i] = Past(history[p]) /\ \A j \in p .. Len(history) : Past(history[j]) \in ToSet(Filled)
      BY <3>1, <3>2 DEF PastList
    <3>4. \A j \in p .. Len(past) : past[j] \in shown
      <4>1. \A j \in p .. Len(history) : j \in DOMAIN history
        BY <2>5
      <4> QED
        BY <2>2, <2>6, <3>3, <4>1
    <3> QED
      BY <2>6, <3>1, <3>2, <3>3, <3>4
  <2>14. ASSUME NEW i \in DOMAIN past, past[i] \in shown  PROVE past[i] \in ToSet(Filled)
    <3>1. past[i].source = "history"
      BY <2>6
    <3>2. past[i] \notin ToSet(own)
      BY <2>4, <3>1
    <3> QED
      BY <2>2, <2>11, <2>14, <3>2
  <2>15. shown \subseteq ToSet(own) \cup ToSet(past)
    <3>1. \A x \in ToSet(Filled) : x \in ToSet(past)
      BY <2>6, <2>13 DEF ToSet
    <3> QED
      BY <2>2, <2>11, <3>1
  <2>16. ASSUME NEW k \in DOMAIN own  PROVE own[k] \in shown <=> k <= max
    <3>1. k \in 1 .. n /\ own[k] \in ToSet(own)
      BY <2>7 DEF ToSet
    <3>2. ASSUME k <= max  PROVE own[k] \in shown
      <4>1. k \in 1 .. m
        BY <2>3, <2>7, <2>8, <3>1, <3>2
      <4>2. own[k] \in ToSet(Given)
        BY <2>8, <4>1 DEF ToSet
      <4> QED
        BY <2>2, <4>2
    <3>3. ASSUME own[k] \in shown, ~(k <= max)  PROVE FALSE
      <4>1. own[k] \notin ToSet(Filled)
        BY <2>4, <2>6, <2>13, <3>1
      <4>2. PICK i \in 1 .. m : own[k] = own[i]
        BY <2>2, <2>8, <3>3, <4>1 DEF ToSet
      <4>3. k = i
        BY <2>4, <2>7, <2>10, <4>2 DEF IsInjective
      <4> QED
        BY <2>3, <2>9, <3>3, <4>3
    <3> QED
      BY <3>2, <3>3
  <2>17. ASSUME NEW i \in DOMAIN past, past[i] \in shown
         PROVE  /\ Len(own) < max
                /\ \E p \in DOMAIN past :
                     past[p] = past[i] /\ \A j \in p .. Len(past) : past[j] \in shown
    <3>1. past[i] \in ToSet(Filled)
      BY <2>14, <2>17
    <3>2. Len(own) < max
      BY <2>9, <2>13, <3>1 DEF n
    <3> QED
      BY <2>6, <2>13, <3>1, <3>2
  <2>18. ASSUME NEW i \in DOMAIN past
         PROVE  past[i] \in shown \/ Len(answer) = max \/ Repeats(history)
    <3> SUFFICES ASSUME past[i] \notin shown, ~Repeats(history)  PROVE Len(answer) = max
      OBVIOUS
    <3>1. Cardinality(ToSet(Given)) = m
      BY <2>2, <2>11, ToSetSize DEF m
    <3>2. Cardinality(shown) = Len(answer)
      BY <2>2, ToSetSize DEF shown
    <3>3. CASE m = max /\ Filled = <<>>
      <4>1. shown = ToSet(Given)
        BY <2>2, <3>3 DEF ToSet
      <4> QED
        BY <3>1, <3>2, <3>3, <4>1
    <3>4. CASE m < max /\ PastList(Filled, history, max - m)
      <4>1. past[i] \notin ToSet(Filled) /\ past[i] = Past(history[i]) /\ i \in DOMAIN history
        BY <2>2, <2>6
      <4>2. Len(Filled) = max - m /\ IsInjective(Filled)
        BY <3>4, <4>1 DEF PastList
      <4>3. ToSet(Given) \cap ToSet(Filled) = {}
        BY <2>4, <2>6, <2>11, <2>13
      <4>4. /\ Given \o Filled \in Seq(Items) /\ IsInjective(Given \o Filled)
            /\ ToSet(Given \o Filled) = shown
        BY <2>2, <2>11, <4>2, <4>3, JoinApart
      <4>5. Cardinality(shown) = Len(Given \o Filled)
        BY <4>4, ToSetSize
      <4>6. Len(Given \o Filled) = m + (max - m)
        BY <2>2, <4>2 DEF m
      <4> QED
        BY <2>3, <2>9, <3>2, <4>5, <4>6
    <3> QED
      BY <2>12, <3>3, <3>4
  <2> QED
    BY <2>2, <2>15, <2>16, <2>17, <2>18 DEF LocalIsComplete, max, own, past, shown
<1> QED
  BY <1>1, CompletionKept, PTL

-----------------------------------------------------------------------------
(* Merged answers                                                          *)

\* What is true of an answer that a merge has made.
LEMMA AnswerIsMerged ==
  ASSUME IInv, Answered, session
  PROVE  /\ LocalItems \in Seq(Items) /\ HostItems \in Seq(Items)
         /\ Merged(answer, Len(LocalItems \o HostItems), LocalItems \o HostItems)
<1>1. LocalItems \in Seq(Items)
  BY LocalItemsAre DEF IInv
<1>2. HostItems \in Seq(Items)
  <2>1. remote \in Seq(Texts)
    BY DEF IInv, ProgressInv
  <2>2. ASSUME NEW i \in DOMAIN remote  PROVE HostItem(remote[i]) \in Items
    <3>1. remote[i] \in Texts
      BY <2>1
    <3>2. remote[i] \in Nat
      BY <3>1, ItemsAssumption
    <3> QED
      BY <3>2 DEF HostItem, Item, Items, Sources
  <2> QED
    BY <2>1, <2>2 DEF HostItems
<1>3. answer = Merge(LocalItems, HostItems)
  BY DEF IInv, AnswerInv
<1> QED
  BY <1>1, <1>2, <1>3, MergeIs

\* Every text that was there is in the answer, or the answer is full.
LEMMA NothingIsLost ==
  ASSUME IInv, Answered, session
  PROVE  /\ answer \in Seq(Items) /\ ToSet(AnswerTexts) = TextsOf(answer)
         /\ \A t \in {x.text : x \in ToSet(LocalItems)} \cup ToSet(remote) :
              t \in ToSet(AnswerTexts) \/ Len(answer) = MergedItems
<1> DEFINE local == LocalItems
           host == HostItems
           src == local \o host
           m == Len(local)
           n == Len(host)
<1>1. /\ local \in Seq(Items) /\ host \in Seq(Items)
      /\ Merged(answer, Len(src), src)
  BY AnswerIsMerged
<1>2. /\ DOMAIN host = DOMAIN remote
      /\ \A i \in DOMAIN host : host[i].text = remote[i]
  BY DEF HostItems, HostItem, Item
<1> HIDE DEF local, host
<1>3. /\ m \in Nat /\ n \in Nat /\ Len(src) = m + n /\ DOMAIN local = 1 .. m /\ DOMAIN host = 1 .. n
      /\ \A i \in 1 .. m + n : src[i] = IF i <= m THEN local[i] ELSE host[i - m]
  BY <1>1, ConcatProperties
<1> HIDE DEF src, m, n
<1>4. \A i \in 1 .. m + n : src[i].text \in TextsOf(answer) \/ Len(answer) = MergedItems
  BY <1>1, <1>3 DEF Merged
<1>5. answer \in Seq(Items)
  BY <1>1 DEF Merged
<1>6. ToSet(AnswerTexts) = TextsOf(answer)
  <2>1. DOMAIN AnswerTexts = DOMAIN answer /\ \A i \in DOMAIN answer : AnswerTexts[i] = answer[i].text
    BY DEF AnswerTexts
  <2> QED
    BY <2>1 DEF ToSet, TextsOf
<1>7. ASSUME NEW x \in ToSet(local)
      PROVE  x.text \in ToSet(AnswerTexts) \/ Len(answer) = MergedItems
  <2>1. PICK i \in 1 .. m : x = local[i]
    BY <1>3 DEF ToSet
  <2>2. i \in 1 .. m + n /\ src[i] = x
    BY <1>3, <2>1
  <2> QED
    BY <1>4, <1>6, <2>2
<1>8. ASSUME NEW t \in ToSet(remote)
      PROVE  t \in ToSet(AnswerTexts) \/ Len(answer) = MergedItems
  <2>1. PICK i \in 1 .. n : t = remote[i]
    BY <1>2, <1>3 DEF ToSet
  <2>2. m + i \in 1 .. m + n /\ ~(m + i <= m) /\ (m + i) - m = i
    BY <1>3
  <2>3. src[m + i] = host[i] /\ host[i].text = t
    BY <1>2, <1>3, <2>1, <2>2
  <2> QED
    BY <1>4, <1>6, <2>2, <2>3
<1> QED
  BY <1>5, <1>6, <1>7, <1>8 DEF local

\* A merged answer takes the items in the order in which they were offered, each
\* text where it was offered first, and leaves one out only when it is full.
THEOREM MergedIsWholeHolds == Spec => []MergedIsWhole
<1>1. IInv => MergedIsWhole
  <2> SUFFICES ASSUME IInv, Answered, session
               PROVE  MergedIsWhole
    BY DEF MergedIsWhole
  <2> DEFINE all == LocalItems \o HostItems
             firsts == {k \in DOMAIN all : \A i \in 1 .. k - 1 : all[i].text # all[k].text}
  <2>1. all \in Seq(Items) /\ Merged(answer, Len(all), all)
    BY AnswerIsMerged
  <2>2. firsts = Firsts(all)
    BY DEF Firsts
  <2> HIDE DEF all
  <2>3. Len(answer) <= MergedItems
    BY <2>1 DEF Merged
  <2>4. IsInjective(AnswerTexts)
    <3>1. \A i, j \in DOMAIN answer : answer[i].text = answer[j].text => i = j
      BY <2>1 DEF Merged
    <3>2. DOMAIN AnswerTexts = DOMAIN answer /\ \A i \in DOMAIN answer : AnswerTexts[i] = answer[i].text
      BY DEF AnswerTexts
    <3> QED
      BY <3>1, <3>2 DEF IsInjective
  <2>5. \A i \in DOMAIN answer : \E k \in firsts : answer[i] = all[k]
    BY <2>1, <2>2 DEF Merged
  <2>6. \A k, l \in firsts, j \in DOMAIN answer :
          k < l /\ answer[j] = all[l] => \E i \in 1 .. j - 1 : answer[i] = all[k]
    BY <2>1, <2>2 DEF Merged
  <2>7. ASSUME NEW k \in firsts  PROVE all[k] \in ToSet(answer) \/ Len(answer) = MergedItems
    <3>1. k \in 1 .. Len(all)
      BY <2>1
    <3>2. CASE all[k].text \in TextsOf(answer)
      <4>1. PICK i \in DOMAIN answer : answer[i].text = all[k].text
        BY <3>2 DEF TextsOf, ToSet
      <4>2. PICK p \in Firsts(all) : answer[i] = all[p]
        BY <2>1 DEF Merged
      <4>3. p = k
        BY <2>1, <2>2, <4>1, <4>2, FirstIsOne
      <4> QED
        BY <4>2, <4>3 DEF ToSet
    <3> QED
      BY <2>1, <3>1, <3>2 DEF Merged
  <2> QED
    BY <2>3, <2>4, <2>5, <2>6, <2>7 DEF MergedIsWhole, all
<1> QED
  BY <1>1, CompletionKept, PTL

\* A host that is slow, or is not asked, never costs the user the local items.
THEOREM SlowHostHarmlessHolds == Spec => []SlowHostHarmless
<1>1. IInv => SlowHostHarmless
  <2> SUFFICES ASSUME IInv, help \in {"timeout", "skipped"}, phase = "done"
               PROVE  /\ Answered
                      /\ \A x \in ToSet(LocalItems) :
                           x.text \in ToSet(AnswerTexts) \/ Len(answer) = MergedItems
    BY DEF SlowHostHarmless
  <2>1. Answered /\ session
    BY DEF IInv, ProgressInv, Answered
  <2>2. \A t \in {x.text : x \in ToSet(LocalItems)} :
          t \in ToSet(AnswerTexts) \/ Len(answer) = MergedItems
    BY <2>1, NothingIsLost
  <2> QED
    BY <2>1, <2>2
<1> QED
  BY <1>1, CompletionKept, PTL

-----------------------------------------------------------------------------
(* The two readings of the typed line                                      *)

\* They name the same token, where the host was asked.
THEOREM SameTokenHolds == Spec => []SameToken
<1>1. IInv => SameToken
  <2> SUFFICES ASSUME IInv, help = "ok"
               PROVE  /\ HelpCurrent(line) = Current(line)
                      /\ AsksNames(line) <=> CompletesCommand(line)
    BY DEF SameToken
  <2>1. line \in [words : Seq(Words), space : BOOLEAN] /\ line.words # <<>>
    BY ItemsAssumption DEF IInv, RequestInv, ProgressInv, AsksHost
  <2>2. HelpCurrent(line) = Current(line)
    BY <2>1 DEF HelpCurrent, Current
  <2>3. Len(line.words) \in Nat \ {0}
    BY <2>1
  <2>4. AsksNames(line) <=> CompletesCommand(line)
    BY <2>1, <2>3 DEF AsksNames, CompletesCommand, TokenIndex
  <2> QED
    BY <2>2, <2>4
<1> QED
  BY <1>1, CompletionKept, PTL

\* What the host runs are the first words of a line, and finished ones.
LEMMA TokensAreFinished ==
  ASSUME NEW typed \in [words : Seq(Words), space : BOOLEAN], typed.words # <<>>, ~AsksNames(typed),
         NEW finished, finished = IF typed.space THEN typed.words ELSE Front(typed.words)
  PROVE  /\ IsPrefix(HelpTokens(typed), finished)
         /\ Len(finished) >= 2 /\ finished[2] \notin Unsafe \cup Flags
              => Len(HelpTokens(typed)) = 2 \/ Current(typed) = finished[2]
<1> DEFINE words == typed.words
           n == Len(words)
           two == /\ n >= 2
                  /\ typed.space \/ HelpCurrent(typed) # words[2]
                  /\ words[2] \notin Unsafe \cup Flags
           k == IF two THEN 2 ELSE 1
           f == IF typed.space THEN n ELSE n - 1
<1>1. words \in Seq(Words) /\ n \in Nat \ {0} /\ typed.space \in BOOLEAN /\ \A i \in 1 .. n : words[i] \in Words
  OBVIOUS
<1>2. HelpTokens(typed) = SubSeq(words, 1, k)
  BY DEF HelpTokens
<1>3. ~typed.space => n >= 2 /\ HelpCurrent(typed) = words[n] /\ Current(typed) = words[n]
  <2>1. ~typed.space => HelpCurrent(typed) = words[n] /\ Current(typed) = words[n]
    BY DEF HelpCurrent, Current, Last
  <2>2. ~typed.space => n # 1
    BY DEF AsksNames
  <2> HIDE DEF n
  <2> QED
    BY <1>1, <2>1, <2>2
<1>4. two => n >= 2 /\ (~typed.space => n # 2)
  BY <1>3
<1>5. ~typed.space \/ typed.space = TRUE
  BY <1>1
<1>6. finished = SubSeq(words, 1, f)
  <2>1. CASE typed.space
    <3>1. SubSeq(words, 1, n) = words
      BY <1>1, SubSeqFull
    <3> QED
      BY <2>1, <3>1
  <2>2. CASE ~typed.space
    BY <2>2 DEF Front
  <2> QED
    BY <2>1, <2>2
<1> HIDE DEF words, n, two
<1>7. k \in 1 .. 2 /\ f \in 0 .. n /\ k <= f
  BY <1>1, <1>3, <1>4
<1> HIDE DEF k, f
<1>8. /\ SubSeq(words, 1, k) \in Seq(Words) /\ Len(SubSeq(words, 1, k)) = k
      /\ \A i \in 1 .. k : SubSeq(words, 1, k)[i] = words[i]
  BY <1>1, <1>7, SubSeqProperties
<1>9. /\ finished \in Seq(Words) /\ Len(finished) = f
      /\ \A i \in 1 .. f : finished[i] = words[i]
  BY <1>1, <1>6, <1>7, SubSeqProperties
<1>10. SubSeq(finished, 1, k) = SubSeq(words, 1, k)
  <2>1. \A i \in 1 .. k : i \in 1 .. f /\ finished[i] \in Words
    BY <1>7, <1>9
  <2>2. /\ SubSeq(finished, 1, k) \in Seq(Words) /\ Len(SubSeq(finished, 1, k)) = k
        /\ \A i \in 1 .. k : SubSeq(finished, 1, k)[i] = finished[i]
    BY <1>7, <2>1, SubSeqProperties
  <2> QED
    BY <1>8, <1>9, <2>1, <2>2, SeqEqual
<1>11. IsPrefix(HelpTokens(typed), finished)
  <2>1. SubSeq(SubSeq(words, 1, k), 1, k) = SubSeq(words, 1, k)
    BY <1>8, SubSeqFull
  <2> QED
    BY <1>2, <1>7, <1>8, <1>9, <1>10, <2>1 DEF IsPrefix
<1>12. ASSUME Len(finished) >= 2, finished[2] \notin Unsafe \cup Flags
       PROVE  Len(HelpTokens(typed)) = 2 \/ Current(typed) = finished[2]
  <2>1. 2 \in 1 .. f /\ n >= 2 /\ finished[2] = words[2]
    BY <1>1, <1>7, <1>9, <1>12
  <2>2. CASE two
    BY <1>2, <1>8, <2>2 DEF k
  <2>3. CASE ~two
    <3>1. ~typed.space /\ HelpCurrent(typed) = words[2]
      BY <1>12, <2>1, <2>3 DEF two
    <3> QED
      BY <1>3, <2>1, <3>1
  <2> QED
    BY <2>2, <2>3
<1> QED
  BY <1>11, <1>12

\* What runs on the host for the sake of help are words that the user has
\* finished, and a finished subcommand is among them.
THEOREM FinishedWordsOnlyHolds == Spec => []FinishedWordsOnly
<1>1. IInv => FinishedWordsOnly
  <2> SUFFICES ASSUME IInv, help # "none", AsksHost(line), ~AsksNames(line)
               PROVE  FinishedWordsOnly
    BY DEF FinishedWordsOnly
  <2>1. line \in [words : Seq(Words), space : BOOLEAN] /\ line.words # <<>>
    BY ItemsAssumption DEF IInv, RequestInv, AsksHost
  <2> DEFINE finished == IF line.space THEN line.words ELSE Front(line.words)
  <2>2. /\ IsPrefix(HelpTokens(line), finished)
        /\ Len(finished) >= 2 /\ finished[2] \notin Unsafe \cup Flags
             => Len(HelpTokens(line)) = 2 \/ Current(line) = finished[2]
    BY <2>1, TokensAreFinished
  <2> QED
    BY <2>2 DEF FinishedWordsOnly
<1> QED
  BY <1>1, CompletionKept, PTL
=============================================================================
