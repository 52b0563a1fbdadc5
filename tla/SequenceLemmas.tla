--------------------------- MODULE SequenceLemmas ---------------------------
(***************************************************************************)
(* Lemmas about sequences: what a channel holds, as a set, and how a send  *)
(* and a receive change it; induction, folds and sorting.                  *)
(***************************************************************************)
EXTENDS SequencesExt, SequenceTheorems, FiniteSetTheorems, WellFoundedInduction, TLAPS

\* A channel holds elements of its type, and is empty when it holds none.
LEMMA ToSetType ==
  ASSUME NEW S, NEW q \in Seq(S)
  PROVE  /\ ToSet(q) \subseteq S
         /\ q = <<>> <=> ToSet(q) = {}
<1>1. DOMAIN q = 1 .. Len(q) /\ \A i \in 1 .. Len(q) : q[i] \in S
  OBVIOUS
<1>2. Len(q) \in Nat /\ (q = <<>> <=> Len(q) = 0)
  OBVIOUS
<1>3. CASE q = <<>>
  BY <1>3, <1>1, <1>2 DEF ToSet
<1>4. CASE q # <<>>
  <2>1. 1 \in DOMAIN q
    BY <1>1, <1>2, <1>4
  <2> QED
    BY <1>1, <1>4, <2>1 DEF ToSet
<1> QED
  BY <1>3, <1>4

\* A send adds one element to what the channel holds.
LEMMA ToSetAppend ==
  ASSUME NEW S, NEW q \in Seq(S), NEW x \in S
  PROVE  ToSet(Append(q, x)) = ToSet(q) \cup {x}
<1> DEFINE r == Append(q, x)
           n == Len(q)
<1>1. /\ n \in Nat
      /\ DOMAIN q = 1 .. n
      /\ DOMAIN r = 1 .. n + 1
      /\ r[n + 1] = x
      /\ \A i \in 1 .. n : r[i] = q[i]
  BY AppendProperties
<1> HIDE DEF r, n
<1>2. 1 .. n + 1 = (1 .. n) \cup {n + 1}
  BY <1>1
<1>3. ToSet(r) = {r[i] : i \in (1 .. n) \cup {n + 1}}
  BY <1>1, <1>2 DEF ToSet
<1>4. ToSet(q) = {q[i] : i \in 1 .. n}
  BY <1>1 DEF ToSet
<1>5. ToSet(r) = ToSet(q) \cup {x}
  BY <1>1, <1>3, <1>4
<1> QED
  BY <1>5 DEF r

\* A receive takes the head out and leaves the rest.
LEMMA ToSetTail ==
  ASSUME NEW S, NEW q \in Seq(S), q # <<>>
  PROVE  /\ Head(q) \in S
         /\ Tail(q) \in Seq(S)
         /\ Len(q) > 0 /\ Len(Tail(q)) = Len(q) - 1
         /\ ToSet(q) = {Head(q)} \cup ToSet(Tail(q))
<1> DEFINE r == Tail(q)
           n == Len(q)
<1>1. /\ n \in Nat \ {0}
      /\ Head(q) = q[1] /\ q[1] \in S
      /\ r \in Seq(S) /\ Len(r) = n - 1
      /\ DOMAIN q = 1 .. n /\ DOMAIN r = 1 .. n - 1
      /\ \A i \in 1 .. n - 1 : r[i] = q[i + 1]
  BY HeadTailProperties
<1> HIDE DEF r, n
<1>2. ToSet(q) = {q[i] : i \in 1 .. n}
  BY <1>1 DEF ToSet
<1>3. ToSet(r) = {r[i] : i \in 1 .. n - 1}
  BY <1>1 DEF ToSet
<1>4. ToSet(r) \subseteq ToSet(q) /\ q[1] \in ToSet(q)
  <2>1. \A i \in 1 .. n - 1 : i + 1 \in 1 .. n
    BY <1>1
  <2> QED
    BY <1>1, <1>2, <1>3, <2>1
<1>5. ASSUME NEW y \in ToSet(q), y # q[1]  PROVE y \in ToSet(r)
  <2>1. PICK i \in 1 .. n : y = q[i]
    BY <1>2, <1>5
  <2>2. i - 1 \in 1 .. n - 1 /\ i = (i - 1) + 1
    BY <1>1, <1>5, <2>1
  <2>3. r[i - 1] = q[i]
    BY <1>1, <2>2
  <2> QED
    BY <1>3, <2>1, <2>2, <2>3
<1>6. ToSet(q) = {q[1]} \cup ToSet(r)
  BY <1>4, <1>5
<1> QED
  BY <1>1, <1>6 DEF r, n

\* A channel that holds nothing twice still does so after a send of another.
LEMMA InjectiveAppend ==
  ASSUME NEW S, NEW q \in Seq(S), NEW x \in S, IsInjective(q), x \notin ToSet(q)
  PROVE  IsInjective(Append(q, x))
  BY DEF ToSet, IsInjective

\* ... and after a receive, which takes the only copy of the head.
LEMMA InjectiveTail ==
  ASSUME NEW S, NEW q \in Seq(S), q # <<>>, IsInjective(q)
  PROVE  IsInjective(Tail(q)) /\ Head(q) \notin ToSet(Tail(q))
  BY DEF ToSet, IsInjective

\* What a sequence of three holds.
LEMMA ToSetThree ==
  ASSUME NEW S, NEW a \in S, NEW b \in S, NEW c \in S
  PROVE  /\ <<a, b, c>> \in Seq(S) /\ Len(<<a, b, c>>) = 3
         /\ ToSet(<<a, b, c>>) = {a, b, c}
<1> DEFINE q == <<a, b, c>>
<1>1. q \in Seq(S) /\ Len(q) = 3 /\ q[1] = a /\ q[2] = b /\ q[3] = c
  OBVIOUS
<1> HIDE DEF q
<1>2. DOMAIN q = {1, 2, 3}
  BY <1>1
<1>3. ToSet(q) = {a, b, c}
  BY <1>1, <1>2 DEF ToSet
<1> QED
  BY <1>1, <1>3 DEF q

\* Three that differ are held once each.
LEMMA InjectiveThree ==
  ASSUME NEW S, NEW a \in S, NEW b \in S, NEW c \in S, a # b, b # c, a # c,
         NEW q, q = <<a, b, c>>
  PROVE  q \in Seq(S) /\ IsInjective(q) /\ ToSet(q) = {a, b, c}
<1>1. DOMAIN q = {1, 2, 3} /\ q[1] = a /\ q[2] = b /\ q[3] = c
  OBVIOUS
<1>2. IsInjective(q)
  BY <1>1 DEF IsInjective
<1> QED
  BY <1>2, ToSetThree

\* Two sequences that share nothing, one after the other.
LEMMA JoinApart ==
  ASSUME NEW S, NEW a \in Seq(S), NEW b \in Seq(S), IsInjective(a), IsInjective(b),
         ToSet(a) \cap ToSet(b) = {}
  PROVE  a \o b \in Seq(S) /\ IsInjective(a \o b) /\ ToSet(a \o b) = ToSet(a) \cup ToSet(b)
<1> DEFINE m == Len(a)
           n == Len(b)
           j == a \o b
<1>1. /\ m \in Nat /\ n \in Nat /\ DOMAIN a = 1 .. m /\ DOMAIN b = 1 .. n
      /\ j \in Seq(S) /\ DOMAIN j = 1 .. m + n
      /\ \A i \in 1 .. m + n : j[i] = IF i <= m THEN a[i] ELSE b[i - m]
  BY ConcatProperties
<1> HIDE DEF m, n, j
<1>2. /\ \A i \in 1 .. m : i \in 1 .. m + n /\ j[i] = a[i]
      /\ \A i \in 1 .. n : i + m \in 1 .. m + n /\ j[i + m] = b[i]
  <2>1. ASSUME NEW i \in 1 .. n  PROVE i + m \in 1 .. m + n /\ (i + m) - m = i /\ ~(i + m <= m)
    BY <1>1
  <2> QED
    BY <1>1, <2>1
<1>3. ASSUME NEW i \in 1 .. m + n
      PROVE  \/ i \in 1 .. m /\ j[i] = a[i] /\ j[i] \in ToSet(a)
             \/ i \notin 1 .. m /\ i - m \in 1 .. n /\ j[i] = b[i - m] /\ j[i] \in ToSet(b)
  <2>1. CASE i \in 1 .. m
    BY <1>1, <1>2, <2>1 DEF ToSet
  <2>2. CASE i \notin 1 .. m
    <3>1. i - m \in 1 .. n /\ j[i] = b[i - m]
      BY <1>1, <2>2
    <3> QED
      BY <1>1, <2>2, <3>1 DEF ToSet
  <2> QED
    BY <2>1, <2>2
<1>4. ToSet(j) = ToSet(a) \cup ToSet(b)
  <2>1. ToSet(j) \subseteq ToSet(a) \cup ToSet(b)
    <3>1. \A y \in ToSet(j) : \E i \in 1 .. m + n : y = j[i]
      BY <1>1 DEF ToSet
    <3> QED
      BY <1>3, <3>1
  <2>2. ToSet(a) \subseteq ToSet(j)
    BY <1>1, <1>2 DEF ToSet
  <2>3. ToSet(b) \subseteq ToSet(j)
    <3>1. ASSUME NEW i \in 1 .. n  PROVE b[i] \in ToSet(j)
      <4>1. i + m \in DOMAIN j /\ j[i + m] = b[i]
        BY <1>1, <1>2
      <4> QED
        BY <4>1 DEF ToSet
    <3> QED
      BY <1>1, <3>1 DEF ToSet
  <2> QED
    BY <2>1, <2>2, <2>3
<1>5. ASSUME NEW i \in 1 .. m + n, NEW k \in 1 .. m + n, j[i] = j[k]  PROVE i = k
  <2>1. CASE i \in 1 .. m /\ k \in 1 .. m
    <3>1. a[i] = a[k]
      BY <1>2, <1>5, <2>1
    <3> QED
      BY <1>1, <2>1, <3>1 DEF IsInjective
  <2>2. CASE i \notin 1 .. m /\ k \notin 1 .. m
    <3>1. i - m \in 1 .. n /\ k - m \in 1 .. n /\ b[i - m] = b[k - m]
      BY <1>3, <1>5, <2>2
    <3>2. i - m = k - m
      BY <1>1, <3>1 DEF IsInjective
    <3> QED
      BY <1>1, <3>2
  <2>3. ~(i \in 1 .. m /\ k \notin 1 .. m) /\ ~(i \notin 1 .. m /\ k \in 1 .. m)
    <3>1. \A y : ~(y \in ToSet(a) /\ y \in ToSet(b))
      OBVIOUS
    <3> QED
      BY <1>3, <1>5, <3>1
  <2> QED
    BY <2>1, <2>2, <2>3
<1> QED
  BY <1>1, <1>4, <1>5 DEF IsInjective, j

\* A sequence has as many elements as places if it has none of them twice, and
\* fewer otherwise.
LEMMA ToSetSize ==
  ASSUME NEW S, NEW q \in Seq(S)
  PROVE  /\ IsFiniteSet(ToSet(q)) /\ Cardinality(ToSet(q)) \in Nat
         /\ Cardinality(ToSet(q)) <= Len(q)
         /\ Cardinality(ToSet(q)) = Len(q) <=> IsInjective(q)
<1> DEFINE T == ToSet(q)
<1>1. Len(q) \in Nat /\ DOMAIN q = 1 .. Len(q)
  OBVIOUS
<1>2. q \in [1 .. Len(q) -> T]
  BY <1>1 DEF ToSet
<1>3. \A t \in T : \E i \in 1 .. Len(q) : q[i] = t
  BY <1>1 DEF ToSet
<1>4. IsFiniteSet(1 .. Len(q)) /\ Cardinality(1 .. Len(q)) = Len(q)
  BY <1>1, FS_Interval
<1> HIDE DEF T
<1>5. q \in Surjection(1 .. Len(q), T)
  BY <1>2, <1>3 DEF Surjection
<1>6. q \in Injection(1 .. Len(q), T) <=> IsInjective(q)
  BY <1>2 DEF Injection
<1>7. IsFiniteSet(T) /\ Cardinality(T) <= Len(q) /\ (Cardinality(T) = Len(q) <=> IsInjective(q))
  BY <1>4, <1>5, <1>6, FS_Surjection
<1>8. Cardinality(T) \in Nat
  BY <1>7, FS_CardinalityType
<1> QED
  BY <1>7, <1>8 DEF T

\* A part from the start holds nothing else.
LEMMA ToSetPrefix ==
  ASSUME NEW S, NEW q \in Seq(S), NEW n \in 0 .. Len(q)
  PROVE  /\ SubSeq(q, 1, n) \in Seq(S)
         /\ ToSet(SubSeq(q, 1, n)) \subseteq ToSet(q)
<1> DEFINE r == SubSeq(q, 1, n)
<1>1. Len(q) \in Nat /\ DOMAIN q = 1 .. Len(q) /\ \A i \in 1 .. n : q[i] \in S
  OBVIOUS
<1>2. r \in Seq(S) /\ Len(r) = n /\ \A i \in 1 .. n : r[i] = q[i]
  BY <1>1, SubSeqProperties
<1>3. DOMAIN r = 1 .. n
  BY <1>2
<1> HIDE DEF r
<1>4. ToSet(r) \subseteq ToSet(q)
  BY <1>1, <1>2, <1>3 DEF ToSet
<1> QED
  BY <1>2, <1>4 DEF r

\* A sequence that goes on with one element is what Append makes.
LEMMA AppendIs ==
  ASSUME NEW S, NEW s \in Seq(S), NEW t \in Seq(S), NEW x \in S,
         Len(t) = Len(s) + 1, t[Len(s) + 1] = x, \A i \in 1 .. Len(s) : t[i] = s[i]
  PROVE  Append(s, x) = t
<1>1. /\ Append(s, x) \in Seq(S) /\ Len(Append(s, x)) = Len(s) + 1
      /\ Append(s, x)[Len(s) + 1] = x
      /\ \A i \in 1 .. Len(s) : Append(s, x)[i] = s[i]
  BY AppendProperties
<1>2. \A i \in 1 .. Len(t) : Append(s, x)[i] = t[i]
  BY <1>1
<1> QED
  BY <1>1, <1>2, SeqEqual

\* Appending to a sequence of one element makes a pair.
LEMMA AppendToOne ==
  ASSUME NEW a, NEW x
  PROVE  Append(<<a>>, x) = <<a, x>>
<1> DEFINE S == {a, x}
           s == <<a>>
           t == <<a, x>>
<1>1. x \in S /\ s \in Seq(S) /\ t \in Seq(S)
  OBVIOUS
<1>2. Len(s) = 1 /\ Len(t) = 2 /\ s[1] = a /\ t[1] = a /\ t[2] = x
  OBVIOUS
<1> HIDE DEF S, s, t
<1>3. Len(t) = Len(s) + 1 /\ t[Len(s) + 1] = x /\ \A i \in 1 .. Len(s) : t[i] = s[i]
  BY <1>2
<1>4. Append(s, x) = t
  BY <1>1, <1>3, AppendIs, Zenon
<1> QED
  BY <1>4 DEF s, t

\* Appending to a pair makes a triple.
LEMMA AppendToTwo ==
  ASSUME NEW a, NEW b, NEW x
  PROVE  Append(<<a, b>>, x) = <<a, b, x>>
<1> DEFINE S == {a, b, x}
           s == <<a, b>>
           t == <<a, b, x>>
<1>1. x \in S /\ s \in Seq(S) /\ t \in Seq(S)
  OBVIOUS
<1>2. /\ Len(s) = 2 /\ Len(t) = 3
      /\ s[1] = a /\ s[2] = b /\ t[1] = a /\ t[2] = b /\ t[3] = x
  OBVIOUS
<1> HIDE DEF S, s, t
<1>3. Len(t) = Len(s) + 1 /\ t[Len(s) + 1] = x /\ \A i \in 1 .. Len(s) : t[i] = s[i]
  BY <1>2
<1>4. Append(s, x) = t
  BY <1>1, <1>3, AppendIs, Zenon
<1> QED
  BY <1>4 DEF s, t

-----------------------------------------------------------------------------
(* Induction on the numbers                                                *)

\* Every set of numbers that holds one has a least: else its elements would
\* bound a descending chain of finite sets.
LEMMA Least ==
  ASSUME NEW S, S \subseteq Nat, S # {}
  PROVE  \E m \in S : \A k \in S : m <= k
<1> DEFINE T == {0 .. k : k \in S}
           R == StrictSubsetOrdering(Nat)
<1>1. IsWellFoundedOn(R, FiniteSubsetsOf(Nat))
  BY FS_StrictSubsetOrderingWellFounded
<1>2. T \subseteq FiniteSubsetsOf(Nat) /\ T # {}
  <2>1. ASSUME NEW k \in S  PROVE 0 .. k \in FiniteSubsetsOf(Nat)
    <3>1. IsFiniteSet(0 .. k)
      BY FS_Interval
    <3> QED
      BY <3>1 DEF FiniteSubsetsOf
  <2> QED
    BY <2>1
<1> HIDE DEF R, T
<1>3. \E x \in T : \A y \in T : ~(<<y, x>> \in R)
  BY <1>1, <1>2, WFMin
<1>4. PICK m \in S : \A y \in T : ~(<<y, 0 .. m>> \in R)
  BY <1>3 DEF T
<1>5. ASSUME NEW k \in S, k < m  PROVE FALSE
  <2>1. /\ 0 .. k \in SUBSET Nat /\ 0 .. m \in SUBSET Nat /\ 0 .. k \subseteq 0 .. m
        /\ m \in 0 .. m /\ m \notin 0 .. k
    BY <1>5
  <2>2. <<0 .. k, 0 .. m>> \in R
    BY <2>1 DEF R, StrictSubsetOrdering
  <2> QED
    BY <1>4, <2>2 DEF T
<1> QED
  BY <1>4, <1>5

\* What holds of 0, and of k + 1 whenever of k < n, holds of all up to n.
LEMMA UpTo ==
  ASSUME NEW n \in Nat, NEW S, 0 \in S, \A k \in 0 .. n - 1 : k \in S => k + 1 \in S
  PROVE  \A k \in 0 .. n : k \in S
<1> SUFFICES ASSUME NEW j \in 0 .. n, j \notin S  PROVE FALSE
  OBVIOUS
<1> DEFINE T == (0 .. n) \ S
<1>1. T \subseteq Nat /\ T # {}
  OBVIOUS
<1> HIDE DEF T
<1>2. PICK m \in T : \A k \in T : m <= k
  BY <1>1, Least
<1>3. m \in 0 .. n /\ m # 0 /\ m \notin S
  BY <1>2 DEF T
<1>4. m - 1 \in 0 .. n - 1 /\ m - 1 \notin T
  BY <1>2, <1>3
<1>5. m - 1 \in S
  BY <1>3, <1>4 DEF T
<1> QED
  BY <1>3, <1>4, <1>5

-----------------------------------------------------------------------------
(* Folds                                                                   *)

\* A fold goes through a sequence by the sets of its first positions.
LEMMA Positions ==
  ASSUME NEW k \in Nat
  PROVE  /\ 1 .. 0 = {}
         /\ k # 0 => 1 .. k # {} /\ Max(1 .. k) = k /\ (1 .. k) \ {k} = 1 .. k - 1
<1>1. ASSUME k # 0  PROVE Max(1 .. k) = k
  <2>1. k \in 1 .. k /\ \A y \in 1 .. k : k >= y
    BY <1>1
  <2>2. \A x \in 1 .. k : (\A y \in 1 .. k : x >= y) => x = k
    BY <1>1
  <2> QED
    BY <2>1, <2>2 DEF Max
<1> QED
  BY <1>1

\* The greatest of some positions is one of them.
LEMMA MaxIsMember ==
  ASSUME NEW n \in Nat, NEW s \in SUBSET (1 .. n), s # {}
  PROVE  Max(s) \in s /\ \A y \in s : y <= Max(s)
<1> DEFINE T == {n - y : y \in s}
<1>1. T \subseteq Nat /\ T # {}
  <2>1. \A y \in s : n - y \in Nat
    OBVIOUS
  <2> QED
    BY <2>1
<1> HIDE DEF T
<1>2. PICK m \in T : \A k \in T : m <= k
  BY <1>1, Least
<1>3. PICK x \in s : m = n - x
  BY <1>2 DEF T
<1>4. \A y \in s : n - y \in T /\ n - x <= n - y
  BY <1>2, <1>3 DEF T
<1>5. \A y \in s : x >= y
  BY <1>4
<1>6. \E z \in s : \A y \in s : z >= y
  BY <1>5
<1> QED
  BY <1>6 DEF Max

\* What each step of a fold is given.
LEMMA FoldArguments ==
  ASSUME NEW A, NEW B, NEW seq \in Seq(B), NEW it \in [SUBSET DOMAIN seq -> A],
         NEW s \in SUBSET DOMAIN seq, s # {}
  PROVE  it[s \ {Max(s)}] \in A /\ seq[Max(s)] \in B
<1>1. Len(seq) \in Nat /\ DOMAIN seq = 1 .. Len(seq) /\ \A i \in 1 .. Len(seq) : seq[i] \in B
  OBVIOUS
<1>2. Max(s) \in s
  BY <1>1, MaxIsMember
<1>3. s \ {Max(s)} \in SUBSET DOMAIN seq
  OBVIOUS
<1> QED
  BY <1>1, <1>2, <1>3

\* A step goes from a result to the next.
IsStep(step, A, B) == step \in [A \X B -> A]

\* What a fold puts for each set of positions, of what it has for the others.
FoldOver(it, base, step, seq, D) ==
  [s \in SUBSET D |-> IF s = {} THEN base ELSE step[<<it[s \ {Max(s)}], seq[Max(s)]>>]]

HasFold(A, base, step, seq, D) == \E it \in [SUBSET D -> A] : it = FoldOver(it, base, step, seq, D)

\* The function by which a fold is defined, and what each step of it is given.
IsFold(it, A, B, base, step, seq) ==
  /\ it = FoldOver(it, base, step, seq, DOMAIN seq)
  /\ \A s \in SUBSET DOMAIN seq : s # {} => it[s \ {Max(s)}] \in A /\ seq[Max(s)] \in B

\* It exists, where every step stays in a set of results: the one over the first k
\* positions is continued to the next.
LEMMA FoldDefined ==
  ASSUME NEW A, NEW B, NEW seq, seq \in Seq(B), NEW base, base \in A, NEW step, IsStep(step, A, B)
  PROVE  HasFold(A, base, step, seq, DOMAIN seq)
<1> DEFINE n == Len(seq)
           Over(D) == HasFold(A, base, step, seq, D)
           S == {k \in 0 .. n : Over(1 .. k)}
<1>1. n \in Nat /\ DOMAIN seq = 1 .. n /\ \A i \in 1 .. n : seq[i] \in B
  OBVIOUS
<1>2. ASSUME NEW k \in 0 .. n  PROVE k \in S <=> Over(1 .. k)
  OBVIOUS
<1> HIDE DEF n, S
<1>3. 0 \in S
  <2> DEFINE it == [s \in SUBSET {} |-> base]
  <2>1. it \in [SUBSET {} -> A] /\ it = FoldOver(it, base, step, seq, {})
    BY DEF FoldOver
  <2>2. 1 .. 0 = {} /\ 0 \in 0 .. n
    BY <1>1
  <2>3. Over(1 .. 0)
    BY <2>1, <2>2 DEF HasFold
  <2> QED
    BY <1>2, <2>2, <2>3
<1>4. ASSUME NEW k \in 0 .. n - 1, k \in S  PROVE k + 1 \in S
  <2> DEFINE D == 1 .. k
             E == 1 .. k + 1
  <2>1. k \in Nat /\ k \in 0 .. n /\ k + 1 \in 0 .. n /\ D \subseteq E /\ E \subseteq 1 .. n
    BY <1>1
  <2>2. PICK it \in [SUBSET D -> A] : it = FoldOver(it, base, step, seq, D)
    BY <1>2, <1>4, <2>1 DEF HasFold
  <2>3. ASSUME NEW s \in SUBSET E, s # {}
        PROVE  s \ {Max(s)} \in SUBSET D /\ seq[Max(s)] \in B
    <3>1. s \in SUBSET (1 .. k + 1) /\ k + 1 \in Nat
      BY <2>1
    <3>2. Max(s) \in s /\ \A y \in s : y <= Max(s)
      BY <2>3, <3>1, MaxIsMember
    <3>3. ASSUME NEW y \in s, y # Max(s)  PROVE y \in 1 .. k
      <4>1. y \in 1 .. k + 1 /\ Max(s) \in 1 .. k + 1 /\ y <= Max(s)
        BY <3>1, <3>2
      <4> QED
        BY <2>1, <3>3, <4>1
    <3> QED
      BY <1>1, <2>1, <3>2, <3>3
  <2> DEFINE more == FoldOver(it, base, step, seq, E)
  <2> HIDE DEF D, E
  <2>4. more \in [SUBSET E -> A]
    <3>1. ASSUME NEW s \in SUBSET E, s # {}
          PROVE  step[<<it[s \ {Max(s)}], seq[Max(s)]>>] \in A
      BY <2>2, <2>3, <3>1 DEF IsStep
    <3> QED
      BY <3>1 DEF FoldOver
  <2>5. \A s \in SUBSET D : more[s] = it[s]
    <3> DEFINE body(x) == IF x = {} THEN base ELSE step[<<it[x \ {Max(x)}], seq[Max(x)]>>]
    <3>1. it = [x \in SUBSET D |-> body(x)] /\ more = [x \in SUBSET E |-> body(x)]
      BY <2>2 DEF FoldOver
    <3> HIDE DEF body, more
    <3> QED
      BY <2>1, <3>1
  <2>6. more = FoldOver(more, base, step, seq, E)
    <3>1. \A s \in SUBSET E : s # {} => more[s \ {Max(s)}] = it[s \ {Max(s)}]
      BY <2>3, <2>5
    <3> DEFINE m == more
    <3>2. \A s \in SUBSET E : s # {} => m[s \ {Max(s)}] = it[s \ {Max(s)}]
      BY <3>1
    <3> HIDE DEF m
    <3>3. FoldOver(it, base, step, seq, E) = FoldOver(m, base, step, seq, E)
      BY <3>2 DEF FoldOver
    <3> QED
      BY <3>3 DEF m
  <2>7. Over(1 .. k + 1)
    BY <2>4, <2>6 DEF E, HasFold
  <2> HIDE DEF Over
  <2> QED
    BY <1>2, <2>1, <2>7
<1> HIDE DEF Over
<1>5. n \in 0 .. n
  BY <1>1
<1>6. n \in S
  BY <1>1, <1>3, <1>4, <1>5, UpTo
<1>7. Over(1 .. n)
  BY <1>2, <1>5, <1>6
<1> QED
  BY <1>1, <1>7 DEF Over

\* ... and each of its steps has what it needs.
LEMMA FoldExists ==
  ASSUME NEW A, NEW B, NEW seq, seq \in Seq(B), NEW base, base \in A, NEW step, IsStep(step, A, B)
  PROVE  \E it : IsFold(it, A, B, base, step, seq)
<1>1. HasFold(A, base, step, seq, DOMAIN seq)
  BY FoldDefined
<1>2. PICK it \in [SUBSET DOMAIN seq -> A] : it = FoldOver(it, base, step, seq, DOMAIN seq)
  BY <1>1 DEF HasFold
<1>3. ASSUME NEW s \in SUBSET DOMAIN seq, s # {}
      PROVE  it[s \ {Max(s)}] \in A /\ seq[Max(s)] \in B
  BY <1>3, FoldArguments
<1>4. IsFold(it, A, B, base, step, seq)
  BY <1>2, <1>3 DEF IsFold
<1> QED
  BY <1>4

\* A function that goes through the first positions of a sequence by such steps.
IsRun(iter, A, base, step, seq) ==
  /\ iter[{}] = base
  /\ \A k \in 1 .. Len(seq) : iter[1 .. k - 1] \in A =>
       iter[1 .. k] = step[<<iter[1 .. k - 1], seq[k]>>]

\* The results that a fold goes through.
HasTrace(A, base, step, seq, last) ==
  \E T \in [0 .. Len(seq) -> A] :
    /\ T[0] = base
    /\ \A k \in 1 .. Len(seq) : T[k] = step[<<T[k - 1], seq[k]>>]
    /\ T[Len(seq)] = last

\* It goes from result to result.
LEMMA FoldTrace ==
  ASSUME NEW A, NEW B, NEW seq, seq \in Seq(B), NEW base, base \in A, NEW step, IsStep(step, A, B),
         NEW iter, IsRun(iter, A, base, step, seq)
  PROVE  HasTrace(A, base, step, seq, iter[DOMAIN seq])
<1> DEFINE n == Len(seq)
           T == [k \in 0 .. n |-> iter[1 .. k]]
           S == {k \in 0 .. n : T[k] \in A}
<1>1. n \in Nat /\ DOMAIN seq = 1 .. n /\ \A k \in 1 .. n : seq[k] \in B
  OBVIOUS
<1>2. /\ T[0] = base
      /\ \A k \in 1 .. n : T[k - 1] \in A => T[k] = step[<<T[k - 1], seq[k]>>]
      /\ T[n] = iter[DOMAIN seq]
  <2>1. \A k \in 0 .. n : T[k] = iter[1 .. k]
    OBVIOUS
  <2>2. 1 .. 0 = {} /\ 0 \in 0 .. n /\ n \in 0 .. n
    BY <1>1
  <2>3. \A k \in 1 .. n : k \in 0 .. n /\ k - 1 \in 0 .. n
    BY <1>1
  <2> HIDE DEF T
  <2> QED
    BY <1>1, <2>1, <2>2, <2>3 DEF IsRun
<1> HIDE DEF n, T
<1>3. 0 \in S
  BY <1>1, <1>2
<1>4. ASSUME NEW k \in 0 .. n - 1, k \in S  PROVE k + 1 \in S
  <2>1. k + 1 \in 1 .. n /\ k + 1 \in 0 .. n /\ (k + 1) - 1 = k /\ T[k] \in A
    BY <1>1, <1>4
  <2>2. T[k + 1] = step[<<T[k], seq[k + 1]>>]
    BY <1>2, <2>1
  <2>3. seq[k + 1] \in B
    BY <1>1, <2>1
  <2> QED
    BY <2>1, <2>2, <2>3 DEF IsStep
<1> HIDE DEF S
<1>5. \A k \in 0 .. n : k \in S
  BY <1>1, <1>3, <1>4, UpTo
<1>6. T \in [0 .. n -> A]
  BY <1>5 DEF S, T
<1>7. \A k \in 1 .. n : k - 1 \in 0 .. n
  BY <1>1
<1>8. \A k \in 1 .. n : T[k] = step[<<T[k - 1], seq[k]>>]
  BY <1>2, <1>6, <1>7
<1> QED
  BY <1>2, <1>6, <1>8 DEF n, HasTrace

-----------------------------------------------------------------------------
(* Sorting                                                                 *)

\* R puts the elements of S in a line.
StrictOrder(R, S) ==
  /\ \A x \in S : <<x, x>> \notin R
  /\ \A x, y \in S : x # y => <<x, y>> \in R \/ <<y, x>> \in R
  /\ \A x, y, z \in S : <<x, y>> \in R /\ <<y, z>> \in R => <<x, z>> \in R

\* R compares the elements of S by a key, which several may have.
KeyOrder(R, S) ==
  /\ \A x, y \in S : <<x, y>> \in R => <<y, x>> \notin R
  /\ \A x, y, z \in S : <<x, z>> \in R => <<x, y>> \in R \/ <<y, z>> \in R

\* The place of an element, after those before it, and what is at each place.
Place(R, S) == [x \in S |-> Cardinality({y \in S : <<y, x>> \in R}) + 1]
InPlace(place, S) == [k \in 1 .. Cardinality(S) |-> CHOOSE x \in S : place[x] = k]

\* Positions with keys, in the order of a stable sort.
Stably(R, D) == {p \in D \X D : p \in R \/ (p[1] < p[2] /\ <<p[2], p[1]>> \notin R)}

\* Every element has a place of its own, and no place stays empty.
LEMMA PlaceIs ==
  ASSUME NEW S, NEW R, IsFiniteSet(S), StrictOrder(R, S)
  PROVE  /\ Cardinality(S) \in Nat
         /\ Place(R, S) \in [S -> 1 .. Cardinality(S)]
         /\ \A x, y \in S : <<x, y>> \in R => Place(R, S)[x] < Place(R, S)[y]
         /\ \A k \in 1 .. Cardinality(S) : \E x \in S : Place(R, S)[x] = k
<1> USE DEF StrictOrder
<1> DEFINE n == Cardinality(S)
           place == Place(R, S)
           below(x) == {y \in S : <<y, x>> \in R}
<1>1. n \in Nat
  BY FS_CardinalityType
<1>2. ASSUME NEW x \in S
      PROVE  IsFiniteSet(below(x)) /\ Cardinality(below(x)) \in Nat /\ Cardinality(below(x)) < n
  <2>1. below(x) \in SUBSET S /\ below(x) # S
    OBVIOUS
  <2> HIDE DEF below
  <2> QED
    BY <1>1, <2>1, FS_Subset, FS_CardinalityType
<1>3. ASSUME NEW x \in S, NEW y \in S, <<x, y>> \in R
      PROVE  Cardinality(below(x)) < Cardinality(below(y))
  <2>1. below(x) \subseteq below(y) /\ x \in below(y) /\ x \notin below(x)
    BY <1>3
  <2>2. IsFiniteSet(below(y)) /\ Cardinality(below(x)) \in Nat /\ Cardinality(below(y)) \in Nat
    BY <1>2
  <2> HIDE DEF below
  <2>3. below(x) # below(y)
    BY <2>1
  <2> QED
    BY <2>1, <2>2, <2>3, FS_Subset
<1>4. \A x \in S : place[x] = Cardinality(below(x)) + 1
  BY DEF Place
<1>5. DOMAIN place = S /\ place = [x \in S |-> place[x]]
  BY DEF Place
<1> HIDE DEF below, n, place
<1>6. place \in [S -> 1 .. n]
  <2>1. ASSUME NEW x \in S  PROVE place[x] \in 1 .. n
    BY <1>1, <1>2, <1>4
  <2> QED
    BY <1>5, <2>1
<1>7. \A x, y \in S : <<x, y>> \in R => place[x] < place[y]
  BY <1>2, <1>3, <1>4
<1>8. \A x, y \in S : place[x] = place[y] => x = y
  <2>1. ASSUME NEW x \in S, NEW y \in S, place[x] = place[y], x # y  PROVE FALSE
    <3>1. place[x] < place[y] \/ place[y] < place[x]
      BY <1>7, <2>1
    <3> QED
      BY <1>1, <1>6, <2>1, <3>1
  <2> QED
    BY <2>1
<1>9. \A k \in 1 .. n : \E x \in S : place[x] = k
  <2>1. place \in Injection(S, 1 .. n)
    BY <1>6, <1>8 DEF Injection, IsInjective
  <2>2. IsFiniteSet(1 .. n) /\ Cardinality(1 .. n) = n
    BY <1>1, FS_Interval
  <2>3. place \in Surjection(S, 1 .. n)
    BY <2>1, <2>2, FS_Injection DEF n
  <2> QED
    BY <2>3 DEF Surjection
<1> QED
  BY <1>1, <1>6, <1>7, <1>9 DEF n, place

\* At each place is the element that belongs there: all are there, once and in
\* order.
LEMMA InPlaceIs ==
  ASSUME NEW S, NEW R, IsFiniteSet(S), StrictOrder(R, S), NEW place, place = Place(R, S)
  PROVE  /\ Cardinality(S) \in Nat
         /\ InPlace(place, S) \in [1 .. Cardinality(S) -> S]
         /\ \A x \in S : \E k \in 1 .. Cardinality(S) : InPlace(place, S)[k] = x
         /\ \A i, j \in 1 .. Cardinality(S) : i < j => <<InPlace(place, S)[i], InPlace(place, S)[j]>> \in R
<1> DEFINE n == Cardinality(S)
           f == InPlace(place, S)
<1>1. /\ n \in Nat
      /\ place \in [S -> 1 .. n]
      /\ \A x, y \in S : <<x, y>> \in R => place[x] < place[y]
      /\ \A k \in 1 .. n : \E x \in S : place[x] = k
  BY PlaceIs
<1>2. f = [k \in 1 .. n |-> CHOOSE x \in S : place[x] = k]
  BY DEF InPlace
<1> HIDE DEF n, f
<1>3. ASSUME NEW k \in 1 .. n  PROVE f[k] \in S /\ place[f[k]] = k
  <2>1. f[k] = CHOOSE x \in S : place[x] = k
    BY <1>2
  <2>2. \E x \in S : place[x] = k
    BY <1>1
  <2> QED
    BY <2>1, <2>2
<1>4. f \in [1 .. n -> S]
  BY <1>2, <1>3
<1>5. ASSUME NEW x \in S  PROVE place[x] \in 1 .. n /\ f[place[x]] = x
  <2>1. place[x] \in 1 .. n /\ f[place[x]] \in S /\ place[f[place[x]]] = place[x]
    BY <1>1, <1>3
  <2>2. ~(place[x] < place[x])
    BY <1>1, <2>1
  <2> QED
    BY <1>1, <2>1, <2>2 DEF StrictOrder
<1>6. ASSUME NEW i \in 1 .. n, NEW j \in 1 .. n, i < j  PROVE <<f[i], f[j]>> \in R
  <2>1. f[i] \in S /\ f[j] \in S /\ place[f[i]] = i /\ place[f[j]] = j
    BY <1>3
  <2>2. f[i] # f[j] /\ ~(j < i)
    BY <1>1, <1>6, <2>1
  <2>3. <<f[j], f[i]>> \notin R
    BY <1>1, <2>1, <2>2
  <2> QED
    BY <2>1, <2>2, <2>3 DEF StrictOrder
<1> QED
  BY <1>1, <1>4, <1>5, <1>6 DEF n, f

\* A stable sort by a key puts the positions in a line.
LEMMA StablyIs ==
  ASSUME NEW D, NEW R, D \subseteq Nat, KeyOrder(R, D)
  PROVE  /\ StrictOrder(Stably(R, D), D)
         /\ \A x, y \in D : <<x, y>> \in Stably(R, D) => x # y /\ <<y, x>> \notin R
<1> DEFINE Q == Stably(R, D)
<1> USE DEF KeyOrder
<1>1. \A x, y \in D : <<x, y>> \in Q <=> <<x, y>> \in R \/ (x < y /\ <<y, x>> \notin R)
  BY DEF Stably
<1> HIDE DEF Q
<1>2. \A x \in D : <<x, x>> \notin Q
  BY <1>1
<1>3. ASSUME NEW x \in D, NEW y \in D, x # y  PROVE <<x, y>> \in Q \/ <<y, x>> \in Q
  <2>1. x \in Nat /\ y \in Nat
    OBVIOUS
  <2>2. x < y \/ y < x
    BY <1>3, <2>1
  <2> QED
    BY <1>1, <2>2
<1>4. ASSUME NEW x \in D, NEW y \in D, NEW z \in D, <<x, y>> \in Q, <<y, z>> \in Q
      PROVE  <<x, z>> \in Q
  <2>1. CASE <<x, y>> \in R
    BY <1>1, <1>4, <2>1
  <2>2. CASE <<x, y>> \notin R /\ <<y, z>> \in R
    BY <1>1, <1>4, <2>2
  <2>3. CASE <<x, y>> \notin R /\ <<y, z>> \notin R
    <3>1. x < y /\ y < z /\ <<y, x>> \notin R /\ <<z, y>> \notin R
      BY <1>1, <1>4, <2>3
    <3>2. x < z
      BY <3>1
    <3> QED
      BY <1>1, <3>1, <3>2
  <2> QED
    BY <2>1, <2>2, <2>3
<1>5. StrictOrder(Q, D)
  BY <1>2, <1>3, <1>4 DEF StrictOrder
<1>6. \A x, y \in D : <<x, y>> \in Q => x # y /\ <<y, x>> \notin R
  BY <1>1
<1> QED
  BY <1>5, <1>6 DEF Q

\* A list sorted by R, which compares its positions: all of it, each element once.
Sorts(sorted, list, R) ==
  \E order \in [1 .. Cardinality(DOMAIN list) -> DOMAIN list] :
    /\ Cardinality(DOMAIN list) \in Nat
    /\ sorted = [k \in 1 .. Cardinality(DOMAIN list) |-> list[order[k]]]
    /\ \A x \in DOMAIN list : \E k \in 1 .. Cardinality(DOMAIN list) : order[k] = x
    /\ \A i, j \in 1 .. Cardinality(DOMAIN list) :
         i < j => order[i] # order[j] /\ <<order[j], order[i]>> \notin R

LEMMA SortIs ==
  ASSUME NEW list, NEW R, DOMAIN list \subseteq Nat, IsFiniteSet(DOMAIN list),
         KeyOrder(R, DOMAIN list),
         NEW place, place = Place(Stably(R, DOMAIN list), DOMAIN list),
         NEW order, order = InPlace(place, DOMAIN list)
  PROVE  Sorts([k \in DOMAIN order |-> list[order[k]]], list, R)
<1> DEFINE D == DOMAIN list
<1>1. /\ StrictOrder(Stably(R, D), D)
      /\ \A x, y \in D : <<x, y>> \in Stably(R, D) => x # y /\ <<y, x>> \notin R
  BY StablyIs
<1> HIDE DEF D
<1>2. /\ Cardinality(D) \in Nat
      /\ order \in [1 .. Cardinality(D) -> D]
      /\ \A x \in D : \E k \in 1 .. Cardinality(D) : order[k] = x
      /\ \A i, j \in 1 .. Cardinality(D) : i < j => <<order[i], order[j]>> \in Stably(R, D)
  BY <1>1, InPlaceIs DEF D
<1>3. \A i, j \in 1 .. Cardinality(D) : i < j => order[i] # order[j] /\ <<order[j], order[i]>> \notin R
  <2>1. \A i \in 1 .. Cardinality(D) : order[i] \in D
    BY <1>2
  <2> QED
    BY <1>1, <1>2, <2>1
<1>4. DOMAIN order = 1 .. Cardinality(D)
  BY <1>2
<1> QED
  BY <1>2, <1>3, <1>4 DEF Sorts, D
=============================================================================
