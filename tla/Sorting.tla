------------------------------ MODULE Sorting ------------------------------
(***************************************************************************)
(* Sorting and truncation, as the code does both with its lists.  The      *)
(* place of an element is told by how many come before it, so that a       *)
(* sorted list needs no recursion.                                         *)
(***************************************************************************)
EXTENDS Naturals, SequencesExt

\* The elements of a finite set, from the first to the last.
InOrder(S, Before(_, _)) ==
  LET place == [x \in S |-> Cardinality({y \in S : Before(y, x)}) + 1]
  IN  [k \in 1 .. Cardinality(S) |-> CHOOSE x \in S : place[x] = k]

\* sort_by, which is stable, of a list or of some positions of one.
SortedBy(list, Before(_, _)) ==
  LET before(i, j) == Before(list[i], list[j]) \/ (i < j /\ ~Before(list[j], list[i]))
      order == InOrder(DOMAIN list, before)
  IN  [k \in DOMAIN order |-> list[order[k]]]

\* take and truncate.
AtMost(list, limit) == SubSeq(list, 1, IF Len(list) < limit THEN Len(list) ELSE limit)
=============================================================================
