-------------------------- MODULE ResolveDirectory --------------------------
(***************************************************************************)
(* How resolve_directory_from_output chooses from the directories beside   *)
(* one that does not exist: the only one that begins with the requested    *)
(* name, or the only one that contains its letters in order, in any case   *)
(* of letters; and else what was requested.                                *)
(*                                                                         *)
(* All paths are in one parent directory, so that a path is its name.      *)
(***************************************************************************)
EXTENDS NameOrder

\* fuzzy_subsequence_match: the count of letters found so far, over the haystack.
FuzzyMatch(needle, haystack) ==
  LET step(found, letter) ==
        IF found < Len(needle) /\ letter = needle[found + 1] THEN found + 1 ELSE found
  IN  needle # <<>> /\ FoldLeft(step, 0, haystack) = Len(needle)

\* Seeded fault: the first of several matches is taken.
UniqueFirst(matches) == IF matches = {} THEN {} ELSE {Min(matches)}

\* unique_match: the only element, or nothing.
Unique(matches) == IF Cardinality(matches) = 1 THEN matches ELSE {}

\* resolve_directory_from_output, for an output with a tab in it.
Choose(name, list) ==
  LET wanted == Lower(name)
      begins == Unique({i \in DOMAIN list : IsPrefix(wanted, Lower(list[i].name))})
      fuzzy  == Unique({i \in DOMAIN list : FuzzyMatch(wanted, Lower(list[i].name))})
  IN  IF begins # {} THEN list[Min(begins)].path
      ELSE IF fuzzy # {} THEN list[Min(fuzzy)].path ELSE name

\* The letters of a occur in b in order: what FuzzyMatch is to decide.
Subsequence(a, b) ==
  \E f \in [DOMAIN a -> DOMAIN b] :
    /\ \A i, j \in DOMAIN a : i < j => f[i] < f[j]
    /\ \A i \in DOMAIN a : a[i] = b[f[i]]
=============================================================================
