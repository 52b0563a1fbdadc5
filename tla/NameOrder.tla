------------------------------ MODULE NameOrder ------------------------------
(***************************************************************************)
(* Names of files, directories, commands and options, and the order that   *)
(* the parsers sort them in.  A name is a sequence of letters, a letter a  *)
(* number, in the order of the characters.                                 *)
(***************************************************************************)
EXTENDS Sorting

CONSTANTS
  Letters,     \* a set of numbers
  Upper,       \* those of them that are upper case forms
  MaxLength    \* bound: letters in a name

ASSUME LettersAssumption == Letters \subseteq Nat /\ Upper \subseteq Letters /\ MaxLength \in Nat

Names == UNION {[1 .. n -> Letters] : n \in 1 .. MaxLength}

\* to_lowercase; the upper case form of letter l is the number after it.
Lower(name) == [i \in DOMAIN name |-> IF name[i] \in Upper THEN name[i] - 1 ELSE name[i]]

LexLess(a, b) ==
  \/ IsStrictPrefix(a, b)
  \/ \E i \in DOMAIN a \cap DOMAIN b : a[i] < b[i] /\ \A j \in 1 .. i - 1 : a[j] = b[j]
=============================================================================
