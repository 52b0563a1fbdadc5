---------------------------- MODULE MCSshSession ----------------------------
(* SshSession on small instances: symmetric sessions and calls. *)
EXTENDS SshSessionRefinement

\* Requests of one kind are interchangeable, and so are the sessions.
CallSymmetry    == Permutations(Execs)
SessionSymmetry == Permutations(Sessions)

\* The behaviours in which at most two calls are made beside the disconnects.
\* Nothing obliges a caller to make a call, so these are behaviours of FairSpec.
FewCalls == Cardinality({c \in Calls \ Disconnects : phase[c] # "unused"}) <= 2
=============================================================================
