------------------------ MODULE SshSessionRefinement ------------------------
(* The tasks and channels of SshSession implement SessionContract. *)
EXTENDS SshSessionInvariant

\* A session is up while its runtime serves commands, and over as soon as the
\* runtime has let go of them, before the map or the listeners know.
LifeOf(at) ==
  CASE at = "absent"                      -> "absent"
    [] at \in {"connecting", "opening"}   -> "starting"
    [] at \in {"selecting", "writing", "forwarding", "closing"} -> "up"
    [] at \in {"ended", "removed", "done"} -> "over"

Life(s) == LifeOf(runtime[s])

OnRequests(f) == [r \in Requests |-> f[r]]

Contract == INSTANCE SessionContract WITH
  Deadlined <- Completions,
  life      <- [s \in Sessions |-> Life(s)],
  of        <- OnRequests(target),
  sent      <- OnRequests(sent),
  answer    <- OnRequests(result)

\* Every behaviour of the tasks is one the contract allows.
KeepsContract == Contract!Spec
=============================================================================
