--------------------------- MODULE MCRemotePlatform ---------------------------
(* RemotePlatform with a few operations of either kind. *)
EXTENDS RemotePlatform

OtherSymmetry == Permutations(Others)
=============================================================================
