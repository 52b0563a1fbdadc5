---------------------------- MODULE MCRemoteUpload ----------------------------
(* RemoteUpload with a few calls on one path or on several. *)
EXTENDS RemoteUpload

UploadSymmetry == Permutations(Uploads) \cup Permutations(Paths)
=============================================================================
