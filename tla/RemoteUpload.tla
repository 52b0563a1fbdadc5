---------------------------- MODULE RemoteUpload ----------------------------
(***************************************************************************)
(* upload_remote_file, in its Unix and in its Windows form: the file goes  *)
(* over as a sequence of commands, one exec each, that fill a temporary    *)
(* file named after the target and finally decode it into the target and   *)
(* compare its length.                                                     *)
(* The calls are those of one session: its worker runs their commands one  *)
(* after the other, and those of different calls interleave.  A command    *)
(* whose exec yields Ok may not have run to its end: run_exec reads a lost *)
(* connection as the end of the output, and stops at Eof without waiting   *)
(* for the exit status.                                                    *)
(*                                                                         *)
(* The last command empties the target and fills it in place, so whoever   *)
(* looks at the host meanwhile sees a part.  The other commands have one   *)
(* effect each.                                                            *)
(*                                                                         *)
(* A file is the sequence of chunks in it; a chunk is <<upload, index>>,   *)
(* so that mixed contents can be told from whole ones of equal length.     *)
(*                                                                         *)
(* The shell leaves the last command where a step of it fails.  PowerShell *)
(* goes on with the next statement: the target may not be written, or from *)
(* a temporary file that was not read, and its length is compared all the  *)
(* same.                                                                   *)
(***************************************************************************)
EXTENDS Naturals, SequencesExt

CONSTANTS
  Uploads,   \* calls of upload_remote_file, and retries of them
  Creates,   \* calls of create_remote_file
  Paths,     \* target paths
  Chunks,    \* at most so many chunks of UPLOAD_BASE64_CHUNK_SIZE
  Absent     \* stands for "no such file"

ASSUME ChunksAssumption == Chunks \in Nat
ASSUME CallsAssumption  == Uploads \cap Creates = {}

Writers == Uploads \cup Creates
Old     == << <<"old", 1>> >>

ASSUME AbsentAssumption == Absent \notin Seq((Writers \cup {"old"}) \X Nat)

VARIABLES
  form,      \* of the commands, "unix" or "windows"; never changes
  file,      \* the target files on the host
  temp,      \* their *.portix.b64 files
  path,      \* the target of each call; never changes
  size,      \* the chunks each call has to send; never changes
  step,      \* the next command of each call: 0 begin, 1.. chunks, then finish
  result,    \* what each call returned
  landed,    \* ghost: the target right after the call's finish ran
  shared,    \* ghost: calls that overlapped another one on their path
  failures,  \* ghost: how many commands of each call failed, noticed or not
  writing    \* the upload whose last command is at work on its target, if any

args == <<form, path, size>>
vars == <<args, file, temp, step, result, landed, shared, failures, writing>>

\* The first n chunks of a call.
Part(u, n) == [i \in 1 .. n |-> <<u, i>>]

\* What the call is to leave in the target.
Data(u) == Part(u, size[u])

Init ==
  /\ form    \in {"unix", "windows"}
  /\ file    \in [Paths -> {Absent, Old}]
  /\ temp    = [p \in Paths |-> Absent]
  /\ path    \in [Writers -> Paths]
  /\ size    \in {s \in [Writers -> 0 .. Chunks] : \A k \in Creates : s[k] = 0}
  /\ step    = [u \in Writers |-> 0]
  /\ result  = [u \in Writers |-> "none"]
  /\ landed  = [u \in Writers |-> Absent]
  /\ shared  = {}
  /\ failures = [u \in Writers |-> 0]
  /\ writing = {}

Active(u) == result[u] = "none" /\ step[u] > 0

Returns(u, r) == result' = [result EXCEPT ![u] = r] /\ UNCHANGED <<args, step>>

\* The call goes on to its next command.
Continues(u) == step' = [step EXCEPT ![u] = @ + 1] /\ UNCHANGED <<args, result>>

Fails(u) == failures' = [failures EXCEPT ![u] = @ + 1]

Meets(u) ==
  LET others == {v \in Writers \ {u} : path[v] = path[u] /\ Active(v)}
  IN  shared' = IF others = {} THEN shared ELSE shared \cup others \cup {u}

\* exec of one command before the last: it runs; or it fails, and the error
\* ends the call; or it fails and reads as Ok.
Runs(u, effect) ==
  \/ effect /\ Continues(u) /\ UNCHANGED failures
  \/ UNCHANGED temp /\ Fails(u) /\ (Returns(u, "err") \/ Continues(u))

\* Seeded fault: the temporary file is not emptied.
OpenTempKeeping(p) == temp' = [temp EXCEPT ![p] = IF @ = Absent THEN <<>> ELSE @]

\* : > "$tmp"; Set-Content -Value ''.
OpenTemp(p) == temp' = [temp EXCEPT ![p] = <<>>]

\* begin_file_upload_command, or the first command of the Windows form.
Begin(u) ==
  /\ u \in Uploads /\ step[u] = 0 /\ result[u] = "none" /\ writing = {}
  /\ Meets(u)
  /\ Runs(u, OpenTemp(path[u]))
  /\ UNCHANGED <<file, landed, writing>>

\* cat >> "$tmp"; Add-Content.  Creates the file when it is not there.
AppendTemp(p, chunk) ==
  temp' = [temp EXCEPT ![p] = Append(IF @ = Absent THEN <<>> ELSE @, chunk)]

\* Seeded fault: the chunks go straight to the target.
AppendInPlace(u) ==
  /\ u \in Uploads /\ step[u] \in 1 .. size[u] /\ result[u] = "none" /\ writing = {}
  /\ file' = [file EXCEPT ![path[u]] = (IF step[u] = 1 THEN <<>> ELSE @) \o << <<u, step[u]>> >>]
  /\ Continues(u)
  /\ UNCHANGED <<temp, landed, shared, failures, writing>>

\* append_file_upload_chunk_command, in either form.
AppendChunk(u) ==
  /\ u \in Uploads /\ step[u] \in 1 .. size[u] /\ result[u] = "none" /\ writing = {}
  /\ Runs(u, AppendTemp(path[u], <<u, step[u]>>))
  /\ UNCHANGED <<file, landed, shared, writing>>

\* The content that decoding the temporary file yields: nothing without one.
Decoded(u) == IF temp[path[u]] = Absent THEN <<>> ELSE temp[path[u]]

Lands(u, content) ==
  /\ file'   = [file EXCEPT ![path[u]] = content]
  /\ landed' = [landed EXCEPT ![u] = content]

\* The last command ends, and its call returns: the target is as it left it.
Ends(u, r) ==
  /\ Returns(u, r)
  /\ landed'  = [landed EXCEPT ![u] = file[path[u]]]
  /\ writing' = {}
  /\ UNCHANGED file

RemoveTemp(p) == temp' = [temp EXCEPT ![p] = Absent]

\* Seeded fault: the length is not compared.
VerdictUnchecked(u, content) == IF form = "windows" \/ temp[path[u]] # Absent THEN "ok" ELSE "err"

\* PORTIX_UPLOAD_OK: the target now has the length of the data.  base64 fails on
\* a missing temporary file; PowerShell decodes an empty text.
Verdict(u, content) ==
  IF /\ content # Absent /\ Len(content) = size[u]
     /\ form = "windows" \/ temp[path[u]] # Absent
  THEN "ok" ELSE "err"

\* base64 -d "$tmp" > "$p", WriteAllBytes: the target is emptied.
FinishStarts(u) ==
  /\ writing = {}
  /\ file' = [file EXCEPT ![path[u]] = <<>>] /\ writing' = {u}
  /\ UNCHANGED <<args, step, result, temp, landed, failures>>

\* ... and filled.
FinishWrites(u) ==
  /\ u \in writing /\ Len(file[path[u]]) < Len(Decoded(u))
  /\ file' = [file EXCEPT ![path[u]] = Append(@, Decoded(u)[Len(@) + 1])]
  /\ UNCHANGED <<args, step, result, temp, landed, failures, writing>>

\* Seeded fault: the temporary file is kept.
FinishKeepingTemp(u) ==
  /\ u \in writing /\ file[path[u]] = Decoded(u)
  /\ Ends(u, Verdict(u, file[path[u]])) /\ UNCHANGED <<temp, failures>>

\* All is written: the temporary file is removed and the length compared.  Ok
\* needs PORTIX_UPLOAD_OK in the output, so an output that is cut is an error.
FinishEnds(u) ==
  /\ u \in writing /\ file[path[u]] = Decoded(u)
  /\ RemoveTemp(path[u])
  /\ \/ Ends(u, Verdict(u, file[path[u]])) /\ UNCHANGED failures
     \/ Ends(u, "err") /\ Fails(u)

\* It fails or is killed on the way; or PowerShell goes on after a statement that
\* failed, and compares the length of what is there.
FinishStops(u) ==
  /\ u \in writing /\ Fails(u)
  /\ RemoveTemp(path[u]) \/ UNCHANGED temp
  /\ \/ Ends(u, "err")
     \/ form = "windows" /\ Ends(u, Verdict(u, file[path[u]]))

\* It never touches the target; PowerShell takes the file there for the new one.
FinishFails(u) ==
  /\ writing = {} /\ Fails(u)
  /\ UNCHANGED <<file, landed, writing>>
  /\ \/ Returns(u, "err") /\ UNCHANGED temp
     \/ /\ form = "windows" /\ (RemoveTemp(path[u]) \/ UNCHANGED temp)
        /\ Returns(u, Verdict(u, file[path[u]]))

FinishUpload(u) ==
  /\ u \in Uploads /\ step[u] = size[u] + 1 /\ result[u] = "none"
  /\ FinishStarts(u) \/ FinishWrites(u) \/ FinishEnds(u) \/ FinishStops(u) \/ FinishFails(u)
  /\ UNCHANGED shared

\* create_remote_file: begin and finish of no bytes in one command, or New-Item
\* -Force, which knows no temporary file; the output is not looked at.  A file
\* that exists is emptied.
Create(u) ==
  /\ u \in Creates /\ step[u] = 0 /\ result[u] = "none" /\ writing = {}
  /\ Meets(u)
  /\ \/ /\ Lands(u, <<>>) /\ Returns(u, "ok") /\ UNCHANGED failures
        /\ IF form = "unix" THEN RemoveTemp(path[u]) ELSE UNCHANGED temp
     \/ /\ UNCHANGED temp \/ (form = "unix" /\ (OpenTemp(path[u]) \/ RemoveTemp(path[u])))
        /\ Lands(u, <<>>) \/ UNCHANGED <<file, landed>>
        /\ Returns(u, "ok") \/ Returns(u, "err")
        /\ Fails(u)
  /\ UNCHANGED writing

Next == \E u \in Writers : Begin(u) \/ AppendChunk(u) \/ FinishUpload(u) \/ Create(u)

Spec == Init /\ [][Next]_vars

-----------------------------------------------------------------------------

\* An upload that reports success left exactly its bytes in the target, whatever
\* earlier attempts failed half way, even if the failure of one of its commands
\* went unnoticed: unless another call was at work on the same path meanwhile, or
\* the last command, on Windows, wrote nothing, and an old file of the same length
\* passed for the new one.
OkIsWhole ==
  \A u \in Uploads :
    result[u] = "ok" /\ u \notin shared /\ failures[u] < 2 =>
      \/ landed[u] = Data(u)
      \/ form = "windows" /\ failures[u] = 1 /\ landed[u] = Absent

\* What earlier attempts left behind never makes an upload fail: when all its
\* own commands ran and nobody else was at work on the path, it reports success.
ErrHasCause ==
  \A u \in Uploads : result[u] = "err" => u \in shared \/ failures[u] > 0

\* Damage to a target is never silent: when no command of the calls on it failed
\* and none overlapped another, the file is at every moment as it was before them
\* all, or the whole of what a call that succeeded wrote, or, while the last
\* command of an upload is at work on it, the beginning of what that one writes.
NoSilentDamage ==
  \A p \in Paths :
    LET calls == {u \in Writers : path[u] = p}
        done  == {u \in calls : result[u] = "ok"}
    IN  (\A u \in calls : failures[u] = 0 /\ u \notin shared) =>
          \/ done = {} /\ file[p] \in {Absent, Old}
          \/ file[p] \in {Data(u) : u \in done}
          \/ \E u \in calls \cap writing : file[p] \in {Part(u, n) : n \in 0 .. size[u]}

\* When every call on a path succeeded, no temporary file stays behind, even if
\* the calls overlapped.
NoLeftover ==
  \A p \in Paths :
    LET calls == {u \in Writers : path[u] = p /\ (step[u] > 0 \/ result[u] # "none")}
    IN  (\A u \in calls : result[u] = "ok" /\ failures[u] = 0) => temp[p] = Absent
=============================================================================
