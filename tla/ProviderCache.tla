---------------------------- MODULE ProviderCache ----------------------------
(***************************************************************************)
(* The TtlCache of a provider and its lookups: of a directory listing, the *)
(* commands of a PATH, the branches of a repository, a history.  Lookups   *)
(* run concurrently.  Each reads the cache, on a miss loads the source on  *)
(* a blocking thread, and puts what it loaded.  No lock is held from the   *)
(* miss to the put.                                                        *)
(*                                                                         *)
(* A source that cannot be read loads as an empty one, which is cached     *)
(* like any other: not to be readable is one more state of the source.     *)
(* Branches are read in two steps, while git works on the repository: it   *)
(* creates and updates a branch by renaming a lock file over it, moves     *)
(* branches into the packed file before it removes the loose ones, and     *)
(* deletes one from the packed file first.                                 *)
(***************************************************************************)
EXTENDS ProviderRequests, FiniteSets

CONSTANTS
  Lookups,
  Scenarios,   \* bound: what is looked up at once, as functions from lookups to
               \* requests
  Worked,      \* bound: the scenarios in which git works on the repository
  Branches,
  Ttl,         \* lifetime of an entry, in ticks
  MaxTime,     \* bound of the clock
  MaxVersion   \* bound: changes of the sources

ASSUME TtlAssumption == Ttl \in Nat \ {0}

\* Directories are sequences of names; the providers are four.
ASSUME RequestsAssumption ==
  /\ Home \in Seq(STRING)
  /\ \A s \in Scenarios : \A r \in DOMAIN s :
       /\ s[r].provider \in {"path", "git", "command", "history"}
       /\ s[r].provider = "path" =>
            /\ s[r].anchor \in {"none", "root", "home"}
            /\ s[r].cwd \in Seq(STRING) /\ s[r].names \in Seq(STRING)

VARIABLES
  request,     \* what each lookup asks for; never changes
  now,         \* Instant::now()
  version,     \* the state of the sources, as the number of their changes
  repo,        \* the branches that are loose, packed, locked and being deleted
  values,      \* the map of the cache, as the set of its entries
  phase,       \* where each lookup is
  asked,       \* the time with which a lookup compares the expiry
  value,       \* what a lookup found or loaded
  expires,     \* the expiry of the entry that it is to put
  before,      \* ghost: the lookups that had returned when a lookup began
  overlapped,  \* ghost: two lookups were between miss and put at once
  slowest,     \* ghost: the longest time from reading the source to the stamp
  always, ever \* ghost: branches that were there always, ever during a load

sources == <<version, repo>>
ghosts  == <<before, overlapped, slowest, always, ever>>
vars    == <<request, now, sources, values, phase, asked, value, expires, ghosts>>

Asking == DOMAIN request

\* A value says which state of which source it shows, and when it was read.
NoValue == [source |-> Nothing, of |-> 0, at |-> 0, names |-> {}]

\* Branches of the repository that are not being deleted.
Live(r) == (r.loose \cup r.packed) \ r.doomed

Init ==
  /\ request    \in Scenarios
  /\ now = 0 /\ version = 0
  /\ repo       \in IF request \in Worked
                    THEN [loose : SUBSET Branches, packed : SUBSET Branches, locked : {{}}, doomed : {{}}]
                    ELSE {[loose |-> Branches, packed |-> {}, locked |-> {}, doomed |-> {}]}
  /\ values     = {}
  /\ phase      = [r \in Asking |-> "idle"]
  /\ asked      = [r \in Asking |-> 0]
  /\ value      = [r \in Asking |-> NoValue]
  /\ expires    = [r \in Asking |-> 0]
  /\ before     = [r \in Asking |-> {}]
  /\ overlapped = FALSE
  /\ slowest    = 0
  /\ always     = [r \in Asking |-> {}]
  /\ ever       = [r \in Asking |-> {}]

Tick ==
  /\ now < MaxTime
  /\ now' = now + 1
  /\ UNCHANGED <<request, sources, values, phase, asked, value, expires, ghosts>>

Change ==
  /\ version < MaxVersion
  /\ version' = version + 1
  /\ UNCHANGED <<request, now, repo, values, phase, asked, value, expires, ghosts>>

-----------------------------------------------------------------------------
(* git at work, while some lookup reads branches. *)

Reading(r) == phase[r] = "reading"

Git(new) ==
  /\ request \in Worked
  /\ \E r \in Asking : phase[r] \in {"loading", "reading"}
  /\ repo' = new
  /\ always' = [r \in Asking |-> IF Reading(r) THEN always[r] \cap Live(new) ELSE always[r]]
  /\ ever'   = [r \in Asking |-> IF Reading(r) THEN ever[r] \cup Live(new) ELSE ever[r]]
  /\ UNCHANGED <<request, now, version, values, phase, asked, value, expires, before, overlapped, slowest>>

Lock(b)   == b \notin repo.locked /\ Git([repo EXCEPT !.locked = @ \cup {b}])
Unlock(b) == b \in repo.locked \ repo.doomed /\ Git([repo EXCEPT !.locked = @ \ {b}])
Write(b)  ==
  /\ b \in repo.locked \ repo.doomed
  /\ Git([repo EXCEPT !.loose = @ \cup {b}, !.locked = @ \ {b}])
Pack      == Git([repo EXCEPT !.packed = @ \cup (repo.loose \ repo.doomed)])
Prune(b)  == b \in repo.locked \cap repo.loose \cap repo.packed /\ Git([repo EXCEPT !.loose = @ \ {b}])
Delete(b) ==
  \/ /\ b \in repo.locked \cap Live(repo)
     /\ Git([repo EXCEPT !.packed = @ \ {b}, !.doomed = @ \cup {b}])
  \/ /\ b \in repo.doomed
     /\ Git([repo EXCEPT !.loose = @ \ {b}, !.doomed = @ \ {b}, !.locked = @ \ {b}])

Works == Pack \/ \E b \in Branches : Lock(b) \/ Unlock(b) \/ Write(b) \/ Prune(b) \/ Delete(b)

-----------------------------------------------------------------------------
(* Lookups *)

Moves(r, from, to) == phase[r] = from /\ phase' = [phase EXCEPT ![r] = to]

\* get: the time is taken before the lock is.
Begin(r) ==
  /\ ~Sourceless(request[r])
  /\ Moves(r, "idle", "getting")
  /\ asked'  = [asked EXCEPT ![r] = now]
  /\ before' = [before EXCEPT ![r] = {q \in Asking : phase[q] = "returned"}]
  /\ UNCHANGED <<request, now, sources, values, value, expires, overlapped, slowest, always, ever>>

\* Without a repository the answer is empty, and no cache is asked.
Skip(r) ==
  /\ Sourceless(request[r])
  /\ Moves(r, "idle", "returned")
  /\ value' = [value EXCEPT ![r] = [NoValue EXCEPT !.source = Source(request[r]), !.of = version, !.at = now]]
  /\ asked' = [asked EXCEPT ![r] = now]
  /\ UNCHANGED <<request, now, sources, values, expires, ghosts>>

Filling == {r \in Asking : phase[r] \in {"loading", "reading", "loaded", "putting"}}
Entries(r) == {e \in values : e.key = Key(request[r])}

\* Seeded fault: a hit prolongs the life of the entry.
HitProlonging(r) ==
  \E e \in Entries(r) :
    /\ e.expires > asked[r]
    /\ Moves(r, "getting", "returned")
    /\ value'  = [value EXCEPT ![r] = e.value]
    /\ values' = (values \ {e}) \cup {[e EXCEPT !.expires = asked[r] + Ttl]}
    /\ UNCHANGED <<request, now, sources, asked, expires, ghosts>>

\* get under the lock: an entry that has not expired is the answer.
Hit(r) ==
  \E e \in Entries(r) :
    /\ e.expires > asked[r]
    /\ Moves(r, "getting", "returned")
    /\ value' = [value EXCEPT ![r] = e.value]
    /\ UNCHANGED <<request, now, sources, values, asked, expires, ghosts>>

Miss(r) ==
  /\ \A e \in Entries(r) : e.expires <= asked[r]
  /\ Moves(r, "getting", "loading")
  /\ overlapped' = (overlapped \/ \E q \in Filling : Key(request[q]) = Key(request[r]))
  /\ UNCHANGED <<request, now, sources, values, asked, value, expires, before, slowest, always, ever>>

\* The source as it is now.
Found(r, names) == [source |-> Source(request[r]), of |-> version, at |-> now, names |-> names]

\* spawn_blocking reads the source, branches apart.
Load(r) ==
  /\ request[r].provider # "git"
  /\ Moves(r, "loading", "loaded")
  /\ value' = [value EXCEPT ![r] = Found(r, {})]
  /\ UNCHANGED <<request, now, sources, values, asked, expires, ghosts>>

LockFile(b) == <<b, "lock">>

\* What read_ref_dir finds: files, a lock file like any other.
Loose  == {<<b>> : b \in repo.loose} \cup {LockFile(b) : b \in repo.locked}
Packed == {<<b>> : b \in repo.packed}

\* Seeded fault: the packed branches are read first.
PartSwapped(step) == IF step = "reading" THEN Packed ELSE Loose

\* read_branches: the loose branches and then the packed ones.
Part(step) == IF step = "reading" THEN Loose ELSE Packed

ReadPart(r, from, to, known) ==
  /\ request[r].provider = "git"
  /\ Moves(r, from, to)
  /\ value' = [value EXCEPT ![r] = Found(r, known \cup Part(to))]
  /\ UNCHANGED <<request, now, sources, values, asked, expires, before, overlapped, slowest>>

ReadFirst(r) ==
  /\ ReadPart(r, "loading", "reading", {})
  /\ always' = [always EXCEPT ![r] = Live(repo)]
  /\ ever'   = [ever EXCEPT ![r] = Live(repo) \cup repo.doomed]

ReadSecond(r) ==
  /\ ReadPart(r, "reading", "loaded", value[r].names)
  /\ UNCHANGED <<always, ever>>

\* put: the expiry is taken before the lock is.
Stamp(r) ==
  /\ Moves(r, "loaded", "putting")
  /\ expires' = [expires EXCEPT ![r] = now + Ttl]
  /\ slowest' = IF now - value[r].at > slowest THEN now - value[r].at ELSE slowest
  /\ UNCHANGED <<request, now, sources, values, asked, value, before, overlapped, always, ever>>

Puts(r, old, new) ==
  /\ Moves(r, "putting", "returned")
  /\ values' = (values \ old) \cup {[key |-> Key(request[r]), value |-> new, expires |-> expires[r]]}
  /\ UNCHANGED <<request, now, sources, asked, value, expires, ghosts>>

\* Seeded fault: an entry that is there only gets the new expiry.
PutKeeping(r) ==
  Puts(r, Entries(r), IF Entries(r) = {} THEN value[r] ELSE (CHOOSE e \in Entries(r) : TRUE).value)

\* put under the lock: the last one wins, whatever it loaded and when.
Put(r) == Puts(r, Entries(r), value[r])

Next ==
  \/ Tick \/ Change \/ Works
  \/ \E r \in Asking :
       \/ Begin(r) \/ Skip(r) \/ Hit(r) \/ Miss(r)
       \/ Load(r) \/ ReadFirst(r) \/ ReadSecond(r)
       \/ Stamp(r) \/ Put(r)

Spec == Init /\ [][Next]_vars

-----------------------------------------------------------------------------

\* No answer is older than the lifetime of an entry and the slowest load
\* together, however lookups race.
Fresh ==
  \A r \in Asking :
    phase[r] = "returned" => asked[r] < value[r].at + Ttl + slowest

\* A lookup that began after another one of the same key returned does not show an
\* older state of the source than that one did: unless two loads overlapped, and
\* the older one put its value last.
NeverBackwards ==
  \A r \in Asking : phase[r] = "returned" /\ ~overlapped =>
    \A q \in before[r] : Key(request[q]) = Key(request[r]) => value[q].of <= value[r].of

\* An answer shows the directory, repository, PATH or history that the request
\* means, whoever loaded it: but for a token with no slash other than a leading
\* one, one with a tilde and a name after it, and a history that the request
\* brings along, of the length of another one.
RightSource ==
  \A r \in Asking : phase[r] = "returned" =>
    LET q == request[r]
    IN  \/ value[r].source = Meant(q)
        \/ q.provider = "path" /\ ((q.anchor = "root" /\ q.names = <<>>) \/ (q.anchor = "home" /\ q.names # <<>>))
        \/ /\ q.provider = "history" /\ q.inline # Unset
           /\ \E o \in Asking :
                /\ request[o].inline \notin {Unset, q.inline}
                /\ Len(request[o].inline) = Len(q.inline)

\* However git and the reading of branches interleave: no branch that is there all
\* the time is missed, and whatever is listed was there at some time, or was the
\* lock file of a branch.
BranchesAreTrue ==
  \A r \in Asking : phase[r] \in {"loaded", "putting"} /\ request[r].provider = "git" =>
    /\ \A b \in always[r] : <<b>> \in value[r].names
    /\ value[r].names \subseteq {<<b>> : b \in ever[r]} \cup {LockFile(b) : b \in Branches}
=============================================================================
