------------------------ MODULE ProviderCacheProofs ------------------------
(***************************************************************************)
(* Proofs about ProviderCache for every set of requests, lifetime of an    *)
(* entry, and amount of time and change.                                   *)
(***************************************************************************)
EXTENDS ProviderCache, SequenceTheorems, TLAPS

Phases  == {"idle", "getting", "loading", "reading", "loaded", "putting", "returned"}
Loading == {"reading", "loaded", "putting"}

Types ==
  /\ request    \in Scenarios
  /\ now        \in Nat
  /\ version    \in Nat
  /\ repo       \in [loose : SUBSET Branches, packed : SUBSET Branches,
                     locked : SUBSET Branches, doomed : SUBSET Branches]
  /\ phase      \in [Asking -> Phases]
  /\ asked      \in [Asking -> Nat]
  /\ expires    \in [Asking -> Nat]
  /\ DOMAIN value = Asking
  /\ \A r \in Asking : value[r].of \in Nat /\ value[r].at \in Nat
  /\ \A e \in values : e.expires \in Nat /\ e.value.of \in Nat /\ e.value.at \in Nat
  /\ before     \in [Asking -> SUBSET Asking]
  /\ overlapped \in BOOLEAN
  /\ slowest    \in Nat
  /\ always     \in [Asking -> SUBSET Branches]
  /\ ever       \in [Asking -> SUBSET Branches]

\* A lookup loads after it asked, and what it stamps or finds is not older than
\* the lifetime of an entry and the slowest load.
Timely ==
  /\ \A r \in Asking :
       /\ phase[r] # "idle" => asked[r] <= now
       /\ phase[r] \in Loading => asked[r] <= value[r].at /\ value[r].at <= now
       /\ phase[r] = "putting" => expires[r] <= value[r].at + Ttl + slowest
       /\ phase[r] = "returned" => asked[r] < value[r].at + Ttl + slowest
  /\ \A e \in values : e.expires <= e.value.at + Ttl + slowest

\* A key has one entry.  While no two loads of a key overlap, a load shows what is
\* no older than the entry, and the entry what is no older than any answer.
Ordered ==
  /\ \A e, f \in values : e.key = f.key => e = f
  /\ \A e \in values : e.value.of <= version
  /\ \A r \in Asking : value[r].of <= version
  /\ \A r \in Asking : phase[r] = "idle" => before[r] = {}
  /\ \A r \in Asking : \A q \in before[r] : phase[q] = "returned" /\ ~Sourceless(request[r])
  /\ ~overlapped =>
       /\ \A q, r \in Filling : Key(request[q]) = Key(request[r]) => q = r
       /\ \A r \in Asking : phase[r] \in Loading =>
            \A e \in Entries(r) : e.value.of <= value[r].of
       /\ \A r \in Asking : phase[r] = "returned" /\ ~Sourceless(request[r]) =>
            \E e \in Entries(r) : value[r].of <= e.value.of
  /\ NeverBackwards

\* What was loaded under a key shows the source of a request with that key.
Shows(source, key) ==
  \E o \in Asking : Key(request[o]) = key /\ source = Source(request[o])

Sourced ==
  /\ \A e \in values : Shows(e.value.source, e.key)
  /\ \A r \in Asking : phase[r] \in Loading \cup {"returned"} =>
       Shows(value[r].source, Key(request[r]))

\* A packed branch is not being deleted.  Between the two parts of a reading, a
\* branch that was there all along was read or is packed.
Listing ==
  /\ repo.packed \cap repo.doomed = {}
  /\ \A r \in Asking : Reading(r) /\ request[r].provider = "git" =>
       /\ Live(repo) \subseteq ever[r]
       /\ \A b \in always[r] : <<b>> \in value[r].names \/ b \in repo.packed
       /\ value[r].names \subseteq {<<b>> : b \in ever[r]} \cup {LockFile(b) : b \in Branches}
  /\ BranchesAreTrue

CacheInv == Types /\ Timely /\ Ordered /\ Sourced /\ Listing

-----------------------------------------------------------------------------
(* Requests, sources and keys                                              *)

\* The key says which provider it is of.
LEMMA KeyProvider ==
  ASSUME NEW q
  PROVE  /\ Key(q)[1] = q.provider
         /\ q.provider # "history" => Key(q) = Source(q)
  BY DEF Key, Source

\* Requests of one key have a source or none alike.
LEMMA KeySourceless ==
  ASSUME NEW a, NEW b, Key(a) = Key(b), Sourceless(a)
  PROVE  Sourceless(b)
<1>1. a.provider = "git" /\ RepositoryOf(a.cwd) = Nothing
  BY DEF Sourceless
<1>2. Source(a) = <<"git", RepositoryOf(a.cwd)>>
  BY <1>1 DEF Source
<1>3. b.provider = "git" /\ Source(b) = Source(a)
  BY <1>1, KeyProvider
<1>4. Source(b) = <<"git", RepositoryOf(b.cwd)>>
  BY <1>3 DEF Source
<1> QED
  BY <1>1, <1>2, <1>3, <1>4 DEF Sourceless

\* Two histories of one key are the same, or texts of one length.
LEMMA KeyOfHistory ==
  ASSUME NEW a, NEW b, a.provider = "history", b.provider = "history", Key(a) = Key(b)
  PROVE  \/ Source(a) = Source(b)
         \/ /\ a.inline # Unset /\ b.inline \notin {Unset, a.inline}
            /\ Len(b.inline) = Len(a.inline)
<1>1. Source(a) = <<"history", HistoryOf(a)>> /\ Source(b) = <<"history", HistoryOf(b)>>
  BY DEF Source
<1>2. HistoryKey(a) = HistoryKey(b)
  BY DEF Key
<1>3. ASSUME NEW q, q.inline = Unset
      PROVE  HistoryKey(q) = HistoryOf(q) /\ HistoryOf(q)[1] # "inline"
  BY <1>3 DEF HistoryKey, HistoryOf, Nothing
<1>4. ASSUME NEW q, q.inline # Unset
      PROVE  /\ HistoryKey(q) = <<"inline", Len(q.inline)>>
             /\ HistoryOf(q) = <<"inline", q.inline>> /\ HistoryKey(q)[1] = "inline"
  BY <1>4 DEF HistoryKey, HistoryOf
<1>5. CASE a.inline = Unset
  <2>1. b.inline = Unset
    BY <1>2, <1>3, <1>4, <1>5
  <2> QED
    BY <1>1, <1>2, <1>3, <1>5, <2>1
<1>6. CASE a.inline # Unset
  <2>1. b.inline # Unset
    BY <1>2, <1>3, <1>4, <1>6
  <2>2. Len(a.inline) = Len(b.inline)
    BY <1>2, <1>4, <1>6, <2>1
  <2>3. CASE a.inline = b.inline
    BY <1>1, <1>4, <1>6, <2>1, <2>3
  <2> QED
    BY <1>6, <2>1, <2>2, <2>3
<1> QED
  BY <1>5, <1>6

\* A path request lists the directory that it names, but for two forms of token.
LEMMA ListedIsNamed ==
  ASSUME NEW q, q.provider = "path", q.anchor \in {"none", "root", "home"},
         q.cwd \in Seq(STRING), q.names \in Seq(STRING)
  PROVE  \/ Source(q) = Meant(q)
         \/ q.anchor = "root" /\ q.names = <<>>
         \/ q.anchor = "home" /\ q.names # <<>>
<1>1. Source(q) = <<"path", Listed(q)>> /\ Meant(q) = <<"path", Named(q)>>
  BY DEF Source, Meant
<1>2. q.cwd \o <<>> = q.cwd /\ Home \o <<>> = Home
  BY ConcatEmptySeq, RequestsAssumption
<1>3. CASE q.anchor = "none"
  BY <1>1, <1>2, <1>3 DEF Listed, Named
<1>4. CASE q.anchor = "root"
  BY <1>1, <1>4 DEF Listed, Named
<1>5. CASE q.anchor = "home"
  BY <1>1, <1>2, <1>5 DEF Listed, Named
<1> QED
  BY <1>3, <1>4, <1>5

-----------------------------------------------------------------------------
(* Types, and the kinds of steps                                           *)

\* What a step of one lookup leaves alone.
Apart(r) ==
  /\ UNCHANGED <<request, now, version, repo>>
  /\ \A q \in Asking \ {r} :
       /\ phase'[q] = phase[q] /\ asked'[q] = asked[q] /\ value'[q] = value[q]
       /\ expires'[q] = expires[q] /\ before'[q] = before[q]
       /\ always'[q] = always[q] /\ ever'[q] = ever[q]

Steps(r) ==
  \/ Begin(r) \/ Skip(r) \/ Hit(r) \/ Miss(r)
  \/ Load(r) \/ ReadFirst(r) \/ ReadSecond(r)
  \/ Stamp(r) \/ Put(r)

LEMMA WorksAre == Works => \E new : Git(new)
  BY DEF Works, Lock, Unlock, Write, Pack, Prune, Delete

LEMMA StepsApart ==
  ASSUME Types, NEW r \in Asking, Steps(r)
  PROVE  Apart(r)
<1>1. /\ DOMAIN phase = Asking /\ DOMAIN asked = Asking /\ DOMAIN value = Asking
      /\ DOMAIN expires = Asking /\ DOMAIN before = Asking
      /\ DOMAIN always = Asking /\ DOMAIN ever = Asking
  BY DEF Types
<1>2. CASE Begin(r)
  BY <1>1, <1>2 DEF Apart, Begin, Moves, sources
<1>3. CASE Skip(r)
  BY <1>1, <1>3 DEF Apart, Skip, Moves, sources, ghosts
<1>4. CASE Hit(r)
  BY <1>1, <1>4 DEF Apart, Hit, Moves, sources, ghosts
<1>5. CASE Miss(r)
  BY <1>1, <1>5 DEF Apart, Miss, Moves, sources
<1>6. CASE Load(r)
  BY <1>1, <1>6 DEF Apart, Load, Moves, sources, ghosts
<1>7. CASE ReadFirst(r)
  BY <1>1, <1>7 DEF Apart, ReadFirst, ReadPart, Moves, sources
<1>8. CASE ReadSecond(r)
  BY <1>1, <1>8 DEF Apart, ReadSecond, ReadPart, Moves, sources
<1>9. CASE Stamp(r)
  BY <1>1, <1>9 DEF Apart, Stamp, Moves, sources
<1>10. CASE Put(r)
  BY <1>1, <1>10 DEF Apart, Put, Puts, Moves, sources, ghosts
<1> QED
  BY <1>2, <1>3, <1>4, <1>5, <1>6, <1>7, <1>8, <1>9, <1>10 DEF Steps

LEMMA TypesInit == Init => Types
<1> SUFFICES ASSUME Init PROVE Types
  OBVIOUS
<1>1. repo \in [loose : SUBSET Branches, packed : SUBSET Branches,
                locked : SUBSET Branches, doomed : SUBSET Branches]
  <2>1. CASE request \in Worked
    BY <2>1 DEF Init
  <2>2. CASE request \notin Worked
    BY <2>2 DEF Init
  <2> QED
    BY <2>1, <2>2
<1>2. DOMAIN value = Asking /\ \A r \in Asking : value[r].of \in Nat /\ value[r].at \in Nat
  BY DEF Init, NoValue
<1> QED
  BY <1>1, <1>2 DEF Init, Types, Phases

\* Git's work leaves a repository.
LEMMA WorksTypes ==
  ASSUME Types, Works
  PROVE  Types'
<1>1. repo' \in [loose : SUBSET Branches, packed : SUBSET Branches,
                 locked : SUBSET Branches, doomed : SUBSET Branches]
  <2> DEFINE Repos == [loose : SUBSET Branches, packed : SUBSET Branches,
                       locked : SUBSET Branches, doomed : SUBSET Branches]
  <2>1. repo \in Repos
    BY DEF Types
  <2>2. CASE Pack
    BY <2>1, <2>2 DEF Pack, Git
  <2>3. ASSUME NEW b \in Branches, Lock(b)  PROVE repo' \in Repos
    BY <2>1, <2>3 DEF Lock, Git
  <2>4. ASSUME NEW b \in Branches, Unlock(b)  PROVE repo' \in Repos
    BY <2>1, <2>4 DEF Unlock, Git
  <2>5. ASSUME NEW b \in Branches, Prune(b)  PROVE repo' \in Repos
    BY <2>1, <2>5 DEF Prune, Git
  <2>6. ASSUME NEW b \in Branches, Write(b)  PROVE repo' \in Repos
    BY <2>1, <2>6 DEF Write, Git
  <2>7. ASSUME NEW b \in Branches, Delete(b)  PROVE repo' \in Repos
    <3>1. CASE /\ b \in repo.locked \cap Live(repo)
               /\ Git([repo EXCEPT !.packed = @ \ {b}, !.doomed = @ \cup {b}])
      BY <2>1, <3>1 DEF Git
    <3>2. CASE /\ b \in repo.doomed
               /\ Git([repo EXCEPT !.loose = @ \ {b}, !.doomed = @ \ {b}, !.locked = @ \ {b}])
      <4>1. repo' = [repo EXCEPT !.loose = @ \ {b}, !.doomed = @ \ {b}, !.locked = @ \ {b}]
        BY <3>2 DEF Git
      <4>2. repo' = [loose  |-> repo.loose \ {b},  packed |-> repo.packed,
                     locked |-> repo.locked \ {b}, doomed |-> repo.doomed \ {b}]
        BY <2>1, <4>1
      <4> QED
        BY <2>1, <4>2
    <3> QED
      BY <2>7, <3>1, <3>2 DEF Delete
  <2> QED
    BY <2>2, <2>3, <2>4, <2>5, <2>6, <2>7 DEF Works
<1>2. PICK new : Git(new)
  BY WorksAre
<1>3. Live(new) \subseteq Branches
  BY <1>1, <1>2 DEF Git, Live
<1>4. UNCHANGED <<request, now, version, values, phase, asked, value, expires, before, overlapped, slowest>>
  BY <1>2 DEF Git
<1>5. always' \in [Asking -> SUBSET Branches]
  <2>1. always' = [r \in Asking |-> IF Reading(r) THEN always[r] \cap Live(new) ELSE always[r]]
    BY <1>2 DEF Git
  <2>2. \A r \in Asking : always[r] \subseteq Branches
    BY DEF Types
  <2> QED
    BY <2>1, <2>2
<1>6. ever' \in [Asking -> SUBSET Branches]
  <2>1. ever' = [r \in Asking |-> IF Reading(r) THEN ever[r] \cup Live(new) ELSE ever[r]]
    BY <1>2 DEF Git
  <2>2. \A r \in Asking : ever[r] \subseteq Branches
    BY DEF Types
  <2> QED
    BY <1>3, <2>1, <2>2
<1>7. Asking' = Asking
  BY <1>4 DEF Asking
<1> QED
  BY <1>1, <1>4, <1>5, <1>6, <1>7 DEF Types

LEMMA StepTypes ==
  ASSUME Types, NEW r \in Asking, Steps(r)
  PROVE  Types'
<1>1. Asking' = Asking /\ UNCHANGED <<request, now, version, repo>>
  BY StepsApart DEF Apart, Asking
<1>2. /\ now \in Nat /\ version \in Nat /\ slowest \in Nat /\ now + Ttl \in Nat
      /\ value[r].at \in Nat
  BY TtlAssumption DEF Types
<1>3. Live(repo) \subseteq Branches /\ Live(repo) \cup repo.doomed \subseteq Branches
  BY DEF Types, Live
<1>4. CASE Begin(r)
  BY <1>1, <1>2, <1>4 DEF Types, Begin, Moves, Phases, sources
<1>5. CASE Skip(r)
  BY <1>1, <1>2, <1>5 DEF Types, Skip, Moves, Phases, sources, ghosts, NoValue
<1>6. CASE Hit(r)
  BY <1>1, <1>6 DEF Types, Hit, Moves, Phases, sources, ghosts, Entries
<1>7. CASE Miss(r)
  BY <1>1, <1>7 DEF Types, Miss, Moves, Phases, sources
<1>8. CASE Load(r)
  BY <1>1, <1>2, <1>8 DEF Types, Load, Moves, Phases, sources, ghosts, Found
<1>9. CASE ReadFirst(r)
  BY <1>1, <1>2, <1>3, <1>9 DEF Types, ReadFirst, ReadPart, Moves, Phases, sources, Found
<1>10. CASE ReadSecond(r)
  BY <1>1, <1>2, <1>10 DEF Types, ReadSecond, ReadPart, Moves, Phases, sources, Found
<1>11. CASE Stamp(r)
  BY <1>1, <1>2, <1>11 DEF Types, Stamp, Moves, Phases, sources
<1>12. CASE Put(r)
  BY <1>1, <1>12 DEF Types, Put, Puts, Moves, Phases, sources, ghosts
<1> QED
  BY <1>4, <1>5, <1>6, <1>7, <1>8, <1>9, <1>10, <1>11, <1>12 DEF Steps

LEMMA TypesNext == Types /\ [Next]_vars => Types'
<1> SUFFICES ASSUME Types, [Next]_vars PROVE Types'
  OBVIOUS
<1>1. CASE Tick
  BY <1>1 DEF Tick, Types, Asking, sources, ghosts
<1>2. CASE Change
  BY <1>2 DEF Change, Types, Asking, ghosts
<1>3. CASE Works
  BY <1>3, WorksTypes
<1>4. ASSUME NEW r \in Asking, Steps(r) PROVE Types'
  BY <1>4, StepTypes
<1>5. CASE UNCHANGED vars
  BY <1>5 DEF vars, sources, ghosts, Types, Asking
<1> QED
  BY <1>1, <1>2, <1>3, <1>4, <1>5 DEF Next, Steps

-----------------------------------------------------------------------------
(* The age of an answer                                                    *)

\* The part of Timely that is about one lookup.
TimelyLookup(r) ==
  /\ phase[r] # "idle" => asked[r] <= now
  /\ phase[r] \in Loading => asked[r] <= value[r].at /\ value[r].at <= now
  /\ phase[r] = "putting" => expires[r] <= value[r].at + Ttl + slowest
  /\ phase[r] = "returned" => asked[r] < value[r].at + Ttl + slowest

TimelyEntry(e) == e.expires <= e.value.at + Ttl + slowest

LEMMA TimelyIs ==
  Timely <=> (\A r \in Asking : TimelyLookup(r)) /\ (\A e \in values : TimelyEntry(e))
  BY DEF Timely, TimelyLookup, TimelyEntry

\* Time goes by, and the slowest load only becomes slower.
LEMMA TimelyLater ==
  ASSUME Types, Timely, Types',
         UNCHANGED request, now' >= now, slowest' >= slowest, values' \subseteq values,
         NEW some, \A q \in Asking \ some :
           phase'[q] = phase[q] /\ asked'[q] = asked[q] /\ value'[q] = value[q] /\ expires'[q] = expires[q],
         \A q \in Asking \cap some : TimelyLookup(q)'
  PROVE  Timely'
<1>1. Asking' = Asking
  BY DEF Asking
<1>2. Ttl \in Nat /\ slowest \in Nat /\ slowest' \in Nat /\ now \in Nat /\ now' \in Nat
  BY TtlAssumption DEF Types
<1>3. ASSUME NEW q \in Asking \ some  PROVE TimelyLookup(q)'
  <2>1. TimelyLookup(q) /\ value[q].at \in Nat /\ asked[q] \in Nat /\ expires[q] \in Nat
    BY TimelyIs DEF Types
  <2> QED
    BY <1>2, <2>1 DEF TimelyLookup
<1>4. ASSUME NEW e \in values'  PROVE TimelyEntry(e)'
  <2>1. TimelyEntry(e) /\ e.expires \in Nat /\ e.value.at \in Nat
    BY TimelyIs DEF Types
  <2> QED
    BY <1>2, <2>1 DEF TimelyEntry
<1> QED
  BY <1>1, <1>3, <1>4 DEF Timely, TimelyLookup, TimelyEntry

LEMMA TimelyStep ==
  ASSUME Types, Timely, Types', NEW r \in Asking, Steps(r)
  PROVE  Timely'
<1>1. /\ UNCHANGED <<request, now>>
      /\ \A q \in Asking \ {r} :
           phase'[q] = phase[q] /\ asked'[q] = asked[q] /\ value'[q] = value[q] /\ expires'[q] = expires[q]
  BY StepsApart DEF Apart
<1>2. /\ DOMAIN phase = Asking /\ DOMAIN asked = Asking /\ DOMAIN value = Asking
      /\ DOMAIN expires = Asking
      /\ now \in Nat /\ slowest \in Nat /\ slowest' \in Nat /\ Ttl \in Nat /\ Ttl > 0
      /\ asked[r] \in Nat /\ value[r].at \in Nat /\ expires[r] \in Nat
  BY TtlAssumption DEF Types
<1>3. TimelyLookup(r) /\ \A e \in values : TimelyEntry(e)
  BY TimelyIs
<1>4. CASE values' = values
  <2>1. slowest' >= slowest /\ TimelyLookup(r)'
    <3>1. CASE Begin(r)
      BY <1>2, <3>1 DEF Begin, Moves, TimelyLookup, Loading
    <3>2. CASE Skip(r)
      BY <1>2, <3>2 DEF Skip, Moves, TimelyLookup, Loading, ghosts, NoValue
    <3>3. CASE Hit(r)
      <4>1. PICK e \in values : /\ e.expires > asked[r] /\ Moves(r, "getting", "returned")
                                /\ value' = [value EXCEPT ![r] = e.value]
                                /\ UNCHANGED <<request, now, asked, slowest>>
        BY <3>3 DEF Hit, Entries, ghosts
      <4>2. e.expires \in Nat /\ e.value.at \in Nat /\ TimelyEntry(e)
        BY <1>3 DEF Types
      <4>3. phase'[r] = "returned" /\ phase[r] = "getting" /\ value'[r] = e.value /\ asked'[r] = asked[r]
        BY <1>2, <4>1 DEF Moves
      <4>4. asked'[r] < value'[r].at + Ttl + slowest'
        BY <1>2, <4>1, <4>2, <4>3 DEF TimelyEntry
      <4> QED
        BY <1>2, <1>3, <4>1, <4>3, <4>4 DEF TimelyLookup, Loading
    <3>4. CASE Miss(r)
      BY <1>2, <1>3, <3>4 DEF Miss, Moves, TimelyLookup, Loading
    <3>5. CASE Load(r)
      BY <1>2, <1>3, <3>5 DEF Load, Moves, TimelyLookup, Loading, ghosts, Found
    <3>6. CASE ReadFirst(r)
      BY <1>2, <1>3, <3>6 DEF ReadFirst, ReadPart, Moves, TimelyLookup, Loading, Found
    <3>7. CASE ReadSecond(r)
      BY <1>2, <1>3, <3>7 DEF ReadSecond, ReadPart, Moves, TimelyLookup, Loading, Found
    <3>8. CASE Stamp(r)
      <4>1. /\ phase[r] = "loaded" /\ phase'[r] = "putting"
            /\ expires'[r] = now + Ttl /\ asked'[r] = asked[r] /\ value'[r] = value[r]
            /\ slowest' = IF now - value[r].at > slowest THEN now - value[r].at ELSE slowest
        BY <1>2, <3>8 DEF Stamp, Moves
      <4>2. slowest' >= slowest /\ now - value[r].at <= slowest'
        BY <1>2, <4>1
      <4> QED
        BY <1>1, <1>2, <1>3, <4>1, <4>2 DEF TimelyLookup, Loading
    <3>9. CASE Put(r)
      <4>1. /\ phase[r] = "putting" /\ phase'[r] = "returned"
            /\ asked'[r] = asked[r] /\ value'[r] = value[r] /\ slowest' = slowest
        BY <1>2, <3>9 DEF Put, Puts, Moves, ghosts
      <4> QED
        BY <1>1, <1>2, <1>3, <4>1 DEF TimelyLookup, Loading
    <3> QED
      BY <3>1, <3>2, <3>3, <3>4, <3>5, <3>6, <3>7, <3>8, <3>9 DEF Steps
  <2>2. now' >= now
    BY <1>1, <1>2
  <2> DEFINE some == {r}
  <2>3. /\ \A q \in Asking \ some :
             phase'[q] = phase[q] /\ asked'[q] = asked[q] /\ value'[q] = value[q] /\ expires'[q] = expires[q]
        /\ \A q \in Asking \cap some : TimelyLookup(q)'
    BY <1>1, <2>1
  <2> HIDE DEF some
  <2> QED
    BY <1>1, <1>4, <2>1, <2>2, <2>3, TimelyLater
<1>5. CASE values' # values
  <2>1. Put(r)
    BY <1>5 DEF Steps, Begin, Skip, Hit, Miss, Load, ReadFirst, ReadSecond, ReadPart, Stamp, ghosts
  <2>2. /\ phase[r] = "putting" /\ phase'[r] = "returned" /\ slowest' = slowest
        /\ UNCHANGED <<asked, value, expires>>
    BY <1>2, <2>1 DEF Put, Puts, Moves, ghosts
  <2>3. TimelyLookup(r)'
    BY <1>1, <1>2, <1>3, <2>2 DEF TimelyLookup, Loading
  <2>4. ASSUME NEW q \in Asking \ {r}  PROVE TimelyLookup(q)'
    BY <1>1, <2>2, TimelyIs DEF TimelyLookup
  <2>5. ASSUME NEW e \in values'  PROVE TimelyEntry(e)'
    <3>1. e \in values \/ e = [key |-> Key(request[r]), value |-> value[r], expires |-> expires[r]]
      BY <2>1 DEF Put, Puts
    <3> QED
      BY <1>3, <2>2, <3>1 DEF TimelyEntry, TimelyLookup
  <2>6. Asking' = Asking
    BY <1>1 DEF Asking
  <2> QED
    BY <2>3, <2>4, <2>5, <2>6 DEF Timely, TimelyLookup, TimelyEntry
<1> QED
  BY <1>4, <1>5

LEMMA TimelyNext == Types /\ Timely /\ Types' /\ [Next]_vars => Timely'
<1> SUFFICES ASSUME Types, Timely, Types', [Next]_vars PROVE Timely'
  OBVIOUS
<1>1. now \in Nat /\ slowest \in Nat
  BY DEF Types
<1>2. CASE Tick \/ Change \/ Works \/ UNCHANGED vars
  <2>1. /\ UNCHANGED <<request, values, phase, asked, value, expires, slowest>>
        /\ now' \in {now, now + 1}
    BY <1>2, WorksAre DEF Tick, Change, Git, vars, sources, ghosts
  <2> DEFINE some == {}
  <2>2. now' >= now /\ slowest' >= slowest
    BY <1>1, <2>1
  <2>3. /\ \A q \in Asking \ some :
             phase'[q] = phase[q] /\ asked'[q] = asked[q] /\ value'[q] = value[q] /\ expires'[q] = expires[q]
        /\ \A q \in Asking \cap some : TimelyLookup(q)'
    BY <2>1
  <2> HIDE DEF some
  <2> QED
    BY <2>1, <2>2, <2>3, TimelyLater
<1>3. ASSUME NEW r \in Asking, Steps(r) PROVE Timely'
  BY <1>3, TimelyStep
<1> QED
  BY <1>2, <1>3 DEF Next, Steps

-----------------------------------------------------------------------------
(* The source of an answer                                                 *)

LEMMA SourcedStep ==
  ASSUME Types, Sourced, NEW r \in Asking, Steps(r)
  PROVE  Sourced'
<1>1. /\ UNCHANGED request /\ Asking' = Asking
      /\ \A q \in Asking \ {r} : phase'[q] = phase[q] /\ value'[q] = value[q]
  BY StepsApart DEF Apart, Asking
<1>2. DOMAIN phase = Asking /\ DOMAIN value = Asking
  BY DEF Types
<1>3. \A s, k : Shows(s, k)' <=> Shows(s, k)
  BY <1>1 DEF Shows
<1>4. Shows(Source(request[r]), Key(request[r]))
  BY DEF Shows
<1>5. phase'[r] \in Loading \cup {"returned"} => Shows(value'[r].source, Key(request[r]))
  <2>1. CASE Begin(r) \/ Miss(r)
    BY <1>2, <2>1 DEF Begin, Miss, Moves, Loading
  <2>2. CASE Skip(r)
    BY <1>2, <1>4, <2>2 DEF Skip, Moves, Loading, NoValue
  <2>3. CASE Hit(r)
    <3>1. PICK e \in Entries(r) : value' = [value EXCEPT ![r] = e.value]
      BY <2>3 DEF Hit
    <3>2. Shows(e.value.source, Key(request[r]))
      BY DEF Sourced, Entries
    <3> QED
      BY <1>2, <3>1, <3>2
  <2>4. CASE Load(r)
    BY <1>2, <1>4, <2>4 DEF Load, Moves, Found
  <2>5. CASE ReadFirst(r) \/ ReadSecond(r)
    BY <1>2, <1>4, <2>5 DEF ReadFirst, ReadSecond, ReadPart, Moves, Found
  <2>6. CASE Stamp(r) \/ Put(r)
    BY <1>2, <2>6 DEF Sourced, Stamp, Put, Puts, Moves, Loading
  <2> QED
    BY <2>1, <2>2, <2>3, <2>4, <2>5, <2>6 DEF Steps
<1>6. \A e \in values' : Shows(e.value.source, e.key)
  <2>1. CASE values' = values
    BY <2>1 DEF Sourced
  <2>2. CASE Put(r)
    <3>1. \A e \in values' : e \in values \/ e = [key |-> Key(request[r]), value |-> value[r], expires |-> expires[r]]
      BY <2>2 DEF Put, Puts
    <3>2. Shows(value[r].source, Key(request[r]))
      BY <2>2 DEF Sourced, Put, Puts, Moves, Loading
    <3> QED
      BY <3>1, <3>2 DEF Sourced
  <2> QED
    BY <2>1, <2>2 DEF Steps, Begin, Skip, Hit, Miss, Load, ReadFirst, ReadSecond, ReadPart, Stamp, ghosts
<1>7. \A q \in Asking : phase'[q] \in Loading \cup {"returned"} => Shows(value'[q].source, Key(request[q]))
  BY <1>1, <1>5 DEF Sourced
<1> QED
  BY <1>1, <1>3, <1>6, <1>7 DEF Sourced

LEMMA SourcedNext == Types /\ Sourced /\ [Next]_vars => Sourced'
<1> SUFFICES ASSUME Types, Sourced, [Next]_vars PROVE Sourced'
  OBVIOUS
<1>1. CASE Tick \/ Change \/ Works \/ UNCHANGED vars
  <2>1. UNCHANGED <<request, values, phase, value>>
    BY <1>1, WorksAre DEF Tick, Change, Git, vars, sources, ghosts
  <2> QED
    BY <2>1 DEF Sourced, Shows, Asking
<1>2. ASSUME NEW r \in Asking, Steps(r) PROVE Sourced'
  BY <1>2, SourcedStep
<1> QED
  BY <1>1, <1>2 DEF Next, Steps

\* What a key shows is what its requests mean, but for the forms of RightSource.
LEMMA SourceIsRight == Types /\ Sourced => RightSource
<1> SUFFICES ASSUME Types, Sourced, NEW r \in Asking, phase[r] = "returned"
             PROVE  LET q == request[r]
                    IN  \/ value[r].source = Meant(q)
                        \/ q.provider = "path" /\ ((q.anchor = "root" /\ q.names = <<>>) \/ (q.anchor = "home" /\ q.names # <<>>))
                        \/ /\ q.provider = "history" /\ q.inline # Unset
                           /\ \E o \in Asking :
                                /\ request[o].inline \notin {Unset, q.inline}
                                /\ Len(request[o].inline) = Len(q.inline)
  BY DEF RightSource
<1> DEFINE q == request[r]
<1>1. PICK o \in Asking : Key(request[o]) = Key(q) /\ value[r].source = Source(request[o])
  BY DEF Sourced, Shows
<1>2. /\ q.provider \in {"path", "git", "command", "history"}
      /\ q.provider = "path" =>
            /\ q.anchor \in {"none", "root", "home"}
            /\ q.cwd \in Seq(STRING) /\ q.names \in Seq(STRING)
  BY RequestsAssumption DEF Types, Asking
<1>3. request[o].provider = q.provider
  BY <1>1, KeyProvider
<1> HIDE DEF q
<1>4. CASE q.provider = "history"
  <2>1. Meant(q) = Source(q)
    BY <1>4 DEF Meant
  <2> QED
    BY <1>1, <1>3, <1>4, <2>1, KeyOfHistory DEF q
<1>5. CASE q.provider # "history"
  <2>1. value[r].source = Source(q)
    BY <1>1, <1>3, <1>5, KeyProvider
  <2>2. CASE q.provider = "path"
    BY <1>2, <2>1, <2>2, ListedIsNamed DEF q
  <2>3. CASE q.provider # "path"
    BY <2>1, <2>3 DEF Meant, q
  <2> QED
    BY <2>2, <2>3
<1> QED
  BY <1>4, <1>5

-----------------------------------------------------------------------------
(* The branches in an answer                                               *)

\* The part of Listing that is about one lookup.
Told(r) ==
  /\ \A b \in always[r] : <<b>> \in value[r].names
  /\ value[r].names \subseteq {<<b>> : b \in ever[r]} \cup {LockFile(b) : b \in Branches}

PartTold(r) ==
  /\ Live(repo) \subseteq ever[r]
  /\ \A b \in always[r] : <<b>> \in value[r].names \/ b \in repo.packed
  /\ value[r].names \subseteq {<<b>> : b \in ever[r]} \cup {LockFile(b) : b \in Branches}

Lists(r) ==
  request[r].provider = "git" =>
    /\ phase[r] = "reading" => PartTold(r)
    /\ phase[r] \in {"loaded", "putting"} => Told(r)

LEMMA ListingIs == Listing <=> repo.packed \cap repo.doomed = {} /\ \A r \in Asking : Lists(r)
  BY DEF Listing, Lists, PartTold, Told, BranchesAreTrue, Reading

\* What git does to a repository: a branch leaves the packed ones only to be
\* deleted, and none that is being deleted comes to be there.
LEMMA WorksOn ==
  ASSUME Types, Works, repo.packed \cap repo.doomed = {}
  PROVE  /\ repo'.packed \cap repo'.doomed = {}
         /\ repo.packed \cap Live(repo') \subseteq repo'.packed
<1>1. repo \in [loose : SUBSET Branches, packed : SUBSET Branches,
                locked : SUBSET Branches, doomed : SUBSET Branches]
  BY DEF Types
<1>2. CASE Pack
  <2>1. repo'.packed = repo.packed \cup (repo.loose \ repo.doomed) /\ repo'.doomed = repo.doomed
    BY <1>1, <1>2 DEF Pack, Git
  <2> QED
    BY <2>1
<1>3. ASSUME NEW b \in Branches, Lock(b) \/ Unlock(b) \/ Write(b) \/ Prune(b)
      PROVE  repo'.packed = repo.packed /\ repo'.doomed = repo.doomed
  BY <1>1, <1>3 DEF Lock, Unlock, Write, Prune, Git
<1>4. ASSUME NEW b \in Branches, Delete(b)
      PROVE  \/ repo'.packed = repo.packed \ {b} /\ repo'.doomed = repo.doomed \cup {b}
             \/ repo'.packed = repo.packed /\ repo'.doomed = repo.doomed \ {b}
  BY <1>1, <1>4 DEF Delete, Git
<1>5. ASSUME NEW b \in Branches,
             \/ repo'.packed = repo.packed \ {b} /\ repo'.doomed = repo.doomed \cup {b}
             \/ repo'.packed = repo.packed /\ repo'.doomed = repo.doomed \ {b}
      PROVE  /\ repo'.packed \cap repo'.doomed = {}
             /\ repo.packed \cap Live(repo') \subseteq repo'.packed
  BY <1>5 DEF Live
<1> QED
  BY <1>2, <1>3, <1>4, <1>5 DEF Works

LEMMA ListingWorks ==
  ASSUME Types, Listing, Works
  PROVE  Listing'
<1>1. /\ repo'.packed \cap repo'.doomed = {}
      /\ repo.packed \cap Live(repo') \subseteq repo'.packed
  BY WorksOn DEF Listing
<1>2. PICK new : Git(new)
  BY WorksAre
<1>3. UNCHANGED <<request, phase, value>> /\ repo' = new /\ Asking' = Asking
  BY <1>2 DEF Git, Asking
<1>4. ASSUME NEW r \in Asking  PROVE Lists(r)'
  <2>1. Lists(r)
    BY ListingIs
  <2>2. CASE phase[r] = "reading"
    <3>1. always'[r] = always[r] \cap Live(new) /\ ever'[r] = ever[r] \cup Live(new)
      BY <1>2, <2>2 DEF Git, Reading
    <3>2. Live(repo)' = Live(repo')
      BY DEF Live
    <3>3. request[r].provider = "git" => PartTold(r)'
      BY <1>1, <1>3, <2>1, <2>2, <3>1, <3>2 DEF Lists, PartTold
    <3> QED
      BY <1>3, <2>2, <3>3 DEF Lists
  <2>3. CASE phase[r] # "reading"
    <3>1. always'[r] = always[r] /\ ever'[r] = ever[r]
      BY <1>2, <2>3 DEF Git, Reading
    <3> QED
      BY <1>3, <2>1, <2>3, <3>1 DEF Lists, Told
  <2> QED
    BY <2>2, <2>3
<1>5. (\A r \in Asking : Lists(r))'
  BY <1>3, <1>4
<1> QED
  BY <1>1, <1>5 DEF Listing, Lists, PartTold, Told, BranchesAreTrue, Reading

\* The first part shows what is loose or being written, the second what is packed.
LEMMA ListingStep ==
  ASSUME Types, Listing, NEW r \in Asking, Steps(r)
  PROVE  Listing'
<1>1. /\ UNCHANGED <<request, repo>> /\ Asking' = Asking
      /\ \A q \in Asking \ {r} : /\ phase'[q] = phase[q] /\ value'[q] = value[q]
                                 /\ always'[q] = always[q] /\ ever'[q] = ever[q]
  BY StepsApart DEF Apart, Asking
<1>2. /\ DOMAIN phase = Asking /\ DOMAIN value = Asking /\ DOMAIN always = Asking /\ DOMAIN ever = Asking
      /\ repo.locked \subseteq Branches
  BY DEF Types
<1>3. \A q \in Asking \ {r} : Lists(q)'
  BY <1>1, ListingIs DEF Lists, Told, PartTold
<1>4. Lists(r)'
  <2>1. CASE Begin(r) \/ Skip(r) \/ Hit(r) \/ Miss(r) \/ Put(r)
    <3>1. phase'[r] \in {"getting", "returned", "loading"}
      BY <1>2, <2>1 DEF Begin, Skip, Hit, Miss, Put, Puts, Moves
    <3> QED
      BY <3>1 DEF Lists
  <2>2. CASE Load(r)
    BY <1>1, <2>2 DEF Load, Lists
  <2>3. CASE ReadFirst(r)
    <3>1. /\ phase'[r] = "reading"
          /\ value'[r].names = Loose
          /\ always'[r] = Live(repo) /\ ever'[r] = Live(repo) \cup repo.doomed
      BY <1>2, <2>3 DEF ReadFirst, ReadPart, Moves, Found, Part
    <3>2. PartTold(r)'
      BY <1>1, <1>2, <3>1 DEF PartTold, Loose, Live
    <3> QED
      BY <3>1, <3>2 DEF Lists
  <2>4. CASE ReadSecond(r)
    <3>1. /\ phase[r] = "reading" /\ phase'[r] = "loaded" /\ request[r].provider = "git"
          /\ value'[r].names = value[r].names \cup Packed
          /\ always'[r] = always[r] /\ ever'[r] = ever[r]
      BY <1>2, <2>4 DEF ReadSecond, ReadPart, Moves, Found, Part
    <3>2. repo.packed \cap repo.doomed = {} /\ PartTold(r)
      BY <3>1, ListingIs DEF Lists
    <3>3. Told(r)'
      BY <1>1, <3>1, <3>2 DEF Told, PartTold, Packed, Live
    <3> QED
      BY <3>1, <3>3 DEF Lists
  <2>5. CASE Stamp(r)
    <3>1. /\ phase[r] = "loaded" /\ phase'[r] = "putting" /\ UNCHANGED <<request, value, always, ever>>
      BY <1>2, <2>5 DEF Stamp, Moves
    <3> QED
      BY <3>1, ListingIs DEF Lists, Told
  <2> QED
    BY <2>1, <2>2, <2>3, <2>4, <2>5 DEF Steps
<1>5. (\A q \in Asking : Lists(q))' /\ repo'.packed \cap repo'.doomed = {}
  BY <1>1, <1>3, <1>4, ListingIs
<1> QED
  BY <1>5 DEF Listing, Lists, PartTold, Told, BranchesAreTrue, Reading

LEMMA ListingNext == Types /\ Listing /\ [Next]_vars => Listing'
<1> SUFFICES ASSUME Types, Listing, [Next]_vars PROVE Listing'
  OBVIOUS
<1>1. CASE Tick \/ Change \/ UNCHANGED vars
  <2>1. UNCHANGED <<request, repo, phase, value, always, ever>>
    BY <1>1 DEF Tick, Change, vars, sources, ghosts
  <2> QED
    BY <2>1 DEF Listing, Reading, BranchesAreTrue, Asking
<1>2. CASE Works
  BY <1>2, ListingWorks
<1>3. ASSUME NEW r \in Asking, Steps(r) PROVE Listing'
  BY <1>3, ListingStep
<1> QED
  BY <1>1, <1>2, <1>3 DEF Next, Steps

-----------------------------------------------------------------------------
(* The order of the answers                                                *)

\* Every version that a lookup or an entry shows has been there.
Past ==
  /\ \A e \in values : e.value.of <= version
  /\ \A r \in Asking : value[r].of <= version

OneEntry == \A e, f \in values : e.key = f.key => e = f

\* Only a lookup that has begun knows of others, which had returned.
Begun ==
  /\ \A r \in Asking : phase[r] = "idle" => before[r] = {}
  /\ \A r \in Asking : \A q \in before[r] : phase[q] = "returned" /\ ~Sourceless(request[r])

\* While no two loads of a key overlap.
Alone    == \A q, r \in Filling : Key(request[q]) = Key(request[r]) => q = r
Current  == \A r \in Asking : phase[r] \in Loading => \A e \in Entries(r) : e.value.of <= value[r].of
Recorded == \A r \in Asking : phase[r] = "returned" /\ ~Sourceless(request[r]) =>
              \E e \in Entries(r) : value[r].of <= e.value.of

LEMMA OrderedIs ==
  Ordered <=> OneEntry /\ Past /\ Begun /\ (~overlapped => Alone /\ Current /\ Recorded) /\ NeverBackwards
  BY DEF Ordered, OneEntry, Past, Begun, Alone, Current, Recorded

LEMMA PastStep ==
  ASSUME Types, Past, NEW r \in Asking, Steps(r)
  PROVE  Past'
<1>1. /\ UNCHANGED version /\ Asking' = Asking /\ version \in Nat
      /\ \A q \in Asking \ {r} : value'[q] = value[q]
  BY StepsApart DEF Apart, Asking, Types
<1>2. DOMAIN value = Asking
  BY DEF Types
<1>3. value'[r].of <= version
  <2>1. CASE Begin(r) \/ Miss(r) \/ Stamp(r) \/ Put(r)
    BY <2>1 DEF Begin, Miss, Stamp, Put, Puts, Past
  <2>2. CASE Skip(r)
    BY <1>1, <1>2, <2>2 DEF Skip, NoValue
  <2>3. CASE Hit(r)
    BY <1>2, <2>3 DEF Hit, Past, Entries
  <2>4. CASE Load(r) \/ ReadFirst(r) \/ ReadSecond(r)
    BY <1>1, <1>2, <2>4 DEF Load, ReadFirst, ReadSecond, ReadPart, Found
  <2> QED
    BY <2>1, <2>2, <2>3, <2>4 DEF Steps
<1>4. \A e \in values' : e.value.of <= version
  <2>1. CASE values' = values
    BY <2>1 DEF Past
  <2>2. CASE Put(r)
    BY <2>2 DEF Put, Puts, Past
  <2> QED
    BY <2>1, <2>2 DEF Steps, Begin, Skip, Hit, Miss, Load, ReadFirst, ReadSecond, ReadPart, Stamp, ghosts
<1> QED
  BY <1>1, <1>3, <1>4 DEF Past

LEMMA BegunStep ==
  ASSUME Types, Begun, NEW r \in Asking, Steps(r)
  PROVE  Begun'
<1>1. /\ UNCHANGED request /\ Asking' = Asking
      /\ \A q \in Asking \ {r} : phase'[q] = phase[q] /\ before'[q] = before[q]
  BY StepsApart DEF Apart, Asking
<1>2. DOMAIN phase = Asking /\ DOMAIN before = Asking /\ \A q \in Asking : before[q] \subseteq Asking
  BY DEF Types
<1>3. phase[r] # "returned" /\ phase'[r] # "idle"
  BY <1>2 DEF Steps, Begin, Skip, Hit, Miss, Load, ReadFirst, ReadSecond, ReadPart, Stamp, Put, Puts, Moves
<1>4. \A q \in before'[r] : phase'[q] = "returned" /\ ~Sourceless(request[r])
  <2>1. CASE Begin(r)
    BY <1>1, <1>2, <1>3, <2>1 DEF Begin
  <2>2. CASE ~Begin(r)
    <3>1. before'[r] = before[r]
      BY <2>2 DEF Steps, Skip, Hit, Miss, Load, ReadFirst, ReadSecond, ReadPart, Stamp, Put, Puts, ghosts
    <3> QED
      BY <1>1, <1>2, <1>3, <3>1 DEF Begun
  <2> QED
    BY <2>1, <2>2
<1>5. \A q \in Asking \ {r} : \A p \in before'[q] : phase'[p] = "returned" /\ ~Sourceless(request[q])
  BY <1>1, <1>2, <1>3 DEF Begun
<1> QED
  BY <1>1, <1>3, <1>4, <1>5 DEF Begun

\* A put leaves one entry of its key, the one of the lookup.
LEMMA PutEntries ==
  ASSUME Types, OneEntry, NEW r \in Asking, Put(r)
  PROVE  /\ OneEntry'
         /\ \E new \in values' :
              /\ new.key = Key(request[r]) /\ new.value = value[r]
              /\ \A e \in values' : e.key = Key(request[r]) => e = new
              /\ \A e : e.key # Key(request[r]) => (e \in values' <=> e \in values)
<1> DEFINE new == [key |-> Key(request[r]), value |-> value[r], expires |-> expires[r]]
<1>1. values' = (values \ Entries(r)) \cup {new}
  BY DEF Put, Puts
<1>2. new.key = Key(request[r]) /\ new.value = value[r]
  OBVIOUS
<1> HIDE DEF new
<1>3. \A e \in values' : e.key = Key(request[r]) => e = new
  BY <1>1 DEF Entries
<1>4. \A e : e.key # Key(request[r]) => (e \in values' <=> e \in values)
  BY <1>1, <1>2 DEF Entries
<1>5. OneEntry'
  BY <1>3, <1>4 DEF OneEntry
<1> QED
  BY <1>1, <1>2, <1>3, <1>4, <1>5

\* Steps that are no put leave the entries.
LEMMA EntriesStay ==
  ASSUME NEW r \in Asking, Steps(r), ~Put(r)
  PROVE  values' = values
  BY DEF Steps, Begin, Skip, Hit, Miss, Load, ReadFirst, ReadSecond, ReadPart, Stamp, ghosts

LEMMA AloneStep ==
  ASSUME Types, ~overlapped => Alone, NEW r \in Asking, Steps(r), ~overlapped'
  PROVE  ~overlapped /\ Alone'
<1>1. /\ UNCHANGED request /\ Asking' = Asking
      /\ \A q \in Asking \ {r} : phase'[q] = phase[q]
  BY StepsApart DEF Apart, Asking
<1>2. DOMAIN phase = Asking
  BY DEF Types
<1>3. CASE Miss(r)
  <2>1. ~overlapped /\ \A q \in Filling : Key(request[q]) # Key(request[r])
    BY <1>3 DEF Miss
  <2>2. \A q \in Asking \ {r} : q \in Filling' <=> q \in Filling
    BY <1>1 DEF Filling
  <2>3. Filling' \subseteq Asking
    BY <1>1 DEF Filling
  <2> QED
    BY <1>1, <2>1, <2>2, <2>3 DEF Alone
<1>4. CASE ~Miss(r)
  <2>1. ~overlapped
    BY <1>4 DEF Steps, Begin, Skip, Hit, Load, ReadFirst, ReadSecond, ReadPart, Stamp, Put, Puts, ghosts
  <2>2. phase'[r] \in {"loading", "reading", "loaded", "putting"} => r \in Filling
    BY <1>2, <1>4 DEF Filling, Steps, Begin, Skip, Hit, Load, ReadFirst, ReadSecond, ReadPart, Stamp, Put, Puts, Moves
  <2>3. Filling' \subseteq Filling
    BY <1>1, <2>2 DEF Filling
  <2> QED
    BY <1>1, <2>1, <2>3 DEF Alone
<1> QED
  BY <1>3, <1>4

\* What a lookup loads is the newest state of its source: no entry is newer.  Nobody
\* else puts one of its key before it does.
LEMMA CurrentStep ==
  ASSUME Types, Past, OneEntry, Alone, Current, NEW r \in Asking, Steps(r)
  PROVE  Current'
<1>1. /\ UNCHANGED <<request, version>> /\ Asking' = Asking
      /\ \A q \in Asking \ {r} : phase'[q] = phase[q] /\ value'[q] = value[q]
  BY StepsApart DEF Apart, Asking
<1>2. DOMAIN phase = Asking /\ DOMAIN value = Asking
  BY DEF Types
<1>3. CASE Put(r)
  <2>1. phase'[r] = "returned" /\ r \in Filling
    BY <1>2, <1>3 DEF Put, Puts, Moves, Filling
  <2>2. ASSUME NEW q \in Asking \ {r}, phase[q] \in Loading,
               NEW e \in values', e.key = Key(request[q])
        PROVE  e.value.of <= value[q].of
    <3>1. Key(request[q]) # Key(request[r])
      BY <2>1, <2>2 DEF Alone, Filling, Loading
    <3>2. e \in values
      BY <1>3, <2>2, <3>1, PutEntries
    <3> QED
      BY <2>2, <3>2 DEF Current, Entries
  <2> QED
    BY <1>1, <2>1, <2>2 DEF Current, Entries, Loading
<1>4. CASE ~Put(r)
  <2>1. values' = values
    BY <1>4, EntriesStay
  <2>2. ASSUME phase'[r] \in Loading, NEW e \in values  PROVE
          e.key = Key(request[r]) => e.value.of <= value'[r].of
    <3>1. CASE Load(r) \/ ReadFirst(r) \/ ReadSecond(r)
      <4>1. value'[r].of = version
        BY <1>2, <3>1 DEF Load, ReadFirst, ReadSecond, ReadPart, Found
      <4> QED
        BY <4>1 DEF Past
    <3>2. CASE Stamp(r)
      BY <1>2, <3>2 DEF Stamp, Moves, Current, Entries, Loading
    <3>3. CASE Begin(r) \/ Skip(r) \/ Hit(r) \/ Miss(r)
      BY <1>2, <2>2, <3>3 DEF Begin, Skip, Hit, Miss, Moves, Loading
    <3> QED
      BY <1>4, <3>1, <3>2, <3>3 DEF Steps
  <2> QED
    BY <1>1, <2>1, <2>2 DEF Current, Entries
<1> QED
  BY <1>3, <1>4

\* An answer is recorded: the entry of its key is no older.
LEMMA RecordedStep ==
  ASSUME Types, OneEntry, Current, Recorded, NEW r \in Asking, Steps(r)
  PROVE  Recorded'
<1>1. /\ UNCHANGED <<request, version>> /\ Asking' = Asking
      /\ \A q \in Asking \ {r} : phase'[q] = phase[q] /\ value'[q] = value[q]
  BY StepsApart DEF Apart, Asking
<1>2. /\ DOMAIN phase = Asking /\ DOMAIN value = Asking
      /\ \A q \in Asking : value[q].of \in Nat /\ \A e \in values : e.value.of \in Nat
  BY DEF Types
<1>3. CASE Put(r)
  <2>1. PICK new \in values' :
              /\ new.key = Key(request[r]) /\ new.value = value[r]
              /\ \A e \in values' : e.key = Key(request[r]) => e = new
              /\ \A e : e.key # Key(request[r]) => (e \in values' <=> e \in values)
    BY <1>3, PutEntries
  <2>2. phase[r] = "putting" /\ phase'[r] = "returned" /\ value'[r] = value[r]
    BY <1>2, <1>3 DEF Put, Puts, Moves
  <2>3. \E e \in values' : e.key = Key(request[r]) /\ value'[r].of <= e.value.of
    BY <1>2, <2>1, <2>2
  <2>4. ASSUME NEW q \in Asking \ {r}, phase[q] = "returned", ~Sourceless(request[q])
        PROVE  \E e \in values' : e.key = Key(request[q]) /\ value[q].of <= e.value.of
    <3>1. PICK e \in values : e.key = Key(request[q]) /\ value[q].of <= e.value.of
      BY <2>4 DEF Recorded, Entries
    <3>2. CASE e.key = Key(request[r])
      <4>1. e.value.of <= value[r].of
        BY <2>2, <3>2 DEF Current, Entries, Loading
      <4> QED
        BY <1>2, <2>1, <3>1, <3>2, <4>1
    <3>3. CASE e.key # Key(request[r])
      BY <2>1, <3>1, <3>3
    <3> QED
      BY <3>2, <3>3
  <2> QED
    BY <1>1, <2>3, <2>4 DEF Recorded, Entries
<1>4. CASE ~Put(r)
  <2>1. values' = values
    BY <1>4, EntriesStay
  <2>2. ASSUME phase'[r] = "returned", ~Sourceless(request[r])
        PROVE  \E e \in values : e.key = Key(request[r]) /\ value'[r].of <= e.value.of
    <3>1. Hit(r)
      BY <1>2, <1>4, <2>2 DEF Steps, Begin, Skip, Miss, Load, ReadFirst, ReadSecond, ReadPart, Stamp, Moves
    <3>2. PICK e \in Entries(r) : value' = [value EXCEPT ![r] = e.value]
      BY <3>1 DEF Hit
    <3> QED
      BY <1>2, <3>2 DEF Entries
  <2> QED
    BY <1>1, <2>1, <2>2 DEF Recorded, Entries
<1> QED
  BY <1>3, <1>4

\* What a lookup returns is no older than the answers before it.
LEMMA ForwardStep ==
  ASSUME Types, OneEntry, Begun, ~overlapped => Alone /\ Current /\ Recorded, NeverBackwards,
         NEW r \in Asking, Steps(r), ~overlapped', ~overlapped
  PROVE  NeverBackwards'
<1>1. /\ UNCHANGED <<request, version>> /\ Asking' = Asking
      /\ \A q \in Asking \ {r} : phase'[q] = phase[q] /\ value'[q] = value[q] /\ before'[q] = before[q]
  BY StepsApart DEF Apart, Asking
<1>2. /\ DOMAIN phase = Asking /\ DOMAIN value = Asking /\ DOMAIN before = Asking
      /\ \A q \in Asking : value[q].of \in Nat /\ before[q] \subseteq Asking
      /\ \A e \in values : e.value.of \in Nat
  BY DEF Types
<1>3. phase[r] # "returned"
  BY <1>2 DEF Steps, Begin, Skip, Hit, Miss, Load, ReadFirst, ReadSecond, ReadPart, Stamp, Put, Puts, Moves
<1>4. \A q \in Asking : \A p \in before[q] : p \in Asking \ {r}
  BY <1>2, <1>3 DEF Begun
<1>5. ASSUME phase'[r] = "returned", NEW q \in before'[r], Key(request[q]) = Key(request[r])
      PROVE  value'[q].of <= value'[r].of
  <2>1. before'[r] = before[r]
    BY <1>2, <1>5 DEF Steps, Begin, Skip, Hit, Miss, Load, ReadFirst, ReadSecond, ReadPart, Stamp, Put, Puts, Moves, ghosts
  <2>2. q \in Asking /\ q # r /\ phase[q] = "returned" /\ ~Sourceless(request[r]) /\ phase[r] # "idle"
    BY <1>2, <1>3, <1>5, <2>1 DEF Begun
  <2>3. ~Sourceless(request[q])
    BY <1>5, <2>2, KeySourceless
  <2>4. PICK e \in values : e.key = Key(request[q]) /\ value[q].of <= e.value.of
    BY <2>2, <2>3 DEF Recorded, Entries
  <2>5. e.value.of <= value'[r].of
    <3>1. CASE Put(r)
      BY <1>2, <1>5, <2>4, <3>1 DEF Put, Puts, Moves, Current, Entries, Loading
    <3>2. CASE Hit(r)
      <4>1. PICK f \in Entries(r) : value' = [value EXCEPT ![r] = f.value]
        BY <3>2 DEF Hit
      <4>2. f = e
        BY <1>5, <2>4 DEF OneEntry, Entries
      <4> QED
        BY <1>2, <4>1, <4>2
    <3> QED
      BY <1>2, <1>5, <2>2, <3>1, <3>2 DEF Steps, Begin, Skip, Miss, Load, ReadFirst, ReadSecond, ReadPart, Stamp, Moves
  <2>6. value'[q] = value[q]
    BY <1>1, <2>2
  <2>7. value'[r].of \in Nat
    BY <1>2, <1>5, <2>2 DEF Steps, Begin, Skip, Hit, Miss, Load, ReadFirst, ReadSecond, ReadPart, Stamp, Put, Puts, Moves, Entries
  <2> QED
    BY <1>2, <2>2, <2>4, <2>5, <2>6, <2>7
<1>6. ASSUME NEW p \in Asking \ {r}, phase'[p] = "returned", NEW q \in before'[p],
             Key(request[q]) = Key(request[p])
      PROVE  value'[q].of <= value'[p].of
  BY <1>1, <1>4, <1>6 DEF NeverBackwards
<1> QED
  BY <1>1, <1>5, <1>6 DEF NeverBackwards

LEMMA OrderedStep ==
  ASSUME Types, Ordered, NEW r \in Asking, Steps(r)
  PROVE  Ordered'
<1>1. /\ OneEntry /\ Past /\ Begun /\ NeverBackwards
      /\ ~overlapped => Alone /\ Current /\ Recorded
  BY OrderedIs
<1>2. OneEntry'
  BY <1>1, PutEntries, EntriesStay DEF OneEntry
<1>3. Past' /\ Begun'
  BY <1>1, PastStep, BegunStep
<1>4. ASSUME ~overlapped'  PROVE Alone' /\ Current' /\ Recorded' /\ NeverBackwards'
  <2>1. ~overlapped /\ Alone'
    BY <1>1, <1>4, AloneStep
  <2>2. Current' /\ Recorded'
    BY <1>1, <2>1, CurrentStep, RecordedStep
  <2>3. NeverBackwards'
    BY <1>1, <1>4, <2>1, ForwardStep
  <2> QED
    BY <2>1, <2>2, <2>3
<1>5. overlapped' => NeverBackwards'
  BY DEF NeverBackwards
<1>6. (OneEntry /\ Past /\ Begun /\ (~overlapped => Alone /\ Current /\ Recorded) /\ NeverBackwards)'
  BY <1>2, <1>3, <1>4, <1>5
<1> QED
  BY <1>6 DEF Ordered, OneEntry, Past, Begun, Alone, Current, Recorded

LEMMA OrderedNext == Types /\ Ordered /\ [Next]_vars => Ordered'
<1> SUFFICES ASSUME Types, Ordered, [Next]_vars PROVE Ordered'
  OBVIOUS
<1>1. CASE Tick \/ Change \/ Works \/ UNCHANGED vars
  <2>1. /\ UNCHANGED <<request, values, phase, value, before, overlapped>>
        /\ version' \in {version, version + 1}
    BY <1>1, WorksAre DEF Tick, Change, Git, vars, sources, ghosts
  <2>2. OneEntry /\ Past /\ Begun /\ (~overlapped => Alone /\ Current /\ Recorded) /\ NeverBackwards
    BY OrderedIs
  <2>3. Past'
    <3>1. /\ version \in Nat /\ \A e \in values : e.value.of \in Nat
          /\ \A r \in Asking : value[r].of \in Nat
      BY DEF Types
    <3>2. Asking' = Asking
      BY <2>1 DEF Asking
    <3> QED
      BY <2>1, <2>2, <3>1, <3>2 DEF Past
  <2>4. OneEntry' /\ Begun' /\ NeverBackwards'
    BY <2>1, <2>2 DEF OneEntry, Begun, NeverBackwards, Asking
  <2>5. (~overlapped => Alone /\ Current /\ Recorded)'
    BY <2>1, <2>2 DEF Alone, Current, Recorded, Filling, Entries, Asking
  <2>6. (OneEntry /\ Past /\ Begun /\ (~overlapped => Alone /\ Current /\ Recorded) /\ NeverBackwards)'
    BY <2>3, <2>4, <2>5
  <2> QED
    BY <2>6 DEF Ordered, OneEntry, Past, Begun, Alone, Current, Recorded
<1>2. ASSUME NEW r \in Asking, Steps(r) PROVE Ordered'
  BY <1>2, OrderedStep
<1> QED
  BY <1>1, <1>2 DEF Next, Steps

-----------------------------------------------------------------------------

LEMMA CacheInit == Init => CacheInv
<1> SUFFICES ASSUME Init PROVE CacheInv
  OBVIOUS
<1>1. Types
  BY TypesInit
<1>2. values = {} /\ ~overlapped /\ \A r \in Asking : phase[r] = "idle" /\ before[r] = {} /\ value[r].of = 0
  BY DEF Init, NoValue
<1>3. Timely
  BY <1>2 DEF Timely, Loading
<1>4. Ordered
  BY <1>2 DEF Ordered, Filling, Loading, NeverBackwards, Init
<1>5. Sourced
  BY <1>2 DEF Sourced, Loading
<1>6. Listing
  <2>1. repo.doomed = {}
    BY DEF Init
  <2> QED
    BY <1>2, <2>1 DEF Listing, Reading, BranchesAreTrue
<1> QED
  BY <1>1, <1>3, <1>4, <1>5, <1>6 DEF CacheInv

\* In every run the cache, its lookups and the sources agree.
THEOREM CacheInvariance == Spec => []CacheInv
<1>1. Init => CacheInv
  BY CacheInit
<1>2. CacheInv /\ [Next]_vars => CacheInv'
  BY TypesNext, TimelyNext, OrderedNext, SourcedNext, ListingNext DEF CacheInv
<1> QED
  BY <1>1, <1>2, PTL DEF Spec

\* For every lifetime and any number of racing lookups: an answer is not older than
\* the lifetime of an entry and the slowest load together (TtlCache).
THEOREM FreshHolds == Spec => []Fresh
<1>1. CacheInv => Fresh
  BY DEF CacheInv, Timely, Fresh
<1> QED
  BY <1>1, CacheInvariance, PTL

\* For any number of lookups: as long as no two loads of one key overlap, an answer
\* is never older than one that was returned before its lookup began (TtlCache).
THEOREM NeverBackwardsHolds == Spec => []NeverBackwards
<1>1. CacheInv => NeverBackwards
  BY DEF CacheInv, Ordered
<1> QED
  BY <1>1, CacheInvariance, PTL

\* For every set of requests and repositories: an answer shows what its request
\* means, but for the tokens and histories that RightSource lists
\* (split_path_token, history_cache_key).
THEOREM RightSourceHolds == Spec => []RightSource
<1>1. CacheInv => RightSource
  BY SourceIsRight DEF CacheInv
<1> QED
  BY <1>1, CacheInvariance, PTL

\* For every set of branches, however git works meanwhile: a list of branches
\* misses none that was there all the time, and shows only what was there or was
\* the lock file of a branch (read_branches).
THEOREM BranchesAreTrueHolds == Spec => []BranchesAreTrue
<1>1. CacheInv => BranchesAreTrue
  BY DEF CacheInv, Listing
<1> QED
  BY <1>1, CacheInvariance, PTL
=============================================================================
