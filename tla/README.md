# portix-serv: verification project

portix-serv is the Rust backend of an SSH client with a Flutter front end. It
keeps interactive SSH sessions, runs remote commands beside them (system
snapshot, remote files, completion) and completes commands locally. This
directory holds TLA+ models of it, the TLC configurations that check them, and
proofs for every value of the constants.

To run a check: `tlc -workers 2 -config X.cfg M` (the table of runs names both);
to check the proofs: `tlapm M.tla` for `SequenceLemmas` and each `*Proofs` module, about
five minutes for `RemoteReadsProofs`, three for `SshSessionProofs` and less for the
others.

## Inventory

| Component | State | Operations | Talks to |
|---|---|---|---|
| `SessionManager` (`application/session_manager.rs`) | map of live sessions (command sender, cached platform), three broadcast senders | connect, disconnect, input, resize, and everything built on `exec` | one command channel (512) per session; oneshots; broadcast |
| `SshRuntime::run` (`infrastructure/ssh_client.rs`) | phase of the interactive shell, the command receiver, the exec sender | connect, authenticate, open shell, `select!` over commands and shell output | command channel, exec channel (64), broadcast, the server |
| `run_exec_worker`, `run_exec` (same file) | its own SSH connection (`Option`), the exec receiver | reconnect, run one command, answer its oneshot | exec channel, oneshots, the server |
| Remote platform detection (`session_manager.rs`) | `remote_platform` cache of a session | detect, cache, choose the command | `exec` |
| Remote files and upload (`session_manager.rs`) | files and `*.portix.b64` temporaries on the host | list, resolve, read, chunked upload, create, chmod | `exec` |
| Remote completion (`session_manager.rs`) | none | help suggestions, history suggestion, merge | `exec` under `COMPLETION_TIMEOUT` |
| Parsers (`session_manager.rs`) | none | snapshot, directory, resolve, payload, help text, wire items | - |
| Local completion (`application/autocomplete_service.rs`, `infrastructure/autocomplete/*`) | four `TtlCache`s | context, provider dispatch, ranking, inline suggestion | file system, history files, `.git` |
| `TtlCache` (`infrastructure/autocomplete/cache.rs`) | map key -> (expiry, value) | `get`, `put`; the caller loads in between | the providers, from several threads |
| API and event streams (`api.rs`) | static service and manager, broadcast receivers | forward JSON events, merge local and remote completions | everything above, Flutter |
| Profiles, connection (`domain/profile.rs`, `ssh_client.rs`) | none | validate, connect, choose and try a credential, each under a timeout | the server |
| Terminal size, errors | none | clamp | - |
| `frb_generated.rs` | - | generated bridge | - |

### What is hard here

- Calls, runtime and worker of a session are tasks that interleave at every
  await. A call reads the session map, drops the lock and only later uses the
  sender it cloned; the session may have ended in between.
- The answer to a command travels through a oneshot that may be dropped with
  either channel; a dropped oneshot and a missing session read alike.
- One worker runs the commands of a session one after another and reconnects
  on its own. The runtime waits for room in the worker's channel inside a
  `select!` arm, and while it waits it reads neither commands nor output.
- Completions give up after a second, but what they sent stays queued.
- Opening channels, writing input and running commands have no timeout.
- The end of a session is announced on other channels than its errors.
- Platform detection is check-then-act, and its result is never revised.
- An upload is many commands over one temporary file named after its target; the
  last one empties the target and fills it in place.
- The commands that list a directory discard their failures.
- Providers cut their lists before anything is ranked.
- A lost connection reads as the end of the output, so a part of an output
  reads as the whole.
- Broadcast receivers that lag lose events; caches load outside their lock, and
  git moves branches while they are read.
- PowerShell goes on after a statement that failed.
- The typed line is split twice, by two functions, for one list of items.

### What makes each component correct

- Manager, runtime, worker: no command is sent twice; what a caller is told of
  its command is true; no caller waits for an answer nobody will give; the log
  of a session is a legal life; a disconnect takes effect; the worker stops.
- Connection: a login fails for a reason that the profile or the server gives,
  and an attempt ends.
- Channel output: an output that is reported is whole, a verdict is true.
- Platform: commands of the right kind for the host; an answer that is wrong
  has a cause.
- Upload: an upload that reports success left its bytes in the file; a failed
  one can be repeated; damage is noticed; a target is old, new, or being written.
- Remote reads: a resolved directory is the only match, or what was asked for; a
  listing and a snapshot say only what is true; a file is whole or an error; what
  is suggested is on the host.
- Cache: what it returns is of the source that was meant, not older than its
  lifetime, and never goes back; no branch is missed.
- Completion: the ranked list has no duplicates and respects the limit, and what it
  leaves out has a reason; both sides complete the same word; a slow host costs
  nothing.
- Streams: a subscriber sees events in order, loses none without cause, and
  gets the last one.

`PROJECT.json` lists the hazards behind these, each at its line, with the
properties that would catch it.

## Modules

| Module | Models | Extends / composes |
|---|---|---|
| `SshSession` | manager, runtime, worker, calls, channels, oneshots, events | - |
| `SshSessionInvariant` | its inductive invariant | `SshSession` |
| `SessionContract` | what a caller of `exec` may rely on, abstractly | - |
| `SshSessionRefinement` | `SshSession` implements `SessionContract` | instantiates it under a mapping |
| `SequenceLemmas` | lemmas about sequences: channels, prefixes, induction, folds, sorting, counting | - |
| `SshSessionProofs` | theorems about `SshSession` and its refinement | `SshSessionRefinement`, `SequenceLemmas` |
| `RemoteHostProofs` | invariants of `RemotePlatform` and `RemoteUpload`, and theorems | both; `SequenceLemmas` |
| `ConnectionProofs`, `EventStreamProofs`, `ProviderCacheProofs`, `RemoteReadsProofs`, `CompletionProofs` | invariants of the module of that name, and theorems | that module; `SequenceLemmas` but for `ProviderCacheProofs` |
| `ChannelOutput` | message loops of `run_exec` and of the shell | the layer below `SshSession` |
| `Connection` | validation, connection, authentication, opening of the channel | `ChannelOutput`: the channel is read once it is open |
| `RemotePlatform` | detection, its cache, the choice of the command | over the contract of `exec` |
| `RemoteUpload` | upload and creation of files | over the contract of `exec` |
| `Sorting` | sorting and truncation of lists | - |
| `NameOrder` | names, and the order the parsers sort them in | `Sorting` |
| `ResolveDirectory` | the choice of a directory by its name | `NameOrder` |
| `HelpText` | what is taken from a help text and from names of commands | `NameOrder` |
| `RemoteReads` | resolution, listing, reading, snapshot, help and names, and their parsers, over outputs that may be cut | `ResolveDirectory`, `HelpText`; over the contract of `exec` |
| `CompletionContext` | how both sides read the typed line | - |
| `Completion` | remote steps, ranking, limits, merge | `CompletionContext`, `Sorting` |
| `ProviderRequests` | the source and the key of a request, for each provider | - |
| `ProviderCache` | `TtlCache`, the load between `get` and `put`, and git at work on the branches | `ProviderRequests` |
| `EventStream` | broadcast channel and forwarding to a sink | - |

Each `MC*` module instantiates one of them for TLC. Definitions whose comment
begins "Seeded fault" are variants with a plausible bug; no specification uses
them. `PROJECT.json` pairs each checked property with one that must break it.

### SshSession

An action is what a task does between two awaits.

- A call (`Lookup`, `Send`, `SendFails`, `Collect`, `Timeout`) is a future:
  `Lookup` is `SessionManager::session` (lock, clone, unlock), `Send` the
  `send().await` on the command channel, `Collect` the await on the oneshot.
  `Timeout` is `COMPLETION_TIMEOUT`; it is enabled only where `exec` itself
  cannot move, because `timeout` polls the inner future first.
- `runtime[s]` is the place of the spawned task: `connecting` and `opening`
  before the loop; `selecting` in the `select!`; `writing`, `forwarding` and
  `closing` while an arm awaits, with the command in `inHand`; `ended` once `run`
  has returned and its receivers are dropped; `removed` after the map entry is
  gone; `done` after the final status.
- `EndRun` drops both channels and with them the oneshots still in the command
  channel: they read as "session not found".
- The worker takes a request, reconnects once or twice, sends the command
  (`ExecSend` or `ExecRefused`) and answers (`ExecEnd`); without a connection it
  answers "unreachable" (`GiveUp`). It goes on with what is in the exec channel
  after the runtime has ended, and stops when its channel is empty and closed.
- `sent` is a ghost that counts how often a command went to the host.

### Connection, ChannelOutput

`Connection` has an action for each outcome of each await of
`connect_and_authenticate_profile`, after `validate` (which `connect` calls) and
before the channel is opened. A profile is what those two functions look at: is a
field missing, is the key path or the password missing or blank. The file of the
key is good or not, and the server accepts any set of credentials, in any case
at its leisure. From then on the actions are those of `ChannelOutput`.

The server sends pieces of output, end of file, exit status (or signal, or
refusal) and close, in the orders the protocol allows, and the connection may be
lost at any point. The two readers of the code differ: `run_exec` stops at the end of
file, keeps the status if it came before, and reads a missing one as success; the
shell stops at the status. Output is decoded piece by piece in the code; a piece
is a number here.

### RemotePlatform, RemoteUpload, RemoteReads

These see `exec` through its contract: a command ran and its output arrived; or
a part of the output arrived and reads as Ok; or an error.
`RemotePlatform` has an action for each await of `detect_remote_platform`
(`CheckCache`, `Hears`, `Store`) and `Issue` for the command of the operation.
`FormOf` is what an operation sends, with the check of the mode that `chmod`
makes only for a host that is not Windows. (mkdir and chmod are one command
otherwise.)
`RemoteUpload` has an action per remote command, whose effect on the target and
temporary file is that of the shell text in the source; `failures` counts the
commands that failed, noticed or not, `shared` the calls that overlapped on a
path. The last command is several steps: it empties the target (`FinishStarts`,
from where the upload is in `writing`), fills it (`FinishWrites`), and removes the
temporary file and compares the length (`FinishEnds`). It may stop on the way
(`FinishStops`) or before it touches the target (`FinishFails`). The Windows form has
the same steps, but where the shell exits, PowerShell goes on with the next
statement and compares the length of whatever is there. While a command is at work
the worker runs no other one of the session, hence `writing = {}` in the guards.
`RemoteReads` has an action for what each of six commands prints, one for
where the output ends (`Receive`), and one for each parser. The Unix and the
Windows form of a command print the same lines and share an action; help and
names have no Windows form. `access` says what the directory tells the login of
the session: its entries; their names only, where it may be read and not searched;
or nothing. The commands discard the failures of `find` and `ls`, so that the last
prints nothing and ends well.

### Sorting, NameOrder, HelpText

`Sorting` has no recursion: the place of an element in a sorted list is one more
than the number of those that come before it, where equal ones keep their order, as
`sort_by` does. A name is a sequence of letters, because prefixes, upper case and cut names
matter; there are a few letters, the dash, and one sign for all characters that
an option or a command must not have. A help text is a sequence of lines with
the words that the parsers look at: those that begin with a dash in an option
line, wherever they stand, and the first word of any other. The description is a
number, since repeats and their order depend on it. What is put in a wire
string and taken out of it again is left out: `terminal_complete` uses the token
only.

### CompletionContext, Completion

`CompletionContext` translates `context()`, the `should_complete_*` functions and
`HelpSuggestionRequest::parse` over words of which only the class counts (flag,
path, variable, shell control, known command). `Completion` follows one request
through `api::terminal_complete`: help, history suggestion, local completion,
merge. Numbers stand for texts; ranking uses the scores and ranks of the code. A
provider has its texts in an order of its own (`Candidates`: a table, the bytes of
the names; only paths are sorted as they are ranked), and it is cut to the limit in
that order (`ProviderItems`); `ranked_dedup` sorts what is left.

### ProviderCache, EventStream

`ProviderCache` splits a lookup where it takes the time, takes the lock, reads
the source, takes the time again and puts. What is looked up, from which source and
under which key is in `ProviderRequests`: `Listed` is `split_path_token`, `Named`
the directory that the same token names in a shell. A value records the source
it came from, its state, and when it was read. Branches are read in two
steps, loose and packed, and git's steps (`Lock`, `Write`, `Pack`, `Prune`,
`Delete`) come in between; they are external, in the order in which git takes them.
`always` and `ever` record which branches were there all the time or at some time
while they were read. `EventStream` keeps the log of all
events; a receiver is a position in it, and one that falls behind `Capacity`
gets `Lagged` and moves to the oldest event left.

## Runs

| Run | Configuration | States | Asks |
|---|---|---|---|
| ssh_session | `MCSshSession.cfg` | 950k | one session, one input, two execs, a completion, a disconnect; both channels of capacity 1 |
| contract | `MCSshSessionContract.cfg` | 394k | two sessions with an exec and a completion, against `SessionContract`, in which an answer is never revised |
| liveness | `MCSshSessionLive.cfg` | 40k | what returns and ends, with a server that answers and with one that need not: a disconnect and any two of an input, an exec and a completion, a command channel of capacity 2 |
| channel_output | `MCConnection.cfg` | 32k | every profile, key file and server; then every order of messages and every loss, three pieces of output |
| platform | `MCRemotePlatform.cfg` | 85k | four operations that race for the cache, two of them chmod, one with a bad mode |
| platform_cache | `MCRemotePlatformCached.cfg` | - | finding, see below |
| upload | `MCRemoteUpload.cfg` | 3.5M | two uploads of up to two chunks and a create, two paths, both forms |
| remote_reads | `MCRemoteReads.cfg` | 658k | names of up to two letters, one in both cases, up to three entries, readable, searchable or not; files of up to three lines; snapshots with and without memory and disk; help texts of up to three lines and up to three commands; every cut |
| completion | `MCCompletion.cfg` | 849k | lines of up to three words of every class; lists of up to three texts in every order, limits 0, 1, 2, 9 and none |
| completion_error | `MCCompletionErr.cfg` | - | finding, see below |
| provider_cache | `MCProviderCache.cfg` | 4.4M | three lookups of one source that changes, any two requests of one provider, or one of branches that git works on; time to expire |
| events | `MCEventStream.cfg` | 168k | a stream behind a channel of two, eight events of two sessions |

Why the bounds are enough to be interesting:

- Capacity 1 makes both channels full with two requests, so that the waits for
  room, and the runtime stuck in `forwarding` with commands behind it, happen;
  512 and 64 differ only in how many requests that takes. The proofs hold for
  all capacities.
- One session suffices for what tasks of one session do to each other, two for
  what sessions could do to each other: they share only the map. Resizes are
  writes like inputs and differ from them in no action, so the runs have none.
- In `liveness` a disconnect waits behind an input and a command, or behind two
  commands. `FewCalls` keeps to the behaviours in which at most two calls are made
  beside the disconnect. This is a state constraint in a check of liveness, which
  TLC warns about, because it may cut a behaviour that fairness requires to go on.
  Here it cannot: the constraint is on calls that have begun, no fairness obliges a
  caller to begin one (`Lookup` has none), and so the behaviours that are left are
  fair behaviours of the specification, those of a user who makes two other calls.
  What they show is not shown of three.
- Two chunks give a first, a last and a mixed order; a second upload is both a
  rival and, started after the first failed, its retry.
- Three lookups let two race and a third one see the outcome; the clock reaches
  twice the lifetime of an entry. Keys matter between two requests, so any two
  of seventeen are tried: the same name in two directories, below the root and the
  home; in and out of a repository; with and without a PATH; histories of equal
  and of other length, from a file, from the home. One branch is enough for git, since what
  is promised is promised of each branch, and branches are read one by one.
- Help texts have option lines with a short and a long option, with several, with
  a sign, subcommands in both cases, prose and headings; two suggestions fit, so that
  three lines overflow.
- Capacity 2 against eight events lets a stream lag several times.
- In `completion`, lists are tried with the lines of `SampledLines`, one for
  each kind of provider; the other lines with empty lists.

Every configuration says `CHECK_DEADLOCK FALSE`: all instances have finitely
many calls and may stop when these have returned.

### Fairness

`LocalFairness` in `SshSession` is what the process owes by itself. tokio polls
woken tasks, hence weak fairness of their steps; `select!` picks its ready arms
at random and waiting senders are served in order, hence strong fairness of
receiving a command and of `Send`; `CONNECT_TIMEOUT`, `AUTH_TIMEOUT` and
`COMPLETION_TIMEOUT` expire, hence weak fairness of connecting and of `Timeout`.
`Lookup`, `Connect` and what the server does on its own (`ShellOutput`,
`ShellEnds`) have none. `RemoteFairness` says that the server answers the opening of
a channel, reads input and ends commands. No timeout in the code enforces it, so
it is a premise of the three properties that need it, and `CompletionReturns`
holds without it. Without the premise the other three fail: a hung command
holds the worker, then the exec channel, then the runtime.

`EventStream` and `ChannelOutput` assume only that the receiving task is
scheduled; `Connection` that besides, and that its two timeouts expire. The
server is never obliged to answer.

### Findings

- platform_cache: the comment on `is_remote_windows` says that it detects a
  Windows host and caches the result. Every error of the detection is cached as
  `Unix`, so one failed command makes a Windows host `Unix` for the life of
  the session. `WrongFormHasCause` states what does hold.
- completion_error: the comment in `terminal_complete` says that local
  completions are always merged. An error of the help command other than a
  timeout returns before the local completion is asked.

What properties had to leave open, and why it matters: an exec without an exit
status reads as success (`VerdictIsTrue`, `OkWasSent` and `OkIsWhole` say in
which cases); what a lost connection cut short is returned as Ok, so that a name resolves
to a piece of a line (`ResolvesUniquely`), a listing lacks entries and may end in half
a path, one of a directory that cannot be read is Ok and empty, and one of a directory
that cannot be searched shows directories as files (`ListingIsTrue`), and a number of a snapshot may have lost digits
(`SnapshotIsTrue`); only a file is whole or an error (`ReadIsWhole`), and that only
if the encoder on the host works, whose failure the command does not report; the last option of a help text that is
cut may be a piece of one (`SuggestionsAreTrue`); on Windows an upload that wrote
nothing passes when the old file has the same length (`OkIsWhole`); in either form the
target holds a part of the new file while the last command is at work, and keeps it when
that command is killed (`NoSilentDamage`, `OkIsWhole`); a provider is cut to the limit before anything
is ranked, so that what would rank first may be missing, and a history that repeats itself
leaves places empty for which there are other lines (`LocalIsComplete`); a blank key
path beside a good password passes the validation and fails the login
(`LoginHasCause`); the directory of `/etc` is taken for the working directory and
that of `~/a/b` for one below it, and histories of equal length that requests bring
along are taken for each other (`RightSource`); lock files of git are listed as branches
(`BranchesAreTrue`); overlapping loads can put an older value
in a cache (`NeverBackwards`); the second word of a line is no subcommand when
it is typed again as the last one (`FinishedWordsOnly`).

## Proofs

Each theorem below has the form `Spec => []Invariant`, but for the refinement,
and holds for all values of the constants that satisfy the named assumptions;
the bounds of the runs (`Max*`) are constants like any other. `SshSessionProofs`
holds what is proved of the tasks of a session, `RemoteHostProofs` what is proved
of `RemotePlatform` (whose specification is `PlatformSpec`) and of `RemoteUpload`, the
other `*Proofs` modules what is proved of the component of their name, and
`SequenceLemmas` the facts about sequences that several need: positions, prefixes and
appending; sequences without repetition, and what joining and splitting them does;
how many elements a sequence without repetition has (`ToSetSize`); folds, and the sorting of `Sorting`.

| Module | Theorem | Says |
|---|---|---|
| `SshSessionProofs` | `TypeCorrect` | types; neither channel exceeds its capacity |
| | `Invariance`, `LifeInvariance` | the two inductive invariants, `IInv` and `LifeInv` |
| | `AtMostOnceHolds` | no command is sent to the host twice |
| | `NotFoundNeverSentHolds` | "not found" and "unreachable" are said only of commands never sent |
| | `OkWasSentHolds` | Ok is said only of commands that were sent |
| | `LifecycleOrderHolds` | the log of a session is a legal life |
| | `SenderAliveHolds` | a task that receives commands has a sender in the map |
| | `AfterFinalStatusHolds` | after the final status nothing of the session is left |
| | `NoLostRequestHolds` | a request that waits is where an answer can come from |
| | `KeepsContractHolds` | `SshSession` implements `SessionContract` |
| `ConnectionProofs` | `WholeOutputHolds` | a reported output is whole and in order |
| | `VerdictIsTrueHolds` | a verdict on a command has its cause |
| | `LoginHasCauseHolds` | a failed login has its cause; a good one used a good credential |
| `RemoteHostProofs` | `UnixIsSafeHolds` | a Unix host is treated as one |
| | `WrongFormHasCauseHolds` | a command in the wrong form has a failed or cut detection behind it |
| | `OkIsWholeHolds` | success means the bytes are in the target, with one failure unnoticed or none |
| | `ErrHasCauseHolds` | an error has a failure or an overlap behind it |
| | `NoSilentDamageHolds` | without either a target is old, whole, or at the beginning of what the command at work writes |
| | `NoLeftoverHolds` | successful calls leave no temporary file |
| `EventStreamProofs` | `LossHasCauseHolds` | a stream is in order, and loses nothing without a cause |
| `ProviderCacheProofs` | `FreshHolds` | no answer is too old |
| | `NeverBackwardsHolds` | answers do not go back unless loads overlapped |
| | `RightSourceHolds` | an answer is of the source that was meant |
| | `BranchesAreTrueHolds` | no branch is missed or made up |
| `RemoteReadsProofs` | `ReadIsWholeHolds` | a file is whole or an error |
| | `SnapshotIsTrueHolds` | a snapshot says what the host printed |
| | `ListingIsTrueHolds` | a listing is that of the directory, up to where it was cut, unless the directory cannot be read or searched |
| | `ResolvesUniquelyHolds` | a name is resolved to the one directory that it can mean, or to itself |
| | `SuggestionsAreTrueHolds` | what is suggested is on the host and in order, and nothing is left out while there is room |
| | `ReadsInvariance` | the inductive invariant, `ReadsInv` |
| `CompletionProofs` | `CompletionKept` | the inductive invariant, `IInv` |
| | `LocalIsCompleteHolds` | a local answer is sorted, and what it leaves out comes later in its provider or is older |
| | `MergedIsWholeHolds` | a merged answer has the items in the order offered, each text once, up to its capacity |
| | `SlowHostHarmlessHolds` | a slow host costs no local item |
| | `SameTokenHolds` | both sides complete the same token |
| | `FinishedWordsOnlyHolds` | only finished words run on the host |

The assumptions: the kinds of calls are disjoint (`CallsAssumption` of `SshSession`
and of `RemoteUpload`, `OpsAssumption`: an operation is of one kind); channels
and the broadcast channel hold something (`CapAssumption`, `CapacityAssumption`:
512, 64 and the constant of the code); an entry of a cache has a lifetime
(`TtlAssumption`); directories are sequences of names and there are four providers
(`RequestsAssumption`); counts are natural numbers (`ChunksAssumption`,
`DataAssumption`); no content of a file stands for "no such file"
(`AbsentAssumption`); the empty token is no word, and variables, shell control and known
commands are classes of words as in the code (`WordsAssumption`); texts are numbers and the
limits of an answer hold something (`ItemsAssumption`); letters are numbers,
the dash comes before them (`LettersAssumption`, `HelpAssumption`: it is less than
any character that a name may begin with otherwise), what is listed is among the names
(`ListedAssumption`), and the lines of help and the commands of the host are what
`HelpText` calls lines and tokens (`ToldAssumption`).

Nothing here is inductive as the properties state it. The invariants, and why
they say more:

- `IInv` (`SshSessionInvariant`). That a command is sent at most once depends
  on its not being in two hands, and on its not having been sent when it is
  received. `IInv` therefore says where a request can be. A request that was sent
  into the system is in exactly one of four places (command channel, the
  runtime's hand, exec channel, the worker's hand: `OnePlace`) until its oneshot is
  used; in a place it is unanswered, and unsent unless the worker is running it
  (`Pending`); hands are full when their task is busy, with the right kind of
  call (`Hands`); a channel holds something only while somebody is there to empty
  it (`Open`); and phase, oneshot, result and `sent` agree (`History`).
  `TypeHands` is proved first, because the types of the places depend on the hands.
  The step lemma has one lemma per kind of move between places (`SendStep`,
  `ReceiveStep`, `ForwardStep`, `TakeStep`, `ExecSendStep`, `AnswerStep`,
  `WriteDoneStep`, `EndRunStep`), one for calls that return (`CallMoves`), and one for
  steps that move nothing (`QuietStep`).
- `LifeInv` ties what others see of a session to the phase of its task: the map
  has it while its task can receive or has just ended (`Registered`); its log is
  that of the phase (`Logged`); a request is in hand only to be passed on, so
  that a task never returns with one (`Carried`); and a request that waits without
  an answer is in a place, a dropped oneshot has a task that returned behind it
  (`Followed`). `NoLostRequest` combines both: `Followed` gives the place, `Open`
  and `Hands` somebody who serves it.
- The refinement. `ContractNext` shows under both invariants, action by action,
  that each step of a task is for the contract a session that ages (`AgesStep`), a
  command that goes to the host, a caller that is told (`TellStep`), or nothing
  (`Stutters`). The invariants are needed where the contract has a guard the
  code does not test: "not found" is told of unsent commands, a command goes out
  to a caller that was told nothing yet, an error comes from a session that was up.
- `ChannelInv`: the server ends output with the end of file, sends its report once
  and closes last (`Orderly`); the reader has the output of what it took, and
  the status among it (`Collects`, `Remembers`), and ends for a reason (`Stops`).
  Output is complete because no piece follows the message at which a reader
  stops. `LoginInv` says at which stages a credential has been tried, and which.
- `PlatformInv`: as long as the host is Unix or no detection went wrong, cache and
  operations know the true platform or none. That a cut answer of a Unix
  host still reads as Unix is a lemma about `Echo`.
- `StreamInv`: a receiver is between its subscription and the end of the log
  (`Placed`), what it delivered is in order, and each event it has passed is
  accounted for.
- `CacheInv`: `Timely` bounds the expiry of an entry by the time it was read;
  `Ordered` says that without overlap an entry is as new as every answer, and a
  load as new as the entry; `Sourced` that an entry shows the source of some
  request with its key, so that a wrong source is two sources with one key;
  `Listing` that, between the two reads, a branch that was there all along
  was read or is packed, which is why git's order (pack, then prune) matters.
- `UploadInv`: at most one last command is at work, and its target is a beginning of
  what it decodes (`AtWork`); two calls at work on a path are known to overlap (`Disjoint`), and
  an undisturbed one knows its temporary file (`Filled`). After no failure
  it holds the chunks so far; after one that went unnoticed it lacks a chunk, or
  has all of them, perhaps behind what was left from before. Its length then
  differs from the expected one or the content is right, so that the test of
  the last command decides. Two failures could cancel out; hence `failures[u] < 2`.
- `ReadsInv`: what is printed of a file is two marks with the lines between them,
  all of them if the encoder worked; what is printed of a system has no field
  twice; of a directory, an entry for each name and none twice; of a name that
  does not exist, the directories beside it; and a help text or the names of commands are
  lines that `HelpText` reads (`Output`). What arrived is a beginning of it
  (`Arrives`). Both marks in a beginning mean that it is all. The rest is about
  the parsers: that the order of names is strict and total but for upper case
  (`LexOrder`), so that a sorted list is one (`SortsEntries`, `SortsSuggestions`); that
  `fuzzy_subsequence_match`, which takes each letter where it first finds it, finds every
  subsequence (`FuzzyIs`); that a list sorted, rid of equal neighbours and cut to a length
  has the first of what was offered (`ShownIs`); and that what is taken from a cut line
  is the beginning of an option at most, since a word counts only with the text
  behind it (`HeardHelp`).
- `IInv` of `Completion`: only a request with a session asks the host, only what may be
  asked, and only an error ends it early (`ProgressInv`); an answer is what the lists
  make of it (`AnswerInv`). The properties of an answer are then those of
  `RankedDedup`, `HistoryItems` and `Merge` for any lists, each by its fold
  (`RankedIs` and its neighbours). That a provider is complete up to the limit is a
  matter of counting: the history gets only the places that are left, so that what the
  provider yielded is never cut again, and an item of the history is left out only
  where all places are taken by different lines. The two readings of a line are compared by cases on its
  words.

Induction over data. The induction theorems of the library cannot be used, as they take an
operator. `Least` replaces them: a set of natural numbers that is not empty has a least
element. It follows from the library's `WFMin`, which takes no operator, and the fact
that the finite sets are well-founded under inclusion. From it `UpTo` gives
induction over the positions of a sequence, for a set of positions instead of a predicate,
and `FoldTrace` says of `FoldLeft` that there is a sequence of its intermediate
results, each the step of the one before. A fold is then described by an
invariant of this trace. `InPlaceIs` and `SortIs` do the same for sorting: counting
what comes before is a bijection between a finite set under a strict total order and
its positions.

The proofs found one error in the model that the runs had not: a snapshot with
memory amounts never had disk amounts, since `\o` took the second alternative into the
`ELSE` of the first. `FieldsOf` is the repaired definition. (No property failed
because of it: fewer snapshots were tried.)

Model-checked only, and why:

- Liveness: `DisconnectTakesEffect`, `EveryCallReturns`, `WorkerStops`,
  `CompletionReturns`, `ReaderEnds`, `ConnectEnds`, `LastArrives`. The prover
  does not handle ENABLED, and with it fairness.
- The two findings, which are violations.

Every other property that a run checks, all its invariants and the refinement of
`SessionContract`, is stated by a theorem.

## Not modelled

- What bytes, texts and outputs are, and their parsing, beyond the above.
  `RemoteReads` takes a path for its name in one
  directory. On Windows a requested path with backslashes and no slash is its own
  name for `resolve_directory_from_output`, and matches nothing.
- Names with a tab or a line break, which split the lines of a listing.
- Sizes, times and modes of entries.
- Tokens of the form `~user/`: `split_path_token` looks them up below the working
  directory, as it does `~/a/`, which `RightSource` covers.
- Labels that differ in upper case only, which a path provider sorts as equal.
- Calls of two sessions that write to one path at once, and a command that goes on
  writing on the host after its connection was lost.
- An event that cannot be encoded as JSON, which `forward_json_stream` skips: its
  structures have only fields that can.
- Detection assumes PowerShell 7 where it says PowerShell, since `&&` is an error
  in older ones, which reads as a failed detection.
- The limits that a remote shell sets on the length of a command, which the
  chunks of an upload may meet on Windows.
- The texts that only `api::command_help_suggestions` returns: the typed line with the
  suggestion put in.
- How a key path is expanded, and the clamping of the terminal size: functions of
  a few lines without state, the latter with unit tests at both ends.
- The list of known options and of git's subcommands: data.
- Growth of the caches, which can be read off the code.
- Panics and aborts of tasks.
- Whether writing input can block while output is not read: the flow control
  of russh decides it.
- `frb_generated.rs`, the workflows.

Assumed of the libraries (tokio 1.52, russh 0.61): channels are linearizable
and first-in first-out, a dropped receiver drops what it holds, a dropped
oneshot sender wakes its receiver, the broadcast channel keeps the last
`Capacity` events. Its senders are in a static and never dropped.

## Plan

Written in the order of importance, and done.

1. `SshSession` with its contract, liveness and the theorems above.
2. `ChannelOutput`, the layer below it.
3. `RemotePlatform` and `RemoteUpload`, over the contract.
4. `EventStream` and `ProviderCache`.
5. `CompletionContext`, `Completion`, `ResolveDirectory` and `RemoteReads`.
6. `HelpText` in `RemoteReads`; `Connection`; `ProviderRequests` and the reading of
   branches in `ProviderCache`; the Windows form in `RemoteUpload`; the modes of
   chmod in `RemotePlatform`.
7. Proofs about `SshSession`: its invariants and the refinement of `SessionContract`.
8. Proofs about `Connection`, `RemotePlatform`, `RemoteUpload`, `EventStream`,
   `ProviderCache`, and about reading and snapshot in `RemoteReads`.
9. Proofs about `Completion`, and about listing, resolution and suggestions in
   `RemoteReads`, with the lemmas about folds and sorting that they need.
