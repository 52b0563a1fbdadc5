----------------------------- MODULE Completion -----------------------------
(***************************************************************************)
(* One terminal completion.  For a request that names a session the API    *)
(* asks the host for help items, then for a history suggestion, each under *)
(* COMPLETION_TIMEOUT, then completes locally and merges; other requests   *)
(* are completed locally only.                                             *)
(*                                                                         *)
(* A text is a number, in the order of the labels.  The local items come   *)
(* from one provider, chosen by the typed line, and from the history, of   *)
(* which only the lines that match the typed one count here.               *)
(***************************************************************************)
EXTENDS CompletionContext, Sorting

CONSTANTS
  Lines,          \* typed lines that are tried
  Sampled,        \* bound: those of them that are tried with all lists
  Texts,          \* texts of items, a set of numbers
  Directories,    \* those that are directories where the texts are paths
  MaxHistory,     \* bound: matching lines of the history file
  MaxRemote,      \* bound: items that the host yields
  Requests,       \* values of max_items that are tried
  Unset,          \* stands for no max_items
  DefaultItems,   \* max_items of a request that gives none (24 in the code)
  MostItems,      \* greatest max_items (80)
  MergedItems     \* capacity of a merged answer (24)

ASSUME ItemsAssumption ==
  /\ Lines \subseteq [words : Seq(Words), space : BOOLEAN]
  /\ Texts \subseteq Nat /\ IsFiniteSet(Texts) /\ Directories \subseteq Texts
  /\ Requests \subseteq Nat /\ MaxHistory \in Nat /\ MaxRemote \in Nat
  /\ MergedItems \in Nat \ {0} /\ MostItems \in Nat \ {0} /\ DefaultItems \in 1 .. MostItems

VARIABLES
  session,     \* the request names a session
  wanted,      \* its max_items, or Unset
  provided,    \* the texts that match at the provider, in its own order
  line,        \* what was typed
  history,     \* the matching lines of the history, oldest first
  phase,       \* "help", "suggest", "local" or "done"
  help,        \* what became of the help command; "skipped": it was not sent
  remote,      \* the texts of the items of the host
  suggestion,  \* whose suggestion is shown: "none", "remote" or "local"
  answer,      \* the items of the response
  result       \* "none", "ok" or "err"

request == <<session, wanted, provided, line, history>>
vars == <<request, phase, help, remote, suggestion, answer, result>>

-----------------------------------------------------------------------------
(* Items, and the lists that the service builds of them. *)

Rank  == [git |-> 0, branch |-> 0, env |-> 1, option |-> 2, command |-> 2,
          directory |-> 3, file |-> 4, history |-> 6]
Score == [git |-> 95, branch |-> 85, env |-> 90, option |-> 90, command |-> 80,
          directory |-> 75, file |-> 65, history |-> 20]

\* The source of an item stands for its kind and score; the local items of one
\* request come from one provider and the history.
Item(source, text) == [source |-> source, text |-> text]

\* completion_item_from_wire: whatever the host offers is a command.
HostItem(text) == Item("command", text)
HostItems == [i \in DOMAIN remote |-> HostItem(remote[i])]

\* The order in which ranked_dedup sorts.
Precedes(a, b) ==
  \/ Score[a.source] > Score[b.source]
  \/ Score[a.source] = Score[b.source] /\ Rank[a.source] < Rank[b.source]
  \/ a.source = b.source /\ a.text < b.text

\* Seeded fault: only neighbours are compared, before the items are sorted.
RankedDedupUnsorted(items, limit) ==
  LET add(acc, x) == IF acc # <<>> /\ Last(acc) = x THEN acc ELSE Append(acc, x)
  IN  AtMost(SortedBy(FoldLeft(add, <<>>, items), Precedes), limit)

\* The limit is looked at after an item has been added.
RankedDedup(items, limit) ==
  LET add(acc, x) ==
        IF acc.full THEN acc
        ELSE LET out == IF x \in ToSet(acc.out) THEN acc.out ELSE Append(acc.out, x)
             IN  [out |-> out, full |-> Len(out) >= limit]
  IN  FoldLeft(add, [out |-> <<>>, full |-> FALSE], SortedBy(items, Precedes)).out

PathItem(text) == Item(IF text \in Directories THEN "directory" ELSE "file", text)

\* What a provider has for the token.  Paths are ranked as ranked_dedup ranks
\* them; the others keep their own order, that of a table or of the bytes of the
\* names, which is not the order of the labels.
Candidates(source, texts) ==
  IF source = "none" THEN <<>>
  ELSE IF source = "path" THEN SortedBy([i \in DOMAIN texts |-> PathItem(texts[i])], Precedes)
  ELSE [i \in DOMAIN texts |-> Item(source, texts[i])]

\* It yields the first of them, before anything is ranked.
ProviderItems(source, texts, limit) == AtMost(Candidates(source, texts), limit)

\* HistoryProvider: newest first; of equal lines only neighbours are merged.
HistoryItems(lines, limit) ==
  LET add(acc, x) == IF acc # <<>> /\ Last(acc).text = x THEN acc ELSE Append(acc, Item("history", x))
  IN  AtMost(FoldLeft(add, <<>>, Reverse(lines)), limit)

MaxItems(n) ==
  IF n = Unset THEN DefaultItems
  ELSE IF n < 1 THEN 1 ELSE IF n > MostItems THEN MostItems ELSE n

\* AutocompleteService::complete.
LocalItems ==
  LET max   == MaxItems(wanted)
      items == ProviderItems(Source(line), provided, max)
      rest  == IF Len(items) < max THEN HistoryItems(history, max - Len(items)) ELSE <<>>
  IN  RankedDedup(items \o rest, max)

\* Seeded fault: the items of the host go first.
MergeRemoteFirst(local, host) ==
  LET add(acc, x) ==
        IF Len(acc) >= MergedItems \/ x.text \in {i.text : i \in ToSet(acc)} THEN acc ELSE Append(acc, x)
  IN  FoldLeft(add, <<>>, host \o local)

\* Local items first, then those of the host, every text once, up to capacity.
Merge(local, host) ==
  LET add(acc, x) ==
        IF Len(acc) >= MergedItems \/ x.text \in {i.text : i \in ToSet(acc)} THEN acc ELSE Append(acc, x)
  IN  FoldLeft(add, <<>>, local \o host)

-----------------------------------------------------------------------------

\* The lists of different texts: no provider has a text twice.
Orders == {texts \in SeqOf(Texts, Cardinality(Texts)) : IsInjective(texts)}

Init ==
  /\ session    \in BOOLEAN
  /\ wanted     \in Requests \cup {Unset}
  /\ line       \in Lines
  /\ provided   \in IF line \in Sampled THEN Orders ELSE {<<>>}
  /\ history    \in IF line \in Sampled THEN SeqOf(Texts, MaxHistory) ELSE {<<>>}
  /\ phase      = IF session THEN "help" ELSE "local"
  /\ help       = "none"
  /\ remote     = <<>>
  /\ suggestion = "none"
  /\ answer     = <<>>
  /\ result     = "none"

Fails ==
  /\ phase' = "done" /\ result' = "err"
  /\ UNCHANGED <<request, remote, suggestion, answer>>

\* The host is not asked for what must not be sent to it: Ok and no items.
HelpSkipped ==
  /\ phase = "help" /\ phase' = "suggest"
  /\ ~AsksHost(line)
  /\ help' = "skipped"
  /\ UNCHANGED <<request, remote, suggestion, answer, result>>

\* command_help_suggestions: the items of the host ...
HelpArrives ==
  /\ phase = "help" /\ phase' = "suggest"
  /\ AsksHost(line)
  /\ help' = "ok"
  /\ \E texts \in SeqOf(Texts, MaxRemote) : remote' = AtMost(texts, MaxItems(wanted))
  /\ UNCHANGED <<request, suggestion, answer, result>>

\* Seeded fault: a timeout is an error like any other.
HelpTimesOutFatally == phase = "help" /\ AsksHost(line) /\ help' = "timeout" /\ Fails

\* ... none, after COMPLETION_TIMEOUT ...
HelpTimesOut ==
  /\ phase = "help" /\ phase' = "suggest"
  /\ AsksHost(line)
  /\ help' = "timeout"
  /\ UNCHANGED <<request, remote, suggestion, answer, result>>

\* Seeded fault: a line that is not for the host is an invalid request.
HelpFailsUnasked == phase = "help" /\ help' = (IF AsksHost(line) THEN "err" ELSE "skipped") /\ Fails

\* ... or an error: the session is gone, the command failed, no connection.
HelpFails == phase = "help" /\ AsksHost(line) /\ help' = "err" /\ Fails

\* remote_history_suggestion, every failure of which reads as no suggestion, and
\* which is not sent for a line with shell control or a secret in it.
Suggest ==
  /\ phase = "suggest" /\ phase' = "local"
  /\ suggestion' \in IF AsksHistory(line) THEN {"none", "remote"} ELSE {"none"}
  /\ UNCHANGED <<request, help, remote, answer, result>>

\* The local completion and, with a session, the merge.
Complete ==
  /\ phase = "local" /\ phase' = "done"
  /\ answer' = IF session THEN Merge(LocalItems, HostItems) ELSE LocalItems
  /\ suggestion' \in IF suggestion # "none" THEN {suggestion}
                     ELSE IF history # <<>> THEN {"local"}
                     ELSE IF SuggestsOption(line) THEN {"none", "local"} ELSE {"none"}
  /\ result' = "ok"
  /\ UNCHANGED <<request, help, remote>>

Next == HelpSkipped \/ HelpArrives \/ HelpTimesOut \/ HelpFails \/ Suggest \/ Complete

Spec == Init /\ [][Next]_vars

-----------------------------------------------------------------------------

Answered == result = "ok"
AnswerTexts == [i \in DOMAIN answer |-> answer[i].text]

\* A line of the history comes back after another one.
Repeats(lines) ==
  \E i, j, k \in DOMAIN lines : i < j /\ j < k /\ lines[i] = lines[k] /\ lines[j] # lines[i]

\* A local answer is ranked, has no item twice and nothing that was not there,
\* and of that it leaves out only what it must: of the provider what comes, in
\* the provider's order, after as many as there may be; of the history all, if
\* the provider fills the answer, and else what is older than all that is shown,
\* and that only if the answer is full.  A history that repeats itself is the
\* exception: its repetitions take places, and are then dropped.
LocalIsComplete ==
  Answered /\ ~session =>
    LET max    == MaxItems(wanted)
        own    == Candidates(Source(line), provided)
        past   == [i \in DOMAIN history |-> Item("history", history[i])]
        shown  == ToSet(answer)
    IN  /\ Len(answer) <= max
        /\ \A i, j \in DOMAIN answer : i < j => Precedes(answer[i], answer[j])
        /\ shown \subseteq ToSet(own) \cup ToSet(past)
        /\ \A k \in DOMAIN own : own[k] \in shown <=> k <= max
        /\ \A i \in DOMAIN past : past[i] \in shown =>
             /\ Len(own) < max
             /\ \E p \in DOMAIN past :
                  past[p] = past[i] /\ \A j \in p .. Len(past) : past[j] \in shown
        /\ \A i \in DOMAIN past :
             past[i] \in shown \/ Len(answer) = max \/ Repeats(history)

\* A merged answer takes the items in the order in which they were offered, the
\* local ones before those of the host, each text where it was offered first;
\* and it leaves one out only when it is full.
MergedIsWhole ==
  Answered /\ session =>
    LET all    == LocalItems \o HostItems
        firsts == {k \in DOMAIN all : \A i \in 1 .. k - 1 : all[i].text # all[k].text}
    IN  /\ IsInjective(AnswerTexts) /\ Len(answer) <= MergedItems
        /\ \A i \in DOMAIN answer : \E k \in firsts : answer[i] = all[k]
        /\ \A k, l \in firsts, j \in DOMAIN answer :
             k < l /\ answer[j] = all[l] => \E i \in 1 .. j - 1 : answer[i] = all[k]
        /\ \A k \in firsts : all[k] \in ToSet(answer) \/ Len(answer) = MergedItems

\* A host that is slow, and not gone, never costs the user the local items; nor
\* does one that is not asked, even if its session is gone.
SlowHostHarmless ==
  help \in {"timeout", "skipped"} /\ phase = "done" =>
    Answered /\ \A x \in ToSet(LocalItems) : x.text \in ToSet(AnswerTexts) \/ Len(answer) = MergedItems

\* The items of the host replace the token that the local ones replace, and are
\* names of commands where that token is the command: else the merged list
\* would mix completions of different words.
SameToken ==
  help = "ok" =>
    /\ HelpCurrent(line) = Current(line)
    /\ AsksNames(line) <=> CompletesCommand(line)

\* What runs on the host for the sake of help are words that the user has
\* finished, never the one that is being typed; and a finished subcommand is
\* among them, unless it is typed once more as the current word.
FinishedWordsOnly ==
  help # "none" /\ AsksHost(line) /\ ~AsksNames(line) =>
    LET finished == IF line.space THEN line.words ELSE Front(line.words)
        tokens   == HelpTokens(line)
    IN  /\ IsPrefix(tokens, finished)
        /\ Len(finished) >= 2 /\ finished[2] \notin Unsafe \cup Flags
             => Len(tokens) = 2 \/ Current(line) = finished[2]

\* The comment in terminal_complete: "Always merge local static completions
\* (options, paths, etc.)".  Not so: any error of the help command but a
\* timeout is returned before the local completion is asked.
LocalAlwaysMerged == phase = "done" => Answered
=============================================================================
