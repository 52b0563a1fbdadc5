----------------------------- MODULE RemoteReads -----------------------------
(***************************************************************************)
(* The operations that read from a host with one command and parse its     *)
(* output: resolve_remote_directory, list_remote_directory,                *)
(* read_remote_file_bytes, remote_system_snapshot and                      *)
(* command_help_suggestions with its two commands.  exec yields Ok also    *)
(* for an output that a lost connection cut short, between two lines or    *)
(* inside one, so that each parser may see any beginning of what the       *)
(* command printed.                                                        *)
(***************************************************************************)
EXTENDS ResolveDirectory, HelpText

CONSTANTS
  Listed,       \* bound: the names in directories that are listed
  MaxEntries,   \* bound: entries of a directory
  MaxPieces,    \* bound: lines of an encoded file
  HelpLines,    \* lines that a help text is made of
  MaxHelp,      \* bound: lines of a help text, and commands
  Typed,        \* tokens that are completed
  Commands,     \* names of commands on the host
  HostLimit     \* most names that the host prints (80 in the code)

ASSUME ListedAssumption == Listed \subseteq Names

ASSUME ToldAssumption ==
  /\ HelpLines \subseteq HelpLine /\ \A l \in HelpLines : IsHelpLine(l)
  /\ Typed \subseteq Tokens \cup {<<>>} /\ Commands \subseteq Tokens
  /\ MaxHelp \in Nat /\ HostLimit \in Nat \ {0}

Kinds   == {"dir", "file", "link"}    \* a link is one to a directory
CutPath == <<>>                       \* what is left of a line or a path that was cut

\* A directory tells all of its entries; or their names only, when it may not be
\* searched; or nothing, when it may not be read, or is none.
Accesses == {"all", "names", "none"}

\* What a snapshot tells; no command prints the plain "MEM" and "DISK".
Amounts == {"MEM", "DISK"} \X {"USED", "FREE", "TOTAL"}
Fields  == {<<"OS">>, <<"HOST">>, <<"UPTIME">>, <<"MEM">>, <<"DISK">>} \cup Amounts

VARIABLES
  op,          \* "resolve", "list", "read", "snapshot", "help" or "names"; never
               \* changes
  entries,     \* the directory: the kinds of the names in it; never changes
  access,      \* what the directory tells; never changes
  requested,   \* the name that is resolved or completed; never changes
  file,        \* "missing", or "there" with the lines of it encoded; never changes
  printed,     \* the lines the command printed
  encoded,     \* ghost: the encoder on the host did its work
  arrived,     \* how many of them arrived whole
  piece,       \* what arrived of the next one: "none"; "early" ends before its
               \* last field, or, of a path, right before it, as the output is
               \* trimmed; "late" in it or right after it
  answer,      \* what the operation returned
  phase        \* "ask", "receive", "parse" or "done"

host == <<op, entries, access, requested, file>>
vars == <<host, printed, encoded, arrived, piece, answer, phase>>

Directories == {n \in DOMAIN entries : entries[n] = "dir"}

\* The directories with at most MaxEntries of these names.
Contents(names, kinds) ==
  UNION {[d -> kinds] : d \in {n \in SUBSET names : IsFiniteSet(n) /\ Cardinality(n) <= MaxEntries}}

Error    == [ok |-> FALSE, value |-> <<>>]
Value(v) == [ok |-> TRUE, value |-> v]

\* For a resolution, a link that leads to a directory is a directory.
Init ==
  /\ \/ /\ op = "resolve"
        /\ entries \in Contents(Names, {"dir"}) \cup Contents(Listed, {"dir", "file"})
        /\ access \in Accesses /\ requested \in Names
        /\ file = <<"missing", 0>>
     \/ /\ op = "list" /\ entries \in Contents(Listed, Kinds) /\ requested = CutPath
        /\ access \in Accesses /\ file = <<"missing", 0>>
     \/ /\ op = "snapshot" /\ entries = <<>> /\ requested = CutPath
        /\ access = "all" /\ file = <<"missing", 0>>
     \/ /\ op \in {"help", "names"} /\ entries = <<>> /\ requested \in Typed
        /\ access = "all" /\ file = <<"missing", 0>>
     \/ /\ op = "read" /\ entries = <<>> /\ requested = CutPath
        /\ access = "all" /\ file \in {<<"missing", 0>>} \cup {"there"} \X (0 .. MaxPieces)
  /\ printed = <<>>
  /\ encoded = TRUE
  /\ arrived = 0
  /\ piece   = "none"
  /\ answer  = Error
  /\ phase   = "ask"

-----------------------------------------------------------------------------
(* The commands *)

Prints(lines, whole) ==
  /\ phase = "ask" /\ phase' = "receive"
  /\ printed' = lines /\ encoded' = whole
  /\ UNCHANGED <<host, arrived, piece, answer>>

\* resolve_directory_command: its own path, or the directories beside it, as far
\* as the one that they are in tells of them.
PrintPaths ==
  /\ op = "resolve"
  /\ \/ /\ requested \in Directories /\ access # "names"
        /\ Prints(<< [path |-> requested] >>, TRUE)
     \/ /\ requested \notin Directories /\ access = "all"
        /\ \E names \in SetToSeqs(Directories) :
             Prints([i \in DOMAIN names |-> [name |-> names[i], path |-> names[i]]], TRUE)
     \/ access # "all" /\ Prints(<<>>, TRUE)

\* The kinds that are shown as a directory: find shows a link as such, the loop
\* over ls shows what it leads to, if the entries may be looked at.
ShownAsDirs == IF access = "all" THEN {{"dir"}, {"dir", "link"}} ELSE {{}}

\* list_directory_command.  The failures of find and ls are discarded: nothing is
\* printed then, and the command ends well.
PrintEntries ==
  /\ op = "list"
  /\ \/ access = "none" /\ Prints(<<>>, TRUE)
     \/ /\ access # "none"
        /\ \E names \in SetToSeqs(DOMAIN entries), kinds \in ShownAsDirs :
             Prints([i \in DOMAIN names |-> [name |-> names[i], path |-> names[i],
                                             dir  |-> entries[names[i]] \in kinds]], TRUE)

\* read_file_command.  The end is also marked after an encoder that is missing
\* or fails on its way.
PrintFile ==
  /\ op = "read"
  /\ \/ file[1] = "missing" /\ Prints(<<"Err">>, TRUE)
     \/ /\ file[1] = "there"
        /\ \E n \in 0 .. file[2], whole \in BOOLEAN :
             /\ whole => n = file[2]
             /\ Prints(<<"Begin">> \o [i \in 1 .. n |-> "Data"] \o <<"End">>, whole)

\* What remote_system_command tells: three texts, and the amounts of memory and
\* disk if there is what knows them.
FieldsOf(groups) ==
  LET amounts(g) == IF g \in groups THEN << <<g, "USED">>, <<g, "FREE">>, <<g, "TOTAL">> >>
                    ELSE <<>>
  IN  << <<"OS">>, <<"HOST">>, <<"UPTIME">> >> \o amounts("MEM") \o amounts("DISK")

\* A line for each; a text or an amount may be empty.
PrintFields ==
  /\ op = "snapshot"
  /\ \E groups \in SUBSET {"MEM", "DISK"}, empty \in SUBSET {"OS", "HOST", "UPTIME", "MEM"} :
       LET fields == FieldsOf(groups)
       IN  Prints([i \in DOMAIN fields |->
                     [field |-> fields[i], begins |-> Append(fields[i], "="),
                      text  |-> IF fields[i][1] \in empty THEN "" ELSE "true"]], TRUE)

\* help_suggestions_command.  That the host prints no more than 20000 bytes of a
\* help text is a cut like that of a lost connection.
PrintHelp ==
  op = "help" /\ \E lines \in SeqOf(HelpLines, MaxHelp) : Prints(lines, TRUE)

\* command_name_suggestions_command: those that begin with the token, sorted, at
\* most HostLimit of them.
PrintNames ==
  /\ op = "names"
  /\ \E names \in {n \in SUBSET Commands : IsFiniteSet(n) /\ Cardinality(n) <= MaxHelp} :
       LET fitting == {n \in names : IsPrefix(requested, n)}
       IN  Prints(AtMost(InOrder(fitting, LexLess), HostLimit), TRUE)

\* The output, or the beginning of it that came before the connection was lost.
Receive ==
  /\ phase = "receive" /\ phase' = "parse"
  /\ arrived' \in 0 .. Len(printed)
  /\ piece' \in IF arrived' < Len(printed) THEN {"none", "early", "late"} ELSE {"none"}
  /\ UNCHANGED <<host, printed, encoded, answer>>

\* exec yields an error: no session, no connection, or the status of a command
\* that found no file.
ExecFails ==
  /\ phase \in {"ask", "receive"} /\ phase' = "done"
  /\ answer' = Error
  /\ UNCHANGED <<host, printed, encoded, arrived, piece>>

-----------------------------------------------------------------------------
(* The parsers *)

Cut == arrived < Len(printed)

Parse(answers) ==
  /\ phase = "parse" /\ phase' = "done"
  /\ answer' \in answers
  /\ UNCHANGED <<host, printed, encoded, arrived, piece>>

\* What arrived but for a piece without its last field; the last field of the
\* last line may be cut.
Arrived(Shorten(_)) ==
  SubSeq(printed, 1, arrived)
    \o IF piece = "late" THEN << Shorten(printed[arrived + 1]) >> ELSE <<>>

\* The lines of a listing that have all their fields.
Seen == Arrived(LAMBDA line : [line EXCEPT !.path = CutPath])

\* resolve_directory_from_output: no output, one that has no tab and is taken
\* for a path, even if it is the beginning of a listing, or a listing.
Resolve ==
  /\ op = "resolve"
  /\ Parse({Value(
       IF arrived = 0 /\ piece = "none" THEN requested
       ELSE IF requested \in Directories THEN IF Cut THEN CutPath ELSE requested
       ELSE IF arrived = 0 /\ piece = "early" THEN CutPath
       ELSE Choose(requested, Seen))})

\* Seeded fault: directories stand among the files.
ComesBeforeByName(d, e) == LexLess(Lower(d.name), Lower(e.name))

\* The key entries are sorted by.
ComesBefore(d, e) ==
  IF d.dir = e.dir THEN LexLess(Lower(d.name), Lower(e.name)) ELSE d.dir

Sorted(lines) == SortedBy(lines, ComesBefore)

\* parse_remote_directory.
List == op = "list" /\ Parse({Value(Sorted(Seen))})

\* The lines of the encoded file in what arrived.
DataLines(text) == Cardinality({i \in DOMAIN text : text[i] = "Data"})

\* Seeded fault: what arrived is the payload, with or without the mark of its end.
PayloadToEnd(text) == IF "Begin" \in ToSet(text) THEN {Value(DataLines(text))} ELSE {Error}

\* extract_portix_payload and the decoder, whose input may be damaged if the
\* encoder failed: what lies between the two marks.
Payload(text) ==
  IF {"Begin", "End"} \subseteq ToSet(text)
  THEN {Value(DataLines(text))} \cup IF encoded THEN {} ELSE {Error}
  ELSE {Error}

\* read_remote_file_bytes; a mark may lack the end of its line.
Read ==
  op = "read" /\ Parse(Payload(Arrived(LAMBDA line : line)))

\* Seeded fault: the key is looked for without the sign that ends it.
HasKeyOpen(field, line) == IsPrefix(field, line.begins)

\* strip_prefix, of a key with its "=".
HasKey(field, line) == IsPrefix(Append(field, "="), line.begins)

\* parse_remote_system_snapshot: the first line with the key, or nothing, or 0.
Snapshot ==
  LET told == Arrived(LAMBDA line : [line EXCEPT !.text = IF @ = "" THEN "" ELSE "part"])
      of(field) == {i \in DOMAIN told : HasKey(field, told[i])}
  IN  /\ op = "snapshot"
      /\ Parse({Value([f \in Fields |-> IF of(f) = {} THEN "" ELSE told[Min(of(f))].text])})

\* The lines of a help text or of names, of which the last may be cut.
Heard(Beginnings(_)) ==
  LET whole == SubSeq(printed, 1, arrived)
  IN  IF piece = "none" THEN {whole} ELSE {Append(whole, b) : b \in Beginnings(printed[arrived + 1])}

Help == op = "help" /\ Parse({Value(HelpSuggestions(requested, lines)) : lines \in Heard(CutLine)})
CommandNames == op = "names" /\ Parse({Value(NameSuggestions(requested, names)) : names \in Heard(CutName)})

Next ==
  \/ PrintPaths \/ PrintEntries \/ PrintFile \/ PrintFields \/ PrintHelp \/ PrintNames
  \/ Receive \/ ExecFails
  \/ Resolve \/ List \/ Read \/ Snapshot \/ Help \/ CommandNames

Spec == Init /\ [][Next]_vars

-----------------------------------------------------------------------------
(* Properties *)

Answered(o) == phase = "done" /\ op = o /\ answer.ok

\* What resolve_remote_directory answers is the requested path or that of a
\* directory that no other one which arrived rivals: the only one that begins with
\* the name, or, if none does, the only one that has its letters in order, in any
\* case.  Only an output that was cut can make it anything else, and then it is
\* what was left of the path or the line at the cut.
ResolvesUniquely ==
  Answered("resolve") /\ answer.value # requested =>
    LET wanted == Lower(requested)
        seen   == {line.name : line \in ToSet(Seen)}
        begins == {n \in seen : IsPrefix(wanted, Lower(n))}
        fuzzy  == {n \in seen : Subsequence(wanted, Lower(n))}
    IN  \/ Cut /\ answer.value = CutPath
        \/ /\ answer.value \in Directories
           /\ begins = {answer.value} \/ (begins = {} /\ fuzzy = {answer.value})

\* A listing that list_remote_directory returns names what is in the directory,
\* each once and directories first, and shows nothing as a directory that is none.
\* It leaves out something only if the output was cut, or all if the directory
\* could not be read, which it does not tell from an empty one; it shows a
\* directory as a file only if the one it is in could not be searched.  A cut
\* output may end in a wrong path, no more.
ListingIsTrue ==
  Answered("list") =>
    LET list  == answer.value
        names == {list[i].name : i \in DOMAIN list}
    IN  /\ names \subseteq DOMAIN entries /\ Cardinality(names) = Len(list)
        /\ ~Cut => names = DOMAIN entries \/ (access = "none" /\ names = {})
        /\ \A i \in DOMAIN list :
             /\ list[i].path = list[i].name \/ (Cut /\ list[i].path = CutPath)
             /\ list[i].dir => entries[list[i].name] # "file"
             /\ entries[list[i].name] = "dir" => list[i].dir \/ access = "names"
        /\ \A i, j \in DOMAIN list : i < j => list[i].dir \/ ~list[j].dir
        /\ Cardinality({i \in DOMAIN list : list[i].path = CutPath}) <= 1

\* read_remote_file_bytes returns no part of a file: what it returns as Ok is
\* all of it, wherever the connection was lost, as long as the encoder on the
\* host did its work.
ReadIsWhole == Answered("read") /\ encoded => file = <<"there", answer.value>>

\* A snapshot that remote_system_snapshot returns has under each name what the
\* host printed under that name, and nothing under a name the host did not
\* print.  Without a cut no field is lost; a cut one may show a part of a text
\* or of a number, but of one only.
SnapshotIsTrue ==
  Answered("snapshot") =>
    LET shown == answer.value
        lines == ToSet(printed)
        told  == [f \in Fields |-> {l.text : l \in {k \in lines : k.field = f}}]
    IN  /\ \A f \in Fields : shown[f] \in told[f] \/ shown[f] = "" \/ (Cut /\ shown[f] = "part")
        /\ \A f \in Fields : told[f] = {} => shown[f] = ""
        /\ ~Cut => \A f \in Fields : told[f] \subseteq {shown[f]}
        /\ Cardinality({f \in Fields : shown[f] = "part"}) <= 1

\* The tokens that a help text, or names, tell of.
Told(lines) ==
  IF op = "names" THEN ToSet(lines) ELSE UNION {ToSet(l.tokens) : l \in ToSet(lines)}

\* Those of them that are due: words where there are any, or else options.
Due(lines, wordsShown) ==
  LET options == {OptionOf(l) : l \in ToSet(lines)} \ {<<>>}
      words   == {WordOf(l) : l \in ToSet(lines)} \ {<<>>}
      fitting(items) == {t \in {item[1].token : item \in items} : IsPrefix(requested, t)}
  IN  IF op = "names" THEN {n \in ToSet(lines) : IsPlain(n)}
      ELSE IF wordsShown \/ fitting(words) # {} THEN fitting(words) ELSE fitting(options)

\* What command_help_suggestions offers begins with what was typed, comes in order
\* and is on the host, as an option, a word or a command; a lost connection makes
\* at most one of them a beginning of one, and never of a word of a help text.
\* Words and options of a help text are not mixed.  Of what has arrived nothing is
\* left out while there is room, and then nothing that stands before the last one.
SuggestionsAreTrue ==
  Answered("help") \/ Answered("names") =>
    LET items  == answer.value
        tokens == {items[i].token : i \in DOMAIN items}
        words  == {t \in tokens : t[1] # Dash}
        whole  == SubSeq(printed, 1, arrived)
        last   == IF Cut THEN << printed[arrived + 1] >> ELSE <<>>
        limit  == IF op = "help" THEN HelpLimit ELSE NameLimit
        broken == tokens \ Told(whole \o last)
    IN  /\ Len(items) <= limit /\ \A t \in tokens : IsPrefix(requested, t)
        /\ \A i, j \in DOMAIN items : i < j => ~LexLess(Lower(items[j].token), Lower(items[i].token))
        /\ Cardinality(broken) <= 1
        /\ \A t \in broken : \E n \in Told(last) : IsPrefix(t, n) /\ (op = "help" => t \notin words)
        /\ op = "help" => words \in {{}, tokens}
        /\ \A n \in Due(whole, words # {}) \ tokens :
             Len(items) = limit /\ ~LexLess(Lower(n), Lower(Last(items).token))
=============================================================================
