-------------------------- MODULE CompletionContext --------------------------
(***************************************************************************)
(* How the two sides of a completion read the typed line: the local        *)
(* service picks a provider for the token under the cursor; the request    *)
(* for help items picks the command that the host is asked.                *)
(*                                                                         *)
(* A line is the words before the cursor and whether a space follows them. *)
(* Of a word only what the two readers look at counts: the sets below.     *)
(***************************************************************************)
EXTENDS Naturals, SequencesExt

CONSTANTS
  Words,           \* words that can be typed
  Git,             \* the command git
  WithOptions,     \* commands in the table of should_complete_option
  WithSubcommands, \* commands in the table of should_complete_subcommand
  Blocked,         \* commands in BLOCKED of is_allowed_help_command
  Flags,           \* words that begin with "-"
  PathWords,       \* words that begin with ".", "/" or "~", or contain "/"
  Variables,       \* words that begin with "$"
  Controls,        \* words with a character of contains_shell_control
  Unsafe,          \* words that is_safe_command_name rejects
  Empty            \* the empty token, after a space or on an empty line

ASSUME WordsAssumption ==
  /\ Empty \notin Words
  /\ Variables \subseteq Controls /\ Controls \subseteq Unsafe
  /\ Unsafe \cap ({Git} \cup WithOptions \cup WithSubcommands \cup Blocked) = {}

\* Lines of up to n words.
LinesUpTo(n) == [words : SeqOf(Words, n), space : BOOLEAN]

-----------------------------------------------------------------------------
(* TerminalCompleteRequest::context and AutocompleteService::complete. *)

Command(line)    == IF line.words = <<>> THEN Empty ELSE Head(line.words)
Current(line)    == IF line.space \/ line.words = <<>> THEN Empty ELSE Last(line.words)
TokenIndex(line) == IF line.space \/ line.words = <<>> THEN Len(line.words) ELSE Len(line.words) - 1

CompletesOption(line) ==
  /\ TokenIndex(line) > 0
  /\ Current(line) \in Flags \/ (Current(line) = Empty /\ Command(line) \in WithOptions)

CompletesSubcommand(line) ==
  /\ TokenIndex(line) > 0
  /\ Current(line) \notin Flags \cup PathWords \cup Variables
  /\ Command(line) \in WithSubcommands

CompletesCommand(line) == TokenIndex(line) = 0 /\ ~line.space

CompletesPath(line) == TokenIndex(line) > 0 \/ Current(line) \in PathWords

\* GitProvider: subcommands, and branches after them.
GitSource(line) == IF TokenIndex(line) <= 1 THEN "git" ELSE "branch"

\* The first provider that takes the token, as the source of its items.
Source(line) ==
  IF Current(line) \in Variables       THEN "env"
  ELSE IF Command(line) = Git          THEN GitSource(line)
  ELSE IF CompletesOption(line)        THEN "option"
  ELSE IF CompletesSubcommand(line)    THEN "option"
  ELSE IF CompletesCommand(line)       THEN "command"
  ELSE IF CompletesPath(line)          THEN "path"
  ELSE "none"

\* OptionProvider::inline_suggestion is asked, and may know a longer flag.
SuggestsOption(line) == CompletesOption(line) /\ Current(line) # Empty

-----------------------------------------------------------------------------
(* HelpSuggestionRequest::parse and command_help_suggestions. *)

\* Seeded fault: the last word is the current one, space or not.
HelpCurrentOfWords(line) == Last(line.words)

HelpCurrent(line) == IF line.space THEN Empty ELSE Last(line.words)

\* The host is asked at all: something was typed, it has no shell control in
\* it, and the command is a plain and harmless name.  (A line of one character
\* is not asked either; words stand for longer ones.)
AsksHost(line) ==
  /\ line.words # <<>>
  /\ ToSet(line.words) \cap Controls = {}
  /\ Head(line.words) \notin Unsafe \cup Blocked

\* It is asked for its history: of a line without shell control (nor a secret,
\* of which the words here have none).
AsksHistory(line) == line.words # <<>> /\ ToSet(line.words) \cap Controls = {}

\* It is asked for the names of commands rather than for help.
AsksNames(line) == Len(line.words) = 1 /\ ~line.space

\* Seeded fault: the second word is taken while it is being typed.
HelpTokensEager(line) ==
  IF Len(line.words) >= 2 /\ line.words[2] \notin Unsafe \cup Flags
  THEN SubSeq(line.words, 1, 2) ELSE SubSeq(line.words, 1, 1)

\* What is run with --help.  The second word counts as the one that is being
\* typed when it is equal to that one.
HelpTokens(line) ==
  IF /\ Len(line.words) >= 2
     /\ line.space \/ HelpCurrent(line) # line.words[2]
     /\ line.words[2] \notin Unsafe \cup Flags
  THEN SubSeq(line.words, 1, 2) ELSE SubSeq(line.words, 1, 1)

=============================================================================
