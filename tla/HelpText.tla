------------------------------ MODULE HelpText ------------------------------
(***************************************************************************)
(* What the host's answer to a completion is made into: the options or     *)
(* subcommands in a help text, or the names of commands, that begin with   *)
(* the token under the cursor.                                             *)
(*                                                                         *)
(* A line of help is an option line, which begins with a dash, with the    *)
(* words in it that do, wherever they stand; a line that begins with a     *)
(* word, which may be a subcommand or prose; or one that is neither, such  *)
(* as a heading.  Its text is a number.                                    *)
(***************************************************************************)
EXTENDS NameOrder

CONSTANTS
  Dash,        \* the letter "-"
  Sign,        \* any that commands and options must not have, such as "=" or "/"
  HelpLimit,   \* most suggestions from a help text (12 in the code)
  NameLimit    \* most suggestions from the names of commands (24)

ASSUME HelpAssumption ==
  /\ {Dash, Sign} \subseteq Nat \ Letters /\ \A l \in Letters \cup {Sign} : Dash < l
  /\ HelpLimit \in Nat \ {0} /\ NameLimit \in Nat \ {0}

NoText == 0    \* or one that is too short to be a description
Part   == 1    \* the beginning of a text

\* Tokens, and lines with those that count: in an option line they begin with a
\* dash, in a word line is one that does not.
Tokens   == Seq(Letters \cup {Dash, Sign}) \ {<<>>}
HelpLine == [kind : {"option", "word", "other"}, tokens : Seq(Tokens), text : Nat]

IsHelpLine(line) ==
  /\ line.kind = "option" => line.tokens # <<>> /\ \A t \in ToSet(line.tokens) : t[1] = Dash
  /\ line.kind = "word" => Len(line.tokens) = 1 /\ line.tokens[1][1] # Dash
  /\ line.kind = "other" => line.tokens = <<>>

OptionLine(tokens, text) == [kind |-> "option", tokens |-> tokens, text |-> text]
WordLine(word, text)     == [kind |-> "word", tokens |-> <<word>>, text |-> text]
OtherLine                == [kind |-> "other", tokens |-> <<>>, text |-> NoText]

IsPlain(token) == Sign \notin ToSet(token)
IsLong(token) == IsPrefix(<<Dash, Dash>>, token)

\* The option that clean_help_option_line takes from a line: the first long one,
\* or else the first, unless that is dashes only or has a sign in it.
OptionOf(line) ==
  LET long  == {i \in DOMAIN line.tokens : IsLong(line.tokens[i])}
      token == line.tokens[IF long # {} THEN Min(long) ELSE 1]
  IN  IF line.kind = "option" /\ ~(ToSet(token) \subseteq {Dash}) /\ IsPlain(token)
      THEN << [token |-> token, text |-> line.text] >> ELSE <<>>

\* Seeded fault: a word needs no description.
WordOfAnyLine(line) ==
  IF line.kind = "word" /\ Len(line.tokens[1]) > 1 /\ IsPlain(line.tokens[1])
  THEN << [token |-> line.tokens[1], text |-> line.text] >> ELSE <<>>

\* clean_help_subcommand_line: a plain word of two letters or more, and what
\* describes it.
WordOf(line) ==
  IF line.kind = "word" /\ Len(line.tokens[1]) > 1 /\ IsPlain(line.tokens[1]) /\ line.text # NoText
  THEN << [token |-> line.tokens[1], text |-> line.text] >> ELSE <<>>

\* filter_map and starts_with: what was taken from some of the lines, at these.
Fitting(current, taken) ==
  LET at == {i \in DOMAIN taken : taken[i] # <<>> /\ IsPrefix(current, taken[i][1].token)}
  IN  [i \in at |-> taken[i][1]]

OptionsIn(current, lines) == Fitting(current, [i \in DOMAIN lines |-> OptionOf(lines[i])])
WordsIn(current, lines)   == Fitting(current, [i \in DOMAIN lines |-> WordOf(lines[i])])

\* The order of the wire strings in lower case, which agree up to the token.
ItemBefore(a, b) ==
  \/ LexLess(Lower(a.token), Lower(b.token))
  \/ Lower(a.token) = Lower(b.token) /\ a.text < b.text

\* dedup: neighbours that are equal.
WithoutRepeats(items) ==
  FoldLeft(LAMBDA acc, item : IF acc # <<>> /\ Last(acc) = item THEN acc ELSE Append(acc, item), <<>>, items)

\* sort_by, dedup and truncate.
Shown(items, limit) == AtMost(WithoutRepeats(SortedBy(items, ItemBefore)), limit)

\* parse_help_suggestions: options for a token that begins with a dash; else
\* words, and options where there are none.
HelpSuggestions(current, lines) ==
  LET words == WordsIn(current, lines)
  IN  Shown(IF IsPrefix(<<Dash>>, current) \/ DOMAIN words = {} THEN OptionsIn(current, lines) ELSE words,
            HelpLimit)

\* parse_command_name_suggestions.
NameSuggestions(current, names) ==
  LET plain(name) == IF IsPlain(name) THEN << [token |-> name, text |-> NoText] >> ELSE <<>>
  IN  Shown(Fitting(current, [i \in DOMAIN names |-> plain(names[i])]), NameLimit)

\* What may be left of a name that ends early ...
CutName(name) == {SubSeq(name, 1, n) : n \in 1 .. Len(name)}

\* ... and of a line: it ends in one of its tokens, after it or in its text.
CutLine(line) ==
  {[line EXCEPT !.text = t] : t \in {NoText, line.text} \cup IF line.text = NoText THEN {} ELSE {Part}}
  \cup UNION {{[line EXCEPT !.tokens = Append(SubSeq(@, 1, i - 1), token), !.text = NoText] :
                 token \in CutName(line.tokens[i])} : i \in DOMAIN line.tokens}
=============================================================================
