---------------------------- MODULE MCRemoteReads ----------------------------
(* Three letters, of which one is the upper case form of another. *)
EXTENDS RemoteReads

SmallLetters == 1 .. 3
SmallUpper   == {2}
SmallListed  == {<<1>>, <<2>>, <<3>>, <<1, 3>>}

\* Options in both lengths and cases, with and without a dash in the text; words
\* that are described and not; names of commands; headings.
SmallHelp ==
  {OptionLine(<< <<0, 1>> >>, 0), OptionLine(<< <<0, 1>>, <<0, 0, 1>> >>, 2),
   OptionLine(<< <<0, 0, 2>> >>, 2), OptionLine(<< <<0, 2>>, <<0, 0, 1, 9>> >>, 2),
   WordLine(<<1, 1>>, 2), WordLine(<<1, 1>>, 3), WordLine(<<1, 2>>, 2), WordLine(<<2, 1>>, 0),
   WordLine(<<1, 3, 9>>, 2), WordLine(<<3>>, 2), OtherLine}

SmallTyped    == {<<>>, <<1>>, <<1, 1>>, <<2>>, <<0>>, <<0, 0>>, <<0, 1>>}
SmallCommands == {<<1>>, <<2>>, <<1, 1>>, <<1, 2>>, <<2, 1>>, <<1, 3>>, <<1, 9>>}
=============================================================================
