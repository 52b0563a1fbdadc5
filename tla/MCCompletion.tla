---------------------------- MODULE MCCompletion ----------------------------
(* Completion over short lines, short lists and small limits. *)
EXTENDS Completion

SmallTexts       == 1 .. 3
SmallDirectories == {2}
SmallRequests    == {0, 1, 2, 9}

\* One word of every sort; "sort" takes options, "cargo" subcommands, "make"
\* both, "lua" neither.
SmallWords       == {"git", "sort", "cargo", "make", "lua", "sudo", "-v", "./x", "$V", "a;b"}
SmallOptions     == {"sort", "make"}
SmallSubcommands == {"cargo", "make", "git"}
SmallControls    == {"$V", "a;b"}
SmallUnsafe      == {"./x", "$V", "a;b"}

SmallLines   == LinesUpTo(3)
\* A command and a path, a flag, and a line that must not be sent to the host.
SampledLines == { [words |-> <<"lua">>, space |-> FALSE],
                  [words |-> <<"lua">>, space |-> TRUE],
                  [words |-> <<"sort", "-v">>, space |-> FALSE],
                  [words |-> <<"lua", "$V">>, space |-> FALSE] }
=============================================================================
