--------------------------- MODULE MCProviderCache ---------------------------
(* ProviderCache with three lookups of one source, two of one provider, or one
   of a repository that git works on. *)
EXTENDS ProviderCache, TLC

PathRequest(cwd, anchor, names) == [provider |-> "path", cwd |-> cwd, anchor |-> anchor, names |-> names]
GitRequest(cwd)                 == [provider |-> "git", cwd |-> cwd]
CommandRequest(path)            == [provider |-> "command", path |-> path]
HistoryRequest(inline, file)    == [provider |-> "history", inline |-> inline, histfile |-> file, home |-> "h"]

SmallHome         == <<"home">>
SmallRepositories == {<<"w">>}
Plain             == PathRequest(<<"w">>, "none", <<>>)

SmallRequests ==
  {Plain, PathRequest(<<"v">>, "none", <<"a">>), PathRequest(<<"w">>, "none", <<"a">>),
   PathRequest(<<"w">>, "root", <<>>), PathRequest(<<"w">>, "root", <<"a">>),
   PathRequest(<<"w">>, "home", <<>>), PathRequest(<<"w">>, "home", <<"a">>),
   GitRequest(<<"w", "a">>), GitRequest(<<"w">>), GitRequest(<<"v">>),
   CommandRequest("p1"), CommandRequest(Unset),
   HistoryRequest(<<"x">>, Unset), HistoryRequest(<<"y">>, Unset),
   HistoryRequest(<<"x", "y">>, Unset), HistoryRequest(Unset, "f"),
   HistoryRequest(Unset, Unset)}

SmallWorked == UNION {[{r} -> {GitRequest(<<"w">>)}] : r \in Lookups}

SmallScenarios ==
  [Lookups -> {Plain}]
    \cup SmallWorked
    \cup UNION {{s \in [pair -> SmallRequests] : Cardinality({s[r].provider : r \in pair}) = 1} :
                  pair \in {p \in SUBSET Lookups : Cardinality(p) = 2}}

LookupSymmetry == Permutations(Lookups)
=============================================================================
