-------------------------- MODULE ProviderRequests --------------------------
(***************************************************************************)
(* What a provider reads for a request, under which key it caches it, and  *)
(* what the request means.  A directory is the sequence of names from the  *)
(* root to it.  The part of a token before its last slash is an anchor     *)
(* ("none", "root" for a leading slash, "home" for a leading tilde) and    *)
(* the names after it.                                                     *)
(***************************************************************************)
EXTENDS Naturals, SequencesExt

CONSTANTS
  Home,         \* the directory HOME of the process, which is set
  Repositories, \* the directories with a .git directory
  ProcessPath,  \* PATH of the process
  Unset         \* stands for a variable that a request does not give

Tilde == "~"
Nothing == <<"nothing">>

\* Seeded fault: two directories with subdirectories of one name share a key.
ListedUnjoined(q) ==
  IF q.names = <<>> /\ q.anchor # "home" THEN q.cwd
  ELSE IF q.names = <<>> THEN Home
  ELSE q.names

\* split_path_token: a slash that leads the token and is its only one is lost, and
\* a tilde is one only if no name follows.
Listed(q) ==
  IF q.names = <<>> /\ q.anchor # "home" THEN q.cwd
  ELSE IF q.names = <<>> THEN Home
  ELSE IF q.anchor = "root" THEN q.names
  ELSE IF q.anchor = "home" THEN q.cwd \o <<Tilde>> \o q.names
  ELSE q.cwd \o q.names

\* The directory that a shell would look into.
Named(q) ==
  CASE q.anchor = "root" -> q.names
    [] q.anchor = "home" -> Home \o q.names
    [] q.anchor = "none" -> q.cwd \o q.names

\* find_git_dir: the nearest directory upwards that has one.
RepositoryOf(cwd) ==
  LET above == {n \in 0 .. Len(cwd) : SubSeq(cwd, 1, n) \in Repositories}
  IN  IF above = {} THEN Nothing ELSE SubSeq(cwd, 1, CHOOSE n \in above : \A m \in above : m <= n)

PathOf(q) == IF q.path = Unset THEN ProcessPath ELSE q.path

\* read_history.  A text that the request brings along is a sequence of lines.
HistoryOf(q) ==
  IF q.inline # Unset THEN <<"inline", q.inline>>
  ELSE IF q.histfile # Unset THEN <<"file", q.histfile>>
  ELSE IF q.home # Unset THEN <<"home", q.home>> ELSE Nothing

\* history_cache_key: of a text that the request brings along, the length.
HistoryKey(q) == IF q.inline # Unset THEN <<"inline", Len(q.inline)>> ELSE HistoryOf(q)

Source(q) ==
  <<q.provider, CASE q.provider = "path"    -> Listed(q)
                  [] q.provider = "git"     -> RepositoryOf(q.cwd)
                  [] q.provider = "command" -> PathOf(q)
                  [] q.provider = "history" -> HistoryOf(q)>>

\* The key, in the cache of the provider.
Key(q) == IF q.provider = "history" THEN <<"history", HistoryKey(q)>> ELSE Source(q)

Meant(q) == IF q.provider = "path" THEN <<"path", Named(q)>> ELSE Source(q)

\* There is nothing to look up: no repository.
Sourceless(q) == q.provider = "git" /\ RepositoryOf(q.cwd) = Nothing
=============================================================================
