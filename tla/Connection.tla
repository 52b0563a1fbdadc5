----------------------------- MODULE Connection -----------------------------
(***************************************************************************)
(* A connection from the profile to the output of its channel: validate    *)
(* rejects a profile or lets it pass; connect_and_authenticate_profile     *)
(* connects and tries one credential, both under a timeout; the runtime or *)
(* the worker opens a channel, under none, and reads it as ChannelOutput   *)
(* says.  The server may refuse, deny, be silent or be lost at any time.   *)
(***************************************************************************)
EXTENDS ChannelOutput

VARIABLES
  profile,   \* what the user gave; never changes
  keyFile,   \* the file of the key is "good", or "bad": missing, with a
             \* passphrase, or no key; never changes
  accepts,   \* the credentials that the server accepts; never changes
  stage,     \* how far the connection is
  tried,     \* the credential that was sent to the server
  cause      \* ghost: why the attempt failed

login    == <<stage, tried, cause>>
given    == <<profile, keyFile, accepts>>
connVars == <<login, given, vars>>

\* A key path or a password may be missing or blank; of the other fields only
\* whether one is missing counts.
Profiles == [complete : BOOLEAN, key : {"none", "blank", "path"}, password : {"none", "empty", "text"}]

ConnInit ==
  /\ Init
  /\ profile \in Profiles
  /\ keyFile \in {"good", "bad"}
  /\ accepts \in SUBSET {"key", "password"}
  /\ stage = "validating"
  /\ tried = "none"
  /\ cause = "none"

Moves(from, to) == stage = from /\ stage' = to
Fails(from, why) == Moves(from, "failed") /\ cause' = why /\ UNCHANGED tried

\* SshProfile::validate.
Acceptable == profile.complete /\ (profile.password = "text" \/ profile.key = "path")

Validate ==
  /\ Moves("validating", IF Acceptable THEN "connecting" ELSE "rejected")
  /\ UNCHANGED <<tried, cause>>

Connects        == Moves("connecting", "authenticating") /\ UNCHANGED <<tried, cause>>
ConnectFails    == Fails("connecting", "connection")
ConnectTimesOut == Fails("connecting", "timeout")

\* Seeded fault: a password goes before a key.
CredentialPasswordFirst ==
  IF profile.password # "none" THEN "password" ELSE IF profile.key # "none" THEN "key" ELSE "none"

\* A key path goes before a password, even a blank one; there is no second try.
Credential ==
  IF profile.key # "none" THEN "key" ELSE IF profile.password # "none" THEN "password" ELSE "none"

\* load_secret_key fails, on a blank path too; or there is nothing to try.
NoCredential ==
  /\ Credential = "none" \/ (Credential = "key" /\ (profile.key = "blank" \/ keyFile = "bad"))
  /\ Fails("authenticating", "credential")

Authenticate ==
  /\ Credential = "password" \/ (Credential = "key" /\ profile.key = "path" /\ keyFile = "good")
  /\ Moves("authenticating", "answering")
  /\ tried' = Credential /\ UNCHANGED cause

Accepted == tried \in accepts /\ Moves("answering", "opening") /\ UNCHANGED <<tried, cause>>
Denied   == tried \notin accepts /\ Fails("answering", "credential")

AuthFails == Fails("authenticating", "connection") \/ Fails("answering", "connection")

\* Seeded fault: the timeout covers only what is done before the server is asked.
AuthTimesOutEarly == Fails("authenticating", "timeout")

\* AUTH_TIMEOUT covers the key file, its negotiation and the answer.
AuthTimesOut == Fails("authenticating", "timeout") \/ Fails("answering", "timeout")

\* channel_open_session, and the requests of a terminal and a shell or of exec.
Opens     == Moves("opening", "open") /\ UNCHANGED <<tried, cause>>
OpenFails == Fails("opening", "connection")

Login ==
  \/ Validate
  \/ Connects \/ ConnectFails \/ ConnectTimesOut
  \/ NoCredential \/ Authenticate \/ Accepted \/ Denied \/ AuthFails \/ AuthTimesOut
  \/ Opens \/ OpenFails

Reads == stage = "open" /\ Client

ConnNext ==
  \/ Login /\ UNCHANGED <<given, vars>>
  \/ stage = "open" /\ Server /\ UNCHANGED <<given, login>>
  \/ Reads /\ UNCHANGED <<given, login>>

\* Timeouts expire, and the tasks are scheduled; the server owes nothing.
ConnSpec ==
  /\ ConnInit /\ [][ConnNext]_connVars
  /\ WF_connVars((Validate \/ ConnectTimesOut \/ NoCredential \/ AuthTimesOut) /\ UNCHANGED <<given, vars>>)
  /\ WF_connVars(Reads /\ UNCHANGED <<given, login>>)

-----------------------------------------------------------------------------

\* A login that fails for its credential fails because the server denies what the
\* profile gives, or the key file is bad: with one exception, a blank key path,
\* which validate takes for none and the authentication for a key, so that a good
\* password beside it is never tried.  A login that succeeds used a credential
\* that the profile gives and the server accepts, never an empty one.  A profile is
\* rejected only if a field is missing or it gives no credential.
LoginHasCause ==
  LET gives == (IF profile.key = "path" THEN {"key"} ELSE {})
                 \cup (IF profile.password = "text" THEN {"password"} ELSE {})
  IN  /\ cause = "credential" =>
           \/ profile.key = "blank"
           \/ "key" \in gives /\ (keyFile = "bad" \/ "key" \notin accepts)
           \/ "key" \notin gives /\ "password" \notin accepts
      /\ stage \in {"opening", "open"} => tried \in gives \cap accepts
      /\ tried # "none" => tried \in gives
      /\ stage = "rejected" => ~profile.complete \/ gives = {}

\* An attempt to connect comes to an end, also with a server that accepts the
\* connection and then says nothing, up to and including the authentication.  The
\* opening of the channel after it has no such promise.
ConnectEnds == stage \in {"connecting", "authenticating", "answering"} ~> stage \in {"opening", "open", "failed"}
=============================================================================
