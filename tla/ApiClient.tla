----------------------------- MODULE ApiClient -----------------------------
(***************************************************************************)
(* The Anthropic client (internal/api/anthropic: doJSON, StreamMessages    *)
(* and the retry rules) over the OAuthTokenProvider and the credential file of *)
(* internal/auth.  Several processes share the file; each loads it once,   *)
(* when it starts, and then keeps its credentials in memory.  The requests *)
(* of a process share its provider, whose mutex is held during a whole     *)
(* refresh, the saving of the new credentials included.                    *)
(*                                                                         *)
(* Refresh tokens are numbered in the order of issue.  The authorisation   *)
(* server accepts one, grant; a server that rotates makes the old one      *)
(* worthless with every refresh.  It and the API are external.             *)
(***************************************************************************)
EXTENDS Integers, FiniteSets

CONSTANTS Procs,
          Slots,       \* requests of one process, numbered from 1
          Busy,        \* the processes with more than one request
          MaxRetries,  \* RetryConfig.MaxRetries
          Ant,         \* USER_TYPE is "ant"
          Rotates,     \* whether the authorisation server replaces the refresh token
          MaxTokens,   \* bound: refresh tokens issued
          MaxFaults    \* bound: deaths, lost replies of the authorisation server, failed saves

ASSUME ApiClientAssumption ==
  /\ MaxRetries \in Nat /\ MaxTokens \in Nat /\ MaxFaults \in Nat /\ {Ant, Rotates} \subseteq BOOLEAN

NoRequest == <<>>
ASSUME NoRequestAssumption == NoRequest \notin Procs \X Slots /\ Busy \subseteq Procs

VARIABLES
  grant,   \* the refresh token the authorisation server accepts
  store,   \* the refresh token of credentials.json
  creds,   \* process -> the refresh token of OAuthTokenProvider.credentials
  mu,      \* process -> the request that holds the provider's mutex
  req,     \* the requests
  faults,
  \* History variables, for the properties.
  sent,    \* request -> times it was sent
  heard,   \* request -> attempts whose stream events the caller was given
  holder,  \* the process that alone has the current grant
  refused  \* processes refused a refresh although they were the holder

history == <<sent, heard, holder, refused>>
vars    == <<grant, store, creds, mu, req, faults, history>>

Requests == {r \in Procs \X Slots : r[1] \in Busy \/ r[2] = 1}
Tokens == 0 .. MaxTokens
NewRequest == [pc |-> "idle", attempt |-> 1, authRefreshed |-> FALSE, forced |-> FALSE,
               token |-> 0]

Ended == {"done", "failed"}

Init ==
  /\ grant = 0 /\ store = 0 /\ faults = 0
  /\ creds = [p \in Procs |-> store]
  /\ mu = [p \in Procs |-> NoRequest]
  /\ req = [r \in Requests |-> NewRequest]
  /\ sent = [r \in Requests |-> 0]
  /\ heard = [r \in Requests |-> {}]
  /\ holder = {} /\ refused = {}

Fault == faults < MaxFaults /\ faults' = faults + 1

-----------------------------------------------------------------------------
(* The token provider.                                                     *)

Becomes(r, next) == req' = [req EXCEPT ![r] = next]

Go(r, pc) == Becomes(r, [req[r] EXCEPT !.pc = pc])

\* A fault: the provider has no mutex.
FreeFault(p) == TRUE

Free(p) == mu[p] = NoRequest

\* Whether the access token is near its end depends on the clock:
\* accessTokenNeedsRefreshLocked may answer either way.  CurrentAccessToken
\* answers from memory ...
CurrentToken(r) ==
  /\ req[r].pc = "token" /\ Free(r[1])
  /\ Go(r, "send")
  /\ UNCHANGED <<grant, store, creds, mu, faults, history>>

\* ... or presents the refresh token, as RefreshAccessToken always does.
BeginRefresh(r) ==
  /\ Free(r[1])
  /\ req[r].pc \in {"token", "forced"}
  /\ mu' = [mu EXCEPT ![r[1]] = r]
  /\ Becomes(r, [req[r] EXCEPT !.pc = "refresh", !.forced = (req[r].pc = "forced"), !.token = creds[r[1]]])
  /\ UNCHANGED <<grant, store, creds, faults, history>>

\* A refresh that fails ends its request.
Fails(r) == Becomes(r, [req[r] EXCEPT !.pc = "failed", !.forced = FALSE, !.token = 0])

Unlock(r) == mu' = [mu EXCEPT ![r[1]] = NoRequest]

\* The authorisation server accepts the refresh token.
Accepts(r) ==
  /\ req[r].pc = "refresh" /\ req[r].token = grant /\ grant < MaxTokens
  /\ grant' = IF Rotates THEN grant + 1 ELSE grant

\* The new credentials are in memory before they are saved.
Grant(r) ==
  /\ Accepts(r)
  /\ holder' = IF Rotates THEN {r[1]} ELSE holder
  /\ creds' = [creds EXCEPT ![r[1]] = grant']
  /\ Becomes(r, [req[r] EXCEPT !.pc = "save", !.token = 0])
  /\ UNCHANGED <<store, mu, faults, sent, heard, refused>>

\* Its answer is lost, or cannot be read.
GrantLost(r) ==
  /\ Accepts(r)
  /\ Fault
  /\ holder' = {}
  /\ Fails(r) /\ Unlock(r)
  /\ UNCHANGED <<store, creds, sent, heard, refused>>

\* A fault: the credentials are saved after a refresh that was refused, too.
RefreshFailsFault(r) ==
  /\ req[r].pc = "refresh"
  /\ Fails(r) /\ Unlock(r)
  /\ store' = creds[r[1]]
  /\ UNCHANGED <<grant, creds, faults, history>>

\* It refuses a token that was rotated, or cannot be reached.
RefreshFails(r) ==
  /\ req[r].pc = "refresh"
  /\ Fails(r) /\ Unlock(r)
  /\ refused' = IF req[r].token # grant THEN refused \cup ({r[1]} \cap holder) ELSE refused
  /\ UNCHANGED <<grant, store, creds, faults, sent, heard, holder>>

\* A fault: the refresh token the process started with is saved.
SavedFault(r) == store

\* FileCredentialStore.Save replaces the file as a whole.
Saved(r) == creds[r[1]]

Save(r) ==
  /\ req[r].pc = "save"
  /\ store' = Saved(r)
  /\ Unlock(r)
  /\ IF req[r].forced
     THEN Becomes(r, [req[r] EXCEPT !.pc = "token", !.authRefreshed = TRUE, !.forced = FALSE, !.attempt = @ + 1])
     ELSE Go(r, "send")
  /\ UNCHANGED <<grant, creds, faults, sent, heard, holder, refused>>

\* A fault: the mutex is left locked when saving fails.
SaveFailsFault(r) ==
  /\ req[r].pc = "save"
  /\ Fault
  /\ Fails(r)
  /\ UNCHANGED <<grant, store, creds, mu, history>>

SaveFails(r) ==
  /\ req[r].pc = "save"
  /\ Fault
  /\ Fails(r) /\ Unlock(r)
  /\ UNCHANGED <<grant, store, creds, history>>

-----------------------------------------------------------------------------
(* The requests.                                                           *)

Start(r) ==
  /\ req[r].pc = "idle"
  /\ Go(r, "token")
  /\ UNCHANGED <<grant, store, creds, mu, faults, history>>

\* What a failed attempt ends with, and the x-should-retry header of the answer.
Errors == {"cancelled", "network", "overloaded", "context overflow", "unauthorized",
           "forbidden", "timeout", "conflict", "too many requests", "server", "invalid"}
Headers == {"true", "false", "none"}

AuthError(e) == e \in {"unauthorized", "forbidden"}

ShouldRetryAPIError(e, header) ==
  \/ e \in {"overloaded", "context overflow"}
  \/ header = "true"
  \/ /\ header = "false" => Ant /\ e = "server"
     /\ e \in {"timeout", "conflict", "too many requests", "unauthorized", "server"}

ShouldRetryError(e, header) ==
  \/ e = "network"
  \/ e \notin {"cancelled", "network"} /\ ShouldRetryAPIError(e, header)

Failures == {[auth |-> AuthError(e), retry |-> ShouldRetryError(e, h)] : e \in Errors, h \in Headers}

\* A fault: one attempt more.
MayRetryFault(r) == req[r].attempt <= MaxRetries + 1

MayRetry(r) == req[r].attempt <= MaxRetries

Retry(r) == Becomes(r, [req[r] EXCEPT !.pc = "token", !.attempt = @ + 1])

\* The end of an attempt that failed: refresh once, retry, or give up; the
\* caller may cancel the wait before a retry.
AfterError(r, f) ==
  LET refresh == f.auth /\ ~req[r].authRefreshed
      retry   == MayRetry(r) /\ f.retry
  IN \/ refresh /\ Go(r, "forced")
     \/ ~refresh /\ retry /\ Retry(r)
     \/ ~refresh /\ Go(r, "failed")

\* Whatever token it is sent with, the API may refuse a request or fail.
SendFails(r) ==
  /\ req[r].pc = "send"
  /\ sent' = [sent EXCEPT ![r] = @ + 1]
  /\ \E f \in Failures : AfterError(r, f)
  /\ UNCHANGED <<grant, store, creds, mu, faults, heard, holder, refused>>

\* The answer of doJSON is complete; that of StreamMessages only begins.
SendSucceeds(r) ==
  /\ req[r].pc = "send"
  /\ sent' = [sent EXCEPT ![r] = @ + 1]
  /\ \E pc \in {"done", "stream"} : Go(r, pc)
  /\ UNCHANGED <<grant, store, creds, mu, faults, heard, holder, refused>>

\* An event of the stream is handed to the caller.
StreamEvent(r) ==
  /\ req[r].pc = "stream"
  /\ heard' = [heard EXCEPT ![r] = @ \cup {req[r].attempt}]
  /\ UNCHANGED <<grant, store, creds, mu, req, faults, sent, holder, refused>>

\* A fault: a stream that breaks is tried again.
StreamEndsFault(r) ==
  /\ req[r].pc = "stream"
  /\ \/ Go(r, "done")
     \/ MayRetry(r) /\ Retry(r)
  /\ UNCHANGED <<grant, store, creds, mu, faults, history>>

\* The stream ends, or breaks: StreamMessages then returns the error.
StreamEnds(r) ==
  /\ req[r].pc = "stream"
  /\ \E pc \in Ended : Go(r, pc)
  /\ UNCHANGED <<grant, store, creds, mu, faults, history>>

-----------------------------------------------------------------------------
\* A process dies and is started again: it reads the credential file.
Restart(p) ==
  /\ Fault
  /\ creds' = [creds EXCEPT ![p] = store]
  /\ mu' = [mu EXCEPT ![p] = NoRequest]
  /\ req' = [r \in Requests |-> IF r[1] = p /\ req[r].pc \notin {"idle"} \cup Ended
                                THEN [req[r] EXCEPT !.pc = "failed", !.forced = FALSE, !.token = 0] ELSE req[r]]
  /\ holder' = IF store = grant THEN holder ELSE holder \ {p}
  /\ UNCHANGED <<grant, store, sent, heard, refused>>

Step(r) ==
  \/ CurrentToken(r) \/ BeginRefresh(r) \/ Grant(r) \/ GrantLost(r) \/ RefreshFails(r)
  \/ Save(r) \/ SaveFails(r)
  \/ SendFails(r) \/ SendSucceeds(r) \/ StreamEnds(r)

Next ==
  \/ \E r \in Requests : Start(r) \/ Step(r) \/ StreamEvent(r)
  \/ \E p \in Procs : Restart(p)

Spec == Init /\ [][Next]_vars

\* Every request under way is scheduled and answered in the end.
FairSpec == Spec /\ \A r \in Requests : WF_vars(Step(r))

-----------------------------------------------------------------------------
(* Properties.                                                             *)

\* The types of the variables; the mutex of a provider is held by the request
\* that refreshes, from before the token is presented until its successor is saved.
TypeOK ==
  /\ grant \in Tokens /\ faults \in 0 .. MaxFaults
  /\ store \in Tokens /\ creds \in [Procs -> Tokens]
  /\ mu \in [Procs -> Requests \cup {NoRequest}]
  /\ req \in [Requests -> [pc : {"idle", "token", "forced", "refresh", "save", "send", "stream"}
                                \cup Ended,
                           attempt : Nat, authRefreshed : BOOLEAN, forced : BOOLEAN,
                           token : Tokens]]
  /\ \A p \in Procs : {r \in Requests : r[1] = p /\ req[r].pc \in {"refresh", "save"}} = {mu[p]} \ {NoRequest}
  /\ sent \in [Requests -> Nat] /\ heard \in [Requests -> SUBSET Nat]
  /\ holder \subseteq Procs /\ refused \subseteq Procs

\* A refresh uses the newest refresh token its process was given: a process
\* that alone holds the current grant is never refused, however its requests
\* meet at the provider (token_provider.go holds mu for the whole refresh).
OwnGrantAccepted == refused = {}

\* As long as no process died, no answer of the authorisation server was lost
\* and no saving failed, the credential file holds the refresh token the
\* server accepts, whenever no refresh is between the answer and the saving:
\* a process that is started then can log in.
StoreCurrent ==
  faults = 0 /\ (\A r \in Requests : req[r].pc # "save") => store = grant

\* The file never goes back to an older refresh token, whichever process saves last.
StoreNeverRegresses == [][store' >= store]_store

\* A request is sent at most MaxRetries + 1 times, and once more if one of
\* the attempts was spent on refreshing the token.
SendsBounded ==
  \A r \in Requests : sent[r] <= MaxRetries + (IF req[r].authRefreshed THEN 2 ELSE 1)

\* A caller is given the events of one attempt only: a stream that breaks is
\* not tried again (StreamMessages).
OneStream == \A r \in Requests : Cardinality(heard[r]) <= 1

\* Retrying is bounded, and invisible to the caller.
RetriesContained == SendsBounded /\ OneStream

\* Every request ends.
RequestReturns == \A r \in Requests : req[r].pc # "idle" ~> req[r].pc \in Ended
=============================================================================
