----------------------------- MODULE McpClient -----------------------------
(***************************************************************************)
(* The MCP protocol client over its HTTP transport (internal/mcp): tool    *)
(* calls of one batch share a client, its session and its access token.    *)
(* A call the server refuses because the session or the token has expired  *)
(* recovers and is sent once more; the recovery resets the session that    *)
(* the other calls use, and runs the handshake under initMu.               *)
(*                                                                         *)
(* Sessions are numbered in the order of issue; 0 is no session.  The      *)
(* server is external: it executes a call only if it accepts the token and *)
(* knows the session, and it may repeat the session of a request in the    *)
(* header of its answer.                                                   *)
(***************************************************************************)
EXTENDS Integers

CONSTANTS Calls,
          MaxSessions, \* bound: sessions issued
          MaxFaults    \* bound: sessions and tokens that expire

ASSUME McpClientAssumption == MaxSessions \in Nat \ {0} /\ MaxFaults \in Nat

NoCall == "none"
ASSUME NoCallAssumption == NoCall \notin Calls

VARIABLES
  sessionID,    \* HTTPTransport.SessionID
  initialized,  \* ProtocolClient.initialized
  initMu,       \* the call that holds the mutex
  stale,        \* the access token of the client is no longer valid
  issued, live, \* server: sessions it issued, and those it still knows
  faults,
  call,         \* the calls
  \* History variables, for the properties.
  executed,     \* call -> times the server executed it
  shakes        \* handshakes that succeeded

history == <<executed, shakes>>
client  == <<sessionID, initialized, initMu>>
server  == <<stale, issued, live, faults>>
vars    == <<client, server, call, history>>

\* tries: how often it is sent; attempt: that of the handshake; since:
\* the handshakes there had been when the call was refused.
NewCall == [pc |-> "idle", reply |-> "none", header |-> 0, tries |-> 1,
            attempt |-> 0, since |-> 0]

Ended == {"done", "failed"}

\* The tools of a server exist only after its client was initialised.
Init ==
  /\ sessionID = 1 /\ initialized = TRUE /\ initMu = NoCall
  /\ stale = FALSE /\ issued = 1 /\ live = {1} /\ faults = 0
  /\ call = [c \in Calls |-> NewCall]
  /\ executed = [c \in Calls |-> 0] /\ shakes = 1

-----------------------------------------------------------------------------
(* The server.                                                             *)

Fault == faults < MaxFaults /\ faults' = faults + 1

ExpireSession ==
  /\ Fault
  /\ \E s \in live : live' = live \ {s}
  /\ UNCHANGED <<client, stale, issued, call, history>>

ExpireToken ==
  /\ Fault /\ ~stale
  /\ stale' = TRUE
  /\ UNCHANGED <<client, issued, live, call, history>>

\* What it answers to a call that is not executed.
Refusals == IF stale THEN {"unauthorized"} ELSE {"session expired", "error"}

Accepted == ~stale /\ sessionID \in live

-----------------------------------------------------------------------------
(* ProtocolClient.request.                                                 *)

Becomes(c, next) == call' = [call EXCEPT ![c] = next]

Go(c, pc) == Becomes(c, [call[c] EXCEPT !.pc = pc])

CallTool(c) ==
  /\ call[c].pc = "idle"
  /\ Go(c, "send")
  /\ UNCHANGED <<client, server, history>>

\* rawRequest takes no lock: the call is sent with whatever session and token
\* the client has at the moment.
Send(c) ==
  /\ call[c].pc = "send"
  /\ \E header \in {0, sessionID} :
       IF Accepted
       THEN /\ executed' = [executed EXCEPT ![c] = @ + 1]
            /\ \E reply \in {"result", "error"} :
                 Becomes(c, [call[c] EXCEPT !.pc = "reply", !.reply = reply, !.header = header])
       ELSE /\ UNCHANGED executed
            /\ \E reply \in Refusals :
                 Becomes(c, [call[c] EXCEPT !.pc = "reply", !.reply = reply, !.header = header, !.since = shakes])
  /\ UNCHANGED <<client, server, shakes>>

\* Every answer that names a session replaces the client's.
TakeSession(c) == sessionID' = IF call[c].header = 0 THEN sessionID ELSE call[c].header

\* A fault: a call is sent again whatever its error was.
NextPcFault(c) ==
  IF call[c].reply = "result" THEN "done"
  ELSE IF call[c].tries = 2 THEN "failed"
  ELSE IF call[c].reply = "unauthorized" THEN "refresh" ELSE "reset"

NextPc(c) ==
  IF call[c].reply = "result" THEN "done"
  ELSE IF call[c].tries = 2 \/ call[c].reply = "error" THEN "failed"
  ELSE IF call[c].reply = "unauthorized" THEN "refresh" ELSE "reset"

RoundTrip(c) ==
  /\ call[c].pc = "reply"
  /\ TakeSession(c)
  /\ Becomes(c, [call[c] EXCEPT !.pc = NextPc(c), !.reply = "none", !.header = 0])
  /\ UNCHANGED <<initialized, initMu, server, history>>

\* The answer is lost, cannot be read or is not waited for: no recovery.
Lose(c) ==
  /\ call[c].pc = "reply"
  /\ Becomes(c, [call[c] EXCEPT !.pc = "failed", !.reply = "none", !.header = 0])
  /\ UNCHANGED <<client, server, history>>

-----------------------------------------------------------------------------
(* recoverExpiredSession and recoverAuthorization.                         *)

ResetSession(c) ==
  /\ call[c].pc = "reset"
  /\ sessionID' = 0
  /\ Go(c, "uninitialize")
  /\ UNCHANGED <<initialized, initMu, server, history>>

\* A fault: the client still counts as initialised.
UninitializeFault(c) ==
  /\ call[c].pc = "uninitialize" /\ initMu = NoCall
  /\ Go(c, "ensure")
  /\ UNCHANGED <<client, server, history>>

Uninitialize(c) ==
  /\ call[c].pc = "uninitialize" /\ initMu = NoCall
  /\ initialized' = FALSE
  /\ Go(c, "ensure")
  /\ UNCHANGED <<sessionID, initMu, server, history>>

LockRefresh(c) ==
  /\ call[c].pc = "refresh" /\ initMu = NoCall
  /\ initMu' = c
  /\ Go(c, "refreshing")
  /\ UNCHANGED <<sessionID, initialized, server, history>>

\* refreshAuthorizationLocked, for a call and within its handshake.
RefreshAuthorization(c) ==
  /\ call[c].pc \in {"refreshing", "reauthorize"}
  /\ stale' = FALSE
  /\ sessionID' = 0 /\ initialized' = FALSE
  /\ IF call[c].pc = "refreshing"
     THEN initMu' = NoCall /\ Go(c, "ensure")
     ELSE /\ Becomes(c, [call[c] EXCEPT !.pc = "initialize", !.attempt = 1])
          /\ UNCHANGED initMu
  /\ UNCHANGED <<issued, live, faults, history>>

\* A fault: the mutex is not unlocked when the refresh fails.
RefreshFailsFault(c) ==
  /\ call[c].pc \in {"refreshing", "reauthorize"}
  /\ Go(c, "failed")
  /\ UNCHANGED <<client, server, history>>

RefreshFails(c) ==
  /\ call[c].pc \in {"refreshing", "reauthorize"}
  /\ initMu' = NoCall
  /\ Go(c, "failed")
  /\ UNCHANGED <<sessionID, initialized, server, history>>

-----------------------------------------------------------------------------
(* Initialize, by a call that recovers.                                    *)

SendAgain(c) == Becomes(c, [call[c] EXCEPT !.pc = "send", !.tries = 2, !.attempt = 0])

\* A fault: Initialize looks whether there is anything to do before it locks.
EnsureInitializedFault(c) ==
  /\ call[c].pc = "ensure"
  /\ IF initialized THEN SendAgain(c) /\ UNCHANGED initMu
     ELSE initMu' = c /\ Go(c, "initialize")
  /\ UNCHANGED <<sessionID, initialized, server, history>>

EnsureInitialized(c) ==
  /\ call[c].pc = "ensure" /\ initMu = NoCall
  /\ IF initialized THEN SendAgain(c) /\ UNCHANGED initMu
     ELSE initMu' = c /\ Go(c, "initialize")
  /\ UNCHANGED <<sessionID, initialized, server, history>>

\* The server answers with a new session.
Initialize(c) ==
  /\ call[c].pc = "initialize"
  /\ ~stale /\ issued < MaxSessions
  /\ issued' = issued + 1 /\ live' = live \cup {issued + 1}
  /\ Becomes(c, [call[c] EXCEPT !.pc = "answer", !.header = issued + 1])
  /\ UNCHANGED <<client, stale, faults, history>>

TakeInitializeResult(c) ==
  /\ call[c].pc = "answer"
  /\ TakeSession(c)
  /\ Becomes(c, [call[c] EXCEPT !.pc = "notify", !.header = 0])
  /\ UNCHANGED <<initialized, initMu, server, history>>

\* notifications/initialized completes the handshake.
SendInitialized(c) ==
  /\ call[c].pc = "notify" /\ Accepted
  /\ initialized' = TRUE /\ initMu' = NoCall
  /\ shakes' = shakes + 1
  /\ SendAgain(c)
  /\ UNCHANGED <<sessionID, server, executed>>

\* Either request is refused for its token, and the handshake begins again once ...
Unauthorized(c) ==
  /\ call[c].pc \in {"initialize", "notify"} /\ stale /\ call[c].attempt = 0
  /\ Go(c, "reauthorize")
  /\ UNCHANGED <<client, server, history>>

\* ... or it fails: the server cannot be reached, does not know the session,
\* or speaks another version of the protocol.
InitializeFails(c) ==
  /\ call[c].pc \in {"initialize", "notify"} /\ (stale => call[c].attempt = 1)
  /\ initMu' = NoCall
  /\ Go(c, "failed")
  /\ UNCHANGED <<sessionID, initialized, server, history>>

Step(c) ==
  \/ Send(c) \/ RoundTrip(c) \/ Lose(c)
  \/ ResetSession(c) \/ Uninitialize(c) \/ LockRefresh(c) \/ RefreshAuthorization(c) \/ RefreshFails(c)
  \/ EnsureInitialized(c) \/ Initialize(c) \/ TakeInitializeResult(c) \/ SendInitialized(c)
  \/ Unauthorized(c) \/ InitializeFails(c)

Next == (\E c \in Calls : CallTool(c) \/ Step(c)) \/ ExpireSession \/ ExpireToken

Spec == Init /\ [][Next]_vars

\* A request that was sent is answered or given up, and a free mutex goes round.
FairSpec == Spec /\ \A c \in Calls : WF_vars(Step(c))

-----------------------------------------------------------------------------
(* Properties.                                                             *)

Locked == {"refreshing", "reauthorize", "initialize", "answer", "notify"}

\* The types of the variables; initMu is held by the call in a handshake or a refresh.
TypeOK ==
  /\ sessionID \in 0 .. issued /\ issued \in 1 .. MaxSessions /\ live \subseteq 1 .. issued
  /\ initialized \in BOOLEAN /\ stale \in BOOLEAN /\ faults \in 0 .. MaxFaults
  /\ call \in [Calls -> [pc : {"idle", "send", "reply", "reset", "uninitialize", "refresh", "ensure"}
                               \cup Locked \cup Ended,
                         reply : {"none", "result", "error", "unauthorized", "session expired"},
                         header : 0 .. MaxSessions, tries : 1 .. 2, attempt : 0 .. 1, since : Nat]]
  /\ {c \in Calls : call[c].pc \in Locked} = {initMu} \ {NoCall}
  /\ executed \in [Calls -> Nat] /\ shakes \in Nat

\* However the recoveries of concurrent calls meet, a call is executed at most
\* once, and one that reports a result was executed (request sends again only
\* what was refused).
ExecutedOnce ==
  \A c \in Calls : executed[c] <= 1 /\ (call[c].pc = "done" => executed[c] = 1)

\* A call is sent again only after a handshake that was completed since it
\* was refused, its own or that of another call.
RecoveredFirst ==
  \A c \in Calls : call[c].pc = "send" /\ call[c].tries = 2 => shakes > call[c].since

\* Every call returns, and so none is left with initMu locked.
CallReturns == \A c \in Calls : call[c].pc # "idle" ~> call[c].pc \in Ended
=============================================================================
