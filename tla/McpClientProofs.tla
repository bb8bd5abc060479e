-------------------------- MODULE McpClientProofs --------------------------
(***************************************************************************)
(* Proofs about McpClient, for every set of calls and any number of        *)
(* sessions and expiries.                                                  *)
(***************************************************************************)
EXTENDS McpClient, TLAPS

\* The calls that the server has not executed, wherever they are.
Waiting == {"idle", "send", "reset", "uninitialize", "refresh", "ensure"} \cup Locked

\* The calls are records, and what is counted is a number.
HasFields(r) ==
  /\ "pc" \in DOMAIN r /\ "reply" \in DOMAIN r /\ "header" \in DOMAIN r
  /\ "tries" \in DOMAIN r /\ "attempt" \in DOMAIN r /\ "since" \in DOMAIN r

Shape ==
  /\ DOMAIN call = Calls
  /\ \A c \in Calls : HasFields(call[c]) /\ call[c].since \in Nat
  /\ executed \in [Calls -> Nat] /\ shakes \in Nat

\* initMu is held exactly by the call inside Initialize or the refresh.
Mutex == \A c \in Calls : call[c].pc \in Locked <=> initMu = c

\* Where a call is tells how often it was executed.
Counts ==
  \A c \in Calls :
    /\ call[c].pc \in Waiting => executed[c] = 0
    /\ call[c].pc = "reply" /\ call[c].reply \notin {"result", "error"} => executed[c] = 0
    /\ call[c].pc = "reply" /\ call[c].reply = "result" => executed[c] = 1
    /\ call[c].pc = "done" => executed[c] = 1
    /\ executed[c] <= 1

\* A call that waits for the handshake finds the client initialised only by
\* one that came after its refusal.
Fresh ==
  \A c \in Calls :
    /\ call[c].pc = "idle" => call[c].tries = 1
    /\ call[c].since <= shakes
    /\ call[c].pc = "ensure" /\ initialized = TRUE => shakes > call[c].since
    /\ call[c].pc = "send" /\ call[c].tries = 2 => shakes > call[c].since

IInv == Shape /\ Mutex /\ Counts /\ Fresh

-----------------------------------------------------------------------------
(* How a step moves a call, field by field.                                *)

Moved(c, pc, reply, tries, since) ==
  /\ DOMAIN call' = Calls
  /\ \A d \in Calls : d # c => call'[d] = call[d]
  /\ HasFields(call'[c])
  /\ call'[c].pc = pc /\ call'[c].reply = reply
  /\ call'[c].tries = tries /\ call'[c].since = since

LEMMA BecomesMoves ==
  ASSUME Shape, NEW c \in Calls, NEW next, Becomes(c, next), HasFields(next)
  PROVE  Moved(c, next.pc, next.reply, next.tries, next.since)
<1>1. call' = [call EXCEPT ![c] = next]
  BY DEF Becomes
<1>2. DOMAIN call' = Calls /\ call'[c] = next /\ \A d \in Calls : d # c => call'[d] = call[d]
  BY <1>1 DEF Shape
<1> QED BY <1>2 DEF Moved

LEMMA GoMoves ==
  ASSUME Shape, NEW c \in Calls, NEW pc, Go(c, pc)
  PROVE  Moved(c, pc, call[c].reply, call[c].tries, call[c].since)
<1> DEFINE next == [call[c] EXCEPT !.pc = pc]
<1>1. Becomes(c, next)
  BY DEF Go
<1>2. HasFields(next) /\ next.pc = pc /\ next.reply = call[c].reply
      /\ next.tries = call[c].tries /\ next.since = call[c].since
  BY DEF Shape, HasFields
<1> HIDE DEF next
<1>3. Moved(c, next.pc, next.reply, next.tries, next.since)
  BY <1>1, <1>2, BecomesMoves
<1> QED BY <1>2, <1>3, Zenon

LEMMA SendAgainMoves ==
  ASSUME Shape, NEW c \in Calls, SendAgain(c)
  PROVE  Moved(c, "send", call[c].reply, 2, call[c].since)
<1> DEFINE next == [call[c] EXCEPT !.pc = "send", !.tries = 2, !.attempt = 0]
<1>1. Becomes(c, next)
  BY DEF SendAgain
<1>2. HasFields(next) /\ next.pc = "send" /\ next.reply = call[c].reply
      /\ next.tries = 2 /\ next.since = call[c].since
  BY DEF Shape, HasFields
<1> HIDE DEF next
<1>3. Moved(c, next.pc, next.reply, next.tries, next.since)
  BY <1>1, <1>2, BecomesMoves
<1> QED BY <1>2, <1>3, Zenon

-----------------------------------------------------------------------------
LEMMA InitIInv == Init => IInv
  BY NoCallAssumption
  DEF Init, IInv, Shape, HasFields, Mutex, Counts, Fresh, NewCall, Waiting, Locked

\* Steps of the server and stutters leave what the invariant is about alone.
LEMMA Untouched ==
  ASSUME IInv, UNCHANGED <<call, initialized, initMu, executed, shakes>>
  PROVE  IInv'
  BY DEF IInv, Shape, HasFields, Mutex, Counts, Fresh

\* A call that moves outside the critical section, to no place that promises
\* anything of it, and changes nothing the others see.
LEMMA Outside ==
  ASSUME IInv, NEW c \in Calls, NEW pc, NEW reply,
         Moved(c, pc, reply, call[c].tries, call[c].since),
         call[c].pc \notin Locked, pc \notin Locked \cup {"idle", "reply", "ensure"},
         pc = "send" => call[c].pc = "idle",
         pc \in Waiting => executed[c] = 0, pc = "done" => executed[c] = 1,
         UNCHANGED <<initialized, initMu, executed, shakes>>
  PROVE  IInv'
<1>1. Moved(c, pc, reply, call[c].tries, call[c].since)
  OBVIOUS
<1>2. Shape' BY <1>1 DEF IInv, Shape, Moved
<1>3. Mutex' BY <1>1 DEF IInv, Mutex, Moved
<1>4. Counts' BY <1>1 DEF IInv, Counts, Moved
<1>5. Fresh' BY <1>1 DEF IInv, Shape, Fresh, Moved
<1> QED BY <1>2, <1>3, <1>4, <1>5 DEF IInv

LEMMA CallToolStep == ASSUME IInv, NEW c \in Calls, CallTool(c) PROVE IInv'
<1>1. call[c].pc = "idle" /\ Go(c, "send") /\ UNCHANGED <<initialized, initMu, executed, shakes>>
  BY DEF CallTool, client, history
<1>2. Moved(c, "send", call[c].reply, call[c].tries, call[c].since)
  BY <1>1, GoMoves DEF IInv
<1>3. executed[c] = 0
  BY <1>1 DEF IInv, Counts, Waiting
<1> QED BY <1>1, <1>2, <1>3, Outside DEF Locked

\* Only Send executes, and it begins with a call that was not executed.
LEMMA SendStep == ASSUME IInv, NEW c \in Calls, Send(c) PROVE IInv'
<1>1. /\ call[c].pc = "send" /\ executed[c] = 0
      /\ UNCHANGED <<initialized, initMu, shakes>>
  BY DEF Send, client, IInv, Counts, Waiting
<1>2. CASE Accepted
  <2>1a. PICK header : \E reply \in {"result", "error"} :
          Becomes(c, [call[c] EXCEPT !.pc = "reply", !.reply = reply, !.header = header])
    BY <1>2, Zenon DEF Send
  <2>1. PICK reply \in {"result", "error"} :
          Becomes(c, [call[c] EXCEPT !.pc = "reply", !.reply = reply, !.header = header])
    BY <2>1a, Zenon
  <2> DEFINE next == [call[c] EXCEPT !.pc = "reply", !.reply = reply, !.header = header]
  <2>2. /\ HasFields(next) /\ next.pc = "reply" /\ next.reply = reply
        /\ next.tries = call[c].tries /\ next.since = call[c].since
    BY DEF IInv, Shape, HasFields
  <2>3. Becomes(c, next)
    BY <2>1
  <2> HIDE DEF next
  <2>4. Moved(c, "reply", reply, call[c].tries, call[c].since)
    <3>1. Moved(c, next.pc, next.reply, next.tries, next.since)
      BY <2>2, <2>3, BecomesMoves DEF IInv
    <3> QED BY <2>2, <3>1, Zenon
  <2>5. executed' = [executed EXCEPT ![c] = @ + 1]
    BY <1>2 DEF Send
  <2>6. executed'[c] = 1 /\ \A d \in Calls : d # c => executed'[d] = executed[d]
    BY <1>1, <2>5 DEF IInv, Shape
  <2>7. Shape' BY <1>1, <2>4, <2>5 DEF IInv, Shape, Moved
  <2>8. Mutex' BY <1>1, <2>4 DEF IInv, Mutex, Moved, Locked
  <2>9. Counts'
    <3> SUFFICES ASSUME NEW d \in Calls PROVE (Counts!(d))'
      BY DEF Counts
    <3>1. CASE d = c BY <2>1, <2>4, <2>6, <3>1 DEF Moved, Waiting, Locked
    <3>2. CASE d # c BY <2>4, <2>6, <3>2 DEF IInv, Counts, Moved
    <3> QED BY <3>1, <3>2
  <2>10. Fresh' BY <1>1, <2>4 DEF IInv, Fresh, Moved
  <2> QED BY <2>7, <2>8, <2>9, <2>10 DEF IInv
<1>3. CASE ~Accepted
  <2>1a. PICK header : \E reply \in Refusals :
          Becomes(c, [call[c] EXCEPT !.pc = "reply", !.reply = reply, !.header = header, !.since = shakes])
    BY <1>3, Zenon DEF Send
  <2>1. PICK reply \in Refusals :
          Becomes(c, [call[c] EXCEPT !.pc = "reply", !.reply = reply, !.header = header, !.since = shakes])
    BY <2>1a, Zenon
  <2> DEFINE next == [call[c] EXCEPT !.pc = "reply", !.reply = reply, !.header = header, !.since = shakes]
  <2>2. /\ HasFields(next) /\ next.pc = "reply" /\ next.reply = reply
        /\ next.tries = call[c].tries /\ next.since = shakes
    BY DEF IInv, Shape, HasFields
  <2>3. Becomes(c, next)
    BY <2>1
  <2> HIDE DEF next
  <2>4. Moved(c, "reply", reply, call[c].tries, shakes)
    <3>1. Moved(c, next.pc, next.reply, next.tries, next.since)
      BY <2>2, <2>3, BecomesMoves DEF IInv
    <3> QED BY <2>2, <3>1, Zenon
  <2>5. UNCHANGED executed
    BY <1>3 DEF Send
  <2>6. reply # "result"
    BY <2>1 DEF Refusals
  <2>7. Shape' BY <1>1, <2>4, <2>5 DEF IInv, Shape, Moved
  <2>8. Mutex' BY <1>1, <2>4 DEF IInv, Mutex, Moved, Locked
  <2>9. Counts' BY <1>1, <2>4, <2>5, <2>6 DEF IInv, Counts, Moved, Waiting, Locked
  <2>10. Fresh' BY <1>1, <2>4 DEF IInv, Shape, Fresh, Moved
  <2> QED BY <2>7, <2>8, <2>9, <2>10 DEF IInv
<1> QED BY <1>2, <1>3

\* An answer is read or lost: what was executed is not sent again.
LEMMA ReplyStep == ASSUME IInv, NEW c \in Calls, RoundTrip(c) \/ Lose(c) PROVE IInv'
<1>1. call[c].pc = "reply" /\ UNCHANGED <<initialized, initMu, executed, shakes>>
  BY DEF RoundTrip, Lose, client, history
<1>2. PICK pc \in {NextPc(c), "failed"} :
        Becomes(c, [call[c] EXCEPT !.pc = pc, !.reply = "none", !.header = 0])
  BY DEF RoundTrip, Lose
<1> DEFINE next == [call[c] EXCEPT !.pc = pc, !.reply = "none", !.header = 0]
<1>3. /\ HasFields(next) /\ next.pc = pc /\ next.reply = "none"
      /\ next.tries = call[c].tries /\ next.since = call[c].since
  BY DEF IInv, Shape, HasFields
<1>4. Becomes(c, next)
  BY <1>2
<1> HIDE DEF next
<1>5. Moved(c, pc, "none", call[c].tries, call[c].since)
  <2>1. Moved(c, next.pc, next.reply, next.tries, next.since)
    BY <1>3, <1>4, BecomesMoves DEF IInv
  <2> QED BY <1>3, <2>1, Zenon
<1>6. /\ pc \in {"done", "failed", "refresh", "reset"}
      /\ pc = "done" => call[c].reply = "result"
      /\ pc \in {"refresh", "reset"} => call[c].reply # "result" /\ call[c].reply # "error"
  BY <1>2 DEF NextPc
<1>7. pc \in {"refresh", "reset"} => executed[c] = 0
  BY <1>1, <1>6 DEF IInv, Counts
<1>8. Shape' BY <1>1, <1>5 DEF IInv, Shape, Moved
<1>9. Mutex' BY <1>1, <1>5, <1>6 DEF IInv, Mutex, Moved, Locked
<1>10. Counts' BY <1>1, <1>5, <1>6, <1>7 DEF IInv, Counts, Moved, Waiting, Locked
<1>11. Fresh' BY <1>1, <1>5, <1>6 DEF IInv, Fresh, Moved
<1> QED BY <1>8, <1>9, <1>10, <1>11 DEF IInv

LEMMA ResetStep == ASSUME IInv, NEW c \in Calls, ResetSession(c) PROVE IInv'
<1>1. /\ call[c].pc = "reset" /\ Go(c, "uninitialize")
      /\ UNCHANGED <<initialized, initMu, executed, shakes>>
  BY DEF ResetSession, history
<1>2. Moved(c, "uninitialize", call[c].reply, call[c].tries, call[c].since)
  BY <1>1, GoMoves DEF IInv
<1>3. executed[c] = 0
  BY <1>1 DEF IInv, Counts, Waiting
<1> QED BY <1>1, <1>2, <1>3, Outside DEF Locked

\* From here the call does not go on before a handshake.
LEMMA UninitializeStep == ASSUME IInv, NEW c \in Calls, Uninitialize(c) PROVE IInv'
<1>1. /\ call[c].pc = "uninitialize" /\ Go(c, "ensure")
      /\ initialized' = FALSE /\ UNCHANGED <<initMu, executed, shakes>>
  BY DEF Uninitialize, history
<1>2. Moved(c, "ensure", call[c].reply, call[c].tries, call[c].since)
  BY <1>1, GoMoves DEF IInv
<1>3. Shape' BY <1>1, <1>2 DEF IInv, Shape, Moved
<1>4. Mutex' BY <1>1, <1>2 DEF IInv, Mutex, Moved, Locked
<1>5. Counts' BY <1>1, <1>2 DEF IInv, Counts, Moved, Waiting
<1>6. Fresh' BY <1>1, <1>2 DEF IInv, Fresh, Moved
<1> QED BY <1>3, <1>4, <1>5, <1>6 DEF IInv

\* A call that takes the free mutex.
LEMMA Lock ==
  ASSUME IInv, NEW c \in Calls, NEW pc \in Locked, Go(c, pc), initMu = NoCall, initMu' = c,
         call[c].pc \in {"refresh", "ensure"}, UNCHANGED <<initialized, executed, shakes>>
  PROVE  IInv'
<1>1. Moved(c, pc, call[c].reply, call[c].tries, call[c].since)
  <2>1. Go(c, pc) OBVIOUS
  <2> QED BY <2>1, GoMoves DEF IInv
<1>2. \A d \in Calls : call[d].pc \notin Locked
  BY NoCallAssumption DEF IInv, Mutex
<1>3. Shape' BY <1>1 DEF IInv, Shape, Moved
<1>4. Mutex' BY <1>1, <1>2 DEF IInv, Mutex, Moved
<1>5. Counts' BY <1>1 DEF IInv, Counts, Moved, Waiting, Locked
<1>6. Fresh' BY <1>1 DEF IInv, Fresh, Moved, Locked
<1> QED BY <1>3, <1>4, <1>5, <1>6 DEF IInv

LEMMA LockRefreshStep == ASSUME IInv, NEW c \in Calls, LockRefresh(c) PROVE IInv'
<1>1. /\ call[c].pc = "refresh" /\ Go(c, "refreshing") /\ initMu = NoCall /\ initMu' = c
      /\ UNCHANGED <<initialized, executed, shakes>>
  BY DEF LockRefresh, history
<1> QED BY <1>1, Lock DEF Locked

\* The call may find that another one has completed the handshake for it.
LEMMA EnsureStep == ASSUME IInv, NEW c \in Calls, EnsureInitialized(c) PROVE IInv'
<1>1. /\ call[c].pc = "ensure" /\ initMu = NoCall
      /\ UNCHANGED <<initialized, executed, shakes>>
  BY DEF EnsureInitialized, history
<1>2. CASE initialized
  <2>1. SendAgain(c) /\ UNCHANGED initMu
    BY <1>2 DEF EnsureInitialized
  <2>2. Moved(c, "send", call[c].reply, 2, call[c].since)
    BY <2>1, SendAgainMoves DEF IInv
  <2>3. shakes > call[c].since
    BY <1>1, <1>2 DEF IInv, Fresh
  <2>4. Shape' BY <1>1, <2>2 DEF IInv, Shape, Moved
  <2>5. Mutex' BY <1>1, <2>1, <2>2 DEF IInv, Mutex, Moved, Locked
  <2>6. Counts' BY <1>1, <2>2 DEF IInv, Counts, Moved, Waiting
  <2>7. Fresh' BY <1>1, <2>2, <2>3 DEF IInv, Fresh, Moved
  <2> QED BY <2>4, <2>5, <2>6, <2>7 DEF IInv
<1>3. CASE ~initialized
  <2>1. Go(c, "initialize") /\ initMu' = c
    BY <1>3 DEF EnsureInitialized
  <2> QED BY <1>1, <2>1, Lock DEF Locked
<1> QED BY <1>2, <1>3

\* A call that stays inside.
LEMMA Inside ==
  ASSUME IInv, NEW c \in Calls, NEW pc \in Locked, call[c].pc \in Locked,
         Moved(c, pc, call[c].reply, call[c].tries, call[c].since),
         initialized' \in {FALSE, initialized}, UNCHANGED <<initMu, executed, shakes>>
  PROVE  IInv'
<1>1. Moved(c, pc, call[c].reply, call[c].tries, call[c].since)
  OBVIOUS
<1>2. Shape' BY <1>1 DEF IInv, Shape, Moved
<1>3. Mutex' BY <1>1 DEF IInv, Mutex, Moved
<1>4. Counts' BY <1>1 DEF IInv, Counts, Moved, Waiting, Locked
<1>5. Fresh' BY <1>1 DEF IInv, Fresh, Moved, Locked
<1> QED BY <1>2, <1>3, <1>4, <1>5 DEF IInv

\* A call that unlocks and fails, or goes on to Initialize.
LEMMA Unlock ==
  ASSUME IInv, NEW c \in Calls, NEW pc, Go(c, pc), call[c].pc \in Locked, initMu' = NoCall,
         pc = "failed" \/ (pc = "ensure" /\ initialized' = FALSE),
         initialized' \in {FALSE, initialized}, UNCHANGED <<executed, shakes>>
  PROVE  IInv'
<1>1. Moved(c, pc, call[c].reply, call[c].tries, call[c].since)
  <2>1. Go(c, pc) OBVIOUS
  <2> QED BY <2>1, GoMoves DEF IInv
<1>2. \A d \in Calls : d # c => call[d].pc \notin Locked
  BY DEF IInv, Mutex
<1>3. Shape' BY <1>1 DEF IInv, Shape, Moved
<1>4. Mutex' BY <1>1, <1>2, NoCallAssumption DEF Mutex, Moved, Locked
<1>5. Counts' BY <1>1 DEF IInv, Counts, Moved, Waiting
<1>6. Fresh' BY <1>1, ZenonT(60) DEF IInv, Fresh, Moved
<1> QED BY <1>3, <1>4, <1>5, <1>6 DEF IInv

LEMMA RefreshStep == ASSUME IInv, NEW c \in Calls, RefreshAuthorization(c) PROVE IInv'
<1>1. /\ call[c].pc \in Locked /\ initialized' = FALSE
      /\ UNCHANGED <<executed, shakes>>
  BY DEF RefreshAuthorization, history, Locked
<1>2. CASE call[c].pc = "refreshing"
  <2>1. initMu' = NoCall /\ Go(c, "ensure")
    BY <1>2 DEF RefreshAuthorization
  <2> QED BY <1>1, <2>1, Unlock
<1>3. CASE call[c].pc # "refreshing"
  <2> DEFINE next == [call[c] EXCEPT !.pc = "initialize", !.attempt = 1]
  <2>1. Becomes(c, next) /\ UNCHANGED initMu
    BY <1>3 DEF RefreshAuthorization
  <2>2. /\ HasFields(next) /\ next.pc = "initialize" /\ next.reply = call[c].reply
        /\ next.tries = call[c].tries /\ next.since = call[c].since
    BY DEF IInv, Shape, HasFields
  <2> HIDE DEF next
  <2>3. Moved(c, next.pc, next.reply, next.tries, next.since)
    BY <2>1, <2>2, BecomesMoves DEF IInv
  <2>4. Moved(c, "initialize", call[c].reply, call[c].tries, call[c].since)
    BY <2>2, <2>3, Zenon
  <2> QED BY <1>1, <2>1, <2>4, Inside DEF Locked
<1> QED BY <1>2, <1>3

LEMMA FailStep == ASSUME IInv, NEW c \in Calls, RefreshFails(c) \/ InitializeFails(c) PROVE IInv'
<1>1. /\ call[c].pc \in Locked /\ initMu' = NoCall /\ Go(c, "failed")
      /\ UNCHANGED <<initialized, executed, shakes>>
  BY DEF RefreshFails, InitializeFails, history, Locked
<1> QED BY <1>1, Unlock

LEMMA HandshakeStep ==
  ASSUME IInv, NEW c \in Calls, Initialize(c) \/ TakeInitializeResult(c)
  PROVE  IInv'
<1>1. /\ call[c].pc \in Locked /\ UNCHANGED <<initialized, initMu, executed, shakes>>
  BY DEF Initialize, TakeInitializeResult, client, history, Locked
<1>2. PICK pc \in {"answer", "notify"}, header \in {issued + 1, 0} :
        Becomes(c, [call[c] EXCEPT !.pc = pc, !.header = header])
  BY DEF Initialize, TakeInitializeResult
<1> DEFINE next == [call[c] EXCEPT !.pc = pc, !.header = header]
<1>3. /\ HasFields(next) /\ next.pc = pc /\ next.reply = call[c].reply
      /\ next.tries = call[c].tries /\ next.since = call[c].since
  BY DEF IInv, Shape, HasFields
<1>4. Becomes(c, next)
  BY <1>2
<1> HIDE DEF next
<1>5. Moved(c, next.pc, next.reply, next.tries, next.since)
  BY <1>3, <1>4, BecomesMoves DEF IInv
<1>6. Moved(c, pc, call[c].reply, call[c].tries, call[c].since)
  BY <1>3, <1>5, Zenon
<1> QED BY <1>1, <1>2, <1>6, Inside DEF Locked

LEMMA UnauthorizedStep == ASSUME IInv, NEW c \in Calls, Unauthorized(c) PROVE IInv'
<1>1. /\ call[c].pc \in Locked /\ Go(c, "reauthorize")
      /\ UNCHANGED <<initialized, initMu, executed, shakes>>
  BY DEF Unauthorized, client, history, Locked
<1>2. Moved(c, "reauthorize", call[c].reply, call[c].tries, call[c].since)
  BY <1>1, GoMoves DEF IInv
<1> QED BY <1>1, <1>2, Inside DEF Locked

\* A completed handshake is later than every refusal so far, so it serves all
\* the calls that wait for one.
LEMMA SendInitializedStep == ASSUME IInv, NEW c \in Calls, SendInitialized(c) PROVE IInv'
<1>1. /\ call[c].pc = "notify" /\ initMu' = NoCall /\ shakes' = shakes + 1
      /\ UNCHANGED executed /\ SendAgain(c)
  BY DEF SendInitialized
<1>2. Moved(c, "send", call[c].reply, 2, call[c].since)
  BY <1>1, SendAgainMoves DEF IInv
<1>3. \A d \in Calls : d # c => call[d].pc \notin Locked
  BY <1>1 DEF IInv, Mutex, Locked
<1>4. \A d \in Calls : shakes' > call[d].since
  BY <1>1 DEF IInv, Shape, Fresh
<1>5. Shape' BY <1>1, <1>2 DEF IInv, Shape, Moved
<1>6. Mutex' BY <1>1, <1>2, <1>3, NoCallAssumption DEF Mutex, Moved, Locked
<1>7. Counts' BY <1>1, <1>2 DEF IInv, Counts, Moved, Waiting, Locked
<1>8. Fresh' BY <1>2, <1>4, <1>5 DEF IInv, Fresh, Shape, Moved
<1> QED BY <1>5, <1>6, <1>7, <1>8 DEF IInv

LEMMA Inductive == Spec => []IInv
<1>1. IInv /\ [Next]_vars => IInv'
  <2> SUFFICES ASSUME IInv, [Next]_vars PROVE IInv'
    OBVIOUS
  <2>1. CASE UNCHANGED vars
    BY <2>1, Untouched DEF vars, client, history
  <2>2. CASE ExpireSession \/ ExpireToken
    BY <2>2, Untouched DEF ExpireSession, ExpireToken, client, history
  <2>3. ASSUME NEW c \in Calls, CallTool(c) \/ Step(c) PROVE IInv'
    BY <2>3, CallToolStep, SendStep, ReplyStep, ResetStep, UninitializeStep, LockRefreshStep,
       RefreshStep, FailStep, EnsureStep, HandshakeStep, SendInitializedStep, UnauthorizedStep
    DEF Step
  <2> QED BY <2>1, <2>2, <2>3 DEF Next
<1> QED BY <1>1, InitIInv, PTL DEF Spec

-----------------------------------------------------------------------------
\* However the recoveries of any number of calls meet (request, protocol.go),
\* no call is executed twice and a result stands for one execution.
THEOREM NoCallTwice == Spec => []ExecutedOnce
<1>1. IInv => ExecutedOnce
  BY DEF IInv, Counts, ExecutedOnce
<1> QED BY <1>1, Inductive, PTL

\* A call is sent again only after a handshake completed since its refusal,
\* whoever ran it (recoverExpiredSession and recoverAuthorization).
THEOREM HandshakeBeforeRetry == Spec => []RecoveredFirst
<1>1. IInv => RecoveredFirst
  BY DEF IInv, Fresh, RecoveredFirst
<1> QED BY <1>1, Inductive, PTL

\* At most one call is inside Initialize or refreshAuthorizationLocked, and a
\* call that has returned does not hold initMu.
THEOREM InitMuExcludes ==
  Spec => [](\A c, d \in Calls : /\ call[c].pc \in Locked /\ call[d].pc \in Locked => c = d
                                /\ call[c].pc \in Ended => initMu # c)
<1>1. IInv => (\A c, d \in Calls : /\ call[c].pc \in Locked /\ call[d].pc \in Locked => c = d
                                  /\ call[c].pc \in Ended => initMu # c)
  BY DEF IInv, Mutex, Locked, Ended
<1> QED BY <1>1, Inductive, PTL

-----------------------------------------------------------------------------
(* Types.  No answer names a session that was not issued, so the client's  *)
(* session is one of the server's.                                         *)

Point == {"idle", "send", "reply", "reset", "uninitialize", "refresh", "ensure"} \cup Locked \cup Ended

CallType(n) ==
  [pc : Point, reply : {"none", "result", "error", "unauthorized", "session expired"},
   header : 0 .. n, tries : 1 .. 2, attempt : 0 .. 1, since : Nat]

Types ==
  /\ sessionID \in 0 .. issued /\ issued \in 1 .. MaxSessions /\ live \subseteq 1 .. issued
  /\ initialized \in BOOLEAN /\ stale \in BOOLEAN /\ faults \in 0 .. MaxFaults
  /\ initMu \in Calls \cup {NoCall}
  /\ call \in [Calls -> CallType(issued)]

\* A call that becomes a record of the type, while sessions may be issued.
LEMMA BecomesTyped ==
  ASSUME Types, NEW c \in Calls, NEW next, Becomes(c, next),
         NEW n \in 1 .. MaxSessions, issued <= n, next \in CallType(n)
  PROVE  call' \in [Calls -> CallType(n)]
<1>0. 0 .. issued \subseteq 0 .. n
  BY McpClientAssumption DEF Types
<1>1. CallType(issued) \subseteq CallType(n)
  BY <1>0 DEF CallType
<1> QED BY <1>1 DEF Becomes, Types

\* Where the number of issued sessions does not change.
LEMMA CallTyped ==
  ASSUME Types, NEW c \in Calls, NEW next, Becomes(c, next), next \in CallType(issued), issued' = issued
  PROVE  call' \in [Calls -> CallType(issued)]'
<1>1. issued \in 1 .. MaxSessions /\ issued <= issued /\ Becomes(c, next) /\ next \in CallType(issued)
  BY McpClientAssumption DEF Types
<1>2. call' \in [Calls -> CallType(issued)]
  BY <1>1, BecomesTyped
<1> QED BY <1>2

LEMMA GoTyped ==
  ASSUME Types, NEW c \in Calls, NEW pc \in Point, Go(c, pc), issued' = issued
  PROVE  call' \in [Calls -> CallType(issued)]'
<1> DEFINE next == [call[c] EXCEPT !.pc = pc]
<1>1. Becomes(c, next)
  BY DEF Go
<1>2. next \in CallType(issued)
  BY DEF Types, CallType
<1> HIDE DEF next
<1> QED BY <1>1, <1>2, CallTyped

LEMMA SendAgainTyped ==
  ASSUME Types, NEW c \in Calls, SendAgain(c), issued' = issued
  PROVE  call' \in [Calls -> CallType(issued)]'
<1> DEFINE next == [call[c] EXCEPT !.pc = "send", !.tries = 2, !.attempt = 0]
<1>1. Becomes(c, next)
  BY DEF SendAgain
<1>2. next \in CallType(issued)
  <2>1. 2 \in 1 .. 2 /\ 0 \in 0 .. 1
    OBVIOUS
  <2> QED BY <2>1, ZenonT(60) DEF Types, CallType, Point
<1> HIDE DEF next
<1> QED BY <1>1, <1>2, CallTyped

LEMMA TypesStep ==
  ASSUME IInv, Types, NEW c \in Calls, CallTool(c) \/ Step(c)
  PROVE  Types'
<1>t. /\ sessionID \in 0 .. issued /\ issued \in 1 .. MaxSessions /\ live \subseteq 1 .. issued
      /\ call[c] \in CallType(issued) /\ call[c].header \in 0 .. issued
  BY DEF Types, CallType
<1>n. issued \in Nat /\ 0 \in 0 .. issued /\ 1 \in 0 .. 1 /\ sessionID \in Int
  BY <1>t, McpClientAssumption
<1>p. {"send", "uninitialize", "ensure", "failed", "refreshing", "initialize", "reauthorize"} \subseteq Point
  BY DEF Point, Locked, Ended
<1>1. CASE CallTool(c)
  BY <1>1, <1>p, GoTyped DEF CallTool, client, server, Types
<1>2. CASE Send(c)
  <2>1. PICK header \in {0, sessionID} :
          \/ \E reply \in {"result", "error"} :
               Becomes(c, [call[c] EXCEPT !.pc = "reply", !.reply = reply, !.header = header])
          \/ \E reply \in Refusals :
               Becomes(c, [call[c] EXCEPT !.pc = "reply", !.reply = reply, !.header = header, !.since = shakes])
    BY <1>2, Zenon DEF Send
  <2>2. PICK reply \in {"result", "error", "unauthorized", "session expired"} :
          \/ Becomes(c, [call[c] EXCEPT !.pc = "reply", !.reply = reply, !.header = header])
          \/ Becomes(c, [call[c] EXCEPT !.pc = "reply", !.reply = reply, !.header = header, !.since = shakes])
    BY <2>1, Zenon DEF Refusals
  <2>3. /\ [call[c] EXCEPT !.pc = "reply", !.reply = reply, !.header = header] \in CallType(issued)
        /\ [call[c] EXCEPT !.pc = "reply", !.reply = reply, !.header = header, !.since = shakes] \in CallType(issued)
    BY <1>t, <1>n DEF CallType, Point, IInv, Shape
  <2>4. UNCHANGED <<client, server>>
    BY <1>2 DEF Send
  <2>5. call' \in [Calls -> CallType(issued)]'
    BY <2>2, <2>3, <2>4, CallTyped DEF server
  <2> QED BY <2>4, <2>5 DEF client, server, Types
<1>3. CASE RoundTrip(c) \/ Lose(c)
  <2>1. PICK pc \in {NextPc(c), "failed"} :
          Becomes(c, [call[c] EXCEPT !.pc = pc, !.reply = "none", !.header = 0])
    BY <1>3 DEF RoundTrip, Lose
  <2>2. pc \in Point
    BY DEF NextPc, Point, Ended
  <2>3. [call[c] EXCEPT !.pc = pc, !.reply = "none", !.header = 0] \in CallType(issued)
    BY <1>t, <1>n, <2>2 DEF CallType
  <2>4. UNCHANGED <<initialized, initMu, server>> /\ sessionID' \in {sessionID, call[c].header}
    BY <1>3 DEF RoundTrip, Lose, client, TakeSession
  <2>5. call' \in [Calls -> CallType(issued)]'
    BY <2>1, <2>3, <2>4, CallTyped DEF server
  <2> QED BY <1>t, <2>4, <2>5 DEF server, Types
<1>4. CASE ResetSession(c) \/ Uninitialize(c) \/ LockRefresh(c)
  <2>1. /\ Go(c, "uninitialize") \/ Go(c, "ensure") \/ Go(c, "refreshing")
        /\ UNCHANGED server /\ sessionID' \in {0, sessionID}
        /\ initialized' \in {FALSE, initialized} /\ initMu' \in {c, initMu}
    BY <1>4 DEF ResetSession, Uninitialize, LockRefresh
  <2>2. call' \in [Calls -> CallType(issued)]'
    BY <1>p, <2>1, GoTyped DEF server
  <2> QED BY <1>t, <1>n, <2>1, <2>2 DEF server, Types
<1>5. CASE RefreshAuthorization(c)
  <2>1. /\ stale' = FALSE /\ sessionID' = 0 /\ initialized' = FALSE /\ initMu' \in {NoCall, initMu}
        /\ UNCHANGED <<issued, live, faults>>
        /\ \/ Go(c, "ensure")
           \/ Becomes(c, [call[c] EXCEPT !.pc = "initialize", !.attempt = 1])
    BY <1>5 DEF RefreshAuthorization
  <2>2. [call[c] EXCEPT !.pc = "initialize", !.attempt = 1] \in CallType(issued)
    BY <1>t, <1>n, <1>p DEF CallType
  <2>3. call' \in [Calls -> CallType(issued)]'
    BY <1>p, <2>1, <2>2, GoTyped, CallTyped
  <2> QED BY <1>t, <1>n, <2>1, <2>3 DEF Types
<1>6. CASE RefreshFails(c) \/ InitializeFails(c) \/ Unauthorized(c)
  <2>1. /\ Go(c, "failed") \/ Go(c, "reauthorize")
        /\ UNCHANGED <<sessionID, initialized, server>> /\ initMu' \in {NoCall, initMu}
    BY <1>6 DEF RefreshFails, InitializeFails, Unauthorized, client
  <2>2. call' \in [Calls -> CallType(issued)]'
    BY <1>p, <2>1, GoTyped DEF server
  <2> QED BY <2>1, <2>2 DEF server, Types
<1>7. CASE EnsureInitialized(c)
  <2>1. /\ SendAgain(c) \/ Go(c, "initialize")
        /\ UNCHANGED <<sessionID, initialized, server>> /\ initMu' \in {c, initMu}
    BY <1>7 DEF EnsureInitialized
  <2>2. call' \in [Calls -> CallType(issued)]'
    BY <1>p, <2>1, GoTyped, SendAgainTyped DEF server
  <2> QED BY <2>1, <2>2 DEF server, Types
<1>8. CASE Initialize(c)
  <2>1. PICK n \in 1 .. MaxSessions : n = issued + 1
    BY <1>8, <1>t, McpClientAssumption DEF Initialize
  <2>2. /\ issued' = n /\ issued <= n /\ live' = live \cup {n} /\ UNCHANGED <<client, stale, faults>>
        /\ Becomes(c, [call[c] EXCEPT !.pc = "answer", !.header = n])
    BY <1>8, <1>t, <2>1 DEF Initialize
  <2>3. [call[c] EXCEPT !.pc = "answer", !.header = n] \in CallType(n)
    <3>1. n \in 0 .. n
      BY <1>n, <2>1
    <3> QED BY <1>t, <3>1 DEF CallType, Point, Locked
  <2>4. call' \in [Calls -> CallType(n)]
    BY <2>2, <2>3, BecomesTyped
  <2>5. sessionID' \in 0 .. n /\ live' \subseteq 1 .. n
    BY <1>t, <2>1, <2>2 DEF client
  <2> QED BY <2>2, <2>4, <2>5 DEF Types, client
<1>9. CASE TakeInitializeResult(c)
  <2>1. /\ Becomes(c, [call[c] EXCEPT !.pc = "notify", !.header = 0])
        /\ UNCHANGED <<initialized, initMu, server>> /\ sessionID' \in {sessionID, call[c].header}
    BY <1>9 DEF TakeInitializeResult, TakeSession
  <2>2. [call[c] EXCEPT !.pc = "notify", !.header = 0] \in CallType(issued)
    BY <1>t, <1>n DEF CallType, Point, Locked
  <2>3. call' \in [Calls -> CallType(issued)]'
    BY <2>1, <2>2, CallTyped DEF server
  <2> QED BY <1>t, <2>1, <2>3 DEF server, Types
<1>10. CASE SendInitialized(c)
  <2>1. /\ SendAgain(c) /\ initialized' = TRUE /\ initMu' = NoCall /\ UNCHANGED <<sessionID, server>>
    BY <1>10 DEF SendInitialized
  <2>2. call' \in [Calls -> CallType(issued)]'
    BY <2>1, SendAgainTyped DEF server
  <2> QED BY <2>1, <2>2 DEF server, Types
<1> QED BY <1>1, <1>2, <1>3, <1>4, <1>5, <1>6, <1>7, <1>8, <1>9, <1>10 DEF Step

LEMMA TypesAlways == Spec => []Types
<1>1. Init => Types
  <2>1. 0 \in 0 .. 1 /\ 1 \in 1 .. 2 /\ 1 \in 0 .. 1 /\ {1} \subseteq 1 .. 1 /\ 1 \in 1 .. MaxSessions /\ 0 \in 0 .. MaxFaults
    BY McpClientAssumption
  <2>2. NewCall \in CallType(1)
    BY <2>1 DEF CallType, NewCall, Point
  <2> QED BY <2>1, <2>2 DEF Init, Types
<1>2. IInv /\ Types /\ [Next]_vars => Types'
  <2> SUFFICES ASSUME IInv, Types, [Next]_vars PROVE Types'
    OBVIOUS
  <2>1. CASE UNCHANGED vars
    BY <2>1 DEF vars, client, server, Types
  <2>2. CASE ExpireSession \/ ExpireToken
    <3>1. /\ UNCHANGED <<client, issued, call>> /\ stale' \in {TRUE, stale}
          /\ live' \subseteq live /\ faults' = faults + 1 /\ faults < MaxFaults
      BY <2>2 DEF ExpireSession, ExpireToken, Fault
    <3>2. faults' \in 0 .. MaxFaults
      BY <3>1, McpClientAssumption DEF Types
    <3> QED BY <3>1, <3>2 DEF client, Types
  <2>3. ASSUME NEW c \in Calls, CallTool(c) \/ Step(c) PROVE Types'
    BY <2>3, TypesStep
  <2> QED BY <2>1, <2>2, <2>3 DEF Next
<1> QED BY <1>1, <1>2, Inductive, PTL DEF Spec

\* The client is type correct: its session is none or one the server issued, and
\* initMu is held by the one call inside Initialize or the refresh.
THEOREM McpTypes == Spec => []TypeOK
<1>1. IInv /\ Types => TypeOK
  <2> SUFFICES ASSUME IInv, Types PROVE TypeOK
    OBVIOUS
  <2>1. {c \in Calls : call[c].pc \in Locked} = {initMu} \ {NoCall}
    BY NoCallAssumption DEF IInv, Mutex, Types
  <2>2. \A c \in Calls : call[c] \in CallType(MaxSessions)
    <3>1. 0 .. issued \subseteq 0 .. MaxSessions
      BY McpClientAssumption DEF Types
    <3> QED BY <3>1 DEF Types, CallType
  <2>3. call \in [Calls -> CallType(MaxSessions)]
    BY <2>2 DEF Types
  <2> QED BY <2>1, <2>3 DEF TypeOK, Types, CallType, Point, IInv, Shape
<1> QED BY <1>1, Inductive, TypesAlways, PTL

-----------------------------------------------------------------------------
(* Progress: a call takes at most 21 steps, and it never waits for a call  *)
(* that cannot go on.                                                      *)

\* How a step moves the call that takes it.
Edge(r, n) ==
  \/ /\ n.tries = r.tries /\ n.attempt = r.attempt
     /\ \/ r.pc = "idle" /\ n.pc = "send"
        \/ r.pc = "send" /\ n.pc = "reply"
        \/ r.pc = "reply" /\ n.pc \in Ended
        \/ r.pc = "reply" /\ r.tries # 2 /\ n.pc \in {"refresh", "reset"}
        \/ r.pc = "reset" /\ n.pc = "uninitialize"
        \/ r.pc = "refresh" /\ n.pc = "refreshing"
        \/ r.pc \in {"uninitialize", "refreshing"} /\ n.pc = "ensure"
        \/ r.pc = "ensure" /\ n.pc = "initialize"
        \/ r.pc = "initialize" /\ n.pc = "answer"
        \/ r.pc = "answer" /\ n.pc = "notify"
        \/ r.pc \in {"initialize", "notify"} /\ r.attempt = 0 /\ n.pc = "reauthorize"
        \/ r.pc \in {"refreshing", "reauthorize", "initialize", "notify"} /\ n.pc = "failed"
  \/ r.pc \in {"ensure", "notify"} /\ n.pc = "send" /\ n.tries = 2 /\ n.attempt = 0
  \/ r.pc = "reauthorize" /\ n.pc = "initialize" /\ n.tries = r.tries /\ n.attempt = 1

LEMMA GoEdge ==
  ASSUME Types, NEW c \in Calls, NEW pc, Go(c, pc)
  PROVE  \E n : /\ Becomes(c, n) /\ n.pc = pc
                /\ n.tries = call[c].tries /\ n.attempt = call[c].attempt
<1> DEFINE n == [call[c] EXCEPT !.pc = pc]
<1>1. Becomes(c, n)
  BY DEF Go
<1>2. n.pc = pc /\ n.tries = call[c].tries /\ n.attempt = call[c].attempt
  BY DEF Types, CallType
<1> QED BY <1>1, <1>2, Zenon

LEMMA SendAgainEdge ==
  ASSUME Types, NEW c \in Calls, SendAgain(c)
  PROVE  \E n : Becomes(c, n) /\ n.pc = "send" /\ n.tries = 2 /\ n.attempt = 0
<1> DEFINE n == [call[c] EXCEPT !.pc = "send", !.tries = 2, !.attempt = 0]
<1>1. Becomes(c, n)
  BY DEF SendAgain
<1>2. n.pc = "send" /\ n.tries = 2 /\ n.attempt = 0
  BY DEF Types, CallType
<1> QED BY <1>1, <1>2, Zenon

LEMMA StepEdge ==
  ASSUME Types, NEW c \in Calls, CallTool(c) \/ Step(c)
  PROVE  \E n : Becomes(c, n) /\ Edge(call[c], n)
<1>t. call[c] \in CallType(issued)
  BY DEF Types
<1>1. CASE CallTool(c) \/ ResetSession(c) \/ Uninitialize(c) \/ LockRefresh(c) \/ RefreshFails(c)
           \/ Unauthorized(c) \/ InitializeFails(c)
  <2>1. PICK pc : /\ Go(c, pc)
                  /\ \/ call[c].pc = "idle" /\ pc = "send"
                     \/ call[c].pc = "reset" /\ pc = "uninitialize"
                     \/ call[c].pc = "uninitialize" /\ pc = "ensure"
                     \/ call[c].pc = "refresh" /\ pc = "refreshing"
                     \/ call[c].pc \in {"initialize", "notify"} /\ call[c].attempt = 0 /\ pc = "reauthorize"
                     \/ call[c].pc \in {"refreshing", "reauthorize", "initialize", "notify"} /\ pc = "failed"
    BY <1>1, Zenon
    DEF CallTool, ResetSession, Uninitialize, LockRefresh, RefreshFails, Unauthorized, InitializeFails
  <2>2. PICK n : Becomes(c, n) /\ n.pc = pc /\ n.tries = call[c].tries /\ n.attempt = call[c].attempt
    BY <2>1, GoEdge
  <2>3. Edge(call[c], n)
    BY <2>1, <2>2 DEF Edge
  <2> QED BY <2>2, <2>3
<1>2. CASE Send(c)
  <2>1. PICK n : /\ Becomes(c, n)
                 /\ \E header, reply :
                      \/ n = [call[c] EXCEPT !.pc = "reply", !.reply = reply, !.header = header]
                      \/ n = [call[c] EXCEPT !.pc = "reply", !.reply = reply, !.header = header, !.since = shakes]
    BY <1>2, Zenon DEF Send
  <2>2. n.pc = "reply" /\ n.tries = call[c].tries /\ n.attempt = call[c].attempt
    BY <1>t, <2>1 DEF CallType
  <2>3. Edge(call[c], n)
    BY <1>2, <2>2 DEF Edge, Send
  <2> QED BY <2>1, <2>3
<1>3. CASE RoundTrip(c) \/ Lose(c)
  <2>1. PICK pc \in {NextPc(c), "failed"} :
          Becomes(c, [call[c] EXCEPT !.pc = pc, !.reply = "none", !.header = 0])
    BY <1>3 DEF RoundTrip, Lose
  <2> DEFINE n == [call[c] EXCEPT !.pc = pc, !.reply = "none", !.header = 0]
  <2>2. n.pc = pc /\ n.tries = call[c].tries /\ n.attempt = call[c].attempt
    BY <1>t DEF CallType
  <2>3. pc \in Ended \/ (pc \in {"refresh", "reset"} /\ call[c].tries # 2)
    BY <2>1 DEF NextPc, Ended
  <2>4. call[c].pc = "reply"
    BY <1>3 DEF RoundTrip, Lose
  <2>5. Becomes(c, n)
    BY <2>1
  <2> HIDE DEF n
  <2>6. Edge(call[c], n)
    BY <2>2, <2>3, <2>4 DEF Edge
  <2> QED BY <2>5, <2>6
<1>4. CASE RefreshAuthorization(c)
  <2>1. CASE call[c].pc = "refreshing"
    <3>1. PICK n : Becomes(c, n) /\ n.pc = "ensure" /\ n.tries = call[c].tries /\ n.attempt = call[c].attempt
      BY <1>4, <2>1, GoEdge DEF RefreshAuthorization
    <3> QED BY <2>1, <3>1 DEF Edge
  <2>2. CASE call[c].pc # "refreshing"
    <3> DEFINE n == [call[c] EXCEPT !.pc = "initialize", !.attempt = 1]
    <3>1. call[c].pc = "reauthorize" /\ Becomes(c, n)
      BY <1>4, <2>2 DEF RefreshAuthorization
    <3>2. n.pc = "initialize" /\ n.tries = call[c].tries /\ n.attempt = 1
      BY <1>t DEF CallType
    <3> HIDE DEF n
    <3> QED BY <3>1, <3>2 DEF Edge
  <2> QED BY <2>1, <2>2
<1>5. CASE EnsureInitialized(c) \/ SendInitialized(c)
  <2>1. CASE SendAgain(c)
    <3>1. PICK n : Becomes(c, n) /\ n.pc = "send" /\ n.tries = 2 /\ n.attempt = 0
      BY <2>1, SendAgainEdge
    <3>2. call[c].pc \in {"ensure", "notify"}
      BY <1>5 DEF EnsureInitialized, SendInitialized
    <3> QED BY <3>1, <3>2 DEF Edge
  <2>2. CASE ~SendAgain(c)
    <3>1. call[c].pc = "ensure" /\ Go(c, "initialize")
      BY <1>5, <2>2 DEF EnsureInitialized, SendInitialized
    <3>2. PICK n : Becomes(c, n) /\ n.pc = "initialize" /\ n.tries = call[c].tries /\ n.attempt = call[c].attempt
      BY <3>1, GoEdge
    <3> QED BY <3>1, <3>2 DEF Edge
  <2> QED BY <2>1, <2>2
<1>6. CASE Initialize(c) \/ TakeInitializeResult(c)
  <2>1. PICK pc, header : /\ Becomes(c, [call[c] EXCEPT !.pc = pc, !.header = header])
                          /\ \/ call[c].pc = "initialize" /\ pc = "answer"
                             \/ call[c].pc = "answer" /\ pc = "notify"
    BY <1>6, Zenon DEF Initialize, TakeInitializeResult
  <2> DEFINE n == [call[c] EXCEPT !.pc = pc, !.header = header]
  <2>2. n.pc = pc /\ n.tries = call[c].tries /\ n.attempt = call[c].attempt
    BY <1>t DEF CallType
  <2>3. Becomes(c, n)
    BY <2>1
  <2> HIDE DEF n
  <2>4. Edge(call[c], n)
    BY <2>1, <2>2 DEF Edge
  <2> QED BY <2>3, <2>4
<1> QED BY <1>1, <1>2, <1>3, <1>4, <1>5, <1>6 DEF Step

\* A call recovers before it is sent again, and the handshake begins again only
\* within Initialize.
Recovery ==
  \A c \in Calls :
    /\ call[c].tries = 2 => call[c].pc \in {"send", "reply"} \cup Ended
    /\ call[c].attempt # 0 => call[c].pc \in {"initialize", "answer", "notify", "failed"}

\* The steps a call can still take.
CallLeft(r) ==
  CASE r.pc = "idle" -> 21
    [] r.pc = "send" -> IF r.tries = 2 THEN 8 ELSE 20
    [] r.pc = "reply" -> IF r.tries = 2 THEN 7 ELSE 19
    [] r.pc \in {"reset", "refresh"} -> 18
    [] r.pc \in {"uninitialize", "refreshing"} -> 17
    [] r.pc = "ensure" -> 16
    [] r.pc = "initialize" -> IF r.attempt = 0 THEN 15 ELSE 11
    [] r.pc = "answer" -> IF r.attempt = 0 THEN 14 ELSE 10
    [] r.pc = "notify" -> IF r.attempt = 0 THEN 13 ELSE 9
    [] r.pc = "reauthorize" -> 12
    [] r.pc \in Ended -> 0

CallsForward == \A c \in Calls : call'[c] = call[c] \/ CallLeft(call'[c]) < CallLeft(call[c])

LEMMA LeftBounds ==
  ASSUME NEW r, r.pc \in Point
  PROVE  CallLeft(r) \in 0 .. 21 /\ (CallLeft(r) = 0 <=> r.pc \in Ended)
<1>1. CASE r.pc \in Ended
  BY <1>1 DEF CallLeft, Ended
<1>2. CASE r.pc \notin Ended
  <2>1. CallLeft(r) \in 7 .. 21
    BY <1>2 DEF CallLeft, Point, Locked, Ended
  <2> QED BY <1>2, <2>1
<1> QED BY <1>1, <1>2

LEMMA EdgeForward ==
  ASSUME NEW r, NEW n, Edge(r, n),
         r.tries = 2 => r.pc \in {"send", "reply"} \cup Ended,
         r.attempt # 0 => r.pc \in {"initialize", "answer", "notify", "failed"}
  PROVE  /\ CallLeft(n) < CallLeft(r)
         /\ n.tries = 2 => n.pc \in {"send", "reply"} \cup Ended
         /\ n.attempt # 0 => n.pc \in {"initialize", "answer", "notify", "failed"}
  BY DEF Edge, CallLeft, Ended

LEMMA RecoveryStep ==
  ASSUME IInv, Types, Recovery, [Next]_vars
  PROVE  Recovery' /\ CallsForward
<1>1. CASE UNCHANGED call
  BY <1>1 DEF Recovery, CallsForward
<1>2. ASSUME NEW c \in Calls, CallTool(c) \/ Step(c) PROVE Recovery' /\ CallsForward
  <2>1. PICK n : Becomes(c, n) /\ Edge(call[c], n)
    BY <1>2, StepEdge
  <2>2. call'[c] = n /\ \A d \in Calls : d # c => call'[d] = call[d]
    BY <2>1 DEF Becomes, IInv, Shape
  <2>3. /\ CallLeft(n) < CallLeft(call[c])
        /\ n.tries = 2 => n.pc \in {"send", "reply"} \cup Ended
        /\ n.attempt # 0 => n.pc \in {"initialize", "answer", "notify", "failed"}
    BY <2>1, EdgeForward DEF Recovery
  <2>4. Recovery'
    BY <2>2, <2>3 DEF Recovery
  <2>5. CallsForward
    BY <2>2, <2>3, Zenon DEF CallsForward
  <2> QED BY <2>4, <2>5
<1> QED BY <1>1, <1>2 DEF Next, vars, ExpireSession, ExpireToken

\* Whatever the other calls do, a call takes at most 21 steps: it is sent at
\* most twice and its handshake begins at most twice (request and Initialize,
\* protocol.go), so no recovery goes round in circles.
THEOREM CallIsFinite ==
  Spec => [](\A c \in Calls : CallLeft(call[c]) \in 0 .. 21 /\ (CallLeft(call[c]) = 0 <=> call[c].pc \in Ended))
          /\ [][CallsForward]_vars
<1>1. Init => Recovery
  <2> SUFFICES ASSUME Init, NEW c \in Calls
               PROVE  call[c].tries # 2 /\ call[c].attempt = 0
    BY DEF Recovery
  <2>1. call[c] = NewCall
    BY DEF Init
  <2> QED BY <2>1 DEF NewCall
<1>2. IInv /\ Types /\ Recovery /\ [Next]_vars => Recovery' /\ CallsForward
  BY RecoveryStep
<1>3. Types => \A c \in Calls : CallLeft(call[c]) \in 0 .. 21 /\ (CallLeft(call[c]) = 0 <=> call[c].pc \in Ended)
  <2> SUFFICES ASSUME Types, NEW c \in Calls
               PROVE  CallLeft(call[c]) \in 0 .. 21 /\ (CallLeft(call[c]) = 0 <=> call[c].pc \in Ended)
    OBVIOUS
  <2>1. call[c].pc \in Point
    BY DEF Types, CallType
  <2> QED BY <2>1, LeftBounds
<1> QED BY <1>1, <1>2, <1>3, Inductive, TypesAlways, PTL DEF Spec

\* Step(c) has a step to take: the guards of its actions.
CanStep(c) ==
  \/ call[c].pc \in {"send", "reply", "reset"} \cup Locked
  \/ call[c].pc \in {"uninitialize", "refresh", "ensure"} /\ initMu = NoCall

\* A call that has begun and not returned can go on, or it waits for initMu and
\* the call that holds it can go on: no recovery leaves the mutex locked.
THEOREM NobodyWaitsForEver ==
  Spec => [](\A c \in Calls : call[c].pc \in Ended \cup {"idle"}
                                \/ CanStep(c) \/ (initMu \in Calls /\ CanStep(initMu)))
<1>1. IInv /\ Types => \A c \in Calls : call[c].pc \in Ended \cup {"idle"}
                                           \/ CanStep(c) \/ (initMu \in Calls /\ CanStep(initMu))
  <2> SUFFICES ASSUME IInv, Types, NEW c \in Calls, call[c].pc \notin Ended \cup {"idle"}, ~CanStep(c)
               PROVE  initMu \in Calls /\ CanStep(initMu)
    OBVIOUS
  <2>1. call[c].pc \in Point
    BY DEF Types, CallType
  <2>2. initMu \in Calls
    BY <2>1 DEF CanStep, Point, Types
  <2>3. call[initMu].pc \in Locked
    BY <2>2 DEF IInv, Mutex
  <2> QED BY <2>2, <2>3 DEF CanStep
<1> QED BY <1>1, Inductive, TypesAlways, PTL
=============================================================================
