-------------------------- MODULE ApiClientProofs --------------------------
(***************************************************************************)
(* Proofs about ApiClient, for any number of processes, requests, retries, *)
(* refresh tokens and faults, and for a server that rotates the refresh    *)
(* token and one that does not.                                            *)
(***************************************************************************)
EXTENDS ApiClient, FiniteSetTheorems, TLAPS

\* The requests are records, and what is counted is a number.
HasFields(q) ==
  /\ "pc" \in DOMAIN q /\ "attempt" \in DOMAIN q /\ "authRefreshed" \in DOMAIN q
  /\ "forced" \in DOMAIN q /\ "token" \in DOMAIN q

Shape ==
  /\ DOMAIN req = Requests
  /\ \A r \in Requests : /\ HasFields(req[r]) /\ req[r].attempt \in Nat
                         /\ req[r].authRefreshed \in BOOLEAN /\ req[r].forced \in BOOLEAN
  /\ DOMAIN mu = Procs /\ creds \in [Procs -> Nat]
  /\ grant \in Nat /\ store \in Nat /\ faults \in Nat
  /\ sent \in [Requests -> Nat] /\ DOMAIN heard = Requests

Holding == {"refresh", "save"}

\* The mutex of a provider is held exactly by the request that refreshes.
Mutex == \A r \in Requests : req[r].pc \in Holding <=> mu[r[1]] = r

\* Nobody has a token the server has not issued, a request presents the token
\* its process has, and one that has been granted a new token is the only
\* one to know it until it is saved: that is why the last to save is right.
TokensKnown ==
  /\ store <= grant /\ \A p \in Procs : creds[p] <= grant
  /\ \A r \in Requests : req[r].pc = "refresh" => req[r].token = creds[r[1]]
  /\ \A p \in Procs : p \in holder => creds[p] = grant
  /\ \A r \in Requests : req[r].pc = "save" =>
       /\ creds[r[1]] = grant
       /\ Rotates = TRUE => store < grant /\ \A p \in Procs : p # r[1] => creds[p] < grant

\* The attempt that is prepared has not been sent, and the one that the token
\* is refreshed for has.
AttemptsCounted ==
  \A r \in Requests :
    /\ sent[r] <= req[r].attempt
    /\ \/ req[r].pc \in {"idle", "token", "send"}
       \/ req[r].pc \in Holding /\ req[r].forced = FALSE
       => sent[r] < req[r].attempt
    /\ \/ req[r].pc = "forced"
       \/ req[r].pc \in Holding /\ req[r].forced = TRUE
       => req[r].authRefreshed = FALSE
    /\ req[r].authRefreshed = FALSE => req[r].attempt <= MaxRetries + 1
    /\ 1 <= req[r].attempt /\ req[r].attempt <= MaxRetries + 2

\* Events come from the last attempt, which is not followed by another.
StreamsLast ==
  \A r \in Requests :
    /\ heard[r] \subseteq {req[r].attempt}
    /\ heard[r] # {} => req[r].pc \in {"stream"} \cup Ended

IInv ==
  /\ Shape /\ Mutex /\ TokensKnown /\ OwnGrantAccepted /\ StoreCurrent
  /\ AttemptsCounted /\ StreamsLast

-----------------------------------------------------------------------------
(* How a step moves a request, field by field.                             *)

Moved(r, pc, attempt, auth, forced, token) ==
  /\ DOMAIN req' = Requests
  /\ \A q \in Requests : q # r => req'[q] = req[q]
  /\ HasFields(req'[r])
  /\ req'[r].pc = pc /\ req'[r].attempt = attempt /\ req'[r].authRefreshed = auth
  /\ req'[r].forced = forced /\ req'[r].token = token

LEMMA BecomesMoves ==
  ASSUME Shape, NEW r \in Requests, NEW next, Becomes(r, next), HasFields(next)
  PROVE  Moved(r, next.pc, next.attempt, next.authRefreshed, next.forced, next.token)
<1>1. req' = [req EXCEPT ![r] = next]
  BY DEF Becomes
<1>2. DOMAIN req' = Requests /\ req'[r] = next /\ \A q \in Requests : q # r => req'[q] = req[q]
  BY <1>1 DEF Shape
<1> QED BY <1>2 DEF Moved

LEMMA GoMoves ==
  ASSUME Shape, NEW r \in Requests, NEW pc, Go(r, pc)
  PROVE  Moved(r, pc, req[r].attempt, req[r].authRefreshed, req[r].forced, req[r].token)
<1> DEFINE next == [req[r] EXCEPT !.pc = pc]
<1>1. Becomes(r, next)
  BY DEF Go
<1>2. /\ HasFields(next) /\ next.pc = pc /\ next.attempt = req[r].attempt
      /\ next.authRefreshed = req[r].authRefreshed
      /\ next.forced = req[r].forced /\ next.token = req[r].token
  BY DEF Shape, HasFields
<1> HIDE DEF next
<1>3. Moved(r, next.pc, next.attempt, next.authRefreshed, next.forced, next.token)
  BY <1>1, <1>2, BecomesMoves
<1> QED BY <1>2, <1>3, Zenon

LEMMA FailsMoves ==
  ASSUME Shape, NEW r \in Requests, Fails(r)
  PROVE  Moved(r, "failed", req[r].attempt, req[r].authRefreshed, FALSE, 0)
<1> DEFINE next == [req[r] EXCEPT !.pc = "failed", !.forced = FALSE, !.token = 0]
<1>1. Becomes(r, next)
  BY DEF Fails
<1>2. /\ HasFields(next) /\ next.pc = "failed" /\ next.attempt = req[r].attempt
      /\ next.authRefreshed = req[r].authRefreshed
      /\ next.forced = FALSE /\ next.token = 0
  BY DEF Shape, HasFields
<1> HIDE DEF next
<1>3. Moved(r, next.pc, next.attempt, next.authRefreshed, next.forced, next.token)
  BY <1>1, <1>2, BecomesMoves
<1> QED BY <1>2, <1>3, Zenon

LEMMA RetryMoves ==
  ASSUME Shape, NEW r \in Requests, Retry(r)
  PROVE  Moved(r, "token", req[r].attempt + 1, req[r].authRefreshed, req[r].forced, req[r].token)
<1> DEFINE next == [req[r] EXCEPT !.pc = "token", !.attempt = req[r].attempt + 1]
<1>1. Becomes(r, next)
  BY DEF Retry
<1>2. /\ HasFields(next) /\ next.pc = "token" /\ next.attempt = req[r].attempt + 1
      /\ next.authRefreshed = req[r].authRefreshed
      /\ next.forced = req[r].forced /\ next.token = req[r].token
  BY DEF Shape, HasFields
<1> HIDE DEF next
<1>3. Moved(r, next.pc, next.attempt, next.authRefreshed, next.forced, next.token)
  BY <1>1, <1>2, BecomesMoves
<1> QED BY <1>2, <1>3, Zenon

LEMMA RequestsOf == \A r \in Requests : r[1] \in Procs
  BY DEF Requests

LEMMA ConstantsOK == MaxRetries \in Nat /\ MaxTokens \in Nat /\ Rotates \in BOOLEAN
  BY ApiClientAssumption

-----------------------------------------------------------------------------
LEMMA InitIInv == Init => IInv
<1> SUFFICES ASSUME Init PROVE IInv
  OBVIOUS
<1> USE ConstantsOK, RequestsOf DEF Init, NewRequest
<1>1. Shape BY DEF Shape, HasFields
<1>2. Mutex
  <2>1. \A r \in Requests : r # NoRequest
    BY NoRequestAssumption DEF Requests
  <2> QED BY <2>1 DEF Mutex, Holding
<1>3. TokensKnown BY DEF TokensKnown
<1>4. OwnGrantAccepted /\ StoreCurrent BY DEF OwnGrantAccepted, StoreCurrent
<1>5. AttemptsCounted BY DEF AttemptsCounted, Holding
<1>6. StreamsLast BY DEF StreamsLast
<1> QED BY <1>1, <1>2, <1>3, <1>4, <1>5, <1>6 DEF IInv

LEMMA Untouched == IInv /\ UNCHANGED vars => IInv'
  BY DEF IInv, Shape, HasFields, Mutex, TokensKnown, OwnGrantAccepted, StoreCurrent,
         AttemptsCounted, StreamsLast, vars, history

-----------------------------------------------------------------------------
(* The steps of a request that are not about the refresh token.            *)

LEMMA Aside ==
  ASSUME IInv, NEW r \in Requests, NEW pc, NEW attempt, NEW auth, NEW forced, NEW token,
         Moved(r, pc, attempt, auth, forced, token),
         req[r].pc \notin Holding, pc \notin Holding,
         UNCHANGED <<grant, store, creds, mu, faults, holder, refused>>
  PROVE  Mutex' /\ TokensKnown' /\ OwnGrantAccepted' /\ StoreCurrent'
<1>1. Moved(r, pc, attempt, auth, forced, token)
  OBVIOUS
<1>2. Mutex' BY <1>1 DEF IInv, Mutex, Moved
<1>3. TokensKnown' BY <1>1 DEF IInv, TokensKnown, Moved, Holding
<1>4. OwnGrantAccepted' BY DEF IInv, OwnGrantAccepted
<1>5. StoreCurrent' BY <1>1 DEF IInv, StoreCurrent, Moved, Holding
<1> QED BY <1>2, <1>3, <1>4, <1>5

LEMMA MoveStep ==
  ASSUME IInv, NEW r \in Requests, NEW pc, Go(r, pc),
         \/ req[r].pc \in {"idle", "token"} /\ pc \in {"token", "send"}
         \/ req[r].pc = "stream" /\ pc \in Ended,
         UNCHANGED <<grant, store, creds, mu, faults, history>>
  PROVE  IInv'
<1>1. Moved(r, pc, req[r].attempt, req[r].authRefreshed, req[r].forced, req[r].token)
  <2>1. Go(r, pc) OBVIOUS
  <2> QED BY <2>1, GoMoves DEF IInv
<1>2. req[r].pc \notin Holding /\ pc \notin Holding
  BY DEF Holding, Ended
<1>3. Mutex' /\ TokensKnown' /\ OwnGrantAccepted' /\ StoreCurrent'
  BY <1>1, <1>2, Aside DEF history
<1>4. Shape' BY <1>1 DEF IInv, Shape, Moved, history
<1>5. AttemptsCounted' BY <1>1 DEF IInv, AttemptsCounted, Moved, history, Ended, Holding
<1>6. StreamsLast' BY <1>1 DEF IInv, StreamsLast, Moved, history, Ended
<1> QED BY <1>3, <1>4, <1>5, <1>6 DEF IInv

\* A request is sent: the attempt is counted, and what follows is another
\* attempt, a refresh or the end.
LEMMA SendStep ==
  ASSUME IInv, NEW r \in Requests, SendFails(r) \/ SendSucceeds(r)
  PROVE  IInv'
<1>1. /\ req[r].pc = "send" /\ sent' = [sent EXCEPT ![r] = @ + 1]
      /\ UNCHANGED <<grant, store, creds, mu, faults, heard, holder, refused>>
  BY DEF SendFails, SendSucceeds
<1>2. sent'[r] = sent[r] + 1 /\ sent'[r] <= req[r].attempt /\ sent'[r] \in Nat
      /\ \A q \in Requests : q # r => sent'[q] = sent[q]
  BY <1>1 DEF IInv, Shape, AttemptsCounted
<1>3. heard[r] = {}
  BY <1>1 DEF IInv, StreamsLast, Ended
<1>4. req[r].pc \notin Holding
  BY <1>1 DEF Holding
<1>5. \/ Go(r, "forced") /\ req[r].authRefreshed = FALSE
      \/ Retry(r) /\ req[r].attempt <= MaxRetries
      \/ \E pc \in Ended \cup {"stream"} : Go(r, pc)
  <2>1. CASE SendFails(r)
    <3>1. PICK f \in Failures : AfterError(r, f)
      BY <2>1 DEF SendFails
    <3>2. req[r].authRefreshed \in BOOLEAN
      BY DEF IInv, Shape
    <3>3. \/ Go(r, "forced") /\ ~req[r].authRefreshed
          \/ Retry(r) /\ MayRetry(r)
          \/ Go(r, "failed")
      BY <3>1, Zenon DEF AfterError
    <3>4. ~req[r].authRefreshed => req[r].authRefreshed = FALSE
      BY <3>2, Zenon
    <3>5. "failed" \in Ended \cup {"stream"}
      BY DEF Ended
    <3>6. MayRetry(r) => req[r].attempt <= MaxRetries
      BY DEF MayRetry
    <3> QED BY <3>3, <3>4, <3>5, <3>6, Zenon
  <2>2. CASE SendSucceeds(r)
    BY <2>2 DEF SendSucceeds, Ended
  <2> QED BY <2>1, <2>2
<1>6. CASE Go(r, "forced") /\ req[r].authRefreshed = FALSE
  <2>1. Moved(r, "forced", req[r].attempt, req[r].authRefreshed, req[r].forced, req[r].token)
    BY <1>6, GoMoves DEF IInv
  <2>2. "forced" \notin Holding BY DEF Holding
  <2>3. Mutex' /\ TokensKnown' /\ OwnGrantAccepted' /\ StoreCurrent'
    BY <1>1, <1>4, <2>1, <2>2, Aside
  <2>4. Shape' BY <1>1, <2>1 DEF IInv, Shape, Moved
  <2>5. AttemptsCounted' BY <1>1, <1>2, <1>6, <2>1 DEF IInv, AttemptsCounted, Moved, Holding
  <2>6. StreamsLast' BY <1>1, <1>3, <2>1 DEF IInv, StreamsLast, Moved
  <2> QED BY <2>3, <2>4, <2>5, <2>6 DEF IInv
<1>7. CASE Retry(r) /\ req[r].attempt <= MaxRetries
  <2>1. Moved(r, "token", req[r].attempt + 1, req[r].authRefreshed, req[r].forced, req[r].token)
    BY <1>7, RetryMoves DEF IInv
  <2>2. "token" \notin Holding BY DEF Holding
  <2>3. Mutex' /\ TokensKnown' /\ OwnGrantAccepted' /\ StoreCurrent'
    BY <1>1, <1>4, <2>1, <2>2, Aside
  <2>4. Shape' BY <1>1, <2>1 DEF IInv, Shape, Moved
  <2>5. AttemptsCounted'
    BY <1>1, <1>2, <1>7, <2>1, ConstantsOK DEF IInv, Shape, AttemptsCounted, Moved, Holding
  <2>6. StreamsLast' BY <1>1, <1>3, <2>1 DEF IInv, StreamsLast, Moved
  <2> QED BY <2>3, <2>4, <2>5, <2>6 DEF IInv
<1>8. ASSUME NEW pc \in Ended \cup {"stream"}, Go(r, pc) PROVE IInv'
  <2>1. Moved(r, pc, req[r].attempt, req[r].authRefreshed, req[r].forced, req[r].token)
    BY <1>8, GoMoves DEF IInv
  <2>2. pc \notin Holding BY DEF Holding, Ended
  <2>3. Mutex' /\ TokensKnown' /\ OwnGrantAccepted' /\ StoreCurrent'
    BY <1>1, <1>4, <2>1, <2>2, Aside
  <2>4. Shape' BY <1>1, <2>1 DEF IInv, Shape, Moved
  <2>5. AttemptsCounted' BY <1>1, <1>2, <2>1 DEF IInv, AttemptsCounted, Moved, Holding, Ended
  <2>6. StreamsLast' BY <1>1, <1>3, <2>1 DEF IInv, StreamsLast, Moved
  <2> QED BY <2>3, <2>4, <2>5, <2>6 DEF IInv
<1> QED BY <1>5, <1>6, <1>7, <1>8

LEMMA StreamEventStep == ASSUME IInv, NEW r \in Requests, StreamEvent(r) PROVE IInv'
<1>1. /\ req[r].pc = "stream" /\ heard' = [heard EXCEPT ![r] = @ \cup {req[r].attempt}]
      /\ UNCHANGED <<grant, store, creds, mu, req, faults, sent, holder, refused>>
  BY DEF StreamEvent
<1>2. Shape' BY <1>1 DEF IInv, Shape, HasFields
<1>3. Mutex' /\ TokensKnown' /\ OwnGrantAccepted' /\ StoreCurrent' /\ AttemptsCounted'
  BY <1>1 DEF IInv, Mutex, TokensKnown, OwnGrantAccepted, StoreCurrent, AttemptsCounted
<1>4. StreamsLast' BY <1>1 DEF IInv, Shape, StreamsLast
<1> QED BY <1>2, <1>3, <1>4 DEF IInv

-----------------------------------------------------------------------------
(* The steps of a refresh.                                                 *)

\* What a step of a refresh leaves alone.
LEMMA HoldingAside ==
  ASSUME IInv, NEW r \in Requests, req[r].pc \in Holding,
         NEW pc, NEW forced, NEW token,
         Moved(r, pc, req[r].attempt, req[r].authRefreshed, forced, token),
         \/ pc = "failed" /\ forced = FALSE
         \/ pc \in Holding /\ forced = req[r].forced
         \/ pc = "send" /\ forced = req[r].forced /\ req[r].forced = FALSE,
         UNCHANGED <<sent, heard>>
  PROVE  AttemptsCounted' /\ StreamsLast'
<1>1. Moved(r, pc, req[r].attempt, req[r].authRefreshed, forced, token)
  OBVIOUS
<1>2. AttemptsCounted' BY <1>1 DEF IInv, AttemptsCounted, Moved, Holding
<1>3. StreamsLast' BY <1>1 DEF IInv, StreamsLast, Moved, Holding, Ended
<1> QED BY <1>2, <1>3

\* Releasing the mutex lets no other request of the process in.
LEMMA UnlockMutex ==
  ASSUME IInv, NEW r \in Requests, req[r].pc \in Holding, Unlock(r),
         NEW pc, NEW attempt, NEW auth, NEW forced, NEW token,
         Moved(r, pc, attempt, auth, forced, token), pc \notin Holding
  PROVE  Mutex' /\ DOMAIN mu' = Procs
<1>1. Moved(r, pc, attempt, auth, forced, token)
  OBVIOUS
<1>2. mu' = [mu EXCEPT ![r[1]] = NoRequest]
  BY DEF Unlock
<1>3. \A q \in Requests : q # NoRequest
  BY NoRequestAssumption DEF Requests
<1>4. mu[r[1]] = r
  BY DEF IInv, Mutex
<1> QED BY <1>1, <1>2, <1>3, <1>4, RequestsOf DEF IInv, Shape, Mutex, Moved

LEMMA BeginRefreshStep == ASSUME IInv, NEW r \in Requests, BeginRefresh(r) PROVE IInv'
<1>1. /\ mu[r[1]] = NoRequest /\ mu' = [mu EXCEPT ![r[1]] = r]
      /\ req[r].pc \in {"token", "forced"}
      /\ UNCHANGED <<grant, store, creds, faults, sent, heard, holder, refused>>
  BY DEF BeginRefresh, Free, history
<1> DEFINE forced == req[r].pc = "forced"
           next == [req[r] EXCEPT !.pc = "refresh", !.forced = forced, !.token = creds[r[1]]]
<1>2. Becomes(r, next)
  BY DEF BeginRefresh
<1>3. /\ HasFields(next) /\ next.pc = "refresh" /\ next.attempt = req[r].attempt
      /\ next.authRefreshed = req[r].authRefreshed
      /\ next.forced = forced /\ next.token = creds[r[1]]
  BY DEF IInv, Shape, HasFields
<1>4. forced \in BOOLEAN /\ (forced = TRUE <=> req[r].pc = "forced")
  BY Zenon
<1> HIDE DEF next, forced
<1>5. Moved(r, next.pc, next.attempt, next.authRefreshed, next.forced, next.token)
  BY <1>2, <1>3, BecomesMoves DEF IInv
<1>6. Moved(r, "refresh", req[r].attempt, req[r].authRefreshed, forced, creds[r[1]])
  BY <1>3, <1>5, Zenon
<1>7. Shape' BY <1>1, <1>4, <1>6, RequestsOf DEF IInv, Shape, Moved
<1>8. Mutex'
  <2>1. \A q \in Requests : q # NoRequest
    BY NoRequestAssumption DEF Requests
  <2>2. \A q \in Requests : q[1] = r[1] => req[q].pc \notin Holding
    BY <1>1, <2>1 DEF IInv, Mutex
  <2> QED BY <1>1, <1>6, <2>2, RequestsOf DEF IInv, Shape, Mutex, Moved, Holding
<1>9. TokensKnown' BY <1>1, <1>6 DEF IInv, TokensKnown, Moved
<1>10. OwnGrantAccepted' BY <1>1 DEF IInv, OwnGrantAccepted
<1>11. StoreCurrent' BY <1>1, <1>6 DEF IInv, StoreCurrent, Moved
<1>12. AttemptsCounted' BY <1>1, <1>4, <1>6 DEF IInv, AttemptsCounted, Moved, Holding
<1>13. StreamsLast' BY <1>1, <1>6 DEF IInv, StreamsLast, Moved, Ended
<1> QED BY <1>7, <1>8, <1>9, <1>10, <1>11, <1>12, <1>13 DEF IInv

\* While a new token waits to be saved, nobody else presents one that is accepted.
LEMMA NoneSaves ==
  ASSUME IInv, NEW r \in Requests, req[r].pc = "refresh", req[r].token = grant, Rotates
  PROVE  \A q \in Requests : req[q].pc # "save"
<1> SUFFICES ASSUME NEW q \in Requests, req[q].pc = "save" PROVE FALSE
  OBVIOUS
<1>1. creds[r[1]] = grant /\ r[1] \in Procs
  BY RequestsOf DEF IInv, TokensKnown
<1>2. CASE q[1] = r[1]
  BY <1>2 DEF IInv, Mutex, Holding
<1>3. CASE q[1] # r[1]
  BY <1>1, <1>3 DEF IInv, Shape, TokensKnown
<1> QED BY <1>2, <1>3

\* Only the process that knows the current token is granted the next, and
\* then alone knows that one.
LEMMA GrantStep == ASSUME IInv, NEW r \in Requests, Grant(r) PROVE IInv'
<1>1. /\ req[r].pc = "refresh" /\ req[r].token = grant
      /\ creds' = [creds EXCEPT ![r[1]] = grant']
      /\ UNCHANGED <<store, mu, faults, sent, heard, refused>>
  BY DEF Grant, Accepts
<1> DEFINE next == [req[r] EXCEPT !.pc = "save", !.token = 0]
<1>2. Becomes(r, next)
  BY DEF Grant
<1>3. /\ HasFields(next) /\ next.pc = "save" /\ next.attempt = req[r].attempt
      /\ next.authRefreshed = req[r].authRefreshed
      /\ next.forced = req[r].forced /\ next.token = 0
  BY DEF IInv, Shape, HasFields
<1> HIDE DEF next
<1>4. Moved(r, next.pc, next.attempt, next.authRefreshed, next.forced, next.token)
  BY <1>2, <1>3, BecomesMoves DEF IInv
<1>5. Moved(r, "save", req[r].attempt, req[r].authRefreshed, req[r].forced, 0)
  BY <1>3, <1>4, Zenon
<1>6. creds[r[1]] = grant /\ r[1] \in Procs
  BY <1>1, RequestsOf DEF IInv, TokensKnown
<1>7. Shape' /\ TokensKnown'
  <2>1. CASE Rotates
    <3>1. grant' = grant + 1 /\ holder' = {r[1]}
      BY <2>1 DEF Grant, Accepts
    <3>2. \A q \in Requests : req[q].pc # "save"
      BY <1>1, <2>1, NoneSaves
    <3>3. creds'[r[1]] = grant' /\ \A p \in Procs : p # r[1] => creds'[p] = creds[p]
      BY <1>1, <1>6 DEF IInv, Shape
    <3>4. store < grant' /\ \A p \in Procs : p # r[1] => creds'[p] < grant'
      BY <3>1, <3>3 DEF IInv, Shape, TokensKnown
    <3>5. \A q \in Requests : q # r /\ req[q].pc = "refresh" => q[1] # r[1]
      BY <1>1 DEF IInv, Mutex, Holding
    <3>6. TokensKnown'
      BY <1>1, <1>5, <1>6, <3>1, <3>2, <3>3, <3>4, <3>5, RequestsOf DEF IInv, Shape, TokensKnown, Moved
    <3>7. grant' \in Nat
      BY <3>1 DEF IInv, Shape
    <3>8. creds' \in [Procs -> Nat]
      BY <1>1, <3>7 DEF IInv, Shape
    <3>9. Shape' BY <1>1, <1>5, <3>7, <3>8 DEF IInv, Shape, Moved
    <3> QED BY <3>6, <3>9
  <2>2. CASE ~Rotates
    <3>1. grant' = grant /\ holder' = holder
      BY <2>2 DEF Grant, Accepts
    <3>2. creds' = creds
      BY <1>1, <1>6, <3>1 DEF IInv, Shape
    <3>3. TokensKnown' BY <1>1, <1>5, <1>6, <2>2, <3>1, <3>2 DEF IInv, TokensKnown, Moved
    <3>4. Shape' BY <1>1, <1>5, <3>1, <3>2 DEF IInv, Shape, Moved
    <3> QED BY <3>3, <3>4
  <2> QED BY <2>1, <2>2
<1>8. Mutex' BY <1>1, <1>5 DEF IInv, Mutex, Moved, Holding
<1>9. OwnGrantAccepted' BY <1>1 DEF IInv, OwnGrantAccepted
<1>10. StoreCurrent' BY <1>5 DEF StoreCurrent, Moved
<1>11. AttemptsCounted' /\ StreamsLast'
  BY <1>1, <1>5, HoldingAside DEF Holding
<1> QED BY <1>7, <1>8, <1>9, <1>10, <1>11 DEF IInv

\* A refresh that ends without credentials to save.
LEMMA RefreshEnds ==
  ASSUME IInv, NEW r \in Requests, req[r].pc \in Holding, Fails(r), Unlock(r),
         UNCHANGED <<store, creds, sent, heard>>,
         grant' \in Nat, grant' >= grant, grant' # grant => holder' = {} /\ req[r].pc = "refresh"
           /\ \A q \in Requests : req[q].pc # "save",
         holder' \in {{}, holder}, faults' \in Nat
  PROVE  Shape' /\ Mutex' /\ TokensKnown' /\ AttemptsCounted' /\ StreamsLast'
<1>1. Moved(r, "failed", req[r].attempt, req[r].authRefreshed, FALSE, 0)
  <2>1. Fails(r) OBVIOUS
  <2> QED BY <2>1, FailsMoves DEF IInv
<1>2. Mutex' /\ DOMAIN mu' = Procs
  <2>1. Unlock(r) OBVIOUS
  <2>2. "failed" \notin Holding BY DEF Holding
  <2> QED BY <1>1, <2>1, <2>2, UnlockMutex
<1>3. Shape' BY <1>1, <1>2 DEF IInv, Shape, Moved
<1>4. TokensKnown' BY <1>1 DEF IInv, Shape, TokensKnown, Moved
<1>5. AttemptsCounted' /\ StreamsLast'
  BY <1>1, HoldingAside
<1> QED BY <1>2, <1>3, <1>4, <1>5

\* A process that alone has the current token is not refused.
LEMMA RefreshFailsStep == ASSUME IInv, NEW r \in Requests, RefreshFails(r) PROVE IInv'
<1>1. /\ req[r].pc = "refresh" /\ Fails(r) /\ Unlock(r)
      /\ refused' = IF req[r].token # grant THEN refused \cup ({r[1]} \cap holder) ELSE refused
      /\ UNCHANGED <<grant, store, creds, faults, sent, heard, holder>>
  BY DEF RefreshFails
<1>2. Shape' /\ Mutex' /\ TokensKnown' /\ AttemptsCounted' /\ StreamsLast'
  BY <1>1, RefreshEnds DEF IInv, Shape, Holding
<1>3. OwnGrantAccepted'
  BY <1>1, RequestsOf DEF IInv, TokensKnown, OwnGrantAccepted
<1>4. Moved(r, "failed", req[r].attempt, req[r].authRefreshed, FALSE, 0)
  BY <1>1, FailsMoves DEF IInv
<1>5. StoreCurrent' BY <1>1, <1>4 DEF IInv, StoreCurrent, Moved
<1> QED BY <1>2, <1>3, <1>5 DEF IInv

LEMMA GrantLostStep == ASSUME IInv, NEW r \in Requests, GrantLost(r) PROVE IInv'
<1>1. /\ req[r].pc = "refresh" /\ req[r].token = grant /\ Fails(r) /\ Unlock(r)
      /\ faults' = faults + 1 /\ holder' = {}
      /\ UNCHANGED <<store, creds, sent, heard, refused>>
  BY DEF GrantLost, Accepts, Fault
<1>2. grant' \in Nat /\ grant' >= grant
  BY DEF GrantLost, Accepts, IInv, Shape
<1>3. grant' # grant => \A q \in Requests : req[q].pc # "save"
  <2>1. grant' # grant => Rotates
    BY DEF GrantLost, Accepts
  <2> QED BY <1>1, <2>1, NoneSaves
<1>4. faults' \in Nat \ {0}
  BY <1>1 DEF IInv, Shape
<1>5. Shape' /\ Mutex' /\ TokensKnown' /\ AttemptsCounted' /\ StreamsLast'
  BY <1>1, <1>2, <1>3, <1>4, RefreshEnds DEF Holding
<1>6. OwnGrantAccepted' BY <1>1 DEF IInv, OwnGrantAccepted
<1>7. StoreCurrent' BY <1>4 DEF StoreCurrent
<1> QED BY <1>5, <1>6, <1>7 DEF IInv

LEMMA SaveFailsStep == ASSUME IInv, NEW r \in Requests, SaveFails(r) PROVE IInv'
<1>1. /\ req[r].pc = "save" /\ Fails(r) /\ Unlock(r) /\ faults' = faults + 1
      /\ UNCHANGED <<grant, store, creds, sent, heard, holder, refused>>
  BY DEF SaveFails, Fault, history
<1>2. faults' \in Nat \ {0}
  BY <1>1 DEF IInv, Shape
<1>3. Shape' /\ Mutex' /\ TokensKnown' /\ AttemptsCounted' /\ StreamsLast'
  BY <1>1, <1>2, RefreshEnds DEF IInv, Shape, Holding
<1>4. OwnGrantAccepted' BY <1>1 DEF IInv, OwnGrantAccepted
<1>5. StoreCurrent' BY <1>2 DEF StoreCurrent
<1> QED BY <1>3, <1>4, <1>5 DEF IInv

\* What is saved is the token that the server accepts.
LEMMA SaveStep == ASSUME IInv, NEW r \in Requests, Save(r) PROVE IInv'
<1>1. /\ req[r].pc = "save" /\ store' = creds[r[1]] /\ Unlock(r)
      /\ UNCHANGED <<grant, creds, faults, sent, heard, holder, refused>>
  BY DEF Save, Saved
<1>2. store' = grant /\ r[1] \in Procs
  BY <1>1, RequestsOf DEF IInv, TokensKnown
<1>3. PICK pc \in {"token", "send"}, attempt \in Nat, auth \in BOOLEAN, forced \in BOOLEAN :
        /\ Moved(r, pc, attempt, auth, forced, req[r].token)
        /\ sent[r] < attempt /\ 1 <= attempt /\ attempt <= MaxRetries + 2
        /\ auth = FALSE => attempt <= MaxRetries + 1
  <2>1. CASE req[r].forced
    <3> DEFINE next == [req[r] EXCEPT !.pc = "token", !.authRefreshed = TRUE, !.forced = FALSE,
                                      !.attempt = req[r].attempt + 1]
    <3>1. Becomes(r, next)
      BY <2>1 DEF Save
    <3>2. /\ HasFields(next) /\ next.pc = "token" /\ next.attempt = req[r].attempt + 1
          /\ next.authRefreshed = TRUE /\ next.forced = FALSE /\ next.token = req[r].token
      BY DEF IInv, Shape, HasFields
    <3> HIDE DEF next
    <3>3. Moved(r, next.pc, next.attempt, next.authRefreshed, next.forced, next.token)
      BY <3>1, <3>2, BecomesMoves DEF IInv
    <3>4. Moved(r, "token", req[r].attempt + 1, TRUE, FALSE, req[r].token)
      BY <3>2, <3>3, Zenon
    <3>5. req[r].attempt \in Nat /\ sent[r] \in Nat /\ sent[r] <= req[r].attempt
          /\ req[r].attempt <= MaxRetries + 1
      BY <1>1, <2>1 DEF IInv, Shape, AttemptsCounted, Holding
    <3>6. /\ req[r].attempt + 1 \in Nat /\ sent[r] < req[r].attempt + 1 /\ 1 <= req[r].attempt + 1
          /\ req[r].attempt + 1 <= MaxRetries + 2
      BY <3>5, ConstantsOK
    <3> QED BY <3>4, <3>6
  <2>2. CASE ~req[r].forced
    <3>1. Go(r, "send")
      BY <2>2 DEF Save
    <3>2. Moved(r, "send", req[r].attempt, req[r].authRefreshed, req[r].forced, req[r].token)
      BY <3>1, GoMoves DEF IInv
    <3>3. req[r].forced = FALSE
      BY <2>2 DEF IInv, Shape
    <3>4. sent[r] < req[r].attempt
      BY <1>1, <3>3 DEF IInv, AttemptsCounted, Holding
    <3> QED BY <3>2, <3>4 DEF IInv, Shape, AttemptsCounted
  <2> QED BY <2>1, <2>2
<1>4. Mutex' /\ DOMAIN mu' = Procs
  BY <1>1, <1>3, UnlockMutex DEF Holding
<1>5. Shape' BY <1>1, <1>2, <1>3, <1>4 DEF IInv, Shape, Moved
<1>6. TokensKnown'
  <2>1. Rotates = TRUE => \A q \in Requests : q # r => req[q].pc # "save"
    <3> SUFFICES ASSUME Rotates = TRUE, NEW q \in Requests, q # r, req[q].pc = "save" PROVE FALSE
      OBVIOUS
    <3>1. q[1] # r[1]
      BY <1>1 DEF IInv, Mutex, Holding
    <3> QED BY <1>1, <1>2, <3>1, RequestsOf DEF IInv, Shape, TokensKnown
  <2> QED BY <1>1, <1>2, <1>3, <2>1 DEF IInv, Shape, TokensKnown, Moved
<1>7. OwnGrantAccepted' BY <1>1 DEF IInv, OwnGrantAccepted
<1>8. StoreCurrent' BY <1>1, <1>2 DEF StoreCurrent
<1>9. AttemptsCounted' BY <1>1, <1>3, ConstantsOK DEF IInv, Shape, AttemptsCounted, Moved, Holding
<1>10. StreamsLast' BY <1>1, <1>3 DEF IInv, StreamsLast, Moved, Ended
<1> QED BY <1>4, <1>5, <1>6, <1>7, <1>8, <1>9, <1>10 DEF IInv

\* A process that starts again takes the token of the file, which is the
\* newest only if it was saved.
LEMMA RestartStep == ASSUME IInv, NEW p \in Procs, Restart(p) PROVE IInv'
<1>1. /\ creds' = [creds EXCEPT ![p] = store] /\ mu' = [mu EXCEPT ![p] = NoRequest]
      /\ faults' = faults + 1
      /\ holder' = IF store = grant THEN holder ELSE holder \ {p}
      /\ UNCHANGED <<grant, store, sent, heard, refused>>
  BY DEF Restart, Fault
<1> DEFINE Dead(r) == [req[r] EXCEPT !.pc = "failed", !.forced = FALSE, !.token = 0]
<1>2. req' = [r \in Requests |-> IF r[1] = p /\ req[r].pc \notin {"idle"} \cup Ended
                                THEN Dead(r) ELSE req[r]]
  BY DEF Restart
<1>3. \A r \in Requests :
        /\ HasFields(Dead(r)) /\ Dead(r).pc = "failed" /\ Dead(r).attempt = req[r].attempt
        /\ Dead(r).authRefreshed = req[r].authRefreshed /\ Dead(r).forced = FALSE
  BY DEF IInv, Shape, HasFields
<1>4. \A r \in Requests :
        \/ r[1] = p /\ req'[r] = Dead(r)
        \/ req'[r] = req[r] /\ (r[1] = p => req[r].pc \in {"idle"} \cup Ended)
  BY <1>2
<1>5. DOMAIN req' = Requests
  BY <1>2
<1> HIDE DEF Dead
<1>6. \A r \in Requests :
        /\ HasFields(req'[r]) /\ req'[r].attempt = req[r].attempt
        /\ req'[r].authRefreshed = req[r].authRefreshed
        /\ \/ req'[r].pc = "failed" /\ req'[r].forced = FALSE
           \/ req'[r] = req[r]
  BY <1>3, <1>4 DEF IInv, Shape
<1>7. \A r \in Requests : req'[r].pc \in Holding => r[1] # p /\ req'[r] = req[r]
  BY <1>3, <1>4 DEF Holding, Ended
<1>8. faults' \in Nat \ {0}
  BY <1>1 DEF IInv, Shape
<1>9. creds' \in [Procs -> Nat] /\ creds'[p] = store /\ \A q \in Procs : q # p => creds'[q] = creds[q]
  BY <1>1 DEF IInv, Shape
<1>10. Shape' BY <1>1, <1>5, <1>6, <1>8, <1>9 DEF IInv, Shape
<1>11. Mutex'
  <2>1. \A r \in Requests : r # NoRequest
    BY NoRequestAssumption DEF Requests
  <2>2. mu'[p] = NoRequest /\ \A q \in Procs : q # p => mu'[q] = mu[q]
    BY <1>1 DEF IInv, Shape
  <2>3. \A r \in Requests : r[1] # p => req'[r] = req[r]
    BY <1>4
  <2>4. \A r \in Requests : r[1] = p => req'[r].pc \notin Holding /\ mu'[r[1]] # r
    BY <1>7, <2>1, <2>2
  <2>5. \A r \in Requests : r[1] # p => (req'[r].pc \in Holding <=> mu'[r[1]] = r)
    BY <2>2, <2>3, RequestsOf DEF IInv, Mutex
  <2> QED BY <2>4, <2>5 DEF Mutex
<1>12. TokensKnown'
  <2>1. \A r \in Requests : req'[r].pc = "refresh" => req'[r].token = creds'[r[1]]
    BY <1>7, <1>9, RequestsOf DEF IInv, TokensKnown, Holding
  <2>2. \A q \in Procs : creds'[q] <= grant
    BY <1>9 DEF IInv, TokensKnown
  <2>3. \A q \in Procs : q \in holder' => creds'[q] = grant
    BY <1>1, <1>9 DEF IInv, TokensKnown
  <2>4. \A r \in Requests : req'[r].pc = "save" =>
          /\ creds'[r[1]] = grant
          /\ Rotates = TRUE => store < grant /\ \A q \in Procs : q # r[1] => creds'[q] < grant
    BY <1>7, <1>9, RequestsOf DEF IInv, TokensKnown, Holding
  <2> QED BY <1>1, <2>1, <2>2, <2>3, <2>4 DEF IInv, TokensKnown
<1>13. OwnGrantAccepted' BY <1>1 DEF IInv, OwnGrantAccepted
<1>14. StoreCurrent' BY <1>8 DEF StoreCurrent
<1>15. AttemptsCounted' BY <1>1, <1>6 DEF IInv, AttemptsCounted, Holding
<1>16. StreamsLast' BY <1>1, <1>6 DEF IInv, StreamsLast, Ended
<1> QED BY <1>10, <1>11, <1>12, <1>13, <1>14, <1>15, <1>16 DEF IInv

LEMMA Inductive == Spec => []IInv
<1>1. IInv /\ [Next]_vars => IInv'
  <2> SUFFICES ASSUME IInv, [Next]_vars PROVE IInv'
    OBVIOUS
  <2>1. CASE UNCHANGED vars
    BY <2>1, Untouched
  <2>2. ASSUME NEW p \in Procs, Restart(p) PROVE IInv'
    BY <2>2, RestartStep
  <2>3. ASSUME NEW r \in Requests, Start(r) \/ CurrentToken(r) \/ StreamEnds(r) PROVE IInv'
    <3>1. PICK pc : /\ Go(r, pc)
                    /\ \/ req[r].pc \in {"idle", "token"} /\ pc \in {"token", "send"}
                       \/ req[r].pc = "stream" /\ pc \in Ended
      BY <2>3 DEF Start, CurrentToken, StreamEnds
    <3>2. UNCHANGED <<grant, store, creds, mu, faults, history>>
      BY <2>3 DEF Start, CurrentToken, StreamEnds
    <3> QED BY <3>1, <3>2, MoveStep
  <2>4. ASSUME NEW r \in Requests, Start(r) \/ Step(r) \/ StreamEvent(r) PROVE IInv'
    BY <2>3, <2>4, BeginRefreshStep, GrantStep, GrantLostStep, RefreshFailsStep, SaveStep,
       SaveFailsStep, SendStep, StreamEventStep DEF Step
  <2> QED BY <2>1, <2>2, <2>4 DEF Next
<1> QED BY <1>1, InitIInv, PTL DEF Spec

-----------------------------------------------------------------------------
\* A process that alone holds the current refresh token is never refused,
\* however many of its requests refresh at once (RefreshAccessToken and
\* CurrentAccessToken hold the provider's mutex).
THEOREM OwnGrant == Spec => []OwnGrantAccepted
<1>1. IInv => OwnGrantAccepted
  BY DEF IInv
<1> QED BY <1>1, Inductive, PTL

\* Whatever number of processes share the credential file, it holds the token
\* that the server accepts whenever nothing failed and nobody is about to save
\* (refreshAccessTokenLocked saves what it was granted).
THEOREM Store == Spec => []StoreCurrent
<1>1. IInv => StoreCurrent
  BY DEF IInv
<1> QED BY <1>1, Inductive, PTL

\* The credential file never goes back to an older token, whatever fails:
\* FileCredentialStore.Save has no lock, and needs none for this.
THEOREM Forward == Spec => StoreNeverRegresses
<1>1. IInv /\ [Next]_vars => [store' >= store]_store
  <2> SUFFICES ASSUME IInv, Next, store' # store PROVE store' >= store
    BY DEF vars
  <2>1. PICK r \in Requests : Save(r)
    BY ZenonT(60) DEF Next, Step, Start, CurrentToken, BeginRefresh, Grant, GrantLost, RefreshFails, SaveFails,
           SendFails, SendSucceeds, StreamEnds, StreamEvent, Restart
  <2>2. store' = grant
    BY <2>1 DEF Save, Saved, IInv, TokensKnown
  <2> QED BY <2>2 DEF IInv, Shape, TokensKnown
<1> QED BY <1>1, Inductive, PTL DEF Spec, StoreNeverRegresses

\* For every limit, a request is sent at most once more than the limit allows
\* retries, and once more after a refresh; and no caller hears two attempts
\* (doJSON and StreamMessages).
THEOREM Contained == Spec => []RetriesContained
<1>1. IInv => RetriesContained
  <2> SUFFICES ASSUME IInv, NEW r \in Requests
               PROVE  /\ sent[r] <= MaxRetries + (IF req[r].authRefreshed THEN 2 ELSE 1)
                      /\ Cardinality(heard[r]) <= 1
    BY DEF RetriesContained, SendsBounded, OneStream
  <2>1. sent[r] <= MaxRetries + (IF req[r].authRefreshed THEN 2 ELSE 1)
    <3>1. CASE req[r].authRefreshed = TRUE
      BY <3>1, ConstantsOK DEF IInv, Shape, AttemptsCounted
    <3>2. CASE req[r].authRefreshed = FALSE
      BY <3>2, ConstantsOK DEF IInv, Shape, AttemptsCounted
    <3> QED BY <3>1, <3>2 DEF IInv, Shape
  <2>2. heard[r] = {} \/ heard[r] = {req[r].attempt}
    BY DEF IInv, StreamsLast
  <2>3. Cardinality(heard[r]) \in {0, 1}
    BY <2>2, FS_EmptySet, FS_Singleton
  <2> QED BY <2>1, <2>3
<1> QED BY <1>1, Inductive, PTL

-----------------------------------------------------------------------------
(* Types.                                                                  *)

RequestType ==
  [pc : {"idle", "token", "forced", "refresh", "save", "send", "stream"} \cup Ended,
   attempt : Nat, authRefreshed : BOOLEAN, forced : BOOLEAN, token : Tokens]

Types ==
  /\ grant \in Tokens /\ store \in Tokens /\ faults \in 0 .. MaxFaults
  /\ creds \in [Procs -> Tokens] /\ req \in [Requests -> RequestType]
  /\ mu \in [Procs -> Requests \cup {NoRequest}]
  /\ \A p \in Procs : mu[p] # NoRequest => mu[p][1] = p
  /\ sent \in [Requests -> Nat] /\ heard \in [Requests -> SUBSET Nat]
  /\ holder \subseteq Procs /\ refused \subseteq Procs

\* A request that becomes a record of the type.
LEMMA BecomesTyped ==
  ASSUME Types, NEW r \in Requests, NEW next \in RequestType, Becomes(r, next)
  PROVE  req' \in [Requests -> RequestType]
  BY DEF Becomes, Types

LEMMA GoTyped ==
  ASSUME Types, NEW r \in Requests, NEW pc, Go(r, pc),
         pc \in {"token", "forced", "send", "stream", "done", "failed"}
  PROVE  req' \in [Requests -> RequestType]
<1>1. [req[r] EXCEPT !.pc = pc] \in RequestType
  BY DEF Types, RequestType, Ended
<1> QED BY <1>1, BecomesTyped DEF Go

LEMMA FailsTyped ==
  ASSUME Types, NEW r \in Requests, Fails(r)
  PROVE  req' \in [Requests -> RequestType]
<1>1. 0 \in Tokens
  BY ConstantsOK DEF Tokens
<1>2. [req[r] EXCEPT !.pc = "failed", !.forced = FALSE, !.token = 0] \in RequestType
  BY <1>1, ZenonT(60) DEF Types, RequestType, Ended
<1> QED BY <1>2, BecomesTyped DEF Fails

LEMMA RetryTyped ==
  ASSUME Types, NEW r \in Requests, Retry(r)
  PROVE  req' \in [Requests -> RequestType]
<1>0. req[r] \in RequestType
  BY DEF Types
<1>n. req[r].attempt + 1 \in Nat
  BY <1>0 DEF RequestType
<1>1. [req[r] EXCEPT !.pc = "token", !.attempt = @ + 1] \in RequestType
  BY <1>0, <1>n DEF RequestType
<1> QED BY <1>1, BecomesTyped DEF Retry

LEMMA UnlockTyped ==
  ASSUME Types, NEW r \in Requests, Unlock(r)
  PROVE  /\ mu' \in [Procs -> Requests \cup {NoRequest}]
         /\ \A p \in Procs : mu'[p] # NoRequest => mu'[p][1] = p
  BY DEF Types, Unlock

\* The authorisation server issues no more than MaxTokens.
LEMMA AcceptsTyped ==
  ASSUME Types, NEW r \in Requests, Accepts(r) PROVE grant' \in Tokens
  BY ConstantsOK DEF Types, Accepts, Tokens

LEMMA FaultTyped ==
  ASSUME Types, Fault PROVE faults' \in 0 .. MaxFaults
  BY ApiClientAssumption DEF Types, Fault

LEMMA TypesStep ==
  ASSUME Types, NEW r \in Requests, Start(r) \/ Step(r) \/ StreamEvent(r)
  PROVE  Types'
<1>r. r[1] \in Procs
  BY RequestsOf
<1>t. req[r] \in RequestType /\ creds[r[1]] \in Tokens
  BY <1>r DEF Types
<1>0. ASSUME UNCHANGED <<grant, store, creds, mu, faults, history>>, req' \in [Requests -> RequestType]
      PROVE  Types'
  BY <1>0 DEF Types, history
<1>1. CASE Start(r) \/ CurrentToken(r) \/ StreamEnds(r)
  <2>1. PICK pc \in {"token", "send", "done", "failed"} : Go(r, pc)
    BY <1>1 DEF Start, CurrentToken, StreamEnds, Ended
  <2>2. req' \in [Requests -> RequestType]
    BY <2>1, GoTyped
  <2>3. UNCHANGED <<grant, store, creds, mu, faults, history>>
    BY <1>1 DEF Start, CurrentToken, StreamEnds
  <2> QED BY <1>0, <2>2, <2>3
<1>2. CASE BeginRefresh(r)
  <2> DEFINE next == [req[r] EXCEPT !.pc = "refresh", !.forced = (req[r].pc = "forced"), !.token = creds[r[1]]]
  <2>1. next \in RequestType
    BY <1>t DEF RequestType
  <2>2. Becomes(r, next)
    BY <1>2 DEF BeginRefresh
  <2> HIDE DEF next
  <2>3. req' \in [Requests -> RequestType]
    BY <2>1, <2>2, BecomesTyped
  <2>4. mu' = [mu EXCEPT ![r[1]] = r] /\ UNCHANGED <<grant, store, creds, faults, history>>
    BY <1>2 DEF BeginRefresh
  <2>5. /\ mu' \in [Procs -> Requests \cup {NoRequest}]
        /\ \A p \in Procs : mu'[p] # NoRequest => mu'[p][1] = p
    BY <1>r, <2>4 DEF Types
  <2> QED BY <2>3, <2>4, <2>5 DEF Types, history
<1>3. CASE Grant(r)
  <2> DEFINE next == [req[r] EXCEPT !.pc = "save", !.token = 0]
  <2>1. next \in RequestType
    <3>1. 0 \in Tokens
      BY ConstantsOK DEF Tokens
    <3> QED BY <1>t, <3>1 DEF RequestType
  <2>2. Becomes(r, next) /\ Accepts(r)
    BY <1>3 DEF Grant
  <2> HIDE DEF next
  <2>3. req' \in [Requests -> RequestType] /\ grant' \in Tokens
    BY <2>1, <2>2, BecomesTyped, AcceptsTyped
  <2>4. creds' = [creds EXCEPT ![r[1]] = grant'] /\ holder' \in {{r[1]}, holder}
        /\ UNCHANGED <<store, mu, faults, sent, heard, refused>>
    BY <1>3 DEF Grant
  <2> QED BY <1>r, <2>3, <2>4 DEF Types
<1>4. CASE GrantLost(r)
  <2>1. Accepts(r) /\ Fault /\ Fails(r) /\ Unlock(r) /\ holder' = {} /\ UNCHANGED <<store, creds, sent, heard, refused>>
    BY <1>4 DEF GrantLost
  <2> QED BY <2>1, AcceptsTyped, FaultTyped, FailsTyped, UnlockTyped DEF Types
<1>5. CASE RefreshFails(r)
  <2>1. /\ Fails(r) /\ Unlock(r) /\ refused' \subseteq refused \cup {r[1]}
        /\ UNCHANGED <<grant, store, creds, faults, sent, heard, holder>>
    BY <1>5 DEF RefreshFails
  <2> QED BY <1>r, <2>1, FailsTyped, UnlockTyped DEF Types
<1>6. CASE Save(r)
  <2> DEFINE next == [req[r] EXCEPT !.pc = "token", !.authRefreshed = TRUE, !.forced = FALSE, !.attempt = @ + 1]
  <2>n. req[r].attempt + 1 \in Nat
    BY <1>t DEF RequestType
  <2>1. next \in RequestType
    BY <1>t, <2>n DEF RequestType
  <2>2. /\ store' = creds[r[1]] /\ Unlock(r) /\ (Becomes(r, next) \/ Go(r, "send"))
        /\ UNCHANGED <<grant, creds, faults, sent, heard, holder, refused>>
    BY <1>6 DEF Save, Saved
  <2> HIDE DEF next
  <2>3. req' \in [Requests -> RequestType]
    BY <2>1, <2>2, BecomesTyped, GoTyped
  <2> QED BY <1>t, <2>2, <2>3, UnlockTyped DEF Types
<1>7. CASE SaveFails(r)
  <2>1. Fault /\ Fails(r) /\ Unlock(r) /\ UNCHANGED <<grant, store, creds, history>>
    BY <1>7 DEF SaveFails
  <2> QED BY <2>1, FaultTyped, FailsTyped, UnlockTyped DEF Types, history
<1>8. CASE SendFails(r) \/ SendSucceeds(r)
  <2>1. /\ sent' = [sent EXCEPT ![r] = @ + 1]
        /\ UNCHANGED <<grant, store, creds, mu, faults, heard, holder, refused>>
    BY <1>8 DEF SendFails, SendSucceeds
  <2>2. Retry(r) \/ Go(r, "forced") \/ Go(r, "failed") \/ Go(r, "done") \/ Go(r, "stream")
    BY <1>8, Zenon DEF SendFails, SendSucceeds, AfterError
  <2>3. req' \in [Requests -> RequestType]
    BY <2>2, RetryTyped, GoTyped
  <2>4. sent' \in [Requests -> Nat]
    BY <2>1 DEF Types
  <2> QED BY <2>1, <2>3, <2>4 DEF Types
<1>9. CASE StreamEvent(r)
  <2>1. /\ heard' = [heard EXCEPT ![r] = @ \cup {req[r].attempt}]
        /\ UNCHANGED <<grant, store, creds, mu, req, faults, sent, holder, refused>>
    BY <1>9 DEF StreamEvent
  <2>2. heard' \in [Requests -> SUBSET Nat]
    BY <1>t, <2>1 DEF Types, RequestType
  <2> QED BY <2>1, <2>2 DEF Types
<1> QED BY <1>1, <1>2, <1>3, <1>4, <1>5, <1>6, <1>7, <1>8, <1>9 DEF Step

LEMMA RestartTyped == ASSUME Types, NEW p \in Procs, Restart(p) PROVE Types'
<1>1. /\ Fault /\ creds' = [creds EXCEPT ![p] = store] /\ mu' = [mu EXCEPT ![p] = NoRequest]
      /\ holder' \subseteq holder /\ UNCHANGED <<grant, store, sent, heard, refused>>
  BY DEF Restart
<1>2. 0 \in Tokens
  BY ConstantsOK DEF Tokens
<1>3. req' \in [Requests -> RequestType]
  <2>1. \A r \in Requests : req[r] \in RequestType
    BY DEF Types
  <2>2. \A r \in Requests : [req[r] EXCEPT !.pc = "failed", !.forced = FALSE, !.token = 0] \in RequestType
    BY <1>2, <2>1 DEF RequestType, Ended
  <2> HIDE DEF RequestType
  <2> QED BY <2>1, <2>2 DEF Restart
<1> QED BY <1>1, <1>3, FaultTyped DEF Types

LEMMA TypesAlways == Spec => []Types
<1>1. Init => Types
  <2>1. 0 \in Tokens /\ 0 \in 0 .. MaxFaults /\ 1 \in Nat /\ FALSE \in BOOLEAN
    BY ApiClientAssumption DEF Tokens
  <2>2. NewRequest \in RequestType
    BY <2>1 DEF NewRequest, RequestType
  <2> HIDE DEF RequestType
  <2> QED BY <2>1, <2>2 DEF Init, Types
<1>2. Types /\ [Next]_vars => Types'
  <2> SUFFICES ASSUME Types, [Next]_vars PROVE Types'
    OBVIOUS
  <2>1. CASE UNCHANGED vars
    BY <2>1 DEF vars, history, Types
  <2> QED BY <2>1, TypesStep, RestartTyped DEF Next
<1> QED BY <1>1, <1>2, PTL DEF Spec

\* The client is type correct: nobody has a token that was not issued, and the mutex
\* of a provider is held by the one request of its process that refreshes.
THEOREM ApiTypes == Spec => []TypeOK
<1>1. IInv /\ Types => TypeOK
  <2> SUFFICES ASSUME IInv, Types PROVE TypeOK
    OBVIOUS
  <2>1. ASSUME NEW p \in Procs
        PROVE  {r \in Requests : r[1] = p /\ req[r].pc \in {"refresh", "save"}} = {mu[p]} \ {NoRequest}
    <3>1. NoRequest \notin Requests
      BY NoRequestAssumption DEF Requests
    <3>2. mu[p] = NoRequest \/ (mu[p] \in Requests /\ mu[p][1] = p)
      BY DEF Types
    <3> HIDE DEF NoRequest, Requests
    <3>3. \A r \in Requests : r[1] = p /\ req[r].pc \in {"refresh", "save"} <=> r = mu[p]
      BY <3>1, <3>2 DEF IInv, Mutex, Holding
    <3> QED BY <3>1, <3>2, <3>3
  <2> QED BY <2>1 DEF TypeOK, Types, RequestType
<1> QED BY <1>1, Inductive, TypesAlways, PTL

-----------------------------------------------------------------------------
(* Progress: the steps of a request are bounded, and it never waits for a  *)
(* request that cannot go on.                                              *)

\* How a step moves the request that takes it.
Edge(q, n) ==
  \/ /\ n.attempt = q.attempt
     /\ \/ q.pc = "idle" /\ n.pc = "token"
        \/ q.pc = "token" /\ n.pc = "send"
        \/ q.pc = "send" /\ n.pc \in {"forced", "stream"} \cup Ended
        \/ q.pc = "stream" /\ n.pc \in Ended
        \/ q.pc = "token" /\ n.pc = "refresh" /\ n.forced = FALSE
        \/ q.pc = "forced" /\ n.pc = "refresh" /\ n.forced = TRUE
        \/ q.pc = "refresh" /\ n.pc = "save" /\ n.forced = q.forced
        \/ q.pc = "save" /\ q.forced = FALSE /\ n.pc = "send"
        \/ q.pc \notin {"idle"} \cup Ended /\ n.pc = "failed"
  \/ /\ n.attempt = q.attempt + 1 /\ n.pc = "token"
     /\ q.pc = "send" \/ (q.pc = "save" /\ q.forced = TRUE)

\* Where an attempt is, counted from its end.
AttemptLeft(q) ==
  CASE q.pc = "idle" -> 9
    [] q.pc = "token" -> 8
    [] q.pc = "refresh" -> IF q.forced = TRUE THEN 3 ELSE 7
    [] q.pc = "save" -> IF q.forced = TRUE THEN 2 ELSE 6
    [] q.pc = "send" -> 5
    [] q.pc = "forced" -> 4
    [] q.pc = "stream" -> 1

\* A bound of the steps that a request can still take, the events of its
\* stream apart.
RequestLeft(q) ==
  IF q.pc \in Ended THEN 0 ELSE 9 * (MaxRetries + 2 - q.attempt) + AttemptLeft(q)

RequestsForward == \A r \in Requests : req'[r] = req[r] \/ RequestLeft(req'[r]) < RequestLeft(req[r])

LEMMA EdgeForward ==
  ASSUME NEW q \in RequestType, NEW n, Edge(q, n), q.attempt <= MaxRetries + 2
  PROVE  RequestLeft(n) < RequestLeft(q)
<1>0. q.attempt \in Nat
  BY DEF RequestType
<1>1. CASE n.pc \in Ended
  <2>1. AttemptLeft(q) \in 1 .. 9 /\ q.pc \notin Ended
    BY <1>1 DEF Edge, AttemptLeft, Ended, RequestType
  <2> QED BY <1>0, <1>1, <2>1, ConstantsOK DEF RequestLeft
<1>2. CASE n.pc \notin Ended /\ n.attempt = q.attempt
  <2>1. AttemptLeft(n) < AttemptLeft(q) /\ AttemptLeft(q) \in 1 .. 9 /\ AttemptLeft(n) \in 1 .. 9 /\ q.pc \notin Ended
    BY <1>0, <1>2 DEF Edge, AttemptLeft, Ended
  <2> QED BY <1>0, <1>2, <2>1, ConstantsOK DEF RequestLeft
<1>3. CASE n.pc \notin Ended /\ n.attempt # q.attempt
  <2>1. n.attempt = q.attempt + 1 /\ AttemptLeft(n) = 8 /\ AttemptLeft(q) \in 1 .. 9 /\ q.pc \notin Ended
    BY <1>3 DEF Edge, AttemptLeft, Ended
  <2> QED BY <1>0, <1>3, <2>1, ConstantsOK DEF RequestLeft
<1> QED BY <1>1, <1>2, <1>3

LEMMA LeftBounds ==
  ASSUME NEW q \in RequestType, 1 <= q.attempt, q.attempt <= MaxRetries + 2
  PROVE  /\ RequestLeft(q) \in 0 .. 9 * (MaxRetries + 2)
         /\ RequestLeft(q) = 0 <=> q.pc \in Ended
<1>1. CASE q.pc \in Ended
  BY <1>1, ConstantsOK DEF RequestLeft
<1>2. CASE q.pc \notin Ended
  <2>1. AttemptLeft(q) \in 1 .. 9 /\ q.attempt \in Nat
    BY <1>2 DEF RequestType, AttemptLeft
  <2> QED BY <1>2, <2>1, ConstantsOK DEF RequestLeft
<1> QED BY <1>1, <1>2

LEMMA StepEdge ==
  ASSUME IInv, NEW r \in Requests, Start(r) \/ Step(r)
  PROVE  Edge(req[r], req'[r]) /\ \A q \in Requests : q # r => req'[q] = req[q]
<1>s. Shape /\ req[r].forced \in BOOLEAN
  BY DEF IInv, Shape
<1>1. CASE Start(r) \/ CurrentToken(r) \/ StreamEnds(r) \/ SendSucceeds(r) \/ SendFails(r)
  <2>1. \/ Retry(r) /\ req[r].pc = "send"
        \/ \E pc : /\ Go(r, pc)
                   /\ \/ req[r].pc = "idle" /\ pc = "token"
                      \/ req[r].pc = "token" /\ pc = "send"
                      \/ req[r].pc = "send" /\ pc \in {"forced", "stream"} \cup Ended
                      \/ req[r].pc = "stream" /\ pc \in Ended
    <3>1. CASE SendFails(r)
      <4>1. req[r].pc = "send" /\ (Go(r, "forced") \/ Retry(r) \/ Go(r, "failed"))
        BY <3>1, Zenon DEF SendFails, AfterError
      <4>2. "forced" \in {"forced", "stream"} \cup Ended /\ "failed" \in {"forced", "stream"} \cup Ended
        BY DEF Ended
      <4> QED BY <4>1, <4>2, Zenon
    <3>2. CASE SendSucceeds(r)
      <4>1. req[r].pc = "send" /\ (Go(r, "done") \/ Go(r, "stream"))
        BY <3>2, Zenon DEF SendSucceeds
      <4>2. "done" \in {"forced", "stream"} \cup Ended /\ "stream" \in {"forced", "stream"} \cup Ended
        BY DEF Ended
      <4> QED BY <4>1, <4>2, Zenon
    <3>3. CASE Start(r) \/ CurrentToken(r) \/ StreamEnds(r)
      BY <3>3, Zenon DEF Start, CurrentToken, StreamEnds
    <3> QED BY <1>1, <3>1, <3>2, <3>3
  <2>2. CASE Retry(r) /\ req[r].pc = "send"
    <3>1. Moved(r, "token", req[r].attempt + 1, req[r].authRefreshed, req[r].forced, req[r].token)
      BY <1>s, <2>2, RetryMoves
    <3> QED BY <2>2, <3>1 DEF Moved, Edge
  <2>3. ASSUME NEW pc, Go(r, pc), \/ req[r].pc = "idle" /\ pc = "token"
                                  \/ req[r].pc = "token" /\ pc = "send"
                                  \/ req[r].pc = "send" /\ pc \in {"forced", "stream"} \cup Ended
                                  \/ req[r].pc = "stream" /\ pc \in Ended
        PROVE  Edge(req[r], req'[r]) /\ \A q \in Requests : q # r => req'[q] = req[q]
    <3>1. Moved(r, pc, req[r].attempt, req[r].authRefreshed, req[r].forced, req[r].token)
      BY <1>s, <2>3, GoMoves
    <3> QED BY <2>3, <3>1 DEF Moved, Edge
  <2> QED BY <2>1, <2>2, <2>3
<1>2. CASE GrantLost(r) \/ RefreshFails(r) \/ SaveFails(r)
  <2>1. Fails(r) /\ req[r].pc \in {"refresh", "save"}
    BY <1>2 DEF GrantLost, Accepts, RefreshFails, SaveFails
  <2>2. Moved(r, "failed", req[r].attempt, req[r].authRefreshed, FALSE, 0)
    BY <1>s, <2>1, FailsMoves
  <2> QED BY <2>1, <2>2 DEF Moved, Edge, Ended
<1>3. CASE BeginRefresh(r)
  <2> DEFINE forced == req[r].pc = "forced"
             next == [req[r] EXCEPT !.pc = "refresh", !.forced = forced, !.token = creds[r[1]]]
  <2>1. Becomes(r, next) /\ req[r].pc \in {"token", "forced"}
    BY <1>3 DEF BeginRefresh
  <2>2. HasFields(next) /\ next.pc = "refresh" /\ next.attempt = req[r].attempt /\ next.forced = forced
    BY <1>s DEF Shape, HasFields
  <2>3. forced \in BOOLEAN /\ (forced = TRUE <=> req[r].pc = "forced")
    BY Zenon
  <2> HIDE DEF next, forced
  <2>4. Moved(r, next.pc, next.attempt, next.authRefreshed, next.forced, next.token)
    BY <1>s, <2>1, <2>2, BecomesMoves
  <2> QED BY <2>1, <2>2, <2>3, <2>4 DEF Moved, Edge
<1>4. CASE Grant(r)
  <2> DEFINE next == [req[r] EXCEPT !.pc = "save", !.token = 0]
  <2>1. Becomes(r, next) /\ req[r].pc = "refresh"
    BY <1>4 DEF Grant, Accepts
  <2>2. HasFields(next) /\ next.pc = "save" /\ next.attempt = req[r].attempt /\ next.forced = req[r].forced
    BY <1>s DEF Shape, HasFields
  <2> HIDE DEF next
  <2>3. Moved(r, next.pc, next.attempt, next.authRefreshed, next.forced, next.token)
    BY <1>s, <2>1, <2>2, BecomesMoves
  <2> QED BY <2>1, <2>2, <2>3 DEF Moved, Edge
<1>5. CASE Save(r) /\ req[r].forced = TRUE
  <2> DEFINE next == [req[r] EXCEPT !.pc = "token", !.authRefreshed = TRUE, !.forced = FALSE,
                                    !.attempt = req[r].attempt + 1]
  <2>1. Becomes(r, next) /\ req[r].pc = "save"
    BY <1>5 DEF Save
  <2>2. HasFields(next) /\ next.pc = "token" /\ next.attempt = req[r].attempt + 1
    BY <1>s DEF Shape, HasFields
  <2> HIDE DEF next
  <2>3. Moved(r, next.pc, next.attempt, next.authRefreshed, next.forced, next.token)
    BY <1>s, <2>1, <2>2, BecomesMoves
  <2> QED BY <1>5, <2>1, <2>2, <2>3 DEF Moved, Edge
<1>6. CASE Save(r) /\ req[r].forced = FALSE
  <2>1. Go(r, "send") /\ req[r].pc = "save"
    BY <1>6 DEF Save
  <2>2. Moved(r, "send", req[r].attempt, req[r].authRefreshed, req[r].forced, req[r].token)
    BY <1>s, <2>1, GoMoves
  <2> QED BY <1>6, <2>1, <2>2 DEF Moved, Edge
<1> QED BY <1>s, <1>1, <1>2, <1>3, <1>4, <1>5, <1>6 DEF Step

LEMMA ForwardStep == ASSUME IInv, Types, [Next]_vars PROVE RequestsForward
<1>a. \A r \in Requests : req[r] \in RequestType /\ req[r].attempt <= MaxRetries + 2
  BY DEF IInv, AttemptsCounted, Types
<1>1. CASE UNCHANGED req
  BY <1>1 DEF RequestsForward
<1>2. ASSUME NEW r \in Requests, Start(r) \/ Step(r) PROVE RequestsForward
  <2>1. Edge(req[r], req'[r]) /\ \A q \in Requests : q # r => req'[q] = req[q]
    BY <1>2, StepEdge
  <2>2. RequestLeft(req'[r]) < RequestLeft(req[r])
    BY <1>a, <2>1, EdgeForward
  <2> QED BY <2>1, <2>2, Zenon DEF RequestsForward
<1>3. ASSUME NEW p \in Procs, Restart(p) PROVE RequestsForward
  <2> SUFFICES ASSUME NEW r \in Requests, req'[r] # req[r] PROVE RequestLeft(req'[r]) < RequestLeft(req[r])
    BY DEF RequestsForward
  <2> DEFINE dead == [req[r] EXCEPT !.pc = "failed", !.forced = FALSE, !.token = 0]
  <2>1. req'[r] = dead /\ req[r].pc \notin {"idle"} \cup Ended
    BY <1>3 DEF Restart
  <2>2. dead.pc = "failed" /\ dead.attempt = req[r].attempt
    BY DEF IInv, Shape, HasFields
  <2> HIDE DEF dead
  <2>3. Edge(req[r], req'[r])
    BY <2>1, <2>2 DEF Edge
  <2> QED BY <1>a, <2>3, EdgeForward
<1> QED BY <1>1, <1>2, <1>3 DEF Next, vars, StreamEvent

\* Whatever the API and the authorisation server answer and whichever process
\* dies, a request takes at most 9 * (MaxRetries + 2) steps besides the events
\* of its stream: neither a retry nor a refresh of the token gives it back
\* more than it has spent (doJSON and StreamMessages).
THEOREM RequestIsFinite ==
  Spec => [](\A r \in Requests : /\ RequestLeft(req[r]) \in 0 .. 9 * (MaxRetries + 2)
                                /\ RequestLeft(req[r]) = 0 <=> req[r].pc \in Ended)
          /\ [][RequestsForward]_vars
<1>1. IInv /\ Types => \A r \in Requests : /\ RequestLeft(req[r]) \in 0 .. 9 * (MaxRetries + 2)
                                          /\ RequestLeft(req[r]) = 0 <=> req[r].pc \in Ended
  <2> SUFFICES ASSUME IInv, Types, NEW r \in Requests
               PROVE  /\ RequestLeft(req[r]) \in 0 .. 9 * (MaxRetries + 2)
                      /\ RequestLeft(req[r]) = 0 <=> req[r].pc \in Ended
    OBVIOUS
  <2>1. req[r] \in RequestType /\ 1 <= req[r].attempt /\ req[r].attempt <= MaxRetries + 2
    BY DEF IInv, AttemptsCounted, Types
  <2> QED BY <2>1, LeftBounds
<1>2. IInv /\ Types /\ [Next]_vars => RequestsForward
  BY ForwardStep
<1> QED BY <1>1, <1>2, Inductive, TypesAlways, PTL DEF Spec

\* Step(r) has a step to take: the guards of its actions.
CanStep(r) ==
  \/ req[r].pc \in {"refresh", "save", "send", "stream"}
  \/ req[r].pc \in {"token", "forced"} /\ Free(r[1])

\* A request that has begun and not ended can go on, or it waits for the mutex
\* of its own process's provider and the request that holds it can go on:
\* neither a failed refresh nor a death leaves the mutex locked.
THEOREM NobodyWaitsForEver ==
  Spec => [](\A r \in Requests :
               \/ req[r].pc \in Ended \cup {"idle"}
               \/ CanStep(r)
               \/ mu[r[1]] \in Requests /\ mu[r[1]][1] = r[1] /\ CanStep(mu[r[1]]))
<1>1. IInv /\ Types => \A r \in Requests :
               \/ req[r].pc \in Ended \cup {"idle"}
               \/ CanStep(r)
               \/ mu[r[1]] \in Requests /\ mu[r[1]][1] = r[1] /\ CanStep(mu[r[1]])
  <2> SUFFICES ASSUME IInv, Types, NEW r \in Requests,
                      req[r].pc \notin Ended \cup {"idle"}, ~CanStep(r)
               PROVE  mu[r[1]] \in Requests /\ mu[r[1]][1] = r[1] /\ CanStep(mu[r[1]])
    OBVIOUS
  <2>1. req[r] \in RequestType
    BY DEF Types
  <2>2. mu[r[1]] # NoRequest
    BY <2>1 DEF CanStep, Free, RequestType
  <2>3. mu[r[1]] \in Requests /\ mu[r[1]][1] = r[1]
    BY <2>2, RequestsOf DEF Types
  <2>4. req[mu[r[1]]].pc \in Holding
    BY <2>3 DEF IInv, Mutex
  <2> QED BY <2>3, <2>4 DEF CanStep, Holding
<1> QED BY <1>1, Inductive, TypesAlways, PTL
=============================================================================
