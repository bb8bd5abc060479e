-------------------------- MODULE ToolOrchestrator --------------------------
(***************************************************************************)
(* The tool orchestrator of internal/tool/orchestrator.go and the loop of  *)
(* internal/conversation/run.go that consumes what it sends.               *)
(*                                                                         *)
(* An assistant message asks for the tool uses 1..NumUses.  RunTools       *)
(* partitions them into batches (maximal runs of concurrency-safe uses; an *)
(* unsafe use is a batch of its own), executes a single-use batch on its   *)
(* own goroutine and a larger one on one goroutine per use, and sends one  *)
(* update per use over the unbuffered channel `out`.  executeToolUses      *)
(* receives the updates; a Task result that asks for a run makes it run a  *)
(* whole subagent before it receives again.                                *)
(*                                                                         *)
(* Executor.Execute is kept to what the other goroutines can observe: its  *)
(* context checks, its lookup-then-store in the metadata map all uses      *)
(* share, and the call of the tool.  Module ToolExecutor has the rest.     *)
(***************************************************************************)
EXTENDS Integers, Sequences, FiniteSets

CONSTANTS NumUses,         \* number of tool_use blocks in the message
          MaxConcurrency,  \* RunOptions.MaxConcurrency; 0 is "no limit"
          MaxToolRounds    \* tool rounds of one subagent (maxToolRounds())

ASSUME NumUsesAssumption == NumUses \in Nat \ {0}
ASSUME MaxConcurrencyAssumption == MaxConcurrency \in Nat
ASSUME MaxToolRoundsAssumption == MaxToolRounds \in Nat \ {0}

Use == 1 .. NumUses

VARIABLES
  safe,       \* safe[u]: IsConcurrencySafe of the tool use u names
  runsTask,   \* runsTask[u]: a successful result of u asks for a subagent
  cancelled,  \* ctx.Done() is closed
  crashed,    \* the Go runtime stopped the process (concurrent map access)
  pc,         \* control point of the RunTools goroutine
  lo, hi,     \* the current batch is lo..hi; the batches before lo are done
  i,          \* loop index within the batch
  sem, wg,    \* tokens in the semaphore, count of the WaitGroup
  wk,         \* wk[u]: control point of Execute for u
  res,        \* res[u]: results[u], or the local result of a single batch
  registered, \* the shared metadata map has the registry key
  cpc,        \* control point of executeToolUses
  subRound,   \* tool rounds the running subagent has made
  delivered   \* the updates executeToolUses has received, in order

vars == <<safe, runsTask, cancelled, crashed, pc, lo, hi, i, sem, wg, wk, res,
          registered, cpc, subRound, delivered>>

inputs    == <<safe, runsTask>>
batchVars == <<lo, hi>>
pool      == <<sem, wg>>
execVars  == <<wk, res, registered>>
consumer  == <<cpc, subRound, delivered>>

-----------------------------------------------------------------------------
(* Partition into batches (partitionToolCalls).                            *)

\* Fault: the safety of the use before k decides.
OpensBatchFault(k) == k = 1 \/ ~safe[k - 1]

\* Use k opens a batch: the batch list is empty, its last batch has the other
\* safety, or k is unsafe.
OpensBatch(k) ==
  \/ k = 1
  \/ safe[k - 1] # safe[k]
  \/ ~safe[k]

IsBatch(first, last) ==
  /\ \A k \in first + 1 .. last : ~OpensBatch(k)
  /\ last < NumUses => OpensBatch(last + 1)

Limit == IF MaxConcurrency = 0 THEN hi - lo + 1 ELSE MaxConcurrency

\* The control points of Execute between its entry and its return.
Running == {"entry", "meta", "store", "ready", "call"}
Active  == {u \in Use : wk[u] \in Running}

-----------------------------------------------------------------------------
Init ==
  /\ safe \in [Use -> BOOLEAN]
  /\ runsTask \in [Use -> BOOLEAN]
  /\ cancelled = FALSE
  /\ crashed = FALSE
  /\ pc = "batch"
  /\ lo = 1 /\ hi = 0 /\ i = 1
  /\ sem = 0 /\ wg = 0
  /\ wk = [u \in Use |-> "idle"]
  /\ res = [u \in Use |-> "none"]
  /\ registered = FALSE
  /\ cpc = "recv"
  /\ subRound = 0
  /\ delivered = <<>>

\* An aborted process takes no step.
Alive == ~crashed /\ UNCHANGED crashed

\* The turn's context is cancelled at any time, once.
Cancel ==
  /\ Alive
  /\ ~cancelled
  /\ cancelled' = TRUE
  /\ UNCHANGED <<inputs, pc, batchVars, i, pool, execVars, consumer>>

(* ---- RunTools: the loop over batches ---- *)

\* The loop ends, or returns because the context is done; `out` is closed.
CloseOut ==
  /\ Alive
  /\ pc = "batch"
  /\ hi = NumUses \/ cancelled
  /\ pc' = "closed"
  /\ UNCHANGED <<inputs, cancelled, batchVars, i, pool, execVars,
                 consumer>>

NextBatch ==
  /\ Alive
  /\ pc = "batch"
  /\ hi < NumUses
  /\ ~cancelled
  /\ \E last \in hi + 1 .. NumUses :
       /\ IsBatch(hi + 1, last)
       /\ lo' = hi + 1 /\ hi' = last /\ i' = hi + 1
       /\ pc' = IF ~safe[hi + 1] \/ last = hi + 1 THEN "single" ELSE "spawn"
  /\ UNCHANGED <<inputs, cancelled, pool, execVars, consumer>>

(* ---- A batch of one use, executed on the RunTools goroutine ---- *)

SingleCancelled ==
  /\ Alive
  /\ pc = "single" /\ cancelled
  /\ pc' = "closed"
  /\ UNCHANGED <<inputs, cancelled, batchVars, i, pool, execVars,
                 consumer>>

SingleExecute ==
  /\ Alive
  /\ pc = "single" /\ ~cancelled
  /\ pc' = "executing"
  /\ wk' = [wk EXCEPT ![i] = "entry"]
  /\ UNCHANGED <<inputs, cancelled, batchVars, i, pool, res,
                 registered, consumer>>

SingleReturned ==
  /\ Alive
  /\ pc = "executing" /\ wk[i] = "done"
  /\ pc' = "send"
  /\ UNCHANGED <<inputs, cancelled, batchVars, i, pool, execVars,
                 consumer>>

(* ---- runConcurrentBatch ---- *)

\* The spawning loop sees the context done and returns: it neither waits for
\* the goroutines it started nor sends a result.
SpawnCancelled ==
  /\ Alive
  /\ pc = "spawn" /\ i <= hi /\ cancelled
  /\ pc' = "batch"
  /\ UNCHANGED <<inputs, cancelled, batchVars, i, pool, execVars,
                 consumer>>

SpawnCheck ==
  /\ Alive
  /\ pc = "spawn" /\ i <= hi /\ ~cancelled
  /\ pc' = "acquire"
  /\ UNCHANGED <<inputs, cancelled, batchVars, i, pool, execVars,
                 consumer>>

\* Fault: one token too many.
TokenFreeFault == sem <= Limit

TokenFree == sem < Limit

\* sem <- struct{}{} blocks, whatever the context does, until a token is free.
SpawnAcquire ==
  /\ Alive
  /\ pc = "acquire"
  /\ TokenFree
  /\ sem' = sem + 1 /\ wg' = wg + 1
  /\ wk' = [wk EXCEPT ![i] = "entry"]
  /\ i' = i + 1
  /\ pc' = "spawn"
  /\ UNCHANGED <<inputs, cancelled, batchVars, res, registered,
                 consumer>>

\* Fault: no wg.Wait.
AllReturnedFault == TRUE

AllReturned == wg = 0

\* wg.Wait, then the results are sent from the first one.
WaitGroupDone ==
  /\ Alive
  /\ pc = "spawn" /\ i > hi
  /\ AllReturned
  /\ pc' = "flush" /\ i' = lo
  /\ UNCHANGED <<inputs, cancelled, batchVars, pool, execVars,
                 consumer>>

(* ---- Executor.Execute for use u, on whichever goroutine ---- *)

\* Fault: the goroutine keeps its token.
ReleaseFault == UNCHANGED sem /\ wg' = wg - 1

Release == sem' = sem - 1 /\ wg' = wg - 1

\* Execute returns outcome r.  A goroutine of a concurrent batch stores it in
\* results[u], returns its token and is done; a single batch holds no token.
ExecuteReturn(u, r) ==
  /\ wk' = [wk EXCEPT ![u] = "done"]
  /\ res' = [res EXCEPT ![u] = r]
  /\ IF pc = "executing"
     THEN UNCHANGED pool
     ELSE Release

ExecuteEntry(u) ==
  /\ Alive
  /\ wk[u] = "entry"
  /\ \/ /\ cancelled
        /\ ExecuteReturn(u, "err")
     \/ /\ ~cancelled
        /\ wk' = [wk EXCEPT ![u] = "meta"]
        /\ UNCHANGED <<res, pool>>
  /\ UNCHANGED <<inputs, cancelled, pc, batchVars, i, registered,
                 consumer>>

\* withRegistryMetadata: look the key up in the shared map ...
ExecuteMetadataLookup(u) ==
  /\ Alive
  /\ wk[u] = "meta"
  /\ wk' = [wk EXCEPT ![u] = IF registered THEN "ready" ELSE "store"]
  /\ UNCHANGED <<inputs, cancelled, pc, batchVars, i, pool, res,
                 registered, consumer>>

\* ... and store it when it is missing.
ExecuteMetadataStore(u) ==
  /\ Alive
  /\ wk[u] = "store"
  /\ wk' = [wk EXCEPT ![u] = "ready"]
  /\ registered' = TRUE
  /\ UNCHANGED <<inputs, cancelled, pc, batchVars, i, pool, res,
                 consumer>>

\* Lookup, validation, hooks and permissions: any of them can end Execute.
ExecuteRefuse(u) ==
  /\ Alive
  /\ wk[u] = "ready"
  /\ ExecuteReturn(u, "err")
  /\ UNCHANGED <<inputs, cancelled, pc, batchVars, i, registered,
                 consumer>>

\* Fault: the context is not checked again.
MayCallFault == TRUE

\* The last contextError before Tool.Call.
MayCall == ~cancelled

ExecuteCall(u) ==
  /\ Alive
  /\ wk[u] = "ready" /\ MayCall
  /\ wk' = [wk EXCEPT ![u] = "call"]
  /\ UNCHANGED <<inputs, cancelled, pc, batchVars, i, pool, res,
                 registered, consumer>>

\* Fault: the goroutine hands its result to RunTools and blocks when that has
\* returned.
MayReturnFault == pc \in {"executing", "spawn", "acquire"}

\* results[] and the buffered semaphore take the result without a receiver.
MayReturn == TRUE

ExecuteCallReturns(u) ==
  /\ Alive
  /\ wk[u] = "call" /\ MayReturn
  /\ \E r \in {"ok", "err"} : ExecuteReturn(u, r)
  /\ UNCHANGED <<inputs, cancelled, pc, batchVars, i, registered,
                 consumer>>

\* One goroutine stores into the metadata map while another uses it.
MapRace ==
  \E u, v \in Use : u # v /\ wk[u] = "store" /\ wk[v] \in {"meta", "store"}

\* The runtime may detect that and abort the process.
MapFault ==
  /\ ~crashed
  /\ MapRace
  /\ crashed' = TRUE
  /\ UNCHANGED <<inputs, cancelled, pc, batchVars, i, pool, execVars,
                 consumer>>

(* ---- sendUpdate and the loop of executeToolUses that receives ---- *)

\* Fault: the loop over the results runs one index too far.
MoreInBatchFault == i <= hi

MoreInBatch == i < hi

\* What the sender does after the update of use i was sent or dropped.
Advance ==
  /\ i' = i + 1
  /\ pc' = IF MoreInBatch THEN pc ELSE "batch"

\* The channel is unbuffered: the send happens when the consumer receives.
SendUpdate ==
  /\ Alive
  /\ pc \in {"send", "flush"}
  /\ cpc = "recv"
  /\ delivered' = Append(delivered, i)
  /\ cpc' = IF res[i] = "ok" /\ runsTask[i] THEN "subagent" ELSE "recv"
  /\ subRound' = 0
  /\ Advance
  /\ UNCHANGED <<inputs, cancelled, batchVars, pool, execVars>>

\* Fault: the send does not wait for the receiver.
MayDropFault == TRUE

MayDrop == cancelled

\* select takes the ctx.Done() case: the update is lost.
DropUpdate ==
  /\ Alive
  /\ pc \in {"send", "flush"}
  /\ MayDrop
  /\ Advance
  /\ UNCHANGED <<inputs, cancelled, batchVars, pool, execVars,
                 consumer>>

\* Fault: no limit on the rounds.
RoundsLeftFault == TRUE

RoundsLeft == subRound < MaxToolRounds

\* runTaskSubagentOnce: a round of the subagent executes tools of its own.
SubagentCall ==
  /\ Alive
  /\ cpc = "subagent" /\ RoundsLeft
  /\ cpc' = "subcall"
  /\ subRound' = subRound + 1
  /\ UNCHANGED <<inputs, cancelled, pc, batchVars, i, pool, execVars,
                 delivered>>

SubagentCallReturns ==
  /\ Alive
  /\ cpc = "subcall"
  /\ cpc' = "subagent"
  /\ UNCHANGED <<inputs, cancelled, pc, batchVars, i, pool, execVars,
                 subRound, delivered>>

\* The subagent answers without a tool, fails, or runs out of rounds.
SubagentFinish ==
  /\ Alive
  /\ cpc = "subagent"
  /\ cpc' = "recv"
  /\ UNCHANGED <<inputs, cancelled, pc, batchVars, i, pool, execVars,
                 subRound, delivered>>

\* The range over the closed channel ends.
ConsumerDone ==
  /\ Alive
  /\ pc = "closed" /\ cpc = "recv"
  /\ cpc' = "done"
  /\ UNCHANGED <<inputs, cancelled, pc, batchVars, i, pool, execVars,
                 subRound, delivered>>

-----------------------------------------------------------------------------
RunTools ==
  \/ CloseOut \/ NextBatch
  \/ SingleCancelled \/ SingleExecute \/ SingleReturned
  \/ SpawnCancelled \/ SpawnCheck \/ SpawnAcquire \/ WaitGroupDone
  \/ SendUpdate \/ DropUpdate

Execute(u) ==
  \/ ExecuteEntry(u)
  \/ ExecuteMetadataLookup(u) \/ ExecuteMetadataStore(u)
  \/ ExecuteRefuse(u) \/ ExecuteCall(u) \/ ExecuteCallReturns(u)

Consume ==
  \/ SubagentCall \/ SubagentCallReturns \/ SubagentFinish
  \/ ConsumerDone

Next ==
  \/ RunTools
  \/ \E u \in Use : Execute(u)
  \/ Consume
  \/ Cancel
  \/ MapFault

Spec == Init /\ [][Next]_vars

\* Goroutines are scheduled, and hooks, tools and the model's answers return:
\* every call they make has a timeout or ends by itself.
Fairness ==
  /\ WF_vars(RunTools)
  /\ \A u \in Use : WF_vars(Execute(u))
  /\ WF_vars(Consume)

FairSpec == Spec /\ Fairness

-----------------------------------------------------------------------------
(* Properties *)

\* Every variable has a value of its kind.
TypeOK ==
  /\ safe \in [Use -> BOOLEAN] /\ runsTask \in [Use -> BOOLEAN]
  /\ cancelled \in BOOLEAN /\ crashed \in BOOLEAN
  /\ pc \in {"batch", "single", "executing", "send", "spawn", "acquire",
             "flush", "closed"}
  /\ lo \in Use /\ hi \in 0 .. NumUses /\ i \in 1 .. NumUses + 1
  /\ sem \in Nat /\ wg \in Nat
  /\ wk \in [Use -> Running \cup {"idle", "done"}]
  /\ res \in [Use -> {"none", "ok", "err"}]
  /\ registered \in BOOLEAN
  /\ cpc \in {"recv", "subagent", "subcall", "done"}
  /\ subRound \in 0 .. MaxToolRounds
  /\ delivered \in Seq(Use)

\* While the call of a use that is not concurrency-safe runs, RunTools runs no
\* other use, on any goroutine: partitionToolCalls gives it a batch of its own
\* and the batches before it have been waited for.
UnsafeRunsAlone ==
  \A u \in Use : wk[u] = "call" /\ ~safe[u] => Active = {u}

\* The semaphore of runConcurrentBatch bounds the goroutines inside Execute.
ConcurrencyBounded ==
  MaxConcurrency # 0 => Cardinality(Active) <= MaxConcurrency

\* Updates reach executeToolUses in the order of the tool uses, each at most
\* once, whatever order the concurrent calls finished in.
DeliveredInOrder ==
  \A j, k \in DOMAIN delivered : j < k => delivered[j] < delivered[k]

\* An update that is sent carries a result: results[] is never read before the
\* goroutine that fills the slot is done.
DeliveredHasResult ==
  \A j \in DOMAIN delivered : res[delivered[j]] # "none"

\* A turn that was not cancelled gets one update for every tool use, so every
\* tool_use block of the assistant message is answered by a tool_result.
UncancelledIsComplete ==
  cpc = "done" /\ ~cancelled => {delivered[j] : j \in DOMAIN delivered} = Use

\* RunTools only leaves goroutines behind when the context was cancelled.
StragglersOnlyIfCancelled ==
  pc = "closed" /\ Active # {} => cancelled

\* The goroutines of a batch are bounded in number and none outlives RunTools,
\* except after a cancellation.
GoroutinesBounded == ConcurrencyBounded /\ StragglersOnlyIfCancelled

\* The consumer gets the results: in order, each there when it is sent, and all
\* of them unless the turn is cancelled.
ResultsDelivered == DeliveredInOrder /\ DeliveredHasResult /\ UncancelledIsComplete

\* executeToolUses returns: the channel is closed and the range over it ends,
\* also when the context is cancelled while goroutines hold every token.
RunToolsTerminates == <>(cpc = "done" \/ crashed)

\* No goroutine is left inside Execute for ever.
GoroutinesFinish == <>[](Active = {} \/ crashed)

\* The run ends, for its consumer and for every goroutine.
RunEnds == RunToolsTerminates /\ GoroutinesFinish

\* docs/claude-code-go-rewrite-plan.md asks that a tool that is not
\* concurrency-safe runs exclusively: no tool of a subagent runs beside it.
UnsafeExcludesSubagent ==
  \A u \in Use : wk[u] = "call" /\ ~safe[u] => cpc # "subcall"

\* docs/claude-code-go-rewrite-plan.md says that concurrency-safe tools can run
\* concurrently: their goroutines do not race on the shared metadata map.
NoMapRace == ~MapRace

\* The contract of Executor.Execute, for use u.
Contract(u) ==
  INSTANCE ToolContract WITH
    st  <- CASE wk[u] = "call" -> "call"
             [] wk[u] = "done" -> "done"
             [] OTHER -> "waiting",
    res <- res[u]

\* Whatever the interleaving, each use goes through Execute as ToolContract
\* says: it is called at most once, never after the cancellation, and its result
\* is written once.  Module ToolExecutor shows that Execute keeps this contract.
UsesKeepContract ==
  /\ \A u \in Use : Contract(u)!Init
  /\ [][\A u \in Use : Contract(u)!Next \/ UNCHANGED Contract(u)!vars]_vars
=============================================================================
