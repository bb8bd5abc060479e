----------------------- MODULE ToolOrchestratorProofs -----------------------
(***************************************************************************)
(* Proofs about the tool orchestrator, for every number of tool uses,      *)
(* every concurrency limit and every bound on subagent rounds.             *)
(***************************************************************************)
EXTENDS ToolOrchestrator, TLAPS, FiniteSetTheorems, WellFoundedInduction

-----------------------------------------------------------------------------
(* The inductive invariant *)

\* Where the RunTools goroutine is in its loops.
LoopInv ==
  /\ lo <= hi + 1
  /\ hi = 0 => pc \in {"batch", "closed"}
  /\ pc \notin {"batch", "closed"} => lo <= hi
  /\ lo < hi => \A k \in lo .. hi : safe[k]
  /\ pc \in {"single", "executing", "send"} => lo = hi /\ i = lo
  /\ pc \in {"spawn", "acquire", "flush"} => lo < hi
  /\ pc = "spawn" => i \in lo .. hi + 1
  /\ pc \in {"acquire", "flush"} => i \in lo .. hi
  /\ pc = "closed" /\ ~cancelled => hi = NumUses
  /\ cpc = "done" => pc = "closed"

\* Which goroutines are inside Execute: those of the current batch, at most one
\* when it is a single use, none once it has been waited for.
ActiveInv ==
  /\ pc = "executing" => Active \subseteq {i}
  /\ pc \in {"single", "send", "flush"} => Active = {}
  /\ pc \in {"spawn", "acquire"} => Active \subseteq lo .. i - 1
  /\ pc \in {"batch", "closed"} => \/ Active = {}
                                   \/ cancelled /\ lo < hi /\ Active \subseteq lo .. hi

\* The semaphore and the WaitGroup count the goroutines of a concurrent batch.
PoolInv ==
  /\ wg = sem
  /\ sem = IF pc = "executing" THEN 0 ELSE Cardinality(Active)
  /\ MaxConcurrency # 0 => sem <= MaxConcurrency

\* A use that was executed has a result.
ResultInv ==
  /\ \A u \in Use : wk[u] = "done" => res[u] # "none"
  /\ pc = "send" => wk[i] = "done"
  /\ pc = "executing" => wk[i] # "idle"
  /\ pc = "flush" => \A u \in lo .. hi : wk[u] = "done"
  /\ pc \in {"spawn", "acquire"} =>
       \A u \in lo .. i - 1 : wk[u] \in Running \cup {"done"}

\* The first use whose update has neither been sent nor dropped.
Bound == IF pc \in {"batch", "closed"} THEN hi + 1
         ELSE IF pc \in {"send", "flush"} THEN i
         ELSE lo

DeliveryInv ==
  /\ \A j \in DOMAIN delivered : delivered[j] < Bound
  /\ DeliveredInOrder
  /\ DeliveredHasResult
  /\ ~cancelled => {delivered[j] : j \in DOMAIN delivered} = 1 .. Bound - 1

IInv ==
  /\ TypeOK
  /\ LoopInv
  /\ ActiveInv
  /\ PoolInv
  /\ ResultInv
  /\ DeliveryInv

USE NumUsesAssumption, MaxConcurrencyAssumption, MaxToolRoundsAssumption

-----------------------------------------------------------------------------
(* How a step of Execute changes the set of goroutines inside it *)

\* Active is a finite set, so its cardinality is a natural number.
LEMMA ActiveFinite ==
  ASSUME TypeOK
  PROVE  IsFiniteSet(Active) /\ Cardinality(Active) \in Nat
<1>1. IsFiniteSet(Use)
  BY FS_Interval DEF Use
<1>2. Active \subseteq Use
  BY DEF Active
<1> QED
  BY <1>1, <1>2, FS_Subset, FS_CardinalityType

\* A goroutine that moves inside Execute leaves the set as it is.
LEMMA ActiveMove ==
  ASSUME TypeOK, NEW u \in Use, wk[u] \in Running, NEW x \in Running,
         wk' = [wk EXCEPT ![u] = x]
  PROVE  Active' = Active
BY DEF TypeOK, Active, Running

\* A goroutine that enters Execute is added to it.
LEMMA ActiveEnter ==
  ASSUME TypeOK, NEW u \in Use, u \notin Active,
         wk' = [wk EXCEPT ![u] = "entry"]
  PROVE  /\ Active' = Active \cup {u}
         /\ Cardinality(Active') = Cardinality(Active) + 1
<1>1. Active' = Active \cup {u}
  BY DEF TypeOK, Active, Running
<1> QED
  BY <1>1, ActiveFinite, FS_AddElement

\* A goroutine that returns from Execute is removed from it.
LEMMA ActiveLeave ==
  ASSUME TypeOK, NEW u \in Active, wk' = [wk EXCEPT ![u] = "done"]
  PROVE  /\ Active' = Active \ {u}
         /\ Cardinality(Active') = Cardinality(Active) - 1
<1>1. Active' = Active \ {u}
  BY DEF TypeOK, Active, Running
<1> QED
  BY <1>1, ActiveFinite, FS_RemoveElement

-----------------------------------------------------------------------------
(* The invariant holds initially *)

LEMMA InitIInv == Init => IInv
<1> SUFFICES ASSUME Init PROVE IInv
  OBVIOUS
<1>a. /\ cancelled \in BOOLEAN /\ crashed \in BOOLEAN /\ registered \in BOOLEAN
      /\ wk \in [Use -> Running \cup {"idle", "done"}]
      /\ res \in [Use -> {"none", "ok", "err"}]
  BY DEF Init
<1>b. /\ lo \in Use /\ hi \in 0 .. NumUses /\ i \in 1 .. NumUses + 1
      /\ sem \in Nat /\ wg \in Nat /\ subRound \in 0 .. MaxToolRounds
      /\ delivered \in Seq(Use)
  BY DEF Init, Use
<1>1. TypeOK
  BY <1>a, <1>b DEF Init, TypeOK
<1>2. Active = {}
  BY DEF Init, Active, Running
<1>3. Cardinality(Active) = 0
  BY <1>2, FS_EmptySet
<1>4. LoopInv /\ ActiveInv
  BY <1>2 DEF Init, LoopInv, ActiveInv
<1>5. PoolInv
  BY <1>3 DEF Init, PoolInv
<1>6. ResultInv
  BY DEF Init, ResultInv
<1>7. DeliveryInv
  BY DEF Init, DeliveryInv, DeliveredInOrder, DeliveredHasResult, Bound
<1> QED
  BY <1>1, <1>4, <1>5, <1>6, <1>7 DEF IInv

-----------------------------------------------------------------------------
(* Every step of the RunTools goroutine preserves it *)

\* Steps that only move RunTools between its loops.
LEMMA CloseOutIInv ==
  ASSUME IInv, CloseOut \/ SingleCancelled \/ SpawnCancelled
  PROVE  IInv'
<1> USE DEF CloseOut, SingleCancelled, SpawnCancelled, Alive, inputs, batchVars,
            pool, execVars, consumer
<1>0. TypeOK /\ LoopInv /\ ActiveInv /\ PoolInv /\ ResultInv /\ DeliveryInv
  BY DEF IInv
<1>1. TypeOK'
  BY <1>0 DEF TypeOK
<1>2. Active' = Active
  BY DEF Active
<1>3. LoopInv'
  BY <1>0 DEF TypeOK, LoopInv, Use
<1>4. ActiveInv'
  BY <1>0, <1>2 DEF TypeOK, LoopInv, ActiveInv, Use
<1>5. PoolInv'
  BY <1>0, <1>2 DEF PoolInv
<1>6. ResultInv'
  BY <1>0 DEF ResultInv
<1>7. DeliveryInv'
  <2>1. Bound \in Int /\ Bound' \in Int /\ Bound <= Bound'
    BY <1>0 DEF Bound, LoopInv, TypeOK, Use
  <2>2. cancelled \/ Bound' = Bound
    BY DEF Bound
  <2>3. \A j \in DOMAIN delivered : delivered[j] \in Int
    BY <1>0 DEF TypeOK, Use
  <2>4. \A j \in DOMAIN delivered : delivered[j] < Bound'
    BY <1>0, <2>1, <2>3 DEF DeliveryInv
  <2> QED
    BY <1>0, <2>2, <2>4 DEF DeliveryInv, DeliveredInOrder, DeliveredHasResult
<1> QED
  BY <1>1, <1>3, <1>4, <1>5, <1>6, <1>7 DEF IInv

\* NextBatch opens the batch after hi.  IsBatch makes every use of a longer
\* batch concurrency-safe.
LEMMA NextBatchIInv ==
  ASSUME IInv, NextBatch
  PROVE  IInv'
<1>0. TypeOK /\ LoopInv /\ ActiveInv /\ PoolInv /\ ResultInv /\ DeliveryInv
  BY DEF IInv
<1>a. PICK last \in hi + 1 .. NumUses :
        /\ IsBatch(hi + 1, last)
        /\ lo' = hi + 1 /\ hi' = last /\ i' = hi + 1
        /\ pc' = IF ~safe[hi + 1] \/ last = hi + 1 THEN "single" ELSE "spawn"
  BY DEF NextBatch
<1>b. /\ UNCHANGED <<safe, runsTask, cancelled, crashed, sem, wg, wk, res,
                     registered, cpc, subRound, delivered>>
      /\ pc = "batch" /\ hi < NumUses /\ ~cancelled
  BY DEF NextBatch, Alive, inputs, pool, execVars, consumer
<1>c. \A k \in hi + 2 .. last : safe[k] /\ safe[k - 1]
  <2> SUFFICES ASSUME NEW k \in hi + 2 .. last PROVE safe[k] /\ safe[k - 1]
    OBVIOUS
  <2>1. ~OpensBatch(k) /\ k \in Use /\ k - 1 \in Use
    BY <1>0, <1>a DEF IsBatch, TypeOK, Use
  <2>2. safe[k] \in BOOLEAN /\ safe[k - 1] \in BOOLEAN
    BY <1>0, <2>1 DEF TypeOK
  <2>3. safe[k] /\ safe[k - 1] = safe[k]
    BY <2>1, Zenon DEF OpensBatch
  <2> QED
    BY <2>2, <2>3, Zenon
<1>d. last > hi + 1 => \A k \in hi + 1 .. last : safe[k]
  <2> SUFFICES ASSUME last > hi + 1, NEW k \in hi + 1 .. last PROVE safe[k]
    OBVIOUS
  <2>1. CASE k = hi + 1
    <3>1. k = (hi + 2) - 1 /\ hi + 2 \in hi + 2 .. last
      BY <2>1, <1>0 DEF TypeOK
    <3> QED
      BY <3>1, <1>c
  <2>2. CASE k > hi + 1
    BY <2>2, <1>0, <1>c DEF TypeOK
  <2> QED
    BY <2>1, <2>2, <1>0 DEF TypeOK
<1>1. TypeOK'
  BY <1>0, <1>a, <1>b DEF TypeOK, Use
<1>2. Active' = Active /\ Active = {}
  BY <1>0, <1>b DEF Active, ActiveInv
<1>3. LoopInv'
  BY <1>0, <1>a, <1>b, <1>d DEF TypeOK, LoopInv, Use
<1>4. ActiveInv'
  BY <1>0, <1>2, <1>a DEF ActiveInv
<1>5. PoolInv'
  BY <1>0, <1>2, <1>a, <1>b DEF PoolInv
<1>6. ResultInv'
  BY <1>0, <1>a, <1>b DEF ResultInv, TypeOK, Use
<1>7. DeliveryInv'
  BY <1>0, <1>a, <1>b DEF DeliveryInv, DeliveredInOrder, DeliveredHasResult,
     Bound, TypeOK
<1> QED
  BY <1>1, <1>3, <1>4, <1>5, <1>6, <1>7 DEF IInv

\* A single use enters Execute on the RunTools goroutine.
LEMMA SingleExecuteIInv ==
  ASSUME IInv, SingleExecute
  PROVE  IInv'
<1> USE DEF SingleExecute, Alive, inputs, batchVars, pool, consumer
<1>0. TypeOK /\ LoopInv /\ ActiveInv /\ PoolInv /\ ResultInv /\ DeliveryInv
  BY DEF IInv
<1>1. TypeOK'
  BY <1>0 DEF TypeOK, LoopInv, Use, Running
<1>2. Active' = {i} /\ Active = {}
  BY <1>0, ActiveEnter DEF ActiveInv, LoopInv, TypeOK, Use
<1>3. LoopInv'
  BY <1>0 DEF TypeOK, LoopInv, Use
<1>4. ActiveInv'
  BY <1>0, <1>2 DEF ActiveInv
<1>5. PoolInv'
  BY <1>0, <1>2, FS_EmptySet DEF PoolInv
<1>6. ResultInv'
  BY <1>0 DEF ResultInv, TypeOK, LoopInv, Use
<1>7. DeliveryInv'
  BY <1>0 DEF DeliveryInv, DeliveredInOrder, DeliveredHasResult, Bound
<1> QED
  BY <1>1, <1>3, <1>4, <1>5, <1>6, <1>7 DEF IInv

\* Execute of a single use has returned.
LEMMA SingleReturnedIInv ==
  ASSUME IInv, SingleReturned
  PROVE  IInv'
<1> USE DEF SingleReturned, Alive, inputs, batchVars, pool, execVars, consumer
<1>0. TypeOK /\ LoopInv /\ ActiveInv /\ PoolInv /\ ResultInv /\ DeliveryInv
  BY DEF IInv
<1>1. TypeOK'
  BY <1>0 DEF TypeOK
<1>2. Active' = {} /\ Active = {}
  BY <1>0 DEF Active, ActiveInv, Running
<1>3. LoopInv'
  BY <1>0 DEF TypeOK, LoopInv, Use
<1>4. ActiveInv'
  BY <1>0, <1>2 DEF ActiveInv
<1>5. PoolInv'
  BY <1>0, <1>2, FS_EmptySet DEF PoolInv
<1>6. ResultInv'
  BY <1>0 DEF ResultInv
<1>7. DeliveryInv'
  BY <1>0 DEF DeliveryInv, DeliveredInOrder, DeliveredHasResult, Bound, LoopInv
<1> QED
  BY <1>1, <1>3, <1>4, <1>5, <1>6, <1>7 DEF IInv

\* The spawning loop passes its check of the context.
LEMMA SpawnCheckIInv ==
  ASSUME IInv, SpawnCheck
  PROVE  IInv'
<1> USE DEF SpawnCheck, Alive, inputs, batchVars, pool, execVars, consumer
<1>0. TypeOK /\ LoopInv /\ ActiveInv /\ PoolInv /\ ResultInv /\ DeliveryInv
  BY DEF IInv
<1>1. TypeOK'
  BY <1>0 DEF TypeOK
<1>2. Active' = Active
  BY DEF Active
<1>3. LoopInv'
  BY <1>0 DEF TypeOK, LoopInv, Use
<1>4. ActiveInv'
  BY <1>0, <1>2 DEF ActiveInv
<1>5. PoolInv'
  BY <1>0, <1>2 DEF PoolInv
<1>6. ResultInv'
  BY <1>0 DEF ResultInv
<1>7. DeliveryInv'
  BY <1>0 DEF DeliveryInv, DeliveredInOrder, DeliveredHasResult, Bound
<1> QED
  BY <1>1, <1>3, <1>4, <1>5, <1>6, <1>7 DEF IInv

\* A goroutine is started with the token it was given.
LEMMA SpawnAcquireIInv ==
  ASSUME IInv, SpawnAcquire
  PROVE  IInv'
<1> USE DEF SpawnAcquire, Alive, inputs, batchVars, consumer
<1>0. TypeOK /\ LoopInv /\ ActiveInv /\ PoolInv /\ ResultInv /\ DeliveryInv
  BY DEF IInv
<1>a. i \in Use /\ i \notin Active /\ i \in lo .. hi
  BY <1>0 DEF ActiveInv, LoopInv, TypeOK, Use
<1>1. TypeOK'
  BY <1>0, <1>a DEF TypeOK, LoopInv, Use, Running
<1>2. Active' = Active \cup {i} /\ Cardinality(Active') = Cardinality(Active) + 1
  BY <1>0, <1>a, ActiveEnter
<1>3. LoopInv'
  BY <1>0, <1>a DEF TypeOK, LoopInv, Use
<1>4. ActiveInv'
  BY <1>0, <1>a, <1>2 DEF ActiveInv, TypeOK, Use
<1>5. PoolInv'
  BY <1>0, <1>2 DEF PoolInv, TypeOK, TokenFree, Limit
<1>6. ResultInv'
  <2>1. \A u \in Use : wk'[u] = "done" => res'[u] # "none"
    BY <1>0, <1>a DEF ResultInv, TypeOK
  <2>2. \A u \in lo .. i : wk'[u] \in Running \cup {"done"}
    BY <1>0, <1>a DEF ResultInv, TypeOK, Running, Use
  <2> QED
    BY <2>1, <2>2, <1>0 DEF ResultInv, TypeOK
<1>7. DeliveryInv'
  BY <1>0 DEF DeliveryInv, DeliveredInOrder, DeliveredHasResult, Bound
<1> QED
  BY <1>1, <1>3, <1>4, <1>5, <1>6, <1>7 DEF IInv

\* After wg.Wait no goroutine of the batch is left, so each of them is done.
LEMMA WaitGroupDoneIInv ==
  ASSUME IInv, WaitGroupDone
  PROVE  IInv'
<1> USE DEF WaitGroupDone, AllReturned, Alive, inputs, batchVars, pool, execVars,
            consumer
<1>0. TypeOK /\ LoopInv /\ ActiveInv /\ PoolInv /\ ResultInv /\ DeliveryInv
  BY DEF IInv
<1>1. TypeOK'
  BY <1>0 DEF TypeOK, Use
<1>2. Active' = {} /\ Active = {}
  <2>1. Cardinality(Active) = 0
    BY <1>0 DEF PoolInv
  <2>2. Active = {}
    BY <1>0, <2>1, ActiveFinite, FS_EmptySet
  <2> QED
    BY <2>2 DEF Active
<1>3. LoopInv'
  BY <1>0 DEF TypeOK, LoopInv, Use
<1>4. ActiveInv'
  BY <1>0, <1>2 DEF ActiveInv
<1>5. PoolInv'
  BY <1>0, <1>2 DEF PoolInv
<1>6. ResultInv'
  <2>1. \A u \in lo .. hi : u \in Use /\ wk[u] \in Running \cup {"done"}
    BY <1>0 DEF ResultInv, LoopInv, TypeOK, Use
  <2>2. \A u \in lo .. hi : wk[u] = "done"
    BY <2>1, <1>2 DEF Active
  <2> QED
    BY <2>2, <1>0 DEF ResultInv
<1>7. DeliveryInv'
  BY <1>0 DEF DeliveryInv, DeliveredInOrder, DeliveredHasResult, Bound
<1> QED
  BY <1>1, <1>3, <1>4, <1>5, <1>6, <1>7 DEF IInv

-----------------------------------------------------------------------------
(* Sending and receiving *)

\* What both ends of sendUpdate do to the position of RunTools.
LEMMA AdvanceFacts ==
  ASSUME IInv, pc \in {"send", "flush"}, Advance, UNCHANGED <<batchVars, wk>>
  PROVE  /\ i \in lo .. hi /\ i \in Use
         /\ pc' \in {pc, "batch"} /\ i' = i + 1
         /\ pc' = pc => i < hi /\ pc = "flush"
         /\ pc' = "batch" => i = hi
         /\ Bound = i /\ Bound' = i + 1
         /\ Active = {} /\ Active' = {}
         /\ wk[i] = "done" /\ res[i] # "none"
<1>0. TypeOK /\ LoopInv /\ ActiveInv /\ ResultInv
  BY DEF IInv
<1>1. i \in lo .. hi /\ i \in Use
  BY <1>0 DEF TypeOK, LoopInv, Use
<1>2. pc' \in {pc, "batch"} /\ i' = i + 1
  BY DEF Advance
<1>3. (pc' = pc => i < hi) /\ (pc' = "batch" => i = hi)
  BY <1>0, <1>1 DEF Advance, MoreInBatch, TypeOK, Use
<1>4. pc' = pc => pc = "flush"
  BY <1>0, <1>3 DEF LoopInv, TypeOK, Use
<1>5. Bound = i /\ Bound' = i + 1
  BY <1>0, <1>2, <1>3 DEF Bound, batchVars
<1>6. Active = {} /\ Active' = {}
  BY <1>0 DEF ActiveInv, Active
<1>7. wk[i] = "done" /\ res[i] # "none"
  BY <1>0, <1>1 DEF ResultInv
<1> QED
  BY <1>1, <1>2, <1>3, <1>4, <1>5, <1>6, <1>7

LEMMA SendUpdateIInv ==
  ASSUME IInv, SendUpdate
  PROVE  IInv'
<1>0. TypeOK /\ LoopInv /\ ActiveInv /\ PoolInv /\ ResultInv /\ DeliveryInv
  BY DEF IInv
<1>b. /\ UNCHANGED <<safe, runsTask, cancelled, crashed, lo, hi, sem, wg, wk, res,
                     registered>>
      /\ Advance /\ pc \in {"send", "flush"}
      /\ delivered' = Append(delivered, i)
      /\ cpc' \in {"subagent", "recv"} /\ subRound' = 0
  BY DEF SendUpdate, Alive, inputs, batchVars, pool, execVars
<1>c. /\ i \in lo .. hi /\ i \in Use
      /\ pc' \in {pc, "batch"} /\ i' = i + 1
      /\ pc' = pc => i < hi /\ pc = "flush"
      /\ pc' = "batch" => i = hi
      /\ Bound = i /\ Bound' = i + 1
      /\ Active = {} /\ Active' = {}
      /\ wk[i] = "done" /\ res[i] # "none"
  BY <1>b, AdvanceFacts DEF batchVars
<1>1. TypeOK'
  <2>1. delivered' \in Seq(Use)
    BY <1>0, <1>b, <1>c DEF TypeOK
  <2> QED
    BY <2>1, <1>0, <1>b, <1>c DEF TypeOK, Use
<1>3. LoopInv'
  BY <1>0, <1>b, <1>c DEF TypeOK, LoopInv, Use
<1>4. ActiveInv'
  BY <1>0, <1>c DEF ActiveInv, TypeOK
<1>5. PoolInv'
  BY <1>0, <1>b, <1>c DEF PoolInv
<1>6. ResultInv'
  BY <1>0, <1>b, <1>c DEF ResultInv
<1>7. DeliveryInv'
  <2> DEFINE n == Len(delivered)
  <2>1. /\ n \in Nat /\ DOMAIN delivered = 1 .. n
        /\ DOMAIN delivered' = 1 .. n + 1
        /\ delivered'[n + 1] = i
        /\ \A j \in 1 .. n : delivered'[j] = delivered[j] /\ delivered[j] \in Use
    BY <1>0, <1>b, <1>c DEF TypeOK
  <2> HIDE DEF n
  <2>2. \A j \in 1 .. n : delivered[j] < i
    BY <1>0, <1>c, <2>1 DEF DeliveryInv
  <2>3. \A j \in DOMAIN delivered' : delivered'[j] < Bound'
    BY <1>0, <1>c, <2>1, <2>2 DEF TypeOK, Use
  <2>4. DeliveredInOrder'
    BY <1>0, <2>1, <2>2 DEF DeliveryInv, DeliveredInOrder
  <2>5. DeliveredHasResult'
    BY <1>0, <1>b, <1>c, <2>1 DEF DeliveryInv, DeliveredHasResult
  <2>6. ASSUME ~cancelled'
        PROVE  {delivered'[j] : j \in DOMAIN delivered'} = 1 .. Bound' - 1
    <3>1. {delivered[j] : j \in DOMAIN delivered} = 1 .. i - 1
      BY <2>6, <1>0, <1>b, <1>c DEF DeliveryInv
    <3>2. {delivered'[j] : j \in DOMAIN delivered'}
            = {delivered[j] : j \in DOMAIN delivered} \cup {i}
      BY <2>1
    <3> QED
      BY <3>1, <3>2, <1>c DEF Use
  <2> QED
    BY <2>3, <2>4, <2>5, <2>6 DEF DeliveryInv
<1> QED
  BY <1>1, <1>3, <1>4, <1>5, <1>6, <1>7 DEF IInv

LEMMA DropUpdateIInv ==
  ASSUME IInv, DropUpdate
  PROVE  IInv'
<1>0. TypeOK /\ LoopInv /\ ActiveInv /\ PoolInv /\ ResultInv /\ DeliveryInv
  BY DEF IInv
<1>b. /\ UNCHANGED <<safe, runsTask, cancelled, crashed, lo, hi, sem, wg, wk, res,
                     registered, cpc, subRound, delivered>>
      /\ Advance /\ pc \in {"send", "flush"} /\ cancelled
  BY DEF DropUpdate, MayDrop, Alive, inputs, batchVars, pool, execVars, consumer
<1>c. /\ i \in lo .. hi /\ i \in Use
      /\ pc' \in {pc, "batch"} /\ i' = i + 1
      /\ pc' = pc => i < hi /\ pc = "flush"
      /\ pc' = "batch" => i = hi
      /\ Bound = i /\ Bound' = i + 1
      /\ Active = {} /\ Active' = {}
      /\ wk[i] = "done" /\ res[i] # "none"
  BY <1>b, AdvanceFacts DEF batchVars
<1>1. TypeOK'
  BY <1>0, <1>b, <1>c DEF TypeOK, Use
<1>3. LoopInv'
  BY <1>0, <1>b, <1>c DEF TypeOK, LoopInv, Use
<1>4. ActiveInv'
  BY <1>0, <1>c DEF ActiveInv, TypeOK
<1>5. PoolInv'
  BY <1>0, <1>b, <1>c DEF PoolInv
<1>6. ResultInv'
  BY <1>0, <1>b, <1>c DEF ResultInv
<1>7. DeliveryInv'
  <2>1. \A j \in DOMAIN delivered : delivered[j] \in Use
    BY <1>0 DEF TypeOK
  <2> QED
    BY <2>1, <1>0, <1>b, <1>c DEF DeliveryInv, DeliveredInOrder,
       DeliveredHasResult, Use
<1> QED
  BY <1>1, <1>3, <1>4, <1>5, <1>6, <1>7 DEF IInv

-----------------------------------------------------------------------------
(* Execute, on the goroutine of RunTools or on one of a concurrent batch *)

\* A step inside Execute.
LEMMA ExecuteMoveIInv ==
  ASSUME IInv, NEW u \in Use, wk[u] \in Running, NEW x \in Running,
         wk' = [wk EXCEPT ![u] = x], registered' \in BOOLEAN,
         UNCHANGED <<inputs, cancelled, crashed, pc, batchVars, i, pool, res,
                     consumer>>
  PROVE  IInv'
<1> USE DEF inputs, batchVars, pool, consumer
<1>0. TypeOK /\ LoopInv /\ ActiveInv /\ PoolInv /\ ResultInv /\ DeliveryInv
  BY DEF IInv
<1>1. TypeOK'
  BY <1>0 DEF TypeOK, Running
<1>2. Active' = Active /\ u \in Active
  BY <1>0, ActiveMove DEF Active
<1>a. \A v \in Use : /\ wk'[v] = "done" => wk[v] = "done"
                     /\ wk[v] = "done" => wk'[v] = "done"
                     /\ wk[v] # "idle" => wk'[v] # "idle"
                     /\ wk[v] \in Running => wk'[v] \in Running
  BY <1>0 DEF TypeOK, Running
<1>3. LoopInv'
  BY <1>0 DEF TypeOK, LoopInv, Use
<1>4. ActiveInv'
  BY <1>0, <1>2 DEF ActiveInv
<1>5. PoolInv'
  BY <1>0, <1>2 DEF PoolInv
<1>6. ResultInv'
  BY <1>0, <1>a, <1>2 DEF ResultInv, ActiveInv, TypeOK, LoopInv, Use
<1>7. DeliveryInv'
  BY <1>0 DEF DeliveryInv, DeliveredInOrder, DeliveredHasResult, Bound
<1> QED
  BY <1>1, <1>3, <1>4, <1>5, <1>6, <1>7 DEF IInv

\* Execute returns.  The token of a concurrent batch goes back, so the counters
\* stay the number of goroutines.
LEMMA ExecuteReturnIInv ==
  ASSUME IInv, NEW u \in Use, wk[u] \in Running, NEW r \in {"ok", "err"},
         ExecuteReturn(u, r),
         UNCHANGED <<inputs, cancelled, crashed, pc, batchVars, i, registered,
                     consumer>>
  PROVE  IInv'
<1> USE DEF inputs, batchVars, pool, consumer
<1>0. TypeOK /\ LoopInv /\ ActiveInv /\ PoolInv /\ ResultInv /\ DeliveryInv
  BY DEF IInv
<1>b. /\ wk' = [wk EXCEPT ![u] = "done"]
      /\ res' = [res EXCEPT ![u] = r]
  BY DEF ExecuteReturn
<1>2. /\ u \in Active /\ Active' = Active \ {u}
      /\ Cardinality(Active') = Cardinality(Active) - 1
      /\ Cardinality(Active) \in Nat /\ Cardinality(Active') \in Nat
  <2>1. u \in Active
    BY DEF Active
  <2>2. Active' = Active \ {u} /\ Cardinality(Active') = Cardinality(Active) - 1
    BY <1>0, <1>b, <2>1, ActiveLeave
  <2>3. IsFiniteSet(Active) /\ Active' \subseteq Active
    BY <1>0, <2>2, ActiveFinite
  <2> QED
    BY <2>1, <2>2, <2>3, FS_Subset, FS_CardinalityType
<1>c. /\ pc = "executing" => sem' = sem /\ wg' = wg
      /\ pc # "executing" => sem' = sem - 1 /\ wg' = wg - 1
  BY DEF ExecuteReturn, Release
<1>1. TypeOK'
  <2>1. sem' \in Nat /\ wg' \in Nat
    BY <1>0, <1>2, <1>c DEF TypeOK, PoolInv
  <2> QED
    BY <1>0, <1>b, <2>1 DEF TypeOK, Running
<1>a. \A v \in Use : /\ wk'[v] = "done" => v = u \/ wk[v] = "done"
                     /\ wk[v] = "done" => wk'[v] = "done"
                     /\ wk[v] # "idle" => wk'[v] # "idle"
                     /\ wk[v] \in Running => wk'[v] \in Running \cup {"done"}
                     /\ res[v] # "none" => res'[v] # "none"
                     /\ v = u => res'[v] # "none"
  BY <1>0, <1>b DEF TypeOK, Running
<1>3. LoopInv'
  BY <1>0 DEF TypeOK, LoopInv, Use
<1>4. ActiveInv'
  BY <1>0, <1>2 DEF ActiveInv, TypeOK
<1>5. PoolInv'
  BY <1>0, <1>2, <1>c DEF PoolInv, TypeOK
<1>6. ResultInv'
  BY <1>0, <1>a, <1>2 DEF ResultInv, ActiveInv, TypeOK, LoopInv, Use
<1>7. DeliveryInv'
  <2>1. \A j \in DOMAIN delivered : delivered[j] \in Use
    BY <1>0 DEF TypeOK
  <2>2. DeliveredHasResult'
    BY <2>1, <1>0, <1>a DEF DeliveryInv, DeliveredHasResult
  <2> QED
    BY <2>2, <1>0 DEF DeliveryInv, DeliveredInOrder, Bound
<1> QED
  BY <1>1, <1>3, <1>4, <1>5, <1>6, <1>7 DEF IInv

LEMMA ExecuteIInv ==
  ASSUME IInv, NEW u \in Use, Execute(u)
  PROVE  IInv'
<1> USE DEF Alive, Running, execVars
<1>0. TypeOK
  BY DEF IInv
<1>1. CASE ExecuteEntry(u)
  <2>1. CASE cancelled
    BY <1>1, <2>1, ExecuteReturnIInv DEF ExecuteEntry
  <2>2. CASE ~cancelled
    BY <1>0, <1>1, <2>2, ExecuteMoveIInv DEF ExecuteEntry, TypeOK
  <2> QED
    BY <2>1, <2>2
<1>2. CASE ExecuteMetadataLookup(u)
  <2>1. PICK x \in {"ready", "store"} : wk' = [wk EXCEPT ![u] = x]
    BY <1>2 DEF ExecuteMetadataLookup
  <2> QED
    BY <1>0, <1>2, <2>1, ExecuteMoveIInv DEF ExecuteMetadataLookup, TypeOK
<1>3. CASE ExecuteMetadataStore(u)
  BY <1>3, ExecuteMoveIInv DEF ExecuteMetadataStore
<1>4. CASE ExecuteRefuse(u)
  BY <1>4, ExecuteReturnIInv DEF ExecuteRefuse
<1>5. CASE ExecuteCall(u)
  BY <1>0, <1>5, ExecuteMoveIInv DEF ExecuteCall, TypeOK
<1>6. CASE ExecuteCallReturns(u)
  <2>1. PICK r \in {"ok", "err"} : ExecuteReturn(u, r)
    BY <1>6 DEF ExecuteCallReturns
  <2> QED
    BY <1>6, <2>1, ExecuteReturnIInv DEF ExecuteCallReturns
<1> QED
  BY <1>1, <1>2, <1>3, <1>4, <1>5, <1>6 DEF Execute

-----------------------------------------------------------------------------
(* The consumer, the cancellation and the fault of the runtime *)

LEMMA ConsumeIInv ==
  ASSUME IInv, Consume \/ Cancel \/ MapFault \/ UNCHANGED vars
  PROVE  IInv'
<1> USE DEF inputs, batchVars, pool, execVars
<1>0. TypeOK /\ LoopInv /\ ActiveInv /\ PoolInv /\ ResultInv /\ DeliveryInv
  BY DEF IInv
<1>a. UNCHANGED <<inputs, pc, batchVars, i, pool, execVars, delivered>>
  BY DEF Consume, SubagentCall, SubagentCallReturns, SubagentFinish, ConsumerDone,
         Cancel, MapFault, Alive, consumer, vars
<1>b. /\ cancelled' \in BOOLEAN /\ crashed' \in BOOLEAN
      /\ cancelled => cancelled'
  BY <1>0 DEF TypeOK, Consume, SubagentCall, SubagentCallReturns, SubagentFinish,
         ConsumerDone, Cancel, MapFault, Alive, vars
<1>c. /\ cpc' \in {"recv", "subagent", "subcall", "done"}
      /\ subRound' \in 0 .. MaxToolRounds
  BY <1>0 DEF TypeOK, Consume, SubagentCall, SubagentCallReturns, SubagentFinish,
         ConsumerDone, Cancel, MapFault, Alive, vars, consumer, RoundsLeft
<1>d. cpc' = "done" => cpc = "done" \/ pc = "closed"
  BY DEF Consume, SubagentCall, SubagentCallReturns, SubagentFinish, ConsumerDone,
         Cancel, MapFault, vars, consumer
<1>1. TypeOK'
  BY <1>0, <1>a, <1>b, <1>c DEF TypeOK
<1>2. Active' = Active
  BY <1>a DEF Active
<1>3. LoopInv'
  BY <1>0, <1>a, <1>b, <1>d DEF TypeOK, LoopInv
<1>4. ActiveInv'
  BY <1>0, <1>2, <1>a, <1>b DEF ActiveInv
<1>5. PoolInv'
  BY <1>0, <1>2, <1>a DEF PoolInv
<1>6. ResultInv'
  BY <1>0, <1>a DEF ResultInv
<1>7. DeliveryInv'
  BY <1>0, <1>a, <1>b DEF DeliveryInv, DeliveredInOrder, DeliveredHasResult, Bound
<1> QED
  BY <1>1, <1>3, <1>4, <1>5, <1>6, <1>7 DEF IInv

-----------------------------------------------------------------------------
(* Theorems *)

\* Every behaviour of the orchestrator keeps the inductive invariant.
THEOREM Invariance == Spec => []IInv
<1>1. IInv /\ [Next]_vars => IInv'
  <2> SUFFICES ASSUME IInv, [Next]_vars PROVE IInv'
    OBVIOUS
  <2>1. CASE RunTools
    BY <2>1, CloseOutIInv, NextBatchIInv, SingleExecuteIInv, SingleReturnedIInv,
       SpawnCheckIInv, SpawnAcquireIInv, WaitGroupDoneIInv, SendUpdateIInv,
       DropUpdateIInv DEF RunTools
  <2>2. CASE \E u \in Use : Execute(u)
    BY <2>2, ExecuteIInv
  <2>3. CASE Consume \/ Cancel \/ MapFault \/ UNCHANGED vars
    BY <2>3, ConsumeIInv
  <2> QED
    BY <2>1, <2>2, <2>3 DEF Next
<1> QED
  BY <1>1, InitIInv, PTL DEF Spec

\* The type invariant: in particular the counters of the semaphore and of the
\* WaitGroup never go below zero and no index leaves the slice of tool uses.
THEOREM TypeCorrectness == Spec => []TypeOK
<1>1. IInv => TypeOK
  BY DEF IInv
<1> QED
  BY <1>1, Invariance, PTL

\* RunTools never executes another use beside the call of an unsafe one.
THEOREM UnsafeUsesAreExclusive == Spec => []UnsafeRunsAlone
<1>1. IInv => UnsafeRunsAlone
  <2> SUFFICES ASSUME IInv, NEW u \in Use, wk[u] = "call", ~safe[u]
               PROVE  Active = {u}
    BY DEF UnsafeRunsAlone
  <2>0. TypeOK /\ LoopInv /\ ActiveInv
    BY DEF IInv
  <2>1. u \in Active
    BY DEF Active, Running
  <2>2. pc = "executing" => Active = {u}
    BY <2>0, <2>1 DEF ActiveInv
  <2>3. pc \in {"spawn", "acquire"} => FALSE
    BY <2>0, <2>1 DEF ActiveInv, LoopInv, TypeOK, Use
  <2>4. pc \in {"batch", "closed"} => FALSE
    BY <2>0, <2>1 DEF ActiveInv, LoopInv, TypeOK, Use
  <2>5. pc \in {"single", "send", "flush"} => FALSE
    BY <2>0, <2>1 DEF ActiveInv
  <2> QED
    BY <2>0, <2>2, <2>3, <2>4, <2>5 DEF TypeOK
<1> QED
  BY <1>1, Invariance, PTL

\* The goroutines inside Execute never exceed MaxConcurrency.
THEOREM ConcurrencyLimit == Spec => []ConcurrencyBounded
<1>1. IInv => ConcurrencyBounded
  <2> SUFFICES ASSUME IInv, MaxConcurrency # 0
               PROVE  Cardinality(Active) <= MaxConcurrency
    BY DEF ConcurrencyBounded
  <2>0. TypeOK /\ ActiveInv /\ PoolInv
    BY DEF IInv
  <2>1. CASE pc = "executing"
    <3>1. Active \subseteq {i}
      BY <2>0, <2>1 DEF ActiveInv
    <3>2. Cardinality({i}) = 1 /\ IsFiniteSet({i})
      BY FS_Singleton
    <3>3. Cardinality(Active) <= 1 /\ Cardinality(Active) \in Nat
      BY <2>0, <3>1, <3>2, FS_Subset, ActiveFinite
    <3> QED
      BY <3>3
  <2>2. CASE pc # "executing"
    BY <2>0, <2>2 DEF PoolInv
  <2> QED
    BY <2>1, <2>2
<1> QED
  BY <1>1, Invariance, PTL

\* Updates arrive in the order of the tool uses, without duplicates, and each
\* carries the result of its use.
THEOREM OrderedDelivery == Spec => [](DeliveredInOrder /\ DeliveredHasResult)
<1>1. IInv => DeliveredInOrder /\ DeliveredHasResult
  BY DEF IInv, DeliveryInv
<1> QED
  BY <1>1, Invariance, PTL

\* RunTools returns with goroutines running only after a cancellation.
THEOREM Stragglers == Spec => []StragglersOnlyIfCancelled
<1>1. IInv => StragglersOnlyIfCancelled
  BY DEF IInv, ActiveInv, StragglersOnlyIfCancelled
<1> QED
  BY <1>1, Invariance, PTL

\* A turn that is not cancelled receives an update for every tool use.
THEOREM Completeness == Spec => []UncancelledIsComplete
<1>1. IInv => UncancelledIsComplete
  BY DEF IInv, TypeOK, LoopInv, DeliveryInv, Bound, Use, UncancelledIsComplete
<1> QED
  BY <1>1, Invariance, PTL

\* What executeToolUses receives, in one statement: order, results, completeness.
THEOREM Delivery == Spec => []ResultsDelivered
<1>1. DeliveredInOrder /\ DeliveredHasResult /\ UncancelledIsComplete <=> ResultsDelivered
  BY DEF ResultsDelivered
<1> QED
  BY <1>1, OrderedDelivery, Completeness, PTL

\* The goroutines of RunTools: how many there are, and which outlive it.
THEOREM Goroutines == Spec => []GoroutinesBounded
<1>1. ConcurrencyBounded /\ StragglersOnlyIfCancelled <=> GoroutinesBounded
  BY DEF GoroutinesBounded
<1> QED
  BY <1>1, ConcurrencyLimit, Stragglers, PTL

\* A step of Execute for use u, in terms of what the contract sees.
LEMMA ExecuteStepIsContractStep ==
  ASSUME IInv, NEW u \in Use, Execute(u)
  PROVE  /\ UNCHANGED cancelled
         /\ \A v \in Use : v # u => wk'[v] = wk[v] /\ res'[v] = res[v]
         /\ \/ wk'[u] \in Running \ {"call"} /\ wk[u] \in Running \ {"call"}
               /\ res'[u] = res[u]
            \/ wk[u] \in Running \ {"call"} /\ wk'[u] = "call" /\ ~cancelled
               /\ res'[u] = res[u]
            \/ wk[u] \in Running \ {"call"} /\ wk'[u] = "done" /\ res'[u] = "err"
            \/ wk[u] = "call" /\ wk'[u] = "done" /\ res'[u] \in {"ok", "err"}
<1>0. /\ wk \in [Use -> Running \cup {"idle", "done"}]
      /\ res \in [Use -> {"none", "ok", "err"}]
  BY DEF IInv, TypeOK
<1> USE DEF Running, ExecuteReturn, Alive
<1>1. CASE ExecuteEntry(u)
  BY <1>0, <1>1 DEF ExecuteEntry
<1>2. CASE ExecuteMetadataLookup(u) \/ ExecuteMetadataStore(u)
  BY <1>0, <1>2 DEF ExecuteMetadataLookup, ExecuteMetadataStore
<1>3. CASE ExecuteRefuse(u) \/ ExecuteCallReturns(u)
  BY <1>0, <1>3 DEF ExecuteRefuse, ExecuteCallReturns
<1>4. CASE ExecuteCall(u)
  BY <1>0, <1>4 DEF ExecuteCall, MayCall
<1> QED
  BY <1>1, <1>2, <1>3, <1>4 DEF Execute

\* The first use that has not been started.
Frontier == IF pc = "single" THEN lo
            ELSE IF pc \in {"spawn", "acquire"} THEN i
            ELSE hi + 1

\* The uses from there on have never been inside Execute.
IdleInv == \A u \in Use : u >= Frontier => wk[u] = "idle"

\* The steps outside Execute that start a use, start one that is idle; they and
\* all others are invisible to the contract, except the cancellation.
LEMMA OtherStep ==
  ASSUME IInv, IdleInv, RunTools \/ Consume \/ Cancel \/ MapFault \/ UNCHANGED vars
  PROVE  /\ IdleInv'
         /\ UNCHANGED res
         /\ \A v \in Use : \/ wk'[v] = wk[v]
                           \/ wk[v] = "idle" /\ wk'[v] = "entry"
         /\ UNCHANGED cancelled \/ (cancelled' = TRUE /\ UNCHANGED wk)
<1>0. TypeOK /\ LoopInv
  BY DEF IInv
<1> USE DEF execVars, batchVars, Alive
<1>1. CASE SingleExecute
  <2>1. i \in Use /\ wk[i] = "idle" /\ Frontier = i /\ Frontier' = i + 1
    BY <1>0, <1>1 DEF SingleExecute, TypeOK, LoopInv, IdleInv, Frontier, Use
  <2> QED
    BY <1>0, <1>1, <2>1 DEF SingleExecute, TypeOK, IdleInv, Use
<1>2. CASE SpawnAcquire
  <2>1. i \in Use /\ wk[i] = "idle" /\ Frontier = i /\ Frontier' = i + 1
    BY <1>0, <1>2 DEF SpawnAcquire, TypeOK, LoopInv, IdleInv, Frontier, Use
  <2> QED
    BY <1>0, <1>2, <2>1 DEF SpawnAcquire, TypeOK, IdleInv, Use
<1>3. CASE NextBatch
  <2>1. UNCHANGED <<wk, res, cancelled>> /\ Frontier' = Frontier
    BY <1>0, <1>3 DEF NextBatch, Frontier, TypeOK
  <2> QED
    BY <2>1 DEF IdleInv
<1>4. CASE CloseOut \/ SingleCancelled \/ SpawnCancelled \/ SpawnCheck
             \/ WaitGroupDone \/ SingleReturned
  <2>1. /\ UNCHANGED <<wk, res, cancelled>>
        /\ Frontier' \in Int /\ Frontier \in Int /\ Frontier' >= Frontier
    BY <1>0, <1>4 DEF CloseOut, SingleCancelled, SpawnCancelled, SpawnCheck,
       WaitGroupDone, SingleReturned, Frontier, TypeOK, LoopInv, Use
  <2> QED
    BY <2>1 DEF IdleInv, Use
<1>5. CASE SendUpdate \/ DropUpdate
  <2>1. /\ UNCHANGED <<wk, res, cancelled>>
        /\ Frontier' = Frontier
    BY <1>5 DEF SendUpdate, DropUpdate, Advance, Frontier
  <2> QED
    BY <2>1 DEF IdleInv
<1>6. CASE Consume \/ Cancel \/ MapFault \/ UNCHANGED vars
  <2>1. /\ UNCHANGED <<wk, res, pc, lo, hi, i>>
        /\ UNCHANGED cancelled \/ cancelled' = TRUE
    BY <1>6 DEF Consume, SubagentCall, SubagentCallReturns, SubagentFinish,
       ConsumerDone, Cancel, MapFault, vars
  <2> QED
    BY <2>1 DEF IdleInv, Frontier
<1> QED
  BY <1>1, <1>2, <1>3, <1>4, <1>5, <1>6 DEF RunTools

\* Steps of Execute leave idle uses idle.
LEMMA ExecuteIdle ==
  ASSUME IInv, IdleInv, NEW u \in Use, Execute(u)
  PROVE  IdleInv'
<1>1. /\ wk[u] # "idle"
      /\ \A v \in Use : v # u => wk'[v] = wk[v]
  BY ExecuteStepIsContractStep DEF Running
<1>2. UNCHANGED <<pc, lo, hi, i>>
  BY DEF Execute, ExecuteEntry, ExecuteMetadataLookup, ExecuteMetadataStore,
     ExecuteRefuse, ExecuteCall, ExecuteCallReturns, batchVars
<1> QED
  BY <1>1, <1>2 DEF IdleInv, Frontier

\* Each use goes through Execute as ToolContract says, whatever the
\* interleaving of RunTools, the goroutines of the batch and the cancellation.
THEOREM UsesImplementContract == Spec => UsesKeepContract
<1> DEFINE Step(u) == Contract(u)!Next \/ UNCHANGED Contract(u)!vars
<1>1. Init => IdleInv /\ \A u \in Use : Contract(u)!Init
  BY DEF Init, IdleInv, Contract!Init
<1>2. IInv /\ IdleInv /\ [Next]_vars => IdleInv' /\ \A u \in Use : Step(u)
  <2> SUFFICES ASSUME IInv, IdleInv, [Next]_vars
               PROVE  IdleInv' /\ \A u \in Use : Step(u)
    OBVIOUS
  <2> USE DEF Contract!Next, Contract!Cancel, Contract!Refuse, Contract!Call,
              Contract!Return, Contract!vars
  <2>1. CASE \E u \in Use : Execute(u)
    <3>1. PICK u \in Use : Execute(u)
      BY <2>1
    <3>2. IdleInv'
      BY <3>1, ExecuteIdle
    <3>3. ASSUME NEW v \in Use PROVE Step(v)
      <4>1. CASE v # u
        BY <3>1, <4>1, ExecuteStepIsContractStep
      <4>2. CASE v = u
        BY <3>1, <4>2, ExecuteStepIsContractStep DEF Running
      <4> QED
        BY <4>1, <4>2
    <3> QED
      BY <3>2, <3>3
  <2>2. CASE RunTools \/ Consume \/ Cancel \/ MapFault \/ UNCHANGED vars
    BY <2>2, OtherStep
  <2> QED
    BY <2>1, <2>2 DEF Next
<1> QED
  BY <1>1, <1>2, Invariance, PTL DEF Spec, UsesKeepContract

-----------------------------------------------------------------------------
(* Progress.  The two halves of RunEnds that need no fairness: every step      *)
(* brings the run nearer to its end, and as long as it has not ended somebody  *)
(* is not waiting.                                                             *)

\* What RunTools has still to do: four steps for each use of the batches to come,
\* and of the current one what is left.
LoopLeft ==
  LET batches == 4 * (NumUses - hi) + 1
  IN  CASE pc = "batch"     -> batches
        [] pc = "single"    -> batches + 3
        [] pc = "executing" -> batches + 2
        [] pc = "send"      -> batches + 1
        [] pc = "spawn"     -> batches + (hi - lo + 2) + 2 * (hi + 1 - i)
        [] pc = "acquire"   -> batches + (hi - lo + 1) + 2 * (hi + 1 - i)
        [] pc = "flush"     -> batches + (hi + 1 - i)
        [] OTHER            -> 0

\* What executeToolUses does before it receives again.
ConsumerLeft ==
  CASE cpc = "subagent" -> 2 * (MaxToolRounds - subRound) + 2
    [] cpc = "subcall"  -> 2 * (MaxToolRounds - subRound) + 3
    [] cpc = "recv"     -> 1
    [] OTHER            -> 0

\* What Execute has still to do for a use at this control point.
ExecuteLeft ==
  [idle |-> 6, entry |-> 5, meta |-> 4, store |-> 3, ready |-> 2, call |-> 1, done |-> 0]

\* Nothing goes back, except that the consumer starts again after an update was
\* sent; and every step is progress somewhere.
RunForward ==
  /\ LoopLeft' <= LoopLeft
  /\ LoopLeft' = LoopLeft => ConsumerLeft' <= ConsumerLeft
  /\ \A u \in Use : ExecuteLeft[wk'[u]] <= ExecuteLeft[wk[u]]
  /\ (cancelled => cancelled') /\ (crashed => crashed')
  /\ \/ LoopLeft' < LoopLeft
     \/ LoopLeft' = LoopLeft /\ ConsumerLeft' < ConsumerLeft
     \/ \E u \in Use : ExecuteLeft[wk'[u]] < ExecuteLeft[wk[u]]
     \/ cancelled' # cancelled
     \/ crashed' # crashed

LEMMA ForwardBounds ==
  ASSUME TypeOK, LoopInv
  PROVE  /\ LoopLeft \in Nat /\ ConsumerLeft \in Nat
         /\ \A u \in Use : ExecuteLeft[wk[u]] \in 0 .. 6
         /\ LoopLeft = 0 => pc = "closed"
<1>1. ConsumerLeft \in Nat
  BY SMTT(60) DEF TypeOK, ConsumerLeft
<1>2. \A u \in Use : ExecuteLeft[wk[u]] \in 0 .. 6
  BY DEF TypeOK, ExecuteLeft, Running
<1>3. lo \in Int /\ hi \in 0 .. NumUses /\ i \in Int
  BY DEF TypeOK, Use
<1>4. CASE pc \in {"batch", "single", "executing", "send", "closed"}
  <2>1. LoopLeft \in Nat /\ (LoopLeft = 0 => pc = "closed")
    BY <1>3, <1>4 DEF LoopLeft
  <2> QED BY <1>1, <1>2, <2>1
<1>5. CASE pc \in {"spawn", "acquire", "flush"}
  <2>1. lo < hi /\ i <= hi + 1
    BY <1>3, <1>5 DEF LoopInv
  <2>2. LoopLeft \in Nat /\ (LoopLeft = 0 => pc = "closed")
    BY <1>3, <1>5, <2>1 DEF LoopLeft
  <2> QED BY <1>1, <1>2, <2>2
<1> QED BY <1>4, <1>5 DEF TypeOK

\* A step of RunTools that starts no use.
LEMMA LoopForward ==
  ASSUME TypeOK, LoopInv,
         CloseOut \/ NextBatch \/ SingleCancelled \/ SingleReturned \/ SpawnCancelled \/ SpawnCheck
           \/ WaitGroupDone \/ SendUpdate \/ DropUpdate
  PROVE  LoopLeft' < LoopLeft /\ wk' = wk /\ cancelled' = cancelled /\ crashed' = crashed
<1> USE DEF Alive, execVars, batchVars
<1>0. lo \in Int /\ hi \in 0 .. NumUses /\ i \in Int
  BY DEF TypeOK, Use
<1>1. wk' = wk /\ cancelled' = cancelled /\ crashed' = crashed
  BY DEF CloseOut, NextBatch, SingleCancelled, SingleReturned, SpawnCancelled, SpawnCheck,
     WaitGroupDone, SendUpdate, DropUpdate
<1>2. CASE CloseOut \/ SingleCancelled
  BY <1>0, <1>1, <1>2 DEF CloseOut, SingleCancelled, LoopLeft
<1>3. CASE NextBatch
  <2>1. PICK last \in hi + 1 .. NumUses :
          /\ lo' = hi + 1 /\ hi' = last /\ i' = hi + 1
          /\ pc' = IF ~safe[hi + 1] \/ last = hi + 1 THEN "single" ELSE "spawn"
    BY <1>3 DEF NextBatch
  <2>2. pc = "batch"
    BY <1>3 DEF NextBatch
  <2>3. CASE pc' = "single"
    BY <1>0, <1>1, <2>1, <2>2, <2>3 DEF LoopLeft
  <2>4. CASE pc' = "spawn"
    <3>1. last > hi + 1
      BY <1>0, <2>1, <2>4
    <3> QED BY <1>0, <1>1, <2>1, <2>2, <2>4, <3>1 DEF LoopLeft
  <2> QED BY <2>1, <2>3, <2>4
<1>4. CASE SingleReturned
  BY <1>0, <1>1, <1>4 DEF SingleReturned, LoopLeft
<1>5. CASE SpawnCancelled \/ SpawnCheck
  <2>1. lo < hi
    BY <1>5 DEF SpawnCancelled, SpawnCheck, LoopInv
  <2> QED BY <1>0, <1>1, <1>5, <2>1 DEF SpawnCancelled, SpawnCheck, LoopLeft
<1>6. CASE WaitGroupDone
  <2>1. i = hi + 1
    BY <1>0, <1>6 DEF WaitGroupDone, LoopInv
  <2> QED BY <1>0, <1>1, <1>6, <2>1 DEF WaitGroupDone, LoopLeft
<1>7. CASE SendUpdate \/ DropUpdate
  <2>1. /\ i' = i + 1 /\ hi' = hi /\ lo' = lo
        /\ pc \in {"send", "flush"} /\ pc' = IF i < hi THEN pc ELSE "batch"
    BY <1>7 DEF SendUpdate, DropUpdate, Advance, MoreInBatch
  <2>2. i <= hi /\ (pc = "send" => i = hi)
    BY <1>0, <2>1 DEF LoopInv
  <2> QED BY <1>0, <1>1, <2>1, <2>2 DEF LoopLeft
<1> QED BY <1>2, <1>3, <1>4, <1>5, <1>6, <1>7

\* A step of RunTools that starts a use.
LEMMA StartForward ==
  ASSUME TypeOK, LoopInv, SingleExecute \/ SpawnAcquire
  PROVE  LoopLeft' < LoopLeft /\ cancelled' = cancelled /\ crashed' = crashed
<1> USE DEF Alive, batchVars
<1>0. lo \in Int /\ hi \in 0 .. NumUses /\ i \in Int
  BY DEF TypeOK, Use
<1>1. CASE SingleExecute
  BY <1>0, <1>1 DEF SingleExecute, LoopLeft
<1>2. CASE SpawnAcquire
  BY <1>0, <1>2 DEF SpawnAcquire, LoopLeft
<1> QED BY <1>1, <1>2

LEMMA LoopLeftNext == IInv' => (LoopLeft \in Nat)'
<1>1. IInv => LoopLeft \in Nat
  BY ForwardBounds DEF IInv
<1> QED BY <1>1, PTL

LEMMA RunToolsForward ==
  ASSUME IInv, IdleInv, RunTools
  PROVE  RunForward
<1>0. TypeOK /\ LoopInv
  BY DEF IInv
<1>1. LoopLeft' < LoopLeft /\ cancelled' = cancelled /\ crashed' = crashed
  BY <1>0, LoopForward, StartForward DEF RunTools
<1>2. LoopLeft \in Nat
  BY <1>0, ForwardBounds
<1>3. IInv'
  BY CloseOutIInv, NextBatchIInv, SingleExecuteIInv, SingleReturnedIInv, SpawnCheckIInv,
     SpawnAcquireIInv, WaitGroupDoneIInv, SendUpdateIInv, DropUpdateIInv DEF RunTools
<1>4. LoopLeft' \in Nat
  BY <1>3, LoopLeftNext
<1>5. \A u \in Use : ExecuteLeft[wk'[u]] <= ExecuteLeft[wk[u]]
  <2>1. \A u \in Use : wk'[u] = wk[u] \/ (wk[u] = "idle" /\ wk'[u] = "entry")
    BY OtherStep
  <2>2. \A u \in Use : ExecuteLeft[wk[u]] \in 0 .. 6
    BY <1>0, ForwardBounds
  <2> QED BY <2>1, <2>2 DEF ExecuteLeft
<1> QED BY <1>1, <1>2, <1>4, <1>5 DEF RunForward

\* A step of Execute for u.
LEMMA ExecuteForward ==
  ASSUME IInv, NEW u \in Use, Execute(u)
  PROVE  RunForward
<1> USE DEF Alive, batchVars, consumer
<1>0. TypeOK /\ LoopInv
  BY DEF IInv
<1>1. UNCHANGED <<pc, lo, hi, i, cpc, subRound, cancelled, crashed>>
  BY DEF Execute, ExecuteEntry, ExecuteMetadataLookup, ExecuteMetadataStore, ExecuteRefuse,
     ExecuteCall, ExecuteCallReturns
<1>2. LoopLeft' = LoopLeft /\ ConsumerLeft' = ConsumerLeft
  BY <1>1 DEF LoopLeft, ConsumerLeft
<1>3. wk \in [Use -> Running \cup {"idle", "done"}]
  BY <1>0 DEF TypeOK
<1>4. PICK x \in Running \cup {"done"} :
        wk' = [wk EXCEPT ![u] = x] /\ ExecuteLeft[x] < ExecuteLeft[wk[u]]
  BY DEF Execute, ExecuteEntry, ExecuteMetadataLookup, ExecuteMetadataStore, ExecuteRefuse,
     ExecuteCall, ExecuteCallReturns, ExecuteReturn, ExecuteLeft, Running
<1>5. \A v \in Use : ExecuteLeft[wk[v]] \in 0 .. 6
  BY <1>0, ForwardBounds
<1>6. \A v \in Use : v # u => wk'[v] = wk[v]
  BY <1>3, <1>4
<1>7. wk'[u] = x
  BY <1>3, <1>4
<1>8. ExecuteLeft[x] \in 0 .. 6
  BY DEF ExecuteLeft, Running
<1>9. \A v \in Use : ExecuteLeft[wk'[v]] <= ExecuteLeft[wk[v]]
  BY <1>4, <1>5, <1>6, <1>7, <1>8
<1>10. LoopLeft \in Nat /\ ConsumerLeft \in Nat
  BY <1>0, ForwardBounds
<1> QED BY <1>1, <1>2, <1>4, <1>7, <1>9, <1>10 DEF RunForward

\* A step of the consumer, the cancellation or the fault of the runtime.
LEMMA ConsumeForward ==
  ASSUME IInv, Consume \/ Cancel \/ MapFault
  PROVE  RunForward
<1> USE DEF Alive, batchVars, execVars, consumer
<1>0. TypeOK /\ LoopInv
  BY DEF IInv
<1>1. UNCHANGED <<pc, lo, hi, i, wk>>
  BY DEF Consume, SubagentCall, SubagentCallReturns, SubagentFinish, ConsumerDone, Cancel, MapFault
<1>2. LoopLeft' = LoopLeft /\ LoopLeft \in Nat /\ ConsumerLeft \in Nat
  BY <1>0, <1>1, ForwardBounds DEF LoopLeft
<1>3. \A u \in Use : ExecuteLeft[wk'[u]] <= ExecuteLeft[wk[u]]
  <2>1. \A u \in Use : ExecuteLeft[wk[u]] \in 0 .. 6
    BY <1>0, ForwardBounds
  <2> QED BY <1>1, <2>1
<1>4. CASE Cancel \/ MapFault
  <2>1. cpc' = cpc /\ subRound' = subRound
    BY <1>4 DEF Cancel, MapFault
  <2>2. ConsumerLeft' = ConsumerLeft
    BY <2>1 DEF ConsumerLeft
  <2>3. (cancelled => cancelled') /\ (crashed => crashed') /\ (cancelled' # cancelled \/ crashed' # crashed)
    BY <1>4 DEF Cancel, MapFault
  <2> QED BY <1>2, <1>3, <2>2, <2>3 DEF RunForward
<1>5. CASE Consume
  <2>1. cancelled' = cancelled /\ crashed' = crashed
    BY <1>5 DEF Consume, SubagentCall, SubagentCallReturns, SubagentFinish, ConsumerDone
  <2>2. ConsumerLeft' < ConsumerLeft
    <3>1. subRound \in 0 .. MaxToolRounds
      BY <1>0 DEF TypeOK
    <3> QED BY <1>5, <3>1 DEF Consume, SubagentCall, SubagentCallReturns, SubagentFinish,
                ConsumerDone, ConsumerLeft, RoundsLeft
  <2>3. ConsumerLeft' <= ConsumerLeft
    <3>1. ConsumerLeft' \in Int
      BY <1>0, <1>5, SMTT(60) DEF TypeOK, Consume, SubagentCall, SubagentCallReturns, SubagentFinish,
                ConsumerDone, ConsumerLeft
    <3> QED BY <1>2, <2>2, <3>1
  <2> QED BY <1>2, <1>3, <2>1, <2>2, <2>3 DEF RunForward
<1> QED BY <1>4, <1>5

\* RunTools, its goroutines and its consumer take finitely many steps: at most
\* 4 * NumUses + 1 of the loop, five of each use, and between two updates no more
\* than the rounds of one subagent, whatever the interleaving and the moment of
\* a cancellation.
THEOREM RunIsFinite ==
  Spec => /\ [](LoopLeft \in Nat /\ ConsumerLeft \in Nat /\ \A u \in Use : ExecuteLeft[wk[u]] \in 0 .. 6)
          /\ [][RunForward]_vars
<1>1. Init => IdleInv
  BY DEF Init, IdleInv
<1>2. IInv /\ IdleInv /\ [Next]_vars => IdleInv'
  BY OtherStep, ExecuteIdle DEF Next
<1>3. IInv /\ IdleInv /\ [Next]_vars => [RunForward]_vars
  BY RunToolsForward, ExecuteForward, ConsumeForward DEF Next
<1>4. IInv => LoopLeft \in Nat /\ ConsumerLeft \in Nat /\ \A u \in Use : ExecuteLeft[wk[u]] \in 0 .. 6
  BY ForwardBounds DEF IInv
<1> QED BY <1>1, <1>2, <1>3, <1>4, Invariance, PTL DEF Spec

\* Where the next step of a goroutine is not blocked: the guards of its actions.
LoopCanStep ==
  \/ pc = "batch" /\ (hi = NumUses \/ cancelled \/ \E last \in hi + 1 .. NumUses : IsBatch(hi + 1, last))
  \/ pc = "single"
  \/ pc = "executing" /\ wk[i] = "done"
  \/ pc = "spawn" /\ (i <= hi \/ AllReturned)
  \/ pc = "acquire" /\ TokenFree
  \/ pc \in {"send", "flush"} /\ (cpc = "recv" \/ cancelled)

ConsumerCanStep == cpc \in {"subagent", "subcall"} \/ (cpc = "recv" /\ pc = "closed")

SomebodyCanStep == LoopCanStep \/ ConsumerCanStep \/ Active # {}

LEMMA Least ==
  ASSUME NEW S \in SUBSET Nat, S # {}
  PROVE  \E x \in S : \A y \in S : x <= y
<1> DEFINE R == OpToRel(<, Nat)
<1>1. PICK x \in S : \A y \in S : ~(<<y, x>> \in R)
  <2> HIDE DEF R
  <2>1. IsWellFoundedOn(R, Nat)
    BY NatLessThanWellFounded DEF R
  <2> QED BY <2>1, WFMin
<1>2. \A y \in S : ~(y < x)
  BY <1>1 DEF OpToRel
<1>3. \A y \in S : x <= y
  BY <1>2
<1> QED BY <1>3

\* partitionToolCalls leaves no use out: a batch begins at every use that the
\* batches before have not taken.
LEMMA BatchFrom ==
  ASSUME NEW first \in Use
  PROVE  \E last \in first .. NumUses : IsBatch(first, last)
<1> DEFINE S == {k \in first .. NumUses : k < NumUses => OpensBatch(k + 1)}
<1>1. S \in SUBSET Nat /\ NumUses \in S
  BY DEF Use
<1>2. PICK last \in S : \A k \in S : last <= k
  <2> HIDE DEF S
  <2> QED BY <1>1, Least
<1>3. ASSUME NEW k \in first + 1 .. last PROVE ~OpensBatch(k)
  <2>1. k - 1 \in first .. NumUses /\ k - 1 < last /\ k - 1 < NumUses /\ (k - 1) + 1 = k
    BY DEF Use
  <2>2. k - 1 \notin S
    BY <1>2, <2>1
  <2> QED BY <2>1, <2>2
<1>4. IsBatch(first, last)
  BY <1>2, <1>3 DEF IsBatch
<1> QED BY <1>2, <1>4

\* Everyone waiting on everyone does not happen: until executeToolUses has
\* returned, RunTools, its consumer or a goroutine inside Execute has a step to
\* take, also when the semaphore is exhausted, the WaitGroup is waited for, or the
\* consumer runs a subagent while an update is to be sent.
THEOREM NobodyWaitsForEver == Spec => [](~crashed /\ cpc # "done" => SomebodyCanStep)
<1>1. IInv /\ ~crashed /\ cpc # "done" => SomebodyCanStep
  <2> SUFFICES ASSUME IInv, cpc # "done", Active = {} PROVE LoopCanStep \/ ConsumerCanStep
    BY DEF SomebodyCanStep
  <2>0. TypeOK /\ LoopInv /\ PoolInv /\ ResultInv
    BY DEF IInv
  <2>a. lo \in Int /\ hi \in 0 .. NumUses /\ i \in 1 .. NumUses + 1
    BY <2>0 DEF TypeOK, Use
  <2>b. pc # "executing" => wg = 0 /\ sem = 0
    BY <2>0, FS_EmptySet DEF PoolInv
  <2>1. CASE pc = "batch"
    <3>1. CASE hi = NumUses
      BY <2>1, <3>1 DEF LoopCanStep
    <3>2. CASE hi # NumUses
      <4>1. hi + 1 \in Use
        BY <2>a, <3>2 DEF Use
      <4> QED BY <2>1, <4>1, BatchFrom DEF LoopCanStep
    <3> QED BY <3>1, <3>2
  <2>2. CASE pc = "executing"
    <3>1. i \in Use /\ wk[i] # "idle"
      BY <2>0, <2>2 DEF LoopInv, ResultInv, TypeOK
    <3>2. wk[i] \notin Running
      BY <3>1 DEF Active
    <3>3. wk[i] = "done"
      BY <2>0, <3>1, <3>2 DEF TypeOK
    <3> QED BY <2>2, <3>3 DEF LoopCanStep
  <2>3. CASE pc \in {"single", "spawn"}
    BY <2>3, <2>b DEF LoopCanStep, AllReturned
  <2>4. CASE pc = "acquire"
    <3>1. Limit > 0 /\ Limit \in Int
      BY <2>0, <2>4, <2>a DEF LoopInv, Limit
    <3> QED BY <2>4, <2>b, <3>1 DEF LoopCanStep, TokenFree
  <2>5. CASE pc \in {"send", "flush"}
    BY <2>0, <2>5 DEF TypeOK, LoopCanStep, ConsumerCanStep
  <2>6. CASE pc = "closed"
    BY <2>0, <2>6 DEF TypeOK, ConsumerCanStep
  <2> QED BY <2>0, <2>1, <2>2, <2>3, <2>4, <2>5, <2>6 DEF TypeOK
<1> QED BY <1>1, Invariance, PTL
=============================================================================
