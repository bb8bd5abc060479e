--------------------------- MODULE TurnLoopProofs ---------------------------
(***************************************************************************)
(* Proofs about RunTurn for every number of turns, rounds, models and tool *)
(* uses and every setting of the compaction.                               *)
(*                                                                         *)
(* ControlInv strengthens StreamMatchesAnswer and BreakerHolds: outside    *)
(* the steps of send the request is clear, and within them what was shown  *)
(* is told by the control point.                                           *)
(***************************************************************************)
EXTENDS TurnLoop, WellFoundedInduction, TLAPS

Clear == model = 1 /\ shown = FALSE /\ via = "none"

RequestInv ==
  /\ pc \notin {"send", "failed", "record"} => Clear
  /\ pc = "send" => shown = FALSE /\ via = "none"
  /\ pc = "failed" => via = "none"
  /\ pc = "record" => \/ shown = TRUE /\ via = "stream"
                      \/ shown = FALSE /\ via = "unary"

ModelInv == model \in 1 .. NumModels

FailuresInv == failures \in Nat /\ (ForceCompact = FALSE => failures <= FailureLimit)

RoundInv == round \in 0 .. MaxToolRounds /\ (pc \in {"send", "failed", "record", "tools", "results"} => round < MaxToolRounds)

ControlInv == RequestInv /\ ModelInv /\ FailuresInv /\ RoundInv

USE BoundsAssumption

\* Initially nothing was requested.
LEMMA InitControl == Init => ControlInv
  BY DEF Init, ControlInv, RequestInv, Clear, ModelInv, FailuresInv, RoundInv

\* What saving a message does to the control state: the request is cleared, and
\* RunTurn goes on or returns.
LEMMA SaveControl ==
  ASSUME NEW m, NEW hist, NEW next, Save(m, hist, next)
  PROVE  /\ model' = 1 /\ shown' = FALSE /\ via' = "none"
         /\ \/ pc' = next /\ round' = round
            \/ pc' = "idle" /\ round' = 0
  BY DEF Save, WriteEntry, Return, ClearRequest

\* The same for a message that joins the history.
LEMMA SaveMessageControl ==
  ASSUME NEW m, NEW next, SaveMessage(m, next)
  PROVE  /\ model' = 1 /\ shown' = FALSE /\ via' = "none"
         /\ \/ pc' = next /\ round' = round
            \/ pc' = "idle" /\ round' = 0
  BY SaveControl DEF SaveMessage

\* Every step preserves ControlInv.
LEMMA NextControl == ControlInv /\ [Next]_vars => ControlInv'
<1> SUFFICES ASSUME ControlInv, [Next]_vars PROVE ControlInv'
  OBVIOUS
<1> USE DEF ControlInv, RequestInv, Clear, ModelInv, FailuresInv, RoundInv
<1>1. CASE AppendPrompt
  <2>1. SaveMessage(Head(pending), "prompt")
    BY <1>1 DEF AppendPrompt
  <2>2. /\ model' = 1 /\ shown' = FALSE /\ via' = "none"
        /\ \/ pc' = "prompt" /\ round' = round
           \/ pc' = "idle" /\ round' = 0
    BY <2>1, SaveMessageControl
  <2> QED
    BY <1>1, <2>2 DEF AppendPrompt
<1>2. CASE PromptDone
  BY <1>2 DEF PromptDone, Goto, locals, request, Return, ClearRequest
<1>3. CASE LocalText
  <2>1. SaveMessage(User(nextId), "done")
    BY <1>3 DEF LocalText
  <2>2. /\ model' = 1 /\ shown' = FALSE /\ via' = "none"
        /\ \/ pc' = "done" /\ round' = round
           \/ pc' = "idle" /\ round' = 0
    BY <2>1, SaveMessageControl
  <2> QED
    BY <1>3, <2>2 DEF LocalText
<1>4. CASE Done
  BY <1>4 DEF Done, Return, ClearRequest
<1>5. CASE Fail
  BY <1>5 DEF Fail, Return, ClearRequest
<1>6. CASE AutoCompactSkip
  BY <1>6 DEF AutoCompactSkip, Goto, locals, request
<1>7. CASE AutoCompactFails
  BY <1>7 DEF AutoCompactFails, BreakerOpen, Goto, locals, request
<1>8. CASE AutoCompact
  BY <1>8 DEF AutoCompact, Compact, request
<1>9. CASE ManualCompact
  BY <1>9 DEF ManualCompact, Compact, request
<1>10. CASE AppendBoundary
  <2>1. Save(history[1], history, "summary")
    BY <1>10 DEF AppendBoundary
  <2>2. /\ model' = 1 /\ shown' = FALSE /\ via' = "none"
        /\ \/ pc' = "summary" /\ round' = round
           \/ pc' = "idle" /\ round' = 0
    BY <2>1, SaveControl
  <2> QED
    BY <1>10, <2>2 DEF AppendBoundary
<1>11. CASE AppendSummary
  <2>1. PICK next \in {"done", "delta"} : Save(SummaryEntry, history, next)
    BY <1>11 DEF AppendSummary
  <2>2. /\ model' = 1 /\ shown' = FALSE /\ via' = "none"
        /\ \/ pc' = next /\ round' = round
           \/ pc' = "idle" /\ round' = 0
    BY <2>1, SaveControl
  <2> QED
    BY <1>11, <2>2 DEF AppendSummary
<1>12. CASE NoDelta
  BY <1>12 DEF NoDelta, Goto, locals, request
<1>13. CASE AppendDelta
  <2>1. SaveMessage(Message(nextId, "attachment", 0, <<0, 0>>), "round")
    BY <1>13 DEF AppendDelta
  <2>2. /\ model' = 1 /\ shown' = FALSE /\ via' = "none"
        /\ \/ pc' = "round" /\ round' = round
           \/ pc' = "idle" /\ round' = 0
    BY <2>1, SaveMessageControl
  <2> QED
    BY <1>13, <2>2 DEF AppendDelta
<1>14. CASE RoundsExceeded
  BY <1>14 DEF RoundsExceeded, Return, ClearRequest
<1>15. CASE StartRound
  BY <1>15 DEF StartRound, Goto, locals, request
<1>16. CASE Stream
  BY <1>16 DEF Stream, sendFrame, locals
<1>17. CASE Unary
  BY <1>17 DEF Unary, MayFallBack, sendFrame, locals
<1>18. CASE RetryFallback
  BY <1>18 DEF RetryFallback, NextModel, sendFrame, locals
<1>19. CASE SendFails
  BY <1>19 DEF SendFails, Return, ClearRequest
<1>20. CASE RecordAssistant
  <2>1. PICK n \in 0 .. MaxUses :
          SaveMessage(Message(nextId, "assistant", n, <<0, 0>>), AfterResponse(n))
    BY <1>20 DEF RecordAssistant
  <2>2. AfterResponse(n) \in {"finish", "tools"}
    BY DEF AfterResponse
  <2>3. /\ model' = 1 /\ shown' = FALSE /\ via' = "none"
        /\ \/ pc' = AfterResponse(n) /\ round' = round
           \/ pc' = "idle" /\ round' = 0
    BY <2>1, SaveMessageControl
  <2> QED
    BY <1>20, <2>2, <2>3 DEF RecordAssistant
<1>21. CASE Finish
  BY <1>21 DEF Finish, Return, ClearRequest
<1>22. CASE ExecuteToolUses
  BY <1>22 DEF ExecuteToolUses, request
<1>23. CASE AppendResult
  <2>1. SaveMessage(Head(pending), "results")
    BY <1>23 DEF AppendResult
  <2>2. /\ model' = 1 /\ shown' = FALSE /\ via' = "none"
        /\ \/ pc' = "results" /\ round' = round
           \/ pc' = "idle" /\ round' = 0
    BY <2>1, SaveMessageControl
  <2> QED
    BY <1>23, <2>2 DEF AppendResult
<1>24. CASE ResultsDone
  BY <1>24 DEF ResultsDone, request
<1>25. CASE StartTurn
  BY <1>25 DEF StartTurn, request
<1>26. CASE RefuseTurn
  BY <1>26 DEF RefuseTurn, request, locals
<1>27. CASE Cancel
  BY <1>27 DEF Cancel, request, locals
<1>28. CASE Crash
  BY <1>28 DEF Crash, Return, ClearRequest
<1>29. CASE UNCHANGED vars
  BY <1>29 DEF vars
<1> QED
  BY <1>1, <1>2, <1>3, <1>4, <1>5, <1>6, <1>7, <1>8, <1>9, <1>10, <1>11, <1>12,
     <1>13, <1>14, <1>15, <1>16, <1>17, <1>18, <1>19, <1>20, <1>21, <1>22, <1>23,
     <1>24, <1>25, <1>26, <1>27, <1>28, <1>29 DEF Next, RunTurn

\* ControlInv holds in every reachable state.
THEOREM Control == Spec => []ControlInv
  BY InitControl, NextControl, PTL DEF Spec

\* A consumer of the stream sees each answer once, whatever streams fail and
\* whatever fallback models are tried (createMessage, send).
THEOREM AnswersShownOnce == Spec => []StreamMatchesAnswer
<1>1. ControlInv => StreamMatchesAnswer
  BY DEF ControlInv, RequestInv, StreamMatchesAnswer
<1> QED
  BY <1>1, Control, PTL

\* Compaction is not attempted again after FailureLimit failures in a row
\* (ShouldRun, RecordFailure, RecordSuccess).
THEOREM CompactionBreaker == Spec => []BreakerHolds
<1>1. ControlInv => BreakerHolds
  BY DEF ControlInv, FailuresInv, BreakerHolds
<1> QED
  BY <1>1, Control, PTL

-----------------------------------------------------------------------------
(* Numbers.  Induction is by the least counterexample. *)

LEMMA Least ==
  ASSUME NEW S \in SUBSET Nat, S # {}
  PROVE  \E x \in S : \A y \in S : x <= y
<1> DEFINE R == OpToRel(<, Nat)
<1>1. PICK x \in S : \A y \in S : ~(<<y, x>> \in R)
  <2> HIDE DEF R
  <2>1. IsWellFoundedOn(R, Nat)
    BY NatLessThanWellFounded DEF R
  <2> QED BY <2>1, WFMin
<1>2. \A y \in S : ~(y < x)
  BY <1>1 DEF OpToRel
<1>3. \A y \in S : x <= y
  BY <1>2
<1> QED BY <1>3

\* A set of numbers up to n that is not empty has a greatest element.
LEMMA Greatest ==
  ASSUME NEW n \in Nat, NEW S \in SUBSET (0 .. n), S # {}
  PROVE  Max(S) \in S /\ \A k \in S : k <= Max(S)
<1> DEFINE T == {k \in 0 .. n : \A y \in S : y <= k}
<1>1. n \in T /\ T \subseteq Nat
  OBVIOUS
<1>2. PICK x \in T : \A y \in T : x <= y
  BY <1>1, Least
<1>3. x \in S
  <2> SUFFICES ASSUME x \notin S PROVE FALSE
    OBVIOUS
  <2>1. PICK s \in S : TRUE
    OBVIOUS
  <2>2. x \in 0 .. n /\ \A y \in S : y <= x
    BY <1>2
  <2>3. \A y \in S : y <= x - 1
    BY <2>2
  <2>4. x - 1 \in 0 .. n
    BY <2>1, <2>2, <2>3
  <2>5. x - 1 \in T
    BY <2>3, <2>4
  <2> QED BY <2>5, <1>2, <2>2
<1>4. \A k \in S : x >= k
  BY <1>2
<1>5. Max(S) \in S /\ \A k \in S : Max(S) >= k
  <2> DEFINE P(z) == \A k \in S : z >= k
  <2>1. \E m1 \in S : P(m1)
    BY <1>3, <1>4
  <2>2. Max(S) = CHOOSE z \in S : P(z)
    BY DEF Max
  <2> HIDE DEF P
  <2>3. Max(S) \in S /\ P(Max(S))
    BY <2>1, <2>2, Zenon
  <2> QED BY <2>3 DEF P
<1> QED BY <1>5

-----------------------------------------------------------------------------
(* Parents, chains and speakers of any sequence of messages *)

\* A parent is an earlier entry.
LEMMA ParentEarlier ==
  ASSUME NEW live, NEW i \in Nat \ {0}
  PROVE  /\ ParentAt(live, i) \in 0 .. i - 1
         /\ ParentAt(live, i) # 0 => live[ParentAt(live, i)].id = live[i].parent
<1> DEFINE at == {j \in 1 .. i - 1 : live[j].id = live[i].parent}
<1>1. CASE at = {}
  BY <1>1 DEF ParentAt
<1>2. CASE at # {}
  <2>1. at \in SUBSET (0 .. i - 1) /\ i - 1 \in Nat
    OBVIOUS
  <2>2. Max(at) \in at
    BY <1>2, <2>1, Greatest
  <2>3. ParentAt(live, i) = Max(at)
    BY <1>2 DEF ParentAt
  <2> QED BY <2>2, <2>3
<1> QED BY <1>1, <1>2

\* It is the one entry whose identity is named.
LEMMA ParentIs ==
  ASSUME NEW live, NEW i \in Nat \ {0}, NEW j \in 1 .. i - 1,
         live[j].id = live[i].parent,
         \A k \in 1 .. i - 1 : live[k].id = live[j].id => k = j
  PROVE  ParentAt(live, i) = j
<1> DEFINE at == {k \in 1 .. i - 1 : live[k].id = live[i].parent}
<1>1. j \in at /\ \A k \in at : k = j
  OBVIOUS
<1>2. at \in SUBSET (0 .. i - 1) /\ i - 1 \in Nat
  OBVIOUS
<1>3. Max(at) \in at
  BY <1>1, <1>2, Greatest
<1>4. ParentAt(live, i) = Max(at)
  BY <1>1 DEF ParentAt
<1> QED BY <1>1, <1>3, <1>4

\* An entry has no parent when it names none that is there.
LEMMA ParentNone ==
  ASSUME NEW live, NEW i \in Nat \ {0}, \A j \in 1 .. i - 1 : live[j].id # live[i].parent
  PROVE  ParentAt(live, i) = 0
  BY DEF ParentAt

\* What comes later does not change a parent.
LEMMA ParentStays ==
  ASSUME NEW live, NEW more, NEW i \in Nat \ {0}, \A j \in 1 .. i : more[j] = live[j]
  PROVE  ParentAt(more, i) = ParentAt(live, i)
<1>1. {j \in 1 .. i - 1 : more[j].id = more[i].parent} =
      {j \in 1 .. i - 1 : live[j].id = live[i].parent}
  OBVIOUS
<1> QED BY <1>1 DEF ParentAt

\* BuildConversationChain is defined on every sequence, and as its code says.
LEMMA ChainSteps ==
  ASSUME NEW live, Len(live) \in Nat
  PROVE  /\ ChainTo(live)[0] = <<>>
         /\ \A i \in 1 .. Len(live) :
              ChainTo(live)[i] = Append(ChainTo(live)[ParentAt(live, i)], live[i])
<1> DEFINE Good(f, n) ==
      f = [i \in 0 .. n |-> IF i = 0 THEN <<>> ELSE Append(f[ParentAt(live, i)], live[i])]
<1> DEFINE Bad == {n \in Nat : ~\E f : Good(f, n)}
<1>1. Bad = {}
  <2> SUFFICES ASSUME Bad # {} PROVE FALSE
    OBVIOUS
  <2>1. PICK n \in Bad : \A y \in Bad : n <= y
    BY Least
  <2>2. n # 0
    <3>1. Good([i \in 0 .. 0 |-> <<>>], 0)
      OBVIOUS
    <3> QED BY <2>1, <3>1
  <2>3. n - 1 \in Nat /\ n - 1 \notin Bad
    <3>1. n \in Nat /\ n - 1 \in Nat /\ ~(n <= n - 1)
      BY <2>1, <2>2
    <3> HIDE DEF Bad
    <3> QED BY <2>1, <3>1
  <2>4. PICK f : Good(f, n - 1)
    BY <2>3
  <2> DEFINE g == [i \in 0 .. n |-> IF i = n THEN Append(f[ParentAt(live, n)], live[n]) ELSE f[i]]
  <2>5. \A i \in 1 .. n : ParentAt(live, i) \in 0 .. i - 1
    BY ParentEarlier
  <2>6. \A i \in 0 .. n - 1 : f[i] = IF i = 0 THEN <<>> ELSE Append(f[ParentAt(live, i)], live[i])
    BY <2>4
  <2>7. ASSUME NEW i \in 0 .. n
        PROVE  g[i] = IF i = 0 THEN <<>> ELSE Append(g[ParentAt(live, i)], live[i])
    <3>1. i # 0 => g[ParentAt(live, i)] = f[ParentAt(live, i)]
      BY <2>3, <2>5
    <3>2. CASE i = n
      BY <3>1, <3>2, <2>2
    <3>3. CASE i # n
      <4>1. g[i] = f[i] /\ i \in 0 .. n - 1
        BY <3>3, <2>3
      <4> QED BY <3>1, <4>1, <2>6
    <3> QED BY <3>2, <3>3
  <2>8. Good(g, n)
    BY <2>7
  <2> QED BY <2>1, <2>8
<1>2. PICK f : Good(f, Len(live))
  BY <1>1
<1>3. ChainTo(live) = CHOOSE f1 : Good(f1, Len(live))
  BY DEF ChainTo
<1>4. Good(ChainTo(live), Len(live))
  <2> HIDE DEF Good
  <2> QED BY <1>2, <1>3, Zenon
<1> HIDE DEF Bad
<1>5. \A i \in 0 .. Len(live) :
        ChainTo(live)[i] = IF i = 0 THEN <<>> ELSE Append(ChainTo(live)[ParentAt(live, i)], live[i])
  <2> DEFINE c == ChainTo(live)
  <2>1. Good(c, Len(live))
    BY <1>4
  <2> HIDE DEF c
  <2>2. \A i \in 0 .. Len(live) :
          c[i] = IF i = 0 THEN <<>> ELSE Append(c[ParentAt(live, i)], live[i])
    BY <2>1
  <2> QED BY <2>2 DEF c
<1>6. ASSUME NEW i \in 1 .. Len(live)
      PROVE  ChainTo(live)[i] = Append(ChainTo(live)[ParentAt(live, i)], live[i])
  <2>1. i \in 0 .. Len(live) /\ i # 0
    OBVIOUS
  <2> QED BY <1>5, <2>1, Zenon
<1>7. ChainTo(live)[0] = <<>>
  <2>1. 0 \in 0 .. Len(live)
    OBVIOUS
  <2> QED BY <1>5, <2>1, Zenon
<1> QED BY <1>6, <1>7

\* So is the walk of computeLeafUUIDs to the first user or assistant message.
LEMMA SpeakerSteps ==
  ASSUME NEW live, Len(live) \in Nat
  PROVE  \A i \in 0 .. Len(live) :
           SpeakerAt(live)[i] = IF i = 0 \/ live[i].kind \notin {"boundary", "attachment"} THEN i
                                ELSE SpeakerAt(live)[ParentAt(live, i)]
<1> DEFINE Good(f, n) ==
      f = [i \in 0 .. n |-> IF i = 0 \/ live[i].kind \notin {"boundary", "attachment"} THEN i
                            ELSE f[ParentAt(live, i)]]
<1> DEFINE Bad == {n \in Nat : ~\E f : Good(f, n)}
<1>1. Bad = {}
  <2> SUFFICES ASSUME Bad # {} PROVE FALSE
    OBVIOUS
  <2>1. PICK n \in Bad : \A y \in Bad : n <= y
    BY Least
  <2>2. n # 0
    <3>1. Good([i \in 0 .. 0 |-> i], 0)
      OBVIOUS
    <3> QED BY <2>1, <3>1
  <2>3. n - 1 \in Nat /\ n - 1 \notin Bad
    <3>1. n \in Nat /\ n - 1 \in Nat /\ ~(n <= n - 1)
      BY <2>1, <2>2
    <3> HIDE DEF Bad
    <3> QED BY <2>1, <3>1
  <2>4. PICK f : Good(f, n - 1)
    BY <2>3
  <2> DEFINE g == [i \in 0 .. n |->
                     IF i = n THEN IF live[n].kind \notin {"boundary", "attachment"} THEN n
                                   ELSE f[ParentAt(live, n)]
                     ELSE f[i]]
  <2>5. \A i \in 1 .. n : ParentAt(live, i) \in 0 .. i - 1
    BY ParentEarlier
  <2>6. \A i \in 0 .. n - 1 : f[i] = IF i = 0 \/ live[i].kind \notin {"boundary", "attachment"}
                                    THEN i ELSE f[ParentAt(live, i)]
    BY <2>4
  <2>7. ASSUME NEW i \in 0 .. n
        PROVE  g[i] = IF i = 0 \/ live[i].kind \notin {"boundary", "attachment"} THEN i
                      ELSE g[ParentAt(live, i)]
    <3>1. i # 0 => g[ParentAt(live, i)] = f[ParentAt(live, i)]
      BY <2>3, <2>5
    <3>2. CASE i = n
      BY <3>1, <3>2, <2>2
    <3>3. CASE i # n
      <4>1. g[i] = f[i] /\ i \in 0 .. n - 1
        BY <3>3, <2>3
      <4> QED BY <3>1, <4>1, <2>6
    <3> QED BY <3>2, <3>3
  <2>8. Good(g, n)
    BY <2>7
  <2> QED BY <2>1, <2>8
<1>2. PICK f : Good(f, Len(live))
  BY <1>1
<1>3. SpeakerAt(live) = CHOOSE f1 : Good(f1, Len(live))
  BY Zenon DEF SpeakerAt
<1>4. Good(SpeakerAt(live), Len(live))
  <2> HIDE DEF Good
  <2> QED BY <1>2, <1>3, Zenon
<1> HIDE DEF Bad
<1> DEFINE c == SpeakerAt(live)
<1>5. Good(c, Len(live))
  BY <1>4
<1> HIDE DEF c
<1>6. \A i \in 0 .. Len(live) :
        c[i] = IF i = 0 \/ live[i].kind \notin {"boundary", "attachment"} THEN i
               ELSE c[ParentAt(live, i)]
  BY <1>5
<1> QED BY <1>6 DEF c

\* The walk leads backwards, to a message of the user or the assistant.
LEMMA SpeakerEarlier ==
  ASSUME NEW live, Len(live) \in Nat, NEW i \in 0 .. Len(live)
  PROVE  /\ SpeakerAt(live)[i] \in 0 .. i
         /\ SpeakerAt(live)[i] # 0 =>
              live[SpeakerAt(live)[i]].kind \notin {"boundary", "attachment"}
<1> DEFINE up == SpeakerAt(live)
<1> DEFINE Good(k) == up[k] \in 0 .. k /\ (up[k] # 0 => live[up[k]].kind \notin {"boundary", "attachment"})
<1> DEFINE Bad == {k \in 0 .. Len(live) : ~Good(k)}
<1>1. \A k \in 0 .. Len(live) :
        up[k] = IF k = 0 \/ live[k].kind \notin {"boundary", "attachment"} THEN k
                ELSE up[ParentAt(live, k)]
  BY SpeakerSteps
<1> HIDE DEF up
<1> SUFFICES ASSUME Bad # {} PROVE FALSE
  BY DEF up
<1>2. PICK k \in Bad : \A y \in Bad : k <= y
  <2>1. Bad \in SUBSET Nat
    OBVIOUS
  <2> HIDE DEF Bad
  <2> QED BY <2>1, Least
<1>3. k # 0 /\ live[k].kind \in {"boundary", "attachment"}
  BY <1>1, <1>2
<1>4. ParentAt(live, k) \in 0 .. k - 1
  BY <1>2, <1>3, ParentEarlier
<1>5. Good(ParentAt(live, k))
  BY <1>2, <1>4
<1>6. up[k] = up[ParentAt(live, k)]
  BY <1>1, <1>2, <1>3
<1>7. Good(k)
  BY <1>2, <1>4, <1>5, <1>6
<1> QED BY <1>2, <1>7

\* The chain to an entry does not change when others follow.
LEMMA ChainStays ==
  ASSUME NEW live, NEW more, Len(live) \in Nat, Len(more) \in Nat, Len(live) <= Len(more),
         \A j \in 1 .. Len(live) : more[j] = live[j],
         NEW i \in 0 .. Len(live)
  PROVE  ChainTo(more)[i] = ChainTo(live)[i]
<1> DEFINE c == ChainTo(live)
<1> DEFINE d == ChainTo(more)
<1> DEFINE Bad == {k \in 0 .. Len(live) : d[k] # c[k]}
<1>1. c[0] = <<>> /\ \A k \in 1 .. Len(live) : c[k] = Append(c[ParentAt(live, k)], live[k])
  BY ChainSteps
<1>2. d[0] = <<>> /\ \A k \in 1 .. Len(more) : d[k] = Append(d[ParentAt(more, k)], more[k])
  BY ChainSteps
<1> HIDE DEF c, d
<1> SUFFICES ASSUME Bad # {} PROVE FALSE
  BY DEF c, d
<1>3. PICK k \in Bad : \A y \in Bad : k <= y
  <2>1. Bad \in SUBSET Nat
    OBVIOUS
  <2> HIDE DEF Bad
  <2> QED BY <2>1, Least
<1>4. k \in 1 .. Len(live)
  BY <1>1, <1>2, <1>3
<1>5. ParentAt(live, k) \in 0 .. k - 1
  BY <1>4, ParentEarlier
<1>6. ParentAt(more, k) = ParentAt(live, k)
  <2>1. k \in Nat \ {0} /\ \A j \in 1 .. k : more[j] = live[j]
    BY <1>4
  <2> QED BY <2>1, ParentStays
<1>7. d[ParentAt(live, k)] = c[ParentAt(live, k)]
  BY <1>3, <1>4, <1>5
<1>8. d[k] = c[k]
  <2>1. d[k] = Append(d[ParentAt(more, k)], more[k]) /\ more[k] = live[k]
    BY <1>2, <1>4
  <2>2. c[k] = Append(c[ParentAt(live, k)], live[k])
    BY <1>1, <1>4
  <2> QED BY <1>6, <1>7, <2>1, <2>2, Zenon
<1> QED BY <1>3, <1>8

\* A chain consists of messages and ends in the entry it leads to.
LEMMA ChainTyped ==
  ASSUME NEW live \in Seq(Messages), NEW i \in 0 .. Len(live)
  PROVE  /\ ChainTo(live)[i] \in Seq(Messages)
         /\ i # 0 => ChainTo(live)[i] # <<>> /\ Last(ChainTo(live)[i]) = live[i]
<1> DEFINE c == ChainTo(live)
<1> DEFINE Bad == {k \in 0 .. Len(live) : c[k] \notin Seq(Messages)}
<1>0. Len(live) \in Nat
  OBVIOUS
<1>1. c[0] = <<>> /\ \A k \in 1 .. Len(live) : c[k] = Append(c[ParentAt(live, k)], live[k])
  BY <1>0, ChainSteps
<1> HIDE DEF c
<1>2. Bad = {}
  <2> SUFFICES ASSUME Bad # {} PROVE FALSE
    OBVIOUS
  <2>1. PICK k \in Bad : \A y \in Bad : k <= y
    <3>1. Bad \in SUBSET Nat
      OBVIOUS
    <3> HIDE DEF Bad
    <3> QED BY <3>1, Least
  <2>2. k \in 1 .. Len(live)
    <3>1. c[0] \in Seq(Messages)
      BY <1>1
    <3>2. k # 0
      BY <2>1, <3>1
    <3> QED BY <2>1, <3>2
  <2>3. ParentAt(live, k) \in 0 .. k - 1
    BY <2>2, ParentEarlier
  <2>4. c[ParentAt(live, k)] \in Seq(Messages)
    BY <2>1, <2>2, <2>3
  <2>5. c[k] \in Seq(Messages)
    <3>1. c[k] = Append(c[ParentAt(live, k)], live[k])
      BY <1>1, <2>2
    <3>2. live[k] \in Messages
      BY <2>2
    <3> QED BY <2>4, <3>1, <3>2
  <2> QED BY <2>1, <2>5
<1>3. \A k \in 0 .. Len(live) : c[k] \in Seq(Messages)
  BY <1>2
<1>4. ASSUME i # 0 PROVE c[i] # <<>> /\ Last(c[i]) = live[i]
  <2>1. ParentAt(live, i) \in 0 .. i - 1
    BY <1>4, ParentEarlier
  <2>2. PICK s \in Seq(Messages) : s = c[ParentAt(live, i)]
    BY <1>3, <2>1
  <2>3. c[i] = Append(s, live[i]) /\ live[i] \in Messages
    BY <1>1, <1>4, <2>2
  <2>4. Append(s, live[i]) # <<>> /\ Last(Append(s, live[i])) = live[i]
    BY <2>2, <2>3, SMTT(60) DEF Last
  <2> QED BY <2>3, <2>4
<1> QED BY <1>3, <1>4 DEF c

-----------------------------------------------------------------------------
(* The part of a transcript that is resumed *)

Speaker(m) == m.kind \notin {"boundary", "attachment"}

\* Live, Resumed: what they are of any sequence of entries.
LiveOf(entries) ==
  LET boundaries == {i \in DOMAIN entries : entries[i].kind = "boundary"}
  IN  IF boundaries = {} THEN entries
      ELSE SubSeq(entries, Max(boundaries), Len(entries))

ResumedOf(live) == IF Leaves(live) = {} THEN <<>> ELSE ChainTo(live)[Max(Leaves(live))]

LEMMA ResumedIs == Live = LiveOf(transcript) /\ Resumed = ResumedOf(Live)
  BY DEF Live, LiveOf, Resumed, ResumedOf

\* Live is a suffix of the transcript.
LEMMA LiveTyped ==
  ASSUME NEW entries \in Seq(Messages)
  PROVE  /\ LiveOf(entries) \in Seq(Messages)
         /\ LiveOf(entries) = <<>> <=> entries = <<>>
         /\ entries # <<>> => Last(LiveOf(entries)) = Last(entries)
<1> DEFINE boundaries == {i \in DOMAIN entries : entries[i].kind = "boundary"}
<1>1. CASE boundaries = {}
  BY <1>1 DEF LiveOf
<1>2. CASE boundaries # {}
  <2>1. boundaries \in SUBSET (0 .. Len(entries)) /\ Len(entries) \in Nat
    OBVIOUS
  <2>2. Max(boundaries) \in boundaries
    BY <1>2, <2>1, Greatest
  <2>3. PICK b \in 1 .. Len(entries) : b = Max(boundaries)
    <3>1. Max(boundaries) \in 1 .. Len(entries)
      BY <2>2
    <3> QED BY <3>1, Zenon
  <2>4. LiveOf(entries) = SubSeq(entries, b, Len(entries))
    BY <1>2, <2>3 DEF LiveOf
  <2> HIDE DEF boundaries
  <2>5. /\ SubSeq(entries, b, Len(entries)) \in Seq(Messages)
        /\ Len(SubSeq(entries, b, Len(entries))) = Len(entries) - b + 1
        /\ SubSeq(entries, b, Len(entries))[Len(entries) - b + 1] = entries[Len(entries)]
    BY <2>3
  <2> QED BY <2>3, <2>4, <2>5 DEF Last
<1> QED BY <1>1, <1>2

\* A boundary hides what was before it; any other entry is added to the rest.
LEMMA LiveAppend ==
  ASSUME NEW entries \in Seq(Messages), NEW m \in Messages
  PROVE  LiveOf(Append(entries, m)) =
           IF m.kind = "boundary" THEN <<m>> ELSE Append(LiveOf(entries), m)
<1> DEFINE boundaries == {i \in DOMAIN entries : entries[i].kind = "boundary"}
<1> DEFINE n == Len(entries)
<1>1. PICK more \in Seq(Messages) : more = Append(entries, m)
  <2>1. Append(entries, m) \in Seq(Messages)
    OBVIOUS
  <2> QED BY <2>1, Zenon
<1>2. n \in Nat /\ Len(more) = n + 1 /\ more[n + 1] = m /\ \A i \in 1 .. n : more[i] = entries[i]
  BY <1>1
<1> DEFINE later == {i \in DOMAIN more : more[i].kind = "boundary"}
<1>3. later = IF m.kind = "boundary" THEN boundaries \cup {n + 1} ELSE boundaries
  BY <1>2
<1>4. boundaries \in SUBSET (0 .. n) /\ later \in SUBSET (0 .. n + 1)
  BY <1>2
<1>5. LiveOf(more) = IF later = {} THEN more ELSE SubSeq(more, Max(later), Len(more))
  BY DEF LiveOf
<1>6. LiveOf(entries) = IF boundaries = {} THEN entries ELSE SubSeq(entries, Max(boundaries), n)
  BY DEF LiveOf
<1> HIDE DEF later, boundaries
<1>7. CASE m.kind = "boundary"
  <2>1. later # {} /\ n + 1 \in later
    BY <1>3, <1>7
  <2>2. Max(later) \in later /\ \A k \in later : k <= Max(later)
    <3>1. n + 1 \in Nat
      BY <1>2
    <3> HIDE DEF n
    <3> QED BY <1>4, <2>1, <3>1, Greatest
  <2>3. Max(later) = n + 1
    <3>1. Max(later) \in 0 .. n + 1 /\ n + 1 <= Max(later)
      BY <1>4, <2>1, <2>2, Zenon
    <3> QED BY <1>2, <3>1
  <2>4. SubSeq(more, n + 1, n + 1) = <<m>>
    <3>1. SubSeq(more, n + 1, n + 1) \in Seq(Messages)
      BY <1>2
    <3>2. Len(SubSeq(more, n + 1, n + 1)) = 1 /\ SubSeq(more, n + 1, n + 1)[1] = m
      BY <1>2
    <3>3. PICK p \in Seq(Messages) : p = SubSeq(more, n + 1, n + 1)
      BY <3>1, Zenon
    <3>4. Len(p) = 1 /\ p[1] = m
      BY <3>2, <3>3
    <3>5. p = <<m>>
      BY <3>4
    <3> QED BY <3>3, <3>5, Zenon
  <2> QED BY <1>1, <1>2, <1>5, <1>7, <2>1, <2>3, <2>4
<1>8. CASE m.kind # "boundary" /\ boundaries = {}
  BY <1>1, <1>3, <1>5, <1>6, <1>8
<1>9. CASE m.kind # "boundary" /\ boundaries # {}
  <2>1. Max(boundaries) \in boundaries
    BY <1>2, <1>4, <1>9, Greatest
  <2>2. PICK b \in 1 .. n : b = Max(boundaries)
    <3>1. boundaries \subseteq 1 .. n
      BY <1>2 DEF boundaries
    <3> QED BY <2>1, <3>1, Zenon
  <2>3. SubSeq(more, b, n + 1) = Append(SubSeq(entries, b, n), m)
    <3>1. SubSeq(more, b, n + 1) \in Seq(Messages) /\ Append(SubSeq(entries, b, n), m) \in Seq(Messages)
      BY <1>2, <2>2
    <3>2. Len(SubSeq(more, b, n + 1)) = n + 2 - b /\ Len(Append(SubSeq(entries, b, n), m)) = n + 2 - b
      BY <1>2, <2>2
    <3>3. ASSUME NEW i \in 1 .. n + 2 - b
          PROVE  SubSeq(more, b, n + 1)[i] = Append(SubSeq(entries, b, n), m)[i]
      <4>1. SubSeq(more, b, n + 1)[i] = more[b + i - 1]
        BY <1>2, <2>2
      <4>2. PICK old \in Seq(Messages) : old = SubSeq(entries, b, n)
        <5>1. SubSeq(entries, b, n) \in Seq(Messages)
          BY <2>2
        <5> QED BY <5>1, Zenon
      <4>3. Len(old) = n + 1 - b /\ \A k \in 1 .. n + 1 - b : old[k] = entries[b + k - 1]
        BY <1>2, <2>2, <4>2, SMTT(60)
      <4>4. CASE i = n + 2 - b
        <5>1. Append(old, m)[i] = m
          BY <1>2, <2>2, <4>3, <4>4, SMTT(60)
        <5> QED BY <1>2, <2>2, <4>1, <4>2, <4>4, <5>1, SMTT(60)
      <4>5. CASE i \in 1 .. n + 1 - b
        <5>1. Append(old, m)[i] = old[i]
          BY <1>2, <2>2, <4>3, <4>5
        <5>2. b + i - 1 \in 1 .. n
          BY <1>2, <2>2, <4>5
        <5> QED BY <1>2, <4>1, <4>2, <4>3, <4>5, <5>1, <5>2
      <4> QED BY <1>2, <2>2, <4>4, <4>5, SMTT(60)
    <3>4. PICK p \in Seq(Messages) : p = SubSeq(more, b, n + 1)
      BY <3>1, Zenon
    <3>5. PICK q \in Seq(Messages) : q = Append(SubSeq(entries, b, n), m)
      BY <3>1, Zenon
    <3>6. Len(p) = Len(q) /\ \A i \in 1 .. Len(p) : p[i] = q[i]
      BY <3>2, <3>3, <3>4, <3>5
    <3>7. p = q
      BY <3>6
    <3> QED BY <3>4, <3>5, <3>7, Zenon
  <2> QED BY <1>1, <1>2, <1>3, <1>5, <1>6, <1>9, <2>2, <2>3
<1> QED BY <1>7, <1>8, <1>9

\* The entries from the last boundary on: identities are their own and below next, a
\* parent is an earlier entry, and an attachment at the end follows what it is
\* attached to.
WellLinked(live, next) ==
  /\ \A i, j \in 1 .. Len(live) : live[i].id = live[j].id => i = j
  /\ \A i \in 1 .. Len(live) : live[i].id \in 1 .. next - 1
  /\ \A i \in 1 .. Len(live) : live[i].parent = 0 \/ \E j \in 1 .. i - 1 : live[j].id = live[i].parent
  /\ live # <<>> /\ Last(live).kind = "attachment" =>
       /\ Len(live) > 1
       /\ live[Len(live)].parent = live[Len(live) - 1].id
       /\ Speaker(live[Len(live) - 1])

\* The last entry has no child.
LEMMA LastIsChildless ==
  ASSUME NEW live \in Seq(Messages), NEW next \in Nat, WellLinked(live, next), live # <<>>,
         NEW j \in DOMAIN live
  PROVE  live[j].parent # live[Len(live)].id
<1>1. Len(live) \in Nat /\ Len(live) # 0 /\ j \in 1 .. Len(live) /\ Len(live) \in 1 .. Len(live)
  OBVIOUS
<1>2. live[Len(live)].id \in 1 .. next - 1
  BY <1>1 DEF WellLinked
<1>3. CASE live[j].parent = 0
  BY <1>2, <1>3
<1>4. ASSUME NEW k \in 1 .. j - 1, live[k].id = live[j].parent
      PROVE  live[j].parent # live[Len(live)].id
  <2>1. k \in 1 .. Len(live) /\ k # Len(live)
    BY <1>1
  <2> QED BY <1>1, <1>4, <2>1 DEF WellLinked
<1> QED BY <1>1, <1>3, <1>4 DEF WellLinked

\* Every leaf is an entry of the user or the assistant.
LEMMA LeavesAreSpeakers ==
  ASSUME NEW live \in Seq(Messages), NEW k \in Leaves(live)
  PROVE  k \in 1 .. Len(live) /\ Speaker(live[k])
<1>1. PICK i \in 1 .. Len(live) : k = SpeakerAt(live)[i] /\ k # 0
  BY DEF Leaves
<1>2. Len(live) \in Nat /\ i \in 0 .. Len(live)
  OBVIOUS
<1>3. SpeakerAt(live)[i] \in 0 .. i /\ Speaker(live[SpeakerAt(live)[i]])
  BY <1>1, <1>2, SpeakerEarlier DEF Speaker
<1> QED BY <1>1, <1>3

\* The latest leaf is the last entry, or the one before an attachment at the end.
LEMMA LatestLeaf ==
  ASSUME NEW live \in Seq(Messages), NEW next \in Nat, WellLinked(live, next), live # <<>>,
         Last(live).kind # "boundary"
  PROVE  /\ Leaves(live) # {}
         /\ Speaker(Last(live)) => Max(Leaves(live)) = Len(live)
         /\ ~Speaker(Last(live)) => /\ Len(live) > 1
                                    /\ Max(Leaves(live)) = Len(live) - 1
                                    /\ ParentAt(live, Len(live)) = Len(live) - 1
<1> DEFINE n == Len(live)
<1>1. n \in Nat \ {0} /\ n \in 1 .. n /\ n \in 0 .. n
  OBVIOUS
<1>2. SpeakerAt(live)[n] = IF Speaker(live[n]) THEN n ELSE SpeakerAt(live)[ParentAt(live, n)]
  BY <1>1, SpeakerSteps DEF Speaker
<1>3. SpeakerAt(live)[n] # 0 => SpeakerAt(live)[n] \in Leaves(live)
  <2>1. \A j \in DOMAIN live : live[j].parent # live[n].id
    BY LastIsChildless
  <2> QED BY <1>1, <2>1 DEF Leaves
<1>4. Leaves(live) \in SUBSET (0 .. n) /\ \A k \in Leaves(live) : k # n \/ Speaker(live[n])
  BY LeavesAreSpeakers
<1>5. CASE Speaker(live[n])
  <2>1. n \in Leaves(live)
    BY <1>1, <1>2, <1>3, <1>5
  <2>2. Max(Leaves(live)) \in Leaves(live) /\ \A k \in Leaves(live) : k <= Max(Leaves(live))
    BY <1>1, <1>4, <2>1, Greatest
  <2>3. Max(Leaves(live)) \in 0 .. n /\ n <= Max(Leaves(live))
    BY <1>4, <2>1, <2>2, Zenon
  <2>4. Max(Leaves(live)) = n
    BY <1>1, <2>3
  <2> QED BY <1>5, <2>1, <2>4 DEF Last
<1>6. CASE ~Speaker(live[n])
  <2>1. live[n].kind = "attachment"
    BY <1>6 DEF Speaker, Last
  <2>2. n > 1 /\ live[n].parent = live[n - 1].id /\ Speaker(live[n - 1])
    BY <2>1 DEF WellLinked, Last
  <2>3. n - 1 \in 1 .. n - 1 /\ n - 1 \in 0 .. n /\ n - 1 # 0 /\ n - 1 \in 1 .. n
    BY <1>1, <2>2
  <2>4. ParentAt(live, n) = n - 1
    <3>1. \A k \in 1 .. n - 1 : live[k].id = live[n - 1].id => k = n - 1
      BY <1>1, <2>3 DEF WellLinked
    <3> HIDE DEF n
    <3> QED BY <1>1, <2>2, <2>3, <3>1, ParentIs
  <2>5. SpeakerAt(live)[n - 1] = n - 1
    BY <1>1, <2>2, <2>3, SpeakerSteps DEF Speaker
  <2>6. n - 1 \in Leaves(live)
    BY <1>2, <1>3, <1>6, <2>3, <2>4, <2>5
  <2>7. Max(Leaves(live)) \in Leaves(live) /\ \A k \in Leaves(live) : k <= Max(Leaves(live))
    BY <1>1, <1>4, <2>6, Greatest
  <2>8. Max(Leaves(live)) \in 0 .. n /\ n - 1 <= Max(Leaves(live)) /\ Max(Leaves(live)) # n
    BY <1>4, <1>6, <2>6, <2>7, Zenon
  <2>9. Max(Leaves(live)) = n - 1
    BY <1>1, <2>8
  <2> QED BY <1>6, <2>2, <2>4, <2>6, <2>9 DEF Last
<1> QED BY <1>5, <1>6

\* What is resumed from a transcript that does not end in a boundary: the chain to
\* its last entry, without an attachment at the end.
LEMMA ResumeAtEnd ==
  ASSUME NEW live \in Seq(Messages), NEW next \in Nat, WellLinked(live, next), live # <<>>,
         Last(live).kind # "boundary"
  PROVE  LET chain == ChainTo(live)[Len(live)] IN
         /\ ResumedOf(live) # <<>>
         /\ Speaker(Last(live)) => ResumedOf(live) = chain
         /\ ~Speaker(Last(live)) => chain = Append(ResumedOf(live), Last(live))
         /\ ResumedOf(live) \in Seq(Messages)
<1> DEFINE n == Len(live)
<1>1. n \in Nat \ {0} /\ n \in 1 .. n /\ n \in 0 .. n
  OBVIOUS
<1>2. /\ Leaves(live) # {}
      /\ Speaker(Last(live)) => Max(Leaves(live)) = n
      /\ ~Speaker(Last(live)) => n > 1 /\ Max(Leaves(live)) = n - 1 /\ ParentAt(live, n) = n - 1
  BY LatestLeaf
<1>3. ResumedOf(live) = ChainTo(live)[Max(Leaves(live))]
  BY <1>2 DEF ResumedOf
<1>4. CASE Speaker(Last(live))
  <2>1. ChainTo(live)[n] # <<>> /\ ChainTo(live)[n] \in Seq(Messages)
    BY <1>1, ChainTyped
  <2> QED BY <1>2, <1>3, <1>4, <2>1
<1>5. CASE ~Speaker(Last(live))
  <2>1. n - 1 \in 0 .. n /\ n - 1 # 0
    <3>1. n > 1
      BY <1>2, <1>5, Zenon
    <3>2. n \in Nat
      BY <1>1
    <3> HIDE DEF n
    <3> QED BY <3>1, <3>2
  <2>2. ChainTo(live)[n - 1] # <<>> /\ ChainTo(live)[n - 1] \in Seq(Messages)
    BY <2>1, ChainTyped
  <2>3. ChainTo(live)[n] = Append(ChainTo(live)[ParentAt(live, n)], live[n])
    BY <1>1, ChainSteps
  <2> QED BY <1>2, <1>3, <1>5, <2>2, <2>3 DEF Last
<1> QED BY <1>4, <1>5

\* What is resumed is the chain to some entry of the user or the assistant.
LEMMA ResumeAny ==
  ASSUME NEW live \in Seq(Messages)
  PROVE  /\ ResumedOf(live) \in Seq(Messages)
         /\ ResumedOf(live) # <<>> =>
              \E k \in 1 .. Len(live) : ResumedOf(live) = ChainTo(live)[k] /\ Speaker(live[k])
<1>1. CASE Leaves(live) = {}
  BY <1>1 DEF ResumedOf
<1>2. CASE Leaves(live) # {}
  <2>1. Leaves(live) \in SUBSET (0 .. Len(live)) /\ Len(live) \in Nat
    BY LeavesAreSpeakers
  <2>2. Max(Leaves(live)) \in Leaves(live)
    BY <1>2, <2>1, Greatest
  <2>3. Max(Leaves(live)) \in 1 .. Len(live) /\ Speaker(live[Max(Leaves(live))])
    BY <2>2, LeavesAreSpeakers
  <2>4. ResumedOf(live) = ChainTo(live)[Max(Leaves(live))]
    BY <1>2 DEF ResumedOf
  <2>5. Max(Leaves(live)) \in 0 .. Len(live)
    BY <2>3
  <2>6. ResumedOf(live) \in Seq(Messages)
    BY <2>4, <2>5, ChainTyped
  <2> QED BY <2>3, <2>4, <2>6
<1> QED BY <1>1, <1>2

\* A new entry with an identity of its own keeps the entries linked.
LEMMA LinkAppend ==
  ASSUME NEW live \in Seq(Messages), NEW next \in Nat, WellLinked(live, next),
         NEW m \in Messages, m.id \in 1 .. next - 1,
         \A j \in 1 .. Len(live) : live[j].id # m.id,
         m.parent = 0 \/ \E j \in 1 .. Len(live) : live[j].id = m.parent,
         m.kind = "attachment" =>
           live # <<>> /\ m.parent = Last(live).id /\ Speaker(Last(live))
  PROVE  WellLinked(Append(live, m), next)
<1>1. PICK more \in Seq(Messages) : more = Append(live, m)
  <2>1. Append(live, m) \in Seq(Messages)
    OBVIOUS
  <2> QED BY <2>1, Zenon
<1>2. PICK n \in Nat : n = Len(live)
  OBVIOUS
<1>3. Len(more) = n + 1 /\ more[n + 1] = m /\ \A i \in 1 .. n : more[i] = live[i]
  BY <1>1, <1>2
<1>4. \A i \in 1 .. n + 1 : i \in 1 .. n \/ i = n + 1
  BY <1>2
<1>5. \A i, j \in 1 .. Len(more) : more[i].id = more[j].id => i = j
  BY <1>2, <1>3, <1>4 DEF WellLinked
<1>6. \A i \in 1 .. Len(more) : more[i].id \in 1 .. next - 1
  BY <1>2, <1>3, <1>4 DEF WellLinked
<1>7. ASSUME NEW i \in 1 .. Len(more)
      PROVE  more[i].parent = 0 \/ \E j \in 1 .. i - 1 : more[j].id = more[i].parent
  <2>1. CASE i = n + 1
    BY <1>2, <1>3, <2>1
  <2>2. CASE i \in 1 .. n
    <3>1. more[i] = live[i] /\ \A j \in 1 .. i - 1 : more[j] = live[j]
      BY <1>2, <1>3, <2>2
    <3>2. live[i].parent = 0 \/ \E j \in 1 .. i - 1 : live[j].id = live[i].parent
      BY <1>2, <2>2 DEF WellLinked
    <3> QED BY <3>1, <3>2
  <2> QED BY <1>3, <1>4, <2>1, <2>2
<1>8. ASSUME Last(more).kind = "attachment"
      PROVE  /\ Len(more) > 1
             /\ more[Len(more)].parent = more[Len(more) - 1].id
             /\ Speaker(more[Len(more) - 1])
  <2>1. m.kind = "attachment"
    BY <1>3, <1>8 DEF Last
  <2>2. live # <<>> /\ m.parent = live[n].id /\ Speaker(live[n])
    BY <1>2, <2>1 DEF Last
  <2>3. n > 0
    BY <1>2, <2>2
  <2>4. more[n] = live[n] /\ Len(more) - 1 = n
    BY <1>2, <1>3, <2>3
  <2> QED BY <1>3, <2>2, <2>3, <2>4
<1>9. WellLinked(more, next)
  BY <1>5, <1>6, <1>7, <1>8 DEF WellLinked
<1> QED BY <1>1, <1>9

\* Identities may be used up.
LEMMA LinkMonotone ==
  ASSUME NEW live, NEW next \in Nat, NEW after \in Nat, next <= after, WellLinked(live, next)
  PROVE  WellLinked(live, after)
<1>1. \A i \in 1 .. Len(live) : live[i].id \in 1 .. after - 1
  BY DEF WellLinked
<1> QED BY <1>1 DEF WellLinked

\* An entry extends the chain to the one it names.
LEMMA ChainAppend ==
  ASSUME NEW live \in Seq(Messages), NEW next \in Nat, WellLinked(live, next),
         NEW m \in Messages, NEW k \in 1 .. Len(live), m.parent = live[k].id
  PROVE  ChainTo(Append(live, m))[Len(live) + 1] = Append(ChainTo(live)[k], m)
<1>1. PICK more \in Seq(Messages) : more = Append(live, m)
  <2>1. Append(live, m) \in Seq(Messages)
    OBVIOUS
  <2> QED BY <2>1, Zenon
<1>2. PICK n \in Nat : n = Len(live)
  OBVIOUS
<1>3. Len(more) = n + 1 /\ more[n + 1] = m /\ \A i \in 1 .. n : more[i] = live[i]
  BY <1>1, <1>2
<1>4. ParentAt(more, n + 1) = k
  <2>1. k \in 1 .. n + 1 - 1 /\ more[k] = live[k] /\ n + 1 \in Nat \ {0}
    BY <1>2, <1>3
  <2>2. more[k].id = more[n + 1].parent
    BY <1>3, <2>1
  <2>3. \A j \in 1 .. n + 1 - 1 : more[j].id = more[k].id => j = k
    BY <1>2, <1>3 DEF WellLinked
  <2> QED BY <2>1, <2>2, <2>3, ParentIs
<1>5. ChainTo(more)[n + 1] = Append(ChainTo(more)[ParentAt(more, n + 1)], more[n + 1])
  BY <1>3, ChainSteps, SMTT(60)
<1>6. ChainTo(more)[k] = ChainTo(live)[k]
  <2>1. /\ Len(live) \in Nat /\ Len(more) \in Nat /\ Len(live) <= Len(more)
        /\ \A j \in 1 .. Len(live) : more[j] = live[j]
        /\ k \in 0 .. Len(live)
    BY <1>2, <1>3
  <2> QED BY <2>1, ChainStays
<1> QED BY <1>1, <1>2, <1>3, <1>4, <1>5, <1>6, Zenon

\* The first entry is a chain of its own.
LEMMA ChainFirst ==
  ASSUME NEW m \in Messages
  PROVE  ChainTo(<<m>>)[1] = <<m>>
<1>1. PICK more \in Seq(Messages) : more = <<m>> /\ Len(more) = 1 /\ more[1] = m
  <2>1. <<m>> \in Seq(Messages) /\ Len(<<m>>) = 1 /\ <<m>>[1] = m
    OBVIOUS
  <2> QED BY <2>1, Zenon
<1>2. ParentAt(more, 1) = 0
  BY ParentNone
<1>3. ChainTo(more)[0] = <<>> /\ ChainTo(more)[1] = Append(ChainTo(more)[ParentAt(more, 1)], more[1])
  BY <1>1, ChainSteps
<1>4. ChainTo(more)[1] = Append(<<>>, m)
  BY <1>1, <1>2, <1>3, Zenon
<1> QED BY <1>1, <1>4

-----------------------------------------------------------------------------
(* Types *)

Kinds == {"user", "assistant", "result", "attachment", "boundary", "summary"}

\* A message as it is made.
LEMMA MessageTyped ==
  ASSUME NEW id \in Nat, NEW kind \in Kinds, NEW uses \in 0 .. MaxUses, NEW of \in Nat \X Nat
  PROVE  LET m == Message(id, kind, uses, of) IN
         /\ m \in Messages
         /\ m.id = id /\ m.parent = 0 /\ m.kind = kind /\ m.uses = uses /\ m.of = of
  BY DEF Message, Messages, Kinds

LEMMA UserTyped ==
  ASSUME NEW id \in Nat
  PROVE  /\ User(id) \in Messages
         /\ User(id).id = id /\ User(id).parent = 0 /\ User(id).kind = "user"
         /\ User(id).uses = 0 /\ User(id).of = <<0, 0>>
<1>1. 0 \in 0 .. MaxUses /\ <<0, 0>> \in Nat \X Nat /\ "user" \in Kinds
  BY DEF Kinds
<1> QED BY <1>1, MessageTyped DEF User

LEMMA AppendIs ==
  ASSUME NEW M, NEW s \in Seq(M), NEW e \in M
  PROVE  Append(s, e) \in Seq(M) /\ Append(s, e) # <<>> /\ Last(Append(s, e)) = e
  BY DEF Last

\* A message that is linked to a history.
LEMMA LinkedTyped ==
  ASSUME NEW hist \in Seq(Messages), NEW m \in Messages
  PROVE  \E e \in Messages :
           /\ AppendMessage(hist, m) = Append(hist, e)
           /\ AppendMessage(hist, m) \in Seq(Messages) /\ AppendMessage(hist, m) # <<>>
           /\ Last(AppendMessage(hist, m)) = e
           /\ e.id = m.id /\ e.kind = m.kind /\ e.uses = m.uses /\ e.of = m.of
           /\ hist = <<>> => e.parent = m.parent
           /\ hist # <<>> => e.parent = Last(hist).id
<1> DEFINE e == IF hist = <<>> THEN m ELSE [m EXCEPT !.parent = Last(hist).id]
<1>1. hist # <<>> => Last(hist) \in Messages
  BY DEF Last
<1>2. /\ e \in Messages
      /\ e.id = m.id /\ e.kind = m.kind /\ e.uses = m.uses /\ e.of = m.of
      /\ hist = <<>> => e.parent = m.parent
      /\ hist # <<>> => e.parent = Last(hist).id
  BY <1>1 DEF Messages
<1>3. AppendMessage(hist, m) = Append(hist, e)
  BY DEF AppendMessage
<1> HIDE DEF e
<1>4. Append(hist, e) \in Seq(Messages) /\ Append(hist, e) # <<>> /\ Last(Append(hist, e)) = e
  BY <1>2, AppendIs
<1> QED BY <1>2, <1>3, <1>4

Points == {"idle", "prompt", "localText", "done", "autocompact", "compact",
           "boundary", "summary", "delta", "round", "send", "failed", "record",
           "finish", "tools", "results"}

\* The control variables, the conversation, and what is on disk.
ControlTypes ==
  /\ pc \in Points
  /\ turn \in TurnKind /\ turns \in 0 .. MaxTurns
  /\ round \in 0 .. MaxToolRounds /\ model \in 1 .. NumModels
  /\ shown \in BOOLEAN /\ via \in {"none", "stream", "unary"}
  /\ failures \in Nat
  /\ status \in {"none", "ok", "error", "unsaved", "refused", "crashed"}
  /\ cancelled \in BOOLEAN /\ interrupted \in BOOLEAN

ConversationTypes ==
  /\ original \in Seq(Messages) /\ history \in Seq(Messages) /\ pending \in Seq(Messages)
  /\ pc \in {"boundary", "summary"} => Len(history) >= 2
  /\ pc = "tools" => history # <<>>

DiskTypes == transcript \in Seq(Messages) /\ torn \in BOOLEAN /\ nextId \in Nat \ {0}

Types == ControlTypes /\ ConversationTypes /\ DiskTypes

LEMMA TypesOK == Types => TypeOK
  BY DEF Types, ControlTypes, ConversationTypes, DiskTypes, TypeOK, Points

\* RunTurn returns.
LEMMA ReturnTypes ==
  ASSUME Types, NEW how \in {"ok", "error", "unsaved", "crashed"}, Return(how),
         UNCHANGED <<turn, turns, failures>>
  PROVE  ControlTypes' /\ ConversationTypes'
<1>1. pc' = "idle" /\ status' = how /\ round' = 0 /\ model' = 1 /\ shown' = FALSE /\ via' = "none"
      /\ cancelled' = FALSE /\ turn' = turn /\ turns' = turns /\ failures' = failures
  BY DEF Return, ClearRequest
<1>2. interrupted' \in BOOLEAN
  BY DEF Return, Types, ControlTypes
<1>3. original' = <<>> /\ history' = <<>> /\ pending' = <<>>
  BY DEF Return
<1>4. ControlTypes'
  <2>1. round' \in 0 .. MaxToolRounds /\ model' \in 1 .. NumModels
    BY <1>1
  <2>2. shown' \in BOOLEAN /\ cancelled' \in BOOLEAN
    BY <1>1, Zenon
  <2>3. /\ pc' \in Points /\ via' \in {"none", "stream", "unary"}
        /\ status' \in {"none", "ok", "error", "unsaved", "refused", "crashed"}
    BY <1>1 DEF Points
  <2> QED BY <1>1, <1>2, <2>1, <2>2, <2>3, Zenon DEF Types, ControlTypes
<1>5. ConversationTypes'
  BY <1>1, <1>3 DEF ConversationTypes
<1> QED BY <1>4, <1>5

\* A message is appended, or the append fails and RunTurn returns.
LEMMA SaveTypes ==
  ASSUME Types, NEW m \in Messages, NEW hist \in Seq(Messages), NEW next \in Points \ {"idle"},
         Save(m, hist, next),
         next \in {"boundary", "summary"} => Len(hist) >= 2,
         next = "tools" => hist # <<>>,
         pc' # "idle" => pending' \in Seq(Messages),
         UNCHANGED <<turn, turns, failures>>, nextId' \in Nat \ {0}
  PROVE  Types'
<1>0. ControlTypes /\ ConversationTypes /\ DiskTypes
  BY DEF Types
<1>1. CASE /\ IF torn THEN UNCHANGED transcript ELSE transcript' = Append(transcript, m)
           /\ torn' = FALSE
           /\ pc' = next /\ history' = hist
           /\ ClearRequest
           /\ UNCHANGED <<original, round, status, cancelled, interrupted>>
  <2>1. Append(transcript, m) \in Seq(Messages)
    BY <1>0, AppendIs DEF DiskTypes
  <2>2. DiskTypes'
    BY <1>0, <1>1, <2>1 DEF DiskTypes
  <2>3. ControlTypes'
    <3>1. round' \in 0 .. MaxToolRounds /\ model' \in 1 .. NumModels
      BY <1>0, <1>1 DEF ControlTypes, ClearRequest
    <3>2. shown' \in BOOLEAN /\ cancelled' \in BOOLEAN /\ interrupted' \in BOOLEAN
      BY <1>0, <1>1, Zenon DEF ControlTypes, ClearRequest
    <3>3. pc' \in Points /\ via' \in {"none", "stream", "unary"} /\ status' = status
      BY <1>1 DEF ClearRequest
    <3> QED BY <1>0, <3>1, <3>2, <3>3 DEF ControlTypes
  <2>4. ConversationTypes'
    BY <1>0, <1>1 DEF ConversationTypes
  <2> QED BY <2>2, <2>3, <2>4 DEF Types
<1>2. CASE /\ torn' \in IF TornWrites THEN {torn, TRUE} ELSE {torn}
           /\ Return("unsaved")
           /\ UNCHANGED transcript
  <2>1. DiskTypes'
    BY <1>0, <1>2 DEF DiskTypes
  <2>2. ControlTypes' /\ ConversationTypes'
    BY <1>2, ReturnTypes
  <2> QED BY <2>1, <2>2 DEF Types
<1> QED BY <1>1, <1>2 DEF Save, WriteEntry

LEMMA SaveMessageTypes ==
  ASSUME Types, NEW m \in Messages, NEW next \in Points \ {"idle", "boundary", "summary"},
         SaveMessage(m, next),
         pc' # "idle" => pending' \in Seq(Messages),
         UNCHANGED <<turn, turns, failures>>, nextId' \in Nat \ {0}
  PROVE  Types'
<1>1. history \in Seq(Messages)
  BY DEF Types, ConversationTypes
<1>2. PICK e \in Messages : /\ AppendMessage(history, m) \in Seq(Messages)
                            /\ AppendMessage(history, m) # <<>>
                            /\ Last(AppendMessage(history, m)) = e
  BY <1>1, LinkedTyped
<1>3. Save(e, AppendMessage(history, m), next)
  BY <1>2 DEF SaveMessage
<1>4. PICK hist \in Seq(Messages) : hist = AppendMessage(history, m)
  BY <1>2, Zenon
<1>5. Save(e, hist, next) /\ hist # <<>>
  BY <1>2, <1>3, <1>4, Zenon
<1> QED BY <1>5, SaveTypes

\* The steps that move on without an append.
LEMMA GotoTypes ==
  ASSUME Types, NEW next \in Points \ {"boundary", "summary", "tools"}, Goto(next),
         UNCHANGED <<turn, turns, file, nextId>>, failures' \in Nat
  PROVE  Types'
<1>1. ControlTypes'
  BY DEF Types, ControlTypes, Goto, locals, request
<1>2. ConversationTypes' /\ DiskTypes'
  BY DEF Types, ConversationTypes, DiskTypes, Goto, locals, file
<1> QED BY <1>1, <1>2 DEF Types

\* The output of a compaction.
LEMMA PlanTyped ==
  ASSUME NEW hist \in Seq(Messages), nextId \in Nat
  PROVE  PlanOutput(hist) \in Seq(Messages) /\ Len(PlanOutput(hist)) >= 2
<1> DEFINE keep == IF KeepLast > Len(hist) THEN Len(hist) ELSE KeepLast
<1> DEFINE boundary == Message(nextId, "boundary", 0, <<0, 0>>)
<1> DEFINE made == Message(nextId + 1, "summary", 0, <<0, 0>>)
<1> DEFINE summary == [made EXCEPT !.parent = nextId]
<1> DEFINE kept == SubSeq(hist, Len(hist) - keep + 1, Len(hist))
<1> DEFINE rest == [k \in DOMAIN kept |->
                     [kept[k] EXCEPT !.parent = IF k = 1 THEN nextId + 1 ELSE kept[k - 1].id]]
<1>1. PlanOutput(hist) = <<boundary, summary>> \o rest
  BY DEF PlanOutput
<1>2. 0 \in 0 .. MaxUses /\ <<0, 0>> \in Nat \X Nat /\ {"boundary", "summary"} \subseteq Kinds
  BY DEF Kinds
<1>3. boundary \in Messages /\ made \in Messages
  <2>1. nextId + 1 \in Nat
    OBVIOUS
  <2>2. boundary \in Messages
    BY <1>2, MessageTyped
  <2>3. made \in Messages
    BY <1>2, <2>1, MessageTyped
  <2> QED BY <2>2, <2>3
<1>4. summary \in Messages
  BY <1>3 DEF Messages
<1>5. keep \in 0 .. Len(hist) /\ Len(hist) \in Nat
  OBVIOUS
<1>6. kept \in Seq(Messages)
  BY <1>5
<1> HIDE DEF kept, boundary, summary, keep
<1>7. rest \in Seq(Messages)
  <2>1. Len(kept) \in Nat /\ DOMAIN kept = 1 .. Len(kept) /\ \A k \in 1 .. Len(kept) : kept[k] \in Messages
    BY <1>6
  <2>2. \A k \in 1 .. Len(kept) : (IF k = 1 THEN nextId + 1 ELSE kept[k - 1].id) \in Nat
    BY <2>1 DEF Messages
  <2>3. ASSUME NEW k \in 1 .. Len(kept)
        PROVE  [kept[k] EXCEPT !.parent = IF k = 1 THEN nextId + 1 ELSE kept[k - 1].id] \in Messages
    BY <2>1, <2>2, ZenonT(60) DEF Messages
  <2> DEFINE e(k) == [kept[k] EXCEPT !.parent = IF k = 1 THEN nextId + 1 ELSE kept[k - 1].id]
  <2>4. \A k \in 1 .. Len(kept) : e(k) \in Messages
    BY <2>3
  <2>5. rest = [k \in 1 .. Len(kept) |-> e(k)]
    BY <2>1
  <2> HIDE DEF e
  <2>6. [k \in 1 .. Len(kept) |-> e(k)] \in Seq(Messages)
    BY <2>1, <2>4
  <2> QED BY <2>5, <2>6, Zenon
<1> HIDE DEF rest
<1>8. <<boundary, summary>> \in Seq(Messages) /\ Len(<<boundary, summary>>) = 2
  BY <1>3, <1>4
<1>9. <<boundary, summary>> \o rest \in Seq(Messages) /\ Len(<<boundary, summary>> \o rest) >= 2
  BY <1>7, <1>8
<1> QED BY <1>1, <1>9

\* What the tools of a response leave to append.
LEMMA ResultsTyped ==
  ASSUME NEW n \in 0 .. MaxUses, NEW extra \in BOOLEAN, extra => n > 0, NEW id \in Nat,
         NEW first \in Nat \ {0}
  PROVE  LET results == [k \in 1 .. n |-> Message(first + k - 1, "result", 0, <<id, k>>)]
         IN  (IF extra THEN <<results[1], User(first + n)>> \o Tail(results) ELSE results)
               \in Seq(Messages)
<1> DEFINE results == [k \in 1 .. n |-> Message(first + k - 1, "result", 0, <<id, k>>)]
<1>1. \A k \in 1 .. n : Message(first + k - 1, "result", 0, <<id, k>>) \in Messages
  <2>1. 0 \in 0 .. MaxUses /\ "result" \in Kinds
    BY DEF Kinds
  <2>2. \A k \in 1 .. n : first + k - 1 \in Nat /\ <<id, k>> \in Nat \X Nat
    OBVIOUS
  <2> QED BY <2>1, <2>2, MessageTyped
<1>2. results \in Seq(Messages) /\ Len(results) = n
  BY <1>1
<1>3. User(first + n) \in Messages
  BY UserTyped
<1> HIDE DEF results
<1>4. SUFFICES (IF extra THEN <<results[1], User(first + n)>> \o Tail(results) ELSE results)
                 \in Seq(Messages)
  BY DEF results
<1>5. CASE extra
  <2>1. results[1] \in Messages /\ Tail(results) \in Seq(Messages)
    BY <1>2, <1>5
  <2>2. <<results[1], User(first + n)>> \in Seq(Messages)
    BY <1>3, <2>1
  <2>3. \A a, b \in Seq(Messages) : a \o b \in Seq(Messages)
    OBVIOUS
  <2>4. <<results[1], User(first + n)>> \o Tail(results) \in Seq(Messages)
    BY <2>1, <2>2, <2>3, Zenon
  <2> QED BY <1>5, <2>4
<1>6. CASE ~extra
  BY <1>2, <1>6
<1> QED BY <1>5, <1>6

\* Every step keeps the types.
LEMMA TypesStep ==
  ASSUME Types, ControlInv, [Next]_vars
  PROVE  Types'
<1>0. ControlTypes /\ ConversationTypes /\ DiskTypes
  BY DEF Types
<1>a. nextId \in Nat \ {0} /\ nextId + 1 \in Nat \ {0} /\ nextId + 2 \in Nat \ {0}
  BY <1>0 DEF DiskTypes
<1>b. pending \in Seq(Messages) /\ (pending # <<>> => Head(pending) \in Messages /\ Tail(pending) \in Seq(Messages))
  BY <1>0 DEF ConversationTypes
<1>c. /\ \A kind \in Kinds, n \in 0 .. MaxUses : Message(nextId, kind, n, <<0, 0>>) \in Messages
      /\ User(nextId) \in Messages
      /\ 0 \in 0 .. MaxUses
  <2>1. <<0, 0>> \in Nat \X Nat
    OBVIOUS
  <2> QED BY <1>a, <2>1, MessageTyped, UserTyped
<1>d. ASSUME NEW how \in {"ok", "error", "unsaved", "crashed"}, Return(how),
             UNCHANGED <<turn, turns, failures, file, nextId>>
      PROVE  Types'
  <2>1. DiskTypes'
    BY <1>0, <1>d DEF DiskTypes, file
  <2> QED BY <1>d, <2>1, ReturnTypes DEF Types
<1>1. CASE AppendPrompt
  <2>1. /\ SaveMessage(Head(pending), "prompt") /\ pending # <<>> /\ nextId' = nextId
        /\ pc' # "idle" => pending' = Tail(pending)
        /\ UNCHANGED <<turn, turns, failures>>
    BY <1>1 DEF AppendPrompt
  <2> QED BY <1>a, <1>b, <2>1, SaveMessageTypes DEF Points
<1>2. CASE PromptDone
  <2>1. CASE turn = "clear" /\ Return("ok")
    BY <1>2, <1>d, <2>1 DEF PromptDone
  <2>2. ASSUME NEW next \in {"autocompact", "localText", "compact"}, Goto(next) PROVE Types'
    <3>1. UNCHANGED <<turn, turns, file, nextId>> /\ failures' \in Nat
      BY <1>0, <1>2 DEF PromptDone, ControlTypes
    <3> QED BY <2>2, <3>1, GotoTypes DEF Points
  <2> QED BY <1>2, <2>1, <2>2 DEF PromptDone
<1>3. CASE LocalText
  <2>1. /\ SaveMessage(User(nextId), "done") /\ nextId' = nextId + 1
        /\ pc' # "idle" => pending' = pending
        /\ UNCHANGED <<turn, turns, failures>>
    BY <1>3 DEF LocalText
  <2> QED BY <1>a, <1>b, <1>c, <2>1, SaveMessageTypes DEF Points
<1>4. CASE Done \/ Fail \/ RoundsExceeded \/ SendFails \/ Finish \/ Crash
  BY <1>4, <1>d DEF Done, Fail, RoundsExceeded, SendFails, Finish, Crash
<1>5. CASE AutoCompactSkip \/ NoDelta \/ StartRound \/ AutoCompactFails
  <2>1. /\ \E next \in {"delta", "round", "send"} : Goto(next)
        /\ UNCHANGED <<turn, turns, file, nextId>>
    BY <1>5 DEF AutoCompactSkip, NoDelta, StartRound, AutoCompactFails
  <2>2. failures' \in Nat
    BY <1>0, <1>5 DEF AutoCompactSkip, NoDelta, StartRound, AutoCompactFails, ControlTypes
  <2> QED BY <2>1, <2>2, GotoTypes DEF Points
<1>6. CASE AutoCompact \/ ManualCompact
  <2>1. PICK hist \in Seq(Messages) : Compact(hist)
    BY <1>0, <1>6 DEF AutoCompact, ManualCompact, ConversationTypes
  <2>2. failures' \in Nat
    BY <1>0, <1>6 DEF AutoCompact, ManualCompact, ControlTypes
  <2>3. PlanOutput(hist) \in Seq(Messages) /\ Len(PlanOutput(hist)) >= 2
    BY <1>a, PlanTyped
  <2>4. ConversationTypes'
    BY <1>0, <2>1, <2>3 DEF ConversationTypes, Compact
  <2>5. DiskTypes'
    BY <1>0, <1>a, <2>1 DEF DiskTypes, Compact, file
  <2>6. ControlTypes'
    BY <1>0, <2>1, <2>2 DEF ControlTypes, Compact, request, Points
  <2> QED BY <2>4, <2>5, <2>6 DEF Types
<1>7. CASE AppendBoundary
  <2>1. /\ Save(history[1], history, "summary") /\ nextId' = nextId
        /\ pc' # "idle" => pending' = pending
        /\ UNCHANGED <<turn, turns, failures>>
    BY <1>7 DEF AppendBoundary
  <2>2. history \in Seq(Messages) /\ Len(history) >= 2 /\ history[1] \in Messages
    BY <1>0, <1>7 DEF ConversationTypes, AppendBoundary
  <2> QED BY <1>a, <1>b, <2>1, <2>2, SaveTypes DEF Points
<1>8. CASE AppendSummary
  <2>1. /\ \E next \in {"done", "delta"} : Save(history[2], history, next)
        /\ nextId' = nextId
        /\ pc' # "idle" => pending' = pending
        /\ UNCHANGED <<turn, turns, failures>>
    BY <1>8 DEF AppendSummary, SummaryEntry
  <2>2. history \in Seq(Messages) /\ Len(history) >= 2 /\ history[2] \in Messages
    BY <1>0, <1>8 DEF ConversationTypes, AppendSummary
  <2> QED BY <1>a, <1>b, <2>1, <2>2, SaveTypes DEF Points
<1>9. CASE AppendDelta
  <2>1. /\ SaveMessage(Message(nextId, "attachment", 0, <<0, 0>>), "round") /\ nextId' = nextId + 1
        /\ pc' # "idle" => pending' = pending
        /\ UNCHANGED <<turn, turns, failures>>
    BY <1>9 DEF AppendDelta
  <2>2. "attachment" \in Kinds
    BY DEF Kinds
  <2>3. PICK m \in Messages : m = Message(nextId, "attachment", 0, <<0, 0>>)
    BY <1>c, <2>2
  <2> QED BY <1>a, <1>b, <2>1, <2>3, SaveMessageTypes DEF Points
<1>10. CASE Stream \/ Unary \/ RetryFallback
  <2>1. UNCHANGED <<turn, turns, failures, status, cancelled, interrupted, round>>
    BY <1>10 DEF Stream, Unary, RetryFallback, sendFrame, locals
  <2>2. UNCHANGED <<original, history, pending, transcript, torn, nextId>>
    BY <1>10 DEF Stream, Unary, RetryFallback, sendFrame, locals, file
  <2>3. pc' \in {"send", "failed", "record"} /\ via' \in {"none", "stream", "unary"}
    BY <1>0, <1>10 DEF Stream, Unary, RetryFallback, ControlTypes
  <2>4. model' \in 1 .. NumModels
    BY <1>0, <1>10 DEF Stream, Unary, RetryFallback, NextModel, ControlTypes
  <2>5. shown' \in BOOLEAN
    BY <1>0, <1>10 DEF Stream, Unary, RetryFallback, ControlTypes
  <2>6. ControlTypes'
    BY <1>0, <2>1, <2>3, <2>4, <2>5 DEF ControlTypes, Points
  <2>7. ConversationTypes' /\ DiskTypes'
    BY <1>0, <2>2, <2>3 DEF ConversationTypes, DiskTypes
  <2> QED BY <2>6, <2>7 DEF Types
<1>11. CASE RecordAssistant
  <2>1. PICK n \in 0 .. MaxUses :
          SaveMessage(Message(nextId, "assistant", n, <<0, 0>>), AfterResponse(n))
    BY <1>11 DEF RecordAssistant
  <2>2. AfterResponse(n) \in {"finish", "tools"} /\ "assistant" \in Kinds
    BY DEF AfterResponse, Kinds
  <2>3. PICK m \in Messages : m = Message(nextId, "assistant", n, <<0, 0>>)
    BY <1>c, <2>2
  <2>4. PICK next \in {"finish", "tools"} : next = AfterResponse(n)
    BY <2>2
  <2>5. SaveMessage(m, next)
    BY <2>1, <2>3, <2>4
  <2>6. /\ nextId' = nextId + 1 /\ (pc' # "idle" => pending' = pending)
        /\ UNCHANGED <<turn, turns, failures>>
    BY <1>11 DEF RecordAssistant
  <2> QED BY <1>a, <1>b, <2>5, <2>6, SaveMessageTypes DEF Points
<1>12. CASE ExecuteToolUses
  <2>1. history \in Seq(Messages) /\ history # <<>>
    BY <1>0, <1>12 DEF ExecuteToolUses, ConversationTypes
  <2>2. PICK answer \in Messages : answer = Last(history)
    BY <2>1 DEF Last
  <2>3. answer.uses \in 0 .. MaxUses /\ answer.id \in Nat
    BY <2>2 DEF Messages
  <2>4. PICK n \in ResultsDelivered(answer.uses), extra \in BOOLEAN :
          LET results == [k \in 1 .. n |-> Message(nextId + k - 1, "result", 0, <<answer.id, k>>)]
          IN  /\ extra => n > 0
              /\ pending' = IF extra
                            THEN <<results[1], User(nextId + n)>> \o Tail(results)
                            ELSE results
              /\ nextId' = nextId + n + (IF extra THEN 1 ELSE 0)
    BY <1>12, <2>2 DEF ExecuteToolUses
  <2>5. n \in 0 .. MaxUses
    BY <2>3, <2>4 DEF ResultsDelivered
  <2>6. pending' \in Seq(Messages)
    BY <1>a, <2>3, <2>4, <2>5, ResultsTyped, ZenonT(60)
  <2>7. nextId' \in Nat \ {0}
    BY <1>a, <2>4, <2>5
  <2>8. ConversationTypes' /\ DiskTypes'
    BY <1>0, <1>12, <2>6, <2>7 DEF ConversationTypes, DiskTypes, ExecuteToolUses, file
  <2>9. interrupted' \in BOOLEAN
    BY <1>12 DEF ExecuteToolUses
  <2>10. ControlTypes'
    BY <1>0, <1>12, <2>9 DEF ControlTypes, ExecuteToolUses, request, Points
  <2> QED BY <2>8, <2>10 DEF Types
<1>13. CASE AppendResult
  <2>1. /\ SaveMessage(Head(pending), "results") /\ pending # <<>> /\ nextId' = nextId
        /\ pc' # "idle" => pending' = Tail(pending)
        /\ UNCHANGED <<turn, turns, failures>>
    BY <1>13 DEF AppendResult
  <2> QED BY <1>a, <1>b, <2>1, SaveMessageTypes DEF Points
<1>14. CASE ResultsDone
  <2>1. round' \in 0 .. MaxToolRounds
    BY <1>0, <1>14 DEF ResultsDone, ControlTypes, ControlInv, RoundInv
  <2>2. ControlTypes'
    BY <1>0, <1>14, <2>1 DEF ControlTypes, ResultsDone, request, Points
  <2>3. ConversationTypes' /\ DiskTypes'
    BY <1>0, <1>14 DEF ConversationTypes, DiskTypes, ResultsDone, file
  <2> QED BY <2>2, <2>3 DEF Types
<1>15. CASE StartTurn
  <2>1. Resumed \in Seq(Messages)
    <3>1. Live \in Seq(Messages)
      BY <1>0, ResumedIs, LiveTyped DEF DiskTypes
    <3> QED BY <3>1, ResumedIs, ResumeAny
  <2>2. PICK n \in 1 .. MaxPrompt :
          pending' = [k \in 1 .. n |-> User(nextId + k - 1)] /\ nextId' = nextId + n
    BY <1>15 DEF StartTurn
  <2>3. \A k \in 1 .. n : User(nextId + k - 1) \in Messages
    <3>1. \A k \in 1 .. n : nextId + k - 1 \in Nat
      BY <1>a
    <3> QED BY <3>1, UserTyped
  <2>4. pending' \in Seq(Messages) /\ nextId' \in Nat \ {0}
    BY <1>a, <2>2, <2>3
  <2>5. ConversationTypes' /\ DiskTypes'
    BY <1>0, <1>15, <2>1, <2>4 DEF ConversationTypes, DiskTypes, StartTurn, file
  <2>6. failures' \in Nat /\ turns' \in 0 .. MaxTurns
    BY <1>0, <1>15 DEF StartTurn, ControlTypes
  <2>7. ControlTypes'
    BY <1>0, <1>15, <2>6 DEF ControlTypes, StartTurn, request, Points
  <2> QED BY <2>5, <2>7 DEF Types
<1>16. CASE RefuseTurn
  <2>1. turns' \in 0 .. MaxTurns
    BY <1>0, <1>16 DEF RefuseTurn, ControlTypes
  <2>2. ControlTypes'
    BY <1>0, <1>16, <2>1 DEF ControlTypes, RefuseTurn, request, locals
  <2>3. ConversationTypes' /\ DiskTypes'
    BY <1>0, <1>16 DEF ConversationTypes, DiskTypes, RefuseTurn, locals, file
  <2> QED BY <2>2, <2>3 DEF Types
<1>17. CASE Cancel
  <2>1. cancelled' \in BOOLEAN
    BY <1>17 DEF Cancel
  <2>2. ControlTypes'
    BY <1>0, <1>17, <2>1 DEF ControlTypes, Cancel, request, locals
  <2>3. ConversationTypes' /\ DiskTypes'
    BY <1>0, <1>17 DEF ConversationTypes, DiskTypes, Cancel, locals, file
  <2> QED BY <2>2, <2>3 DEF Types
<1>18. CASE UNCHANGED vars
  BY <1>18 DEF vars, Types, ControlTypes, ConversationTypes, DiskTypes
<1> QED
  BY <1>1, <1>2, <1>3, <1>4, <1>5, <1>6, <1>7, <1>8, <1>9, <1>10, <1>11, <1>12, <1>13,
     <1>14, <1>15, <1>16, <1>17, <1>18 DEF Next, RunTurn

\* Initially there are no messages.
LEMMA InitTypes ==
  ASSUME Init
  PROVE  Types
<1>1. ControlTypes
  <2>1. shown \in BOOLEAN /\ cancelled \in BOOLEAN /\ interrupted \in BOOLEAN
    BY Zenon DEF Init
  <2>2. /\ turns \in 0 .. MaxTurns /\ round \in 0 .. MaxToolRounds /\ model \in 1 .. NumModels
        /\ failures \in Nat
    BY DEF Init
  <2>3. pc = "idle" /\ turn = "query" /\ via = "none" /\ status = "none"
    BY DEF Init
  <2>4. /\ pc \in Points /\ turn \in TurnKind /\ via \in {"none", "stream", "unary"}
        /\ status \in {"none", "ok", "error", "unsaved", "refused", "crashed"}
    BY <2>3 DEF Points, TurnKind
  <2> QED BY <2>1, <2>2, <2>4, Zenon DEF ControlTypes
<1>2. ConversationTypes /\ DiskTypes
  <2>1. pc = "idle" /\ original = <<>> /\ history = <<>> /\ pending = <<>> /\ transcript = <<>>
    BY DEF Init
  <2>2. torn \in BOOLEAN /\ nextId = 1
    BY Zenon DEF Init
  <2>3. nextId \in Nat \ {0} /\ <<>> \in Seq(Messages)
    BY <2>2
  <2>4. ConversationTypes
    BY <2>1, <2>3 DEF ConversationTypes
  <2> QED BY <2>1, <2>2, <2>3, <2>4, Zenon DEF DiskTypes
<1> QED BY <1>1, <1>2 DEF Types

\* Every message that RunTurn holds, has still to append, wrote or resumes is one,
\* and rounds and models stay within their limits, in all settings.
THEOREM TurnLoopTypes == Spec => []TypeOK
<1>1. Init => Types
  BY InitTypes
<1>2. Types /\ ControlInv /\ [Next]_vars => Types'
  BY TypesStep
<1> QED BY <1>1, <1>2, Control, TypesOK, PTL DEF Spec

-----------------------------------------------------------------------------
(* What a process leaves behind is what the next one needs.  The theorem is  *)
(* about the code as it is called: no caller sets KeepLast, and a failed     *)
(* append leaves nothing of its line behind.                                 *)

\* The conversation is the chain to the last entry.
EndsIn(live, hist) ==
  /\ live # <<>> /\ Last(live).kind # "boundary"
  /\ hist = ChainTo(live)[Len(live)]

AtEnd == EndsIn(Live, history)

\* The conversation is the one the turn was started with.
AtStart == history = Resumed /\ (Live # <<>> => history # <<>>)

LinkInv == WellLinked(Live, nextId)

\* Messages still to be appended have identities that no entry has.
PendingInv ==
  /\ \A i, j \in 1 .. Len(pending) : pending[i].id = pending[j].id => i = j
  /\ \A i \in 1 .. Len(pending) :
       /\ pending[i].id \in 1 .. nextId - 1
       /\ pending[i].parent = 0
       /\ pending[i].kind \in {"user", "result"}
       /\ \A j \in 1 .. Len(Live) : Live[j].id # pending[i].id
  /\ pc \notin {"prompt", "results"} => pending = <<>>

\* The conversation of a turn is what the transcript holds; where it is not, the two
\* entries of a compaction are on their way.
HistoryInv ==
  /\ pc = "prompt" => (AtEnd /\ Speaker(Last(Live))) \/ (AtStart /\ pending # <<>>)
  /\ pc \notin {"idle", "prompt", "boundary", "summary"} => AtEnd
  /\ pc \in {"localText", "autocompact", "compact", "delta"} => Speaker(Last(Live))
  /\ pc = "finish" => Last(Live).kind = "assistant" /\ Last(Live).uses = 0

PlanInv ==
  /\ pc \in {"boundary", "summary"} =>
       /\ Len(history) = 2
       /\ history[1].kind = "boundary" /\ history[1].parent = 0
       /\ history[2].kind = "summary" /\ history[2].parent = history[1].id
       /\ history[1].id # history[2].id
       /\ history[1].id \in 1 .. nextId - 1 /\ history[2].id \in 1 .. nextId - 1
  /\ pc = "summary" => Live = <<history[1]>>

StatusInv ==
  /\ status = "ok" => pc = "idle"
  /\ pc \in {"done", "localText", "compact"} => turn # "query"
  /\ SuccessEndsInAnswer

SessionInv == torn = FALSE /\ LinkInv /\ PendingInv /\ HistoryInv /\ PlanInv /\ StatusInv

LEMMA ResumedNext == Live' = LiveOf(transcript') /\ Resumed' = ResumedOf(Live')
  BY DEF Live, LiveOf, Resumed, ResumedOf

LEMMA LiveSeq ==
  ASSUME Types
  PROVE  /\ Live \in Seq(Messages)
         /\ Live = <<>> <=> transcript = <<>>
         /\ transcript # <<>> => Last(Live) = Last(transcript)
  BY ResumedIs, LiveTyped DEF Types, DiskTypes

\* Where the transcript stays, so does what is resumed from it.
LEMMA SameTranscript ==
  ASSUME transcript' = transcript
  PROVE  Live' = Live /\ Resumed' = Resumed
<1>1. Live' = Live
  BY ResumedIs, ResumedNext
<1> QED BY <1>1, ResumedIs, ResumedNext

\* The position of the end of the conversation in the transcript.
LEMMA HistoryAt ==
  ASSUME Types, AtEnd \/ AtStart
  PROVE  \/ Live = <<>> /\ history = <<>>
         \/ \E k \in 1 .. Len(Live) :
              /\ history = ChainTo(Live)[k] /\ history # <<>> /\ Last(history) = Live[k]
              /\ AtEnd => k = Len(Live)
<1>1. PICK live \in Seq(Messages) : live = Live
  BY LiveSeq
<1>2. CASE AtEnd
  <2>1. live # <<>> /\ history = ChainTo(live)[Len(live)]
    BY <1>1, <1>2 DEF AtEnd, EndsIn
  <2>2. Len(live) \in 1 .. Len(live) /\ Len(live) \in 0 .. Len(live) /\ Len(live) # 0
    BY <2>1
  <2>3. history # <<>> /\ Last(history) = live[Len(live)]
    BY <2>1, <2>2, ChainTyped
  <2> QED BY <1>1, <2>1, <2>2, <2>3
<1>3. CASE AtStart /\ ~AtEnd
  <2>1. history = ResumedOf(live) /\ (live # <<>> => history # <<>>)
    BY <1>1, <1>3, ResumedIs DEF AtStart
  <2>2. CASE history # <<>>
    <3>1. PICK k \in 1 .. Len(live) : history = ChainTo(live)[k]
      BY <2>1, <2>2, ResumeAny
    <3>2. k \in 0 .. Len(live) /\ k # 0
      OBVIOUS
    <3>3. Last(history) = live[k]
      BY <3>1, <3>2, ChainTyped
    <3> QED BY <1>1, <1>3, <2>2, <3>1, <3>3
  <2> QED BY <1>1, <2>1, <2>2
<1> QED BY <1>2, <1>3

\* RunTurn returns: only the transcript is left.
LEMMA ReturnSession ==
  ASSUME Types, SessionInv, NEW how, Return(how), transcript' = transcript, torn' = FALSE,
         turn' = turn, nextId' \in Nat, nextId <= nextId',
         how = "ok" => turn # "query" \/ pc = "finish"
  PROVE  SessionInv'
<1>1. pc' = "idle" /\ status' = how /\ pending' = <<>>
  BY DEF Return
<1>2. Live' = Live /\ Resumed' = Resumed
  BY SameTranscript
<1>3. LinkInv'
  <2>1. nextId \in Nat /\ WellLinked(Live, nextId)
    BY DEF Types, DiskTypes, SessionInv, LinkInv
  <2>2. PICK live, next, after : live = Live /\ next = nextId /\ after = nextId'
    OBVIOUS
  <2>3. WellLinked(live, after)
    BY <2>1, <2>2, LinkMonotone
  <2> QED BY <1>2, <2>2, <2>3 DEF LinkInv
<1>4. PendingInv'
  BY <1>1 DEF PendingInv
<1>5. HistoryInv' /\ PlanInv'
  BY <1>1 DEF HistoryInv, PlanInv
<1>6. ASSUME pc = "finish" PROVE Resumed # <<>> /\ Last(Resumed).kind = "assistant" /\ Last(Resumed).uses = 0
  <2>1. AtEnd /\ Last(Live).kind = "assistant" /\ Last(Live).uses = 0
    BY <1>6 DEF SessionInv, HistoryInv
  <2>2. PICK live \in Seq(Messages) : live = Live
    BY LiveSeq
  <2>3. WellLinked(live, nextId) /\ nextId \in Nat /\ live # <<>> /\ Speaker(Last(live)) /\ Last(live).kind # "boundary"
    BY <2>1, <2>2 DEF SessionInv, LinkInv, Types, DiskTypes, AtEnd, EndsIn, Speaker
  <2>4. PICK next \in Nat : next = nextId
    BY <2>3
  <2>5. ResumedOf(live) # <<>> /\ ResumedOf(live) = ChainTo(live)[Len(live)]
    BY <2>3, <2>4, ResumeAtEnd
  <2>6. Len(live) \in 0 .. Len(live) /\ Len(live) # 0
    BY <2>3
  <2>7. Last(ChainTo(live)[Len(live)]) = live[Len(live)]
    BY <2>6, ChainTyped
  <2> QED BY <2>1, <2>2, <2>5, <2>7, ResumedIs DEF Last
<1>7. SuccessEndsInAnswer'
  <2>1. SuccessEndsInAnswer' = (status' = "ok" /\ turn' = "query" =>
          Resumed' # <<>> /\ Last(Resumed').kind = "assistant" /\ Last(Resumed').uses = 0)
    BY DEF SuccessEndsInAnswer
  <2> QED BY <1>1, <1>2, <1>6, <2>1
<1>8. StatusInv'
  BY <1>1, <1>7 DEF StatusInv
<1> QED BY <1>3, <1>4, <1>5, <1>8 DEF SessionInv

\* A message joins the conversation and the transcript, or the turn ends.
LEMMA MessageSaved ==
  ASSUME Types, SessionInv, torn' = FALSE, AtEnd \/ AtStart,
         NEW m \in Messages, NEW next, SaveMessage(m, next),
         m.parent = 0, m.kind # "boundary",
         nextId' \in Nat, nextId <= nextId', m.id \in 1 .. nextId' - 1,
         \A j \in 1 .. Len(Live) : Live[j].id # m.id,
         m.kind = "attachment" => AtEnd /\ Speaker(Last(Live))
  PROVE  \/ Return("unsaved") /\ transcript' = transcript /\ torn' = FALSE
         \/ /\ pc' = next /\ status' = status /\ interrupted' = interrupted /\ torn' = FALSE
            /\ AtEnd' /\ LinkInv'
            /\ \E e \in Messages :
                 /\ Live' = Append(Live, e) /\ history' = Append(history, e)
                 /\ e.id = m.id /\ e.kind = m.kind /\ e.uses = m.uses /\ e.of = m.of
<1>1. PICK live \in Seq(Messages) : live = Live
  BY LiveSeq
<1>2. PICK hist \in Seq(Messages) : hist = history
  BY DEF Types, ConversationTypes
<1>3. PICK old \in Seq(Messages) : old = transcript
  BY DEF Types, DiskTypes
<1>4. PICK next0 \in Nat, after \in Nat : next0 = nextId /\ after = nextId'
  BY DEF Types, DiskTypes
<1>5. torn = FALSE /\ WellLinked(live, after) /\ WellLinked(live, next0)
  <2>1. WellLinked(live, next0) /\ torn = FALSE
    BY <1>1, <1>4 DEF SessionInv, LinkInv
  <2> QED BY <1>4, <2>1, LinkMonotone
<1>6. PICK e \in Messages :
        /\ AppendMessage(hist, m) = Append(hist, e) /\ Last(AppendMessage(hist, m)) = e
        /\ e.id = m.id /\ e.kind = m.kind /\ e.uses = m.uses /\ e.of = m.of
        /\ hist = <<>> => e.parent = 0
        /\ hist # <<>> => e.parent = Last(hist).id
  BY LinkedTyped
<1>7. \/ /\ transcript' = Append(transcript, e) /\ torn' = FALSE
         /\ pc' = next /\ history' = Append(history, e)
         /\ status' = status /\ interrupted' = interrupted
      \/ Return("unsaved") /\ transcript' = transcript /\ torn' = FALSE
  BY <1>2, <1>5, <1>6 DEF SaveMessage, Save, WriteEntry
<1>8. SUFFICES ASSUME transcript' = Append(transcript, e) /\ history' = Append(history, e)
               PROVE  AtEnd' /\ LinkInv' /\ Live' = Append(Live, e)
  BY <1>6, <1>7
<1>9. Live' = Append(live, e)
  <2>1. LiveOf(Append(old, e)) = Append(LiveOf(old), e)
    BY <1>6, LiveAppend
  <2> QED BY <1>1, <1>3, <1>8, <2>1, ResumedIs, ResumedNext
<1>10. \/ live = <<>> /\ hist = <<>>
       \/ \E k \in 1 .. Len(live) : hist = ChainTo(live)[k] /\ hist # <<>> /\ Last(hist) = live[k]
                                    /\ (AtEnd => k = Len(live))
  BY <1>1, <1>2, HistoryAt
<1>11. e.parent = 0 \/ \E k \in 1 .. Len(live) : live[k].id = e.parent
  BY <1>6, <1>10
<1>12. e.kind = "attachment" => live # <<>> /\ e.parent = Last(live).id /\ Speaker(Last(live))
  <2> SUFFICES ASSUME e.kind = "attachment"
               PROVE  live # <<>> /\ e.parent = Last(live).id /\ Speaker(Last(live))
    OBVIOUS
  <2>1. AtEnd /\ Speaker(Last(live)) /\ live # <<>>
    BY <1>1, <1>6 DEF AtEnd, EndsIn
  <2>2. hist # <<>> /\ Last(hist) = live[Len(live)]
    BY <1>10, <2>1
  <2> QED BY <1>6, <2>1, <2>2 DEF Last
<1>13. WellLinked(Append(live, e), after)
  <2>1. e.id \in 1 .. after - 1 /\ \A j \in 1 .. Len(live) : live[j].id # e.id
    BY <1>1, <1>4, <1>6
  <2> QED BY <1>5, <1>11, <1>12, <2>1, LinkAppend
<1>14. ChainTo(Append(live, e))[Len(live) + 1] = Append(hist, e)
  <2>1. CASE live = <<>> /\ hist = <<>>
    <3>1. Append(live, e) = <<e>> /\ Append(hist, e) = <<e>> /\ Len(live) + 1 = 1
      BY <2>1
    <3>2. ChainTo(<<e>>)[1] = <<e>>
      BY ChainFirst
    <3> QED BY <3>1, <3>2
  <2>2. ASSUME NEW k \in 1 .. Len(live), hist = ChainTo(live)[k], hist # <<>>, Last(hist) = live[k]
        PROVE  ChainTo(Append(live, e))[Len(live) + 1] = Append(hist, e)
    <3>1. e.parent = live[k].id
      BY <1>6, <2>2
    <3>2. ChainTo(Append(live, e))[Len(live) + 1] = Append(ChainTo(live)[k], e)
      BY <1>5, <3>1, ChainAppend
    <3> QED BY <2>2, <3>2
  <2> QED BY <1>10, <2>1, <2>2
<1>15. PICK more \in Seq(Messages) : more = Append(live, e)
  <2>1. Append(live, e) \in Seq(Messages)
    BY AppendIs
  <2> QED BY <2>1, Zenon
<1>16. more # <<>> /\ Last(more) = e /\ Len(more) = Len(live) + 1
  <2>1. Append(live, e) # <<>> /\ Last(Append(live, e)) = e
    BY AppendIs
  <2>2. Len(Append(live, e)) = Len(live) + 1
    OBVIOUS
  <2> QED BY <1>15, <2>1, <2>2
<1>17. EndsIn(more, Append(hist, e))
  BY <1>6, <1>14, <1>15, <1>16 DEF EndsIn
<1>18. AtEnd'
  BY <1>2, <1>8, <1>9, <1>15, <1>17 DEF AtEnd
<1>19. LinkInv'
  BY <1>4, <1>9, <1>13 DEF LinkInv
<1> QED BY <1>1, <1>9, <1>18, <1>19

\* The invariant after a message was saved.
LEMMA MessageSession ==
  ASSUME Types, SessionInv, torn' = FALSE, AtEnd \/ AtStart, pc # "idle",
         NEW m \in Messages, NEW next \in {"prompt", "done", "round", "finish", "tools", "results"},
         SaveMessage(m, next),
         m.parent = 0, m.kind # "boundary",
         nextId' \in Nat, nextId <= nextId', m.id \in 1 .. nextId' - 1,
         \A j \in 1 .. Len(Live) : Live[j].id # m.id,
         m.kind = "attachment" => AtEnd /\ Speaker(Last(Live)),
         turn' = turn,
         next = "prompt" => Speaker(m),
         next = "done" => turn # "query",
         next = "finish" => m.kind = "assistant" /\ m.uses = 0,
         pc' # "idle" => \/ pending' = <<>>
                         \/ /\ pending # <<>> /\ m = Head(pending) /\ pending' = Tail(pending)
                            /\ next \in {"prompt", "results"}
  PROVE  SessionInv'
<1>1. CASE Return("unsaved") /\ transcript' = transcript /\ torn' = FALSE
  BY <1>1, ReturnSession
<1>2. ASSUME pc' = next /\ status' = status /\ interrupted' = interrupted /\ torn' = FALSE,
             AtEnd' /\ LinkInv',
             NEW e \in Messages,
             Live' = Append(Live, e) /\ history' = Append(history, e),
             e.id = m.id /\ e.kind = m.kind /\ e.uses = m.uses /\ e.of = m.of
      PROVE  SessionInv'
  <2>1. PICK live \in Seq(Messages) : live = Live
    BY LiveSeq
  <2>2. PICK n \in Nat : n = Len(live)
    OBVIOUS
  <2>3. PICK more \in Seq(Messages) : more = Append(live, e)
    <3>1. Append(live, e) \in Seq(Messages)
      BY AppendIs
    <3> QED BY <3>1, Zenon
  <2>4. /\ Live' = more /\ Len(more) = n + 1 /\ more[n + 1] = e /\ Last(more) = e
        /\ \A j \in 1 .. n : more[j] = live[j]
    BY <1>2, <2>1, <2>2, <2>3 DEF Last
  <2>5. PendingInv'
    <3>1. CASE pending' = <<>>
      BY <3>1 DEF PendingInv
    <3>2. CASE /\ pending # <<>> /\ m = Head(pending) /\ pending' = Tail(pending)
               /\ next \in {"prompt", "results"}
      <4>1. PICK pend \in Seq(Messages) : pend = pending
        BY DEF Types, ConversationTypes
      <4>2. PICK rest \in Seq(Messages) : rest = Tail(pend)
        <5>1. Tail(pend) \in Seq(Messages)
          BY <3>2, <4>1
        <5> QED BY <5>1, Zenon
      <4>3. /\ pending' = rest /\ m = pend[1] /\ Len(pend) \in Nat \ {0} /\ Len(rest) = Len(pend) - 1
            /\ \A i \in 1 .. Len(rest) : rest[i] = pend[i + 1] /\ i + 1 \in 1 .. Len(pend)
        BY <3>2, <4>1, <4>2
      <4>4. nextId \in Nat
        BY DEF Types, DiskTypes
      <4>5. /\ \A i, j \in 1 .. Len(pend) : pend[i].id = pend[j].id => i = j
            /\ \A i \in 1 .. Len(pend) :
                 /\ pend[i].id \in 1 .. nextId - 1 /\ pend[i].parent = 0
                 /\ pend[i].kind \in {"user", "result"}
                 /\ \A j \in 1 .. n : live[j].id # pend[i].id
        BY <2>1, <2>2, <4>1 DEF SessionInv, PendingInv
      <4>6. ASSUME NEW i \in 1 .. Len(rest), NEW j \in 1 .. Len(rest), rest[i].id = rest[j].id
            PROVE  i = j
        <5>1. rest[i] = pend[i + 1] /\ rest[j] = pend[j + 1]
          BY <4>3, Zenon
        <5>2. i + 1 \in 1 .. Len(pend) /\ j + 1 \in 1 .. Len(pend)
          BY <4>3, Zenon
        <5>3. i + 1 = j + 1
          BY <4>5, <4>6, <5>1, <5>2, ZenonT(60)
        <5> QED BY <5>3
      <4>7. ASSUME NEW i \in 1 .. Len(rest)
            PROVE  /\ rest[i].id \in 1 .. nextId' - 1 /\ rest[i].parent = 0
                   /\ rest[i].kind \in {"user", "result"}
                   /\ \A j \in 1 .. n + 1 : more[j].id # rest[i].id
        <5>1. rest[i] = pend[i + 1] /\ i + 1 \in 1 .. Len(pend) /\ i + 1 # 1 /\ 1 \in 1 .. Len(pend)
          <6>1. rest[i] = pend[i + 1] /\ i + 1 \in 1 .. Len(pend)
            BY <4>3, Zenon
          <6>2. 1 \in 1 .. Len(pend) /\ i + 1 # 1
            BY <4>3, SMT
          <6> QED BY <6>1, <6>2
        <5>2. rest[i].id \in 1 .. nextId - 1
          BY <4>5, <5>1
        <5>3. rest[i].id \in 1 .. nextId' - 1
          BY <4>4, <5>2
        <5>4. rest[i].id # e.id
          BY <1>2, <4>3, <4>5, <5>1
        <5>5. ASSUME NEW j \in 1 .. n + 1 PROVE more[j].id # rest[i].id
          <6>1. CASE j = n + 1
            BY <2>4, <5>4, <6>1
          <6>2. CASE j \in 1 .. n
            <7>1. more[j] = live[j] /\ live[j].id # pend[i + 1].id
              BY <2>4, <4>5, <5>1, <6>2, ZenonT(60)
            <7> QED BY <5>1, <7>1
          <6>3. j = n + 1 \/ j \in 1 .. n
            OBVIOUS
          <6> QED BY <6>1, <6>2, <6>3, Zenon
        <5> QED BY <4>5, <5>1, <5>3, <5>5, SMTT(60)
      <4>8. /\ \A i, j \in 1 .. Len(pending') : pending'[i].id = pending'[j].id => i = j
            /\ \A i \in 1 .. Len(pending') :
                 /\ pending'[i].id \in 1 .. nextId' - 1
                 /\ pending'[i].parent = 0
                 /\ pending'[i].kind \in {"user", "result"}
                 /\ \A j \in 1 .. Len(Live') : Live'[j].id # pending'[i].id
        BY <2>4, <4>3, <4>6, <4>7, ZenonT(60)
      <4>9. pc' \in {"prompt", "results"}
        BY <1>2, <3>2
      <4> QED BY <4>8, <4>9 DEF PendingInv
    <3> QED BY <1>2, <3>1, <3>2
  <2>6. HistoryInv' /\ PlanInv'
    <3>1. pc' \notin {"idle", "boundary", "summary", "localText", "autocompact", "compact", "delta"}
      BY <1>2
    <3>2. Last(Live') = e
      BY <2>4
    <3>3. next = "prompt" => Speaker(e)
      BY <1>2 DEF Speaker
    <3>4. HistoryInv'
      BY <1>2, <3>1, <3>2, <3>3 DEF HistoryInv
    <3> QED BY <3>1, <3>4 DEF PlanInv
  <2>7. StatusInv'
    <3>1. status # "ok"
      BY DEF SessionInv, StatusInv
    <3> QED BY <1>2, <3>1 DEF StatusInv, SuccessEndsInAnswer
  <2> QED BY <1>2, <2>5, <2>6, <2>7 DEF SessionInv
<1>3. \/ Return("unsaved") /\ transcript' = transcript /\ torn' = FALSE
      \/ /\ pc' = next /\ status' = status /\ interrupted' = interrupted /\ torn' = FALSE
         /\ AtEnd' /\ LinkInv'
         /\ \E e \in Messages :
              /\ Live' = Append(Live, e) /\ history' = Append(history, e)
              /\ e.id = m.id /\ e.kind = m.kind /\ e.uses = m.uses /\ e.of = m.of
  BY MessageSaved
<1> QED BY <1>1, <1>2, <1>3

\* With KeepLast = 0 a compaction leaves the boundary and the summary.
LEMMA PlanIs ==
  ASSUME KeepLast = 0, NEW hist \in Seq(Messages), nextId \in Nat \ {0}
  PROVE  LET plan == PlanOutput(hist) IN
         /\ Len(plan) = 2
         /\ plan[1].kind = "boundary" /\ plan[1].parent = 0 /\ plan[1].id = nextId
         /\ plan[2].kind = "summary" /\ plan[2].parent = nextId /\ plan[2].id = nextId + 1
         /\ plan[1].uses = 0 /\ plan[2].uses = 0
<1> DEFINE keep == IF KeepLast > Len(hist) THEN Len(hist) ELSE KeepLast
<1> DEFINE boundary == Message(nextId, "boundary", 0, <<0, 0>>)
<1> DEFINE made == Message(nextId + 1, "summary", 0, <<0, 0>>)
<1> DEFINE summary == [made EXCEPT !.parent = nextId]
<1> DEFINE kept == SubSeq(hist, Len(hist) - keep + 1, Len(hist))
<1> DEFINE e(k) == [kept[k] EXCEPT !.parent = IF k = 1 THEN nextId + 1 ELSE kept[k - 1].id]
<1> DEFINE rest == [k \in DOMAIN kept |-> e(k)]
<1>1. PlanOutput(hist) = <<boundary, summary>> \o rest
  BY DEF PlanOutput
<1>2. 0 \in 0 .. MaxUses /\ <<0, 0>> \in Nat \X Nat /\ "boundary" \in Kinds /\ "summary" \in Kinds /\ nextId + 1 \in Nat
  BY DEF Kinds
<1>3. /\ boundary \in Messages /\ boundary.kind = "boundary" /\ boundary.parent = 0
      /\ boundary.id = nextId /\ boundary.uses = 0
  BY <1>2, MessageTyped
<1>4. made \in Messages /\ made.kind = "summary" /\ made.id = nextId + 1 /\ made.uses = 0
  BY <1>2, MessageTyped
<1>5. /\ summary \in Messages /\ summary.kind = "summary" /\ summary.parent = nextId
      /\ summary.id = nextId + 1 /\ summary.uses = 0
  <2> HIDE DEF made
  <2> QED BY <1>4 DEF Messages
<1>6. keep = 0 /\ Len(hist) \in Nat
  OBVIOUS
<1>7. kept \in Seq(Messages) /\ Len(kept) = 0
  BY <1>6
<1> HIDE DEF kept, boundary, summary, keep, e
<1>8. rest \in Seq(Messages) /\ Len(rest) = 0
  <2>1. DOMAIN kept = 1 .. 0
    BY <1>7
  <2>2. rest = [k \in 1 .. 0 |-> e(k)]
    BY <2>1
  <2>3. [k \in 1 .. 0 |-> e(k)] \in Seq(Messages) /\ Len([k \in 1 .. 0 |-> e(k)]) = 0
    OBVIOUS
  <2> QED BY <2>2, <2>3, Zenon
<1> HIDE DEF rest
<1>9. PICK two \in Seq(Messages) : two = <<boundary, summary>> /\ Len(two) = 2 /\ two[1] = boundary /\ two[2] = summary
  <2>1. <<boundary, summary>> \in Seq(Messages) /\ Len(<<boundary, summary>>) = 2
        /\ <<boundary, summary>>[1] = boundary /\ <<boundary, summary>>[2] = summary
    BY <1>3, <1>5
  <2> QED BY <2>1, Zenon
<1>10. Len(two \o rest) = 2 /\ (two \o rest)[1] = two[1] /\ (two \o rest)[2] = two[2]
  BY <1>8, <1>9
<1>11. PICK plan : plan = PlanOutput(hist)
  OBVIOUS
<1>12. Len(plan) = 2 /\ plan[1] = boundary /\ plan[2] = summary
  BY <1>1, <1>9, <1>10, <1>11
<1> QED BY <1>3, <1>5, <1>11, <1>12

\* A step that only moves on, behind the prompt.
LEMMA MoveSession ==
  ASSUME Types, SessionInv, AtEnd, pc # "idle", pending = <<>>,
         UNCHANGED <<transcript, torn, history, pending, nextId, status, turn>>,
         pc' \in Points \ {"idle", "prompt", "boundary", "summary", "finish"},
         pc' \in {"localText", "autocompact", "compact", "delta"} => Speaker(Last(Live)),
         pc' \in {"done", "localText", "compact"} => turn # "query"
  PROVE  SessionInv'
<1>1. Live' = Live /\ Resumed' = Resumed
  BY SameTranscript
<1>2. LinkInv' /\ AtEnd' /\ torn' = FALSE
  BY <1>1 DEF SessionInv, LinkInv, AtEnd
<1>3. PendingInv'
  BY DEF PendingInv
<1>4. HistoryInv' /\ PlanInv'
  BY <1>1, <1>2 DEF HistoryInv, PlanInv
<1>5. StatusInv'
  BY DEF SessionInv, StatusInv, SuccessEndsInAnswer
<1> QED BY <1>2, <1>3, <1>4, <1>5 DEF SessionInv

\* The boundary is written: nothing before it is resumed any more.
LEMMA BoundarySession ==
  ASSUME Types, SessionInv, torn' = FALSE, AppendBoundary
  PROVE  SessionInv'
<1>1. /\ pc = "boundary" /\ Save(history[1], history, "summary") /\ nextId' = nextId /\ turn' = turn
      /\ pc' # "idle" => pending' = pending
  BY DEF AppendBoundary
<1>2. PICK hist \in Seq(Messages), next \in Nat : hist = history /\ next = nextId
  BY DEF Types, ConversationTypes, DiskTypes
<1>3. /\ Len(hist) = 2 /\ hist[1] \in Messages
      /\ hist[1].kind = "boundary" /\ hist[1].parent = 0 /\ hist[1].id \in 1 .. next - 1
      /\ pending = <<>> /\ torn = FALSE /\ status # "ok"
  <2>1. pending = <<>> /\ torn = FALSE /\ status # "ok"
    BY <1>1 DEF SessionInv, PendingInv, StatusInv
  <2>2. Len(hist) = 2
    BY <1>1, <1>2 DEF SessionInv, PlanInv
  <2>3. hist[1] \in Messages /\ hist[2] \in Messages
    BY <2>2
  <2> QED BY <1>1, <1>2, <2>1, <2>2, <2>3 DEF SessionInv, PlanInv
<1>4. CASE Return("unsaved") /\ transcript' = transcript /\ torn' = FALSE
  <2>1. nextId' \in Nat /\ nextId <= nextId'
    BY <1>1, <1>2
  <2> QED BY <1>1, <1>4, <2>1, ReturnSession
<1>5. CASE /\ transcript' = Append(transcript, hist[1]) /\ torn' = FALSE
           /\ pc' = "summary" /\ history' = history /\ status' = status
  <2>1. PICK old \in Seq(Messages), b \in Messages : old = transcript /\ b = hist[1]
    BY <1>3 DEF Types, DiskTypes
  <2>2. LiveOf(Append(old, b)) = <<b>>
    BY <1>3, <2>1, LiveAppend
  <2>3. Live' = <<b>>
    BY <1>5, <2>1, <2>2, ResumedNext
  <2>4. WellLinked(<<b>>, next)
    BY <1>3, <2>1 DEF WellLinked, Last
  <2>5. LinkInv'
    BY <1>1, <1>2, <2>3, <2>4 DEF LinkInv
  <2>6. PendingInv'
    BY <1>1, <1>3, <1>5 DEF PendingInv
  <2>7. HistoryInv'
    BY <1>5 DEF HistoryInv
  <2>8. PlanInv'
    BY <1>1, <1>2, <1>5, <2>1, <2>3 DEF SessionInv, PlanInv
  <2>9. StatusInv'
    BY <1>3, <1>5 DEF StatusInv, SuccessEndsInAnswer
  <2> QED BY <1>5, <2>5, <2>6, <2>7, <2>8, <2>9 DEF SessionInv
<1> QED BY <1>1, <1>2, <1>3, <1>4, <1>5 DEF Save, WriteEntry

\* The summary completes the conversation a compaction leaves.
LEMMA SummarySession ==
  ASSUME Types, SessionInv, torn' = FALSE, AppendSummary
  PROVE  SessionInv'
<1>1. PICK to \in {"done", "delta"} :
        /\ Save(history[2], history, to) /\ (to = "done" => turn # "query")
        /\ pc = "summary" /\ nextId' = nextId /\ turn' = turn
        /\ pc' # "idle" => pending' = pending
  BY DEF AppendSummary, SummaryEntry
<1>2. PICK hist \in Seq(Messages), next \in Nat : hist = history /\ next = nextId
  BY DEF Types, ConversationTypes, DiskTypes
<1>3. /\ Len(hist) = 2 /\ hist[1] \in Messages /\ hist[2] \in Messages
      /\ hist[2].kind = "summary" /\ hist[2].parent = hist[1].id
      /\ hist[1].id # hist[2].id /\ hist[2].id \in 1 .. next - 1
      /\ Live = <<hist[1]>>
      /\ pending = <<>> /\ torn = FALSE /\ status # "ok"
  <2>1. pending = <<>> /\ torn = FALSE /\ status # "ok"
    BY <1>1 DEF SessionInv, PendingInv, StatusInv
  <2>2. Len(hist) = 2
    BY <1>1, <1>2 DEF SessionInv, PlanInv
  <2>3. hist[1] \in Messages /\ hist[2] \in Messages
    BY <2>2, SMTT(60)
  <2> QED BY <1>1, <1>2, <2>1, <2>2, <2>3 DEF SessionInv, PlanInv
<1>4. CASE Return("unsaved") /\ transcript' = transcript /\ torn' = FALSE
  <2>1. nextId' \in Nat /\ nextId <= nextId'
    BY <1>1, <1>2
  <2> QED BY <1>1, <1>4, <2>1, ReturnSession
<1>5. CASE /\ transcript' = Append(transcript, hist[2]) /\ torn' = FALSE
           /\ pc' = to /\ history' = history /\ status' = status
  <2>1. PICK old \in Seq(Messages), b \in Messages, s \in Messages :
          old = transcript /\ b = hist[1] /\ s = hist[2]
    BY <1>3 DEF Types, DiskTypes
  <2>2. PICK live \in Seq(Messages) : live = <<b>> /\ Len(live) = 1 /\ live[1] = b
    <3>1. <<b>> \in Seq(Messages) /\ Len(<<b>>) = 1 /\ <<b>>[1] = b
      OBVIOUS
    <3> QED BY <3>1, Zenon
  <2>3. Live = live /\ WellLinked(live, next)
    BY <1>2, <1>3, <2>1, <2>2 DEF SessionInv, LinkInv
  <2>4. LiveOf(Append(old, s)) = Append(LiveOf(old), s)
    BY <1>3, <2>1, LiveAppend
  <2>5. Live' = Append(live, s)
    BY <1>5, <2>1, <2>3, <2>4, ResumedIs, ResumedNext
  <2>6. WellLinked(Append(live, s), next)
    <3>1. /\ s.id \in 1 .. next - 1 /\ \A j \in 1 .. Len(live) : live[j].id # s.id
          /\ \E j \in 1 .. Len(live) : live[j].id = s.parent
          /\ s.kind # "attachment"
      BY <1>3, <2>1, <2>2
    <3> QED BY <2>3, <3>1, LinkAppend
  <2>7. ChainTo(Append(live, s))[2] = hist
    <3>1. 1 \in 1 .. Len(live) /\ s.parent = live[1].id /\ Len(live) + 1 = 2
      BY <1>3, <2>1, <2>2
    <3>2. ChainTo(Append(live, s))[2] = Append(ChainTo(live)[1], s)
      BY <2>3, <3>1, ChainAppend
    <3>3. ChainTo(live)[1] = live
      BY <2>2, ChainFirst
    <3>4. PICK both \in Seq(Messages) : both = Append(live, s)
      BY AppendIs, Zenon
    <3>5. Len(both) = 2 /\ both[1] = b /\ both[2] = s
      BY <2>2, <3>4
    <3>6. both = hist
      BY <1>3, <2>1, <3>5, SMTT(60)
    <3> QED BY <3>2, <3>3, <3>4, <3>6, Zenon
  <2>8. Append(live, s) # <<>> /\ Last(Append(live, s)) = s /\ Len(Append(live, s)) = 2
    <3>1. Append(live, s) # <<>> /\ Last(Append(live, s)) = s
      BY AppendIs
    <3> QED BY <2>2, <3>1
  <2>9. s.kind = "summary" /\ Speaker(s)
    BY <1>3, <2>1 DEF Speaker
  <2>10. AtEnd'
    BY <1>2, <1>5, <2>5, <2>7, <2>8, <2>9 DEF AtEnd, EndsIn
  <2>11. LinkInv'
    BY <1>1, <1>2, <2>5, <2>6 DEF LinkInv
  <2>12. PendingInv'
    BY <1>1, <1>3, <1>5 DEF PendingInv
  <2>13. HistoryInv' /\ PlanInv'
    <3>1. Speaker(Last(Live'))
      BY <2>5, <2>8, <2>9
    <3> QED BY <1>5, <2>10, <3>1 DEF HistoryInv, PlanInv
  <2>14. StatusInv'
    BY <1>1, <1>3, <1>5 DEF StatusInv, SuccessEndsInAnswer
  <2> QED BY <1>5, <2>11, <2>12, <2>13, <2>14 DEF SessionInv
<1> QED BY <1>1, <1>2, <1>3, <1>4, <1>5 DEF Save, WriteEntry

ResultOf(m, id, first, k) ==
  /\ m.parent = 0 /\ m.kind = "result" /\ m.uses = 0 /\ m.id = first + k - 1
  /\ m.of = <<id, k>> /\ m.of[1] = id

\* The results of the uses of a response.
LEMMA ResultMessages ==
  ASSUME NEW n \in Nat, NEW id \in Nat, NEW first \in Nat \ {0}
  PROVE  LET results == [k \in 1 .. n |-> Message(first + k - 1, "result", 0, <<id, k>>)] IN
         /\ results \in Seq(Messages) /\ Len(results) = n
         /\ \A k \in 1 .. n : ResultOf(results[k], id, first, k)
<1> DEFINE e(k) == Message(first + k - 1, "result", 0, <<id, k>>)
<1>1. ASSUME NEW k \in 1 .. n PROVE e(k) \in Messages /\ ResultOf(e(k), id, first, k)
  <2>1. first + k - 1 \in Nat /\ <<id, k>> \in Nat \X Nat /\ 0 \in 0 .. MaxUses /\ "result" \in Kinds
    BY DEF Kinds
  <2>2. /\ e(k) \in Messages /\ e(k).parent = 0 /\ e(k).kind = "result"
        /\ e(k).uses = 0 /\ e(k).id = first + k - 1 /\ e(k).of = <<id, k>>
    BY <2>1, MessageTyped
  <2>3. e(k).of[1] = id
    BY <2>2
  <2> QED BY <2>2, <2>3 DEF ResultOf
<1> HIDE DEF e
<1> DEFINE results == [k \in 1 .. n |-> e(k)]
<1>2. results \in Seq(Messages) /\ Len(results) = n
  BY <1>1
<1>3. \A k \in 1 .. n : results[k] = e(k)
  OBVIOUS
<1>4. results = [k \in 1 .. n |-> Message(first + k - 1, "result", 0, <<id, k>>)]
  BY DEF e
<1> HIDE DEF results
<1>5. \A k \in 1 .. n : ResultOf(results[k], id, first, k)
  BY <1>1, <1>3
<1> QED BY <1>2, <1>4, <1>5

\* The identity of the i-th message to append.
ResultId(i, n, extra, first) ==
  IF ~extra THEN first + i - 1
  ELSE IF i = 1 THEN first ELSE IF i = 2 THEN first + n ELSE first + i - 2

ToAppend(m, i, n, extra, first, id) ==
  /\ m.parent = 0 /\ m.kind \in {"user", "result"} /\ m.uses = 0
  /\ m.kind = "result" => m.of[1] = id
  /\ m.id = ResultId(i, n, extra, first)

\* The n results of the uses of a response.
ResultsOf(results, n, id, first) ==
  /\ results \in Seq(Messages) /\ Len(results) = n
  /\ \A k \in 1 .. n : ResultOf(results[k], id, first, k)

\* The messages made of them, the one a tool adds included.
WithExtra(results, n, first) == <<results[1], User(first + n)>> \o Tail(results)

Delivered(n, extra, first, id) ==
  LET results == [k \in 1 .. n |-> Message(first + k - 1, "result", 0, <<id, k>>)]
  IN  IF extra THEN WithExtra(results, n, first) ELSE results

\* What is to be appended answers the n uses.
Answers(pend, n, extra, first, id) ==
  /\ pend \in Seq(Messages) /\ Len(pend) = n + (IF extra THEN 1 ELSE 0)
  /\ \A i \in 1 .. Len(pend) : ToAppend(pend[i], i, n, extra, first, id)
  /\ \A k \in 1 .. n : \E i \in 1 .. Len(pend) : pend[i].of = <<id, k>>

\* When a tool adds a message it comes second.
LEMMA ResultsAndExtra ==
  ASSUME NEW n \in Nat, n > 0, NEW id \in Nat, NEW first \in Nat \ {0},
         NEW results, ResultsOf(results, n, id, first)
  PROVE  Answers(WithExtra(results, n, first), n, TRUE, first, id)
<1>0. /\ results \in Seq(Messages) /\ Len(results) = n
      /\ \A k \in 1 .. n : ResultOf(results[k], id, first, k)
  BY DEF ResultsOf
<1>1. PICK user \in Messages : /\ user = User(first + n) /\ user.id = first + n /\ user.parent = 0
                               /\ user.kind = "user" /\ user.uses = 0
  <2>1. first + n \in Nat
    OBVIOUS
  <2> QED BY <2>1, UserTyped, Zenon
<1>2. PICK one \in Messages : one = results[1]
  BY <1>0
<1>3. PICK two \in Seq(Messages) : two = <<one, user>> /\ Len(two) = 2 /\ two[1] = one /\ two[2] = user
  <2>1. <<one, user>> \in Seq(Messages) /\ Len(<<one, user>>) = 2 /\ <<one, user>>[1] = one /\ <<one, user>>[2] = user
    OBVIOUS
  <2> QED BY <2>1, Zenon
<1>4. PICK rest \in Seq(Messages) : rest = Tail(results)
  <2>1. Tail(results) \in Seq(Messages)
    BY <1>0
  <2> QED BY <2>1, Zenon
<1>5. Len(rest) = n - 1 /\ \A i \in 1 .. n - 1 : rest[i] = results[i + 1]
  BY <1>0, <1>4
<1>6. PICK pend \in Seq(Messages) : pend = two \o rest
  <2>1. two \o rest \in Seq(Messages)
    OBVIOUS
  <2> QED BY <2>1, Zenon
<1>7. pend = WithExtra(results, n, first)
  BY <1>1, <1>2, <1>3, <1>4, <1>6, Zenon DEF WithExtra
<1>8. /\ Len(pend) = n + 1 /\ pend[1] = one /\ pend[2] = user
      /\ \A i \in 3 .. n + 1 : pend[i] = rest[i - 2]
  BY <1>3, <1>5, <1>6
<1>9. ASSUME NEW i \in 3 .. n + 1 PROVE pend[i] = results[i - 1]
  <2>1. i - 2 \in 1 .. n - 1 /\ i - 2 + 1 = i - 1
    OBVIOUS
  <2>2. rest[i - 2] = results[i - 2 + 1]
    BY <1>5, <2>1
  <2> QED BY <1>8, <2>1, <2>2
<1>10. ASSUME NEW i \in 1 .. n + 1 PROVE ToAppend(pend[i], i, n, TRUE, first, id)
  <2>1. CASE i = 1
    <3>1. ResultOf(one, id, first, 1) /\ first + 1 - 1 = first
      BY <1>0, <1>2
    <3> QED BY <1>8, <2>1, <3>1 DEF ToAppend, ResultOf, ResultId
  <2>2. CASE i = 2
    BY <1>1, <1>8, <2>2 DEF ToAppend, ResultId
  <2>3. CASE i \in 3 .. n + 1
    <3>1. i - 1 \in 1 .. n /\ first + (i - 1) - 1 = first + i - 2 /\ i # 1 /\ i # 2
      BY <2>3
    <3>2. ResultOf(results[i - 1], id, first, i - 1)
      BY <1>0, <3>1
    <3>3. ResultOf(pend[i], id, first, i - 1)
      BY <1>9, <2>3, <3>2
    <3> QED BY <3>1, <3>3 DEF ToAppend, ResultOf, ResultId
  <2>4. i = 1 \/ i = 2 \/ i \in 3 .. n + 1
    OBVIOUS
  <2> QED BY <2>1, <2>2, <2>3, <2>4, Zenon
<1>11. ASSUME NEW k \in 1 .. n PROVE \E i \in 1 .. n + 1 : pend[i].of = <<id, k>>
  <2>0. results[k].of = <<id, k>>
    BY <1>0 DEF ResultOf
  <2>1. CASE k = 1
    <3>1. pend[1].of = <<id, k>> /\ 1 \in 1 .. n + 1
      BY <1>2, <1>8, <2>0, <2>1
    <3> QED BY <3>1
  <2>2. CASE k # 1
    <3>1. k + 1 \in 3 .. n + 1 /\ k + 1 \in 1 .. n + 1 /\ k + 1 - 1 = k
      BY <2>2
    <3>2. pend[k + 1] = results[k + 1 - 1]
      BY <1>9, <3>1
    <3>3. pend[k + 1].of = <<id, k>>
      BY <2>0, <3>1, <3>2
    <3> QED BY <3>1, <3>3
  <2> QED BY <2>1, <2>2
<1>12. Len(pend) = n + (IF TRUE THEN 1 ELSE 0)
  BY <1>8
<1>13. Answers(pend, n, TRUE, first, id)
  BY <1>8, <1>10, <1>11, <1>12, Zenon DEF Answers
<1> QED BY <1>7, <1>13

\* The messages that executeToolUses makes of the results, with or without one.
LEMMA ResultsAre ==
  ASSUME NEW n \in Nat, NEW extra \in BOOLEAN, extra => n > 0, NEW id \in Nat, NEW first \in Nat \ {0}
  PROVE  Answers(Delivered(n, extra, first, id), n, extra, first, id)
<1> DEFINE results == [k \in 1 .. n |-> Message(first + k - 1, "result", 0, <<id, k>>)]
<1>0. Delivered(n, extra, first, id) = IF extra THEN WithExtra(results, n, first) ELSE results
  BY DEF Delivered
<1>1. ResultsOf(results, n, id, first)
  BY ResultMessages DEF ResultsOf
<1> HIDE DEF results
<1>2. CASE extra = TRUE
  <2>1. Answers(WithExtra(results, n, first), n, TRUE, first, id)
    BY <1>1, <1>2, ResultsAndExtra
  <2> QED BY <1>0, <1>2, <2>1
<1>3. CASE extra = FALSE
  <2>1. \A i \in 1 .. n : ToAppend(results[i], i, n, FALSE, first, id) /\ results[i].of = <<id, i>>
    BY <1>1 DEF ToAppend, ResultOf, ResultId, ResultsOf
  <2>2. results \in Seq(Messages) /\ Len(results) = n + (IF FALSE THEN 1 ELSE 0) /\ Len(results) = n
    BY <1>1 DEF ResultsOf
  <2>3. Answers(results, n, FALSE, first, id)
    BY <2>1, <2>2, Zenon DEF Answers
  <2> QED BY <1>0, <1>3, <2>3
<1> QED BY <1>2, <1>3

\* Each has an identity of its own.
LEMMA ResultIdsDiffer ==
  ASSUME NEW n \in Nat, NEW extra \in BOOLEAN, extra => n > 0, NEW first \in Nat \ {0},
         NEW i \in 1 .. n + (IF extra THEN 1 ELSE 0)
  PROVE  /\ ResultId(i, n, extra, first) \in first .. first + n + (IF extra THEN 1 ELSE 0) - 1
         /\ \A j \in 1 .. n + (IF extra THEN 1 ELSE 0) :
              ResultId(i, n, extra, first) = ResultId(j, n, extra, first) => i = j
<1>1. CASE extra = TRUE
  BY <1>1 DEF ResultId
<1>2. CASE extra = FALSE
  BY <1>2 DEF ResultId
<1> QED BY <1>1, <1>2

\* The pending messages of a step that leaves the transcript alone.
LEMMA PendingNew ==
  ASSUME Types, SessionInv, NEW pend \in Seq(Messages), NEW after \in Nat,
         \A i, j \in 1 .. Len(pend) : pend[i].id = pend[j].id => i = j,
         \A i \in 1 .. Len(pend) :
           /\ pend[i].id \in nextId .. after - 1 /\ pend[i].parent = 0
           /\ pend[i].kind \in {"user", "result"},
         transcript' = transcript, pending' = pend, nextId' = after, pc' \in {"prompt", "results"}
  PROVE  PendingInv'
<1>1. PICK live \in Seq(Messages), next \in Nat \ {0} : live = Live /\ next = nextId
  BY LiveSeq DEF Types, DiskTypes
<1>2. Live' = live
  BY <1>1, SameTranscript
<1>3. \A j \in 1 .. Len(live) : live[j].id \in 1 .. next - 1
  BY <1>1 DEF SessionInv, LinkInv, WellLinked
<1>4. \A i \in 1 .. Len(pend) : pend[i].id \in next .. after - 1
  BY <1>1
<1>5. ASSUME NEW i \in 1 .. Len(pend)
      PROVE  pend[i].id \in 1 .. after - 1 /\ \A j \in 1 .. Len(live) : live[j].id # pend[i].id
  BY <1>3, <1>4
<1>6. /\ \A i, j \in 1 .. Len(pending') : pending'[i].id = pending'[j].id => i = j
      /\ \A i \in 1 .. Len(pending') :
           /\ pending'[i].id \in 1 .. nextId' - 1
           /\ pending'[i].parent = 0
           /\ pending'[i].kind \in {"user", "result"}
           /\ \A j \in 1 .. Len(Live') : Live'[j].id # pending'[i].id
  BY <1>2, <1>5
<1> QED BY <1>6 DEF PendingInv

\* A turn is started.
LEMMA StartSession ==
  ASSUME Types, SessionInv, StartTurn
  PROVE  SessionInv'
<1>1. PICK first \in Nat \ {0} : first = nextId
  BY DEF Types, DiskTypes
<1>2. PICK n \in 1 .. MaxPrompt :
        /\ pending' = [k \in 1 .. n |-> User(first + k - 1)]
        /\ nextId' = first + n
  BY <1>1 DEF StartTurn
<1>3. /\ history' = Resumed /\ pc' = "prompt" /\ status' = "none" /\ transcript' = transcript
      /\ torn' = torn /\ (transcript # <<>> => Resumed # <<>>)
  BY DEF StartTurn, file
<1>4. Live' = Live /\ Resumed' = Resumed
  BY <1>3, SameTranscript
<1>5. n \in Nat /\ n > 0 /\ first + n \in Nat /\ first <= first + n
  OBVIOUS
<1> DEFINE e(k) == User(first + k - 1)
<1>6. ASSUME NEW k \in 1 .. n
      PROVE  e(k) \in Messages /\ e(k).id = first + k - 1 /\ e(k).parent = 0 /\ e(k).kind = "user"
  <2>1. first + k - 1 \in Nat
    OBVIOUS
  <2> QED BY <2>1, UserTyped
<1> HIDE DEF e
<1>7. PICK pend \in Seq(Messages) : pend = pending' /\ Len(pend) = n /\ \A k \in 1 .. n : pend[k] = e(k)
  <2>1. [k \in 1 .. n |-> e(k)] \in Seq(Messages) /\ Len([k \in 1 .. n |-> e(k)]) = n
    BY <1>5, <1>6
  <2>2. \A k \in 1 .. n : [j \in 1 .. n |-> e(j)][k] = e(k)
    OBVIOUS
  <2>3. pending' = [k \in 1 .. n |-> e(k)]
    BY <1>2 DEF e
  <2> QED BY <2>1, <2>2, <2>3, Zenon
<1>8. \A i \in 1 .. Len(pend) :
        pend[i].id = first + i - 1 /\ pend[i].parent = 0 /\ pend[i].kind = "user"
  BY <1>6, <1>7
<1>9. /\ \A i, j \in 1 .. Len(pend) : pend[i].id = pend[j].id => i = j
      /\ \A i \in 1 .. Len(pend) :
           /\ pend[i].id \in nextId .. (first + n) - 1 /\ pend[i].parent = 0
           /\ pend[i].kind \in {"user", "result"}
  BY <1>1, <1>7, <1>8
<1>10. PendingInv'
  <2>1. PICK after \in Nat : after = first + n
    BY <1>5
  <2> QED BY <1>2, <1>3, <1>7, <1>9, <2>1, PendingNew
<1>11. LinkInv'
  <2>1. PICK live : live = Live
    OBVIOUS
  <2>2. WellLinked(live, first)
    BY <1>1, <2>1 DEF SessionInv, LinkInv
  <2>3. WellLinked(live, first + n)
    BY <1>5, <2>2, LinkMonotone
  <2> QED BY <1>2, <1>4, <2>1, <2>3 DEF LinkInv
<1>12. HistoryInv'
  <2>1. AtStart'
    <3>1. Live # <<>> => Resumed # <<>>
      BY <1>3, LiveSeq
    <3> QED BY <1>3, <1>4, <3>1 DEF AtStart
  <2>2. pending' # <<>>
    BY <1>5, <1>7
  <2> QED BY <1>3, <2>1, <2>2 DEF HistoryInv
<1>13. PlanInv' /\ StatusInv' /\ torn' = FALSE
  BY <1>3 DEF PlanInv, StatusInv, SuccessEndsInAnswer, SessionInv
<1> QED BY <1>10, <1>11, <1>12, <1>13 DEF SessionInv

\* The results of the tool uses are in hand.
LEMMA ToolsSession ==
  ASSUME Types, SessionInv, ExecuteToolUses
  PROVE  SessionInv'
<1>1. PICK first \in Nat \ {0} : first = nextId
  BY DEF Types, DiskTypes
<1>2. /\ pc = "tools" /\ pc' = "results" /\ transcript' = transcript /\ torn' = torn
      /\ history' = history /\ turn' = turn /\ status' = status
  BY DEF ExecuteToolUses, file
<1>3. AtEnd /\ status # "ok"
  BY <1>2 DEF SessionInv, HistoryInv, StatusInv
<1>4. PICK last \in Messages : last = Last(history)
  <2>1. history # <<>>
    BY <1>3, HistoryAt DEF AtEnd, EndsIn
  <2> QED BY <2>1 DEF Types, ConversationTypes, Last
<1>5. PICK id \in Nat, uses \in Nat : id = last.id /\ uses = last.uses
  BY DEF Messages
<1>6. PICK n \in Nat, extra \in BOOLEAN :
        /\ extra => n > 0
        /\ pending' = Delivered(n, extra, first, id)
        /\ nextId' = first + n + (IF extra THEN 1 ELSE 0)
  <2>1. ResultsDelivered(uses) \subseteq Nat
    BY <1>5 DEF ResultsDelivered
  <2> QED BY <1>1, <1>4, <1>5, <2>1 DEF ExecuteToolUses, Delivered, WithExtra
<1>7. PICK pend \in Seq(Messages) :
        /\ pend = pending' /\ Len(pend) = n + (IF extra THEN 1 ELSE 0)
        /\ \A i \in 1 .. Len(pend) : ToAppend(pend[i], i, n, extra, first, id)
  <2>1. Answers(Delivered(n, extra, first, id), n, extra, first, id)
    BY <1>6, ResultsAre
  <2> QED BY <1>6, <2>1, Zenon DEF Answers
<1>8. PICK after \in Nat : after = nextId' /\ after = first + n + (IF extra THEN 1 ELSE 0) /\ first <= after
  BY <1>6
<1>9. \A i \in 1 .. Len(pend) : pend[i].id = ResultId(i, n, extra, first)
  BY <1>7 DEF ToAppend
<1>10. ASSUME NEW i \in 1 .. Len(pend)
       PROVE  /\ pend[i].id \in first .. after - 1
              /\ \A j \in 1 .. Len(pend) : pend[i].id = pend[j].id => i = j
  <2>1. i \in 1 .. n + (IF extra THEN 1 ELSE 0)
    BY <1>7
  <2>2. /\ ResultId(i, n, extra, first) \in first .. first + n + (IF extra THEN 1 ELSE 0) - 1
        /\ \A j \in 1 .. n + (IF extra THEN 1 ELSE 0) :
             ResultId(i, n, extra, first) = ResultId(j, n, extra, first) => i = j
    BY <1>6, <2>1, ResultIdsDiffer
  <2> QED BY <1>7, <1>8, <1>9, <2>2
<1>11. \A i, j \in 1 .. Len(pend) : pend[i].id = pend[j].id => i = j
  BY <1>10
<1>12. \A i \in 1 .. Len(pend) : pend[i].parent = 0 /\ pend[i].kind \in {"user", "result"}
  BY <1>7 DEF ToAppend
<1>13. PendingInv'
  BY <1>1, <1>2, <1>7, <1>8, <1>10, <1>11, <1>12, PendingNew
<1>14. Live' = Live /\ Resumed' = Resumed
  BY <1>2, SameTranscript
<1>15. LinkInv'
  <2>1. PICK live : live = Live
    OBVIOUS
  <2>2. WellLinked(live, first)
    BY <1>1, <2>1 DEF SessionInv, LinkInv
  <2>3. WellLinked(live, after)
    BY <1>8, <2>2, LinkMonotone
  <2> QED BY <1>8, <1>14, <2>1, <2>3 DEF LinkInv
<1>16. HistoryInv' /\ PlanInv' /\ torn' = FALSE
  BY <1>2, <1>3, <1>14 DEF HistoryInv, PlanInv, AtEnd, SessionInv
<1>17. StatusInv'
  BY <1>2, <1>3 DEF StatusInv, SuccessEndsInAnswer
<1> QED BY <1>13, <1>15, <1>16, <1>17 DEF SessionInv

\* A compaction is planned.
LEMMA CompactSession ==
  ASSUME Types, SessionInv, KeepLast = 0, NEW hist \in Seq(Messages), Compact(hist),
         pc \in {"autocompact", "compact"}
  PROVE  SessionInv'
<1>1. PICK first \in Nat \ {0} : first = nextId
  BY DEF Types, DiskTypes
<1>2. /\ history' = PlanOutput(hist) /\ nextId' = first + 2 /\ pc' = "boundary" /\ pending' = pending
      /\ transcript' = transcript /\ torn' = torn /\ turn' = turn /\ status' = status
  BY <1>1 DEF Compact, file
<1>3. pending = <<>> /\ status # "ok" /\ torn = FALSE
  BY DEF SessionInv, PendingInv, StatusInv
<1>4. Live' = Live /\ Resumed' = Resumed
  BY <1>2, SameTranscript
<1>5. LinkInv'
  <2>1. PICK live : live = Live
    OBVIOUS
  <2>2. WellLinked(live, first)
    BY <1>1, <2>1 DEF SessionInv, LinkInv
  <2>3. WellLinked(live, first + 2)
    BY <2>2, LinkMonotone
  <2> QED BY <1>2, <1>4, <2>1, <2>3 DEF LinkInv
<1>6. PendingInv'
  BY <1>2, <1>3 DEF PendingInv
<1>7. PlanInv'
  <2>1. PICK plan : plan = PlanOutput(hist)
    OBVIOUS
  <2>2. /\ Len(plan) = 2
        /\ plan[1].kind = "boundary" /\ plan[1].parent = 0 /\ plan[1].id = first
        /\ plan[2].kind = "summary" /\ plan[2].parent = first /\ plan[2].id = first + 1
    BY <1>1, <2>1, PlanIs
  <2>3. first # first + 1 /\ first \in 1 .. first + 2 - 1 /\ first + 1 \in 1 .. first + 2 - 1
    OBVIOUS
  <2> QED BY <1>2, <2>1, <2>2, <2>3 DEF PlanInv
<1>8. HistoryInv' /\ StatusInv'
  BY <1>2, <1>3 DEF HistoryInv, StatusInv, SuccessEndsInAnswer
<1> QED BY <1>2, <1>3, <1>5, <1>6, <1>7, <1>8 DEF SessionInv

\* A message with a new identity is saved, behind the prompt.
LEMMA NewMessageSession ==
  ASSUME Types, SessionInv, torn' = FALSE,
         pc \notin {"idle", "prompt", "results", "boundary", "summary"},
         NEW kind \in {"user", "assistant", "attachment"}, NEW uses \in 0 .. MaxUses,
         NEW next \in {"done", "round", "finish", "tools"},
         SaveMessage(Message(nextId, kind, uses, <<0, 0>>), next),
         nextId' = nextId + 1, turn' = turn, pc' # "idle" => pending' = pending,
         kind = "attachment" => Speaker(Last(Live)),
         next = "done" => turn # "query",
         next = "finish" => kind = "assistant" /\ uses = 0
  PROVE  SessionInv'
<1>1. PICK first \in Nat \ {0} : first = nextId
  BY DEF Types, DiskTypes
<1>2. /\ first \in Nat /\ first + 1 \in Nat /\ first <= first + 1 /\ first \in 1 .. first + 1 - 1
      /\ <<0, 0>> \in Nat \X Nat /\ kind \in Kinds
  BY DEF Kinds
<1>3. PICK m \in Messages : /\ m = Message(first, kind, uses, <<0, 0>>) /\ m.id = first /\ m.parent = 0
                            /\ m.kind = kind /\ m.uses = uses
  <2>1. LET m == Message(first, kind, uses, <<0, 0>>)
        IN  m \in Messages /\ m.id = first /\ m.parent = 0 /\ m.kind = kind /\ m.uses = uses
    BY <1>2, MessageTyped
  <2> QED BY <2>1, Zenon
<1>4. AtEnd /\ pending = <<>>
  BY DEF SessionInv, HistoryInv, PendingInv
<1>5. \A j \in 1 .. Len(Live) : Live[j].id # m.id
  <2>1. PICK live : live = Live
    OBVIOUS
  <2>2. \A j \in 1 .. Len(live) : live[j].id \in 1 .. first - 1
    BY <1>1, <2>1 DEF SessionInv, LinkInv, WellLinked
  <2>3. \A j \in 1 .. Len(live) : live[j].id # first
    BY <2>2
  <2> QED BY <1>3, <2>1, <2>3
<1>6. /\ nextId' \in Nat /\ nextId <= nextId' /\ m.id \in 1 .. nextId' - 1
      /\ SaveMessage(m, next)
  BY <1>1, <1>2, <1>3
<1> QED BY <1>3, <1>4, <1>5, <1>6, MessageSession, ZenonT(60)

\* The first of the pending messages is saved.
LEMMA PendingSession ==
  ASSUME Types, SessionInv, torn' = FALSE, pc \in {"prompt", "results"}, pending # <<>>,
         SaveMessage(Head(pending), pc),
         pc' # "idle" => pending' = Tail(pending), nextId' = nextId, turn' = turn
  PROVE  SessionInv'
<1>1. PICK pend \in Seq(Messages), next \in Nat : pend = pending /\ next = nextId
  BY DEF Types, ConversationTypes, DiskTypes
<1>2. PICK m \in Messages : m = Head(pend) /\ m = pend[1] /\ 1 \in 1 .. Len(pend)
  BY <1>1
<1>3. /\ m.id \in 1 .. nextId - 1 /\ m.parent = 0 /\ m.kind \in {"user", "result"}
      /\ \A j \in 1 .. Len(Live) : Live[j].id # m.id
  BY <1>1, <1>2 DEF SessionInv, PendingInv
<1>4. AtEnd \/ AtStart
  BY DEF SessionInv, HistoryInv
<1>5. Speaker(m) /\ m.kind # "boundary" /\ m.kind # "attachment" /\ m.kind # "assistant"
  BY <1>3 DEF Speaker
<1>6. nextId' \in Nat /\ nextId <= nextId' /\ m.id \in 1 .. nextId' - 1
  BY <1>1, <1>3
<1>7. m = Head(pending) /\ SaveMessage(m, pc)
  BY <1>1, <1>2
<1> QED BY <1>3, <1>4, <1>5, <1>6, <1>7, MessageSession

\* Every step preserves the invariant.
LEMMA SessionStep ==
  ASSUME KeepLast = 0, torn' = FALSE, Types, SessionInv, [Next]_vars
  PROVE  SessionInv'
<1>0. nextId \in Nat /\ torn = FALSE /\ AtEnd \in BOOLEAN
  BY DEF Types, DiskTypes, SessionInv, AtEnd, EndsIn
<1>1. CASE AppendPrompt
  BY <1>1, PendingSession DEF AppendPrompt
<1>2. CASE AppendResult
  BY <1>2, PendingSession DEF AppendResult
<1>3. CASE LocalText
  <2>1. turn # "query" /\ User(nextId) = Message(nextId, "user", 0, <<0, 0>>) /\ 0 \in 0 .. MaxUses
    BY <1>3 DEF LocalText, SessionInv, StatusInv, User
  <2> QED BY <1>3, <2>1, NewMessageSession DEF LocalText
<1>4. CASE AppendDelta
  <2>1. Speaker(Last(Live)) /\ 0 \in 0 .. MaxUses
    BY <1>4 DEF AppendDelta, SessionInv, HistoryInv
  <2> QED BY <1>4, <2>1, NewMessageSession DEF AppendDelta
<1>5. CASE RecordAssistant
  <2>1. PICK n \in 0 .. MaxUses : SaveMessage(Message(nextId, "assistant", n, <<0, 0>>), AfterResponse(n))
    BY <1>5 DEF RecordAssistant
  <2>2. AfterResponse(n) \in {"finish", "tools"} /\ (AfterResponse(n) = "finish" => n = 0)
    BY DEF AfterResponse
  <2> QED BY <1>5, <2>1, <2>2, NewMessageSession DEF RecordAssistant
<1>6. CASE \/ Done \/ Fail \/ RoundsExceeded \/ SendFails \/ Finish \/ Crash
           \/ PromptDone /\ turn = "clear" /\ Return("ok")
  <2>1. PICK how : /\ Return(how) /\ transcript' = transcript /\ torn' = torn /\ turn' = turn /\ nextId' = nextId
                   /\ how = "ok" => turn = "clear" \/ pc = "finish" \/ pc = "done"
    BY <1>6 DEF Done, Fail, RoundsExceeded, SendFails, Finish, Crash, PromptDone, file
  <2>2. how = "ok" => turn # "query" \/ pc = "finish"
    BY <2>1 DEF SessionInv, StatusInv
  <2>3. nextId' \in Nat /\ nextId <= nextId' /\ torn' = FALSE
    BY <1>0, <2>1
  <2> QED BY <2>1, <2>2, <2>3, ReturnSession
<1>7. CASE PromptDone /\ ~(turn = "clear" /\ Return("ok"))
  <2>1. /\ pc = "prompt" /\ pending = <<>> /\ AtEnd /\ Speaker(Last(Live))
    BY <1>7 DEF PromptDone, SessionInv, HistoryInv
  <2>2. /\ pc' \in {"autocompact", "localText", "compact"} /\ (pc' # "autocompact" => turn # "query")
        /\ UNCHANGED <<transcript, torn, history, pending, nextId, status, turn>>
    BY <1>7 DEF PromptDone, Goto, locals, file
  <2> QED BY <2>1, <2>2, MoveSession DEF Points
<1>8. CASE \/ AutoCompactSkip \/ AutoCompactFails \/ NoDelta \/ StartRound \/ Stream \/ Unary
           \/ RetryFallback \/ ResultsDone
  <2>1. /\ pc \in {"autocompact", "delta", "round", "send", "failed", "results"}
        /\ pc' \in {"delta", "round", "send", "record", "failed"}
        /\ pc' = "delta" => pc = "autocompact"
        /\ pc = "results" => pending = <<>>
        /\ UNCHANGED <<transcript, torn, history, pending, nextId, status, turn>>
    BY <1>8 DEF AutoCompactSkip, AutoCompactFails, NoDelta, StartRound, Stream, Unary, MayFallBack,
                RetryFallback, ResultsDone, Goto, locals, file, sendFrame
  <2>2. AtEnd /\ pending = <<>> /\ (pc' = "delta" => Speaker(Last(Live)))
    BY <2>1 DEF SessionInv, HistoryInv, PendingInv
  <2> QED BY <2>1, <2>2, MoveSession DEF Points
<1>9. CASE AutoCompact
  BY <1>9, CompactSession DEF AutoCompact, Types, ConversationTypes
<1>10. CASE ManualCompact
  BY <1>10, CompactSession DEF ManualCompact, Types, ConversationTypes
<1>11. CASE RefuseTurn \/ Cancel \/ UNCHANGED vars
  <2>1. /\ UNCHANGED <<transcript, torn, history, pending, nextId, turn, pc>>
        /\ status' = status \/ status' = "refused"
    BY <1>11 DEF RefuseTurn, Cancel, vars, locals, file
  <2>2. Live' = Live /\ Resumed' = Resumed
    BY <2>1, SameTranscript
  <2>3. LinkInv' /\ PendingInv' /\ PlanInv' /\ torn' = FALSE
    BY <2>1, <2>2 DEF SessionInv, LinkInv, PendingInv, PlanInv
  <2>4. HistoryInv'
    BY <2>1, <2>2 DEF SessionInv, HistoryInv, AtEnd, AtStart
  <2>5. StatusInv'
    BY <2>1, <2>2 DEF SessionInv, StatusInv, SuccessEndsInAnswer
  <2> QED BY <2>3, <2>4, <2>5 DEF SessionInv
<1> QED BY <1>1, <1>2, <1>3, <1>4, <1>5, <1>6, <1>7, <1>8, <1>9, <1>10, <1>11,
           StartSession, ToolsSession, BoundarySession, SummarySession DEF Next, RunTurn

\* The invariant says what a process leaves behind.
LEMMA SessionFaithful ==
  ASSUME Types, SessionInv
  PROVE  ResumeFaithful
<1>1. PICK live \in Seq(Messages), next \in Nat : live = Live /\ next = nextId /\ WellLinked(live, next)
  BY LiveSeq DEF Types, DiskTypes, SessionInv, LinkInv
<1>2. Resumed = ResumedOf(live) /\ Resumed \in Seq(Messages)
  BY <1>1, ResumedIs, ResumeAny
<1>3. OnlyBoundaryUnresumable
  <2>1. ASSUME transcript # <<>>, Last(transcript).kind # "boundary" PROVE Resumed # <<>>
    <3>1. live # <<>> /\ Last(live).kind # "boundary"
      BY <1>1, <2>1, LiveSeq
    <3> QED BY <1>1, <1>2, <3>1, ResumeAtEnd
  <2> QED BY <2>1 DEF OnlyBoundaryUnresumable
<1>4. ASSUME AtEnd PROVE Resumed \in {history, Spoken(history)}
  <2>1. live # <<>> /\ Last(live).kind # "boundary" /\ history = ChainTo(live)[Len(live)]
    BY <1>1, <1>4 DEF AtEnd, EndsIn
  <2>2. CASE Speaker(Last(live))
    BY <1>1, <1>2, <2>1, <2>2, ResumeAtEnd
  <2>3. CASE ~Speaker(Last(live))
    <3>1. PICK e \in Messages : e = Last(live)
      BY <2>1 DEF Last
    <3>2. history = Append(Resumed, e)
      BY <1>1, <1>2, <2>1, <2>3, <3>1, ResumeAtEnd
    <3>3. e.kind = "attachment"
      BY <2>1, <2>3, <3>1 DEF Speaker
    <3>4. PICK resumed \in Seq(Messages) : resumed = Resumed
      BY <1>2, Zenon
    <3>5. PICK hist \in Seq(Messages) : hist = history /\ hist = Append(resumed, e)
      BY <3>2, <3>4 DEF Types, ConversationTypes
    <3>6. Len(hist) = Len(resumed) + 1 /\ hist # <<>> /\ Last(hist) = e
      BY <3>5 DEF Last
    <3>7. PICK front \in Seq(Messages) : front = Front(hist)
      <4>1. SubSeq(hist, 1, Len(hist) - 1) \in Seq(Messages)
        BY <3>6
      <4> QED BY <4>1, Zenon DEF Front
    <3>8. Len(front) = Len(resumed) /\ \A i \in 1 .. Len(front) : front[i] = resumed[i]
      <4>1. Len(front) = Len(resumed) /\ \A i \in 1 .. Len(resumed) : front[i] = hist[i]
        BY <3>6, <3>7 DEF Front
      <4>2. \A i \in 1 .. Len(resumed) : hist[i] = resumed[i]
        BY <3>5
      <4> QED BY <4>1, <4>2
    <3>9. front = resumed
      BY <3>8
    <3>10. Spoken(hist) = front
      BY <3>3, <3>6, <3>7 DEF Spoken
    <3> QED BY <3>4, <3>5, <3>9, <3>10
  <2> QED BY <2>2, <2>3
<1>5. ResumeRestoresHistory
  <2>1. ASSUME pc \notin {"idle", "boundary", "summary"}
        PROVE  Resumed \in {history, Spoken(history)}
    <3>1. AtEnd \/ AtStart
      BY <2>1 DEF SessionInv, HistoryInv
    <3> QED BY <1>4, <3>1 DEF AtStart
  <2>2. Resumed \in {history, Spoken(history)} => Ids(Resumed) \in {Ids(history), Ids(Spoken(history))}
    OBVIOUS
  <2> QED BY <2>1, <2>2, Zenon DEF ResumeRestoresHistory
<1> QED BY <1>3, <1>5 DEF ResumeFaithful, SessionInv, StatusInv

\* Initially there is no session.
LEMMA InitSession ==
  ASSUME Init
  PROVE  SessionInv
<1>1. pc = "idle" /\ pending = <<>> /\ transcript = <<>> /\ torn = FALSE /\ status = "none" /\ nextId = 1
  BY DEF Init
<1>2. Live = <<>>
  <2>1. Live = LiveOf(<<>>)
    BY <1>1, ResumedIs
  <2>2. <<>> \in Seq(Messages)
    OBVIOUS
  <2> QED BY <2>1, <2>2, LiveTyped
<1>3. LinkInv
  BY <1>2 DEF LinkInv, WellLinked
<1>4. PendingInv
  BY <1>1 DEF PendingInv
<1>5. HistoryInv /\ PlanInv /\ StatusInv
  BY <1>1 DEF HistoryInv, PlanInv, StatusInv, SuccessEndsInAnswer
<1> QED BY <1>1, <1>3, <1>4, <1>5 DEF SessionInv

\* Only a failed append leaves a part of its line behind, and it ends the turn.
LEMMA NotTorn ==
  ASSUME SessionInv, [Next]_vars
  PROVE  torn' = FALSE \/ (TornWrites = TRUE /\ interrupted' = TRUE)
<1>1. torn = FALSE
  BY DEF SessionInv
<1>2. ASSUME NEW m, NEW hist, NEW next, Save(m, hist, next)
      PROVE  torn' = FALSE \/ (TornWrites = TRUE /\ interrupted' = TRUE)
  <2>1. CASE torn' = FALSE
    BY <2>1
  <2>2. CASE torn' \in (IF TornWrites THEN {torn, TRUE} ELSE {torn}) /\ Return("unsaved")
    <3>1. interrupted' = TRUE
      <4>1. interrupted' = (interrupted \/ "unsaved" \in {"unsaved", "crashed"})
        BY <2>2 DEF Return
      <4> QED BY <4>1, Zenon
    <3>2. TornWrites = FALSE => torn' = FALSE
      BY <1>1, <2>2
    <3> QED BY <3>1, <3>2
  <2> QED BY <1>2, <2>1, <2>2 DEF Save, WriteEntry
<1>3. CASE \/ AppendPrompt \/ LocalText \/ AppendBoundary \/ AppendSummary \/ AppendDelta
           \/ RecordAssistant \/ AppendResult
  BY <1>2, <1>3 DEF AppendPrompt, LocalText, AppendBoundary, AppendSummary, AppendDelta,
                    RecordAssistant, AppendResult, SaveMessage
<1>4. CASE torn' = torn
  BY <1>1, <1>4
<1> QED BY <1>3, <1>4 DEF Next, RunTurn, vars, file, sendFrame, StartTurn, RefuseTurn, Cancel, Crash,
     PromptDone, Done, Fail, AutoCompactSkip, AutoCompactFails, AutoCompact, ManualCompact, Compact,
     NoDelta, RoundsExceeded, StartRound, Stream, Unary, RetryFallback, SendFails, Finish,
     ExecuteToolUses, ResultsDone

\* Whenever the process stops, what BuildResumeConversation makes of the transcript is
\* the conversation RunTurn had, without an attachment at its end; only a boundary
\* without its summary leaves nothing to resume; and a query that ended well left its
\* answer last.  For every number of turns, rounds, uses and prompt messages; for the
\* KeepLast that every caller uses and appends that write a line or nothing.
THEOREM SessionsResume ==
  ASSUME KeepLast = 0, TornWrites = FALSE
  PROVE  Spec => []ResumeFaithful
<1>1. Init => Types /\ SessionInv
  BY InitTypes, InitSession
<1>2. Types /\ ControlInv /\ SessionInv /\ [Next]_vars => Types' /\ SessionInv'
  <2>1. SessionInv /\ [Next]_vars => torn' = FALSE
    BY NotTorn
  <2> QED BY <2>1, TypesStep, SessionStep
<1>3. Types /\ SessionInv => ResumeFaithful
  BY SessionFaithful
<1> QED BY <1>1, <1>2, <1>3, Control, PTL DEF Spec

-----------------------------------------------------------------------------
(* Tool uses and their results.  A session none of whose turns was cut short *)
(* is paired wherever a turn may end; between a response and its results the  *)
(* uses of the last response are the only ones without an answer.            *)

AnsweredIn(h, i, k) ==
  \E j \in i + 1 .. Len(h) :
    h[j].of = <<h[i].id, k>> /\ \A m \in i + 1 .. j : h[m].kind # "assistant"

Backed(h) ==
  \A j \in 1 .. Len(h) : h[j].kind = "result" => \E i \in 1 .. j - 1 : h[i].id = h[j].of[1]

\* All but the response at a is answered.
Spoke(h, a) ==
  /\ a \in 1 .. Len(h) /\ h[a].kind = "assistant"
  /\ \A m \in a + 1 .. Len(h) : h[m].kind \in {"user", "result"} /\ h[m].uses = 0
  /\ \A i \in 1 .. a - 1 : \A k \in 1 .. h[i].uses : AnsweredIn(h, i, k)
  /\ Backed(h)

\* Each use of the response at a has its answer in the conversation or among the
\* messages still to be appended.
AnswersComing(h, a, pend) ==
  /\ \A k \in 1 .. h[a].uses : \/ \E j \in a + 1 .. Len(h) : h[j].of = <<h[a].id, k>>
                               \/ \E j \in 1 .. Len(pend) : pend[j].of = <<h[a].id, k>>
  /\ \A p \in 1 .. Len(pend) : pend[p].uses = 0 /\ (pend[p].kind = "result" => pend[p].of[1] = h[a].id)

PairInv ==
  /\ pc = "idle" => Paired(Resumed)
  /\ pc \notin {"idle", "tools", "results", "boundary", "summary"} => Paired(history) /\ Paired(Resumed)
  /\ pc = "prompt" => \A k \in 1 .. Len(pending) : pending[k].kind = "user" /\ pending[k].uses = 0
  /\ pc \in {"boundary", "summary"} => history[1].uses = 0 /\ history[2].uses = 0
  /\ pc = "tools" => Spoke(history, Len(history))
  /\ pc = "results" => \E a \in 1 .. Len(history) : Spoke(history, a) /\ AnswersComing(history, a, pending)

LEMMA PairedIs ==
  ASSUME NEW h \in Seq(Messages)
  PROVE  Paired(h) <=> /\ \A i \in 1 .. Len(h) : \A k \in 1 .. h[i].uses : AnsweredIn(h, i, k)
                       /\ Backed(h)
<1>1. DOMAIN h = 1 .. Len(h)
  OBVIOUS
<1> QED BY <1>1, Zenon DEF Paired, AnsweredIn, Backed

\* What was answered stays answered.
LEMMA AnsweredStays ==
  ASSUME NEW h \in Seq(Messages), NEW e \in Messages, NEW i \in 1 .. Len(h), NEW k, AnsweredIn(h, i, k)
  PROVE  AnsweredIn(Append(h, e), i, k)
<1>1. PICK more \in Seq(Messages) : more = Append(h, e)
  <2>1. Append(h, e) \in Seq(Messages)
    BY AppendIs
  <2> QED BY <2>1, Zenon
<1>2. Len(more) = Len(h) + 1 /\ \A m \in 1 .. Len(h) : more[m] = h[m]
  BY <1>1
<1>3. PICK j \in i + 1 .. Len(h) : h[j].of = <<h[i].id, k>> /\ \A m \in i + 1 .. j : h[m].kind # "assistant"
  BY DEF AnsweredIn
<1>4. j \in i + 1 .. Len(more) /\ j \in 1 .. Len(h) /\ \A m \in i + 1 .. j : m \in 1 .. Len(h)
  BY <1>2
<1>5. more[j].of = <<more[i].id, k>> /\ \A m \in i + 1 .. j : more[m].kind # "assistant"
  BY <1>2, <1>3, <1>4, Zenon
<1> QED BY <1>1, <1>4, <1>5, Zenon DEF AnsweredIn

\* A message that answers nothing, or something said before, leaves no answer
\* without its use.
LEMMA BackedAppend ==
  ASSUME NEW h \in Seq(Messages), NEW e \in Messages, Backed(h),
         e.kind = "result" => \E i \in 1 .. Len(h) : h[i].id = e.of[1]
  PROVE  Backed(Append(h, e))
<1>1. PICK more \in Seq(Messages) : more = Append(h, e)
  <2>1. Append(h, e) \in Seq(Messages)
    BY AppendIs
  <2> QED BY <2>1, Zenon
<1>2. Len(more) = Len(h) + 1 /\ more[Len(h) + 1] = e /\ \A m \in 1 .. Len(h) : more[m] = h[m]
  BY <1>1
<1>3. ASSUME NEW j \in 1 .. Len(more), more[j].kind = "result"
      PROVE  \E i \in 1 .. j - 1 : more[i].id = more[j].of[1]
  <2>1. CASE j = Len(h) + 1
    <3>1. PICK i \in 1 .. Len(h) : h[i].id = e.of[1]
      BY <1>2, <1>3, <2>1
    <3>2. i \in 1 .. j - 1
      BY <2>1
    <3> QED BY <1>2, <2>1, <3>1, <3>2, Zenon
  <2>2. CASE j \in 1 .. Len(h)
    <3>1. PICK i \in 1 .. j - 1 : h[i].id = h[j].of[1]
      BY <1>2, <1>3, <2>2 DEF Backed
    <3>2. i \in 1 .. Len(h)
      BY <2>2
    <3> QED BY <1>2, <2>2, <3>1, <3>2, Zenon
  <2>3. j = Len(h) + 1 \/ j \in 1 .. Len(h)
    BY <1>2
  <2> QED BY <2>1, <2>2, <2>3, Zenon
<1> QED BY <1>1, <1>3, Zenon DEF Backed

\* A message without uses that answers nothing keeps a conversation paired.
LEMMA PairedAppend ==
  ASSUME NEW h \in Seq(Messages), NEW e \in Messages, Paired(h), e.uses = 0, e.kind # "result"
  PROVE  Paired(Append(h, e))
<1>1. PICK more \in Seq(Messages) : more = Append(h, e)
  <2>1. Append(h, e) \in Seq(Messages)
    BY AppendIs
  <2> QED BY <2>1, Zenon
<1>2. Len(more) = Len(h) + 1 /\ more[Len(h) + 1] = e /\ \A m \in 1 .. Len(h) : more[m] = h[m]
  BY <1>1
<1>3. /\ \A i \in 1 .. Len(h) : \A k \in 1 .. h[i].uses : AnsweredIn(h, i, k)
      /\ Backed(h)
  BY PairedIs
<1>4. ASSUME NEW i \in 1 .. Len(more), NEW k \in 1 .. more[i].uses
      PROVE  AnsweredIn(more, i, k)
  <2>1. i # Len(h) + 1
    BY <1>2
  <2>2. i \in 1 .. Len(h)
    BY <1>2, <2>1
  <2>3. AnsweredIn(h, i, k)
    BY <1>2, <1>3, <2>2, Zenon
  <2> QED BY <1>1, <2>2, <2>3, AnsweredStays
<1>5. Backed(more)
  BY <1>1, <1>3, BackedAppend
<1>6. Paired(more)
  BY <1>4, <1>5, PairedIs
<1> QED BY <1>1, <1>6

\* A response to a paired conversation.
LEMMA SpokeNow ==
  ASSUME NEW h \in Seq(Messages), NEW e \in Messages, Paired(h), e.kind = "assistant"
  PROVE  Spoke(Append(h, e), Len(h) + 1)
<1>1. PICK more \in Seq(Messages) : more = Append(h, e)
  <2>1. Append(h, e) \in Seq(Messages)
    BY AppendIs
  <2> QED BY <2>1, Zenon
<1>2. Len(more) = Len(h) + 1 /\ more[Len(h) + 1] = e /\ \A m \in 1 .. Len(h) : more[m] = h[m]
  BY <1>1
<1>3. /\ \A i \in 1 .. Len(h) : \A k \in 1 .. h[i].uses : AnsweredIn(h, i, k)
      /\ Backed(h)
  BY PairedIs
<1>4. ASSUME NEW i \in 1 .. (Len(h) + 1) - 1, NEW k \in 1 .. more[i].uses
      PROVE  AnsweredIn(more, i, k)
  <2>1. i \in 1 .. Len(h)
    OBVIOUS
  <2>2. AnsweredIn(h, i, k)
    BY <1>2, <1>3, <2>1, Zenon
  <2> QED BY <1>1, <2>1, <2>2, AnsweredStays
<1>5. Backed(more)
  BY <1>1, <1>3, BackedAppend
<1>6. /\ Len(h) + 1 \in 1 .. Len(more) /\ more[Len(h) + 1].kind = "assistant"
      /\ \A m \in (Len(h) + 1) + 1 .. Len(more) : more[m].kind \in {"user", "result"} /\ more[m].uses = 0
  BY <1>2
<1>7. Spoke(more, Len(h) + 1)
  BY <1>4, <1>5, <1>6, Zenon DEF Spoke
<1> QED BY <1>1, <1>7

\* A result, or a message of a tool, follows the response.
LEMMA SpokeAppend ==
  ASSUME NEW h \in Seq(Messages), NEW e \in Messages, NEW a, Spoke(h, a),
         e.uses = 0, e.kind \in {"user", "result"}, e.kind = "result" => e.of[1] = h[a].id
  PROVE  Spoke(Append(h, e), a)
<1>1. PICK more \in Seq(Messages) : more = Append(h, e)
  <2>1. Append(h, e) \in Seq(Messages)
    BY AppendIs
  <2> QED BY <2>1, Zenon
<1>2. Len(more) = Len(h) + 1 /\ more[Len(h) + 1] = e /\ \A m \in 1 .. Len(h) : more[m] = h[m]
  BY <1>1
<1>3. /\ a \in 1 .. Len(h) /\ h[a].kind = "assistant"
      /\ \A m \in a + 1 .. Len(h) : h[m].kind \in {"user", "result"} /\ h[m].uses = 0
      /\ \A i \in 1 .. a - 1 : \A k \in 1 .. h[i].uses : AnsweredIn(h, i, k)
      /\ Backed(h)
  BY DEF Spoke
<1>4. ASSUME NEW i \in 1 .. a - 1, NEW k \in 1 .. more[i].uses
      PROVE  AnsweredIn(more, i, k)
  <2>1. i \in 1 .. Len(h)
    BY <1>3
  <2>2. AnsweredIn(h, i, k)
    BY <1>2, <1>3, <2>1, Zenon
  <2> QED BY <1>1, <2>1, <2>2, AnsweredStays
<1>5. Backed(more)
  BY <1>1, <1>3, BackedAppend
<1>6. ASSUME NEW m \in a + 1 .. Len(more)
      PROVE  more[m].kind \in {"user", "result"} /\ more[m].uses = 0
  <2>1. m = Len(h) + 1 \/ (m \in a + 1 .. Len(h) /\ m \in 1 .. Len(h))
    BY <1>2, <1>3
  <2> QED BY <1>2, <1>3, <2>1
<1>7. a \in 1 .. Len(more) /\ more[a].kind = "assistant"
  BY <1>2, <1>3
<1>8. Spoke(more, a)
  BY <1>4, <1>5, <1>6, <1>7, Zenon DEF Spoke
<1> QED BY <1>1, <1>8

\* All uses of the response are answered.
LEMMA SpokePaired ==
  ASSUME NEW h \in Seq(Messages), NEW a, Spoke(h, a),
         \A k \in 1 .. h[a].uses : \E j \in a + 1 .. Len(h) : h[j].of = <<h[a].id, k>>
  PROVE  Paired(h)
<1>1. /\ a \in 1 .. Len(h) /\ h[a].kind = "assistant"
      /\ \A m \in a + 1 .. Len(h) : h[m].kind \in {"user", "result"} /\ h[m].uses = 0
      /\ \A i \in 1 .. a - 1 : \A k \in 1 .. h[i].uses : AnsweredIn(h, i, k)
      /\ Backed(h)
  BY DEF Spoke
<1>2. ASSUME NEW i \in 1 .. Len(h), NEW k \in 1 .. h[i].uses PROVE AnsweredIn(h, i, k)
  <2>1. CASE i \in 1 .. a - 1
    BY <1>1, <2>1
  <2>2. CASE i = a
    <3>1. PICK j \in a + 1 .. Len(h) : h[j].of = <<h[a].id, k>>
      BY <2>2
    <3>2. \A m \in a + 1 .. j : m \in a + 1 .. Len(h)
      BY <1>1
    <3>3. \A m \in a + 1 .. j : h[m].kind # "assistant"
      BY <1>1, <3>2
    <3> QED BY <2>2, <3>1, <3>3, Zenon DEF AnsweredIn
  <2>3. CASE i \in a + 1 .. Len(h)
    BY <1>1, <2>3
  <2>4. i \in 1 .. a - 1 \/ i = a \/ i \in a + 1 .. Len(h)
    BY <1>1
  <2> QED BY <2>1, <2>2, <2>3, <2>4, Zenon
<1> QED BY <1>1, <1>2, PairedIs

\* What is resumed of a conversation that ends with the transcript.
LEMMA ResumedFrom ==
  ASSUME NEW live \in Seq(Messages), NEW next \in Nat, WellLinked(live, next), NEW hist, EndsIn(live, hist)
  PROVE  /\ hist \in Seq(Messages) /\ hist # <<>> /\ Last(hist) = Last(live)
         /\ ResumedOf(live) \in Seq(Messages)
         /\ Speaker(Last(hist)) => ResumedOf(live) = hist
         /\ ~Speaker(Last(hist)) => hist = Append(ResumedOf(live), Last(hist))
<1>1. live # <<>> /\ Last(live).kind # "boundary" /\ hist = ChainTo(live)[Len(live)]
  BY DEF EndsIn
<1>2. Len(live) \in 0 .. Len(live) /\ Len(live) # 0
  BY <1>1
<1>3. hist \in Seq(Messages) /\ hist # <<>> /\ Last(hist) = live[Len(live)]
  BY <1>1, <1>2, ChainTyped
<1>4. Last(hist) = Last(live)
  BY <1>3 DEF Last
<1>5. /\ Speaker(Last(live)) => ResumedOf(live) = hist
      /\ ~Speaker(Last(live)) => hist = Append(ResumedOf(live), Last(live))
      /\ ResumedOf(live) \in Seq(Messages)
  BY <1>1, ResumeAtEnd
<1> QED BY <1>3, <1>4, <1>5

LEMMA ResumedNow ==
  ASSUME Types, SessionInv, AtEnd
  PROVE  Speaker(Last(history)) => Resumed = history
<1>1. PICK live \in Seq(Messages), next \in Nat : live = Live /\ next = nextId /\ WellLinked(live, next)
  BY LiveSeq DEF Types, DiskTypes, SessionInv, LinkInv
<1>2. EndsIn(live, history)
  BY <1>1 DEF AtEnd
<1> QED BY <1>1, <1>2, ResumedFrom, ResumedIs

LEMMA ResumedLater ==
  ASSUME Types', LinkInv', AtEnd'
  PROVE  /\ Resumed' \in Seq(Messages)
         /\ Speaker(Last(history')) => Resumed' = history'
         /\ ~Speaker(Last(history')) => history' = Append(Resumed', Last(history'))
<1>1. PICK entries \in Seq(Messages), next \in Nat : entries = transcript' /\ next = nextId'
  BY DEF Types, DiskTypes
<1>2. PICK live \in Seq(Messages) : live = Live'
  BY <1>1, LiveTyped, ResumedNext
<1>3. WellLinked(live, next)
  BY <1>1, <1>2 DEF LinkInv
<1>4. PICK hist : hist = history'
  OBVIOUS
<1>5. EndsIn(live, hist)
  BY <1>2, <1>4 DEF AtEnd
<1>6. Resumed' = ResumedOf(live)
  BY <1>2, ResumedNext
<1> QED BY <1>3, <1>4, <1>5, <1>6, ResumedFrom

\* A message without uses joined a paired conversation.
LEMMA PairSaved ==
  ASSUME Types, Types', LinkInv', AtEnd', Paired(history), NEW e \in Messages,
         history' = Append(history, e), e.uses = 0, e.kind # "result"
  PROVE  Paired(history') /\ Paired(Resumed')
<1>1. PICK hist \in Seq(Messages) : hist = history
  BY DEF Types, ConversationTypes
<1>2. Paired(history')
  BY <1>1, PairedAppend
<1>3. Last(history') = e
  BY <1>1, AppendIs
<1>4. CASE Speaker(e)
  BY <1>2, <1>3, <1>4, ResumedLater
<1>5. CASE ~Speaker(e)
  <2>1. PICK resumed \in Seq(Messages) : resumed = Resumed' /\ Append(hist, e) = Append(resumed, e)
    BY <1>1, <1>3, <1>5, ResumedLater
  <2>2. Len(resumed) = Len(hist) /\ \A i \in 1 .. Len(hist) : resumed[i] = hist[i]
    <3>1. Len(Append(hist, e)) = Len(hist) + 1 /\ Len(Append(resumed, e)) = Len(resumed) + 1
      OBVIOUS
    <3>2. Len(resumed) = Len(hist)
      BY <2>1, <3>1
    <3>3. \A i \in 1 .. Len(hist) : Append(hist, e)[i] = hist[i]
      OBVIOUS
    <3>4. \A i \in 1 .. Len(resumed) : Append(resumed, e)[i] = resumed[i]
      OBVIOUS
    <3> QED BY <2>1, <3>2, <3>3, <3>4, Zenon
  <2>3. resumed = hist
    BY <2>2
  <2> QED BY <1>1, <1>2, <2>1, <2>3
<1> QED BY <1>4, <1>5

\* The answers that are still to come, when one of them came.
LEMMA ComingAppend ==
  ASSUME NEW h \in Seq(Messages), NEW pend \in Seq(Messages), pend # <<>>, NEW e \in Messages,
         e.of = pend[1].of, NEW a \in 1 .. Len(h), AnswersComing(h, a, pend)
  PROVE  AnswersComing(Append(h, e), a, Tail(pend))
<1>1. PICK more \in Seq(Messages) : more = Append(h, e)
  <2>1. Append(h, e) \in Seq(Messages)
    BY AppendIs
  <2> QED BY <2>1, Zenon
<1>2. Len(more) = Len(h) + 1 /\ more[Len(h) + 1] = e /\ \A m \in 1 .. Len(h) : more[m] = h[m]
  BY <1>1
<1>3. PICK rest \in Seq(Messages) : rest = Tail(pend)
  <2>1. Tail(pend) \in Seq(Messages)
    OBVIOUS
  <2> QED BY <2>1, Zenon
<1>4. Len(rest) = Len(pend) - 1 /\ \A j \in 1 .. Len(rest) : rest[j] = pend[j + 1] /\ j + 1 \in 1 .. Len(pend)
  BY <1>3
<1>5. more[a] = h[a]
  BY <1>2
<1>6. ASSUME NEW k \in 1 .. more[a].uses
      PROVE  \/ \E j \in a + 1 .. Len(more) : more[j].of = <<more[a].id, k>>
             \/ \E j \in 1 .. Len(rest) : rest[j].of = <<more[a].id, k>>
  <2>1. \/ \E j \in a + 1 .. Len(h) : h[j].of = <<h[a].id, k>>
        \/ \E j \in 1 .. Len(pend) : pend[j].of = <<h[a].id, k>>
    BY <1>5 DEF AnswersComing
  <2>2. ASSUME NEW j \in a + 1 .. Len(h), h[j].of = <<h[a].id, k>>
        PROVE  \E i \in a + 1 .. Len(more) : more[i].of = <<more[a].id, k>>
    <3>1. j \in a + 1 .. Len(more) /\ j \in 1 .. Len(h)
      BY <1>2
    <3> QED BY <1>2, <1>5, <2>2, <3>1
  <2>3. ASSUME NEW j \in 1 .. Len(pend), pend[j].of = <<h[a].id, k>>, j = 1
        PROVE  \E i \in a + 1 .. Len(more) : more[i].of = <<more[a].id, k>>
    <3>1. Len(h) + 1 \in a + 1 .. Len(more)
      BY <1>2
    <3>2. more[Len(h) + 1].of = <<more[a].id, k>>
      BY <1>2, <1>5, <2>3
    <3> QED BY <3>1, <3>2
  <2>4. ASSUME NEW j \in 1 .. Len(pend), pend[j].of = <<h[a].id, k>>, j # 1
        PROVE  \E i \in 1 .. Len(rest) : rest[i].of = <<more[a].id, k>>
    <3>1. j - 1 \in 1 .. Len(rest) /\ (j - 1) + 1 = j
      BY <1>4, <2>4
    <3>2. rest[j - 1] = pend[j]
      BY <1>4, <3>1
    <3> QED BY <1>5, <2>4, <3>1, <3>2
  <2> QED BY <2>1, <2>2, <2>3, <2>4, Zenon
<1>7. ASSUME NEW p \in 1 .. Len(rest)
      PROVE  rest[p].uses = 0 /\ (rest[p].kind = "result" => rest[p].of[1] = more[a].id)
  <2>1. rest[p] = pend[p + 1] /\ p + 1 \in 1 .. Len(pend)
    BY <1>4
  <2>2. PICK i \in 1 .. Len(pend) : rest[p] = pend[i]
    BY <2>1
  <2>3. pend[i].uses = 0 /\ (pend[i].kind = "result" => pend[i].of[1] = h[a].id)
    BY Zenon DEF AnswersComing
  <2> QED BY <1>5, <2>2, <2>3, Zenon
<1>8. AnswersComing(more, a, rest)
  BY <1>6, <1>7, Zenon DEF AnswersComing
<1> QED BY <1>1, <1>3, <1>8

\* A failed append ends the turn and is remembered.
LEMMA SavedOrInterrupted ==
  ASSUME Types, NEW m \in Messages, NEW next, SaveMessage(m, next), interrupted' = FALSE
  PROVE  pc' = next /\ \E e \in Messages :
           /\ history' = Append(history, e)
           /\ e.kind = m.kind /\ e.uses = m.uses /\ e.of = m.of
<1>1. PICK hist \in Seq(Messages) : hist = history
  BY DEF Types, ConversationTypes
<1>2. PICK e \in Messages :
        /\ AppendMessage(hist, m) = Append(hist, e)
        /\ e.kind = m.kind /\ e.uses = m.uses /\ e.of = m.of
  BY LinkedTyped
<1>3. CASE Return("unsaved")
  <2>1. interrupted' = (interrupted \/ "unsaved" \in {"unsaved", "crashed"})
    BY <1>3 DEF Return
  <2>2. interrupted' = TRUE
    BY <2>1, Zenon
  <2> QED BY <2>2
<1>4. CASE ~Return("unsaved")
  BY <1>1, <1>2, <1>4 DEF SaveMessage, Save, WriteEntry
<1> QED BY <1>3, <1>4

\* One of the messages of the prompt is saved.
LEMMA PromptPaired ==
  ASSUME Types, Types', SessionInv, SessionInv', PairInv, interrupted' = FALSE, AppendPrompt
  PROVE  PairInv'
<1>1. PICK pend \in Seq(Messages) : pend = pending
  BY DEF Types, ConversationTypes
<1>2. PICK m \in Messages : m = Head(pend) /\ m = pend[1] /\ 1 \in 1 .. Len(pend)
  BY <1>1 DEF AppendPrompt
<1>3. /\ pc = "prompt" /\ SaveMessage(m, "prompt") /\ (pc' # "idle" => pending' = Tail(pend))
  BY <1>1, <1>2 DEF AppendPrompt
<1>4. Paired(history) /\ \A k \in 1 .. Len(pend) : pend[k].kind = "user" /\ pend[k].uses = 0
  BY <1>1, <1>3 DEF PairInv
<1>5. PICK e \in Messages : history' = Append(history, e) /\ e.kind = m.kind /\ e.uses = m.uses /\ pc' = "prompt"
  BY <1>3, SavedOrInterrupted
<1>6. e.uses = 0 /\ e.kind = "user"
  BY <1>2, <1>4, <1>5
<1>7. Paired(history') /\ Paired(Resumed')
  <2>1. LinkInv' /\ (AtEnd' \/ AtStart')
    BY <1>5 DEF SessionInv, HistoryInv
  <2>2. CASE AtEnd'
    BY <1>4, <1>5, <1>6, <2>1, <2>2, PairSaved
  <2>3. CASE AtStart'
    <3>1. PICK hist \in Seq(Messages) : hist = history
      BY DEF Types, ConversationTypes
    <3>2. Paired(history')
      BY <1>4, <1>5, <1>6, <3>1, PairedAppend
    <3> QED BY <2>3, <3>2 DEF AtStart
  <2> QED BY <2>1, <2>2, <2>3
<1>8. \A k \in 1 .. Len(pending') : pending'[k].kind = "user" /\ pending'[k].uses = 0
  <2>1. PICK rest \in Seq(Messages) : rest = Tail(pend)
    <3>1. Tail(pend) \in Seq(Messages)
      BY <1>2
    <3> QED BY <3>1, Zenon
  <2>2. \A k \in 1 .. Len(rest) : rest[k] = pend[k + 1] /\ k + 1 \in 1 .. Len(pend)
    BY <1>2, <2>1
  <2> QED BY <1>3, <1>4, <1>5, <2>1, <2>2, ZenonT(60)
<1> QED BY <1>5, <1>7, <1>8 DEF PairInv

\* A message that uses no tool is saved behind the prompt.
LEMMA PlainPaired ==
  ASSUME Types, Types', SessionInv', Paired(history), interrupted' = FALSE,
         NEW kind \in {"user", "assistant", "attachment"},
         NEW next \in {"done", "round", "finish"},
         SaveMessage(Message(nextId, kind, 0, <<0, 0>>), next)
  PROVE  PairInv'
<1>1. PICK first \in Nat : first = nextId
  BY DEF Types, DiskTypes
<1>2. 0 \in 0 .. MaxUses /\ <<0, 0>> \in Nat \X Nat /\ kind \in Kinds
  BY DEF Kinds
<1>3. PICK m \in Messages : m = Message(first, kind, 0, <<0, 0>>) /\ m.kind = kind /\ m.uses = 0
  <2>1. LET m == Message(first, kind, 0, <<0, 0>>) IN m \in Messages /\ m.kind = kind /\ m.uses = 0
    BY <1>2, MessageTyped
  <2> QED BY <2>1, Zenon
<1>4. PICK e \in Messages : history' = Append(history, e) /\ e.kind = kind /\ e.uses = 0 /\ pc' = next
  BY <1>1, <1>3, SavedOrInterrupted, ZenonT(60)
<1>5. LinkInv' /\ AtEnd'
  BY <1>4 DEF SessionInv, HistoryInv
<1>6. Paired(history') /\ Paired(Resumed')
  BY <1>4, <1>5, PairSaved
<1> QED BY <1>4, <1>6 DEF PairInv

\* The response is recorded.
LEMMA ResponsePaired ==
  ASSUME Types, Types', SessionInv', PairInv, interrupted' = FALSE, RecordAssistant
  PROVE  PairInv'
<1>1. pc = "record" /\ Paired(history)
  BY DEF RecordAssistant, PairInv
<1>2. PICK n \in 0 .. MaxUses : SaveMessage(Message(nextId, "assistant", n, <<0, 0>>), AfterResponse(n))
  BY DEF RecordAssistant
<1>3. CASE n = 0
  <2>1. AfterResponse(n) = "finish"
    BY <1>3 DEF AfterResponse
  <2>2. SaveMessage(Message(nextId, "assistant", 0, <<0, 0>>), "finish")
    BY <1>2, <1>3, <2>1
  <2> QED BY <1>1, <2>2, PlainPaired
<1>4. CASE n # 0
  <2>1. PICK first \in Nat : first = nextId
    BY DEF Types, DiskTypes
  <2>2. <<0, 0>> \in Nat \X Nat /\ "assistant" \in Kinds
    BY DEF Kinds
  <2>3. PICK m \in Messages : m = Message(first, "assistant", n, <<0, 0>>) /\ m.kind = "assistant"
    <3>1. LET m == Message(first, "assistant", n, <<0, 0>>) IN m \in Messages /\ m.kind = "assistant"
      BY <2>2, MessageTyped
    <3> QED BY <3>1, Zenon
  <2>4. AfterResponse(n) = "tools"
    BY <1>4 DEF AfterResponse
  <2>5. SaveMessage(m, "tools")
    BY <1>2, <2>1, <2>3, <2>4
  <2>6. PICK e \in Messages : history' = Append(history, e) /\ e.kind = "assistant" /\ pc' = "tools"
    BY <2>3, <2>5, SavedOrInterrupted
  <2>7. PICK hist \in Seq(Messages) : hist = history
    BY DEF Types, ConversationTypes
  <2>8. Spoke(Append(hist, e), Len(hist) + 1)
    BY <1>1, <2>6, <2>7, SpokeNow
  <2>9. Len(Append(hist, e)) = Len(hist) + 1
    OBVIOUS
  <2>10. Spoke(history', Len(history'))
    BY <2>6, <2>7, <2>8, <2>9, Zenon
  <2> QED BY <2>6, <2>10 DEF PairInv
<1> QED BY <1>3, <1>4

\* The tools ran.
LEMMA ToolsPaired ==
  ASSUME Types, Types', SessionInv, PairInv, interrupted' = FALSE, ExecuteToolUses
  PROVE  PairInv'
<1>1. PICK first \in Nat \ {0} : first = nextId
  BY DEF Types, DiskTypes
<1>2. PICK hist \in Seq(Messages) : hist = history
  BY DEF Types, ConversationTypes
<1>3. pc = "tools" /\ pc' = "results" /\ history' = hist
  BY <1>2 DEF ExecuteToolUses
<1>4. Spoke(hist, Len(hist)) /\ Len(hist) \in 1 .. Len(hist)
  <2>1. Spoke(hist, Len(hist))
    BY <1>2, <1>3 DEF PairInv
  <2> QED BY <2>1 DEF Spoke
<1>5. PICK last \in Messages : last = Last(history) /\ last = hist[Len(hist)]
  BY <1>2, <1>4 DEF Last
<1>6. PICK id \in Nat, uses \in Nat : id = last.id /\ uses = last.uses
  BY DEF Messages
<1>7. cancelled = FALSE
  <2>1. interrupted' = (interrupted \/ cancelled)
    BY DEF ExecuteToolUses
  <2> QED BY <2>1 DEF Types, ControlTypes
<1>8. PICK extra \in BOOLEAN : (extra => uses > 0) /\ pending' = Delivered(uses, extra, first, id)
  <2>1. ResultsDelivered(uses) = {uses}
    BY <1>7 DEF ResultsDelivered
  <2> QED BY <1>1, <1>5, <1>6, <2>1 DEF ExecuteToolUses, Delivered, WithExtra
<1>9. PICK pend : pend = pending'
  OBVIOUS
<1>10. Answers(pend, uses, extra, first, id)
  BY <1>8, <1>9, ResultsAre
<1>11. \A k \in 1 .. hist[Len(hist)].uses : \E j \in 1 .. Len(pend) : pend[j].of = <<hist[Len(hist)].id, k>>
  BY <1>5, <1>6, <1>10, Zenon DEF Answers
<1>12. \A p \in 1 .. Len(pend) : pend[p].uses = 0 /\ (pend[p].kind = "result" => pend[p].of[1] = hist[Len(hist)].id)
  BY <1>5, <1>6, <1>10, Zenon DEF Answers, ToAppend
<1>13. AnswersComing(hist, Len(hist), pend)
  BY <1>11, <1>12, Zenon DEF AnswersComing
<1>14. \E a \in 1 .. Len(history') : Spoke(history', a) /\ AnswersComing(history', a, pending')
  BY <1>3, <1>4, <1>9, <1>13, Zenon
<1> QED BY <1>3, <1>14 DEF PairInv

\* One of the results is saved.
LEMMA ResultPaired ==
  ASSUME Types, Types', SessionInv, PairInv, interrupted' = FALSE, AppendResult
  PROVE  PairInv'
<1>1. PICK pend \in Seq(Messages), hist \in Seq(Messages) : pend = pending /\ hist = history
  BY DEF Types, ConversationTypes
<1>2. PICK m \in Messages : m = Head(pend) /\ m = pend[1] /\ 1 \in 1 .. Len(pend)
  BY <1>1 DEF AppendResult
<1>3. pc = "results" /\ SaveMessage(m, "results") /\ (pc' # "idle" => pending' = Tail(pend))
  BY <1>1, <1>2 DEF AppendResult
<1>4. PICK a \in 1 .. Len(hist) : Spoke(hist, a) /\ AnswersComing(hist, a, pend)
  BY <1>1, <1>3 DEF PairInv
<1>5. PICK e \in Messages : /\ history' = Append(hist, e) /\ pc' = "results"
                            /\ e.kind = m.kind /\ e.uses = m.uses /\ e.of = m.of
  BY <1>1, <1>3, SavedOrInterrupted
<1>6. e.uses = 0 /\ (e.kind = "result" => e.of[1] = hist[a].id) /\ e.of = pend[1].of
  BY <1>2, <1>4, <1>5 DEF AnswersComing
<1>7. e.kind \in {"user", "result"}
  BY <1>1, <1>2, <1>5 DEF SessionInv, PendingInv
<1>8. Spoke(Append(hist, e), a)
  BY <1>4, <1>6, <1>7, SpokeAppend
<1>9. pend # <<>>
  BY <1>2
<1>10. AnswersComing(Append(hist, e), a, Tail(pend))
  BY <1>4, <1>6, <1>9, ComingAppend
<1>11. a \in 1 .. Len(Append(hist, e))
  OBVIOUS
<1>12. \E b \in 1 .. Len(history') : Spoke(history', b) /\ AnswersComing(history', b, pending')
  BY <1>3, <1>5, <1>8, <1>10, <1>11, Zenon
<1> QED BY <1>5, <1>12 DEF PairInv

\* All results are saved: the conversation is paired again.
LEMMA ResultsPaired ==
  ASSUME Types, SessionInv, PairInv, ResultsDone
  PROVE  PairInv'
<1>1. PICK hist \in Seq(Messages) : hist = history
  BY DEF Types, ConversationTypes
<1>2. /\ pc = "results" /\ pending = <<>> /\ pc' = "round" /\ history' = history
      /\ transcript' = transcript
  BY DEF ResultsDone, file
<1>3. PICK a \in 1 .. Len(hist) : Spoke(hist, a) /\ AnswersComing(hist, a, pending)
  BY <1>1, <1>2 DEF PairInv
<1>4. \A k \in 1 .. hist[a].uses : \E j \in a + 1 .. Len(hist) : hist[j].of = <<hist[a].id, k>>
  <2>1. Len(pending) = 0
    BY <1>2
  <2>2. ~ \E j \in 1 .. Len(pending) : TRUE
    BY <2>1
  <2> QED BY <1>3, <2>2, Zenon DEF AnswersComing
<1>5. Paired(hist)
  BY <1>3, <1>4, SpokePaired
<1>6. Speaker(Last(hist))
  <2>1. CASE a = Len(hist)
    BY <1>3, <2>1 DEF Spoke, Last, Speaker
  <2>2. CASE a # Len(hist)
    <3>1. Len(hist) \in a + 1 .. Len(hist)
      BY <2>2
    <3>2. hist[Len(hist)].kind \in {"user", "result"}
      BY <1>3, <3>1, Zenon DEF Spoke
    <3> QED BY <3>2 DEF Last, Speaker
  <2> QED BY <2>1, <2>2
<1>7. AtEnd
  BY <1>2 DEF SessionInv, HistoryInv
<1>8. Resumed = hist
  BY <1>1, <1>6, <1>7, ResumedNow
<1>9. Resumed' = hist
  BY <1>2, <1>8, SameTranscript
<1> QED BY <1>1, <1>2, <1>5, <1>9 DEF PairInv

\* A compaction is planned, and its boundary written.
LEMMA PlanPaired ==
  ASSUME Types, SessionInv, PairInv, KeepLast = 0, interrupted' = FALSE,
         AutoCompact \/ ManualCompact \/ AppendBoundary
  PROVE  PairInv'
<1>1. CASE AutoCompact \/ ManualCompact
  <2>1. PICK hist \in Seq(Messages) : history' = PlanOutput(hist) /\ pc' = "boundary"
    BY <1>1 DEF AutoCompact, ManualCompact, Compact, Types, ConversationTypes
  <2>2. PICK plan : plan = PlanOutput(hist)
    OBVIOUS
  <2>3. plan[1].uses = 0 /\ plan[2].uses = 0
    BY <2>2, PlanIs DEF Types, DiskTypes
  <2> QED BY <2>1, <2>2, <2>3 DEF PairInv
<1>2. CASE AppendBoundary
  <2>1. pc = "boundary" /\ Save(history[1], history, "summary")
    BY <1>2 DEF AppendBoundary
  <2>2. CASE Return("unsaved")
    <3>1. interrupted' = (interrupted \/ "unsaved" \in {"unsaved", "crashed"})
      BY <2>2 DEF Return
    <3>2. interrupted' = TRUE
      BY <3>1, Zenon
    <3> QED BY <3>2
  <2>3. CASE ~Return("unsaved")
    <3>1. pc' = "summary" /\ history' = history
      BY <2>1, <2>3 DEF Save, WriteEntry
    <3> QED BY <2>1, <3>1 DEF PairInv
  <2> QED BY <2>2, <2>3
<1> QED BY <1>1, <1>2

\* The summary is written: what the compaction left is paired.
LEMMA SummaryPaired ==
  ASSUME Types, Types', SessionInv, SessionInv', PairInv, interrupted' = FALSE, AppendSummary
  PROVE  PairInv'
<1>1. PICK to \in {"done", "delta"} : Save(history[2], history, to) /\ pc = "summary"
  BY DEF AppendSummary, SummaryEntry
<1>2. CASE Return("unsaved")
  <2>1. interrupted' = (interrupted \/ "unsaved" \in {"unsaved", "crashed"})
    BY <1>2 DEF Return
  <2>2. interrupted' = TRUE
    BY <2>1, Zenon
  <2> QED BY <2>2
<1>3. CASE ~Return("unsaved")
  <2>1. PICK hist \in Seq(Messages) : hist = history /\ history' = hist /\ pc' = to
    BY <1>1, <1>3 DEF Save, WriteEntry, Types, ConversationTypes
  <2>2. /\ Len(hist) = 2 /\ hist[1].kind = "boundary" /\ hist[2].kind = "summary"
        /\ hist[1].uses = 0 /\ hist[2].uses = 0
    BY <1>1, <2>1 DEF SessionInv, PlanInv, PairInv
  <2>3. \A i \in 1 .. Len(hist) : hist[i].uses = 0 /\ hist[i].kind # "result"
    BY <2>2
  <2>4. \A i \in 1 .. Len(hist) : \A k \in 1 .. hist[i].uses : AnsweredIn(hist, i, k)
    BY <2>3
  <2>5. Backed(hist)
    BY <2>3, Zenon DEF Backed
  <2>6. Paired(hist)
    BY <2>4, <2>5, PairedIs
  <2>7. AtEnd' /\ LinkInv'
    BY <2>1 DEF SessionInv, HistoryInv
  <2>8. Speaker(Last(history'))
    BY <2>1, <2>2 DEF Speaker, Last
  <2>9. Resumed' = hist
    BY <2>1, <2>7, <2>8, ResumedLater
  <2> QED BY <2>1, <2>6, <2>9 DEF PairInv
<1> QED BY <1>2, <1>3

\* A turn starts from what is resumed.
LEMMA StartPaired ==
  ASSUME Types, PairInv, StartTurn
  PROVE  PairInv'
<1>1. PICK first \in Nat \ {0} : first = nextId
  BY DEF Types, DiskTypes
<1>2. PICK n \in 1 .. MaxPrompt : pending' = [k \in 1 .. n |-> User(first + k - 1)]
  BY <1>1 DEF StartTurn
<1>3. history' = Resumed /\ pc = "idle" /\ pc' = "prompt" /\ transcript' = transcript
  BY DEF StartTurn, file
<1>4. Paired(Resumed) /\ Resumed' = Resumed
  BY <1>3, SameTranscript DEF PairInv
<1> DEFINE e(k) == User(first + k - 1)
<1>5. ASSUME NEW k \in 1 .. n PROVE e(k) \in Messages /\ e(k).kind = "user" /\ e(k).uses = 0
  <2>1. first + k - 1 \in Nat
    OBVIOUS
  <2> QED BY <2>1, UserTyped
<1> HIDE DEF e
<1>6. \A k \in 1 .. Len(pending') : pending'[k].kind = "user" /\ pending'[k].uses = 0
  <2>1. Len([k \in 1 .. n |-> e(k)]) = n
    BY <1>5
  <2>2. \A k \in 1 .. n : [j \in 1 .. n |-> e(j)][k] = e(k)
    OBVIOUS
  <2>3. pending' = [k \in 1 .. n |-> e(k)]
    BY <1>2 DEF e
  <2> QED BY <1>5, <2>1, <2>2, <2>3, Zenon
<1> QED BY <1>3, <1>4, <1>6 DEF PairInv

\* Every step that does not cut a turn short keeps the session paired.
LEMMA PairStep ==
  ASSUME KeepLast = 0, Types, Types', SessionInv, SessionInv', PairInv, interrupted' = FALSE, [Next]_vars
  PROVE  PairInv'
<1>1. CASE LocalText
  <2>1. Paired(history) /\ SaveMessage(Message(nextId, "user", 0, <<0, 0>>), "done")
    BY <1>1 DEF LocalText, PairInv, User
  <2> QED BY <2>1, PlainPaired
<1>2. CASE AppendDelta
  <2>1. Paired(history) /\ SaveMessage(Message(nextId, "attachment", 0, <<0, 0>>), "round")
    BY <1>2 DEF AppendDelta, PairInv
  <2> QED BY <2>1, PlainPaired
<1>3. CASE \/ Done \/ Fail \/ RoundsExceeded \/ SendFails \/ Finish
           \/ PromptDone /\ turn = "clear" /\ Return("ok")
  <2>1. /\ pc \notin {"idle", "tools", "results", "boundary", "summary"}
        /\ pc' = "idle" /\ transcript' = transcript
    BY <1>3 DEF Done, Fail, RoundsExceeded, SendFails, Finish, PromptDone, Return, file
  <2>2. Resumed' = Resumed
    BY <2>1, SameTranscript
  <2> QED BY <2>1, <2>2 DEF PairInv
<1>4. CASE Crash
  <2>1. interrupted' = (interrupted \/ "crashed" \in {"unsaved", "crashed"})
    BY <1>4 DEF Crash, Return
  <2>2. interrupted' = TRUE
    BY <2>1, Zenon
  <2> QED BY <2>2
<1>5. CASE \/ PromptDone /\ ~(turn = "clear" /\ Return("ok"))
           \/ AutoCompactSkip \/ AutoCompactFails \/ NoDelta \/ StartRound \/ Stream \/ Unary
           \/ RetryFallback
  <2>1. /\ pc \in {"prompt", "autocompact", "delta", "round", "send", "failed"}
        /\ pc' \in {"autocompact", "localText", "compact", "delta", "round", "send", "record", "failed"}
        /\ UNCHANGED <<transcript, history>>
    BY <1>5 DEF PromptDone, AutoCompactSkip, AutoCompactFails, NoDelta, StartRound, Stream, Unary, MayFallBack,
                RetryFallback, Goto, locals, file, sendFrame
  <2>2. Resumed' = Resumed
    BY <2>1, SameTranscript
  <2> QED BY <2>1, <2>2 DEF PairInv
<1>6. CASE RefuseTurn \/ Cancel \/ UNCHANGED vars
  <2>1. UNCHANGED <<transcript, history, pending, pc>>
    BY <1>6 DEF RefuseTurn, Cancel, vars, locals, file
  <2>2. Resumed' = Resumed
    BY <2>1, SameTranscript
  <2> QED BY <2>1, <2>2 DEF PairInv
<1> QED BY <1>1, <1>2, <1>3, <1>4, <1>5, <1>6, PromptPaired, ResponsePaired, ToolsPaired, ResultPaired,
           ResultsPaired, PlanPaired, SummaryPaired, StartPaired DEF Next, RunTurn

\* An interrupted session stays one.
LEMMA StaysInterrupted ==
  ASSUME interrupted = TRUE, [Next]_vars
  PROVE  interrupted' = TRUE
<1>1. ASSUME NEW how, Return(how) PROVE interrupted' = TRUE
  <2>1. interrupted' = (interrupted \/ how \in {"unsaved", "crashed"})
    BY <1>1 DEF Return
  <2> QED BY <2>1, Zenon
<1>2. ASSUME NEW m, NEW hist, NEW next, Save(m, hist, next) PROVE interrupted' = TRUE
  BY <1>1, <1>2 DEF Save, WriteEntry
<1>3. CASE \/ AppendPrompt \/ LocalText \/ AppendBoundary \/ AppendSummary \/ AppendDelta
           \/ RecordAssistant \/ AppendResult
  BY <1>2, <1>3 DEF AppendPrompt, LocalText, AppendBoundary, AppendSummary, AppendDelta,
                    RecordAssistant, AppendResult, SaveMessage
<1>4. CASE ExecuteToolUses
  <2>1. interrupted' = (interrupted \/ cancelled)
    BY <1>4 DEF ExecuteToolUses
  <2> QED BY <2>1, Zenon
<1>5. CASE Done \/ Fail \/ RoundsExceeded \/ SendFails \/ Finish \/ Crash \/ PromptDone
  BY <1>1, <1>5 DEF Done, Fail, RoundsExceeded, SendFails, Finish, Crash, PromptDone, Goto
<1>6. CASE interrupted' = interrupted
  BY <1>6
<1> QED BY <1>3, <1>4, <1>5, <1>6 DEF Next, RunTurn, vars, Goto, sendFrame, StartTurn, RefuseTurn, Cancel,
     AutoCompactSkip, AutoCompactFails, AutoCompact, ManualCompact, Compact, NoDelta, StartRound, Stream,
     Unary, RetryFallback, ResultsDone

UninterruptedInv == interrupted = TRUE \/ (SessionInv /\ PairInv)

\* No request is sent with a tool use that has no result, or a result without its use,
\* in a session none of whose turns was killed, cancelled or could not append: each
\* turn leaves a paired conversation, and BuildResumeConversation restores it for the
\* next.  For every number of turns, rounds and uses, torn writes included; for the
\* KeepLast that every caller uses.
THEOREM UnpairedNeedsInterruption ==
  ASSUME KeepLast = 0
  PROVE  Spec => []UnpairedOnlyIfInterrupted
<1>1. Init => Types /\ UninterruptedInv
  <2> SUFFICES ASSUME Init PROVE Types /\ UninterruptedInv
    OBVIOUS
  <2>1. Types /\ SessionInv
    BY InitTypes, InitSession
  <2>2. pc = "idle" /\ transcript = <<>>
    BY DEF Init
  <2>3. Resumed = <<>>
    <3>1. Live = <<>>
      BY <2>1, <2>2, LiveSeq
    <3>2. PICK live \in Seq(Messages) : live = Live /\ Len(live) = 0
      BY <2>1, <3>1, LiveSeq
    <3>3. ResumedOf(live) = <<>>
      <4>1. \A k \in 1 .. Len(live) : FALSE
        BY <3>2
      <4>2. ResumedOf(live) # <<>> => \E k \in 1 .. Len(live) : ResumedOf(live) = ChainTo(live)[k]
        BY ResumeAny
      <4> QED BY <4>1, <4>2, Zenon
    <3> QED BY <3>2, <3>3, ResumedIs
  <2>4. Paired(<<>>)
    <3>1. DOMAIN <<>> = {} /\ \A j : j \notin DOMAIN <<>>
      OBVIOUS
    <3> QED BY <3>1, Zenon DEF Paired
  <2>5. PairInv
    BY <2>2, <2>3, <2>4 DEF PairInv
  <2> QED BY <2>1, <2>5 DEF UninterruptedInv
<1>2. Types /\ ControlInv /\ UninterruptedInv /\ [Next]_vars => Types' /\ UninterruptedInv'
  <2> SUFFICES ASSUME Types, ControlInv, UninterruptedInv, [Next]_vars
               PROVE  Types' /\ UninterruptedInv'
    OBVIOUS
  <2>1. Types'
    BY TypesStep
  <2>2. CASE interrupted = TRUE
    BY <2>1, <2>2, StaysInterrupted DEF UninterruptedInv
  <2>3. CASE SessionInv /\ PairInv /\ interrupted' = FALSE
    <3>1. torn' = FALSE
      BY <2>3, NotTorn
    <3>2. SessionInv'
      BY <2>3, <3>1, SessionStep
    <3>3. PairInv'
      BY <2>1, <2>3, <3>2, PairStep
    <3> QED BY <2>1, <3>2, <3>3 DEF UninterruptedInv
  <2>4. interrupted' \in BOOLEAN
    BY <2>1 DEF Types, ControlTypes
  <2> QED BY <2>1, <2>2, <2>3, <2>4 DEF UninterruptedInv
<1>3. Types /\ UninterruptedInv => UnpairedOnlyIfInterrupted
  BY DEF UninterruptedInv, PairInv, UnpairedOnlyIfInterrupted, Types, ControlTypes
<1> QED BY <1>1, <1>2, <1>3, Control, PTL DEF Spec

-----------------------------------------------------------------------------
(* Progress: a turn takes finitely many steps.  What is left of one is told *)
(* by four numbers, the earlier the more important: the phase, the rounds  *)
(* left, the place in the round, and the messages still to be appended or  *)
(* the attempts to send that are left.                                     *)

Phase(at) ==
  CASE at = "prompt" -> 8
    [] at \in {"localText", "autocompact", "compact"} -> 7
    [] at = "boundary" -> 6
    [] at = "summary" -> 5
    [] at = "delta" -> 4
    [] at \in {"round", "send", "failed", "record", "tools", "results"} -> 3
    [] at = "finish" -> 2
    [] at = "done" -> 1
    [] at = "idle" -> 0

RoundsLeft == MaxToolRounds - round

Place(at) ==
  CASE at = "round" -> 4
    [] at \in {"send", "failed"} -> 3
    [] at = "record" -> 2
    [] at = "tools" -> 1
    [] OTHER -> 0

ItemsLeft ==
  CASE pc \in {"prompt", "results"} -> Len(pending)
    [] pc = "send" -> 2 * (NumModels - model) + 1
    [] pc = "failed" -> 2 * (NumModels - model)
    [] OTHER -> 0

\* A step within a turn: it comes closer to its end, or the caller cancels it.
TurnForward ==
  \/ Phase(pc') < Phase(pc)
  \/ /\ Phase(pc') = Phase(pc)
     /\ \/ RoundsLeft' < RoundsLeft
        \/ /\ RoundsLeft' = RoundsLeft
           /\ \/ Place(pc') < Place(pc)
              \/ Place(pc') = Place(pc) /\ ItemsLeft' < ItemsLeft
              \/ UNCHANGED <<pc, round, pending, model>> /\ cancelled = FALSE /\ cancelled' = TRUE

LEMMA EndForward == ASSUME TypeOK, pc # "idle", pc' = "idle" PROVE TurnForward
<1>1. Phase(pc) \in 1 .. 8 /\ Phase(pc') = 0
  BY DEF TypeOK, Phase
<1> QED BY <1>1 DEF TurnForward

\* The steps that begin the next phase.
LEMMA PhaseForward ==
  ASSUME \/ pc = "prompt" /\ pc' \in {"autocompact", "localText", "compact"}
         \/ pc = "localText" /\ pc' = "done"
         \/ pc = "autocompact" /\ pc' \in {"delta", "boundary"}
         \/ pc = "compact" /\ pc' = "boundary"
         \/ pc = "boundary" /\ pc' = "summary"
         \/ pc = "summary" /\ pc' \in {"done", "delta"}
         \/ pc = "delta" /\ pc' = "round"
         \/ pc = "record" /\ pc' = "finish"
  PROVE  TurnForward
<1>1. Phase(pc') < Phase(pc)
  BY DEF Phase
<1> QED BY <1>1 DEF TurnForward

\* The steps to the next place of a round.
LEMMA PlaceForward ==
  ASSUME \/ pc = "round" /\ pc' = "send"
         \/ pc \in {"send", "failed"} /\ pc' = "record"
         \/ pc = "record" /\ pc' = "tools"
         \/ pc = "tools" /\ pc' = "results",
         round' = round
  PROVE  TurnForward
<1>1. Phase(pc') = Phase(pc) /\ Place(pc') < Place(pc)
  BY DEF Phase, Place
<1>2. RoundsLeft' = RoundsLeft
  BY DEF RoundsLeft
<1> QED BY <1>1, <1>2 DEF TurnForward

\* One message is appended.
LEMMA ItemForward ==
  ASSUME TypeOK, pc \in {"prompt", "results"}, pending # <<>>, pc' = pc, round' = round,
         pending' = Tail(pending)
  PROVE  TurnForward
<1>1. Len(pending') < Len(pending)
  BY DEF TypeOK
<1>2. ItemsLeft' < ItemsLeft
  BY <1>1 DEF ItemsLeft
<1>3. RoundsLeft' = RoundsLeft
  BY DEF RoundsLeft
<1> QED BY <1>2, <1>3 DEF TurnForward

\* An attempt fails, or the next model is tried.
LEMMA AttemptForward ==
  ASSUME TypeOK, round' = round,
         \/ pc = "send" /\ pc' = "failed" /\ model' = model
         \/ pc = "failed" /\ pc' = "send" /\ model' = model + 1
  PROVE  TurnForward
<1>1. Phase(pc') = Phase(pc) /\ Place(pc') = Place(pc)
  BY DEF Phase, Place
<1>2. ItemsLeft' < ItemsLeft
  <2> DEFINE left == NumModels - model
  <2>1. model \in Int /\ NumModels \in Int
    BY DEF TypeOK
  <2>2. CASE pc = "send" /\ pc' = "failed" /\ model' = model
    <3>1. ItemsLeft = 2 * left + 1 /\ ItemsLeft' = 2 * left
      BY <2>2 DEF ItemsLeft
    <3> QED BY <2>1, <3>1
  <2>3. CASE pc = "failed" /\ pc' = "send" /\ model' = model + 1
    <3>1. ItemsLeft = 2 * left /\ ItemsLeft' = 2 * (NumModels - (model + 1)) + 1
      BY <2>3 DEF ItemsLeft
    <3> QED BY <2>1, <3>1
  <2> QED BY <2>2, <2>3
<1>3. RoundsLeft' = RoundsLeft
  BY DEF RoundsLeft
<1> QED BY <1>1, <1>2, <1>3 DEF TurnForward

LEMMA ForwardStep == ASSUME TypeOK, Next, pc # "idle" PROVE TurnForward
<1>e. ASSUME NEW how, Return(how) PROVE TurnForward
  BY <1>e, EndForward DEF Return
<1>1. CASE AppendPrompt \/ AppendResult
  <2>1. PICK next \in {"prompt", "results"} :
          pc = next /\ pending # <<>> /\ SaveMessage(Head(pending), next)
          /\ (pc' # "idle" => pending' = Tail(pending))
    BY <1>1 DEF AppendPrompt, AppendResult
  <2>2. (pc' = next /\ round' = round) \/ pc' = "idle"
    BY <2>1, SaveMessageControl
  <2>3. CASE pc' = "idle"
    BY <2>3, EndForward
  <2>4. CASE pc' # "idle"
    BY <2>1, <2>2, <2>4, ItemForward
  <2> QED BY <2>3, <2>4
<1>2. CASE LocalText \/ AppendDelta \/ RecordAssistant
  <2>1. PICK m, next : /\ SaveMessage(m, next)
                       /\ \/ pc = "localText" /\ next = "done"
                          \/ pc = "delta" /\ next = "round"
                          \/ pc = "record" /\ next \in {"finish", "tools"}
    BY <1>2 DEF LocalText, AppendDelta, RecordAssistant, AfterResponse
  <2>2. (pc' = next /\ round' = round) \/ pc' = "idle"
    BY <2>1, SaveMessageControl
  <2> QED BY <2>1, <2>2, EndForward, PhaseForward, PlaceForward
<1>3. CASE AppendBoundary \/ AppendSummary
  <2>1. PICK m, next : /\ Save(m, history, next)
                       /\ \/ pc = "boundary" /\ next = "summary"
                          \/ pc = "summary" /\ next \in {"done", "delta"}
    BY <1>3 DEF AppendBoundary, AppendSummary
  <2>2. pc' = next \/ pc' = "idle"
    BY <2>1, SaveControl
  <2> QED BY <2>1, <2>2, EndForward, PhaseForward
<1>4. CASE PromptDone
  BY <1>4, <1>e, PhaseForward DEF PromptDone, Goto
<1>5. CASE Done \/ Fail \/ RoundsExceeded \/ SendFails \/ Finish \/ Crash
  BY <1>5, <1>e DEF Done, Fail, RoundsExceeded, SendFails, Finish, Crash
<1>6. CASE AutoCompactSkip \/ AutoCompactFails \/ AutoCompact \/ ManualCompact \/ NoDelta
  BY <1>6, PhaseForward DEF AutoCompactSkip, AutoCompactFails, AutoCompact, ManualCompact, NoDelta, Goto, Compact
<1>7. CASE StartRound \/ ExecuteToolUses
  BY <1>7, PlaceForward DEF StartRound, ExecuteToolUses, Goto, locals
<1>8. CASE Stream \/ Unary
  <2>1. pc = "send" /\ pc' \in {"record", "failed"} /\ UNCHANGED <<model, round>>
    BY <1>8 DEF Stream, Unary, MayFallBack, sendFrame, locals
  <2> QED BY <2>1, PlaceForward, AttemptForward
<1>9. CASE RetryFallback
  <2>1. pc = "failed" /\ pc' = "send" /\ model' = model + 1 /\ UNCHANGED round
    BY <1>9 DEF RetryFallback, NextModel, sendFrame, locals
  <2> QED BY <2>1, AttemptForward
<1>10. CASE ResultsDone
  <2>1. Phase(pc') = Phase(pc)
    BY <1>10 DEF ResultsDone, Phase
  <2>2. RoundsLeft' < RoundsLeft
    BY <1>10 DEF ResultsDone, RoundsLeft, TypeOK
  <2> QED BY <2>1, <2>2 DEF TurnForward
<1>11. CASE Cancel
  <2>1. UNCHANGED <<pc, round, pending, model>> /\ cancelled = FALSE /\ cancelled' = TRUE
    BY <1>11 DEF Cancel, locals, request, TypeOK
  <2>2. RoundsLeft' = RoundsLeft
    BY <2>1 DEF RoundsLeft
  <2> QED BY <2>1, <2>2 DEF TurnForward
<1> QED
  BY <1>1, <1>2, <1>3, <1>4, <1>5, <1>6, <1>7, <1>8, <1>9, <1>10, <1>11
  DEF Next, RunTurn, StartTurn, RefuseTurn

LEMMA LeftIsNat ==
  TypeOK => Phase(pc) \in 0 .. 8 /\ RoundsLeft \in 0 .. MaxToolRounds /\ Place(pc) \in 0 .. 4 /\ ItemsLeft \in Nat
<1> SUFFICES ASSUME TypeOK
             PROVE  Phase(pc) \in 0 .. 8 /\ RoundsLeft \in 0 .. MaxToolRounds /\ Place(pc) \in 0 .. 4 /\ ItemsLeft \in Nat
  OBVIOUS
<1>1. Phase(pc) \in 0 .. 8
  BY DEF TypeOK, Phase
<1>2. RoundsLeft \in 0 .. MaxToolRounds
  BY DEF TypeOK, RoundsLeft
<1>3. Place(pc) \in 0 .. 4
  BY DEF Place
<1>4. ItemsLeft \in Nat
  <2>1. Len(pending) \in Nat /\ NumModels - model \in Nat
    BY DEF TypeOK
  <2>2. 2 * (NumModels - model) \in Nat /\ 2 * (NumModels - model) + 1 \in Nat
    BY <2>1
  <2> QED BY <2>1, <2>2 DEF ItemsLeft
<1> QED BY <1>1, <1>2, <1>3, <1>4

\* Every step within a turn comes closer to its end, apart from the one that
\* cancels it: for every limit of rounds, any number of models, tool uses and
\* messages, and whatever fails, RunTurn does not go round for ever (run.go).
THEOREM TurnIsFinite ==
  Spec => /\ [](Phase(pc) \in 0 .. 8 /\ RoundsLeft \in 0 .. MaxToolRounds /\ Place(pc) \in 0 .. 4 /\ ItemsLeft \in Nat)
          /\ [][pc # "idle" => TurnForward]_vars
<1>1. TypeOK /\ [Next]_vars => [pc # "idle" => TurnForward]_vars
  BY ForwardStep
<1> QED BY <1>1, LeftIsNat, TurnLoopTypes, PTL DEF Spec
=============================================================================
