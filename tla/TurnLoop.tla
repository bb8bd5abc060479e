------------------------------ MODULE TurnLoop ------------------------------
(***************************************************************************)
(* Runner.RunTurn of internal/conversation/run.go together with what makes *)
(* a session survive its process: the JSONL transcript RunTurn appends to, *)
(* compaction (internal/compact), and BuildResumeConversation of           *)
(* internal/session, from which the next turn starts.  The process may be  *)
(* killed between any two steps and an append may fail.                    *)
(*                                                                         *)
(* A message is its identity, its parent and what the properties need to   *)
(* know of its content: the number of tool uses of an assistant message,   *)
(* the tool use a result answers.                                          *)
(***************************************************************************)
EXTENDS Integers, Sequences, SequencesExt, FiniteSetsExt

CONSTANTS MaxTurns,      \* bound: turns of the session
          MaxToolRounds, \* Runner.maxToolRounds
          NumModels,     \* the model and its fallbacks
          MaxUses,       \* bound: tool uses of one response
          MaxPrompt,     \* bound: messages a slash command expands to
          KeepLast,      \* AutoConfig.KeepLast
          ForceCompact,  \* AutoConfig.Force
          FailureLimit,  \* AutoConfig.MaxConsecutiveFailures
          TornWrites     \* a failed append may leave a part of its line behind

ASSUME BoundsAssumption ==
  /\ MaxTurns \in Nat /\ MaxUses \in Nat /\ KeepLast \in Nat
  /\ MaxPrompt \in Nat \ {0} /\ MaxToolRounds \in Nat \ {0}
  /\ NumModels \in Nat \ {0} /\ FailureLimit \in Nat \ {0}
  /\ ForceCompact \in BOOLEAN /\ TornWrites \in BOOLEAN

VARIABLES
  pc,          \* control point of RunTurn, "idle" between turns
  turn,        \* what the prompt asks for
  turns,       \* turns started
  original,    \* originalHistory
  history,     \* the conversation of the running turn
  pending,     \* messages still to be appended
  round, model,
  shown,       \* stream events were emitted since the last EventRetry
  via,         \* how the response was obtained
  failures,    \* ConsecutiveFailures
  status,      \* how the last turn ended
  cancelled,   \* the context of the turn is done
  transcript,  \* the lines of the file LoadTranscript can parse
  torn,        \* the file ends in a line without its end
  nextId,      \* contracts.NewID
  interrupted  \* history: a turn was killed, cancelled or could not append

vars == <<pc, turn, turns, original, history, pending, round, model, shown, via,
          failures, status, cancelled, transcript, torn, nextId, interrupted>>

request == <<model, shown, via>>
locals  == <<original, history, pending, round>>
file    == <<transcript, torn>>

TurnKind == {"query", "blocked", "local", "clear", "compact"}

Message(id, kind, uses, of) ==
  [id |-> id, parent |-> 0, kind |-> kind, uses |-> uses, of |-> of]

User(id) == Message(id, "user", 0, <<0, 0>>)

Init ==
  /\ pc = "idle" /\ turn = "query" /\ turns = 0
  /\ original = <<>> /\ history = <<>> /\ pending = <<>>
  /\ round = 0 /\ model = 1 /\ shown = FALSE /\ via = "none"
  /\ failures = 0 /\ status = "none" /\ cancelled = FALSE
  /\ transcript = <<>> /\ torn = FALSE
  /\ nextId = 1 /\ interrupted = FALSE

-----------------------------------------------------------------------------
(* LoadTranscript and BuildResumeConversation *)

\* The entries from the last compact boundary on.  No code writes a
\* PreservedSegment, so nothing before the boundary is kept.
Live ==
  LET boundaries == {i \in DOMAIN transcript : transcript[i].kind = "boundary"}
  IN  IF boundaries = {} THEN transcript
      ELSE SubSeq(transcript, Max(boundaries), Len(transcript))

\* The position of the parent of entry i, 0 when it has none or it is gone.
ParentAt(live, i) ==
  LET at == {j \in 1 .. i - 1 : live[j].id = live[i].parent}
  IN  IF at = {} THEN 0 ELSE Max(at)

\* From an entry upwards to the first message of the user or the assistant.
SpeakerAt(live) ==
  LET up[i \in 0 .. Len(live)] ==
        IF i = 0 \/ live[i].kind \notin {"boundary", "attachment"} THEN i
        ELSE up[ParentAt(live, i)]
  IN  up

\* computeLeafUUIDs: where the entries without a child lead.
Leaves(live) ==
  LET childless == {i \in DOMAIN live : \A j \in DOMAIN live : live[j].parent # live[i].id}
  IN  {SpeakerAt(live)[i] : i \in childless} \ {0}

\* BuildConversationChain.
ChainTo(live) ==
  LET chain[i \in 0 .. Len(live)] ==
        IF i = 0 THEN <<>> ELSE Append(chain[ParentAt(live, i)], live[i])
  IN  chain

\* The messages of BuildResumeConversation(path, ""): the chain that ends in the
\* latest leaf.  Empty when none is found.
Resumed ==
  IF Leaves(Live) = {} THEN <<>> ELSE ChainTo(Live)[Max(Leaves(Live))]

-----------------------------------------------------------------------------
(* Appending *)

\* appendMessage: the message is linked to the one before it.
AppendMessage(hist, m) ==
  Append(hist, IF hist = <<>> THEN m ELSE [m EXCEPT !.parent = Last(hist).id])

\* The request of a round is forgotten.
ClearRequest == model' = 1 /\ shown' = FALSE /\ via' = "none"

\* RunTurn returns: its variables are gone.
Return(how) ==
  /\ pc' = "idle"
  /\ status' = how
  /\ interrupted' = (interrupted \/ how \in {"unsaved", "crashed"})
  /\ original' = <<>> /\ history' = <<>> /\ pending' = <<>> /\ round' = 0
  /\ ClearRequest
  /\ cancelled' = FALSE

\* session.Append of m, after which the conversation is hist.  What follows an
\* unfinished line is part of that line and cannot be parsed.  An error ends the
\* turn.
WriteEntry(m, hist, next) ==
  \/ /\ IF torn THEN UNCHANGED transcript ELSE transcript' = Append(transcript, m)
     /\ torn' = FALSE
     /\ pc' = next /\ history' = hist
     /\ ClearRequest
     /\ UNCHANGED <<original, round, status, cancelled, interrupted>>
  \/ /\ torn' \in IF TornWrites THEN {torn, TRUE} ELSE {torn}
     /\ Return("unsaved")
     /\ UNCHANGED transcript

\* Fault: the error of the write is dropped.
SaveFault(m, hist, next) ==
  /\ transcript' \in {transcript, Append(transcript, m)}
  /\ pc' = next /\ history' = hist
  /\ ClearRequest
  /\ UNCHANGED <<torn, original, round, status, cancelled, interrupted>>

Save(m, hist, next) == WriteEntry(m, hist, next)

SaveMessage(m, next) ==
  LET hist == AppendMessage(history, m) IN Save(Last(hist), hist, next)

-----------------------------------------------------------------------------
(* Before the first request *)

\* resumeHistory and the head of RunTurn.  Each turn starts from the transcript;
\* a new process also starts with a new AutoConfig.
StartTurn ==
  /\ pc = "idle" /\ turns < MaxTurns
  /\ transcript # <<>> => Resumed # <<>>
  /\ original' = Resumed /\ history' = Resumed
  /\ failures' \in {0, failures}
  /\ turns' = turns + 1
  /\ turn' \in TurnKind
  /\ \E n \in 1 .. MaxPrompt :
       /\ pending' = [k \in 1 .. n |-> User(nextId + k - 1)]
       /\ nextId' = nextId + n
  /\ pc' = "prompt" /\ status' = "none"
  /\ UNCHANGED <<round, request, cancelled, file, interrupted>>

\* A slash command or a UserPromptSubmit hook fails before anything is appended,
\* or there is nothing to resume.
RefuseTurn ==
  /\ pc = "idle" /\ turns < MaxTurns
  /\ turns' = turns + 1
  /\ status' = "refused"
  /\ UNCHANGED <<pc, turn, locals, request, failures, cancelled, file, nextId,
                 interrupted>>

\* One of the messages of the prompt.
AppendPrompt ==
  /\ pc = "prompt" /\ pending # <<>>
  /\ SaveMessage(Head(pending), "prompt")
  /\ pc' # "idle" => pending' = Tail(pending)
  /\ UNCHANGED <<turn, turns, failures, nextId>>

Goto(next) ==
  /\ pc' = next
  /\ UNCHANGED <<locals, request, status, cancelled, interrupted>>

\* The prompt is in place: a query goes on, local commands return or say one
\* more thing.
PromptDone ==
  /\ pc = "prompt" /\ pending = <<>>
  /\ \/ turn = "query" /\ Goto("autocompact")
     \/ turn \in {"blocked", "local"} /\ Goto("localText")
     \/ turn = "compact" /\ Goto("compact")
     \/ turn = "clear" /\ Return("ok")
  /\ UNCHANGED <<turn, turns, failures, file, nextId>>

\* appendLocalTextResult.
LocalText ==
  /\ pc = "localText"
  /\ SaveMessage(User(nextId), "done")
  /\ nextId' = nextId + 1
  /\ pc' # "idle" => UNCHANGED pending
  /\ UNCHANGED <<turn, turns, failures>>

\* return result, nil
Done ==
  /\ pc = "done"
  /\ Return("ok")
  /\ UNCHANGED <<turn, turns, failures, file, nextId>>

\* A local command, MCP or tool set-up, a hook, the construction of the request
\* or the session summary that follows a compaction: RunTurn returns an error.
Fail ==
  /\ \/ pc \in {"localText", "autocompact", "compact", "delta", "send", "finish"}
     \/ pc = "done" /\ turn = "compact"
  /\ Return("error")
  /\ UNCHANGED <<turn, turns, failures, file, nextId>>

-----------------------------------------------------------------------------
(* Compaction *)

\* Fault: one failure too many is tolerated.
BreakerOpenFault == failures > FailureLimit

\* FailureLimitReached
BreakerOpen == failures >= FailureLimit

\* BuildPlan: the boundary, the summary, and the last messages re-parented.
PlanOutput(hist) ==
  LET keep == IF KeepLast > Len(hist) THEN Len(hist) ELSE KeepLast
      boundary == Message(nextId, "boundary", 0, <<0, 0>>)
      summary  == [Message(nextId + 1, "summary", 0, <<0, 0>>) EXCEPT !.parent = nextId]
      kept     == SubSeq(hist, Len(hist) - keep + 1, Len(hist))
  IN  <<boundary, summary>> \o
        [k \in DOMAIN kept |->
           [kept[k] EXCEPT !.parent = IF k = 1 THEN nextId + 1 ELSE kept[k - 1].id]]

\* Not due, below the threshold, or a PreCompact hook blocks or fails.
AutoCompactSkip ==
  /\ pc = "autocompact"
  /\ Goto("delta")
  /\ UNCHANGED <<turn, turns, failures, file, nextId>>

AutoCompactFails ==
  /\ pc = "autocompact"
  /\ ForceCompact \/ ~BreakerOpen
  /\ failures' = failures + 1
  /\ Goto("delta")
  /\ UNCHANGED <<turn, turns, file, nextId>>

\* The plan replaces the conversation hist and is then written.
Compact(hist) ==
  /\ history' = PlanOutput(hist)
  /\ nextId' = nextId + 2
  /\ pc' = "boundary"
  /\ UNCHANGED <<turn, turns, original, pending, round, request, status, cancelled,
                 file, interrupted>>

AutoCompact ==
  /\ pc = "autocompact"
  /\ ForceCompact \/ ~BreakerOpen
  /\ failures' = 0
  /\ Compact(history)

\* The /compact command compacts the conversation before the command.  RunTurn
\* does not use its history again: the conversation goes on from the plan.
ManualCompact ==
  /\ pc = "compact"
  /\ Compact(original)
  /\ UNCHANGED failures

\* appendCompactTranscript, first and second append.
AppendBoundary ==
  /\ pc = "boundary"
  /\ Save(history[1], history, "summary")
  /\ pc' # "idle" => UNCHANGED pending
  /\ UNCHANGED <<turn, turns, failures, nextId>>

\* Fault: the boundary is written twice.
SummaryEntryFault == history[1]

SummaryEntry == history[2]

AppendSummary ==
  /\ pc = "summary"
  /\ Save(SummaryEntry, history, IF turn = "compact" THEN "done" ELSE "delta")
  /\ pc' # "idle" => UNCHANGED pending
  /\ UNCHANGED <<turn, turns, failures, nextId>>

\* maybeAppendDeferredToolsDeltaAttachment: nothing to announce, or an attachment.
NoDelta ==
  /\ pc = "delta"
  /\ Goto("round")
  /\ UNCHANGED <<turn, turns, failures, file, nextId>>

AppendDelta ==
  /\ pc = "delta"
  /\ SaveMessage(Message(nextId, "attachment", 0, <<0, 0>>), "round")
  /\ nextId' = nextId + 1
  /\ pc' # "idle" => UNCHANGED pending
  /\ UNCHANGED <<turn, turns, failures>>

-----------------------------------------------------------------------------
(* send and createMessage *)

RoundsExceeded ==
  /\ pc = "round" /\ round >= MaxToolRounds
  /\ Return("error")
  /\ UNCHANGED <<turn, turns, failures, file, nextId>>

StartRound ==
  /\ pc = "round" /\ round < MaxToolRounds
  /\ Goto("send")
  /\ UNCHANGED <<turn, turns, failures, file, nextId>>

\* What the steps of send leave alone.
sendFrame == <<turn, turns, locals, failures, status, cancelled, file, nextId, interrupted>>

\* The stream delivers events, then ends well or with an error.
Stream ==
  /\ pc = "send"
  /\ shown' = TRUE
  /\ \/ pc' = "record" /\ via' = "stream"
     \/ pc' = "failed" /\ UNCHANGED via
  /\ UNCHANGED <<model, sendFrame>>

\* Fault: the stream is replaced by a request also after some of it was shown.
MayFallBackFault == pc \in {"send", "failed"}

\* !seenStreamEvent
MayFallBack == pc = "send"

\* CreateMessage: streaming is off, or the stream failed before its first event.
Unary ==
  /\ MayFallBack
  /\ \/ pc' = "record" /\ via' = "unary"
     \/ pc' = "failed" /\ UNCHANGED via
  /\ UNCHANGED <<model, shown, sendFrame>>

\* Fault: after the last model the first is tried again.
NextModelWraps == model' = IF model < NumModels THEN model + 1 ELSE 1

\* Fault: the list of models is off by one.
NextModelFault == model <= NumModels /\ model' = model + 1

NextModel == model < NumModels /\ model' = model + 1

\* isFallbackEligible: announced by EventRetry.
RetryFallback ==
  /\ pc = "failed"
  /\ NextModel
  /\ shown' = FALSE
  /\ pc' = "send"
  /\ UNCHANGED <<via, sendFrame>>

SendFails ==
  /\ pc = "failed"
  /\ Return("error")
  /\ UNCHANGED <<turn, turns, failures, file, nextId>>

-----------------------------------------------------------------------------
(* The response and its tool uses *)

\* Fault: a response with tool uses ends the turn.
AfterResponseFault(n) == "finish"

AfterResponse(n) == IF n = 0 THEN "finish" ELSE "tools"

RecordAssistant ==
  /\ pc = "record"
  /\ \E n \in 0 .. MaxUses :
       SaveMessage(Message(nextId, "assistant", n, <<0, 0>>), AfterResponse(n))
  /\ nextId' = nextId + 1
  /\ pc' # "idle" => UNCHANGED pending
  /\ UNCHANGED <<turn, turns, failures>>

\* Memory extraction and the Stop hooks went well.
Finish ==
  /\ pc = "finish"
  /\ Return("ok")
  /\ UNCHANGED <<turn, turns, failures, file, nextId>>

\* Fault: the last update is not waited for.
ResultsDeliveredFault(n) == 0 .. n

\* What the tool orchestrator delivers: the results of the first uses, of all of
\* them unless the turn is cancelled.
ResultsDelivered(n) == IF cancelled THEN 0 .. n ELSE {n}

\* executeToolUses: one message for each result, in order; the first tool may
\* add a message of its own (Result.NewMessages).
ExecuteToolUses ==
  /\ pc = "tools"
  /\ \E n \in ResultsDelivered(Last(history).uses), extra \in BOOLEAN :
       LET results == [k \in 1 .. n |->
                         Message(nextId + k - 1, "result", 0, <<Last(history).id, k>>)]
       IN  /\ extra => n > 0
           /\ pending' = IF extra
                         THEN <<results[1], User(nextId + n)>> \o Tail(results)
                         ELSE results
           /\ nextId' = nextId + n + (IF extra THEN 1 ELSE 0)
  /\ interrupted' = (interrupted \/ cancelled)
  /\ pc' = "results"
  /\ UNCHANGED <<turn, turns, original, history, round, request, failures, status,
                 cancelled, file>>

AppendResult ==
  /\ pc = "results" /\ pending # <<>>
  /\ SaveMessage(Head(pending), "results")
  /\ pc' # "idle" => pending' = Tail(pending)
  /\ UNCHANGED <<turn, turns, failures, nextId>>

ResultsDone ==
  /\ pc = "results" /\ pending = <<>>
  /\ round' = round + 1
  /\ pc' = "round"
  /\ UNCHANGED <<turn, turns, original, history, pending, request, failures, status,
                 cancelled, file, nextId, interrupted>>

-----------------------------------------------------------------------------
(* The environment *)

Cancel ==
  /\ pc # "idle" /\ ~cancelled
  /\ cancelled' = TRUE
  /\ UNCHANGED <<pc, turn, turns, locals, request, failures, status, file, nextId,
                 interrupted>>

\* The process is killed.
Crash ==
  /\ pc # "idle"
  /\ Return("crashed")
  /\ UNCHANGED <<turn, turns, failures, file, nextId>>

RunTurn ==
  \/ AppendPrompt \/ PromptDone \/ LocalText \/ Done \/ Fail
  \/ AutoCompactSkip \/ AutoCompactFails \/ AutoCompact \/ ManualCompact
  \/ AppendBoundary \/ AppendSummary \/ NoDelta \/ AppendDelta
  \/ RoundsExceeded \/ StartRound \/ Stream \/ Unary \/ RetryFallback \/ SendFails
  \/ RecordAssistant \/ Finish \/ ExecuteToolUses \/ AppendResult \/ ResultsDone

Next == RunTurn \/ StartTurn \/ RefuseTurn \/ Cancel \/ Crash

Spec == Init /\ [][Next]_vars

\* Requests, hooks and tools have timeouts: a turn that can go on goes on.
FairSpec == Spec /\ WF_vars(RunTurn)

-----------------------------------------------------------------------------
(* Properties *)

Messages ==
  [id : Nat, parent : Nat,
   kind : {"user", "assistant", "result", "attachment", "boundary", "summary"},
   uses : 0 .. MaxUses, of : Nat \X Nat]

\* Every variable has a value of its kind; rounds and models stay in range.
TypeOK ==
  /\ pc \in {"idle", "prompt", "localText", "done", "autocompact", "compact",
             "boundary", "summary", "delta", "round", "send", "failed", "record",
             "finish", "tools", "results"}
  /\ turn \in TurnKind /\ turns \in 0 .. MaxTurns
  /\ original \in Seq(Messages) /\ history \in Seq(Messages)
  /\ pending \in Seq(Messages) /\ transcript \in Seq(Messages)
  /\ round \in 0 .. MaxToolRounds /\ model \in 1 .. NumModels
  /\ shown \in BOOLEAN /\ via \in {"none", "stream", "unary"}
  /\ failures \in Nat
  /\ status \in {"none", "ok", "error", "unsaved", "refused", "crashed"}
  /\ cancelled \in BOOLEAN /\ torn \in BOOLEAN /\ interrupted \in BOOLEAN
  /\ nextId \in Nat

Ids(messages) == [k \in DOMAIN messages |-> messages[k].id]

\* The history without the attachment it may end in.
Spoken(messages) ==
  IF messages # <<>> /\ Last(messages).kind = "attachment" THEN Front(messages) ELSE messages

\* Whenever the process stops, what the next one resumes is the conversation it
\* had: the same messages in the same order, a compacted one from its boundary
\* and summary on.  Excepted are an attachment at the very end and the two
\* appends of a compaction.
ResumeRestoresHistory ==
  pc \notin {"idle", "boundary", "summary"} =>
    Ids(Resumed) \in {Ids(history), Ids(Spoken(history))}

\* A transcript that holds messages can be resumed, unless it ends in the
\* boundary of a compaction whose summary was not written.
OnlyBoundaryUnresumable ==
  transcript # <<>> /\ Resumed = <<>> => Last(transcript).kind = "boundary"

\* A session that holds messages can be resumed whenever its process has stopped.
AlwaysResumable == pc = "idle" /\ transcript # <<>> => Resumed # <<>>

\* Every tool use in messages is answered before the assistant speaks again, and
\* every answer is one to a use before it.
Paired(messages) ==
  /\ \A i \in DOMAIN messages : \A k \in 1 .. messages[i].uses :
       \E j \in i + 1 .. Len(messages) :
         /\ messages[j].of = <<messages[i].id, k>>
         /\ \A m \in i + 1 .. j : messages[m].kind # "assistant"
  /\ \A j \in DOMAIN messages : messages[j].kind = "result" =>
       \E i \in 1 .. j - 1 : messages[i].id = messages[j].of[1]

\* No request is sent with a tool use that has no result.
RequestsPaired == pc = "send" => Paired(history)

\* A request is sent with an unanswered tool use only in a session one of whose
\* turns was killed, cancelled or could not append.
UnpairedOnlyIfInterrupted == pc = "send" /\ ~interrupted => Paired(history)

\* A query that ends well has left an answer without tool uses as the last
\* message the next turn will see.
SuccessEndsInAnswer ==
  status = "ok" /\ turn = "query" =>
    /\ Resumed # <<>>
    /\ Last(Resumed).kind = "assistant" /\ Last(Resumed).uses = 0

\* What a process leaves behind is what the next one needs.
ResumeFaithful == ResumeRestoresHistory /\ OnlyBoundaryUnresumable /\ SuccessEndsInAnswer

\* After FailureLimit failures in a row the session is not compacted again.
BreakerHolds == ~ForceCompact => failures <= FailureLimit

\* A consumer that renders the stream sees the answer once: the response of a
\* stream was shown, that of a plain request was not, and what was shown of an
\* attempt that failed is followed by EventRetry.
StreamMatchesAnswer == pc = "record" => (shown <=> via = "stream")

\* A turn ends.
TurnEnds == pc # "idle" ~> pc = "idle"
=============================================================================
