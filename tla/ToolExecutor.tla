---------------------------- MODULE ToolExecutor ----------------------------
(***************************************************************************)
(* Executor.Execute of internal/tool/executor.go: one tool use on its way  *)
(* through validation, the PreToolUse hooks, the permission check, the     *)
(* PermissionDenied or PermissionRequest hooks, the call of the tool and   *)
(* the PostToolUse hooks.  Hooks may rewrite the input, block, decide or   *)
(* fail; the context may be cancelled at any time.                         *)
(*                                                                         *)
(* A raw JSON input is a member of Input.  What Validate, CheckPermissions *)
(* and a hook answer is chosen anew each time they are asked: they look at *)
(* the file system, at settings and at the user.                           *)
(***************************************************************************)
EXTENDS Integers, Sequences

CONSTANTS Input,     \* raw tool inputs
          NoInput,   \* no input
          NumHooks   \* hooks of each phase

ASSUME InputAssumption == NoInput \notin Input
ASSUME NumHooksAssumption == NumHooks \in Nat

VARIABLES
  cancelled,     \* the context is done
  pc,            \* control point of Execute
  h,             \* index of the next hook of the phase
  raw,           \* the current input
  validated,     \* the input Validate accepted last
  checked,       \* the input CheckPermissions saw
  decision,      \* what it decided
  hookDecision,  \* the decision of the permission hooks
  called,        \* the input the tool was called with
  err,           \* an error is to be returned
  isError,       \* IsError of the result
  events,        \* the lifecycle progress sent to the sink
  veto,          \* history: the phase in which a hook failed or blocked
  approved       \* history: a PermissionRequest hook answered "allow"

vars == <<cancelled, pc, h, raw, validated, checked, decision, hookDecision,
          called, err, isError, events, veto, approved>>

permVars == <<checked, decision, hookDecision>>
outcome  == <<err, isError>>
history  == <<veto, approved>>

Behavior == {"allow", "deny", "ask"}

\* HookResult and the error of RunToolHook.  A hook may both block and decide.
HookOutcome ==
  [fails : BOOLEAN, block : BOOLEAN, update : Input \cup {NoInput},
   decision : Behavior \cup {"none"}]

\* The events after which Execute says no more.
Terminal == {"failed", "permission_denied", "permission_requested", "cancelled",
             "completed"}

Init ==
  /\ cancelled = FALSE
  /\ pc = "entry"
  /\ h = 1
  /\ raw \in Input
  /\ validated = NoInput
  /\ checked = NoInput /\ decision = "none" /\ hookDecision = "none"
  /\ called = NoInput
  /\ err = FALSE /\ isError = FALSE
  /\ events = <<>>
  /\ veto = "none" /\ approved = FALSE

Cancel ==
  /\ ~cancelled
  /\ cancelled' = TRUE
  /\ UNCHANGED <<pc, h, raw, validated, permVars, called, outcome, events, history>>

\* Fault: the length of UpdatedInput is not looked at.
UpdatedFault(o) == o.update

\* len(hookResult.UpdatedInput) > 0
Updated(o) == IF o.update \in Input THEN o.update ELSE raw

\* The hook failed or blocked.
Vetoes(o) == o.fails \/ o.block

\* Execute returns ErrorResult(use, err), err.
Refuse ==
  /\ pc' = "returned"
  /\ err' = TRUE /\ isError' = TRUE

-----------------------------------------------------------------------------
(* Up to the permission check *)

\* The context, the registry, the lookup of the tool and the first Validate.
Entry ==
  /\ pc = "entry"
  /\ \/ Refuse /\ UNCHANGED <<h, validated>>
     \/ /\ ~cancelled
        /\ validated' = raw
        /\ pc' = "pre" /\ h' = 1
        /\ UNCHANGED outcome
  /\ UNCHANGED <<cancelled, raw, permVars, called, events, history>>

\* Fault: a PreToolUse hook that blocks only stops the hooks after it.
PreHookStopsFault(o) == o.fails

PreHookStops(o) == Vetoes(o)

\* One PreToolUse hook.  Its PermissionDecision is not looked at.
PreHook ==
  /\ pc = "pre" /\ h <= NumHooks
  /\ \E o \in HookOutcome :
       /\ veto' = IF Vetoes(o) THEN "pre" ELSE veto
       /\ \/ /\ PreHookStops(o)
             /\ Refuse
             /\ UNCHANGED <<h, raw>>
          \/ /\ ~PreHookStops(o)
             /\ raw' = Updated(o)
             /\ h' = h + 1
             /\ UNCHANGED <<pc, outcome>>
  /\ UNCHANGED <<cancelled, validated, permVars, called, events, approved>>

\* Fault: the rewritten input is not validated again.
RevalidatedFault == UNCHANGED validated

Revalidated == validated' = raw

\* The second Validate, the context, and the "started" event.
Start ==
  /\ pc = "pre" /\ h > NumHooks
  /\ \/ /\ Refuse
        /\ validated' \in {validated, raw}
        /\ UNCHANGED events
     \/ /\ ~cancelled
        /\ Revalidated
        /\ pc' = "permission"
        /\ events' = Append(events, "started")
        /\ UNCHANGED outcome
  /\ UNCHANGED <<cancelled, h, raw, permVars, called, history>>

CheckPermissions ==
  /\ pc = "permission"
  /\ checked' = raw
  /\ \/ /\ Refuse
        /\ events' = Append(events, "failed")
        /\ UNCHANGED <<h, decision>>
     \/ \E b \in Behavior :
          /\ decision' = b
          /\ pc' = CASE b = "allow" -> "precall"
                     [] b = "deny"  -> "denied"
                     [] b = "ask"   -> "asked"
          /\ h' = 1
          /\ UNCHANGED <<outcome, events>>
  /\ UNCHANGED <<cancelled, raw, validated, hookDecision, called, history>>

-----------------------------------------------------------------------------
(* runPermissionHooks *)

\* Fault: a hook that fails counts as an approval.
HookSaysFault(o) ==
  IF o.fails THEN "allow"
  ELSE IF o.decision # "none" THEN o.decision
  ELSE IF o.block THEN "deny"
  ELSE hookDecision

\* The decision after a hook: a failure is skipped, a decision replaces the one
\* of the hooks before, a block without a decision denies.
HookSays(o) ==
  IF o.fails THEN hookDecision
  ELSE IF o.decision # "none" THEN o.decision
  ELSE IF o.block THEN "deny"
  ELSE hookDecision

\* One PermissionDenied or PermissionRequest hook.
PermissionHook ==
  /\ pc \in {"denied", "asked"} /\ h <= NumHooks
  /\ \E o \in HookOutcome :
       /\ hookDecision' = HookSays(o)
       /\ raw' = IF o.fails THEN raw ELSE Updated(o)
       /\ approved' = (approved \/ (~o.fails /\ o.decision = "allow"))
  /\ h' = h + 1
  /\ UNCHANGED <<cancelled, pc, validated, checked, decision, called, outcome,
                 events, veto>>

\* Fault: a hook can turn a denial round.
DeniedFault ==
  IF hookDecision = "allow"
  THEN /\ pc' = "precall"
       /\ UNCHANGED <<outcome, events>>
  ELSE /\ Refuse
       /\ events' = Append(events, "permission_denied")

\* Fault: the return after the event is missing.
DeniedFallsThrough ==
  /\ pc' = "precall"
  /\ events' = Append(events, "permission_denied")
  /\ UNCHANGED outcome

\* Fault: the permission is asked for again.
DeniedRetries ==
  /\ pc' = "permission"
  /\ UNCHANGED <<outcome, events>>

Denied ==
  /\ Refuse
  /\ events' = Append(events, "permission_denied")

\* runPermissionDeniedHooks drops the decision and the input of the hooks.
DeniedReturn ==
  /\ pc = "denied" /\ h > NumHooks
  /\ Denied
  /\ UNCHANGED <<cancelled, h, raw, validated, permVars, called, history>>

\* Fault: without a decision of a hook the tool is called.
StillAskFault == hookDecision = "ask"

StillAsk == hookDecision \in {"none", "ask"}

AskedRequest ==
  /\ pc = "asked" /\ h > NumHooks
  /\ StillAsk
  /\ Refuse
  /\ events' = Append(events, "permission_requested")
  /\ UNCHANGED <<cancelled, h, raw, validated, permVars, called, history>>

AskedDenied ==
  /\ pc = "asked" /\ h > NumHooks
  /\ hookDecision = "deny"
  /\ Refuse
  /\ events' = Append(events, "permission_denied")
  /\ UNCHANGED <<cancelled, h, raw, validated, permVars, called, history>>

\* A hook approved: the input it may have rewritten is validated a third time.
\* When that fails Execute returns without a further event.
AskedAllowed ==
  /\ pc = "asked" /\ h > NumHooks
  /\ ~StillAsk /\ hookDecision # "deny"
  /\ \/ Refuse /\ UNCHANGED <<validated, events>>
     \/ /\ Revalidated
        /\ pc' = "precall"
        /\ events' = Append(events, "permission_allowed")
        /\ UNCHANGED outcome
  /\ UNCHANGED <<cancelled, h, raw, permVars, called, history>>

-----------------------------------------------------------------------------
(* The call *)

\* Fault: the cancellation is returned and not announced.
PreCallCancelledFault ==
  /\ pc = "precall" /\ cancelled
  /\ Refuse
  /\ UNCHANGED <<cancelled, h, raw, validated, permVars, called, events, history>>

PreCallCancelled ==
  /\ pc = "precall" /\ cancelled
  /\ Refuse
  /\ events' = Append(events, "cancelled")
  /\ UNCHANGED <<cancelled, h, raw, validated, permVars, called, history>>

\* Fault: the context is not looked at.
ContextLiveFault == TRUE

ContextLive == ~cancelled

Call ==
  /\ pc = "precall" /\ ContextLive
  /\ pc' = "call"
  /\ called' = raw
  /\ UNCHANGED <<cancelled, h, raw, validated, permVars, outcome, events, history>>

\* The tool returns; limitResult keeps IsError.
CallReturns ==
  /\ pc = "call"
  /\ pc' = "post" /\ h' = 1
  /\ err' \in BOOLEAN
  /\ isError' \in BOOLEAN
  /\ UNCHANGED <<cancelled, raw, validated, permVars, called, events, history>>

\* runPostHooks stops at the first hook that fails or blocks; its error is the
\* one of Execute unless the call already had one.
PostHookEnds == err' = TRUE /\ h' = NumHooks + 1 /\ veto' = "post"

PostHook ==
  /\ pc = "post" /\ h <= NumHooks
  /\ \E o \in HookOutcome :
       \/ Vetoes(o) /\ PostHookEnds
       \/ ~Vetoes(o) /\ h' = h + 1 /\ UNCHANGED <<err, veto>>
  /\ UNCHANGED <<cancelled, pc, raw, validated, permVars, called, isError, events,
                 approved>>

\* Fault: IsError is left to the tool.
ErrorFlagFault == UNCHANGED isError

ErrorFlag == isError' = (isError \/ err)

PostReturn ==
  /\ pc = "post" /\ h > NumHooks
  /\ pc' = "returned"
  /\ ErrorFlag
  /\ events' = Append(events, IF err THEN "failed" ELSE "completed")
  /\ UNCHANGED <<cancelled, h, raw, validated, permVars, called, err, history>>

-----------------------------------------------------------------------------
Execute ==
  \/ Entry \/ PreHook \/ Start \/ CheckPermissions
  \/ PermissionHook \/ DeniedReturn
  \/ AskedRequest \/ AskedDenied \/ AskedAllowed
  \/ PreCallCancelled \/ Call \/ CallReturns \/ PostHook \/ PostReturn

Next == Execute \/ Cancel

Spec == Init /\ [][Next]_vars

\* Hooks and tools return: hook commands and requests have timeouts.
FairSpec == Spec /\ WF_vars(Execute)

-----------------------------------------------------------------------------
(* Properties *)

\* Every variable has a value of its kind.
TypeOK ==
  /\ cancelled \in BOOLEAN
  /\ pc \in {"entry", "pre", "permission", "denied", "asked", "precall", "call",
             "post", "returned"}
  /\ h \in 1 .. NumHooks + 1
  /\ raw \in Input
  /\ validated \in Input \cup {NoInput} /\ checked \in Input \cup {NoInput}
  /\ decision \in Behavior \cup {"none"} /\ hookDecision \in Behavior \cup {"none"}
  /\ called \in Input \cup {NoInput}
  /\ err \in BOOLEAN /\ isError \in BOOLEAN
  /\ events \in Seq(Terminal \cup {"started", "permission_allowed"})
  /\ veto \in {"none", "pre", "post"} /\ approved \in BOOLEAN

\* The tool is called with exactly the input that Validate accepted last,
\* whatever PreToolUse and PermissionRequest hooks rewrote in between.
CalledInputValidated ==
  called # NoInput => called = validated

\* The tool is called only with the input CheckPermissions allowed, or after a
\* PermissionRequest hook answered "allow"; the failure of a hook, its silence
\* or a later block approves nothing.
CalledIsAuthorised ==
  called # NoInput => \/ decision = "allow" /\ called = checked
                      \/ decision = "ask" /\ approved /\ hookDecision = "allow"

\* A denial is final: the PermissionDenied hooks that run after it can neither
\* approve the use nor change what is done.
DenialIsFinal == decision = "deny" => called = NoInput

\* A PreToolUse hook that fails or blocks keeps the tool from being called and
\* from being announced; after any veto Execute returns an error result.
VetoHolds ==
  /\ veto = "pre" => called = NoInput /\ events = <<>>
  /\ veto # "none" /\ pc = "returned" => err /\ isError

\* Execute announces "completed" exactly when it returns no error, and an error
\* always comes with a result that is marked as one.
OutcomeConsistent ==
  pc = "returned" =>
    /\ err => isError
    /\ err <=> ~\E k \in DOMAIN events : events[k] = "completed"

\* The events of one use form a session: "started" comes first and once, nothing
\* follows a terminal event.
ProgressIsSession ==
  \A k \in DOMAIN events :
    /\ k = 1 <=> events[k] = "started"
    /\ events[k] \in Terminal => k = Len(events)

\* A session that was started is closed by a terminal event when Execute
\* returns, with one exception: an input a hook approved and Validate refused.
StartedIsClosed ==
  pc = "returned" /\ events # <<>> =>
    \/ events[Len(events)] \in Terminal
    \/ decision = "ask" /\ approved /\ called = NoInput

\* A tool is called only with an input that was validated, and that the rules
\* or a hook asked about it approved, never after a denial.
CallsCleared == CalledInputValidated /\ CalledIsAuthorised /\ DenialIsFinal

\* What Execute returns, the events it sent and the vetoes of its hooks agree.
OutcomesHonest == VetoHolds /\ OutcomeConsistent /\ ProgressIsSession /\ StartedIsClosed

\* Execute returns.
ExecuteReturns == <>(pc = "returned")

\* Execute implements the contract its callers rely on.
Contract ==
  INSTANCE ToolContract WITH
    st  <- IF pc = "returned" THEN "done"
           ELSE IF called = NoInput THEN "waiting" ELSE "call",
    res <- IF pc # "returned" THEN "none" ELSE IF err THEN "err" ELSE "ok"

\* The abstract specification of ToolContract, under the mapping above: at most
\* one call, none after the context is done, success only after a call.
ImplementsContract == Contract!Spec
=============================================================================
