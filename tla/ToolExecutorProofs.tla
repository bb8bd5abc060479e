------------------------- MODULE ToolExecutorProofs -------------------------
(***************************************************************************)
(* Proofs about Executor.Execute, for every set of inputs and every number *)
(* of hooks.                                                               *)
(***************************************************************************)
EXTENDS ToolExecutor, TLAPS

-----------------------------------------------------------------------------
(* The inductive invariant *)

\* Control points before the call.
Before == {"entry", "pre", "permission", "denied", "asked", "precall"}

\* Some hook or CheckPermissions authorised the current input.
Authorised ==
  \/ decision = "allow" /\ raw = checked
  \/ decision = "ask" /\ approved /\ hookDecision = "allow"

DecisionInv ==
  /\ pc \in {"entry", "pre", "permission"} => decision = "none" /\ hookDecision = "none"
  /\ pc = "denied" => decision = "deny"
  /\ pc = "asked" => decision = "ask"
  /\ hookDecision = "allow" => approved

CallInv ==
  /\ pc \in Before => called = NoInput
  /\ pc = "permission" => validated = raw
  /\ pc \in {"precall", "call", "post"} => validated = raw /\ Authorised
  /\ pc \in {"call", "post"} => called = raw
  /\ called # NoInput =>
       /\ pc \in {"call", "post", "returned"}
       /\ called = raw /\ validated = raw /\ Authorised

Event == Terminal \cup {"started", "permission_allowed"}

\* The lifecycle events that can have been sent at a control point.
Started == Len(events) = 1 /\ events[1] = "started"
Allowed == /\ Len(events) = 2
           /\ events[1] = "started" /\ events[2] = "permission_allowed"

EventInv ==
  /\ pc \in {"entry", "pre"} => events = <<>>
  /\ pc \in {"permission", "denied", "asked"} => Started
  /\ pc \in {"precall", "call", "post"} => Started \/ Allowed
  /\ pc = "precall" /\ Allowed => approved /\ decision = "ask"

OutcomeInv ==
  /\ pc \in Before \cup {"call"} => ~err /\ ~isError
  /\ pc = "post" /\ veto = "post" => err
  /\ veto = "post" => pc \in {"post", "returned"}
  /\ veto = "pre" => pc = "returned"
  /\ pc = "returned" /\ ~err => called # NoInput

IInv ==
  /\ TypeOK
  /\ DecisionInv
  /\ CallInv
  /\ EventInv
  /\ OutcomeInv
  /\ VetoHolds
  /\ OutcomeConsistent
  /\ ProgressIsSession
  /\ StartedIsClosed

USE InputAssumption, NumHooksAssumption

-----------------------------------------------------------------------------
LEMMA InitIInv == Init => IInv
<1> SUFFICES ASSUME Init PROVE IInv
  OBVIOUS
<1>a. events = <<>> /\ events \in Seq(Terminal \cup {"started", "permission_allowed"})
  BY DEF Init
<1>b. h \in 1 .. NumHooks + 1
  BY DEF Init
<1>1. TypeOK
  BY <1>a, <1>b, Zenon DEF Init, TypeOK, Behavior
<1>2. DecisionInv /\ CallInv
  BY DEF Init, DecisionInv, CallInv
<1>3. EventInv /\ OutcomeInv /\ VetoHolds /\ OutcomeConsistent /\ StartedIsClosed
  BY DEF Init, EventInv, OutcomeInv, VetoHolds, OutcomeConsistent, StartedIsClosed
<1>4. ProgressIsSession
  BY DEF Init, ProgressIsSession
<1> QED
  BY <1>1, <1>2, <1>3, <1>4 DEF IInv

\* The first event opens a session.
LEMMA OpenSession ==
  ASSUME events = <<>>, events' = Append(events, "started")
  PROVE  events' \in Seq(Event) /\ Started' /\ ProgressIsSession' /\ events' # <<>>
<1>1. events \in Seq(Event) /\ Len(events) = 0 /\ "started" \in Event
  BY DEF Event
<1>2. events' \in Seq(Event) /\ Len(events') = 1 /\ events'[1] = "started"
  BY <1>1
<1> QED
  BY <1>2 DEF Started, ProgressIsSession, Terminal

\* Appending a terminal event to an open session closes it.
LEMMA CloseSession ==
  ASSUME NEW x \in Terminal, events \in Seq(Event), Started \/ Allowed,
         events' = Append(events, x)
  PROVE  /\ events' \in Seq(Event)
         /\ ProgressIsSession'
         /\ events' # <<>>
         /\ events'[Len(events')] \in Terminal
         /\ (\E k \in DOMAIN events' : events'[k] = "completed") <=> x = "completed"
<1> USE DEF Started, Allowed, Event
<1>1. /\ events' \in Seq(Event) /\ Len(events') = Len(events) + 1
      /\ events'[Len(events) + 1] = x
      /\ \A k \in 1 .. Len(events) : events'[k] = events[k]
  OBVIOUS
<1>2. CASE Started
  BY <1>1, <1>2 DEF Terminal, ProgressIsSession
<1>3. CASE Allowed
  BY <1>1, <1>3 DEF Terminal, ProgressIsSession
<1> QED
  BY <1>2, <1>3

-----------------------------------------------------------------------------
(* Execute returns an error: from any point before the call, with or without *)
(* a terminal event.                                                         *)

LEMMA RefuseIInv ==
  ASSUME IInv, pc \in Before, Refuse, raw' \in Input,
         h' \in 1 .. NumHooks + 1, cancelled' = cancelled,
         validated' \in Input \cup {NoInput}, checked' \in Input \cup {NoInput},
         decision' = decision, hookDecision' = hookDecision, called' = called,
         approved' = approved,
         \/ events' = events /\ pc \in {"entry", "pre"} /\ veto' \in {veto, "pre"}
         \/ events' = events /\ pc = "asked" /\ hookDecision = "allow" /\ veto' = veto
         \/ /\ \E x \in Terminal \ {"completed"} : events' = Append(events, x)
            /\ pc \notin {"entry", "pre"} /\ veto' = veto
  PROVE  IInv'
<1>0. /\ TypeOK /\ DecisionInv /\ CallInv /\ EventInv /\ OutcomeInv
      /\ ProgressIsSession
  BY DEF IInv
<1> USE DEF Refuse
<1>a. /\ events' \in Seq(Event) /\ ProgressIsSession'
      /\ ~\E k \in DOMAIN events' : events'[k] = "completed"
      /\ \/ events' = <<>>
         \/ events'[Len(events')] \in Terminal
         \/ decision = "ask" /\ approved
  <2>1. CASE events' = events /\ pc \in {"entry", "pre"}
    <3>1. events' = <<>> /\ events \in Seq(Event)
      BY <1>0, <2>1 DEF EventInv, TypeOK, Event
    <3> QED
      BY <3>1, <2>1, <1>0 DEF ProgressIsSession
  <2>2. CASE events' = events /\ pc = "asked" /\ hookDecision = "allow"
    <3>1. Started /\ events \in Seq(Event)
      BY <1>0, <2>2 DEF EventInv, TypeOK, Event
    <3> QED
      BY <3>1, <2>2, <1>0 DEF ProgressIsSession, Started, DecisionInv
  <2>3. CASE \E x \in Terminal \ {"completed"} :
               events' = Append(events, x) /\ pc \notin {"entry", "pre"}
    <3>1. events \in Seq(Event) /\ (Started \/ Allowed)
      BY <1>0, <2>3 DEF EventInv, TypeOK, Event, Before
    <3> QED
      BY <3>1, <2>3, CloseSession
  <2> QED
    BY <2>1, <2>2, <2>3
<1>1. TypeOK'
  BY <1>0, <1>a DEF TypeOK, Event
<1>2. DecisionInv' /\ CallInv' /\ EventInv'
  BY <1>0 DEF DecisionInv, CallInv, EventInv, Before
<1>3. OutcomeInv'
  BY <1>0 DEF OutcomeInv, TypeOK, Before
<1>4. VetoHolds'
  <2>1. called' = NoInput
    BY <1>0 DEF CallInv
  <2>2. veto' = "pre" => events' = <<>>
    BY <1>0 DEF EventInv, OutcomeInv, Before
  <2> QED
    BY <2>1, <2>2 DEF VetoHolds
<1>5. OutcomeConsistent' /\ StartedIsClosed'
  BY <1>0, <1>a DEF OutcomeConsistent, StartedIsClosed, CallInv
<1> QED
  BY <1>1, <1>2, <1>3, <1>4, <1>5, <1>a DEF IInv

-----------------------------------------------------------------------------
(* Steps that stay inside Execute *)

LEMMA EntryIInv ==
  ASSUME IInv, Entry
  PROVE  IInv'
<1>0. /\ TypeOK /\ DecisionInv /\ CallInv /\ EventInv /\ OutcomeInv
      /\ ProgressIsSession
  BY DEF IInv
<1> USE DEF Entry, permVars, history, outcome
<1>1. CASE Refuse /\ UNCHANGED <<h, validated>>
  BY <1>0, <1>1, RefuseIInv DEF TypeOK, Before
<1>2. CASE pc' = "pre"
  <2>1. TypeOK'
    BY <1>0, <1>2 DEF TypeOK, Refuse
  <2>2. DecisionInv' /\ CallInv' /\ EventInv' /\ OutcomeInv'
    BY <1>0, <1>2 DEF DecisionInv, CallInv, EventInv, OutcomeInv, Before, Refuse
  <2>3. VetoHolds' /\ OutcomeConsistent' /\ StartedIsClosed' /\ ProgressIsSession'
    BY <1>0, <1>2 DEF VetoHolds, OutcomeConsistent, StartedIsClosed,
       ProgressIsSession, EventInv, CallInv, OutcomeInv, Before
  <2> QED
    BY <2>1, <2>2, <2>3 DEF IInv
<1> QED
  BY <1>1, <1>2

LEMMA PreHookIInv ==
  ASSUME IInv, PreHook
  PROVE  IInv'
<1>0. /\ TypeOK /\ DecisionInv /\ CallInv /\ EventInv /\ OutcomeInv
      /\ ProgressIsSession
  BY DEF IInv
<1>a. PICK o \in HookOutcome :
        /\ veto' = IF Vetoes(o) THEN "pre" ELSE veto
        /\ \/ /\ PreHookStops(o)
              /\ Refuse
              /\ UNCHANGED <<h, raw>>
           \/ /\ ~PreHookStops(o)
              /\ raw' = Updated(o)
              /\ h' = h + 1
              /\ UNCHANGED <<pc, outcome>>
  BY DEF PreHook
<1>b. /\ UNCHANGED <<cancelled, validated, permVars, called, events, approved>>
      /\ pc = "pre" /\ h <= NumHooks
  BY DEF PreHook
<1>c. Updated(o) \in Input
  BY <1>0 DEF Updated, TypeOK
<1>1. CASE PreHookStops(o) /\ Refuse /\ UNCHANGED <<h, raw>>
  BY <1>0, <1>1, <1>a, <1>b, RefuseIInv DEF TypeOK, Before, permVars
<1>2. CASE ~PreHookStops(o) /\ raw' = Updated(o) /\ h' = h + 1 /\ UNCHANGED <<pc, outcome>>
  <2> USE DEF permVars, outcome
  <2>0. veto' = veto
    BY <1>a, <1>2 DEF PreHookStops
  <2>1. TypeOK'
    BY <1>0, <1>2, <1>b, <1>c, <2>0 DEF TypeOK
  <2>2. DecisionInv' /\ CallInv' /\ EventInv' /\ OutcomeInv'
    BY <1>0, <1>2, <1>b, <2>0 DEF DecisionInv, CallInv, EventInv, OutcomeInv,
       Before, Started, Allowed
  <2>3. VetoHolds' /\ OutcomeConsistent' /\ StartedIsClosed' /\ ProgressIsSession'
    BY <1>0, <1>2, <1>b, <2>0 DEF VetoHolds, OutcomeConsistent, StartedIsClosed,
       ProgressIsSession, OutcomeInv
  <2> QED
    BY <2>1, <2>2, <2>3 DEF IInv
<1> QED
  BY <1>a, <1>1, <1>2

LEMMA StartIInv ==
  ASSUME IInv, Start
  PROVE  IInv'
<1>0. /\ TypeOK /\ DecisionInv /\ CallInv /\ EventInv /\ OutcomeInv
      /\ ProgressIsSession
  BY DEF IInv
<1> USE DEF Start, permVars, history, outcome
<1>1. CASE Refuse /\ validated' \in {validated, raw} /\ UNCHANGED events
  BY <1>0, <1>1, RefuseIInv DEF TypeOK, Before
<1>2. CASE Revalidated /\ pc' = "permission" /\ events' = Append(events, "started")
           /\ UNCHANGED outcome
  <2>0. /\ events = <<>> /\ events' \in Seq(Event) /\ Started'
        /\ ProgressIsSession' /\ events' # <<>>
    BY <1>0, <1>2, OpenSession DEF EventInv
  <2>1. TypeOK'
    BY <1>0, <1>2, <2>0 DEF TypeOK, Event, Revalidated
  <2>2. DecisionInv' /\ CallInv' /\ EventInv' /\ OutcomeInv'
    BY <1>0, <1>2, <2>0 DEF DecisionInv, CallInv, EventInv, OutcomeInv, Before,
       Revalidated
  <2>3. VetoHolds' /\ OutcomeConsistent' /\ StartedIsClosed'
    BY <1>0, <1>2 DEF VetoHolds, OutcomeConsistent, StartedIsClosed, OutcomeInv
  <2> QED
    BY <2>0, <2>1, <2>2, <2>3 DEF IInv
<1> QED
  BY <1>1, <1>2

LEMMA CheckPermissionsIInv ==
  ASSUME IInv, CheckPermissions
  PROVE  IInv'
<1>0. /\ TypeOK /\ DecisionInv /\ CallInv /\ EventInv /\ OutcomeInv
      /\ ProgressIsSession
  BY DEF IInv
<1> USE DEF CheckPermissions, history, outcome
<1>1. CASE Refuse /\ events' = Append(events, "failed") /\ UNCHANGED <<h, decision>>
  BY <1>0, <1>1, RefuseIInv DEF TypeOK, Before, Terminal
<1>2. CASE \E b \in Behavior :
          /\ decision' = b
          /\ pc' = CASE b = "allow" -> "precall"
                     [] b = "deny"  -> "denied"
                     [] b = "ask"   -> "asked"
          /\ h' = 1
          /\ UNCHANGED <<outcome, events>>
  <2>0. /\ \/ decision' = "allow" /\ pc' = "precall"
           \/ decision' = "deny" /\ pc' = "denied"
           \/ decision' = "ask" /\ pc' = "asked"
        /\ h' = 1 /\ UNCHANGED <<outcome, events>>
    BY <1>2 DEF Behavior
  <2>1. TypeOK'
    BY <1>0, <2>0 DEF TypeOK, Behavior
  <2>2. DecisionInv' /\ CallInv' /\ EventInv' /\ OutcomeInv'
    BY <1>0, <2>0 DEF DecisionInv, CallInv, EventInv, OutcomeInv, Before, Started,
       Allowed, Authorised
  <2>3. VetoHolds' /\ OutcomeConsistent' /\ StartedIsClosed' /\ ProgressIsSession'
    BY <1>0, <2>0 DEF VetoHolds, OutcomeConsistent, StartedIsClosed,
       ProgressIsSession, OutcomeInv
  <2> QED
    BY <2>1, <2>2, <2>3 DEF IInv
<1> QED
  BY <1>1, <1>2

LEMMA PermissionHookIInv ==
  ASSUME IInv, PermissionHook
  PROVE  IInv'
<1>0. /\ TypeOK /\ DecisionInv /\ CallInv /\ EventInv /\ OutcomeInv
      /\ ProgressIsSession
  BY DEF IInv
<1>a. PICK o \in HookOutcome :
        /\ hookDecision' = HookSays(o)
        /\ raw' = IF o.fails THEN raw ELSE Updated(o)
        /\ approved' = (approved \/ (~o.fails /\ o.decision = "allow"))
  BY DEF PermissionHook
<1>b. /\ UNCHANGED <<cancelled, pc, validated, checked, decision, called, err,
                     isError, events, veto>>
      /\ pc \in {"denied", "asked"} /\ h <= NumHooks /\ h' = h + 1
  BY DEF PermissionHook, outcome
<1>c. /\ raw' \in Input
      /\ hookDecision' \in Behavior \cup {"none"}
      /\ hookDecision' = "allow" => approved'
      /\ approved' \in BOOLEAN
  <2>0. o.decision \in Behavior \cup {"none"}
    BY DEF HookOutcome
  <2>1. raw' \in Input
    BY <1>0, <1>a DEF Updated, TypeOK
  <2>2. hookDecision' \in Behavior \cup {"none"}
    BY <1>0, <1>a, <2>0 DEF TypeOK, HookSays, Behavior
  <2>3. hookDecision' = "allow" => approved'
    BY <1>0, <1>a DEF HookSays, DecisionInv
  <2>4. approved' \in BOOLEAN
    BY <1>a, Zenon
  <2> QED
    BY <2>1, <2>2, <2>3, <2>4
<1>1. TypeOK'
  BY <1>0, <1>b, <1>c DEF TypeOK
<1>2. DecisionInv' /\ CallInv' /\ EventInv' /\ OutcomeInv'
  BY <1>0, <1>b, <1>c DEF DecisionInv, CallInv, EventInv, OutcomeInv,
     Before, Started, Allowed
<1>3. VetoHolds' /\ OutcomeConsistent' /\ StartedIsClosed' /\ ProgressIsSession'
  BY <1>0, <1>b DEF VetoHolds, OutcomeConsistent, StartedIsClosed,
     ProgressIsSession, OutcomeInv
<1> QED
  BY <1>1, <1>2, <1>3 DEF IInv

\* The ways out of the permission check.
LEMMA DecidedIInv ==
  ASSUME IInv, DeniedReturn \/ AskedRequest \/ AskedDenied \/ AskedAllowed
  PROVE  IInv'
<1>0. /\ TypeOK /\ DecisionInv /\ CallInv /\ EventInv /\ OutcomeInv
      /\ ProgressIsSession
  BY DEF IInv
<1> USE DEF history, outcome, permVars
<1>1. CASE DeniedReturn
  BY <1>0, <1>1, RefuseIInv DEF DeniedReturn, Denied, TypeOK, Before, Terminal
<1>2. CASE AskedRequest
  BY <1>0, <1>2, RefuseIInv DEF AskedRequest, TypeOK, Before, Terminal
<1>3. CASE AskedDenied
  BY <1>0, <1>3, RefuseIInv DEF AskedDenied, TypeOK, Before, Terminal
<1>4. CASE AskedAllowed
  <2>a. hookDecision = "allow" /\ pc = "asked"
    BY <1>0, <1>4 DEF AskedAllowed, StillAsk, TypeOK, Behavior
  <2>1. CASE Refuse /\ UNCHANGED <<validated, events>>
    BY <1>0, <1>4, <2>1, <2>a, RefuseIInv DEF AskedAllowed, TypeOK, Before
  <2>2. CASE Revalidated /\ pc' = "precall" /\ UNCHANGED outcome
             /\ events' = Append(events, "permission_allowed")
    <3>1. /\ events' \in Seq(Event) /\ Allowed'
      <4>1. events \in Seq(Event) /\ Started /\ "permission_allowed" \in Event
        BY <1>0, <2>a DEF EventInv, TypeOK, Event
      <4>2. /\ events' \in Seq(Event) /\ Len(events') = Len(events) + 1
            /\ events'[Len(events) + 1] = "permission_allowed"
            /\ \A k \in 1 .. Len(events) : events'[k] = events[k]
        BY <4>1, <2>2
      <4> QED
        BY <4>1, <4>2 DEF Started, Allowed
    <3>2. ProgressIsSession'
      BY <3>1 DEF ProgressIsSession, Allowed, Terminal
    <3>3. TypeOK'
      BY <1>0, <1>4, <2>2, <3>1 DEF AskedAllowed, TypeOK, Event, Revalidated
    <3>4. DecisionInv' /\ CallInv' /\ EventInv' /\ OutcomeInv'
      BY <1>0, <1>4, <2>2, <2>a, <3>1 DEF AskedAllowed, DecisionInv, CallInv,
         EventInv, OutcomeInv, Before, Authorised, Revalidated
    <3>5. VetoHolds' /\ OutcomeConsistent' /\ StartedIsClosed'
      BY <1>0, <1>4, <2>2, <2>a DEF AskedAllowed, VetoHolds, OutcomeConsistent,
         StartedIsClosed, OutcomeInv
    <3> QED
      BY <3>2, <3>3, <3>4, <3>5 DEF IInv
  <2> QED
    BY <1>4, <2>1, <2>2 DEF AskedAllowed
<1> QED
  BY <1>1, <1>2, <1>3, <1>4

\* The call of the tool, the PostToolUse hooks and the cancellation.
LEMMA CallIInv ==
  ASSUME IInv,
         PreCallCancelled \/ Call \/ CallReturns \/ PostHook \/ Cancel
           \/ UNCHANGED vars
  PROVE  IInv'
<1>0. /\ TypeOK /\ DecisionInv /\ CallInv /\ EventInv /\ OutcomeInv
      /\ ProgressIsSession /\ VetoHolds /\ OutcomeConsistent /\ StartedIsClosed
  BY DEF IInv
<1> USE DEF history, outcome, permVars
<1>1. CASE PreCallCancelled
  BY <1>0, <1>1, RefuseIInv DEF PreCallCancelled, TypeOK, Before, Terminal
<1>2. CASE Call \/ CallReturns \/ PostHook
  <2>1. TypeOK'
    <3>1. CASE Call \/ CallReturns
      BY <1>0, <3>1 DEF Call, CallReturns, TypeOK
    <3>2. CASE PostHook
      <4>1. h' \in 1 .. NumHooks + 1
        BY <1>0, <3>2 DEF PostHook, PostHookEnds, TypeOK
      <4>2. err' \in BOOLEAN /\ veto' \in {"none", "pre", "post"}
        BY <1>0, <3>2 DEF PostHook, PostHookEnds, TypeOK
      <4> QED
        BY <1>0, <3>2, <4>1, <4>2 DEF PostHook, TypeOK
    <3> QED
      BY <1>2, <3>1, <3>2
  <2>2. DecisionInv' /\ CallInv' /\ EventInv'
    BY <1>0, <1>2 DEF Call, CallReturns, PostHook, PostHookEnds, DecisionInv,
       CallInv, EventInv, Before, Started, Allowed, Authorised, TypeOK
  <2>3. OutcomeInv' /\ VetoHolds'
    BY <1>0, <1>2 DEF Call, CallReturns, PostHook, PostHookEnds, OutcomeInv,
       VetoHolds, Before
  <2>4. OutcomeConsistent' /\ StartedIsClosed' /\ ProgressIsSession'
    BY <1>0, <1>2 DEF Call, CallReturns, PostHook, PostHookEnds,
       OutcomeConsistent, StartedIsClosed, ProgressIsSession
  <2> QED
    BY <2>1, <2>2, <2>3, <2>4 DEF IInv
<1>3. CASE Cancel \/ UNCHANGED vars
  <2>1. /\ UNCHANGED <<pc, h, raw, validated, permVars, called, outcome, events,
                       history>>
        /\ cancelled' \in BOOLEAN
    BY <1>0, <1>3 DEF Cancel, vars, TypeOK
  <2>2. TypeOK'
    BY <1>0, <2>1 DEF TypeOK
  <2>3. DecisionInv' /\ CallInv' /\ EventInv' /\ OutcomeInv'
    BY <1>0, <2>1 DEF DecisionInv, CallInv, EventInv, OutcomeInv, Before, Started,
       Allowed, Authorised
  <2>4. VetoHolds' /\ OutcomeConsistent' /\ StartedIsClosed' /\ ProgressIsSession'
    BY <1>0, <2>1 DEF VetoHolds, OutcomeConsistent, StartedIsClosed,
       ProgressIsSession
  <2> QED
    BY <2>2, <2>3, <2>4 DEF IInv
<1> QED
  BY <1>1, <1>2, <1>3

LEMMA PostReturnIInv ==
  ASSUME IInv, PostReturn
  PROVE  IInv'
<1>0. /\ TypeOK /\ DecisionInv /\ CallInv /\ EventInv /\ OutcomeInv
  BY DEF IInv
<1> USE DEF history, permVars, PostReturn, ErrorFlag
<1>a. PICK x \in {"failed", "completed"} :
        events' = Append(events, x) /\ (x = "failed" <=> err)
  OBVIOUS
<1>b. events \in Seq(Event) /\ (Started \/ Allowed)
  BY <1>0 DEF EventInv, TypeOK, Event
<1>c. /\ events' \in Seq(Event) /\ ProgressIsSession' /\ events' # <<>>
      /\ events'[Len(events')] \in Terminal
      /\ (\E k \in DOMAIN events' : events'[k] = "completed") <=> x = "completed"
  BY <1>a, <1>b, CloseSession DEF Terminal
<1>1. TypeOK'
  BY <1>0, <1>c DEF TypeOK, Event
<1>2. DecisionInv' /\ CallInv' /\ EventInv'
  BY <1>0 DEF DecisionInv, CallInv, EventInv, Before, Authorised
<1>3. OutcomeInv' /\ VetoHolds'
  BY <1>0 DEF OutcomeInv, VetoHolds, Before, CallInv, TypeOK
<1>4. OutcomeConsistent' /\ StartedIsClosed'
  BY <1>0, <1>a, <1>c DEF OutcomeConsistent, StartedIsClosed, TypeOK
<1> QED
  BY <1>1, <1>2, <1>3, <1>4, <1>c DEF IInv

-----------------------------------------------------------------------------
(* Theorems *)

\* Every behaviour of Execute keeps the inductive invariant.
THEOREM Invariance == Spec => []IInv
<1>1. IInv /\ [Next]_vars => IInv'
  BY EntryIInv, PreHookIInv, StartIInv, CheckPermissionsIInv, PermissionHookIInv,
     DecidedIInv, CallIInv, PostReturnIInv DEF Next, Execute
<1> QED
  BY <1>1, InitIInv, PTL DEF Spec

\* Hook indices, decisions and events stay in range, however many hooks there are
\* and whatever they answer (Execute).
THEOREM ExecutorTypes == Spec => []TypeOK
<1>1. IInv => TypeOK
  BY DEF IInv
<1> QED
  BY <1>1, Invariance, PTL

\* The tool is called only with an input that was validated as it is and that
\* the permission check or a PermissionRequest hook authorised; a denied use is
\* never called.
THEOREM CallsAreCleared ==
  Spec => []CallsCleared
<1>1. IInv => CallsCleared
  BY DEF IInv, CallsCleared, CallInv, Authorised, CalledInputValidated, CalledIsAuthorised,
     DenialIsFinal
<1> QED
  BY <1>1, Invariance, PTL

\* The veto of a hook holds, and what Execute returns agrees with the events it
\* sent.
THEOREM OutcomesAreHonest ==
  Spec => []OutcomesHonest
<1>1. IInv => OutcomesHonest
  BY DEF IInv, OutcomesHonest
<1> QED
  BY <1>1, Invariance, PTL

\* Execute implements the contract its callers rely on.
THEOREM ExecuteImplementsContract == Spec => ImplementsContract
<1> USE DEF Contract!Next, Contract!Cancel, Contract!Refuse, Contract!Call,
            Contract!Return, Contract!vars, Contract!Init
<1>1. Init => Contract!Init
  BY DEF Init
<1>2. IInv /\ [Next]_vars => [Contract!Next]_Contract!vars
  <2> SUFFICES ASSUME IInv, [Next]_vars
               PROVE  Contract!Next \/ UNCHANGED Contract!vars
    OBVIOUS
  <2>0. TypeOK /\ CallInv /\ OutcomeInv
    BY DEF IInv
  <2>1. CASE Cancel \/ UNCHANGED vars
    BY <2>1 DEF Cancel, vars, outcome, permVars, history
  <2>2. CASE Call
    BY <2>0, <2>2 DEF Call, ContextLive, CallInv, TypeOK, Before
  <2>3. CASE PostReturn
    BY <2>0, <2>3 DEF PostReturn, CallInv, TypeOK, permVars, history
  <2>4. CASE CallReturns \/ PostHook
    BY <2>0, <2>4 DEF CallReturns, PostHook, PostHookEnds, CallInv, TypeOK
  <2>5. ASSUME pc \in Before, called' = called, cancelled' = cancelled,
               Refuse \/ pc' \in Before
        PROVE  Contract!Next \/ UNCHANGED Contract!vars
    BY <2>0, <2>5 DEF Refuse, CallInv, Before
  <2>6. CASE Entry \/ PreHook \/ Start \/ CheckPermissions
    <3>1. /\ pc \in Before /\ called' = called /\ cancelled' = cancelled
          /\ Refuse \/ pc' \in Before
      BY <2>6 DEF Entry, PreHook, Start, CheckPermissions, Before, Behavior
    <3> QED
      BY <3>1, <2>5
  <2>7. CASE PermissionHook \/ DeniedReturn \/ AskedRequest \/ AskedDenied
               \/ AskedAllowed \/ PreCallCancelled
    <3>1. /\ pc \in Before /\ called' = called /\ cancelled' = cancelled
          /\ Refuse \/ pc' \in Before
      BY <2>7 DEF PermissionHook, DeniedReturn, Denied, AskedRequest, AskedDenied,
         AskedAllowed, PreCallCancelled, Before
    <3> QED
      BY <3>1, <2>5
  <2> QED
    BY <2>1, <2>2, <2>3, <2>4, <2>6, <2>7 DEF Next, Execute
<1> QED
  BY <1>1, <1>2, Invariance, PTL DEF Spec, ImplementsContract, Contract!Spec

-----------------------------------------------------------------------------
(* Progress.  What the fairness of Execute needs to become ExecuteReturns: no  *)
(* control point is visited again without fewer hooks left, so that the number *)
(* of steps is bounded beforehand.                                             *)

\* The hooks of the phase that have still to run.
HooksLeft == NumHooks + 1 - h

\* An upper bound on the steps Execute has still to take: three phases of hooks
\* and what comes between them.
StepsLeft ==
  CASE pc = "entry"               -> 3 * NumHooks + 7
    [] pc = "pre"                 -> 2 * NumHooks + 6 + HooksLeft
    [] pc = "permission"          -> 2 * NumHooks + 5
    [] pc \in {"denied", "asked"} -> NumHooks + 4 + HooksLeft
    [] pc = "precall"             -> NumHooks + 3
    [] pc = "call"                -> NumHooks + 2
    [] pc = "post"                -> 1 + HooksLeft
    [] OTHER                      -> 0

\* A step of Execute brings its end nearer, and only the cancellation leaves it
\* where it is.
StepsForward ==
  \/ StepsLeft' < StepsLeft
  \/ StepsLeft' = StepsLeft /\ ~cancelled /\ cancelled'

LEMMA StepsLeftNat ==
  ASSUME TypeOK
  PROVE  /\ StepsLeft \in 0 .. 3 * NumHooks + 7
         /\ StepsLeft = 0 => pc = "returned"
<1>1. HooksLeft \in 0 .. NumHooks
  BY DEF TypeOK, HooksLeft
<1>2. CASE pc \in {"entry", "pre", "permission"}
  BY <1>1, <1>2 DEF StepsLeft
<1>3. CASE pc \in {"denied", "asked", "precall"}
  BY <1>1, <1>3 DEF StepsLeft
<1>4. CASE pc \in {"call", "post", "returned"}
  BY <1>1, <1>4 DEF StepsLeft
<1> QED BY <1>2, <1>3, <1>4 DEF TypeOK

\* A step that returns.
LEMMA ReturnForward ==
  ASSUME TypeOK, pc # "returned", pc' = "returned"
  PROVE  StepsLeft' < StepsLeft
<1>1. StepsLeft' = 0
  BY DEF StepsLeft
<1> QED BY <1>1, StepsLeftNat

LEMMA PhasesForward ==
  ASSUME TypeOK, Entry \/ Start \/ CheckPermissions \/ AskedAllowed \/ Call \/ CallReturns
  PROVE  StepsLeft' < StepsLeft
<1>1. CASE pc' = "returned"
  <2>1. pc # "returned"
    BY DEF Entry, Start, CheckPermissions, AskedAllowed, Call, CallReturns
  <2> QED BY <1>1, <2>1, ReturnForward
<1>2. CASE pc' # "returned"
  <2>1. CASE Entry
    BY <1>2, <2>1 DEF Entry, Refuse, StepsLeft, HooksLeft
  <2>2. CASE Start
    BY <1>2, <2>2 DEF TypeOK, Start, Refuse, StepsLeft, HooksLeft
  <2>3. CASE CheckPermissions
    BY <1>2, <2>3 DEF CheckPermissions, Refuse, Behavior, StepsLeft, HooksLeft
  <2>4. CASE AskedAllowed
    BY <1>2, <2>4 DEF TypeOK, AskedAllowed, Refuse, StepsLeft, HooksLeft
  <2>5. CASE Call
    BY <2>5 DEF Call, StepsLeft
  <2>6. CASE CallReturns
    BY <2>6 DEF CallReturns, StepsLeft, HooksLeft
  <2> QED BY <2>1, <2>2, <2>3, <2>4, <2>5, <2>6
<1> QED BY <1>1, <1>2

\* A hook that ran is behind Execute, and a hook that ends its phase skips the
\* others.
LEMMA HooksForward ==
  ASSUME TypeOK, PreHook \/ PermissionHook \/ PostHook
  PROVE  StepsLeft' < StepsLeft
<1>1. CASE pc' = "returned"
  <2>1. pc # "returned"
    BY DEF PreHook, PermissionHook, PostHook
  <2> QED BY <1>1, <2>1, ReturnForward
<1>2. CASE pc' # "returned"
  <2>1. /\ h \in 1 .. NumHooks /\ h' \in h + 1 .. NumHooks + 1
        /\ pc' = pc /\ pc \in {"pre", "denied", "asked", "post"}
    BY <1>2 DEF TypeOK, PreHook, PermissionHook, PostHook, PostHookEnds, Refuse
  <2> QED BY <2>1 DEF StepsLeft, HooksLeft
<1> QED BY <1>1, <1>2

\* Execute takes at most 3 * NumHooks + 7 steps, whatever hooks, rules and tool
\* answer: each of its steps lowers a bound that only a return brings to zero.
THEOREM ExecuteIsFinite ==
  Spec => /\ [](StepsLeft \in 0 .. 3 * NumHooks + 7 /\ (StepsLeft = 0 => pc = "returned"))
          /\ [][StepsForward]_vars
<1>1. IInv => TypeOK
  BY DEF IInv
<1>2. TypeOK /\ [Next]_vars => [StepsForward]_vars
  <2> SUFFICES ASSUME TypeOK, Next PROVE StepsForward
    OBVIOUS
  <2>1. CASE Cancel
    BY <2>1 DEF Cancel, StepsForward, StepsLeft, HooksLeft
  <2>2. CASE DeniedReturn \/ AskedRequest \/ AskedDenied \/ PreCallCancelled \/ PostReturn
    <3>1. pc # "returned" /\ pc' = "returned"
      BY <2>2 DEF DeniedReturn, Denied, AskedRequest, AskedDenied, PreCallCancelled, PostReturn,
         Refuse
    <3> QED BY <3>1, ReturnForward DEF StepsForward
  <2>3. CASE Entry \/ Start \/ CheckPermissions \/ AskedAllowed \/ Call \/ CallReturns
    BY <2>3, PhasesForward DEF StepsForward
  <2>4. CASE PreHook \/ PermissionHook \/ PostHook
    BY <2>4, HooksForward DEF StepsForward
  <2> QED BY <2>1, <2>2, <2>3, <2>4 DEF Next, Execute
<1>3. TypeOK => StepsLeft \in 0 .. 3 * NumHooks + 7 /\ (StepsLeft = 0 => pc = "returned")
  BY StepsLeftNat
<1> QED
  BY <1>1, <1>2, <1>3, Invariance, PTL DEF Spec
=============================================================================
