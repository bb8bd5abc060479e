--------------------------- MODULE SidechainsProofs ---------------------------
(***************************************************************************)
(* What Sidechains promises for any number of tasks and of actors, proved. *)
(***************************************************************************)
EXTENDS Sidechains, FiniteSetTheorems, WellFoundedInduction, TLAPS

-----------------------------------------------------------------------------
(* The transcript of a task.                                               *)

Lifecycle == {"start", "summary"}

\* An entry's status is one of those its kind may have.
EntryType == [kind : {"start"}, status : {"running"}, owned : BOOLEAN]
        \cup [kind : {"summary"}, status : Ends, owned : {FALSE}]
        \cup [kind : {"cleanup"}, status : Cleanups, owned : {FALSE}]

LogType == log \in [Tasks -> Seq(EntryType)]

\* Every set of positions that is not empty has a last one.
LEMMA HasMax ==
  ASSUME NEW n \in Nat, NEW S, S \subseteq 1 .. n, S # {}
  PROVE  /\ Max(S) \in S
         /\ \A k \in S : k <= Max(S)
<1> DEFINE R == OpToRel(<, Nat)
           T == {n - k : k \in S}
<1>1. T \subseteq Nat /\ T # {}
  <2>1. \A k \in S : n - k \in Nat
    OBVIOUS
  <2>2. PICK k \in S : TRUE
    OBVIOUS
  <2>3. n - k \in T
    BY <2>2
  <2>4. ASSUME NEW y \in T PROVE y \in Nat
    <3>1. PICK j \in S : y = n - j
      BY <2>4, Zenon
    <3> QED BY <3>1, <2>1
  <2> QED BY <2>3, <2>4
<1>2. PICK x \in T : \A y \in T : ~(<<y, x>> \in R)
  <2> HIDE DEF R, T
  <2>1. IsWellFoundedOn(R, Nat)
    BY NatLessThanWellFounded DEF R
  <2> QED BY <2>1, <1>1, WFMin
<1>3. \A y \in T : ~(y < x)
  BY <1>1, <1>2 DEF OpToRel
<1>4. PICK m \in S : x = n - m
  BY <1>2
<1>5. \A k \in S : k <= m
  <2> SUFFICES ASSUME NEW k \in S PROVE k <= m
    OBVIOUS
  <2>1. n - k \in T
    OBVIOUS
  <2>2. ~(n - k < n - m)
    BY <2>1, <1>3, <1>4
  <2> QED BY <2>2, SMT
<1>6. \E m1 \in S : \A k \in S : m1 >= k
  <2>1. \A k \in S : m >= k
    BY <1>5, SMT
  <2> QED BY <2>1, Zenon
<1>7. Max(S) \in S /\ \A k \in S : Max(S) >= k
  <2> DEFINE P(z) == \A k \in S : z >= k
  <2>1. \E m1 \in S : P(m1)
    BY <1>6
  <2>2. Max(S) = CHOOSE z \in S : P(z)
    BY DEF Max
  <2> HIDE DEF P
  <2>3. Max(S) \in S /\ P(Max(S))
    BY <2>1, <2>2, Zenon
  <2> QED BY <2>3 DEF P
<1> QED BY <1>7, SMT

\* LastMark is the last of the marks, 0 where there is none.
LEMMA LastMarkIsLast ==
  ASSUME LogType, NEW t \in Tasks, NEW kinds
  PROVE  /\ Marks(t, kinds) \subseteq 1 .. Len(log[t])
         /\ LastMark(t, kinds) \in Nat
         /\ LastMark(t, kinds) = 0 <=> Marks(t, kinds) = {}
         /\ Marks(t, kinds) # {} => LastMark(t, kinds) \in Marks(t, kinds)
         /\ \A k \in Marks(t, kinds) : k <= LastMark(t, kinds)
<1> DEFINE S == Marks(t, kinds)
           n == Len(log[t])
<1>1. n \in Nat /\ S \subseteq 1 .. n
  BY DEF LogType, Marks
<1>2. CASE S = {}
  BY <1>1, <1>2 DEF LastMark
<1>3. CASE S # {}
  <2>1. LastMark(t, kinds) = Max(S)
    BY <1>3 DEF LastMark
  <2> HIDE DEF S, n
  <2>2. Max(S) \in S /\ \A k \in S : k <= Max(S)
    BY <1>1, <1>3, HasMax
  <2>3. Max(S) \in Nat /\ Max(S) # 0
    <3>1. Max(S) \in 1 .. n
      BY <1>1, <2>2
    <3> QED BY <3>1, <1>1
  <2> QED BY <1>1, <1>3, <2>1, <2>2, <2>3 DEF S, n
<1> QED BY <1>2, <1>3

\* The last mark is the only one that no mark follows.
LEMMA LastMarkUnique ==
  ASSUME LogType, NEW t \in Tasks, NEW kinds,
         NEW m \in Marks(t, kinds), \A k \in Marks(t, kinds) : k <= m
  PROVE  LastMark(t, kinds) = m
<1>1. /\ LastMark(t, kinds) \in Marks(t, kinds)
      /\ m <= LastMark(t, kinds) /\ LastMark(t, kinds) <= m
      /\ Marks(t, kinds) \subseteq 1 .. Len(log[t])
  BY LastMarkIsLast
<1>2. Len(log[t]) \in Nat
  BY DEF LogType
<1> QED BY <1>1, <1>2

-----------------------------------------------------------------------------
(* The inductive invariant.                                                *)

StartPoints == {"worktree", "start", "metadata", "append", "abandon", "prompt", "load"}
LoopPoints  == {"send", "answered", "answer", "tools", "ran", "result"}
EndPoints   == {"finish", "summary", "main"}
CleanPoints == {"cleanup", "mark"}
Points == {"idle", "begin", "reload", "sending", "message"}
            \cup StartPoints \cup LoopPoints \cup EndPoints \cup CleanPoints

OpType == [kind : Kinds \cup {"none"}, task : Tasks \cup {NoTask}, pc : Points, status : Ends,
           owned : BOOLEAN, managed : BOOLEAN, snap : Cleanups \cup {"none"}, uses : BOOLEAN,
           round : 0 .. MaxToolRounds, start : Nat, late : Nat]

\* What the point an actor is at says of the rest of its call: a subagent runs
\* for a Task only, in a run that it has found started.
OpShape(o) ==
  /\ o.pc = "idle" <=> o = Idle
  /\ o.pc # "idle" => o.task \in Tasks
  /\ o.pc \in LoopPoints \ {"send"} => o.round < MaxToolRounds
  /\ o.pc \in StartPoints \cup LoopPoints => o.kind = "Task"
  /\ o.pc \in LoopPoints => o.start # 0
  /\ o.pc \in EndPoints => o.start # 0 \/ o.kind = "KillTask"
  /\ o.pc = "mark" => o.snap \in Cleanups
  /\ o.start = 0 => o.late = 0
  /\ o.start # 0 => o.kind = "Task" /\ o.pc \in LoopPoints \cup EndPoints \cup CleanPoints
  /\ o.snap # "none" => o.start # 0 \/ o.pc \in CleanPoints

OpTyped == op \in [Actors -> OpType] /\ \A a \in Actors : OpShape(op[a])

Types ==
  /\ LogType /\ OpTyped
  /\ main \in Seq(Tasks \X Ends)
  /\ tree \subseteq Tasks
  /\ meta \in [Tasks -> {"none", "session", "managed"}]
  /\ calls \in 0 .. MaxCalls /\ faults \in 0 .. MaxFaults

\* The run a subagent belongs to began with an entry of its task's transcript.
RunsBegan ==
  \A a \in Actors : op[a].start # 0 => op[a].start \in Marks(Task(a), {"start"})

\* A subagent that has begun a round after its run had ended, and was not started
\* again, is in that round or past it: it does not append the round's results.
LateStops ==
  \A a \in Actors :
    op[a].start # 0 /\ LastStart(Task(a)) = op[a].start
      => \/ op[a].late = 0
         \/ /\ op[a].late = 1 /\ RunEnded(Task(a), op[a].start)
            /\ op[a].pc \notin {"send", "answered", "answer", "result"}

\* Unless something failed, a run has ended when its subagent gets to the
\* cleanup, and so when it has returned.
RunsEnd ==
  faults = 0 =>
    /\ \A r \in ended : r \in Tasks \X Nat /\ RunEnded(r[1], r[2])
    /\ \A a \in Actors : op[a].start # 0 /\ op[a].pc \in {"main", "cleanup", "mark"}
                           => RunEnded(Task(a), op[a].start)

\* The summaries the session has not been told of are those of the actors that
\* are about to tell it.
Side(t) == Marks(t, {"summary"})
Told(t) == {k \in DOMAIN main : main[k][1] = t}
Telling(t) == {a \in Actors : Task(a) = t /\ op[a].pc = "main"}

Mirror ==
  \A t \in Tasks :
    /\ Cardinality(Told(t)) + Cardinality(Telling(t)) <= Cardinality(Side(t))
    /\ faults = 0 => Cardinality(Told(t)) + Cardinality(Telling(t)) = Cardinality(Side(t))

(* The worktree.                                                           *)

GoneMarks == {"removed", "missing", "skipped"}

\* Somebody has recorded, or is about to, that the worktree needs no cleanup.
Gone(t) == \/ \E k \in Marks(t, {"cleanup"}) : log[t][k].status \in GoneMarks
           \/ \E a \in Actors : Task(a) = t /\ op[a].snap \in GoneMarks

At(a, t, points) == Task(a) = t /\ op[a].pc \in points

\* A call that knows of the worktree what it loaded.
Knows(a, t) == Task(a) = t /\ (op[a].start # 0 \/ op[a].pc \in CleanPoints)

\* An actor about to start the task, with a worktree it has made; one about to
\* append its start, whose metadata said what is given of the worktree.
Claims(b, t) == At(b, t, {"start", "metadata", "append"}) /\ op[b].owned
Wrote(c, t, managed) == At(c, t, {"append"}) /\ (op[c].owned <=> managed)

Before(t) == faults = 0 /\ Marks(t, {"start"}) = {}

\* Of a task that was not started, the worktree and the metadata are those of
\* actors about to start it, and what was recorded of the worktree is about an
\* earlier one: somebody else's than the one that is there.
TreeClaimed(t) == t \in tree => \E b \in Actors : Claims(b, t)
MetaClaimed(t) == meta[t] # "none" => \E c \in Actors : Wrote(c, t, meta[t] = "managed")
MetaFirst(t) ==
  /\ log[t] # <<>> \/ Gone(t) => meta[t] # "none"
  /\ \A a \in Actors : At(a, t, {"append"} \cup CleanPoints) => meta[t] # "none"
LoadsClaimed(t) ==
  \A a \in Actors : Knows(a, t) =>
    /\ op[a].owned <=> op[a].managed
    /\ \E c \in Actors : Wrote(c, t, op[a].owned)
GoneClaimed(t) ==
  t \in tree /\ Gone(t) =>
    \E b, c \in Actors : b # c /\ At(c, t, {"append"}) /\ Claims(b, t)

NotStarted(t) ==
  TreeClaimed(t) /\ MetaClaimed(t) /\ MetaFirst(t) /\ LoadsClaimed(t) /\ GoneClaimed(t)

Once(t) ==
  /\ faults = 0
  /\ \E m \in Marks(t, {"start"}) : Marks(t, {"start"}) = {m}
  /\ \A a \in Actors : ~At(a, t, {"metadata", "append"})

\* The worktree is the one the task was started with.
Original(t) ==
  t \in tree /\ \A b \in Actors : At(b, t, {"start", "abandon"}) => ~op[b].owned

\* Of a task that was started once everybody knows what its metadata say, and
\* its worktree is there while the task runs, until somebody removes it, or
\* with a failed removal on record.
OwnedByMeta(t) == Owned(t) <=> meta[t] = "managed"
KnowMeta(t) ==
  \A a \in Actors : Knows(a, t) =>
    (op[a].owned <=> meta[t] = "managed") /\ (op[a].managed <=> meta[t] = "managed")
OriginalKept(t) ==
  Original(t) =>
    /\ meta[t] = "managed" /\ ~Gone(t)
    /\ \/ Running(t) \/ CleanupStatus(t) = "failed"
       \/ \E a \in Actors : At(a, t, {"main", "reload"} \cup CleanPoints)

StartedOnce(t) == OwnedByMeta(t) /\ KnowMeta(t) /\ OriginalKept(t)

Worktree(t) == (Before(t) => NotStarted(t)) /\ (Once(t) => StartedOnce(t))

\* Somebody ends a task only where it was started.
EndsBegan ==
  \A a \in Actors : op[a].pc \in EndPoints \cup {"reload"} => Marks(Task(a), {"start"}) # {}

Worktrees == EndsBegan /\ \A t \in Tasks : Worktree(t)

-----------------------------------------------------------------------------
(* Types.                                                                  *)

LEMMA IdleTyped == Idle \in OpType /\ OpShape(Idle)
<1>1. 0 \in 0 .. MaxToolRounds
  BY SidechainsAssumption
<1> QED BY <1>1 DEF OpType, OpShape, Idle, Points, StartPoints, LoopPoints, EndPoints, CleanPoints,
                    Ends, Kinds

LEMMA Becomes ==
  ASSUME OpTyped, NEW a \in Actors, NEW o \in OpType, OpShape(o), op' = [op EXCEPT ![a] = o]
  PROVE  OpTyped'
<1>1. op' \in [Actors -> OpType]
  BY DEF OpTyped
<1>2. ASSUME NEW b \in Actors PROVE OpShape(op'[b])
  <2>1. CASE b = a
    <3>1. op'[b] = o
      BY <2>1 DEF OpTyped
    <3> QED BY <3>1
  <2>2. CASE b # a
    <3>1. op'[b] = op[b] /\ OpShape(op[b])
      BY <2>2 DEF OpTyped
    <3> QED BY <3>1
  <2> QED BY <2>1, <2>2
<1> QED BY <1>1, <1>2 DEF OpTyped

LEMMA ReturnTyped ==
  ASSUME OpTyped, NEW a \in Actors, op' = [op EXCEPT ![a] = Idle]
  PROVE  OpTyped'
BY IdleTyped, Becomes

LEMMA GoTyped ==
  ASSUME OpTyped, NEW a \in Actors, NEW pc \in Points, Go(a, pc), OpShape([op[a] EXCEPT !.pc = pc])
  PROVE  OpTyped'
<1>1. op[a] \in OpType
  BY DEF OpTyped
<1>2. [op[a] EXCEPT !.pc = pc] \in OpType
  BY <1>1 DEF OpType
<1>3. op' = [op EXCEPT ![a] = [op[a] EXCEPT !.pc = pc]]
  BY DEF Go
<1> QED BY <1>2, <1>3, Becomes

LEMMA EndRunTyped ==
  ASSUME OpTyped, NEW a \in Actors, NEW status \in Ends, op[a].pc \in LoopPoints, EndRun(a, status)
  PROVE  OpTyped'
<1> DEFINE o == [op[a] EXCEPT !.pc = "finish", !.status = status, !.round = 0, !.uses = FALSE]
<1>1. op[a] \in OpType /\ OpShape(op[a])
  BY DEF OpTyped
<1>2. 0 \in 0 .. MaxToolRounds
  BY SidechainsAssumption
<1>3. o \in OpType
  BY <1>1, <1>2 DEF OpType, Points, EndPoints
<1>4. OpShape(o)
  <2>1. /\ o.pc = "finish" /\ o.start = op[a].start /\ o.late = op[a].late
        /\ o.kind = op[a].kind /\ o.task = op[a].task /\ o.snap = op[a].snap
    BY <1>1 DEF OpType
  <2>2. op[a].pc # "idle" /\ op[a].start # 0 /\ op[a].kind = "Task" /\ op[a].task \in Tasks
    BY <1>1 DEF OpShape, LoopPoints
  <2>3. o # Idle
    BY <2>1 DEF Idle
  <2> HIDE DEF o
  <2> QED BY <2>1, <2>2, <2>3 DEF OpShape, StartPoints, LoopPoints, EndPoints
<1>5. op' = [op EXCEPT ![a] = o]
  BY DEF EndRun
<1> QED BY <1>3, <1>4, <1>5, Becomes

\* Appending an entry to one transcript.
LEMMA LogAppend ==
  ASSUME LogType, NEW t \in Tasks, NEW e \in EntryType, Append1(t, e)
  PROVE  /\ LogType'
         /\ \A u \in Tasks : u # t => log'[u] = log[u]
         /\ log'[t] = Append(log[t], e)
         /\ Len(log[t]) \in Nat /\ DOMAIN log[t] = 1 .. Len(log[t])
         /\ DOMAIN log'[t] = 1 .. (Len(log[t]) + 1)
         /\ \A k \in DOMAIN log[t] : log'[t][k] = log[t][k]
         /\ log'[t][Len(log[t]) + 1] = e
BY DEF LogType, Append1

LEMMA CleanupStatusTyped ==
  ASSUME LogType, NEW t \in Tasks
  PROVE  CleanupStatus(t) \in Cleanups \cup {"none"}
<1>1. CASE LastMark(t, {"cleanup"}) = 0
  BY <1>1 DEF CleanupStatus
<1>2. CASE LastMark(t, {"cleanup"}) # 0
  <2>1. PICK k \in Marks(t, {"cleanup"}) : k = LastMark(t, {"cleanup"})
    BY <1>2, LastMarkIsLast
  <2>2. log[t][k].kind = "cleanup" /\ log[t][k] \in EntryType
    BY <2>1 DEF Marks, LogType
  <2>3. log[t][k].status \in Cleanups
    BY <2>2 DEF EntryType
  <2> QED BY <1>2, <2>1, <2>3 DEF CleanupStatus
<1> QED BY <1>1, <1>2

\* The status is that of the last start or summary.
LEMMA StatusLast ==
  ASSUME LogType, NEW t \in Tasks
  PROVE  /\ Running(t) => /\ LastStart(t) # 0
                          /\ LastMark(t, Lifecycle) = LastStart(t)
         /\ ~Running(t) /\ LastStart(t) # 0 => LastMark(t, Lifecycle) \in Marks(t, {"summary"})
<1> DEFINE m == LastMark(t, Lifecycle)
<1>1. Status(t) = IF m = 0 THEN "unknown" ELSE log[t][m].status
  BY DEF Status, Lifecycle
<1>2. Marks(t, {"start"}) \subseteq Marks(t, Lifecycle)
  BY DEF Marks, Lifecycle
<1>3. CASE Marks(t, Lifecycle) = {}
  <2>1. m = 0
    BY <1>3, LastMarkIsLast
  <2>2. LastStart(t) = 0
    BY <1>2, <1>3, LastMarkIsLast DEF LastStart
  <2> QED BY <1>1, <2>1, <2>2 DEF Running
<1>4. CASE Marks(t, Lifecycle) # {}
  <2>1. m # 0 /\ m \in Marks(t, Lifecycle) /\ \A k \in Marks(t, Lifecycle) : k <= m
    BY <1>4, LastMarkIsLast
  <2>2. m \in DOMAIN log[t] /\ log[t][m] \in EntryType /\ log[t][m].kind \in Lifecycle
    BY <2>1 DEF Marks, LogType
  <2>3. log[t][m].kind = "start" <=> log[t][m].status = "running"
    BY <2>2 DEF EntryType, Ends, Cleanups, Lifecycle
  <2>4. Running(t) <=> log[t][m].kind = "start"
    BY <1>1, <2>1, <2>3 DEF Running
  <2>5. CASE log[t][m].kind = "start"
    <3>1. m \in Marks(t, {"start"})
      BY <2>2, <2>5 DEF Marks
    <3>2. LastStart(t) = m
      <4> HIDE DEF m
      <4> QED BY <3>1, <2>1, <1>2, LastMarkUnique DEF LastStart
    <3> QED BY <3>2, <2>1, <2>4, <2>5
  <2>6. CASE log[t][m].kind = "summary"
    BY <2>2, <2>4, <2>6 DEF Marks
  <2> QED BY <2>2, <2>5, <2>6 DEF Lifecycle
<1> QED BY <1>3, <1>4

LEMMA LoadedTyped ==
  ASSUME OpTyped, LogType, NEW a \in Actors, op[a].pc # "idle",
         NEW pc \in {"send", "cleanup"}, NEW start \in Nat, Loaded(a, pc, start),
         pc = "send" => op[a].pc = "load" /\ start # 0,
         pc = "cleanup" => op[a].start = 0 /\ start = 0
  PROVE  OpTyped'
<1> DEFINE o == [op[a] EXCEPT !.pc = pc, !.start = start, !.snap = CleanupStatus(Task(a)),
                              !.owned = Owned(Task(a)), !.managed = (meta[Task(a)] = "managed")]
<1>1. op[a] \in OpType /\ OpShape(op[a]) /\ Task(a) \in Tasks
  BY DEF OpTyped, OpShape, Task
<1>2. PICK snap \in Cleanups \cup {"none"} : snap = CleanupStatus(Task(a))
  BY <1>1, CleanupStatusTyped
<1>3. PICK owned \in BOOLEAN : owned = Owned(Task(a))
  BY DEF Owned
<1>4. PICK managed \in BOOLEAN : managed = (meta[Task(a)] = "managed")
  OBVIOUS
<1>5. o = [op[a] EXCEPT !.pc = pc, !.start = start, !.snap = snap, !.owned = owned, !.managed = managed]
  BY <1>2, <1>3, <1>4
<1>6. pc \in Points
  BY DEF Points, LoopPoints, CleanPoints
<1>7. op' = [op EXCEPT ![a] = o]
  BY DEF Loaded
<1> HIDE DEF o
<1>8. o \in OpType
  BY <1>1, <1>2, <1>3, <1>4, <1>5, <1>6, ZenonT(60) DEF OpType
<1>9. /\ o.pc = pc /\ o.start = start /\ o.snap = snap /\ o.late = op[a].late
      /\ o.kind = op[a].kind /\ o.task = op[a].task /\ o.round = op[a].round
  BY <1>1, <1>5 DEF OpType
<1>10. o # Idle
  BY <1>9 DEF Idle
<1>11. op[a].late = 0 /\ op[a].task \in Tasks
  BY <1>1 DEF OpShape, LoopPoints, EndPoints, CleanPoints
<1>12. pc = "send" => op[a].kind = "Task"
  BY <1>1 DEF OpShape, StartPoints
<1>13. OpShape(o)
  BY <1>9, <1>10, <1>11, <1>12 DEF OpShape, StartPoints, LoopPoints, EndPoints, CleanPoints
<1> QED BY <1>7, <1>8, <1>13, Becomes

LEMMA FaultTyped ==
  ASSUME faults \in 0 .. MaxFaults, Fault \/ UNCHANGED faults
  PROVE  faults' \in 0 .. MaxFaults
BY SidechainsAssumption DEF Fault

\* The entry a step appends is one of its transcript's.
LEMMA EntriesTyped ==
  ASSUME OpTyped, NEW a \in Actors
  PROVE  /\ Entry("start", "running", op[a].owned) \in EntryType
         /\ Entry("summary", op[a].status, FALSE) \in EntryType
         /\ op[a].snap \in Cleanups => Entry("cleanup", op[a].snap, FALSE) \in EntryType
BY DEF OpTyped, OpType, Entry, EntryType

\* What a step that takes an actor to another point does to its call.
Shape(a) == op[a] \in OpType /\ OpShape(op[a])

LEMMA CallTyped ==
  ASSUME Types, NEW a \in Actors, Call(a) \/ Die(a)
  PROVE  Types'
<1>1. CASE Die(a)
  <2>1. OpTyped'
    BY <1>1, ReturnTyped DEF Die, Types
  <2>2. faults' \in 0 .. MaxFaults
    BY <1>1, FaultTyped DEF Die, Types
  <2> QED BY <1>1, <2>1, <2>2 DEF Die, Types, LogType
<1>2. CASE Call(a)
  <2>1. PICK kind \in Kinds, t \in Tasks :
          op' = [op EXCEPT ![a] = [Idle EXCEPT !.kind = kind, !.task = t, !.pc = "begin"]]
    BY <1>2 DEF Call
  <2> DEFINE o == [Idle EXCEPT !.kind = kind, !.task = t, !.pc = "begin"]
  <2>2. o \in OpType
    BY IdleTyped DEF OpType, Points
  <2>3. /\ o.kind = kind /\ o.task = t /\ o.pc = "begin" /\ o.start = 0 /\ o.late = 0
        /\ o.snap = "none"
    BY DEF Idle
  <2>4. o # Idle
    BY <2>3 DEF Idle
  <2>5. op' = [op EXCEPT ![a] = o]
    BY <2>1
  <2> HIDE DEF o
  <2>6. OpShape(o)
    BY <2>3, <2>4 DEF OpShape, StartPoints, LoopPoints, EndPoints
  <2>7. OpTyped'
    BY <2>2, <2>5, <2>6, Becomes DEF Types
  <2>8. calls' \in 0 .. MaxCalls
    <3>1. MaxCalls \in Nat /\ calls \in 0 .. MaxCalls /\ calls < MaxCalls /\ calls' = calls + 1
      BY <1>2, SidechainsAssumption DEF Call, Types
    <3> QED BY <3>1
  <2> QED BY <1>2, <2>7, <2>8 DEF Call, Types, LogType
<1> QED BY <1>1, <1>2

\* The points a call may go to from the one it is at.
LEMMA GoesTyped ==
  ASSUME OpTyped, NEW a \in Actors, NEW pc \in Points, Go(a, pc), pc # "idle",
         op[a].pc # "idle", op[a].pc \notin CleanPoints,
         pc \in StartPoints => op[a].kind = "Task" /\ op[a].start = 0,
         pc \in {"reload", "sending", "message"} => op[a].start = 0,
         pc \in LoopPoints => op[a].pc \in LoopPoints /\ op[a].round < MaxToolRounds,
         pc \in EndPoints => op[a].pc \in EndPoints,
         pc \in CleanPoints => op[a].start # 0,
         pc # "begin", pc # "mark"
  PROVE  OpTyped'
<1> DEFINE o == [op[a] EXCEPT !.pc = pc]
<1>1. op[a] \in OpType /\ OpShape(op[a])
  BY DEF OpTyped
<1>2. /\ o.pc = pc /\ o.start = op[a].start /\ o.late = op[a].late /\ o.round = op[a].round
      /\ o.kind = op[a].kind /\ o.task = op[a].task /\ o.snap = op[a].snap
  BY <1>1 DEF OpType
<1>3. o # Idle
  BY <1>2 DEF Idle
<1>4. OpShape(o)
  <2> HIDE DEF o
  <2>1. op[a].task \in Tasks /\ (op[a].start = 0 => op[a].snap = "none")
    BY <1>1 DEF OpShape
  <2>2. pc \in LoopPoints => op[a].start # 0 /\ op[a].kind = "Task"
    BY <1>1 DEF OpShape
  <2>3. op[a].start # 0 => op[a].kind = "Task" /\ pc \notin StartPoints
    BY <1>1 DEF OpShape
  <2>4. pc \in EndPoints => op[a].start # 0 \/ op[a].kind = "KillTask"
    BY <1>1 DEF OpShape
  <2> QED BY <1>1, <1>2, <1>3, <2>1, <2>2, <2>3, <2>4
          DEF OpShape, Points, StartPoints, LoopPoints, EndPoints, CleanPoints
<1> QED BY <1>4, GoTyped

\* FinishFails returns, or goes on to the cleanup of a run that did not complete.
LEMMA FinishFailsTyped ==
  ASSUME OpTyped, NEW a \in Actors, op[a].pc \in EndPoints, FinishFails(a)
  PROVE  OpTyped'
<1>1. CASE op[a].kind = "Task" /\ op[a].status # "completed"
  <2>1. OpShape(op[a])
    BY DEF OpTyped
  <2>2. op[a].start # 0 /\ op[a].pc # "idle" /\ op[a].pc \notin CleanPoints
    BY <1>1, <2>1 DEF OpShape, EndPoints, CleanPoints
  <2>3. Go(a, "cleanup")
    BY <1>1 DEF FinishFails
  <2> QED BY <2>2, <2>3, GoesTyped DEF Points, StartPoints, LoopPoints, EndPoints, CleanPoints
<1>2. CASE ~(op[a].kind = "Task" /\ op[a].status # "completed")
  BY <1>2, ReturnTyped DEF FinishFails, Return
<1> QED BY <1>1, <1>2

LEMMA StartingOpTyped ==
  ASSUME Types, NEW a \in Actors,
         \/ ensureTaskCanStart(a) \/ prepareTaskWorktree(a) \/ Start(a)
         \/ WriteSidechainMetadata(a) \/ AppendStart(a) \/ AbandonStart(a) \/ Prompt(a)
  PROVE  OpTyped'
<1> USE DEF Points, StartPoints, LoopPoints, EndPoints, CleanPoints
<1>1. OpTyped /\ op[a] \in OpType /\ OpShape(op[a])
  BY DEF Types, OpTyped
<1>2. ASSUME NEW pc \in StartPoints, Go(a, pc), op[a].kind = "Task", op[a].pc \in StartPoints \cup {"begin"}
      PROVE  OpTyped'
  <2>1. op[a].start = 0
    BY <1>1, <1>2 DEF OpShape
  <2> QED BY <1>1, <1>2, <2>1, GoesTyped
<1>3. op[a].pc \in StartPoints => op[a].kind = "Task"
  BY <1>1 DEF OpShape
<1>4. CASE ensureTaskCanStart(a)
  BY <1>1, <1>2, <1>4, ReturnTyped DEF ensureTaskCanStart, Return
<1>5. CASE prepareTaskWorktree(a)
  <2>1. ASSUME op' = [op EXCEPT ![a].pc = "start", ![a].owned = TRUE], op[a].pc = "worktree" PROVE OpTyped'
    <3> DEFINE o == [op[a] EXCEPT !.pc = "start", !.owned = TRUE]
    <3>1. op' = [op EXCEPT ![a] = o]
      BY <2>1
    <3>2. o \in OpType
      BY <1>1 DEF OpType
    <3>3. /\ o.pc = "start" /\ o.start = op[a].start /\ o.late = op[a].late /\ o.kind = op[a].kind
          /\ o.task = op[a].task /\ o.snap = op[a].snap
      BY <1>1 DEF OpType
    <3>4. o # Idle
      BY <3>3 DEF Idle
    <3> HIDE DEF o
    <3>5. OpShape(o)
      BY <1>1, <2>1, <3>3, <3>4 DEF OpShape
    <3> QED BY <1>1, <3>1, <3>2, <3>5, Becomes
  <2>2. CASE Go(a, "start")
    BY <1>2, <1>3, <1>5, <2>2 DEF prepareTaskWorktree
  <2>3. CASE Return(a)
    BY <1>1, <2>3, ReturnTyped DEF Return
  <2> QED BY <1>5, <2>1, <2>2, <2>3 DEF prepareTaskWorktree
<1>6. CASE Start(a)
  BY <1>2, <1>3, <1>6 DEF Start
<1>7. CASE WriteSidechainMetadata(a)
  BY <1>2, <1>3, <1>7 DEF WriteSidechainMetadata
<1>8. CASE AppendStart(a)
  BY <1>2, <1>3, <1>8 DEF AppendStart
<1>9. CASE AbandonStart(a)
  BY <1>1, <1>9, ReturnTyped DEF AbandonStart, Return
<1>10. CASE Prompt(a)
  BY <1>1, <1>2, <1>3, <1>10, ReturnTyped DEF Prompt, Return
<1> QED BY <1>4, <1>5, <1>6, <1>7, <1>8, <1>9, <1>10

LEMMA RunningOpTyped ==
  ASSUME Types, NEW a \in Actors,
         \/ LoadTask(a) \/ SendRequest(a) \/ CheckAppend(a) \/ AppendAnswer(a) \/ RunTools(a)
         \/ AppendResults(a)
  PROVE  OpTyped'
<1> USE DEF Points, StartPoints, LoopPoints, EndPoints, CleanPoints
<1>1. OpTyped /\ LogType /\ op[a] \in OpType /\ OpShape(op[a])
  BY DEF Types, OpTyped
<1>2. ASSUME NEW status \in Ends, op[a].pc \in LoopPoints, EndRun(a, status) PROVE OpTyped'
  BY <1>1, <1>2, EndRunTyped
<1>3. "failed" \in Ends /\ "cancelled" \in Ends
  BY DEF Ends
<1>4. CASE LoadTask(a)
  <2>1. CASE Return(a)
    BY <1>1, <2>1, ReturnTyped DEF Return
  <2>2. CASE Running(Task(a)) /\ Loaded(a, "send", LastStart(Task(a)))
    <3>1. op[a].pc = "load" /\ Task(a) \in Tasks
      BY <1>1, <1>4 DEF LoadTask, OpShape, Task
    <3>2. LastStart(Task(a)) \in Nat /\ LastStart(Task(a)) # 0
      BY <1>1, <2>2, <3>1, StatusLast, LastMarkIsLast DEF LastStart
    <3> QED BY <1>1, <2>2, <3>1, <3>2, LoadedTyped
  <2> QED BY <1>4, <2>1, <2>2 DEF LoadTask
<1>5. CASE SendRequest(a)
  <2>1. ASSUME NEW uses \in BOOLEAN, op[a].round < MaxToolRounds,
               op' = [op EXCEPT ![a].pc = "answered", ![a].uses = uses], op[a].pc = "send"
        PROVE  OpTyped'
    <3> DEFINE o == [op[a] EXCEPT !.pc = "answered", !.uses = uses]
    <3>1. op' = [op EXCEPT ![a] = o]
      BY <2>1
    <3>2. o \in OpType
      BY <1>1 DEF OpType
    <3>3. /\ o.pc = "answered" /\ o.start = op[a].start /\ o.late = op[a].late /\ o.kind = op[a].kind
          /\ o.task = op[a].task /\ o.snap = op[a].snap /\ o.round = op[a].round
      BY <1>1 DEF OpType
    <3>4. o # Idle
      BY <3>3 DEF Idle
    <3> HIDE DEF o
    <3>5. OpShape(o)
      BY <1>1, <2>1, <3>3, <3>4 DEF OpShape
    <3> QED BY <1>1, <3>1, <3>2, <3>5, Becomes
  <2> QED BY <1>2, <1>3, <1>5, <2>1 DEF SendRequest
<1>6. CASE CheckAppend(a)
  <2>1. ASSUME NEW pc \in {"answer", "result"}, Go(a, pc), op[a].pc \in {"answered", "ran"} PROVE OpTyped'
    <3>1. op[a].round < MaxToolRounds
      BY <1>1, <2>1 DEF OpShape
    <3> QED BY <1>1, <2>1, <3>1, GoesTyped
  <2> QED BY <1>2, <1>3, <1>6, <2>1 DEF CheckAppend
<1>7. CASE AppendAnswer(a)
  <2>1. ASSUME op' = [op EXCEPT ![a].pc = "tools", ![a].uses = FALSE,
                 ![a].late = IF RunEnded(Task(a), op[a].start) THEN @ + 1 ELSE @], op[a].pc = "answer"
        PROVE  OpTyped'
    <3>0. op[a].late \in Nat /\ op[a].late + 1 \in Nat
      BY <1>1 DEF OpType
    <3>1. PICK late \in Nat : late = IF RunEnded(Task(a), op[a].start) THEN op[a].late + 1 ELSE op[a].late
      BY <3>0
    <3> DEFINE o == [op[a] EXCEPT !.pc = "tools", !.uses = FALSE, !.late = late]
    <3>2. op' = [op EXCEPT ![a] = o]
      BY <2>1, <3>1
    <3>3. o \in OpType
      BY <1>1 DEF OpType
    <3>4. /\ o.pc = "tools" /\ o.start = op[a].start /\ o.kind = op[a].kind
          /\ o.task = op[a].task /\ o.snap = op[a].snap /\ o.round = op[a].round
      BY <1>1 DEF OpType
    <3>5. o # Idle
      BY <3>4 DEF Idle
    <3> HIDE DEF o
    <3>6. OpShape(o)
      BY <1>1, <2>1, <3>4, <3>5 DEF OpShape
    <3> QED BY <1>1, <3>2, <3>3, <3>6, Becomes
  <2> QED BY <1>2, <1>3, <1>7, <2>1 DEF AppendAnswer
<1>8. CASE RunTools(a)
  <2>1. ASSUME Go(a, "ran"), op[a].pc = "tools" PROVE OpTyped'
    <3>1. op[a].round < MaxToolRounds
      BY <1>1, <2>1 DEF OpShape
    <3> QED BY <1>1, <2>1, <3>1, GoesTyped
  <2> QED BY <1>2, <1>3, <1>8, <2>1 DEF RunTools
<1>9. CASE AppendResults(a)
  <2>1. ASSUME op' = [op EXCEPT ![a].pc = "send", ![a].round = @ + 1], op[a].pc = "result"
        PROVE  OpTyped'
    <3>1. op[a].round \in 0 .. MaxToolRounds /\ op[a].round < MaxToolRounds
      BY <1>1, <2>1 DEF OpShape, OpType
    <3>2. op[a].round + 1 \in 0 .. MaxToolRounds
      BY <3>1, SidechainsAssumption
    <3> DEFINE o == [op[a] EXCEPT !.pc = "send", !.round = op[a].round + 1]
    <3>3. op' = [op EXCEPT ![a] = o]
      BY <2>1
    <3>4. o \in OpType
      BY <1>1, <3>2 DEF OpType
    <3>5. /\ o.pc = "send" /\ o.start = op[a].start /\ o.late = op[a].late /\ o.kind = op[a].kind
          /\ o.task = op[a].task /\ o.snap = op[a].snap
      BY <1>1 DEF OpType
    <3>6. o # Idle
      BY <3>5 DEF Idle
    <3> HIDE DEF o
    <3>7. OpShape(o)
      BY <1>1, <2>1, <3>5, <3>6 DEF OpShape
    <3> QED BY <1>1, <3>3, <3>4, <3>7, Becomes
  <2> QED BY <1>2, <1>3, <1>9, <2>1 DEF AppendResults
<1> QED BY <1>4, <1>5, <1>6, <1>7, <1>8, <1>9

LEMMA EndingOpTyped ==
  ASSUME Types, NEW a \in Actors,
         CheckFinish(a) \/ AppendSummary(a) \/ AppendMain(a) \/ Cleanup(a) \/ MarkWorktreeCleanup(a)
  PROVE  OpTyped'
<1> USE DEF Points, StartPoints, LoopPoints, EndPoints, CleanPoints
<1>1. OpTyped /\ LogType /\ op[a] \in OpType /\ OpShape(op[a])
  BY DEF Types, OpTyped
<1>2. ASSUME FinishFails(a), op[a].pc \in EndPoints PROVE OpTyped'
  BY <1>1, <1>2, FinishFailsTyped
<1>3. ASSUME NEW pc \in EndPoints, Go(a, pc), op[a].pc \in EndPoints PROVE OpTyped'
  BY <1>1, <1>3, GoesTyped
<1>4. CASE CheckFinish(a)
  BY <1>2, <1>3, <1>4 DEF CheckFinish
<1>5. CASE AppendSummary(a)
  BY <1>2, <1>3, <1>5 DEF AppendSummary
<1>6. CASE AppendMain(a)
  <2>1. ASSUME Go(a, IF op[a].kind = "KillTask" THEN "reload" ELSE "cleanup"), op[a].pc = "main" PROVE OpTyped'
    <3>1. CASE op[a].kind = "KillTask"
      <4>1. op[a].start = 0
        BY <1>1, <3>1 DEF OpShape
      <4> QED BY <1>1, <2>1, <3>1, <4>1, GoesTyped
    <3>2. CASE op[a].kind # "KillTask"
      <4>1. op[a].start # 0
        BY <1>1, <2>1, <3>2 DEF OpShape
      <4> QED BY <1>1, <2>1, <3>2, <4>1, GoesTyped
    <3> QED BY <3>1, <3>2
  <2> QED BY <1>2, <1>6, <2>1 DEF AppendMain
<1>7. CASE Cleanup(a)
  <2>1. CASE Return(a)
    BY <1>1, <2>1, ReturnTyped DEF Return
  <2>2. ASSUME NEW cleanup \in Cleanups, op' = [op EXCEPT ![a].pc = "mark", ![a].snap = cleanup],
               op[a].pc = "cleanup"
        PROVE  OpTyped'
    <3> DEFINE o == [op[a] EXCEPT !.pc = "mark", !.snap = cleanup]
    <3>1. op' = [op EXCEPT ![a] = o]
      BY <2>2
    <3>2. o \in OpType
      BY <1>1 DEF OpType
    <3>3. /\ o.pc = "mark" /\ o.start = op[a].start /\ o.late = op[a].late /\ o.kind = op[a].kind
          /\ o.task = op[a].task /\ o.snap = cleanup
      BY <1>1 DEF OpType
    <3>4. o # Idle
      BY <3>3 DEF Idle
    <3> HIDE DEF o
    <3>5. OpShape(o)
      BY <1>1, <2>2, <3>3, <3>4 DEF OpShape
    <3> QED BY <1>1, <3>1, <3>2, <3>5, Becomes
  <2> QED BY <1>7, <2>1, <2>2 DEF Cleanup
<1>8. CASE MarkWorktreeCleanup(a)
  BY <1>1, <1>8, ReturnTyped DEF MarkWorktreeCleanup, Return
<1> QED BY <1>4, <1>5, <1>6, <1>7, <1>8

LEMMA ToolOpTyped ==
  ASSUME Types, NEW a \in Actors,
         KillTask(a) \/ ReloadKilled(a) \/ SendMessage(a) \/ CheckMessage(a) \/ AppendMessage(a)
  PROVE  OpTyped'
<1> USE DEF Points, StartPoints, LoopPoints, EndPoints, CleanPoints
<1>1. OpTyped /\ LogType /\ op[a] \in OpType /\ OpShape(op[a])
  BY DEF Types, OpTyped
<1>2. ASSUME Return(a) PROVE OpTyped'
  BY <1>1, <1>2, ReturnTyped DEF Return
<1>3. ASSUME Loaded(a, "cleanup", 0), op[a].pc \in {"begin", "reload"} PROVE OpTyped'
  <2>1. op[a].start = 0
    BY <1>1, <1>3 DEF OpShape
  <2> QED BY <1>1, <1>3, <2>1, LoadedTyped
<1>4. ASSUME NEW pc \in {"sending", "message"}, Go(a, pc), op[a].pc \in {"begin", "sending"} PROVE OpTyped'
  <2>1. op[a].start = 0
    BY <1>1, <1>4 DEF OpShape
  <2> QED BY <1>1, <1>4, <2>1, GoesTyped
<1>5. CASE KillTask(a)
  <2>1. ASSUME op' = [op EXCEPT ![a].pc = "finish", ![a].status = "cancelled"],
               op[a].pc = "begin", op[a].kind = "KillTask"
        PROVE  OpTyped'
    <3> DEFINE o == [op[a] EXCEPT !.pc = "finish", !.status = "cancelled"]
    <3>1. op' = [op EXCEPT ![a] = o]
      BY <2>1
    <3>2. o \in OpType
      BY <1>1, ZenonT(60) DEF OpType, Ends
    <3>3. /\ o.pc = "finish" /\ o.start = op[a].start /\ o.late = op[a].late /\ o.kind = op[a].kind
          /\ o.task = op[a].task /\ o.snap = op[a].snap
      BY <1>1 DEF OpType
    <3>4. o # Idle
      BY <3>3 DEF Idle
    <3> HIDE DEF o
    <3>5. OpShape(o)
      BY <1>1, <2>1, <3>3, <3>4 DEF OpShape
    <3> QED BY <1>1, <3>1, <3>2, <3>5, Becomes
  <2> QED BY <1>2, <1>3, <1>5, <2>1 DEF KillTask
<1>6. CASE ReloadKilled(a)
  BY <1>3, <1>6 DEF ReloadKilled
<1>7. CASE SendMessage(a)
  BY <1>2, <1>4, <1>7 DEF SendMessage
<1>8. CASE CheckMessage(a)
  BY <1>2, <1>4, <1>8 DEF CheckMessage
<1>9. CASE AppendMessage(a)
  BY <1>2, <1>9 DEF AppendMessage
<1> QED BY <1>5, <1>6, <1>7, <1>8, <1>9

\* The three steps that append to a transcript.
Appends(a) == AppendStart(a) \/ AppendSummary(a) \/ MarkWorktreeCleanup(a)

LEMMA LogStep ==
  ASSUME Types, NEW a \in Actors, Call(a) \/ Step(a) \/ Die(a)
  PROVE  \/ UNCHANGED log
         \/ /\ AppendStart(a) /\ op[a].pc = "append" /\ Task(a) \in Tasks
            /\ Append1(Task(a), Entry("start", "running", op[a].owned))
            /\ Go(a, "prompt") /\ UNCHANGED <<meta, main, tree, calls, faults, ended>>
         \/ /\ AppendSummary(a) /\ op[a].pc = "summary" /\ Task(a) \in Tasks
            /\ Append1(Task(a), Entry("summary", op[a].status, FALSE))
            /\ Go(a, "main") /\ UNCHANGED <<meta, main, tree, calls, faults, ended>>
         \/ /\ MarkWorktreeCleanup(a) /\ op[a].pc = "mark" /\ Task(a) \in Tasks
            /\ op[a].snap \in Cleanups
            /\ Append1(Task(a), Entry("cleanup", op[a].snap, FALSE))
            /\ Return(a) /\ UNCHANGED <<meta, main, tree, calls, faults>>
<1>1. op[a].pc # "idle" => Task(a) \in Tasks
  BY DEF Types, OpTyped, OpShape, Task
<1>2. op[a].pc = "mark" => op[a].snap \in Cleanups
  BY DEF Types, OpTyped, OpShape
<1>3. CASE AppendStart(a)
  BY <1>1, <1>3 DEF AppendStart
<1>4. CASE AppendSummary(a)
  BY <1>1, <1>4 DEF AppendSummary
<1>5. CASE MarkWorktreeCleanup(a)
  BY <1>1, <1>2, <1>5 DEF MarkWorktreeCleanup
<1>6. CASE Call(a) \/ Die(a)
  BY <1>6 DEF Call, Die
<1>7. ASSUME Step(a), ~Appends(a) PROVE UNCHANGED log
  BY <1>7 DEF Appends, Step, ensureTaskCanStart, prepareTaskWorktree, Start,
     WriteSidechainMetadata, AbandonStart, Prompt, LoadTask, SendRequest, CheckAppend,
     AppendAnswer, RunTools, AppendResults, CheckFinish, AppendMain, Cleanup, KillTask,
     ReloadKilled, SendMessage, CheckMessage, AppendMessage
<1> QED BY <1>3, <1>4, <1>5, <1>6, <1>7 DEF Appends

LEMMA OpStepTyped ==
  ASSUME Types, NEW a \in Actors, Step(a)
  PROVE  OpTyped'
BY StartingOpTyped, RunningOpTyped, EndingOpTyped, ToolOpTyped DEF Step

\* What no step does: every step is that of a call in progress, and touches only
\* what belongs to its task.
LEMMA StepFrame ==
  ASSUME NEW a \in Actors, Step(a)
  PROVE  /\ op[a].pc # "idle"
         /\ UNCHANGED faults \/ Fault
         /\ UNCHANGED calls
         /\ main' = main \/ main' = Append(main, <<Task(a), op[a].status>>)
         /\ tree' \subseteq tree \cup {Task(a)} /\ tree \subseteq tree' \cup {Task(a)}
         /\ meta' = meta \/ \E w \in {"managed", "session"} : meta' = [meta EXCEPT ![Task(a)] = w]
<1> USE DEF Step, ensureTaskCanStart, prepareTaskWorktree, Start,
            WriteSidechainMetadata, AppendStart, AbandonStart, Prompt, LoadTask, SendRequest,
            CheckAppend, AppendAnswer, RunTools, AppendResults, CheckFinish, AppendSummary,
            AppendMain, Cleanup, MarkWorktreeCleanup, KillTask, ReloadKilled, SendMessage,
            CheckMessage, AppendMessage
<1>1. op[a].pc # "idle"
  OBVIOUS
<1>2. UNCHANGED faults \/ Fault
  OBVIOUS
<1>3. UNCHANGED calls
  OBVIOUS
<1>4. main' = main \/ main' = Append(main, <<Task(a), op[a].status>>)
  OBVIOUS
<1>5. tree' \subseteq tree \cup {Task(a)} /\ tree \subseteq tree' \cup {Task(a)}
  OBVIOUS
<1>6. meta' = meta \/ \E w \in {"managed", "session"} : meta' = [meta EXCEPT ![Task(a)] = w]
  OBVIOUS
<1> QED BY ONLY <1>1, <1>2, <1>3, <1>4, <1>5, <1>6

LEMMA TypesStep ==
  ASSUME Types, [Next]_vars
  PROVE  Types'
<1>1. CASE UNCHANGED vars
  BY <1>1 DEF vars, Types, LogType, OpTyped
<1>2. ASSUME NEW a \in Actors, Call(a) \/ Die(a) PROVE Types'
  BY <1>2, CallTyped
<1>3. ASSUME NEW a \in Actors, Step(a) PROVE Types'
  <2>1. OpTyped'
    BY <1>3, OpStepTyped
  <2>2. LogType'
    <3>1. CASE UNCHANGED log
      BY <3>1 DEF Types, LogType
    <3>2. CASE ~UNCHANGED log
      <4>1. PICK t \in Tasks, e \in EntryType : Append1(t, e)
        BY <1>3, <3>2, LogStep, EntriesTyped DEF Types
      <4> QED BY <4>1, LogAppend DEF Types
    <3> QED BY <3>1, <3>2
  <2>3. Task(a) \in Tasks /\ op[a].status \in Ends
    BY <1>3, StepFrame DEF Types, OpTyped, OpShape, OpType, Task
  <2>4. faults' \in 0 .. MaxFaults /\ calls' \in 0 .. MaxCalls
    BY <1>3, StepFrame, FaultTyped DEF Types
  <2>5. main' \in Seq(Tasks \X Ends)
    <3>1. <<Task(a), op[a].status>> \in Tasks \X Ends
      BY <2>3
    <3>2. main' = main \/ main' = Append(main, <<Task(a), op[a].status>>)
      BY <1>3, StepFrame
    <3> QED BY <3>1, <3>2, SMTT(60) DEF Types
  <2>6. tree' \subseteq Tasks
    BY <1>3, <2>3, StepFrame DEF Types
  <2>7. meta' \in [Tasks -> {"none", "session", "managed"}]
    BY <1>3, <2>3, StepFrame DEF Types
  <2> QED BY <2>1, <2>2, <2>4, <2>5, <2>6, <2>7 DEF Types
<1> QED BY <1>1, <1>2, <1>3 DEF Next

LEMMA TypesInit == Init => Types
<1> SUFFICES ASSUME Init PROVE Types
  OBVIOUS
<1>1. OpTyped
  BY IdleTyped DEF Init, OpTyped
<1>2. LogType
  BY DEF Init, LogType
<1>3. main \in Seq(Tasks \X Ends) /\ tree \subseteq Tasks
  BY DEF Init
<1>4. meta \in [Tasks -> {"none", "session", "managed"}]
  BY DEF Init
<1>5. calls \in 0 .. MaxCalls /\ faults \in 0 .. MaxFaults
  BY SidechainsAssumption DEF Init
<1> QED BY <1>1, <1>2, <1>3, <1>4, <1>5 DEF Types

\* Types, at every point of every call: the limit of rounds, whose call it is, and
\* what a transcript may hold.
THEOREM SidechainsTypes == Spec => []TypeOK
<1>1. Init => Types
  BY TypesInit
<1>2. Types /\ [Next]_vars => Types'
  BY TypesStep
<1>3. Types => TypeOK
  <2> SUFFICES ASSUME Types PROVE TypeOK
    OBVIOUS
  <2>1. ASSUME NEW t \in Tasks, NEW k \in DOMAIN log[t]
        PROVE  /\ log[t][k].kind \in {"start", "summary", "cleanup"}
               /\ log[t][k].status \in Ends \cup Cleanups \cup {"running"}
    <3>1. log[t][k] \in EntryType
      BY <2>1 DEF Types, LogType
    <3> QED BY <3>1 DEF EntryType
  <2>2. \A k \in DOMAIN main : main[k] \in Tasks \X Ends
    BY DEF Types
  <2>3. ASSUME NEW a \in Actors
        PROVE  /\ op[a].kind \in Kinds \cup {"none"} /\ op[a].task \in Tasks \cup {NoTask}
               /\ op[a].pc = "idle" <=> op[a] = Idle
               /\ op[a].round \in 0 .. MaxToolRounds
    BY <2>3 DEF Types, OpTyped, OpType, OpShape
  <2> QED BY <2>1, <2>2, <2>3 DEF Types, TypeOK
<1> QED BY <1>1, <1>2, <1>3, PTL DEF Spec

\* The two laws of a transcript, in this state and in the next.
LastLaw ==
  \A t \in Tasks : \A kinds \in SUBSET {"start", "summary", "cleanup"} :
    /\ LastMark(t, kinds) = 0 <=> Marks(t, kinds) = {}
    /\ Marks(t, kinds) # {} => LastMark(t, kinds) \in Marks(t, kinds)
    /\ \A k \in Marks(t, kinds) : k <= LastMark(t, kinds)

StatusLaw ==
  \A t \in Tasks :
    /\ Running(t) => LastStart(t) # 0 /\ LastMark(t, Lifecycle) = LastStart(t)
    /\ ~Running(t) /\ LastStart(t) # 0 => LastMark(t, Lifecycle) \in Marks(t, {"summary"})

LEMMA Laws == LogType => LastLaw /\ StatusLaw
<1> SUFFICES ASSUME LogType PROVE LastLaw /\ StatusLaw
  OBVIOUS
<1>1. LastLaw
  BY LastMarkIsLast DEF LastLaw
<1>2. StatusLaw
  BY StatusLast DEF StatusLaw
<1> QED BY <1>1, <1>2

LEMMA LawsNext == LogType' => LastLaw' /\ StatusLaw'
BY Laws, PTL

-----------------------------------------------------------------------------
(* Transcripts only grow.                                                  *)

LEMMA MarksAppend ==
  ASSUME LogType, NEW t \in Tasks, NEW e \in EntryType, Append1(t, e), NEW kinds
  PROVE  /\ \A u \in Tasks : u # t => Marks(u, kinds)' = Marks(u, kinds)
         /\ e.kind \in kinds => Marks(t, kinds)' = Marks(t, kinds) \cup {Len(log[t]) + 1}
         /\ e.kind \notin kinds => Marks(t, kinds)' = Marks(t, kinds)
<1>1. /\ \A u \in Tasks : u # t => log'[u] = log[u]
      /\ Len(log[t]) \in Nat /\ DOMAIN log[t] = 1 .. Len(log[t])
      /\ DOMAIN log'[t] = 1 .. (Len(log[t]) + 1)
      /\ \A k \in DOMAIN log[t] : log'[t][k] = log[t][k]
      /\ log'[t][Len(log[t]) + 1] = e
  BY LogAppend
<1>2. ASSUME NEW u \in Tasks, u # t PROVE Marks(u, kinds)' = Marks(u, kinds)
  BY <1>1, <1>2 DEF Marks
<1>3. DOMAIN log'[t] = DOMAIN log[t] \cup {Len(log[t]) + 1}
  BY <1>1
<1>4. e.kind \in kinds => Marks(t, kinds)' = Marks(t, kinds) \cup {Len(log[t]) + 1}
  BY <1>1, <1>3 DEF Marks
<1>5. e.kind \notin kinds => Marks(t, kinds)' = Marks(t, kinds)
  BY <1>1, <1>3 DEF Marks
<1> QED BY <1>2, <1>4, <1>5

LEMMA RunsKeptByAppend ==
  ASSUME LogType, NEW t \in Tasks, NEW e \in EntryType, Append1(t, e),
         NEW u \in Tasks, NEW s \in Nat
  PROVE  /\ s \in Marks(u, {"start"}) => s \in Marks(u, {"start"})'
         /\ RunEnded(u, s) => RunEnded(u, s)'
         /\ s \in Marks(u, {"start"}) /\ LastStart(u)' = s => LastStart(u) = s
<1>1. LogType'
  BY LogAppend
<1>2. Marks(u, {"start"}) \subseteq Marks(u, {"start"})'
  BY MarksAppend
<1>3. Marks(u, {"summary"}) \subseteq Marks(u, {"summary"})'
  BY MarksAppend
<1>4. RunEnded(u, s) => RunEnded(u, s)'
  BY <1>3 DEF RunEnded
<1>5. ASSUME s \in Marks(u, {"start"}), LastStart(u)' = s PROVE LastStart(u) = s
  <2>1. \A k \in Marks(u, {"start"})' : k <= LastMark(u, {"start"})'
    BY <1>1, LawsNext DEF LastLaw
  <2>2. \A k \in Marks(u, {"start"}) : k <= s
    BY <1>2, <1>5, <2>1 DEF LastStart
  <2> QED BY <1>5, <2>2, LastMarkUnique DEF LastStart
<1> QED BY <1>2, <1>4, <1>5

LEMMA RunsKept ==
  ASSUME Types, NEW a \in Actors, Call(a) \/ Step(a) \/ Die(a),
         NEW u \in Tasks, NEW s \in Nat
  PROVE  /\ s \in Marks(u, {"start"}) => s \in Marks(u, {"start"})'
         /\ RunEnded(u, s) => RunEnded(u, s)'
         /\ s \in Marks(u, {"start"}) /\ LastStart(u)' = s => LastStart(u) = s
<1>1. CASE UNCHANGED log
  BY <1>1 DEF Marks, RunEnded, LastStart, LastMark
<1>2. CASE ~UNCHANGED log
  <2>1. PICK t \in Tasks, e \in EntryType : Append1(t, e)
    BY <1>2, LogStep, EntriesTyped DEF Types
  <2> QED BY <2>1, RunsKeptByAppend DEF Types
<1> QED BY <1>1, <1>2

\* A step of one actor leaves the calls of the others alone.
LEMMA OthersKept ==
  ASSUME OpTyped, NEW a \in Actors, Call(a) \/ Step(a) \/ Die(a), NEW b \in Actors, b # a
  PROVE  op'[b] = op[b]
<1>1. op \in [Actors -> OpType]
  BY DEF OpTyped
<1>2. ASSUME NEW o, op' = [op EXCEPT ![a] = o] PROVE op'[b] = op[b]
  BY <1>1, <1>2
<1>3. CASE Call(a)
  BY <1>1, <1>3 DEF Call
<1>4. CASE Die(a)
  BY <1>1, <1>4 DEF Die
<1>5. CASE Step(a)
  <2> USE DEF Return, Go, Loaded, EndRun, FinishFails
  <2>1. CASE \/ ensureTaskCanStart(a) \/ prepareTaskWorktree(a) \/ Start(a)
             \/ WriteSidechainMetadata(a) \/ AppendStart(a) \/ AbandonStart(a) \/ Prompt(a)
    BY <1>1, <2>1 DEF ensureTaskCanStart, prepareTaskWorktree, Start, WriteSidechainMetadata,
       AppendStart, AbandonStart, Prompt
  <2>2. CASE \/ LoadTask(a) \/ SendRequest(a) \/ CheckAppend(a) \/ AppendAnswer(a)
             \/ RunTools(a) \/ AppendResults(a)
    BY <1>1, <2>2 DEF LoadTask, SendRequest, CheckAppend, AppendAnswer, RunTools, AppendResults
  <2>3. CASE \/ CheckFinish(a) \/ AppendSummary(a) \/ AppendMain(a) \/ Cleanup(a)
             \/ MarkWorktreeCleanup(a)
    BY <1>1, <2>3 DEF CheckFinish, AppendSummary, AppendMain, Cleanup, MarkWorktreeCleanup
  <2>4. CASE \/ KillTask(a) \/ ReloadKilled(a) \/ SendMessage(a) \/ CheckMessage(a)
             \/ AppendMessage(a)
    BY <1>1, <2>4 DEF KillTask, ReloadKilled, SendMessage, CheckMessage, AppendMessage
  <2> QED BY <1>5, <2>1, <2>2, <2>3, <2>4 DEF Step
<1> QED BY <1>3, <1>4, <1>5

-----------------------------------------------------------------------------
(* A killed subagent stops.                                                *)

Appending == {"send", "answered", "answer", "result"}

\* What a step does to the run its actor is in.
LEMMA RunStep ==
  ASSUME Types, NEW a \in Actors, Call(a) \/ Step(a) \/ Die(a)
  PROVE  \/ op'[a].start = 0
         \/ /\ op'[a].task = op[a].task /\ op'[a].start = op[a].start /\ op'[a].late = op[a].late
            /\ op'[a].pc \in Appending =>
                 op[a].pc \in Appending \/ (op[a].pc = "ran" /\ Running(Task(a)) /\ UNCHANGED log)
         \/ /\ op[a].pc = "load" /\ Running(Task(a)) /\ UNCHANGED log
            /\ op'[a].task = op[a].task /\ op'[a].start = LastStart(Task(a)) /\ op'[a].late = 0
         \/ /\ op[a].pc = "answer" /\ op'[a].pc = "tools" /\ UNCHANGED log
            /\ op'[a].task = op[a].task /\ op'[a].start = op[a].start
            /\ op'[a].late = IF RunEnded(Task(a), op[a].start) THEN op[a].late + 1 ELSE op[a].late
<1>1. op \in [Actors -> OpType] /\ op[a] \in OpType /\ OpShape(op[a])
  BY DEF Types, OpTyped
<1>2. CASE op' = [op EXCEPT ![a] = Idle]
  BY <1>1, <1>2 DEF Idle
<1>3. CASE Call(a)
  BY <1>1, <1>3 DEF Call, Idle
<1>4. CASE Die(a)
  BY <1>2, <1>4 DEF Die
<1>5. ASSUME NEW status, EndRun(a, status)
      PROVE  /\ op'[a].task = op[a].task /\ op'[a].start = op[a].start /\ op'[a].late = op[a].late
             /\ op'[a].pc = "finish"
  BY <1>1, <1>5 DEF EndRun, OpType
<1>6. ASSUME NEW pc, Go(a, pc)
      PROVE  /\ op'[a].task = op[a].task /\ op'[a].start = op[a].start /\ op'[a].late = op[a].late
             /\ op'[a].pc = pc
  BY <1>1, <1>6 DEF Go, OpType
<1>7. CASE \/ ensureTaskCanStart(a) \/ prepareTaskWorktree(a) \/ Start(a)
           \/ WriteSidechainMetadata(a) \/ AppendStart(a) \/ AbandonStart(a) \/ Prompt(a)
  <2>1. ASSUME op' = [op EXCEPT ![a].pc = "start", ![a].owned = TRUE]
        PROVE  /\ op'[a].task = op[a].task /\ op'[a].start = op[a].start
               /\ op'[a].late = op[a].late /\ op'[a].pc = "start"
    BY <1>1, <2>1 DEF OpType
  <2> QED BY <1>2, <1>6, <1>7, <2>1 DEF ensureTaskCanStart, prepareTaskWorktree, Start,
             WriteSidechainMetadata, AppendStart, AbandonStart, Prompt, Return, Appending
<1>8. CASE LoadTask(a)
  <2>1. ASSUME Loaded(a, "send", LastStart(Task(a))), op[a].pc = "load"
        PROVE  op'[a].task = op[a].task /\ op'[a].start = LastStart(Task(a)) /\ op'[a].late = 0
    <3>1. op'[a].task = op[a].task /\ op'[a].start = LastStart(Task(a)) /\ op'[a].late = op[a].late
      BY <1>1, <2>1 DEF Loaded, OpType
    <3>2. op[a].late = 0
      BY <1>1, <2>1 DEF OpShape, LoopPoints, EndPoints, CleanPoints
    <3> QED BY <3>1, <3>2
  <2> QED BY <1>2, <1>8, <2>1 DEF LoadTask, Return
<1>9. CASE SendRequest(a)
  <2>1. ASSUME NEW uses \in BOOLEAN, op' = [op EXCEPT ![a].pc = "answered", ![a].uses = uses]
        PROVE  /\ op'[a].task = op[a].task /\ op'[a].start = op[a].start
               /\ op'[a].late = op[a].late
    BY <1>1, <2>1 DEF OpType
  <2> QED BY <1>5, <1>9, <2>1 DEF SendRequest, Appending
<1>10. CASE CheckAppend(a)
  BY <1>5, <1>6, <1>10 DEF CheckAppend, MayAppend, Appending
<1>11. CASE AppendAnswer(a)
  <2>1. ASSUME op' = [op EXCEPT ![a].pc = "tools", ![a].uses = FALSE,
                 ![a].late = IF RunEnded(Task(a), op[a].start) THEN @ + 1 ELSE @]
        PROVE  /\ op'[a].task = op[a].task /\ op'[a].start = op[a].start /\ op'[a].pc = "tools"
               /\ op'[a].late = IF RunEnded(Task(a), op[a].start) THEN op[a].late + 1 ELSE op[a].late
    BY <1>1, <2>1 DEF OpType
  <2> QED BY <1>5, <1>11, <2>1 DEF AppendAnswer, Appending
<1>12. CASE RunTools(a)
  BY <1>5, <1>6, <1>12 DEF RunTools, Appending
<1>13. CASE AppendResults(a)
  <2>1. ASSUME op' = [op EXCEPT ![a].pc = "send", ![a].round = @ + 1]
        PROVE  /\ op'[a].task = op[a].task /\ op'[a].start = op[a].start
               /\ op'[a].late = op[a].late
    BY <1>1, <2>1 DEF OpType
  <2> QED BY <1>5, <1>13, <2>1 DEF AppendResults, Appending
<1>14. CASE CheckFinish(a) \/ AppendSummary(a) \/ AppendMain(a) \/ Cleanup(a) \/ MarkWorktreeCleanup(a)
  <2>1. ASSUME NEW cleanup, op' = [op EXCEPT ![a].pc = "mark", ![a].snap = cleanup]
        PROVE  /\ op'[a].task = op[a].task /\ op'[a].start = op[a].start
               /\ op'[a].late = op[a].late /\ op'[a].pc = "mark"
    BY <1>1, <2>1 DEF OpType
  <2>2. CASE FinishFails(a)
    BY <1>2, <1>6, <2>2 DEF FinishFails, Return, Appending
  <2>3. CASE CheckFinish(a)
    BY <1>6, <2>2, <2>3 DEF CheckFinish, Appending
  <2>4. CASE AppendSummary(a)
    <3>1. CASE Go(a, "main")
      BY <1>6, <3>1 DEF Appending
    <3> QED BY <2>2, <2>4, <3>1 DEF AppendSummary
  <2>5. CASE AppendMain(a)
    BY <1>6, <2>2, <2>5 DEF AppendMain, Appending
  <2>6. CASE Cleanup(a)
    BY <1>2, <2>1, <2>6 DEF Cleanup, Return, Appending
  <2>7. CASE MarkWorktreeCleanup(a)
    BY <1>2, <2>7 DEF MarkWorktreeCleanup, Return
  <2> QED BY <1>14, <2>3, <2>4, <2>5, <2>6, <2>7
<1>15. CASE KillTask(a) \/ ReloadKilled(a) \/ SendMessage(a) \/ CheckMessage(a) \/ AppendMessage(a)
  <2>1. ASSUME op' = [op EXCEPT ![a].pc = "finish", ![a].status = "cancelled"]
        PROVE  /\ op'[a].task = op[a].task /\ op'[a].start = op[a].start
               /\ op'[a].late = op[a].late /\ op'[a].pc = "finish"
    BY <1>1, <2>1 DEF OpType
  <2>2. ASSUME Loaded(a, "cleanup", 0) PROVE op'[a].start = 0
    BY <1>1, <2>2 DEF Loaded, OpType
  <2> QED BY <1>2, <1>6, <1>15, <2>1, <2>2 DEF KillTask, ReloadKilled, SendMessage, CheckMessage,
             AppendMessage, Return, Appending
<1> QED BY <1>3, <1>4, <1>7, <1>8, <1>9, <1>10, <1>11, <1>12, <1>13, <1>14, <1>15 DEF Step

\* A run that has ended is not the one a task is running.
LEMMA EndedNotRunning ==
  ASSUME LogType, NEW t \in Tasks, RunEnded(t, LastStart(t))
  PROVE  ~Running(t)
<1> SUFFICES ASSUME Running(t) PROVE FALSE
  OBVIOUS
<1>1. LastStart(t) = LastMark(t, Lifecycle)
  BY StatusLast
<1>2. PICK k \in Marks(t, {"summary"}) : LastStart(t) < k
  BY DEF RunEnded
<1>3. k \in Marks(t, Lifecycle)
  BY DEF Marks, Lifecycle
<1>4. k <= LastMark(t, Lifecycle) /\ LastMark(t, Lifecycle) \in Nat /\ k \in 1 .. Len(log[t])
  BY <1>3, LastMarkIsLast
<1> QED BY <1>1, <1>2, <1>4

LEMMA LateStopsStep ==
  ASSUME Types, Types', RunsBegan, LateStops, [Next]_vars
  PROVE  RunsBegan' /\ LateStops'
<1>1. CASE UNCHANGED vars
  BY <1>1 DEF vars, RunsBegan, LateStops, Task, LastStart, LastMark, Marks, RunEnded
<1>2. ASSUME NEW a \in Actors, Call(a) \/ Step(a) \/ Die(a) PROVE RunsBegan' /\ LateStops'
  <2>1. ASSUME NEW b \in Actors, op'[b].start # 0 PROVE op'[b].task \in Tasks /\ op'[b].start \in Nat
    <3>1. op'[b] \in OpType /\ OpShape(op'[b])
      BY DEF Types, OpTyped
    <3> QED BY <2>1, <3>1 DEF OpShape, OpType, Idle, LoopPoints, EndPoints, CleanPoints
  <2>2. SUFFICES ASSUME NEW b \in Actors, NEW t \in Tasks, NEW s \in Nat,
                        t = op'[b].task, s = op'[b].start, s # 0
                 PROVE  /\ s \in Marks(t, {"start"})'
                        /\ LastStart(t)' = s
                             => \/ op'[b].late = 0
                                \/ op'[b].late = 1 /\ RunEnded(t, s)' /\ op'[b].pc \notin Appending
    <3>1. RunsBegan'
      BY <2>1, <2>2 DEF RunsBegan, Task, Marks
    <3>2. LateStops'
      BY <2>1, <2>2 DEF LateStops, Task, Marks, LastStart, LastMark, RunEnded, Appending
    <3> QED BY <3>1, <3>2
  <2>3. op[b].late \in Nat
    BY DEF Types, OpTyped, OpType
  <2>5. /\ s \in Marks(t, {"start"}) => s \in Marks(t, {"start"})'
        /\ RunEnded(t, s) => RunEnded(t, s)'
        /\ s \in Marks(t, {"start"}) /\ LastStart(t)' = s => LastStart(t) = s
    BY <1>2, RunsKept
  <2>6. op[b].task = t /\ op[b].start = s
          => /\ s \in Marks(t, {"start"})
             /\ LastStart(t) = s
                  => \/ op[b].late = 0
                     \/ op[b].late = 1 /\ RunEnded(t, s) /\ op[b].pc \notin Appending
    BY <2>2 DEF RunsBegan, LateStops, Task, Appending
  <2>7. CASE b # a
    <3>1. op'[b] = op[b]
      BY <1>2, <2>7, OthersKept DEF Types
    <3> QED BY <2>2, <2>5, <2>6, <3>1
  <2>8. CASE b = a
    <3>1. CASE /\ op'[a].task = op[a].task /\ op'[a].start = op[a].start /\ op'[a].late = op[a].late
               /\ op'[a].pc \in Appending =>
                    op[a].pc \in Appending \/ (op[a].pc = "ran" /\ Running(Task(a)) /\ UNCHANGED log)
      <4>1. Running(t) => ~RunEnded(t, LastStart(t))
        BY EndedNotRunning DEF Types
      <4> QED BY <2>2, <2>5, <2>6, <2>8, <3>1, <4>1 DEF Task
    <3>2. CASE /\ op[a].pc = "load" /\ Running(Task(a)) /\ UNCHANGED log
               /\ op'[a].task = op[a].task /\ op'[a].start = LastStart(Task(a)) /\ op'[a].late = 0
      <4>1. s = LastStart(t) /\ s # 0
        BY <2>2, <2>8, <3>2 DEF Task
      <4>2. s \in Marks(t, {"start"})
        BY <4>1, LastMarkIsLast DEF LastStart, Types
      <4> QED BY <2>5, <2>8, <3>2, <4>2
    <3>3. CASE /\ op[a].pc = "answer" /\ op'[a].pc = "tools" /\ UNCHANGED log
               /\ op'[a].task = op[a].task /\ op'[a].start = op[a].start
               /\ op'[a].late = IF RunEnded(Task(a), op[a].start) THEN op[a].late + 1 ELSE op[a].late
      <4>1. Task(a) = t /\ op[a].start = s
        BY <2>2, <2>8, <3>3 DEF Task
      <4> QED BY <2>2, <2>3, <2>5, <2>6, <2>8, <3>3, <4>1 DEF Appending, Task
    <3>4. op'[a].start # 0
      BY <2>2, <2>8
    <3> QED BY <1>2, <3>1, <3>2, <3>3, <3>4, RunStep
  <2> QED BY <2>7, <2>8
<1> QED BY <1>1, <1>2 DEF Next

\* However the calls of any number of actors meet, a subagent whose task was ended
\* by somebody else begins at most one more round of tools: the append of that
\* round's results is refused.
THEOREM KilledSubagentsStop == Spec => []KilledStops
<1> DEFINE Inv == Types /\ RunsBegan /\ LateStops
<1>1. Init => Inv
  <2> SUFFICES ASSUME Init PROVE RunsBegan /\ LateStops
    BY TypesInit
  <2> QED BY DEF Init, RunsBegan, LateStops, Idle
<1>2. Inv /\ [Next]_vars => Inv'
  BY TypesStep, LateStopsStep
<1>3. Inv => KilledStops
  <2> SUFFICES ASSUME Inv, NEW a \in Actors, op[a].start > 0, LastStart(Task(a)) = op[a].start
               PROVE  op[a].late <= 1
    BY DEF KilledStops
  <2>1. op[a].start # 0
    OBVIOUS
  <2>2. op[a].late = 0 \/ op[a].late = 1
    BY <2>1 DEF LateStops
  <2> QED BY <2>2
<1> QED BY <1>1, <1>2, <1>3, PTL DEF Spec

-----------------------------------------------------------------------------
(* The session is told of every end of a task, and of no other.            *)

\* What the steps of a call are made of.
LEMMA CallSets ==
  ASSUME OpTyped, NEW a \in Actors
  PROVE  /\ op' = [op EXCEPT ![a] = Idle] => op'[a] = Idle
         /\ \A pc : Go(a, pc) => op'[a] = [op[a] EXCEPT !.pc = pc] /\ op'[a].pc = pc
         /\ \A status : EndRun(a, status) =>
              op'[a].pc = "finish" /\ op'[a].start = op[a].start /\ op'[a].task = op[a].task
         /\ \A pc, start : Loaded(a, pc, start) => op'[a].pc = pc /\ op'[a].task = op[a].task
<1>1. op \in [Actors -> OpType] /\ op[a] \in OpType
  BY DEF OpTyped
<1>2. op' = [op EXCEPT ![a] = Idle] => op'[a] = Idle
  BY <1>1
<1>3. ASSUME NEW pc, Go(a, pc) PROVE op'[a] = [op[a] EXCEPT !.pc = pc] /\ op'[a].pc = pc
  BY <1>1, <1>3 DEF Go, OpType
<1>4. ASSUME NEW status, EndRun(a, status)
      PROVE  op'[a].pc = "finish" /\ op'[a].start = op[a].start /\ op'[a].task = op[a].task
  BY <1>1, <1>4 DEF EndRun, OpType
<1>5. ASSUME NEW pc, NEW start, Loaded(a, pc, start)
      PROVE  op'[a].pc = pc /\ op'[a].task = op[a].task
  BY <1>1, <1>5 DEF Loaded, OpType
<1> QED BY <1>2, <1>3, <1>4, <1>5

\* Only the append of a summary leads to the append to the session's transcript.
LEMMA TellStep ==
  ASSUME OpTyped, NEW a \in Actors, Step(a), ~AppendSummary(a), ~AppendMain(a)
  PROVE  op[a].pc # "main" /\ op'[a].pc # "main" /\ main' = main
<1>1. op \in [Actors -> OpType] /\ op[a] \in OpType
  BY DEF OpTyped
<1>2. op' = [op EXCEPT ![a] = Idle] => op'[a].pc # "main"
  <2>1. op' = [op EXCEPT ![a] = Idle] => op'[a] = Idle
    BY CallSets
  <2> QED BY <2>1 DEF Idle
<1>3. \A pc : Go(a, pc) => op'[a].pc = pc
  BY CallSets
<1>4. \A status : EndRun(a, status) => op'[a].pc # "main"
  BY CallSets
<1>5. \A pc, start : Loaded(a, pc, start) => op'[a].pc = pc
  BY CallSets
<1>6. CASE ensureTaskCanStart(a)
  BY <1>2, <1>3, <1>6 DEF ensureTaskCanStart, Return
<1>7. CASE prepareTaskWorktree(a)
  <2>1. op' = [op EXCEPT ![a].pc = "start", ![a].owned = TRUE] => op'[a].pc = "start"
    BY <1>1 DEF OpType
  <2> QED BY <1>2, <1>3, <1>7, <2>1 DEF prepareTaskWorktree, Return
<1>8. CASE Start(a) \/ WriteSidechainMetadata(a) \/ AppendStart(a) \/ AbandonStart(a) \/ Prompt(a)
  BY <1>2, <1>3, <1>8 DEF Start, WriteSidechainMetadata, AppendStart, AbandonStart, Prompt, Return
<1>9. CASE LoadTask(a)
  BY <1>2, <1>5, <1>9 DEF LoadTask, Return
<1>10. CASE SendRequest(a)
  <2>1. \A uses : op' = [op EXCEPT ![a].pc = "answered", ![a].uses = uses] => op'[a].pc = "answered"
    BY <1>1 DEF OpType
  <2> QED BY <1>4, <1>10, <2>1 DEF SendRequest
<1>11. CASE CheckAppend(a) \/ RunTools(a)
  BY <1>3, <1>4, <1>11 DEF CheckAppend, RunTools
<1>12. CASE AppendAnswer(a)
  <2>1. op' = [op EXCEPT ![a].pc = "tools", ![a].uses = FALSE,
                 ![a].late = IF RunEnded(Task(a), op[a].start) THEN @ + 1 ELSE @]
          => op'[a].pc = "tools"
    BY <1>1 DEF OpType
  <2> QED BY <1>4, <1>12, <2>1 DEF AppendAnswer
<1>13. CASE AppendResults(a)
  <2>1. op' = [op EXCEPT ![a].pc = "send", ![a].round = @ + 1] => op'[a].pc = "send"
    BY <1>1 DEF OpType
  <2> QED BY <1>4, <1>13, <2>1 DEF AppendResults
<1>14. CASE CheckFinish(a)
  BY <1>2, <1>3, <1>14 DEF CheckFinish, FinishFails, Return
<1>15. CASE Cleanup(a)
  <2>1. \A cleanup : op' = [op EXCEPT ![a].pc = "mark", ![a].snap = cleanup] => op'[a].pc = "mark"
    BY <1>1 DEF OpType
  <2> QED BY <1>2, <1>15, <2>1 DEF Cleanup, Return
<1>16. CASE MarkWorktreeCleanup(a)
  BY <1>2, <1>16 DEF MarkWorktreeCleanup, Return
<1>17. CASE KillTask(a)
  <2>1. op' = [op EXCEPT ![a].pc = "finish", ![a].status = "cancelled"] => op'[a].pc = "finish"
    BY <1>1 DEF OpType
  <2> QED BY <1>2, <1>5, <1>17, <2>1 DEF KillTask, Return
<1>18. CASE ReloadKilled(a)
  BY <1>5, <1>18 DEF ReloadKilled
<1>19. CASE SendMessage(a) \/ CheckMessage(a) \/ AppendMessage(a)
  BY <1>2, <1>3, <1>19 DEF SendMessage, CheckMessage, AppendMessage, Return
<1> QED BY <1>6, <1>7, <1>8, <1>9, <1>10, <1>11, <1>12, <1>13, <1>14, <1>15, <1>16, <1>17,
           <1>18, <1>19 DEF Step

LEMMA TellingStep ==
  ASSUME OpTyped, NEW a \in Actors, Call(a) \/ Step(a) \/ Die(a), NEW t \in Tasks
  PROVE  /\ op'[a].task = t /\ op'[a].pc = "main" => Telling(t)' = Telling(t) \cup {a}
         /\ ~(op'[a].task = t /\ op'[a].pc = "main") => Telling(t)' = Telling(t) \ {a}
<1>1. \A b \in Actors : b # a => op'[b] = op[b]
  BY OthersKept
<1> QED BY <1>1 DEF Telling, Task

LEMMA FiniteCounts ==
  ASSUME Types, NEW t \in Tasks
  PROVE  IsFiniteSet(Side(t)) /\ IsFiniteSet(Told(t)) /\ IsFiniteSet(Telling(t))
<1>1. Len(log[t]) \in Nat /\ Len(main) \in Nat
  BY DEF Types, LogType
<1>2. Side(t) \subseteq 1 .. Len(log[t])
  BY LastMarkIsLast DEF Types, Side
<1>3. Told(t) \subseteq 1 .. Len(main)
  BY DEF Told, Types
<1>4. IsFiniteSet(1 .. Len(log[t])) /\ IsFiniteSet(1 .. Len(main))
  BY <1>1, FS_Interval
<1>5. IsFiniteSet(Side(t)) /\ IsFiniteSet(Told(t))
  BY <1>2, <1>3, <1>4, FS_Subset
<1>6. IsFiniteSet(Telling(t))
  BY SidechainsAssumption, FS_Subset DEF Telling
<1> QED BY <1>5, <1>6

\* The invariant for one task, as numbers.
Counts(t) ==
  /\ Cardinality(Told(t)) + Cardinality(Telling(t)) <= Cardinality(Side(t))
  /\ faults = 0 => Cardinality(Told(t)) + Cardinality(Telling(t)) = Cardinality(Side(t))

LEMMA CountsKept ==
  ASSUME NEW t \in Tasks, Counts(t), UNCHANGED <<faults, Told(t), Telling(t), Side(t)>>
  PROVE  Counts(t)'
BY DEF Counts

LEMMA NoSummary ==
  ASSUME Types, NEW a \in Actors, Call(a) \/ Step(a) \/ Die(a), ~AppendSummary(a), NEW t \in Tasks
  PROVE  Side(t)' = Side(t)
<1>1. CASE UNCHANGED log
  BY <1>1 DEF Side, Marks
<1>2. CASE ~UNCHANGED log
  <2>1. PICK u \in Tasks, e \in EntryType : Append1(u, e) /\ e.kind \in {"start", "cleanup"}
    <3>1. \A k, st, ow : Entry(k, st, ow).kind = k
      BY DEF Entry
    <3>2. CASE Task(a) \in Tasks /\ Append1(Task(a), Entry("start", "running", op[a].owned))
      BY <3>1, <3>2, EntriesTyped, Zenon DEF Types
    <3>3. CASE /\ Task(a) \in Tasks /\ op[a].snap \in Cleanups
               /\ Append1(Task(a), Entry("cleanup", op[a].snap, FALSE))
      BY <3>1, <3>3, EntriesTyped, Zenon DEF Types
    <3> QED BY <1>2, <3>2, <3>3, LogStep
  <2>2. e.kind \notin {"summary"}
    BY <2>1
  <2> QED BY <2>1, <2>2, MarksAppend DEF Types, Side
<1> QED BY <1>1, <1>2

LEMMA MirrorStep ==
  ASSUME Types, Types', Mirror, [Next]_vars
  PROVE  Mirror'
<1>1. CASE UNCHANGED vars
  BY <1>1 DEF vars, Mirror, Side, Told, Telling, Marks, Task
<1>2. ASSUME NEW a \in Actors, Call(a) \/ Step(a) \/ Die(a), NEW t \in Tasks PROVE Counts(t)'
  <2>1. Counts(t) /\ faults \in Nat
    BY DEF Mirror, Counts, Types
  <2>2. IsFiniteSet(Side(t)) /\ IsFiniteSet(Told(t)) /\ IsFiniteSet(Telling(t))
    BY FiniteCounts
  <2>3. /\ Cardinality(Side(t)) \in Nat /\ Cardinality(Told(t)) \in Nat
        /\ Cardinality(Telling(t)) \in Nat
    BY <2>2, FS_CardinalityType
  <2>4. /\ op'[a].task = t /\ op'[a].pc = "main" => Telling(t)' = Telling(t) \cup {a}
        /\ ~(op'[a].task = t /\ op'[a].pc = "main") => Telling(t)' = Telling(t) \ {a}
    BY <1>2, TellingStep DEF Types
  <2>5. Cardinality(Telling(t) \ {a}) \in Nat /\ Cardinality(Telling(t) \ {a}) <= Cardinality(Telling(t))
    <3>1. Cardinality(Telling(t) \ {a}) = IF a \in Telling(t) THEN Cardinality(Telling(t)) - 1
                                                            ELSE Cardinality(Telling(t))
      BY <2>2, FS_RemoveElement
    <3>2. IsFiniteSet(Telling(t) \ {a})
      BY <2>2, FS_RemoveElement
    <3>3. Cardinality(Telling(t) \ {a}) \in Nat
      BY <3>2, FS_CardinalityType
    <3> QED BY <2>3, <3>1, <3>3
  <2>6. ASSUME faults' # 0, UNCHANGED <<Told(t), Side(t)>>, Telling(t)' = Telling(t) \ {a}
        PROVE  Counts(t)'
    BY <2>1, <2>3, <2>5, <2>6 DEF Counts
  <2>7. Fault => faults' # 0
    BY <2>1 DEF Fault
  <2>8. op[a].pc # "main" => a \notin Telling(t) /\ Telling(t) \ {a} = Telling(t)
    BY DEF Telling
  <2>9. op'[a].pc # "main" => Telling(t)' = Telling(t) \ {a}
    BY <2>4
  <2>10. op' = [op EXCEPT ![a] = Idle] => op'[a].pc = "idle"
    <3>1. op' = [op EXCEPT ![a] = Idle] => op'[a] = Idle
      BY CallSets DEF Types
    <3> QED BY <3>1 DEF Idle
  <2>11. CASE Call(a)
    <3>1. op[a].pc # "main" /\ op'[a].pc # "main"
      BY <1>2, <2>11 DEF Call, Types, OpTyped, OpType, Idle
    <3>2. UNCHANGED <<faults, log, main>>
      BY <2>11 DEF Call
    <3> QED BY <2>1, <2>8, <2>9, <3>1, <3>2 DEF Counts, Side, Told, Marks
  <2>12. CASE Die(a)
    <3>1. UNCHANGED <<log, main>> /\ Fault /\ op'[a].pc # "main"
      BY <2>10, <2>12 DEF Die
    <3> QED BY <2>6, <2>7, <2>9, <3>1 DEF Side, Told, Marks
  <2>13. CASE Step(a) /\ ~AppendSummary(a) /\ ~AppendMain(a)
    <3>1. op[a].pc # "main" /\ op'[a].pc # "main" /\ main' = main
      BY <2>13, TellStep DEF Types
    <3>2. Side(t)' = Side(t)
      BY <2>13, NoSummary
    <3>3. Told(t)' = Told(t)
      BY <3>1 DEF Told
    <3>4. Telling(t)' = Telling(t)
      BY <2>8, <2>9, <3>1
    <3>5. faults' = faults \/ faults' # 0
      BY <2>7, <2>13, StepFrame
    <3> QED BY <2>1, <3>2, <3>3, <3>4, <3>5 DEF Counts
  <2>14. CASE AppendSummary(a)
    <3>1. CASE Fault /\ FinishFails(a) /\ UNCHANGED log
      <4>1. op'[a].pc # "main"
        <5>1. \A pc : Go(a, pc) => op'[a].pc = pc
          BY CallSets DEF Types
        <5> QED BY <2>10, <3>1, <5>1 DEF FinishFails, Return
      <4>2. UNCHANGED main
        BY <2>14 DEF AppendSummary
      <4> QED BY <2>6, <2>7, <2>9, <3>1, <4>1, <4>2 DEF Side, Told, Marks
    <3>2. CASE /\ Append1(Task(a), Entry("summary", op[a].status, FALSE))
               /\ Go(a, "main") /\ UNCHANGED <<faults, ended>>
      <4>1. op[a].pc = "summary" /\ main' = main
        BY <2>14 DEF AppendSummary
      <4>2. op'[a].pc = "main" /\ op'[a].task = op[a].task /\ op[a].task \in Tasks
        <5>1. op'[a] = [op[a] EXCEPT !.pc = "main"]
          BY <3>2, CallSets DEF Types
        <5>2. op[a] \in OpType /\ OpShape(op[a])
          BY DEF Types, OpTyped
        <5> QED BY <4>1, <5>1, <5>2 DEF OpType, OpShape
      <4>3. Told(t)' = Told(t)
        BY <4>1 DEF Told
      <4>4. PICK u \in Tasks : u = Task(a)
        BY <4>2 DEF Task
      <4>5. PICK e \in EntryType : e = Entry("summary", op[a].status, FALSE)
        BY EntriesTyped DEF Types
      <4>6. Append1(u, e) /\ e.kind = "summary"
        BY <3>2, <4>4, <4>5 DEF Entry
      <4>7. CASE t # u
        <5>1. Side(t)' = Side(t)
          BY <4>6, <4>7, MarksAppend DEF Types, Side
        <5>2. Telling(t)' = Telling(t)
          BY <2>4, <2>8, <4>1, <4>2, <4>4, <4>7 DEF Task
        <5> QED BY <2>1, <3>2, <4>3, <5>1, <5>2, CountsKept
      <4>8. CASE t = u
        <5>1. Side(t)' = Side(t) \cup {Len(log[t]) + 1} /\ Len(log[t]) + 1 \notin Side(t)
          <6>1. Side(t)' = Side(t) \cup {Len(log[t]) + 1}
            BY <4>6, <4>8, MarksAppend DEF Types, Side
          <6>2. Side(t) \subseteq 1 .. Len(log[t]) /\ Len(log[t]) \in Nat
            BY LastMarkIsLast DEF Types, Side, LogType
          <6> QED BY <6>1, <6>2
        <5>2. Telling(t)' = Telling(t) \cup {a} /\ a \notin Telling(t)
          BY <2>4, <2>8, <4>1, <4>2, <4>4, <4>8 DEF Task
        <5>3. Cardinality(Side(t)') = Cardinality(Side(t)) + 1
          BY <2>2, <5>1, FS_AddElement
        <5>4. Cardinality(Telling(t)') = Cardinality(Telling(t)) + 1
          BY <2>2, <5>2, FS_AddElement
        <5> QED BY <2>1, <2>3, <3>2, <4>3, <5>3, <5>4 DEF Counts
      <4> QED BY <4>7, <4>8
    <3> QED BY <2>14, <3>1, <3>2 DEF AppendSummary
  <2>15. CASE AppendMain(a)
    <3>1. op[a].pc = "main" /\ log' = log
      BY <2>15 DEF AppendMain
    <3>2. Side(t)' = Side(t)
      BY <3>1 DEF Side, Marks
    <3>3. \A pc : Go(a, pc) => op'[a].pc = pc
      BY CallSets DEF Types
    <3>4. op'[a].pc # "main"
      BY <2>10, <2>15, <3>3 DEF AppendMain, FinishFails, Return
    <3>5. CASE Fault /\ UNCHANGED main
      BY <2>6, <2>7, <2>9, <3>2, <3>4, <3>5 DEF Told
    <3>6. CASE main' = Append(main, <<Task(a), op[a].status>>) /\ UNCHANGED faults
      <4>1. Telling(t)' = Telling(t) \ {a}
        BY <2>9, <3>4
      <4>2. /\ Len(main) \in Nat /\ DOMAIN main = 1 .. Len(main)
            /\ DOMAIN main' = 1 .. (Len(main) + 1)
            /\ \A k \in DOMAIN main : main'[k] = main[k]
            /\ main'[Len(main) + 1] = <<Task(a), op[a].status>>
        <5>1. Task(a) \in Tasks /\ op[a].status \in Ends
          BY <3>1 DEF Types, OpTyped, OpShape, OpType, Task
        <5>2. <<Task(a), op[a].status>> \in Tasks \X Ends /\ main \in Seq(Tasks \X Ends)
          BY <5>1 DEF Types
        <5> QED BY <3>6, <5>2
      <4>3. main'[Len(main) + 1][1] = Task(a)
        BY <4>2
      <4>4. CASE Task(a) # t
        <5>1. Told(t)' = Told(t)
          BY <4>2, <4>3, <4>4 DEF Told
        <5>2. Telling(t)' = Telling(t)
          BY <4>1, <4>4 DEF Telling
        <5> QED BY <2>1, <3>2, <3>6, <5>1, <5>2, CountsKept
      <4>5. CASE Task(a) = t
        <5>1. Told(t)' = Told(t) \cup {Len(main) + 1} /\ Len(main) + 1 \notin Told(t)
          BY <4>2, <4>3, <4>5 DEF Told
        <5>2. a \in Telling(t)
          BY <3>1, <4>5 DEF Telling
        <5>3. Cardinality(Told(t)') = Cardinality(Told(t)) + 1
          BY <2>2, <5>1, FS_AddElement
        <5>4. Cardinality(Telling(t)') = Cardinality(Telling(t)) - 1
          BY <2>2, <4>1, <5>2, FS_RemoveElement
        <5> QED BY <2>1, <2>3, <3>2, <3>6, <5>3, <5>4 DEF Counts
      <4> QED BY <4>4, <4>5
    <3> QED BY <2>15, <3>5, <3>6 DEF AppendMain
  <2> QED BY <1>2, <2>11, <2>12, <2>13, <2>14, <2>15
<1> QED BY <1>1, <1>2 DEF Next, Mirror, Counts

\* Whoever ends a task and whatever fails, the session's transcript reports no end
\* that the task's own transcript does not hold, and all of them if nothing failed.
THEOREM SummariesAreMirrored == Spec => []SummariesMirrored
<1> DEFINE Inv == Types /\ Mirror
<1>1. Init => Inv
  <2> SUFFICES ASSUME Init, NEW t \in Tasks PROVE Counts(t)
    BY TypesInit DEF Mirror, Counts
  <2>1. Side(t) = {} /\ Told(t) = {} /\ Telling(t) = {}
    BY DEF Init, Side, Told, Telling, Marks, Idle
  <2>2. Cardinality({}) = 0
    BY FS_EmptySet
  <2> QED BY <2>1, <2>2 DEF Counts
<1>2. Inv /\ [Next]_vars => Inv'
  BY TypesStep, MirrorStep
<1>3. Inv => SummariesMirrored
  <2> SUFFICES ASSUME Inv, NEW t \in Tasks
               PROVE  /\ Cardinality(Told(t)) <= Cardinality(Side(t))
                      /\ faults = 0 /\ Quiet(t) => Cardinality(Told(t)) = Cardinality(Side(t))
    BY DEF SummariesMirrored, Told, Side
  <2>1. Counts(t)
    BY DEF Mirror, Counts
  <2>2. /\ Cardinality(Side(t)) \in Nat /\ Cardinality(Told(t)) \in Nat
        /\ Cardinality(Telling(t)) \in Nat
    BY FiniteCounts, FS_CardinalityType
  <2>3. Quiet(t) => Cardinality(Telling(t)) = 0
    <3>1. Quiet(t) => Telling(t) = {}
      BY DEF Quiet, Telling
    <3> QED BY <3>1, FS_EmptySet
  <2> QED BY <2>1, <2>2, <2>3 DEF Counts
<1> QED BY <1>1, <1>2, <1>3, PTL DEF Spec

-----------------------------------------------------------------------------
(* A task ends with its subagent.                                          *)

Finished == {"main", "cleanup", "mark"}

\* Without a fault, a subagent gets past Finish only where the task has ended.
LEMMA EndStep ==
  ASSUME Types, NEW a \in Actors, Step(a), UNCHANGED faults
  PROVE  /\ op'[a].start # 0 /\ op'[a].pc \in Finished =>
              /\ op'[a].task = op[a].task /\ op'[a].start = op[a].start
              /\ \/ op[a].pc \in Finished
                 \/ op[a].pc = "finish" /\ ~Running(Task(a))
                 \/ Append1(Task(a), Entry("summary", op[a].status, FALSE))
         /\ \/ ended' = ended
            \/ /\ op[a].start # 0 /\ ended' = ended \cup {<<Task(a), op[a].start>>}
               /\ op[a].pc \in Finished \/ (op[a].pc = "finish" /\ ~Running(Task(a)))
<1>1. op \in [Actors -> OpType] /\ op[a] \in OpType /\ OpShape(op[a]) /\ OpTyped
  BY DEF Types, OpTyped
<1>2. ~Fault
  BY DEF Fault, Types
<1>3. op' = [op EXCEPT ![a] = Idle] => op'[a].start = 0
  BY <1>1 DEF Idle
<1>4. \A pc : Go(a, pc) => op'[a].pc = pc /\ op'[a].task = op[a].task /\ op'[a].start = op[a].start
  BY <1>1 DEF Go, OpType
<1>5. CASE op[a].pc \in StartPoints \cup {"begin", "reload", "sending", "message"}
  <2>1. op[a].start = 0
    BY <1>1, <1>5 DEF OpShape, StartPoints, LoopPoints, EndPoints, CleanPoints
  <2>2. Return(a) => ended' = ended /\ op'[a].start = 0
    BY <1>3, <2>1 DEF Return
  <2>3. \A pc : Go(a, pc) => op'[a].start = 0
    BY <1>4, <2>1
  <2>4. op' = [op EXCEPT ![a].pc = "start", ![a].owned = TRUE] => op'[a].start = 0
    BY <1>1, <2>1 DEF OpType
  <2>5. op' = [op EXCEPT ![a].pc = "finish", ![a].status = "cancelled"] => op'[a].start = 0
    BY <1>1, <2>1 DEF OpType
  <2>6. \A start : Loaded(a, "send", start) => op'[a].pc = "send"
    BY <1>1 DEF Loaded, OpType
  <2>7. Loaded(a, "cleanup", 0) => op'[a].start = 0
    BY <1>1 DEF Loaded, OpType
  <2>8. ended' = ended /\ (op'[a].start = 0 \/ op'[a].pc = "send")
    <3>1. CASE \/ ensureTaskCanStart(a) \/ prepareTaskWorktree(a) \/ Start(a)
               \/ WriteSidechainMetadata(a) \/ AppendStart(a) \/ AbandonStart(a) \/ Prompt(a)
      BY <2>2, <2>3, <2>4, <3>1 DEF ensureTaskCanStart, prepareTaskWorktree, Start,
         WriteSidechainMetadata, AppendStart, AbandonStart, Prompt
    <3>2. CASE LoadTask(a)
      BY <2>2, <2>6, <3>2 DEF LoadTask
    <3>3. CASE \/ KillTask(a) \/ ReloadKilled(a) \/ SendMessage(a) \/ CheckMessage(a)
               \/ AppendMessage(a)
      BY <2>2, <2>3, <2>5, <2>7, <3>3 DEF KillTask, ReloadKilled, SendMessage, CheckMessage,
         AppendMessage
    <3>4. CASE \/ SendRequest(a) \/ CheckAppend(a) \/ AppendAnswer(a) \/ RunTools(a)
               \/ AppendResults(a) \/ CheckFinish(a) \/ AppendSummary(a) \/ AppendMain(a)
               \/ Cleanup(a) \/ MarkWorktreeCleanup(a)
      BY <1>5, <3>4 DEF SendRequest, CheckAppend, AppendAnswer, RunTools, AppendResults,
         CheckFinish, AppendSummary, AppendMain, Cleanup, MarkWorktreeCleanup, StartPoints
    <3> QED BY <3>1, <3>2, <3>3, <3>4 DEF Step
  <2> QED BY <2>8 DEF Finished
<1>6. CASE SendRequest(a) \/ CheckAppend(a) \/ AppendAnswer(a) \/ RunTools(a) \/ AppendResults(a)
  <2>1. \A status : EndRun(a, status) => op'[a].pc = "finish"
    BY <1>1, CallSets
  <2>2. ended' = ended
    BY <1>6 DEF SendRequest, CheckAppend, AppendAnswer, RunTools, AppendResults
  <2>3. op'[a].pc \in {"finish", "answered", "answer", "result", "tools", "ran", "send"}
    <3>1. CASE SendRequest(a)
      BY <1>1, <2>1, <3>1 DEF SendRequest, OpType
    <3>2. CASE CheckAppend(a)
      BY <1>4, <2>1, <3>2 DEF CheckAppend
    <3>3. CASE AppendAnswer(a)
      BY <1>1, <2>1, <3>3 DEF AppendAnswer, OpType
    <3>4. CASE RunTools(a)
      BY <1>4, <2>1, <3>4 DEF RunTools
    <3>5. CASE AppendResults(a)
      BY <1>1, <2>1, <3>5 DEF AppendResults, OpType
    <3> QED BY <1>6, <3>1, <3>2, <3>3, <3>4, <3>5
  <2> QED BY <2>2, <2>3 DEF Finished
<1>7. Return(a) => \/ ended' = ended
                   \/ op[a].start # 0 /\ ended' = ended \cup {<<Task(a), op[a].start>>}
  BY DEF Return
<1>8. CASE CheckFinish(a)
  <2>1. op[a].pc = "finish"
    BY <1>8 DEF CheckFinish
  <2>2. CASE Running(Task(a))
    <3>1. Go(a, "summary") /\ ended' = ended
      BY <1>8, <2>2 DEF CheckFinish
    <3>2. op'[a].pc = "summary"
      BY <1>4, <3>1
    <3> QED BY <3>1, <3>2 DEF Finished
  <2>3. CASE ~Running(Task(a))
    <3>1. CASE Return(a)
      BY <1>3, <1>7, <2>1, <2>3, <3>1 DEF Return
    <3>2. CASE Go(a, "cleanup") /\ UNCHANGED ended
      BY <1>4, <2>1, <2>3, <3>2
    <3> QED BY <1>8, <2>3, <3>1, <3>2 DEF CheckFinish, FinishFails
  <2> QED BY <2>2, <2>3
<1>9. CASE AppendSummary(a)
  BY <1>2, <1>4, <1>9 DEF AppendSummary
<1>10. CASE AppendMain(a)
  BY <1>2, <1>4, <1>10 DEF AppendMain, Finished
<1>11. CASE Cleanup(a)
  <2>1. op[a].pc \in Finished
    BY <1>11 DEF Cleanup, Finished
  <2>2. \A cleanup : op' = [op EXCEPT ![a].pc = "mark", ![a].snap = cleanup]
                       => op'[a].task = op[a].task /\ op'[a].start = op[a].start
    BY <1>1 DEF OpType
  <2>3. CASE Return(a)
    BY <1>3, <1>7, <2>1, <2>3 DEF Return
  <2> QED BY <1>11, <2>1, <2>2, <2>3 DEF Cleanup
<1>12. CASE MarkWorktreeCleanup(a)
  BY <1>3, <1>7, <1>12 DEF MarkWorktreeCleanup, Return, Finished
<1>13. CASE \/ ensureTaskCanStart(a) \/ prepareTaskWorktree(a) \/ Start(a)
            \/ WriteSidechainMetadata(a) \/ AppendStart(a) \/ AbandonStart(a) \/ Prompt(a)
            \/ LoadTask(a) \/ KillTask(a) \/ ReloadKilled(a) \/ SendMessage(a)
            \/ CheckMessage(a) \/ AppendMessage(a)
  BY <1>5, <1>13 DEF ensureTaskCanStart, prepareTaskWorktree, Start, WriteSidechainMetadata,
     AppendStart, AbandonStart, Prompt, LoadTask, KillTask, ReloadKilled, SendMessage,
     CheckMessage, AppendMessage, StartPoints
<1> QED BY <1>6, <1>8, <1>9, <1>10, <1>11, <1>12, <1>13 DEF Step

\* A run that is not running has ended: a summary follows its start.
LEMMA NotRunningEnded ==
  ASSUME LogType, NEW t \in Tasks, NEW s \in Marks(t, {"start"}), ~Running(t)
  PROVE  RunEnded(t, s)
<1> DEFINE m == LastMark(t, Lifecycle)
<1>1. LastStart(t) # 0
  BY LastMarkIsLast DEF LastStart
<1>2. m \in Marks(t, {"summary"})
  BY <1>1, StatusLast
<1>3. s \in Marks(t, Lifecycle)
  BY DEF Marks, Lifecycle
<1>4. s <= m
  BY <1>3, LastMarkIsLast
<1>5. s # m
  BY <1>2 DEF Marks
<1>6. s \in 1 .. Len(log[t]) /\ m \in Nat /\ Len(log[t]) \in Nat
  BY LastMarkIsLast DEF LogType
<1>7. s < m
  <2> HIDE DEF m
  <2> QED BY <1>4, <1>5, <1>6
<1> QED BY <1>2, <1>7 DEF RunEnded

LEMMA SummaryEnds ==
  ASSUME LogType, NEW t \in Tasks, NEW e \in EntryType, e.kind = "summary", Append1(t, e),
         NEW s \in Marks(t, {"start"})
  PROVE  RunEnded(t, s)'
<1>1. Len(log[t]) + 1 \in Marks(t, {"summary"})'
  BY MarksAppend
<1>2. s \in 1 .. Len(log[t]) /\ Len(log[t]) \in Nat
  BY LastMarkIsLast DEF LogType
<1> QED BY <1>1, <1>2 DEF RunEnded

LEMMA RunsEndStep ==
  ASSUME Types, Types', RunsBegan, RunsEnd, [Next]_vars
  PROVE  RunsEnd'
<1>1. CASE UNCHANGED vars
  BY <1>1 DEF vars, RunsEnd, RunEnded, Marks, Task
<1>2. ASSUME NEW a \in Actors, Call(a) \/ Step(a) \/ Die(a), faults' = 0 PROVE RunsEnd'
  <2>1. faults = 0 /\ UNCHANGED faults /\ ~Die(a)
    <3>1. faults \in Nat
      BY DEF Types
    <3>2. UNCHANGED faults \/ Fault
      BY <1>2, StepFrame DEF Call, Die
    <3> QED BY <1>2, <3>1, <3>2 DEF Fault, Die
  <2>2. /\ \A r \in ended : r \in Tasks \X Nat /\ RunEnded(r[1], r[2])
        /\ \A b \in Actors : op[b].start # 0 /\ op[b].pc \in Finished
                               => RunEnded(Task(b), op[b].start)
    BY <2>1 DEF RunsEnd, Finished
  <2>3. ASSUME NEW u \in Tasks, NEW s \in Nat, RunEnded(u, s) PROVE RunEnded(u, s)'
    BY <1>2, <2>3, RunsKept
  <2>4. op[a].start # 0 => Task(a) \in Tasks /\ op[a].start \in Marks(Task(a), {"start"})
    BY DEF Types, OpTyped, OpShape, Idle, RunsBegan, Task
  <2>5. ASSUME op[a].start # 0, op[a].pc \in Finished \/ (op[a].pc = "finish" /\ ~Running(Task(a)))
        PROVE  RunEnded(Task(a), op[a].start)
    <3>1. CASE op[a].pc \in Finished
      BY <2>2, <2>5, <3>1
    <3>2. CASE ~Running(Task(a))
      BY <2>4, <2>5, <3>2, NotRunningEnded DEF Types
    <3> QED BY <2>5, <3>1, <3>2
  <2>6. ASSUME NEW u \in Tasks, NEW s \in Nat, <<u, s>> \in ended' PROVE RunEnded(u, s)'
    <3>1. CASE <<u, s>> \in ended
      <4>1. RunEnded(u, s)
        BY <2>2, <3>1
      <4> QED BY <2>3, <4>1
    <3>2. CASE <<u, s>> \notin ended
      <4>1. Step(a)
        BY <1>2, <2>1, <2>6, <3>2 DEF Call
      <4>2. /\ op[a].start # 0 /\ u = Task(a) /\ s = op[a].start
            /\ op[a].pc \in Finished \/ (op[a].pc = "finish" /\ ~Running(Task(a)))
        <5>1. ended' # ended
          BY <2>6, <3>2
        <5>2. /\ op[a].start # 0 /\ ended' = ended \cup {<<Task(a), op[a].start>>}
              /\ op[a].pc \in Finished \/ (op[a].pc = "finish" /\ ~Running(Task(a)))
          BY <2>1, <4>1, <5>1, EndStep
        <5>3. <<u, s>> = <<Task(a), op[a].start>>
          BY <2>6, <3>2, <5>2
        <5> QED BY <5>2, <5>3
      <4>3. RunEnded(u, s)
        BY <2>5, <4>2
      <4> QED BY <2>3, <4>3
    <3> QED BY <3>1, <3>2
  <2>7. ended' \subseteq Tasks \X Nat
    <3>1. CASE ended' = ended
      BY <2>2, <3>1
    <3>2. CASE op[a].start # 0 /\ ended' = ended \cup {<<Task(a), op[a].start>>}
      <4>1. Task(a) \in Tasks /\ op[a].start \in Nat
        BY <2>4, <3>2 DEF Types, OpTyped, OpType
      <4> QED BY <2>2, <3>2, <4>1
    <3>3. Call(a) => ended' = ended
      BY DEF Call
    <3> QED BY <1>2, <2>1, <3>1, <3>2, <3>3, EndStep
  <2>8. ASSUME NEW b \in Actors, NEW u \in Tasks, NEW s \in Nat,
               u = op'[b].task, s = op'[b].start, s # 0, op'[b].pc \in Finished
        PROVE  RunEnded(u, s)'
    <3>1. CASE b # a
      <4>1. op'[b] = op[b]
        BY <1>2, <3>1, OthersKept DEF Types
      <4>2. RunEnded(u, s)
        BY <2>2, <2>8, <4>1 DEF Task
      <4> QED BY <2>3, <4>2
    <3>2. CASE b = a
      <4>1. Step(a)
        <5>1. Call(a) => op'[a].pc = "begin"
          BY DEF Call, Types, OpTyped, Idle
        <5> QED BY <1>2, <2>1, <2>8, <3>2, <5>1 DEF Finished
      <4>2. /\ u = Task(a) /\ s = op[a].start
            /\ \/ op[a].pc \in Finished \/ (op[a].pc = "finish" /\ ~Running(Task(a)))
               \/ Append1(Task(a), Entry("summary", op[a].status, FALSE))
        BY <2>1, <2>8, <3>2, <4>1, EndStep DEF Task
      <4>3. CASE Append1(Task(a), Entry("summary", op[a].status, FALSE))
        <5>1. PICK e \in EntryType : e = Entry("summary", op[a].status, FALSE)
          BY EntriesTyped DEF Types
        <5>2. e.kind = "summary" /\ Append1(u, e)
          BY <4>2, <4>3, <5>1 DEF Entry
        <5>3. s \in Marks(u, {"start"})
          BY <2>4, <2>8, <4>2
        <5> QED BY <5>2, <5>3, SummaryEnds DEF Types
      <4>4. CASE ~Append1(Task(a), Entry("summary", op[a].status, FALSE))
        <5>1. RunEnded(u, s)
          BY <2>5, <2>8, <4>2, <4>4
        <5> QED BY <2>3, <5>1
      <4> QED BY <4>3, <4>4
    <3> QED BY <3>1, <3>2
  <2>9. ASSUME NEW r \in ended' PROVE r \in Tasks \X Nat /\ RunEnded(r[1], r[2])'
    <3>1. PICK u \in Tasks, s \in Nat : r = <<u, s>>
      BY <2>7
    <3>2. RunEnded(u, s)'
      BY <2>6, <3>1
    <3> QED BY <2>7, <3>1, <3>2
  <2>10. ASSUME NEW b \in Actors, op'[b].start # 0, op'[b].pc \in Finished
         PROVE  \E k \in Marks(op[b].task, {"summary"})' : op'[b].start < k
    <3>1. op'[b].task \in Tasks /\ op'[b].start \in Nat
      BY <2>10 DEF Types, OpTyped, OpShape, OpType, Finished
    <3>2. PICK u \in Tasks, s \in Nat : u = op'[b].task /\ s = op'[b].start
      BY <3>1
    <3>3. RunEnded(u, s)'
      BY <2>8, <2>10, <3>2
    <3> QED BY <3>2, <3>3 DEF RunEnded, Marks
  <2> QED BY <2>9, <2>10 DEF RunsEnd, RunEnded, Marks, Task, Finished
<1> QED BY <1>1, <1>2 DEF Next, RunsEnd

\* Without a fault, a task whose subagent has returned has ended, whoever ended it
\* and however many actors meet on it.
THEOREM TasksEndWithTheirSubagent == Spec => []SettledAfterRun
<1> DEFINE Inv == Types /\ RunsBegan /\ LateStops /\ RunsEnd
<1>1. Init => Inv
  <2> SUFFICES ASSUME Init PROVE RunsBegan /\ LateStops /\ RunsEnd
    BY TypesInit
  <2> QED BY DEF Init, RunsBegan, LateStops, RunsEnd, Idle
<1>2. Inv /\ [Next]_vars => Inv'
  BY TypesStep, LateStopsStep, RunsEndStep
<1>3. Inv => SettledAfterRun
  <2> SUFFICES ASSUME Inv, NEW t \in Tasks, faults = 0, <<t, LastStart(t)>> \in ended
               PROVE  ~Running(t)
    BY DEF SettledAfterRun
  <2>1. RunEnded(t, LastStart(t))
    BY DEF RunsEnd
  <2> QED BY <2>1, EndedNotRunning DEF Types
<1> QED BY <1>1, <1>2, <1>3, PTL DEF Spec

-----------------------------------------------------------------------------
(* The worktree ends with its task.                                        *)

LEMMA EndsEntered ==
  ASSUME OpTyped, NEW a \in Actors, Call(a) \/ Step(a) \/ Die(a),
         op'[a].pc \in EndPoints \cup {"reload"}
  PROVE  /\ op'[a].task = op[a].task
         /\ op[a].pc \in EndPoints \/ op[a].start # 0 \/ Running(Task(a))
<1> USE DEF EndPoints
<1>1. op \in [Actors -> OpType] /\ op[a] \in OpType /\ OpShape(op[a])
  BY DEF OpTyped
<1>2. op' # [op EXCEPT ![a] = Idle]
  BY <1>1 DEF Idle
<1>3. ~Call(a) /\ ~Die(a)
  BY <1>1, <1>2, ZenonT(60) DEF Call, Die, Idle
<1>4. \A pc : Go(a, pc) => op'[a].pc = pc /\ op'[a].task = op[a].task
  BY <1>1 DEF Go, OpType
<1>5. \A status : EndRun(a, status) => op'[a].task = op[a].task
  BY CallSets
<1>6. \A pc, start : Loaded(a, pc, start) => op'[a].pc = pc
  BY CallSets
<1>7. ~Return(a)
  BY <1>2 DEF Return
<1>8. CASE \/ ensureTaskCanStart(a) \/ prepareTaskWorktree(a) \/ Start(a)
           \/ WriteSidechainMetadata(a) \/ AppendStart(a) \/ AbandonStart(a) \/ Prompt(a)
  <2>1. op' # [op EXCEPT ![a].pc = "start", ![a].owned = TRUE]
    BY <1>1 DEF OpType
  <2> QED BY <1>4, <1>7, <1>8, <2>1 DEF ensureTaskCanStart, prepareTaskWorktree, Start,
             WriteSidechainMetadata, AppendStart, AbandonStart, Prompt
<1>9. CASE LoadTask(a)
  BY <1>6, <1>7, <1>9 DEF LoadTask
<1>10. CASE SendRequest(a) \/ CheckAppend(a) \/ AppendAnswer(a) \/ RunTools(a) \/ AppendResults(a)
  <2>1. op[a].start # 0
    BY <1>1, <1>10 DEF SendRequest, CheckAppend, AppendAnswer, RunTools, AppendResults, OpShape,
       LoopPoints
  <2>2. op'[a].task = op[a].task
    <3>1. CASE SendRequest(a)
      BY <1>1, <1>5, <3>1 DEF SendRequest, OpType
    <3>2. CASE CheckAppend(a) \/ RunTools(a)
      BY <1>4, <1>5, <3>2 DEF CheckAppend, RunTools
    <3>3. CASE AppendAnswer(a)
      BY <1>1, <1>5, <3>3 DEF AppendAnswer, OpType
    <3>4. CASE AppendResults(a)
      BY <1>1, <1>5, <3>4 DEF AppendResults, OpType
    <3> QED BY <1>10, <3>1, <3>2, <3>3, <3>4
  <2> QED BY <2>1, <2>2
<1>11. CASE CheckFinish(a)
  BY <1>4, <1>7, <1>11 DEF CheckFinish, FinishFails
<1>12. CASE AppendSummary(a)
  BY <1>4, <1>7, <1>12 DEF AppendSummary, FinishFails
<1>13. CASE AppendMain(a)
  BY <1>4, <1>7, <1>13 DEF AppendMain, FinishFails
<1>14. CASE Cleanup(a) \/ MarkWorktreeCleanup(a)
  <2>1. \A cleanup : op' # [op EXCEPT ![a].pc = "mark", ![a].snap = cleanup]
    BY <1>1 DEF OpType
  <2> QED BY <1>7, <1>14, <2>1 DEF Cleanup, MarkWorktreeCleanup
<1>15. CASE KillTask(a)
  <2>1. op' = [op EXCEPT ![a].pc = "finish", ![a].status = "cancelled"] => op'[a].task = op[a].task
    BY <1>1 DEF OpType
  <2> QED BY <1>6, <1>7, <1>15, <2>1 DEF KillTask
<1>16. CASE ReloadKilled(a)
  BY <1>6, <1>16 DEF ReloadKilled
<1>17. CASE SendMessage(a) \/ CheckMessage(a) \/ AppendMessage(a)
  BY <1>4, <1>7, <1>17 DEF SendMessage, CheckMessage, AppendMessage
<1> QED BY <1>3, <1>8, <1>9, <1>10, <1>11, <1>12, <1>13, <1>14, <1>15, <1>16, <1>17 DEF Step

LEMMA EndsBeganStep ==
  ASSUME Types, Types', RunsBegan, EndsBegan, [Next]_vars
  PROVE  EndsBegan'
<1>1. CASE UNCHANGED vars
  BY <1>1 DEF vars, EndsBegan, Task, Marks
<1>2. ASSUME NEW a \in Actors, Call(a) \/ Step(a) \/ Die(a),
             NEW b \in Actors, NEW t \in Tasks, t = op'[b].task, op'[b].pc \in EndPoints \cup {"reload"}
      PROVE  Marks(t, {"start"})' # {}
  <2>1. Marks(t, {"start"}) # {}
    <3>1. CASE b # a
      <4>1. op'[b] = op[b]
        BY <1>2, <3>1, OthersKept DEF Types
      <4> QED BY <1>2, <4>1 DEF EndsBegan, Task
    <3>2. CASE b = a
      <4>1. Task(a) = t /\ (op[a].pc \in EndPoints \/ op[a].start # 0 \/ Running(t))
        BY <1>2, <3>2, EndsEntered DEF Types, Task
      <4>2. Running(t) => Marks(t, {"start"}) # {}
        BY StatusLast, LastMarkIsLast DEF Types, LastStart
      <4> QED BY <4>1, <4>2 DEF EndsBegan, RunsBegan
    <3> QED BY <3>1, <3>2
  <2>2. PICK s \in Marks(t, {"start"}) : TRUE
    BY <2>1
  <2>3. s \in Nat
    BY LastMarkIsLast DEF Types
  <2> QED BY <1>2, <2>2, <2>3, RunsKept
<1>3. ASSUME NEW b \in Actors, op'[b].pc \in EndPoints \cup {"reload"} PROVE op'[b].task \in Tasks
  BY <1>3 DEF Types, OpTyped, OpShape, EndPoints
<1> QED BY <1>1, <1>2, <1>3 DEF Next, EndsBegan, Task, Marks

\* Nothing is read of a transcript but its entries.
LEMMA SameLog ==
  ASSUME NEW t \in Tasks, log'[t] = log[t]
  PROVE  /\ \A kinds : Marks(t, kinds)' = Marks(t, kinds)
         /\ Running(t)' <=> Running(t)
         /\ CleanupStatus(t)' = CleanupStatus(t)
         /\ meta'[t] = meta[t] => (Owned(t)' <=> Owned(t))
BY DEF Marks, Running, Status, CleanupStatus, LastMark, Owned

Watched == {"start", "abandon", "metadata", "append", "main", "reload", "cleanup", "mark"}

\* A step that touches neither the transcript, nor the metadata, nor the worktree,
\* of an actor that is not at a point the invariant speaks of, and that is not
\* afterwards where it would have to have loaded or written something.
LEMMA NeutralStep ==
  ASSUME NEW t \in Tasks, NEW a \in Actors, Worktree(t),
         \A b \in Actors : b # a => op'[b] = op[b],
         log'[t] = log[t], meta'[t] = meta[t], t \in tree' <=> t \in tree,
         faults' = 0 => faults = 0,
         ~At(a, t, Watched),
         op'[a].task = t =>
           /\ op'[a].pc \notin {"metadata", "append"}
           /\ op'[a].pc \in CleanPoints => Marks(t, {"start"}) # {}
           /\ op'[a].start # 0 \/ op'[a].pc \in CleanPoints =>
                Knows(a, t) /\ op'[a].owned = op[a].owned /\ op'[a].managed = op[a].managed
           /\ op'[a].snap \in GoneMarks => Task(a) = t /\ op[a].snap \in GoneMarks
  PROVE  Worktree(t)'
<1> USE DEF Watched, At, Task, CleanPoints
<1>1. /\ \A kinds : Marks(t, kinds)' = Marks(t, kinds)
      /\ Running(t)' <=> Running(t)
      /\ CleanupStatus(t)' = CleanupStatus(t)
      /\ Owned(t)' <=> Owned(t)
  BY SameLog
<1>2. Gone(t)' => Gone(t)
  BY <1>1 DEF Gone
<1>3. ASSUME Before(t)' PROVE NotStarted(t)'
  <2>1. NotStarted(t) /\ Marks(t, {"start"}) = {}
    BY <1>1, <1>3 DEF Before, Worktree
  <2>2. \A b \in Actors : Claims(b, t) => Claims(b, t)'
    BY DEF Claims
  <2>4. TreeClaimed(t)'
    BY <2>1, <2>2 DEF NotStarted, TreeClaimed
  <2>5. MetaClaimed(t)'
    BY <2>1 DEF NotStarted, MetaClaimed, Wrote
  <2>6. MetaFirst(t)'
    BY <1>2, <2>1 DEF NotStarted, MetaFirst
  <2>7. LoadsClaimed(t)'
    BY <2>1 DEF NotStarted, LoadsClaimed, Knows, Wrote
  <2>8. GoneClaimed(t)'
    BY <1>2, <2>1, <2>2 DEF NotStarted, GoneClaimed
  <2> QED BY <2>4, <2>5, <2>6, <2>7, <2>8 DEF NotStarted
<1>4. ASSUME Once(t)' PROVE StartedOnce(t)'
  <2>1. StartedOnce(t)
    <3>1. faults = 0 /\ \E m \in Marks(t, {"start"}) : Marks(t, {"start"}) = {m}
      BY <1>1, <1>4 DEF Once
    <3>2. \A b \in Actors : ~At(b, t, {"metadata", "append"})
      BY <1>4 DEF Once
    <3> QED BY <3>1, <3>2 DEF Once, Worktree
  <2>2. OwnedByMeta(t)'
    BY <1>1, <2>1 DEF StartedOnce, OwnedByMeta
  <2>3. KnowMeta(t)'
    BY <2>1 DEF StartedOnce, KnowMeta, Knows
  <2>4. Original(t)' => Original(t)
    BY DEF Original
  <2>5. OriginalKept(t)'
    BY <1>1, <1>2, <2>1, <2>4 DEF StartedOnce, OriginalKept
  <2> QED BY <2>2, <2>3, <2>5 DEF StartedOnce
<1> QED BY <1>3, <1>4 DEF Worktree

\* A call stays with its task until it returns.
LEMMA TaskKept ==
  ASSUME OpTyped, NEW a \in Actors, Step(a)
  PROVE  op'[a].task = op[a].task \/ op'[a] = Idle
<1>1. op \in [Actors -> OpType] /\ op[a] \in OpType
  BY DEF OpTyped
<1>2. Return(a) => op'[a] = Idle
  BY <1>1 DEF Return
<1>3. \A pc : Go(a, pc) => op'[a].task = op[a].task
  BY <1>1 DEF Go, OpType
<1>4. \A status : EndRun(a, status) => op'[a].task = op[a].task
  BY CallSets
<1>5. \A pc, start : Loaded(a, pc, start) => op'[a].task = op[a].task
  BY CallSets
<1>6. CASE \/ ensureTaskCanStart(a) \/ prepareTaskWorktree(a) \/ Start(a)
           \/ WriteSidechainMetadata(a) \/ AppendStart(a) \/ AbandonStart(a) \/ Prompt(a)
  <2>1. op' = [op EXCEPT ![a].pc = "start", ![a].owned = TRUE] => op'[a].task = op[a].task
    BY <1>1 DEF OpType
  <2> QED BY <1>2, <1>3, <1>6, <2>1 DEF ensureTaskCanStart, prepareTaskWorktree, Start,
             WriteSidechainMetadata, AppendStart, AbandonStart, Prompt
<1>7. CASE LoadTask(a)
  BY <1>2, <1>5, <1>7 DEF LoadTask
<1>8. CASE SendRequest(a) \/ CheckAppend(a) \/ AppendAnswer(a) \/ RunTools(a) \/ AppendResults(a)
  <2>1. CASE SendRequest(a)
    BY <1>1, <1>4, <2>1 DEF SendRequest, OpType
  <2>2. CASE CheckAppend(a) \/ RunTools(a)
    BY <1>3, <1>4, <2>2 DEF CheckAppend, RunTools
  <2>3. CASE AppendAnswer(a)
    BY <1>1, <1>4, <2>3 DEF AppendAnswer, OpType
  <2>4. CASE AppendResults(a)
    BY <1>1, <1>4, <2>4 DEF AppendResults, OpType
  <2> QED BY <1>8, <2>1, <2>2, <2>3, <2>4
<1>9. CASE CheckFinish(a)
  BY <1>2, <1>3, <1>9 DEF CheckFinish, FinishFails
<1>10. CASE AppendSummary(a)
  BY <1>2, <1>3, <1>10 DEF AppendSummary, FinishFails
<1>11. CASE AppendMain(a)
  BY <1>2, <1>3, <1>11 DEF AppendMain, FinishFails
<1>12. CASE Cleanup(a) \/ MarkWorktreeCleanup(a)
  <2>1. \A cleanup : op' = [op EXCEPT ![a].pc = "mark", ![a].snap = cleanup]
                       => op'[a].task = op[a].task
    BY <1>1 DEF OpType
  <2> QED BY <1>2, <1>12, <2>1 DEF Cleanup, MarkWorktreeCleanup
<1>13. CASE KillTask(a)
  <2>1. op' = [op EXCEPT ![a].pc = "finish", ![a].status = "cancelled"] => op'[a].task = op[a].task
    BY <1>1 DEF OpType
  <2> QED BY <1>2, <1>5, <1>13, <2>1 DEF KillTask
<1>14. CASE ReloadKilled(a)
  BY <1>5, <1>14 DEF ReloadKilled
<1>15. CASE SendMessage(a) \/ CheckMessage(a) \/ AppendMessage(a)
  BY <1>2, <1>3, <1>15 DEF SendMessage, CheckMessage, AppendMessage
<1> QED BY <1>6, <1>7, <1>8, <1>9, <1>10, <1>11, <1>12, <1>13, <1>14, <1>15 DEF Step

\* The steps of a call leave the other tasks alone, and so does a new call.
LEMMA OtherTask ==
  ASSUME Types, NEW t \in Tasks, NEW a \in Actors, Worktree(t), Call(a) \/ Step(a), Task(a) # t
  PROVE  Worktree(t)'
<1>1. \A b \in Actors : b # a => op'[b] = op[b]
  BY OthersKept DEF Types
<1>2. ~At(a, t, Watched)
  BY DEF At
<1>3. faults \in Nat
  BY DEF Types
<1>4. CASE Call(a)
  <2>1. UNCHANGED <<log, meta, tree, faults>>
    BY <1>4 DEF Call
  <2>2. op'[a].pc = "begin" /\ op'[a].start = 0 /\ op'[a].snap = "none"
    BY <1>4, ZenonT(60) DEF Call, Types, OpTyped, Idle
  <2> QED BY <1>1, <1>2, <2>1, <2>2, NeutralStep DEF CleanPoints, GoneMarks
<1>5. CASE Step(a)
  <2>1. log'[t] = log[t]
    <3>1. CASE UNCHANGED log
      BY <3>1
    <3>2. CASE ~UNCHANGED log
      <4>1. PICK u \in Tasks, e \in EntryType : u = Task(a) /\ Append1(u, e)
        BY <1>5, <3>2, LogStep, EntriesTyped DEF Types
      <4> QED BY <4>1, LogAppend DEF Types
    <3> QED BY <3>1, <3>2
  <2>2. meta'[t] = meta[t] /\ (t \in tree' <=> t \in tree)
    <3>1. meta \in [Tasks -> {"none", "session", "managed"}]
      BY DEF Types
    <3> QED BY <1>5, <3>1, StepFrame
  <2>3. faults' = 0 => faults = 0
    BY <1>3, <1>5, StepFrame DEF Fault
  <2>4. op'[a].task # t
    <3>1. Idle.task # t
      BY NoTaskAssumption DEF Idle
    <3> QED BY <1>5, <3>1, TaskKept DEF Types, Task
  <2> QED BY <1>1, <1>2, <2>1, <2>2, <2>3, <2>4, NeutralStep
<1> QED BY <1>4, <1>5

\* The same for a step of the task's own.
Unmoved(a) ==
  \/ op'[a] = Idle
  \/ /\ op'[a].task = op[a].task /\ op'[a].start = op[a].start /\ op'[a].snap = op[a].snap
     /\ op'[a].owned = op[a].owned /\ op'[a].managed = op[a].managed
     /\ op'[a].pc \notin {"metadata", "append"}
     /\ op'[a].pc \in CleanPoints => op[a].start # 0

LEMMA UnmovedStep ==
  ASSUME Types, RunsBegan, NEW t \in Tasks, NEW a \in Actors, Worktree(t), Step(a), Task(a) = t,
         UNCHANGED <<log, meta, tree>>, op[a].pc \notin Watched, Unmoved(a)
  PROVE  Worktree(t)'
<1>1. \A b \in Actors : b # a => op'[b] = op[b]
  BY OthersKept DEF Types
<1>2. ~At(a, t, Watched)
  BY DEF At
<1>3. faults' = 0 => faults = 0
  <2>1. faults \in Nat
    BY DEF Types
  <2> QED BY <2>1, StepFrame DEF Fault
<1>4. CASE op'[a] = Idle
  <2>1. op'[a].task # t
    BY <1>4, NoTaskAssumption DEF Idle
  <2> QED BY <1>1, <1>2, <1>3, <2>1, NeutralStep
<1>5. CASE op'[a] # Idle
  <2>1. op'[a].pc \in CleanPoints => Marks(t, {"start"}) # {}
    BY <1>5 DEF Unmoved, RunsBegan
  <2> QED BY <1>1, <1>2, <1>3, <1>5, <2>1, NeutralStep DEF Unmoved, Knows, Task
<1> QED BY <1>4, <1>5

LEMMA QuietSteps ==
  ASSUME Types, RunsBegan, NEW t \in Tasks, NEW a \in Actors, Worktree(t), Task(a) = t,
         \/ ensureTaskCanStart(a) \/ Prompt(a) \/ SendRequest(a) \/ CheckAppend(a)
         \/ AppendAnswer(a) \/ RunTools(a) \/ AppendResults(a) \/ CheckFinish(a)
         \/ SendMessage(a) \/ CheckMessage(a) \/ AppendMessage(a)
  PROVE  Worktree(t)'
<1> USE DEF CleanPoints
<1>1. op \in [Actors -> OpType] /\ op[a] \in OpType /\ OpShape(op[a])
  BY DEF Types, OpTyped
<1>2. Return(a) => Unmoved(a)
  BY <1>1 DEF Return, Unmoved
<1>3. \A pc : Go(a, pc) /\ pc \notin {"metadata", "append", "mark", "cleanup"} => Unmoved(a)
  BY <1>1 DEF Go, Unmoved, OpType
<1>4. \A status : EndRun(a, status) => Unmoved(a)
  BY <1>1 DEF EndRun, Unmoved, OpType
<1>5. Step(a)
  BY DEF Step
<1>6. UNCHANGED <<log, meta, tree>>
  BY DEF ensureTaskCanStart, Prompt, SendRequest, CheckAppend, AppendAnswer, RunTools,
     AppendResults, CheckFinish, SendMessage, CheckMessage, AppendMessage
<1>7. op[a].pc \notin Watched
  BY DEF ensureTaskCanStart, Prompt, SendRequest, CheckAppend, AppendAnswer, RunTools,
     AppendResults, CheckFinish, SendMessage, CheckMessage, AppendMessage, Watched
<1>8. Unmoved(a)
  <2>1. CASE ensureTaskCanStart(a) \/ Prompt(a)
    BY <1>2, <1>3, <2>1 DEF ensureTaskCanStart, Prompt
  <2>2. CASE SendRequest(a)
    <3>1. \A uses : op' = [op EXCEPT ![a].pc = "answered", ![a].uses = uses] => Unmoved(a)
      BY <1>1 DEF Unmoved, OpType
    <3> QED BY <1>4, <2>2, <3>1 DEF SendRequest
  <2>3. CASE CheckAppend(a) \/ RunTools(a)
    BY <1>3, <1>4, <2>3 DEF CheckAppend, RunTools
  <2>4. CASE AppendAnswer(a)
    <3>1. op' = [op EXCEPT ![a].pc = "tools", ![a].uses = FALSE,
                   ![a].late = IF RunEnded(Task(a), op[a].start) THEN @ + 1 ELSE @]
            => Unmoved(a)
      BY <1>1 DEF Unmoved, OpType
    <3> QED BY <1>4, <2>4, <3>1 DEF AppendAnswer
  <2>5. CASE AppendResults(a)
    <3>1. op' = [op EXCEPT ![a].pc = "send", ![a].round = @ + 1] => Unmoved(a)
      BY <1>1 DEF Unmoved, OpType
    <3> QED BY <1>4, <2>5, <3>1 DEF AppendResults
  <2>6. CASE CheckFinish(a)
    <3>1. op[a].kind = "Task" => op[a].start # 0
      BY <1>1, <2>6 DEF CheckFinish, OpShape, EndPoints
    <3>2. op[a].kind = "Task" /\ Go(a, "cleanup") => Unmoved(a)
      BY <1>1, <3>1 DEF Go, Unmoved, OpType
    <3> QED BY <1>2, <1>3, <2>6, <3>2 DEF CheckFinish, FinishFails
  <2>7. CASE SendMessage(a) \/ CheckMessage(a) \/ AppendMessage(a)
    BY <1>2, <1>3, <2>7 DEF SendMessage, CheckMessage, AppendMessage
  <2> QED BY <2>1, <2>2, <2>3, <2>4, <2>5, <2>6, <2>7
<1> QED BY <1>5, <1>6, <1>7, <1>8, UnmovedStep

\* A task that was started once, and nobody is about to start again, was so before
\* any step but the append of a start.
LEMMA OnceBefore ==
  ASSUME NEW t \in Tasks, NEW a \in Actors, \A b \in Actors : b # a => op'[b] = op[b],
         Marks(t, {"start"})' = Marks(t, {"start"}), ~At(a, t, {"metadata", "append"}),
         faults' = 0 => faults = 0, Once(t)', Worktree(t)
  PROVE  StartedOnce(t)
<1>1. faults = 0 /\ \E m \in Marks(t, {"start"}) : Marks(t, {"start"}) = {m}
  BY DEF Once
<1>2. \A b \in Actors : ~At(b, t, {"metadata", "append"})
  BY DEF Once, At, Task
<1> QED BY <1>1, <1>2 DEF Once, Worktree

LEMMA FaultsStay ==
  ASSUME Types, NEW a \in Actors, Step(a)
  PROVE  /\ faults' = 0 => faults = 0 /\ ~Fault
         /\ \A b \in Actors : b # a => op'[b] = op[b]
<1>1. faults \in Nat
  BY DEF Types
<1>2. faults' = 0 => faults = 0 /\ ~Fault
  BY <1>1, StepFrame DEF Fault
<1> QED BY <1>2, OthersKept DEF Types

\* A worktree that is made is the caller's, so the one that is
\* recorded as gone was another's, who is still about to start the task.
LEMMA PrepareStep ==
  ASSUME Types, RunsBegan, NEW t \in Tasks, NEW a \in Actors, Worktree(t), Task(a) = t,
         prepareTaskWorktree(a)
  PROVE  Worktree(t)'
<1>1. op \in [Actors -> OpType] /\ op[a] \in OpType /\ OpShape(op[a])
  BY DEF Types, OpTyped
<1>2. op[a].pc = "worktree" /\ UNCHANGED <<log, meta>> /\ Step(a)
  BY DEF prepareTaskWorktree, Step
<1>3. /\ faults' = 0 => faults = 0 /\ ~Fault
      /\ \A b \in Actors : b # a => op'[b] = op[b]
  BY <1>2, FaultsStay
<1>4. CASE UNCHANGED tree
  <2>1. Return(a) => Unmoved(a)
    BY <1>1 DEF Return, Unmoved
  <2>2. Go(a, "start") => Unmoved(a)
    BY <1>1 DEF Go, Unmoved, OpType, CleanPoints
  <2>3. tree' # tree \cup {Task(a)} \/ Task(a) \in tree
    BY <1>4
  <2>4. Unmoved(a)
    BY <2>1, <2>2, <2>3 DEF prepareTaskWorktree
  <2> QED BY <1>2, <1>4, <2>4, UnmovedStep DEF Watched
<1>5. CASE /\ t \notin tree /\ tree' = tree \cup {t}
           /\ op' = [op EXCEPT ![a].pc = "start", ![a].owned = TRUE]
  <2>1. /\ op'[a].pc = "start" /\ op'[a].owned = TRUE /\ op'[a].task = t
        /\ op'[a].start = op[a].start /\ op'[a].snap = op[a].snap
    BY <1>1, <1>5 DEF OpType, Task
  <2>2. op[a].start = 0 /\ op[a].snap = "none"
    BY <1>1, <1>2 DEF OpShape, LoopPoints, EndPoints, CleanPoints
  <2>3. /\ \A kinds : Marks(t, kinds)' = Marks(t, kinds)
        /\ Owned(t)' <=> Owned(t)
    BY <1>2, SameLog
  <2>4. Gone(t)' => Gone(t)
    BY <1>2, <1>3, <2>1, <2>2, <2>3 DEF Gone, GoneMarks, Task
  <2>5. ASSUME Before(t)' PROVE NotStarted(t)'
    <3>1. NotStarted(t)
      BY <1>3, <2>3, <2>5 DEF Before, Worktree
    <3>2. Claims(a, t)'
      BY <2>1 DEF Claims, At, Task
    <3>3. TreeClaimed(t)'
      BY <3>2 DEF TreeClaimed
    <3>4. MetaClaimed(t)'
      BY <1>2, <1>3, <3>1 DEF NotStarted, MetaClaimed, Wrote, At, Task
    <3>5. MetaFirst(t)'
      BY <1>2, <1>3, <2>1, <2>4, <3>1 DEF NotStarted, MetaFirst, At, Task, CleanPoints
    <3>6. LoadsClaimed(t)'
      BY <1>2, <1>3, <2>1, <2>2, <3>1
         DEF NotStarted, LoadsClaimed, Knows, Wrote, At, Task, CleanPoints
    <3>7. GoneClaimed(t)'
      <4> SUFFICES ASSUME Gone(t)'
                   PROVE  \E b, c \in Actors : b # c /\ At(c, t, {"append"})' /\ Claims(b, t)'
        BY DEF GoneClaimed
      <4>1. PICK c \in Actors : At(c, t, {"append"})
        BY <2>4, <3>1 DEF NotStarted, MetaFirst, MetaClaimed, Wrote
      <4>2. c # a /\ At(c, t, {"append"})'
        BY <1>2, <1>3, <4>1 DEF At, Task
      <4> QED BY <3>2, <4>2
    <3> QED BY <3>3, <3>4, <3>5, <3>6, <3>7 DEF NotStarted
  <2>6. ASSUME Once(t)' PROVE StartedOnce(t)'
    <3>1. ~At(a, t, {"metadata", "append"})
      BY <1>2 DEF At
    <3>2. StartedOnce(t)
      BY <1>3, <2>3, <2>6, <3>1, OnceBefore
    <3>3. OwnedByMeta(t)'
      BY <1>2, <2>3, <3>2 DEF StartedOnce, OwnedByMeta
    <3>4. KnowMeta(t)'
      BY <1>2, <1>3, <2>1, <2>2, <3>2 DEF StartedOnce, KnowMeta, Knows, Task, CleanPoints
    <3>5. ~Original(t)'
      BY <2>1 DEF Original, At, Task
    <3> QED BY <3>3, <3>4, <3>5 DEF StartedOnce, OriginalKept
  <2> QED BY <2>5, <2>6 DEF Worktree
<1>6. CASE Fault
  BY <1>3, <1>6 DEF Worktree, Before, Once
<1> QED BY <1>4, <1>5, <1>6 DEF prepareTaskWorktree

LEMMA StartStep ==
  ASSUME Types, NEW t \in Tasks, NEW a \in Actors, Worktree(t), Task(a) = t, Start(a)
  PROVE  Worktree(t)'
<1>1. op \in [Actors -> OpType] /\ op[a] \in OpType /\ OpShape(op[a])
  BY DEF Types, OpTyped
<1>2. op[a].pc = "start" /\ UNCHANGED <<log, meta, tree>> /\ Step(a)
  BY DEF Start, Step
<1>3. /\ faults' = 0 => faults = 0 /\ ~Fault
      /\ \A b \in Actors : b # a => op'[b] = op[b]
  BY <1>2, FaultsStay
<1>4. /\ op'[a].task = t /\ op'[a].start = op[a].start /\ op'[a].snap = op[a].snap
      /\ op'[a].owned = op[a].owned /\ op'[a].pc = IF Running(t) THEN "abandon" ELSE "metadata"
  BY <1>1 DEF Start, Go, OpType, Task
<1>5. op[a].start = 0 /\ op[a].snap = "none"
  BY <1>1, <1>2 DEF OpShape, LoopPoints, EndPoints, CleanPoints
<1>6. /\ \A kinds : Marks(t, kinds)' = Marks(t, kinds)
      /\ Running(t)' <=> Running(t)
      /\ CleanupStatus(t)' = CleanupStatus(t)
      /\ Owned(t)' <=> Owned(t)
  BY <1>2, SameLog
<1>7. Gone(t)' => Gone(t)
  BY <1>2, <1>3, <1>4, <1>5, <1>6 DEF Gone, GoneMarks, Task
<1>8. ASSUME Before(t)' PROVE NotStarted(t)'
  <2>1. NotStarted(t) /\ Marks(t, {"start"}) = {}
    BY <1>3, <1>6, <1>8 DEF Before, Worktree
  <2>2. ~Running(t)
    BY <2>1, StatusLast, LastMarkIsLast DEF Types, LastStart
  <2>3. \A b \in Actors : Claims(b, t) => Claims(b, t)'
    BY <1>3, <1>4, <2>2 DEF Claims, At, Task
  <2>4. TreeClaimed(t)'
    BY <1>2, <2>1, <2>3 DEF NotStarted, TreeClaimed
  <2>5. MetaClaimed(t)'
    BY <1>2, <1>3, <2>1 DEF NotStarted, MetaClaimed, Wrote, At, Task
  <2>6. MetaFirst(t)'
    BY <1>2, <1>3, <1>4, <1>7, <2>1 DEF NotStarted, MetaFirst, At, Task, CleanPoints
  <2>7. LoadsClaimed(t)'
    BY <1>2, <1>3, <1>4, <1>5, <2>1 DEF NotStarted, LoadsClaimed, Knows, Wrote, At, Task, CleanPoints
  <2>8. \A c \in Actors : At(c, t, {"append"}) => At(c, t, {"append"})'
    BY <1>2, <1>3 DEF At, Task
  <2>9. GoneClaimed(t)'
    BY <1>2, <1>7, <2>1, <2>3, <2>8 DEF NotStarted, GoneClaimed
  <2> QED BY <2>4, <2>5, <2>6, <2>7, <2>9 DEF NotStarted
<1>9. ASSUME Once(t)' PROVE StartedOnce(t)'
  <2>1. ~At(a, t, {"metadata", "append"})
    BY <1>2 DEF At
  <2>2. StartedOnce(t)
    BY <1>3, <1>6, <1>9, <2>1, OnceBefore
  <2>3. OwnedByMeta(t)'
    BY <1>2, <1>6, <2>2 DEF StartedOnce, OwnedByMeta
  <2>4. KnowMeta(t)'
    BY <1>2, <1>3, <1>4, <1>5, <2>2 DEF StartedOnce, KnowMeta, Knows, Task, CleanPoints
  <2>5. op'[a].pc = "abandon"
    BY <1>4, <1>9 DEF Once, At, Task
  <2>6. Original(t)' => Original(t)
    BY <1>2, <1>3, <1>4, <2>5 DEF Original, At, Task
  <2>7. OriginalKept(t)'
    BY <1>2, <1>3, <1>6, <1>7, <2>2, <2>6 DEF StartedOnce, OriginalKept, At, Task, CleanPoints
  <2> QED BY <2>3, <2>4, <2>7 DEF StartedOnce
<1> QED BY <1>8, <1>9 DEF Worktree

LEMMA WriteMetaStep ==
  ASSUME Types, NEW t \in Tasks, NEW a \in Actors, Worktree(t), Task(a) = t,
         WriteSidechainMetadata(a)
  PROVE  Worktree(t)'
<1>1. op \in [Actors -> OpType] /\ op[a] \in OpType /\ OpShape(op[a])
  BY DEF Types, OpTyped
<1>2. op[a].pc = "metadata" /\ UNCHANGED <<log, tree>> /\ Step(a)
  BY DEF WriteSidechainMetadata, Step
<1>3. /\ faults' = 0 => faults = 0 /\ ~Fault
      /\ \A b \in Actors : b # a => op'[b] = op[b]
  BY <1>2, FaultsStay
<1>4. CASE Fault
  BY <1>3, <1>4 DEF Worktree, Before, Once
<1>5. CASE Go(a, "append") /\ meta' = [meta EXCEPT ![t] = IF op[a].owned THEN "managed" ELSE "session"]
  <2>1. /\ op'[a].task = t /\ op'[a].start = op[a].start /\ op'[a].snap = op[a].snap
        /\ op'[a].owned = op[a].owned /\ op'[a].pc = "append"
    BY <1>1, <1>5 DEF Go, OpType, Task
  <2>2. op[a].start = 0 /\ op[a].snap = "none" /\ op[a].owned \in BOOLEAN
    BY <1>1, <1>2 DEF OpShape, OpType, LoopPoints, EndPoints, CleanPoints
  <2>3. /\ meta'[t] # "none" /\ (meta'[t] = "managed" <=> op[a].owned)
    BY <1>5, <2>2 DEF Types
  <2>4. \A kinds : Marks(t, kinds)' = Marks(t, kinds)
    BY <1>2, SameLog
  <2>5. Gone(t)' => Gone(t)
    BY <1>2, <1>3, <2>1, <2>2, <2>4 DEF Gone, GoneMarks, Task
  <2>6. ~Once(t)'
    BY <2>1 DEF Once, At, Task
  <2>7. ASSUME Before(t)' PROVE NotStarted(t)'
    <3>1. NotStarted(t)
      BY <1>3, <2>4, <2>7 DEF Before, Worktree
    <3>2. \A b \in Actors : Claims(b, t) => Claims(b, t)'
      BY <1>3, <2>1 DEF Claims, At, Task
    <3>3. \A c \in Actors : At(c, t, {"append"}) => At(c, t, {"append"})'
      BY <1>2, <1>3 DEF At, Task
    <3>4. TreeClaimed(t)'
      BY <1>2, <3>1, <3>2 DEF NotStarted, TreeClaimed
    <3>5. MetaClaimed(t)'
      BY <2>1, <2>3 DEF MetaClaimed, Wrote, At, Task
    <3>6. MetaFirst(t)'
      BY <2>3 DEF MetaFirst
    <3>7. LoadsClaimed(t)'
      BY <1>2, <1>3, <2>1, <2>2, <3>1 DEF NotStarted, LoadsClaimed, Knows, Wrote, At, Task, CleanPoints
    <3>8. GoneClaimed(t)'
      BY <1>2, <2>5, <3>1, <3>2, <3>3 DEF NotStarted, GoneClaimed
    <3> QED BY <3>4, <3>5, <3>6, <3>7, <3>8 DEF NotStarted
  <2> QED BY <2>6, <2>7 DEF Worktree
<1> QED BY <1>4, <1>5 DEF WriteSidechainMetadata

LEMMA StartRuns ==
  ASSUME LogType, NEW t \in Tasks, NEW e \in EntryType, e.kind = "start", Append1(t, e)
  PROVE  Running(t)'
<1>1. LogType' /\ Len(log[t]) \in Nat
  BY LogAppend
<1>2. /\ Marks(t, {"start"})' = Marks(t, {"start"}) \cup {Len(log[t]) + 1}
      /\ Marks(t, Lifecycle)' = Marks(t, Lifecycle) \cup {Len(log[t]) + 1}
      /\ Marks(t, {"summary"})' = Marks(t, {"summary"})
  BY MarksAppend DEF Lifecycle
<1>3. LastLaw' /\ StatusLaw'
  BY <1>1, LawsNext
<1>4. LastStart(t)' # 0
  BY <1>2, <1>3 DEF LastLaw, LastStart
<1>5. Len(log[t]) + 1 <= LastMark(t, Lifecycle)'
  BY <1>2, <1>3 DEF LastLaw, Lifecycle
<1>6. LastMark(t, Lifecycle)' \notin Marks(t, {"summary"})
  <2>1. Marks(t, {"summary"}) \subseteq 1 .. Len(log[t])
    BY LastMarkIsLast
  <2> QED BY <1>1, <1>5, <2>1
<1> QED BY <1>2, <1>3, <1>4, <1>6 DEF StatusLaw

LEMMA CleanupRecorded ==
  ASSUME LogType, NEW t \in Tasks, NEW e \in EntryType, e.kind = "cleanup", Append1(t, e)
  PROVE  CleanupStatus(t)' = e.status
<1> DEFINE n == Len(log[t])
<1>1. LogType' /\ n \in Nat /\ log'[t][n + 1] = e
  BY LogAppend
<1>2. Marks(t, {"cleanup"})' = Marks(t, {"cleanup"}) \cup {n + 1}
  BY MarksAppend
<1>3. Marks(t, {"cleanup"}) \subseteq 1 .. n
  BY LastMarkIsLast
<1>4. LastLaw'
  BY <1>1, LawsNext
<1>5. LastMark(t, {"cleanup"})' \in Marks(t, {"cleanup"})' /\ n + 1 <= LastMark(t, {"cleanup"})'
  BY <1>2, <1>4 DEF LastLaw
<1>6. LastMark(t, {"cleanup"})' = n + 1
  <2> HIDE DEF n
  <2> QED BY <1>1, <1>2, <1>3, <1>5
<1> QED BY <1>1, <1>6 DEF CleanupStatus

LEMMA CleanupGone ==
  ASSUME LogType, NEW t \in Tasks, CleanupStatus(t) \in GoneMarks
  PROVE  Gone(t)
<1>1. LastMark(t, {"cleanup"}) # 0
  BY DEF CleanupStatus, GoneMarks
<1>2. LastMark(t, {"cleanup"}) \in Marks(t, {"cleanup"})
  BY <1>1, LastMarkIsLast
<1> QED BY <1>1, <1>2 DEF CleanupStatus, Gone

\* Only a start makes a transcript own a worktree.
LEMMA NoStartNotOwned ==
  ASSUME LogType, NEW t \in Tasks, Marks(t, {"start"}) = {}, NEW k \in DOMAIN log[t]
  PROVE  ~log[t][k].owned
<1>1. log[t][k] \in EntryType /\ log[t][k].kind # "start"
  BY DEF LogType, Marks
<1> QED BY <1>1 DEF EntryType

\* The first start: whatever was loaded or written before it was its own.
LEMMA AppendStartStep ==
  ASSUME Types, NEW t \in Tasks, NEW a \in Actors, Worktree(t), Task(a) = t, AppendStart(a)
  PROVE  Worktree(t)'
<1>1. op \in [Actors -> OpType] /\ op[a] \in OpType /\ OpShape(op[a])
  BY DEF Types, OpTyped
<1>2. op[a].pc = "append" /\ UNCHANGED <<meta, tree>> /\ Step(a)
  BY DEF AppendStart, Step
<1>3. /\ faults' = 0 => faults = 0 /\ ~Fault
      /\ \A b \in Actors : b # a => op'[b] = op[b]
  BY <1>2, FaultsStay
<1>4. CASE Fault
  BY <1>3, <1>4 DEF Worktree, Before, Once
<1>5. CASE Go(a, "prompt") /\ Append1(t, Entry("start", "running", op[a].owned))
  <2>1. /\ op'[a].task = t /\ op'[a].start = op[a].start /\ op'[a].snap = op[a].snap
        /\ op'[a].owned = op[a].owned /\ op'[a].pc = "prompt"
    BY <1>1, <1>5 DEF Go, OpType, Task
  <2>2. op[a].start = 0 /\ op[a].snap = "none" /\ op[a].owned \in BOOLEAN
    BY <1>1, <1>2 DEF OpShape, OpType, LoopPoints, EndPoints, CleanPoints
  <2>3. PICK e \in EntryType : e = Entry("start", "running", op[a].owned)
    BY EntriesTyped DEF Types
  <2>4. Append1(t, e) /\ e.kind = "start" /\ e.owned = op[a].owned
    BY <1>5, <2>3 DEF Entry
  <2>5. /\ Marks(t, {"start"})' = Marks(t, {"start"}) \cup {Len(log[t]) + 1}
        /\ Marks(t, {"cleanup"})' = Marks(t, {"cleanup"})
    BY <2>4, MarksAppend DEF Types
  <2>6. /\ Len(log[t]) \in Nat /\ DOMAIN log[t] = 1 .. Len(log[t])
        /\ DOMAIN log'[t] = 1 .. (Len(log[t]) + 1)
        /\ \A k \in DOMAIN log[t] : log'[t][k] = log[t][k]
        /\ log'[t][Len(log[t]) + 1] = e
    BY <2>4, LogAppend DEF Types
  <2>7. ~Before(t)'
    BY <2>5 DEF Before
  <2>8. ASSUME Once(t)' PROVE StartedOnce(t)'
    <3>1. Marks(t, {"start"}) = {}
      <4>1. Marks(t, {"start"}) \subseteq 1 .. Len(log[t])
        BY LastMarkIsLast DEF Types
      <4>2. Len(log[t]) + 1 \notin Marks(t, {"start"})
        BY <2>6, <4>1
      <4>3. PICK m : Marks(t, {"start"})' = {m}
        BY <2>8 DEF Once
      <4> QED BY <2>5, <4>2, <4>3
    <3>2. NotStarted(t)
      BY <1>3, <2>8, <3>1 DEF Once, Before, Worktree
    <3>3. \A b \in Actors : At(b, t, {"metadata", "append"}) => b = a
      BY <1>3, <2>8 DEF Once, At, Task
    <3>4. meta[t] # "none"
      BY <1>2, <3>2 DEF NotStarted, MetaFirst, At
    <3>5. \A c \in Actors, w \in BOOLEAN : Wrote(c, t, w) => (op[a].owned <=> w)
      BY <3>3 DEF Wrote, At
    <3>6. op[a].owned <=> meta[t] = "managed"
      BY <3>2, <3>4, <3>5 DEF NotStarted, MetaClaimed
    <3>7. OwnedByMeta(t)'
      <4>1. \A k \in DOMAIN log[t] : ~log'[t][k].owned
        BY <2>6, <3>1, NoStartNotOwned DEF Types
      <4>2. (\E k \in DOMAIN log'[t] : log'[t][k].owned) => op[a].owned
        BY <2>4, <2>6, <4>1
      <4> QED BY <1>2, <3>6, <4>2 DEF OwnedByMeta, Owned
    <3>8. KnowMeta(t)'
      <4> SUFFICES ASSUME NEW b \in Actors, Knows(b, t)'
                   PROVE  /\ op'[b].owned <=> meta[t] = "managed"
                          /\ op'[b].managed <=> meta[t] = "managed"
        BY <1>2 DEF KnowMeta
      <4>1. b # a /\ Knows(b, t) /\ op'[b] = op[b]
        BY <1>3, <2>1, <2>2 DEF Knows, Task, CleanPoints
      <4>2. op[b].owned \in BOOLEAN
        BY DEF Types, OpTyped, OpType
      <4>3. (op[b].owned <=> op[b].managed) /\ \E c \in Actors : Wrote(c, t, op[b].owned)
        BY <3>2, <4>1 DEF NotStarted, LoadsClaimed
      <4> QED BY <3>5, <3>6, <4>1, <4>2, <4>3
    <3>9. Gone(t)' => Gone(t)
      <4>1. \A k \in Marks(t, {"cleanup"}) : log'[t][k] = log[t][k]
        BY <2>6 DEF Marks
      <4> QED BY <1>3, <2>1, <2>2, <2>5, <4>1 DEF Gone, GoneMarks, Task
    <3>10. OriginalKept(t)'
      <4> SUFFICES ASSUME Original(t)'
                   PROVE  meta[t] = "managed" /\ ~Gone(t) /\ Running(t)'
        BY <1>2, <3>9 DEF OriginalKept
      <4>1. t \in tree /\ \A b \in Actors : b # a => ~Claims(b, t)
        BY <1>2, <1>3, <3>3 DEF Original, Claims, At, Task
      <4>2. Claims(a, t)
        BY <3>2, <4>1 DEF NotStarted, TreeClaimed
      <4>3. meta[t] = "managed"
        BY <3>6, <4>2 DEF Claims
      <4>4. ~Gone(t)
        <5> SUFFICES ASSUME Gone(t) PROVE FALSE
          OBVIOUS
        <5>1. PICK b, c \in Actors : b # c /\ At(c, t, {"append"}) /\ Claims(b, t)
          BY <3>2, <4>1 DEF NotStarted, GoneClaimed
        <5>2. c = a
          BY <3>3, <5>1 DEF At
        <5> QED BY <4>1, <5>1, <5>2
      <4>5. Running(t)'
        BY <2>4, StartRuns DEF Types
      <4> QED BY <4>3, <4>4, <4>5
    <3> QED BY <3>7, <3>8, <3>10 DEF StartedOnce
  <2> QED BY <2>7, <2>8 DEF Worktree
<1> QED BY <1>4, <1>5 DEF AppendStart

\* A start that is given up takes its worktree away, or had none.
LEMMA AbandonStep ==
  ASSUME Types, NEW t \in Tasks, NEW a \in Actors, Worktree(t), Task(a) = t, AbandonStart(a)
  PROVE  Worktree(t)'
<1>1. op \in [Actors -> OpType] /\ op[a] \in OpType /\ OpShape(op[a])
  BY DEF Types, OpTyped
<1>2. op[a].pc = "abandon" /\ UNCHANGED <<log, meta>> /\ Step(a) /\ op' = [op EXCEPT ![a] = Idle]
  BY DEF AbandonStart, Step, Return
<1>3. /\ faults' = 0 => faults = 0 /\ ~Fault
      /\ \A b \in Actors : b # a => op'[b] = op[b]
  BY <1>2, FaultsStay
<1>4. CASE Fault
  BY <1>3, <1>4 DEF Worktree, Before, Once
<1>5. CASE ~Fault
  <2>1. op'[a].task # t
    BY <1>1, <1>2, NoTaskAssumption DEF Idle
  <2>2. (op[a].owned => t \notin tree') /\ (~op[a].owned => UNCHANGED tree)
    BY <1>5 DEF AbandonStart
  <2>3. t \in tree' => t \in tree /\ ~op[a].owned
    BY <2>2
  <2>4. /\ \A kinds : Marks(t, kinds)' = Marks(t, kinds)
        /\ Running(t)' <=> Running(t)
        /\ CleanupStatus(t)' = CleanupStatus(t)
        /\ Owned(t)' <=> Owned(t)
    BY <1>2, SameLog
  <2>5. Gone(t)' => Gone(t)
    BY <1>2, <1>3, <2>1, <2>4 DEF Gone, Task
  <2>6. \A b \in Actors : Claims(b, t) => Claims(b, t)'
    BY <1>2, <1>3 DEF Claims, At, Task
  <2>7. \A c \in Actors : At(c, t, {"append"}) => At(c, t, {"append"})'
    BY <1>2, <1>3 DEF At, Task
  <2>8. ASSUME Before(t)' PROVE NotStarted(t)'
    <3>1. NotStarted(t)
      BY <1>3, <2>4, <2>8 DEF Before, Worktree
    <3>2. TreeClaimed(t)'
      BY <2>3, <2>6, <3>1 DEF NotStarted, TreeClaimed
    <3>3. MetaClaimed(t)'
      BY <1>2, <1>3, <3>1 DEF NotStarted, MetaClaimed, Wrote, At, Task
    <3>4. MetaFirst(t)'
      BY <1>2, <1>3, <2>1, <2>5, <3>1 DEF NotStarted, MetaFirst, At, Task
    <3>5. LoadsClaimed(t)'
      BY <1>2, <1>3, <2>1, <3>1 DEF NotStarted, LoadsClaimed, Knows, Wrote, At, Task
    <3>6. GoneClaimed(t)'
      BY <2>3, <2>5, <2>6, <2>7, <3>1 DEF NotStarted, GoneClaimed
    <3> QED BY <3>2, <3>3, <3>4, <3>5, <3>6 DEF NotStarted
  <2>9. ASSUME Once(t)' PROVE StartedOnce(t)'
    <3>1. ~At(a, t, {"metadata", "append"})
      BY <1>2 DEF At
    <3>2. StartedOnce(t)
      BY <1>3, <2>4, <2>9, <3>1, OnceBefore
    <3>3. OwnedByMeta(t)'
      BY <1>2, <2>4, <3>2 DEF StartedOnce, OwnedByMeta
    <3>4. KnowMeta(t)'
      BY <1>2, <1>3, <2>1, <3>2 DEF StartedOnce, KnowMeta, Knows, Task
    <3>5. Original(t)' => Original(t)
      BY <1>3, <2>3 DEF Original, At, Task
    <3>6. OriginalKept(t)'
      BY <1>2, <1>3, <2>4, <2>5, <3>2, <3>5 DEF StartedOnce, OriginalKept, At, Task, CleanPoints
    <3> QED BY <3>3, <3>4, <3>6 DEF StartedOnce
  <2> QED BY <2>8, <2>9 DEF Worktree
<1> QED BY <1>4, <1>5

\* A load finds what the metadata and the transcript say of the worktree.
LEMMA LoadedStep ==
  ASSUME Types, NEW t \in Tasks, NEW a \in Actors, Worktree(t), Task(a) = t, Step(a),
         UNCHANGED <<log, meta, tree>>,
         NEW pc \in {"send", "cleanup"}, NEW start \in Nat, Loaded(a, pc, start),
         op[a].pc \in {"load", "begin", "reload"}, op[a].pc = "reload" => pc = "cleanup",
         Marks(t, {"start"}) # {} \/ Found(t)
  PROVE  Worktree(t)'
<1>1. op \in [Actors -> OpType] /\ op[a] \in OpType
  BY DEF Types, OpTyped
<1>2. /\ faults' = 0 => faults = 0 /\ ~Fault
      /\ \A b \in Actors : b # a => op'[b] = op[b]
  BY FaultsStay
<1>3. /\ op'[a].task = t /\ op'[a].pc = pc /\ op'[a].snap = CleanupStatus(t)
      /\ op'[a].owned = Owned(t) /\ op'[a].managed = (meta[t] = "managed")
  BY <1>1 DEF Loaded, OpType, Task
<1>4. /\ \A kinds : Marks(t, kinds)' = Marks(t, kinds)
      /\ Running(t)' <=> Running(t)
      /\ CleanupStatus(t)' = CleanupStatus(t)
      /\ Owned(t)' <=> Owned(t)
  BY SameLog
<1>5. op'[a].snap \in GoneMarks => Gone(t)
  BY <1>3, CleanupGone DEF Types
<1>6. Gone(t)' => Gone(t)
  <2>1. \A b \in Actors : b # a /\ op'[b].task = t /\ op'[b].snap \in GoneMarks => Gone(t)
    BY <1>2 DEF Gone, Task
  <2>2. \A k \in Marks(t, {"cleanup"}) : log[t][k].status \in GoneMarks => Gone(t)
    BY DEF Gone
  <2>3. Gone(t)' => \/ \E k \in Marks(t, {"cleanup"}) : log[t][k].status \in GoneMarks
                    \/ \E b \in Actors : op'[b].task = t /\ op'[b].snap \in GoneMarks
    BY <1>4 DEF Gone, Task
  <2> QED BY <1>5, <2>1, <2>2, <2>3
<1>7. ASSUME Before(t)' PROVE NotStarted(t)'
  <2>1. NotStarted(t) /\ Marks(t, {"start"}) = {}
    BY <1>2, <1>4, <1>7 DEF Before, Worktree
  <2>2. meta[t] # "none"
    BY <2>1 DEF Found, NotStarted, MetaFirst
  <2>3. Owned(t) <=> meta[t] = "managed"
    BY <2>1, NoStartNotOwned DEF Owned, Types
  <2>4. \A b \in Actors : Claims(b, t) => Claims(b, t)'
    BY <1>2 DEF Claims, At, Task
  <2>5. \A c \in Actors : At(c, t, {"append"}) => At(c, t, {"append"})'
    BY <1>2 DEF At, Task
  <2>6. TreeClaimed(t)'
    BY <2>1, <2>4 DEF NotStarted, TreeClaimed
  <2>7. MetaClaimed(t)'
    BY <1>2, <2>1 DEF NotStarted, MetaClaimed, Wrote, At, Task
  <2>8. MetaFirst(t)'
    BY <2>2 DEF MetaFirst
  <2>9. LoadsClaimed(t)'
    <3>1. PICK c \in Actors : Wrote(c, t, meta[t] = "managed")
      BY <2>1, <2>2 DEF NotStarted, MetaClaimed
    <3>2. c # a
      BY <3>1 DEF Wrote, At
    <3>3. At(c, t, {"append"})' /\ (op'[c].owned <=> meta[t] = "managed")
      BY <1>2, <3>1, <3>2 DEF Wrote, At, Task
    <3>4. ASSUME NEW b \in Actors, b # a, Knows(b, t)'
          PROVE  /\ op'[b].owned <=> op'[b].managed
                 /\ \E d \in Actors : At(d, t, {"append"})' /\ (op'[d].owned <=> op'[b].owned)
      BY <1>2, <2>1, <3>4 DEF NotStarted, LoadsClaimed, Knows, Wrote, At, Task
    <3>5. /\ op'[a].owned <=> op'[a].managed
          /\ \E d \in Actors : At(d, t, {"append"})' /\ (op'[d].owned <=> op'[a].owned)
      BY <1>3, <2>3, <3>3, Zenon
    <3> QED BY <3>4, <3>5 DEF LoadsClaimed, Wrote
  <2>10. GoneClaimed(t)'
    BY <1>6, <2>1, <2>4, <2>5 DEF NotStarted, GoneClaimed
  <2> QED BY <2>6, <2>7, <2>8, <2>9, <2>10 DEF NotStarted
<1>8. ASSUME Once(t)' PROVE StartedOnce(t)'
  <2>1. ~At(a, t, {"metadata", "append"})
    BY DEF At
  <2>2. StartedOnce(t)
    BY <1>2, <1>4, <1>8, <2>1, OnceBefore
  <2>3. OwnedByMeta(t)'
    BY <1>4, <2>2 DEF StartedOnce, OwnedByMeta
  <2>4. KnowMeta(t)'
    <3>1. /\ op'[a].owned <=> meta[t] = "managed"
          /\ op'[a].managed <=> meta[t] = "managed"
      BY <1>3, <2>2, Zenon DEF StartedOnce, OwnedByMeta
    <3> QED BY <1>2, <2>2, <3>1 DEF StartedOnce, KnowMeta, Knows, Task
  <2>5. Original(t)' => Original(t)
    BY <1>2 DEF Original, At, Task
  <2>6. OriginalKept(t)'
    BY <1>2, <1>3, <1>4, <1>6, <2>2, <2>5 DEF StartedOnce, OriginalKept, At, Task, CleanPoints
  <2> QED BY <2>3, <2>4, <2>6 DEF StartedOnce
<1> QED BY <1>7, <1>8 DEF Worktree

LEMMA LoadingSteps ==
  ASSUME Types, RunsBegan, EndsBegan, NEW t \in Tasks, NEW a \in Actors, Worktree(t), Task(a) = t,
         LoadTask(a) \/ KillTask(a) \/ ReloadKilled(a)
  PROVE  Worktree(t)'
<1>1. op \in [Actors -> OpType] /\ op[a] \in OpType
  BY DEF Types, OpTyped
<1>2. Step(a) /\ UNCHANGED <<log, meta, tree>>
  BY DEF LoadTask, KillTask, ReloadKilled, Step
<1>3. Running(t) => Marks(t, {"start"}) # {} /\ LastStart(t) \in Nat
  BY StatusLast, LastMarkIsLast DEF Types, LastStart
<1>4. CASE Return(a) /\ op[a].pc \notin Watched
  BY <1>1, <1>2, <1>4, UnmovedStep DEF Return, Unmoved
<1>5. CASE LoadTask(a)
  <2>1. CASE Running(Task(a)) /\ Loaded(a, "send", LastStart(Task(a)))
    BY <1>2, <1>3, <1>5, <2>1, LoadedStep DEF LoadTask
  <2> QED BY <1>4, <1>5, <2>1 DEF LoadTask, Watched
<1>6. CASE KillTask(a)
  <2>1. CASE op' = [op EXCEPT ![a].pc = "finish", ![a].status = "cancelled"]
    <3>1. Unmoved(a)
      BY <1>1, <2>1 DEF Unmoved, OpType, CleanPoints
    <3> QED BY <1>2, <1>6, <3>1, UnmovedStep DEF KillTask, Watched
  <2>2. CASE Found(Task(a)) /\ Loaded(a, "cleanup", 0)
    BY <1>2, <1>6, <2>2, LoadedStep DEF KillTask
  <2> QED BY <1>4, <1>6, <2>1, <2>2 DEF KillTask, Watched
<1>7. CASE ReloadKilled(a)
  <2>1. Marks(t, {"start"}) # {}
    BY <1>7 DEF ReloadKilled, EndsBegan
  <2> QED BY <1>2, <1>7, <2>1, LoadedStep DEF ReloadKilled
<1> QED BY <1>5, <1>6, <1>7

\* Ending a task that was started: whoever ends it is on the way to the cleanup.
LEMMA EndingSteps ==
  ASSUME Types, EndsBegan, NEW t \in Tasks, NEW a \in Actors, Worktree(t), Task(a) = t,
         AppendSummary(a) \/ AppendMain(a)
  PROVE  Worktree(t)'
<1>1. op \in [Actors -> OpType] /\ op[a] \in OpType /\ OpShape(op[a])
  BY DEF Types, OpTyped
<1>2. op[a].pc \in {"summary", "main"} /\ UNCHANGED <<meta, tree>> /\ Step(a)
  BY DEF AppendSummary, AppendMain, Step
<1>3. /\ faults' = 0 => faults = 0 /\ ~Fault
      /\ \A b \in Actors : b # a => op'[b] = op[b]
  BY <1>2, FaultsStay
<1>4. CASE Fault
  BY <1>3, <1>4 DEF Worktree, Before, Once
<1>5. CASE ~Fault
  <2> DEFINE next == IF op[a].pc = "summary" THEN "main"
                     ELSE IF op[a].kind = "KillTask" THEN "reload" ELSE "cleanup"
  <2>1. Go(a, next)
    BY <1>5 DEF AppendSummary, AppendMain
  <2>2. /\ op'[a].task = t /\ op'[a].start = op[a].start /\ op'[a].snap = op[a].snap
        /\ op'[a].owned = op[a].owned /\ op'[a].managed = op[a].managed /\ op'[a].pc = next
    BY <1>1, <2>1 DEF Go, OpType, Task
  <2>3. next \in {"main", "reload", "cleanup"} /\ (next = "cleanup" => op[a].start # 0)
    BY <1>1, <1>2 DEF OpShape, EndPoints
  <2> HIDE DEF next
  <2>4. /\ Marks(t, {"start"})' = Marks(t, {"start"}) /\ Marks(t, {"cleanup"})' = Marks(t, {"cleanup"})
        /\ \A k \in DOMAIN log[t] : log'[t][k] = log[t][k]
        /\ \A k \in DOMAIN log'[t] : k \in DOMAIN log[t] \/ ~log'[t][k].owned
        /\ DOMAIN log[t] \subseteq DOMAIN log'[t]
    <3>1. CASE UNCHANGED log
      BY <3>1 DEF Marks
    <3>2. CASE AppendSummary(a)
      <4>1. Append1(t, Entry("summary", op[a].status, FALSE))
        BY <1>5, <3>2 DEF AppendSummary
      <4>2. PICK e \in EntryType : e = Entry("summary", op[a].status, FALSE)
        BY EntriesTyped DEF Types
      <4>3. Append1(t, e) /\ e.kind = "summary" /\ e.owned = FALSE
        BY <4>1, <4>2 DEF Entry
      <4>4. Marks(t, {"start"})' = Marks(t, {"start"}) /\ Marks(t, {"cleanup"})' = Marks(t, {"cleanup"})
        BY <4>3, MarksAppend DEF Types
      <4>5. /\ Len(log[t]) \in Nat /\ DOMAIN log[t] = 1 .. Len(log[t])
            /\ DOMAIN log'[t] = 1 .. (Len(log[t]) + 1)
            /\ \A k \in DOMAIN log[t] : log'[t][k] = log[t][k]
            /\ log'[t][Len(log[t]) + 1] = e
        BY <4>3, LogAppend DEF Types
      <4> QED BY <4>3, <4>4, <4>5
    <3>3. CASE AppendMain(a)
      BY <3>1, <3>3 DEF AppendMain
    <3> QED BY <3>2, <3>3
  <2>5. ~Before(t)'
    BY <1>2, <2>4 DEF Before, EndsBegan, EndPoints
  <2>6. Gone(t)' => Gone(t)
    <3>1. \A k \in Marks(t, {"cleanup"}) : log'[t][k] = log[t][k]
      BY <2>4 DEF Marks
    <3> QED BY <1>3, <2>2, <2>4, <3>1 DEF Gone, Task
  <2>7. ASSUME Once(t)' PROVE StartedOnce(t)'
    <3>1. ~At(a, t, {"metadata", "append"})
      BY <1>2 DEF At
    <3>2. StartedOnce(t)
      BY <1>3, <2>4, <2>7, <3>1, OnceBefore
    <3>3. OwnedByMeta(t)'
      <4>1. (\E k \in DOMAIN log'[t] : log'[t][k].owned) <=> (\E k \in DOMAIN log[t] : log[t][k].owned)
        BY <2>4
      <4> QED BY <1>2, <3>2, <4>1 DEF StartedOnce, OwnedByMeta, Owned
    <3>4. KnowMeta(t)'
      <4>1. ASSUME NEW b \in Actors, Knows(b, t)' PROVE Knows(b, t) /\ op'[b].owned = op[b].owned
                                                        /\ op'[b].managed = op[b].managed
        BY <1>2, <1>3, <2>2, <2>3, <4>1 DEF Knows, Task, CleanPoints
      <4> QED BY <1>2, <3>2, <4>1 DEF StartedOnce, KnowMeta
    <3>5. Original(t)' => Original(t)
      BY <1>2, <1>3 DEF Original, At, Task
    <3>6. At(a, t, {"main", "reload"} \cup CleanPoints)'
      BY <2>2, <2>3 DEF At, Task, CleanPoints
    <3>7. OriginalKept(t)'
      BY <1>2, <2>6, <3>2, <3>5, <3>6 DEF StartedOnce, OriginalKept
    <3> QED BY <3>3, <3>4, <3>7 DEF StartedOnce
  <2> QED BY <2>5, <2>7 DEF Worktree
<1> QED BY <1>4, <1>5

\* Of a worktree that is there, a cleanup removes it or fails.
LEMMA CleanupStep ==
  ASSUME Types, NEW t \in Tasks, NEW a \in Actors, Worktree(t), Task(a) = t, Cleanup(a)
  PROVE  Worktree(t)'
<1>1. op \in [Actors -> OpType] /\ op[a] \in OpType /\ OpShape(op[a])
  BY DEF Types, OpTyped
<1>2. op[a].pc = "cleanup" /\ UNCHANGED <<log, meta>> /\ Step(a)
  BY DEF Cleanup, Step
<1>3. /\ faults' = 0 => faults = 0 /\ ~Fault
      /\ \A b \in Actors : b # a => op'[b] = op[b]
  BY <1>2, FaultsStay
<1>4. /\ \A kinds : Marks(t, kinds)' = Marks(t, kinds)
      /\ Running(t)' <=> Running(t)
      /\ CleanupStatus(t)' = CleanupStatus(t)
      /\ Owned(t)' <=> Owned(t)
  BY <1>2, SameLog
<1>5. Knows(a, t) /\ ~At(a, t, {"metadata", "append", "start", "abandon"})
  BY <1>2 DEF Knows, At, CleanPoints
<1>6. tree' \subseteq tree /\ (op'[a] = Idle \/ (op'[a].task = t /\ op'[a].pc = "mark"))
  <2>1. \A cleanup : op' = [op EXCEPT ![a].pc = "mark", ![a].snap = cleanup]
                       => op'[a].task = op[a].task /\ op'[a].pc = "mark"
    BY <1>1 DEF OpType
  <2>2. Return(a) => op'[a] = Idle
    BY <1>1 DEF Return
  <2>3. CASE Return(a) /\ UNCHANGED tree
    <3>1. tree' \subseteq tree
      BY <2>3
    <3>2. op'[a] = Idle
      BY <2>2, <2>3, Zenon
    <3> QED BY <3>1, <3>2, Zenon
  <2>4. ASSUME NEW cleanup \in Cleanups,
               tree' = IF cleanup = "removed" THEN tree \ {Task(a)} ELSE tree,
               op' = [op EXCEPT ![a].pc = "mark", ![a].snap = cleanup]
        PROVE  tree' \subseteq tree /\ op'[a].task = t /\ op'[a].pc = "mark"
    <3>1. op'[a].task = op[a].task /\ op'[a].pc = "mark"
      BY <2>1, <2>4
    <3> QED BY <2>4, <3>1 DEF Task
  <2> QED BY <2>3, <2>4 DEF Cleanup
<1>7. op'[a] = Idle => op'[a].task # t
  BY NoTaskAssumption DEF Idle
<1>8. op'[a].task = t =>
        /\ op'[a].owned = op[a].owned /\ op'[a].managed = op[a].managed
        /\ \/ op'[a].snap = "failed"
           \/ op'[a].snap \in {"removed", "missing"} /\ t \notin tree'
           \/ op[a].owned /\ ~op[a].managed
  <2>1. ASSUME op'[a].task = t
        PROVE  \E cleanup \in Cleanups :
                 /\ op[a].owned
                 /\ cleanup = "skipped" => ~op[a].managed
                 /\ cleanup = "missing" => op[a].managed /\ t \notin tree
                 /\ cleanup = "removed" => op[a].managed /\ t \in tree
                 /\ tree' = IF cleanup = "removed" THEN tree \ {t} ELSE tree
                 /\ op' = [op EXCEPT ![a].pc = "mark", ![a].snap = cleanup]
    <3>1. ~Return(a)
      BY <1>1, <1>7, <2>1 DEF Return
    <3> QED BY <3>1 DEF Cleanup, taskShouldCleanupOwnedWorktree
  <2>2. \A cleanup : op' = [op EXCEPT ![a].pc = "mark", ![a].snap = cleanup] =>
          op'[a].owned = op[a].owned /\ op'[a].managed = op[a].managed /\ op'[a].snap = cleanup
    BY <1>1 DEF OpType
  <2> QED BY <2>1, <2>2 DEF Cleanups
<1>9. ASSUME Before(t)' PROVE NotStarted(t)'
  <2>1. NotStarted(t)
    BY <1>3, <1>4, <1>9 DEF Before, Worktree
  <2>2. meta[t] # "none" /\ (op[a].owned <=> op[a].managed)
    BY <1>2, <1>5, <2>1 DEF NotStarted, MetaFirst, LoadsClaimed, At, CleanPoints
  <2>3. \A b \in Actors : Claims(b, t) => Claims(b, t)'
    BY <1>2, <1>3 DEF Claims, At, Task
  <2>4. \A c \in Actors : At(c, t, {"append"}) => At(c, t, {"append"})'
    BY <1>2, <1>3 DEF At, Task
  <2>5. TreeClaimed(t)'
    BY <1>6, <2>1, <2>3 DEF NotStarted, TreeClaimed
  <2>6. MetaClaimed(t)'
    BY <1>2, <1>3, <2>1 DEF NotStarted, MetaClaimed, Wrote, At, Task
  <2>7. MetaFirst(t)'
    BY <1>2, <2>2 DEF MetaFirst
  <2>8. LoadsClaimed(t)'
    <3>1. ASSUME NEW b \in Actors, Knows(b, t)'
          PROVE  Knows(b, t) /\ op'[b].owned = op[b].owned /\ op'[b].managed = op[b].managed
      BY <1>3, <1>5, <1>7, <1>8, <3>1 DEF Knows, Task
    <3>2. \A c \in Actors, w \in BOOLEAN : Wrote(c, t, w) => Wrote(c, t, w)'
      BY <1>2, <1>3 DEF Wrote, At, Task
    <3>3. ASSUME NEW b \in Actors, Knows(b, t)'
          PROVE  /\ op'[b].owned <=> op'[b].managed
                 /\ \E c \in Actors : At(c, t, {"append"})' /\ (op'[c].owned <=> op'[b].owned)
      <4>1. (op[b].owned <=> op[b].managed) /\ \E c \in Actors : Wrote(c, t, op[b].owned)
        BY <2>1, <3>1, <3>3 DEF NotStarted, LoadsClaimed
      <4>2. PICK c \in Actors : At(c, t, {"append"}) /\ (op[c].owned <=> op[b].owned)
        BY <4>1 DEF Wrote
      <4>3. c # a
        BY <1>2, <4>2 DEF At
      <4> QED BY <1>3, <2>4, <3>1, <3>3, <4>1, <4>2, <4>3
    <3> QED BY <3>3 DEF LoadsClaimed, Wrote
  <2>9. GoneClaimed(t)'
    <3> SUFFICES ASSUME t \in tree', Gone(t)' PROVE Gone(t)
      BY <1>6, <2>1, <2>3, <2>4 DEF NotStarted, GoneClaimed
    <3>1. op'[a].task = t => op'[a].snap = "failed"
      BY <1>8, <2>2
    <3> QED BY <1>2, <1>3, <1>4, <3>1 DEF Gone, GoneMarks, Task
  <2> QED BY <2>5, <2>6, <2>7, <2>8, <2>9 DEF NotStarted
<1>10. ASSUME Once(t)' PROVE StartedOnce(t)'
  <2>1. StartedOnce(t)
    <3>1. ~At(a, t, {"metadata", "append"})
      BY <1>2 DEF At
    <3> QED BY <1>3, <1>4, <1>10, <3>1, OnceBefore
  <2>2. OwnedByMeta(t)'
    BY <1>2, <1>4, <2>1 DEF StartedOnce, OwnedByMeta
  <2>3. KnowMeta(t)'
    <3>1. ASSUME NEW b \in Actors, Knows(b, t)'
          PROVE  Knows(b, t) /\ op'[b].owned = op[b].owned /\ op'[b].managed = op[b].managed
      BY <1>3, <1>5, <1>7, <1>8, <3>1 DEF Knows, Task
    <3> QED BY <1>2, <2>1, <3>1 DEF StartedOnce, KnowMeta
  <2>4. OriginalKept(t)'
    <3> SUFFICES ASSUME Original(t)'
                 PROVE  meta[t] = "managed" /\ ~Gone(t)' /\ At(a, t, {"main", "reload"} \cup CleanPoints)'
      BY <1>2 DEF OriginalKept
    <3>1. Original(t) /\ t \in tree'
      BY <1>2, <1>3, <1>6 DEF Original, At, Task
    <3>2. meta[t] = "managed" /\ ~Gone(t) /\ op[a].owned /\ op[a].managed
      BY <1>5, <2>1, <3>1 DEF StartedOnce, OriginalKept, KnowMeta
    <3>3. op[a].snap \notin GoneMarks
      BY <3>2 DEF Gone
    <3>5. op'[a].task = t /\ op'[a].pc = "mark"
      <4>1. taskShouldCleanupOwnedWorktree(a)
        BY <3>2, <3>3 DEF taskShouldCleanupOwnedWorktree, GoneMarks
      <4>2. \E cleanup : op' = [op EXCEPT ![a].pc = "mark", ![a].snap = cleanup]
        BY <4>1 DEF Cleanup
      <4>3. op'[a].pc = "mark"
        BY <1>1, <4>2 DEF OpType
      <4> QED BY <1>6, <4>3 DEF Idle
    <3>6. op'[a].snap = "failed"
      BY <1>8, <3>1, <3>2, <3>5
    <3>7. ~Gone(t)'
      BY <1>2, <1>3, <1>4, <3>2, <3>6 DEF Gone, GoneMarks, Task
    <3> QED BY <3>2, <3>5, <3>7 DEF At, Task, CleanPoints
  <2> QED BY <2>2, <2>3, <2>4 DEF StartedOnce
<1> QED BY <1>9, <1>10 DEF Worktree

\* What a cleanup found becomes the task's own record of its worktree.
LEMMA MarkStep ==
  ASSUME Types, NEW t \in Tasks, NEW a \in Actors, Worktree(t), Task(a) = t, MarkWorktreeCleanup(a)
  PROVE  Worktree(t)'
<1>1. op \in [Actors -> OpType] /\ op[a] \in OpType /\ OpShape(op[a])
  BY DEF Types, OpTyped
<1>2. /\ op[a].pc = "mark" /\ UNCHANGED <<meta, tree>> /\ Step(a)
      /\ op' = [op EXCEPT ![a] = Idle] /\ op[a].snap \in Cleanups
  BY <1>1 DEF MarkWorktreeCleanup, Step, Return, OpShape
<1>3. /\ faults' = 0 => faults = 0 /\ ~Fault
      /\ \A b \in Actors : b # a => op'[b] = op[b]
  BY <1>2, FaultsStay
<1>4. CASE Fault
  BY <1>3, <1>4 DEF Worktree, Before, Once
<1>5. CASE ~Fault
  <2>1. op'[a].task # t
    BY <1>1, <1>2, NoTaskAssumption DEF Idle
  <2>2. PICK e \in EntryType : e = Entry("cleanup", op[a].snap, FALSE)
    BY <1>2, EntriesTyped DEF Types
  <2>3. Append1(t, e) /\ e.kind = "cleanup" /\ e.owned = FALSE /\ e.status = op[a].snap
    BY <1>5, <2>2 DEF MarkWorktreeCleanup, Entry
  <2>4. /\ Marks(t, {"start"})' = Marks(t, {"start"})
        /\ Marks(t, {"cleanup"})' = Marks(t, {"cleanup"}) \cup {Len(log[t]) + 1}
    BY <2>3, MarksAppend DEF Types
  <2>5. /\ Len(log[t]) \in Nat /\ DOMAIN log[t] = 1 .. Len(log[t])
        /\ DOMAIN log'[t] = 1 .. (Len(log[t]) + 1)
        /\ \A k \in DOMAIN log[t] : log'[t][k] = log[t][k]
        /\ log'[t][Len(log[t]) + 1] = e
    BY <2>3, LogAppend DEF Types
  <2>6. Gone(t)' => Gone(t)
    <3>1. \A k \in Marks(t, {"cleanup"}) : log'[t][k] = log[t][k]
      BY <2>5 DEF Marks
    <3>2. op[a].snap \in GoneMarks => Gone(t)
      BY DEF Gone
    <3>3. \A k \in Marks(t, {"cleanup"})' : log'[t][k].status \in GoneMarks => Gone(t)
      BY <2>3, <2>4, <2>5, <3>1, <3>2 DEF Gone
    <3>4. \A b \in Actors : op'[b].task = t /\ op'[b].snap \in GoneMarks => Gone(t)
      BY <1>3, <2>1 DEF Gone, Task
    <3> QED BY <3>3, <3>4 DEF Gone, Task
  <2>7. ASSUME Before(t)' PROVE NotStarted(t)'
    <3>1. NotStarted(t)
      BY <1>3, <2>4, <2>7 DEF Before, Worktree
    <3>2. meta[t] # "none"
      BY <1>2, <3>1 DEF NotStarted, MetaFirst, At, CleanPoints
    <3>3. \A b \in Actors : Claims(b, t) => Claims(b, t)'
      BY <1>2, <1>3 DEF Claims, At, Task
    <3>4. \A c \in Actors : At(c, t, {"append"}) => At(c, t, {"append"})'
      BY <1>2, <1>3 DEF At, Task
    <3>5. TreeClaimed(t)'
      BY <1>2, <3>1, <3>3 DEF NotStarted, TreeClaimed
    <3>6. MetaClaimed(t)'
      BY <1>2, <1>3, <3>1 DEF NotStarted, MetaClaimed, Wrote, At, Task
    <3>7. MetaFirst(t)'
      BY <1>2, <3>2 DEF MetaFirst
    <3>8. LoadsClaimed(t)'
      BY <1>2, <1>3, <2>1, <3>1 DEF NotStarted, LoadsClaimed, Knows, Wrote, At, Task
    <3>9. GoneClaimed(t)'
      BY <1>2, <2>6, <3>1, <3>3, <3>4 DEF NotStarted, GoneClaimed
    <3> QED BY <3>5, <3>6, <3>7, <3>8, <3>9 DEF NotStarted
  <2>8. ASSUME Once(t)' PROVE StartedOnce(t)'
    <3>1. ~At(a, t, {"metadata", "append"})
      BY <1>2 DEF At
    <3>2. StartedOnce(t)
      BY <1>3, <2>4, <2>8, <3>1, OnceBefore
    <3>3. OwnedByMeta(t)'
      <4>1. (\E k \in DOMAIN log'[t] : log'[t][k].owned) <=> (\E k \in DOMAIN log[t] : log[t][k].owned)
        BY <2>3, <2>5
      <4> QED BY <1>2, <3>2, <4>1 DEF StartedOnce, OwnedByMeta, Owned
    <3>4. KnowMeta(t)'
      BY <1>2, <1>3, <2>1, <3>2 DEF StartedOnce, KnowMeta, Knows, Task
    <3>5. OriginalKept(t)'
      <4> SUFFICES ASSUME Original(t)'
                   PROVE  meta[t] = "managed" /\ ~Gone(t)' /\ CleanupStatus(t)' = "failed"
        BY <1>2 DEF OriginalKept
      <4>1. Original(t)
        BY <1>2, <1>3 DEF Original, At, Task
      <4>2. meta[t] = "managed" /\ ~Gone(t)
        BY <3>2, <4>1 DEF StartedOnce, OriginalKept
      <4>3. op[a].snap = "failed"
        BY <1>2, <4>2 DEF Gone, GoneMarks, Cleanups
      <4>4. CleanupStatus(t)' = "failed"
        BY <2>3, <4>3, CleanupRecorded DEF Types
      <4> QED BY <2>6, <4>2, <4>4
    <3> QED BY <3>3, <3>4, <3>5 DEF StartedOnce
  <2> QED BY <2>7, <2>8 DEF Worktree
<1> QED BY <1>4, <1>5

LEMMA WorktreesStep ==
  ASSUME Types, Types', RunsBegan, Worktrees, [Next]_vars
  PROVE  Worktrees'
<1>1. EndsBegan'
  BY EndsBeganStep DEF Worktrees
<1>2. ASSUME NEW t \in Tasks PROVE Worktree(t)'
  <2>1. Worktree(t) /\ EndsBegan /\ faults \in Nat
    BY SMTT(60) DEF Worktrees, Types
  <2>2. CASE UNCHANGED vars
    BY <2>1, <2>2 DEF vars, Worktree, Before, NotStarted, TreeClaimed, MetaClaimed, MetaFirst,
       LoadsClaimed, GoneClaimed, Once, StartedOnce, OwnedByMeta, KnowMeta, OriginalKept, Original,
       Claims, Wrote, Knows, At, Gone, Marks, Owned, Running, Status, CleanupStatus, LastMark, Task
  <2>3. ASSUME NEW a \in Actors, Die(a) PROVE Worktree(t)'
    BY <2>1, <2>3 DEF Die, Fault, Worktree, Before, Once
  <2>4. ASSUME NEW a \in Actors, Call(a) PROVE Worktree(t)'
    <3>1. op[a] = Idle
      BY <2>4 DEF Call, Types, OpTyped, OpShape
    <3>2. Task(a) # t
      BY <3>1, NoTaskAssumption DEF Idle, Task
    <3> QED BY <2>1, <2>4, <3>2, OtherTask
  <2>5. ASSUME NEW a \in Actors, Step(a) PROVE Worktree(t)'
    <3>1. CASE Task(a) # t
      BY <2>1, <2>5, <3>1, OtherTask
    <3>2. CASE Task(a) = t
      <4>1. CASE \/ ensureTaskCanStart(a) \/ Prompt(a) \/ SendRequest(a) \/ CheckAppend(a)
                 \/ AppendAnswer(a) \/ RunTools(a) \/ AppendResults(a) \/ CheckFinish(a)
                 \/ SendMessage(a) \/ CheckMessage(a) \/ AppendMessage(a)
        BY <2>1, <3>2, <4>1, QuietSteps
      <4>2. CASE prepareTaskWorktree(a) \/ Start(a) \/ WriteSidechainMetadata(a)
        BY <2>1, <3>2, <4>2, PrepareStep, StartStep, WriteMetaStep
      <4>3. CASE AppendStart(a) \/ AbandonStart(a)
        BY <2>1, <3>2, <4>3, AppendStartStep, AbandonStep
      <4>4. CASE LoadTask(a) \/ KillTask(a) \/ ReloadKilled(a)
        BY <2>1, <3>2, <4>4, LoadingSteps
      <4>5. CASE AppendSummary(a) \/ AppendMain(a)
        BY <2>1, <3>2, <4>5, EndingSteps
      <4>6. CASE Cleanup(a) \/ MarkWorktreeCleanup(a)
        BY <2>1, <3>2, <4>6, CleanupStep, MarkStep
      <4> QED BY <2>5, <4>1, <4>2, <4>3, <4>4, <4>5, <4>6 DEF Step
    <3> QED BY <3>1, <3>2
  <2> QED BY <2>2, <2>3, <2>4, <2>5 DEF Next
<1> QED BY <1>1, <1>2 DEF Worktrees

\* For any number of tasks and actors, and however their loads and appends meet: a
\* task whose subagent has returned has ended, and the worktree of a task that was
\* started once is gone when everybody is done with the task, or a failed removal
\* is on record.
THEOREM TasksSettle == Spec => []TaskSettles
<1> DEFINE Inv == Types /\ RunsBegan /\ LateStops /\ RunsEnd /\ Worktrees
<1>1. Init => Inv
  <2> SUFFICES ASSUME Init PROVE RunsBegan /\ LateStops /\ RunsEnd /\ Worktrees
    BY TypesInit
  <2>1. RunsBegan /\ LateStops /\ RunsEnd
    BY DEF Init, RunsBegan, LateStops, RunsEnd, Idle
  <2>2. \A a \in Actors : op[a] = Idle
    BY DEF Init
  <2>3. EndsBegan
    BY <2>2 DEF EndsBegan, EndPoints, Idle
  <2>4. ASSUME NEW t \in Tasks PROVE Worktree(t)
    <3>1. log[t] = <<>> /\ meta[t] = "none" /\ t \notin tree
      BY DEF Init
    <3>2. \A kinds : Marks(t, kinds) = {}
      BY <3>1 DEF Marks
    <3>3. \A a \in Actors : op[a].task # t
      BY <2>2, NoTaskAssumption DEF Idle
    <3>4. ~Gone(t)
      BY <3>2, <3>3 DEF Gone, Task
    <3>5. NotStarted(t)
      BY <3>1, <3>3, <3>4 DEF NotStarted, TreeClaimed, MetaClaimed, MetaFirst, LoadsClaimed,
         GoneClaimed, Knows, At, Task
    <3> QED BY <3>2, <3>5 DEF Worktree, Once
  <2> QED BY <2>1, <2>3, <2>4 DEF Worktrees
<1>2. Inv /\ [Next]_vars => Inv'
  BY TypesStep, LateStopsStep, RunsEndStep, WorktreesStep
<1>3. Inv => WorktreeFollowsTask
  <2> SUFFICES ASSUME Inv, NEW t \in Tasks, faults = 0, Cardinality(Marks(t, {"start"})) = 1,
                      Quiet(t), ~Running(t), t \in tree
               PROVE  CleanupStatus(t) = "failed"
    BY DEF WorktreeFollowsTask
  <2>1. IsFiniteSet(Marks(t, {"start"}))
    <3>1. Marks(t, {"start"}) \subseteq 1 .. Len(log[t]) /\ Len(log[t]) \in Nat
      BY LastMarkIsLast DEF Types, LogType
    <3>2. IsFiniteSet(1 .. Len(log[t]))
      BY <3>1, FS_Interval
    <3> QED BY <3>1, <3>2, FS_Subset
  <2>2. PICK m : Marks(t, {"start"}) = {m}
    BY <2>1, FS_Singleton
  <2>3. \A a \in Actors : \A points : ~At(a, t, points)
    BY DEF Quiet, At
  <2>4. Once(t)
    BY <2>2, <2>3 DEF Once
  <2>5. Original(t)
    BY <2>3 DEF Original
  <2> QED BY <2>3, <2>4, <2>5 DEF Worktrees, Worktree, StartedOnce, OriginalKept
<1>4. Inv => SettledAfterRun
  <2> SUFFICES ASSUME Inv, NEW t \in Tasks, faults = 0, <<t, LastStart(t)>> \in ended
               PROVE  ~Running(t)
    BY DEF SettledAfterRun
  <2>1. RunEnded(t, LastStart(t))
    BY DEF RunsEnd
  <2> QED BY <2>1, EndedNotRunning DEF Types
<1> QED BY <1>1, <1>2, <1>3, <1>4, PTL DEF Spec, TaskSettles
=============================================================================
