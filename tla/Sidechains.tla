----------------------------- MODULE Sidechains -----------------------------
(***************************************************************************)
(* Side chains: the tasks of a session (tools/task: Task, KillTask,         *)
(* SendMessage), the subagent that runs one (conversation/task_agent.go)   *)
(* and the managed worktree it may own.                                    *)
(*                                                                         *)
(* A task has no state but its transcript: every operation loads the file, *)
(* folds it into a status (LoadSidechainState), decides, and appends.      *)
(* Nothing is locked between the load and the append, and the operations   *)
(* meet: RunTools executes the next use of a message while the subagent of *)
(* the last one runs, and other processes may continue the session.  An    *)
(* actor is a goroutine that makes one call at a time.  The messages of a  *)
(* transcript decide nothing and are left out of log: an append of one is  *)
(* a step that may fail.                                                   *)
(***************************************************************************)
EXTENDS Integers, Sequences, FiniteSetsExt, TLC

CONSTANTS Tasks, Actors,
          MaxToolRounds,
          MaxCalls,    \* bound: calls of all actors
          MaxFaults    \* bound: deaths of an actor's process, reads and writes that fail

ASSUME SidechainsAssumption ==
  {MaxToolRounds, MaxCalls, MaxFaults} \subseteq Nat /\ IsFiniteSet(Actors)

VARIABLES
  log,     \* task -> the entries of its transcript that decide its state
  meta,    \* task -> the worktree its metadata file names
  main,    \* the summaries in the session's transcript
  tree,    \* the tasks whose managed worktree exists
  op,      \* the call each actor is in
  calls, faults,
  ended    \* history: the runs <<task, start>> whose subagent returned

vars == <<log, meta, main, tree, op, calls, faults, ended>>

Kinds == {"Task", "KillTask", "SendMessage"}
Ends  == {"completed", "failed", "cancelled"}
Cleanups == {"removed", "missing", "skipped", "failed"}

NoTask == ""
ASSUME NoTaskAssumption == NoTask \notin Tasks

\* status is that of the summary to write; snap, owned and managed are what the
\* state that was loaded says of the worktree; start is the run a subagent belongs
\* to and late the tool rounds it began after that run had ended.
Idle == [kind |-> "none", task |-> NoTask, pc |-> "idle", status |-> "completed",
         owned |-> FALSE, managed |-> FALSE, snap |-> "none", uses |-> FALSE,
         round |-> 0, start |-> 0, late |-> 0]

Init ==
  /\ log = [t \in Tasks |-> <<>>] /\ meta = [t \in Tasks |-> "none"] /\ main = <<>> /\ tree = {}
  /\ op = [a \in Actors |-> Idle]
  /\ calls = 0 /\ faults = 0 /\ ended = {}

-----------------------------------------------------------------------------
(* LoadSidechainState: what the transcript says of a task.                 *)

Entry(kind, status, owned) == [kind |-> kind, status |-> status, owned |-> owned]

\* The positions of the entries of some kinds; the last of them decides.
Marks(t, kinds) == {k \in DOMAIN log[t] : log[t][k].kind \in kinds}

LastMark(t, kinds) == IF Marks(t, kinds) = {} THEN 0 ELSE Max(Marks(t, kinds))

Status(t) == LET last == LastMark(t, {"start", "summary"})
             IN IF last = 0 THEN "unknown" ELSE log[t][last].status

Running(t) == Status(t) = "running"

\* The current run of a task is the one its last start began.
LastStart(t) == LastMark(t, {"start"})

\* The metadata or some start owned a worktree; its path is the metadata's.
Owned(t) == meta[t] = "managed" \/ \E k \in DOMAIN log[t] : log[t][k].owned

\* A later start does not take back what an earlier cleanup recorded.
CleanupStatus(t) == LET last == LastMark(t, {"cleanup"})
                    IN IF last = 0 THEN "none" ELSE log[t][last].status

\* The run that began with the given start has ended: a summary follows.
RunEnded(t, start) == \E k \in Marks(t, {"summary"}) : start < k

-----------------------------------------------------------------------------
Task(a) == op[a].task

Fault == faults < MaxFaults /\ faults' = faults + 1

Append1(t, e) == log' = [log EXCEPT ![t] = Append(@, e)]

Go(a, pc) == op' = [op EXCEPT ![a].pc = pc]

\* The call of a returns; a subagent that had been started is done.
Return(a) ==
  /\ op' = [op EXCEPT ![a] = Idle]
  /\ ended' = IF op[a].start = 0 THEN ended ELSE ended \cup {<<Task(a), op[a].start>>}

Call(a) ==
  /\ op[a].pc = "idle" /\ calls < MaxCalls
  /\ calls' = calls + 1
  /\ \E kind \in Kinds, t \in Tasks :
       op' = [op EXCEPT ![a] = [Idle EXCEPT !.kind = kind, !.task = t, !.pc = "begin"]]
  /\ UNCHANGED <<log, meta, main, tree, faults, ended>>

(* The Task tool.                                                          *)

ensureTaskCanStart(a) ==
  /\ op[a].pc = "begin" /\ op[a].kind = "Task"
  /\ IF Running(Task(a)) THEN Return(a) ELSE Go(a, "worktree") /\ UNCHANGED ended
  /\ UNCHANGED <<log, meta, main, tree, calls, faults>>

\* A worktree is made if one is asked for and its path is free; git may fail,
\* and fail again when what it made is to be taken back.
prepareTaskWorktree(a) ==
  /\ op[a].pc = "worktree"
  /\ \/ Go(a, "start") /\ UNCHANGED <<tree, faults, ended>>
     \/ /\ Task(a) \notin tree
        /\ tree' = tree \cup {Task(a)}
        /\ \/ op' = [op EXCEPT ![a].pc = "start", ![a].owned = TRUE] /\ UNCHANGED <<faults, ended>>
           \/ Fault /\ Return(a)
     \/ Return(a) /\ UNCHANGED <<tree, faults>>
  /\ UNCHANGED <<log, meta, main, calls>>

\* SidechainRuntime.Start looks again, writes the metadata and appends.
Start(a) ==
  /\ op[a].pc = "start"
  /\ Go(a, IF Running(Task(a)) THEN "abandon" ELSE "metadata")
  /\ UNCHANGED <<log, meta, main, tree, calls, faults, ended>>

WriteSidechainMetadata(a) ==
  /\ op[a].pc = "metadata"
  /\ \/ /\ meta' = [meta EXCEPT ![Task(a)] = IF op[a].owned THEN "managed" ELSE "session"]
        /\ Go(a, "append") /\ UNCHANGED faults
     \/ Fault /\ Go(a, "abandon") /\ UNCHANGED meta
  /\ UNCHANGED <<log, main, tree, calls, ended>>

AppendStart(a) ==
  /\ op[a].pc = "append"
  /\ \/ /\ Append1(Task(a), Entry("start", "running", op[a].owned))
        /\ Go(a, "prompt") /\ UNCHANGED faults
     \/ Fault /\ Go(a, "abandon") /\ UNCHANGED log
  /\ UNCHANGED <<meta, main, tree, calls, ended>>

\* A start that fails takes its worktree away again, if git lets it.
AbandonStart(a) ==
  /\ op[a].pc = "abandon"
  /\ \/ tree' = (IF op[a].owned THEN tree \ {Task(a)} ELSE tree) /\ UNCHANGED faults
     \/ op[a].owned /\ Fault /\ UNCHANGED tree
  /\ Return(a)
  /\ UNCHANGED <<log, meta, main, calls>>

\* The prompt of the agent and that of the task follow without another look.
\* The call asks for the subagent to be run, or leaves the task to others.
Prompt(a) ==
  /\ op[a].pc = "prompt"
  /\ \/ Go(a, "load") /\ UNCHANGED <<faults, ended>>
     \/ Return(a) /\ UNCHANGED faults
     \/ Fault /\ Return(a)
  /\ UNCHANGED <<log, meta, main, tree, calls>>

-----------------------------------------------------------------------------
(* runTaskSubagentOnce.                                                    *)

\* What a load finds of the worktree is kept for the cleanup.
Loaded(a, pc, start) ==
  op' = [op EXCEPT ![a] = [@ EXCEPT !.pc = pc, !.start = start, !.snap = CleanupStatus(Task(a)),
                                    !.owned = Owned(Task(a)), !.managed = (meta[Task(a)] = "managed")]]

\* A file that cannot be read ends the call and leaves the task running.
LoadTask(a) ==
  /\ op[a].pc = "load"
  /\ \/ ~Running(Task(a)) /\ Return(a) /\ UNCHANGED faults
     \/ Running(Task(a)) /\ Loaded(a, "send", LastStart(Task(a))) /\ UNCHANGED <<faults, ended>>
     \/ Fault /\ Return(a)
  /\ UNCHANGED <<log, meta, main, tree, calls>>

\* A fault: the error of a subagent is returned without ending its task.
EndRunFault(a, status) == Go(a, "cleanup")

\* finishTaskSubagentError, and Finish of a run that is complete: end the task,
\* then clean up.
EndRun(a, status) ==
  op' = [op EXCEPT ![a].pc = "finish", ![a].status = status, ![a].round = 0, ![a].uses = FALSE]

\* A fault: one round more than the limit.
SendRequestFault(a) ==
  /\ op[a].pc = "send"
  /\ \/ op[a].round <= MaxToolRounds /\ \E uses \in BOOLEAN :
          op' = [op EXCEPT ![a].pc = "answered", ![a].uses = uses]
     \/ EndRun(a, "failed")
  /\ UNCHANGED <<log, meta, main, tree, calls, faults, ended>>

SendRequest(a) ==
  /\ op[a].pc = "send"
  /\ \/ op[a].round < MaxToolRounds /\ \E uses \in BOOLEAN :
          op' = [op EXCEPT ![a].pc = "answered", ![a].uses = uses]
     \/ op[a].round < MaxToolRounds /\ EndRun(a, "cancelled")
     \/ EndRun(a, "failed")
  /\ UNCHANGED <<log, meta, main, tree, calls, faults, ended>>

\* A fault: manager.Append does not look whether the task is running.
MayAppendFault(t) == TRUE

\* SidechainManager.Append loads the state ...
MayAppend(t) == Running(t)

CheckAppend(a) ==
  /\ op[a].pc \in {"answered", "ran"}
  /\ IF MayAppend(Task(a))
     THEN Go(a, IF op[a].pc = "answered" THEN "answer" ELSE "result")
     ELSE EndRun(a, "failed")
  /\ UNCHANGED <<log, meta, main, tree, calls, faults, ended>>

\* ... and then appends.  An answer without tool uses ends the run, after the
\* SubagentStop hooks.
AppendAnswer(a) ==
  /\ op[a].pc = "answer"
  /\ \/ /\ \/ op[a].uses /\ op' = [op EXCEPT ![a].pc = "tools", ![a].uses = FALSE,
                ![a].late = IF RunEnded(Task(a), op[a].start) THEN @ + 1 ELSE @]
           \/ ~op[a].uses /\ \E status \in Ends : EndRun(a, status)
        /\ UNCHANGED faults
     \/ Fault /\ EndRun(a, "failed")
  /\ UNCHANGED <<log, meta, main, tree, calls, ended>>

RunTools(a) ==
  /\ op[a].pc = "tools"
  /\ Go(a, "ran") \/ EndRun(a, "cancelled")
  /\ UNCHANGED <<log, meta, main, tree, calls, faults, ended>>

AppendResults(a) ==
  /\ op[a].pc = "result"
  /\ \/ /\ op' = [op EXCEPT ![a].pc = "send", ![a].round = @ + 1]
        /\ UNCHANGED faults
     \/ Fault /\ EndRun(a, "failed")
  /\ UNCHANGED <<log, meta, main, tree, calls, ended>>

-----------------------------------------------------------------------------
(* SidechainManager.Finish, Cancel and Fail.                               *)

\* An error of Finish ends KillTask and a run that was complete; on the error
\* path it is ignored.
FinishFails(a) ==
  IF op[a].kind = "Task" /\ op[a].status # "completed"
  THEN Go(a, "cleanup") /\ UNCHANGED ended ELSE Return(a)

CheckFinish(a) ==
  /\ op[a].pc = "finish"
  /\ IF Running(Task(a)) THEN Go(a, "summary") /\ UNCHANGED ended ELSE FinishFails(a)
  /\ UNCHANGED <<log, meta, main, tree, calls, faults>>

\* A fault: the session is told even if the task could not be.
AppendSummaryFault(a) ==
  /\ op[a].pc = "summary"
  /\ \/ Append1(Task(a), Entry("summary", op[a].status, FALSE)) /\ UNCHANGED faults
     \/ Fault /\ UNCHANGED log
  /\ Go(a, "main")
  /\ UNCHANGED <<meta, main, tree, calls, ended>>

AppendSummary(a) ==
  /\ op[a].pc = "summary"
  /\ \/ /\ Append1(Task(a), Entry("summary", op[a].status, FALSE))
        /\ Go(a, "main") /\ UNCHANGED <<faults, ended>>
     \/ Fault /\ FinishFails(a) /\ UNCHANGED log
  /\ UNCHANGED <<meta, main, tree, calls>>

AppendMain(a) ==
  /\ op[a].pc = "main"
  /\ \/ /\ main' = Append(main, <<Task(a), op[a].status>>)
        /\ Go(a, IF op[a].kind = "KillTask" THEN "reload" ELSE "cleanup")
        /\ UNCHANGED <<faults, ended>>
     \/ Fault /\ FinishFails(a) /\ UNCHANGED main
  /\ UNCHANGED <<log, meta, tree, calls>>

(* CleanupOwnedWorktree.                                                   *)

taskShouldCleanupOwnedWorktree(a) ==
  op[a].owned /\ op[a].snap \notin {"removed", "missing", "skipped"}

\* The worktree is removed, unless git fails (as it does once the context is
\* cancelled), the path is the session's own directory, or it is gone.
Cleanup(a) ==
  /\ op[a].pc = "cleanup"
  /\ \/ ~taskShouldCleanupOwnedWorktree(a) /\ Return(a) /\ UNCHANGED tree
     \/ /\ taskShouldCleanupOwnedWorktree(a)
        /\ \E cleanup \in Cleanups :
             /\ cleanup = "skipped" => ~op[a].managed
             /\ cleanup = "missing" => op[a].managed /\ Task(a) \notin tree
             /\ cleanup = "removed" => op[a].managed /\ Task(a) \in tree
             /\ op[a].kind = "Task" /\ op[a].status = "cancelled" => cleanup = "failed"
             /\ tree' = IF cleanup = "removed" THEN tree \ {Task(a)} ELSE tree
             /\ op' = [op EXCEPT ![a].pc = "mark", ![a].snap = cleanup]
        /\ UNCHANGED ended
  /\ UNCHANGED <<log, meta, main, calls, faults>>

MarkWorktreeCleanup(a) ==
  /\ op[a].pc = "mark"
  /\ \/ Append1(Task(a), Entry("cleanup", op[a].snap, FALSE)) /\ UNCHANGED faults
     \/ Fault /\ UNCHANGED log
  /\ Return(a)
  /\ UNCHANGED <<meta, main, tree, calls>>

-----------------------------------------------------------------------------
(* The KillTask and SendMessage tools.                                     *)

\* findTaskState: a task is known by its transcript or by its metadata.
Found(t) == log[t] # <<>> \/ meta[t] # "none"

\* A task that has ended is only cleaned up, again if need be.
KillTask(a) ==
  /\ op[a].pc = "begin" /\ op[a].kind = "KillTask"
  /\ \/ ~Found(Task(a)) /\ Return(a)
     \/ /\ Running(Task(a))
        /\ op' = [op EXCEPT ![a].pc = "finish", ![a].status = "cancelled"]
        /\ UNCHANGED ended
     \/ Found(Task(a)) /\ ~Running(Task(a)) /\ Loaded(a, "cleanup", 0) /\ UNCHANGED ended
  /\ UNCHANGED <<log, meta, main, tree, calls, faults>>

ReloadKilled(a) ==
  /\ op[a].pc = "reload"
  /\ Loaded(a, "cleanup", 0)
  /\ UNCHANGED <<log, meta, main, tree, calls, faults, ended>>

SendMessage(a) ==
  /\ op[a].pc = "begin" /\ op[a].kind = "SendMessage"
  /\ IF Running(Task(a)) THEN Go(a, "sending") /\ UNCHANGED ended ELSE Return(a)
  /\ UNCHANGED <<log, meta, main, tree, calls, faults>>

CheckMessage(a) ==
  /\ op[a].pc = "sending"
  /\ IF MayAppend(Task(a)) THEN Go(a, "message") /\ UNCHANGED ended ELSE Return(a)
  /\ UNCHANGED <<log, meta, main, tree, calls, faults>>

AppendMessage(a) ==
  /\ op[a].pc = "message"
  /\ UNCHANGED faults \/ Fault
  /\ Return(a)
  /\ UNCHANGED <<log, meta, main, tree, calls>>

\* The process of an actor dies in the middle of a call.
Die(a) ==
  /\ op[a].pc # "idle" /\ Fault
  /\ op' = [op EXCEPT ![a] = Idle]
  /\ UNCHANGED <<log, meta, main, tree, calls, ended>>

Step(a) ==
  \/ ensureTaskCanStart(a) \/ prepareTaskWorktree(a) \/ Start(a) \/ WriteSidechainMetadata(a)
  \/ AppendStart(a) \/ AbandonStart(a) \/ Prompt(a)
  \/ LoadTask(a) \/ SendRequest(a) \/ CheckAppend(a) \/ AppendAnswer(a) \/ RunTools(a)
  \/ AppendResults(a) \/ CheckFinish(a) \/ AppendSummary(a) \/ AppendMain(a)
  \/ Cleanup(a) \/ MarkWorktreeCleanup(a)
  \/ KillTask(a) \/ ReloadKilled(a) \/ SendMessage(a) \/ CheckMessage(a) \/ AppendMessage(a)

Next == \E a \in Actors : Call(a) \/ Step(a) \/ Die(a)

Spec == Init /\ [][Next]_vars

ActorSymmetry == Permutations(Actors)

-----------------------------------------------------------------------------
(* Properties.                                                             *)

Quiet(t) == \A a \in Actors : Task(a) # t

\* The types of the variables; an actor without a call is idle.
TypeOK ==
  /\ \A t \in Tasks : \A k \in DOMAIN log[t] :
       /\ log[t][k].kind \in {"start", "summary", "cleanup"}
       /\ log[t][k].status \in Ends \cup Cleanups \cup {"running"}
  /\ \A k \in DOMAIN main : main[k] \in Tasks \X Ends
  /\ tree \subseteq Tasks /\ meta \in [Tasks -> {"none", "session", "managed"}]
  /\ \A a \in Actors :
       /\ op[a].kind \in Kinds \cup {"none"} /\ op[a].task \in Tasks \cup {NoTask}
       /\ op[a].pc = "idle" <=> op[a] = Idle
       /\ op[a].round \in 0 .. MaxToolRounds
  /\ calls \in 0 .. MaxCalls /\ faults \in 0 .. MaxFaults

\* Without a death or a failed append, a task whose subagent has returned has
\* ended, however the subagent left its loop and whoever else ended it.
SettledAfterRun ==
  \A t \in Tasks : faults = 0 /\ <<t, LastStart(t)>> \in ended => ~Running(t)

\* The worktree of a task that was started once is gone once the task has
\* ended and everybody is done with it, unless git failed to remove it.
WorktreeFollowsTask ==
  \A t \in Tasks :
    faults = 0 /\ Cardinality(Marks(t, {"start"})) = 1 /\ Quiet(t) /\ ~Running(t) /\ t \in tree
      => CleanupStatus(t) = "failed"

\* A task settles: it ends with its subagent, and its worktree with it.
TaskSettles == SettledAfterRun /\ WorktreeFollowsTask

\* A subagent whose task was ended by somebody else begins at most one more
\* round of tools, as long as the task is not started again.
KilledStops ==
  \A a \in Actors :
    op[a].start > 0 /\ LastStart(Task(a)) = op[a].start => op[a].late <= 1

\* The session's transcript reports no end of a task that the task's own
\* transcript does not hold, and unless something failed it reports them all.
SummariesMirrored ==
  \A t \in Tasks :
    LET side == Cardinality(Marks(t, {"summary"}))
        told == Cardinality({k \in DOMAIN main : main[k][1] = t})
    IN /\ told <= side
       /\ faults = 0 /\ Quiet(t) => told = side
=============================================================================
