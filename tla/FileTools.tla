----------------------------- MODULE FileTools -----------------------------
(***************************************************************************)
(* Read, Write, Edit and NotebookEdit of internal/tools/file, the          *)
(* ReadState that remembers what an agent has read, and the AtomicWriteFile *)
(* of internal/platform they write with.  Agents (the runner and its       *)
(* subagents) and a user with an editor work on the same files; between    *)
(* two looks of a tool at the disk they may change.  A notebook is always  *)
(* read in full, so only text has a ReadPart.                              *)
(*                                                                         *)
(* A file's content is the set of the changes it holds, each named by the  *)
(* time it was made: Write leaves its own change alone, Edit adds one to   *)
(* what it read.  No two changes share a millisecond.                      *)
(***************************************************************************)
EXTENDS Integers, Sequences

CONSTANTS Files,
          Agents,
          PerRound,  \* agents whose tool metadata is made anew each round
          Slots,     \* tool uses of one agent that may run at a time
          MaxOps,    \* bound: tool uses of one agent
          MaxClock   \* bound: changes made to files

ASSUME FileToolsAssumption ==
  /\ PerRound \subseteq Agents
  /\ Slots \in Nat \ {0} /\ MaxOps \in Nat /\ MaxClock \in Nat \ {0}

VARIABLES
  clock,   \* time of the last change
  file,    \* the files: NoFile, or content and modification time
  tmp,     \* path + ".tmp" of each file
  map,     \* agent -> its ReadState, an index of heap, 0 before there is one
  heap,    \* the ReadState objects: file -> ReadFileState or NoEntry
  use,     \* the tool uses under way
  ops,     \* agent -> tool uses started
  \* History variables, for the properties.
  seen,    \* agent -> changes it was shown or made
  lastRead,\* agent -> file -> how it read the file last in this turn
  createGap,  \* changes made between the validation of a Create and its call
  refreshGap, \* changes made between a rename and the look at the file's time after it
  blind,   \* changes overwritten unseen although the call had read them
  denied,  \* a file that was read in full was refused as not read
  misled,  \* "file unchanged" was answered for a file that had changed
  lost     \* a use reported success and its change never reached the file

disk    == <<clock, file, tmp>>
memory  == <<map, heap>>
history == <<seen, lastRead, createGap, refreshGap, blind, denied, misled, lost>>
vars    == <<disk, memory, use, ops, history>>

NoFile  == [exists |-> FALSE, content |-> {}, mtime |-> 0]
NoEntry == [known |-> FALSE, content |-> {}, mtime |-> 0, full |-> FALSE, range |-> "none"]

Saved(content, at) == [exists |-> TRUE, content |-> content, mtime |-> at]

Procs     == Agents \X (1 .. Slots)
WriteOps  == {"Write", "Edit", "Create", "NotebookEdit"}
ReadOps   == {"Read", "ReadPart"}
Idle      == [pc |-> "idle", op |-> "none", at |-> "none", read |-> NoFile,
              state |-> 0, time |-> 0]

Init ==
  /\ clock = 1
  /\ file \in [Files -> {NoFile, Saved({}, 1), Saved({1}, 1)}]
  /\ tmp = [f \in Files |-> NoFile]
  /\ map = [a \in Agents |-> 0] /\ heap = <<>>
  /\ use = [p \in Procs |-> Idle] /\ ops = [a \in Agents |-> 0]
  /\ seen = [a \in Agents |-> {}]
  /\ lastRead = [a \in Agents |-> [f \in Files |-> "none"]]
  /\ createGap = {} /\ refreshGap = {} /\ blind = {}
  /\ denied = FALSE /\ misled = FALSE /\ lost = FALSE

At(p, c) == use[p].pc = c
Goto(p, c) == use' = [use EXCEPT ![p].pc = c]
Return(p) == use' = [use EXCEPT ![p] = Idle]
Busy(a, kinds) == \E p \in Procs : p[1] = a /\ use[p].op \in kinds

-----------------------------------------------------------------------------
(* Tool uses of an agent *)

\* RunTools: reads of one batch run together, a use that writes runs alone.
Start(p, op, f) ==
  /\ At(p, "idle") /\ ops[p[1]] < MaxOps
  /\ ~Busy(p[1], IF op \in ReadOps THEN WriteOps ELSE WriteOps \cup ReadOps)
  /\ use' = [use EXCEPT ![p] = [Idle EXCEPT !.op = op, !.at = f,
               !.pc = IF op \in ReadOps THEN "ensure" ELSE "validate"]]
  /\ ops' = [ops EXCEPT ![p[1]] = @ + 1]
  /\ UNCHANGED <<disk, memory, history>>

\* RunTurn makes the metadata of a turn, runTaskSubagentOnce that of a round.
NewMetadata(a) ==
  /\ ~Busy(a, WriteOps \cup ReadOps) /\ map[a] # 0
  /\ map' = [map EXCEPT ![a] = 0]
  /\ lastRead' = IF a \in PerRound THEN lastRead
                 ELSE [lastRead EXCEPT ![a] = [f \in Files |-> "none"]]
  /\ UNCHANGED <<disk, heap, use, ops, seen, createGap, refreshGap, blind, denied, misled, lost>>

-----------------------------------------------------------------------------
(* ReadState *)

\* EnsureReadState looks the key up, and stores a new object when there is none.
EnsureLookup(p) ==
  /\ At(p, "ensure")
  /\ use' = [use EXCEPT ![p].state = map[p[1]],
                        ![p].pc = IF map[p[1]] = 0 THEN "store" ELSE "dedup"]
  /\ UNCHANGED <<disk, memory, ops, history>>

NewReadState == [f \in Files |-> NoEntry]

EnsureStore(p) ==
  /\ At(p, "store")
  /\ heap' = Append(heap, NewReadState)
  /\ map' = [map EXCEPT ![p[1]] = Len(heap) + 1]
  /\ use' = [use EXCEPT ![p].state = Len(heap) + 1, ![p].pc = "dedup"]
  /\ UNCHANGED <<disk, ops, history>>

\* EnsureReadState of a use that runs alone.
EnsuredMap(a)  == IF map[a] = 0 THEN [map EXCEPT ![a] = Len(heap) + 1] ELSE map
EnsuredHeap(a) == IF map[a] = 0 THEN Append(heap, NewReadState) ELSE heap

\* ReadState.Set, of the object with index i.
SetEntry(h, i, f, entry) == [h EXCEPT ![i][f] = entry]

Entry(a, f) == EnsuredHeap(a)[EnsuredMap(a)[a]][f]

\* Fault: what the agent wrote itself, recorded without an offset, does not count.
FullReadFault(entry) == entry.known /\ entry.full /\ entry.range = "all"
FullRead(entry) == entry.known /\ entry.full

Stale(entry, f, current) == file[f].mtime > entry.mtime /\ current # entry.content

-----------------------------------------------------------------------------
(* Read *)

ReadRange(op) == IF op = "Read" THEN "all" ELSE "part"

\* Fault: any later modification time will do.
UnchangedFault(entry, op, f) ==
  /\ entry.known /\ entry.range = ReadRange(op)
  /\ file[f].exists /\ file[f].mtime >= entry.mtime
Unchanged(entry, op, f) ==
  /\ entry.known /\ entry.range = ReadRange(op)
  /\ file[f].exists /\ file[f].mtime = entry.mtime

\* The answer "file unchanged", or on to reading.
ReadDedup(p) ==
  LET f == use[p].at
      entry == heap[use[p].state][f]
  IN  /\ At(p, "dedup")
      /\ IF Unchanged(entry, use[p].op, f)
         THEN /\ Return(p)
              /\ misled' = (misled \/ file[f].content # entry.content)
         ELSE Goto(p, "stat") /\ UNCHANGED misled
      /\ UNCHANGED <<disk, memory, ops, seen, lastRead, createGap, refreshGap, blind, denied, lost>>

ReadStat(p) ==
  /\ At(p, "stat")
  /\ IF file[use[p].at].exists
     THEN use' = [use EXCEPT ![p].read.mtime = file[use[p].at].mtime, ![p].pc = "text"]
     ELSE Return(p)
  /\ UNCHANGED <<disk, memory, ops, history>>

\* The file may be gone by now, or may not be text.
ReadText(p) ==
  /\ At(p, "text")
  /\ \/ /\ file[use[p].at].exists
        /\ use' = [use EXCEPT ![p].read.content = file[use[p].at].content, ![p].pc = "set"]
     \/ Return(p)
  /\ UNCHANGED <<disk, memory, ops, history>>

ReadEntry(u) == [known |-> TRUE, content |-> u.read.content, mtime |-> u.read.mtime,
                 full |-> u.op = "Read", range |-> ReadRange(u.op)]

ReadSet(p) ==
  LET u == use[p]
  IN  /\ At(p, "set")
      /\ heap' = SetEntry(heap, u.state, u.at, ReadEntry(u))
      /\ Return(p)
      /\ seen' = IF u.op = "Read" THEN [seen EXCEPT ![p[1]] = @ \cup u.read.content] ELSE seen
      /\ lastRead' = [lastRead EXCEPT ![p[1]][u.at] = u.op]
      /\ UNCHANGED <<disk, map, ops, createGap, refreshGap, blind, denied, misled, lost>>

-----------------------------------------------------------------------------
(* Write, Edit, NotebookEdit.  Create is Edit with an empty old_string.  The  *)
(* validations Execute makes differ only in when they are made; the last one  *)
(* is modelled.                                                               *)

\* readTextForEdit, of the validation and of the call.
ReadForEdit(p, here, next) ==
  /\ At(p, here)
  /\ \/ use' = [use EXCEPT ![p].read = file[use[p].at], ![p].pc = next]
     \/ file[use[p].at].exists /\ Return(p)
  /\ UNCHANGED <<disk, memory, ops, history>>

ValidateRead(p) == ReadForEdit(p, "validate", "validated")
CallRead(p)     == ReadForEdit(p, "call", "called")

\* validateFreshFullReadWithContent.
NotRead(a, f) == ~FullRead(Entry(a, f))
Fresh(a, f, current) ==
  /\ ~NotRead(a, f)
  /\ file[f].exists
  /\ ~Stale(Entry(a, f), f, current)

\* Whether the validation, or the call, checks that the file was read, and what
\* it demands of the content it has read itself.
ValidateChecks(op, read) ==
  CASE op = "Create" -> FALSE
    [] OTHER         -> read.exists

ValidateAllows(op, read) ==
  CASE op = "Create" -> read.content = {}
    [] op = "Write"  -> TRUE
    [] OTHER         -> read.exists

\* Fault: the call relies on the validation made before the permission decision.
CallChecksFault(op, read) == FALSE
CallChecks(op, read) ==
  CASE op = "Create" -> FALSE
    [] OTHER         -> read.exists

CallAllows(op, read) == op \in {"Create", "Write"} \/ read.exists

\* The use may be refused for other reasons as well: the string to replace is
\* missing or ambiguous, the cell is not there, the settings are not valid.
Check(p, here, next, checks, allows) ==
  LET u == use[p]
      a == p[1]
  IN  /\ At(p, here)
      /\ \/ /\ allows /\ (checks => Fresh(a, u.at, u.read.content))
            /\ Goto(p, next)
         \/ Return(p)
      /\ map' = IF checks THEN EnsuredMap(a) ELSE map
      /\ heap' = IF checks THEN EnsuredHeap(a) ELSE heap
      /\ denied' = (denied \/ (checks /\ NotRead(a, u.at) /\ lastRead[a][u.at] = "Read"))
      /\ UNCHANGED <<disk, ops, seen, lastRead, createGap, refreshGap, blind, misled, lost>>

ValidateCheck(p) ==
  Check(p, "validated", "permit", ValidateChecks(use[p].op, use[p].read),
        ValidateAllows(use[p].op, use[p].read))
CallCheck(p) ==
  Check(p, "called", "write", CallChecks(use[p].op, use[p].read),
        CallAllows(use[p].op, use[p].read))

\* Hooks and the permission decision, which may wait for the user.
Permission(p) ==
  /\ At(p, "permit")
  /\ Goto(p, "call") \/ Return(p)
  /\ UNCHANGED <<disk, memory, ops, history>>

\* The text the tool writes, at time t.
Updated(op, content, t) == IF op \in {"Write", "Create"} THEN {t} ELSE content \cup {t}

\* AtomicWriteFile writes path + ".tmp" and renames it.
WriteTmp(p) ==
  LET u == use[p]
      t == clock + 1
  IN  /\ At(p, "write") /\ clock < MaxClock
      /\ clock' = t
      /\ tmp' = [tmp EXCEPT ![u.at] = Saved(Updated(u.op, u.read.content, t), t)]
      /\ use' = [use EXCEPT ![p].pc = "rename", ![p].time = t]
      /\ seen' = [seen EXCEPT ![p[1]] = @ \cup {t}]
      /\ UNCHANGED <<file, memory, ops, lastRead, createGap, refreshGap, blind, denied, misled, lost>>

WriteFails(p) ==
  /\ use[p].pc \in {"write", "rename"} /\ Return(p)
  /\ UNCHANGED <<disk, memory, ops, history>>

Overwritten(p) == use[p].read.content \ (tmp[use[p].at].content \cup seen[p[1]])

Rename(p) ==
  LET f == use[p].at
  IN  /\ At(p, "rename")
      /\ IF tmp[f].exists
         THEN /\ file' = [file EXCEPT ![f] = tmp[f]]
              /\ tmp' = [tmp EXCEPT ![f] = NoFile]
              /\ Goto(p, "refresh")
              /\ blind' = blind \cup (Overwritten(p) \cap file[f].content)
              /\ lost' = (lost \/ use[p].time \notin tmp[f].content)
         ELSE /\ Return(p)
              /\ UNCHANGED <<file, tmp, blind, lost>>
      /\ UNCHANGED <<clock, memory, ops, seen, lastRead, createGap, refreshGap, denied, misled>>

\* The modification time is looked up once more and recorded with the text written.
\* Fault: the present time is recorded instead of the file's.
WriteEntryFault(u, t) == [known |-> TRUE, content |-> Updated(u.op, u.read.content, u.time),
                          mtime |-> t + 1, full |-> TRUE, range |-> "none"]
WriteEntry(u, t) == [known |-> TRUE, content |-> Updated(u.op, u.read.content, u.time),
                     mtime |-> t, full |-> TRUE, range |-> "none"]

Refresh(p) ==
  LET u == use[p]
      a == p[1]
  IN  /\ At(p, "refresh")
      /\ map' = EnsuredMap(a)
      /\ heap' = IF file[u.at].exists
                 THEN SetEntry(EnsuredHeap(a), map'[a], u.at, WriteEntry(u, file[u.at].mtime))
                 ELSE EnsuredHeap(a)
      /\ lastRead' = IF file[u.at].exists THEN [lastRead EXCEPT ![a][u.at] = "Read"] ELSE lastRead
      /\ Return(p)
      /\ UNCHANGED <<disk, ops, seen, createGap, refreshGap, blind, denied, misled, lost>>

-----------------------------------------------------------------------------
(* The user *)

InCreate(f)  == \E p \in Procs : /\ use[p].at = f /\ use[p].op = "Create"
                                 /\ use[p].pc \in {"validated", "permit", "call"}
InRefresh(f) == \E p \in Procs : use[p].at = f /\ At(p, "refresh")

UserSaves(f) ==
  /\ clock < MaxClock
  /\ clock' = clock + 1
  /\ file' = [file EXCEPT ![f] = Saved(@.content \cup {clock + 1}, clock + 1)]
  /\ createGap' = IF InCreate(f) THEN createGap \cup {clock + 1} ELSE createGap
  /\ refreshGap' = IF InRefresh(f) THEN refreshGap \cup {clock + 1} ELSE refreshGap
  /\ UNCHANGED <<tmp, memory, use, ops, seen, lastRead, blind, denied, misled, lost>>

UserDeletes(f) ==
  /\ file[f].exists
  /\ file' = [file EXCEPT ![f] = NoFile]
  /\ UNCHANGED <<clock, tmp, memory, use, ops, history>>

-----------------------------------------------------------------------------
ToolStep(p) ==
  \/ \E op \in ReadOps \cup WriteOps, f \in Files : Start(p, op, f)
  \/ EnsureLookup(p) \/ EnsureStore(p) \/ ReadDedup(p)
  \/ ReadStat(p) \/ ReadText(p) \/ ReadSet(p)
  \/ ValidateRead(p) \/ ValidateCheck(p) \/ Permission(p)
  \/ CallRead(p) \/ CallCheck(p)
  \/ WriteTmp(p) \/ WriteFails(p) \/ Rename(p) \/ Refresh(p)

Next ==
  \/ \E p \in Procs : ToolStep(p)
  \/ \E a \in Agents : NewMetadata(a)
  \/ \E f \in Files : UserSaves(f) \/ UserDeletes(f)

Spec == Init /\ [][Next]_vars

-----------------------------------------------------------------------------
(* Properties *)

Time == 0 .. MaxClock
File == [exists : BOOLEAN, content : SUBSET Time, mtime : Time]
ReadFileState == [known : BOOLEAN, content : SUBSET Time, mtime : Time,
                  full : BOOLEAN, range : {"none", "all", "part"}]
Point == {"idle", "ensure", "store", "dedup", "stat", "text", "set", "validate", "validated",
          "permit", "call", "called", "write", "rename", "refresh"}
Use == [pc : Point, op : ReadOps \cup WriteOps \cup {"none"}, at : Files \cup {"none"},
        read : File, state : Nat, time : Time]

DiskOK ==
  /\ clock \in Time
  /\ file \in [Files -> File] /\ tmp \in [Files -> File]
  /\ \A f \in Files : file[f].mtime <= clock /\ tmp[f].mtime <= clock

MemoryOK ==
  /\ map \in [Agents -> 0 .. Len(heap)]
  /\ heap \in Seq([Files -> ReadFileState])
  /\ \A i \in DOMAIN heap, f \in Files : heap[i][f].mtime <= clock

UseOK(u) ==
  /\ u \in Use
  /\ u.pc # "idle" => u.at \in Files
  /\ u.pc \in {"dedup", "stat", "text", "set"} => u.state \in DOMAIN heap
  /\ u.read.mtime <= clock

\* ReadState objects are reached through a valid reference, and no recorded
\* modification time is in the future.
TypeOK ==
  /\ DiskOK /\ MemoryOK
  /\ use \in [Procs -> Use] /\ \A p \in Procs : UseOK(use[p])

\* A text and the modification time recorded with it: while the file has that
\* time it has that text, and no rename can bring the time back.
Matches(f, time, content) ==
  /\ file[f].exists /\ file[f].mtime = time => file[f].content = content
  /\ tmp[f].exists => tmp[f].mtime # time

\* The same for a Read between its look at the time and the text, and after it.
UseMatches(u) ==
  /\ u.pc = "text" /\ tmp[u.at].exists => tmp[u.at].mtime # u.read.mtime
  /\ u.pc = "set" => Matches(u.at, u.read.mtime, u.read.content)

\* What makes UnchangedIsTrue inductive: Read looks at the time before it reads
\* the text, so what it records matches.
Versions ==
  /\ \A f \in Files : file[f].exists /\ tmp[f].exists => tmp[f].mtime # file[f].mtime
  /\ \A i \in DOMAIN heap, f \in Files :
       heap[i][f].range # "none" => Matches(f, heap[i][f].mtime, heap[i][f].content)
  /\ \A p \in Procs : UseMatches(use[p])

\* Apart from two gaps (the look at the modification time after a rename may find
\* that of a later change, and Create does not check again), a tool never wipes out a change of the user that its own
\* call read from the file and that the agent was never shown: the check of
\* modification time and text refuses the call.
StaleWriteRejected == blind \subseteq createGap \cup refreshGap

\* Edit with an empty old_string creates files, it never replaces the user's.
CreateOnlyNew == blind \subseteq refreshGap

\* A file the agent read in full in this turn, or wrote, is never refused as
\* not read.
ReadAuthorises == ~denied

\* When Read answers that the file is unchanged since the last read, the file
\* holds what that read returned.
UnchangedIsTrue == ~misled

\* A use that reports success has put its text into the file.
SuccessMeansWritten == ~lost
=============================================================================
