--------------------------- MODULE PromptHistory ---------------------------
(***************************************************************************)
(* The prompt history of internal/session/history.go: one file that every  *)
(* process of a user appends to, a lock file beside it, and in a process a *)
(* BufferedHistoryWriter whose entries are queued, taken back, flushed and *)
(* listed by goroutines of their own.  Writers stands for the processes;   *)
(* those of Direct use AddToHistory, which appends at once, instead of the *)
(* buffer.  A process may die at any step; its lock file then stays.       *)
(*                                                                         *)
(* file holds the lines that parse, in order.  A write that fails part-way *)
(* leaves the file without a final newline (torn), and the next line       *)
(* written joins the piece: neither can be read.  One clock gives entries  *)
(* their timestamps and the lock file its age.                             *)
(***************************************************************************)
EXTENDS Integers, Sequences, SequencesExt

CONSTANTS Writers,
          Direct,       \* writers that call AddToHistory
          FlushThreads, \* calls of Flush a writer may have under way
          Limit,        \* the limit of LoadHistory
          LockTimeout,  \* defaultHistoryLockTimeout
          StaleAge,     \* staleHistoryLockAge
          MaxEntries,   \* bound: prompts queued by a writer
          MaxAdds,      \* bound: prompts a writer of Direct adds
          MaxFaults,    \* bound: deaths of processes and failed calls to the file system
          MaxClock      \* bound: the clock

ASSUME PromptHistoryAssumption ==
  /\ Direct \subseteq Writers
  /\ {FlushThreads, Limit} \subseteq Nat \ {0}
  /\ {LockTimeout, StaleAge, MaxEntries, MaxAdds, MaxFaults, MaxClock} \subseteq Nat

VARIABLES
  now,
  file,     \* the entries that can be read, oldest first
  torn,     \* the file ends in a piece of a line
  lock,     \* the lock file: whether it exists, and when it was made
  buf,      \* writer -> BufferedHistoryWriter.entries
  last,     \* writer -> lastAddedEntry
  skipped,  \* writer -> skippedTimestamps
  alive,    \* writer -> its process runs
  flush,    \* the calls of Flush and AddToHistory under way
  faults,   \* deaths and failed calls so far
  load,     \* writer -> what a LoadHistory under way read of the writer's state,
            \* and (for the properties) the lines the file had then
  \* History variables, for the properties.
  added,    \* entries accepted
  dropped,  \* entries taken back out of the buffer
  removed,  \* entries the user took back, those in the file too
  revived,  \* removed entries a failed flush put back
  swallowed,\* entries written behind a torn line
  overAged  \* a lock file has been older than StaleAge

disk    == <<file, torn, lock>>
memory  == <<buf, last, skipped>>
history == <<dropped, removed, revived, swallowed, overAged>>
vars    == <<now, disk, memory, alive, flush, load, faults, added, history>>

Flushers == ((Writers \ Direct) \X (1 .. FlushThreads)) \cup (Direct \X {1})
Entries  == [writer : Writers, n : Nat, ts : 0 .. MaxClock]
NoLock   == [held |-> FALSE, mtime |-> 0]
Idle     == [pc |-> "idle", batch |-> <<>>, written |-> 0, deadline |-> 0]
NoLoad   == [on |-> FALSE, pending |-> <<>>, skip |-> {}, lines |-> 0]

Inside   == {"append", "unlock", "unlockFailed"}

Init ==
  /\ now = 0 /\ file = <<>> /\ torn = FALSE /\ lock = NoLock
  /\ buf = [w \in Writers |-> <<>>]
  /\ last = [w \in Writers |-> {}]
  /\ skipped = [w \in Writers |-> {}]
  /\ alive = [w \in Writers |-> TRUE]
  /\ flush = [f \in Flushers |-> Idle]
  /\ load = [w \in Writers |-> NoLoad]
  /\ faults = 0
  /\ added = {} /\ dropped = {} /\ removed = {} /\ revived = {} /\ swallowed = {}
  /\ overAged = FALSE

Added(w)    == {e \in added : e.writer = w}
NewEntryFault(w) == [writer |-> w, n |-> Cardinality(Added(w)) + 1, ts |-> now + 1]

NewEntry(w) == [writer |-> w, n |-> Cardinality(Added(w)) + 1, ts |-> now]

Tick ==
  /\ now < MaxClock
  /\ now' = now + 1
  /\ overAged' = (overAged \/ (lock.held /\ now' - lock.mtime > StaleAge))
  /\ UNCHANGED <<disk, memory, alive, flush, load, faults, added, dropped, removed, revived, swallowed>>

-----------------------------------------------------------------------------
(* The writer's buffer; each operation holds its mutex.                    *)

Queue(w) ==
  /\ alive[w] /\ w \notin Direct /\ Cardinality(Added(w)) < MaxEntries
  /\ buf' = [buf EXCEPT ![w] = Append(@, NewEntry(w))]
  /\ last' = [last EXCEPT ![w] = {NewEntry(w)}]
  /\ added' = added \cup {NewEntry(w)}
  /\ UNCHANGED <<now, disk, skipped, alive, flush, load, faults, history>>

RemoveLastPending(w) ==
  /\ alive[w] /\ buf[w] # <<>>
  /\ buf' = [buf EXCEPT ![w] = Front(@)]
  /\ last' = [last EXCEPT ![w] = @ \ {Last(buf[w])}]
  /\ dropped' = dropped \cup {Last(buf[w])}
  /\ removed' = removed \cup {Last(buf[w])}
  /\ UNCHANGED <<now, disk, skipped, alive, flush, load, faults, added, revived, swallowed, overAged>>

\* The entry is found by its address: it is there once.
removePendingLogEntryLocked(w, e) == RemoveAt(buf[w], CHOOSE i \in DOMAIN buf[w] : buf[w][i] = e)

\* A fault: an entry that is no longer in the buffer is only forgotten.
RemoveLastFault(w) ==
  /\ alive[w] /\ last[w] # {}
  /\ last' = [last EXCEPT ![w] = {}]
  /\ removed' = removed \cup last[w]
  /\ dropped' = dropped \cup (last[w] \cap ToSet(buf[w]))
  /\ buf' = [buf EXCEPT ![w] = SelectSeq(@, LAMBDA e : e \notin last[w])]
  /\ UNCHANGED <<now, disk, skipped, alive, flush, load, faults, added, revived, swallowed, overAged>>

\* The last entry is taken out of the buffer, or hidden by its timestamp if
\* a flush has it or has written it.
RemoveLast(w) ==
  /\ alive[w]
  /\ \E e \in last[w] :
       /\ last' = [last EXCEPT ![w] = {}]
       /\ removed' = removed \cup {e}
       /\ \/ /\ e \in ToSet(buf[w])
             /\ buf' = [buf EXCEPT ![w] = removePendingLogEntryLocked(w, e)]
             /\ dropped' = dropped \cup {e}
             /\ UNCHANGED skipped
          \/ /\ e \notin ToSet(buf[w])
             /\ skipped' = [skipped EXCEPT ![w] = @ \cup {e.ts}]
             /\ UNCHANGED <<buf, dropped>>
  /\ UNCHANGED <<now, disk, alive, flush, load, faults, added, revived, swallowed, overAged>>

-----------------------------------------------------------------------------
(* Flush and AddToHistory: both append a batch under the lock file.        *)

Move(f, pc) == flush' = [flush EXCEPT ![f].pc = pc]

Begin(f, batch) ==
  /\ now + LockTimeout < MaxClock
  /\ flush[f] = Idle
  /\ flush' = [flush EXCEPT ![f] = [pc |-> "open", batch |-> batch, written |-> 0,
                                    deadline |-> now + LockTimeout]]
  /\ UNCHANGED <<now, disk, last, skipped, alive, load, faults, dropped, removed, revived, swallowed, overAged>>

Flush(f) ==
  /\ alive[f[1]] /\ buf[f[1]] # <<>>
  /\ Begin(f, buf[f[1]])
  /\ buf' = [buf EXCEPT ![f[1]] = <<>>]
  /\ UNCHANGED added

AddToHistory(f) ==
  /\ alive[f[1]] /\ f[1] \in Direct /\ Cardinality(Added(f[1])) < MaxAdds
  /\ Begin(f, <<NewEntry(f[1])>>)
  /\ added' = added \cup {NewEntry(f[1])}
  /\ UNCHANGED buf

\* withHistoryLock: create the lock file, which must not exist.
OpenLock(f) ==
  /\ flush[f].pc = "open"
  /\ IF lock.held THEN Move(f, "stat") /\ UNCHANGED lock
                  ELSE Move(f, "append") /\ lock' = [held |-> TRUE, mtime |-> now]
  /\ UNCHANGED <<now, file, torn, memory, alive, load, faults, added, history>>

Fault == faults < MaxFaults /\ faults' = faults + 1

\* It cannot be created for another reason.
OpenFails(f) ==
  /\ flush[f].pc = "open"
  /\ Fault
  /\ Move(f, "requeue")
  /\ UNCHANGED <<now, disk, memory, alive, load, added, history>>

\* The loop's end: give up after the deadline, else try again.
Again(f) == Move(f, IF now > flush[f].deadline THEN "requeue" ELSE "open")

\* A fault: any lock file counts as left behind.
StatLockFault(f) ==
  /\ flush[f].pc = "stat"
  /\ IF lock.held THEN Move(f, "remove") ELSE Again(f)
  /\ UNCHANGED <<now, disk, memory, alive, load, faults, added, history>>

\* removeStaleHistoryLock looks at the age of the lock file ...
StatLock(f) ==
  /\ flush[f].pc = "stat"
  /\ IF lock.held /\ now - lock.mtime > StaleAge THEN Move(f, "remove") ELSE Again(f)
  /\ UNCHANGED <<now, disk, memory, alive, load, faults, added, history>>

\* ... and removes the one it finds under that name afterwards.
RemoveLock(f) ==
  /\ flush[f].pc = "remove"
  /\ lock' = NoLock
  /\ Again(f)
  /\ UNCHANGED <<now, file, torn, memory, alive, load, faults, added, history>>

AppendEntry(f) ==
  LET c == flush[f]
      e == c.batch[c.written + 1]
  IN  /\ c.pc = "append"
      /\ flush' = [flush EXCEPT ![f].written = @ + 1,
                                ![f].pc = IF c.written + 1 = Len(c.batch) THEN "unlock" ELSE "append"]
      /\ torn' = FALSE
      /\ file' = IF torn THEN file ELSE Append(file, e)
      /\ swallowed' = IF torn THEN swallowed \cup {e} ELSE swallowed
      /\ UNCHANGED <<now, lock, memory, alive, load, faults, added, dropped, removed, revived, overAged>>

\* Storing a pasted text fails, or the append does, perhaps part-way.
AppendFails(f) ==
  /\ flush[f].pc = "append"
  /\ Fault
  /\ Move(f, "unlockFailed")
  /\ torn' \in {torn, TRUE}
  /\ UNCHANGED <<now, file, lock, memory, alive, load, added, history>>

\* The deferred os.Remove(lockPath), whosever the lock file now is.
Unlock(f) ==
  /\ flush[f].pc \in {"unlock", "unlockFailed"}
  /\ lock' = NoLock
  /\ flush' = [flush EXCEPT ![f] = IF @.pc = "unlock" THEN Idle ELSE [@ EXCEPT !.pc = "requeue"]]
  /\ UNCHANGED <<now, file, torn, memory, alive, load, faults, added, history>>

\* A fault: the whole batch is put back.
RestFault(f) == flush[f].batch

Rest(f) == SubSeq(flush[f].batch, flush[f].written + 1, Len(flush[f].batch))

\* A fault: what was not written is put behind the buffer.
RequeuedFault(f) == buf[f[1]] \o Rest(f)

Requeued(f) == Rest(f) \o buf[f[1]]

\* A failed Flush puts what it has not written in front of the buffer; a
\* failed AddToHistory reports that the entry was not added.
Requeue(f) ==
  /\ flush[f].pc = "requeue"
  /\ flush' = [flush EXCEPT ![f] = Idle]
  /\ IF f[1] \in Direct
     THEN added' = added \ ToSet(Rest(f)) /\ UNCHANGED <<buf, revived>>
     ELSE /\ buf' = [buf EXCEPT ![f[1]] = Requeued(f)]
          /\ revived' = revived \cup (ToSet(Rest(f)) \cap removed)
          /\ UNCHANGED added
  /\ UNCHANGED <<now, disk, last, skipped, alive, load, faults, dropped, removed, swallowed, overAged>>

\* The process is killed.
Crash(w) ==
  /\ alive[w]
  /\ Fault
  /\ alive' = [alive EXCEPT ![w] = FALSE]
  /\ buf' = [buf EXCEPT ![w] = <<>>]
  /\ last' = [last EXCEPT ![w] = {}]
  /\ skipped' = [skipped EXCEPT ![w] = {}]
  /\ flush' = [f \in Flushers |-> IF f[1] = w THEN Idle ELSE flush[f]]
  /\ load' = [load EXCEPT ![w] = NoLoad]
  /\ UNCHANGED <<now, disk, added, history>>

-----------------------------------------------------------------------------
(* LoadHistory reads the writer's state under its mutex, then the file.    *)

shouldSkipHistoryEntryFault(w, e, skip) == e.ts \in skip

shouldSkipHistoryEntry(w, e, skip) == e.writer = w /\ e.ts \in skip

\* The lines that parse; the scanner passes over the others.
loadLogEntriesNewestFirst == Reverse(file)

\* The entries of s that are in set, in the order of s.
Only(s, set) ==
  LET kept[i \in 0 .. Len(s)] ==
        IF i = 0 THEN <<>>
        ELSE IF s[i] \in set THEN Append(kept[i - 1], s[i]) ELSE kept[i - 1]
  IN  kept[Len(s)]

\* Newest first up to the limit, then the writer's own session first.
loadHistory(w, pending, skip) ==
  LET shown  == {e \in ToSet(file) : ~shouldSkipHistoryEntry(w, e, skip)}
      listed == Reverse(pending) \o Only(loadLogEntriesNewestFirst, shown)
      newest == SubSeq(listed, 1, IF Len(listed) < Limit THEN Len(listed) ELSE Limit)
      own    == {e \in ToSet(newest) : e.writer = w}
  IN  Only(newest, own) \o Only(newest, ToSet(newest) \ own)

BeginLoad(w) ==
  /\ alive[w] /\ w \notin Direct /\ ~load[w].on
  /\ load' = [load EXCEPT ![w] = [on |-> TRUE, pending |-> buf[w], skip |-> skipped[w],
                                  lines |-> Len(file)]]
  /\ UNCHANGED <<now, disk, memory, alive, flush, faults, added, history>>

\* What a load under way returns if it reads the file now.  It may do so in
\* any later state; returning changes nothing that others see.
Loaded(w) == loadHistory(w, load[w].pending, load[w].skip)

-----------------------------------------------------------------------------
Step(f) ==
  \/ OpenLock(f) \/ OpenFails(f) \/ StatLock(f) \/ RemoveLock(f)
  \/ AppendEntry(f) \/ AppendFails(f) \/ Unlock(f) \/ Requeue(f)

Next ==
  \/ Tick
  \/ \E w \in Writers :
       Queue(w) \/ RemoveLastPending(w) \/ RemoveLast(w) \/ Crash(w) \/ BeginLoad(w)
  \/ \E f \in Flushers : Flush(f) \/ AddToHistory(f) \/ Step(f)

Spec == Init /\ [][Next]_vars

-----------------------------------------------------------------------------
(* Properties.                                                             *)

\* The types of the variables.
TypeOK ==
  /\ now \in 0 .. MaxClock /\ faults \in 0 .. MaxFaults
  /\ file \in Seq(Entries) /\ torn \in BOOLEAN
  /\ lock \in [held : BOOLEAN, mtime : 0 .. MaxClock]
  /\ buf \in [Writers -> Seq(Entries)]
  /\ last \in [Writers -> SUBSET Entries]
  /\ skipped \in [Writers -> SUBSET (0 .. MaxClock)]
  /\ alive \in [Writers -> BOOLEAN]
  /\ flush \in [Flushers -> [pc : {"idle", "open", "stat", "remove", "requeue"} \cup Inside,
                             batch : Seq(Entries), written : Nat, deadline : 0 .. MaxClock]]
  /\ load \in [Writers -> [on : BOOLEAN, pending : Seq(Entries),
                           skip : SUBSET (0 .. MaxClock), lines : Nat]]
  /\ {added, dropped, removed, revived, swallowed} \subseteq SUBSET Entries
  /\ overAged \in BOOLEAN

\* As long as no lock file has reached the age at which others take it for
\* left behind, at most one call is between creating and removing it
\* (withHistoryLock).
LockExcludes ==
  ~overAged => \A f, g \in Flushers : flush[f].pc \in Inside /\ flush[g].pc \in Inside => f = g

Occurrences(s, e) == {i \in DOMAIN s : s[i] = e}
CallPlaces(e) ==
  UNION {{f} \X {i \in Occurrences(flush[f].batch, e) : i > flush[f].written} : f \in Flushers}
Places(e) ==
  ({"buffer"} \X Occurrences(buf[e.writer], e))
  \cup ({"file"} \X Occurrences(file, e))
  \cup CallPlaces(e)
  \cup ({"torn"} \X ({e} \cap swallowed))
  \cup ({"dropped"} \X ({e} \cap dropped))

\* An accepted entry is in one place and only once: the buffer, a flush, the
\* file, behind a torn line, or taken back.  A flush that fails half-way
\* neither loses the rest nor writes it again; only the death of the process
\* loses entries (Flush, Queue and the two ways to remove, in any order).
ExactlyOnce ==
  \A e \in added :
    /\ Cardinality(Places(e)) <= 1
    /\ alive[e.writer] => Places(e) # {}

\* An entry taken back is not listed again by its writer, except while a
\* flush that failed after RemoveLast has put it back into the buffer.
RemovedHidden ==
  \A w \in Writers : alive[w] =>
    \A e \in ToSet(loadHistory(w, buf[w], skipped[w])) :
      e \in removed /\ e.writer = w => e \in revived

\* LoadHistory misses nothing that was in the buffer or in the file when it
\* began: a flush between its two looks moves entries in the direction in
\* which it reads.  An entry of the same millisecond as one taken back is
\* hidden with it.
LoadShowsSettled ==
  \A w \in Writers : load[w].on =>
    \A e \in ToSet(load[w].pending \o SubSeq(file, 1, load[w].lines)) \ removed :
      \/ e \in ToSet(Loaded(w))
      \/ Len(Loaded(w)) = Limit
      \/ \E r \in removed : r.writer = w /\ e.writer = w /\ r.ts = e.ts

\* A writer whose flushes do not overlap writes its entries in the order in
\* which they were entered, whatever fails and is tried again.
FileKeepsOrder ==
  FlushThreads = 1 => \A i, j \in DOMAIN file :
    i < j /\ file[i].writer = file[j].writer => file[i].n < file[j].n

\* What was entered is kept: in one place, and in order.
EntriesKept == ExactlyOnce /\ FileKeepsOrder
=============================================================================
