-------------------------- MODULE FileToolsProofs --------------------------
(***************************************************************************)
(* Proofs about FileTools for every set of files and agents, every number  *)
(* of concurrent uses and every bound.                                     *)
(***************************************************************************)
EXTENDS FileTools, TLAPS

USE FileToolsAssumption

\* EnsureReadState returns a ReadState of the agent: the one it has, or a new
\* one without entries; the others are left alone.
LEMMA EnsureFacts ==
  ASSUME TypeOK, NEW a \in Agents
  PROVE  /\ EnsuredHeap(a) \in Seq([Files -> ReadFileState])
         /\ EnsuredMap(a) \in [Agents -> 0 .. Len(EnsuredHeap(a))]
         /\ EnsuredMap(a)[a] \in 1 .. Len(EnsuredHeap(a))
         /\ Len(heap) <= Len(EnsuredHeap(a))
         /\ \A i \in 1 .. Len(EnsuredHeap(a)) :
              EnsuredHeap(a)[i] = IF i <= Len(heap) THEN heap[i] ELSE NewReadState
<1>1. NewReadState \in [Files -> ReadFileState]
  BY DEF NewReadState, NoEntry, ReadFileState, Time
<1>2. CASE map[a] = 0
  <2>1. EnsuredHeap(a) = Append(heap, NewReadState) /\ EnsuredMap(a) = [map EXCEPT ![a] = Len(heap) + 1]
    BY <1>2 DEF EnsuredHeap, EnsuredMap
  <2>2. heap \in Seq([Files -> ReadFileState]) /\ map \in [Agents -> 0 .. Len(heap)]
    BY DEF TypeOK, MemoryOK
  <2> QED BY <1>1, <2>1, <2>2
<1>3. CASE map[a] # 0
  BY <1>3 DEF EnsuredHeap, EnsuredMap, TypeOK, MemoryOK
<1> QED BY <1>2, <1>3

\* The initial state.
LEMMA InitType ==
  Init => TypeOK
<1> SUFFICES ASSUME Init PROVE TypeOK OBVIOUS
<1>1. /\ NoFile \in File /\ Saved({}, 1) \in File /\ Saved({1}, 1) \in File
      /\ NoFile.mtime <= 1 /\ Saved({}, 1).mtime <= 1 /\ Saved({1}, 1).mtime <= 1
  BY DEF NoFile, Saved, File, Time
<1>2. Idle \in Use /\ Idle.pc = "idle" /\ Idle.read.mtime <= 1
  BY <1>1 DEF Idle, Use, Point, Time, NoFile
<1>3. DiskOK
  BY <1>1 DEF Init, DiskOK, Time
<1>4. MemoryOK
  BY DEF Init, MemoryOK
<1>5. use \in [Procs -> Use] /\ \A p \in Procs : UseOK(use[p])
  BY <1>2 DEF Init, UseOK
<1> QED BY <1>3, <1>4, <1>5 DEF TypeOK

\* Initially nothing was read, and there are no temporary files.
LEMMA InitVersions ==
  Init => Versions /\ UnchangedIsTrue
  BY DEF Init, Versions, UnchangedIsTrue, UseMatches, NoFile, Idle, Procs

\* A step that leaves disk and memory alone and gives one use a good state.
LEMMA UseStep ==
  ASSUME TypeOK, Versions, UNCHANGED <<disk, memory>>, NEW p \in Procs, NEW u,
         use' = [use EXCEPT ![p] = u], UseOK(u), UseMatches(u)
  PROVE  TypeOK' /\ Versions'
<1>1. DiskOK'
  BY DEF TypeOK, DiskOK, disk
<1>2. MemoryOK'
  BY DEF TypeOK, MemoryOK, memory, disk
<1>3. use' \in [Procs -> Use]
  BY DEF TypeOK, UseOK
<1>4. ASSUME NEW q \in Procs PROVE UseOK(use[q])'
  BY DEF TypeOK, UseOK, memory, disk
<1>5. ASSUME NEW q \in Procs PROVE UseMatches(use[q])'
  <2>1. UNCHANGED <<file, tmp>>
    BY DEF disk
  <2>2. UseMatches(use'[q])
    BY DEF Versions, TypeOK
  <2> QED BY <2>1, <2>2 DEF UseMatches, Matches
<1>6. Versions'
  BY <1>5 DEF Versions, Matches, disk, memory
<1> QED BY <1>1, <1>2, <1>3, <1>4, <1>6 DEF TypeOK

\* A use that has returned is in a good state.
LEMMA IdleOK ==
  TypeOK => UseOK(Idle) /\ UseMatches(Idle)
  BY DEF UseOK, UseMatches, Idle, Use, Point, NoFile, File, Time, TypeOK, DiskOK

\* Returning.
LEMMA ReturnStep ==
  ASSUME TypeOK, Versions, UNCHANGED <<disk, memory>>, NEW p \in Procs, Return(p)
  PROVE  TypeOK' /\ Versions'
<1>1. use' = [use EXCEPT ![p] = Idle]
  BY DEF Return
<1>2. UseOK(Idle) /\ UseMatches(Idle)
  BY IdleOK
<1> QED BY <1>1, <1>2, UseStep

\* Moving on to a point at which nothing more is known of the use.
LEMMA GotoStep ==
  ASSUME TypeOK, Versions, UNCHANGED <<disk, memory>>, NEW p \in Procs,
         NEW c \in {"permit", "call", "write"}, Goto(p, c), use[p].pc # "idle"
  PROVE  TypeOK' /\ Versions'
<1> DEFINE u == [use[p] EXCEPT !.pc = c]
<1>1. use' = [use EXCEPT ![p] = u]
  BY DEF Goto, TypeOK
<1>2. UseOK(u)
  BY DEF TypeOK, UseOK, Use, Point
<1>3. UseMatches(u)
  BY DEF TypeOK, UseOK, Use, UseMatches
<1> HIDE DEF u
<1> QED BY <1>1, <1>2, <1>3, UseStep

\* The steps of a tool use that change neither the disk nor a ReadState.
LEMMA LocalSteps ==
  ASSUME TypeOK, Versions, NEW p \in Procs,
         \/ \E op \in ReadOps \cup WriteOps, f \in Files : Start(p, op, f)
         \/ EnsureLookup(p) \/ ReadDedup(p) \/ ReadStat(p) \/ ReadText(p)
         \/ ValidateRead(p) \/ CallRead(p) \/ Permission(p) \/ WriteFails(p)
  PROVE  TypeOK' /\ Versions'
<1>0. UNCHANGED <<disk, memory>>
  BY DEF Start, EnsureLookup, ReadDedup, ReadStat, ReadText, ValidateRead, CallRead,
         ReadForEdit, Permission, WriteFails
<1>a. use \in [Procs -> Use] /\ UseOK(use[p]) /\ UseMatches(use[p]) /\ p[1] \in Agents
  BY DEF TypeOK, Versions, Procs
<1>1. ASSUME NEW op \in ReadOps \cup WriteOps, NEW f \in Files, Start(p, op, f)
      PROVE  TypeOK' /\ Versions'
  <2> DEFINE u == [Idle EXCEPT !.op = op, !.at = f,
                     !.pc = IF op \in ReadOps THEN "ensure" ELSE "validate"]
  <2>1. UseOK(u)
    BY IdleOK DEF UseOK, Use, Point, Idle, NoFile
  <2>2. UseMatches(u)
    BY DEF UseMatches, Idle
  <2>3. use' = [use EXCEPT ![p] = u]
    BY <1>1 DEF Start
  <2> HIDE DEF u
  <2> QED BY <1>0, <2>1, <2>2, <2>3, UseStep
<1>2. CASE EnsureLookup(p)
  <2> DEFINE u == [use[p] EXCEPT !.state = map[p[1]],
                                 !.pc = IF map[p[1]] = 0 THEN "store" ELSE "dedup"]
  <2>1. UseOK(u)
    BY <1>2, <1>a DEF UseOK, Use, Point, EnsureLookup, At, TypeOK, MemoryOK
  <2>2. UseMatches(u)
    BY <1>a DEF UseMatches, UseOK, Use
  <2>3. use' = [use EXCEPT ![p] = u]
    BY <1>2, <1>a DEF EnsureLookup
  <2> HIDE DEF u
  <2> QED BY <1>0, <2>1, <2>2, <2>3, UseStep
<1>3. CASE ReadDedup(p)
  <2>1. CASE Return(p)
    BY <1>0, <2>1, ReturnStep
  <2>2. CASE Goto(p, "stat")
    <3> DEFINE u == [use[p] EXCEPT !.pc = "stat"]
    <3>1. UseOK(u)
      BY <1>3, <1>a DEF UseOK, Use, Point, ReadDedup, At
    <3>2. UseMatches(u)
      BY <1>a DEF UseMatches, UseOK, Use
    <3>3. use' = [use EXCEPT ![p] = u]
      BY <2>2, <1>a DEF Goto
    <3> HIDE DEF u
    <3> QED BY <1>0, <3>1, <3>2, <3>3, UseStep
  <2> QED BY <1>3, <2>1, <2>2 DEF ReadDedup
<1>4. CASE ReadStat(p)
  <2>1. CASE Return(p)
    BY <1>0, <2>1, ReturnStep
  <2>2. CASE file[use[p].at].exists /\ use' = [use EXCEPT ![p].read.mtime = file[use[p].at].mtime, ![p].pc = "text"]
    <3> DEFINE u == [use[p] EXCEPT !.read.mtime = file[use[p].at].mtime, !.pc = "text"]
    <3>1. use[p].at \in Files /\ file[use[p].at] \in File /\ file[use[p].at].mtime <= clock
      BY <1>4, <1>a DEF UseOK, ReadStat, At, TypeOK, DiskOK
    <3>2. UseOK(u)
      BY <1>4, <1>a, <3>1 DEF UseOK, Use, Point, ReadStat, At, File
    <3>3. UseMatches(u)
      BY <1>a, <2>2, <3>1 DEF UseMatches, UseOK, Use, Versions, File
    <3>4. use' = [use EXCEPT ![p] = u]
      BY <2>2, <1>a DEF Use, File
    <3> HIDE DEF u
    <3> QED BY <1>0, <3>2, <3>3, <3>4, UseStep
  <2> QED BY <1>4, <2>1, <2>2 DEF ReadStat
<1>5. CASE ReadText(p)
  <2>1. CASE Return(p)
    BY <1>0, <2>1, ReturnStep
  <2>2. CASE use' = [use EXCEPT ![p].read.content = file[use[p].at].content, ![p].pc = "set"]
    <3> DEFINE u == [use[p] EXCEPT !.read.content = file[use[p].at].content, !.pc = "set"]
    <3>1. use[p].at \in Files /\ file[use[p].at] \in File /\ use[p].pc = "text"
      BY <1>5, <1>a DEF UseOK, ReadText, At, TypeOK, DiskOK
    <3>2. UseOK(u)
      BY <1>a, <3>1 DEF UseOK, Use, Point, File
    <3>3. UseMatches(u)
      BY <1>a, <3>1 DEF UseMatches, Matches, UseOK, Use, File
    <3>4. use' = [use EXCEPT ![p] = u]
      BY <2>2, <1>a DEF Use, File
    <3> HIDE DEF u
    <3> QED BY <1>0, <3>2, <3>3, <3>4, UseStep
  <2> QED BY <1>5, <2>1, <2>2 DEF ReadText
<1>6. ASSUME NEW here \in {"validate", "call"}, NEW next \in {"validated", "called"},
             ReadForEdit(p, here, next)
      PROVE  TypeOK' /\ Versions'
  <2> DEFINE u == [use[p] EXCEPT !.read = file[use[p].at], !.pc = next]
  <2>0. CASE Return(p)
    BY <1>0, <2>0, ReturnStep
  <2>1. use[p].at \in Files /\ file[use[p].at] \in File /\ file[use[p].at].mtime <= clock
    BY <1>6, <1>a DEF UseOK, ReadForEdit, At, TypeOK, DiskOK
  <2>2. UseOK(u)
    BY <1>a, <2>1 DEF UseOK, Use, Point
  <2>3. UseMatches(u)
    BY <1>a DEF UseMatches, UseOK, Use
  <2>4. use' = [use EXCEPT ![p] = u] \/ Return(p)
    BY <1>6, <1>a DEF ReadForEdit
  <2> HIDE DEF u
  <2>5. CASE use' = [use EXCEPT ![p] = u]
    BY <1>0, <2>2, <2>3, <2>5, UseStep
  <2> QED BY <2>0, <2>4, <2>5
<1>7. CASE Permission(p)
  <2>1. use[p].pc # "idle"
    BY <1>7 DEF Permission, At
  <2>2. CASE Return(p)
    BY <1>0, <2>2, ReturnStep
  <2>3. CASE Goto(p, "call")
    BY <1>0, <2>1, <2>3, GotoStep
  <2> QED BY <1>7, <2>2, <2>3 DEF Permission
<1>8. CASE WriteFails(p)
  <2>1. Return(p)
    BY <1>8 DEF WriteFails
  <2> QED BY <1>0, <2>1, ReturnStep
<1> QED BY <1>1, <1>2, <1>3, <1>4, <1>5, <1>6, <1>7, <1>8 DEF ValidateRead, CallRead

\* What a step that leaves the disk alone has to show of the ReadState objects.
HeapGood(h) ==
  /\ h \in Seq([Files -> ReadFileState])
  /\ \A i \in 1 .. Len(h), f \in Files :
       /\ h[i][f].mtime <= clock
       /\ h[i][f].range # "none" => Matches(f, h[i][f].mtime, h[i][f].content)

\* The objects there are, and one without entries.
LEMMA HeapFacts ==
  ASSUME TypeOK, Versions
  PROVE  HeapGood(heap) /\ \A f \in Files : NewReadState[f].mtime <= clock /\ NewReadState[f].range = "none"
  BY DEF HeapGood, TypeOK, MemoryOK, DiskOK, Time, Versions, NewReadState, NoEntry

\* With the ReadState of EnsureReadState all objects are still good.
LEMMA EnsuredGood ==
  ASSUME TypeOK, Versions, NEW a \in Agents
  PROVE  HeapGood(EnsuredHeap(a))
<1> DEFINE h == EnsuredHeap(a)
<1>1. h \in Seq([Files -> ReadFileState])
  BY EnsureFacts
<1>2. ASSUME NEW i \in 1 .. Len(h), NEW f \in Files
      PROVE  /\ h[i][f].mtime <= clock
             /\ h[i][f].range # "none" => Matches(f, h[i][f].mtime, h[i][f].content)
  <2>1. CASE i <= Len(heap)
    <3>1. h[i] = heap[i]
      BY <2>1, EnsureFacts
    <3>2. i \in 1 .. Len(heap)
      BY <2>1, <1>1 DEF TypeOK, MemoryOK
    <3>3. HeapGood(heap)
      BY HeapFacts
    <3> HIDE DEF h
    <3> QED BY <3>1, <3>2, <3>3 DEF HeapGood
  <2>2. CASE ~(i <= Len(heap))
    <3>1. h[i] = NewReadState
      BY <2>2, EnsureFacts
    <3> HIDE DEF h
    <3> QED BY <3>1, HeapFacts
  <2> QED BY <2>1, <2>2
<1> HIDE DEF h
<1>3. HeapGood(h)
  BY <1>1, <1>2 DEF HeapGood
<1> QED BY <1>3 DEF h

\* One entry is replaced by a good one.
LEMMA HeapUpdate ==
  ASSUME NEW h, HeapGood(h), NEW i \in 1 .. Len(h), NEW f \in Files, NEW e \in ReadFileState,
         e.mtime <= clock, e.range # "none" => Matches(f, e.mtime, e.content)
  PROVE  HeapGood(SetEntry(h, i, f, e)) /\ Len(SetEntry(h, i, f, e)) = Len(h)
<1> DEFINE g == SetEntry(h, i, f, e)
<1>1. h \in Seq([Files -> ReadFileState])
  BY DEF HeapGood
<1>2. g \in Seq([Files -> ReadFileState]) /\ Len(g) = Len(h)
  BY <1>1 DEF SetEntry
<1>3. ASSUME NEW j \in 1 .. Len(h), NEW k \in Files
      PROVE  g[j][k] = IF j = i /\ k = f THEN e ELSE h[j][k]
  BY <1>1 DEF SetEntry
<1>4. ASSUME NEW j \in 1 .. Len(h), NEW k \in Files
      PROVE  /\ g[j][k].mtime <= clock
             /\ g[j][k].range # "none" => Matches(k, g[j][k].mtime, g[j][k].content)
  <2>1. CASE j = i /\ k = f
    BY <1>3, <2>1
  <2>2. CASE ~(j = i /\ k = f)
    <3>1. g[j][k] = h[j][k]
      BY <1>3, <2>2
    <3> QED BY <3>1 DEF HeapGood
  <2> QED BY <2>1, <2>2
<1> QED BY <1>2, <1>4 DEF HeapGood

\* A step that leaves the disk alone, extends or updates the ReadState objects
\* and gives one use a good state.
LEMMA MemoryStep ==
  ASSUME TypeOK, Versions, UNCHANGED disk, HeapGood(heap'), Len(heap) <= Len(heap'),
         map' \in [Agents -> 0 .. Len(heap')],
         NEW p \in Procs, NEW u \in Use, use' = [use EXCEPT ![p] = u],
         u.pc # "idle" => u.at \in Files,
         u.pc \in {"dedup", "stat", "text", "set"} => u.state \in 1 .. Len(heap'),
         u.read.mtime <= clock, UseMatches(u)
  PROVE  TypeOK' /\ Versions'
<1>0. clock' = clock /\ file' = file /\ tmp' = tmp
  BY DEF disk
<1>1. DiskOK'
  BY <1>0 DEF TypeOK, DiskOK
<1>h. heap' \in Seq([Files -> ReadFileState]) /\ heap \in Seq([Files -> ReadFileState])
  BY DEF HeapGood, TypeOK, MemoryOK
<1>d. DOMAIN heap' = 1 .. Len(heap') /\ DOMAIN heap = 1 .. Len(heap) /\ Len(heap) \in Nat /\ Len(heap') \in Nat
  BY <1>h
<1>2. MemoryOK'
  BY <1>0, <1>d DEF HeapGood, MemoryOK
<1>3. use' \in [Procs -> Use]
  BY DEF TypeOK
<1>4. ASSUME NEW q \in Procs PROVE UseOK(use[q])'
  <2>1. CASE q = p
    BY <2>1, <1>0, <1>d DEF TypeOK, UseOK
  <2>2. CASE q # p
    <3>1. UseOK(use[q]) /\ use'[q] = use[q]
      BY <2>2 DEF TypeOK
    <3>2. use[q].pc \in {"dedup", "stat", "text", "set"} => use[q].state \in DOMAIN heap'
      BY <3>1, <1>d DEF UseOK
    <3> QED BY <3>1, <3>2, <1>0 DEF UseOK
  <2> QED BY <2>1, <2>2
<1>5. ASSUME NEW q \in Procs PROVE UseMatches(use[q])'
  <2>1. UseMatches(use'[q])
    BY DEF Versions, TypeOK
  <2> QED BY <1>0, <2>1 DEF UseMatches, Matches
<1>6. ASSUME NEW i \in DOMAIN heap', NEW f \in Files, heap'[i][f].range # "none"
      PROVE  Matches(f, heap[i][f].mtime, heap[i][f].content)'
  BY <1>0, <1>d, <1>6 DEF HeapGood, Matches
<1>7. Versions'
  BY <1>0, <1>5, <1>6 DEF Versions
<1> QED BY <1>1, <1>2, <1>3, <1>4, <1>7 DEF TypeOK

\* The steps that look up, extend or update a ReadState.
LEMMA MemorySteps ==
  ASSUME TypeOK, Versions, NEW p \in Procs,
         EnsureStore(p) \/ ReadSet(p) \/ ValidateCheck(p) \/ CallCheck(p) \/ Refresh(p)
  PROVE  TypeOK' /\ Versions'
<1>a. use \in [Procs -> Use] /\ UseOK(use[p]) /\ UseMatches(use[p]) /\ p[1] \in Agents
  BY DEF TypeOK, Versions, Procs
<1>m. map \in [Agents -> 0 .. Len(heap)] /\ heap \in Seq([Files -> ReadFileState]) /\ Len(heap) \in Nat
  BY DEF TypeOK, MemoryOK
<1>i. /\ Idle \in Use /\ Idle.pc = "idle" /\ Idle.read.mtime <= clock /\ UseMatches(Idle)
  BY IdleOK DEF UseOK, Idle
<1>1. CASE EnsureStore(p)
  <2> DEFINE u == [use[p] EXCEPT !.state = Len(heap) + 1, !.pc = "dedup"]
  <2>1. UNCHANGED disk
    BY <1>1 DEF EnsureStore
  <2>2. heap' = Append(heap, NewReadState) /\ Len(heap') = Len(heap) + 1
    BY <1>1, <1>m DEF EnsureStore
  <2>n. NewReadState \in [Files -> ReadFileState]
    BY DEF NewReadState, NoEntry, ReadFileState, Time
  <2>3. HeapGood(heap')
    BY <2>2, <2>n, <1>m, HeapFacts DEF HeapGood
  <2>4. map' \in [Agents -> 0 .. Len(heap')]
    BY <1>1, <1>m, <1>a, <2>2 DEF EnsureStore
  <2>5. u \in Use /\ u.pc = "dedup" /\ u.state = Len(heap) + 1 /\ u.at \in Files /\ u.read.mtime <= clock
    BY <1>1, <1>a, <1>m DEF EnsureStore, At, Use, Point, UseOK
  <2>6. UseMatches(u)
    BY <2>5 DEF UseMatches
  <2>7. use' = [use EXCEPT ![p] = u]
    BY <1>1, <1>a DEF EnsureStore
  <2>8. u.state \in 1 .. Len(heap') /\ Len(heap) <= Len(heap')
    BY <2>2, <2>5, <1>m
  <2> HIDE DEF u
  <2> QED BY <2>1, <2>3, <2>4, <2>5, <2>6, <2>7, <2>8, MemoryStep
<1>2. CASE ReadSet(p)
  <2> DEFINE u == use[p]
             e == ReadEntry(u)
  <2>1. u.at \in Files /\ u.state \in 1 .. Len(heap) /\ u.pc = "set"
    BY <1>2, <1>a, <1>m DEF ReadSet, At, UseOK
  <2>2. e \in ReadFileState /\ e.mtime = u.read.mtime /\ e.content = u.read.content /\ e.mtime <= clock
    BY <1>a DEF ReadEntry, ReadFileState, UseOK, Use, File, ReadRange
  <2>3. e.range # "none" => Matches(u.at, e.mtime, e.content)
    BY <1>a, <2>1, <2>2 DEF UseMatches
  <2>4. heap' = SetEntry(heap, u.state, u.at, e)
    BY <1>2 DEF ReadSet
  <2>5. HeapGood(heap)
    BY HeapFacts
  <2> HIDE DEF e, u
  <2>6. HeapGood(heap') /\ Len(heap') = Len(heap)
    BY <2>1, <2>2, <2>3, <2>4, <2>5, HeapUpdate
  <2>7. map' = map /\ use' = [use EXCEPT ![p] = Idle]
    BY <1>2 DEF ReadSet, Return
  <2>8. map' \in [Agents -> 0 .. Len(heap')] /\ Len(heap) <= Len(heap')
    BY <2>6, <2>7, <1>m
  <2>9. UNCHANGED disk
    BY <1>2 DEF ReadSet
  <2> QED BY <2>6, <2>7, <2>8, <2>9, <1>i, MemoryStep
<1>3. ASSUME NEW here \in {"validated", "called"}, NEW next \in {"permit", "write"},
             NEW checks \in BOOLEAN, NEW allows, Check(p, here, next, checks, allows)
      PROVE  TypeOK' /\ Versions'
  <2> DEFINE u == [use[p] EXCEPT !.pc = next]
  <2>1. UNCHANGED disk
    BY <1>3 DEF Check
  <2>2. /\ HeapGood(heap') /\ Len(heap) <= Len(heap')
        /\ map' \in [Agents -> 0 .. Len(heap')]
    <3>1. CASE checks
      <4>1. heap' = EnsuredHeap(p[1]) /\ map' = EnsuredMap(p[1])
        BY <1>3, <3>1 DEF Check
      <4>2. HeapGood(EnsuredHeap(p[1]))
        BY <1>a, EnsuredGood
      <4> QED BY <4>1, <4>2, <1>a, EnsureFacts
    <3>2. CASE ~checks
      <4>1. heap' = heap /\ map' = map
        BY <1>3, <3>2 DEF Check
      <4>2. HeapGood(heap)
        BY HeapFacts
      <4> QED BY <4>1, <4>2, <1>m
    <3> QED BY <3>1, <3>2
  <2>3. u \in Use /\ u.pc \in {"permit", "write"} /\ u.at \in Files /\ u.read.mtime <= clock
    BY <1>3, <1>a DEF Check, At, Use, Point, UseOK
  <2>4. UseMatches(u)
    BY <2>3 DEF UseMatches
  <2>5. CASE use' = [use EXCEPT ![p] = Idle]
    BY <2>1, <2>2, <2>5, <1>i, MemoryStep
  <2>6. CASE use' = [use EXCEPT ![p] = u]
    <3> HIDE DEF u
    <3>1. u.pc \in {"dedup", "stat", "text", "set"} => u.state \in 1 .. Len(heap')
      BY <2>3
    <3> QED BY <2>1, <2>2, <2>3, <2>4, <2>6, <3>1, MemoryStep
  <2>7. Return(p) \/ Goto(p, next)
    BY <1>3 DEF Check
  <2> QED BY <2>5, <2>6, <2>7, <1>a DEF Return, Goto
<1>4. CASE Refresh(p)
  <2> DEFINE a == p[1]
             h == EnsuredHeap(a)
             f == use[p].at
             e == WriteEntry(use[p], file[f].mtime)
  <2>1. UNCHANGED disk
    BY <1>4 DEF Refresh
  <2>2. use' = [use EXCEPT ![p] = Idle] /\ map' = EnsuredMap(a)
    BY <1>4 DEF Refresh, Return
  <2>3. HeapGood(h)
    BY <1>a, EnsuredGood
  <2>4. map' \in [Agents -> 0 .. Len(h)] /\ map'[a] \in 1 .. Len(h) /\ Len(heap) <= Len(h)
    BY <1>a, <2>2, EnsureFacts
  <2>5. heap' = h \/ heap' = SetEntry(h, map'[a], f, e)
    BY <1>4 DEF Refresh
  <2>6. HeapGood(heap') /\ Len(heap') = Len(h)
    <3>1. f \in Files /\ file[f] \in File /\ file[f].mtime <= clock
      BY <1>4, <1>a DEF Refresh, At, UseOK, TypeOK, DiskOK
    <3>2. e \in ReadFileState /\ e.mtime <= clock /\ (e.range # "none" => Matches(f, e.mtime, e.content))
      BY <1>a, <3>1 DEF WriteEntry, Updated, ReadFileState, UseOK, Use, File
    <3>3. e.range # "none" => Matches(f, e.mtime, e.content)
      BY <3>2
    <3> HIDE DEF e, h, f
    <3>4. CASE heap' = h
      BY <2>3, <3>4
    <3>5. CASE heap' = SetEntry(h, map'[a], f, e)
      BY <2>3, <2>4, <3>1, <3>2, <3>3, <3>5, HeapUpdate
    <3> QED BY <2>5, <3>4, <3>5
  <2>7. map' \in [Agents -> 0 .. Len(heap')] /\ Len(heap) <= Len(heap')
    BY <2>4, <2>6
  <2> QED BY <2>1, <2>2, <2>6, <2>7, <1>i, MemoryStep
<1>5. ValidateChecks(use[p].op, use[p].read) \in BOOLEAN /\ CallChecks(use[p].op, use[p].read) \in BOOLEAN
  BY <1>a DEF ValidateChecks, CallChecks, Use, File
<1> QED BY <1>1, <1>2, <1>3, <1>4, <1>5 DEF ValidateCheck, CallCheck

\* Where a step on the disk leaves what was recorded: what matched still matches.
StillMatches ==
  \A c : \A f \in Files, t \in 0 .. clock : Matches(f, t, c) => Matches(f, t, c)'

\* A step on the disk keeps the recorded times and texts good.
LEMMA DiskStep ==
  ASSUME TypeOK, Versions, UNCHANGED memory, DiskOK', clock <= clock', StillMatches,
         \A f \in Files : tmp'[f].exists => \/ tmp'[f] = tmp[f]
                                             \/ tmp'[f].mtime = clock + 1,
         \A f \in Files : file'[f].exists /\ tmp'[f].exists => tmp'[f].mtime # file'[f].mtime,
         use' \in [Procs -> Use],
         \A q \in Procs : \/ use'[q] = use[q]
                          \/ UseOK(use[q])' /\ use'[q].pc \notin {"text", "set"}
  PROVE  TypeOK' /\ Versions'
<1>0. map' = map /\ heap' = heap /\ clock \in Nat /\ clock' \in Nat
  BY DEF memory, TypeOK, DiskOK, Time
<1>1. MemoryOK'
  <2>1. \A i \in DOMAIN heap, f \in Files : heap[i][f].mtime <= clock /\ heap[i][f].mtime \in Nat
    BY DEF TypeOK, MemoryOK, ReadFileState, Time
  <2> QED BY <1>0, <2>1 DEF TypeOK, MemoryOK
<1>2. ASSUME NEW q \in Procs PROVE UseOK(use[q])'
  <2>1. CASE use'[q] = use[q]
    <3>1. UseOK(use[q]) /\ use[q].read.mtime \in Nat
      BY DEF TypeOK, UseOK, Use, File, Time
    <3> QED BY <1>0, <2>1, <3>1 DEF UseOK
  <2> QED BY <2>1
<1>3. ASSUME NEW i \in DOMAIN heap, NEW f \in Files, heap[i][f].range # "none"
      PROVE  Matches(f, heap[i][f].mtime, heap[i][f].content)'
  <2>1. heap[i][f].mtime \in 0 .. clock
    BY <1>0 DEF TypeOK, MemoryOK, ReadFileState, Time
  <2>2. Matches(f, heap[i][f].mtime, heap[i][f].content)
    BY <1>3 DEF Versions
  <2> DEFINE t == heap[i][f].mtime
             c == heap[i][f].content
  <2>3. t' = t /\ c' = c
    BY <1>0
  <2> HIDE DEF t, c
  <2>4. t \in 0 .. clock /\ Matches(f, t, c)
    BY <2>1, <2>2 DEF t, c
  <2>5. Matches(f, t, c)'
    BY <2>3, <2>4, ZenonT(60) DEF StillMatches, Matches
  <2> QED BY <2>5 DEF t, c
<1>4. ASSUME NEW q \in Procs PROVE UseMatches(use[q])'
  <2>1. CASE use'[q] = use[q]
    <3> DEFINE u == use[q]
    <3>1. UseMatches(u) /\ UseOK(u) /\ u.read.mtime \in 0 .. clock
      BY <1>0 DEF Versions, TypeOK, UseOK, Use, File, Time
    <3>2. u.pc = "text" /\ tmp'[u.at].exists => tmp'[u.at].mtime # u.read.mtime
      BY <1>0, <3>1 DEF UseMatches, UseOK
    <3>3. ASSUME u.pc = "set" PROVE Matches(u.at, u.read.mtime, u.read.content)'
      <4> DEFINE f == u.at
                 t == u.read.mtime
                 c == u.read.content
      <4>1. f' = f /\ t' = t /\ c' = c
        BY <2>1
      <4>2. f \in Files /\ t \in 0 .. clock /\ Matches(f, t, c)
        BY <3>1, <3>3 DEF UseMatches, UseOK
      <4> HIDE DEF f, t, c
      <4>3. Matches(f, t, c)'
        BY <4>1, <4>2, SMTT(60) DEF StillMatches, Matches
      <4> QED BY <4>3 DEF f, t, c
    <3> QED BY <2>1, <3>2, <3>3 DEF UseMatches
  <2>2. CASE use'[q].pc \notin {"text", "set"}
    BY <2>2 DEF UseMatches
  <2> QED BY <2>1, <2>2
<1>5. Versions'
  BY <1>0, <1>3, <1>4 DEF Versions
<1> QED BY <1>1, <1>2, <1>5 DEF TypeOK

\* AtomicWriteFile writes its temporary file at a time of its own.
LEMMA WriteTmpStep ==
  ASSUME TypeOK, Versions, NEW p \in Procs, WriteTmp(p)
  PROVE  TypeOK' /\ Versions'
<1> DEFINE f == use[p].at
           t == clock + 1
           new == Saved(Updated(use[p].op, use[p].read.content, t), t)
           u == [use[p] EXCEPT !.pc = "rename", !.time = t]
<1>1. use \in [Procs -> Use] /\ UseOK(use[p]) /\ f \in Files /\ use[p].read \in File
  BY DEF WriteTmp, At, TypeOK, UseOK, Use
<1>2. clock \in Nat /\ t \in Time /\ clock \in Time
  BY DEF WriteTmp, TypeOK, DiskOK, Time
<1>3. new \in File /\ new.mtime = t
  BY <1>1, <1>2 DEF Saved, Updated, File, Time
<1>4. clock' = t /\ file' = file /\ tmp' = [tmp EXCEPT ![f] = new] /\ use' = [use EXCEPT ![p] = u]
  BY <1>1 DEF WriteTmp
<1>5. UNCHANGED memory
  BY DEF WriteTmp
<1>6. \A g \in Files : file[g].mtime <= clock /\ tmp[g].mtime <= clock /\ file[g].mtime \in Nat /\ tmp[g].mtime \in Nat
  BY DEF TypeOK, DiskOK, File, Time
<1>t. tmp \in [Files -> File] /\ file \in [Files -> File]
  BY DEF TypeOK, DiskOK
<1>7. DiskOK'
  <2> HIDE DEF new, t, f, u
  <2>1. tmp' \in [Files -> File]
    BY <1>1, <1>3, <1>4, <1>t
  <2>2. \A g \in Files : file'[g].mtime <= clock' /\ tmp'[g].mtime <= clock'
    BY <1>1, <1>2, <1>3, <1>4, <1>6, <1>t DEF t
  <2> QED BY <1>2, <1>4, <1>t, <2>1, <2>2 DEF DiskOK
<1>8. StillMatches
  <2> HIDE DEF new, f, u
  <2> QED BY <1>1, <1>2, <1>3, <1>4, <1>6, <1>t DEF StillMatches, Matches
<1>9. \A g \in Files : tmp'[g].exists => tmp'[g] = tmp[g] \/ tmp'[g].mtime = clock + 1
  BY <1>1, <1>3, <1>4, <1>t
<1>10. \A g \in Files : file'[g].exists /\ tmp'[g].exists => tmp'[g].mtime # file'[g].mtime
  <2> HIDE DEF new, f, u
  <2> QED BY <1>1, <1>2, <1>3, <1>4, <1>6, <1>t DEF Versions
<1>11. u \in Use /\ u.pc = "rename" /\ u.at \in Files /\ u.read = use[p].read
  BY <1>1, <1>2, ZenonT(60) DEF Use, Point
<1>12. use' \in [Procs -> Use] /\ use'[p] = u
  BY <1>1, <1>4, <1>11
<1>13. u.read.mtime <= clock'
  BY <1>1, <1>2, <1>4, <1>11 DEF UseOK, File, Time
<1>14. UseOK(use[p])'
  <2> HIDE DEF u
  <2> QED BY <1>11, <1>12, <1>13 DEF UseOK
<1>15. \A q \in Procs : \/ use'[q] = use[q]
                        \/ UseOK(use[q])' /\ use'[q].pc \notin {"text", "set"}
  BY <1>1, <1>4, <1>11, <1>12, <1>14
<1>16. clock <= clock'
  BY <1>2, <1>4
<1> QED BY <1>5, <1>7, <1>8, <1>9, <1>10, <1>12, <1>15, <1>16, DiskStep

\* A rename brings in a time nobody has recorded.
LEMMA RenameStep ==
  ASSUME TypeOK, Versions, NEW p \in Procs, Rename(p)
  PROVE  TypeOK' /\ Versions'
<1> DEFINE f == use[p].at
           u == [use[p] EXCEPT !.pc = "refresh"]
<1>1. use \in [Procs -> Use] /\ UseOK(use[p]) /\ f \in Files
  BY DEF Rename, At, TypeOK, UseOK
<1>2. UNCHANGED memory /\ clock' = clock
  BY DEF Rename
<1>3. CASE ~tmp[f].exists
  <2>1. UNCHANGED <<disk, memory>>
    BY <1>3 DEF Rename, disk
  <2>2. Return(p)
    BY <1>3 DEF Rename
  <2> QED BY <2>1, <2>2, ReturnStep
<1>4. CASE tmp[f].exists
  <2>1. file' = [file EXCEPT ![f] = tmp[f]] /\ tmp' = [tmp EXCEPT ![f] = NoFile] /\ use' = [use EXCEPT ![p] = u]
    BY <1>1, <1>4 DEF Rename, Goto
  <2>2. NoFile \in File /\ ~NoFile.exists /\ NoFile.mtime = 0
    BY DEF NoFile, File, Time
  <2>3. tmp \in [Files -> File] /\ file \in [Files -> File] /\ clock \in Nat
    BY DEF TypeOK, DiskOK, Time
  <2>4. DiskOK'
    BY <1>1, <1>2, <2>1, <2>2, <2>3 DEF TypeOK, DiskOK
  <2>5. StillMatches
    <3> HIDE DEF f
    <3> QED BY <1>1, <1>4, <2>1, <2>2, <2>3 DEF StillMatches, Matches
  <2>6. \A g \in Files : tmp'[g].exists => tmp'[g] = tmp[g] \/ tmp'[g].mtime = clock + 1
    BY <1>1, <2>1, <2>2, <2>3
  <2>7. \A g \in Files : file'[g].exists /\ tmp'[g].exists => tmp'[g].mtime # file'[g].mtime
    BY <1>1, <2>1, <2>2, <2>3 DEF Versions
  <2>8. u \in Use /\ u.pc = "refresh" /\ u.at \in Files /\ u.read = use[p].read
    BY <1>1 DEF Use, Point
  <2>9. use' \in [Procs -> Use] /\ use'[p] = u
    BY <1>1, <2>1, <2>8
  <2>10. UseOK(use[p])'
    <3> HIDE DEF u
    <3> QED BY <1>1, <1>2, <2>8, <2>9 DEF UseOK
  <2>11. \A q \in Procs : \/ use'[q] = use[q]
                          \/ UseOK(use[q])' /\ use'[q].pc \notin {"text", "set"}
    BY <1>1, <2>1, <2>8, <2>9, <2>10
  <2>12. clock <= clock'
    BY <1>2, <2>3
  <2> QED BY <1>2, <2>4, <2>5, <2>6, <2>7, <2>9, <2>11, <2>12, DiskStep
<1> QED BY <1>3, <1>4

\* The user saves or deletes a file.
LEMMA UserStep ==
  ASSUME TypeOK, Versions, NEW f \in Files, UserSaves(f) \/ UserDeletes(f)
  PROVE  TypeOK' /\ Versions'
<1> DEFINE t == clock + 1
<1>1. UNCHANGED memory /\ use' = use /\ tmp' = tmp
  BY DEF UserSaves, UserDeletes
<1>2. tmp \in [Files -> File] /\ file \in [Files -> File] /\ clock \in Nat /\ clock \in Time
  BY DEF TypeOK, DiskOK, Time
<1>3. \A g \in Files : file[g].mtime <= clock /\ tmp[g].mtime <= clock /\ file[g].mtime \in Nat /\ tmp[g].mtime \in Nat
  BY DEF TypeOK, DiskOK, File, Time
<1>4. PICK new \in File : /\ file' = [file EXCEPT ![f] = new]
                          /\ new.exists => new.mtime = t
                          /\ new.mtime <= clock'
                          /\ clock' \in Time /\ clock' \in {clock, t}
  <2>1. CASE UserSaves(f)
    <3> DEFINE new == Saved(file[f].content \cup {t}, t)
    <3>1. new \in File /\ new.mtime = t /\ t \in Time
      BY <1>2, <2>1 DEF Saved, File, Time, UserSaves
    <3>2. file' = [file EXCEPT ![f] = new] /\ clock' = t
      BY <1>2, <2>1 DEF UserSaves
    <3>3. new.mtime <= clock' /\ clock' \in Time /\ clock' \in {clock, t}
      BY <3>1, <3>2, <1>2
    <3> HIDE DEF new, t
    <3> new \in File
      BY <3>1
    <3> WITNESS new \in File
    <3> QED BY <3>1, <3>2, <3>3
  <2>2. CASE UserDeletes(f)
    <3>1. NoFile \in File /\ ~NoFile.exists /\ NoFile.mtime = 0
      BY DEF NoFile, File, Time
    <3>2. file' = [file EXCEPT ![f] = NoFile] /\ clock' = clock
      BY <2>2 DEF UserDeletes
    <3>3. NoFile.mtime <= clock' /\ clock' \in Time /\ clock' \in {clock, t}
      BY <3>1, <3>2, <1>2
    <3> HIDE DEF t
    <3> NoFile \in File
      BY <3>1
    <3> WITNESS NoFile \in File
    <3> QED BY <3>1, <3>2, <3>3
  <2> QED BY <2>1, <2>2
<1>5. DiskOK'
  BY <1>1, <1>2, <1>3, <1>4 DEF DiskOK
<1>6. StillMatches
  BY <1>1, <1>2, <1>3, <1>4 DEF StillMatches, Matches
<1>7. \A g \in Files : tmp'[g].exists => tmp'[g] = tmp[g] \/ tmp'[g].mtime = clock + 1
  BY <1>1
<1>8. \A g \in Files : file'[g].exists /\ tmp'[g].exists => tmp'[g].mtime # file'[g].mtime
  BY <1>1, <1>2, <1>3, <1>4 DEF Versions
<1>9. use' \in [Procs -> Use]
  BY <1>1 DEF TypeOK
<1>10. \A q \in Procs : \/ use'[q] = use[q]
                        \/ UseOK(use[q])' /\ use'[q].pc \notin {"text", "set"}
  BY <1>1
<1>11. clock <= clock'
  BY <1>2, <1>4
<1> QED BY <1>1, <1>5, <1>6, <1>7, <1>8, <1>9, <1>10, <1>11, DiskStep

\* The metadata map is replaced.
LEMMA NewMetadataStep ==
  ASSUME TypeOK, Versions, NEW a \in Agents, NewMetadata(a)
  PROVE  TypeOK' /\ Versions'
<1>1. UNCHANGED <<disk, heap, use>> /\ map' = [map EXCEPT ![a] = 0]
  BY DEF NewMetadata
<1>2. TypeOK'
  BY <1>1 DEF TypeOK, DiskOK, MemoryOK, UseOK, disk
<1>3. Versions'
  BY <1>1 DEF Versions, UseMatches, Matches, disk
<1> QED BY <1>2, <1>3

\* The answer of ReadDedup is true in a state with matching versions, and no
\* other step gives one.
LEMMA DedupStep ==
  ASSUME TypeOK, Versions, UnchangedIsTrue, [Next]_vars
  PROVE  UnchangedIsTrue'
<1>1. ASSUME NEW p \in Procs, ReadDedup(p) PROVE UnchangedIsTrue'
  <2> DEFINE f == use[p].at
             i == use[p].state
  <2>1. f \in Files /\ i \in DOMAIN heap
    BY <1>1 DEF ReadDedup, At, TypeOK, UseOK
  <2>2. heap[i][f].range # "none" => Matches(f, heap[i][f].mtime, heap[i][f].content)
    BY <2>1 DEF Versions
  <2>3. Unchanged(heap[i][f], use[p].op, f) => file[f].content = heap[i][f].content
    BY <2>2 DEF Unchanged, ReadRange, Matches
  <2> QED BY <1>1, <2>3 DEF ReadDedup, UnchangedIsTrue
<1>2. CASE misled' = misled
  BY <1>2 DEF UnchangedIsTrue
<1>3. \/ \E p \in Procs : ReadDedup(p)
      \/ misled' = misled
  BY ZenonT(60) DEF Next, ToolStep, vars, history, Start, EnsureLookup, EnsureStore, ReadStat, ReadText,
         ReadSet, ValidateRead, CallRead, ReadForEdit, ValidateCheck, CallCheck, Check, Permission,
         WriteTmp, WriteFails, Rename, Refresh, NewMetadata, UserSaves, UserDeletes
<1> QED BY <1>1, <1>2, <1>3

\* Every step keeps types and versions.
LEMMA NextGood ==
  ASSUME TypeOK, Versions, [Next]_vars
  PROVE  TypeOK' /\ Versions'
<1>1. CASE UNCHANGED vars
  <2>1. UNCHANGED <<disk, memory, use>>
    BY <1>1 DEF vars
  <2>2. TypeOK'
    BY <2>1 DEF TypeOK, DiskOK, MemoryOK, UseOK, disk, memory
  <2>3. Versions'
    BY <2>1 DEF Versions, UseMatches, Matches, disk, memory
  <2> QED BY <2>2, <2>3
<1>2. ASSUME NEW p \in Procs, ToolStep(p) PROVE TypeOK' /\ Versions'
  BY <1>2, LocalSteps, MemorySteps, WriteTmpStep, RenameStep DEF ToolStep
<1>3. ASSUME NEW a \in Agents, NewMetadata(a) PROVE TypeOK' /\ Versions'
  BY <1>3, NewMetadataStep
<1>4. ASSUME NEW f \in Files, UserSaves(f) \/ UserDeletes(f) PROVE TypeOK' /\ Versions'
  BY <1>4, UserStep
<1> QED BY <1>1, <1>2, <1>3, <1>4 DEF Next

\* The file tools are type correct: references lead to ReadState objects, and no
\* recorded modification time lies in the future.
THEOREM FileToolsTypes ==
  Spec => []TypeOK
<1>1. Init => TypeOK /\ Versions
  BY InitType, InitVersions
<1>2. TypeOK /\ Versions /\ [Next]_vars => (TypeOK /\ Versions)'
  BY NextGood
<1> QED BY <1>1, <1>2, PTL DEF Spec

\* When Read answers "file unchanged", the file holds what the earlier Read
\* returned, whatever agents and users do meanwhile.
THEOREM UnchangedAnswersAreTrue ==
  Spec => []UnchangedIsTrue
<1>1. Init => TypeOK /\ Versions /\ UnchangedIsTrue
  BY InitType, InitVersions
<1>2. TypeOK /\ Versions /\ UnchangedIsTrue /\ [Next]_vars => (TypeOK /\ Versions /\ UnchangedIsTrue)'
  BY NextGood, DedupStep
<1> QED BY <1>1, <1>2, PTL DEF Spec

-----------------------------------------------------------------------------
(* What a single agent has been shown.  The proof of StaleWriteRejected: what   *)
(* is overwritten was read by the call, the call compared it with an entry, and *)
(* an entry vouches only for what the agent was shown.                          *)

\* What the agent was shown or made itself, and what fell into one of the gaps.
Shown(a) == seen[a] \cup createGap \cup refreshGap

ReadPoints  == {"ensure", "store", "dedup", "stat", "text", "set"}
WritePoints == {"validate", "validated", "permit", "call", "called", "write", "rename", "refresh"}

\* A file that is not there has no content, and AtomicWriteFile writes only what
\* the agent knows of.
FilesKnown(a) ==
  \A f \in Files : /\ file[f].exists \/ file[f].content = {}
                   /\ tmp[f].exists => tmp[f].content \subseteq Shown(a)

\* The text of an entry of a full read was shown, and so was the text of a file
\* that is not newer than the entry.
EntryKnown(a, f, e) ==
  FullRead(e) => /\ e.content \subseteq Shown(a)
                 /\ file[f].exists /\ file[f].mtime <= e.mtime => file[f].content \subseteq Shown(a)

EntriesKnown(a) == \A i \in DOMAIN heap, f \in Files : EntryKnown(a, f, heap[i][f])

\* Reading: a file not newer than the time looked up holds the text read.
ReadKnown(u) ==
  /\ u.pc \in ReadPoints => u.op \in ReadOps
  /\ u.pc = "set" /\ file[u.at].exists /\ file[u.at].mtime <= u.read.mtime
       => file[u.at].content \subseteq u.read.content

\* Creating: only what the user saved since the validation is in the file.
CreateKnown(a, u) ==
  /\ u.pc \in {"permit", "call"} => u.read.content = {}
  /\ u.pc \in {"validated", "permit", "call"} /\ u.read.content = {}
       => file[u.at].content \subseteq createGap
  /\ u.pc = "called" => u.read.content \subseteq Shown(a)

\* Writing: until the check a file no newer than an entry is the one the call
\* read; after it what the call read was shown.
WriteKnown(a, u) ==
  /\ u.pc \in WritePoints => u.op \in WriteOps
  /\ u.pc \in {"validated", "permit", "called"} => u.read.exists \/ u.read.content = {}
  /\ u.pc = "called" =>
       \A i \in DOMAIN heap : file[u.at].exists /\ file[u.at].mtime <= heap[i][u.at].mtime
                                => file[u.at].content = u.read.content
  /\ u.pc \in {"write", "rename", "refresh"} => u.read.content \subseteq Shown(a)
  /\ u.pc \in {"rename", "refresh"} => u.time \in Shown(a)
  /\ u.pc = "refresh" => file[u.at].content \subseteq Shown(a)

UseKnown(a, u) ==
  /\ u.op = "none" => u.pc = "idle"
  /\ ReadKnown(u) /\ WriteKnown(a, u)
  /\ u.op = "Create" => CreateKnown(a, u)

UsesKnown(a) == \A p \in Procs : UseKnown(a, use[p])

\* A use that writes runs alone.
Alone == \A p, q \in Procs : use[p].op \in WriteOps /\ p # q => use[q].op = "none"

Known(a) ==
  FilesKnown(a) /\ EntriesKnown(a) /\ UsesKnown(a) /\ Alone /\ StaleWriteRejected

\* There is a record of what each agent was shown.
Recorded == DOMAIN seen = Agents

\* What is known stays known: a step of p leaves the other uses alone.
Kept(p) == \A q \in Procs : q # p => use'[q] = use[q]
Grows(a) == createGap \subseteq createGap' /\ Shown(a) \subseteq Shown(a)'

\* Initially nothing is under way.
LEMMA InitKnown ==
  ASSUME NEW me, Agents = {me}, Init PROVE Known(me)
<1>n. NoFile.content = {} /\ NoFile.exists = FALSE /\ \A c, t : Saved(c, t).exists = TRUE
  BY DEF NoFile, Saved
<1>f. \A f \in Files : file[f] \in {NoFile, Saved({}, 1), Saved({1}, 1)} /\ tmp[f] = NoFile
  BY DEF Init
<1>1. FilesKnown(me)
  <2>1. ASSUME NEW f \in Files PROVE file[f].exists \/ file[f].content = {}
    <3>1. file[f] = NoFile \/ file[f].exists = TRUE
      BY <1>n, <1>f
    <3> QED BY <1>n, <3>1, Zenon
  <2>2. \A f \in Files : ~tmp[f].exists
    BY <1>n, <1>f, Zenon
  <2> QED BY <2>1, <2>2, Zenon DEF FilesKnown
<1>2. EntriesKnown(me)
  <2>1. heap = <<>> /\ DOMAIN heap = {}
    BY DEF Init
  <2> QED BY <2>1 DEF EntriesKnown
<1>3. \A p \in Procs : use[p].op = "none" /\ use[p].pc = "idle"
  BY DEF Init, Idle
<1>4. UsesKnown(me) /\ Alone
  BY <1>3 DEF UsesKnown, UseKnown, ReadKnown, WriteKnown, CreateKnown, ReadPoints, WritePoints, Alone, WriteOps
<1> QED BY <1>1, <1>2, <1>4 DEF Known, StaleWriteRejected, Init

\* A use that has returned knows nothing.
LEMMA IdleKnown ==
  ASSUME NEW me, NEW p, use'[p] = Idle PROVE UseKnown(me, use[p])' /\ use'[p].op = "none"
<1>1. use'[p].pc = "idle" /\ use'[p].op = "none"
  BY DEF Idle
<1> QED BY <1>1 DEF UseKnown, ReadKnown, WriteKnown, CreateKnown, ReadPoints, WritePoints

\* The other uses while one steps: next to a write there are none, and next to a
\* read there are reads, which only look at the file.
LEMMA OthersKnown ==
  ASSUME NEW me, UsesKnown(me), Alone, NEW p \in Procs, Kept(p),
         use[p].op \in WriteOps \/ (use[p].op \in ReadOps /\ file' = file),
         NEW q \in Procs, q # p
  PROVE  UseKnown(me, use[q])'
<1>1. use'[q] = use[q] /\ UseKnown(me, use[q])
  BY DEF Kept, UsesKnown
<1>2. CASE use[p].op \in WriteOps
  <2>1. use[q].op = "none" /\ use[q].pc = "idle"
    BY <1>1, <1>2 DEF Alone, UseKnown
  <2> QED BY <1>1, <2>1 DEF UseKnown, ReadKnown, WriteKnown, CreateKnown, ReadPoints, WritePoints
<1>3. CASE use[p].op \in ReadOps /\ file' = file
  <2>1. use[q].op \notin WriteOps
    BY <1>3 DEF Alone, ReadOps
  <2>2. use[q].pc \notin WritePoints /\ use[q].op # "Create"
    BY <1>1, <2>1 DEF UseKnown, WriteKnown, WriteOps
  <2> QED BY <1>1, <1>3, <2>2 DEF UseKnown, ReadKnown, WriteKnown, WritePoints
<1> QED BY <1>2, <1>3

\* A use goes on or returns: writes still run alone.
LEMMA AloneKept ==
  ASSUME Alone, NEW p \in Procs, Kept(p), use'[p].op \in {use[p].op, "none"}
  PROVE  Alone'
  BY DEF Alone, Kept, WriteOps

\* A step of a tool use that leaves the disk alone.
LEMMA QuietStep ==
  ASSUME NEW me, Known(me), NEW p \in Procs, use[p].op \in ReadOps \cup WriteOps,
         Kept(p), use'[p].op \in {use[p].op, "none"}, UNCHANGED <<file, tmp, blind>>,
         Grows(me), refreshGap \subseteq refreshGap',
         EntriesKnown(me)', UseKnown(me, use[p])'
  PROVE  Known(me)'
<1>1. FilesKnown(me)'
  BY DEF Known, FilesKnown, Grows
<1>2. UsesKnown(me)'
  BY OthersKnown DEF Known, UsesKnown
<1>3. Alone'
  BY AloneKept DEF Known
<1>4. StaleWriteRejected'
  BY DEF Known, StaleWriteRejected, Grows
<1> QED BY <1>1, <1>2, <1>3, <1>4 DEF Known

\* ReadState objects may be added, without entries: the entries vouch as before.
LEMMA EntriesKept ==
  ASSUME NEW me, TypeOK, EntriesKnown(me), UNCHANGED file, Grows(me),
         DOMAIN heap' = 1 .. Len(heap') /\ Len(heap') \in Nat,
         \A i \in 1 .. Len(heap') : heap'[i] = IF i <= Len(heap) THEN heap[i] ELSE NewReadState
  PROVE  EntriesKnown(me)'
<1> SUFFICES ASSUME NEW i \in DOMAIN heap', NEW f \in Files PROVE EntryKnown(me, f, heap[i][f])'
  BY DEF EntriesKnown
<1>1. CASE i <= Len(heap)
  <2>1. i \in DOMAIN heap
    BY <1>1 DEF TypeOK, MemoryOK
  <2>2. EntryKnown(me, f, heap[i][f]) /\ heap'[i] = heap[i]
    BY <1>1, <2>1 DEF EntriesKnown
  <2> QED BY <2>2 DEF EntryKnown, FullRead, Grows
<1>2. CASE ~(i <= Len(heap))
  <2>1. heap'[i][f].known = FALSE
    BY <1>2 DEF NewReadState, NoEntry
  <2> QED BY <2>1 DEF EntryKnown, FullRead
<1> QED BY <1>1, <1>2

\* ReadState objects as they were.
LEMMA EntriesSame ==
  ASSUME NEW me, EntriesKnown(me), UNCHANGED <<file, heap>>, Grows(me)
  PROVE  EntriesKnown(me)'
  BY DEF EntriesKnown, EntryKnown, FullRead, Grows

\* What EnsureReadState leaves of the entries.
LEMMA EntriesEnsured ==
  ASSUME NEW me, TypeOK, EntriesKnown(me), UNCHANGED file, Grows(me),
         NEW a \in Agents, heap' = EnsuredHeap(a)
  PROVE  EntriesKnown(me)'
<1>1. /\ heap' \in Seq([Files -> ReadFileState])
      /\ \A i \in 1 .. Len(heap') : heap'[i] = IF i <= Len(heap) THEN heap[i] ELSE NewReadState
  BY EnsureFacts
<1>2. DOMAIN heap' = 1 .. Len(heap') /\ Len(heap') \in Nat
  BY <1>1
<1> QED BY <1>1, <1>2, EntriesKept

\* ReadState.Set puts in an entry that vouches for what was shown.
LEMMA EntrySet ==
  ASSUME NEW me, UNCHANGED file, Grows(me), NEW h \in Seq([Files -> ReadFileState]),
         \A i \in 1 .. Len(h), f \in Files : EntryKnown(me, f, h[i][f]),
         NEW j \in 1 .. Len(h), NEW g \in Files, NEW e,
         heap' = SetEntry(h, j, g, e), EntryKnown(me, g, heap[j][g])'
  PROVE  EntriesKnown(me)'
<1>1. DOMAIN heap' = 1 .. Len(h)
  BY DEF SetEntry
<1>2. ASSUME NEW i \in 1 .. Len(h), NEW f \in Files, ~(i = j /\ f = g)
      PROVE  EntryKnown(me, f, heap[i][f])'
  <2>1. heap'[i][f] = h[i][f]
    BY <1>2 DEF SetEntry
  <2>2. EntryKnown(me, f, h[i][f])
    OBVIOUS
  <2> QED BY <2>1, <2>2 DEF EntryKnown, FullRead, Grows
<1>3. ASSUME NEW i \in DOMAIN heap', NEW f \in Files PROVE EntryKnown(me, f, heap[i][f])'
  BY <1>1, <1>2, <1>3
<1> QED BY <1>3 DEF EntriesKnown

\* What is known of one use of the agent.
LEMMA UseFacts ==
  ASSUME NEW me, Agents = {me}, TypeOK, Known(me), NEW p \in Procs
  PROVE  /\ use \in [Procs -> Use] /\ UseOK(use[p]) /\ UseKnown(me, use[p]) /\ p[1] = me
         /\ use[p].pc \in ReadPoints => use[p].op \in ReadOps
         /\ use[p].pc \in WritePoints => use[p].op \in WriteOps
  BY DEF TypeOK, Procs, Known, UsesKnown, UseKnown, ReadKnown, WriteKnown

\* A new use of the agent.
LEMMA StartKnown ==
  ASSUME NEW me, Agents = {me}, TypeOK, Known(me), NEW p \in Procs,
         NEW op \in ReadOps \cup WriteOps, NEW f \in Files, Start(p, op, f)
  PROVE  Known(me)'
<1>1. /\ use \in [Procs -> Use] /\ \A q \in Procs : q[1] = p[1]
      /\ UNCHANGED <<file, tmp, heap, seen, createGap, refreshGap, blind>>
  BY DEF TypeOK, Procs, Start, disk, memory, history
<1>2. /\ Kept(p) /\ use'[p].op = op
      /\ use'[p].pc = IF op \in ReadOps THEN "ensure" ELSE "validate"
  BY <1>1 DEF Start, Kept, Idle
<1>g. Grows(me)
  BY <1>1 DEF Grows, Shown
<1>3. FilesKnown(me)' /\ EntriesKnown(me)' /\ StaleWriteRejected'
  BY <1>1, <1>g, EntriesSame DEF Known, FilesKnown, Shown, StaleWriteRejected
<1>4. UseKnown(me, use[p])'
  BY <1>2 DEF UseKnown, ReadKnown, WriteKnown, CreateKnown, ReadPoints, WritePoints, ReadOps, WriteOps
<1>5. ASSUME NEW q \in Procs, q # p PROVE UseKnown(me, use[q])'
  <2>1. UseKnown(me, use[q]) /\ use'[q] = use[q]
    BY <1>2, <1>5 DEF Known, UsesKnown, Kept
  <2> QED BY <1>1, <2>1 DEF UseKnown, ReadKnown, WriteKnown, CreateKnown, Shown
<1>6. Alone'
  <2>1. \A q \in Procs : use[q].op \notin WriteOps
    BY <1>1 DEF Start, Busy
  <2>2. op \notin ReadOps => \A q \in Procs : use[q].op = "none"
    BY <1>1 DEF Start, Busy, Use
  <2>3. ReadOps \cap WriteOps = {}
    BY DEF ReadOps, WriteOps
  <2> QED BY <1>2, <2>1, <2>2, <2>3 DEF Alone, Kept
<1> QED BY <1>3, <1>4, <1>5, <1>6 DEF Known, UsesKnown

\* A use returns and leaves disk and ReadState alone.
LEMMA ReturnKnown ==
  ASSUME NEW me, Agents = {me}, TypeOK, Known(me), NEW p \in Procs,
         use[p].op \in ReadOps \cup WriteOps, Return(p),
         UNCHANGED <<file, tmp, heap, seen, createGap, refreshGap, blind>>
  PROVE  Known(me)'
<1>1. use'[p] = Idle /\ Kept(p)
  BY DEF Return, Kept, TypeOK
<1>2. UseKnown(me, use[p])' /\ use'[p].op = "none"
  BY <1>1, IdleKnown
<1>3. Grows(me)
  BY DEF Grows, Shown
<1>4. EntriesKnown(me)'
  BY <1>3, EntriesSame DEF Known
<1> QED BY <1>1, <1>2, <1>3, <1>4, QuietStep

\* The steps of a Read.
LEMMA ReadStepsKnown ==
  ASSUME NEW me, Agents = {me}, TypeOK, Recorded, Known(me), NEW p \in Procs,
         EnsureLookup(p) \/ EnsureStore(p) \/ ReadDedup(p) \/ ReadStat(p) \/ ReadText(p) \/ ReadSet(p)
  PROVE  Known(me)'
<1>a. use \in [Procs -> Use] /\ UseOK(use[p]) /\ UseKnown(me, use[p]) /\ p[1] = me
  BY UseFacts
<1>b. use[p].op \in ReadOps /\ use[p].at \in Files
  BY UseFacts DEF EnsureLookup, EnsureStore, ReadDedup, ReadStat, ReadText, ReadSet, At, ReadPoints, UseOK
<1>c. /\ UNCHANGED <<file, tmp, createGap, refreshGap, blind>>
      /\ seen[me] \subseteq seen'[me]
  <2>1. UNCHANGED <<file, tmp, createGap, refreshGap, blind>>
    BY DEF EnsureLookup, EnsureStore, ReadDedup, ReadStat, ReadText, ReadSet, disk, history
  <2>2. \/ seen' = seen
        \/ seen' = [seen EXCEPT ![p[1]] = @ \cup use[p].read.content]
    BY DEF EnsureLookup, EnsureStore, ReadDedup, ReadStat, ReadText, ReadSet, disk, history
  <2>3. seen[me] \subseteq seen'[me]
    BY <1>a, <2>2 DEF Recorded
  <2> QED BY <2>1, <2>3
<1>g. Grows(me) /\ refreshGap \subseteq refreshGap'
  BY <1>c DEF Grows, Shown
<1>1. ASSUME Kept(p), use'[p].op = use[p].op, heap' = heap, use'[p].pc \in ReadPoints,
             use'[p].pc = "set" => use'[p].at = use[p].at /\ use'[p].read.content = file[use[p].at].content
      PROVE  Known(me)'
  <2>1. EntriesKnown(me)'
    BY <1>1, <1>c, <1>g, EntriesSame DEF Known
  <2>2. UseKnown(me, use[p])'
    <3>1. use'[p].op \in ReadOps /\ use'[p].op # "Create" /\ use'[p].op # "none"
      BY <1>b, <1>1 DEF ReadOps
    <3> QED BY <1>c, <1>1, <3>1 DEF UseKnown, ReadKnown, WriteKnown, ReadPoints, WritePoints
  <2> QED BY <1>1, <1>b, <1>c, <1>g, <2>1, <2>2, QuietStep
<1>2. CASE EnsureLookup(p)
  <2>1. /\ use' = [use EXCEPT ![p] = [use[p] EXCEPT !.state = map[p[1]],
                                      !.pc = IF map[p[1]] = 0 THEN "store" ELSE "dedup"]]
        /\ heap' = heap
    BY <1>2, <1>a DEF EnsureLookup, memory
  <2>2. Kept(p) /\ use'[p].op = use[p].op /\ use'[p].pc \in {"store", "dedup"}
    BY <1>a, <2>1 DEF Kept, Use
  <2> QED BY <1>1, <2>1, <2>2 DEF ReadPoints
<1>3. CASE EnsureStore(p)
  <2>1. /\ use' = [use EXCEPT ![p] = [use[p] EXCEPT !.state = Len(heap) + 1, !.pc = "dedup"]]
        /\ heap' = Append(heap, NewReadState)
    BY <1>3, <1>a DEF EnsureStore
  <2>2. Kept(p) /\ use'[p].op = use[p].op /\ use'[p].pc = "dedup"
    BY <1>a, <2>1 DEF Kept, Use
  <2>3. /\ DOMAIN heap' = 1 .. Len(heap') /\ Len(heap') \in Nat
        /\ \A i \in 1 .. Len(heap') : heap'[i] = IF i <= Len(heap) THEN heap[i] ELSE NewReadState
    BY <2>1 DEF TypeOK, MemoryOK
  <2>4. EntriesKnown(me)'
    BY <1>c, <1>g, <2>3, EntriesKept DEF Known
  <2>5. UseKnown(me, use[p])'
    BY <1>b, <2>2 DEF UseKnown, ReadKnown, WriteKnown, ReadPoints, WritePoints, ReadOps
  <2> QED BY <1>b, <1>c, <1>g, <2>2, <2>4, <2>5, QuietStep
<1>r. ASSUME Return(p), heap' = heap, seen' = seen PROVE Known(me)'
  BY <1>b, <1>c, <1>r, ReturnKnown
<1>4. CASE ReadDedup(p)
  <2>1. heap' = heap /\ seen' = seen /\ (Return(p) \/ Goto(p, "stat"))
    BY <1>4 DEF ReadDedup, memory
  <2>2. CASE Goto(p, "stat")
    <3>1. use' = [use EXCEPT ![p] = [use[p] EXCEPT !.pc = "stat"]]
      BY <1>a, <2>2 DEF Goto
    <3>2. Kept(p) /\ use'[p].op = use[p].op /\ use'[p].pc = "stat"
      BY <1>a, <3>1 DEF Kept, Use
    <3> QED BY <1>1, <2>1, <3>2 DEF ReadPoints
  <2> QED BY <1>r, <2>1, <2>2
<1>5. CASE ReadStat(p)
  <2> DEFINE r == [use[p].read EXCEPT !.mtime = file[use[p].at].mtime]
  <2>1. heap' = heap /\ seen' = seen
    BY <1>5 DEF ReadStat, memory, history
  <2>2. \/ Return(p)
        \/ use' = [use EXCEPT ![p] = [use[p] EXCEPT !.read = r, !.pc = "text"]]
    BY <1>5, <1>a DEF ReadStat, Use, File
  <2> HIDE DEF r
  <2>3. CASE use' = [use EXCEPT ![p] = [use[p] EXCEPT !.read = r, !.pc = "text"]]
    <3>1. Kept(p) /\ use'[p].op = use[p].op /\ use'[p].pc = "text"
      BY <1>a, <2>3 DEF Kept, Use
    <3> QED BY <1>1, <2>1, <3>1 DEF ReadPoints
  <2> QED BY <1>r, <2>1, <2>2, <2>3
<1>6. CASE ReadText(p)
  <2> DEFINE r == [use[p].read EXCEPT !.content = file[use[p].at].content]
  <2>1. heap' = heap /\ seen' = seen
    BY <1>6 DEF ReadText, memory, history
  <2>2. \/ Return(p)
        \/ use' = [use EXCEPT ![p] = [use[p] EXCEPT !.read = r, !.pc = "set"]]
    BY <1>6, <1>a DEF ReadText, Use, File
  <2>c. r.content = file[use[p].at].content
    BY <1>a DEF Use, File
  <2> HIDE DEF r
  <2>3. CASE use' = [use EXCEPT ![p] = [use[p] EXCEPT !.read = r, !.pc = "set"]]
    <3>1. /\ Kept(p) /\ use'[p].op = use[p].op /\ use'[p].pc = "set"
          /\ use'[p].at = use[p].at /\ use'[p].read = r
      BY <1>a, <2>3 DEF Kept, Use
    <3> QED BY <1>1, <2>1, <2>c, <3>1 DEF ReadPoints
  <2> QED BY <1>r, <2>1, <2>2, <2>3
<1>7. CASE ReadSet(p)
  <2>0. /\ heap \in Seq([Files -> ReadFileState])
        /\ use[p].state \in 1 .. Len(heap) /\ use[p].at \in Files
    BY <1>7, <1>a, <1>b DEF ReadSet, At, UseOK, TypeOK, MemoryOK
  <2>f. PICK f \in Files : f = use[p].at
    BY <2>0
  <2>i. PICK i \in 1 .. Len(heap) : i = use[p].state
    BY <2>0
  <2>e. PICK e : e = ReadEntry(use[p])
    OBVIOUS
  <2>1. heap' = SetEntry(heap, i, f, e) /\ Return(p)
    BY <1>7, <2>f, <2>i, <2>e DEF ReadSet
  <2>2. use'[p] = Idle /\ Kept(p)
    BY <1>a, <2>1 DEF Return, Kept
  <2>3. UseKnown(me, use[p])' /\ use'[p].op = "none"
    BY <2>2, IdleKnown
  <2>5. \A j \in 1 .. Len(heap), g \in Files : EntryKnown(me, g, heap[j][g])
    BY <2>0 DEF Known, EntriesKnown
  <2>6. heap'[i][f] = e
    BY <2>0, <2>1 DEF SetEntry
  <2>7. ASSUME FullRead(e)
        PROVE  /\ e.content = use[p].read.content /\ e.mtime = use[p].read.mtime
               /\ e.content \subseteq Shown(me)'
    <3>1. use[p].op = "Read" /\ e.content = use[p].read.content /\ e.mtime = use[p].read.mtime
      BY <2>7, <2>e DEF FullRead, ReadEntry
    <3>2. e.content \subseteq seen'[me]
      BY <1>7, <1>a, <3>1 DEF ReadSet, Recorded
    <3> QED BY <3>1, <3>2 DEF Shown
  <2>8. file[f].exists /\ file[f].mtime <= use[p].read.mtime => file[f].content \subseteq use[p].read.content
    BY <1>7, <1>a, <2>f DEF ReadSet, At, UseKnown, ReadKnown
  <2>9. EntryKnown(me, f, heap[i][f])'
    <3>1. CASE FullRead(e)
      BY <1>c, <2>6, <2>7, <2>8, <3>1 DEF EntryKnown
    <3>2. CASE ~FullRead(e)
      BY <2>6, <3>2 DEF EntryKnown, FullRead
    <3> QED BY <3>1, <3>2
  <2>10. EntriesKnown(me)'
    BY <1>c, <1>g, <2>0, <2>1, <2>5, <2>9, EntrySet
  <2> QED BY <1>b, <1>c, <1>g, <2>2, <2>3, <2>10, QuietStep
<1> QED BY <1>2, <1>3, <1>4, <1>5, <1>6, <1>7

\* readTextForEdit: what was read is what the file holds.
LEMMA ReadForEditKnown ==
  ASSUME NEW me, Agents = {me}, TypeOK, Known(me), NEW p \in Procs, ValidateRead(p) \/ CallRead(p)
  PROVE  Known(me)'
<1>a. use \in [Procs -> Use] /\ UseOK(use[p]) /\ UseKnown(me, use[p]) /\ p[1] = me
  BY UseFacts
<1>b. use[p].op \in WriteOps /\ use[p].at \in Files
  BY UseFacts DEF ValidateRead, CallRead, ReadForEdit, At, WritePoints, UseOK
<1>c. UNCHANGED <<file, tmp, heap, seen, createGap, refreshGap, blind>>
  BY DEF ValidateRead, CallRead, ReadForEdit, disk, memory, history
<1>g. Grows(me) /\ EntriesKnown(me)'
  <2>1. Grows(me)
    BY <1>c DEF Grows, Shown
  <2> QED BY <1>c, <2>1, EntriesSame DEF Known
<1>1. CASE Return(p)
  BY <1>b, <1>c, <1>1, ReturnKnown
<1>2. ASSUME NEW next, use' = [use EXCEPT ![p].read = file[use[p].at], ![p].pc = next]
      PROVE  /\ Kept(p) /\ use'[p].op = use[p].op /\ use'[p].pc = next
             /\ use'[p].at = use[p].at /\ use'[p].read = file[use[p].at]
  <2>1. use' = [use EXCEPT ![p] = [use[p] EXCEPT !.read = file[use[p].at], !.pc = next]]
    BY <1>a, <1>2
  <2> QED BY <1>a, <2>1 DEF Kept, Use
<1>3. file[use[p].at].exists \/ file[use[p].at].content = {}
  BY <1>b DEF Known, FilesKnown
<1>4. CASE At(p, "validate") /\ use' = [use EXCEPT ![p].read = file[use[p].at], ![p].pc = "validated"]
  <2>1. /\ Kept(p) /\ use'[p].op = use[p].op /\ use'[p].pc = "validated"
        /\ use'[p].at = use[p].at /\ use'[p].read = file[use[p].at]
    BY <1>2, <1>4
  <2>2. UseKnown(me, use[p])'
    BY <1>b, <1>c, <1>3, <2>1
       DEF UseKnown, ReadKnown, WriteKnown, CreateKnown, ReadPoints, WritePoints, WriteOps
  <2> QED BY <1>b, <1>c, <1>g, <2>1, <2>2, QuietStep
<1>5. CASE At(p, "call") /\ use' = [use EXCEPT ![p].read = file[use[p].at], ![p].pc = "called"]
  <2>1. /\ Kept(p) /\ use'[p].op = use[p].op /\ use'[p].pc = "called"
        /\ use'[p].at = use[p].at /\ use'[p].read = file[use[p].at]
    BY <1>2, <1>5
  <2>2. use[p].op = "Create" => file[use[p].at].content \subseteq Shown(me)
    BY <1>a, <1>5 DEF At, UseKnown, CreateKnown, Shown
  <2>3. UseKnown(me, use[p])'
    <3>1. (use[p].op = "Create" => CreateKnown(me, use[p]))'
      BY <1>g, <1>c, <2>1, <2>2 DEF CreateKnown, Grows
    <3>2. ReadKnown(use[p])' /\ WriteKnown(me, use[p])'
      BY <1>b, <1>c, <1>3, <2>1 DEF ReadKnown, WriteKnown, ReadPoints, WritePoints
    <3> QED BY <1>b, <2>1, <3>1, <3>2 DEF UseKnown, WriteOps
  <2> QED BY <1>b, <1>c, <1>g, <2>1, <2>3, QuietStep
<1> QED BY <1>1, <1>4, <1>5 DEF ValidateRead, CallRead, ReadForEdit

\* A call that passes the check has read what was shown.
LEMMA FreshIsShown ==
  ASSUME NEW me, Agents = {me}, TypeOK, Known(me), NEW p \in Procs, At(p, "called"),
         Fresh(me, use[p].at, use[p].read.content)
  PROVE  use[p].read.content \subseteq Shown(me)
<1> DEFINE f == use[p].at
           e == Entry(me, f)
<1>1. f \in Files /\ UseKnown(me, use[p]) /\ me \in Agents
  BY UseFacts DEF UseOK, At
<1>2. FullRead(e) /\ file[f].exists /\ ~Stale(e, f, use[p].read.content)
  BY DEF Fresh, NotRead
<1>3. map[me] # 0
  <2>1. NewReadState[f].known = FALSE
    BY <1>1 DEF NewReadState, NoEntry
  <2>2. CASE map[me] = 0
    <3>1. e = NewReadState[f]
      BY <1>1, <2>2 DEF Entry, EnsuredHeap, EnsuredMap, TypeOK, MemoryOK
    <3> QED BY <1>2, <2>1, <3>1 DEF FullRead
  <2> QED BY <2>2
<1>4. e = heap[map[me]][f] /\ map[me] \in DOMAIN heap
  BY <1>1, <1>3 DEF Entry, EnsuredHeap, EnsuredMap, TypeOK, MemoryOK
<1>5. EntryKnown(me, f, e)
  BY <1>1, <1>4 DEF Known, EntriesKnown
<1>6. e.content \subseteq Shown(me)
  BY <1>2, <1>5 DEF EntryKnown
<1>7. CASE use[p].read.content = e.content
  BY <1>6, <1>7
<1>8. CASE ~(file[f].mtime > e.mtime)
  <2>1. file[f].mtime \in Nat /\ e.mtime \in Nat
    BY <1>1, <1>4 DEF TypeOK, DiskOK, MemoryOK, File, ReadFileState, Time
  <2>2. file[f].mtime <= e.mtime
    BY <1>8, <2>1
  <2>3. file[f].content \subseteq Shown(me)
    BY <1>2, <1>5, <2>2 DEF EntryKnown
  <2>4. file[f].content = use[p].read.content
    BY <1>1, <1>2, <1>4, <2>2 DEF UseKnown, WriteKnown, At
  <2> QED BY <2>3, <2>4
<1> QED BY <1>2, <1>7, <1>8 DEF Stale

\* The checks of validation and call.
LEMMA CheckKnown ==
  ASSUME NEW me, Agents = {me}, TypeOK, Known(me), NEW p \in Procs, ValidateCheck(p) \/ CallCheck(p)
  PROVE  Known(me)'
<1>a. use \in [Procs -> Use] /\ UseOK(use[p]) /\ UseKnown(me, use[p]) /\ p[1] = me /\ me \in Agents
  BY UseFacts
<1>b. use[p].op \in WriteOps /\ use[p].at \in Files
  BY UseFacts DEF ValidateCheck, CallCheck, Check, At, WritePoints, UseOK
<1>c. UNCHANGED <<file, tmp, seen, createGap, refreshGap, blind>>
  BY DEF ValidateCheck, CallCheck, Check, disk
<1>h. heap' = heap \/ heap' = EnsuredHeap(me)
  BY <1>a DEF ValidateCheck, CallCheck, Check
<1>g. Grows(me) /\ EntriesKnown(me)'
  <2>1. Grows(me)
    BY <1>c DEF Grows, Shown
  <2> QED BY <1>a, <1>c, <1>h, <2>1, EntriesSame, EntriesEnsured DEF Known
<1>1. CASE Return(p)
  <2>1. use'[p] = Idle /\ Kept(p)
    BY <1>1, <1>a DEF Return, Kept
  <2>2. UseKnown(me, use[p])' /\ use'[p].op = "none"
    BY <2>1, IdleKnown
  <2> QED BY <1>b, <1>c, <1>g, <2>1, <2>2, QuietStep
<1>2. ASSUME NEW next, Goto(p, next)
      PROVE  /\ Kept(p) /\ use'[p].op = use[p].op /\ use'[p].pc = next
             /\ use'[p].at = use[p].at /\ use'[p].read = use[p].read
  <2>1. use' = [use EXCEPT ![p] = [use[p] EXCEPT !.pc = next]]
    BY <1>a, <1>2 DEF Goto
  <2> QED BY <1>a, <2>1 DEF Kept, Use
<1>3. CASE ValidateCheck(p) /\ ~Return(p)
  <2>1. At(p, "validated") /\ ValidateAllows(use[p].op, use[p].read) /\ Goto(p, "permit")
    BY <1>3 DEF ValidateCheck, Check
  <2>2. /\ Kept(p) /\ use'[p].op = use[p].op /\ use'[p].pc = "permit"
        /\ use'[p].at = use[p].at /\ use'[p].read = use[p].read
    BY <1>2, <2>1
  <2>3. use[p].op = "Create" => use[p].read.content = {}
    BY <2>1 DEF ValidateAllows
  <2>4. UseKnown(me, use[p])'
    <3>1. (use[p].op = "Create" => CreateKnown(me, use[p]))'
      BY <1>a, <1>c, <2>1, <2>2, <2>3 DEF UseKnown, CreateKnown, At
    <3>2. ReadKnown(use[p])' /\ WriteKnown(me, use[p])'
      BY <1>a, <1>b, <1>c, <2>1, <2>2 DEF UseKnown, ReadKnown, WriteKnown, ReadPoints, WritePoints, At
    <3> QED BY <1>b, <2>2, <3>1, <3>2 DEF UseKnown, WriteOps
  <2> QED BY <1>b, <1>c, <1>g, <2>2, <2>4, QuietStep
<1>4. CASE CallCheck(p) /\ ~Return(p)
  <2>1. /\ At(p, "called") /\ CallAllows(use[p].op, use[p].read) /\ Goto(p, "write")
        /\ CallChecks(use[p].op, use[p].read) => Fresh(me, use[p].at, use[p].read.content)
    BY <1>4, <1>a DEF CallCheck, Check
  <2>2. /\ Kept(p) /\ use'[p].op = use[p].op /\ use'[p].pc = "write"
        /\ use'[p].at = use[p].at /\ use'[p].read = use[p].read
    BY <1>2, <2>1
  <2>3. use[p].read.content \subseteq Shown(me)
    <3>1. CASE use[p].op = "Create"
      BY <1>a, <2>1, <3>1 DEF UseKnown, CreateKnown, At
    <3>2. CASE use[p].op # "Create" /\ use[p].read.exists
      BY <2>1, <3>2, FreshIsShown DEF CallChecks
    <3>3. CASE use[p].op # "Create" /\ ~use[p].read.exists
      BY <1>a, <2>1, <3>3 DEF UseKnown, WriteKnown, At
    <3> QED BY <3>1, <3>2, <3>3
  <2>4. UseKnown(me, use[p])'
    <3>1. use'[p].read.content \subseteq Shown(me)'
      BY <1>g, <2>2, <2>3 DEF Grows
    <3>2. ReadKnown(use[p])' /\ WriteKnown(me, use[p])' /\ CreateKnown(me, use[p])'
      BY <1>b, <2>2, <3>1 DEF ReadKnown, WriteKnown, CreateKnown, ReadPoints, WritePoints
    <3> QED BY <1>b, <2>2, <3>2 DEF UseKnown, WriteOps
  <2> QED BY <1>b, <1>c, <1>g, <2>2, <2>4, QuietStep
<1> QED BY <1>1, <1>3, <1>4

\* The permission decision, and a write that fails.
LEMMA PermissionKnown ==
  ASSUME NEW me, Agents = {me}, TypeOK, Known(me), NEW p \in Procs, Permission(p) \/ WriteFails(p)
  PROVE  Known(me)'
<1>a. use \in [Procs -> Use] /\ UseOK(use[p]) /\ UseKnown(me, use[p]) /\ p[1] = me
  BY UseFacts
<1>b. use[p].op \in WriteOps /\ use[p].at \in Files
  BY UseFacts DEF Permission, WriteFails, At, WritePoints, UseOK
<1>c. UNCHANGED <<file, tmp, heap, seen, createGap, refreshGap, blind>>
  BY DEF Permission, WriteFails, disk, memory, history
<1>g. Grows(me)
  BY <1>c DEF Grows, Shown
<1>1. CASE Return(p)
  BY <1>b, <1>c, <1>1, ReturnKnown
<1>2. CASE At(p, "permit") /\ Goto(p, "call")
  <2>1. use' = [use EXCEPT ![p] = [use[p] EXCEPT !.pc = "call"]]
    BY <1>a, <1>2 DEF Goto
  <2>2. /\ Kept(p) /\ use'[p].op = use[p].op /\ use'[p].pc = "call"
        /\ use'[p].at = use[p].at /\ use'[p].read = use[p].read
    BY <1>a, <2>1 DEF Kept, Use
  <2>3. EntriesKnown(me)'
    BY <1>c, <1>g, EntriesSame DEF Known
  <2>4. UseKnown(me, use[p])'
    <3>1. (use[p].op = "Create" => CreateKnown(me, use[p]))'
      BY <1>a, <1>c, <1>2, <2>2 DEF UseKnown, CreateKnown, At
    <3>2. ReadKnown(use[p])' /\ WriteKnown(me, use[p])'
      BY <1>a, <1>b, <1>c, <1>2, <2>2 DEF UseKnown, ReadKnown, WriteKnown, ReadPoints, WritePoints, At
    <3> QED BY <1>b, <2>2, <3>1, <3>2 DEF UseKnown, WriteOps
  <2> QED BY <1>b, <1>c, <1>g, <2>2, <2>3, <2>4, QuietStep
<1> QED BY <1>1, <1>2 DEF Permission, WriteFails

\* AtomicWriteFile writes what the agent was shown and its own change.
LEMMA WriteTmpKnown ==
  ASSUME NEW me, Agents = {me}, TypeOK, Recorded, Known(me), NEW p \in Procs, WriteTmp(p)
  PROVE  Known(me)'
<1>a. use \in [Procs -> Use] /\ UseOK(use[p]) /\ UseKnown(me, use[p]) /\ p[1] = me /\ At(p, "write")
  BY UseFacts DEF WriteTmp
<1>b. use[p].op \in WriteOps /\ use[p].at \in Files
  BY <1>a, UseFacts DEF At, WritePoints, UseOK
<1>t. PICK t : t = clock + 1
  OBVIOUS
<1>c. /\ UNCHANGED <<file, heap, createGap, refreshGap, blind>>
      /\ seen' = [seen EXCEPT ![me] = @ \cup {t}]
      /\ tmp' = [tmp EXCEPT ![use[p].at] = Saved(Updated(use[p].op, use[p].read.content, t), t)]
      /\ use' = [use EXCEPT ![p] = [use[p] EXCEPT !.pc = "rename", !.time = t]]
  BY <1>a, <1>t DEF WriteTmp, memory
<1>s. t \in Shown(me)' /\ Shown(me) \subseteq Shown(me)' /\ Grows(me)
  BY <1>c DEF Shown, Recorded, Grows
<1>r. use[p].read.content \subseteq Shown(me)'
  BY <1>a, <1>s DEF At, UseKnown, WriteKnown
<1>1. FilesKnown(me)'
  <2>1. Saved(Updated(use[p].op, use[p].read.content, t), t).content \subseteq Shown(me)'
    BY <1>s, <1>r DEF Saved, Updated
  <2>2. ASSUME NEW f \in Files PROVE tmp'[f].exists => tmp'[f].content \subseteq Shown(me)'
    <3>1. CASE f = use[p].at
      BY <1>c, <2>1, <3>1 DEF TypeOK, DiskOK
    <3>2. CASE f # use[p].at
      BY <1>c, <1>s, <3>2 DEF Known, FilesKnown, TypeOK, DiskOK
    <3> QED BY <3>1, <3>2
  <2> QED BY <1>c, <2>2 DEF Known, FilesKnown
<1>2. EntriesKnown(me)'
  BY <1>c, <1>s, EntriesSame DEF Known
<1>3. /\ Kept(p) /\ use'[p].op = use[p].op /\ use'[p].pc = "rename"
      /\ use'[p].read = use[p].read /\ use'[p].time = t
  BY <1>a, <1>c DEF Kept, Use
<1>4. UseKnown(me, use[p])'
  <2>1. ReadKnown(use[p])' /\ WriteKnown(me, use[p])' /\ CreateKnown(me, use[p])'
    BY <1>b, <1>r, <1>s, <1>3 DEF ReadKnown, WriteKnown, CreateKnown, ReadPoints, WritePoints
  <2> QED BY <1>b, <1>3, <2>1 DEF UseKnown, WriteOps
<1>5. UsesKnown(me)'
  BY <1>b, <1>3, <1>4, OthersKnown DEF Known, UsesKnown
<1>6. Alone'
  BY <1>3, AloneKept DEF Known
<1> QED BY <1>c, <1>1, <1>2, <1>5, <1>6 DEF Known, StaleWriteRejected

\* The rename brings in a text the agent knows of, and overwrites one it was shown.
LEMMA RenameKnown ==
  ASSUME NEW me, Agents = {me}, TypeOK, Known(me), NEW p \in Procs, Rename(p)
  PROVE  Known(me)'
<1>a. use \in [Procs -> Use] /\ UseOK(use[p]) /\ UseKnown(me, use[p]) /\ p[1] = me /\ At(p, "rename")
  BY UseFacts DEF Rename
<1>b. use[p].op \in WriteOps /\ use[p].at \in Files
  BY <1>a, UseFacts DEF At, WritePoints, UseOK
<1>c. UNCHANGED <<heap, seen, createGap, refreshGap>>
  BY DEF Rename, memory
<1>g. Grows(me) /\ Shown(me)' = Shown(me)
  BY <1>c DEF Grows, Shown
<1>1. CASE ~tmp[use[p].at].exists
  <2>1. UNCHANGED <<file, tmp, blind>> /\ Return(p)
    BY <1>1 DEF Rename
  <2> QED BY <1>b, <1>c, <2>1, ReturnKnown
<1>2. CASE tmp[use[p].at].exists
  <2>f. PICK f \in Files : f = use[p].at
    BY <1>b
  <2>1. /\ file' = [file EXCEPT ![f] = tmp[f]] /\ tmp' = [tmp EXCEPT ![f] = NoFile]
        /\ use' = [use EXCEPT ![p] = [use[p] EXCEPT !.pc = "refresh"]]
        /\ blind' = blind \cup (Overwritten(p) \cap file[f].content)
    BY <1>a, <1>2, <2>f DEF Rename, Goto
  <2>2. tmp[f].exists /\ tmp[f].content \subseteq Shown(me)
    BY <1>2, <2>f DEF Known, FilesKnown
  <2>d. file \in [Files -> File] /\ tmp \in [Files -> File] /\ NoFile.exists = FALSE
    BY DEF TypeOK, DiskOK, NoFile
  <2>3. \A g \in Files : /\ g = f => file'[g] = tmp[f] /\ tmp'[g] = NoFile
                         /\ g # f => file'[g] = file[g] /\ tmp'[g] = tmp[g]
    BY <2>1, <2>d
  <2>4. FilesKnown(me)'
    <3>1. ASSUME NEW g \in Files PROVE /\ file'[g].exists \/ file'[g].content = {}
                                       /\ tmp'[g].exists => tmp'[g].content \subseteq Shown(me)
      <4>1. CASE g = f
        BY <2>2, <2>3, <2>d, <4>1, Zenon
      <4>2. CASE g # f
        BY <2>3, <4>2 DEF Known, FilesKnown
      <4> QED BY <4>1, <4>2
    <3> QED BY <1>g, <3>1 DEF FilesKnown
  <2>5. EntriesKnown(me)'
    <3>1. ASSUME NEW i \in DOMAIN heap, NEW g \in Files PROVE EntryKnown(me, g, heap[i][g])'
      <4>0. EntryKnown(me, g, heap[i][g]) /\ heap'[i][g] = heap[i][g]
        BY <1>c DEF Known, EntriesKnown
      <4>1. CASE g = f
        BY <1>g, <2>2, <2>3, <4>0, <4>1 DEF EntryKnown, FullRead
      <4>2. CASE g # f
        BY <1>g, <2>3, <4>0, <4>2 DEF EntryKnown, FullRead
      <4> QED BY <4>1, <4>2
    <3> QED BY <1>c, <3>1 DEF EntriesKnown
  <2>6. /\ Kept(p) /\ use'[p].op = use[p].op /\ use'[p].pc = "refresh"
        /\ use'[p].read = use[p].read /\ use'[p].time = use[p].time /\ use'[p].at = f
    BY <1>a, <2>1, <2>f DEF Kept, Use
  <2>7. use[p].read.content \subseteq Shown(me) /\ use[p].time \in Shown(me)
    BY <1>a DEF At, UseKnown, WriteKnown
  <2>8. UseKnown(me, use[p])'
    <3>1. file'[f].content \subseteq Shown(me)
      BY <2>2, <2>3
    <3>2. ReadKnown(use[p])' /\ WriteKnown(me, use[p])' /\ CreateKnown(me, use[p])'
      BY <1>b, <1>g, <2>6, <2>7, <3>1 DEF ReadKnown, WriteKnown, CreateKnown, ReadPoints, WritePoints
    <3> QED BY <1>b, <2>6, <3>2 DEF UseKnown, WriteOps
  <2>9. UsesKnown(me)'
    BY <1>b, <2>6, <2>8, OthersKnown DEF Known, UsesKnown
  <2>10. Alone'
    BY <2>6, AloneKept DEF Known
  <2>11. StaleWriteRejected'
    <3>1. Overwritten(p) \subseteq createGap \cup refreshGap
      BY <1>a, <2>7 DEF Overwritten, Shown
    <3> QED BY <1>c, <2>1, <3>1 DEF Known, StaleWriteRejected
  <2> QED BY <2>4, <2>5, <2>9, <2>10, <2>11 DEF Known
<1> QED BY <1>1, <1>2

\* The entry recorded after the rename vouches for the text written, and for the
\* file, which holds nothing else but what fell into the gap.
LEMMA RefreshKnown ==
  ASSUME NEW me, Agents = {me}, TypeOK, Known(me), NEW p \in Procs, Refresh(p)
  PROVE  Known(me)'
<1>a. /\ use \in [Procs -> Use] /\ UseOK(use[p]) /\ UseKnown(me, use[p])
      /\ p[1] = me /\ At(p, "refresh") /\ me \in Agents
  BY UseFacts DEF Refresh
<1>b. use[p].op \in WriteOps /\ use[p].at \in Files
  BY <1>a, UseFacts DEF At, WritePoints, UseOK
<1>c. UNCHANGED <<file, tmp, seen, createGap, refreshGap, blind>>
  BY DEF Refresh, disk
<1>g. Grows(me) /\ Shown(me)' = Shown(me)
  BY <1>c DEF Grows, Shown
<1>f. PICK f \in Files : f = use[p].at
  BY <1>b
<1>h. PICK h : h = EnsuredHeap(me)
  OBVIOUS
<1>i. PICK i : i = EnsuredMap(me)[me]
  OBVIOUS
<1>e. PICK e : e = WriteEntry(use[p], file[f].mtime)
  OBVIOUS
<1>1. /\ h \in Seq([Files -> ReadFileState]) /\ i \in 1 .. Len(h)
      /\ \A j \in 1 .. Len(h) : h[j] = IF j <= Len(heap) THEN heap[j] ELSE NewReadState
  BY <1>a, <1>h, <1>i, EnsureFacts
<1>2. ASSUME NEW j \in 1 .. Len(h), NEW g \in Files PROVE EntryKnown(me, g, h[j][g])
  <2>1. CASE j <= Len(heap)
    <3>1. j \in DOMAIN heap
      BY <1>1, <2>1 DEF TypeOK, MemoryOK
    <3> QED BY <1>1, <2>1, <3>1 DEF Known, EntriesKnown
  <2>2. CASE ~(j <= Len(heap))
    <3>1. h[j][g].known = FALSE
      BY <1>1, <2>2 DEF NewReadState, NoEntry
    <3> QED BY <3>1 DEF EntryKnown, FullRead
  <2> QED BY <2>1, <2>2
<1>3. heap' = h \/ heap' = SetEntry(h, i, f, e)
  BY <1>a, <1>f, <1>h, <1>i, <1>e DEF Refresh
<1>5. ASSUME heap' = SetEntry(h, i, f, e) PROVE EntriesKnown(me)'
  <2>1. heap'[i][f] = e
    BY <1>1, <1>5 DEF SetEntry
  <2>2. e.content \subseteq use[p].read.content \cup {use[p].time}
    BY <1>e DEF WriteEntry, Updated
  <2>3. /\ use[p].read.content \subseteq Shown(me) /\ use[p].time \in Shown(me)
        /\ file[f].content \subseteq Shown(me)
    BY <1>a, <1>f DEF At, UseKnown, WriteKnown
  <2>4. EntryKnown(me, f, heap[i][f])'
    BY <1>c, <1>g, <2>1, <2>2, <2>3 DEF EntryKnown
  <2> QED BY <1>c, <1>g, <1>1, <1>2, <1>5, <2>4, EntrySet
<1>6. EntriesKnown(me)'
  <2>1. CASE heap' = h
    BY <1>a, <1>c, <1>g, <1>h, <2>1, EntriesEnsured DEF Known
  <2> QED BY <1>3, <1>5, <2>1
<1>7. use'[p] = Idle /\ Kept(p)
  BY <1>a DEF Refresh, Return, Kept
<1>8. UseKnown(me, use[p])' /\ use'[p].op = "none"
  BY <1>7, IdleKnown
<1> QED BY <1>b, <1>c, <1>g, <1>6, <1>7, <1>8, QuietStep

\* The user's change is newer than every entry, or it falls into a gap.
LEMMA UserKnown ==
  ASSUME NEW me, Agents = {me}, TypeOK, Known(me), NEW f \in Files, UserSaves(f) \/ UserDeletes(f)
  PROVE  Known(me)'
<1>t. PICK t : t = clock + 1
  OBVIOUS
<1>n. clock \in Nat /\ t \in Nat /\ t > clock
  BY <1>t DEF TypeOK, DiskOK, Time
<1>c. UNCHANGED <<tmp, heap, use, seen, blind>>
  BY DEF UserSaves, UserDeletes, memory, history
<1>d. /\ createGap \subseteq createGap' /\ refreshGap \subseteq refreshGap'
      /\ Grows(me)
  <2>1. createGap \subseteq createGap' /\ refreshGap \subseteq refreshGap'
    BY DEF UserSaves, UserDeletes, history
  <2> QED BY <1>c, <2>1 DEF Grows, Shown
<1>1. /\ \A g \in Files : g # f => file'[g] = file[g]
      /\ file'[f].exists \/ file'[f].content = {}
      /\ file'[f].content \subseteq file[f].content \cup {t}
      /\ file'[f].exists => file'[f].mtime = t
      /\ t \in file'[f].content => UserSaves(f)
  <2>0. file \in [Files -> File]
    BY DEF TypeOK, DiskOK
  <2>1. CASE UserSaves(f)
    <3>1. file' = [file EXCEPT ![f] = Saved(file[f].content \cup {t}, t)]
      BY <1>t, <2>0, <2>1 DEF UserSaves
    <3>2. file'[f] = Saved(file[f].content \cup {t}, t)
      BY <2>0, <3>1
    <3>3. file'[f].exists = TRUE /\ file'[f].content = file[f].content \cup {t} /\ file'[f].mtime = t
      BY <3>2 DEF Saved
    <3>4. \A g \in Files : g # f => file'[g] = file[g]
      BY <2>0, <3>1
    <3> QED BY <2>1, <3>3, <3>4
  <2>2. CASE UserDeletes(f)
    <3>1. file' = [file EXCEPT ![f] = NoFile]
      BY <2>2 DEF UserDeletes
    <3>2. file'[f].exists = FALSE /\ file'[f].content = {}
      BY <2>0, <3>1 DEF NoFile
    <3>3. \A g \in Files : g # f => file'[g] = file[g]
      BY <2>0, <3>1
    <3> QED BY <3>2, <3>3
  <2> QED BY <2>1, <2>2
<1>2. FilesKnown(me)'
  <2>1. ASSUME NEW g \in Files PROVE file'[g].exists \/ file'[g].content = {}
    BY <1>1 DEF Known, FilesKnown
  <2> QED BY <1>c, <1>d, <2>1 DEF Known, FilesKnown, Grows
<1>3. ASSUME NEW i \in DOMAIN heap, NEW g \in Files PROVE EntryKnown(me, g, heap[i][g])'
  <2>0. EntryKnown(me, g, heap[i][g]) /\ heap'[i][g] = heap[i][g] /\ heap[i][g].mtime <= clock /\ heap[i][g].mtime \in Nat
    BY <1>c DEF Known, EntriesKnown, TypeOK, MemoryOK, ReadFileState, Time
  <2>1. CASE g = f
    <3>1. ~(file'[g].exists /\ file'[g].mtime <= heap[i][g].mtime)
      BY <1>1, <1>n, <2>0, <2>1
    <3> QED BY <1>d, <2>0, <3>1 DEF EntryKnown, FullRead, Grows
  <2>2. CASE g # f
    BY <1>1, <1>d, <2>0, <2>2 DEF EntryKnown, FullRead, Grows
  <2> QED BY <2>1, <2>2
<1>4. ASSUME NEW q \in Procs PROVE UseKnown(me, use[q])'
  <2>u. PICK u : u = use[q]
    OBVIOUS
  <2>0. use'[q] = u /\ UseKnown(me, u) /\ UseOK(u) /\ u.read.mtime <= clock /\ u.read.mtime \in Nat
    BY <1>c, <2>u DEF Known, UsesKnown, TypeOK, UseOK, Use, File, Time
  <2>1. CASE u.at # f /\ u.pc # "idle"
    <3>1. file'[u.at] = file[u.at]
      BY <1>1, <2>0, <2>1 DEF UseOK
    <3> QED BY <1>c, <1>d, <2>0, <3>1 DEF UseKnown, ReadKnown, WriteKnown, CreateKnown, Grows
  <2>2. CASE u.at = f
    <3>1. ReadKnown(use[q])'
      BY <1>1, <1>n, <2>0, <2>2 DEF UseKnown, ReadKnown
    <3>2. ASSUME u.pc \in {"validated", "permit", "call"}, u.op = "Create", u.read.content = {}
          PROVE  file'[f].content \subseteq createGap'
      <4>1. file[f].content \subseteq createGap
        BY <2>0, <2>2, <3>2 DEF UseKnown, CreateKnown
      <4>2. UserSaves(f) => t \in createGap'
        BY <1>t, <2>u, <2>2, <3>2 DEF UserSaves, InCreate
      <4> QED BY <1>1, <1>d, <4>1, <4>2
    <3>3. (use[q].op = "Create" => CreateKnown(me, use[q]))'
      BY <1>d, <2>0, <2>2, <3>2 DEF UseKnown, CreateKnown, Grows
    <3>4. u.pc = "refresh" => file'[f].content \subseteq Shown(me)'
      <4>1. u.pc = "refresh" => file[f].content \subseteq Shown(me)
        BY <2>0, <2>2 DEF UseKnown, WriteKnown
      <4>2. u.pc = "refresh" /\ UserSaves(f) => t \in refreshGap'
        BY <1>t, <2>u, <2>2 DEF UserSaves, InRefresh, At
      <4> QED BY <1>1, <1>d, <4>1, <4>2 DEF Shown, Grows
    <3>5. \A i \in DOMAIN heap : ~(file'[f].exists /\ file'[f].mtime <= heap[i][f].mtime)
      BY <1>1, <1>n DEF TypeOK, MemoryOK, ReadFileState, Time
    <3>6. WriteKnown(me, use[q])'
      BY <1>c, <1>d, <2>0, <2>2, <3>4, <3>5 DEF UseKnown, WriteKnown, Grows
    <3> QED BY <2>0, <3>1, <3>3, <3>6 DEF UseKnown
  <2>3. CASE u.pc = "idle"
    BY <2>0, <2>3 DEF UseKnown, ReadKnown, WriteKnown, CreateKnown, ReadPoints, WritePoints
  <2> QED BY <2>1, <2>2, <2>3
<1> QED BY <1>2, <1>3, <1>4, <1>c, <1>d DEF Known, EntriesKnown, UsesKnown, Alone, StaleWriteRejected

\* Every step of a single agent and the user keeps what is known.
LEMMA NextKnown ==
  ASSUME NEW me, Agents = {me}, TypeOK, Recorded, Known(me), [Next]_vars
  PROVE  Known(me)'
<1>1. ASSUME UNCHANGED <<file, tmp, heap, use, seen, createGap, refreshGap, blind>> PROVE Known(me)'
  BY <1>1 DEF Known, FilesKnown, EntriesKnown, EntryKnown, FullRead, UsesKnown, UseKnown, ReadKnown,
              WriteKnown, CreateKnown, Shown, Alone, StaleWriteRejected
<1>2. CASE UNCHANGED vars
  BY <1>1, <1>2 DEF vars, disk, memory, history
<1>3. ASSUME NEW p \in Procs, ToolStep(p) PROVE Known(me)'
  BY <1>3, StartKnown, ReadStepsKnown, ReadForEditKnown, CheckKnown, PermissionKnown, WriteTmpKnown,
     RenameKnown, RefreshKnown DEF ToolStep
<1>4. ASSUME NEW a \in Agents, NewMetadata(a) PROVE Known(me)'
  BY <1>1, <1>4 DEF NewMetadata, disk
<1>5. ASSUME NEW f \in Files, UserSaves(f) \/ UserDeletes(f) PROVE Known(me)'
  BY <1>5, UserKnown
<1> QED BY <1>2, <1>3, <1>4, <1>5 DEF Next

\* The record of what was shown is kept for every agent.
LEMMA NextRecorded ==
  ASSUME Recorded, [Next]_vars PROVE Recorded'
<1>1. \/ seen' = seen
      \/ \E p \in Procs : ReadSet(p) \/ WriteTmp(p)
  BY ZenonT(60) DEF Next, ToolStep, vars, history, Start, EnsureLookup, EnsureStore, ReadDedup, ReadStat, ReadText,
         ValidateRead, CallRead, ReadForEdit, ValidateCheck, CallCheck, Check, Permission,
         WriteFails, Rename, Refresh, NewMetadata, UserSaves, UserDeletes
<1>2. CASE seen' = seen
  BY <1>2 DEF Recorded
<1>3. ASSUME NEW p \in Procs, ReadSet(p) \/ WriteTmp(p) PROVE Recorded'
  BY <1>3 DEF ReadSet, WriteTmp, Recorded
<1> QED BY <1>1, <1>2, <1>3

\* Apart from the two gaps, a single agent's Write, Edit and NotebookEdit never
\* wipe out a change of the user that the call itself read and that the agent was
\* never shown: on any files, with any number of concurrent reads, whatever the user
\* saves and deletes meanwhile.
THEOREM StaleWritesAreRejected ==
  ASSUME NEW me, Agents = {me}
  PROVE  Spec => []StaleWriteRejected
<1>1. Init => TypeOK /\ Versions /\ Recorded /\ Known(me)
  BY InitType, InitVersions, InitKnown DEF Init, Recorded
<1>2. TypeOK /\ Versions /\ Recorded /\ Known(me) /\ [Next]_vars
        => (TypeOK /\ Versions /\ Recorded /\ Known(me))'
  BY NextGood, NextRecorded, NextKnown
<1>3. Known(me) => StaleWriteRejected
  BY DEF Known
<1> QED BY <1>1, <1>2, <1>3, PTL DEF Spec

-----------------------------------------------------------------------------
(* What authorises a write.  One use of an agent at a time: the ReadState that  *)
(* EnsureReadState finds is the one the agent's reads were recorded in.         *)

\* Agents do not share a ReadState.
Owners == \A a, b \in Agents : map[a] = map[b] /\ map[a] # 0 => a = b

\* A file read in full in this turn has an entry that says so.
Authorised ==
  \A a \in Agents, f \in Files :
    lastRead[a][f] = "Read" => map[a] # 0 /\ FullRead(heap[map[a]][f])

\* A Read stores the first ReadState of its agent, or records in the one there is.
UseOwns(p) ==
  /\ use[p].op = "none" => use[p].pc = "idle"
  /\ use[p].pc = "store" => map[p[1]] = 0
  /\ use[p].pc \in {"dedup", "stat", "text", "set"} => use[p].state = map[p[1]]

Authority ==
  /\ Owners /\ Authorised /\ ReadAuthorises
  /\ \A p \in Procs : UseOwns(p)
  /\ DOMAIN lastRead = Agents /\ \A a \in Agents : DOMAIN lastRead[a] = Files

\* Initially no agent has read anything.
LEMMA InitAuthority ==
  Init => Authority
<1> SUFFICES ASSUME Init PROVE Authority OBVIOUS
<1>1. \A a \in Agents : map[a] = 0 /\ \A f \in Files : lastRead[a][f] = "none"
  BY DEF Init
<1>2. \A p \in Procs : use[p].op = "none" /\ use[p].pc = "idle"
  BY DEF Init, Idle
<1>3. Owners /\ Authorised
  BY <1>1 DEF Owners, Authorised
<1>4. \A p \in Procs : UseOwns(p)
  BY <1>2 DEF UseOwns
<1> QED BY <1>3, <1>4 DEF Authority, ReadAuthorises, Init

\* A step of an agent leaves the ReadState of the others alone, and what the agent
\* has read in full is recorded where its next use will look.
LEMMA AgentStep ==
  ASSUME Slots = 1, TypeOK, Authority, NEW a \in Agents,
         \A b \in Agents : b # a => /\ map'[b] = map[b] /\ lastRead'[b] = lastRead[b]
                                    /\ map[b] # 0 => heap'[map[b]] = heap[map[b]],
         \A q \in Procs : q[1] # a => use'[q] = use[q],
         map'[a] \in {0, map[a], Len(heap) + 1},
         \A f \in Files : lastRead'[a][f] = "Read" => map'[a] # 0 /\ FullRead(heap'[map'[a]][f]),
         \A p \in Procs : p[1] = a => UseOwns(p)',
         DOMAIN lastRead' = Agents, DOMAIN lastRead'[a] = Files, ~denied'
  PROVE  Authority'
<1>1. map \in [Agents -> 0 .. Len(heap)] /\ Len(heap) \in Nat
  BY DEF TypeOK, MemoryOK
<1>2. Owners'
  <2>1. Owners
    BY DEF Authority
  <2>2. ASSUME NEW b \in Agents, NEW c \in Agents, map'[b] = map'[c], map'[b] # 0 PROVE b = c
    BY <1>1, <2>1, <2>2 DEF Owners
  <2> QED BY <2>2 DEF Owners
<1>3. Authorised'
  <2>1. ASSUME NEW b \in Agents, NEW f \in Files, lastRead'[b][f] = "Read"
        PROVE  map'[b] # 0 /\ FullRead(heap'[map'[b]][f])
    <3>1. CASE b = a
      BY <2>1, <3>1
    <3>2. CASE b # a
      <4>1. map[b] # 0 /\ FullRead(heap[map[b]][f])
        BY <2>1, <3>2 DEF Authority, Authorised
      <4> QED BY <3>2, <4>1 DEF FullRead
    <3> QED BY <3>1, <3>2
  <2> QED BY <2>1 DEF Authorised, FullRead
<1>4. ASSUME NEW q \in Procs PROVE UseOwns(q)'
  <2>1. CASE q[1] # a
    <3>1. q[1] \in Agents
      BY DEF Procs
    <3> QED BY <2>1, <3>1 DEF Authority, UseOwns
  <2> QED BY <2>1
<1> QED BY <1>2, <1>3, <1>4 DEF Authority, ReadAuthorises

\* The steps that leave the metadata and the ReadState alone.
LEMMA QuietAuthority ==
  ASSUME Slots = 1, TypeOK, Authority, NEW p \in Procs, Kept(p),
         UNCHANGED <<map, heap, lastRead, denied>>, UseOwns(p)'
  PROVE  Authority'
<1>1. p[1] \in Agents /\ \A q \in Procs : q[1] = p[1] => q = p
  BY DEF Procs
<1>2. \A q \in Procs : q[1] # p[1] => use'[q] = use[q]
  BY DEF Kept
<1>3. \A f \in Files : lastRead[p[1]][f] = "Read" => map[p[1]] # 0 /\ FullRead(heap[map[p[1]]][f])
  BY <1>1 DEF Authority, Authorised
<1>4. \A q \in Procs : q[1] = p[1] => UseOwns(q)'
  BY <1>1
<1>5. DOMAIN lastRead' = Agents /\ DOMAIN lastRead'[p[1]] = Files /\ ~denied'
  BY <1>1 DEF Authority, ReadAuthorises
<1>6. \A f \in Files : lastRead'[p[1]][f] = "Read" => map'[p[1]] # 0 /\ FullRead(heap'[map'[p[1]]][f])
  BY <1>3
<1> QED BY <1>1, <1>2, <1>4, <1>5, <1>6, AgentStep

\* The steps of a tool use that leave the metadata and the ReadState alone.
LEMMA QuietStepsAuthority ==
  ASSUME Slots = 1, TypeOK, Authority, NEW p \in Procs,
         \/ \E op \in ReadOps \cup WriteOps, f \in Files : Start(p, op, f)
         \/ EnsureLookup(p) \/ ReadDedup(p) \/ ReadStat(p) \/ ReadText(p)
         \/ ValidateRead(p) \/ CallRead(p) \/ Permission(p)
         \/ WriteTmp(p) \/ WriteFails(p) \/ Rename(p)
  PROVE  Authority'
<1>a. use \in [Procs -> Use] /\ UseOwns(p)
  BY DEF TypeOK, Authority
<1>b. UNCHANGED <<map, heap, lastRead, denied>>
  BY DEF Start, EnsureLookup, ReadDedup, ReadStat, ReadText, ValidateRead, CallRead, ReadForEdit,
         Permission, WriteTmp, WriteFails, Rename, memory, history
<1>1. ASSUME Return(p) PROVE Authority'
  <2>1. Kept(p) /\ use'[p].op = "none" /\ use'[p].pc = "idle"
    BY <1>1, <1>a DEF Return, Kept, Idle
  <2>2. UseOwns(p)'
    BY <2>1 DEF UseOwns
  <2> QED BY <1>b, <2>1, <2>2, QuietAuthority
<1>2. ASSUME NEW u, use' = [use EXCEPT ![p] = u], u.op # "none", u.pc # "store",
             u.pc \notin {"dedup", "stat", "text", "set"}
      PROVE  Authority'
  <2>1. Kept(p) /\ use'[p] = u
    BY <1>2, <1>a DEF Kept
  <2>2. UseOwns(p)'
    BY <1>2, <2>1 DEF UseOwns
  <2> QED BY <1>b, <2>1, <2>2, QuietAuthority
<1>3. ASSUME NEW op \in ReadOps \cup WriteOps, NEW f \in Files, Start(p, op, f) PROVE Authority'
  <2> DEFINE u == [Idle EXCEPT !.op = op, !.at = f,
                     !.pc = IF op \in ReadOps THEN "ensure" ELSE "validate"]
  <2>1. use' = [use EXCEPT ![p] = u]
    BY <1>3 DEF Start
  <2>2. u.op # "none" /\ u.pc \in {"ensure", "validate"}
    BY DEF Idle, ReadOps, WriteOps
  <2> HIDE DEF u
  <2> QED BY <1>2, <2>1, <2>2
<1>4. ASSUME NEW next, use[p].pc # "idle",
             use' = [use EXCEPT ![p] = next], next.op = use[p].op, next.pc \notin {"store", "dedup"},
             next.pc \in {"stat", "text", "set"} => /\ use[p].pc \in {"dedup", "stat", "text", "set"}
                                                    /\ next.state = use[p].state
      PROVE  Authority'
  <2>1. Kept(p) /\ use'[p] = next
    BY <1>4, <1>a DEF Kept
  <2>2. UseOwns(p)'
    BY <1>4, <1>a, <1>b, <2>1 DEF UseOwns
  <2> QED BY <1>b, <2>1, <2>2, QuietAuthority
<1>5. CASE EnsureLookup(p)
  <2> DEFINE u == [use[p] EXCEPT !.state = map[p[1]],
                                 !.pc = IF map[p[1]] = 0 THEN "store" ELSE "dedup"]
  <2>1. use' = [use EXCEPT ![p] = u] /\ use[p].pc = "ensure"
    BY <1>5, <1>a DEF EnsureLookup, At
  <2>2. Kept(p) /\ use'[p] = u
    BY <1>a, <2>1 DEF Kept
  <2>3. /\ u.op = use[p].op /\ u.state = map[p[1]] /\ u.pc \in {"store", "dedup"}
        /\ u.pc = "store" => map[p[1]] = 0
    BY <1>a DEF Use
  <2> HIDE DEF u
  <2>4. UseOwns(p)'
    BY <1>a, <1>b, <2>1, <2>2, <2>3 DEF UseOwns
  <2> QED BY <1>b, <2>2, <2>4, QuietAuthority
<1>6. ASSUME NEW c, Goto(p, c), use[p].pc # "idle", c \notin {"store", "dedup"},
             c \in {"stat", "text", "set"} => use[p].pc \in {"dedup", "stat", "text", "set"}
      PROVE  Authority'
  <2> DEFINE u == [use[p] EXCEPT !.pc = c]
  <2>1. use' = [use EXCEPT ![p] = u]
    BY <1>6, <1>a DEF Goto
  <2>2. u.op = use[p].op /\ u.state = use[p].state /\ u.pc = c
    BY <1>a DEF Use
  <2> HIDE DEF u
  <2> QED BY <1>4, <1>6, <2>1, <2>2
<1>7. CASE ReadDedup(p)
  BY <1>1, <1>6, <1>7 DEF ReadDedup, At
<1>8. CASE ReadStat(p)
  <2> DEFINE u == [use[p] EXCEPT !.read.mtime = file[use[p].at].mtime, !.pc = "text"]
  <2>1. use[p].pc = "stat" /\ (Return(p) \/ use' = [use EXCEPT ![p] = u])
    BY <1>8, <1>a DEF ReadStat, At, Use, File
  <2>2. u.op = use[p].op /\ u.state = use[p].state /\ u.pc = "text"
    BY <1>a DEF Use
  <2> HIDE DEF u
  <2> QED BY <1>1, <1>4, <2>1, <2>2
<1>9. CASE ReadText(p)
  <2> DEFINE u == [use[p] EXCEPT !.read.content = file[use[p].at].content, !.pc = "set"]
  <2>1. use[p].pc = "text" /\ (Return(p) \/ use' = [use EXCEPT ![p] = u])
    BY <1>9, <1>a DEF ReadText, At, Use, File
  <2>2. u.op = use[p].op /\ u.state = use[p].state /\ u.pc = "set"
    BY <1>a DEF Use
  <2> HIDE DEF u
  <2> QED BY <1>1, <1>4, <2>1, <2>2
<1>10. ASSUME NEW here \in {"validate", "call"}, NEW next \in {"validated", "called"},
              ReadForEdit(p, here, next)
       PROVE  Authority'
  <2> DEFINE u == [use[p] EXCEPT !.read = file[use[p].at], !.pc = next]
  <2>1. use[p].pc # "idle" /\ (Return(p) \/ use' = [use EXCEPT ![p] = u])
    BY <1>10, <1>a DEF ReadForEdit, At
  <2>2. u.op = use[p].op /\ u.state = use[p].state /\ u.pc = next
    BY <1>a DEF Use
  <2> HIDE DEF u
  <2> QED BY <1>1, <1>4, <2>1, <2>2
<1>11. CASE Permission(p)
  BY <1>1, <1>6, <1>11 DEF Permission, At
<1>12. CASE WriteFails(p)
  BY <1>1, <1>12 DEF WriteFails
<1>13. CASE WriteTmp(p)
  <2> DEFINE u == [use[p] EXCEPT !.pc = "rename", !.time = clock + 1]
  <2>1. use[p].pc = "write" /\ use' = [use EXCEPT ![p] = u]
    BY <1>13, <1>a DEF WriteTmp, At
  <2>2. u.op = use[p].op /\ u.state = use[p].state /\ u.pc = "rename"
    BY <1>a DEF Use
  <2> HIDE DEF u
  <2> QED BY <1>1, <1>4, <2>1, <2>2
<1>14. CASE Rename(p)
  BY <1>1, <1>6, <1>14 DEF Rename, At
<1> QED BY <1>3, <1>5, <1>7, <1>8, <1>9, <1>10, <1>11, <1>12, <1>13, <1>14 DEF ValidateRead, CallRead

\* EnsureReadState gives the agent the ReadState its full reads are recorded in.
LEMMA EnsuredAuthority ==
  ASSUME TypeOK, Authority, NEW a \in Agents
  PROVE  /\ EnsuredMap(a)[a] \in {map[a], Len(heap) + 1} /\ EnsuredMap(a)[a] # 0
         /\ \A b \in Agents : b # a => /\ EnsuredMap(a)[b] = map[b]
                                       /\ map[b] # EnsuredMap(a)[a] \/ map[b] = 0
                                       /\ map[b] # 0 => EnsuredHeap(a)[map[b]] = heap[map[b]]
         /\ \A f \in Files : lastRead[a][f] = "Read" => FullRead(EnsuredHeap(a)[EnsuredMap(a)[a]][f])
<1>1. map \in [Agents -> 0 .. Len(heap)] /\ Len(heap) \in Nat /\ heap \in Seq([Files -> ReadFileState])
  BY DEF TypeOK, MemoryOK
<1>2. CASE map[a] = 0
  <2>1. EnsuredHeap(a) = Append(heap, NewReadState) /\ EnsuredMap(a) = [map EXCEPT ![a] = Len(heap) + 1]
    BY <1>2 DEF EnsuredHeap, EnsuredMap
  <2>2. \A f \in Files : lastRead[a][f] # "Read"
    BY <1>2 DEF Authority, Authorised
  <2>3. \A i \in 1 .. Len(heap) : EnsuredHeap(a)[i] = heap[i]
    BY <1>1, <2>1
  <2> QED BY <1>1, <2>1, <2>2, <2>3
<1>3. CASE map[a] # 0
  <2>1. EnsuredHeap(a) = heap /\ EnsuredMap(a) = map
    BY <1>3 DEF EnsuredHeap, EnsuredMap
  <2> QED BY <1>1, <1>3, <2>1 DEF Authority, Authorised, Owners
<1> QED BY <1>2, <1>3

\* A Read stores the first ReadState of its agent.
LEMMA StoreAuthority ==
  ASSUME Slots = 1, TypeOK, Authority, NEW p \in Procs, EnsureStore(p)
  PROVE  Authority'
<1>0. p[1] \in Agents /\ \A q \in Procs : q[1] = p[1] => q = p
  BY DEF Procs
<1>a. /\ use \in [Procs -> Use] /\ UseOwns(p) /\ p[1] \in Agents /\ At(p, "store")
      /\ \A q \in Procs : q[1] = p[1] => q = p
  BY <1>0 DEF TypeOK, Authority, EnsureStore
<1>b. PICK a \in Agents : a = p[1]
  BY <1>a
<1>1. map[a] = 0
  BY <1>a, <1>b DEF UseOwns, At
<1>2. map' = EnsuredMap(a) /\ heap' = EnsuredHeap(a) /\ UNCHANGED <<lastRead, denied>>
  BY <1>b, <1>1 DEF EnsureStore, EnsuredMap, EnsuredHeap, history
<1>3. /\ map'[a] \in {map[a], Len(heap) + 1} /\ map'[a] # 0
      /\ \A b \in Agents : b # a => map'[b] = map[b] /\ (map[b] # 0 => heap'[map[b]] = heap[map[b]])
      /\ \A f \in Files : lastRead[a][f] = "Read" => FullRead(heap'[map'[a]][f])
  BY <1>2, EnsuredAuthority
<1>4. use' = [use EXCEPT ![p] = [use[p] EXCEPT !.state = Len(heap) + 1, !.pc = "dedup"]]
  BY <1>a DEF EnsureStore
<1>5. Kept(p) /\ use'[p].op = use[p].op /\ use'[p].pc = "dedup" /\ use'[p].state = Len(heap) + 1
  BY <1>a, <1>4 DEF Kept, Use
<1>6. map'[a] = Len(heap) + 1
  BY <1>1, <1>3
<1>7. UseOwns(p)'
  BY <1>a, <1>b, <1>5, <1>6 DEF UseOwns, At
<1>8. /\ \A q \in Procs : q[1] # a => use'[q] = use[q]
      /\ \A q \in Procs : q[1] = a => UseOwns(q)'
  BY <1>a, <1>b, <1>5, <1>7 DEF Kept
<1>9. /\ DOMAIN lastRead' = Agents /\ DOMAIN lastRead'[a] = Files /\ ~denied'
      /\ \A b \in Agents : lastRead'[b] = lastRead[b]
  BY <1>2 DEF Authority, ReadAuthorises
<1> QED BY <1>3, <1>8, <1>9, AgentStep

\* Validation and call look where the agent's reads are recorded.
LEMMA CheckAuthority ==
  ASSUME Slots = 1, TypeOK, Authority, NEW p \in Procs, ValidateCheck(p) \/ CallCheck(p)
  PROVE  Authority'
<1>a. /\ use \in [Procs -> Use] /\ UseOwns(p) /\ p[1] \in Agents
      /\ \A q \in Procs : q[1] = p[1] => q = p
  BY DEF TypeOK, Authority, Procs
<1>b. PICK a \in Agents : a = p[1]
  BY <1>a
<1>f. use[p].at \in Files /\ use[p].pc \in {"validated", "called"}
  BY DEF ValidateCheck, CallCheck, Check, At, TypeOK, UseOK
<1>1. PICK checks \in BOOLEAN :
        /\ map' = IF checks THEN EnsuredMap(a) ELSE map
        /\ heap' = IF checks THEN EnsuredHeap(a) ELSE heap
        /\ denied' = (denied \/ (checks /\ NotRead(a, use[p].at) /\ lastRead[a][use[p].at] = "Read"))
        /\ lastRead' = lastRead
        /\ Return(p) \/ Goto(p, "permit") \/ Goto(p, "write")
  <2>1. ValidateChecks(use[p].op, use[p].read) \in BOOLEAN /\ CallChecks(use[p].op, use[p].read) \in BOOLEAN
    BY <1>a DEF ValidateChecks, CallChecks, Use, File
  <2> QED BY <1>b, <2>1 DEF ValidateCheck, CallCheck, Check
<1>2. /\ map'[a] \in {map[a], Len(heap) + 1}
      /\ \A b \in Agents : b # a => map'[b] = map[b] /\ (map[b] # 0 => heap'[map[b]] = heap[map[b]])
      /\ \A f \in Files : lastRead[a][f] = "Read" => map'[a] # 0 /\ FullRead(heap'[map'[a]][f])
  <2>1. CASE checks
    <3>1. map' = EnsuredMap(a) /\ heap' = EnsuredHeap(a)
      BY <1>1, <2>1
    <3> QED BY <3>1, EnsuredAuthority
  <2>2. CASE ~checks
    <3>1. map' = map /\ heap' = heap
      BY <1>1, <2>2
    <3> QED BY <3>1 DEF Authority, Authorised
  <2> QED BY <2>1, <2>2
<1>3. ~denied'
  <2>1. ~denied
    BY DEF Authority, ReadAuthorises
  <2>2. lastRead[a][use[p].at] = "Read" => ~NotRead(a, use[p].at)
    BY <1>f, EnsuredAuthority DEF NotRead, Entry
  <2> QED BY <1>1, <2>1, <2>2
<1>4. /\ Kept(p) /\ use'[p].pc \in {"idle", "permit", "write"}
      /\ use'[p].op = "none" => use'[p].pc = "idle"
  <2>1. CASE Return(p)
    BY <1>a, <2>1 DEF Return, Kept, Idle
  <2>2. ASSUME NEW c \in {"permit", "write"}, Goto(p, c) PROVE Kept(p) /\ use'[p].pc = c /\ use'[p].op = use[p].op
    <3>1. use' = [use EXCEPT ![p] = [use[p] EXCEPT !.pc = c]]
      BY <1>a, <2>2 DEF Goto
    <3> QED BY <1>a, <3>1 DEF Kept, Use
  <2>3. use[p].op # "none"
    BY <1>a, <1>f DEF UseOwns
  <2> QED BY <1>1, <2>1, <2>2, <2>3
<1>5. UseOwns(p)'
  BY <1>4 DEF UseOwns
<1>6. /\ \A q \in Procs : q[1] # a => use'[q] = use[q]
      /\ \A q \in Procs : q[1] = a => UseOwns(q)'
  BY <1>a, <1>b, <1>4, <1>5 DEF Kept
<1>7. /\ DOMAIN lastRead' = Agents /\ DOMAIN lastRead'[a] = Files
      /\ \A b \in Agents : lastRead'[b] = lastRead[b]
  BY <1>1 DEF Authority
<1> QED BY <1>1, <1>2, <1>3, <1>6, <1>7, AgentStep

\* ReadState.Set in the agent's own ReadState, with how the file was read.
LEMMA RecordAuthority ==
  ASSUME Slots = 1, TypeOK, Authority, NEW p \in Procs, Return(p), denied' = denied,
         NEW a \in Agents, a = p[1], NEW f \in Files, NEW h \in Seq([Files -> ReadFileState]),
         NEW i \in 1 .. Len(h), map'[a] = i, i \in {map[a], Len(heap) + 1},
         \A b \in Agents : b # a => /\ map'[b] = map[b]
                                    /\ map[b] # i \/ map[b] = 0
                                    /\ map[b] # 0 => map[b] \in 1 .. Len(h) /\ h[map[b]] = heap[map[b]],
         \A g \in Files : lastRead[a][g] = "Read" => FullRead(h[i][g]),
         NEW e, NEW how, how = "Read" => FullRead(e),
         heap' = SetEntry(h, i, f, e), lastRead' = [lastRead EXCEPT ![a][f] = how]
  PROVE  Authority'
<1>a. use \in [Procs -> Use] /\ \A q \in Procs : q[1] = a => q = p
  BY DEF TypeOK, Procs
<1>2. Kept(p) /\ use'[p].op = "none" /\ use'[p].pc = "idle"
  BY <1>a DEF Return, Kept, Idle
<1>3. UseOwns(p)'
  BY <1>2 DEF UseOwns
<1>4. /\ \A q \in Procs : q[1] # a => use'[q] = use[q]
      /\ \A q \in Procs : q[1] = a => UseOwns(q)'
  BY <1>a, <1>2, <1>3 DEF Kept
<1>5. ~denied'
  BY DEF Authority, ReadAuthorises
<1>6. DOMAIN lastRead = Agents /\ \A b \in Agents : DOMAIN lastRead[b] = Files
  BY DEF Authority
<1>7. /\ DOMAIN lastRead' = Agents /\ DOMAIN lastRead'[a] = Files
      /\ \A b \in Agents : b # a => lastRead'[b] = lastRead[b]
      /\ \A g \in Files : lastRead'[a][g] = IF g = f THEN how ELSE lastRead[a][g]
  BY <1>6
<1>8. /\ \A j \in 1 .. Len(h) : j # i => heap'[j] = h[j]
      /\ \A g \in Files : heap'[i][g] = IF g = f THEN e ELSE h[i][g]
  BY DEF SetEntry
<1>9. \A b \in Agents : b # a => /\ map'[b] = map[b] /\ lastRead'[b] = lastRead[b]
                                 /\ map[b] # 0 => heap'[map[b]] = heap[map[b]]
  BY <1>7, <1>8
<1>10. ASSUME NEW g \in Files, lastRead'[a][g] = "Read" PROVE map'[a] # 0 /\ FullRead(heap'[map'[a]][g])
  <2>1. CASE g = f
    BY <1>7, <1>8, <1>10, <2>1
  <2>2. CASE g # f
    BY <1>7, <1>8, <1>10, <2>2
  <2> QED BY <2>1, <2>2
<1> QED BY <1>4, <1>5, <1>7, <1>9, <1>10, AgentStep, SMTT(60)

\* A Read records what it read.
LEMMA ReadSetAuthority ==
  ASSUME Slots = 1, TypeOK, Authority, NEW p \in Procs, ReadSet(p)
  PROVE  Authority'
<1>a. use \in [Procs -> Use] /\ UseOwns(p) /\ UseOK(use[p]) /\ p[1] \in Agents /\ At(p, "set")
  BY DEF TypeOK, Authority, Procs, ReadSet
<1>m. map \in [Agents -> 0 .. Len(heap)] /\ Len(heap) \in Nat /\ heap \in Seq([Files -> ReadFileState])
  BY DEF TypeOK, MemoryOK
<1>b. PICK a \in Agents : a = p[1]
  BY <1>a
<1>f. PICK f \in Files : f = use[p].at
  BY <1>a DEF At, UseOK
<1>i. PICK i \in 1 .. Len(heap) : i = use[p].state
  BY <1>a, <1>m DEF At, UseOK
<1>h. PICK h \in Seq([Files -> ReadFileState]) : h = heap
  BY <1>m
<1>e. PICK e : e = ReadEntry(use[p])
  OBVIOUS
<1>w. PICK how : how = use[p].op
  OBVIOUS
<1>1. i = map[a] /\ map' = map
  BY <1>a, <1>b, <1>i DEF At, UseOwns, ReadSet
<1>2. /\ heap' = SetEntry(h, i, f, e) /\ lastRead' = [lastRead EXCEPT ![a][f] = how]
      /\ Return(p) /\ denied' = denied
  BY <1>b, <1>f, <1>i, <1>h, <1>e, <1>w DEF ReadSet
<1>3. how = "Read" => FullRead(e)
  BY <1>e, <1>w DEF FullRead, ReadEntry
<1>4. \A b \in Agents : b # a => /\ map'[b] = map[b]
                                 /\ map[b] # i \/ map[b] = 0
                                 /\ map[b] # 0 => map[b] \in 1 .. Len(h) /\ h[map[b]] = heap[map[b]]
  <2>1. Owners
    BY DEF Authority
  <2>2. \A b \in Agents : b # a => map[b] # i
    BY <1>1, <2>1 DEF Owners
  <2> QED BY <1>1, <1>m, <1>h, <2>2
<1>5. \A g \in Files : lastRead[a][g] = "Read" => FullRead(h[i][g])
  BY <1>1, <1>h DEF Authority, Authorised
<1>6. i \in 1 .. Len(h) /\ map'[a] = i /\ i \in {map[a], Len(heap) + 1}
  BY <1>1, <1>h
<1> QED BY <1>b, <1>2, <1>3, <1>4, <1>5, <1>6, RecordAuthority, ZenonT(60)

\* A write records what it wrote.
LEMMA RefreshAuthority ==
  ASSUME Slots = 1, TypeOK, Authority, NEW p \in Procs, Refresh(p)
  PROVE  Authority'
<1>a. use \in [Procs -> Use] /\ UseOK(use[p]) /\ p[1] \in Agents /\ At(p, "refresh")
  BY DEF TypeOK, Authority, Procs, Refresh
<1>m. map \in [Agents -> 0 .. Len(heap)] /\ Len(heap) \in Nat
  BY DEF TypeOK, MemoryOK
<1>b. PICK a \in Agents : a = p[1]
  BY <1>a
<1>f. PICK f \in Files : f = use[p].at
  BY <1>a DEF At, UseOK
<1>h. PICK h : h = EnsuredHeap(a)
  OBVIOUS
<1>i. PICK i : i = EnsuredMap(a)[a]
  OBVIOUS
<1>e. PICK e : e = WriteEntry(use[p], file[f].mtime)
  OBVIOUS
<1>1. h \in Seq([Files -> ReadFileState]) /\ i \in 1 .. Len(h) /\ Len(heap) <= Len(h)
  BY <1>h, <1>i, EnsureFacts
<1>2. map' = EnsuredMap(a) /\ map'[a] = i /\ Return(p) /\ denied' = denied
  BY <1>b, <1>i DEF Refresh
<1>3. /\ i \in {map[a], Len(heap) + 1} /\ i # 0
      /\ \A b \in Agents : b # a => /\ map'[b] = map[b]
                                    /\ map[b] # i \/ map[b] = 0
                                    /\ map[b] # 0 => h[map[b]] = heap[map[b]]
      /\ \A g \in Files : lastRead[a][g] = "Read" => FullRead(h[i][g])
  BY <1>2, <1>h, <1>i, EnsuredAuthority
<1>4. \A b \in Agents : map[b] # 0 => map[b] \in 1 .. Len(h)
  BY <1>1, <1>m
<1>5. CASE file[f].exists
  <2>1. heap' = SetEntry(h, i, f, e) /\ lastRead' = [lastRead EXCEPT ![a][f] = "Read"]
    BY <1>b, <1>f, <1>h, <1>i, <1>e, <1>5 DEF Refresh
  <2>2. FullRead(e)
    BY <1>e DEF FullRead, WriteEntry
  <2> QED BY <1>b, <1>1, <1>2, <1>3, <1>4, <2>1, <2>2, RecordAuthority, ZenonT(60)
<1>6. CASE ~file[f].exists
  <2>1. heap' = h /\ lastRead' = lastRead
    BY <1>b, <1>f, <1>h, <1>6 DEF Refresh
  <2>2. Kept(p) /\ use'[p].op = "none" /\ use'[p].pc = "idle"
    BY <1>a, <1>2 DEF Return, Kept, Idle
  <2>3. UseOwns(p)'
    BY <2>2 DEF UseOwns
  <2>4. /\ \A q \in Procs : q[1] # a => use'[q] = use[q]
        /\ \A q \in Procs : q[1] = a => UseOwns(q)'
    BY <1>b, <2>2, <2>3 DEF Kept, Procs
  <2>5. DOMAIN lastRead' = Agents /\ DOMAIN lastRead'[a] = Files /\ ~denied'
    BY <1>2, <2>1 DEF Authority, ReadAuthorises
  <2>6. \A g \in Files : lastRead'[a][g] = "Read" => map'[a] # 0 /\ FullRead(heap'[map'[a]][g])
    BY <1>2, <1>3, <2>1
  <2>7. \A b \in Agents : b # a => /\ map'[b] = map[b] /\ lastRead'[b] = lastRead[b]
                                   /\ map[b] # 0 => heap'[map[b]] = heap[map[b]]
    BY <1>3, <2>1
  <2> QED BY <1>2, <1>3, <2>4, <2>5, <2>6, <2>7, AgentStep
<1> QED BY <1>5, <1>6

\* A new turn forgets what was read, and the ReadState with it.
LEMMA MetadataAuthority ==
  ASSUME Slots = 1, PerRound = {}, TypeOK, Authority, NEW a \in Agents, NewMetadata(a)
  PROVE  Authority'
<1>1. /\ map' = [map EXCEPT ![a] = 0] /\ heap' = heap /\ use' = use /\ denied' = denied
      /\ lastRead' = [lastRead EXCEPT ![a] = [f \in Files |-> "none"]]
  BY DEF NewMetadata
<1>2. map \in [Agents -> 0 .. Len(heap)] /\ use \in [Procs -> Use]
  BY DEF TypeOK, MemoryOK
<1>3. ASSUME NEW p \in Procs, p[1] = a PROVE UseOwns(p)'
  <2>1. use[p].op = "none"
    BY <1>2, <1>3 DEF NewMetadata, Busy, Use
  <2>2. use[p].pc = "idle"
    BY <2>1 DEF Authority, UseOwns
  <2> QED BY <1>1, <2>2 DEF UseOwns
<1>4. DOMAIN lastRead = Agents
  BY DEF Authority
<1>5. /\ DOMAIN lastRead' = Agents /\ lastRead'[a] = [f \in Files |-> "none"]
      /\ \A b \in Agents : b # a => lastRead'[b] = lastRead[b]
  BY <1>1, <1>4
<1>6. /\ map'[a] = 0 /\ \A b \in Agents : b # a => map'[b] = map[b]
  BY <1>1, <1>2
<1>7. ~denied'
  BY <1>1 DEF Authority, ReadAuthorises
<1>8. DOMAIN lastRead'[a] = Files /\ \A f \in Files : lastRead'[a][f] # "Read"
  BY <1>5
<1> QED BY <1>1, <1>3, <1>5, <1>6, <1>7, <1>8, AgentStep

\* Every step keeps the authority of full reads.
LEMMA NextAuthority ==
  ASSUME Slots = 1, PerRound = {}, TypeOK, Authority, [Next]_vars
  PROVE  Authority'
<1>1. ASSUME UNCHANGED <<map, heap, use, lastRead, denied>> PROVE Authority'
  BY <1>1 DEF Authority, Owners, Authorised, FullRead, UseOwns, ReadAuthorises
<1>2. CASE UNCHANGED vars
  BY <1>1, <1>2 DEF vars, memory, history
<1>3. ASSUME NEW p \in Procs, ToolStep(p) PROVE Authority'
  BY <1>3, QuietStepsAuthority, StoreAuthority, CheckAuthority, ReadSetAuthority, RefreshAuthority DEF ToolStep
<1>4. ASSUME NEW a \in Agents, NewMetadata(a) PROVE Authority'
  BY <1>4, MetadataAuthority
<1>5. ASSUME NEW f \in Files, UserSaves(f) \/ UserDeletes(f) PROVE Authority'
  BY <1>1, <1>5 DEF UserSaves, UserDeletes, memory, history
<1> QED BY <1>2, <1>3, <1>4, <1>5 DEF Next

\* With one use at a time and metadata that lasts a turn, no agent is told to read a
\* file that it read in full or wrote in this turn, however many agents and files.
THEOREM ReadsAuthorise ==
  ASSUME Slots = 1, PerRound = {}
  PROVE  Spec => []ReadAuthorises
<1>1. Init => TypeOK /\ Versions /\ Authority
  BY InitType, InitVersions, InitAuthority
<1>2. TypeOK /\ Versions /\ Authority /\ [Next]_vars => (TypeOK /\ Versions /\ Authority)'
  BY NextGood, NextAuthority
<1>3. Authority => ReadAuthorises
  BY DEF Authority
<1> QED BY <1>1, <1>2, <1>3, PTL DEF Spec
=============================================================================
