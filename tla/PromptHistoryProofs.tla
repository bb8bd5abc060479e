------------------------ MODULE PromptHistoryProofs ------------------------
(***************************************************************************)
(* Proofs about the prompt history for any number of processes, flushes,   *)
(* entries and faults: the lock file excludes until one is older than      *)
(* StaleAge; what was entered is kept in one place and in order; what was  *)
(* taken back stays hidden; and a listing misses nothing.                  *)
(***************************************************************************)
EXTENDS PromptHistory, FiniteSetTheorems, WellFoundedInduction, TLAPS

\* The calls under way are records with a program counter, and times are numbers.
Shape ==
  /\ DOMAIN flush = Flushers
  /\ \A f \in Flushers : "pc" \in DOMAIN flush[f]
  /\ now \in Int /\ lock.mtime \in Int /\ lock.held \in BOOLEAN

\* Nobody is about to remove a lock file as left behind, and a call inside
\* has its lock file in place: this is what keeps a second one out.
Young ==
  /\ \A f \in Flushers : flush[f].pc # "remove"
  /\ \A f \in Flushers : flush[f].pc \in Inside => lock.held
  /\ \A f, g \in Flushers : flush[f].pc \in Inside /\ flush[g].pc \in Inside => f = g
  /\ lock.held => now - lock.mtime <= StaleAge

LockInv == Shape /\ (~overAged => Young)

LEMMA ConstantsOK == LockTimeout \in Nat /\ StaleAge \in Nat /\ MaxClock \in Nat
  BY PromptHistoryAssumption

LEMMA InitLock == Init => LockInv
  BY ConstantsOK DEF Init, LockInv, Shape, Young, NoLock, Idle, Inside

\* Moving a call changes its program counter only.
LEMMA Moved ==
  ASSUME Shape, NEW f \in Flushers, NEW pc, Move(f, pc)
  PROVE  /\ DOMAIN flush' = Flushers
         /\ \A g \in Flushers : "pc" \in DOMAIN flush'[g]
         /\ flush'[f].pc = pc
         /\ \A g \in Flushers : g # f => flush'[g] = flush[g]
<1>1. flush' = [flush EXCEPT ![f] = [flush[f] EXCEPT !.pc = pc]]
  BY DEF Move
<1> QED BY <1>1 DEF Shape

LEMMA TickLock == LockInv /\ Tick => LockInv'
<1> SUFFICES ASSUME LockInv, Tick PROVE LockInv'
  OBVIOUS
<1>1. UNCHANGED <<lock, flush>> /\ now' = now + 1
  BY DEF Tick, disk
<1>2. ~overAged' => ~overAged /\ (lock.held => now' - lock.mtime <= StaleAge)
  <2>1. overAged' = (overAged \/ (lock.held /\ now' - lock.mtime > StaleAge))
    BY DEF Tick
  <2>2. ~overAged' => ~overAged /\ ~(lock.held /\ now' - lock.mtime > StaleAge)
    BY <2>1, Zenon
  <2>3. now' - lock.mtime > StaleAge \/ now' - lock.mtime <= StaleAge
    BY <1>1, ConstantsOK DEF LockInv, Shape
  <2> QED BY <2>2, <2>3, Zenon
<1> QED BY <1>1, <1>2 DEF LockInv, Shape, Young, Inside

\* Steps that leave the clock, the lock file and the calls alone.
LEMMA Untouched == LockInv /\ UNCHANGED <<now, lock, flush, overAged>> => LockInv'
  BY DEF LockInv, Shape, Young, Inside

LEMMA WriterLock ==
  ASSUME LockInv, NEW w \in Writers,
         Queue(w) \/ RemoveLastPending(w) \/ RemoveLast(w) \/ BeginLoad(w)
  PROVE  LockInv'
<1>1. UNCHANGED <<now, lock, flush, overAged>>
  BY DEF Queue, RemoveLastPending, RemoveLast, BeginLoad, disk, history
<1> QED BY <1>1, Untouched

LEMMA CrashLock ==
  ASSUME LockInv, NEW w \in Writers, Crash(w)
  PROVE  LockInv'
<1>1. UNCHANGED <<now, lock, overAged>> /\ flush' = [f \in Flushers |-> IF f[1] = w THEN Idle ELSE flush[f]]
  BY DEF Crash, disk, history
<1>2. \A f \in Flushers : flush'[f] = Idle \/ flush'[f] = flush[f]
  BY <1>1
<1>3. "pc" \in DOMAIN Idle /\ Idle.pc = "idle"
  BY DEF Idle
<1> QED BY <1>1, <1>2, <1>3 DEF LockInv, Shape, Young, Inside

LEMMA BeginLock ==
  ASSUME LockInv, NEW f \in Flushers, Flush(f) \/ AddToHistory(f)
  PROVE  LockInv'
<1>1. PICK batch : Begin(f, batch)
  BY DEF Flush, AddToHistory
<1>2. UNCHANGED <<now, lock, overAged>>
  BY <1>1 DEF Begin, disk
<1>3. /\ DOMAIN flush' = Flushers
      /\ flush'[f].pc = "open" /\ "pc" \in DOMAIN flush'[f]
      /\ \A g \in Flushers : g # f => flush'[g] = flush[g]
  BY <1>1 DEF Begin, LockInv, Shape
<1> QED BY <1>2, <1>3 DEF LockInv, Shape, Young, Inside

\* A call that goes to a program counter outside the lock.
LEMMA OutsideLock ==
  ASSUME LockInv, NEW f \in Flushers, NEW pc, Move(f, pc),
         pc \notin Inside, ~overAged => pc # "remove",
         UNCHANGED <<now, lock, overAged>>
  PROVE  LockInv'
<1>1. Shape
  BY DEF LockInv
<1>2. Move(f, pc)
  OBVIOUS
<1> QED BY <1>1, <1>2, Moved DEF LockInv, Shape, Young

LEMMA OpenLockLock ==
  ASSUME LockInv, NEW f \in Flushers, OpenLock(f)
  PROVE  LockInv'
<1>1. UNCHANGED <<now, overAged>> /\ flush[f].pc = "open"
  BY DEF OpenLock, history
<1>2. CASE lock.held
  <2>1. Move(f, "stat") /\ lock' = lock
    BY <1>2 DEF OpenLock
  <2> QED BY <1>1, <2>1, OutsideLock DEF Inside
<1>3. CASE ~lock.held
  <2>1. Move(f, "append") /\ lock' = [held |-> TRUE, mtime |-> now]
    BY <1>3 DEF OpenLock
  <2>2. Shape
    BY DEF LockInv
  <2>3. /\ DOMAIN flush' = Flushers
        /\ \A g \in Flushers : "pc" \in DOMAIN flush'[g]
        /\ flush'[f].pc = "append"
        /\ \A g \in Flushers : g # f => flush'[g] = flush[g]
    BY <2>1, <2>2, Moved
  <2>4. ~overAged => \A g \in Flushers : flush[g].pc \notin Inside
    BY <1>3 DEF LockInv, Young
  <2> QED BY <1>1, <2>1, <2>2, <2>3, <2>4, ConstantsOK DEF LockInv, Shape, Young
<1> QED BY <1>2, <1>3

LEMMA AgainLock ==
  ASSUME LockInv, NEW f \in Flushers, Again(f), UNCHANGED <<now, lock, overAged>>
  PROVE  LockInv'
<1>1. PICK pc \in {"requeue", "open"} : Move(f, pc)
  BY DEF Again
<1> QED BY <1>1, OutsideLock DEF Inside

LEMMA StatLockLock ==
  ASSUME LockInv, NEW f \in Flushers, StatLock(f)
  PROVE  LockInv'
<1>1. UNCHANGED <<now, lock, overAged>>
  BY DEF StatLock, disk, history
<1>2. CASE lock.held /\ now - lock.mtime > StaleAge
  <2>1. Move(f, "remove")
    BY <1>2 DEF StatLock
  <2>2. overAged
    BY <1>2, ConstantsOK DEF LockInv, Shape, Young
  <2> QED BY <1>1, <2>1, <2>2, OutsideLock DEF Inside
<1>3. CASE ~(lock.held /\ now - lock.mtime > StaleAge)
  <2>1. Again(f)
    BY <1>3 DEF StatLock
  <2> QED BY <1>1, <2>1, AgainLock
<1> QED BY <1>2, <1>3

LEMMA RemoveLockLock ==
  ASSUME LockInv, NEW f \in Flushers, RemoveLock(f)
  PROVE  LockInv'
<1>1. overAged /\ overAged' /\ now' = now /\ lock' = NoLock
  BY DEF RemoveLock, LockInv, Young, history
<1>2. PICK pc : Move(f, pc)
  BY DEF RemoveLock, Again
<1>3. Shape
  BY DEF LockInv
<1> QED BY <1>1, <1>2, <1>3, Moved DEF LockInv, Shape, NoLock

LEMMA AppendLock ==
  ASSUME LockInv, NEW f \in Flushers, AppendEntry(f)
  PROVE  LockInv'
<1>1. UNCHANGED <<now, lock, overAged>> /\ flush[f].pc \in Inside
  BY DEF AppendEntry, Inside
<1>2. /\ DOMAIN flush' = Flushers
      /\ flush'[f].pc \in Inside \ {"remove"} /\ "pc" \in DOMAIN flush'[f]
      /\ \A g \in Flushers : g # f => flush'[g] = flush[g]
  BY DEF AppendEntry, LockInv, Shape, Inside
<1> QED BY <1>1, <1>2 DEF LockInv, Shape, Young

LEMMA AppendFailsLock ==
  ASSUME LockInv, NEW f \in Flushers, AppendFails(f)
  PROVE  LockInv'
<1>1. UNCHANGED <<now, lock, overAged>> /\ flush[f].pc \in Inside
  BY DEF AppendFails, Inside, history
<1>2. Shape /\ Move(f, "unlockFailed")
  BY DEF AppendFails, LockInv
<1> QED BY <1>1, <1>2, Moved DEF LockInv, Shape, Young, Inside

LEMMA UnlockLock ==
  ASSUME LockInv, NEW f \in Flushers, Unlock(f)
  PROVE  LockInv'
<1>1. UNCHANGED <<now, overAged>> /\ lock' = NoLock /\ flush[f].pc \in Inside
  BY DEF Unlock, Inside, history
<1>2. /\ DOMAIN flush' = Flushers
      /\ flush'[f].pc \in {"idle", "requeue"} /\ "pc" \in DOMAIN flush'[f]
      /\ \A g \in Flushers : g # f => flush'[g] = flush[g]
  BY DEF Unlock, LockInv, Shape, Idle
<1>3. ~overAged => \A g \in Flushers : g # f => flush[g].pc \notin Inside
  BY <1>1 DEF LockInv, Young
<1> QED BY <1>1, <1>2, <1>3 DEF LockInv, Shape, Young, NoLock, Inside

LEMMA RequeueLock ==
  ASSUME LockInv, NEW f \in Flushers, Requeue(f)
  PROVE  LockInv'
<1>1. UNCHANGED <<now, lock, overAged>> /\ flush' = [flush EXCEPT ![f] = Idle]
  BY DEF Requeue, disk
<1>2. Idle.pc = "idle" /\ "pc" \in DOMAIN Idle
  BY DEF Idle
<1> QED BY <1>1, <1>2 DEF LockInv, Shape, Young, Inside

LEMMA StepLock ==
  ASSUME LockInv, NEW f \in Flushers, Step(f)
  PROVE  LockInv'
<1>1. CASE OpenFails(f)
  <2>1. Move(f, "requeue") /\ UNCHANGED <<now, lock, overAged>>
    BY <1>1 DEF OpenFails, disk, history
  <2> QED BY <2>1, OutsideLock DEF Inside
<1> QED BY <1>1, OpenLockLock, StatLockLock, RemoveLockLock, AppendLock, AppendFailsLock,
           UnlockLock, RequeueLock DEF Step

LEMMA NextLock == LockInv /\ [Next]_vars => LockInv'
<1> SUFFICES ASSUME LockInv, [Next]_vars PROVE LockInv'
  OBVIOUS
<1>1. CASE Tick
  BY <1>1, TickLock
<1>2. CASE \E w \in Writers : Crash(w)
  BY <1>2, CrashLock
<1>3. CASE \E w \in Writers : Queue(w) \/ RemoveLastPending(w) \/ RemoveLast(w) \/ BeginLoad(w)
  BY <1>3, WriterLock
<1>4. CASE \E f \in Flushers : Flush(f) \/ AddToHistory(f)
  BY <1>4, BeginLock
<1>5. CASE \E f \in Flushers : Step(f)
  BY <1>5, StepLock
<1>6. CASE UNCHANGED vars
  BY <1>6, Untouched DEF vars, disk, history
<1> QED BY <1>1, <1>2, <1>3, <1>4, <1>5, <1>6 DEF Next

\* withHistoryLock excludes as long as no lock file has grown older than
\* StaleAge, whatever fails and whoever dies.
THEOREM LockTheorem == Spec => []LockExcludes
<1>1. LockInv => LockExcludes
  BY DEF LockInv, Young, LockExcludes
<1> QED BY <1>1, InitLock, NextLock, PTL DEF Spec

-----------------------------------------------------------------------------
(* Sequences in which nothing occurs twice, and sequences sorted by n *)

Once(s) == \A i, j \in 1 .. Len(s) : s[i] = s[j] => i = j

Sorted(s) == \A i, j \in 1 .. Len(s) : i < j => s[i].n < s[j].n

LEMMA Members ==
  ASSUME NEW M, NEW s \in Seq(M)
  PROVE  /\ \A e : e \in ToSet(s) <=> \E i \in 1 .. Len(s) : s[i] = e
         /\ ToSet(s) \subseteq M
<1>1. DOMAIN s = 1 .. Len(s)
  OBVIOUS
<1>2. \A i \in 1 .. Len(s) : s[i] \in M
  OBVIOUS
<1>3. \A e : e \in ToSet(s) <=> \E i \in 1 .. Len(s) : s[i] = e
  BY <1>1, Zenon DEF ToSet
<1> QED BY <1>2, <1>3, Zenon

LEMMA Appended ==
  ASSUME NEW M, NEW s \in Seq(M), NEW e \in M
  PROVE  /\ Append(s, e) \in Seq(M)
         /\ ToSet(Append(s, e)) = ToSet(s) \cup {e}
         /\ Once(s) /\ e \notin ToSet(s) => Once(Append(s, e))
         /\ Sorted(s) /\ (\A x \in ToSet(s) : x.n < e.n) => Sorted(Append(s, e))
<1>1. PICK t \in Seq(M) : t = Append(s, e)
  <2>1. Append(s, e) \in Seq(M)
    OBVIOUS
  <2> QED BY <2>1, Zenon
<1>2. Len(t) = Len(s) + 1 /\ t[Len(s) + 1] = e /\ \A i \in 1 .. Len(s) : t[i] = s[i]
  BY <1>1
<1>3. Len(s) \in Nat /\ \A i \in 1 .. Len(s) + 1 : i \in 1 .. Len(s) \/ i = Len(s) + 1
  OBVIOUS
<1>4. Len(s) + 1 \in 1 .. Len(t) /\ \A i \in 1 .. Len(s) : i \in 1 .. Len(t)
  BY <1>2, <1>3
<1>5. \A x : x \in ToSet(t) <=> x \in ToSet(s) \/ x = e
  <2>1. \A x : x \in ToSet(s) <=> \E i \in 1 .. Len(s) : s[i] = x
    BY Members
  <2>2. \A x : x \in ToSet(t) <=> \E i \in 1 .. Len(t) : t[i] = x
    BY Members
  <2>3. ASSUME NEW x, x \in ToSet(t) PROVE x \in ToSet(s) \/ x = e
    <3>1. PICK i \in 1 .. Len(t) : t[i] = x
      BY <2>2, <2>3
    <3>2. i \in 1 .. Len(s) \/ i = Len(s) + 1
      BY <1>2, <1>3
    <3> QED BY <1>2, <2>1, <3>1, <3>2, Zenon
  <2>4. ASSUME NEW x, x \in ToSet(s) \/ x = e PROVE x \in ToSet(t)
    BY <1>2, <1>4, <2>1, <2>2, <2>4, Zenon
  <2> QED BY <2>3, <2>4
<1>6. ASSUME Once(s), e \notin ToSet(s) PROVE Once(t)
  <2>1. \A i \in 1 .. Len(s) : s[i] # e
    BY <1>6, Members
  <2>2. ASSUME NEW i \in 1 .. Len(t), NEW j \in 1 .. Len(t), t[i] = t[j] PROVE i = j
    <3>1. (i \in 1 .. Len(s) \/ i = Len(s) + 1) /\ (j \in 1 .. Len(s) \/ j = Len(s) + 1)
      BY <1>2, <1>3
    <3> QED BY <1>2, <1>6, <2>1, <2>2, <3>1, Zenon DEF Once
  <2> QED BY <2>2 DEF Once
<1>7. ASSUME Sorted(s), \A x \in ToSet(s) : x.n < e.n PROVE Sorted(t)
  <2>1. \A i \in 1 .. Len(s) : s[i].n < e.n
    BY <1>7, Members
  <2>2. ASSUME NEW i \in 1 .. Len(t), NEW j \in 1 .. Len(t), i < j PROVE t[i].n < t[j].n
    <3>1. i \in 1 .. Len(s) /\ (j \in 1 .. Len(s) \/ j = Len(s) + 1)
      BY <1>2, <1>3, <2>2
    <3> QED BY <1>2, <1>7, <2>1, <2>2, <3>1, Zenon DEF Sorted
  <2> QED BY <2>2 DEF Sorted
<1> QED BY <1>1, <1>5, <1>6, <1>7

\* An element is taken out.
LEMMA TakenOut ==
  ASSUME NEW M, NEW s \in Seq(M), NEW k \in 1 .. Len(s), NEW t \in Seq(M), Len(t) = Len(s) - 1,
         \A i \in 1 .. Len(t) : t[i] = IF i < k THEN s[i] ELSE s[i + 1]
  PROVE  /\ ToSet(t) \subseteq ToSet(s)
         /\ Once(s) => ToSet(t) = ToSet(s) \ {s[k]} /\ Once(t)
         /\ Sorted(s) => Sorted(t)
<1> DEFINE at(i) == IF i < k THEN i ELSE i + 1
<1>1. ASSUME NEW i \in 1 .. Len(t) PROVE at(i) \in 1 .. Len(s) /\ at(i) # k /\ t[i] = s[at(i)]
  OBVIOUS
<1>2. ASSUME NEW i \in 1 .. Len(t), NEW j \in 1 .. Len(t)
      PROVE (i < j => at(i) < at(j)) /\ (at(i) = at(j) => i = j)
  OBVIOUS
<1>3. ASSUME NEW j \in 1 .. Len(s), j # k PROVE \E i \in 1 .. Len(t) : at(i) = j
  <2>1. CASE j < k
    BY <2>1
  <2>2. CASE j > k
    <3>1. j - 1 \in 1 .. Len(t) /\ at(j - 1) = j
      BY <2>2
    <3> QED BY <3>1
  <2> QED BY <1>3, <2>1, <2>2
<1> HIDE DEF at
<1>4. \A x : x \in ToSet(s) <=> \E i \in 1 .. Len(s) : s[i] = x
  BY Members
<1>5. \A x : x \in ToSet(t) <=> \E i \in 1 .. Len(t) : t[i] = x
  BY Members
<1>6. ToSet(t) \subseteq ToSet(s)
  BY <1>1, <1>4, <1>5, Zenon
<1>7. ASSUME Once(s) PROVE ToSet(t) = ToSet(s) \ {s[k]} /\ Once(t)
  <2>1. ASSUME NEW x \in ToSet(t) PROVE x # s[k]
    <3>1. PICK i \in 1 .. Len(t) : t[i] = x
      BY <1>5
    <3>2. at(i) \in 1 .. Len(s) /\ at(i) # k /\ x = s[at(i)]
      BY <1>1, <3>1
    <3> QED BY <1>7, <3>2, Zenon DEF Once
  <2>2. ASSUME NEW x \in ToSet(s), x # s[k] PROVE x \in ToSet(t)
    <3>1. PICK j \in 1 .. Len(s) : s[j] = x
      BY <1>4
    <3>2. j # k
      BY <2>2, <3>1
    <3>3. PICK i \in 1 .. Len(t) : at(i) = j
      BY <1>3, <3>2
    <3>4. t[i] = x
      BY <1>1, <3>1, <3>3
    <3> QED BY <1>5, <3>4
  <2>3. ASSUME NEW i \in 1 .. Len(t), NEW j \in 1 .. Len(t), t[i] = t[j] PROVE i = j
    <3>1. at(i) \in 1 .. Len(s) /\ at(j) \in 1 .. Len(s) /\ s[at(i)] = s[at(j)]
      BY <1>1, <2>3
    <3>2. at(i) = at(j)
      BY <1>7, <3>1, Zenon DEF Once
    <3> QED BY <1>2, <3>2
  <2>4. Once(t)
    BY <2>3 DEF Once
  <2> QED BY <1>6, <2>1, <2>2, <2>4
<1>8. ASSUME Sorted(s) PROVE Sorted(t)
  <2>1. ASSUME NEW i \in 1 .. Len(t), NEW j \in 1 .. Len(t), i < j PROVE t[i].n < t[j].n
    <3>1. t[i] = s[at(i)] /\ t[j] = s[at(j)] /\ at(i) \in 1 .. Len(s) /\ at(j) \in 1 .. Len(s) /\ at(i) < at(j)
      BY <1>1, <1>2, <2>1, Zenon
    <3> QED BY <1>8, <3>1, Zenon DEF Sorted
  <2> QED BY <2>1 DEF Sorted
<1> QED BY <1>6, <1>7, <1>8

LEMMA Fronted ==
  ASSUME NEW M, NEW s \in Seq(M), s # <<>>
  PROVE  /\ Front(s) \in Seq(M) /\ Last(s) \in ToSet(s) /\ Last(s) \in M
         /\ ToSet(Front(s)) \subseteq ToSet(s)
         /\ Once(s) => ToSet(Front(s)) = ToSet(s) \ {Last(s)} /\ Once(Front(s))
         /\ Sorted(s) => Sorted(Front(s))
<1>1. Len(s) \in 1 .. Len(s) /\ Len(s) \in Nat
  OBVIOUS
<1>2. PICK t \in Seq(M) : t = Front(s)
  <2>1. SubSeq(s, 1, Len(s) - 1) \in Seq(M)
    BY <1>1
  <2> QED BY <2>1, Zenon DEF Front
<1>3. Len(t) = Len(s) - 1 /\ \A i \in 1 .. Len(t) : t[i] = IF i < Len(s) THEN s[i] ELSE s[i + 1]
  <2>1. t = SubSeq(s, 1, Len(s) - 1)
    BY <1>2 DEF Front
  <2>2. Len(t) = Len(s) - 1 /\ \A i \in 1 .. Len(s) - 1 : t[i] = s[i]
    <3>1. PICK n \in Nat : n = Len(s) - 1
      BY <1>1
    <3>2. t = SubSeq(s, 1, n) /\ n <= Len(s)
      BY <1>1, <2>1, <3>1
    <3>3. Len(t) = n
      BY <3>2
    <3>4. \A i \in 1 .. n : t[i] = s[i]
      BY <3>2
    <3> QED BY <3>1, <3>3, <3>4
  <2>3. \A i \in 1 .. Len(s) - 1 : i < Len(s)
    BY <1>1
  <2> QED BY <2>2, <2>3
<1>4. /\ ToSet(t) \subseteq ToSet(s)
      /\ Once(s) => ToSet(t) = ToSet(s) \ {s[Len(s)]} /\ Once(t)
      /\ Sorted(s) => Sorted(t)
  <2>1. PICK k \in 1 .. Len(s) : k = Len(s)
    BY <1>1
  <2> QED BY <1>3, <2>1, TakenOut
<1>5. s[Len(s)] \in ToSet(s) /\ s[Len(s)] \in M
  BY <1>1, Members
<1> QED BY <1>2, <1>4, <1>5, Zenon DEF Last

LEMMA RemovedAt ==
  ASSUME NEW M, NEW s \in Seq(M), NEW k \in 1 .. Len(s)
  PROVE  /\ RemoveAt(s, k) \in Seq(M)
         /\ ToSet(RemoveAt(s, k)) \subseteq ToSet(s)
         /\ Once(s) => ToSet(RemoveAt(s, k)) = ToSet(s) \ {s[k]} /\ Once(RemoveAt(s, k))
         /\ Sorted(s) => Sorted(RemoveAt(s, k))
<1>1. PICK p \in Seq(M) : p = SubSeq(s, 1, k - 1)
  <2>1. SubSeq(s, 1, k - 1) \in Seq(M)
    OBVIOUS
  <2> QED BY <2>1, Zenon
<1>2. PICK q \in Seq(M) : q = SubSeq(s, k + 1, Len(s))
  <2>1. SubSeq(s, k + 1, Len(s)) \in Seq(M)
    OBVIOUS
  <2> QED BY <2>1, Zenon
<1>3. /\ Len(p) = k - 1 /\ \A i \in 1 .. k - 1 : p[i] = s[i]
      /\ Len(q) = Len(s) - k /\ \A i \in 1 .. Len(s) - k : q[i] = s[i + k]
  BY <1>1, <1>2
<1>4. PICK t \in Seq(M) : t = p \o q
  <2>1. p \o q \in Seq(M)
    OBVIOUS
  <2> QED BY <2>1, Zenon
<1>5. t = RemoveAt(s, k)
  BY <1>1, <1>2, <1>4, Zenon DEF RemoveAt
<1>6. Len(t) = Len(s) - 1
  BY <1>3, <1>4, SMTT(60)
<1>7. ASSUME NEW i \in 1 .. Len(t) PROVE t[i] = IF i < k THEN s[i] ELSE s[i + 1]
  <2>1. CASE i < k
    BY <1>3, <1>4, <1>6, <2>1
  <2>2. CASE ~(i < k)
    <3>1. i - (k - 1) \in 1 .. Len(s) - k /\ i - (k - 1) + k = i + 1
      BY <1>6, <2>2
    <3>2. t[i] = q[i - (k - 1)]
      BY <1>3, <1>4, <1>6, <2>2
    <3>3. q[i - (k - 1)] = s[i + 1]
      BY <1>3, <3>1
    <3> QED BY <2>2, <3>2, <3>3
  <2> QED BY <2>1, <2>2
<1>8. /\ ToSet(t) \subseteq ToSet(s)
      /\ Once(s) => ToSet(t) = ToSet(s) \ {s[k]} /\ Once(t)
      /\ Sorted(s) => Sorted(t)
  BY <1>6, <1>7, TakenOut
<1> QED BY <1>5, <1>8

LEMMA Joined ==
  ASSUME NEW M, NEW s \in Seq(M), NEW t \in Seq(M)
  PROVE  /\ s \o t \in Seq(M)
         /\ ToSet(s \o t) = ToSet(s) \cup ToSet(t)
         /\ Once(s) /\ Once(t) /\ ToSet(s) \cap ToSet(t) = {} => Once(s \o t)
         /\ Sorted(s) /\ Sorted(t) /\ (\A x \in ToSet(s), y \in ToSet(t) : x.n < y.n) => Sorted(s \o t)
<1>1. PICK u \in Seq(M) : u = s \o t
  <2>1. s \o t \in Seq(M)
    OBVIOUS
  <2> QED BY <2>1, Zenon
<1>2. PICK m \in Nat, k \in Nat : m = Len(s) /\ k = Len(t)
  OBVIOUS
<1>3. Len(u) = m + k /\ (\A i \in 1 .. m : u[i] = s[i]) /\ \A i \in m + 1 .. m + k : u[i] = t[i - m]
  BY <1>1, <1>2
<1>4. \A i \in 1 .. m + k : i \in 1 .. m \/ (i \in m + 1 .. m + k /\ i - m \in 1 .. k)
  OBVIOUS
<1>5. \A x : x \in ToSet(s) <=> \E i \in 1 .. m : s[i] = x
  BY <1>2, Members
<1>6. \A x : x \in ToSet(t) <=> \E i \in 1 .. k : t[i] = x
  BY <1>2, Members
<1>7. \A x : x \in ToSet(u) <=> \E i \in 1 .. m + k : u[i] = x
  BY <1>3, Members
<1>8. ToSet(u) = ToSet(s) \cup ToSet(t)
  <2>1. ASSUME NEW x \in ToSet(u) PROVE x \in ToSet(s) \/ x \in ToSet(t)
    <3>1. PICK i \in 1 .. m + k : u[i] = x
      BY <1>7
    <3> QED BY <1>3, <1>4, <1>5, <1>6, <3>1, Zenon
  <2>2. ASSUME NEW x \in ToSet(s) PROVE x \in ToSet(u)
    <3>1. PICK i \in 1 .. m : s[i] = x
      BY <1>5
    <3>2. i \in 1 .. m + k
      OBVIOUS
    <3> QED BY <1>3, <1>7, <3>1, <3>2, Zenon
  <2>3. ASSUME NEW x \in ToSet(t) PROVE x \in ToSet(u)
    <3>1. PICK i \in 1 .. k : t[i] = x
      BY <1>6
    <3>2. i + m \in 1 .. m + k /\ i + m \in m + 1 .. m + k /\ (i + m) - m = i
      OBVIOUS
    <3>3. u[i + m] = x
      BY <1>3, <3>1, <3>2
    <3> QED BY <1>7, <3>2, <3>3, Zenon
  <2> QED BY <2>1, <2>2, <2>3
<1>9. ASSUME Once(s), Once(t), ToSet(s) \cap ToSet(t) = {} PROVE Once(u)
  <2>1. ASSUME NEW i \in 1 .. m, NEW j \in 1 .. k PROVE s[i] # t[j]
    BY <1>5, <1>6, <1>9
  <2>2. ASSUME NEW i \in 1 .. m + k, NEW j \in 1 .. m + k, u[i] = u[j] PROVE i = j
    <3>1. CASE i \in 1 .. m /\ j \in 1 .. m
      BY <1>2, <1>3, <1>9, <2>2, <3>1, ZenonT(60) DEF Once
    <3>2. CASE i \in m + 1 .. m + k /\ i - m \in 1 .. k /\ j \in m + 1 .. m + k /\ j - m \in 1 .. k
      <4>1. i - m = j - m
        BY <1>2, <1>3, <1>9, <2>2, <3>2, Zenon DEF Once
      <4> QED BY <4>1
    <3>3. CASE i \in 1 .. m /\ j \in m + 1 .. m + k /\ j - m \in 1 .. k
      BY <1>3, <2>1, <2>2, <3>3, Zenon
    <3>4. CASE j \in 1 .. m /\ i \in m + 1 .. m + k /\ i - m \in 1 .. k
      <4>1. s[j] # t[i - m]
        BY <2>1, <3>4
      <4> QED BY <1>3, <2>2, <3>4, <4>1, Zenon
    <3> QED BY <1>4, <3>1, <3>2, <3>3, <3>4, Zenon
  <2> QED BY <1>3, <2>2, Zenon DEF Once
<1>10. ASSUME Sorted(s), Sorted(t), \A x \in ToSet(s), y \in ToSet(t) : x.n < y.n PROVE Sorted(u)
  <2>1. ASSUME NEW i \in 1 .. m, NEW j \in 1 .. k PROVE s[i].n < t[j].n
    BY <1>5, <1>6, <1>10
  <2>2. ASSUME NEW i \in 1 .. m + k, NEW j \in 1 .. m + k, i < j PROVE u[i].n < u[j].n
    <3>1. CASE i \in 1 .. m /\ j \in 1 .. m
      BY <1>2, <1>3, <1>10, <2>2, <3>1, Zenon DEF Sorted
    <3>2. CASE i \in m + 1 .. m + k /\ i - m \in 1 .. k /\ j \in m + 1 .. m + k /\ j - m \in 1 .. k
      <4>1. i - m < j - m
        BY <2>2
      <4> QED BY <1>2, <1>3, <1>10, <3>2, <4>1, Zenon DEF Sorted
    <3>3. CASE i \in 1 .. m /\ j \in m + 1 .. m + k /\ j - m \in 1 .. k
      BY <1>3, <2>1, <3>3, Zenon
    <3>4. CASE j \in 1 .. m /\ i \in m + 1 .. m + k
      BY <2>2, <3>4
    <3> QED BY <1>4, <3>1, <3>2, <3>3, <3>4, Zenon
  <2> QED BY <1>3, <2>2, Zenon DEF Sorted
<1> QED BY <1>1, <1>8, <1>9, <1>10

-----------------------------------------------------------------------------
(* Types *)

PCs == {"idle", "open", "stat", "remove", "requeue"} \cup Inside

Calls == [pc : PCs, batch : Seq(Entries), written : Nat, deadline : 0 .. MaxClock]

Loads == [on : BOOLEAN, pending : Seq(Entries), skip : SUBSET (0 .. MaxClock), lines : Nat]

\* The entries a call has still to write.
HeldBy(c) == {c.batch[i] : i \in c.written + 1 .. Len(c.batch)}

\* How far a call is with its batch; AddToHistory has one entry.
CallOK(f, c) ==
  /\ c \in Calls
  /\ c.written <= Len(c.batch)
  /\ c.pc = "idle" => c.batch = <<>>
  /\ c.pc = "unlock" => c.written = Len(c.batch)
  /\ c.pc \notin {"idle", "unlock"} => c.written < Len(c.batch)
  /\ f[1] \in Direct => Len(c.batch) <= 1

ClockTypes ==
  /\ now \in 0 .. MaxClock /\ faults \in 0 .. MaxFaults
  /\ lock \in [held : BOOLEAN, mtime : 0 .. MaxClock]
  /\ torn \in BOOLEAN /\ overAged \in BOOLEAN

StoreTypes ==
  /\ file \in Seq(Entries) /\ buf \in [Writers -> Seq(Entries)]
  /\ last \in [Writers -> SUBSET Entries] /\ skipped \in [Writers -> SUBSET (0 .. MaxClock)]
  /\ alive \in [Writers -> BOOLEAN] /\ load \in [Writers -> Loads]
  /\ \A w \in Direct : buf[w] = <<>> /\ last[w] = {}

CallTypes == flush \in [Flushers -> Calls] /\ \A f \in Flushers : CallOK(f, flush[f])

SetTypes ==
  /\ added \subseteq Entries /\ dropped \subseteq Entries /\ removed \subseteq Entries
  /\ revived \subseteq Entries /\ swallowed \subseteq Entries
  /\ IsFiniteSet(added)

HTypes == ClockTypes /\ StoreTypes /\ CallTypes /\ SetTypes

LEMMA HTypesOK == HTypes => TypeOK
<1> SUFFICES ASSUME HTypes PROVE TypeOK
  OBVIOUS
<1>1. {added, dropped, removed, revived, swallowed} \subseteq SUBSET Entries
  BY DEF HTypes, SetTypes
<1>2. /\ now \in 0 .. MaxClock /\ faults \in 0 .. MaxFaults
      /\ lock \in [held : BOOLEAN, mtime : 0 .. MaxClock]
      /\ torn \in BOOLEAN /\ overAged \in BOOLEAN
  BY Zenon DEF HTypes, ClockTypes
<1>3. /\ file \in Seq(Entries) /\ buf \in [Writers -> Seq(Entries)]
      /\ last \in [Writers -> SUBSET Entries] /\ skipped \in [Writers -> SUBSET (0 .. MaxClock)]
      /\ alive \in [Writers -> BOOLEAN] /\ load \in [Writers -> Loads]
  BY Zenon DEF HTypes, StoreTypes
<1>4. flush \in [Flushers -> Calls]
  BY DEF HTypes, CallTypes
<1> QED BY <1>1, <1>2, <1>3, <1>4, Zenon DEF TypeOK, Loads, Calls, PCs

LEMMA FlusherIs ==
  ASSUME NEW f \in Flushers
  PROVE  /\ f[1] \in Writers
         /\ \A g \in Flushers : f[1] = g[1] /\ (f[1] \in Direct \/ FlushThreads = 1) => f = g
  BY PromptHistoryAssumption DEF Flushers

LEMMA IdleOK ==
  ASSUME NEW f
  PROVE  CallOK(f, Idle) /\ HeldBy(Idle) = {} /\ Idle.batch = <<>>
<1>1. MaxClock \in Nat
  BY PromptHistoryAssumption
<1>2. Idle \in Calls
  BY <1>1 DEF Idle, Calls, PCs
<1>3. Idle.pc = "idle" /\ Idle.batch = <<>> /\ Idle.written = 0 /\ Len(<<>>) = 0
  BY DEF Idle
<1>4. CallOK(f, Idle)
  BY <1>2, <1>3 DEF CallOK
<1>5. HeldBy(Idle) = {}
  BY <1>3 DEF HeldBy
<1> QED BY <1>3, <1>4, <1>5

\* One call changes.
LEMMA CallChanged ==
  ASSUME CallTypes, NEW f \in Flushers, NEW c, CallOK(f, c), flush' = [flush EXCEPT ![f] = c]
  PROVE  /\ CallTypes'
         /\ flush'[f] = c /\ \A g \in Flushers : g # f => flush'[g] = flush[g]
<1>1. flush'[f] = c /\ \A g \in Flushers : g # f => flush'[g] = flush[g]
  BY DEF CallTypes
<1>2. flush' \in [Flushers -> Calls]
  BY DEF CallTypes, CallOK
<1>3. \A g \in Flushers : CallOK(g, flush'[g])
  BY <1>1 DEF CallTypes
<1> QED BY <1>1, <1>2, <1>3 DEF CallTypes

\* A call moves on within its batch.
LEMMA CallMoved ==
  ASSUME CallTypes, NEW f \in Flushers, NEW pc \in PCs \ {"idle", "unlock"}, Move(f, pc),
         flush[f].pc \notin {"idle", "unlock"}
  PROVE  /\ CallTypes'
         /\ \A g \in Flushers : flush'[g].batch = flush[g].batch /\ flush'[g].written = flush[g].written
<1>1. PICK c \in Calls : c = flush[f] /\ CallOK(f, c) /\ c.pc \notin {"idle", "unlock"}
  BY DEF CallTypes, CallOK
<1>2. PICK d \in Calls : d = [c EXCEPT !.pc = pc] /\ d.batch = c.batch /\ d.written = c.written /\ d.pc = pc
  <2>1. LET d == [c EXCEPT !.pc = pc] IN d \in Calls /\ d.batch = c.batch /\ d.written = c.written /\ d.pc = pc
    BY DEF Calls
  <2> QED BY <2>1, Zenon
<1>3. flush' = [flush EXCEPT ![f] = d]
  BY <1>1, <1>2 DEF Move
<1>4. CallOK(f, d)
  BY <1>1, <1>2 DEF CallOK
<1>5. CallTypes' /\ flush'[f] = d /\ \A g \in Flushers : g # f => flush'[g] = flush[g]
  BY <1>3, <1>4, CallChanged
<1> QED BY <1>1, <1>2, <1>5

\* The next entry of a writer.
LEMMA NewEntryIs ==
  ASSUME HTypes, NEW w \in Writers
  PROVE  /\ NewEntry(w) \in Entries
         /\ NewEntry(w).writer = w /\ NewEntry(w).n = Cardinality(Added(w)) + 1
         /\ IsFiniteSet(Added(w)) /\ Cardinality(Added(w)) \in Nat
<1>1. IsFiniteSet(Added(w))
  BY FS_Subset DEF HTypes, SetTypes, Added
<1>2. Cardinality(Added(w)) \in Nat
  BY <1>1, FS_CardinalityType
<1>3. now \in 0 .. MaxClock
  BY DEF HTypes, ClockTypes
<1> QED BY <1>1, <1>2, <1>3 DEF NewEntry, Entries

\* Steps that move no entry.
SameHeld(c, d) ==
  \/ d.batch = c.batch /\ d.written = c.written
  \/ d = Idle /\ HeldBy(c) = {}

Quiet ==
  /\ UNCHANGED <<file, buf, last, skipped, alive, added, dropped, removed, revived, swallowed>>
  /\ \A g \in Flushers : SameHeld(flush[g], flush'[g])

LEMMA SameStore ==
  ASSUME HTypes, UNCHANGED <<file, buf, last, skipped, alive, load, added, dropped, removed, revived, swallowed>>
  PROVE  StoreTypes' /\ SetTypes'
<1>1. StoreTypes'
  BY DEF HTypes, StoreTypes
<1> QED BY <1>1 DEF HTypes, SetTypes

LEMMA NoLockTyped == NoLock \in [held : BOOLEAN, mtime : 0 .. MaxClock]
<1>1. MaxClock \in Nat
  BY PromptHistoryAssumption
<1>2. 0 \in 0 .. MaxClock
  BY <1>1
<1> QED BY <1>2 DEF NoLock

LEMMA FaultTyped ==
  ASSUME ClockTypes, Fault
  PROVE  faults' \in 0 .. MaxFaults
  BY PromptHistoryAssumption DEF ClockTypes, Fault

\* The clock and steps of the lock.
LEMMA TickTypes ==
  ASSUME HTypes, Tick \/ UNCHANGED vars
  PROVE  HTypes' /\ Quiet /\ load' = load
<1>1. UNCHANGED <<file, buf, last, skipped, alive, load, added, dropped, removed, revived, swallowed, torn, lock, flush, faults>>
  BY DEF Tick, vars, disk, memory, history
<1>2. Quiet
  BY <1>1 DEF Quiet, SameHeld
<1>3. CallTypes'
  BY <1>1 DEF HTypes, CallTypes
<1>4. ClockTypes'
  <2>1. now' \in 0 .. MaxClock
    BY PromptHistoryAssumption DEF HTypes, ClockTypes, Tick, vars
  <2>2. overAged' \in BOOLEAN
    <3>1. overAged \in BOOLEAN
      BY DEF HTypes, ClockTypes
    <3> QED BY <3>1, Zenon DEF Tick, vars, history
  <2>3. /\ torn' \in BOOLEAN /\ lock' \in [held : BOOLEAN, mtime : 0 .. MaxClock]
        /\ faults' \in 0 .. MaxFaults
    BY <1>1, Zenon DEF HTypes, ClockTypes
  <2> QED BY <2>1, <2>2, <2>3, Zenon DEF ClockTypes
<1> QED BY <1>1, <1>2, <1>3, <1>4, SameStore DEF HTypes

LEMMA LockStepTypes ==
  ASSUME HTypes, NEW f \in Flushers,
         OpenLock(f) \/ OpenFails(f) \/ StatLock(f) \/ RemoveLock(f) \/ AppendFails(f)
  PROVE  HTypes' /\ Quiet /\ load' = load
<1>1. /\ UNCHANGED <<file, buf, last, skipped, alive, load, added, dropped, removed, revived, swallowed>>
      /\ UNCHANGED <<now, overAged>>
  BY DEF OpenLock, OpenFails, StatLock, RemoveLock, AppendFails, disk, memory, history
<1>2. PICK pc \in PCs \ {"idle", "unlock"} : Move(f, pc)
  BY DEF OpenLock, OpenFails, StatLock, RemoveLock, AppendFails, Again, PCs, Inside
<1>3. flush[f].pc \notin {"idle", "unlock"}
  BY DEF OpenLock, OpenFails, StatLock, RemoveLock, AppendFails
<1>4. CallTypes' /\ Quiet
  <2>1. /\ CallTypes'
        /\ \A g \in Flushers : flush'[g].batch = flush[g].batch /\ flush'[g].written = flush[g].written
    BY <1>2, <1>3, CallMoved DEF HTypes
  <2> QED BY <1>1, <2>1 DEF Quiet, SameHeld
<1>5. ClockTypes'
  <2>1. now' \in 0 .. MaxClock /\ overAged' \in BOOLEAN
    BY <1>1, Zenon DEF HTypes, ClockTypes
  <2>2. faults' \in 0 .. MaxFaults
    <3>1. Fault \/ faults' = faults
      BY DEF OpenLock, OpenFails, StatLock, RemoveLock, AppendFails
    <3> QED BY <3>1, FaultTyped DEF HTypes, ClockTypes
  <2>3. torn' \in BOOLEAN
    <3>1. torn' = torn \/ torn' = TRUE
      BY Zenon DEF OpenLock, OpenFails, StatLock, RemoveLock, AppendFails, disk
    <3>2. torn \in BOOLEAN
      BY DEF HTypes, ClockTypes
    <3> QED BY <3>1, <3>2, Zenon
  <2>4. lock' \in [held : BOOLEAN, mtime : 0 .. MaxClock]
    <3>1. lock' = lock \/ lock' = NoLock \/ lock' = [held |-> TRUE, mtime |-> now]
      BY DEF OpenLock, OpenFails, StatLock, RemoveLock, AppendFails, disk
    <3>2. [held |-> TRUE, mtime |-> now] \in [held : BOOLEAN, mtime : 0 .. MaxClock]
      BY DEF HTypes, ClockTypes
    <3>3. lock \in [held : BOOLEAN, mtime : 0 .. MaxClock]
      BY DEF HTypes, ClockTypes
    <3> QED BY <3>1, <3>2, <3>3, NoLockTyped
  <2> QED BY <2>1, <2>2, <2>3, <2>4, Zenon DEF ClockTypes
<1> QED BY <1>1, <1>4, <1>5, SameStore DEF HTypes

LEMMA UnlockTypes ==
  ASSUME HTypes, NEW f \in Flushers, Unlock(f)
  PROVE  HTypes' /\ Quiet /\ load' = load
<1>1. /\ UNCHANGED <<file, buf, last, skipped, alive, load, added, dropped, removed, revived, swallowed>>
      /\ UNCHANGED <<now, overAged, torn, faults>> /\ lock' = NoLock
  BY DEF Unlock, memory, history
<1>2. ClockTypes'
  <2>1. now' \in 0 .. MaxClock /\ overAged' \in BOOLEAN /\ torn' \in BOOLEAN /\ faults' \in 0 .. MaxFaults
    BY <1>1, Zenon DEF HTypes, ClockTypes
  <2> QED BY <1>1, <2>1, NoLockTyped, Zenon DEF ClockTypes
<1>3. PICK c \in Calls : c = flush[f] /\ CallOK(f, c) /\ c.pc \in {"unlock", "unlockFailed"}
  BY DEF HTypes, CallTypes, CallOK, Unlock
<1>4. CallTypes' /\ Quiet
  <2>1. CASE c.pc = "unlock"
    <3>1. flush' = [flush EXCEPT ![f] = Idle]
      BY <1>3, <2>1 DEF Unlock
    <3>2. CallTypes' /\ flush'[f] = Idle /\ \A g \in Flushers : g # f => flush'[g] = flush[g]
      BY <3>1, CallChanged, IdleOK DEF HTypes
    <3>3. HeldBy(c) = {}
      <4>1. c.written = Len(c.batch) /\ Len(c.batch) \in Nat
        BY <1>3, <2>1 DEF CallOK, Calls
      <4>2. c.written + 1 .. Len(c.batch) = {}
        BY <4>1
      <4> QED BY <4>2 DEF HeldBy
    <3> QED BY <1>1, <1>3, <3>2, <3>3 DEF Quiet, SameHeld
  <2>2. CASE c.pc = "unlockFailed"
    <3>1. flush' = [flush EXCEPT ![f] = [c EXCEPT !.pc = "requeue"]]
      BY <1>3, <2>2 DEF Unlock
    <3>2. Move(f, "requeue")
      BY <1>3, <3>1 DEF Move
    <3>3. /\ CallTypes'
          /\ \A g \in Flushers : flush'[g].batch = flush[g].batch /\ flush'[g].written = flush[g].written
      BY <1>3, <2>2, <3>2, CallMoved DEF HTypes, PCs, Inside
    <3> QED BY <1>1, <3>3 DEF Quiet, SameHeld
  <2> QED BY <1>3, <2>1, <2>2
<1> QED BY <1>1, <1>2, <1>4, SameStore DEF HTypes

LEMMA LoadTypes ==
  ASSUME HTypes, NEW w \in Writers, BeginLoad(w)
  PROVE  /\ HTypes' /\ Quiet
         /\ load' = [load EXCEPT ![w] = [on |-> TRUE, pending |-> buf[w], skip |-> skipped[w], lines |-> Len(file)]]
<1>1. /\ UNCHANGED <<file, buf, last, skipped, alive, added, dropped, removed, revived, swallowed, flush>>
      /\ UNCHANGED <<now, overAged, torn, faults, lock>>
      /\ load' = [load EXCEPT ![w] = [on |-> TRUE, pending |-> buf[w], skip |-> skipped[w], lines |-> Len(file)]]
  BY DEF BeginLoad, disk, memory, history
<1>2. ClockTypes' /\ CallTypes' /\ SetTypes' /\ Quiet
  <2>1. ClockTypes'
    BY <1>1, Zenon DEF HTypes, ClockTypes
  <2>2. CallTypes' /\ SetTypes'
    BY <1>1 DEF HTypes, CallTypes, SetTypes
  <2> QED BY <1>1, <2>1, <2>2 DEF Quiet, SameHeld
<1>3. StoreTypes'
  <2>1. [on |-> TRUE, pending |-> buf[w], skip |-> skipped[w], lines |-> Len(file)] \in Loads
    BY DEF HTypes, StoreTypes, Loads
  <2>2. load' \in [Writers -> Loads]
    <3> DEFINE r == [on |-> TRUE, pending |-> buf[w], skip |-> skipped[w], lines |-> Len(file)]
    <3>1. r \in Loads /\ load \in [Writers -> Loads] /\ load' = [load EXCEPT ![w] = r]
      BY <1>1, <2>1 DEF HTypes, StoreTypes
    <3> HIDE DEF r
    <3> QED BY <3>1
  <2> QED BY <1>1, <2>2 DEF HTypes, StoreTypes
<1> QED BY <1>1, <1>2, <1>3 DEF HTypes

\* A prompt is queued.
QueueEffect(w, e) ==
  /\ w \notin Direct /\ e = NewEntry(w)
  /\ buf' = [buf EXCEPT ![w] = Append(buf[w], e)]
  /\ last' = [last EXCEPT ![w] = {e}]
  /\ added' = added \cup {e}
  /\ UNCHANGED <<file, skipped, alive, load, flush, dropped, removed, revived, swallowed>>

LEMMA QueueTypes ==
  ASSUME HTypes, NEW w \in Writers, Queue(w)
  PROVE  HTypes' /\ \E e \in Entries : QueueEffect(w, e)
<1>1. PICK e \in Entries : e = NewEntry(w)
  BY NewEntryIs, Zenon
<1>2. QueueEffect(w, e) /\ UNCHANGED <<now, overAged, torn, faults, lock>>
  BY <1>1 DEF Queue, QueueEffect, disk, history
<1>3. ClockTypes'
  BY <1>2, Zenon DEF HTypes, ClockTypes
<1>4. CallTypes'
  BY <1>2 DEF HTypes, CallTypes, QueueEffect
<1>5. SetTypes'
  <2>1. IsFiniteSet(added \cup {e})
    BY FS_AddElement DEF HTypes, SetTypes
  <2> QED BY <1>2, <2>1 DEF HTypes, SetTypes, QueueEffect
<1>6. StoreTypes'
  <2>1. PICK s \in Seq(Entries) : s = Append(buf[w], e)
    <3>1. buf[w] \in Seq(Entries)
      BY DEF HTypes, StoreTypes
    <3>2. Append(buf[w], e) \in Seq(Entries)
      BY <3>1, Appended
    <3> QED BY <3>2, Zenon
  <2>2. buf' = [buf EXCEPT ![w] = s] /\ last' = [last EXCEPT ![w] = {e}] /\ w \notin Direct
    BY <1>2, <2>1 DEF QueueEffect
  <2> QED BY <1>2, <2>2, PromptHistoryAssumption DEF HTypes, StoreTypes, QueueEffect
<1> QED BY <1>2, <1>3, <1>4, <1>5, <1>6 DEF HTypes

\* An entry is taken back out of the buffer.
DropEffect(w, e, s) ==
  /\ w \notin Direct /\ buf' = [buf EXCEPT ![w] = s]
  /\ e \in ToSet(buf[w]) /\ ToSet(s) \subseteq ToSet(buf[w])
  /\ Once(buf[w]) => ToSet(s) = ToSet(buf[w]) \ {e} /\ Once(s)
  /\ Sorted(buf[w]) => Sorted(s)
  /\ last' \in [Writers -> SUBSET Entries] /\ \A v \in Writers : last'[v] \subseteq last[v]
  /\ dropped' = dropped \cup {e} /\ removed' = removed \cup {e}
  /\ UNCHANGED <<file, skipped, alive, load, flush, added, revived, swallowed>>

LEMMA DropTypes ==
  ASSUME HTypes, NEW w \in Writers, NEW e \in Entries, NEW s \in Seq(Entries), DropEffect(w, e, s),
         UNCHANGED <<now, overAged, torn, faults, lock>>
  PROVE  HTypes'
<1>1. ClockTypes'
  BY Zenon DEF HTypes, ClockTypes
<1>2. CallTypes' /\ SetTypes'
  BY DEF HTypes, CallTypes, SetTypes, DropEffect
<1>3. StoreTypes'
  <2>1. buf' \in [Writers -> Seq(Entries)] /\ \A v \in Writers : v # w => buf'[v] = buf[v]
    BY DEF HTypes, StoreTypes, DropEffect
  <2>2. \A v \in Direct : buf'[v] = <<>> /\ last'[v] = {}
    BY <2>1, PromptHistoryAssumption DEF HTypes, StoreTypes, DropEffect
  <2> QED BY <2>1, <2>2 DEF HTypes, StoreTypes, DropEffect
<1> QED BY <1>1, <1>2, <1>3 DEF HTypes

LEMMA RemovePendingTypes ==
  ASSUME HTypes, NEW w \in Writers, RemoveLastPending(w)
  PROVE  HTypes' /\ \E e \in Entries, s \in Seq(Entries) : DropEffect(w, e, s)
<1>1. PICK b \in Seq(Entries) : b = buf[w] /\ b # <<>>
  BY DEF HTypes, StoreTypes, RemoveLastPending
<1>2. PICK e \in Entries, s \in Seq(Entries) : e = Last(b) /\ s = Front(b)
  BY <1>1, Fronted, Zenon
<1>3. /\ e \in ToSet(b) /\ ToSet(s) \subseteq ToSet(b)
      /\ Once(b) => ToSet(s) = ToSet(b) \ {e} /\ Once(s)
      /\ Sorted(b) => Sorted(s)
  BY <1>1, <1>2, Fronted
<1>4. w \notin Direct
  BY <1>1 DEF HTypes, StoreTypes
<1>5. last' = [last EXCEPT ![w] = last[w] \ {e}]
  BY <1>1, <1>2 DEF RemoveLastPending
<1>6. last' \in [Writers -> SUBSET Entries] /\ \A v \in Writers : last'[v] \subseteq last[v]
  BY <1>5 DEF HTypes, StoreTypes
<1>7. /\ buf' = [buf EXCEPT ![w] = s] /\ dropped' = dropped \cup {e} /\ removed' = removed \cup {e}
      /\ UNCHANGED <<file, skipped, alive, load, flush, added, revived, swallowed>>
      /\ UNCHANGED <<now, overAged, torn, faults, lock>>
  BY <1>1, <1>2 DEF RemoveLastPending, disk
<1>8. DropEffect(w, e, s)
  BY <1>1, <1>3, <1>4, <1>6, <1>7, Zenon DEF DropEffect
<1> QED BY <1>7, <1>8, DropTypes

\* An entry that a flush has or has written is hidden.
HideEffect(w, e) ==
  /\ e \in last[w] /\ e \notin ToSet(buf[w])
  /\ skipped' = [skipped EXCEPT ![w] = @ \cup {e.ts}]
  /\ removed' = removed \cup {e}
  /\ last' = [last EXCEPT ![w] = {}]
  /\ UNCHANGED <<file, buf, alive, load, flush, added, dropped, revived, swallowed>>

LEMMA RemoveLastTypes ==
  ASSUME HTypes, NEW w \in Writers, RemoveLast(w)
  PROVE  /\ HTypes'
         /\ \E e \in Entries : \/ HideEffect(w, e)
                               \/ \E s \in Seq(Entries) : DropEffect(w, e, s)
<1>1. PICK b \in Seq(Entries) : b = buf[w]
  BY DEF HTypes, StoreTypes
<1>2. last[w] \subseteq Entries
  BY DEF HTypes, StoreTypes
<1>3. PICK e \in last[w] :
        /\ last' = [last EXCEPT ![w] = {}]
        /\ removed' = removed \cup {e}
        /\ \/ /\ e \in ToSet(buf[w])
              /\ buf' = [buf EXCEPT ![w] = removePendingLogEntryLocked(w, e)]
              /\ dropped' = dropped \cup {e}
              /\ UNCHANGED skipped
           \/ /\ e \notin ToSet(buf[w])
              /\ skipped' = [skipped EXCEPT ![w] = @ \cup {e.ts}]
              /\ UNCHANGED <<buf, dropped>>
  BY DEF RemoveLast
<1>4. /\ UNCHANGED <<file, alive, load, flush, added, revived, swallowed>>
      /\ UNCHANGED <<now, overAged, torn, faults, lock>>
  BY DEF RemoveLast, disk
<1>5. e \in Entries /\ w \notin Direct
  BY <1>2, <1>3 DEF HTypes, StoreTypes
<1>6. last' \in [Writers -> SUBSET Entries] /\ \A v \in Writers : last'[v] \subseteq last[v]
  BY <1>3 DEF HTypes, StoreTypes
<1>7. CASE /\ e \in ToSet(buf[w])
           /\ buf' = [buf EXCEPT ![w] = removePendingLogEntryLocked(w, e)]
           /\ dropped' = dropped \cup {e}
           /\ UNCHANGED skipped
  <2>1. PICK k \in 1 .. Len(b) : /\ b[k] = e /\ removePendingLogEntryLocked(w, e) = RemoveAt(b, k)
    <3>1. DOMAIN b = 1 .. Len(b)
      OBVIOUS
    <3>2. \E i \in DOMAIN b : b[i] = e
      BY <1>1, <1>7, <3>1, Members, Zenon
    <3>3. PICK k : k = CHOOSE i \in DOMAIN b : b[i] = e
      OBVIOUS
    <3>4. k \in DOMAIN b /\ b[k] = e
      BY <3>2, <3>3, Zenon
    <3> QED BY <1>1, <3>1, <3>3, <3>4, Zenon DEF removePendingLogEntryLocked
  <2>2. PICK s \in Seq(Entries) : s = RemoveAt(b, k)
    BY RemovedAt, Zenon
  <2>3. /\ ToSet(s) \subseteq ToSet(b)
        /\ Once(b) => ToSet(s) = ToSet(b) \ {e} /\ Once(s)
        /\ Sorted(b) => Sorted(s)
    BY <2>1, <2>2, RemovedAt
  <2>4. DropEffect(w, e, s)
    BY <1>1, <1>3, <1>4, <1>5, <1>6, <1>7, <2>1, <2>2, <2>3, Zenon DEF DropEffect
  <2> QED BY <1>4, <1>5, <2>4, DropTypes
<1>8. CASE /\ e \notin ToSet(buf[w])
           /\ skipped' = [skipped EXCEPT ![w] = @ \cup {e.ts}]
           /\ UNCHANGED <<buf, dropped>>
  <2>1. HideEffect(w, e)
    BY <1>3, <1>4, <1>8 DEF HideEffect
  <2>2. ClockTypes'
    BY <1>4, Zenon DEF HTypes, ClockTypes
  <2>3. CallTypes' /\ SetTypes'
    BY <1>5, <2>1 DEF HTypes, CallTypes, SetTypes, HideEffect
  <2>4. StoreTypes'
    <3>1. e.ts \in 0 .. MaxClock
      BY <1>5 DEF Entries
    <3>2. skipped' \in [Writers -> SUBSET (0 .. MaxClock)]
      BY <1>8, <3>1 DEF HTypes, StoreTypes
    <3>3. \A v \in Direct : buf'[v] = <<>> /\ last'[v] = {}
      BY <1>6, <1>8, PromptHistoryAssumption DEF HTypes, StoreTypes
    <3> QED BY <1>4, <1>6, <1>8, <3>2, <3>3 DEF HTypes, StoreTypes
  <2> QED BY <1>5, <2>1, <2>2, <2>3, <2>4 DEF HTypes
<1> QED BY <1>3, <1>7, <1>8

\* What a call holds when it begins, after an entry, and as a sequence.
LEMMA HeldAtStart ==
  ASSUME NEW c, NEW b \in Seq(Entries), c.batch = b, c.written = 0
  PROVE  HeldBy(c) = ToSet(b)
<1>1. \A e : e \in ToSet(b) <=> \E i \in 1 .. Len(b) : b[i] = e
  BY Members
<1>2. HeldBy(c) = {b[i] : i \in 1 .. Len(b)}
  BY DEF HeldBy
<1> QED BY <1>1, <1>2

Popped(c, d, e, b) ==
  /\ e \in HeldBy(c) /\ HeldBy(d) \subseteq HeldBy(c)
  /\ Once(b) => HeldBy(d) = HeldBy(c) \ {e}
  /\ Sorted(b) => \A x \in HeldBy(d) : e.n < x.n

LEMMA HeldAfter ==
  ASSUME NEW b \in Seq(Entries), NEW k \in Nat, k < Len(b), NEW c, NEW d,
         c.batch = b, c.written = k, d.batch = b, d.written = k + 1
  PROVE  Popped(c, d, b[k + 1], b) /\ b[k + 1] \in Entries
<1>1. PICK m \in Nat : m = Len(b)
  OBVIOUS
<1>2. HeldBy(c) = {b[i] : i \in k + 1 .. m} /\ HeldBy(d) = {b[i] : i \in k + 1 + 1 .. m}
  BY <1>1 DEF HeldBy
<1>3. /\ k + 1 \in k + 1 .. m /\ k + 1 \in 1 .. m
      /\ \A i \in k + 1 + 1 .. m : i \in k + 1 .. m /\ i \in 1 .. m /\ i # k + 1 /\ k + 1 < i
      /\ \A i \in k + 1 .. m : i = k + 1 \/ i \in k + 1 + 1 .. m
  BY <1>1
<1>4. b[k + 1] \in HeldBy(c) /\ HeldBy(d) \subseteq HeldBy(c)
  BY <1>2, <1>3, Zenon
<1>5. b[k + 1] \in Entries
  BY <1>1, <1>3
<1>6. ASSUME Once(b) PROVE HeldBy(d) = HeldBy(c) \ {b[k + 1]}
  <2>1. ASSUME NEW x \in HeldBy(d) PROVE x # b[k + 1]
    BY <1>1, <1>2, <1>3, <1>6, Zenon DEF Once
  <2>2. ASSUME NEW x \in HeldBy(c), x # b[k + 1] PROVE x \in HeldBy(d)
    BY <1>2, <1>3, <2>2, Zenon
  <2> QED BY <1>4, <2>1, <2>2, Zenon
<1>7. ASSUME Sorted(b), NEW x \in HeldBy(d) PROVE b[k + 1].n < x.n
  BY <1>1, <1>2, <1>3, <1>7, Zenon DEF Sorted
<1> QED BY <1>4, <1>5, <1>6, <1>7 DEF Popped

LEMMA RestIsHeld ==
  ASSUME NEW b \in Seq(Entries), NEW k \in Nat, k <= Len(b), NEW c, c.batch = b, c.written = k
  PROVE  LET r == SubSeq(b, k + 1, Len(b)) IN
           /\ r \in Seq(Entries) /\ ToSet(r) = HeldBy(c)
           /\ Once(b) => Once(r)
           /\ Sorted(b) => Sorted(r)
<1>1. PICK r \in Seq(Entries) : r = SubSeq(b, k + 1, Len(b))
  <2>1. SubSeq(b, k + 1, Len(b)) \in Seq(Entries)
    OBVIOUS
  <2> QED BY <2>1, Zenon
<1>2. PICK m \in Nat : m = Len(b) - k
  OBVIOUS
<1>3. Len(r) = m /\ \A i \in 1 .. m : r[i] = b[i + k]
  BY <1>1, <1>2
<1>4. /\ \A i \in 1 .. m : i + k \in k + 1 .. Len(b) /\ i + k \in 1 .. Len(b)
      /\ \A j \in k + 1 .. Len(b) : j - k \in 1 .. m /\ (j - k) + k = j
      /\ \A i, j \in 1 .. m : (i < j => i + k < j + k) /\ (i + k = j + k => i = j)
  BY <1>2
<1>5. ToSet(r) = HeldBy(c)
  <2>1. \A x : x \in ToSet(r) <=> \E i \in 1 .. m : r[i] = x
    <3>1. \A x : x \in ToSet(r) <=> \E i \in 1 .. Len(r) : r[i] = x
      BY Members
    <3> QED BY <1>3, <3>1
  <2>2. HeldBy(c) = {b[j] : j \in k + 1 .. Len(b)}
    BY DEF HeldBy
  <2>3. ASSUME NEW x \in ToSet(r) PROVE x \in HeldBy(c)
    <3>1. PICK i \in 1 .. m : r[i] = x
      BY <2>1
    <3>2. i + k \in k + 1 .. Len(b) /\ b[i + k] = x
      BY <1>3, <1>4, <3>1
    <3> QED BY <2>2, <3>2
  <2>4. ASSUME NEW x \in HeldBy(c) PROVE x \in ToSet(r)
    <3>1. PICK j \in k + 1 .. Len(b) : b[j] = x
      BY <2>2
    <3>2. j - k \in 1 .. m /\ r[j - k] = x
      <4>1. j - k \in 1 .. m /\ (j - k) + k = j
        BY <1>4
      <4> QED BY <1>3, <3>1, <4>1
    <3> QED BY <2>1, <3>2, Zenon
  <2> QED BY <2>3, <2>4
<1>6. ASSUME Once(b) PROVE Once(r)
  <2>1. ASSUME NEW i \in 1 .. m, NEW j \in 1 .. m, r[i] = r[j] PROVE i = j
    <3>1. b[i + k] = b[j + k] /\ i + k \in 1 .. Len(b) /\ j + k \in 1 .. Len(b)
      BY <1>3, <1>4, <2>1
    <3>2. i + k = j + k
      BY <1>6, <3>1, Zenon DEF Once
    <3> QED BY <1>4, <3>2
  <2> QED BY <1>3, <2>1, Zenon DEF Once
<1>7. ASSUME Sorted(b) PROVE Sorted(r)
  <2>1. ASSUME NEW i \in 1 .. m, NEW j \in 1 .. m, i < j PROVE r[i].n < r[j].n
    <3>1. i + k < j + k /\ i + k \in 1 .. Len(b) /\ j + k \in 1 .. Len(b)
      BY <1>4, <2>1
    <3> QED BY <1>3, <1>7, <3>1, Zenon DEF Sorted
  <2> QED BY <1>3, <2>1, Zenon DEF Sorted
<1> QED BY <1>1, <1>5, <1>6, <1>7

\* A call takes a batch.
TakeEffect(f, b) ==
  /\ HeldBy(flush[f]) = {} /\ HeldBy(flush'[f]) = ToSet(b) /\ flush'[f].batch = b
  /\ \A g \in Flushers : g # f => flush'[g] = flush[g]
  /\ UNCHANGED <<file, last, skipped, alive, load, dropped, removed, revived, swallowed>>

LEMMA BeginTypes ==
  ASSUME HTypes, NEW f \in Flushers, NEW b \in Seq(Entries), b # <<>>, Begin(f, b),
         f[1] \in Direct => Len(b) <= 1
  PROVE  ClockTypes' /\ CallTypes' /\ TakeEffect(f, b)
<1>1. /\ UNCHANGED <<now, overAged, torn, faults, lock>>
      /\ UNCHANGED <<file, last, skipped, alive, load, dropped, removed, revived, swallowed>>
  BY DEF Begin, disk
<1>2. ClockTypes'
  BY <1>1, Zenon DEF HTypes, ClockTypes
<1>3. now + LockTimeout \in 0 .. MaxClock
  BY PromptHistoryAssumption DEF Begin, HTypes, ClockTypes
<1>4. PICK c \in Calls : c = [pc |-> "open", batch |-> b, written |-> 0, deadline |-> now + LockTimeout]
  <2>1. [pc |-> "open", batch |-> b, written |-> 0, deadline |-> now + LockTimeout] \in Calls
    BY <1>3 DEF Calls, PCs
  <2> QED BY <2>1, Zenon
<1>5. c.pc = "open" /\ c.batch = b /\ c.written = 0
  BY <1>4
<1>6. flush' = [flush EXCEPT ![f] = c] /\ flush[f] = Idle
  BY <1>4 DEF Begin
<1>7. CallOK(f, c)
  <2>1. 0 < Len(b) /\ 0 <= Len(b)
    OBVIOUS
  <2> QED BY <1>5, <2>1 DEF CallOK
<1>8. CallTypes' /\ flush'[f] = c /\ \A g \in Flushers : g # f => flush'[g] = flush[g]
  BY <1>6, <1>7, CallChanged DEF HTypes
<1>9. HeldBy(c) = ToSet(b)
  BY <1>5, HeldAtStart
<1> QED BY <1>1, <1>2, <1>5, <1>6, <1>8, <1>9, IdleOK DEF TakeEffect

FlushEffect(f) ==
  /\ f[1] \notin Direct /\ TakeEffect(f, buf[f[1]])
  /\ buf' = [buf EXCEPT ![f[1]] = <<>>] /\ added' = added

LEMMA FlushTypes ==
  ASSUME HTypes, NEW f \in Flushers, Flush(f)
  PROVE  HTypes' /\ FlushEffect(f)
<1>1. PICK w \in Writers : w = f[1]
  BY FlusherIs
<1>2. PICK b \in Seq(Entries) : b = buf[w] /\ b # <<>> /\ Begin(f, b)
  BY <1>1 DEF HTypes, StoreTypes, Flush
<1>3. f[1] \notin Direct
  BY <1>1, <1>2 DEF HTypes, StoreTypes
<1>4. buf' = [buf EXCEPT ![w] = <<>>] /\ added' = added
  BY <1>1 DEF Flush
<1>5. ClockTypes' /\ CallTypes' /\ TakeEffect(f, b)
  BY <1>2, <1>3, BeginTypes
<1>6. StoreTypes'
  <2>1. buf' \in [Writers -> Seq(Entries)] /\ \A v \in Direct : buf'[v] = <<>>
    <3>1. <<>> \in Seq(Entries)
      OBVIOUS
    <3> QED BY <1>4, <3>1, PromptHistoryAssumption DEF HTypes, StoreTypes
  <2> QED BY <1>5, <2>1 DEF HTypes, StoreTypes, TakeEffect
<1>7. SetTypes'
  BY <1>4, <1>5 DEF HTypes, SetTypes, TakeEffect
<1> QED BY <1>1, <1>2, <1>3, <1>4, <1>5, <1>6, <1>7 DEF HTypes, FlushEffect

AddEffect(f, e) ==
  /\ f[1] \in Direct /\ e = NewEntry(f[1]) /\ TakeEffect(f, <<e>>)
  /\ added' = added \cup {e} /\ buf' = buf

LEMMA AddTypes ==
  ASSUME HTypes, NEW f \in Flushers, AddToHistory(f)
  PROVE  HTypes' /\ \E e \in Entries : AddEffect(f, e)
<1>1. f[1] \in Writers /\ f[1] \in Direct
  BY FlusherIs DEF AddToHistory
<1>2. PICK e \in Entries : e = NewEntry(f[1])
  BY <1>1, NewEntryIs, Zenon
<1>3. PICK b \in Seq(Entries) : b = <<e>> /\ b # <<>> /\ Len(b) <= 1
  <2>1. <<e>> \in Seq(Entries) /\ <<e>> # <<>> /\ Len(<<e>>) <= 1
    OBVIOUS
  <2> QED BY <2>1, Zenon
<1>4. Begin(f, b)
  BY <1>2, <1>3 DEF AddToHistory
<1>5. added' = added \cup {e} /\ buf' = buf
  BY <1>2 DEF AddToHistory
<1>6. ClockTypes' /\ CallTypes' /\ TakeEffect(f, b)
  BY <1>3, <1>4, BeginTypes
<1>7. SetTypes'
  <2>1. IsFiniteSet(added \cup {e})
    BY FS_AddElement DEF HTypes, SetTypes
  <2> QED BY <1>5, <1>6, <2>1 DEF HTypes, SetTypes, TakeEffect
<1>8. StoreTypes'
  BY <1>5, <1>6 DEF HTypes, StoreTypes, TakeEffect
<1> QED BY <1>1, <1>2, <1>3, <1>5, <1>6, <1>7, <1>8 DEF HTypes, AddEffect

\* The next entry of a batch is written, or lost behind a torn line.
AppendEffect(f, e, b) ==
  /\ flush[f].batch = b /\ flush'[f].batch = b
  /\ Popped(flush[f], flush'[f], e, b)
  /\ \A g \in Flushers : g # f => flush'[g] = flush[g]
  /\ \/ file' = Append(file, e) /\ swallowed' = swallowed
     \/ file' = file /\ swallowed' = swallowed \cup {e}
  /\ UNCHANGED <<buf, last, skipped, alive, load, added, dropped, removed, revived>>

LEMMA AppendTypes ==
  ASSUME HTypes, NEW f \in Flushers, AppendEntry(f)
  PROVE  HTypes' /\ \E e \in Entries, b \in Seq(Entries) : AppendEffect(f, e, b)
<1>1. PICK c \in Calls : c = flush[f] /\ CallOK(f, c) /\ c.pc = "append"
  BY DEF HTypes, CallTypes, CallOK, AppendEntry
<1>2. PICK b \in Seq(Entries), k \in Nat : b = c.batch /\ k = c.written /\ k < Len(b)
  BY <1>1 DEF Calls, CallOK
<1>3. PICK pc \in PCs : pc = IF k + 1 = Len(b) THEN "unlock" ELSE "append"
  BY DEF PCs, Inside
<1>4. PICK d \in Calls : /\ d = [c EXCEPT !.written = k + 1, !.pc = pc]
                         /\ d.batch = b /\ d.written = k + 1 /\ d.pc = pc
  <2>1. LET d == [c EXCEPT !.written = k + 1, !.pc = pc]
        IN  d \in Calls /\ d.batch = b /\ d.written = k + 1 /\ d.pc = pc
    <3>1. PICK m \in Nat : m = k + 1
      OBVIOUS
    <3>2. LET d == [c EXCEPT !.written = m, !.pc = pc]
          IN  d \in Calls /\ d.batch = b /\ d.written = m /\ d.pc = pc
      BY <1>2 DEF Calls
    <3> QED BY <3>1, <3>2
  <2> QED BY <2>1, Zenon
<1>5. flush' = [flush EXCEPT ![f] = d]
  BY <1>1, <1>2, <1>3, <1>4 DEF AppendEntry
<1>6. CallOK(f, d)
  <2>1. k + 1 <= Len(b) /\ (k + 1 = Len(b) \/ k + 1 < Len(b))
    BY <1>2
  <2>2. f[1] \in Direct => Len(b) <= 1
    BY <1>1, <1>2 DEF CallOK
  <2>3. d.pc # "idle" /\ (d.pc = "unlock" => k + 1 = Len(b)) /\ (d.pc # "unlock" => k + 1 < Len(b))
    BY <1>3, <1>4, <2>1
  <2> QED BY <1>4, <2>1, <2>2, <2>3 DEF CallOK
<1>7. CallTypes' /\ flush'[f] = d /\ \A g \in Flushers : g # f => flush'[g] = flush[g]
  BY <1>5, <1>6, CallChanged DEF HTypes
<1>8. PICK e \in Entries : e = b[k + 1]
  BY <1>2
<1>9. Popped(c, d, e, b)
  BY <1>2, <1>4, <1>8, HeldAfter
<1>10. /\ \/ file' = Append(file, e) /\ swallowed' = swallowed
          \/ file' = file /\ swallowed' = swallowed \cup {e}
       /\ torn' = FALSE
       /\ UNCHANGED <<buf, last, skipped, alive, load, added, dropped, removed, revived>>
       /\ UNCHANGED <<now, overAged, faults, lock>>
  BY <1>1, <1>2, <1>8 DEF AppendEntry, memory
<1>11. ClockTypes'
  BY <1>10, Zenon DEF HTypes, ClockTypes
<1>12. StoreTypes'
  <2>1. file' \in Seq(Entries)
    <3>1. file \in Seq(Entries)
      BY DEF HTypes, StoreTypes
    <3>2. Append(file, e) \in Seq(Entries)
      BY <3>1, Appended
    <3> QED BY <1>10, <3>1, <3>2
  <2> QED BY <1>10, <2>1 DEF HTypes, StoreTypes
<1>13. SetTypes'
  BY <1>10 DEF HTypes, SetTypes
<1>14. AppendEffect(f, e, b)
  BY <1>1, <1>2, <1>4, <1>7, <1>9, <1>10, Zenon DEF AppendEffect
<1> QED BY <1>7, <1>11, <1>12, <1>13, <1>14 DEF HTypes

\* A failed call gives back what it holds, or reports it.
ReturnEffect(f, r) ==
  /\ ToSet(r) = HeldBy(flush[f]) /\ flush'[f] = Idle
  /\ (Once(flush[f].batch) => Once(r)) /\ (Sorted(flush[f].batch) => Sorted(r))
  /\ \A g \in Flushers : g # f => flush'[g] = flush[g]
  /\ UNCHANGED <<file, last, skipped, alive, load, dropped, removed, swallowed>>

RequeueEffect(f, r) ==
  /\ f[1] \notin Direct /\ ReturnEffect(f, r)
  /\ buf' = [buf EXCEPT ![f[1]] = r \o buf[f[1]]]
  /\ revived' = revived \cup (ToSet(r) \cap removed) /\ added' = added

ReportEffect(f, r) ==
  /\ f[1] \in Direct /\ ReturnEffect(f, r)
  /\ added' = added \ ToSet(r) /\ UNCHANGED <<buf, revived>>

LEMMA RequeueTypes ==
  ASSUME HTypes, NEW f \in Flushers, Requeue(f)
  PROVE  HTypes' /\ \E r \in Seq(Entries) : RequeueEffect(f, r) \/ ReportEffect(f, r)
<1>1. PICK c \in Calls : c = flush[f] /\ CallOK(f, c)
  BY DEF HTypes, CallTypes, CallOK
<1>2. PICK b \in Seq(Entries), k \in Nat : b = c.batch /\ k = c.written /\ k <= Len(b)
  BY <1>1 DEF Calls, CallOK
<1>3. PICK r \in Seq(Entries) : r = SubSeq(b, k + 1, Len(b))
  BY <1>2, RestIsHeld, Zenon
<1>4. ToSet(r) = HeldBy(c) /\ (Once(b) => Once(r)) /\ (Sorted(b) => Sorted(r))
  BY <1>2, <1>3, RestIsHeld
<1>5. Rest(f) = r
  BY <1>1, <1>2, <1>3 DEF Rest
<1>6. /\ flush' = [flush EXCEPT ![f] = Idle]
      /\ UNCHANGED <<file, last, skipped, alive, load, dropped, removed, swallowed>>
      /\ UNCHANGED <<now, overAged, torn, faults, lock>>
  BY DEF Requeue, disk
<1>7. CallTypes' /\ flush'[f] = Idle /\ \A g \in Flushers : g # f => flush'[g] = flush[g]
  BY <1>6, CallChanged, IdleOK DEF HTypes
<1>8. ReturnEffect(f, r)
  BY <1>1, <1>2, <1>4, <1>6, <1>7, Zenon DEF ReturnEffect
<1>9. ClockTypes'
  BY <1>6, Zenon DEF HTypes, ClockTypes
<1>10. PICK w \in Writers : w = f[1]
  BY FlusherIs
<1>11. ToSet(r) \subseteq Entries
  BY Members
<1>12. CASE w \in Direct
  <2>1. added' = added \ ToSet(r) /\ UNCHANGED <<buf, revived>>
    BY <1>5, <1>10, <1>12 DEF Requeue
  <2>2. IsFiniteSet(added \ ToSet(r))
    BY FS_Difference DEF HTypes, SetTypes
  <2>3. SetTypes'
    BY <1>6, <2>1, <2>2 DEF HTypes, SetTypes
  <2>4. StoreTypes'
    BY <1>6, <2>1 DEF HTypes, StoreTypes
  <2> QED BY <1>7, <1>8, <1>9, <1>10, <1>12, <2>1, <2>3, <2>4 DEF HTypes, ReportEffect
<1>13. CASE w \notin Direct
  <2>1. PICK u \in Seq(Entries) : u = r \o buf[w]
    <3>1. buf[w] \in Seq(Entries)
      BY DEF HTypes, StoreTypes
    <3>2. r \o buf[w] \in Seq(Entries)
      BY <3>1, Joined
    <3> QED BY <3>2, Zenon
  <2>2. buf' = [buf EXCEPT ![w] = u] /\ revived' = revived \cup (ToSet(r) \cap removed) /\ added' = added
    BY <1>5, <1>10, <1>13, <2>1 DEF Requeue, Requeued
  <2>3. SetTypes'
    BY <1>6, <1>11, <2>2 DEF HTypes, SetTypes
  <2>4. StoreTypes'
    <3>1. buf' \in [Writers -> Seq(Entries)] /\ \A v \in Direct : buf'[v] = <<>>
      BY <1>13, <2>2, PromptHistoryAssumption DEF HTypes, StoreTypes
    <3> QED BY <1>6, <3>1 DEF HTypes, StoreTypes
  <2>5. RequeueEffect(f, r)
    BY <1>8, <1>10, <1>13, <2>1, <2>2, Zenon DEF RequeueEffect
  <2> QED BY <1>7, <1>9, <2>3, <2>4, <2>5 DEF HTypes
<1> QED BY <1>12, <1>13

\* A process dies.
CrashEffect(w) ==
  /\ alive' = [alive EXCEPT ![w] = FALSE]
  /\ buf' = [buf EXCEPT ![w] = <<>>]
  /\ last' = [last EXCEPT ![w] = {}]
  /\ skipped' = [skipped EXCEPT ![w] = {}]
  /\ load' = [load EXCEPT ![w] = NoLoad]
  /\ \A f \in Flushers : flush'[f] = IF f[1] = w THEN Idle ELSE flush[f]
  /\ UNCHANGED <<file, added, dropped, removed, revived, swallowed>>

LEMMA NoLoadTyped == NoLoad \in Loads
<1>1. <<>> \in Seq(Entries)
  OBVIOUS
<1> QED BY <1>1 DEF NoLoad, Loads

LEMMA CrashTypes ==
  ASSUME HTypes, NEW w \in Writers, Crash(w)
  PROVE  HTypes' /\ CrashEffect(w)
<1>1. flush' = [f \in Flushers |-> IF f[1] = w THEN Idle ELSE flush[f]]
  BY DEF Crash
<1>2. CrashEffect(w) /\ UNCHANGED <<now, overAged, torn, lock>>
  BY <1>1 DEF Crash, CrashEffect, disk, history
<1>3. ClockTypes'
  <2>1. faults' \in 0 .. MaxFaults
    BY FaultTyped DEF Crash, HTypes
  <2> QED BY <1>2, <2>1, Zenon DEF HTypes, ClockTypes
<1>4. CallTypes'
  <2>1. \A f \in Flushers : CallOK(f, Idle)
    BY IdleOK
  <2>2. ASSUME NEW f \in Flushers PROVE CallOK(f, flush'[f]) /\ flush'[f] \in Calls
    BY <1>2, <2>1 DEF CrashEffect, HTypes, CallTypes, CallOK
  <2> QED BY <1>1, <2>2 DEF CallTypes
<1>5. SetTypes'
  BY <1>2 DEF HTypes, SetTypes, CrashEffect
<1>6. StoreTypes'
  <2>1. buf' \in [Writers -> Seq(Entries)] /\ \A v \in Direct : buf'[v] = <<>>
    <3>1. <<>> \in Seq(Entries)
      OBVIOUS
    <3> QED BY <1>2, <3>1, PromptHistoryAssumption DEF HTypes, StoreTypes, CrashEffect
  <2>2. last' \in [Writers -> SUBSET Entries] /\ \A v \in Direct : last'[v] = {}
    BY <1>2, PromptHistoryAssumption DEF HTypes, StoreTypes, CrashEffect
  <2>3. skipped' \in [Writers -> SUBSET (0 .. MaxClock)] /\ alive' \in [Writers -> BOOLEAN]
    BY <1>2 DEF HTypes, StoreTypes, CrashEffect
  <2>4. load' \in [Writers -> Loads]
    BY <1>2, NoLoadTyped DEF HTypes, StoreTypes, CrashEffect
  <2> QED BY <1>2, <2>1, <2>2, <2>3, <2>4 DEF HTypes, StoreTypes, CrashEffect
<1> QED BY <1>2, <1>3, <1>4, <1>5, <1>6 DEF HTypes

LEMMA InitTypes == Init => HTypes
<1> SUFFICES ASSUME Init PROVE HTypes
  OBVIOUS
<1>1. {MaxClock, MaxFaults} \subseteq Nat
  BY PromptHistoryAssumption
<1>2. ClockTypes
  <2>1. now \in 0 .. MaxClock /\ faults \in 0 .. MaxFaults
    BY <1>1 DEF Init
  <2> QED BY <2>1, NoLockTyped, Zenon DEF Init, ClockTypes
<1>3. StoreTypes
  <2>1. <<>> \in Seq(Entries)
    OBVIOUS
  <2>2. load \in [Writers -> Loads]
    BY NoLoadTyped DEF Init
  <2> QED BY <2>1, <2>2, PromptHistoryAssumption DEF Init, StoreTypes
<1>4. CallTypes
  <2>1. \A f \in Flushers : CallOK(f, Idle)
    BY IdleOK
  <2>2. \A f \in Flushers : flush[f] = Idle /\ Idle \in Calls
    BY <2>1 DEF Init, CallOK
  <2> QED BY <2>1, <2>2 DEF Init, CallTypes
<1>5. SetTypes
  BY FS_EmptySet DEF Init, SetTypes
<1> QED BY <1>2, <1>3, <1>4, <1>5 DEF HTypes

LEMMA NextTypes == HTypes /\ [Next]_vars => HTypes'
<1> SUFFICES ASSUME HTypes, [Next]_vars PROVE HTypes'
  OBVIOUS
<1>1. CASE Tick \/ UNCHANGED vars
  BY <1>1, TickTypes
<1>2. ASSUME NEW w \in Writers,
             Queue(w) \/ RemoveLastPending(w) \/ RemoveLast(w) \/ Crash(w) \/ BeginLoad(w)
      PROVE  HTypes'
  BY <1>2, QueueTypes, RemovePendingTypes, RemoveLastTypes, CrashTypes, LoadTypes
<1>3. ASSUME NEW f \in Flushers, Flush(f) \/ AddToHistory(f) \/ Step(f)
      PROVE  HTypes'
  BY <1>3, FlushTypes, AddTypes, LockStepTypes, AppendTypes, UnlockTypes, RequeueTypes DEF Step
<1> QED BY <1>1, <1>2, <1>3 DEF Next

LEMMA HistoryTyped == Spec => []HTypes
  BY InitTypes, NextTypes, PTL DEF Spec

\* The variables keep their types, whatever fails and whoever dies.
THEOREM HistoryTypes == Spec => []TypeOK
  BY HistoryTyped, HTypesOK, PTL

-----------------------------------------------------------------------------
(* Where entries are: B in the buffers, H with the calls, F in the file, S *)
(* behind torn lines and D taken back, of the accepted entries A.          *)

Apart(F, S, D, A) == F \cup S \cup D \subseteq A /\ F \cap S = {} /\ F \cap D = {} /\ S \cap D = {}

Placed(B, H, F, S, D, A, live) ==
  /\ \A w \in Writers : \A e \in B[w] : e \in A /\ e.writer = w /\ e \notin F \cup S \cup D
  /\ \A f \in Flushers : \A e \in H[f] :
       e \in A /\ e.writer = f[1] /\ e \notin F \cup S \cup D /\ e \notin B[f[1]]
  /\ \A f, g \in Flushers : \A e \in H[f] : e \in H[g] => f = g
  /\ Apart(F, S, D, A)
  /\ \A e \in A : live[e.writer] =>
       e \in B[e.writer] \cup F \cup S \cup D \/ \E f \in Flushers : e \in H[f]

Others(x, y, k, dom) == \A i \in dom : i # k => y[i] = x[i]

\* The entries of A have writers.
Written(A) == \A e \in A : e.writer \in Writers

LEMMA PlacedQueue ==
  ASSUME NEW B, NEW H, NEW F, NEW S, NEW D, NEW A, NEW live, Placed(B, H, F, S, D, A, live), Written(A),
         NEW w \in Writers, NEW e, e \notin A, e.writer = w,
         NEW C, C[w] = B[w] \cup {e}, Others(B, C, w, Writers)
  PROVE  Placed(C, H, F, S, D, A \cup {e}, live)
<1>1. \A v \in Writers : \A x \in C[v] : x \in A \cup {e} /\ x.writer = v /\ x \notin F \cup S \cup D
  BY DEF Placed, Others, Apart
<1>2. \A f \in Flushers : \A x \in H[f] :
        x \in A \cup {e} /\ x.writer = f[1] /\ x \notin F \cup S \cup D /\ x \notin C[f[1]]
  BY FlusherIs DEF Placed, Others
<1>3. \A x \in A \cup {e} : live[x.writer] =>
        x \in C[x.writer] \cup F \cup S \cup D \/ \E f \in Flushers : x \in H[f]
  <2>1. \A x \in A : B[x.writer] \subseteq C[x.writer]
    BY DEF Others, Written
  <2> QED BY <2>1 DEF Placed
<1> QED BY <1>1, <1>2, <1>3 DEF Placed, Apart

LEMMA PlacedDrop ==
  ASSUME NEW B, NEW H, NEW F, NEW S, NEW D, NEW A, NEW live, Placed(B, H, F, S, D, A, live), Written(A),
         NEW w \in Writers, NEW e, e \in B[w],
         NEW C, C[w] = B[w] \ {e}, Others(B, C, w, Writers)
  PROVE  Placed(C, H, F, S, D \cup {e}, A, live)
<1>0. e.writer = w /\ e \in A /\ e \notin F \cup S \cup D /\ \A f \in Flushers : e \notin H[f]
  BY DEF Placed
<1>1. \A v \in Writers : \A x \in C[v] : x \in A /\ x.writer = v /\ x \notin F \cup S \cup (D \cup {e})
  BY <1>0 DEF Placed, Others
<1>2. \A f \in Flushers : \A x \in H[f] :
        x \in A /\ x.writer = f[1] /\ x \notin F \cup S \cup (D \cup {e}) /\ x \notin C[f[1]]
  BY <1>0, FlusherIs DEF Placed, Others
<1>3. \A x \in A : live[x.writer] =>
        x \in C[x.writer] \cup F \cup S \cup (D \cup {e}) \/ \E f \in Flushers : x \in H[f]
  <2>1. \A x \in A : B[x.writer] \subseteq C[x.writer] \cup {e}
    BY DEF Others, Written
  <2> QED BY <2>1 DEF Placed
<1> QED BY <1>0, <1>1, <1>2, <1>3 DEF Placed, Apart

LEMMA PlacedFlush ==
  ASSUME NEW B, NEW H, NEW F, NEW S, NEW D, NEW A, NEW live, Placed(B, H, F, S, D, A, live), Written(A),
         NEW f \in Flushers, H[f] = {},
         NEW C, C[f[1]] = {}, Others(B, C, f[1], Writers),
         NEW G, G[f] = B[f[1]], Others(H, G, f, Flushers)
  PROVE  Placed(C, G, F, S, D, A, live)
<1>0. f[1] \in Writers
  BY FlusherIs
<1>1. \A v \in Writers : \A x \in C[v] : x \in A /\ x.writer = v /\ x \notin F \cup S \cup D
  BY DEF Placed, Others
<1>2. ASSUME NEW g \in Flushers, NEW x \in G[g]
      PROVE  x \in A /\ x.writer = g[1] /\ x \notin F \cup S \cup D /\ x \notin C[g[1]]
  <2>1. g[1] \in Writers
    BY FlusherIs
  <2> QED BY <1>0, <2>1 DEF Placed, Others
<1>3. ASSUME NEW g \in Flushers, NEW h \in Flushers, NEW x \in G[g], x \in G[h] PROVE g = h
  BY <1>0, <1>3 DEF Placed, Others
<1>4. ASSUME NEW x \in A, live[x.writer]
      PROVE  x \in C[x.writer] \cup F \cup S \cup D \/ \E g \in Flushers : x \in G[g]
  <2>1. CASE x \in B[x.writer] /\ x.writer = f[1]
    BY <2>1
  <2>2. CASE x \in B[x.writer] /\ x.writer # f[1]
    BY <2>2 DEF Others, Written
  <2>3. CASE x \in F \cup S \cup D
    BY <2>3
  <2>4. ASSUME NEW g \in Flushers, x \in H[g] PROVE x \in G[g]
    BY <2>4 DEF Others
  <2> QED BY <1>4, <2>1, <2>2, <2>3, <2>4 DEF Placed
<1> QED BY <1>1, <1>2, <1>3, <1>4 DEF Placed

LEMMA PlacedAdd ==
  ASSUME NEW B, NEW H, NEW F, NEW S, NEW D, NEW A, NEW live, Placed(B, H, F, S, D, A, live), Written(A),
         NEW f \in Flushers, H[f] = {}, NEW e, e \notin A, e.writer = f[1],
         NEW G, G[f] = {e}, Others(H, G, f, Flushers)
  PROVE  Placed(B, G, F, S, D, A \cup {e}, live)
<1>0. f[1] \in Writers
  BY FlusherIs
<1>1. \A v \in Writers : \A x \in B[v] : x \in A \cup {e} /\ x.writer = v /\ x \notin F \cup S \cup D
  BY DEF Placed
<1>2. ASSUME NEW g \in Flushers, NEW x \in G[g]
      PROVE  x \in A \cup {e} /\ x.writer = g[1] /\ x \notin F \cup S \cup D /\ x \notin B[g[1]]
  BY <1>0 DEF Placed, Others, Apart
<1>3. ASSUME NEW g \in Flushers, NEW h \in Flushers, NEW x \in G[g], x \in G[h] PROVE g = h
  BY <1>3 DEF Placed, Others
<1>4. ASSUME NEW x \in A \cup {e}, live[x.writer]
      PROVE  x \in B[x.writer] \cup F \cup S \cup D \/ \E g \in Flushers : x \in G[g]
  <2>1. ASSUME NEW g \in Flushers, x \in H[g] PROVE x \in G[g]
    BY <2>1 DEF Others
  <2> QED BY <1>4, <2>1 DEF Placed
<1> QED BY <1>1, <1>2, <1>3, <1>4 DEF Placed, Apart

LEMMA PlacedAppend ==
  ASSUME NEW B, NEW H, NEW F, NEW S, NEW D, NEW A, NEW live, Placed(B, H, F, S, D, A, live), Written(A),
         NEW f \in Flushers, NEW e, e \in H[f],
         NEW G, G[f] = H[f] \ {e}, Others(H, G, f, Flushers)
  PROVE  Placed(B, G, F \cup {e}, S, D, A, live) /\ Placed(B, G, F, S \cup {e}, D, A, live)
<1>0. /\ e \in A /\ e \notin F \cup S \cup D /\ \A v \in Writers : e \notin B[v]
      /\ \A g \in Flushers : e \notin G[g] /\ G[g] \subseteq H[g] /\ H[g] \subseteq G[g] \cup {e}
  BY DEF Placed, Others
<1>1. \A v \in Writers : \A x \in B[v] : x \in A /\ x.writer = v /\ x \notin F \cup S \cup D \cup {e}
  BY <1>0 DEF Placed
<1>2. \A g \in Flushers : \A x \in G[g] :
        x \in A /\ x.writer = g[1] /\ x \notin F \cup S \cup D \cup {e} /\ x \notin B[g[1]]
  BY <1>0 DEF Placed
<1>3. \A g, h \in Flushers : \A x \in G[g] : x \in G[h] => g = h
  BY <1>0 DEF Placed
<1>4. ASSUME NEW x \in A, live[x.writer]
      PROVE  x \in B[x.writer] \cup F \cup S \cup D \cup {e} \/ \E g \in Flushers : x \in G[g]
  BY <1>0, <1>4 DEF Placed
<1>5. Apart(F \cup {e}, S, D, A) /\ Apart(F, S \cup {e}, D, A)
  BY <1>0 DEF Placed, Apart
<1> QED BY <1>1, <1>2, <1>3, <1>4, <1>5 DEF Placed

LEMMA PlacedRequeue ==
  ASSUME NEW B, NEW H, NEW F, NEW S, NEW D, NEW A, NEW live, Placed(B, H, F, S, D, A, live), Written(A),
         NEW f \in Flushers,
         NEW C, C[f[1]] = H[f] \cup B[f[1]], Others(B, C, f[1], Writers),
         NEW G, G[f] = {}, Others(H, G, f, Flushers)
  PROVE  Placed(C, G, F, S, D, A, live)
<1>0. f[1] \in Writers
  BY FlusherIs
<1>1. ASSUME NEW v \in Writers, NEW x \in C[v]
      PROVE  x \in A /\ x.writer = v /\ x \notin F \cup S \cup D
  BY <1>0 DEF Placed, Others
<1>2. ASSUME NEW g \in Flushers, NEW x \in G[g]
      PROVE  x \in A /\ x.writer = g[1] /\ x \notin F \cup S \cup D /\ x \notin C[g[1]]
  <2>1. g[1] \in Writers /\ g # f /\ x \in H[g] /\ x \notin H[f]
    BY FlusherIs DEF Placed, Others
  <2> QED BY <1>0, <2>1 DEF Placed, Others
<1>3. \A g, h \in Flushers : \A x \in G[g] : x \in G[h] => g = h
  BY DEF Placed, Others
<1>4. ASSUME NEW x \in A, live[x.writer]
      PROVE  x \in C[x.writer] \cup F \cup S \cup D \/ \E g \in Flushers : x \in G[g]
  <2>1. x.writer \in Writers /\ B[x.writer] \subseteq C[x.writer]
    BY DEF Others, Written
  <2>2. ASSUME NEW g \in Flushers, x \in H[g] PROVE x \in G[g] \/ x \in C[x.writer]
    BY <2>2 DEF Placed, Others
  <2> QED BY <1>4, <2>1, <2>2 DEF Placed
<1> QED BY <1>1, <1>2, <1>3, <1>4 DEF Placed

LEMMA PlacedReport ==
  ASSUME NEW B, NEW H, NEW F, NEW S, NEW D, NEW A, NEW live, Placed(B, H, F, S, D, A, live), Written(A),
         NEW f \in Flushers, NEW G, G[f] = {}, Others(H, G, f, Flushers)
  PROVE  Placed(B, G, F, S, D, A \ H[f], live)
<1>1. ASSUME NEW v \in Writers, NEW x \in B[v]
      PROVE  x \in A \ H[f] /\ x.writer = v /\ x \notin F \cup S \cup D
  BY DEF Placed
<1>2. ASSUME NEW g \in Flushers, NEW x \in G[g]
      PROVE  x \in A \ H[f] /\ x.writer = g[1] /\ x \notin F \cup S \cup D /\ x \notin B[g[1]]
  <2>1. g # f /\ x \in H[g] /\ x \notin H[f]
    BY DEF Placed, Others
  <2> QED BY <2>1 DEF Placed
<1>3. \A g, h \in Flushers : \A x \in G[g] : x \in G[h] => g = h
  BY DEF Placed, Others
<1>4. ASSUME NEW x \in A \ H[f], live[x.writer]
      PROVE  x \in B[x.writer] \cup F \cup S \cup D \/ \E g \in Flushers : x \in G[g]
  BY <1>4 DEF Placed, Others
<1>5. Apart(F, S, D, A \ H[f])
  BY DEF Placed, Apart
<1> QED BY <1>1, <1>2, <1>3, <1>4, <1>5 DEF Placed

LEMMA PlacedCrash ==
  ASSUME NEW B, NEW H, NEW F, NEW S, NEW D, NEW A, NEW live, Placed(B, H, F, S, D, A, live), Written(A),
         NEW w \in Writers,
         NEW C, C[w] = {}, Others(B, C, w, Writers),
         NEW G, \A f \in Flushers : G[f] = IF f[1] = w THEN {} ELSE H[f],
         NEW some, ~some[w], Others(live, some, w, Writers)
  PROVE  Placed(C, G, F, S, D, A, some)
<1>1. \A v \in Writers : \A x \in C[v] : x \in A /\ x.writer = v /\ x \notin F \cup S \cup D
  BY DEF Placed, Others
<1>2. ASSUME NEW g \in Flushers, NEW x \in G[g]
      PROVE  x \in A /\ x.writer = g[1] /\ x \notin F \cup S \cup D /\ x \notin C[g[1]]
  <2>1. x \in H[g] /\ g[1] # w /\ g[1] \in Writers
    BY FlusherIs
  <2> QED BY <2>1 DEF Placed, Others
<1>3. \A g, h \in Flushers : \A x \in G[g] : x \in G[h] => g = h
  BY DEF Placed
<1>4. ASSUME NEW x \in A, some[x.writer]
      PROVE  x \in C[x.writer] \cup F \cup S \cup D \/ \E g \in Flushers : x \in G[g]
  <2>1. x.writer \in Writers /\ x.writer # w
    BY <1>4 DEF Written
  <2>2. live[x.writer] /\ C[x.writer] = B[x.writer]
    BY <1>4, <2>1 DEF Others
  <2>3. ASSUME NEW g \in Flushers, x \in H[g] PROVE x \in G[g]
    BY <2>1, <2>3 DEF Placed
  <2> QED BY <2>2, <2>3 DEF Placed
<1> QED BY <1>1, <1>2, <1>3, <1>4 DEF Placed

-----------------------------------------------------------------------------
(* A writer's entries are numbered as they are accepted: c counts them.    *)

Numbered(A, c) ==
  /\ \A e \in A : e.n \in 1 .. c[e.writer]
  /\ \A x, y \in A : x.writer = y.writer /\ x.n = y.n => x = y

\* An entry that AddToHistory has under way is its writer's latest.
Latest(H, c) == \A f \in Flushers : f[1] \in Direct => \A e \in H[f] : e.n = c[f[1]]

Typed(A, c) == \A e \in A : e.writer \in Writers /\ c[e.writer] \in Nat

LEMMA NumberedMore ==
  ASSUME NEW A, NEW c, Typed(A, c), Numbered(A, c), NEW w \in Writers, c[w] \in Nat,
         NEW e, e.writer = w, e.n = c[w] + 1,
         NEW d, d[w] = c[w] + 1, Others(c, d, w, Writers)
  PROVE  e \notin A /\ Numbered(A \cup {e}, d)
<1>1. \A x \in A : x.writer = w => x.n \in 1 .. c[w] /\ x.n # c[w] + 1
  <2>1. \A x \in A : x.writer = w => x.n \in 1 .. c[w]
    BY DEF Numbered
  <2>2. \A k \in 1 .. c[w] : k # c[w] + 1
    OBVIOUS
  <2> QED BY <2>1, <2>2, Zenon
<1>2. e \notin A
  BY <1>1
<1>3. ASSUME NEW x \in A PROVE x.n \in 1 .. d[x.writer]
  <2>1. x.writer \in Writers /\ c[x.writer] \in Nat /\ x.n \in 1 .. c[x.writer]
    BY DEF Typed, Numbered
  <2>2. d[x.writer] = c[x.writer] \/ d[x.writer] = c[x.writer] + 1
    BY <2>1 DEF Others
  <2> QED BY <2>1, <2>2
<1>4. e.n \in 1 .. d[e.writer]
  OBVIOUS
<1>5. ASSUME NEW x \in A \cup {e}, NEW y \in A \cup {e}, x.writer = y.writer, x.n = y.n PROVE x = y
  BY <1>1, <1>5, Zenon DEF Numbered
<1> QED BY <1>2, <1>3, <1>4, <1>5 DEF Numbered

LEMMA NumberedLess ==
  ASSUME NEW A, NEW c, Typed(A, c), Numbered(A, c),
         NEW e \in A, e.n = c[e.writer],
         NEW d, d[e.writer] = c[e.writer] - 1, Others(c, d, e.writer, Writers)
  PROVE  Numbered(A \ {e}, d)
<1>1. ASSUME NEW x \in A \ {e} PROVE x.n \in 1 .. d[x.writer]
  <2>1. x.writer \in Writers /\ c[x.writer] \in Nat /\ x.n \in 1 .. c[x.writer]
    BY DEF Typed, Numbered
  <2>2. CASE x.writer = e.writer
    <3>1. x.n # c[x.writer]
      BY <2>2, Zenon DEF Numbered
    <3> QED BY <2>1, <2>2, <3>1
  <2>3. CASE x.writer # e.writer
    BY <2>1, <2>3 DEF Others
  <2> QED BY <2>2, <2>3
<1> QED BY <1>1 DEF Numbered

\* The counts of the entries accepted.
Count == [w \in Writers |-> Cardinality(Added(w))]

LEMMA CountIs ==
  ASSUME HTypes
  PROVE  /\ Typed(added, Count)
         /\ \A w \in Writers : Count[w] \in Nat /\ Count[w] = Cardinality(Added(w))
<1>1. \A w \in Writers : Count[w] \in Nat /\ Count[w] = Cardinality(Added(w))
  BY NewEntryIs DEF Count
<1>2. \A e \in added : e.writer \in Writers
  BY DEF HTypes, SetTypes, Entries
<1> QED BY <1>1, <1>2 DEF Typed

LEMMA CountMore ==
  ASSUME HTypes, NEW e \in Entries, e \notin added, added' = added \cup {e}
  PROVE  Count'[e.writer] = Count[e.writer] + 1 /\ Others(Count, Count', e.writer, Writers)
<1>1. PICK w \in Writers : w = e.writer
  BY DEF Entries
<1>2. \A v \in Writers : Count'[v] = Cardinality(Added(v)') /\ Count[v] = Cardinality(Added(v))
  BY DEF Count
<1>3. Added(w)' = Added(w) \cup {e} /\ e \notin Added(w)
  BY <1>1 DEF Added
<1>4. \A v \in Writers : v # w => Added(v)' = Added(v)
  BY <1>1 DEF Added
<1>5. Cardinality(Added(w) \cup {e}) = Cardinality(Added(w)) + 1
  <2>1. IsFiniteSet(Added(w))
    BY NewEntryIs
  <2> QED BY <1>3, <2>1, FS_AddElement
<1> QED BY <1>1, <1>2, <1>3, <1>4, <1>5 DEF Others

LEMMA CountLess ==
  ASSUME HTypes, NEW e \in added, added' = added \ {e}
  PROVE  Count'[e.writer] = Count[e.writer] - 1 /\ Others(Count, Count', e.writer, Writers)
<1>1. PICK w \in Writers : w = e.writer
  BY DEF HTypes, SetTypes, Entries
<1>2. \A v \in Writers : Count'[v] = Cardinality(Added(v)') /\ Count[v] = Cardinality(Added(v))
  BY DEF Count
<1>3. Added(w)' = Added(w) \ {e} /\ e \in Added(w)
  BY <1>1 DEF Added
<1>4. \A v \in Writers : v # w => Added(v)' = Added(v)
  BY <1>1 DEF Added
<1>5. Cardinality(Added(w) \ {e}) = Cardinality(Added(w)) - 1
  <2>1. IsFiniteSet(Added(w))
    BY NewEntryIs
  <2> QED BY <1>3, <2>1, FS_RemoveElement
<1> QED BY <1>1, <1>2, <1>3, <1>4, <1>5 DEF Others

\* A new entry is new.
LEMMA NewEntryNew ==
  ASSUME HTypes, Numbered(added, Count), NEW w \in Writers, NEW e \in Entries, e = NewEntry(w),
         added' = added \cup {e}
  PROVE  /\ e \notin added /\ e.writer = w /\ e.n = Count[w] + 1
         /\ Numbered(added', Count') /\ Count'[w] = Count[w] + 1 /\ Others(Count, Count', w, Writers)
<1>1. e.writer = w /\ e.n = Count[w] + 1 /\ Count[w] \in Nat /\ Typed(added, Count)
  BY CountIs, NewEntryIs
<1>2. e \notin added
  <2>1. \A x \in added : x.writer = w => x.n \in 1 .. Count[w]
    BY DEF Numbered
  <2> QED BY <1>1, <2>1
<1>3. Count'[w] = Count[w] + 1 /\ Others(Count, Count', w, Writers)
  BY <1>1, <1>2, CountMore
<1>4. PICK A, c, d : A = added /\ c = Count /\ d = Count'
  OBVIOUS
<1>5. Numbered(A \cup {e}, d)
  BY <1>1, <1>3, <1>4, NumberedMore
<1> QED BY <1>1, <1>2, <1>3, <1>4, <1>5

-----------------------------------------------------------------------------
(* The first invariant: entries are in one place, once, and numbered *)

InBuffers == [w \in Writers |-> ToSet(buf[w])]
InCalls   == [f \in Flushers |-> HeldBy(flush[f])]

PlaceInv == Placed(InBuffers, InCalls, ToSet(file), swallowed, dropped, added, alive)

OnceInv ==
  /\ Once(file) /\ \A w \in Writers : Once(buf[w])
  /\ \A f \in Flushers : Once(flush[f].batch)

NumberInv == Numbered(added, Count) /\ Latest(InCalls, Count)

KeepInv == PlaceInv /\ OnceInv /\ NumberInv

LEMMA AddedWritten ==
  ASSUME HTypes
  PROVE  Written(added)
  BY DEF HTypes, SetTypes, Entries, Written

LEMMA EmptyOnce == Once(<<>>) /\ ToSet(<<>>) = {} /\ Sorted(<<>>)
  BY DEF Once, ToSet, Sorted

LEMMA HeldStays ==
  ASSUME NEW c, NEW d, SameHeld(c, d)
  PROVE  HeldBy(d) = HeldBy(c) /\ (d.batch = c.batch \/ d.batch = <<>>)
<1>1. Idle.batch = <<>> /\ HeldBy(Idle) = {}
  BY IdleOK
<1> QED BY <1>1 DEF SameHeld, HeldBy

LEMMA InitKeep == Init => KeepInv
<1> SUFFICES ASSUME Init PROVE KeepInv
  OBVIOUS
<1>1. \A f \in Flushers : HeldBy(flush[f]) = {} /\ flush[f].batch = <<>>
  BY IdleOK DEF Init
<1>2. \A w \in Writers : buf[w] = <<>>
  BY DEF Init
<1>3. file = <<>> /\ added = {} /\ swallowed = {} /\ dropped = {}
  BY DEF Init
<1>4. OnceInv
  BY <1>1, <1>2, <1>3, EmptyOnce DEF OnceInv
<1>5. PlaceInv
  BY <1>1, <1>2, <1>3, EmptyOnce DEF PlaceInv, Placed, Apart, InBuffers, InCalls
<1>6. NumberInv
  BY <1>1, <1>3 DEF NumberInv, Numbered, Latest, InCalls
<1> QED BY <1>4, <1>5, <1>6 DEF KeepInv

\* The variables of the first invariant, as what is where.
LEMMA Unfolded ==
  /\ \A w \in Writers : InBuffers[w] = ToSet(buf[w]) /\ InBuffers'[w] = ToSet(buf'[w])
  /\ \A f \in Flushers : InCalls[f] = HeldBy(flush[f]) /\ InCalls'[f] = HeldBy(flush'[f])
  BY DEF InBuffers, InCalls

LEMMA SameCount == added' = added => Count' = Count
  BY DEF Count, Added

\* The counts stay, and so do the numbers of what the calls keep.
LEMMA NumberKept ==
  ASSUME NumberInv, added' = added,
         \A f \in Flushers : f[1] \in Direct => HeldBy(flush'[f]) \subseteq HeldBy(flush[f])
  PROVE  NumberInv'
<1>1. Count' = Count
  BY SameCount
<1>2. Latest(InCalls, Count)'
  BY <1>1, Unfolded DEF NumberInv, Latest
<1> QED BY <1>1, <1>2 DEF NumberInv

LEMMA QuietKeep ==
  ASSUME KeepInv, Quiet
  PROVE  KeepInv'
<1>1. \A f \in Flushers : HeldBy(flush'[f]) = HeldBy(flush[f]) /\ (flush'[f].batch = flush[f].batch \/ flush'[f].batch = <<>>)
  BY HeldStays DEF Quiet
<1>2. InCalls' = InCalls /\ InBuffers' = InBuffers
  BY <1>1 DEF Quiet, InCalls, InBuffers
<1>3. PlaceInv'
  BY <1>2 DEF KeepInv, PlaceInv, Quiet
<1>4. OnceInv'
  BY <1>1, EmptyOnce DEF KeepInv, OnceInv, Quiet
<1>5. NumberInv'
  BY <1>1, NumberKept DEF KeepInv, Quiet
<1> QED BY <1>3, <1>4, <1>5 DEF KeepInv

LEMMA QueueKeep ==
  ASSUME HTypes, KeepInv, NEW w \in Writers, NEW e \in Entries, QueueEffect(w, e)
  PROVE  KeepInv'
<1>1. /\ e \notin added /\ e.writer = w /\ e.n = Count[w] + 1
      /\ Numbered(added', Count') /\ Count'[w] = Count[w] + 1 /\ Others(Count, Count', w, Writers)
  BY NewEntryNew DEF QueueEffect, KeepInv, NumberInv
<1>2. PICK b \in Seq(Entries) : b = buf[w]
  BY DEF HTypes, StoreTypes
<1>3. buf'[w] = Append(b, e) /\ \A v \in Writers : v # w => buf'[v] = buf[v]
  BY <1>2 DEF QueueEffect, HTypes, StoreTypes
<1>4. InBuffers'[w] = InBuffers[w] \cup {e} /\ Others(InBuffers, InBuffers', w, Writers)
  <2>1. ToSet(Append(b, e)) = ToSet(b) \cup {e}
    BY Appended
  <2> QED BY <1>2, <1>3, <2>1, Unfolded DEF Others
<1>5. InCalls' = InCalls
  BY DEF QueueEffect, InCalls
<1>6. PlaceInv'
  <2>1. PICK B, C : B = InBuffers /\ C = InBuffers'
    OBVIOUS
  <2>2. PICK H, F, S, D, A, live : /\ H = InCalls /\ F = ToSet(file) /\ S = swallowed /\ D = dropped
                                   /\ A = added /\ live = alive
    OBVIOUS
  <2>3. Placed(B, H, F, S, D, A, live) /\ Written(A)
    BY <2>1, <2>2, AddedWritten DEF KeepInv, PlaceInv
  <2>4. Placed(C, H, F, S, D, A \cup {e}, live)
    BY <1>1, <1>4, <2>1, <2>2, <2>3, PlacedQueue
  <2> QED BY <1>5, <2>1, <2>2, <2>4 DEF PlaceInv, QueueEffect
<1>7. OnceInv'
  <2>1. e \notin ToSet(b)
    BY <1>1, <1>2, Unfolded DEF KeepInv, PlaceInv, Placed
  <2>2. Once(Append(b, e))
    BY <1>2, <2>1, Appended DEF KeepInv, OnceInv
  <2> QED BY <1>3, <2>2 DEF KeepInv, OnceInv, QueueEffect
<1>8. Latest(InCalls, Count)'
  <2>1. \A f \in Flushers : f[1] \in Direct => Count'[f[1]] = Count[f[1]]
    BY <1>1, FlusherIs DEF QueueEffect, Others
  <2> QED BY <1>5, <2>1 DEF KeepInv, NumberInv, Latest
<1> QED BY <1>1, <1>6, <1>7, <1>8 DEF KeepInv, NumberInv

LEMMA DropKeep ==
  ASSUME HTypes, KeepInv, NEW w \in Writers, NEW e \in Entries, NEW s \in Seq(Entries), DropEffect(w, e, s)
  PROVE  KeepInv'
<1>1. Once(buf[w])
  BY DEF KeepInv, OnceInv
<1>2. buf'[w] = s /\ \A v \in Writers : v # w => buf'[v] = buf[v]
  BY DEF DropEffect, HTypes, StoreTypes
<1>3. ToSet(s) = ToSet(buf[w]) \ {e} /\ Once(s) /\ e \in ToSet(buf[w])
  BY <1>1 DEF DropEffect
<1>4. InBuffers'[w] = InBuffers[w] \ {e} /\ e \in InBuffers[w] /\ Others(InBuffers, InBuffers', w, Writers)
  BY <1>2, <1>3, Unfolded DEF Others
<1>5. InCalls' = InCalls
  BY DEF DropEffect, InCalls
<1>6. PlaceInv'
  <2>1. PICK B, C : B = InBuffers /\ C = InBuffers'
    OBVIOUS
  <2>2. PICK H, F, S, D, A, live : /\ H = InCalls /\ F = ToSet(file) /\ S = swallowed /\ D = dropped
                                   /\ A = added /\ live = alive
    OBVIOUS
  <2>3. Placed(B, H, F, S, D, A, live) /\ Written(A)
    BY <2>1, <2>2, AddedWritten DEF KeepInv, PlaceInv
  <2>4. Placed(C, H, F, S, D \cup {e}, A, live)
    BY <1>4, <2>1, <2>2, <2>3, PlacedDrop
  <2> QED BY <1>5, <2>1, <2>2, <2>4 DEF PlaceInv, DropEffect
<1>7. OnceInv'
  BY <1>2, <1>3 DEF KeepInv, OnceInv, DropEffect
<1>8. NumberInv'
  BY NumberKept DEF KeepInv, DropEffect
<1> QED BY <1>6, <1>7, <1>8 DEF KeepInv

LEMMA HideKeep ==
  ASSUME KeepInv, NEW w \in Writers, NEW e, HideEffect(w, e)
  PROVE  KeepInv'
<1>1. InCalls' = InCalls /\ InBuffers' = InBuffers
  BY DEF HideEffect, InCalls, InBuffers
<1>2. PlaceInv'
  BY <1>1 DEF KeepInv, PlaceInv, HideEffect
<1>3. OnceInv'
  BY DEF KeepInv, OnceInv, HideEffect
<1>4. NumberInv'
  BY NumberKept DEF KeepInv, HideEffect
<1> QED BY <1>2, <1>3, <1>4 DEF KeepInv

LEMMA FlushKeep ==
  ASSUME HTypes, KeepInv, NEW f \in Flushers, FlushEffect(f)
  PROVE  KeepInv'
<1>1. PICK w \in Writers : w = f[1]
  BY FlusherIs
<1>2. buf'[w] = <<>> /\ \A v \in Writers : v # w => buf'[v] = buf[v]
  BY <1>1 DEF FlushEffect, HTypes, StoreTypes
<1>3. /\ HeldBy(flush[f]) = {} /\ HeldBy(flush'[f]) = ToSet(buf[w]) /\ flush'[f].batch = buf[w]
      /\ \A g \in Flushers : g # f => flush'[g] = flush[g]
  BY <1>1 DEF FlushEffect, TakeEffect
<1>4. InBuffers'[w] = {} /\ Others(InBuffers, InBuffers', w, Writers)
  BY <1>2, Unfolded, EmptyOnce DEF Others
<1>5. InCalls[f] = {} /\ InCalls'[f] = InBuffers[w] /\ Others(InCalls, InCalls', f, Flushers)
  BY <1>3, Unfolded DEF Others
<1>6. PlaceInv'
  <2>1. PICK B, C, H, G : B = InBuffers /\ C = InBuffers' /\ H = InCalls /\ G = InCalls'
    OBVIOUS
  <2>2. PICK F, S, D, A, live : /\ F = ToSet(file) /\ S = swallowed /\ D = dropped
                                /\ A = added /\ live = alive
    OBVIOUS
  <2>3. Placed(B, H, F, S, D, A, live) /\ Written(A)
    BY <2>1, <2>2, AddedWritten DEF KeepInv, PlaceInv
  <2>4. Placed(C, G, F, S, D, A, live)
    BY <1>1, <1>4, <1>5, <2>1, <2>3, PlacedFlush
  <2> QED BY <2>1, <2>2, <2>4 DEF PlaceInv, FlushEffect, TakeEffect
<1>7. OnceInv'
  BY <1>1, <1>2, <1>3, EmptyOnce DEF KeepInv, OnceInv, FlushEffect, TakeEffect
<1>8. NumberInv'
  <2>1. \A g \in Flushers : g[1] \in Direct => HeldBy(flush'[g]) \subseteq HeldBy(flush[g])
    BY <1>3 DEF FlushEffect
  <2> QED BY <2>1, NumberKept DEF KeepInv, FlushEffect
<1> QED BY <1>6, <1>7, <1>8 DEF KeepInv

LEMMA AddKeep ==
  ASSUME HTypes, KeepInv, NEW f \in Flushers, NEW e \in Entries, AddEffect(f, e)
  PROVE  KeepInv'
<1>1. PICK w \in Writers : w = f[1]
  BY FlusherIs
<1>2. /\ e \notin added /\ e.writer = w /\ e.n = Count[w] + 1
      /\ Numbered(added', Count') /\ Count'[w] = Count[w] + 1 /\ Others(Count, Count', w, Writers)
  BY <1>1, NewEntryNew DEF AddEffect, KeepInv, NumberInv
<1>3. PICK b \in Seq(Entries) : b = <<e>> /\ ToSet(b) = {e} /\ Once(b)
  <2>1. <<e>> \in Seq(Entries) /\ ToSet(<<e>>) = {e} /\ Once(<<e>>)
    BY DEF ToSet, Once
  <2> QED BY <2>1, Zenon
<1>4. /\ HeldBy(flush[f]) = {} /\ HeldBy(flush'[f]) = {e} /\ flush'[f].batch = b
      /\ \A g \in Flushers : g # f => flush'[g] = flush[g]
  BY <1>3 DEF AddEffect, TakeEffect
<1>5. InCalls[f] = {} /\ InCalls'[f] = {e} /\ Others(InCalls, InCalls', f, Flushers)
  BY <1>4, Unfolded DEF Others
<1>6. InBuffers' = InBuffers
  BY DEF AddEffect, InBuffers
<1>7. PlaceInv'
  <2>1. PICK B, H, G : B = InBuffers /\ H = InCalls /\ G = InCalls'
    OBVIOUS
  <2>2. PICK F, S, D, A, live : /\ F = ToSet(file) /\ S = swallowed /\ D = dropped
                                /\ A = added /\ live = alive
    OBVIOUS
  <2>3. Placed(B, H, F, S, D, A, live) /\ Written(A)
    BY <2>1, <2>2, AddedWritten DEF KeepInv, PlaceInv
  <2>4. Placed(B, G, F, S, D, A \cup {e}, live)
    BY <1>1, <1>2, <1>5, <2>1, <2>2, <2>3, PlacedAdd
  <2> QED BY <1>6, <2>1, <2>2, <2>4 DEF PlaceInv, AddEffect, TakeEffect
<1>8. OnceInv'
  BY <1>3, <1>4 DEF KeepInv, OnceInv, AddEffect, TakeEffect
<1>9. Latest(InCalls, Count)'
  <2>1. ASSUME NEW g \in Flushers, g[1] \in Direct, NEW x \in InCalls'[g] PROVE x.n = Count'[g[1]]
    <3>1. CASE g = f
      BY <1>1, <1>2, <1>5, <2>1, <3>1
    <3>2. CASE g # f
      <4>1. g[1] # w /\ g[1] \in Writers
        BY <1>1, <2>1, <3>2, FlusherIs
      <4>2. Count'[g[1]] = Count[g[1]] /\ x \in InCalls[g]
        BY <1>2, <1>5, <2>1, <3>2, <4>1 DEF Others
      <4> QED BY <2>1, <4>2 DEF KeepInv, NumberInv, Latest
    <3> QED BY <3>1, <3>2
  <2> QED BY <2>1 DEF Latest
<1> QED BY <1>2, <1>7, <1>8, <1>9 DEF KeepInv, NumberInv

LEMMA AppendKeep ==
  ASSUME HTypes, KeepInv, NEW f \in Flushers, NEW e \in Entries, NEW b \in Seq(Entries), AppendEffect(f, e, b)
  PROVE  KeepInv'
<1>1. Once(b)
  BY DEF KeepInv, OnceInv, AppendEffect
<1>2. /\ e \in HeldBy(flush[f]) /\ HeldBy(flush'[f]) = HeldBy(flush[f]) \ {e}
      /\ \A g \in Flushers : g # f => flush'[g] = flush[g]
  BY <1>1 DEF AppendEffect, Popped
<1>3. InBuffers' = InBuffers
  BY DEF AppendEffect, InBuffers
<1>4. e \in InCalls[f] /\ InCalls'[f] = InCalls[f] \ {e} /\ Others(InCalls, InCalls', f, Flushers)
  BY <1>2, Unfolded DEF Others
<1>5. file \in Seq(Entries)
  BY DEF HTypes, StoreTypes
<1>6. PlaceInv'
  <2>1. PICK B, H, G : B = InBuffers /\ H = InCalls /\ G = InCalls'
    OBVIOUS
  <2>2. PICK F, S, D, A, live : /\ F = ToSet(file) /\ S = swallowed /\ D = dropped
                                /\ A = added /\ live = alive
    OBVIOUS
  <2>3. Placed(B, H, F, S, D, A, live) /\ Written(A)
    BY <2>1, <2>2, AddedWritten DEF KeepInv, PlaceInv
  <2>4. Placed(B, G, F \cup {e}, S, D, A, live) /\ Placed(B, G, F, S \cup {e}, D, A, live)
    BY <1>4, <2>1, <2>3, PlacedAppend
  <2>5. ToSet(Append(file, e)) = F \cup {e}
    BY <1>5, <2>2, Appended
  <2> QED BY <1>3, <2>1, <2>2, <2>4, <2>5 DEF PlaceInv, AppendEffect
<1>7. OnceInv'
  <2>1. e \notin ToSet(file)
    BY <1>4 DEF KeepInv, PlaceInv, Placed
  <2>2. Once(Append(file, e)) /\ Once(file)
    BY <1>5, <2>1, Appended DEF KeepInv, OnceInv
  <2> QED BY <1>2, <2>2 DEF KeepInv, OnceInv, AppendEffect
<1>8. NumberInv'
  <2>1. \A g \in Flushers : g[1] \in Direct => HeldBy(flush'[g]) \subseteq HeldBy(flush[g])
    BY <1>2
  <2> QED BY <2>1, NumberKept DEF KeepInv, AppendEffect
<1> QED BY <1>6, <1>7, <1>8 DEF KeepInv

\* What a call that returns leaves.
LEMMA Returned ==
  ASSUME KeepInv, NEW f \in Flushers, NEW r, ReturnEffect(f, r)
  PROVE  /\ InCalls'[f] = {} /\ Others(InCalls, InCalls', f, Flushers)
         /\ ToSet(r) = InCalls[f] /\ Once(r)
         /\ \A g \in Flushers : Once(flush'[g].batch) /\ HeldBy(flush'[g]) \subseteq HeldBy(flush[g])
<1>1. Once(flush[f].batch)
  BY DEF KeepInv, OnceInv
<1>2. HeldBy(Idle) = {} /\ Idle.batch = <<>> /\ Once(<<>>)
  BY IdleOK, EmptyOnce
<1> QED BY <1>1, <1>2, Unfolded DEF ReturnEffect, Others, KeepInv, OnceInv

LEMMA RequeueKeep ==
  ASSUME HTypes, KeepInv, NEW f \in Flushers, NEW r \in Seq(Entries), RequeueEffect(f, r)
  PROVE  KeepInv'
<1>1. /\ InCalls'[f] = {} /\ Others(InCalls, InCalls', f, Flushers)
      /\ ToSet(r) = InCalls[f] /\ Once(r)
      /\ \A g \in Flushers : Once(flush'[g].batch) /\ HeldBy(flush'[g]) \subseteq HeldBy(flush[g])
  BY Returned DEF RequeueEffect
<1>2. PICK w \in Writers : w = f[1]
  BY FlusherIs
<1>3. PICK b \in Seq(Entries) : b = buf[w]
  BY DEF HTypes, StoreTypes
<1>4. buf'[w] = r \o b /\ \A v \in Writers : v # w => buf'[v] = buf[v]
  BY <1>2, <1>3 DEF RequeueEffect, HTypes, StoreTypes
<1>5. InBuffers'[w] = InCalls[f] \cup InBuffers[w] /\ Others(InBuffers, InBuffers', w, Writers)
  <2>1. ToSet(r \o b) = ToSet(r) \cup ToSet(b)
    BY Joined
  <2> QED BY <1>1, <1>3, <1>4, <2>1, Unfolded, ZenonT(60) DEF Others
<1>6. PlaceInv'
  <2>1. PICK B, C, H, G : B = InBuffers /\ C = InBuffers' /\ H = InCalls /\ G = InCalls'
    OBVIOUS
  <2>2. PICK F, S, D, A, live : /\ F = ToSet(file) /\ S = swallowed /\ D = dropped
                                /\ A = added /\ live = alive
    OBVIOUS
  <2>3. Placed(B, H, F, S, D, A, live) /\ Written(A)
    BY <2>1, <2>2, AddedWritten DEF KeepInv, PlaceInv
  <2>4. Placed(C, G, F, S, D, A, live)
    BY <1>1, <1>2, <1>5, <2>1, <2>3, PlacedRequeue
  <2> QED BY <2>1, <2>2, <2>4 DEF PlaceInv, RequeueEffect, ReturnEffect
<1>7. OnceInv'
  <2>1. ToSet(r) \cap ToSet(b) = {}
    BY <1>1, <1>2, <1>3, Unfolded DEF KeepInv, PlaceInv, Placed
  <2>2. Once(r \o b)
    BY <1>1, <1>3, <2>1, Joined DEF KeepInv, OnceInv
  <2> QED BY <1>1, <1>4, <2>2 DEF KeepInv, OnceInv, RequeueEffect, ReturnEffect
<1>8. NumberInv'
  BY <1>1, NumberKept DEF KeepInv, RequeueEffect
<1> QED BY <1>6, <1>7, <1>8 DEF KeepInv

LEMMA ReportKeep ==
  ASSUME HTypes, KeepInv, NEW f \in Flushers, NEW r \in Seq(Entries), ReportEffect(f, r)
  PROVE  KeepInv'
<1>1. /\ InCalls'[f] = {} /\ Others(InCalls, InCalls', f, Flushers)
      /\ ToSet(r) = InCalls[f] /\ Once(r)
      /\ \A g \in Flushers : Once(flush'[g].batch) /\ HeldBy(flush'[g]) \subseteq HeldBy(flush[g])
  BY Returned DEF ReportEffect
<1>2. PICK w \in Writers : w = f[1] /\ w \in Direct
  BY FlusherIs DEF ReportEffect
<1>3. InBuffers' = InBuffers
  BY DEF ReportEffect, InBuffers
<1>4. PlaceInv'
  <2>1. PICK B, H, G : B = InBuffers /\ H = InCalls /\ G = InCalls'
    OBVIOUS
  <2>2. PICK F, S, D, A, live : /\ F = ToSet(file) /\ S = swallowed /\ D = dropped
                                /\ A = added /\ live = alive
    OBVIOUS
  <2>3. Placed(B, H, F, S, D, A, live) /\ Written(A)
    BY <2>1, <2>2, AddedWritten DEF KeepInv, PlaceInv
  <2>4. Placed(B, G, F, S, D, A \ H[f], live)
    BY <1>1, <2>1, <2>3, PlacedReport
  <2>5. added' = A \ H[f]
    BY <1>1, <2>1, <2>2 DEF ReportEffect
  <2> QED BY <1>3, <2>1, <2>2, <2>4, <2>5 DEF PlaceInv, ReportEffect, ReturnEffect
<1>5. OnceInv'
  BY <1>1 DEF KeepInv, OnceInv, ReportEffect, ReturnEffect
<1>6. CASE InCalls[f] = {}
  <2>1. added' = added
    BY <1>1, <1>6 DEF ReportEffect
  <2>2. NumberInv'
    BY <1>1, <2>1, NumberKept DEF KeepInv
  <2> QED BY <1>4, <1>5, <2>2 DEF KeepInv
<1>7. CASE InCalls[f] # {}
  <2>1. PICK e : e \in InCalls[f]
    BY <1>7
  <2>2. \A x \in InCalls[f] : x \in added /\ x.writer = w /\ x.n = Count[w]
    BY <1>2 DEF KeepInv, PlaceInv, Placed, NumberInv, Latest
  <2>3. InCalls[f] = {e}
    BY <2>1, <2>2 DEF KeepInv, NumberInv, Numbered
  <2>4. added' = added \ {e} /\ e \in added /\ e.writer = w /\ e.n = Count[w]
    BY <1>1, <2>1, <2>2, <2>3 DEF ReportEffect
  <2>5. Count'[w] = Count[w] - 1 /\ Others(Count, Count', w, Writers)
    BY <2>4, CountLess
  <2>6. Numbered(added', Count')
    <3>1. PICK A, c, d : A = added /\ c = Count /\ d = Count'
      OBVIOUS
    <3>2. Typed(A, c) /\ Numbered(A, c)
      BY <3>1, CountIs DEF KeepInv, NumberInv
    <3>3. Numbered(A \ {e}, d)
      BY <2>4, <2>5, <3>1, <3>2, NumberedLess
    <3> QED BY <2>4, <3>1, <3>3
  <2>7. Latest(InCalls, Count)'
    <3>1. ASSUME NEW g \in Flushers, g[1] \in Direct, NEW x \in InCalls'[g] PROVE x.n = Count'[g[1]]
      <4>1. g # f /\ x \in InCalls[g]
        BY <1>1, <3>1 DEF Others
      <4>2. g[1] # w /\ g[1] \in Writers
        BY <1>2, <3>1, <4>1, FlusherIs
      <4> QED BY <2>5, <3>1, <4>1, <4>2 DEF Others, KeepInv, NumberInv, Latest
    <3> QED BY <3>1 DEF Latest
  <2> QED BY <1>4, <1>5, <2>6, <2>7 DEF KeepInv, NumberInv
<1> QED BY <1>6, <1>7

LEMMA CrashKeep ==
  ASSUME HTypes, KeepInv, NEW w \in Writers, CrashEffect(w)
  PROVE  KeepInv'
<1>1. buf'[w] = <<>> /\ \A v \in Writers : v # w => buf'[v] = buf[v]
  BY DEF CrashEffect, HTypes, StoreTypes
<1>2. ~alive'[w] /\ Others(alive, alive', w, Writers)
  BY DEF CrashEffect, HTypes, StoreTypes, Others
<1>3. HeldBy(Idle) = {} /\ Idle.batch = <<>>
  BY IdleOK
<1>4. InBuffers'[w] = {} /\ Others(InBuffers, InBuffers', w, Writers)
  BY <1>1, Unfolded, EmptyOnce DEF Others
<1>5. \A f \in Flushers : InCalls'[f] = IF f[1] = w THEN {} ELSE InCalls[f]
  BY <1>3, Unfolded, ZenonT(60) DEF CrashEffect
<1>6. PlaceInv'
  <2>1. PICK B, C, H, G, live, some : /\ B = InBuffers /\ C = InBuffers' /\ H = InCalls /\ G = InCalls'
                                      /\ live = alive /\ some = alive'
    OBVIOUS
  <2>2. PICK F, S, D, A : F = ToSet(file) /\ S = swallowed /\ D = dropped /\ A = added
    OBVIOUS
  <2>3. Placed(B, H, F, S, D, A, live) /\ Written(A)
    BY <2>1, <2>2, AddedWritten DEF KeepInv, PlaceInv
  <2>4. Placed(C, G, F, S, D, A, some)
    BY <1>2, <1>4, <1>5, <2>1, <2>3, PlacedCrash
  <2> QED BY <2>1, <2>2, <2>4 DEF PlaceInv, CrashEffect
<1>7. OnceInv'
  BY <1>1, <1>3, EmptyOnce DEF KeepInv, OnceInv, CrashEffect
<1>8. NumberInv'
  <2>1. \A g \in Flushers : g[1] \in Direct => HeldBy(flush'[g]) \subseteq HeldBy(flush[g])
    BY <1>3 DEF CrashEffect
  <2> QED BY <2>1, NumberKept DEF KeepInv, CrashEffect
<1> QED BY <1>6, <1>7, <1>8 DEF KeepInv

\* Every step is one of these.
Effect ==
  \/ Quiet /\ load' = load
  \/ \E w \in Writers :
       /\ Quiet /\ load' = [load EXCEPT ![w] = [on |-> TRUE, pending |-> buf[w], skip |-> skipped[w], lines |-> Len(file)]]
  \/ \E w \in Writers, e \in Entries : QueueEffect(w, e) \/ HideEffect(w, e)
  \/ \E w \in Writers, e \in Entries, s \in Seq(Entries) : DropEffect(w, e, s)
  \/ \E w \in Writers : CrashEffect(w)
  \/ \E f \in Flushers : FlushEffect(f)
  \/ \E f \in Flushers, e \in Entries : AddEffect(f, e)
  \/ \E f \in Flushers, e \in Entries, b \in Seq(Entries) : AppendEffect(f, e, b)
  \/ \E f \in Flushers, r \in Seq(Entries) : RequeueEffect(f, r) \/ ReportEffect(f, r)

LEMMA NextEffect == HTypes /\ [Next]_vars => Effect
<1> SUFFICES ASSUME HTypes, [Next]_vars PROVE Effect
  OBVIOUS
<1>1. CASE Tick \/ UNCHANGED vars
  BY <1>1, TickTypes DEF Effect
<1>2. ASSUME NEW w \in Writers, Queue(w) PROVE Effect
  BY <1>2, QueueTypes DEF Effect
<1>3. ASSUME NEW w \in Writers, RemoveLastPending(w) PROVE Effect
  BY <1>3, RemovePendingTypes DEF Effect
<1>4. ASSUME NEW w \in Writers, RemoveLast(w) PROVE Effect
  BY <1>4, RemoveLastTypes DEF Effect
<1>5. ASSUME NEW w \in Writers, Crash(w) PROVE Effect
  BY <1>5, CrashTypes DEF Effect
<1>6. ASSUME NEW w \in Writers, BeginLoad(w) PROVE Effect
  BY <1>6, LoadTypes DEF Effect
<1>7. ASSUME NEW f \in Flushers, Flush(f) PROVE Effect
  BY <1>7, FlushTypes DEF Effect
<1>8. ASSUME NEW f \in Flushers, AddToHistory(f) PROVE Effect
  BY <1>8, AddTypes DEF Effect
<1>9. ASSUME NEW f \in Flushers, OpenLock(f) \/ OpenFails(f) \/ StatLock(f) \/ RemoveLock(f) \/ AppendFails(f)
      PROVE  Effect
  BY <1>9, LockStepTypes DEF Effect
<1>10. ASSUME NEW f \in Flushers, Unlock(f) PROVE Effect
  BY <1>10, UnlockTypes DEF Effect
<1>11. ASSUME NEW f \in Flushers, AppendEntry(f) PROVE Effect
  BY <1>11, AppendTypes DEF Effect
<1>12. ASSUME NEW f \in Flushers, Requeue(f) PROVE Effect
  BY <1>12, RequeueTypes DEF Effect
<1> QED BY <1>1, <1>2, <1>3, <1>4, <1>5, <1>6, <1>7, <1>8, <1>9, <1>10, <1>11, <1>12, Zenon DEF Next, Step

LEMMA NextKeep == HTypes /\ KeepInv /\ Effect => KeepInv'
  BY QuietKeep, QueueKeep, HideKeep, DropKeep, CrashKeep, FlushKeep, AddKeep, AppendKeep,
     RequeueKeep, ReportKeep, Zenon DEF Effect

-----------------------------------------------------------------------------
(* The second invariant: with one flush at a time a writer's entries are   *)
(* in order, those in the file before those of its flush, and these before *)
(* the ones in the buffer.                                                 *)

FileOrdered(s) ==
  \A i, j \in 1 .. Len(s) : i < j /\ s[i].writer = s[j].writer => s[i].n < s[j].n

Ordered(B, H, F) ==
  /\ \A f \in Flushers : \A e \in H[f], x \in F : x.writer = f[1] => x.n < e.n
  /\ \A w \in Writers : \A e \in B[w], x \in F : x.writer = w => x.n < e.n
  /\ \A f \in Flushers : \A e \in H[f], x \in B[f[1]] : e.n < x.n

SortInv ==
  /\ FileOrdered(file) /\ \A w \in Writers : Sorted(buf[w])
  /\ \A f \in Flushers : Sorted(flush[f].batch)

OrderInv == FlushThreads = 1 => SortInv /\ Ordered(InBuffers, InCalls, ToSet(file))

LEMMA FileExtended ==
  ASSUME NEW s \in Seq(Entries), FileOrdered(s), NEW e \in Entries,
         \A x \in ToSet(s) : x.writer = e.writer => x.n < e.n
  PROVE  FileOrdered(Append(s, e))
<1>1. PICK t \in Seq(Entries) : t = Append(s, e)
  <2>1. Append(s, e) \in Seq(Entries)
    OBVIOUS
  <2> QED BY <2>1, Zenon
<1>2. Len(t) = Len(s) + 1 /\ t[Len(s) + 1] = e /\ \A i \in 1 .. Len(s) : t[i] = s[i]
  BY <1>1
<1>3. \A i \in 1 .. Len(s) : s[i].writer = e.writer => s[i].n < e.n
  BY Members
<1>4. ASSUME NEW i \in 1 .. Len(t), NEW j \in 1 .. Len(t), i < j, t[i].writer = t[j].writer
      PROVE  t[i].n < t[j].n
  <2>1. i \in 1 .. Len(s) /\ (j \in 1 .. Len(s) \/ j = Len(s) + 1)
    BY <1>2, <1>4
  <2> QED BY <1>2, <1>3, <1>4, <2>1, Zenon DEF FileOrdered
<1> QED BY <1>1, <1>4 DEF FileOrdered

\* Less in the buffers and with the calls, and no more in the file.
LEMMA OrderedLess ==
  ASSUME NEW B, NEW H, NEW F, Ordered(B, H, F),
         NEW C, \A w \in Writers : C[w] \subseteq B[w],
         NEW G, \A f \in Flushers : G[f] \subseteq H[f]
  PROVE  Ordered(C, G, F)
  BY FlusherIs DEF Ordered

LEMMA OrderedQueue ==
  ASSUME NEW B, NEW H, NEW F, Ordered(B, H, F), NEW w \in Writers, NEW e,
         \A x \in F : x.writer = w => x.n < e.n,
         \A f \in Flushers : f[1] = w => \A x \in H[f] : x.n < e.n,
         NEW C, C[w] = B[w] \cup {e}, Others(B, C, w, Writers)
  PROVE  Ordered(C, H, F)
<1>1. ASSUME NEW v \in Writers, NEW x \in C[v] PROVE x \in B[v] \/ (v = w /\ x = e)
  BY DEF Others
<1> QED BY <1>1, FlusherIs DEF Ordered

LEMMA OrderedFlush ==
  ASSUME NEW B, NEW H, NEW F, Ordered(B, H, F), NEW f \in Flushers,
         NEW C, C[f[1]] = {}, Others(B, C, f[1], Writers),
         NEW G, G[f] = B[f[1]], Others(H, G, f, Flushers)
  PROVE  Ordered(C, G, F)
<1>1. \A v \in Writers : C[v] \subseteq B[v] /\ f[1] \in Writers
  BY FlusherIs DEF Others
<1>2. \A g \in Flushers : \A e \in G[g], x \in F : x.writer = g[1] => x.n < e.n
  BY <1>1, FlusherIs DEF Ordered, Others
<1>3. \A g \in Flushers : \A e \in G[g], x \in C[g[1]] : e.n < x.n
  BY <1>1, FlusherIs DEF Ordered, Others
<1> QED BY <1>1, <1>2, <1>3 DEF Ordered

LEMMA OrderedAdd ==
  ASSUME NEW B, NEW H, NEW F, Ordered(B, H, F), NEW f \in Flushers, NEW e, B[f[1]] = {},
         \A x \in F : x.writer = f[1] => x.n < e.n,
         NEW G, G[f] = {e}, Others(H, G, f, Flushers)
  PROVE  Ordered(B, G, F)
  BY DEF Ordered, Others

LEMMA OrderedAppend ==
  ASSUME NEW B, NEW H, NEW F, Ordered(B, H, F), NEW f \in Flushers, NEW e, e \in H[f], e.writer = f[1],
         \A g \in Flushers : g[1] = f[1] => g = f,
         NEW G, G[f] \subseteq H[f], Others(H, G, f, Flushers), \A x \in G[f] : e.n < x.n
  PROVE  Ordered(B, G, F \cup {e})
<1>1. \A g \in Flushers : G[g] \subseteq H[g]
  BY DEF Others
<1>2. \A g \in Flushers : \A y \in G[g], x \in F \cup {e} : x.writer = g[1] => x.n < y.n
  BY <1>1 DEF Ordered
<1>3. \A w \in Writers : \A y \in B[w], x \in F \cup {e} : x.writer = w => x.n < y.n
  BY DEF Ordered
<1> QED BY <1>1, <1>2, <1>3 DEF Ordered

LEMMA OrderedRequeue ==
  ASSUME NEW B, NEW H, NEW F, Ordered(B, H, F), NEW f \in Flushers,
         \A g \in Flushers : g[1] = f[1] => g = f,
         NEW C, C[f[1]] = H[f] \cup B[f[1]], Others(B, C, f[1], Writers),
         NEW G, G[f] = {}, Others(H, G, f, Flushers)
  PROVE  Ordered(C, G, F)
<1>1. ASSUME NEW w \in Writers, NEW x \in C[w] PROVE x \in B[w] \/ (w = f[1] /\ x \in H[f])
  BY DEF Others
<1>2. ASSUME NEW g \in Flushers, NEW x \in G[g] PROVE g # f /\ x \in H[g] /\ g[1] # f[1]
  BY DEF Others
<1> QED BY <1>1, <1>2, FlusherIs DEF Ordered

LEMMA InitOrder == Init => OrderInv
<1> SUFFICES ASSUME Init PROVE OrderInv
  OBVIOUS
<1>1. \A f \in Flushers : HeldBy(flush[f]) = {} /\ flush[f].batch = <<>>
  BY IdleOK DEF Init
<1>2. file = <<>> /\ \A w \in Writers : buf[w] = <<>>
  BY DEF Init
<1>3. FileOrdered(<<>>)
  BY DEF FileOrdered
<1> QED BY <1>1, <1>2, <1>3, EmptyOnce DEF OrderInv, SortInv, Ordered, InBuffers, InCalls

\* Steps that add nothing to the buffers, the calls and the file.
LEMMA OrderKept ==
  ASSUME OrderInv, file' = file,
         \A w \in Writers : ToSet(buf'[w]) \subseteq ToSet(buf[w]) /\ (Sorted(buf[w]) => Sorted(buf'[w])),
         \A f \in Flushers : /\ HeldBy(flush'[f]) \subseteq HeldBy(flush[f])
                             /\ flush'[f].batch \in {flush[f].batch, <<>>}
  PROVE  OrderInv'
<1> SUFFICES ASSUME FlushThreads = 1 PROVE SortInv' /\ Ordered(InBuffers', InCalls', ToSet(file'))
  BY DEF OrderInv
<1>1. SortInv'
  BY EmptyOnce DEF OrderInv, SortInv
<1>2. PICK B, C, H, G, F : B = InBuffers /\ C = InBuffers' /\ H = InCalls /\ G = InCalls' /\ F = ToSet(file)
  OBVIOUS
<1>3. (\A w \in Writers : C[w] \subseteq B[w]) /\ \A f \in Flushers : G[f] \subseteq H[f]
  BY <1>2, Unfolded
<1>4. Ordered(C, G, F)
  BY <1>2, <1>3, OrderedLess DEF OrderInv
<1> QED BY <1>1, <1>2, <1>4

LEMMA QuietOrder ==
  ASSUME OrderInv, Quiet
  PROVE  OrderInv'
<1>1. \A f \in Flushers : HeldBy(flush'[f]) = HeldBy(flush[f]) /\ (flush'[f].batch = flush[f].batch \/ flush'[f].batch = <<>>)
  BY HeldStays DEF Quiet
<1> QED BY <1>1, OrderKept DEF Quiet

LEMMA DropOrder ==
  ASSUME HTypes, OrderInv, NEW w \in Writers, NEW e \in Entries, NEW s \in Seq(Entries), DropEffect(w, e, s)
  PROVE  OrderInv'
<1>1. buf'[w] = s /\ \A v \in Writers : v # w => buf'[v] = buf[v]
  BY DEF DropEffect, HTypes, StoreTypes
<1>2. \A v \in Writers : ToSet(buf'[v]) \subseteq ToSet(buf[v]) /\ (Sorted(buf[v]) => Sorted(buf'[v]))
  BY <1>1 DEF DropEffect
<1> QED BY <1>2, OrderKept DEF DropEffect

LEMMA HideOrder ==
  ASSUME OrderInv, NEW w \in Writers, NEW e, HideEffect(w, e)
  PROVE  OrderInv'
  BY OrderKept DEF HideEffect

LEMMA CrashOrder ==
  ASSUME HTypes, OrderInv, NEW w \in Writers, CrashEffect(w)
  PROVE  OrderInv'
<1>1. buf'[w] = <<>> /\ \A v \in Writers : v # w => buf'[v] = buf[v]
  BY DEF CrashEffect, HTypes, StoreTypes
<1>2. HeldBy(Idle) = {} /\ Idle.batch = <<>>
  BY IdleOK
<1>3. \A v \in Writers : ToSet(buf'[v]) \subseteq ToSet(buf[v]) /\ (Sorted(buf[v]) => Sorted(buf'[v]))
  BY <1>1, EmptyOnce
<1>4. \A f \in Flushers : /\ HeldBy(flush'[f]) \subseteq HeldBy(flush[f])
                          /\ flush'[f].batch \in {flush[f].batch, <<>>}
  BY <1>2 DEF CrashEffect
<1> QED BY <1>3, <1>4, OrderKept DEF CrashEffect

LEMMA ReportOrder ==
  ASSUME OrderInv, NEW f \in Flushers, NEW r \in Seq(Entries), ReportEffect(f, r)
  PROVE  OrderInv'
<1>1. HeldBy(Idle) = {} /\ Idle.batch = <<>>
  BY IdleOK
<1>2. \A g \in Flushers : /\ HeldBy(flush'[g]) \subseteq HeldBy(flush[g])
                          /\ flush'[g].batch \in {flush[g].batch, <<>>}
  BY <1>1 DEF ReportEffect, ReturnEffect
<1> QED BY <1>2, OrderKept DEF ReportEffect, ReturnEffect

\* A writer's new entry comes after all it had.
LEMMA NewEntryLast ==
  ASSUME HTypes, KeepInv, NEW w \in Writers, NEW e, e.n = Count[w] + 1
  PROVE  /\ \A x \in added : x.writer = w => x.n < e.n
         /\ \A x \in ToSet(file) : x.writer = w => x.n < e.n
         /\ \A x \in ToSet(buf[w]) : x.n < e.n
         /\ \A f \in Flushers : f[1] = w => \A x \in InCalls[f] : x.n < e.n
<1>1. Count[w] \in Nat
  BY CountIs
<1>2. \A k \in 1 .. Count[w] : k < e.n
  BY <1>1
<1>3. \A x \in added : x.writer = w => x.n \in 1 .. Count[w]
  BY DEF KeepInv, NumberInv, Numbered
<1>4. \A x \in added : x.writer = w => x.n < e.n
  BY <1>2, <1>3, Zenon
<1>5. ToSet(file) \subseteq added /\ \A x \in ToSet(buf[w]) : x \in added /\ x.writer = w
  BY Unfolded DEF KeepInv, PlaceInv, Placed, Apart
<1>6. \A f \in Flushers : \A x \in InCalls[f] : x \in added /\ x.writer = f[1]
  BY DEF KeepInv, PlaceInv, Placed
<1> QED BY <1>4, <1>5, <1>6, Zenon

LEMMA QueueOrder ==
  ASSUME HTypes, KeepInv, OrderInv, NEW w \in Writers, NEW e \in Entries, QueueEffect(w, e)
  PROVE  OrderInv'
<1> SUFFICES ASSUME FlushThreads = 1 PROVE SortInv' /\ Ordered(InBuffers', InCalls', ToSet(file'))
  BY DEF OrderInv
<1>1. e.n = Count[w] + 1
  BY NewEntryNew DEF QueueEffect, KeepInv, NumberInv
<1>2. /\ \A x \in ToSet(file) : x.writer = w => x.n < e.n
      /\ \A x \in ToSet(buf[w]) : x.n < e.n
      /\ \A f \in Flushers : f[1] = w => \A x \in InCalls[f] : x.n < e.n
  BY <1>1, NewEntryLast
<1>3. PICK b \in Seq(Entries) : b = buf[w]
  BY DEF HTypes, StoreTypes
<1>4. buf'[w] = Append(b, e) /\ \A v \in Writers : v # w => buf'[v] = buf[v]
  BY <1>3 DEF QueueEffect, HTypes, StoreTypes
<1>5. SortInv'
  <2>1. Sorted(Append(b, e))
    BY <1>2, <1>3, Appended DEF OrderInv, SortInv
  <2> QED BY <1>4, <2>1 DEF OrderInv, SortInv, QueueEffect
<1>6. InBuffers'[w] = InBuffers[w] \cup {e} /\ Others(InBuffers, InBuffers', w, Writers)
  <2>1. ToSet(Append(b, e)) = ToSet(b) \cup {e}
    BY Appended
  <2> QED BY <1>3, <1>4, <2>1, Unfolded DEF Others
<1>7. InCalls' = InCalls /\ file' = file
  BY DEF QueueEffect, InCalls
<1>8. PICK B, C, H, F : B = InBuffers /\ C = InBuffers' /\ H = InCalls /\ F = ToSet(file)
  OBVIOUS
<1>9. Ordered(C, H, F)
  BY <1>2, <1>6, <1>8, OrderedQueue DEF OrderInv
<1> QED BY <1>5, <1>7, <1>8, <1>9

LEMMA FlushOrder ==
  ASSUME HTypes, OrderInv, NEW f \in Flushers, FlushEffect(f)
  PROVE  OrderInv'
<1> SUFFICES ASSUME FlushThreads = 1 PROVE SortInv' /\ Ordered(InBuffers', InCalls', ToSet(file'))
  BY DEF OrderInv
<1>1. PICK w \in Writers : w = f[1]
  BY FlusherIs
<1>2. buf'[w] = <<>> /\ \A v \in Writers : v # w => buf'[v] = buf[v]
  BY <1>1 DEF FlushEffect, HTypes, StoreTypes
<1>3. /\ HeldBy(flush'[f]) = ToSet(buf[w]) /\ flush'[f].batch = buf[w]
      /\ \A g \in Flushers : g # f => flush'[g] = flush[g]
      /\ file' = file
  BY <1>1 DEF FlushEffect, TakeEffect
<1>4. SortInv'
  BY <1>2, <1>3, EmptyOnce DEF OrderInv, SortInv
<1>5. InBuffers'[w] = {} /\ Others(InBuffers, InBuffers', w, Writers)
  BY <1>2, Unfolded, EmptyOnce DEF Others
<1>6. InCalls'[f] = InBuffers[w] /\ Others(InCalls, InCalls', f, Flushers)
  BY <1>3, Unfolded DEF Others
<1>7. PICK B, C, H, G, F : B = InBuffers /\ C = InBuffers' /\ H = InCalls /\ G = InCalls' /\ F = ToSet(file)
  OBVIOUS
<1>8. Ordered(C, G, F)
  BY <1>1, <1>5, <1>6, <1>7, OrderedFlush DEF OrderInv
<1> QED BY <1>3, <1>4, <1>7, <1>8

LEMMA AddOrder ==
  ASSUME HTypes, KeepInv, OrderInv, NEW f \in Flushers, NEW e \in Entries, AddEffect(f, e)
  PROVE  OrderInv'
<1> SUFFICES ASSUME FlushThreads = 1 PROVE SortInv' /\ Ordered(InBuffers', InCalls', ToSet(file'))
  BY DEF OrderInv
<1>1. PICK w \in Writers : w = f[1] /\ w \in Direct
  BY FlusherIs DEF AddEffect
<1>2. e.n = Count[w] + 1
  BY <1>1, NewEntryNew DEF AddEffect, KeepInv, NumberInv
<1>3. \A x \in ToSet(file) : x.writer = w => x.n < e.n
  BY <1>2, NewEntryLast
<1>4. PICK b \in Seq(Entries) : b = <<e>> /\ ToSet(b) = {e} /\ Sorted(b)
  <2>1. <<e>> \in Seq(Entries) /\ ToSet(<<e>>) = {e} /\ Sorted(<<e>>)
    BY DEF ToSet, Sorted
  <2> QED BY <2>1, Zenon
<1>5. /\ HeldBy(flush'[f]) = {e} /\ flush'[f].batch = b
      /\ \A g \in Flushers : g # f => flush'[g] = flush[g]
      /\ file' = file /\ buf' = buf
  BY <1>4 DEF AddEffect, TakeEffect
<1>6. SortInv'
  BY <1>4, <1>5 DEF OrderInv, SortInv
<1>7. InBuffers' = InBuffers /\ InBuffers[w] = {}
  <2>1. buf[w] = <<>>
    BY <1>1 DEF HTypes, StoreTypes
  <2> QED BY <1>5, <2>1, EmptyOnce DEF InBuffers
<1>8. InCalls'[f] = {e} /\ Others(InCalls, InCalls', f, Flushers)
  BY <1>5, Unfolded DEF Others
<1>9. PICK B, H, G, F : B = InBuffers /\ H = InCalls /\ G = InCalls' /\ F = ToSet(file)
  OBVIOUS
<1>10. Ordered(B, G, F)
  BY <1>1, <1>3, <1>7, <1>8, <1>9, OrderedAdd DEF OrderInv
<1> QED BY <1>5, <1>6, <1>7, <1>9, <1>10

LEMMA AppendOrder ==
  ASSUME HTypes, KeepInv, OrderInv,
         NEW f \in Flushers, NEW e \in Entries, NEW b \in Seq(Entries), AppendEffect(f, e, b)
  PROVE  OrderInv'
<1> SUFFICES ASSUME FlushThreads = 1 PROVE SortInv' /\ Ordered(InBuffers', InCalls', ToSet(file'))
  BY DEF OrderInv
<1>1. Sorted(b)
  BY DEF OrderInv, SortInv, AppendEffect
<1>2. /\ e \in HeldBy(flush[f]) /\ HeldBy(flush'[f]) \subseteq HeldBy(flush[f])
      /\ \A x \in HeldBy(flush'[f]) : e.n < x.n
      /\ flush'[f].batch = flush[f].batch
      /\ \A g \in Flushers : g # f => flush'[g] = flush[g]
  BY <1>1 DEF AppendEffect, Popped
<1>3. /\ e \in InCalls[f] /\ InCalls'[f] \subseteq InCalls[f] /\ Others(InCalls, InCalls', f, Flushers)
      /\ \A x \in InCalls'[f] : e.n < x.n
  BY <1>2, Unfolded DEF Others
<1>4. InBuffers' = InBuffers /\ buf' = buf
  BY DEF AppendEffect, InBuffers
<1>5. e.writer = f[1]
  BY <1>3 DEF KeepInv, PlaceInv, Placed
<1>6. \A g \in Flushers : g[1] = f[1] => g = f
  BY FlusherIs
<1>7. PICK B, H, G, F : B = InBuffers /\ H = InCalls /\ G = InCalls' /\ F = ToSet(file)
  OBVIOUS
<1>8. Ordered(B, H, F) /\ SortInv
  BY <1>7 DEF OrderInv
<1>9. \A g \in Flushers : Sorted(flush'[g].batch)
  BY <1>2, <1>8 DEF SortInv
<1>10. CASE file' = Append(file, e)
  <2>1. file \in Seq(Entries)
    BY DEF HTypes, StoreTypes
  <2>2. \A x \in ToSet(file) : x.writer = e.writer => x.n < e.n
    BY <1>3, <1>5, <1>7, <1>8 DEF Ordered
  <2>3. FileOrdered(Append(file, e))
    BY <1>8, <2>1, <2>2, FileExtended DEF SortInv
  <2>4. SortInv'
    BY <1>4, <1>8, <1>9, <1>10, <2>3 DEF SortInv
  <2>5. ToSet(file') = F \cup {e}
    BY <1>7, <1>10, <2>1, Appended
  <2>6. Ordered(B, G, F \cup {e})
    BY <1>3, <1>5, <1>6, <1>7, <1>8, OrderedAppend
  <2> QED BY <1>4, <1>7, <2>4, <2>5, <2>6
<1>11. CASE file' = file
  <2>1. SortInv'
    BY <1>4, <1>8, <1>9, <1>11 DEF SortInv
  <2>2. \A g \in Flushers : G[g] \subseteq H[g]
    BY <1>3, <1>7 DEF Others
  <2>3. Ordered(B, G, F)
    BY <1>8, <2>2, OrderedLess
  <2> QED BY <1>4, <1>7, <1>11, <2>1, <2>3
<1> QED BY <1>10, <1>11 DEF AppendEffect

LEMMA RequeueOrder ==
  ASSUME HTypes, KeepInv, OrderInv, NEW f \in Flushers, NEW r \in Seq(Entries), RequeueEffect(f, r)
  PROVE  OrderInv'
<1> SUFFICES ASSUME FlushThreads = 1 PROVE SortInv' /\ Ordered(InBuffers', InCalls', ToSet(file'))
  BY DEF OrderInv
<1>1. /\ InCalls'[f] = {} /\ Others(InCalls, InCalls', f, Flushers) /\ ToSet(r) = InCalls[f]
  BY Returned DEF RequeueEffect
<1>2. PICK w \in Writers : w = f[1]
  BY FlusherIs
<1>3. PICK b \in Seq(Entries) : b = buf[w]
  BY DEF HTypes, StoreTypes
<1>4. buf'[w] = r \o b /\ \A v \in Writers : v # w => buf'[v] = buf[v]
  BY <1>2, <1>3 DEF RequeueEffect, HTypes, StoreTypes
<1>5. InBuffers'[w] = InCalls[f] \cup InBuffers[w] /\ Others(InBuffers, InBuffers', w, Writers)
  <2>1. ToSet(r \o b) = ToSet(r) \cup ToSet(b)
    BY Joined
  <2> QED BY <1>1, <1>3, <1>4, <2>1, Unfolded, ZenonT(60) DEF Others
<1>6. PICK B, C, H, G, F : B = InBuffers /\ C = InBuffers' /\ H = InCalls /\ G = InCalls' /\ F = ToSet(file)
  OBVIOUS
<1>7. Ordered(B, H, F) /\ SortInv
  BY <1>6 DEF OrderInv
<1>8. \A g \in Flushers : g[1] = f[1] => g = f
  BY FlusherIs
<1>9. Ordered(C, G, F)
  BY <1>1, <1>2, <1>5, <1>6, <1>7, <1>8, OrderedRequeue
<1>10. SortInv'
  <2>1. Sorted(r) /\ Sorted(b)
    BY <1>3, <1>7 DEF SortInv, RequeueEffect, ReturnEffect
  <2>2. \A x \in ToSet(r), y \in ToSet(b) : x.n < y.n
    BY <1>1, <1>2, <1>3, <1>6, <1>7, Unfolded DEF Ordered
  <2>3. Sorted(r \o b)
    BY <2>1, <2>2, Joined
  <2>4. \A g \in Flushers : Sorted(flush'[g].batch)
    BY <1>7, IdleOK, EmptyOnce DEF SortInv, RequeueEffect, ReturnEffect
  <2> QED BY <1>4, <1>7, <2>3, <2>4 DEF SortInv, RequeueEffect, ReturnEffect
<1> QED BY <1>6, <1>9, <1>10 DEF RequeueEffect, ReturnEffect

LEMMA NextOrder == HTypes /\ KeepInv /\ OrderInv /\ Effect => OrderInv'
  BY QuietOrder, QueueOrder, HideOrder, DropOrder, CrashOrder, FlushOrder, AddOrder, AppendOrder,
     RequeueOrder, ReportOrder, Zenon DEF Effect

LEMMA Kept == Spec => [](HTypes /\ KeepInv /\ OrderInv)
<1>1. HTypes /\ KeepInv /\ OrderInv /\ [Next]_vars => (HTypes /\ KeepInv /\ OrderInv)'
  BY NextTypes, NextEffect, NextKeep, NextOrder
<1> QED BY <1>1, InitTypes, InitKeep, InitOrder, PTL DEF Spec

LEMMA Pairs ==
  ASSUME NEW a, NEW T
  PROVE  \A x : x \in {a} \X T <=> \E i \in T : x = <<a, i>>
  OBVIOUS

LEMMA AtOccurrence ==
  ASSUME NEW a, NEW s, NEW e
  PROVE  \A x : x \in {a} \X Occurrences(s, e) <=> \E i \in DOMAIN s : x = <<a, i>> /\ s[i] = e
<1>1. PICK T : T = Occurrences(s, e)
  OBVIOUS
<1>2. \A i : i \in T <=> i \in DOMAIN s /\ s[i] = e
  BY <1>1 DEF Occurrences
<1>3. \A x : x \in {a} \X T <=> \E i \in T : x = <<a, i>>
  BY Pairs
<1> QED BY <1>1, <1>2, <1>3, Zenon

LEMMA AtLaterOccurrence ==
  ASSUME NEW a, NEW s, NEW e, NEW k
  PROVE  \A x : x \in {a} \X {i \in Occurrences(s, e) : i > k}
                <=> \E i \in DOMAIN s : x = <<a, i>> /\ s[i] = e /\ i > k
<1>1. PICK T : T = {i \in Occurrences(s, e) : i > k}
  OBVIOUS
<1>2. \A i : i \in T <=> i \in DOMAIN s /\ s[i] = e /\ i > k
  BY <1>1, Zenon DEF Occurrences
<1>3. \A x : x \in {a} \X T <=> \E i \in T : x = <<a, i>>
  BY Pairs
<1> QED BY <1>1, <1>2, <1>3, Zenon

LEMMA AtItself ==
  ASSUME NEW a, NEW S, NEW e
  PROVE  \A x : x \in {a} \X ({e} \cap S) <=> x = <<a, e>> /\ e \in S
<1>1. PICK T : T = {e} \cap S
  OBVIOUS
<1>2. \A i : i \in T <=> i = e /\ e \in S
  BY <1>1, Zenon
<1>3. \A x : x \in {a} \X T <=> \E i \in T : x = <<a, i>>
  BY Pairs
<1> QED BY <1>1, <1>2, <1>3, Zenon

\* The places of an entry, one by one.
AtBuffer(e, x)  == \E i \in DOMAIN buf[e.writer] : x = <<"buffer", i>> /\ buf[e.writer][i] = e
AtFile(e, x)    == \E i \in DOMAIN file : x = <<"file", i>> /\ file[i] = e
AtCall(e, f, x) == \E i \in DOMAIN flush[f].batch :
                     x = <<f, i>> /\ flush[f].batch[i] = e /\ i > flush[f].written
AtTorn(e, x)    == x = <<"torn", e>> /\ e \in swallowed
AtDropped(e, x) == x = <<"dropped", e>> /\ e \in dropped

LEMMA CallPlacesAre ==
  ASSUME NEW e
  PROVE  \A x : x \in CallPlaces(e) <=> \E f \in Flushers : AtCall(e, f, x)
<1> DEFINE pH(f) == {f} \X {i \in Occurrences(flush[f].batch, e) : i > flush[f].written}
<1>1. \A f, x : x \in pH(f) <=> AtCall(e, f, x)
  BY AtLaterOccurrence DEF AtCall
<1>2. CallPlaces(e) = UNION {pH(f) : f \in Flushers}
  BY DEF CallPlaces
<1> HIDE DEF pH
<1>3. \A x : x \in CallPlaces(e) <=> \E f \in Flushers : x \in pH(f)
  BY <1>2
<1> QED BY <1>1, <1>3, Zenon

LEMMA PlacesAre ==
  ASSUME NEW e
  PROVE  \A x : x \in Places(e) <=> \/ AtBuffer(e, x) \/ AtFile(e, x) \/ AtTorn(e, x) \/ AtDropped(e, x)
                                   \/ \E f \in Flushers : AtCall(e, f, x)
<1> DEFINE pB == {"buffer"} \X Occurrences(buf[e.writer], e)
           pF == {"file"} \X Occurrences(file, e)
           pS == {"torn"} \X ({e} \cap swallowed)
           pD == {"dropped"} \X ({e} \cap dropped)
<1>1. Places(e) = pB \cup pF \cup CallPlaces(e) \cup pS \cup pD
  BY Zenon DEF Places
<1>2. \A x : x \in pB <=> AtBuffer(e, x)
  BY AtOccurrence DEF AtBuffer
<1>3. \A x : x \in pF <=> AtFile(e, x)
  BY AtOccurrence DEF AtFile
<1>4. \A x : x \in CallPlaces(e) <=> \E f \in Flushers : AtCall(e, f, x)
  BY CallPlacesAre
<1>5. \A x : x \in pS <=> AtTorn(e, x)
  BY AtItself DEF AtTorn
<1>6. \A x : x \in pD <=> AtDropped(e, x)
  BY AtItself DEF AtDropped
<1> HIDE DEF pB, pF, pS, pD
<1>7. \A x : x \in Places(e) <=> x \in pB \/ x \in pF \/ x \in CallPlaces(e) \/ x \in pS \/ x \in pD
  BY <1>1
<1> QED BY <1>2, <1>3, <1>4, <1>5, <1>6, <1>7, Zenon

\* Two occurrences are at the same place.
LEMMA OnePlace ==
  ASSUME HTypes, KeepInv, NEW e \in added, NEW p \in Places(e), NEW q \in Places(e)
  PROVE  p = q
<1>1. PICK w \in Writers : w = e.writer
  BY DEF HTypes, SetTypes, Entries
<1>2. buf[w] \in Seq(Entries) /\ file \in Seq(Entries) /\ \A f \in Flushers : flush[f] \in Calls
  BY DEF HTypes, StoreTypes, CallTypes
<1> DEFINE inB(x) == AtBuffer(e, x)
           inF(x) == AtFile(e, x)
           inH(x) == \E f \in Flushers : AtCall(e, f, x)
           inS(x) == AtTorn(e, x)
           inD(x) == AtDropped(e, x)
<1>3. \A x \in Places(e) : inB(x) \/ inF(x) \/ inH(x) \/ inS(x) \/ inD(x)
  BY PlacesAre
<1>4. ASSUME NEW x, inB(x) PROVE e \in InBuffers[w]
  BY <1>1, <1>2, <1>4, Unfolded DEF ToSet, AtBuffer
<1>5. ASSUME NEW x, inF(x) PROVE e \in ToSet(file)
  BY <1>2, <1>5 DEF ToSet, AtFile
<1>6. ASSUME NEW f \in Flushers, NEW i \in DOMAIN flush[f].batch, flush[f].batch[i] = e, i > flush[f].written
      PROVE  e \in InCalls[f]
  <2>1. PICK c \in Calls : c = flush[f]
    BY <1>2
  <2>2. i \in c.written + 1 .. Len(c.batch)
    BY <1>6, <2>1 DEF Calls
  <2> QED BY <1>6, <2>1, <2>2, Unfolded DEF HeldBy
<1>7. /\ \A i, j \in DOMAIN buf[w] : buf[w][i] = buf[w][j] => i = j
      /\ \A i, j \in DOMAIN file : file[i] = file[j] => i = j
  BY <1>2 DEF KeepInv, OnceInv, Once
<1>8. \A f \in Flushers : \A i, j \in DOMAIN flush[f].batch : flush[f].batch[i] = flush[f].batch[j] => i = j
  BY <1>2, SMTT(60) DEF KeepInv, OnceInv, Once, Calls
<1>9. /\ e \in InBuffers[w] => e \notin ToSet(file) \cup swallowed \cup dropped /\ \A f \in Flushers : e \notin InCalls[f]
      /\ \A f \in Flushers : e \in InCalls[f] => e \notin ToSet(file) \cup swallowed \cup dropped
      /\ \A f, g \in Flushers : e \in InCalls[f] /\ e \in InCalls[g] => f = g
      /\ e \in ToSet(file) => e \notin swallowed \cup dropped
      /\ e \notin swallowed \/ e \notin dropped
  BY <1>1 DEF KeepInv, PlaceInv, Placed, Apart
<1>10. ASSUME NEW x, inH(x) PROVE \E f \in Flushers : e \in InCalls[f]
  BY <1>6, <1>10 DEF AtCall
<1>11. ASSUME NEW x, NEW y, inB(x), inB(y) PROVE x = y
  BY <1>1, <1>7, <1>11 DEF AtBuffer
<1>12. ASSUME NEW x, NEW y, inF(x), inF(y) PROVE x = y
  BY <1>7, <1>12 DEF AtFile
<1>13. ASSUME NEW x, NEW y, inH(x), inH(y) PROVE x = y
  <2>1. PICK f \in Flushers : AtCall(e, f, x)
    BY <1>13
  <2>2. PICK i \in DOMAIN flush[f].batch : x = <<f, i>> /\ flush[f].batch[i] = e /\ i > flush[f].written
    BY <2>1 DEF AtCall
  <2>3. PICK g \in Flushers : AtCall(e, g, y)
    BY <1>13
  <2>4. PICK j \in DOMAIN flush[g].batch : y = <<g, j>> /\ flush[g].batch[j] = e /\ j > flush[g].written
    BY <2>3 DEF AtCall
  <2>5. f = g
    BY <1>6, <1>9, <2>2, <2>4
  <2>6. i = j
    BY <1>8, <2>2, <2>4, <2>5
  <2> QED BY <2>2, <2>4, <2>5, <2>6
<1>14. ASSUME NEW x, NEW y, inS(x), inS(y) PROVE x = y
  BY <1>14 DEF AtTorn
<1>15. ASSUME NEW x, NEW y, inD(x), inD(y) PROVE x = y
  BY <1>15 DEF AtDropped
<1>16. (inS(p) => e \in swallowed) /\ (inD(p) => e \in dropped) /\ (inS(q) => e \in swallowed) /\ (inD(q) => e \in dropped)
  BY DEF AtTorn, AtDropped
<1> HIDE DEF inB, inF, inH, inS, inD
<1> QED BY <1>3, <1>4, <1>5, <1>9, <1>10, <1>11, <1>12, <1>13, <1>14, <1>15, <1>16

\* An entry of a running writer is somewhere.
LEMMA SomePlace ==
  ASSUME HTypes, KeepInv, NEW e \in added, alive[e.writer]
  PROVE  Places(e) # {}
<1>1. PICK w \in Writers : w = e.writer
  BY DEF HTypes, SetTypes, Entries
<1>2. buf[w] \in Seq(Entries) /\ file \in Seq(Entries) /\ \A f \in Flushers : flush[f] \in Calls
  BY DEF HTypes, StoreTypes, CallTypes
<1>3. CASE e \in InBuffers[w]
  <2>1. PICK i \in DOMAIN buf[w] : buf[w][i] = e
    BY <1>3, Unfolded DEF ToSet
  <2>2. AtBuffer(e, <<"buffer", i>>)
    BY <1>1, <2>1 DEF AtBuffer
  <2> QED BY <2>2, PlacesAre
<1>4. CASE e \in ToSet(file)
  <2>1. PICK i \in DOMAIN file : file[i] = e
    BY <1>4 DEF ToSet
  <2>2. AtFile(e, <<"file", i>>)
    BY <2>1 DEF AtFile
  <2> QED BY <2>2, PlacesAre
<1>5. CASE e \in swallowed \/ e \in dropped
  <2>1. AtTorn(e, <<"torn", e>>) \/ AtDropped(e, <<"dropped", e>>)
    BY <1>5 DEF AtTorn, AtDropped
  <2> QED BY <2>1, PlacesAre
<1>6. ASSUME NEW f \in Flushers, e \in InCalls[f] PROVE Places(e) # {}
  <2>1. PICK c \in Calls : c = flush[f]
    BY <1>2
  <2>2. PICK i \in c.written + 1 .. Len(c.batch) : c.batch[i] = e
    BY <1>6, <2>1, Unfolded DEF HeldBy
  <2>3. i \in DOMAIN c.batch /\ i > c.written
    BY <2>2 DEF Calls
  <2>4. AtCall(e, f, <<f, i>>)
    BY <2>1, <2>2, <2>3 DEF AtCall
  <2> QED BY <2>4, PlacesAre
<1> QED BY <1>1, <1>3, <1>4, <1>5, <1>6 DEF KeepInv, PlaceInv, Placed

\* What was entered is kept: in one place, and in order.
THEOREM EntriesAreKept == Spec => []EntriesKept
<1>1. ASSUME HTypes, KeepInv PROVE ExactlyOnce
  <2>1. ASSUME NEW e \in added PROVE Cardinality(Places(e)) <= 1
    <3>1. CASE Places(e) = {}
      BY <3>1, FS_EmptySet
    <3>2. CASE Places(e) # {}
      <4>1. PICK p : p \in Places(e)
        BY <3>2
      <4>2. Places(e) = {p}
        BY <1>1, <4>1, OnePlace
      <4>3. Cardinality({p}) = 1
        BY FS_Singleton, Zenon
      <4> QED BY <4>2, <4>3
    <3> QED BY <3>1, <3>2
  <2> QED BY <1>1, <2>1, SomePlace DEF ExactlyOnce
<1>2. ASSUME HTypes, OrderInv PROVE FileKeepsOrder
  <2>1. DOMAIN file = 1 .. Len(file)
    BY <1>2 DEF HTypes, StoreTypes
  <2> QED BY <1>2, <2>1 DEF FileKeepsOrder, OrderInv, SortInv, FileOrdered
<1>3. HTypes /\ KeepInv /\ OrderInv => EntriesKept
  BY <1>1, <1>2 DEF EntriesKept
<1> QED BY <1>3, Kept, PTL

-----------------------------------------------------------------------------
(* The third invariant: what was taken back and is not in the buffer is    *)
(* hidden, and what is hidden was taken back.                              *)

RemovedInv ==
  /\ \A e \in removed : e \in added /\ e.writer \notin Direct
  /\ \A w \in Writers : \A e \in last[w] : e \in added /\ e.writer = w
  /\ \A e \in removed : alive[e.writer] /\ e \notin dropped => e.ts \in skipped[e.writer]
  /\ \A e \in removed : e \in InBuffers[e.writer] => e \in revived

HiddenInv ==
  \A w \in Writers : \A t \in skipped[w] \cup load[w].skip : \E r \in removed : r.writer = w /\ r.ts = t

LinesInv == \A w \in Writers : load[w].lines <= Len(file)

ListInv == RemovedInv /\ HiddenInv /\ LinesInv

LEMMA InitList == Init => ListInv
<1> SUFFICES ASSUME Init PROVE ListInv
  OBVIOUS
<1>1. \A w \in Writers : last[w] = {} /\ skipped[w] = {} /\ load[w].skip = {} /\ load[w].lines = 0
  BY DEF Init, NoLoad
<1>2. removed = {} /\ Len(file) = 0
  BY DEF Init
<1> QED BY <1>1, <1>2 DEF ListInv, RemovedInv, HiddenInv, LinesInv

\* What an unchanged file and listing keep.
LEMMA LinesKept ==
  ASSUME LinesInv, UNCHANGED <<file, load>>
  PROVE  LinesInv'
  BY DEF LinesInv

LEMMA HiddenKept ==
  ASSUME HiddenInv, UNCHANGED <<skipped, load>>, removed \subseteq removed'
  PROVE  HiddenInv'
  BY DEF HiddenInv

\* Steps that only take entries out of the buffers, or accept one more.
LEMMA RemovedKept ==
  ASSUME HTypes, RemovedInv, UNCHANGED <<last, skipped, alive, removed, dropped, revived>>,
         added \subseteq added',
         \A w \in Writers : \A e \in InBuffers'[w] : e \in InBuffers[w] \/ e \notin added
  PROVE  RemovedInv'
<1>1. \A e \in removed : e.writer \in Writers
  BY DEF HTypes, SetTypes, Entries
<1> QED BY <1>1 DEF RemovedInv

LEMMA QuietList ==
  ASSUME HTypes, ListInv, Quiet,
         \/ load' = load
         \/ \E w \in Writers :
              load' = [load EXCEPT ![w] = [on |-> TRUE, pending |-> buf[w], skip |-> skipped[w], lines |-> Len(file)]]
  PROVE  ListInv'
<1>1. RemovedInv'
  <2>1. InBuffers' = InBuffers
    BY DEF Quiet, InBuffers
  <2> QED BY <2>1, RemovedKept DEF Quiet, ListInv
<1>2. ASSUME NEW v \in Writers PROVE /\ load'[v].skip = load[v].skip \/ load'[v].skip = skipped[v]
                                     /\ load'[v].lines = load[v].lines \/ load'[v].lines = Len(file)
  <2>1. CASE load' = load
    BY <2>1
  <2>2. ASSUME NEW w \in Writers,
               load' = [load EXCEPT ![w] = [on |-> TRUE, pending |-> buf[w], skip |-> skipped[w], lines |-> Len(file)]]
        PROVE  /\ load'[v].skip = load[v].skip \/ load'[v].skip = skipped[v]
               /\ load'[v].lines = load[v].lines \/ load'[v].lines = Len(file)
    <3>1. PICK l : l = [on |-> TRUE, pending |-> buf[w], skip |-> skipped[w], lines |-> Len(file)]
      OBVIOUS
    <3>2. l.skip = skipped[w] /\ l.lines = Len(file)
      BY <3>1
    <3>3. load'[v] = IF v = w THEN l ELSE load[v]
      BY <2>2, <3>1 DEF HTypes, StoreTypes
    <3> QED BY <3>2, <3>3
  <2> QED BY <2>1, <2>2
<1>3. HiddenInv'
  BY <1>2 DEF ListInv, HiddenInv, Quiet
<1>4. LinesInv'
  <2>1. Len(file) <= Len(file)
    BY DEF HTypes, StoreTypes
  <2> QED BY <1>2, <2>1 DEF ListInv, LinesInv, Quiet
<1> QED BY <1>1, <1>3, <1>4 DEF ListInv

LEMMA QueueList ==
  ASSUME HTypes, KeepInv, ListInv, NEW w \in Writers, NEW e \in Entries, QueueEffect(w, e)
  PROVE  ListInv'
<1>1. e \notin added /\ e.writer = w
  BY NewEntryNew DEF QueueEffect, KeepInv, NumberInv
<1>2. buf[w] \in Seq(Entries) /\ buf'[w] = Append(buf[w], e) /\ \A v \in Writers : v # w => buf'[v] = buf[v]
  BY DEF QueueEffect, HTypes, StoreTypes
<1>3. \A v \in Writers : InBuffers'[v] = InBuffers[v] \/ InBuffers'[v] = InBuffers[v] \cup {e}
  <2>1. ToSet(Append(buf[w], e)) = ToSet(buf[w]) \cup {e}
    BY <1>2, Appended
  <2> QED BY <1>2, <2>1, Unfolded
<1>4. \A v \in Writers : last'[v] = last[v] \/ (v = w /\ last'[v] = {e})
  BY DEF QueueEffect, HTypes, StoreTypes
<1>5. \A r \in removed : r.writer \in Writers
  BY DEF HTypes, SetTypes, Entries
<1>6. RemovedInv'
  BY <1>1, <1>3, <1>4, <1>5 DEF ListInv, RemovedInv, QueueEffect
<1> QED BY <1>6, LinesKept, HiddenKept DEF ListInv, QueueEffect

LEMMA DropList ==
  ASSUME HTypes, KeepInv, ListInv, NEW w \in Writers, NEW e \in Entries, NEW s \in Seq(Entries), DropEffect(w, e, s)
  PROVE  ListInv'
<1>1. Once(buf[w]) /\ e \in InBuffers[w]
  BY Unfolded DEF KeepInv, OnceInv, DropEffect
<1>2. e \in added /\ e.writer = w
  BY <1>1 DEF KeepInv, PlaceInv, Placed
<1>3. buf'[w] = s /\ \A v \in Writers : v # w => buf'[v] = buf[v]
  BY DEF DropEffect, HTypes, StoreTypes
<1>4. InBuffers'[w] = InBuffers[w] \ {e} /\ \A v \in Writers : InBuffers'[v] \subseteq InBuffers[v]
  BY <1>1, <1>3, Unfolded DEF DropEffect
<1>5. \A r \in removed : r.writer \in Writers
  BY DEF HTypes, SetTypes, Entries
<1>6. RemovedInv'
  <2>1. \A r \in removed' : r \in added' /\ r.writer \notin Direct
    BY <1>2 DEF ListInv, RemovedInv, DropEffect
  <2>2. \A v \in Writers : \A x \in last'[v] : x \in added' /\ x.writer = v
    BY DEF ListInv, RemovedInv, DropEffect
  <2>3. \A r \in removed' : alive'[r.writer] /\ r \notin dropped' => r.ts \in skipped'[r.writer]
    BY DEF ListInv, RemovedInv, DropEffect
  <2>4. \A r \in removed' : r \in InBuffers'[r.writer] => r \in revived'
    BY <1>2, <1>4, <1>5 DEF ListInv, RemovedInv, DropEffect
  <2> QED BY <2>1, <2>2, <2>3, <2>4 DEF RemovedInv
<1>7. removed \subseteq removed'
  BY DEF DropEffect
<1> QED BY <1>6, <1>7, LinesKept, HiddenKept DEF ListInv, DropEffect

LEMMA HideList ==
  ASSUME HTypes, ListInv, NEW w \in Writers, NEW e \in Entries, HideEffect(w, e)
  PROVE  ListInv'
<1>1. e \in added /\ e.writer = w /\ w \notin Direct /\ e \notin InBuffers[w]
  BY Unfolded DEF ListInv, RemovedInv, HideEffect, HTypes, StoreTypes
<1>2. InBuffers' = InBuffers
  BY DEF HideEffect, InBuffers
<1>3. skipped'[w] = skipped[w] \cup {e.ts} /\ \A v \in Writers : v # w => skipped'[v] = skipped[v]
  BY DEF HideEffect, HTypes, StoreTypes
<1>4. \A v \in Writers : last'[v] \subseteq last[v]
  BY DEF HideEffect, HTypes, StoreTypes
<1>5. \A r \in removed : r.writer \in Writers
  BY DEF HTypes, SetTypes, Entries
<1>6. RemovedInv'
  <2>1. \A r \in removed' : r \in added' /\ r.writer \notin Direct
    BY <1>1 DEF ListInv, RemovedInv, HideEffect
  <2>2. \A v \in Writers : \A x \in last'[v] : x \in added' /\ x.writer = v
    BY <1>4 DEF ListInv, RemovedInv, HideEffect
  <2>3. \A r \in removed' : alive'[r.writer] /\ r \notin dropped' => r.ts \in skipped'[r.writer]
    BY <1>1, <1>3, <1>5 DEF ListInv, RemovedInv, HideEffect
  <2>4. \A r \in removed' : r \in InBuffers'[r.writer] => r \in revived'
    BY <1>1, <1>2 DEF ListInv, RemovedInv, HideEffect
  <2> QED BY <2>1, <2>2, <2>3, <2>4 DEF RemovedInv
<1>7. HiddenInv'
  <2>1. ASSUME NEW v \in Writers, NEW t \in skipped'[v] \cup load'[v].skip
        PROVE  \E r \in removed' : r.writer = v /\ r.ts = t
    <3>1. t \in skipped[v] \cup load[v].skip \/ (v = w /\ t = e.ts)
      BY <1>3 DEF HideEffect
    <3>2. removed' = removed \cup {e}
      BY DEF HideEffect
    <3> QED BY <1>1, <3>1, <3>2 DEF ListInv, HiddenInv
  <2> QED BY <2>1 DEF HiddenInv
<1> QED BY <1>6, <1>7, LinesKept DEF ListInv, HideEffect

LEMMA CrashList ==
  ASSUME HTypes, ListInv, NEW w \in Writers, CrashEffect(w)
  PROVE  ListInv'
<1>1. /\ ~alive'[w] /\ InBuffers'[w] = {} /\ last'[w] = {} /\ skipped'[w] = {} /\ load'[w] = NoLoad
      /\ \A v \in Writers : v # w => /\ alive'[v] = alive[v] /\ InBuffers'[v] = InBuffers[v] /\ last'[v] = last[v]
                                     /\ skipped'[v] = skipped[v] /\ load'[v] = load[v]
  <2>1. buf'[w] = <<>> /\ \A v \in Writers : v # w => buf'[v] = buf[v]
    BY DEF CrashEffect, HTypes, StoreTypes
  <2>2. InBuffers'[w] = {} /\ \A v \in Writers : v # w => InBuffers'[v] = InBuffers[v]
    BY <2>1, Unfolded, EmptyOnce
  <2> QED BY <2>2 DEF CrashEffect, HTypes, StoreTypes
<1>2. \A r \in removed : r.writer \in Writers
  BY DEF HTypes, SetTypes, Entries
<1>3. RemovedInv'
  BY <1>1, <1>2 DEF ListInv, RemovedInv, CrashEffect
<1>4. HiddenInv'
  <2>1. NoLoad.skip = {}
    BY DEF NoLoad
  <2> QED BY <1>1, <2>1 DEF ListInv, HiddenInv, CrashEffect
<1>5. LinesInv'
  <2>1. NoLoad.lines <= Len(file)
    BY DEF NoLoad, HTypes, StoreTypes
  <2> QED BY <1>1, <2>1 DEF ListInv, LinesInv, CrashEffect
<1> QED BY <1>3, <1>4, <1>5 DEF ListInv

LEMMA FlushList ==
  ASSUME HTypes, ListInv, NEW f \in Flushers, FlushEffect(f)
  PROVE  ListInv'
<1>1. \A v \in Writers : buf'[v] = buf[v] \/ buf'[v] = <<>>
  BY FlusherIs DEF FlushEffect, HTypes, StoreTypes
<1>2. \A v \in Writers : InBuffers'[v] \subseteq InBuffers[v]
  BY <1>1, Unfolded, EmptyOnce
<1>3. RemovedInv'
  BY <1>2, RemovedKept DEF ListInv, FlushEffect, TakeEffect
<1> QED BY <1>3, LinesKept, HiddenKept DEF ListInv, FlushEffect, TakeEffect

LEMMA AddList ==
  ASSUME HTypes, ListInv, NEW f \in Flushers, NEW e \in Entries, AddEffect(f, e)
  PROVE  ListInv'
<1>1. InBuffers' = InBuffers
  BY DEF AddEffect, InBuffers
<1>2. RemovedInv'
  BY <1>1, RemovedKept DEF ListInv, AddEffect, TakeEffect
<1> QED BY <1>2, LinesKept, HiddenKept DEF ListInv, AddEffect, TakeEffect

LEMMA AppendList ==
  ASSUME HTypes, ListInv, NEW f \in Flushers, NEW e \in Entries, NEW b \in Seq(Entries), AppendEffect(f, e, b)
  PROVE  ListInv'
<1>1. InBuffers' = InBuffers
  BY DEF AppendEffect, InBuffers
<1>2. RemovedInv'
  BY <1>1, RemovedKept DEF ListInv, AppendEffect
<1>3. LinesInv'
  <2>1. file \in Seq(Entries) /\ \A w \in Writers : load[w].lines \in Nat
    BY DEF HTypes, StoreTypes, Loads
  <2>2. Len(file') = Len(file) \/ Len(file') = Len(file) + 1
    BY <2>1 DEF AppendEffect
  <2>3. load' = load
    BY DEF AppendEffect
  <2> QED BY <2>1, <2>2, <2>3 DEF ListInv, LinesInv
<1> QED BY <1>2, <1>3, HiddenKept DEF ListInv, AppendEffect

LEMMA RequeueList ==
  ASSUME HTypes, ListInv, NEW f \in Flushers, NEW r \in Seq(Entries), RequeueEffect(f, r)
  PROVE  ListInv'
<1>1. PICK w \in Writers : w = f[1]
  BY FlusherIs
<1>2. PICK b \in Seq(Entries) : b = buf[w]
  BY DEF HTypes, StoreTypes
<1>3. buf'[w] = r \o b /\ \A v \in Writers : v # w => buf'[v] = buf[v]
  BY <1>1, <1>2 DEF RequeueEffect, HTypes, StoreTypes
<1>4. \A v \in Writers : InBuffers'[v] \subseteq InBuffers[v] \cup ToSet(r)
  <2>1. ToSet(r \o b) = ToSet(r) \cup ToSet(b)
    BY Joined
  <2> QED BY <1>2, <1>3, <2>1, Unfolded, ZenonT(60)
<1>5. \A e \in removed : e.writer \in Writers
  BY DEF HTypes, SetTypes, Entries
<1>6. RemovedInv'
  <2>1. \A e \in removed' : e \in InBuffers'[e.writer] => e \in revived'
    BY <1>4, <1>5 DEF ListInv, RemovedInv, RequeueEffect, ReturnEffect
  <2> QED BY <2>1 DEF ListInv, RemovedInv, RequeueEffect, ReturnEffect
<1> QED BY <1>6, LinesKept, HiddenKept DEF ListInv, RequeueEffect, ReturnEffect

LEMMA ReportList ==
  ASSUME HTypes, KeepInv, ListInv, NEW f \in Flushers, NEW r \in Seq(Entries), ReportEffect(f, r)
  PROVE  ListInv'
<1>1. InBuffers' = InBuffers
  BY DEF ReportEffect, InBuffers
<1>2. \A x \in ToSet(r) : x.writer \in Direct
  BY Unfolded DEF ReportEffect, ReturnEffect, KeepInv, PlaceInv, Placed
<1>3. \A w \in Writers : \A x \in last[w] : w \notin Direct
  BY DEF HTypes, StoreTypes
<1>4. RemovedInv'
  <2>1. \A e \in removed' : e \in added' /\ e.writer \notin Direct
    BY <1>2 DEF ListInv, RemovedInv, ReportEffect, ReturnEffect
  <2>2. \A w \in Writers : \A x \in last'[w] : x \in added' /\ x.writer = w
    BY <1>2, <1>3 DEF ListInv, RemovedInv, ReportEffect, ReturnEffect
  <2> QED BY <1>1, <2>1, <2>2 DEF ListInv, RemovedInv, ReportEffect, ReturnEffect
<1> QED BY <1>4, LinesKept, HiddenKept DEF ListInv, ReportEffect, ReturnEffect

LEMMA NextList == HTypes /\ KeepInv /\ ListInv /\ Effect => ListInv'
  BY QuietList, QueueList, HideList, DropList, CrashList, FlushList, AddList, AppendList,
     RequeueList, ReportList, Zenon DEF Effect

LEMMA Listed == Spec => [](HTypes /\ KeepInv /\ ListInv)
<1>1. HTypes /\ KeepInv /\ ListInv /\ [Next]_vars => (HTypes /\ KeepInv /\ ListInv)'
  BY NextTypes, NextEffect, NextKeep, NextList
<1> QED BY <1>1, InitTypes, InitKeep, InitList, PTL DEF Spec

-----------------------------------------------------------------------------
(* What is listed.  Induction is by the least counterexample. *)

LEMMA Least ==
  ASSUME NEW S \in SUBSET Nat, S # {}
  PROVE  \E x \in S : \A y \in S : x <= y
<1> DEFINE R == OpToRel(<, Nat)
<1>1. PICK x \in S : \A y \in S : ~(<<y, x>> \in R)
  <2> HIDE DEF R
  <2>1. IsWellFoundedOn(R, Nat)
    BY NatLessThanWellFounded DEF R
  <2> QED BY <2>1, WFMin
<1>2. \A y \in S : ~(y < x)
  BY <1>1 DEF OpToRel
<1>3. \A y \in S : x <= y
  BY <1>2
<1> QED BY <1>3

\* A set of numbers that holds 0 and the successor of each of its members below m holds all up to m.
LEMMA UpTo ==
  ASSUME NEW m \in Nat, NEW P, 0 \in P, \A i \in 1 .. m : i - 1 \in P => i \in P
  PROVE  \A i \in 0 .. m : i \in P
<1> DEFINE Bad == {i \in 0 .. m : i \notin P}
<1> SUFFICES ASSUME Bad # {} PROVE FALSE
  OBVIOUS
<1>1. Bad \in SUBSET Nat
  OBVIOUS
<1>2. PICK i \in Bad : \A y \in Bad : i <= y
  <2> HIDE DEF Bad
  <2> QED BY <1>1, Least
<1>3. i \in 1 .. m /\ i - 1 \in 0 .. m
  BY <1>2
<1>4. i - 1 \in P
  BY <1>2, <1>3
<1> QED BY <1>2, <1>3, <1>4

\* k[i] are the members of set among the first i of s.
Sieves(k, s, set) ==
  /\ k[0] = <<>>
  /\ \A i \in 1 .. Len(s) : k[i] = IF s[i] \in set THEN Append(k[i - 1], s[i]) ELSE k[i - 1]

LEMMA OnlySteps ==
  ASSUME NEW s, Len(s) \in Nat, NEW set
  PROVE  \E k : Sieves(k, s, set) /\ Only(s, set) = k[Len(s)]
<1> DEFINE Good(f, n) ==
      f = [i \in 0 .. n |-> IF i = 0 THEN <<>> ELSE IF s[i] \in set THEN Append(f[i - 1], s[i]) ELSE f[i - 1]]
<1> DEFINE P == {n \in Nat : \E f : Good(f, n)}
<1>1. 0 \in P
  <2>1. Good([i \in 0 .. 0 |-> <<>>], 0)
    OBVIOUS
  <2> QED BY <2>1
<1>2. ASSUME NEW n \in 1 .. Len(s), n - 1 \in P PROVE n \in P
  <2>1. PICK f : Good(f, n - 1)
    BY <1>2
  <2> DEFINE g == [i \in 0 .. n |-> IF i = n THEN IF s[n] \in set THEN Append(f[n - 1], s[n]) ELSE f[n - 1] ELSE f[i]]
  <2>2. \A i \in 0 .. n - 1 : f[i] = IF i = 0 THEN <<>> ELSE IF s[i] \in set THEN Append(f[i - 1], s[i]) ELSE f[i - 1]
    BY <2>1
  <2>3. n \in Nat /\ n # 0 /\ n - 1 \in 0 .. n
    BY <1>2
  <2>4. \A i \in 0 .. n - 1 : i \in 0 .. n /\ i # n /\ g[i] = f[i]
    BY <2>3
  <2>5. ASSUME NEW i \in 0 .. n
        PROVE  g[i] = IF i = 0 THEN <<>> ELSE IF s[i] \in set THEN Append(g[i - 1], s[i]) ELSE g[i - 1]
    <3>1. i # 0 => i - 1 \in 0 .. n - 1
      BY <2>3
    <3>2. i # 0 => g[i - 1] = f[i - 1]
      BY <2>4, <3>1
    <3>3. CASE i = n
      BY <2>3, <3>2, <3>3
    <3>4. CASE i # n
      <4>1. i \in 0 .. n - 1
        BY <2>3, <3>4
      <4> QED BY <2>2, <2>4, <3>2, <4>1
    <3> QED BY <3>3, <3>4
  <2>6. Good(g, n)
    BY <2>5
  <2> QED BY <2>3, <2>6
<1>3. \A n \in 0 .. Len(s) : n \in P
  <2> HIDE DEF P
  <2> QED BY <1>1, <1>2, UpTo
<1>4. PICK f : Good(f, Len(s))
  <2>1. Len(s) \in P
    BY <1>3
  <2> QED BY <2>1
<1> HIDE DEF P
<1>5. PICK k : k = CHOOSE f1 : Good(f1, Len(s))
  OBVIOUS
<1>6. Only(s, set) = k[Len(s)]
  BY <1>5 DEF Only
<1>7. Good(k, Len(s))
  <2> HIDE DEF Good
  <2> QED BY <1>4, <1>5, Zenon
<1>8. \A i \in 0 .. Len(s) : k[i] = IF i = 0 THEN <<>> ELSE IF s[i] \in set THEN Append(k[i - 1], s[i]) ELSE k[i - 1]
  BY <1>7
<1>9. Sieves(k, s, set)
  <2>1. 0 \in 0 .. Len(s) /\ \A i \in 1 .. Len(s) : i \in 0 .. Len(s) /\ i # 0
    OBVIOUS
  <2> QED BY <1>8, <2>1, Zenon DEF Sieves
<1> QED BY <1>6, <1>9

LEMMA OnlyIs ==
  ASSUME NEW M, NEW s \in Seq(M), NEW set
  PROVE  Only(s, set) \in Seq(M) /\ ToSet(Only(s, set)) = ToSet(s) \cap set
<1>1. PICK m \in Nat : m = Len(s)
  OBVIOUS
<1>2. PICK k : Sieves(k, s, set) /\ Only(s, set) = k[m]
  BY <1>1, OnlySteps
<1> DEFINE Has(i) == \A x : x \in ToSet(k[i]) <=> x \in set /\ \E j \in 1 .. i : s[j] = x
<1> DEFINE P == {i \in 0 .. m : k[i] \in Seq(M) /\ Has(i)}
<1>3. 0 \in P
  <2>1. k[0] = <<>> /\ ToSet(<<>>) = {}
    BY <1>2, EmptyOnce DEF Sieves
  <2>2. k[0] \in Seq(M) /\ 0 \in 0 .. m
    BY <2>1
  <2>3. Has(0)
    BY <2>1
  <2> QED BY <2>2, <2>3
<1>4. ASSUME NEW i \in 1 .. m, i - 1 \in P PROVE i \in P
  <2>1. PICK t \in Seq(M) : t = k[i - 1]
    BY <1>4
  <2>2. \A x : x \in ToSet(t) <=> x \in set /\ \E j \in 1 .. i - 1 : s[j] = x
    BY <1>4, <2>1
  <2>3. k[i] = IF s[i] \in set THEN Append(t, s[i]) ELSE t
    BY <1>1, <1>2, <2>1, Zenon DEF Sieves
  <2>4. s[i] \in M
    BY <1>1
  <2>5. Append(t, s[i]) \in Seq(M) /\ ToSet(Append(t, s[i])) = ToSet(t) \cup {s[i]}
    BY <2>4, Appended
  <2>6. \A j : j \in 1 .. i <=> j \in 1 .. i - 1 \/ j = i
    OBVIOUS
  <2>7. Has(i)
    BY <2>2, <2>3, <2>5, <2>6, Zenon
  <2>8. k[i] \in Seq(M) /\ i \in 0 .. m
    BY <2>3, <2>5
  <2> QED BY <2>7, <2>8
<1>5. m \in P
  <2>1. m \in 0 .. m
    OBVIOUS
  <2> HIDE DEF P
  <2> QED BY <1>3, <1>4, <2>1, UpTo
<1>6. k[m] \in Seq(M) /\ Has(m)
  BY <1>5
<1>7. \A x : x \in ToSet(s) <=> \E j \in 1 .. m : s[j] = x
  BY <1>1, Members
<1> QED BY <1>2, <1>6, <1>7

LEMMA OnlySplit ==
  ASSUME NEW M, NEW s \in Seq(M), NEW X
  PROVE  Len(Only(s, X)) + Len(Only(s, ToSet(s) \ X)) = Len(s)
<1>1. PICK m \in Nat : m = Len(s)
  OBVIOUS
<1>2. PICK Y : Y = ToSet(s) \ X
  OBVIOUS
<1>3. PICK k : Sieves(k, s, X) /\ Only(s, X) = k[m]
  BY <1>1, OnlySteps
<1>4. PICK l : Sieves(l, s, Y) /\ Only(s, Y) = l[m]
  BY <1>1, OnlySteps
<1> DEFINE Even(i) == k[i] \in Seq(M) /\ l[i] \in Seq(M) /\ Len(k[i]) + Len(l[i]) = i
<1> DEFINE P == {i \in 0 .. m : Even(i)}
<1>5. 0 \in P
  <2>1. k[0] = <<>> /\ l[0] = <<>>
    BY <1>3, <1>4 DEF Sieves
  <2>2. <<>> \in Seq(M) /\ Len(<<>>) + Len(<<>>) = 0 /\ 0 \in 0 .. m
    OBVIOUS
  <2>3. Even(0)
    <3>1. Len(k[0]) = 0 /\ Len(l[0]) = 0 /\ k[0] \in Seq(M) /\ l[0] \in Seq(M)
      BY <2>1, <2>2
    <3> QED BY <3>1
  <2> HIDE DEF Even
  <2> QED BY <2>2, <2>3
<1>6. ASSUME NEW i \in 1 .. m, i - 1 \in P PROVE i \in P
  <2>1. PICK t \in Seq(M), u \in Seq(M) : t = k[i - 1] /\ u = l[i - 1] /\ Len(t) + Len(u) = i - 1
    BY <1>6
  <2>2. s[i] \in M /\ s[i] \in ToSet(s)
    BY <1>1, Members
  <2>3. k[i] = (IF s[i] \in X THEN Append(t, s[i]) ELSE t) /\ l[i] = (IF s[i] \in Y THEN Append(u, s[i]) ELSE u)
    BY <1>1, <1>3, <1>4, <2>1, Zenon DEF Sieves
  <2>4. s[i] \in X <=> s[i] \notin Y
    BY <1>2, <2>2
  <2>5. /\ Append(t, s[i]) \in Seq(M) /\ Len(Append(t, s[i])) = Len(t) + 1
        /\ Append(u, s[i]) \in Seq(M) /\ Len(Append(u, s[i])) = Len(u) + 1
    BY <2>2
  <2>6. (Len(t) + 1) + Len(u) = i /\ Len(t) + (Len(u) + 1) = i
    <3>1. PICK a \in Nat, b \in Nat : a = Len(t) /\ b = Len(u)
      OBVIOUS
    <3>2. a + b = i - 1
      BY <2>1, <3>1, Zenon
    <3>3. (a + 1) + b = i /\ a + (b + 1) = i
      BY <3>2
    <3> QED BY <3>1, <3>3
  <2>7. ASSUME s[i] \in X PROVE Even(i)
    <3>1. k[i] = Append(t, s[i]) /\ l[i] = u
      BY <2>3, <2>4, <2>7
    <3> QED BY <2>5, <2>6, <3>1, Zenon
  <2>8. ASSUME s[i] \notin X PROVE Even(i)
    <3>1. k[i] = t /\ l[i] = Append(u, s[i])
      BY <2>3, <2>4, <2>8
    <3> QED BY <2>5, <2>6, <3>1, Zenon
  <2>9. i \in 0 .. m
    OBVIOUS
  <2> HIDE DEF Even
  <2> QED BY <2>7, <2>8, <2>9
<1>7. m \in P
  <2>1. m \in 0 .. m
    OBVIOUS
  <2> HIDE DEF P
  <2> QED BY <1>5, <1>6, <2>1, UpTo
<1> QED BY <1>1, <1>2, <1>3, <1>4, <1>7

LEMMA Reversed ==
  ASSUME NEW M, NEW s \in Seq(M)
  PROVE  Reverse(s) \in Seq(M) /\ ToSet(Reverse(s)) = ToSet(s) /\ Len(Reverse(s)) = Len(s)
<1>1. PICK m \in Nat : m = Len(s)
  OBVIOUS
<1>2. \A i \in 1 .. m : (m - i) + 1 \in 1 .. m /\ (m - ((m - i) + 1)) + 1 = i
  OBVIOUS
<1>3. Reverse(s) = [i \in 1 .. m |-> s[(m - i) + 1]]
  BY <1>1 DEF Reverse
<1>4. PICK t \in Seq(M) : t = Reverse(s)
  <2>1. \A i \in 1 .. m : s[(m - i) + 1] \in M
    BY <1>1, <1>2
  <2>2. [i \in 1 .. m |-> s[(m - i) + 1]] \in Seq(M)
    BY <2>1
  <2> QED BY <1>3, <2>2, Zenon
<1>5. Len(t) = m /\ \A i \in 1 .. m : t[i] = s[(m - i) + 1]
  BY <1>3, <1>4
<1>6. (\A x : x \in ToSet(s) <=> \E i \in 1 .. m : s[i] = x) /\ \A x : x \in ToSet(t) <=> \E i \in 1 .. m : t[i] = x
  BY <1>1, <1>5, Members
<1>7. ASSUME NEW x \in ToSet(t) PROVE x \in ToSet(s)
  BY <1>2, <1>5, <1>6
<1>8. ASSUME NEW x \in ToSet(s) PROVE x \in ToSet(t)
  <2>1. PICK i \in 1 .. m : s[i] = x
    BY <1>6
  <2>2. t[(m - i) + 1] = x /\ (m - i) + 1 \in 1 .. m
    BY <1>2, <1>5, <2>1
  <2> QED BY <1>6, <2>2
<1> QED BY <1>1, <1>4, <1>5, <1>7, <1>8

LEMMA First ==
  ASSUME NEW M, NEW s \in Seq(M), NEW n \in 0 .. Len(s)
  PROVE  /\ SubSeq(s, 1, n) \in Seq(M) /\ Len(SubSeq(s, 1, n)) = n
         /\ ToSet(SubSeq(s, 1, n)) \subseteq ToSet(s)
         /\ n = Len(s) => ToSet(SubSeq(s, 1, n)) = ToSet(s)
<1>1. PICK t \in Seq(M) : t = SubSeq(s, 1, n)
  <2>1. SubSeq(s, 1, n) \in Seq(M)
    OBVIOUS
  <2> QED BY <2>1, Zenon
<1>2. Len(t) = n /\ \A i \in 1 .. n : t[i] = s[i]
  BY <1>1
<1>3. \A i \in 1 .. n : i \in 1 .. Len(s)
  OBVIOUS
<1>4. \A x : x \in ToSet(s) <=> \E i \in 1 .. Len(s) : s[i] = x
  BY Members
<1>5. \A x : x \in ToSet(t) <=> \E i \in 1 .. n : t[i] = x
  BY <1>2, Members
<1>6. ToSet(t) \subseteq ToSet(s)
  BY <1>2, <1>3, <1>4, <1>5, Zenon
<1>7. ASSUME n = Len(s) PROVE ToSet(t) = ToSet(s)
  BY <1>2, <1>4, <1>5, <1>7
<1> QED BY <1>1, <1>2, <1>6, <1>7

\* What LoadHistory may list, and all of it unless it lists Limit entries.
Listable(w, pending, skip) == ToSet(pending) \cup {e \in ToSet(file) : ~shouldSkipHistoryEntry(w, e, skip)}

LEMMA LoadedIs ==
  ASSUME HTypes, NEW w, NEW pending \in Seq(Entries), NEW skip
  PROVE  /\ ToSet(loadHistory(w, pending, skip)) \subseteq Listable(w, pending, skip)
         /\ \/ Len(loadHistory(w, pending, skip)) = Limit
            \/ Listable(w, pending, skip) \subseteq ToSet(loadHistory(w, pending, skip))
<1>0. Limit \in Nat /\ file \in Seq(Entries)
  BY PromptHistoryAssumption DEF HTypes, StoreTypes
<1>1. PICK shown : shown = {e \in ToSet(file) : ~shouldSkipHistoryEntry(w, e, skip)}
  OBVIOUS
<1>2. PICK back \in Seq(Entries), lines \in Seq(Entries) : back = Reverse(pending) /\ lines = Reverse(file)
  BY <1>0, Reversed, Zenon
<1>3. PICK kept \in Seq(Entries) : kept = Only(lines, shown)
  BY OnlyIs, Zenon
<1>4. PICK listed \in Seq(Entries) : listed = back \o kept
  <2>1. back \o kept \in Seq(Entries)
    OBVIOUS
  <2> QED BY <2>1, Zenon
<1>5. ToSet(listed) = Listable(w, pending, skip)
  <2>1. ToSet(back) = ToSet(pending) /\ ToSet(lines) = ToSet(file)
    BY <1>0, <1>2, Reversed
  <2>2. ToSet(kept) = ToSet(lines) \cap shown
    BY <1>3, OnlyIs
  <2>3. ToSet(listed) = ToSet(back) \cup ToSet(kept)
    BY <1>4, Joined
  <2> QED BY <1>1, <2>1, <2>2, <2>3 DEF Listable
<1>6. PICK n \in 0 .. Len(listed) : n = IF Len(listed) < Limit THEN Len(listed) ELSE Limit
  BY <1>0
<1>7. PICK newest \in Seq(Entries) : newest = SubSeq(listed, 1, n)
  BY First, Zenon
<1>8. Len(newest) = n /\ ToSet(newest) \subseteq ToSet(listed) /\ (n = Len(listed) => ToSet(newest) = ToSet(listed))
  BY <1>7, First
<1>9. PICK own : own = {e \in ToSet(newest) : e.writer = w}
  OBVIOUS
<1>10. PICK p \in Seq(Entries), q \in Seq(Entries) : p = Only(newest, own) /\ q = Only(newest, ToSet(newest) \ own)
  BY OnlyIs, Zenon
<1>11. PICK r \in Seq(Entries) : r = p \o q
  <2>1. p \o q \in Seq(Entries)
    OBVIOUS
  <2> QED BY <2>1, Zenon
<1>12. ToSet(r) = ToSet(newest) /\ Len(r) = Len(newest)
  <2>1. ToSet(p) = ToSet(newest) \cap own /\ ToSet(q) = ToSet(newest) \cap (ToSet(newest) \ own)
    BY <1>10, OnlyIs
  <2>2. ToSet(r) = ToSet(p) \cup ToSet(q)
    BY <1>11, Joined
  <2>3. Len(r) = Len(p) + Len(q)
    BY <1>11
  <2>4. Len(p) + Len(q) = Len(newest)
    BY <1>10, OnlySplit
  <2> QED BY <2>1, <2>2, <2>3, <2>4
<1>13. r = loadHistory(w, pending, skip)
  <2>1. loadLogEntriesNewestFirst = lines
    BY <1>2 DEF loadLogEntriesNewestFirst
  <2> QED BY <1>1, <1>2, <1>3, <1>4, <1>6, <1>7, <1>9, <1>10, <1>11, <2>1 DEF loadHistory
<1>14. n = Limit \/ n = Len(listed)
  BY <1>6
<1> QED BY <1>5, <1>8, <1>12, <1>13, <1>14

\* An entry taken back is not listed again by its writer, unless a flush that
\* failed afterwards has put it back.
THEOREM RemovedStaysHidden == Spec => []RemovedHidden
<1>1. ASSUME HTypes, KeepInv, ListInv PROVE RemovedHidden
  <2>1. ASSUME NEW w \in Writers, alive[w], NEW e \in ToSet(loadHistory(w, buf[w], skipped[w])),
               e \in removed, e.writer = w
        PROVE  e \in revived
    <3>1. buf[w] \in Seq(Entries)
      BY <1>1 DEF HTypes, StoreTypes
    <3>2. e \in Listable(w, buf[w], skipped[w])
      BY <1>1, <2>1, <3>1, LoadedIs
    <3>3. CASE e \in ToSet(buf[w])
      BY <1>1, <2>1, <3>3, Unfolded DEF ListInv, RemovedInv
    <3>4. CASE e \in ToSet(file) /\ ~shouldSkipHistoryEntry(w, e, skipped[w])
      <4>1. e.ts \notin skipped[w]
        BY <2>1, <3>4 DEF shouldSkipHistoryEntry
      <4>2. e \notin dropped
        BY <1>1, <3>4 DEF KeepInv, PlaceInv, Placed, Apart
      <4> QED BY <1>1, <2>1, <4>1, <4>2 DEF ListInv, RemovedInv
    <3> QED BY <3>2, <3>3, <3>4 DEF Listable
  <2> QED BY <2>1 DEF RemovedHidden
<1>2. HTypes /\ KeepInv /\ ListInv => RemovedHidden
  BY <1>1
<1> QED BY <1>2, Listed, PTL

\* A listing misses nothing that was in the buffer or in the file when it
\* began, whatever is flushed in between.
THEOREM LoadsShowSettled == Spec => []LoadShowsSettled
<1>1. ASSUME HTypes, KeepInv, ListInv PROVE LoadShowsSettled
  <2>1. ASSUME NEW w \in Writers, load[w].on,
               NEW e \in ToSet(load[w].pending \o SubSeq(file, 1, load[w].lines)) \ removed
        PROVE  \/ e \in ToSet(Loaded(w))
               \/ Len(Loaded(w)) = Limit
               \/ \E r \in removed : r.writer = w /\ e.writer = w /\ r.ts = e.ts
    <3>0. PICK p \in Seq(Entries) : p = load[w].pending
      BY <1>1 DEF HTypes, StoreTypes, Loads
    <3>1. PICK skip : p = load[w].pending /\ skip = load[w].skip
      BY <3>0
    <3>2. file \in Seq(Entries)
      BY <1>1 DEF HTypes, StoreTypes
    <3>3. PICK n \in 0 .. Len(file) : n = load[w].lines
      <4>1. load[w].lines \in Nat /\ load[w].lines <= Len(file) /\ Len(file) \in Nat
        BY <1>1, <3>2 DEF HTypes, StoreTypes, Loads, ListInv, LinesInv
      <4> QED BY <4>1
    <3>4. PICK q \in Seq(Entries) : q = SubSeq(file, 1, n) /\ ToSet(q) \subseteq ToSet(file)
      BY <3>2, First, Zenon
    <3>5. e \in ToSet(p) \cup ToSet(q)
      <4>1. ToSet(p \o q) = ToSet(p) \cup ToSet(q)
        BY Joined
      <4> QED BY <2>1, <3>1, <3>3, <3>4, <4>1
    <3>6. Len(Loaded(w)) = Limit \/ Listable(w, p, skip) \subseteq ToSet(Loaded(w))
      BY <1>1, <3>1, LoadedIs DEF Loaded
    <3>7. CASE e \in ToSet(p)
      BY <3>6, <3>7 DEF Listable
    <3>8. CASE e \in ToSet(file) /\ ~shouldSkipHistoryEntry(w, e, skip)
      BY <3>6, <3>8 DEF Listable
    <3>9. CASE shouldSkipHistoryEntry(w, e, skip)
      BY <1>1, <3>1, <3>9 DEF shouldSkipHistoryEntry, ListInv, HiddenInv
    <3> QED BY <3>4, <3>5, <3>7, <3>8, <3>9
  <2> QED BY <2>1 DEF LoadShowsSettled
<1>2. HTypes /\ KeepInv /\ ListInv => LoadShowsSettled
  BY <1>1
<1> QED BY <1>2, Listed, PTL
=============================================================================
