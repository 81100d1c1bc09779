---------------------------- MODULE RwLockProofs ----------------------------
(***************************************************************************)
(* A writer holds the reader-writer lock alone, and no release is lost on  *)
(* a process already asleep, for any number of processes, with and without *)
(* preemption.                                                             *)
(***************************************************************************)
EXTENDS RwLock, SyncProofs

\* The provers in the order they are tried, with their time limits in seconds.
USE ZenonT(3), SMTT(30), ZenonT(30)

\* readers and writers are never both positive.
Excluded == writers = 0 \/ readers = 0

\* WriterAlone speaks of processes and the code of counts: CountsExact ties the
\* two together, and holds only because wake-ups move nobody but sleepers.
IInv == RwTypeOK /\ QueueInv /\ CountsExact /\ Excluded

LockOK == readers \in Nat /\ writers \in {0, 1} /\ CountsExact /\ Excluded

\* The invariant is these parts, before and after a step.
LEMMA Split == /\ IInv <=> SyncTypeOK(RwLabels) /\ QueueInv /\ LockOK
               /\ IInv' <=> SyncTypeOK(RwLabels)' /\ QueueInv' /\ LockOK'
BY DEF IInv, RwTypeOK, SyncTypeOK, LockOK

\* The queues the lock uses, and its labels.
LEMMA Names == /\ "read_wait" \in Queues /\ "write_wait" \in Queues
               /\ {"idle", "read_lock", "read_sleep", "reading", "write_lock",
                   "write_sleep", "writing", "wake_readers", "wake_writer",
                   "asleep"} = RwLabels
BY RwLockAssumption DEF RwLabels

\* The processes a wake-up may pass by are processes.
LEMMA Passed == Inside("read_sleep") \in SUBSET Proc /\ Inside("write_sleep") \in SUBSET Proc
BY DEF Inside

\* A step that leaves the counts and the processes inside alone.
LEMMA LockUnchanged ==
    ASSUME LockOK, UNCHANGED counts,
           Inside("reading")' = Inside("reading"), Inside("writing")' = Inside("writing")
    PROVE  LockOK'
BY DEF LockOK, counts, CountsExact, Excluded

-----------------------------------------------------------------------------
\* A step to another section that touches neither the counts nor those inside.
LEMMA Passing ==
    ASSUME NEW p \in Proc, NEW m \in RwLabels, IInv, Goto(p, m), UNCHANGED counts,
           pc[p] \notin {"asleep", "reading", "writing"}, m \notin {"reading", "writing"}
    PROVE  IInv'
BY Split, GotoType, GotoQueues, Stay, LockUnchanged

\* The wake-ups after the unlocks bring nobody inside.
LEMMA WakingStep ==
    ASSUME NEW p \in Proc, IInv, UNCHANGED counts,
           pc[p] \notin {"asleep", "reading", "writing"},
           NEW l \in RwLabels \ {"reading", "writing"}, NEW r \in RwLabels \ {"reading", "writing"},
           NEW q \in Queues, NEW W \in SUBSET Proc,
           wake_up(p, l, q, r, W) \/ wake_up_all(p, l, q, r, W)
    PROVE  IInv'
<1>1. SyncTypeOK(RwLabels)'  BY Split, WakeUpType, WakeUpAllType
<1>2. /\ QueueInv'
      /\ \A x \in Proc : x # p => pc'[x] = pc[x] \/ (pc[x] = "asleep" /\ pc'[x] = r)
      /\ pc'[p] = l
      BY Split, WakeUpQueues, WakeUpAllQueues
<1>3. Inside("reading")' = Inside("reading")  BY <1>2 DEF Inside
<1>4. Inside("writing")' = Inside("writing")  BY <1>2 DEF Inside
<1> QED  BY <1>1, <1>2, <1>3, <1>4, Split, LockUnchanged

\* Going to sleep.
LEMMA SleepingStep ==
    ASSUME NEW p \in Proc, NEW q \in Queues, IInv, UNCHANGED counts,
           pc[p] \notin {"asleep", "reading", "writing"}, sleep_on(p, q)
    PROVE  IInv'
<1>1. SyncTypeOK(RwLabels)'  BY Split, Names, SleepOnType
<1>2. QueueInv'  BY Split, SleepOnQueues
<1>3. Inside("reading")' = Inside("reading") /\ Inside("writing")' = Inside("writing")
      BY Split DEF Inside, sleep_on, SyncTypeOK
<1> QED  BY <1>1, <1>2, <1>3, Split, LockUnchanged

\* rwlock_read_lock: one more reader, or on to sleep.
LEMMA ReadLockStep ==
    ASSUME NEW p \in Proc, IInv, rwlock_read_lock(p) PROVE IInv'
<1> USE Split, Names
<1>1. pc[p] = "read_lock"  BY DEF rwlock_read_lock, At
<1>2. CASE writers = 0
  <2>1. readers' = readers + 1 /\ writers' = writers /\ Goto(p, "reading")
        BY <1>2 DEF rwlock_read_lock
  <2>2. SyncTypeOK(RwLabels)' /\ QueueInv'  BY <1>1, <2>1, GotoType, GotoQueues
  <2>3. Cardinality(Inside("reading"))' = Cardinality(Inside("reading")) + 1
        BY <1>1, <2>1, Enter
  <2>4. Inside("writing")' = Inside("writing")  BY <1>1, <2>1, Stay
  <2> QED  BY <1>2, <2>1, <2>2, <2>3, <2>4 DEF LockOK, CountsExact, Excluded
<1>3. CASE writers # 0
  <2>1. UNCHANGED counts /\ Goto(p, "read_sleep")
        BY <1>3 DEF rwlock_read_lock, counts
  <2> QED  BY <1>1, <2>1, Passing
<1> QED  BY <1>2, <1>3

\* rwlock_read_unlock: one reader less, which was there.
LEMMA ReadUnlockStep ==
    ASSUME NEW p \in Proc, IInv, rwlock_read_unlock(p) PROVE IInv'
<1> USE Split, Names
<1>1. pc[p] = "reading" /\ readers' = readers - 1 /\ writers' = writers
      BY DEF rwlock_read_unlock, At
<1>2. PICK m \in {"wake_writer", "idle"} : Goto(p, m)  BY DEF rwlock_read_unlock
<1>3. SyncTypeOK(RwLabels)' /\ QueueInv'  BY <1>1, <1>2, GotoType, GotoQueues
<1>4. Cardinality(Inside("reading"))' = Cardinality(Inside("reading")) - 1
      BY <1>1, <1>2, Leave
<1>5. Inside("writing")' = Inside("writing")  BY <1>1, <1>2, Stay
\* The count was positive, for p itself was inside.
<1>6. readers > 0
  <2>1. p \in Inside("reading")  BY <1>1 DEF Inside
  <2>2. Cardinality(Inside("reading")) # 0  BY <2>1, InsideFinite, FS_EmptySet
  <2> QED  BY <2>2 DEF LockOK, CountsExact
<1> QED  BY <1>1, <1>3, <1>4, <1>5, <1>6 DEF LockOK, CountsExact, Excluded

\* rwlock_write_lock: the only writer, or on to sleep.
LEMMA WriteLockStep ==
    ASSUME NEW p \in Proc, IInv, rwlock_write_lock(p) PROVE IInv'
<1> USE Split, Names
<1>1. pc[p] = "write_lock"  BY DEF rwlock_write_lock, At
<1>2. CASE writers = 0 /\ readers = 0
  <2>1. readers' = readers /\ writers' = 1 /\ Goto(p, "writing")
        BY <1>2 DEF rwlock_write_lock
  <2>2. SyncTypeOK(RwLabels)' /\ QueueInv'  BY <1>1, <2>1, GotoType, GotoQueues
  <2>3. Cardinality(Inside("writing"))' = Cardinality(Inside("writing")) + 1
        BY <1>1, <2>1, Enter
  <2>4. Inside("reading")' = Inside("reading")  BY <1>1, <2>1, Stay
  <2> QED  BY <1>2, <2>1, <2>2, <2>3, <2>4 DEF LockOK, CountsExact, Excluded
<1>3. CASE ~(writers = 0 /\ readers = 0)
  <2>1. UNCHANGED counts /\ Goto(p, "write_sleep")
        BY <1>3 DEF rwlock_write_lock, counts
  <2> QED  BY <1>1, <2>1, Passing
<1> QED  BY <1>2, <1>3

\* rwlock_write_unlock: no writer is left.
LEMMA WriteUnlockStep ==
    ASSUME NEW p \in Proc, IInv, rwlock_write_unlock(p) PROVE IInv'
<1> USE Split, Names
<1>1. /\ pc[p] = "writing" /\ writers' = 0 /\ readers' = readers
      /\ Goto(p, "wake_readers")
      BY DEF rwlock_write_unlock, At
<1>2. SyncTypeOK(RwLabels)' /\ QueueInv'  BY <1>1, GotoType, GotoQueues
<1>3. Cardinality(Inside("writing"))' = Cardinality(Inside("writing")) - 1
      BY <1>1, Leave
<1>4. Inside("reading")' = Inside("reading")  BY <1>1, Stay
<1>5. writers = 1
  <2>1. p \in Inside("writing")  BY <1>1 DEF Inside
  <2>2. Cardinality(Inside("writing")) # 0  BY <2>1, InsideFinite, FS_EmptySet
  <2> QED  BY <2>2 DEF LockOK, CountsExact
<1> QED  BY <1>1, <1>2, <1>3, <1>4, <1>5 DEF LockOK, CountsExact, Excluded

-----------------------------------------------------------------------------
\* rwlock_init establishes the invariant.
LEMMA InitInv == rwlock_init => IInv
<1> SUFFICES ASSUME rwlock_init PROVE IInv  OBVIOUS
<1>1. SyncTypeOK(RwLabels)  BY Names, InitType DEF rwlock_init
<1>2. QueueInv  BY DEF rwlock_init, SyncInit, QueueInv
<1>3. Inside("reading") = {} /\ Inside("writing") = {}
      BY DEF rwlock_init, SyncInit, Inside
<1>4. LockOK  BY <1>3, FS_EmptySet DEF rwlock_init, LockOK, CountsExact, Excluded
<1> QED  BY <1>1, <1>2, <1>4, Split

\* Every step of every process preserves the invariant.
LEMMA NextInv == IInv /\ [RwNext]_rwVars => IInv'
<1> SUFFICES ASSUME IInv, [RwNext]_rwVars PROVE IInv'  OBVIOUS
<1> USE Names
<1>1. CASE RwYield
  <2>1. SyncTypeOK(RwLabels)'  BY <1>1, Split, SwitchType DEF RwYield
  <2>2. UNCHANGED <<wait, pc, counts>>  BY <1>1 DEF RwYield, Switch
  <2>3. QueueInv'  BY <2>2, Split DEF QueueInv
  <2>4. Inside("reading")' = Inside("reading") /\ Inside("writing")' = Inside("writing")
        BY <2>2 DEF Inside
  <2> QED  BY <2>1, <2>2, <2>3, <2>4, Split, LockUnchanged
<1>2. ASSUME NEW p \in Proc, CallRwLock(p) PROVE IInv'
      BY <1>2, Passing DEF CallRwLock, At
<1>3. ASSUME NEW p \in Proc, rwlock_read_lock(p) PROVE IInv'  BY <1>3, ReadLockStep
<1>4. ASSUME NEW p \in Proc, read_lock_sleeps(p) PROVE IInv'
      BY <1>4, SleepingStep DEF read_lock_sleeps, At
<1>5. ASSUME NEW p \in Proc, rwlock_read_unlock(p) PROVE IInv'  BY <1>5, ReadUnlockStep
<1>6. ASSUME NEW p \in Proc, rwlock_write_lock(p) PROVE IInv'  BY <1>6, WriteLockStep
<1>7. ASSUME NEW p \in Proc, write_lock_sleeps(p) PROVE IInv'
      BY <1>7, SleepingStep DEF write_lock_sleeps, At
<1>8. ASSUME NEW p \in Proc, rwlock_write_unlock(p) PROVE IInv'  BY <1>8, WriteUnlockStep
<1>9. ASSUME NEW p \in Proc, WakeReaders(p) PROVE IInv'
      BY <1>9, WakingStep, Passed DEF WakeReaders, At
<1>10. ASSUME NEW p \in Proc, WakeWriter(p) PROVE IInv'
      BY <1>10, WakingStep, Passed DEF WakeWriter, At
<1>11. CASE UNCHANGED rwVars
  <2>1. SyncTypeOK(RwLabels)' /\ QueueInv' /\ UNCHANGED counts
        BY <1>11, Split DEF rwVars, syncVars, counts, SyncTypeOK, QueueInv
  <2>2. Inside("reading")' = Inside("reading") /\ Inside("writing")' = Inside("writing")
        BY <1>11 DEF rwVars, syncVars, Inside
  <2> QED  BY <2>1, <2>2, Split, LockUnchanged
<1> QED  BY <1>1, <1>2, <1>3, <1>4, <1>5, <1>6, <1>7, <1>8, <1>9, <1>10, <1>11 DEF RwNext

\* The counts exclude each other, and a count of one has one process behind it.
LEMMA Alone == IInv => WriterAlone
<1> SUFFICES ASSUME IInv, NEW p \in Proc, NEW q \in Proc,
                    pc[p] = "writing", pc[q] \in {"reading", "writing"}
             PROVE  p = q
    BY DEF WriterAlone
<1>1. LockOK  BY Split
<1>2. p \in Inside("writing")  BY DEF Inside
<1>3. Cardinality(Inside("writing")) # 0  BY <1>2, InsideFinite, FS_EmptySet
<1>4. writers = 1 /\ readers = 0 /\ Cardinality(Inside("writing")) = 1
      BY <1>1, <1>3 DEF LockOK, CountsExact, Excluded
<1>5. Inside("reading") = {}
      BY <1>1, <1>4, InsideFinite, FS_EmptySet DEF LockOK, CountsExact
<1>6. pc[q] = "writing"  BY <1>5 DEF Inside
<1>7. PICK x : Inside("writing") = {x}  BY <1>4, InsideFinite, FS_Singleton
<1> QED  BY <1>2, <1>6, <1>7 DEF Inside

\* rwlock_t's counts are those of the processes inside, for any set of processes.
THEOREM CountsTrue == RwSpec => []CountsExact
<1>1. IInv => CountsExact  BY DEF IInv
<1> QED  BY <1>1, InitInv, NextInv, PTL DEF RwSpec

\* A process between rwlock_write_lock and rwlock_write_unlock is alone inside,
\* for any set of processes, with and without preemption.
THEOREM WriterExclusion == RwSpec => []WriterAlone
BY InitInv, NextInv, Alone, PTL DEF RwSpec

-----------------------------------------------------------------------------
\* The readers, and the writers, asleep or on the way to sleep, without those a
\* wake-up has passed by.
ReadersWait == (Inside("read_sleep") \union Queued("read_wait")) \ missed
WritersWait == (Inside("write_sleep") \union Queued("write_wait")) \ missed

\* The sections of the processes who will try to get in or wake a writer.
Alert == {"write_lock", "read_lock", "wake_readers", "wake_writer"}

\* NoLostRelease with those on the way to the queues counted as sleepers.
WriterCalled == readers = 0 /\ writers = 0 /\ WritersWait # {}
                    => \E x \in Proc : pc[x] \in Alert
ReaderCalled == writers = 0 /\ ReadersWait # {} => \E x \in Proc : pc[x] = "wake_readers"

WInv == IInv /\ WriterCalled /\ ReaderCalled

\* A process that goes to a section other than these is waited for by nobody new.
LEMMA GotoWaits ==
    ASSUME NEW p \in Proc, NEW m, SyncTypeOK(RwLabels), Goto(p, m)
    PROVE  /\ m # "read_sleep" => ReadersWait' \subseteq ReadersWait
           /\ m # "write_sleep" => WritersWait' \subseteq WritersWait
           /\ pc'[p] = m /\ \A x \in Proc : x # p => pc'[x] = pc[x]
BY DEF ReadersWait, WritersWait, Queued, Inside, Goto, SyncTypeOK

\* CallRwLock.
LEMMA CallKeeps ==
    ASSUME NEW p \in Proc, WInv, CallRwLock(p) PROVE WriterCalled' /\ ReaderCalled'
<1>1. PICK m \in {"read_lock", "write_lock"} : Goto(p, m)  BY DEF CallRwLock
<1>2. pc[p] = "idle" /\ readers' = readers /\ writers' = writers  BY DEF CallRwLock, At, counts
<1>3. /\ ReadersWait' \subseteq ReadersWait /\ WritersWait' \subseteq WritersWait
      /\ \A x \in Proc : x # p => pc'[x] = pc[x]
      BY <1>1, GotoWaits, Split DEF WInv
<1>4. WriterCalled'  BY <1>2, <1>3 DEF WInv, WriterCalled, Alert
<1>5. ReaderCalled'  BY <1>2, <1>3 DEF WInv, ReaderCalled
<1> QED  BY <1>4, <1>5

\* A reader that enters leaves the readers waiting as they were; one that finds
\* a writer inside may sleep.
LEMMA ReadLockKeeps ==
    ASSUME NEW p \in Proc, WInv, rwlock_read_lock(p) PROVE WriterCalled' /\ ReaderCalled'
<1>1. pc[p] = "read_lock" /\ writers' = writers  BY DEF rwlock_read_lock, At
<1>2. CASE writers = 0
  <2>1. readers' = readers + 1 /\ Goto(p, "reading")  BY <1>2 DEF rwlock_read_lock
  <2>2. readers' # 0  BY <2>1, Split DEF WInv, LockOK
  <2>3. ReadersWait' \subseteq ReadersWait /\ \A x \in Proc : x # p => pc'[x] = pc[x]
        BY <2>1, GotoWaits, Split DEF WInv
  <2>4. ReaderCalled'  BY <1>1, <2>3 DEF WInv, ReaderCalled
  <2> QED  BY <2>2, <2>4 DEF WriterCalled
<1>3. CASE writers # 0  BY <1>1, <1>3 DEF WriterCalled, ReaderCalled
<1> QED  BY <1>2, <1>3

\* The last reader out is on its way to wake a writer.
LEMMA ReadUnlockKeeps ==
    ASSUME NEW p \in Proc, WInv, rwlock_read_unlock(p) PROVE WriterCalled' /\ ReaderCalled'
<1>1. pc[p] = "reading" /\ writers' = writers  BY DEF rwlock_read_unlock, At
<1>2. PICK m \in {"wake_writer", "idle"} : Goto(p, m) /\ (readers' = 0 => m = "wake_writer")
      BY DEF rwlock_read_unlock
<1>3. /\ ReadersWait' \subseteq ReadersWait
      /\ pc'[p] = m /\ \A x \in Proc : x # p => pc'[x] = pc[x]
      BY <1>2, GotoWaits, Split DEF WInv
<1>4. WriterCalled'  BY <1>2, <1>3 DEF WriterCalled, Alert
<1>5. ReaderCalled'  BY <1>1, <1>3 DEF WInv, ReaderCalled
<1> QED  BY <1>4, <1>5

\* A writer gets in, or the lock is not free.
LEMMA WriteLockKeeps ==
    ASSUME NEW p \in Proc, WInv, rwlock_write_lock(p) PROVE WriterCalled' /\ ReaderCalled'
<1>1. pc[p] = "write_lock" /\ readers' = readers  BY DEF rwlock_write_lock, At
<1>2. CASE writers = 0 /\ readers = 0
  <2>1. writers' = 1  BY <1>2 DEF rwlock_write_lock
  <2>2. writers' # 0  BY <2>1
  <2> QED  BY <2>2 DEF WriterCalled, ReaderCalled
<1>3. CASE ~(writers = 0 /\ readers = 0)
  <2>1. writers' = writers /\ Goto(p, "write_sleep")  BY <1>3 DEF rwlock_write_lock
  <2>2. ReadersWait' \subseteq ReadersWait /\ \A x \in Proc : x # p => pc'[x] = pc[x]
        BY <2>1, GotoWaits, Split DEF WInv
  <2>3. ReaderCalled'  BY <1>1, <2>1, <2>2 DEF WInv, ReaderCalled
  <2> QED  BY <1>1, <1>3, <2>1, <2>3 DEF WriterCalled
<1> QED  BY <1>2, <1>3

\* The writer that leaves is on its way to wake the readers, then a writer.
LEMMA WriteUnlockKeeps ==
    ASSUME NEW p \in Proc, WInv, rwlock_write_unlock(p) PROVE WriterCalled' /\ ReaderCalled'
<1>1. Goto(p, "wake_readers")  BY DEF rwlock_write_unlock
<1>2. pc'[p] = "wake_readers"  BY <1>1, GotoWaits, Split DEF WInv
<1> QED  BY <1>2 DEF WriterCalled, ReaderCalled, Alert

\* Going to sleep: the process was counted before.
LEMMA SleepKeeps ==
    ASSUME NEW p \in Proc, NEW q \in {"read_wait", "write_wait"}, WInv, UNCHANGED counts,
           pc[p] = IF q = "read_wait" THEN "read_sleep" ELSE "write_sleep", sleep_on(p, q)
    PROVE  WriterCalled' /\ ReaderCalled'
<1>1. /\ missed' = missed /\ pc'[p] = "asleep"
      /\ \A x \in Proc : x # p => pc'[x] = pc[x]
      BY Split DEF sleep_on, WInv, SyncTypeOK
<1>2. readers' = readers /\ writers' = writers  BY DEF counts
<1>3. \A s \in {"read_wait", "write_wait"} :
         Queued(s)' \subseteq Queued(s) \union IF s = q THEN {p} ELSE {}
  <2> SUFFICES ASSUME NEW s \in {"read_wait", "write_wait"}
               PROVE  Queued(s)' \subseteq Queued(s) \union IF s = q THEN {p} ELSE {}
      OBVIOUS
  <2>1. CASE s # q
    <3>1. wait'[s] = wait[s]  BY <2>1, Names, Split DEF sleep_on, WInv, SyncTypeOK
    <3> QED  BY <3>1 DEF Queued
  <2>2. CASE s = q
    <3>1. wait[s] \in Seq(Proc) /\ wait'[s] = Append(wait[s], p)
          BY <2>2, Names, Split DEF sleep_on, WInv, SyncTypeOK
    <3>2. \A i \in DOMAIN wait'[s] :
             wait'[s][i] = p \/ (i \in DOMAIN wait[s] /\ wait'[s][i] = wait[s][i])
          BY <3>1
    <3> QED  BY <2>2, <3>2 DEF Queued
  <2> QED  BY <2>1, <2>2
<1>4. ReadersWait' \subseteq ReadersWait  BY <1>1, <1>3 DEF ReadersWait, Inside
<1>5. WritersWait' \subseteq WritersWait  BY <1>1, <1>3 DEF WritersWait, Inside
<1>6. \A x \in Proc : pc[x] \in Alert => pc'[x] = pc[x]  BY <1>1 DEF Alert
<1>7. WriterCalled'  BY <1>2, <1>5, <1>6 DEF WInv, WriterCalled
<1>8. ReaderCalled'  BY <1>2, <1>4, <1>6 DEF WInv, ReaderCalled, Alert
<1> QED  BY <1>7, <1>8

\* wake_up_all leaves no reader on the queue and passes the others by.
LEMMA WakeReadersKeeps ==
    ASSUME NEW p \in Proc, WInv, WakeReaders(p) PROVE WriterCalled' /\ ReaderCalled'
<1>1. /\ pc[p] = "wake_readers"
      /\ wake_up_all(p, "wake_writer", "read_wait", "read_lock", Inside("read_sleep"))
      BY DEF WakeReaders, At
<1>2. SyncTypeOK(RwLabels) /\ QueueInv  BY Split DEF WInv
<1>3. /\ pc'[p] = "wake_writer"
      /\ \A x \in Proc : x # p => pc'[x] = pc[x] \/ (pc[x] = "asleep" /\ pc'[x] = "read_lock")
      BY <1>1, <1>2, Names, WakeUpAllQueues
<1>4. Inside("read_sleep")' \subseteq missed'
  <2>1. Inside("read_sleep")' \subseteq Inside("read_sleep")  BY <1>3 DEF Inside
  <2>2. Inside("read_sleep") \subseteq missed'  BY <1>1 DEF wake_up_all
  <2> QED  BY <2>1, <2>2
<1>5. Queued("read_wait")' = {}
  <2>1. wait'["read_wait"] = <<>>  BY <1>1, <1>2, Names DEF wake_up_all, SyncTypeOK
  <2>2. DOMAIN wait'["read_wait"] = {}  BY <2>1
  <2> QED  BY <2>2 DEF Queued
<1>6. ReadersWait' = {}  BY <1>4, <1>5 DEF ReadersWait
<1> QED  BY <1>3, <1>6 DEF WriterCalled, ReaderCalled, Alert

\* wake_up makes the first writer try, or there is none it does not pass by; the
\* readers are not concerned.
LEMMA WakeWriterKeeps ==
    ASSUME NEW p \in Proc, WInv, WakeWriter(p) PROVE WriterCalled' /\ ReaderCalled'
<1>1. /\ pc[p] = "wake_writer" /\ readers' = readers /\ writers' = writers
      /\ wake_up(p, "idle", "write_wait", "write_lock", Inside("write_sleep"))
      BY DEF WakeWriter, At, counts
<1>2. SyncTypeOK(RwLabels) /\ QueueInv  BY Split DEF WInv
<1>3. /\ pc'[p] = "idle"
      /\ \A x \in Proc : x # p => pc'[x] = pc[x] \/ (pc[x] = "asleep" /\ pc'[x] = "write_lock")
      BY <1>1, <1>2, Names, WakeUpQueues
<1>4. /\ Inside("read_sleep")' \subseteq Inside("read_sleep")
      /\ Inside("write_sleep")' \subseteq Inside("write_sleep")
      BY <1>3 DEF Inside
<1>5. ReadersWait' \subseteq ReadersWait => ReaderCalled'
      BY <1>1, <1>3 DEF WInv, ReaderCalled
<1>6. CASE wait["write_wait"] = <<>>
  <2>1. wait' = wait /\ missed' = missed \union Inside("write_sleep")
        BY <1>1, <1>6 DEF wake_up
  <2>2. DOMAIN wait'["write_wait"] = {}  BY <1>6, <2>1
  <2>3. WritersWait' = {}  BY <1>4, <2>1, <2>2 DEF WritersWait, Queued
  <2>4. ReadersWait' \subseteq ReadersWait  BY <1>4, <2>1 DEF ReadersWait, Queued
  <2> QED  BY <1>5, <2>3, <2>4 DEF WriterCalled
<1>7. CASE wait["write_wait"] # <<>>
  <2> DEFINE h == Head(wait["write_wait"])
  <2>1. /\ wait' = [wait EXCEPT !["write_wait"] = Tail(wait["write_wait"])]
        /\ missed' = missed \ {h}
        /\ pc' = [pc EXCEPT ![p] = "idle", ![h] = "write_lock"]
        BY <1>1, <1>7 DEF wake_up
  <2>2. \A x \in Proc : x # h /\ pc[x] = "asleep" => pc'[x] = "asleep"
        BY <1>1, <1>2, <2>1 DEF SyncTypeOK
  <2>3. h \in Proc /\ Queued("read_wait")' \subseteq Queued("read_wait") \ {h}
        BY <1>2, <1>7, <2>1, <2>2, Names, HeadLeaves
  <2>4. pc'[h] = "write_lock"  BY <1>2, <2>1, <2>3 DEF SyncTypeOK
  <2>5. ReadersWait' \subseteq ReadersWait
    <3>1. h \notin Inside("read_sleep")'  BY <2>4 DEF Inside
    <3> QED  BY <1>4, <2>1, <2>3, <3>1 DEF ReadersWait
  <2>6. WriterCalled'  BY <2>3, <2>4 DEF WriterCalled, Alert
  <2> QED  BY <1>5, <2>5, <2>6
<1> QED  BY <1>6, <1>7

\* Every step of every process preserves the invariant.
LEMMA WNextInv == WInv /\ [RwNext]_rwVars => WInv'
<1> SUFFICES ASSUME WInv, [RwNext]_rwVars PROVE WriterCalled' /\ ReaderCalled'
    BY NextInv DEF WInv
<1>1. CASE RwYield \/ UNCHANGED rwVars
  <2>1. UNCHANGED <<wait, pc, missed, readers, writers>>
        BY <1>1 DEF RwYield, Switch, counts, rwVars, syncVars
  <2>2. ReadersWait' = ReadersWait /\ WritersWait' = WritersWait
        BY <2>1 DEF ReadersWait, WritersWait, Queued, Inside
  <2> QED  BY <2>1, <2>2 DEF WInv, WriterCalled, ReaderCalled
<1>2. ASSUME NEW p \in Proc, read_lock_sleeps(p) PROVE WriterCalled' /\ ReaderCalled'
      BY <1>2, SleepKeeps DEF read_lock_sleeps, At
<1>3. ASSUME NEW p \in Proc, write_lock_sleeps(p) PROVE WriterCalled' /\ ReaderCalled'
      BY <1>3, SleepKeeps DEF write_lock_sleeps, At
<1> QED  BY <1>1, <1>2, <1>3, CallKeeps, ReadLockKeeps, ReadUnlockKeeps, WriteLockKeeps,
            WriteUnlockKeeps, WakeReadersKeeps, WakeWriterKeeps DEF RwNext

\* No release of the lock is lost on a process that is asleep: while the lock is
\* open to a sleeper that no wake-up has passed by, some process is about to try
\* the lock or to wake; for any set of processes, with and without preemption.
THEOREM ReleaseReaches == RwSpec => []NoLostRelease
<1>1. rwlock_init => WriterCalled /\ ReaderCalled
  <2> SUFFICES ASSUME rwlock_init PROVE WriterCalled /\ ReaderCalled  OBVIOUS
  <2>1. /\ \A q \in Queues : DOMAIN wait[q] = {}
        /\ \A x \in Proc : pc[x] = "idle"
        BY DEF rwlock_init, SyncInit
  <2>2. ReadersWait = {} /\ WritersWait = {}
        BY <2>1, Names DEF ReadersWait, WritersWait, Queued, Inside
  <2> QED  BY <2>2 DEF WriterCalled, ReaderCalled
<1>2. WInv => NoLostRelease
  <2>1. Sleepers("write_wait") \subseteq WritersWait /\ Sleepers("read_wait") \subseteq ReadersWait
        BY DEF Sleepers, WritersWait, ReadersWait, Queued
  <2> QED  BY <2>1 DEF WInv, WriterCalled, ReaderCalled, NoLostRelease, Alert
<1>3. rwlock_init => WInv  BY <1>1, InitInv DEF WInv
<1> QED  BY <1>2, <1>3, WNextInv, PTL DEF RwSpec
=============================================================================
