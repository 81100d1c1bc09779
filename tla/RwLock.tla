------------------------------- MODULE RwLock -------------------------------
(***************************************************************************)
(* The reader-writer lock.  Each process, again and again, takes the lock  *)
(* for reading or for writing and releases it.                             *)
(***************************************************************************)
EXTENDS SyncBase

ASSUME RwLockAssumption == {"read_wait", "write_wait"} \subseteq Queues

VARIABLES readers, writers

rwVars == <<syncVars, readers, writers>>
counts == <<readers, writers>>

rwlock_init == SyncInit /\ readers = 0 /\ writers = 0

CallRwLock(p) == /\ At(p, "idle")
            /\ \E l \in {"read_lock", "write_lock"} : Goto(p, l)
            /\ UNCHANGED counts

\* Faulty variant: readers do not look at the writer.
rwlock_read_lock_Blind(p) ==
    At(p, "read_lock") /\ readers' = readers + 1 /\ UNCHANGED writers /\ Goto(p, "reading")

rwlock_read_lock(p) ==
    /\ At(p, "read_lock")
    /\ UNCHANGED writers
    /\ IF writers = 0 THEN readers' = readers + 1 /\ Goto(p, "reading")
                      ELSE UNCHANGED readers /\ Goto(p, "read_sleep")

\* Faulty variant: the last reader wakes nobody.
rwlock_read_unlock_Silent(p) ==
    At(p, "reading") /\ readers' = readers - 1 /\ UNCHANGED writers /\ Goto(p, "idle")

rwlock_read_unlock(p) ==
    /\ At(p, "reading")
    /\ readers' = readers - 1
    /\ UNCHANGED writers
    /\ Goto(p, IF readers' = 0 THEN "wake_writer" ELSE "idle")

rwlock_write_lock(p) ==
    /\ At(p, "write_lock")
    /\ UNCHANGED readers
    /\ IF writers = 0 /\ readers = 0
       THEN writers' = 1 /\ Goto(p, "writing")
       ELSE UNCHANGED writers /\ Goto(p, "write_sleep")

rwlock_write_unlock(p) ==
    At(p, "writing") /\ writers' = 0 /\ UNCHANGED readers /\ Goto(p, "wake_readers")

read_lock_sleeps(p)  == At(p, "read_sleep") /\ sleep_on(p, "read_wait") /\ UNCHANGED counts
write_lock_sleeps(p) == At(p, "write_sleep") /\ sleep_on(p, "write_wait") /\ UNCHANGED counts

\* The calls that follow the locked section of the unlocks.
WakeReaders(p) ==
    /\ At(p, "wake_readers")
    /\ wake_up_all(p, "wake_writer", "read_wait", "read_lock", Inside("read_sleep"))
    /\ UNCHANGED counts

WakeWriter(p) ==
    /\ At(p, "wake_writer")
    /\ wake_up(p, "idle", "write_wait", "write_lock", Inside("write_sleep"))
    /\ UNCHANGED counts

RwYield == Switch(UNION {Inside(l) : l \in {"idle", "reading", "writing"}}) /\ UNCHANGED counts

RwNext ==
    \/ RwYield
    \/ \E p \in Proc :
          \/ CallRwLock(p)
          \/ rwlock_read_lock(p) \/ read_lock_sleeps(p) \/ rwlock_read_unlock(p)
          \/ rwlock_write_lock(p) \/ write_lock_sleeps(p) \/ rwlock_write_unlock(p)
          \/ WakeReaders(p) \/ WakeWriter(p)

RwSpec == rwlock_init /\ [][RwNext]_rwVars

-----------------------------------------------------------------------------
RwLabels == {"idle", "read_lock", "read_sleep", "reading", "write_lock", "write_sleep",
           "writing", "wake_readers", "wake_writer", "asleep"}

\* The variables of the lock and its clients keep their types.
RwTypeOK ==
    /\ SyncTypeOK(RwLabels)
    /\ readers \in Nat
    /\ writers \in {0, 1}

\* A writer is alone: no reader and no second writer is inside with it.
WriterAlone ==
    \A p, q \in Proc :
        pc[p] = "writing" /\ pc[q] \in {"reading", "writing"} => p = q

\* The counts are those of the processes inside.
CountsExact == /\ readers = Cardinality(Inside("reading"))
               /\ writers = Cardinality(Inside("writing"))

\* The lock never lies open to a sleeper nobody will wake: a sleeping writer
\* while the lock is free, or a sleeping reader while no writer is inside, means
\* that a process is on its way to take the lock or to wake.  Excepted are the
\* sleepers a wake-up passed by, before sleep_on put them on the queue.
NoLostRelease ==
    /\ readers = 0 /\ writers = 0 /\ Sleepers("write_wait") # {} =>
          \E p \in Proc : pc[p] \in {"write_lock", "read_lock", "wake_readers", "wake_writer"}
    /\ writers = 0 /\ Sleepers("read_wait") # {} =>
          \E p \in Proc : pc[p] = "wake_readers"
=============================================================================
