------------------------------- MODULE Mutex -------------------------------
(***************************************************************************)
(* The recursive mutex with priority lending, and the condition variable   *)
(* used with it.                                                           *)
(***************************************************************************)
EXTENDS SyncBase

CONSTANTS MaxDepth,   \* bound: how deeply a client nests mutex_lock
          Priority    \* the priorities processes start with, 0 the best

VARIABLES owner, recurse_count,
          priority,
          depth       \* the clients' view: locks taken minus locks released

mutexVars == <<syncVars, owner, recurse_count, priority, depth>>
lockVars  == <<owner, recurse_count, priority, depth>>

None == "none"

ASSUME MutexAssumption ==
    /\ {"mutex", "cond"} \subseteq Queues
    /\ None \notin Proc
    /\ Priority \subseteq Nat /\ MaxDepth \in Nat

mutex_init == /\ SyncInit
              /\ owner = None
              /\ recurse_count = 0
              /\ priority \in [Proc -> Priority]
              /\ depth = [p \in Proc |-> 0]

CallLock(p) ==
    At(p, "idle") /\ depth[p] < MaxDepth /\ Goto(p, "lock") /\ UNCHANGED lockVars

CallUnlock(p) == At(p, "idle") /\ Goto(p, "unlock") /\ UNCHANGED lockVars

CallCondWait(p) ==
    At(p, "idle") /\ depth[p] > 0 /\ Goto(p, "cond_wait") /\ UNCHANGED lockVars

-----------------------------------------------------------------------------
Lend(p) == IF priority[owner] > priority[p]
           THEN [priority EXCEPT ![owner] = priority[p]] ELSE priority

\* The locked section of mutex_lock, one disjunct per return.
mutex_lock(p) ==
    /\ At(p, "lock")
    /\ \/ /\ owner = None
          /\ owner' = p /\ recurse_count' = 1
          /\ depth' = [depth EXCEPT ![p] = @ + 1]
          /\ Goto(p, "idle") /\ UNCHANGED priority
       \/ /\ owner = p
          /\ recurse_count' = recurse_count + 1
          /\ depth' = [depth EXCEPT ![p] = @ + 1]
          /\ Goto(p, "idle") /\ UNCHANGED <<owner, priority>>
       \/ /\ owner \notin {None, p}
          /\ priority' = Lend(p)
          /\ Goto(p, "sleep") /\ UNCHANGED <<owner, recurse_count, depth>>

mutex_lock_sleeps(p) == At(p, "sleep") /\ sleep_on(p, "mutex") /\ UNCHANGED lockVars

\* Faulty variant: nesting is ignored.
Unlock_AllLevels(p, l, released, kept) ==
    /\ At(p, l)
    /\ IF owner = p
       THEN /\ recurse_count' = recurse_count - 1
            /\ owner' = None
            /\ depth' = [depth EXCEPT ![p] = @ - 1]
            /\ Goto(p, released)
            /\ UNCHANGED priority
       ELSE Goto(p, kept) /\ UNCHANGED lockVars

\* The locked section of mutex_unlock, called at section l; it goes on at
\* released when the last level is released, else at kept.  A caller that is
\* not the owner changes nothing.
Unlock(p, l, released, kept) ==
    /\ At(p, l)
    /\ IF owner = p
       THEN /\ recurse_count' = recurse_count - 1
            /\ owner' = IF recurse_count = 1 THEN None ELSE owner
            /\ depth' = [depth EXCEPT ![p] = @ - 1]
            /\ Goto(p, IF recurse_count = 1 THEN released ELSE kept)
            /\ UNCHANGED priority
       ELSE Goto(p, kept) /\ UNCHANGED lockVars

mutex_unlock(p) == Unlock(p, "unlock", "wake_up", "idle")

mutex_unlock_wakes(p) ==
    At(p, "wake_up") /\ wake_up(p, "idle", "mutex", "lock", Inside("sleep")) /\ UNCHANGED lockVars

-----------------------------------------------------------------------------
\* cond_wait: mutex_unlock, sleep_on, mutex_lock.
cond_wait(p) == Unlock(p, "cond_wait", "cond_wake_up", "cond_sleep")

cond_wait_wakes(p) ==
    /\ At(p, "cond_wake_up")
    /\ wake_up(p, "cond_sleep", "mutex", "lock", Inside("sleep"))
    /\ UNCHANGED lockVars

cond_wait_sleeps(p) == At(p, "cond_sleep") /\ sleep_on(p, "cond") /\ UNCHANGED lockVars

\* The processes that are inside cond_wait and not yet asleep.
OnTheWay == Inside("cond_wake_up") \union Inside("cond_sleep")

cond_signal(p) ==
    At(p, "idle") /\ wake_up(p, "idle", "cond", "lock", OnTheWay) /\ UNCHANGED lockVars

\* Faulty variant: the woken processes do not take the mutex again.
cond_broadcast_NoRelock(p) ==
    At(p, "idle") /\ wake_up_all(p, "idle", "cond", "idle", OnTheWay) /\ UNCHANGED lockVars

cond_broadcast(p) ==
    At(p, "idle") /\ wake_up_all(p, "idle", "cond", "lock", OnTheWay) /\ UNCHANGED lockVars

MutexYield == Switch(Inside("idle")) /\ UNCHANGED lockVars

MutexNext ==
    \/ MutexYield
    \/ \E p \in Proc :
          \/ CallLock(p) \/ CallUnlock(p) \/ CallCondWait(p)
          \/ mutex_lock(p) \/ mutex_lock_sleeps(p)
          \/ mutex_unlock(p) \/ mutex_unlock_wakes(p)
          \/ cond_wait(p) \/ cond_wait_wakes(p) \/ cond_wait_sleeps(p)
          \/ cond_signal(p) \/ cond_broadcast(p)

MutexSpec == mutex_init /\ [][MutexNext]_mutexVars

-----------------------------------------------------------------------------
MutexLabels == {"idle", "lock", "sleep", "asleep", "unlock", "wake_up",
           "cond_wait", "cond_wake_up", "cond_sleep"}

\* The variables of the mutex, the condition and their clients keep their types.
MutexTypeOK ==
    /\ SyncTypeOK(MutexLabels)
    /\ owner \in Proc \union {None}
    /\ recurse_count \in Nat
    /\ priority \in [Proc -> Priority]
    /\ depth \in [Proc -> Nat]

\* Mutual exclusion as the callers see it: a process whose mutex_lock calls have
\* returned more often than it has unlocked is the owner, the recursion count
\* is its nesting depth, and so no two processes are inside at once - also
\* when others call mutex_unlock without owning the mutex, and when a waiter
\* returning from cond_wait races for the mutex.
MutualExclusion ==
    \A p \in Proc : IF owner = p THEN depth[p] = recurse_count /\ depth[p] > 0
                                 ELSE depth[p] = 0

\* A free mutex is never left with sleepers and nobody on the way: some process
\* is about to try the lock or to call wake_up.  Excepted are the sleepers the
\* wake-up passed by, between the spinlock of mutex_lock and sleep_on.
NoLostUnlock ==
    owner = None /\ Sleepers("mutex") # {}
        => \E p \in Proc : pc[p] \in {"lock", "wake_up", "cond_wake_up"}
=============================================================================
