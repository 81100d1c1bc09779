----------------------------- MODULE MutexProofs -----------------------------
(***************************************************************************)
(* Mutual exclusion of the recursive mutex, and that no unlock is lost on  *)
(* a process already asleep, for any number of processes, any nesting,     *)
(* with and without preemption.                                            *)
(***************************************************************************)
EXTENDS Mutex, SyncProofs

\* The provers in the order they are tried, with their time limits in seconds.
USE ZenonT(3), SMTT(30), ZenonT(30)

IInv == MutexTypeOK /\ MutualExclusion

\* What is left of the invariant once the wait-queue part is set aside.
LockOK == /\ owner \in Proc \union {None}
          /\ recurse_count \in Nat
          /\ priority \in [Proc -> Priority]
          /\ depth \in [Proc -> Nat]
          /\ MutualExclusion

\* The invariant is these two parts, before and after a step.
LEMMA Split == /\ IInv <=> SyncTypeOK(MutexLabels) /\ LockOK
               /\ IInv' <=> SyncTypeOK(MutexLabels)' /\ LockOK'
BY DEF IInv, MutexTypeOK, SyncTypeOK, LockOK

\* A step that leaves the mutex alone leaves its part of the invariant alone.
LEMMA LockUnchanged == LockOK /\ UNCHANGED lockVars => LockOK'
BY DEF LockOK, lockVars, MutualExclusion

\* The queues the primitive uses, and its labels.
LEMMA Names ==
    /\ "mutex" \in Queues /\ "cond" \in Queues
    /\ {"idle", "lock", "sleep", "asleep", "unlock", "wake_up",
        "cond_wait", "cond_wake_up", "cond_sleep"} = MutexLabels
BY MutexAssumption DEF MutexLabels

\* The processes a wake-up may pass by are processes.
LEMMA Passed == Inside("sleep") \in SUBSET Proc /\ OnTheWay \in SUBSET Proc
BY DEF Inside, OnTheWay

\* The locked section of mutex_unlock, shared by cond_wait.
LEMMA UnlockStep ==
    ASSUME NEW p \in Proc, NEW l \in MutexLabels,
           NEW released \in MutexLabels, NEW kept \in MutexLabels, IInv, Unlock(p, l, released, kept)
    PROVE  IInv'
<1> USE Split
<1>1. CASE owner = p
  <2>1. recurse_count \in Nat /\ recurse_count > 0 /\ depth[p] = recurse_count
        BY <1>1 DEF LockOK, MutualExclusion
  <2>2. PICK m \in MutexLabels : Goto(p, m)
        BY <1>1 DEF Unlock
  <2>3. SyncTypeOK(MutexLabels)'  BY <2>2, GotoType
  <2>4. /\ recurse_count' = recurse_count - 1
        /\ owner' = IF recurse_count = 1 THEN None ELSE owner
        /\ depth' = [depth EXCEPT ![p] = @ - 1]
        /\ priority' = priority
        BY <1>1 DEF Unlock
  <2>5. /\ owner' \in Proc \union {None} /\ recurse_count' \in Nat
        /\ depth' \in [Proc -> Nat] /\ priority' \in [Proc -> Priority]
        BY <2>1, <2>4 DEF LockOK
  <2>6. MutualExclusion'
        BY <1>1, <2>1, <2>4, MutexAssumption DEF LockOK, MutualExclusion
  <2> QED  BY <2>3, <2>5, <2>6 DEF LockOK
<1>2. CASE owner # p
  <2>1. Goto(p, kept) /\ UNCHANGED lockVars  BY <1>2 DEF Unlock
  <2> QED  BY <2>1, GotoType, LockUnchanged
<1> QED  BY <1>1, <1>2

-----------------------------------------------------------------------------
\* mutex_init establishes the invariant.
LEMMA InitInv == mutex_init => IInv
<1> SUFFICES ASSUME mutex_init PROVE IInv  OBVIOUS
<1>2. SyncTypeOK(MutexLabels)  BY Names, InitType DEF mutex_init
<1>3. LockOK
      BY MutexAssumption DEF mutex_init, LockOK, MutualExclusion
<1> QED  BY <1>2, <1>3, Split

\* The acquiring section: taking the free mutex, nesting, or lending priority.
LEMMA LockStep ==
    ASSUME NEW p \in Proc, IInv, mutex_lock(p) PROVE IInv'
<1> USE Split
<1>1. PICK m \in MutexLabels : Goto(p, m)  BY Names DEF mutex_lock
<1>2. SyncTypeOK(MutexLabels)'  BY <1>1, GotoType
<1>3. CASE owner = None
  <2>1. /\ owner' = p /\ recurse_count' = 1 /\ priority' = priority
        /\ depth' = [depth EXCEPT ![p] = @ + 1]
        BY <1>3, MutexAssumption DEF mutex_lock
  <2>2. \A q \in Proc : depth[q] = 0
        BY <1>3, MutexAssumption DEF LockOK, MutualExclusion
  <2>3. LockOK'  BY <2>1, <2>2 DEF LockOK, MutualExclusion
  <2> QED  BY <1>2, <2>3
<1>4. CASE owner = p
  <2>1. /\ owner' = owner /\ recurse_count' = recurse_count + 1 /\ priority' = priority
        /\ depth' = [depth EXCEPT ![p] = @ + 1]
        BY <1>4, MutexAssumption DEF mutex_lock
  <2>2. LockOK'  BY <1>4, <2>1 DEF LockOK, MutualExclusion
  <2> QED  BY <1>2, <2>2
<1>5. CASE owner \notin {None, p}
  <2>1. priority' = Lend(p) /\ UNCHANGED <<owner, recurse_count, depth>>
        BY <1>5 DEF mutex_lock
  <2>2. owner \in Proc  BY <1>5 DEF LockOK
  <2>3. priority' \in [Proc -> Priority]  BY <2>1, <2>2 DEF Lend, LockOK
  <2>4. LockOK'  BY <2>1, <2>3 DEF LockOK, MutualExclusion
  <2> QED  BY <1>2, <2>4
<1> QED  BY <1>3, <1>4, <1>5

\* A wake-up that leaves the mutex alone preserves the invariant.
LEMMA WakeStep ==
    ASSUME NEW p \in Proc, NEW q \in Queues, NEW l \in MutexLabels, NEW r \in MutexLabels,
           NEW W \in SUBSET Proc, IInv, UNCHANGED lockVars,
           wake_up(p, l, q, r, W) \/ wake_up_all(p, l, q, r, W)
    PROVE  IInv'
<1>1. SyncTypeOK(MutexLabels) /\ LockOK  BY Split
<1>2. SyncTypeOK(MutexLabels)'
  <2>1. CASE wake_up(p, l, q, r, W)  BY <1>1, <2>1, WakeUpType
  <2>2. CASE wake_up_all(p, l, q, r, W)  BY <1>1, <2>2, WakeUpAllType
  <2> QED  BY <2>1, <2>2
<1>3. LockOK'  BY <1>1, LockUnchanged
<1> QED  BY <1>2, <1>3, Split

\* Every step of every process preserves the invariant.
LEMMA NextInv == IInv /\ [MutexNext]_mutexVars => IInv'
<1> SUFFICES ASSUME IInv, [MutexNext]_mutexVars PROVE IInv'  OBVIOUS
<1>0. SyncTypeOK(MutexLabels) /\ LockOK  BY Split
<1>1. CASE MutexYield
  <2>1. SyncTypeOK(MutexLabels)'  BY <1>0, <1>1 DEF MutexYield, Switch, SwitchFrom, SyncTypeOK
  <2>2. LockOK'  BY <1>0, <1>1, LockUnchanged DEF MutexYield
  <2> QED  BY <2>1, <2>2, Split
<1>2. ASSUME NEW p \in Proc, CallLock(p) \/ CallUnlock(p) \/ CallCondWait(p) PROVE IInv'
  <2>1. PICK m \in MutexLabels : Goto(p, m)  BY <1>2, Names DEF CallLock, CallUnlock, CallCondWait
  <2>2. UNCHANGED lockVars  BY <1>2 DEF CallLock, CallUnlock, CallCondWait
  <2>3. SyncTypeOK(MutexLabels)'  BY <1>0, <2>1, GotoType
  <2> QED  BY <1>0, <2>2, <2>3, LockUnchanged, Split
<1>3. ASSUME NEW p \in Proc, mutex_lock(p) PROVE IInv'  BY <1>3, LockStep
<1>4. ASSUME NEW p \in Proc, mutex_lock_sleeps(p) PROVE IInv'
  <2>1. sleep_on(p, "mutex") /\ UNCHANGED lockVars  BY <1>4 DEF mutex_lock_sleeps
  <2>2. "mutex" \in Queues /\ "asleep" \in MutexLabels  BY Names
  <2>3. SyncTypeOK(MutexLabels)'  BY <1>0, <2>1, <2>2, SleepOnType
  <2> QED  BY <1>0, <2>1, <2>3, LockUnchanged, Split
<1>5. ASSUME NEW p \in Proc, mutex_unlock(p) PROVE IInv'
      BY <1>5, Names, UnlockStep DEF mutex_unlock
<1>6. ASSUME NEW p \in Proc, mutex_unlock_wakes(p) PROVE IInv'
  <2>1. wake_up(p, "idle", "mutex", "lock", Inside("sleep")) /\ UNCHANGED lockVars
        BY <1>6 DEF mutex_unlock_wakes
  <2>2. "idle" \in MutexLabels /\ "lock" \in MutexLabels  BY Names
  <2>3. "mutex" \in Queues /\ Inside("sleep") \in SUBSET Proc  BY Names, Passed
  <2> QED  BY <2>1, <2>2, <2>3, WakeStep
<1>7. ASSUME NEW p \in Proc, cond_wait(p) PROVE IInv'
      BY <1>7, Names, UnlockStep DEF cond_wait
<1>8. ASSUME NEW p \in Proc, cond_wait_wakes(p) PROVE IInv'
  <2>1. wake_up(p, "cond_sleep", "mutex", "lock", Inside("sleep")) /\ UNCHANGED lockVars
        BY <1>8 DEF cond_wait_wakes
  <2>2. "cond_sleep" \in MutexLabels /\ "lock" \in MutexLabels  BY Names
  <2>3. "mutex" \in Queues /\ Inside("sleep") \in SUBSET Proc  BY Names, Passed
  <2> QED  BY <2>1, <2>2, <2>3, WakeStep
<1>9. ASSUME NEW p \in Proc, cond_wait_sleeps(p) PROVE IInv'
  <2>1. sleep_on(p, "cond") /\ UNCHANGED lockVars  BY <1>9 DEF cond_wait_sleeps
  <2>2. "cond" \in Queues /\ "asleep" \in MutexLabels  BY Names
  <2>3. SyncTypeOK(MutexLabels)'  BY <1>0, <2>1, <2>2, SleepOnType
  <2> QED  BY <1>0, <2>1, <2>3, LockUnchanged, Split
<1>10. ASSUME NEW p \in Proc, cond_signal(p) PROVE IInv'
  <2>1. wake_up(p, "idle", "cond", "lock", OnTheWay) /\ UNCHANGED lockVars
        BY <1>10 DEF cond_signal
  <2>2. "idle" \in MutexLabels /\ "lock" \in MutexLabels  BY Names
  <2>3. "cond" \in Queues /\ OnTheWay \in SUBSET Proc  BY Names, Passed
  <2> QED  BY <2>1, <2>2, <2>3, WakeStep
<1>11. ASSUME NEW p \in Proc, cond_broadcast(p) PROVE IInv'
  <2>1. wake_up_all(p, "idle", "cond", "lock", OnTheWay) /\ UNCHANGED lockVars
        BY <1>11 DEF cond_broadcast
  <2>2. "idle" \in MutexLabels /\ "lock" \in MutexLabels  BY Names
  <2>3. "cond" \in Queues /\ OnTheWay \in SUBSET Proc  BY Names, Passed
  <2> QED  BY <2>1, <2>2, <2>3, WakeStep
<1>12. CASE UNCHANGED mutexVars
  <2>1. UNCHANGED syncVars /\ UNCHANGED lockVars  BY <1>12 DEF mutexVars, syncVars, lockVars
  <2>2. SyncTypeOK(MutexLabels)'  BY <1>0, <2>1 DEF syncVars, SyncTypeOK
  <2> QED  BY <1>0, <2>1, <2>2, LockUnchanged, Split
<1> QED  BY <1>1, <1>2, <1>3, <1>4, <1>5, <1>6, <1>7, <1>8, <1>9, <1>10, <1>11, <1>12
         DEF MutexNext

\* The types of mutex_t, its queues and its clients hold for any set of processes.
THEOREM TypeCorrect == MutexSpec => []MutexTypeOK
<1>1. IInv => MutexTypeOK  BY DEF IInv
<1> QED  BY <1>1, InitInv, NextInv, PTL DEF MutexSpec

\* mutex_lock and mutex_unlock give mutual exclusion, for any set of processes,
\* any nesting, any priorities, with and without preemption, while other
\* processes call mutex_unlock without owning the mutex.
THEOREM Exclusion == MutexSpec => []MutualExclusion
<1>1. IInv => MutualExclusion  BY DEF IInv
<1> QED  BY <1>1, InitInv, NextInv, PTL DEF MutexSpec

-----------------------------------------------------------------------------
\* A process on its way to the mutex queue, no wake-up having passed it by,
\* counts as a sleeper too: that makes NoLostUnlock inductive.
Waiting == (Inside("sleep") \union Queued("mutex")) \ missed

Alert == {"lock", "wake_up", "cond_wake_up"}

UnlockInv == owner = None /\ Waiting # {} => \E x \in Proc : pc[x] \in Alert

\* A step to another section that nobody waits in: if the process was one of
\* those who will try the mutex or wake a sleeper, another one is left or the
\* mutex is taken.
LEMMA MoveKeeps ==
    ASSUME NEW p \in Proc, NEW m, SyncTypeOK(MutexLabels), UnlockInv, Goto(p, m),
           \/ owner' # None
           \/ m \in Alert
           \/ owner' = owner /\ pc[p] \notin Alert /\ m # "sleep"
    PROVE  UnlockInv'
<1>1. CASE owner' # None  BY <1>1 DEF UnlockInv
<1>2. CASE m \in Alert  BY <1>2 DEF UnlockInv, Goto, SyncTypeOK
<1>3. CASE owner' = owner /\ pc[p] \notin Alert /\ m # "sleep"
  <2>1. /\ wait' = wait /\ missed' = missed
        /\ \A x \in Proc : x # p => pc'[x] = pc[x]
        /\ pc'[p] = m
        BY DEF Goto, SyncTypeOK
  <2>2. Waiting' \subseteq Waiting  BY <1>3, <2>1 DEF Waiting, Queued, Inside
  <2> QED  BY <1>3, <2>1, <2>2 DEF UnlockInv
<1> QED  BY <1>1, <1>2, <1>3

\* A wake-up on the mutex either makes its first sleeper try the mutex or passes
\* by everybody on the way to the queue.
LEMMA WakeKeeps ==
    ASSUME NEW p \in Proc, NEW l \in MutexLabels, SyncTypeOK(MutexLabels), UnlockInv, l # "sleep",
           pc[p] \in Alert, wake_up(p, l, "mutex", "lock", Inside("sleep"))
    PROVE  UnlockInv'
<1>1. wait["mutex"] \in Seq(Proc)  BY Names DEF SyncTypeOK
<1>2. CASE wait["mutex"] = <<>>
  <2>1. /\ wait' = wait /\ missed' = missed \union Inside("sleep")
        /\ pc' = [pc EXCEPT ![p] = l]
        BY <1>2 DEF wake_up
  <2>2. Inside("sleep")' \subseteq Inside("sleep")  BY <2>1 DEF Inside, SyncTypeOK
  <2>3. DOMAIN wait'["mutex"] = {}  BY <1>2, <2>1
  <2>4. Waiting' = {}  BY <2>1, <2>2, <2>3 DEF Waiting, Queued
  <2> QED  BY <2>4 DEF UnlockInv
<1>3. CASE wait["mutex"] # <<>>
  <2>1. Head(wait["mutex"]) \in Proc  BY <1>1, <1>3
  <2>2. pc'[Head(wait["mutex"])] = "lock"  BY <1>3, <2>1 DEF wake_up, SyncTypeOK
  <2> QED  BY <2>1, <2>2 DEF UnlockInv, Alert
<1> QED  BY <1>2, <1>3

\* A signal of the condition concerns the mutex by those it wakes, who go on to
\* lock it.
LEMMA SignalKeeps ==
    ASSUME NEW p \in Proc, SyncTypeOK(MutexLabels), QueueInv, UnlockInv,
           UNCHANGED owner, pc[p] = "idle",
           \/ wake_up(p, "idle", "cond", "lock", OnTheWay)
           \/ wake_up_all(p, "idle", "cond", "lock", OnTheWay)
    PROVE  UnlockInv'
<1>1. wait["cond"] \in Seq(Proc) /\ wait'["mutex"] = wait["mutex"]
      BY Names DEF SyncTypeOK, wake_up, wake_up_all
<1>2. CASE wait["cond"] = <<>>
  <2>1. missed' = missed \union OnTheWay /\ pc' = pc
    <3> DOMAIN wait["cond"] = {}  BY <1>2
    <3>1. CASE wake_up(p, "idle", "cond", "lock", OnTheWay)
          BY <1>2, <3>1 DEF wake_up, SyncTypeOK
    <3>2. CASE wake_up_all(p, "idle", "cond", "lock", OnTheWay)
      <4>1. \A x \in Proc : pc'[x] = pc[x]  BY <3>2 DEF wake_up_all
      <4>2. pc' = [x \in Proc |-> pc'[x]] /\ pc = [x \in Proc |-> pc[x]]
            BY <3>2 DEF wake_up_all, SyncTypeOK
      <4> QED  BY <3>2, <4>1, <4>2 DEF wake_up_all
    <3> QED  BY <3>1, <3>2
  <2>2. Waiting' \subseteq Waiting  BY <1>1, <2>1 DEF Waiting, Queued, Inside
  <2> QED  BY <2>1, <2>2 DEF UnlockInv
<1>3. CASE wait["cond"] # <<>>
  <2>1. 1 \in DOMAIN wait["cond"] /\ wait["cond"][1] \in Proc
        /\ Head(wait["cond"]) = wait["cond"][1]
        BY <1>1, <1>3
  <2>2. wait["cond"][1] # p  BY <2>1, Names DEF QueueInv
  <2>3. pc'[wait["cond"][1]] = "lock"
    <3>1. CASE wake_up(p, "idle", "cond", "lock", OnTheWay)
          BY <1>3, <2>1, <3>1 DEF wake_up, SyncTypeOK
    <3>2. CASE wake_up_all(p, "idle", "cond", "lock", OnTheWay)
          BY <2>1, <2>2, <3>2 DEF wake_up_all
    <3> QED  BY <3>1, <3>2
  <2> QED  BY <2>1, <2>3 DEF UnlockInv, Alert
<1> QED  BY <1>2, <1>3

\* Going to sleep on the mutex, the process was counted before; on the condition,
\* it is no longer counted.
LEMMA SleepKeeps ==
    ASSUME NEW p \in Proc, NEW q \in Queues, SyncTypeOK(MutexLabels), UnlockInv, UNCHANGED owner,
           \/ q = "mutex" /\ pc[p] = "sleep"
           \/ q = "cond" /\ pc[p] = "cond_sleep",
           sleep_on(p, q)
    PROVE  UnlockInv'
<1>1. /\ missed' = missed /\ pc'[p] = "asleep"
      /\ \A x \in Proc : x # p => pc'[x] = pc[x]
      BY DEF sleep_on, SyncTypeOK
<1>2. Queued("mutex")' \subseteq Queued("mutex") \union IF q = "mutex" THEN {p} ELSE {}
  <2>1. CASE q = "cond"
    <3>1. wait'["mutex"] = wait["mutex"]  BY <2>1, Names DEF sleep_on, SyncTypeOK
    <3> QED  BY <3>1 DEF Queued
  <2>2. CASE q = "mutex"
    <3>1. wait["mutex"] \in Seq(Proc) /\ wait'["mutex"] = Append(wait["mutex"], p)
          BY <2>2, Names DEF sleep_on, SyncTypeOK
    <3>2. \A i \in DOMAIN wait'["mutex"] :
             wait'["mutex"][i] = p \/ (i \in DOMAIN wait["mutex"] /\ wait'["mutex"][i] = wait["mutex"][i])
          BY <3>1
    <3> QED  BY <2>2, <3>2 DEF Queued
  <2> QED  BY <2>1, <2>2
<1>3. Waiting' \subseteq Waiting  BY <1>1, <1>2 DEF Waiting, Queued, Inside
<1>4. \A x \in Proc : pc[x] \in Alert => pc'[x] \in Alert  BY <1>1 DEF Alert
<1> QED  BY <1>3, <1>4 DEF UnlockInv

-----------------------------------------------------------------------------
WInv == IInv /\ QueueInv /\ UnlockInv

\* Every step of every process preserves the invariant.
LEMMA WNextInv == WInv /\ [MutexNext]_mutexVars => WInv'
<1> SUFFICES ASSUME WInv, [MutexNext]_mutexVars PROVE QueueInv' /\ UnlockInv'
    BY NextInv DEF WInv
<1> USE Names
<1>1. /\ SyncTypeOK(MutexLabels) /\ QueueInv /\ UnlockInv /\ None \notin Proc
      /\ owner \in Proc \union {None}
      BY Split, MutexAssumption DEF WInv, LockOK
<1>2. CASE MutexYield \/ UNCHANGED mutexVars
  <2>1. UNCHANGED <<wait, pc, missed, owner>>
        BY <1>2 DEF MutexYield, Switch, lockVars, mutexVars, syncVars
  <2>2. QueueInv'  BY <1>1, <2>1 DEF QueueInv
  <2>3. UnlockInv'  BY <1>1, <2>1 DEF UnlockInv, Waiting, Queued, Inside
  <2> QED  BY <2>2, <2>3
<1>3. ASSUME NEW p \in Proc, CallLock(p) \/ CallUnlock(p) \/ CallCondWait(p)
      PROVE  QueueInv' /\ UnlockInv'
  <2>1. PICK m \in {"lock", "unlock", "cond_wait"} : Goto(p, m)
        BY <1>3 DEF CallLock, CallUnlock, CallCondWait
  <2>2. pc[p] = "idle" /\ owner' = owner
        BY <1>3 DEF CallLock, CallUnlock, CallCondWait, At, lockVars
  <2>3. QueueInv'  BY <1>1, <2>1, <2>2, GotoQueues
  <2>4. UnlockInv'  BY <1>1, <2>1, <2>2, MoveKeeps DEF Alert
  <2> QED  BY <2>3, <2>4
<1>4. ASSUME NEW p \in Proc, mutex_lock(p) PROVE QueueInv' /\ UnlockInv'
  <2>1. PICK m \in {"idle", "sleep"} : Goto(p, m)  BY <1>4 DEF mutex_lock
  <2>2. pc[p] = "lock" /\ owner' # None  BY <1>1, <1>4 DEF mutex_lock, At
  <2>3. QueueInv'  BY <1>1, <2>1, <2>2, GotoQueues
  <2>4. UnlockInv'  BY <1>1, <2>1, <2>2, MoveKeeps
  <2> QED  BY <2>3, <2>4
<1>5. ASSUME NEW p \in Proc, NEW l \in {"unlock", "cond_wait"}, NEW released \in {"wake_up", "cond_wake_up"},
             NEW kept \in {"idle", "cond_sleep"}, Unlock(p, l, released, kept)
      PROVE  QueueInv' /\ UnlockInv'
  <2>1. PICK m \in {released, kept} :
           Goto(p, m) /\ (m \in Alert \/ owner' = owner)
        BY <1>1, <1>5 DEF Unlock, Alert, lockVars
  <2>2. pc[p] = l  BY <1>5 DEF Unlock, At
  <2>3. QueueInv'  BY <1>1, <2>1, <2>2, GotoQueues
  <2>4. UnlockInv'  BY <1>1, <2>1, <2>2, MoveKeeps DEF Alert
  <2> QED  BY <2>3, <2>4
<1>6. ASSUME NEW p \in Proc, mutex_unlock(p) \/ cond_wait(p) PROVE QueueInv' /\ UnlockInv'
      BY <1>5, <1>6 DEF mutex_unlock, cond_wait
<1>7. ASSUME NEW p \in Proc, mutex_unlock_wakes(p) \/ cond_wait_wakes(p)
      PROVE  QueueInv' /\ UnlockInv'
  <2>1. PICK l \in {"idle", "cond_sleep"} : wake_up(p, l, "mutex", "lock", Inside("sleep"))
        BY <1>7 DEF mutex_unlock_wakes, cond_wait_wakes
  <2>2. pc[p] \in {"wake_up", "cond_wake_up"}
        BY <1>7 DEF mutex_unlock_wakes, cond_wait_wakes, At
  <2>3. QueueInv'  BY <1>1, <2>1, <2>2, WakeUpQueues
  <2>4. UnlockInv'  BY <1>1, <2>1, <2>2, WakeKeeps DEF Alert
  <2> QED  BY <2>3, <2>4
<1>8. ASSUME NEW p \in Proc, mutex_lock_sleeps(p) PROVE QueueInv' /\ UnlockInv'
      BY <1>1, <1>8, SleepOnQueues, SleepKeeps DEF mutex_lock_sleeps, At, lockVars
<1>9. ASSUME NEW p \in Proc, cond_wait_sleeps(p) PROVE QueueInv' /\ UnlockInv'
      BY <1>1, <1>9, SleepOnQueues, SleepKeeps DEF cond_wait_sleeps, At, lockVars
<1>10. ASSUME NEW p \in Proc, cond_signal(p) PROVE QueueInv' /\ UnlockInv'
      BY <1>1, <1>10, WakeUpQueues, SignalKeeps DEF cond_signal, At, lockVars
<1>11. ASSUME NEW p \in Proc, cond_broadcast(p) PROVE QueueInv' /\ UnlockInv'
      BY <1>1, <1>11, WakeUpAllQueues, SignalKeeps DEF cond_broadcast, At, lockVars
<1> QED  BY <1>2, <1>3, <1>4, <1>6, <1>7, <1>8, <1>9, <1>10, <1>11 DEF MutexNext

\* No mutex_unlock is lost on a process that is asleep: while the mutex is free
\* and a process sleeps for it that no wake-up has passed by, some process is
\* about to try the mutex or to call wake_up; for any set of processes, with
\* and without preemption.
THEOREM UnlockReaches == MutexSpec => []NoLostUnlock
<1>1. mutex_init => QueueInv /\ UnlockInv
  <2> SUFFICES ASSUME mutex_init PROVE QueueInv /\ UnlockInv  OBVIOUS
  <2>1. /\ \A q \in Queues : DOMAIN wait[q] = {}
        /\ \A x \in Proc : pc[x] = "idle"
        BY DEF mutex_init, SyncInit
  <2>2. QueueInv  BY <2>1 DEF QueueInv
  <2>3. Waiting = {}  BY <2>1, Names DEF Waiting, Queued, Inside
  <2> QED  BY <2>2, <2>3 DEF UnlockInv
<1>2. WInv => NoLostUnlock
      BY DEF WInv, UnlockInv, Waiting, Queued, Alert, NoLostUnlock, Sleepers
<1>3. mutex_init => WInv  BY <1>1, InitInv DEF WInv
<1> QED  BY <1>2, <1>3, WNextInv, PTL DEF MutexSpec
=============================================================================
