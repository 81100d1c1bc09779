------------------------------- MODULE RtMutex -------------------------------
(***************************************************************************)
(* rt_mutex with priority inheritance.  The wait_lock keeps interrupts off *)
(* and a process gives up the CPU only in process_schedule, so lock, up to *)
(* the schedule, what follows it, and unlock are one step each.  A smaller *)
(* number is a better priority; base_priority is 0 for every process.  A   *)
(* process that has used up its time slice loses a level, lent or its own. *)
(***************************************************************************)
EXTENDS Integers, SequencesExt

CONSTANTS RtProc, RtLock, MLFQ_LEVELS

ASSUME RtAssumption == MLFQ_LEVELS \in Nat \ {0} /\ 0 \notin RtProc \union RtLock

VARIABLES
    rt_owner,   \* owner of each lock, or 0
    wait_list,  \* waiters of each lock
    priority,
    rt_waits,   \* the lock each process waits for, or 0
    rt_ready,   \* how often each waiter is on the run queue
    behind,     \* history: the priority a waiter has lent to the owner of its lock, or
                \* had when the last unlock chose among the waiters; less what the
                \* owner has lost to used up time slices since
    barged      \* history: a lock was taken before the waiter made ready for it ran

rtVars == <<rt_owner, wait_list, priority, rt_waits, rt_ready, behind, barged>>

Lowest == MLFQ_LEVELS - 1
base_priority == 0
held_locks(p) == {l \in RtLock : rt_owner[l] = p}

RtInit ==
    /\ rt_owner = [l \in RtLock |-> 0] /\ wait_list = [l \in RtLock |-> <<>>]
    /\ priority = [p \in RtProc |-> base_priority]
    /\ rt_waits = [p \in RtProc |-> 0] /\ rt_ready = [p \in RtProc |-> 0]
    /\ behind = [p \in RtProc |-> Lowest] /\ barged = FALSE

\* Faulty variant: the owner keeps its own priority.
rt_mutex_adjust_prio_chain_None(o, prio) == priority

\* rt_mutex_adjust_prio_chain: the owner is raised; its loop goes no further up.
rt_mutex_adjust_prio_chain(o, prio) == [priority EXCEPT ![o] = IF @ <= prio THEN @ ELSE prio]

\* rt_mutex_restore_prio, after lock l has left the list of held locks.
rt_mutex_restore_prio(p, l) ==
    LET waiting == {w \in RtProc : rt_waits[w] \in held_locks(p) \ {l} /\ rt_waits[w] # 0}
        prios == {base_priority} \union {priority[w] : w \in waiting}
    IN  [priority EXCEPT ![p] = CHOOSE n \in prios : \A m \in prios : n <= m]

\* p becomes the owner.  The waiters can count on it if it is the one of them
\* that unlock has made ready, and on nothing if it was faster than that one.
Take(p, l) ==
    LET faster == \E w \in RtProc \ {p} : rt_waits[w] = l /\ rt_ready[w] > 0
    IN  /\ rt_owner' = [rt_owner EXCEPT ![l] = p]
        /\ barged' = (barged \/ faster)
        /\ behind' = [w \in RtProc |-> IF w = p \/ (faster /\ rt_waits[w] = l)
                                       THEN Lowest ELSE behind[w]]

rt_mutex_lock(p, l) ==
    /\ rt_waits[p] = 0
    /\ \/ /\ rt_owner[l] = 0 /\ Take(p, l)
          /\ UNCHANGED <<wait_list, priority, rt_waits, rt_ready>>
       \/ /\ rt_owner[l] \notin {0, p}
          /\ wait_list' = [wait_list EXCEPT ![l] = Append(@, p)]
          /\ priority' = IF priority[p] < priority[rt_owner[l]]
                         THEN rt_mutex_adjust_prio_chain(rt_owner[l], priority[p]) ELSE priority
          /\ rt_waits' = [rt_waits EXCEPT ![p] = l]
          /\ behind' = [behind EXCEPT ![p] = priority[p]]
          /\ UNCHANGED <<rt_owner, rt_ready, barged>>

\* The waiter runs again: it takes the lock if it is free, or blocks again.
rt_mutex_resume(p) ==
    LET l == rt_waits[p]
    IN  /\ l # 0 /\ rt_ready[p] > 0
        /\ rt_ready' = [rt_ready EXCEPT ![p] = @ - 1]
        /\ UNCHANGED priority
        /\ IF rt_owner[l] = 0
           THEN /\ Take(p, l)
                /\ wait_list' = [wait_list EXCEPT ![l] = SelectSeq(@, LAMBDA w : w # p)]
                /\ rt_waits' = [rt_waits EXCEPT ![p] = 0]
           ELSE UNCHANGED <<rt_owner, wait_list, rt_waits, behind, barged>>

\* A process that is on the run queue once more than it should be just runs.
Rerun(p) == /\ rt_waits[p] = 0 /\ rt_ready[p] > 0 /\ rt_ready' = [rt_ready EXCEPT ![p] = @ - 1]
            /\ UNCHANGED <<rt_owner, wait_list, priority, rt_waits, behind, barged>>

\* process_schedule in a process whose time slice is used up.
Demote(p) ==
    /\ rt_waits[p] = 0 /\ priority[p] < Lowest
    /\ priority' = [priority EXCEPT ![p] = @ + 1]
    /\ behind' = [w \in RtProc |-> IF rt_waits[w] \in held_locks(p) /\ behind[w] < priority'[p]
                                   THEN priority'[p] ELSE behind[w]]
    /\ UNCHANGED <<rt_owner, wait_list, rt_waits, rt_ready, barged>>

rt_mutex_trylock(p, l) ==
    /\ rt_waits[p] = 0 /\ rt_owner[l] = 0 /\ Take(p, l)
    /\ UNCHANGED <<wait_list, priority, rt_waits, rt_ready>>

\* Faulty variant: the first waiter, whatever its priority.
BestWaiter_First(l) == Head(wait_list[l])

\* The waiter unlock makes ready: the first of those with the best priority.
\* It stays on the list until it runs.
BestWaiter(l) ==
    LET q == wait_list[l]
        i == CHOOSE i \in DOMAIN q : \A j \in DOMAIN q :
                 priority[q[i]] < priority[q[j]] \/ (priority[q[i]] = priority[q[j]] /\ i <= j)
    IN  q[i]

rt_mutex_unlock(p, l) ==
    /\ rt_waits[p] = 0 /\ rt_owner[l] = p
    /\ rt_owner' = [rt_owner EXCEPT ![l] = 0]
    /\ priority' = IF priority[p] # base_priority THEN rt_mutex_restore_prio(p, l) ELSE priority
    /\ rt_ready' = IF wait_list[l] = <<>> THEN rt_ready
                   ELSE [rt_ready EXCEPT ![BestWaiter(l)] = IF @ < 2 THEN @ + 1 ELSE @]
    /\ behind' = [w \in RtProc |-> IF rt_waits[w] = l THEN priority[w] ELSE behind[w]]
    /\ UNCHANGED <<wait_list, rt_waits, barged>>

RtNext == \E p \in RtProc :
              \/ rt_mutex_resume(p) \/ Rerun(p) \/ Demote(p)
              \/ \E l \in RtLock : rt_mutex_lock(p, l) \/ rt_mutex_trylock(p, l) \/ rt_mutex_unlock(p, l)

-----------------------------------------------------------------------------
\* Priority inheritance does what it is for: the owner of a lock runs at least
\* at the priority of every process that queued behind it, and of every waiter
\* it left behind when unlock chose it, but for the levels it has itself lost to
\* used up time slices since.  Nothing is promised behind an owner that took the
\* lock before the chosen waiter ran.  A free lock with waiters has one on the
\* run queue, and as long as nobody took a lock before the chosen waiter ran, no
\* process is there twice.  (Otherwise the next unlock may make that waiter
\* ready a second time.)
PriorityInherited ==
    /\ \A l \in RtLock, w \in RtProc :
         rt_waits[w] = l /\ rt_owner[l] # 0 => priority[rt_owner[l]] <= behind[w]
    /\ \A l \in RtLock : rt_owner[l] = 0 /\ wait_list[l] # <<>>
                         => \E w \in RtProc : rt_waits[w] = l /\ rt_ready[w] > 0
    /\ barged \/ \A p \in RtProc : rt_ready[p] <= (IF rt_waits[p] = 0 THEN 0 ELSE 1)
=============================================================================
