----------------------------- MODULE Scheduler -----------------------------
(***************************************************************************)
(* The process core of the kernel: process states, the multi-level         *)
(* feedback run queues, the sleep queue, the wait queues, and every call   *)
(* of process.c and the first half of waitqueue.c that moves a process     *)
(* between them.                                                           *)
(*                                                                         *)
(* One CPU.  A call made by the current process, and an interrupt handler, *)
(* is one step, except that sleep_on has a window between releasing the    *)
(* wait-queue lock (which may turn interrupts back on) and calling         *)
(* process_schedule; handlers run in that window.                          *)
(*                                                                         *)
(* The intrusive lists (next_ready, wait_queue_entry.next) are sequences.  *)
(* That is exact as long as a process is on at most one list, once, which  *)
(* is what QueueIntegrity says.                                            *)
(***************************************************************************)
EXTENDS Integers, Sequences, FiniteSets

CONSTANTS
    MaxPid,         \* bound: pids are 0..MaxPid
    MLFQ_LEVELS,    \* number of run-queue levels
    mlfq_quantums,  \* ticks per turn at each level
    WaitQueues,     \* the wait queues processes block on
    MaxSleep,       \* bound: longest sleep requested, in ticks
    Calls           \* names of the calls the workload makes

Level == 0 .. MLFQ_LEVELS - 1
Pid   == 0 .. MaxPid
NoPid == MaxPid + 1

ASSUME SchedulerAssumption ==
    /\ MaxPid \in Nat
    /\ MLFQ_LEVELS \in Nat \ {0}
    /\ mlfq_quantums \in [Level -> Nat \ {0}]
    /\ MaxSleep \in Nat

VARIABLES
    sched,        \* what process_schedule works on, see SchedState
    sleep_queue,  \* processes in process_sleep, in arrival order
    waiting_on,   \* ticks left until a sleeper is due (deadline - global_ticks)
    wait,         \* wait[w]: the processes queued on wait queue w
    insched,      \* processes in sleep_on, before its process_schedule
    waitfor,      \* the pid a process is waiting for in process_wait
    parent,
    next_pid

vars == <<sched, sleep_queue, waiting_on, wait, insched, waitfor, parent, next_pid>>

PState == {"UNUSED", "READY", "RUNNING", "BLOCKED", "SLEEPING", "TERMINATED"}

SchedState == [current    : Pid,
               state      : [Pid -> PState],
               priority   : [Pid -> Level],
               quantum    : [Pid -> Nat],
               time_slice : [Pid -> Int],
               mlfq       : [Level -> Seq(Pid)]]

current == sched.current
state   == sched.state

-----------------------------------------------------------------------------
(* Run queues: operators from a SchedState to a SchedState.                *)

\* Faulty variant: the process goes to the head of its level.
enqueue_task_mlfq_AtHead(S, p) ==
    [S EXCEPT !.state[p] = "READY", !.mlfq[S.priority[p]] = <<p>> \o @]

enqueue_task_mlfq(S, p) ==
    [S EXCEPT !.state[p] = "READY", !.mlfq[S.priority[p]] = Append(@, p)]

enqueue_process(S, p) ==
    IF S.state[p] = "READY" THEN enqueue_task_mlfq(S, p) ELSE S

\* wake_up, wake_up_all, the tick and process_exit all wake this way.
MakeReady(S, p) == enqueue_process([S EXCEPT !.state[p] = "READY"], p)

\* Faulty variant: nothing keeps a process of the last level from moving down;
\* the quantum is then still that of the last level.
Demote_NoCap(S, p) ==
    IF S.time_slice[p] > 0 THEN S
    ELSE LET lvl == IF S.priority[p] < MLFQ_LEVELS - 1
                    THEN S.priority[p] + 1 ELSE S.priority[p]
         IN  [S EXCEPT !.priority[p]   = @ + 1,
                       !.quantum[p]    = mlfq_quantums[lvl],
                       !.time_slice[p] = mlfq_quantums[lvl]]

\* A process that has used its slice moves one level down and gets that
\* level's quantum.
Demote(S, p) ==
    IF S.time_slice[p] > 0 THEN S
    ELSE LET lvl == IF S.priority[p] < MLFQ_LEVELS - 1
                    THEN S.priority[p] + 1 ELSE S.priority[p]
         IN  [S EXCEPT !.priority[p]   = lvl,
                       !.quantum[p]    = mlfq_quantums[lvl],
                       !.time_slice[p] = mlfq_quantums[lvl]]

NonEmpty(S) == {l \in Level : S.mlfq[l] # <<>>}
TopLevel(S) == CHOOSE l \in NonEmpty(S) : \A m \in NonEmpty(S) : l <= m

\* Faulty variant: the process picked is not marked RUNNING.
Dispatch_NotMarked(S) ==
    LET l == TopLevel(S)
    IN  [S EXCEPT !.mlfq[l] = Tail(@), !.current = Head(S.mlfq[l])]

\* pick_next_task_mlfq, and the switch to the process it returns.
Dispatch(S) ==
    LET l    == TopLevel(S)
        next == Head(S.mlfq[l])
    IN  [S EXCEPT !.mlfq[l] = Tail(@), !.current = next, !.state[next] = "RUNNING"]

\* Faulty variant: the current process is queued whatever its state.
process_schedule_QueuesAny(S) ==
    Dispatch(enqueue_process(Demote([S EXCEPT !.state[S.current] = "READY"], S.current),
                             S.current))

\* Faulty variant: a preempted process is not queued again.
process_schedule_NoRequeue(S) ==
    LET c  == S.current
        S1 == IF S.state[c] = "RUNNING" THEN Demote([S EXCEPT !.state[c] = "READY"], c)
              ELSE S
    IN  IF NonEmpty(S1) # {} THEN Dispatch(S1)
        ELSE IF S1.state[c] = "READY" THEN [S1 EXCEPT !.state[c] = "RUNNING"]
        ELSE S1

\* With no process to pick, a current process that is not runnable executes
\* "sti; hlt" and returns to its caller as it is.
process_schedule(S) ==
    LET c  == S.current
        S1 == IF S.state[c] = "RUNNING"
              THEN enqueue_process(Demote([S EXCEPT !.state[c] = "READY"], c), c)
              ELSE S
    IN  IF NonEmpty(S1) # {} THEN Dispatch(S1)
        ELSE IF S1.state[c] = "READY" THEN [S1 EXCEPT !.state[c] = "RUNNING"]
        ELSE S1

\* Waking the processes of q one after the other: each goes to the tail of its
\* level, in the order of q.
MakeAllReady(S, q) ==
    LET woken == {q[i] : i \in 1 .. Len(q)}
    IN  [S EXCEPT !.state = [p \in Pid |-> IF p \in woken THEN "READY" ELSE @[p]],
                  !.mlfq  = [l \in Level |->
                                @[l] \o SelectSeq(q, LAMBDA p : S.priority[p] = l)]]

-----------------------------------------------------------------------------
process_init ==
    /\ sched = [current    |-> 0,
                state      |-> [p \in Pid |-> IF p = 0 THEN "RUNNING" ELSE "UNUSED"],
                priority   |-> [p \in Pid |-> 0],
                quantum    |-> [p \in Pid |-> mlfq_quantums[0]],
                time_slice |-> [p \in Pid |-> mlfq_quantums[0]],
                mlfq       |-> [l \in Level |-> <<>>]]
    /\ sleep_queue = <<>>
    /\ waiting_on = [p \in Pid |-> 0]
    /\ wait = [w \in WaitQueues |-> <<>>]
    /\ insched = {}
    /\ waitfor = [p \in Pid |-> NoPid]
    /\ parent = [p \in Pid |-> NoPid]
    /\ next_pid = 1

Init == process_init

\* The current process is in ordinary code and makes the call named c.
Calling(c) == /\ c \in Calls
              /\ current \notin insched
              /\ waitfor[current] = NoPid

-----------------------------------------------------------------------------
(* Creating and ending processes.                                          *)

\* process_create and process_create_kthread.
process_create ==
    /\ Calling("create")
    /\ next_pid \in Pid
    /\ sched' = enqueue_process([sched EXCEPT !.state[next_pid] = "READY"], next_pid)
    /\ next_pid' = next_pid + 1
    /\ UNCHANGED <<sleep_queue, waiting_on, wait, insched, waitfor, parent>>

\* No page for the kernel stack: process_create and process_fork both give
\* up after taking the pid; the process never enters process_list.
CreateFails ==
    /\ Calling("create") \/ Calling("fork")
    /\ next_pid \in Pid
    /\ next_pid' = next_pid + 1
    /\ UNCHANGED <<sched, sleep_queue, waiting_on, wait, insched, waitfor, parent>>

process_fork ==
    /\ Calling("fork")
    /\ next_pid \in Pid
    /\ sched' = enqueue_process(
                    [sched EXCEPT !.state[next_pid]      = "READY",
                                  !.priority[next_pid]   = sched.priority[current],
                                  !.quantum[next_pid]    = sched.quantum[current],
                                  !.time_slice[next_pid] = sched.quantum[current]],
                    next_pid)
    /\ parent' = [parent EXCEPT ![next_pid] = current]
    /\ next_pid' = next_pid + 1
    /\ UNCHANGED <<sleep_queue, waiting_on, wait, insched, waitfor>>

\* Faulty variant: the CPU is given up before the state is set, so the state of
\* the next process is set instead.
process_exit_LateState ==
    /\ Calling("exit")
    /\ current # 0
    /\ LET init_proc == IF 1 \in Pid /\ state[1] # "UNUSED" THEN 1 ELSE 0
           par       == [q \in Pid |-> IF parent[q] = current THEN init_proc
                                       ELSE parent[q]]
           S1        == IF par[current] \in Pid /\ state[par[current]] = "BLOCKED"
                        THEN MakeReady(sched, par[current]) ELSE sched
           S2        == process_schedule(S1)
       IN  /\ parent' = par
           /\ sched' = [S2 EXCEPT !.state[S2.current] = "TERMINATED"]
    /\ UNCHANGED <<sleep_queue, waiting_on, wait, insched, waitfor, next_pid>>

\* Faulty variant: the parent is made runnable whatever its state.
process_exit_WakesAny ==
    /\ Calling("exit")
    /\ current # 0
    /\ LET init_proc == IF 1 \in Pid /\ state[1] # "UNUSED" THEN 1 ELSE 0
           par       == [q \in Pid |-> IF parent[q] = current THEN init_proc
                                       ELSE parent[q]]
           S1        == IF par[current] \in Pid THEN MakeReady(sched, par[current])
                        ELSE sched
       IN  /\ parent' = par
           /\ sched' = process_schedule([S1 EXCEPT !.state[current] = "TERMINATED"])
    /\ UNCHANGED <<sleep_queue, waiting_on, wait, insched, waitfor, next_pid>>

\* Children go to pid 1 if it was ever listed, else to pid 0; a parent blocked
\* on a wait queue is made runnable, and stays on that queue.
process_exit ==
    /\ Calling("exit")
    /\ current # 0
    /\ LET init_proc == IF 1 \in Pid /\ state[1] # "UNUSED" THEN 1 ELSE 0
           par       == [q \in Pid |-> IF parent[q] = current THEN init_proc
                                       ELSE parent[q]]
           S1        == IF par[current] \in Pid /\ state[par[current]] = "BLOCKED"
                        THEN MakeReady(sched, par[current]) ELSE sched
       IN  /\ parent' = par
           /\ sched' = process_schedule([S1 EXCEPT !.state[current] = "TERMINATED"])
    /\ UNCHANGED <<sleep_queue, waiting_on, wait, insched, waitfor, next_pid>>

-----------------------------------------------------------------------------
(* Giving up the CPU.                                                      *)

process_yield ==
    /\ Calling("yield")
    /\ sched' = process_schedule(sched)
    /\ UNCHANGED <<sleep_queue, waiting_on, wait, insched, waitfor, parent, next_pid>>

\* The body of process_sleep(n).  Its callers are system calls, which run with
\* interrupts off, so it is one step.  The boot process never sleeps.
SleepFor(n) ==
    /\ current # 0
    /\ waiting_on' = [waiting_on EXCEPT ![current] = n]
    /\ sleep_queue' = Append(sleep_queue, current)
    /\ sched' = process_schedule([sched EXCEPT !.state[current] = "SLEEPING"])

process_sleep(n) ==
    /\ Calling("sleep")
    /\ SleepFor(n)
    /\ UNCHANGED <<wait, insched, waitfor, parent, next_pid>>

\* Faulty variant: only the disappearance of q ends the wait.
process_wait_UntilGone(q) ==
    /\ q # current
    /\ \/ Calling("wait")
       \/ waitfor[current] = q
    /\ IF state[q] = "UNUSED"
       THEN /\ waitfor' = [waitfor EXCEPT ![current] = NoPid]
            /\ UNCHANGED <<sched, sleep_queue, waiting_on>>
       ELSE /\ SleepFor(1)
            /\ waitfor' = [waitfor EXCEPT ![current] = q]
    /\ UNCHANGED <<wait, insched, parent, next_pid>>

\* process_wait(q) polls: it returns when q has terminated or was never
\* listed, and otherwise sleeps one tick and looks again.
process_wait(q) ==
    /\ q # current
    /\ \/ Calling("wait")
       \/ waitfor[current] = q
    /\ IF state[q] \in {"TERMINATED", "UNUSED"}
       THEN /\ waitfor' = [waitfor EXCEPT ![current] = NoPid]
            /\ UNCHANGED <<sched, sleep_queue, waiting_on>>
       ELSE /\ SleepFor(1)
            /\ waitfor' = [waitfor EXCEPT ![current] = q]
    /\ UNCHANGED <<wait, insched, parent, next_pid>>

\* sleep_on up to the release of the wait-queue lock.  pid 0 runs the idle loop.
sleep_on(w) ==
    /\ Calling("sleep_on")
    /\ current # 0
    /\ wait' = [wait EXCEPT ![w] = Append(@, current)]
    /\ sched' = [sched EXCEPT !.state[current] = "BLOCKED"]
    /\ insched' = insched \union {current}
    /\ UNCHANGED <<sleep_queue, waiting_on, waitfor, parent, next_pid>>

\* The process_schedule call that ends sleep_on.
SleepOnSchedules ==
    /\ current \in insched
    /\ insched' = insched \ {current}
    /\ sched' = process_schedule(sched)
    /\ UNCHANGED <<sleep_queue, waiting_on, wait, waitfor, parent, next_pid>>

-----------------------------------------------------------------------------
(* Waking.  wake_up is called from threads and from interrupt handlers, so  *)
(* it is enabled whatever the current process is doing.                    *)

wake_up(w) ==
    /\ wait[w] # <<>>
    /\ sched' = MakeReady(sched, Head(wait[w]))
    /\ wait' = [wait EXCEPT ![w] = Tail(@)]
    /\ UNCHANGED <<sleep_queue, waiting_on, insched, waitfor, parent, next_pid>>

wake_up_all(w) ==
    /\ wait[w] # <<>>
    /\ sched' = MakeAllReady(sched, wait[w])
    /\ wait' = [wait EXCEPT ![w] = <<>>]
    /\ UNCHANGED <<sleep_queue, waiting_on, insched, waitfor, parent, next_pid>>

\* mutex_lock lends the caller's priority to the owner it waits for; a queued
\* owner is not moved to the level of its new priority.
process_set_priority(q) ==
    /\ Calling("set_priority")
    /\ state[q] # "UNUSED"
    /\ sched.priority[q] > sched.priority[current]
    /\ sched' = [sched EXCEPT !.priority[q] = sched.priority[current]]
    /\ UNCHANGED <<sleep_queue, waiting_on, wait, insched, waitfor, parent, next_pid>>

\* Faulty variant: a deadline is compared for equality.
IsDue_Exact(p) == waiting_on[p] = 1

\* The walk over sleep_queue: who is due at this tick, and who stays.
IsDue(p) == waiting_on[p] <= 1

\* Faulty variant: next_ready is followed after enqueue_process has cleared it,
\* so only the first sleeper that is due is woken.
DueSleepers_First(q) ==
    LET due == SelectSeq(q, IsDue) IN IF due = <<>> THEN due ELSE <<Head(due)>>

DueSleepers(q)   == SelectSeq(q, IsDue)
StillSleeping(q) == SelectSeq(q, LAMBDA p : ~IsDue(p))

\* The timer interrupt.  No resource limit on CPU time is ever set, so the
\* rlimit branch is dead; high-resolution timers are a module of their own.
scheduler_tick ==
    LET S1 == [sched EXCEPT !.time_slice[current] = @ - 1]
        S2 == MakeAllReady(S1, DueSleepers(sleep_queue))
    IN  /\ sleep_queue' = StillSleeping(sleep_queue)
        /\ waiting_on' = [p \in Pid |-> IF \E i \in DOMAIN sleep_queue' : sleep_queue'[i] = p
                                        THEN waiting_on[p] - 1 ELSE 0]
        /\ sched' = IF S2.time_slice[current] <= 0 THEN process_schedule(S2) ELSE S2
        /\ UNCHANGED <<wait, insched, waitfor, parent, next_pid>>

-----------------------------------------------------------------------------
Next ==
    \/ process_create \/ CreateFails \/ process_fork \/ process_exit
    \/ process_yield \/ SleepOnSchedules \/ scheduler_tick
    \/ \E n \in 0 .. MaxSleep : process_sleep(n)
    \/ \E q \in Pid : process_wait(q) \/ process_set_priority(q)
    \/ \E w \in WaitQueues : sleep_on(w) \/ wake_up(w) \/ wake_up_all(w)

Spec == Init /\ [][Next]_vars

\* The timer keeps interrupting.  A tick is always enabled, so this is its weak
\* fairness, written without ENABLED.
FairSpec == Spec /\ []<><<scheduler_tick>>_vars

\* A process in process_wait that is given the CPU again and again does get to
\* look at the pid it waits for, a turn being at least one tick, in which it
\* executes: strong fairness of its poll.
WaitStep(p) == current = p /\ waitfor[p] # NoPid /\ process_wait(waitfor[p])
WaitFairSpec ==
    /\ FairSpec
    /\ \A p \in Pid \ {0} :
          []<>(current = p /\ waitfor[p] # NoPid) => []<><<WaitStep(p)>>_vars

-----------------------------------------------------------------------------
Occurrences(p, q) == Cardinality({i \in 1 .. Len(q) : q[i] = p})

OnRunQueues(p)  == Cardinality(UNION {{<<l, i>> : i \in {j \in 1 .. Len(sched.mlfq[l]) :
                                                         sched.mlfq[l][j] = p}} : l \in Level})
OnWaitQueues(p) == Cardinality(UNION {{<<w, i>> : i \in {j \in 1 .. Len(wait[w]) :
                                                         wait[w][j] = p}} : w \in WaitQueues})
OneIf(b) == IF b THEN 1 ELSE 0

\* The variables of the process core keep their types.
TypeOK ==
    /\ sched \in SchedState
    /\ sleep_queue \in Seq(Pid)
    /\ waiting_on \in [Pid -> Int]
    /\ wait \in [WaitQueues -> Seq(Pid)]
    /\ insched \subseteq Pid
    /\ waitfor \in [Pid -> Pid \union {NoPid}]
    /\ parent \in [Pid -> Pid \union {NoPid}]
    /\ next_pid \in 1 .. MaxPid + 1

\* Every process is on exactly the list its state says, exactly once: READY on
\* one run queue, BLOCKED on one wait queue, SLEEPING on the sleep queue, the
\* others on none.  next_ready is shared by the run queues and the sleep queue,
\* so a process on two lists, or twice on one, would cut or tie a list.  And no
\* sleeper is left behind by the tick that makes it due: the walk over
\* sleep_queue moves elements to the run queues while it follows next_ready.
QueueIntegrity ==
    /\ TypeOK
    /\ \A p \in Pid :
          /\ OnRunQueues(p) = OneIf(state[p] = "READY")
          /\ OnWaitQueues(p) = OneIf(state[p] = "BLOCKED")
          /\ Occurrences(p, sleep_queue) = OneIf(state[p] = "SLEEPING")
          /\ state[p] = "SLEEPING" => waiting_on[p] >= 0

\* At most one process is RUNNING and it is the current one; the current
\* process is in another state only inside the window of sleep_on, where a
\* handler may already have made it READY again.  process_schedule always finds
\* a process to run: the boot process is current or queued, so the "sti; hlt;
\* return" branch, which would return from sleep_on without a wake-up, is never
\* taken.
OneRunning ==
    /\ \A p \in Pid : state[p] = "RUNNING" => p = current
    /\ \/ state[current] = "RUNNING"
       \/ current \in insched /\ state[current] \in {"BLOCKED", "READY"}
    /\ current = 0 \/ OnRunQueues(0) > 0

\* The process core is the one-CPU machine of module Cpu: only the current
\* process leaves the runnable set, and the CPU goes only to runnable processes.
Machine == INSTANCE Cpu WITH Proc     <- Pid,
                             Boot     <- 0,
                             runnable <- {p \in Pid : state[p] \in {"READY", "RUNNING"}},
                             current  <- current
ImplementsCpu == Machine!CpuSpec

\* Among processes that compute without giving up the CPU, every ready process
\* eventually runs: slices run out, processes drift down to the last level, and
\* each level is served in turn.
ReadyRuns == \A p \in Pid : (state[p] = "READY") ~> (state[p] # "READY")

\* process_wait returns once the process waited for has terminated, although
\* nothing wakes the waiter but its own one-tick polls.  For that a terminated
\* process must never be made runnable again: not even by its own children,
\* which process_exit gives to pid 1 after pid 1 has ended.
WaitReturns ==
    /\ [][\A p \in Pid : state[p] = "TERMINATED" => state'[p] = "TERMINATED"]_vars
    /\ \A p \in Pid \ {0} :
          (waitfor[p] # NoPid /\ state[waitfor[p]] = "TERMINATED") ~> (waitfor[p] = NoPid)
=============================================================================
