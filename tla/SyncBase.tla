------------------------------ MODULE SyncBase ------------------------------
(***************************************************************************)
(* The ground the blocking primitives of waitqueue.c stand on: processes   *)
(* taking turns on the one CPU of module Cpu, and wait queues.             *)
(*                                                                         *)
(* A section between spinlock_acquire and spinlock_release runs with       *)
(* interrupts off and is one step.  pc[p] says which section p executes    *)
(* next.  Between two sections an interrupt handler may run, and the CPU   *)
(* may move to another process, as it does when scheduler_tick preempts;   *)
(* preempted remembers that it moved inside a call.  The kernel does not   *)
(* connect scheduler_tick to the timer today, and preempted stays FALSE:   *)
(* the CPU moves only where the running code gives it up, in sleep_on and  *)
(* where a process outside any call yields.                                *)
(*                                                                         *)
(* Every primitive drops its spinlock before it calls sleep_on.  A wake-up *)
(* that comes in between finds the queue without the process, which then   *)
(* sleeps all the same.  missed remembers the processes this happened to,  *)
(* until they are woken.                                                   *)
(***************************************************************************)
EXTENDS Naturals, Sequences, FiniteSets

CONSTANTS
    Proc,     \* the processes that use the primitive
    Queues    \* its wait queues

Boot == "boot"    \* pid 0: runs the yield loop and uses no primitive

ASSUME SyncAssumption == IsFiniteSet(Proc) /\ Boot \notin Proc

VARIABLES
    current,  \* the process on the CPU, or Boot
    wait,     \* wait[q]: the processes asleep on q, first in first woken
    pc,
    preempted,\* history: whether a process ever lost the CPU inside a call
    missed    \* history: processes a wake-up passed by on their way to sleep

syncVars == <<current, wait, pc, preempted, missed>>

SyncInit == /\ current = Boot
            /\ wait = [q \in Queues |-> <<>>]
            /\ pc = [p \in Proc |-> "idle"]
            /\ preempted = FALSE /\ missed = {}

\* What all primitives have in common of a type invariant; L is the set of the
\* primitive's labels.
SyncTypeOK(L) == /\ current \in Proc \union {Boot}
                 /\ wait \in [Queues -> Seq(Proc)]
                 /\ pc \in [Proc -> L]
                 /\ preempted \in BOOLEAN /\ missed \in SUBSET Proc

\* The processes at section l.
Inside(l) == {p \in Proc : pc[p] = l}

\* process_schedule, with the choice of the next process left open.
SwitchFrom(pcs) == current' \in {Boot} \union {p \in Proc : pcs[p] # "asleep"}

\* process_yield by a process outside any call, or a preemption by the tick.
Switch(outside) ==
    /\ SwitchFrom(pc)
    /\ preempted' = (preempted \/ current \in Proc \ outside)
    /\ UNCHANGED <<wait, pc, missed>>

\* The current process, about to execute section l.
At(p, l) == current = p /\ pc[p] = l

\* A step of the current process that wakes nobody: on to section l.
Goto(p, l) == pc' = [pc EXCEPT ![p] = l] /\ UNCHANGED <<current, wait, preempted, missed>>

sleep_on(p, q) ==
    /\ wait' = [wait EXCEPT ![q] = Append(@, p)]
    /\ pc' = [pc EXCEPT ![p] = "asleep"]
    /\ SwitchFrom(pc')
    /\ UNCHANGED <<preempted, missed>>

\* Faulty variant: the entry stays on the queue.
wake_up_KeepsEntry(p, l, q, r, W) ==
    /\ pc' = IF wait[q] = <<>> THEN [pc EXCEPT ![p] = l]
             ELSE [pc EXCEPT ![p] = l, ![Head(wait[q])] = r]
    /\ missed' = IF wait[q] = <<>> THEN missed \union W ELSE missed \ {Head(wait[q])}
    /\ UNCHANGED <<wait, current, preempted>>

\* wake_up(q): the first sleeper goes on at section r; p continues at l.  W are
\* the processes about to sleep on q, which it passes by if nobody is asleep.
wake_up(p, l, q, r, W) ==
    /\ IF wait[q] = <<>>
       THEN /\ pc' = [pc EXCEPT ![p] = l]
            /\ missed' = missed \union W
            /\ UNCHANGED wait
       ELSE /\ pc' = [pc EXCEPT ![p] = l, ![Head(wait[q])] = r]
            /\ missed' = missed \ {Head(wait[q])}
            /\ wait' = [wait EXCEPT ![q] = Tail(@)]
    /\ UNCHANGED <<current, preempted>>

\* wake_up(q) from an interrupt handler.
irq_wake_up(q, r, W) ==
    /\ IF wait[q] = <<>>
       THEN missed' = missed \union W /\ UNCHANGED <<pc, wait>>
       ELSE /\ pc' = [pc EXCEPT ![Head(wait[q])] = r]
            /\ missed' = missed \ {Head(wait[q])}
            /\ wait' = [wait EXCEPT ![q] = Tail(@)]
    /\ UNCHANGED <<current, preempted>>

\* wake_up_all passes by whoever is about to sleep on q, asleep or not the rest.
wake_up_all(p, l, q, r, W) ==
    /\ pc' = [x \in Proc |-> IF x = p THEN l
                             ELSE IF \E i \in DOMAIN wait[q] : wait[q][i] = x THEN r
                             ELSE pc[x]]
    /\ missed' = (missed \ {wait[q][i] : i \in DOMAIN wait[q]}) \union W
    /\ wait' = [wait EXCEPT ![q] = <<>>]
    /\ UNCHANGED <<current, preempted>>

\* The processes asleep on q that no wake-up has passed by.
Sleepers(q) == {wait[q][i] : i \in DOMAIN wait[q]} \ missed

\* A process is asleep exactly when it is on one wait queue, once.
AsleepIffQueued ==
    \A p \in Proc :
        Cardinality(UNION {{<<q, i>> : i \in {j \in DOMAIN wait[q] : wait[q][j] = p}}
                           : q \in Queues}) = IF pc[p] = "asleep" THEN 1 ELSE 0
=============================================================================
