------------------------------ MODULE Spinlock ------------------------------
(***************************************************************************)
(* Spinlocks on the one CPU: acquire saves the interrupt flag in the lock  *)
(* and clears it, release sets it again if it was saved set.  An interrupt *)
(* or a system call enters the kernel on the stack of the running process, *)
(* with the flag cleared, and has its pid.  switch_to_task does not touch  *)
(* the flag: the next process goes on with the one the CPU has.  With one  *)
(* CPU nobody releases a lock found taken, so acquire takes it: at once    *)
(* from its own pid ("Recursive spinlock acquire"), or after 1000 turns    *)
(* ("SPINLOCK TIMEOUT").                                                   *)
(***************************************************************************)
EXTENDS Integers, Sequences

CONSTANTS
    SpinLocks,
    SpinPid,
    MaxHeld,    \* BOUND: locks one piece of code holds at a time
    MaxEntries  \* BOUND: kernel entries nested on one stack, and one

VARIABLES
    spin,       \* each lock: locked, rflags (the interrupt flag only), owner_pid
    IF_,        \* the interrupt flag of the CPU
    running,    \* the current pid
    frames,     \* per pid, the code on its stack, outermost first: the locks
                \* each holds, in the order taken
    found,      \* history: the flag when the running code took the first lock it holds
    misused     \* history: a lock taken twice, released out of order, or held over a switch

spinVars == <<spin, IF_, running, frames, found, misused>>

ASSUME SpinAssumption ==
    SpinPid \subseteq Nat \ {0} /\ MaxHeld \in Nat /\ MaxEntries \in Nat \ {0}

\* The locks of the code that runs.
Depth == Len(frames[running])
Held  == frames[running][Depth]

SpinInit ==
    /\ spin = [l \in SpinLocks |-> [locked |-> 0, rflags |-> FALSE, owner_pid |-> -1]]
    /\ running \in SpinPid /\ IF_ \in BOOLEAN
    /\ frames = [p \in SpinPid |-> << <<>> >>]
    /\ found = FALSE /\ misused = FALSE

spinlock_acquire(l) ==
    /\ Len(Held) < MaxHeld
    /\ spin' = [spin EXCEPT ![l] = [locked |-> 1, rflags |-> IF_, owner_pid |-> running]]
    /\ IF_' = FALSE
    /\ frames' = [frames EXCEPT ![running][Depth] = Append(@, l)]
    /\ found' = IF Held = <<>> THEN IF_ ELSE found
    /\ misused' = (misused \/ \E i \in DOMAIN Held : Held[i] = l)
    /\ UNCHANGED running

\* The lock taken as the i-th of those still held is released.
Drop(s, i) == SubSeq(s, 1, i - 1) \o SubSeq(s, i + 1, Len(s))

\* Faulty variant: interrupts are enabled whatever they were before.
spinlock_release_Sti(i) ==
    /\ spin' = [spin EXCEPT ![Held[i]].locked = 0, ![Held[i]].owner_pid = -1]
    /\ IF_' = TRUE
    /\ frames' = [frames EXCEPT ![running][Depth] = Drop(@, i)]
    /\ misused' = (misused \/ i # Len(Held))
    /\ UNCHANGED <<running, found>>

spinlock_release(i) ==
    /\ spin' = [spin EXCEPT ![Held[i]].locked = 0, ![Held[i]].owner_pid = -1]
    /\ IF_' = (IF_ \/ spin[Held[i]].rflags)
    /\ frames' = [frames EXCEPT ![running][Depth] = Drop(@, i)]
    /\ misused' = (misused \/ i # Len(Held))
    /\ UNCHANGED <<running, found>>

\* The interrupt gates clear the flag; iretq gives back the one they found set.
Interrupt ==
    /\ IF_ /\ Depth < MaxEntries
    /\ IF_' = FALSE
    /\ frames' = [frames EXCEPT ![running] = Append(@, <<>>)]
    /\ UNCHANGED <<spin, running, found, misused>>

Iret ==
    /\ Depth > 1 /\ Held = <<>>
    /\ IF_' = TRUE
    /\ frames' = [frames EXCEPT ![running] = SubSeq(@, 1, Depth - 1)]
    /\ UNCHANGED <<spin, running, found, misused>>

\* process_schedule, from a process or a handler: to another process; or, when
\* none is ready and the present one has blocked, sti and hlt.
Switch(p) ==
    /\ p # running /\ running' = p
    /\ misused' = (misused \/ Held # <<>>)
    /\ UNCHANGED <<spin, IF_, frames, found>>

Halt ==
    /\ IF_' = TRUE
    /\ misused' = (misused \/ Held # <<>>)
    /\ UNCHANGED <<spin, running, frames, found>>

SpinNext == \/ \E l \in SpinLocks : spinlock_acquire(l)
            \/ \E i \in DOMAIN Held : spinlock_release(i)
            \/ Interrupt \/ Iret \/ Halt
            \/ \E p \in SpinPid : Switch(p)

SpinSpec == SpinInit /\ [][SpinNext]_spinVars

-----------------------------------------------------------------------------
\* Only the running code holds locks, each of them once, and with interrupts
\* off: no handler finds a lock taken, and the branches of acquire that break a
\* lock open are not taken.
LocksPrivate ==
    /\ \A p \in SpinPid : \A k \in DOMAIN frames[p] :
          frames[p][k] # <<>> => p = running /\ k = Depth
    /\ \A i, j \in DOMAIN Held : Held[i] = Held[j] => i = j
    /\ \A l \in SpinLocks : spin[l].locked = 1 <=> \E i \in DOMAIN Held : Held[i] = l
    /\ Held # <<>> => ~IF_

\* A step in which the running code lets go of the last lock it held leaves the
\* interrupt flag as the acquire of its first lock found it.
FlagRestored == Held # <<>> /\ frames'[running][Depth] = <<>> => IF_' = found

\* As long as locks are released in the reverse order, never taken twice and
\* never held over a switch, the one flag kept in each lock is enough: locks
\* are in the hands of the running code alone, and the release of its last lock
\* restores the interrupt flag.
SpinlocksNest ==
    /\ [](~misused => LocksPrivate)
    /\ [][~misused' => FlagRestored]_spinVars
=============================================================================
