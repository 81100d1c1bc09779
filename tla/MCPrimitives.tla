---------------------------- MODULE MCPrimitives ----------------------------
(***************************************************************************)
(* The blocking primitives of waitqueue.c over one set of processes.  They *)
(* have only the wait-queue code in common, so which of them the processes *)
(* use is chosen at the start.                                             *)
(***************************************************************************)
EXTENDS Semaphore, Mutex, RwLock, Barrier, TLC

VARIABLE primitive

primVars == <<primitive, syncVars, semCounts, lockVars, counts, rounds>>

PrimInit ==
    /\ primitive \in {"semaphore", "mutex", "rwlock", "barrier"}
    /\ sem_init /\ mutex_init /\ rwlock_init /\ barrier_init

UseSemaphore == /\ primitive = "semaphore" /\ SemNext
                /\ UNCHANGED <<primitive, lockVars, counts, rounds>>
UseMutex     == /\ primitive = "mutex" /\ MutexNext
                /\ UNCHANGED <<primitive, semCounts, counts, rounds>>
UseRwLock    == /\ primitive = "rwlock" /\ RwNext
                /\ UNCHANGED <<primitive, semCounts, lockVars, rounds>>
UseBarrier   == /\ primitive = "barrier" /\ BarrierNext
                /\ UNCHANGED <<primitive, semCounts, lockVars, counts>>

PrimSpec == PrimInit /\ [][UseSemaphore \/ UseMutex \/ UseRwLock \/ UseBarrier]_primVars

\* The variables of the primitive in use, and of its clients, keep their types.
PrimTypeOK ==
    /\ primitive = "semaphore" => SemTypeOK
    /\ primitive = "mutex"     => MutexTypeOK
    /\ primitive = "rwlock"    => RwTypeOK
    /\ primitive = "barrier"   => BarrierTypeOK

\* A process is asleep on a queue exactly when the queue holds it, and no
\* primitive leaves one asleep over what it waits for: a permit, a free mutex,
\* an open reader-writer lock.  Each drops its spinlock before sleep_on, and a
\* wake-up that comes in between passes the process by; this, from a handler or
\* from a process that preempted it, is the only way to lose a wake-up.
NoLostWakeup ==
    /\ PrimTypeOK /\ AsleepIffQueued
    /\ NoLostPost /\ NoLostUnlock /\ NoLostRelease

-----------------------------------------------------------------------------
(* Processes are interchangeable. *)
Symmetry == Permutations(Proc)
=============================================================================
