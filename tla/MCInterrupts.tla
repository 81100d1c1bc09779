---------------------------- MODULE MCInterrupts ----------------------------
(***************************************************************************)
(* What runs beside or underneath the processes: spinlocks and rt_mutexes, *)
(* signals, high-resolution timers and interrupt lines.  A behaviour       *)
(* exercises one of them.                                                  *)
(***************************************************************************)
EXTENDS RtMutex, Spinlock, Signals, Hrtimer, Irq

VARIABLE facility   \* the one this behaviour exercises

intVars == <<facility, rtVars, spinVars, sigVars, hrVars, irqVars>>

IntInit ==
    /\ facility \in {"rtmutex", "spinlock", "signal", "hrtimer", "irq"}
    /\ RtInit /\ SpinInit /\ SigInit /\ HrInit /\ IrqInit
    /\ facility # "spinlock" => running = (CHOOSE p \in SpinPid : TRUE) /\ IF_

UseRtMutex == facility = "rtmutex" /\ RtNext /\ UNCHANGED <<facility, spinVars, sigVars, hrVars, irqVars>>
\* Nothing is claimed once the locks have been misused: the search ends there.
UseSpinlock == facility = "spinlock" /\ ~misused /\ SpinNext /\ UNCHANGED <<facility, rtVars, sigVars, hrVars, irqVars>>
UseSignal == facility = "signal" /\ SigNext /\ UNCHANGED <<facility, rtVars, spinVars, hrVars, irqVars>>
UseHrtimer == facility = "hrtimer" /\ HrNext /\ UNCHANGED <<facility, rtVars, spinVars, sigVars, irqVars>>
UseIrq == facility = "irq" /\ IrqNext /\ UNCHANGED <<facility, rtVars, spinVars, sigVars, hrVars>>

IntNext == UseRtMutex \/ UseSpinlock \/ UseSignal \/ UseHrtimer \/ UseIrq

IntSpec == IntInit /\ [][IntNext]_intVars

-----------------------------------------------------------------------------
(* Each process has a process group of its own. *)
MCSigGid == [p \in SigPid |-> IF p = 1 THEN 7 ELSE 8]
=============================================================================
