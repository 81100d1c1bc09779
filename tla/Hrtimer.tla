------------------------------- MODULE Hrtimer -------------------------------
(***************************************************************************)
(* High-resolution timers: a list sorted by expiry, and the run over it    *)
(* that drops the lock around every callback.  A callback may start and    *)
(* cancel timers, its own included; what it returns is ignored.            *)
(***************************************************************************)
EXTENDS Integers, SequencesExt

CONSTANTS Timer, MaxTime   \* MaxTime: bound on the clock

VARIABLES
    hrtimer_list, expires,
    clock,
    phase,      \* "idle", "loop" with the lock, or "callback" without it
    now,        \* the time hrtimer_run_queues read
    due         \* history: timers queued and due when the run began, not yet dealt with

hrVars == <<hrtimer_list, expires, clock, phase, now, due>>

HrInit == /\ hrtimer_list = <<>> /\ expires = [t \in Timer |-> 0]
          /\ clock = 0 /\ phase = "idle" /\ now = 0 /\ due = {}

Del(t) == SelectSeq(hrtimer_list, LAMBDA u : u # t)
Queued(t) == \E i \in DOMAIN hrtimer_list : hrtimer_list[i] = t

\* Faulty variant: the timer goes in front of its equals and of later ones only
\* when it is the first to expire, else to the end.
Sorted_Ends(l, t, e) == IF l # <<>> /\ expires[l[1]] > e THEN <<t>> \o l ELSE Append(l, t)

\* Before the first timer that expires later, else at the end.
Sorted(l, t, e) ==
    LET later == {i \in DOMAIN l : expires[l[i]] > e}
        k == IF later = {} THEN Len(l) + 1 ELSE CHOOSE i \in later : \A j \in later : i <= j
    IN  InsertAt(l, k, t)

\* hrtimer_start: a timer on the list is taken off first.
hrtimer_start(t, e) ==
    /\ phase # "loop"
    /\ hrtimer_list' = Sorted(Del(t), t, e)
    /\ expires' = [expires EXCEPT ![t] = e]
    /\ due' = due \ {t}
    /\ UNCHANGED <<clock, phase, now>>

\* hrtimer_cancel: list_del clears the links, so a timer not queued is left alone.
hrtimer_cancel(t) ==
    /\ phase # "loop" /\ Queued(t)
    /\ hrtimer_list' = Del(t) /\ due' = due \ {t}
    /\ UNCHANGED <<expires, clock, phase, now>>

\* hrtimer_run_queues: the time is read once, then the head of the list is
\* looked at again after every callback.
hrtimer_run_queues ==
    \/ /\ phase = "idle" /\ phase' = "loop" /\ now' = clock
       /\ due' = {t \in Timer : Queued(t) /\ expires[t] <= clock}
       /\ UNCHANGED <<hrtimer_list, expires, clock>>
    \/ /\ phase = "loop" /\ hrtimer_list # <<>> /\ expires[hrtimer_list[1]] <= now
       /\ hrtimer_list' = Tail(hrtimer_list) /\ due' = due \ {hrtimer_list[1]}
       /\ phase' = "callback" /\ UNCHANGED <<expires, clock, now>>
    \/ /\ phase = "callback" /\ phase' = "loop" /\ UNCHANGED <<hrtimer_list, expires, clock, now, due>>
    \/ /\ phase = "loop" /\ (hrtimer_list # <<>> => expires[hrtimer_list[1]] > now)
       /\ phase' = "idle" /\ UNCHANGED <<hrtimer_list, expires, clock, now, due>>

ktime_get_ns == clock < MaxTime /\ clock' = clock + 1 /\ UNCHANGED <<hrtimer_list, expires, phase, now, due>>

HrNext == \/ \E t \in Timer : hrtimer_cancel(t) \/ \E e \in 0 .. MaxTime : hrtimer_start(t, e)
          \/ hrtimer_run_queues \/ ktime_get_ns

-----------------------------------------------------------------------------
\* A run misses no timer: whatever its callbacks start, restart or cancel, when
\* it ends every timer that was due when it began has been run, cancelled or
\* started anew; and no timer is on the list twice.
TimersRun ==
    /\ phase = "idle" => due = {}
    /\ \A i, j \in DOMAIN hrtimer_list : hrtimer_list[i] = hrtimer_list[j] => i = j
=============================================================================
