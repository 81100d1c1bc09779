------------------------------- MODULE Signals -------------------------------
(***************************************************************************)
(* Signals: sys_kill with its three kinds of target, the wake-up of a      *)
(* blocked target, and delivery on the way out of a system call.           *)
(***************************************************************************)
EXTENDS Integers, SequencesExt

CONSTANTS SigPid, SigGid, SIGMAX   \* SigGid: each process's gid; signals are 1 .. SIGMAX

VARIABLES
    sstate,         \* "running", "ready", "blocked" or "dead"
    pending_signals, signal_handler,
    runqueued,      \* how often each process is on a run queue
    waitqueued,     \* how often each process is on a wait queue
    stale           \* history: a signal made a process ready and left it on its wait queue

sigVars == <<sstate, pending_signals, signal_handler, runqueued, waitqueued, stale>>

Signal == 1 .. SIGMAX
SIG_DFL == 0
SIG_IGN == 1
HANDLER == 2     \* any address

SigInit == /\ sstate = [p \in SigPid |-> "running"]
           /\ pending_signals = [p \in SigPid |-> {}]
           /\ signal_handler = [p \in SigPid |-> [s \in Signal |-> SIG_DFL]]
           /\ runqueued = [p \in SigPid |-> 0] /\ waitqueued = [p \in SigPid |-> 0] /\ stale = FALSE

AtMost2(n) == IF n < 2 THEN n ELSE 2
In(p) == sstate[p] = "running"

\* Whom sys_kill(pid, .) called by p reaches.
Targets(p, pid) == {q \in SigPid : CASE pid > 0  -> q = pid
                                     [] pid = -1 -> q > 1 /\ q # p
                                     [] pid = 0  -> SigGid[q] = SigGid[p]
                                     [] OTHER    -> SigGid[q] = -pid}

\* sys_kill: the bit is set, and a blocked target goes to a run queue; its entry
\* stays on the wait queue it sleeps on.
sys_kill(p, pid, sig) ==
    LET hit  == Targets(p, pid)
        woken == {q \in hit : sstate[q] = "blocked"}
    IN  /\ In(p) /\ hit # {}
        /\ pending_signals' = [q \in SigPid |-> pending_signals[q] \union (IF q \in hit THEN {sig} ELSE {})]
        /\ sstate' = [q \in SigPid |-> IF q \in woken THEN "ready" ELSE sstate[q]]
        /\ runqueued' = [q \in SigPid |-> IF q \in woken THEN AtMost2(runqueued[q] + 1) ELSE runqueued[q]]
        /\ stale' = (stale \/ woken # {})
        /\ UNCHANGED <<signal_handler, waitqueued>>

sys_signal(p, sig, h) ==
    /\ In(p) /\ signal_handler' = [signal_handler EXCEPT ![p][sig] = h]
    /\ UNCHANGED <<sstate, pending_signals, runqueued, waitqueued, stale>>

\* Faulty variant: a handled signal does not end the loop, so the next one's
\* frame replaces it.
Step_GoesOn(p, a, s) ==
    IF a.act = <<"exit">> \/ s \notin pending_signals[p] THEN a
    ELSE [left |-> a.left \ {s},
          act  |-> CASE signal_handler[p][s] = SIG_DFL -> <<"exit">>
                     [] signal_handler[p][s] = SIG_IGN -> a.act
                     [] OTHER                          -> <<"handle", s>>]

\* One turn of the loop of handle_pending_signals; what is done ends it.
Step(p, a, s) ==
    IF a.act # <<>> \/ s \notin pending_signals[p] THEN a
    ELSE [left |-> a.left \ {s},
          act  |-> CASE signal_handler[p][s] = SIG_DFL -> <<"exit">>
                     [] signal_handler[p][s] = SIG_IGN -> <<>>
                     [] OTHER                          -> <<"handle", s>>]

Handled(p) == FoldLeft(LAMBDA a, s : Step(p, a, s), [left |-> pending_signals[p], act |-> <<>>],
                       [s \in Signal |-> s])

\* handle_pending_signals, at the end of syscall_handler; setup_frame enters the
\* handler in user mode.
handle_pending_signals(p) ==
    /\ In(p) /\ pending_signals[p] # {}
    /\ pending_signals' = [pending_signals EXCEPT ![p] = Handled(p).left]
    /\ sstate' = IF Handled(p).act = <<"exit">> THEN [sstate EXCEPT ![p] = "dead"] ELSE sstate
    /\ UNCHANGED <<signal_handler, runqueued, waitqueued, stale>>

\* sleep_on, wake_up and the scheduler, as far as they meet signals.
sleep_on(p) == /\ In(p) /\ sstate' = [sstate EXCEPT ![p] = "blocked"]
               /\ waitqueued' = [waitqueued EXCEPT ![p] = AtMost2(@ + 1)]
               /\ UNCHANGED <<pending_signals, signal_handler, runqueued, stale>>

wake_up(p) == /\ waitqueued[p] > 0 /\ sstate' = [sstate EXCEPT ![p] = "ready"]
              /\ waitqueued' = [waitqueued EXCEPT ![p] = @ - 1]
              /\ runqueued' = [runqueued EXCEPT ![p] = AtMost2(@ + 1)]
              /\ UNCHANGED <<pending_signals, signal_handler, stale>>

Dispatch(p) == /\ runqueued[p] > 0 /\ sstate' = [sstate EXCEPT ![p] = "running"]
               /\ runqueued' = [runqueued EXCEPT ![p] = @ - 1]
               /\ UNCHANGED <<pending_signals, signal_handler, waitqueued, stale>>

SigNext ==
    \E p \in SigPid :
        \/ \E pid \in SigPid \union {0, -1} \union {-SigGid[q] : q \in SigPid}, sig \in Signal : sys_kill(p, pid, sig)
        \/ \E sig \in Signal, h \in {SIG_DFL, SIG_IGN, HANDLER} : sys_signal(p, sig, h)
        \/ handle_pending_signals(p) \/ sleep_on(p) \/ wake_up(p) \/ Dispatch(p)

-----------------------------------------------------------------------------
\* Signals are taken in order: the lowest pending one that is not ignored
\* decides whether the process ends or enters a handler, the ignored ones below
\* it are gone and all above it stay pending.  And while no signal has hit a
\* blocked process, every process is on the one queue its state says; after
\* one has, a process may be queued twice, or woken when it is not asleep.
SignalsInOrder ==
    \A p \in SigPid :
        LET felt == {s \in pending_signals[p] : signal_handler[p][s] # SIG_IGN}
            low  == CHOOSE s \in felt : \A t \in felt : s <= t
        IN  /\ IF felt = {} THEN Handled(p) = [left |-> {}, act |-> <<>>]
               ELSE /\ Handled(p).left = {s \in pending_signals[p] : s > low}
                    /\ Handled(p).act = IF signal_handler[p][low] = SIG_DFL THEN <<"exit">> ELSE <<"handle", low>>
            /\ \/ stale
               \/ /\ runqueued[p] = IF sstate[p] = "ready" THEN 1 ELSE 0
                  /\ waitqueued[p] = IF sstate[p] = "blocked" THEN 1 ELSE 0
=============================================================================
