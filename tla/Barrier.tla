------------------------------ MODULE Barrier ------------------------------
(***************************************************************************)
(* barrier_wait.  Processes arrive again and again, up to MaxRounds times  *)
(* each; there may be more processes than the barrier waits for.           *)
(***************************************************************************)
EXTENDS SyncBase

CONSTANTS Count,       \* the number of arrivals the barrier waits for
          MaxRounds    \* bound: barrier_wait calls per process

ASSUME BarrierAssumption ==
    Count \in Nat \ {0} /\ MaxRounds \in Nat /\ "barrier" \in Queues

VARIABLES arrivals,    \* barrier->current
          arrived,     \* arrived[p]: barrier_wait calls p has begun
          left         \* left[p]: barrier_wait calls of p that have returned

barrierVars == <<syncVars, arrivals, arrived, left>>
rounds == <<arrivals, arrived, left>>

barrier_init == /\ SyncInit
                /\ arrivals = 0
                /\ arrived = [p \in Proc |-> 0]
                /\ left = [p \in Proc |-> 0]

\* Faulty variants: one arrival too many or too few, and a reset to one.
ArriveAt(p, last, reset) ==
    /\ At(p, "idle")
    /\ arrived[p] < MaxRounds
    /\ arrived' = [arrived EXCEPT ![p] = @ + 1]
    /\ IF last THEN arrivals' = reset /\ Goto(p, "wake_all")
               ELSE arrivals' = arrivals + 1 /\ Goto(p, "barrier_sleep")
    /\ UNCHANGED left
barrier_wait_OneMore(p) == ArriveAt(p, arrivals + 1 > Count, 0)
barrier_wait_OneLess(p) == ArriveAt(p, arrivals + 2 >= Count, 0)
barrier_wait_ResetsToOne(p) == ArriveAt(p, arrivals + 1 >= Count, 1)

\* The locked section: the last arrival resets the count and goes on to wake
\* the others, the others go to sleep.
barrier_wait(p) ==
    /\ At(p, "idle")
    /\ arrived[p] < MaxRounds
    /\ arrived' = [arrived EXCEPT ![p] = @ + 1]
    /\ IF arrivals + 1 >= Count
       THEN arrivals' = 0 /\ Goto(p, "wake_all")
       ELSE arrivals' = arrivals + 1 /\ Goto(p, "barrier_sleep")
    /\ UNCHANGED left

barrier_wait_wakes(p) ==
    /\ At(p, "wake_all")
    /\ wake_up_all(p, "idle", "barrier", "leave", Inside("barrier_sleep"))
    /\ left' = [left EXCEPT ![p] = @ + 1]
    /\ UNCHANGED <<arrivals, arrived>>

barrier_wait_sleeps(p) ==
    At(p, "barrier_sleep") /\ sleep_on(p, "barrier") /\ UNCHANGED rounds

\* sleep_on returns, and barrier_wait with it: there is no second look.
barrier_wait_returns(p) ==
    /\ At(p, "leave") /\ Goto(p, "idle")
    /\ left' = [left EXCEPT ![p] = @ + 1]
    /\ UNCHANGED <<arrivals, arrived>>

BarrierYield == Switch(Inside("idle")) /\ UNCHANGED rounds

BarrierNext ==
    \/ BarrierYield
    \/ \E p \in Proc : \/ barrier_wait(p) \/ barrier_wait_wakes(p)
                       \/ barrier_wait_sleeps(p) \/ barrier_wait_returns(p)

BarrierSpec == barrier_init /\ [][BarrierNext]_barrierVars

-----------------------------------------------------------------------------
Total(f) == LET sum[S \in SUBSET Proc] ==
                  IF S = {} THEN 0
                  ELSE LET x == CHOOSE x \in S : TRUE IN f[x] + sum[S \ {x}]
            IN  sum[Proc]

\* The variables of the barrier and its clients keep their types.
BarrierTypeOK ==
    /\ SyncTypeOK({"idle", "wake_all", "barrier_sleep", "asleep", "leave"})
    /\ arrivals \in 0 .. Count - 1
    /\ arrived \in [Proc -> 0 .. MaxRounds]
    /\ left \in [Proc -> 0 .. MaxRounds]

\* Without preemption nobody leaves a round early: the calls that returned never
\* exceed what the full groups of Count arrivals account for.  And whoever is
\* counted is asleep or going to sleep, so the last arrival's wake_up_all
\* reaches all of them: nobody misses the release or sleeps on uncounted.
NoEarlyRelease ==
    ~preempted =>
        /\ Total(left) <= Count * (Total(arrived) \div Count)
        /\ \/ arrivals = Len(wait["barrier"]) + Cardinality(Inside("barrier_sleep"))
           \/ \E p \in Proc : pc[p] = "wake_all"
=============================================================================
