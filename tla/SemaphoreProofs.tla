--------------------------- MODULE SemaphoreProofs ---------------------------
(***************************************************************************)
(* Permits are conserved, and no sem_post is lost on a process already     *)
(* asleep, for any number of processes, permits and posts, with and        *)
(* without preemption, posts coming from processes and from a handler.     *)
(***************************************************************************)
EXTENDS Semaphore, SyncProofs

\* The provers in the order they are tried, with their time limits in seconds.
USE ZenonT(3), SMTT(30), ZenonT(30)

\* The numbers of the semaphore, apart from the processes.
CountOK == count \in Nat /\ posts \in Nat /\ taken \in Nat /\ PermitsConserved

\* The processes that will try the semaphore or call wake_up.
Coming == Inside("sem_wait") \union Inside("wake_up")

\* The processes asleep on the semaphore or on the way there, without those a
\* wake-up has passed by.
Waiting == (Inside("sleep_on") \union Queued("sem")) \ missed

\* NoLostPost with those on the way to the queue counted as sleepers.
PostInv == Waiting # {} => count <= Cardinality(Coming)

IInv == SyncTypeOK(SemLabels) /\ QueueInv /\ CountOK /\ PostInv

\* The semaphore's queue, the labels, and who may be passed by.
LEMMA Names ==
    /\ "sem" \in Queues
    /\ {"idle", "sem_wait", "sleep_on", "asleep", "wake_up"} = SemLabels
    /\ Inside("sleep_on") \in SUBSET Proc
BY SemaphoreAssumption DEF SemLabels, Inside

\* A step that leaves the numbers alone.
LEMMA CountUnchanged == CountOK /\ UNCHANGED semCounts => CountOK'
BY DEF CountOK, PermitsConserved, semCounts

\* The processes that come are finitely many.
LEMMA ComingFinite == IsFiniteSet(Coming) /\ Cardinality(Coming) \in Nat
<1>1. Coming \subseteq Proc  BY DEF Coming, Inside
<1> QED  BY <1>1, SyncAssumption, FS_Subset, FS_CardinalityType

\* One process more that comes, whatever the count gains by it.
LEMMA OneMore ==
    ASSUME IInv, NEW p \in Proc, p \notin Coming, Coming' = Coming \union {p},
           Waiting' \subseteq Waiting, count' \in {count, count + 1}
    PROVE  PostInv'
<1>1. Cardinality(Coming') = Cardinality(Coming) + 1  BY ComingFinite, FS_AddElement
<1>2. count \in Nat /\ Cardinality(Coming) \in Nat  BY ComingFinite DEF IInv, CountOK
<1>3. CASE Waiting' = {}  BY <1>3 DEF PostInv
<1>4. CASE Waiting' # {}
  <2>1. count <= Cardinality(Coming)  BY <1>4 DEF IInv, PostInv
  <2>2. count' <= Cardinality(Coming')  BY <1>1, <1>2, <2>1
  <2> QED  BY <2>2 DEF PostInv
<1> QED  BY <1>3, <1>4

\* Nobody more waits, the same processes come, and the count is the same.
LEMMA NoneMore ==
    ASSUME IInv, Coming' = Coming, Waiting' \subseteq Waiting, UNCHANGED count
    PROVE  PostInv'
BY DEF IInv, PostInv

-----------------------------------------------------------------------------
\* CallSemWait: one process more will try.
LEMMA CallStep == ASSUME NEW p \in Proc, IInv, CallSemWait(p) PROVE IInv'
<1>1. pc[p] = "idle" /\ Goto(p, "sem_wait") /\ UNCHANGED semCounts
      BY DEF CallSemWait, At
<1>2. SyncTypeOK(SemLabels)' /\ QueueInv'  BY <1>1, Names, GotoType, GotoQueues DEF IInv
<1>3. CountOK'  BY <1>1, CountUnchanged DEF IInv
<1>4. Coming' = Coming \union {p} /\ p \notin Coming
      BY <1>1 DEF Coming, Inside, Goto, IInv, SyncTypeOK
<1>5. Waiting' \subseteq Waiting  BY <1>1 DEF Waiting, Queued, Inside, Goto, IInv, SyncTypeOK
<1>6. PostInv'  BY <1>1, <1>4, <1>5, OneMore DEF semCounts
<1> QED  BY <1>2, <1>3, <1>6 DEF IInv

\* sem_wait: a permit is taken by one of those who come, or there is none.
LEMMA WaitStep == ASSUME NEW p \in Proc, IInv, sem_wait(p) PROVE IInv'
<1>1. pc[p] = "sem_wait"  BY DEF sem_wait, At
<1>2. count \in Nat /\ posts \in Nat /\ taken \in Nat  BY DEF IInv, CountOK
<1>3. CASE count > 0
  <2>1. count' = count - 1 /\ taken' = taken + 1 /\ posts' = posts /\ Goto(p, "idle")
        BY <1>3 DEF sem_wait
  <2>2. SyncTypeOK(SemLabels)' /\ QueueInv'
        BY <1>1, <2>1, Names, GotoType, GotoQueues DEF IInv
  <2>3. CountOK'
        BY <1>2, <1>3, <2>1, SemaphoreAssumption DEF IInv, CountOK, PermitsConserved
  <2>4. Coming' = Coming \ {p} /\ p \in Coming
        BY <1>1, <2>1 DEF Coming, Inside, Goto, IInv, SyncTypeOK
  <2>5. Cardinality(Coming') = Cardinality(Coming) - 1  BY <2>4, ComingFinite, FS_RemoveElement
  <2>6. Waiting' \subseteq Waiting
        BY <2>1 DEF Waiting, Queued, Inside, Goto, IInv, SyncTypeOK
  <2>7. PostInv'
    <3>1. CASE Waiting' = {}  BY <3>1 DEF PostInv
    <3>2. CASE Waiting' # {}
      <4>1. count <= Cardinality(Coming)  BY <2>6, <3>2 DEF IInv, PostInv
      <4>2. count' <= Cardinality(Coming')  BY <1>2, <2>1, <2>5, <4>1, ComingFinite
      <4> QED  BY <4>2 DEF PostInv
    <3> QED  BY <3>1, <3>2
  <2> QED  BY <2>2, <2>3, <2>7 DEF IInv
<1>4. CASE ~(count > 0)
  <2>1. UNCHANGED semCounts /\ Goto(p, "sleep_on")  BY <1>4 DEF sem_wait, semCounts
  <2>2. SyncTypeOK(SemLabels)' /\ QueueInv'
        BY <1>1, <2>1, Names, GotoType, GotoQueues DEF IInv
  <2>3. CountOK'  BY <2>1, CountUnchanged DEF IInv
  <2>4. count' = 0  BY <1>2, <1>4, <2>1 DEF semCounts
  <2>5. Coming' \subseteq Proc  BY DEF Coming, Inside
  <2>6. Cardinality(Coming') \in Nat  BY <2>5, SyncAssumption, FS_Subset, FS_CardinalityType
  <2>7. count' <= Cardinality(Coming')  BY <2>4, <2>6
  <2> QED  BY <2>2, <2>3, <2>7 DEF IInv, PostInv
<1> QED  BY <1>3, <1>4

\* Going to sleep.
LEMMA SleepStep == ASSUME NEW p \in Proc, IInv, sem_wait_sleeps(p) PROVE IInv'
<1>1. pc[p] = "sleep_on" /\ sleep_on(p, "sem") /\ UNCHANGED semCounts
      BY DEF sem_wait_sleeps, At
<1>2. SyncTypeOK(SemLabels)' /\ QueueInv'
      BY <1>1, Names, SleepOnType, SleepOnQueues DEF IInv
<1>3. CountOK'  BY <1>1, CountUnchanged DEF IInv
<1>4. Coming' = Coming  BY <1>1 DEF Coming, Inside, sleep_on, IInv, SyncTypeOK
<1>5. Queued("sem")' \subseteq Queued("sem") \union {p}
  <2>1. wait["sem"] \in Seq(Proc) /\ wait'["sem"] = Append(wait["sem"], p)
        BY <1>1, Names DEF sleep_on, IInv, SyncTypeOK
  <2>2. \A i \in DOMAIN wait'["sem"] :
           wait'["sem"][i] = p \/ (i \in DOMAIN wait["sem"] /\ wait'["sem"][i] = wait["sem"][i])
        BY <2>1
  <2> QED  BY <2>2 DEF Queued
<1>6. Waiting' \subseteq Waiting
  <2>1. missed' = missed /\ p \in Inside("sleep_on")  BY <1>1 DEF sleep_on, Inside
  <2>2. Inside("sleep_on")' \subseteq Inside("sleep_on")
        BY <1>1 DEF Inside, sleep_on, IInv, SyncTypeOK
  <2> QED  BY <1>5, <2>1, <2>2 DEF Waiting
<1>7. PostInv'  BY <1>1, <1>4, <1>6, NoneMore DEF semCounts
<1> QED  BY <1>2, <1>3, <1>7 DEF IInv

\* What sem_post does to the numbers.
LEMMA PostCounts == CountOK /\ Post => CountOK' /\ count' = count + 1
BY SemaphoreAssumption DEF CountOK, PermitsConserved, Post

\* sem_post by a process: one permit more, and one process that will wake.
LEMMA PostStep == ASSUME NEW p \in Proc, IInv, sem_post(p) PROVE IInv'
<1>1. pc[p] = "idle" /\ Post /\ Goto(p, "wake_up")  BY DEF sem_post, At
<1>2. SyncTypeOK(SemLabels)' /\ QueueInv'  BY <1>1, Names, GotoType, GotoQueues DEF IInv
<1>3. CountOK' /\ count' = count + 1  BY <1>1, PostCounts DEF IInv
<1>4. Coming' = Coming \union {p} /\ p \notin Coming
      BY <1>1 DEF Coming, Inside, Goto, IInv, SyncTypeOK
<1>5. Waiting' \subseteq Waiting  BY <1>1 DEF Waiting, Queued, Inside, Goto, IInv, SyncTypeOK
<1>6. PostInv'  BY <1>3, <1>4, <1>5, OneMore
<1> QED  BY <1>2, <1>3, <1>6 DEF IInv

\* A wake-up that finds the queue empty passes everybody by who is on the way.
LEMMA PassedBy ==
    ASSUME wait["sem"] = <<>>, wait' = wait, missed' = missed \union Inside("sleep_on"),
           Inside("sleep_on")' \subseteq Inside("sleep_on")
    PROVE  PostInv'
<1>1. DOMAIN wait'["sem"] = {}  OBVIOUS
<1>2. Waiting' = {}  BY <1>1 DEF Waiting, Queued
<1> QED  BY <1>2 DEF PostInv

\* The wake-up of sem_post: the first sleeper comes in the place of the caller.
LEMMA WakeStep == ASSUME NEW p \in Proc, IInv, sem_post_wakes(p) PROVE IInv'
<1>1. /\ pc[p] = "wake_up" /\ UNCHANGED semCounts
      /\ wake_up(p, "idle", "sem", "sem_wait", Inside("sleep_on"))
      BY DEF sem_post_wakes, At
<1>2. SyncTypeOK(SemLabels)'  BY <1>1, Names, WakeUpType DEF IInv
<1>3. /\ QueueInv'
      /\ \A x \in Proc : x # p => pc'[x] = pc[x] \/ (pc[x] = "asleep" /\ pc'[x] = "sem_wait")
      /\ pc'[p] = "idle"
      BY <1>1, Names, WakeUpQueues DEF IInv
<1>4. CountOK'  BY <1>1, CountUnchanged DEF IInv
<1>5. Inside("sleep_on")' \subseteq Inside("sleep_on")  BY <1>1, <1>3 DEF Inside
<1>6. CASE wait["sem"] = <<>>
  <2>1. wait' = wait /\ missed' = missed \union Inside("sleep_on")
        BY <1>1, <1>6 DEF wake_up
  <2>2. PostInv'  BY <1>5, <1>6, <2>1, PassedBy
  <2> QED  BY <1>2, <1>3, <1>4, <2>2 DEF IInv
<1>7. CASE wait["sem"] # <<>>
  <2> DEFINE h == Head(wait["sem"])
  <2>1. /\ wait' = [wait EXCEPT !["sem"] = Tail(wait["sem"])]
        /\ missed' = missed \ {h}
        /\ pc' = [pc EXCEPT ![p] = "idle", ![h] = "sem_wait"]
        BY <1>1, <1>7 DEF wake_up
  <2>2. \A x \in Proc : x # h /\ pc[x] = "asleep" => pc'[x] = "asleep"
        BY <1>1, <2>1 DEF IInv, SyncTypeOK
  <2>3. /\ h \in Proc /\ pc[h] = "asleep"
        /\ Queued("sem")' \subseteq Queued("sem") \ {h}
        BY <1>7, <2>1, <2>2, Names, HeadLeaves DEF IInv
  <2>4. h # p /\ pc'[h] = "sem_wait"  BY <1>1, <2>1, <2>3 DEF IInv, SyncTypeOK
  <2>5. Coming' = (Coming \ {p}) \union {h} /\ p \in Coming /\ h \notin Coming
        BY <1>1, <2>1, <2>3, <2>4 DEF Coming, Inside, IInv, SyncTypeOK
  <2>6. Waiting' \subseteq Waiting
    <3>1. h \notin Inside("sleep_on")'  BY <2>4 DEF Inside
    <3> QED  BY <1>5, <2>1, <2>3, <3>1 DEF Waiting
  <2> HIDE DEF h
  <2>7. Cardinality(Coming') = Cardinality(Coming)
    <3>1. /\ IsFiniteSet(Coming \ {p}) /\ Cardinality(Coming \ {p}) = Cardinality(Coming) - 1
          BY <2>5, ComingFinite, FS_RemoveElement
    <3>2. h \notin Coming \ {p}  BY <2>5
    <3>3. Cardinality(Coming') = Cardinality(Coming \ {p}) + 1
          BY <2>5, <3>1, <3>2, FS_AddElement
    <3> QED  BY <3>1, <3>3, ComingFinite
  <2>8. PostInv'  BY <1>1, <2>6, <2>7 DEF IInv, PostInv, semCounts
  <2> QED  BY <1>2, <1>3, <1>4, <2>8 DEF IInv
<1> QED  BY <1>6, <1>7

\* sem_post in the handler: one permit more, and the first sleeper comes for it.
LEMMA IrqStep == ASSUME IInv, irq_sem_post PROVE IInv'
<1>1. Post /\ irq_wake_up("sem", "sem_wait", Inside("sleep_on"))  BY DEF irq_sem_post
<1>2. SyncTypeOK(SemLabels)'  BY <1>1, Names, IrqWakeUpType DEF IInv
<1>3. /\ QueueInv'
      /\ \A x \in Proc : pc'[x] = pc[x] \/ (pc[x] = "asleep" /\ pc'[x] = "sem_wait")
      BY <1>1, Names, IrqWakeUpQueues DEF IInv
<1>4. CountOK' /\ count' = count + 1  BY <1>1, PostCounts DEF IInv
<1>5. Inside("sleep_on")' \subseteq Inside("sleep_on")  BY <1>3 DEF Inside
<1>6. CASE wait["sem"] = <<>>
  <2>1. wait' = wait /\ missed' = missed \union Inside("sleep_on")
        BY <1>1, <1>6 DEF irq_wake_up
  <2>2. PostInv'  BY <1>5, <1>6, <2>1, PassedBy
  <2> QED  BY <1>2, <1>3, <1>4, <2>2 DEF IInv
<1>7. CASE wait["sem"] # <<>>
  <2> DEFINE h == Head(wait["sem"])
  <2>1. /\ wait' = [wait EXCEPT !["sem"] = Tail(wait["sem"])]
        /\ missed' = missed \ {h}
        /\ pc' = [pc EXCEPT ![h] = "sem_wait"]
        BY <1>1, <1>7 DEF irq_wake_up
  <2>2. \A x \in Proc : x # h /\ pc[x] = "asleep" => pc'[x] = "asleep"
        BY <2>1 DEF IInv, SyncTypeOK
  <2>3. /\ h \in Proc /\ pc[h] = "asleep"
        /\ Queued("sem")' \subseteq Queued("sem") \ {h}
        BY <1>7, <2>1, <2>2, Names, HeadLeaves DEF IInv
  <2>4. pc'[h] = "sem_wait"  BY <2>1, <2>3 DEF IInv, SyncTypeOK
  <2>5. Coming' = Coming \union {h} /\ h \notin Coming
        BY <2>1, <2>3, <2>4 DEF Coming, Inside, IInv, SyncTypeOK
  <2>6. Waiting' \subseteq Waiting
    <3>1. h \notin Inside("sleep_on")'  BY <2>4 DEF Inside
    <3> QED  BY <1>5, <2>1, <2>3, <3>1 DEF Waiting
  <2>7. PostInv'  BY <1>4, <2>3, <2>5, <2>6, OneMore
  <2> QED  BY <1>2, <1>3, <1>4, <2>7 DEF IInv
<1> QED  BY <1>6, <1>7

-----------------------------------------------------------------------------
\* sem_init establishes the invariant.
LEMMA InitInv == sem_init => IInv
<1> SUFFICES ASSUME sem_init PROVE IInv  OBVIOUS
<1>1. SyncTypeOK(SemLabels)  BY Names, InitType DEF sem_init
<1>2. (\A q \in Queues : DOMAIN wait[q] = {}) /\ \A x \in Proc : pc[x] = "idle"
      BY DEF sem_init, SyncInit
<1>3. QueueInv  BY <1>2 DEF QueueInv
<1>4. CountOK  BY SemaphoreAssumption DEF sem_init, CountOK, PermitsConserved
<1>5. Waiting = {}  BY <1>2, Names DEF Waiting, Queued, Inside
<1> QED  BY <1>1, <1>3, <1>4, <1>5 DEF IInv, PostInv

\* Every step of every process and of the handler preserves the invariant.
LEMMA NextInv == IInv /\ [SemNext]_semVars => IInv'
<1> SUFFICES ASSUME IInv, [SemNext]_semVars PROVE IInv'  OBVIOUS
<1>1. CASE SemYield \/ UNCHANGED semVars
  <2>1. UNCHANGED <<wait, pc, missed, semCounts>>
        BY <1>1 DEF SemYield, Switch, semVars, syncVars
  <2>2. SyncTypeOK(SemLabels)'
    <3>1. CASE SemYield  BY <3>1, SwitchType DEF SemYield, IInv
    <3>2. CASE UNCHANGED semVars  BY <3>2 DEF semVars, syncVars, IInv, SyncTypeOK
    <3> QED  BY <1>1, <3>1, <3>2
  <2>3. QueueInv'  BY <2>1 DEF IInv, QueueInv
  <2>4. CountOK'  BY <2>1, CountUnchanged DEF IInv
  <2>5. Coming' = Coming /\ Waiting' = Waiting
        BY <2>1 DEF Coming, Waiting, Queued, Inside
  <2>6. PostInv'  BY <2>1, <2>5, NoneMore DEF semCounts
  <2> QED  BY <2>2, <2>3, <2>4, <2>6 DEF IInv
<1> QED  BY <1>1, CallStep, WaitStep, SleepStep, PostStep, WakeStep, IrqStep DEF SemNext

\* The permits sem_init and sem_post put in are in sem->count or have let one
\* sem_wait return, for any set of processes and any number of permits and posts.
THEOREM Conservation == SemSpec => []PermitsConserved
<1>1. IInv => PermitsConserved  BY DEF IInv, CountOK
<1> QED  BY <1>1, InitInv, NextInv, PTL DEF SemSpec

\* No sem_post is lost on a process that is asleep: while a process sleeps that
\* no wake-up has passed by, there are no more permits than processes about to
\* take one or to call wake_up; for any set of processes and any number of
\* permits and posts, from processes and from a handler.
THEOREM PostReaches == SemSpec => []NoLostPost
<1>1. IInv => NoLostPost
      BY DEF IInv, PostInv, Waiting, Queued, Coming, NoLostPost, Sleepers
<1> QED  BY <1>1, InitInv, NextInv, PTL DEF SemSpec
=============================================================================
