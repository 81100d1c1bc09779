----------------------------- MODULE SyncProofs -----------------------------
(***************************************************************************)
(* What the wait-queue operations preserve, for the proofs about the       *)
(* primitives built on them.                                               *)
(***************************************************************************)
EXTENDS SyncBase, FiniteSetTheorems, TLAPS

\* The provers in the order they are tried, with their time limits in seconds.
USE ZenonT(3), SMTT(30), ZenonT(30)

\* A process that goes on to another section keeps the types.
LEMMA GotoType ==
    ASSUME NEW L, NEW p \in Proc, NEW l \in L, SyncTypeOK(L), Goto(p, l)
    PROVE  SyncTypeOK(L)'
BY DEF SyncTypeOK, Goto

\* sleep_on keeps the types.
LEMMA SleepOnType ==
    ASSUME NEW L, NEW p \in Proc, NEW q \in Queues, "asleep" \in L, SyncTypeOK(L), sleep_on(p, q)
    PROVE  SyncTypeOK(L)'
<1>1. wait[q] \in Seq(Proc)  BY DEF SyncTypeOK
<1>2. Append(wait[q], p) \in Seq(Proc)  BY <1>1
<1>3. wait' \in [Queues -> Seq(Proc)]  BY <1>2 DEF sleep_on, SyncTypeOK
<1>4. pc' \in [Proc -> L]  BY DEF sleep_on, SyncTypeOK
<1>5. current' \in Proc \union {Boot}  BY DEF sleep_on, SwitchFrom
<1>6. preempted' \in BOOLEAN /\ missed' \in SUBSET Proc  BY DEF sleep_on, SyncTypeOK
<1> QED  BY <1>3, <1>4, <1>5, <1>6 DEF SyncTypeOK

\* wake_up keeps the types: the process it takes off the queue is a process.
LEMMA WakeUpType ==
    ASSUME NEW L, NEW p \in Proc, NEW q \in Queues, NEW l \in L, NEW r \in L,
           NEW W \in SUBSET Proc, SyncTypeOK(L), wake_up(p, l, q, r, W)
    PROVE  SyncTypeOK(L)'
<1>1. wait[q] \in Seq(Proc)  BY DEF SyncTypeOK
<1>2. CASE wait[q] = <<>>  BY <1>2 DEF wake_up, SyncTypeOK
<1>3. CASE wait[q] # <<>>
  <2>1. Head(wait[q]) \in Proc /\ Tail(wait[q]) \in Seq(Proc)  BY <1>1, <1>3
  <2>2. wait' \in [Queues -> Seq(Proc)]  BY <1>3, <2>1 DEF wake_up, SyncTypeOK
  <2>3. pc' \in [Proc -> L]  BY <1>3, <2>1 DEF wake_up, SyncTypeOK
  <2>4. missed' \in SUBSET Proc  BY <1>3 DEF wake_up, SyncTypeOK
  <2> QED  BY <2>2, <2>3, <2>4 DEF wake_up, SyncTypeOK
<1> QED  BY <1>2, <1>3

\* So does wake_up in a handler.
LEMMA IrqWakeUpType ==
    ASSUME NEW L, NEW q \in Queues, NEW r \in L,
           NEW W \in SUBSET Proc, SyncTypeOK(L), irq_wake_up(q, r, W)
    PROVE  SyncTypeOK(L)'
<1>1. wait[q] \in Seq(Proc)  BY DEF SyncTypeOK
<1>2. CASE wait[q] = <<>>  BY <1>2 DEF irq_wake_up, SyncTypeOK
<1>3. CASE wait[q] # <<>>
  <2>1. Head(wait[q]) \in Proc /\ Tail(wait[q]) \in Seq(Proc)  BY <1>1, <1>3
  <2>2. wait' \in [Queues -> Seq(Proc)]  BY <1>3, <2>1 DEF irq_wake_up, SyncTypeOK
  <2>3. pc' \in [Proc -> L]  BY <1>3, <2>1 DEF irq_wake_up, SyncTypeOK
  <2>4. missed' \in SUBSET Proc  BY <1>3 DEF irq_wake_up, SyncTypeOK
  <2> QED  BY <2>2, <2>3, <2>4 DEF irq_wake_up, SyncTypeOK
<1> QED  BY <1>2, <1>3

\* wake_up_all keeps the types.
LEMMA WakeUpAllType ==
    ASSUME NEW L, NEW p \in Proc, NEW q \in Queues, NEW l \in L, NEW r \in L,
           NEW W \in SUBSET Proc, SyncTypeOK(L), wake_up_all(p, l, q, r, W)
    PROVE  SyncTypeOK(L)'
<1>1. <<>> \in Seq(Proc)  OBVIOUS
<1>2. wait' \in [Queues -> Seq(Proc)]  BY <1>1 DEF wake_up_all, SyncTypeOK
<1>3. pc' \in [Proc -> L]  BY DEF wake_up_all, SyncTypeOK
<1>4. missed' \in SUBSET Proc  BY DEF wake_up_all, SyncTypeOK
<1> QED  BY <1>2, <1>3, <1>4 DEF wake_up_all, SyncTypeOK

\* Yielding the CPU, or being preempted, keeps the types.
LEMMA SwitchType ==
    ASSUME NEW L, NEW outside, SyncTypeOK(L), Switch(outside)
    PROVE  SyncTypeOK(L)'
BY DEF Switch, SwitchFrom, SyncTypeOK

\* The wait queues start out empty and the processes outside any call.
LEMMA InitType ==
    ASSUME NEW L, "idle" \in L, SyncInit PROVE SyncTypeOK(L)
<1>1. <<>> \in Seq(Proc)  OBVIOUS
<1> QED  BY <1>1 DEF SyncInit, SyncTypeOK

-----------------------------------------------------------------------------
\* Whoever is on a wait queue is asleep, and is on one queue, once.
QueueInv ==
    /\ \A q \in Queues : \A i \in DOMAIN wait[q] : pc[wait[q][i]] = "asleep"
    /\ \A q, r \in Queues : \A i \in DOMAIN wait[q], j \in DOMAIN wait[r] :
          wait[q][i] = wait[r][j] => q = r /\ i = j

\* A process that is not asleep is on no queue, so it may move on.
LEMMA GotoQueues ==
    ASSUME NEW L, NEW p \in Proc, NEW l, SyncTypeOK(L), QueueInv,
           pc[p] # "asleep", Goto(p, l)
    PROVE  QueueInv'
BY DEF SyncTypeOK, QueueInv, Goto

\* sleep_on puts the process on one queue.
LEMMA SleepOnQueues ==
    ASSUME NEW L, NEW p \in Proc, NEW q \in Queues, SyncTypeOK(L), QueueInv,
           pc[p] # "asleep", sleep_on(p, q)
    PROVE  QueueInv'
<1>1. wait[q] \in Seq(Proc)  BY DEF SyncTypeOK
<1>2. /\ wait' = [wait EXCEPT ![q] = Append(wait[q], p)]
      /\ pc' = [pc EXCEPT ![p] = "asleep"]
      BY DEF sleep_on
<1>3. /\ DOMAIN Append(wait[q], p) = 1 .. Len(wait[q]) + 1
      /\ DOMAIN wait[q] = 1 .. Len(wait[q])
      /\ Len(wait[q]) \in Nat
      /\ \A i \in 1 .. Len(wait[q]) : Append(wait[q], p)[i] = wait[q][i]
      /\ Append(wait[q], p)[Len(wait[q]) + 1] = p
      BY <1>1
<1>4. /\ wait'[q] = Append(wait[q], p)
      /\ \A r \in Queues : r # q => wait'[r] = wait[r]
      BY <1>2 DEF SyncTypeOK
<1>5. \A r \in Queues : \A i \in DOMAIN wait[r] : wait[r][i] \in Proc /\ wait[r][i] # p
      BY DEF SyncTypeOK, QueueInv
<1>6. \A r \in Queues : \A i \in DOMAIN wait'[r] : pc'[wait'[r][i]] = "asleep"
  <2> SUFFICES ASSUME NEW r \in Queues, NEW i \in DOMAIN wait'[r]
               PROVE  pc'[wait'[r][i]] = "asleep"
      OBVIOUS
  <2>1. CASE r # q  BY <2>1, <1>2, <1>4, <1>5 DEF QueueInv, SyncTypeOK
  <2>2. CASE r = q /\ i \in 1 .. Len(wait[q])
        BY <2>2, <1>2, <1>3, <1>4, <1>5 DEF QueueInv, SyncTypeOK
  <2>3. CASE r = q /\ i = Len(wait[q]) + 1
        BY <2>3, <1>2, <1>3, <1>4 DEF SyncTypeOK
  <2> QED  BY <2>1, <2>2, <2>3, <1>3, <1>4
\* An entry other than p was there before.
<1>7. ASSUME NEW t \in Queues, NEW k \in DOMAIN wait'[t], wait'[t][k] # p
      PROVE  k \in DOMAIN wait[t] /\ wait'[t][k] = wait[t][k]
  <2>1. CASE t = q
    <3>1. k \in 1 .. Len(wait[q]) + 1 /\ wait'[q][k] = Append(wait[q], p)[k]
          BY <2>1, <1>3, <1>4
    <3>2. k # Len(wait[q]) + 1  BY <1>7, <2>1, <3>1, <1>3
    <3>3. k \in 1 .. Len(wait[q])  BY <3>1, <3>2, <1>3
    <3> QED  BY <2>1, <3>1, <3>3, <1>3
  <2>2. CASE t # q  BY <2>2, <1>4
  <2> QED  BY <2>1, <2>2
<1>8. ASSUME NEW r \in Queues, NEW s \in Queues, NEW i \in DOMAIN wait'[r],
             NEW j \in DOMAIN wait'[s], wait'[r][i] = wait'[s][j]
      PROVE  r = s /\ i = j
  <2>1. CASE wait'[r][i] = p
    <3>1. r = q /\ s = q  BY <2>1, <1>8, <1>4, <1>5
    <3>2. i \in 1 .. Len(wait[q]) + 1 /\ j \in 1 .. Len(wait[q]) + 1
          BY <3>1, <1>3, <1>4
    <3>3. i \notin 1 .. Len(wait[q]) /\ j \notin 1 .. Len(wait[q])
          BY <2>1, <1>8, <3>1, <1>3, <1>4, <1>5
    <3> QED  BY <3>1, <3>2, <3>3, <1>3
  <2>2. CASE wait'[r][i] # p
    <3>1. i \in DOMAIN wait[r] /\ wait'[r][i] = wait[r][i]  BY <2>2, <1>7
    <3>2. j \in DOMAIN wait[s] /\ wait'[s][j] = wait[s][j]  BY <2>2, <1>8, <1>7
    <3>3. wait[r][i] = wait[s][j]  BY <1>8, <3>1, <3>2
    <3>4. \A x \in DOMAIN wait[r], y \in DOMAIN wait[s] :
             wait[r][x] = wait[s][y] => r = s /\ x = y
          BY DEF QueueInv
    <3> QED  BY <3>1, <3>2, <3>3, <3>4
  <2> QED  BY <2>1, <2>2
<1> QED  BY <1>6, <1>8 DEF QueueInv

\* The processes on a queue.
Queued(q) == {wait[q][i] : i \in DOMAIN wait[q]}

\* Taking the first sleeper off its queue leaves the others where they are, and
\* the first on no queue.
LEMMA HeadLeaves ==
    ASSUME NEW L, NEW q \in Queues, SyncTypeOK(L), QueueInv, wait[q] # <<>>,
           wait' = [wait EXCEPT ![q] = Tail(wait[q])],
           \A x \in Proc : x # Head(wait[q]) /\ pc[x] = "asleep" => pc'[x] = "asleep"
    PROVE  /\ QueueInv'
           /\ Head(wait[q]) \in Proc /\ pc[Head(wait[q])] = "asleep"
           /\ \A s \in Queues : Queued(s)' \subseteq Queued(s) \ {Head(wait[q])}
<1> DEFINE h == Head(wait[q])
<1>1. wait[q] \in Seq(Proc)  BY DEF SyncTypeOK
<1>2. /\ h \in Proc /\ h = wait[q][1] /\ 1 \in DOMAIN wait[q]
      /\ DOMAIN Tail(wait[q]) = 1 .. Len(wait[q]) - 1
      /\ DOMAIN wait[q] = 1 .. Len(wait[q]) /\ Len(wait[q]) \in Nat
      /\ \A i \in 1 .. Len(wait[q]) - 1 : Tail(wait[q])[i] = wait[q][i + 1]
      BY <1>1
<1>3. pc[h] = "asleep"  BY <1>2 DEF QueueInv
<1>4. /\ wait'[q] = Tail(wait[q])
      /\ \A s \in Queues : s # q => wait'[s] = wait[s]
      BY DEF SyncTypeOK
\* Each entry that is left was an entry before, and is not h.
<1>5. ASSUME NEW s \in Queues, NEW i \in DOMAIN wait'[s]
      PROVE  LET k == IF s = q THEN i + 1 ELSE i
             IN  /\ k \in DOMAIN wait[s] /\ wait'[s][i] = wait[s][k]
                 /\ wait[s][k] # h /\ wait[s][k] \in Proc
  <2>1. CASE s = q
    <3>1. i \in DOMAIN Tail(wait[q]) /\ wait'[q][i] = Tail(wait[q])[i]  BY <2>1, <1>4
    <3>2. i \in 1 .. Len(wait[q]) - 1 /\ wait'[q][i] = wait[q][i + 1]  BY <3>1, <1>2
    <3>3. i + 1 \in DOMAIN wait[q] /\ wait'[q][i] = wait[q][i + 1] /\ i + 1 # 1
          BY <3>2, <1>2
    <3>4. \A x, y \in DOMAIN wait[q] : wait[q][x] = wait[q][y] => x = y  BY DEF QueueInv
    <3>5. wait[q][i + 1] # h  BY <3>3, <3>4, <1>2
    <3>6. wait[q][i + 1] \in Proc  BY <3>3, <1>1
    <3> QED  BY <2>1, <3>3, <3>5, <3>6
  <2>2. CASE s # q
    <3>1. i \in DOMAIN wait[s] /\ wait'[s][i] = wait[s][i] /\ wait[s] \in Seq(Proc)
          BY <2>2, <1>4 DEF SyncTypeOK
    <3> QED  BY <2>2, <3>1, <1>2 DEF QueueInv
  <2> QED  BY <2>1, <2>2
<1>6. \A s \in Queues : \A i \in DOMAIN wait'[s] :
         \E k \in DOMAIN wait[s] : /\ wait'[s][i] = wait[s][k] /\ wait[s][k] # h
                                  /\ wait[s][k] \in Proc
  <2> SUFFICES ASSUME NEW s \in Queues, NEW i \in DOMAIN wait'[s]
               PROVE  \E k \in DOMAIN wait[s] : /\ wait'[s][i] = wait[s][k] /\ wait[s][k] # h
                                               /\ wait[s][k] \in Proc
      OBVIOUS
  <2> DEFINE m == IF s = q THEN i + 1 ELSE i
  <2>1. /\ m \in DOMAIN wait[s] /\ wait'[s][i] = wait[s][m]
        /\ wait[s][m] # h /\ wait[s][m] \in Proc
        BY <1>5
  <2> HIDE DEF m
  <2> QED  BY <2>1
<1>7. \A s \in Queues : \A i \in DOMAIN wait'[s] : pc'[wait'[s][i]] = "asleep"
  <2> SUFFICES ASSUME NEW s \in Queues, NEW i \in DOMAIN wait'[s]
               PROVE  pc'[wait'[s][i]] = "asleep"
      OBVIOUS
  <2>1. PICK k \in DOMAIN wait[s] : /\ wait'[s][i] = wait[s][k] /\ wait[s][k] # h
                                    /\ wait[s][k] \in Proc
        BY <1>6
  <2>2. pc[wait[s][k]] = "asleep"  BY DEF QueueInv
  <2> QED  BY <2>1, <2>2
<1>8. ASSUME NEW s \in Queues, NEW t \in Queues, NEW i \in DOMAIN wait'[s],
             NEW j \in DOMAIN wait'[t], wait'[s][i] = wait'[t][j]
      PROVE  s = t /\ i = j
  <2> DEFINE k == IF s = q THEN i + 1 ELSE i
             m == IF t = q THEN j + 1 ELSE j
  <2>1. k \in DOMAIN wait[s] /\ wait'[s][i] = wait[s][k]  BY <1>5
  <2>2. m \in DOMAIN wait[t] /\ wait'[t][j] = wait[t][m]  BY <1>5
  <2>3. wait[s][k] = wait[t][m]  BY <1>8, <2>1, <2>2
  <2> HIDE DEF k, m
  <2>4. \A x \in DOMAIN wait[s], y \in DOMAIN wait[t] :
           wait[s][x] = wait[t][y] => s = t /\ x = y
        BY DEF QueueInv
  <2>5. s = t /\ k = m  BY <2>1, <2>2, <2>3, <2>4
  <2>6. i \in Nat /\ j \in Nat
    <3>1. Tail(wait[q]) \in Seq(Proc)  BY <1>1
    <3>2. \A u \in Queues : wait'[u] \in Seq(Proc)  BY <3>1, <1>4 DEF SyncTypeOK
    <3>3. wait'[s] \in Seq(Proc) /\ wait'[t] \in Seq(Proc)  BY <3>2
    <3> QED  BY <3>3
  <2> QED  BY <2>5, <2>6 DEF k, m
<1>9. \A s \in Queues : Queued(s)' \subseteq Queued(s) \ {h}  BY <1>6 DEF Queued
<1> QED  BY <1>2, <1>3, <1>7, <1>8, <1>9 DEF QueueInv

\* Only a sleeper is moved by wake_up, and it leaves its queue.
LEMMA WakeUpQueues ==
    ASSUME NEW L, NEW p \in Proc, NEW q \in Queues, NEW l, NEW r, NEW W,
           SyncTypeOK(L), QueueInv, pc[p] # "asleep", wake_up(p, l, q, r, W)
    PROVE  /\ QueueInv'
           /\ \A x \in Proc : x # p => pc'[x] = pc[x] \/ (pc[x] = "asleep" /\ pc'[x] = r)
           /\ pc'[p] = l
<1>1. CASE wait[q] = <<>>
      BY <1>1 DEF wake_up, SyncTypeOK, QueueInv
<1>2. CASE wait[q] # <<>>
  <2> DEFINE h == Head(wait[q])
  <2>1. wait[q] \in Seq(Proc)  BY DEF SyncTypeOK
  <2>2. h \in Proc /\ h = wait[q][1] /\ 1 \in DOMAIN wait[q]  BY <1>2, <2>1
  <2>3. pc[h] = "asleep" /\ h # p  BY <2>2 DEF QueueInv
  <2>4. /\ pc' = [pc EXCEPT ![p] = l, ![h] = r]
        /\ wait' = [wait EXCEPT ![q] = Tail(wait[q])]
        BY <1>2 DEF wake_up
  <2>5. /\ pc'[p] = l /\ pc'[h] = r
        /\ \A x \in Proc : x \notin {p, h} => pc'[x] = pc[x]
        BY <2>2, <2>3, <2>4 DEF SyncTypeOK
  <2>6. QueueInv'  BY <1>2, <2>4, <2>5, HeadLeaves
  <2> QED  BY <2>3, <2>5, <2>6
<1> QED  BY <1>1, <1>2

\* The same of wake_up in a handler.
LEMMA IrqWakeUpQueues ==
    ASSUME NEW L, NEW q \in Queues, NEW r, NEW W,
           SyncTypeOK(L), QueueInv, irq_wake_up(q, r, W)
    PROVE  /\ QueueInv'
           /\ \A x \in Proc : pc'[x] = pc[x] \/ (pc[x] = "asleep" /\ pc'[x] = r)
<1>1. CASE wait[q] = <<>>
      BY <1>1 DEF irq_wake_up, SyncTypeOK, QueueInv
<1>2. CASE wait[q] # <<>>
  <2> DEFINE h == Head(wait[q])
  <2>1. wait[q] \in Seq(Proc)  BY DEF SyncTypeOK
  <2>2. h \in Proc /\ h = wait[q][1] /\ 1 \in DOMAIN wait[q]  BY <1>2, <2>1
  <2>3. pc[h] = "asleep"  BY <2>2 DEF QueueInv
  <2>4. pc' = [pc EXCEPT ![h] = r] /\ wait' = [wait EXCEPT ![q] = Tail(wait[q])]
        BY <1>2 DEF irq_wake_up
  <2>5. pc'[h] = r /\ \A x \in Proc : x # h => pc'[x] = pc[x]
        BY <2>2, <2>4 DEF SyncTypeOK
  <2>6. QueueInv'  BY <1>2, <2>4, <2>5, HeadLeaves
  <2> QED  BY <2>3, <2>5, <2>6
<1> QED  BY <1>1, <1>2

\* wake_up_all moves the sleepers of one queue, and leaves it empty.
LEMMA WakeUpAllQueues ==
    ASSUME NEW L, NEW p \in Proc, NEW q \in Queues, NEW l, NEW r, NEW W,
           SyncTypeOK(L), QueueInv, pc[p] # "asleep", wake_up_all(p, l, q, r, W)
    PROVE  /\ QueueInv'
           /\ \A x \in Proc : x # p => pc'[x] = pc[x] \/ (pc[x] = "asleep" /\ pc'[x] = r)
           /\ pc'[p] = l
<1>1. \A s \in Queues : \A i \in DOMAIN wait[s] : wait[s][i] \in Proc /\ wait[s][i] # p
      BY DEF SyncTypeOK, QueueInv
<1>2. /\ wait'[q] = <<>>
      /\ \A s \in Queues : s # q => wait'[s] = wait[s]
      BY DEF wake_up_all, SyncTypeOK
<1>3. DOMAIN wait'[q] = {}  BY <1>2
<1>4. \A x \in Proc : pc'[x] = IF x = p THEN l
                               ELSE IF \E i \in DOMAIN wait[q] : wait[q][i] = x THEN r
                               ELSE pc[x]
      BY DEF wake_up_all
<1>5. \A x \in Proc : (\E i \in DOMAIN wait[q] : wait[q][i] = x) => pc[x] = "asleep"
      BY DEF QueueInv
<1>6. \A s \in Queues : \A i \in DOMAIN wait'[s] : pc'[wait'[s][i]] = "asleep"
      BY <1>1, <1>2, <1>3, <1>4 DEF QueueInv
<1>7. \A s, t \in Queues : \A i \in DOMAIN wait'[s], j \in DOMAIN wait'[t] :
          wait'[s][i] = wait'[t][j] => s = t /\ i = j
      BY <1>2, <1>3 DEF QueueInv
<1> QED  BY <1>4, <1>5, <1>6, <1>7 DEF QueueInv

-----------------------------------------------------------------------------
\* The processes inside are finitely many.
LEMMA InsideFinite == \A l : IsFiniteSet(Inside(l)) /\ Cardinality(Inside(l)) \in Nat
<1> TAKE l
<1>1. Inside(l) \subseteq Proc  BY DEF Inside
<1>2. IsFiniteSet(Inside(l))  BY <1>1, SyncAssumption, FS_Subset
<1> QED  BY <1>2, FS_CardinalityType

\* Entering a section adds the process to those inside, and nobody else.
LEMMA Enter ==
    ASSUME NEW L, NEW p \in Proc, NEW l, SyncTypeOK(L), pc[p] # l, Goto(p, l)
    PROVE  Cardinality(Inside(l))' = Cardinality(Inside(l)) + 1
<1>1. Inside(l)' = Inside(l) \union {p}  BY DEF Inside, Goto, SyncTypeOK
<1>2. p \notin Inside(l)  BY DEF Inside
<1> QED  BY <1>1, <1>2, InsideFinite, FS_AddElement

\* Leaving a section removes the process from those inside, and nobody else.
LEMMA Leave ==
    ASSUME NEW L, NEW p \in Proc, NEW l, NEW m, SyncTypeOK(L),
           pc[p] = l, m # l, Goto(p, m)
    PROVE  Cardinality(Inside(l))' = Cardinality(Inside(l)) - 1
<1>1. Inside(l)' = Inside(l) \ {p}  BY DEF Inside, Goto, SyncTypeOK
<1>2. p \in Inside(l)  BY DEF Inside
<1> QED  BY <1>1, <1>2, InsideFinite, FS_RemoveElement

\* A step between two other sections leaves those inside alone.
LEMMA Stay ==
    ASSUME NEW L, NEW p \in Proc, NEW l, NEW m, SyncTypeOK(L),
           pc[p] # l, m # l, Goto(p, m)
    PROVE  Inside(l)' = Inside(l)
BY DEF Inside, Goto, SyncTypeOK

\* sleep_on takes nobody into or out of a section but the sleeper.
LEMMA SleepStay ==
    ASSUME NEW L, NEW p \in Proc, NEW q, NEW l, SyncTypeOK(L),
           pc[p] # l, l # "asleep", sleep_on(p, q)
    PROVE  Inside(l)' = Inside(l)
BY DEF Inside, sleep_on, SyncTypeOK
=============================================================================
