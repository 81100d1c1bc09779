--------------------------- MODULE SpinlockProofs ---------------------------
(***************************************************************************)
(* For every set of locks and processes, any depth of nesting of locks and *)
(* of interrupts: as long as locks are used in nested order, the interrupt *)
(* flag kept in each spinlock is enough, although the flag of the CPU is   *)
(* handed on from process to process.                                      *)
(***************************************************************************)
EXTENDS Spinlock, SequenceTheorems, TLAPS

\* The provers in the order they are tried, with their time limits in seconds.
USE ZenonT(3), SMTT(30), ZenonT(30)

SpinRec == [locked : {0, 1}, rflags : BOOLEAN, owner_pid : SpinPid \union {-1}]

\* The types of the variables: there is always some code on every stack.
SpinTypeOK ==
    /\ spin \in [SpinLocks -> SpinRec]
    /\ IF_ \in BOOLEAN
    /\ running \in SpinPid
    /\ frames \in [SpinPid -> Seq(Seq(SpinLocks)) \ {<<>>}]
    /\ found \in BOOLEAN

\* The first lock held keeps the flag as it was found; the locks taken after it
\* keep that it was off.
FlagInv == \A i \in DOMAIN Held : spin[Held[i]].rflags = IF i = 1 THEN found ELSE FALSE

Nested == SpinTypeOK /\ LocksPrivate /\ FlagInv

SpinInv == misused \in BOOLEAN /\ (~misused => Nested)

-----------------------------------------------------------------------------
\* The running code is there, and its locks are a sequence of locks.
LEMMA HeldType ==
    ASSUME SpinTypeOK
    PROVE  /\ frames[running] \in Seq(Seq(SpinLocks))
           /\ Depth \in Nat \ {0} /\ Depth \in DOMAIN frames[running]
           /\ DOMAIN frames[running] = 1 .. Depth
           /\ Held \in Seq(SpinLocks) /\ Len(Held) \in Nat /\ DOMAIN Held = 1 .. Len(Held)
           /\ \A i \in DOMAIN Held : Held[i] \in SpinLocks
<1> DEFINE f == frames[running]
<1>1. f \in Seq(Seq(SpinLocks)) /\ f # <<>>  BY DEF SpinTypeOK
<1>2. Len(f) \in Nat \ {0} /\ DOMAIN f = 1 .. Len(f) /\ Len(f) \in DOMAIN f  BY <1>1
<1>3. f[Len(f)] \in Seq(SpinLocks)  BY <1>1, <1>2, ElementOfSeq
<1>4. Depth = Len(f) /\ Held = f[Len(f)]  BY DEF Depth, Held
<1> HIDE DEF f
<1>5. Held \in Seq(SpinLocks)  BY <1>3, <1>4
<1>6. Len(Held) \in Nat /\ DOMAIN Held = 1 .. Len(Held)  BY <1>5, LenProperties
<1>7. \A i \in DOMAIN Held : Held[i] \in SpinLocks  BY <1>5, <1>6, ElementOfSeq
<1> QED  BY <1>1, <1>2, <1>4, <1>5, <1>6, <1>7 DEF f

\* Taking or releasing a lock changes the locks of the running code and nothing
\* else on the stacks.
LEMMA Replaced ==
    ASSUME SpinTypeOK, NEW t \in Seq(SpinLocks), running' = running,
           frames' = [frames EXCEPT ![running] = [frames[running] EXCEPT ![Depth] = t]]
    PROVE  /\ frames' \in [SpinPid -> Seq(Seq(SpinLocks)) \ {<<>>}]
           /\ Depth' = Depth /\ Held' = t /\ frames'[running][Depth] = t
           /\ \A p \in SpinPid : DOMAIN frames'[p] = DOMAIN frames[p]
           /\ \A p \in SpinPid : \A k \in DOMAIN frames[p] :
                 (p # running \/ k # Depth) => frames'[p][k] = frames[p][k]
<1> DEFINE f == frames[running]
           g == [f EXCEPT ![Depth] = t]
<1>1. f \in Seq(Seq(SpinLocks)) /\ Depth \in DOMAIN f /\ Depth = Len(f) /\ Depth \in Nat \ {0}
      BY HeldType DEF Depth
<1>2. DOMAIN g = DOMAIN f /\ g[Depth] = t /\ \A k \in DOMAIN f : k # Depth => g[k] = f[k]
      BY <1>1
<1>3. g \in Seq(Seq(SpinLocks)) /\ Len(g) = Len(f)
      BY <1>1, ExceptSeq
<1>4. g # <<>>  BY <1>1, <1>3
<1>5. running \in SpinPid /\ frames \in [SpinPid -> Seq(Seq(SpinLocks)) \ {<<>>}]
      BY DEF SpinTypeOK
<1> HIDE DEF g
<1>6. frames'[running] = g /\ \A p \in SpinPid : p # running => frames'[p] = frames[p]
      BY <1>5 DEF g
<1>7. frames' \in [SpinPid -> Seq(Seq(SpinLocks)) \ {<<>>}]
      BY <1>3, <1>4, <1>5 DEF g
<1>8. Depth' = Depth /\ Held' = t  BY <1>1, <1>2, <1>3, <1>6 DEF Depth, Held
<1> QED  BY <1>2, <1>6, <1>7, <1>8

\* While the running code holds nothing, nobody does, and no lock is taken.
LEMMA NobodyHolds ==
    ASSUME Nested, Held = <<>>
    PROVE  /\ \A p \in SpinPid : \A k \in DOMAIN frames[p] : frames[p][k] = <<>>
           /\ \A l \in SpinLocks : spin[l].locked # 1
<1>1. DOMAIN Held = {}  OBVIOUS
<1>2. \A l \in SpinLocks : spin[l].locked # 1  BY <1>1 DEF Nested, LocksPrivate
<1>3. \A p \in SpinPid : \A k \in DOMAIN frames[p] : frames[p][k] = <<>>
  <2> SUFFICES ASSUME NEW p \in SpinPid, NEW k \in DOMAIN frames[p], frames[p][k] # <<>>
               PROVE  FALSE
      OBVIOUS
  <2>1. p = running /\ k = Depth  BY DEF Nested, LocksPrivate
  <2> QED  BY <2>1 DEF Held
<1> QED  BY <1>2, <1>3

\* A step that leaves the locks free and everybody holding nothing keeps the
\* invariant.
LEMMA FreeStep ==
    ASSUME SpinTypeOK', UNCHANGED spin, \A l \in SpinLocks : spin[l].locked # 1,
           \A p \in SpinPid : \A k \in DOMAIN frames'[p] : frames'[p][k] = <<>>
    PROVE  Nested'
<1>1. Held' = <<>>
  <2>1. running' \in SpinPid /\ frames'[running'] \in Seq(Seq(SpinLocks)) \ {<<>>}
        BY DEF SpinTypeOK
  <2>2. Depth' \in DOMAIN frames'[running']  BY <2>1 DEF Depth
  <2> QED  BY <2>1, <2>2 DEF Held
<1>2. DOMAIN Held' = {}  BY <1>1
<1>3. LocksPrivate'
  <2>1. \A p \in SpinPid : \A k \in DOMAIN frames'[p] :
           frames'[p][k] # <<>> => p = running' /\ k = Depth'
        OBVIOUS
  <2>2. \A l \in SpinLocks : spin'[l].locked = 1 <=> \E i \in DOMAIN Held' : Held'[i] = l
        BY <1>2
  <2>3. \A i, j \in DOMAIN Held' : Held'[i] = Held'[j] => i = j  BY <1>2
  <2> QED  BY <1>1, <2>1, <2>2, <2>3 DEF LocksPrivate
<1>4. FlagInv'  BY <1>2 DEF FlagInv
<1> QED  BY <1>3, <1>4 DEF Nested

\* What is left of the locks held when the last one is dropped.
LEMMA DropLast ==
    ASSUME NEW S, NEW s \in Seq(S), s # <<>>
    PROVE  /\ Drop(s, Len(s)) \in Seq(S)
           /\ Len(Drop(s, Len(s))) = Len(s) - 1
           /\ \A i \in 1 .. Len(s) - 1 : Drop(s, Len(s))[i] = s[i]
<1> DEFINE a == SubSeq(s, 1, Len(s) - 1)
           b == SubSeq(s, Len(s) + 1, Len(s))
<1>1. Len(s) \in Nat /\ Len(s) >= 1  BY EmptySeq, LenProperties
<1>2. a \in Seq(S) /\ Len(a) = Len(s) - 1 /\ \A i \in 1 .. Len(s) - 1 : a[i] = s[i]
  <2> DEFINE n == Len(s) - 1
  <2>1. n \in Nat /\ \A i \in 1 .. n : i \in 1 .. Len(s)  BY <1>1
  <2>2. \A i \in 1 .. n : s[i] \in S  BY <2>1, ElementOfSeq
  <2> HIDE DEF n
  <2>3. /\ SubSeq(s, 1, n) \in Seq(S)
        /\ Len(SubSeq(s, 1, n)) = IF 1 <= n THEN n - 1 + 1 ELSE 0
        /\ \A i \in 1 .. n - 1 + 1 : SubSeq(s, 1, n)[i] = s[1 + i - 1]
        BY <2>1, <2>2, SubSeqProperties
  <2>4. (IF 1 <= n THEN n - 1 + 1 ELSE 0) = n /\ n - 1 + 1 = n  BY <2>1
  <2>5. \A i \in 1 .. n : 1 + i - 1 = i  BY <2>1
  <2>6. SubSeq(s, 1, n) \in Seq(S) /\ Len(SubSeq(s, 1, n)) = n
        /\ \A i \in 1 .. n : SubSeq(s, 1, n)[i] = s[i]
        BY <2>3, <2>4, <2>5
  <2> QED  BY <2>6 DEF n
<1>3. b \in Seq(S) /\ Len(b) = 0  BY <1>1
<1> HIDE DEF a, b
<1>4. /\ a \o b \in Seq(S) /\ Len(a \o b) = Len(s) - 1
      /\ \A i \in 1 .. Len(s) - 1 : (a \o b)[i] = s[i]
      BY <1>1, <1>2, <1>3, ConcatProperties
<1> QED  BY <1>4 DEF Drop, a, b

-----------------------------------------------------------------------------
\* Initially nothing is held.
LEMMA SpinInitInv == SpinInit => SpinInv
<1> SUFFICES ASSUME SpinInit PROVE SpinInv  OBVIOUS
<1>1. spin \in [SpinLocks -> SpinRec] /\ \A l \in SpinLocks : spin[l].locked = 0
      BY DEF SpinInit, SpinRec
<1>2. /\ << <<>> >> \in Seq(Seq(SpinLocks)) \ {<<>>}
      /\ Len(<< <<>> >>) = 1 /\ << <<>> >>[1] = <<>> /\ DOMAIN << <<>> >> = {1}
  <2> DEFINE e == <<>>
  <2>1. e \in Seq(SpinLocks)  OBVIOUS
  <2> HIDE DEF e
  <2>2. /\ <<e>> \in Seq(Seq(SpinLocks)) \ {<<>>}
        /\ Len(<<e>>) = 1 /\ <<e>>[1] = e /\ DOMAIN <<e>> = {1}
        BY <2>1
  <2> QED  BY <2>2 DEF e
<1>3. SpinTypeOK  BY <1>1, <1>2 DEF SpinInit, SpinTypeOK
<1>4. \A p \in SpinPid : frames[p] = << <<>> >>  BY DEF SpinInit
<1>5. \A p \in SpinPid : \A k \in DOMAIN frames[p] : frames[p][k] = <<>>
      BY <1>2, <1>4
<1>6. Depth = 1 /\ Held = <<>>
  <2>1. frames[running] = << <<>> >>  BY <1>3, <1>4 DEF SpinTypeOK
  <2>2. Depth = 1  BY <1>2, <2>1 DEF Depth
  <2> QED  BY <1>2, <2>1, <2>2 DEF Held
<1>7. DOMAIN Held = {}  BY <1>6
<1>8. LocksPrivate
  <2>1. \A l \in SpinLocks : spin[l].locked # 1
    <3>1. 0 # 1  OBVIOUS
    <3> QED  BY <1>1, <3>1
  <2> QED  BY <1>5, <1>6, <1>7, <2>1 DEF LocksPrivate
<1>9. FlagInv  BY <1>7 DEF FlagInv
<1> QED  BY <1>3, <1>8, <1>9 DEF SpinInv, Nested, SpinInit

\* spinlock_acquire of a lock the code does not hold: the new lock keeps the
\* flag, which is off unless it is the first.
LEMMA AcquireStep ==
    ASSUME Nested, misused' = FALSE, NEW l \in SpinLocks, spinlock_acquire(l)
    PROVE  Nested' /\ Held' # <<>> /\ frames'[running][Depth] # <<>>
<1> DEFINE n == Len(Held)
           t == Append(Held, l)
<1>1. SpinTypeOK /\ LocksPrivate /\ FlagInv  BY DEF Nested
<1>2. Held \in Seq(SpinLocks) /\ n \in Nat /\ DOMAIN Held = 1 .. n
      /\ \A i \in DOMAIN Held : Held[i] \in SpinLocks
      BY <1>1, HeldType
<1>3. /\ t \in Seq(SpinLocks) /\ Len(t) = n + 1 /\ DOMAIN t = 1 .. n + 1
      /\ t[n + 1] = l /\ \A i \in 1 .. n : t[i] = Held[i]
      BY <1>2, AppendProperties, LenProperties
<1>4. t # <<>>  BY <1>2
<1> HIDE DEF t
<1>5. running' = running
      /\ frames' = [frames EXCEPT ![running] = [frames[running] EXCEPT ![Depth] = t]]
      BY DEF spinlock_acquire, t, Held
<1>6. /\ frames' \in [SpinPid -> Seq(Seq(SpinLocks)) \ {<<>>}]
      /\ Depth' = Depth /\ Held' = t /\ frames'[running][Depth] = t
      /\ \A p \in SpinPid : DOMAIN frames'[p] = DOMAIN frames[p]
      /\ \A p \in SpinPid : \A k \in DOMAIN frames[p] :
            (p # running \/ k # Depth) => frames'[p][k] = frames[p][k]
      BY <1>1, <1>3, <1>5, Replaced
<1>7. /\ spin'[l] = [locked |-> 1, rflags |-> IF_, owner_pid |-> running]
      /\ \A k \in SpinLocks : k # l => spin'[k] = spin[k]
      /\ spin' \in [SpinLocks -> SpinRec]
      BY <1>1 DEF spinlock_acquire, SpinTypeOK, SpinRec
<1>8. SpinTypeOK'
  <2>1. found' \in BOOLEAN /\ IF_' \in BOOLEAN  BY <1>1 DEF spinlock_acquire, SpinTypeOK
  <2> QED  BY <1>1, <1>5, <1>6, <1>7, <2>1 DEF SpinTypeOK
<1>9. \A i \in 1 .. n : Held[i] # l  BY <1>2 DEF spinlock_acquire
<1>10. LocksPrivate'
  <2>1. \A p \in SpinPid : \A k \in DOMAIN frames'[p] :
           frames'[p][k] # <<>> => p = running' /\ k = Depth'
        BY <1>1, <1>5, <1>6 DEF LocksPrivate
  <2>2. ASSUME NEW i \in 1 .. n + 1, NEW j \in 1 .. n + 1, t[i] = t[j] PROVE i = j
    <3>1. CASE i \in 1 .. n /\ j \in 1 .. n  BY <1>1, <1>2, <1>3, <2>2, <3>1 DEF LocksPrivate
    <3>2. CASE i = n + 1 /\ j = n + 1  BY <3>2
    <3>3. CASE i \in 1 .. n /\ j = n + 1  BY <1>3, <1>9, <2>2, <3>3
    <3>4. CASE i = n + 1 /\ j \in 1 .. n  BY <1>3, <1>9, <2>2, <3>4
    <3>5. (i \in 1 .. n \/ i = n + 1) /\ (j \in 1 .. n \/ j = n + 1)  BY <1>2
    <3> QED  BY <3>1, <3>2, <3>3, <3>4, <3>5
  <2>3. ASSUME NEW k \in SpinLocks
        PROVE  spin'[k].locked = 1 <=> \E i \in 1 .. n + 1 : t[i] = k
    <3>1. CASE k = l
      <4>1. n + 1 \in 1 .. n + 1  BY <1>2
      <4> QED  BY <1>3, <1>7, <3>1, <4>1
    <3>2. CASE k # l
      <4>1. spin'[k].locked = 1 <=> \E i \in 1 .. n : Held[i] = k
            BY <1>1, <1>2, <1>7, <3>2 DEF LocksPrivate
      <4>2. \A i \in 1 .. n + 1 : t[i] = k => i \in 1 .. n  BY <1>2, <1>3, <3>2
      <4>3. \A i \in 1 .. n : i \in 1 .. n + 1  BY <1>2
      <4> QED  BY <1>3, <4>1, <4>2, <4>3
    <3> QED  BY <3>1, <3>2
  <2>4. ~IF_'  BY DEF spinlock_acquire
  <2> QED  BY <1>3, <1>6, <2>1, <2>2, <2>3, <2>4 DEF LocksPrivate
<1>11. FlagInv'
  <2>1. n = 0 => found' = IF_
    <3>1. n = 0 => Held = <<>>  BY <1>2, EmptySeq
    <3> QED  BY <3>1 DEF spinlock_acquire
  <2>2. n # 0 => found' = found /\ IF_ = FALSE
    <3>1. n # 0 => Held # <<>>  BY <1>2
    <3>2. Held # <<>> => IF_ = FALSE  BY <1>1 DEF LocksPrivate, SpinTypeOK
    <3> QED  BY <3>1, <3>2 DEF spinlock_acquire
  <2>3. ASSUME NEW i \in 1 .. n + 1
        PROVE  spin'[t[i]].rflags = IF i = 1 THEN found' ELSE FALSE
    <3>1. CASE i = n + 1
      <4>1. spin'[t[i]].rflags = IF_  BY <1>3, <1>7, <3>1
      <4>2. i = 1 <=> n = 0  BY <1>2, <3>1
      <4> QED  BY <2>1, <2>2, <4>1, <4>2
    <3>2. CASE i # n + 1
      <4>1. i \in 1 .. n /\ n # 0  BY <1>2, <3>2
      <4>2. spin'[t[i]] = spin[Held[i]]  BY <1>2, <1>3, <1>7, <1>9, <4>1
      <4>3. spin[Held[i]].rflags = IF i = 1 THEN found ELSE FALSE
            BY <1>1, <1>2, <4>1 DEF FlagInv
      <4> QED  BY <2>2, <4>1, <4>2, <4>3
    <3> QED  BY <3>1, <3>2
  <2> QED  BY <1>3, <1>6, <2>3 DEF FlagInv
<1> QED  BY <1>4, <1>6, <1>8, <1>10, <1>11 DEF Nested

\* spinlock_release of the lock taken last: with the first lock the flag comes
\* back as it was found, with a later one it stays off.
LEMMA ReleaseStep ==
    ASSUME Nested, misused' = FALSE, NEW i \in DOMAIN Held, spinlock_release(i)
    PROVE  Nested' /\ FlagRestored
<1> DEFINE n == Len(Held)
           t == Drop(Held, n)
           l == Held[n]
<1>1. SpinTypeOK /\ LocksPrivate /\ FlagInv  BY DEF Nested
<1>2. Held \in Seq(SpinLocks) /\ n \in Nat /\ DOMAIN Held = 1 .. n
      /\ \A j \in DOMAIN Held : Held[j] \in SpinLocks
      BY <1>1, HeldType
<1>3. i = n /\ n >= 1 /\ Held # <<>> /\ l \in SpinLocks /\ n \in DOMAIN Held
  <2>1. i = n  BY DEF spinlock_release
  <2>2. n >= 1 /\ n \in DOMAIN Held /\ l \in SpinLocks  BY <1>2, <2>1
  <2>3. Held # <<>>  BY <2>2
  <2> QED  BY <2>1, <2>2, <2>3
<1>4. t \in Seq(SpinLocks) /\ Len(t) = n - 1 /\ \A j \in 1 .. n - 1 : t[j] = Held[j]
      BY <1>2, <1>3, DropLast
<1>5. n \in Nat /\ n >= 1  BY <1>2, <1>3
<1> HIDE DEF n, t, l
<1>6. DOMAIN t = 1 .. n - 1  BY <1>4, LenProperties
<1>7. running' = running
      /\ frames' = [frames EXCEPT ![running] = [frames[running] EXCEPT ![Depth] = t]]
      BY <1>3 DEF spinlock_release, t, Held
<1>8. /\ frames' \in [SpinPid -> Seq(Seq(SpinLocks)) \ {<<>>}]
      /\ Depth' = Depth /\ Held' = t /\ frames'[running][Depth] = t
      /\ \A p \in SpinPid : DOMAIN frames'[p] = DOMAIN frames[p]
      /\ \A p \in SpinPid : \A k \in DOMAIN frames[p] :
            (p # running \/ k # Depth) => frames'[p][k] = frames[p][k]
      BY <1>1, <1>4, <1>7, Replaced
<1>9. /\ spin'[l] = [spin[l] EXCEPT !.locked = 0, !.owner_pid = -1]
      /\ \A k \in SpinLocks : k # l => spin'[k] = spin[k]
      /\ spin' \in [SpinLocks -> SpinRec]
  <2>1. spin[l] \in SpinRec /\ spin \in [SpinLocks -> SpinRec]  BY <1>1, <1>3 DEF SpinTypeOK
  <2>2. spin' = [spin EXCEPT ![l] = [spin[l] EXCEPT !.locked = 0, !.owner_pid = -1]]
        BY <1>3, <2>1 DEF spinlock_release, l, SpinRec
  <2>3. [spin[l] EXCEPT !.locked = 0, !.owner_pid = -1] \in SpinRec  BY <2>1 DEF SpinRec
  <2> QED  BY <1>3, <2>1, <2>2, <2>3
<1>10. IF_' = (IF_ \/ spin[l].rflags) /\ ~IF_ /\ found' = found
      BY <1>1, <1>3 DEF spinlock_release, LocksPrivate, l
<1>11. SpinTypeOK'
  <2>1. IF_' \in BOOLEAN  BY <1>10
  <2> QED  BY <1>1, <1>7, <1>8, <1>9, <1>10, <2>1 DEF SpinTypeOK
<1>12. spin[l].rflags = IF n = 1 THEN found ELSE FALSE  BY <1>1, <1>3 DEF FlagInv, l
<1>13. \A j \in 1 .. n - 1 : j \in 1 .. n /\ j # n  BY <1>5
<1>14. \A j \in 1 .. n - 1 : Held[j] # l
  <2>1. \A j, k \in DOMAIN Held : Held[j] = Held[k] => j = k  BY <1>1 DEF LocksPrivate
  <2> QED  BY <1>2, <1>3, <1>13, <2>1 DEF l
<1>15. t # <<>> => ~IF_'
  <2>1. t # <<>> => n # 1  BY <1>4, EmptySeq
  <2> QED  BY <1>10, <1>12, <2>1
<1>16. LocksPrivate'
  <2>1. \A p \in SpinPid : \A k \in DOMAIN frames'[p] :
           frames'[p][k] # <<>> => p = running' /\ k = Depth'
        BY <1>1, <1>7, <1>8 DEF LocksPrivate
  <2>2. \A j, k \in 1 .. n - 1 : t[j] = t[k] => j = k
        BY <1>1, <1>2, <1>4, <1>13 DEF LocksPrivate
  <2>3. ASSUME NEW k \in SpinLocks
        PROVE  spin'[k].locked = 1 <=> \E j \in 1 .. n - 1 : t[j] = k
    <3>1. CASE k = l
      <4>1. spin[l] \in SpinRec  BY <1>1, <1>3 DEF SpinTypeOK
      <4>2. spin'[k].locked = 0  BY <1>9, <3>1, <4>1 DEF SpinRec
      <4>3. spin'[k].locked # 1  BY <4>2
      <4> QED  BY <1>4, <1>14, <3>1, <4>3
    <3>2. CASE k # l
      <4>1. spin'[k].locked = 1 <=> \E j \in 1 .. n : Held[j] = k
            BY <1>1, <1>2, <1>9, <3>2 DEF LocksPrivate
      <4>2. \A j \in 1 .. n : Held[j] = k => j # n  BY <3>2 DEF l
      <4>3. \A j \in 1 .. n : j # n => j \in 1 .. n - 1  BY <1>5
      <4>4. ASSUME NEW j \in 1 .. n - 1, t[j] = k PROVE \E i1 \in 1 .. n : Held[i1] = k
            BY <1>4, <1>13, <4>4
      <4>5. ASSUME NEW j \in 1 .. n, Held[j] = k PROVE \E i1 \in 1 .. n - 1 : t[i1] = k
        <5>1. j \in 1 .. n - 1  BY <4>2, <4>3, <4>5
        <5>2. t[j] = Held[j]  BY <1>4, <5>1
        <5> QED  BY <4>5, <5>1, <5>2
      <4> QED  BY <4>1, <4>4, <4>5
    <3> QED  BY <3>1, <3>2
  <2>4. DOMAIN Held' = 1 .. n - 1 /\ Held' = t  BY <1>6, <1>8
  <2>5. \A j, k \in DOMAIN Held' : Held'[j] = Held'[k] => j = k  BY <2>2, <2>4
  <2>6. \A k \in SpinLocks : spin'[k].locked = 1 <=> \E j \in DOMAIN Held' : Held'[j] = k
        BY <2>3, <2>4
  <2>7. Held' # <<>> => ~IF_'  BY <1>15, <2>4
  <2> QED  BY <2>1, <2>5, <2>6, <2>7 DEF LocksPrivate
<1>17. FlagInv'
  <2> SUFFICES ASSUME NEW j \in 1 .. n - 1
               PROVE  spin'[t[j]].rflags = IF j = 1 THEN found' ELSE FALSE
      BY <1>6, <1>8 DEF FlagInv
  <2>1. spin'[t[j]] = spin[Held[j]]  BY <1>2, <1>4, <1>9, <1>13, <1>14
  <2>2. spin[Held[j]].rflags = IF j = 1 THEN found ELSE FALSE
        BY <1>1, <1>2, <1>13 DEF FlagInv
  <2> QED  BY <1>10, <2>1, <2>2
<1>18. FlagRestored
  <2>1. t = <<>> => n - 1 = 0  BY <1>4, EmptySeq
  <2>2. t = <<>> => n = 1  BY <1>5, <2>1
  <2>3. t = <<>> => IF_' = found  BY <1>1, <1>10, <1>12, <2>2 DEF SpinTypeOK
  <2> QED  BY <1>8, <2>3 DEF FlagRestored
<1> QED  BY <1>11, <1>16, <1>17, <1>18 DEF Nested

\* Interrupts come with the flag on, so nothing is held, and the handler starts
\* with nothing.
LEMMA InterruptStep ==
    ASSUME Nested, Interrupt PROVE Nested' /\ Held = <<>>
<1>1. SpinTypeOK /\ Held = <<>>  BY DEF Nested, Interrupt, LocksPrivate
<1>2. /\ \A p \in SpinPid : \A k \in DOMAIN frames[p] : frames[p][k] = <<>>
      /\ \A l \in SpinLocks : spin[l].locked # 1
      BY <1>1, NobodyHolds
<1> DEFINE f == frames[running]
           g == Append(f, <<>>)
<1>3. f \in Seq(Seq(SpinLocks)) /\ running \in SpinPid  BY <1>1, HeldType DEF SpinTypeOK
<1>4. g \in Seq(Seq(SpinLocks)) \ {<<>>} /\ \A k \in DOMAIN g : g[k] = <<>>
  <2> DEFINE e == <<>>
  <2>1. e \in Seq(SpinLocks)  OBVIOUS
  <2>2. \A k \in DOMAIN f : f[k] = e  BY <1>2, <1>3
  <2> HIDE DEF e, f
  <2>3. Append(f, e) \in Seq(Seq(SpinLocks)) \ {<<>>} /\ \A k \in DOMAIN Append(f, e) : Append(f, e)[k] = e
        BY <1>3, <2>1, <2>2
  <2> QED  BY <2>3 DEF e
<1> HIDE DEF g
<1>5. frames' = [frames EXCEPT ![running] = g]  BY DEF Interrupt, g
<1>6. SpinTypeOK'  BY <1>1, <1>4, <1>5 DEF SpinTypeOK, Interrupt
<1>7. \A p \in SpinPid : \A k \in DOMAIN frames'[p] : frames'[p][k] = <<>>
      BY <1>1, <1>2, <1>4, <1>5 DEF SpinTypeOK
<1>8. Nested'  BY <1>2, <1>6, <1>7, FreeStep DEF Interrupt
<1> QED  BY <1>1, <1>8

\* iretq returns from a handler that holds nothing to code that holds nothing.
LEMMA IretStep ==
    ASSUME Nested, Iret PROVE Nested' /\ Held = <<>>
<1>1. SpinTypeOK /\ Held = <<>>  BY DEF Nested, Iret
<1>2. /\ \A p \in SpinPid : \A k \in DOMAIN frames[p] : frames[p][k] = <<>>
      /\ \A l \in SpinLocks : spin[l].locked # 1
      BY <1>1, NobodyHolds
<1> DEFINE f == frames[running]
           n == Depth - 1
           g == SubSeq(f, 1, n)
<1>3. f \in Seq(Seq(SpinLocks)) /\ running \in SpinPid /\ n \in Nat \ {0} /\ DOMAIN f = 1 .. n + 1
      BY <1>1, HeldType DEF SpinTypeOK, Iret
<1> HIDE DEF n
<1>4. \A k \in 1 .. n : k \in 1 .. n + 1  BY <1>3
<1>5. \A k \in 1 .. n : f[k] \in Seq(SpinLocks) /\ f[k] = <<>>
  <2>1. \A k \in 1 .. n : f[k] = <<>>  BY <1>2, <1>3, <1>4
  <2>2. <<>> \in Seq(SpinLocks)  OBVIOUS
  <2> QED  BY <2>1, <2>2
<1>6. /\ g \in Seq(Seq(SpinLocks)) /\ Len(g) = IF 1 <= n THEN n - 1 + 1 ELSE 0
      /\ \A k \in 1 .. n - 1 + 1 : g[k] = f[1 + k - 1]
      BY <1>3, <1>5, SubSeqProperties
<1> HIDE DEF g
<1>7. Len(g) = n /\ \A k \in 1 .. n : g[k] = f[k]
  <2>1. n - 1 + 1 = n /\ 1 <= n /\ \A k \in 1 .. n : 1 + k - 1 = k  BY <1>3
  <2> QED  BY <1>6, <2>1
<1>8. g \in Seq(Seq(SpinLocks)) \ {<<>>} /\ \A k \in DOMAIN g : g[k] = <<>>
  <2>1. DOMAIN g = 1 .. n  BY <1>6, <1>7, LenProperties
  <2>2. g # <<>>  BY <1>3, <1>7, EmptySeq
  <2> QED  BY <1>5, <1>6, <1>7, <2>1, <2>2
<1>9. frames' = [frames EXCEPT ![running] = g]  BY DEF Iret, g, n
<1>10. SpinTypeOK'  BY <1>1, <1>8, <1>9 DEF SpinTypeOK, Iret
<1>11. \A p \in SpinPid : \A k \in DOMAIN frames'[p] : frames'[p][k] = <<>>
       BY <1>1, <1>2, <1>8, <1>9 DEF SpinTypeOK
<1>12. Nested'  BY <1>2, <1>10, <1>11, FreeStep DEF Iret
<1> QED  BY <1>1, <1>12

\* The CPU goes to another process, or halts, with nothing held; whatever flag
\* the next code finds, it is its own.
LEMMA SwitchStep ==
    ASSUME Nested, misused' = FALSE, Halt \/ \E p \in SpinPid : Switch(p)
    PROVE  Nested' /\ Held = <<>>
<1>1. SpinTypeOK /\ Held = <<>>  BY DEF Nested, Switch, Halt
<1>2. /\ \A p \in SpinPid : \A k \in DOMAIN frames[p] : frames[p][k] = <<>>
      /\ \A l \in SpinLocks : spin[l].locked # 1
      BY <1>1, NobodyHolds
<1>3. frames' = frames /\ spin' = spin  BY DEF Switch, Halt
<1>4. SpinTypeOK'  BY <1>1 DEF SpinTypeOK, Switch, Halt
<1>5. Nested'  BY <1>2, <1>3, <1>4, FreeStep
<1> QED  BY <1>1, <1>5

-----------------------------------------------------------------------------
\* Every step keeps the invariant and restores the flag; once locks have been
\* misused nothing is said.
LEMMA SpinInvStep == SpinInv /\ [SpinNext]_spinVars => SpinInv' /\ [~misused' => FlagRestored]_spinVars
<1> SUFFICES ASSUME SpinInv, [SpinNext]_spinVars
             PROVE  SpinInv' /\ [~misused' => FlagRestored]_spinVars
    OBVIOUS
<1>1. misused' \in BOOLEAN /\ (misused => misused')
      BY DEF SpinInv, SpinNext, spinVars, spinlock_acquire, spinlock_release, Interrupt, Iret,
             Switch, Halt
<1>2. CASE misused'  BY <1>1, <1>2 DEF SpinInv
<1>3. CASE ~misused'
  <2>1. Nested /\ misused' = FALSE  BY <1>1, <1>3 DEF SpinInv
  <2>2. ASSUME NEW l \in SpinLocks, spinlock_acquire(l) PROVE Nested' /\ FlagRestored
        BY <2>1, <2>2, AcquireStep DEF FlagRestored
  <2>3. ASSUME NEW i \in DOMAIN Held, spinlock_release(i) PROVE Nested' /\ FlagRestored
        BY <2>1, <2>3, ReleaseStep
  <2>4. Interrupt => Nested' /\ FlagRestored  BY <2>1, InterruptStep DEF FlagRestored
  <2>5. Iret => Nested' /\ FlagRestored  BY <2>1, IretStep DEF FlagRestored
  <2>6. (Halt \/ \E p \in SpinPid : Switch(p)) => Nested' /\ FlagRestored
        BY <2>1, SwitchStep DEF FlagRestored
  <2>7. CASE UNCHANGED spinVars
    <3>1. /\ spin' = spin /\ IF_' = IF_ /\ running' = running /\ frames' = frames
          /\ found' = found /\ Held' = Held /\ Depth' = Depth
          BY <2>7 DEF spinVars, Held, Depth
    <3>2. SpinTypeOK'  BY <2>1, <3>1 DEF Nested, SpinTypeOK
    <3>3. LocksPrivate'  BY <2>1, <3>1 DEF Nested, LocksPrivate
    <3>4. FlagInv'  BY <2>1, <3>1 DEF Nested, FlagInv
    <3> QED  BY <1>1, <2>7, <3>2, <3>3, <3>4 DEF SpinInv, Nested
  <2>8. CASE SpinNext
    <3>1. Nested' /\ FlagRestored  BY <2>2, <2>3, <2>4, <2>5, <2>6, <2>8 DEF SpinNext
    <3> QED  BY <1>1, <3>1 DEF SpinInv
  <2> QED  BY <1>1, <2>7, <2>8
<1> QED  BY <1>1, <1>2, <1>3

\* For every set of locks and of processes, any number of locks held and any
\* depth of interrupts: while locks are released in reverse order, never taken
\* twice and never held over a switch, only the running code holds locks, with
\* interrupts off, so that spinlock_acquire never breaks one open; and the
\* release of its last lock leaves the flag as its first acquire found it,
\* although switch_to_task hands the flag from one process to the next.
THEOREM Nesting == SpinSpec => SpinlocksNest
<1>1. SpinInv => (~misused => LocksPrivate)  BY DEF SpinInv, Nested
<1> QED  BY <1>1, SpinInitInv, SpinInvStep, PTL DEF SpinSpec, SpinlocksNest
=============================================================================
