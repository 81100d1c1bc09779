-------------------------------- MODULE Buffer --------------------------------
(***************************************************************************)
(* The buffer cache: getblk with its second look under the lock, bread,    *)
(* brelse with eviction, sync_dirty_buffer, and the buffer lock that the   *)
(* end of an I/O releases.  A driver may end an I/O at any later time, or  *)
(* never.  Of the drivers here the ramdisk's ends it within submit_bio,    *)
(* the case where no step comes between, and AHCI's never; neither sets    *)
(* the flag that makes the buffer uptodate, which the interface provides   *)
(* for.  A test of the lock bit and the sleep_on after it are one step:    *)
(* nothing preempts a process, and no handler here ends an I/O.            *)
(***************************************************************************)
EXTENDS Integers, FiniteSets, Sequences

CONSTANTS
    User,               \* processes using the cache
    Block,
    BufId,              \* buffer heads the heap has room for, an interval from 1
    MAX_BUFFER_CACHE,
    MaxCount            \* bound on buffer_cache_count, which only drifts up

VARIABLES
    bufs,       \* the buffer heads; b_count and waiters are fields
    bh_hash,    \* the hashed ones, newest first
    buffer_cache_count,
    io,         \* bios on their way, as <<buffer, direction>>
    disk,
    pc, bh,     \* where each process is, and the buffer it works on
    contended   \* history: a process has waited for a buffer lock, or two have slept on one buffer

bufVars == <<bufs, bh_hash, buffer_cache_count, io, disk, pc, bh, contended>>

NoBuf == [block |-> "none", b_count |-> 0, locked |-> FALSE, uptodate |-> FALSE,
          dirty |-> FALSE, data |-> "zero", b_wait |-> <<>>, left |-> {}, modified |-> FALSE, lossy |-> FALSE]

Live == {i \in BufId : bufs[i].block # "none"}
Hashed(block) == {i \in {bh_hash[k] : k \in DOMAIN bh_hash} : bufs[i].block = block}
Awake(p) == \A i \in BufId : \A k \in DOMAIN bufs[i].b_wait : bufs[i].b_wait[k] # p
Goto(p, l) == pc' = [pc EXCEPT ![p] = l]

BufInit ==
    /\ bufs = [i \in BufId |-> NoBuf] /\ bh_hash = <<>> /\ buffer_cache_count = 0
    /\ io = {} /\ disk = [b \in Block |-> "old"]
    /\ pc = [p \in User |-> "idle"] /\ bh = [p \in User |-> 0] /\ contended = FALSE

-----------------------------------------------------------------------------
\* getblk, first part: __find_get_block, or a new buffer head, not yet hashed.
getblk(p, block) ==
    /\ pc[p] = "idle"
    /\ \/ \E i \in Hashed(block) :
            /\ bufs' = [bufs EXCEPT ![i].b_count = @ + 1]
            /\ bh' = [bh EXCEPT ![p] = i] /\ Goto(p, "got")
            /\ UNCHANGED buffer_cache_count
       \/ /\ Hashed(block) = {} /\ Live # BufId /\ buffer_cache_count < MaxCount
          /\ LET i == CHOOSE j \in BufId \ Live : \A k \in BufId \ Live : j <= k
             IN  /\ bufs' = [bufs EXCEPT ![i] = [NoBuf EXCEPT !.block = block, !.b_count = 1]]
                 /\ bh' = [bh EXCEPT ![p] = i]
          /\ buffer_cache_count' = buffer_cache_count + 1
          /\ Goto(p, "insert")
    /\ UNCHANGED <<bh_hash, io, disk, contended>>

\* Faulty variant: the buffer is hashed without another look.
insert_Unchecked(p) ==
    /\ pc[p] = "insert" /\ bh_hash' = <<bh[p]>> \o bh_hash
    /\ UNCHANGED <<bufs, bh>>
    /\ Goto(p, "got")
    /\ UNCHANGED <<buffer_cache_count, io, disk, contended>>

\* getblk, second part: under the lock, a buffer hashed meanwhile is used and
\* the new one freed (the count of buffers is not put back).
insert(p) ==
    /\ pc[p] = "insert"
    /\ LET exist == Hashed(bufs[bh[p]].block)
       IN  IF exist = {} THEN bh_hash' = <<bh[p]>> \o bh_hash /\ UNCHANGED <<bufs, bh>>
           ELSE \E i \in exist :
                  /\ bufs' = [bufs EXCEPT ![i].b_count = @ + 1, ![bh[p]] = NoBuf]
                  /\ bh' = [bh EXCEPT ![p] = i]
                  /\ UNCHANGED bh_hash
    /\ Goto(p, "got")
    /\ UNCHANGED <<buffer_cache_count, io, disk, contended>>

\* Faulty variant: a buffer still in use elsewhere may be evicted.
brelse_InUse(i) ==
    LET n == bufs[i].b_count - 1
    IN  IF ~bufs[i].dirty /\ buffer_cache_count > MAX_BUFFER_CACHE
        THEN /\ bufs' = [bufs EXCEPT ![i] = NoBuf]
             /\ bh_hash' = SelectSeq(bh_hash, LAMBDA j : j # i)
             /\ buffer_cache_count' = buffer_cache_count - 1
        ELSE bufs' = [bufs EXCEPT ![i].b_count = n] /\ UNCHANGED <<bh_hash, buffer_cache_count>>

\* brelse: the last reference to a clean buffer evicts it from a full cache.
brelse(i) ==
    LET n == bufs[i].b_count - 1
    IN  IF n = 0 /\ ~bufs[i].dirty /\ buffer_cache_count > MAX_BUFFER_CACHE
        THEN /\ bufs' = [bufs EXCEPT ![i] = NoBuf]
             /\ bh_hash' = SelectSeq(bh_hash, LAMBDA j : j # i)
             /\ buffer_cache_count' = buffer_cache_count - 1
        ELSE bufs' = [bufs EXCEPT ![i].b_count = n] /\ UNCHANGED <<bh_hash, buffer_cache_count>>

\* sleep_on(&bh->b_wait), and where the process goes on.
Sleep(p, l) ==
    /\ bufs' = [bufs EXCEPT ![bh[p]].b_wait = Append(@, p)]
    /\ Goto(p, l)
    /\ contended' = (contended \/ bufs[bh[p]].b_wait # <<>> \/ l \in {"READ", "WRITE"})
    /\ UNCHANGED <<bh_hash, buffer_cache_count, io, disk, bh>>

\* Faulty variant: nobody is woken.
unlock_buffer_Silent(b) == [b EXCEPT !.locked = FALSE]

\* unlock_buffer wakes the first of the processes asleep; left remembers the
\* others.
unlock_buffer(b) == [b EXCEPT !.locked = FALSE, !.b_wait = IF @ = <<>> THEN @ ELSE Tail(@),
                              !.left = {b.b_wait[k] : k \in 2 .. Len(b.b_wait)}]

Waiting(rw) == IF rw = "READ" THEN "wait_read" ELSE "wait_write"

\* ll_rw_block from lock_buffer on: a bio goes to the device.  When the bio
\* cannot be had the buffer is unlocked again, which wakes one process.
ll_rw_block(p, rw) ==
    LET i == bh[p]
    IN  \/ bufs[i].locked /\ Sleep(p, rw)
        \/ /\ ~bufs[i].locked
           /\ \/ /\ bufs' = [bufs EXCEPT ![i].locked = TRUE]
                 /\ io' = io \union {<<i, rw>>}
              \/ /\ bufs' = [bufs EXCEPT ![i] = [unlock_buffer(@) EXCEPT !.lossy = @ \/ rw = "WRITE"]]
                 /\ UNCHANGED io
           /\ Goto(p, Waiting(rw))
           /\ UNCHANGED <<bh_hash, buffer_cache_count, disk, bh, contended>>

\* bread after getblk: an uptodate buffer is returned as it is.
bread(p) ==
    /\ pc[p] = "got"
    /\ IF bufs[bh[p]].uptodate
       THEN Goto(p, "hold")
            /\ UNCHANGED <<bufs, bh_hash, buffer_cache_count, io, disk, bh, contended>>
       ELSE ll_rw_block(p, "READ")

\* A process woken in lock_buffer; it does not look at the buffer's state again.
lock_buffer(p) == pc[p] \in {"READ", "WRITE"} /\ Awake(p) /\ ll_rw_block(p, pc[p])

\* The data has moved (or has not), the driver calls end_io, and
\* end_buffer_io_async sets uptodate if the driver set the flag in the bio,
\* unlocks the buffer and wakes one process.
end_buffer_io_async(i, rw, moved, flagged) ==
    /\ <<i, rw>> \in io /\ (flagged => moved)
    /\ io' = io \ {<<i, rw>>}
    /\ disk' = IF rw = "WRITE" /\ moved THEN [disk EXCEPT ![bufs[i].block] = bufs[i].data] ELSE disk
    /\ bufs' = [bufs EXCEPT ![i] = [unlock_buffer(@) EXCEPT
                   !.uptodate = @ \/ flagged,
                   !.lossy = @ \/ (rw = "WRITE" /\ ~moved),
                   !.data = IF rw = "READ" /\ moved THEN disk[bufs[i].block] ELSE @]]
    /\ UNCHANGED <<bh_hash, buffer_cache_count, pc, bh, contended>>

\* wait_on_buffer of bread, and what follows it.
bread_Wait(p) ==
    LET i == bh[p]
    IN  /\ pc[p] = "wait_read" /\ Awake(p)
        /\ IF bufs[i].locked THEN Sleep(p, "wait_read")
           ELSE IF bufs[i].uptodate
           THEN Goto(p, "hold")
                /\ UNCHANGED <<bufs, bh_hash, buffer_cache_count, io, disk, bh, contended>>
           ELSE brelse(i) /\ Goto(p, "idle") /\ bh' = [bh EXCEPT ![p] = 0]
                /\ UNCHANGED <<io, disk, contended>>

\* A holder changes the data and marks the buffer dirty; nothing stops it while
\* another process is in sync_dirty_buffer, which will clear the mark.
mark_buffer_dirty(p) ==
    /\ pc[p] = "hold"
    /\ bufs' = [bufs EXCEPT ![bh[p]].data = "new", ![bh[p]].dirty = TRUE, ![bh[p]].modified = TRUE,
                  ![bh[p]].lossy = \E q \in User : bh[q] = bh[p] /\ pc[q] = "wait_write"]
    /\ UNCHANGED <<bh_hash, buffer_cache_count, io, disk, pc, bh, contended>>

sync_dirty_buffer(p) == pc[p] = "hold" /\ bufs[bh[p]].dirty /\ ll_rw_block(p, "WRITE")

\* Faulty variant: the buffer counts as clean although it is still locked.
sync_Wait_Early(p) ==
    /\ pc[p] = "wait_write" /\ Awake(p)
    /\ bufs' = [bufs EXCEPT ![bh[p]].dirty = FALSE] /\ Goto(p, "hold")
    /\ UNCHANGED <<bh_hash, buffer_cache_count, io, disk, bh, contended>>

\* After the wait the dirty bit is cleared, whether the write was done or not.
sync_Wait(p) ==
    LET i == bh[p]
    IN  /\ pc[p] = "wait_write" /\ Awake(p)
        /\ IF bufs[i].locked THEN Sleep(p, "wait_write")
           ELSE /\ bufs' = [bufs EXCEPT ![i].dirty = FALSE] /\ Goto(p, "hold")
                /\ UNCHANGED <<bh_hash, buffer_cache_count, io, disk, bh, contended>>

release(p) ==
    /\ pc[p] = "hold" /\ brelse(bh[p])
    /\ bh' = [bh EXCEPT ![p] = 0] /\ Goto(p, "idle")
    /\ UNCHANGED <<io, disk, contended>>

BufNext ==
    \/ \E p \in User : \/ insert(p) \/ bread(p) \/ lock_buffer(p) \/ bread_Wait(p) \/ sync_Wait(p)
                       \/ sync_dirty_buffer(p) \/ release(p) \/ mark_buffer_dirty(p)
                       \/ \E block \in Block : getblk(p, block)
    \/ \E i \in BufId, rw \in {"READ", "WRITE"}, moved, flagged \in BOOLEAN :
          end_buffer_io_async(i, rw, moved, flagged)

-----------------------------------------------------------------------------
\* Two processes that miss the same block still share one buffer, each buffer
\* counts exactly the processes using it, and neither one in use nor one with
\* an I/O on its way is ever freed by the eviction in brelse.
BuffersShared ==
    /\ \A block \in Block : Cardinality(Hashed(block)) <= 1
    /\ \A i \in Live : bufs[i].b_count = Cardinality({p \in User : bh[p] = i})
    /\ \A p \in User : bh[p] # 0 => bh[p] \in Live
    /\ \A x \in io : x[1] \in Live /\ bufs[x[1]].b_count > 0

\* As long as no process had to wait for another one's I/O on a buffer, data
\* put into a buffer stays there, and a clean buffer has what the disk has,
\* unless the write failed or a second process changed it during the write.
BufferCoherent ==
    ~contended =>
        \A i \in Live :
            /\ bufs[i].modified => bufs[i].data = "new"
            /\ bufs[i].uptodate /\ ~bufs[i].dirty /\ ~bufs[i].lossy
                => bufs[i].data = disk[bufs[i].block]

\* A process asleep on a buffer has a wake-up to come: the buffer is locked and
\* an I/O on it is on its way, whose end unlocks it.  Excepted are those who
\* slept there together with another when the buffer was unlocked: only the
\* first is woken, and neither wait_on_buffer nor lock_buffer passes it on.
SleepersCovered ==
    \A i \in BufId : \A k \in DOMAIN bufs[i].b_wait :
        \/ bufs[i].b_wait[k] \in bufs[i].left
        \/ bufs[i].locked /\ \E rw \in {"READ", "WRITE"} : <<i, rw>> \in io
=============================================================================
