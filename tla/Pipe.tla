-------------------------------- MODULE Pipe --------------------------------
(***************************************************************************)
(* One pipe: the ring buffer, its readers and writers, and the closing of  *)
(* its two ends.  Each byte is moved in one locked section, which also     *)
(* wakes a process of the other side; a call of size n loops n times.      *)
(*                                                                         *)
(* An end is closed once, when nobody is inside a call on it: descriptors  *)
(* shared by fork are not counted by the code and are left out.            *)
(***************************************************************************)
EXTENDS SyncBase

CONSTANTS Readers, Writers,  \* the processes that use each end
          PIPE_SIZE,
          Byte,
          MaxSize            \* bound: bytes asked for in one call

ASSUME PipeAssumption ==
    /\ Readers \union Writers = Proc /\ Readers \intersect Writers = {}
    /\ PIPE_SIZE \in Nat \ {0} /\ MaxSize \in Nat
    /\ {"read_wait", "write_wait"} \subseteq Queues

VARIABLES buffer, read_pos, write_pos, bytes_available,
          readers, writers,   \* open read ends and write ends
          todo,               \* todo[p]: bytes left to move in p's call
          last,               \* the byte read last
          freed               \* kfree(p) has been called

ring     == <<buffer, read_pos, write_pos, bytes_available, last>>
ends     == <<readers, writers, freed>>
pipeVars == <<syncVars, ring, ends, todo>>

NoByte == "none"

pipe_create ==
    /\ SyncInit
    /\ buffer = [i \in 0 .. PIPE_SIZE - 1 |-> NoByte]
    /\ read_pos = 0 /\ write_pos = 0 /\ bytes_available = 0 /\ last = NoByte
    /\ readers = 1 /\ writers = 1 /\ freed = FALSE
    /\ todo = [p \in Proc |-> 0]

\* pipe_read or pipe_write is called on an open end, for n bytes.
Call(p, n) ==
    /\ At(p, "idle")
    /\ IF p \in Readers THEN readers > 0 ELSE writers > 0
    /\ todo' = [todo EXCEPT ![p] = n]
    /\ Goto(p, IF p \in Readers THEN "read" ELSE "write")
    /\ UNCHANGED <<ring, ends>>

Return(p) == todo' = [todo EXCEPT ![p] = 0] /\ Goto(p, "idle")

\* After a byte: the next one, or the end of the call.
After(p, l) == IF todo[p] = 1 THEN "idle" ELSE l

-----------------------------------------------------------------------------
\* Faulty variant: the read position does not move.
TakeByte_Stays ==
    /\ last' = buffer[read_pos]
    /\ bytes_available' = bytes_available - 1
    /\ UNCHANGED <<buffer, read_pos, write_pos>>

TakeByte ==
    /\ last' = buffer[read_pos]
    /\ read_pos' = (read_pos + 1) % PIPE_SIZE
    /\ bytes_available' = bytes_available - 1
    /\ UNCHANGED <<buffer, write_pos>>

PutByte(b) ==
    /\ buffer' = [buffer EXCEPT ![write_pos] = b]
    /\ write_pos' = (write_pos + 1) % PIPE_SIZE
    /\ bytes_available' = bytes_available + 1
    /\ UNCHANGED <<read_pos, last>>

\* Faulty variant: no writer is woken.
pipe_read_Silent(p) ==
    /\ At(p, "read")
    /\ UNCHANGED ends
    /\ \/ /\ bytes_available > 0
          /\ TakeByte
          /\ todo' = [todo EXCEPT ![p] = @ - 1]
          /\ Goto(p, After(p, "read"))
       \/ /\ bytes_available = 0 /\ writers = 0
          /\ Return(p) /\ UNCHANGED ring
       \/ /\ bytes_available = 0 /\ writers # 0
          /\ Goto(p, "read_sleep") /\ UNCHANGED <<ring, todo>>

\* One turn of the loop of pipe_read, under the pipe's lock.
pipe_read(p) ==
    /\ At(p, "read")
    /\ UNCHANGED ends
    /\ \/ /\ bytes_available > 0
          /\ TakeByte
          /\ todo' = [todo EXCEPT ![p] = @ - 1]
          /\ wake_up(p, After(p, "read"), "write_wait", "write", Inside("write_sleep"))
       \/ /\ bytes_available = 0 /\ writers = 0
          /\ Return(p) /\ UNCHANGED ring
       \/ /\ bytes_available = 0 /\ writers # 0
          /\ Goto(p, "read_sleep") /\ UNCHANGED <<ring, todo>>

\* Faulty variant: a full buffer is not noticed.
pipe_write_Overruns(p) ==
    /\ At(p, "write")
    /\ \E b \in Byte : PutByte(b)
    /\ todo' = [todo EXCEPT ![p] = @ - 1]
    /\ wake_up(p, After(p, "write"), "read_wait", "read", Inside("read_sleep"))
    /\ UNCHANGED ends

\* One turn of the loop of pipe_write.
pipe_write(p) ==
    /\ At(p, "write")
    /\ UNCHANGED ends
    /\ \/ /\ bytes_available # PIPE_SIZE
          /\ \E b \in Byte : PutByte(b)
          /\ todo' = [todo EXCEPT ![p] = @ - 1]
          /\ wake_up(p, After(p, "write"), "read_wait", "read", Inside("read_sleep"))
       \/ /\ bytes_available = PIPE_SIZE /\ readers = 0
          /\ Return(p) /\ UNCHANGED ring
       \/ /\ bytes_available = PIPE_SIZE /\ readers # 0
          /\ Goto(p, "write_sleep") /\ UNCHANGED <<ring, todo>>

pipe_read_sleeps(p) ==
    At(p, "read_sleep") /\ sleep_on(p, "read_wait") /\ UNCHANGED <<ring, ends, todo>>
pipe_write_sleeps(p) ==
    At(p, "write_sleep") /\ sleep_on(p, "write_wait") /\ UNCHANGED <<ring, ends, todo>>

\* Faulty variant: closing wakes nobody.
pipe_close_Silent(p) ==
    /\ At(p, "idle")
    /\ \/ /\ p \in Readers /\ readers > 0
          /\ \A q \in Readers : pc[q] = "idle"
          /\ readers' = readers - 1 /\ UNCHANGED writers
       \/ /\ p \in Writers /\ writers > 0
          /\ \A q \in Writers : pc[q] = "idle"
          /\ writers' = writers - 1 /\ UNCHANGED readers
    /\ freed' = (readers' = 0 /\ writers' = 0)
    /\ Goto(p, "idle") /\ UNCHANGED <<ring, todo>>

\* pipe_close on the end p uses.  Closing the last end of a side wakes one
\* sleeper of the other; the pipe is freed with its last end.
pipe_close(p) ==
    /\ At(p, "idle")
    /\ \/ /\ p \in Readers /\ readers > 0
          /\ \A q \in Readers : pc[q] = "idle"
          /\ readers' = readers - 1 /\ UNCHANGED writers
          /\ wake_up(p, "idle", "write_wait", "write", Inside("write_sleep"))
       \/ /\ p \in Writers /\ writers > 0
          /\ \A q \in Writers : pc[q] = "idle"
          /\ writers' = writers - 1 /\ UNCHANGED readers
          /\ wake_up(p, "idle", "read_wait", "read", Inside("read_sleep"))
    /\ freed' = (readers' = 0 /\ writers' = 0)
    /\ UNCHANGED <<ring, todo>>

Yield == Switch(Inside("idle")) /\ UNCHANGED <<ring, ends, todo>>

Next == \/ Yield
        \/ \E p \in Proc :
              \/ \E n \in 1 .. MaxSize : Call(p, n)
              \/ pipe_read(p) \/ pipe_read_sleeps(p)
              \/ pipe_write(p) \/ pipe_write_sleeps(p)
              \/ pipe_close(p)

Spec == pipe_create /\ [][Next]_pipeVars

-----------------------------------------------------------------------------
Labels == {"idle", "read", "read_sleep", "write", "write_sleep", "asleep"}

\* The variables of the pipe and its clients keep their types; in particular the
\* byte count stays within the buffer.
TypeOK == /\ SyncTypeOK(Labels)
          /\ buffer \in [0 .. PIPE_SIZE - 1 -> Byte \union {NoByte}]
          /\ read_pos \in 0 .. PIPE_SIZE - 1 /\ write_pos \in 0 .. PIPE_SIZE - 1
          /\ bytes_available \in 0 .. PIPE_SIZE
          /\ readers \in {0, 1} /\ writers \in {0, 1} /\ freed \in BOOLEAN
          /\ todo \in [Proc -> 0 .. MaxSize]
          /\ last \in Byte \union {NoByte}

\* The bytes in the ring, oldest first.
Contents == [i \in 1 .. bytes_available |-> buffer[(read_pos + i - 1) % PIPE_SIZE]]

Fifo == INSTANCE ByteFifo WITH Capacity <- PIPE_SIZE, queue <- Contents
\* The pipe is a bounded FIFO of bytes for any number of concurrent readers and
\* writers: what pipe_read hands out is the oldest byte pipe_write put in.
ImplementsFifo == Fifo!FifoSpec

\* A reader does not sleep over bytes, nor a writer over free space: for every
\* byte, and every free place, somebody of its side is on the way to the buffer.
\* Closing the last end of a side reaches a sleeper of the other: afterwards a
\* call finds out and returns instead of sleeping, so never a whole side stays
\* asleep.  The other sleepers of that side are not woken.  Excepted are the
\* sleepers a wake-up passed by after they dropped the pipe's lock and before
\* sleep_on put them on the queue.
NoLostWakeup ==
    /\ TypeOK
    /\ Sleepers("read_wait") # {} => bytes_available <= Cardinality(Inside("read"))
    /\ Sleepers("write_wait") # {} => PIPE_SIZE - bytes_available <= Cardinality(Inside("write"))
    /\ writers = 0 => \E p \in Readers : pc[p] # "asleep" \/ p \in missed
    /\ readers = 0 => \E p \in Writers : pc[p] # "asleep" \/ p \in missed
=============================================================================
