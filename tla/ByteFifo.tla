------------------------------ MODULE ByteFifo ------------------------------
(***************************************************************************)
(* What a pipe promises: a bounded first-in first-out channel of bytes.    *)
(***************************************************************************)
EXTENDS Naturals, Sequences

CONSTANTS Byte, Capacity

VARIABLES queue,   \* the bytes in the channel
          last     \* the byte taken out last, or none

fifoVars == <<queue, last>>

FifoInit == queue = <<>> /\ last \notin Byte

Put == /\ Len(queue) < Capacity
       /\ \E b \in Byte : queue' = Append(queue, b)
       /\ UNCHANGED last

Take == /\ queue # <<>>
        /\ last' = Head(queue)
        /\ queue' = Tail(queue)

FifoSpec == FifoInit /\ [][Put \/ Take]_fifoVars
=============================================================================
