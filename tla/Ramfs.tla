-------------------------------- MODULE Ramfs --------------------------------
(***************************************************************************)
(* The data of one ramfs file, read, written and positioned through        *)
(* several open files.  A cell stands for a byte, PAGE cells for the 4096  *)
(* the buffer grows by.  What kmalloc returns holds anything: "junk".      *)
(***************************************************************************)
EXTENDS Integers, Sequences

CONSTANTS
    Handles,   \* open files on the inode
    Values,    \* what is written
    PAGE,      \* the growth of the buffer
    MaxSize    \* bound on positions

VARIABLES
    data,      \* the buffer, capacity cells long; <<>> is the null pointer
    i_size,
    f_pos,
    last       \* history: the value last written at each offset, or "none"

ramVars == <<data, i_size, f_pos, last>>

Offset == 0 .. MaxSize - 1
RoundUp(n) == ((n + PAGE - 1) \div PAGE) * PAGE

RamInit == /\ data = <<>> /\ i_size = 0
           /\ f_pos = [h \in Handles |-> 0]
           /\ last = [o \in Offset |-> "none"]

\* The buffer a write up to end works on: a larger one when needed, into which
\* the file is copied; only the first one is cleared.
Grown(end) ==
    IF end <= Len(data) THEN data
    ELSE [i \in 1 .. RoundUp(end) |->
            IF i <= i_size THEN data[i] ELSE IF data = <<>> THEN "zero" ELSE "junk"]

\* Faulty variant: the size becomes the end of the write.
SizeAfter_End(end) == end

SizeAfter(end) == IF end > i_size THEN end ELSE i_size

ramfs_write(h, v, count) ==
    LET from == f_pos[h]
        end  == from + count
        Written(i) == i - 1 >= from /\ i - 1 < end
    IN  /\ end <= MaxSize
        /\ data' = [i \in DOMAIN Grown(end) |-> IF Written(i) THEN v ELSE Grown(end)[i]]
        /\ f_pos' = [f_pos EXCEPT ![h] = end]
        /\ i_size' = SizeAfter(end)
        /\ last' = [o \in Offset |-> IF Written(o + 1) THEN v ELSE last[o]]

\* ramfs_read: what it copies is data from the position on; at or past the end
\* of the file it returns 0 and the position stays.
ramfs_read(h, count) ==
    /\ f_pos[h] < i_size
    /\ f_pos' = [f_pos EXCEPT ![h] = IF @ + count > i_size THEN i_size ELSE @ + count]
    /\ UNCHANGED <<data, i_size, last>>

vfs_lseek(h, offset, whence) ==
    LET new_pos == offset + CASE whence = "set" -> 0
                              [] whence = "cur" -> f_pos[h]
                              [] whence = "end" -> i_size
    IN  /\ new_pos \in 0 .. MaxSize
        /\ f_pos' = [f_pos EXCEPT ![h] = new_pos]
        /\ UNCHANGED <<data, i_size, last>>

RamNext ==
    \E h \in Handles :
        \/ \E v \in Values, count \in 1 .. PAGE : ramfs_write(h, v, count)
        \/ \E count \in 1 .. PAGE : ramfs_read(h, count)
        \/ \E offset \in -PAGE .. PAGE, whence \in {"set", "cur", "end"} : vfs_lseek(h, offset, whence)

\* Every byte below i_size that some handle wrote reads back as the last value
\* written there, whichever handle wrote it and however often the buffer was
\* replaced since; the size is the end of the furthest write, and no read
\* passes the buffer's end.
ContentKept ==
    /\ i_size <= Len(data)
    /\ \A o \in Offset : last[o] # "none" => o < i_size /\ data[o + 1] = last[o]
    /\ i_size > 0 => last[i_size - 1] # "none"
=============================================================================
