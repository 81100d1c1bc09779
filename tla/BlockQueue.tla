------------------------------ MODULE BlockQueue ------------------------------
(***************************************************************************)
(* A disk's request queue: __make_request, the merging of bios into        *)
(* requests, the two elevators, and the AHCI driver's request function     *)
(* with the command slots of its port.  Nothing preempts the driver while  *)
(* it spins on a command; it may start on the queue at any other time.     *)
(* The disk is external: it ends a command, or stops with a task file      *)
(* error, and then ends none, for the driver never restarts the port.      *)
(* Direction and data of a bio are left out; merging looks at neither.     *)
(***************************************************************************)
EXTENDS Integers, Sequences, SequencesExt

CONSTANTS
    Sector,       \* sectors a bio may start at
    MaxBios,      \* bios ever submitted
    CmdSlot       \* command slots of the port, an interval from 0

VARIABLES
    elevator,     \* "noop" or "deadline"
    queue,        \* requests, as [sector, nr_sectors, bios]
    nbios,
    ci, table,    \* PxCI, and the request each command table is set up for
    tfes, halted, \* the error bit of PxIS; the port has stopped
    current       \* the request ahci_request is at, with its slot, or <<>>

blkVars == <<elevator, queue, nbios, ci, table, tfes, halted, current>>

BlkInit == /\ elevator \in {"noop", "deadline"}
           /\ queue = <<>> /\ nbios = 0
           /\ ci = {} /\ table = [s \in CmdSlot |-> <<>>] /\ tfes = FALSE /\ halted = FALSE /\ current = <<>>

\* Faulty variant: a bio that ends where the request begins is merged as well.
noop_merge_req_Front(req, bio) ==
    req.sector + req.nr_sectors = bio.sector \/ bio.sector + bio.size = req.sector

\* noop_merge_req and deadline_merge_req: a bio goes to the end of a request.
noop_merge_req(req, bio) == req.sector + req.nr_sectors = bio.sector

Merged(req, bio) == [req EXCEPT !.bios = Append(@, bio), !.nr_sectors = @ + bio.size]

\* Faulty variant: the request goes behind the first one with a higher sector.
deadline_add_req_Behind(q, req) ==
    LET after == {i \in DOMAIN q : req.sector < q[i].sector}
    IN  IF after = {} THEN Append(q, req)
        ELSE InsertAt(q, (CHOOSE i \in after : \A j \in after : i <= j) + 1, req)

\* deadline_add_req: in front of the first request with a higher sector.
deadline_add_req(q, req) ==
    LET after == {i \in DOMAIN q : req.sector < q[i].sector}
    IN  IF after = {} THEN Append(q, req)
        ELSE InsertAt(q, CHOOSE i \in after : \A j \in after : i <= j, req)

__elv_add_request(q, req) == IF elevator = "deadline" THEN deadline_add_req(q, req) ELSE Append(q, req)

\* __make_request under the queue's lock: elv_merge_bio tries the requests in
\* order; a new request otherwise.
__make_request(bio) ==
    LET fits == {i \in DOMAIN queue : noop_merge_req(queue[i], bio)}
        first == CHOOSE i \in fits : \A j \in fits : i <= j
        req  == [sector |-> bio.sector, nr_sectors |-> bio.size, bios |-> <<bio>>]
    IN  /\ current = <<>> /\ nbios < MaxBios /\ nbios' = nbios + 1
        /\ queue' = IF fits # {} THEN [queue EXCEPT ![first] = Merged(@, bio)]
                    ELSE __elv_add_request(queue, req)
        /\ UNCHANGED <<elevator, ci, table, tfes, halted, current>>

\* The first slot with no command, or slot 0 when there is none.
FreeSlot == LET free == CmdSlot \ ci
            IN  IF free = {} THEN 0 ELSE CHOOSE s \in free : \A t \in free : s <= t

\* ahci_request takes the head of the queue, which stays there; ahci_read or
\* ahci_write clears PxIS, sets up the command table of the slot and issues it.
ahci_issue ==
    /\ current = <<>> /\ queue # <<>>
    /\ current' = <<Head(queue), FreeSlot>>
    /\ table' = [table EXCEPT ![FreeSlot] = <<Head(queue)>>]
    /\ ci' = ci \union {FreeSlot}
    /\ tfes' = FALSE
    /\ UNCHANGED <<elevator, queue, nbios, halted>>

\* The disk.
Ended(s) == /\ s \in ci /\ ~halted
            /\ ci' = ci \ {s} /\ UNCHANGED <<elevator, queue, nbios, table, tfes, halted, current>>
Error == /\ ci # {} /\ ~halted
         /\ tfes' = TRUE /\ halted' = TRUE /\ UNCHANGED <<elevator, queue, nbios, ci, table, current>>

\* Faulty variant: the slot's bit is not looked at.
ahci_done_Early ==
    /\ current # <<>>
    /\ queue' = Tail(queue)
    /\ current' = <<>>
    /\ UNCHANGED <<elevator, nbios, ci, table, tfes, halted>>

\* The spin ends when the slot's bit is clear or at an error; either way the
\* request is taken off the queue and freed, and no bio of it is ended.
ahci_done ==
    /\ current # <<>> /\ (current[2] \notin ci \/ tfes)
    /\ queue' = Tail(queue)
    /\ current' = <<>>
    /\ UNCHANGED <<elevator, nbios, ci, table, tfes, halted>>

BlkNext ==
    \/ \E sector \in Sector, size \in 1 .. 2 : __make_request([sector |-> sector, size |-> size])
    \/ ahci_issue \/ ahci_done \/ Error
    \/ \E s \in CmdSlot : Ended(s)

-----------------------------------------------------------------------------
\* The bios of a request lie one behind the other on the disk and add up to the
\* sectors the driver asks for, however they were merged; and the deadline
\* elevator keeps its queue in the order of the sectors although merging makes
\* requests longer.
RequestsSound ==
    /\ \A i \in DOMAIN queue :
         LET r == queue[i]
             Before(k) == FoldLeft(LAMBDA n, b : n + b.size, 0, SubSeq(r.bios, 1, k))
         IN  /\ r.nr_sectors = Before(Len(r.bios))
             /\ \A k \in DOMAIN r.bios : r.bios[k].sector = r.sector + Before(k - 1)
    /\ elevator = "deadline" =>
         \A i, j \in DOMAIN queue : i < j => queue[i].sector <= queue[j].sector

\* The driver frees a request only when the disk is done with it: a command that
\* a port still works on is the one of the request ahci_request is at, which is
\* on the queue, and its command table describes that request.  A port that has
\* stopped at an error works on none, although the slots stay issued.
TransfersOwned ==
    ~halted => \A s \in ci :
        /\ current # <<>> /\ current[2] = s
        /\ queue # <<>> /\ Head(queue) = current[1] /\ table[s] = <<Head(queue)>>
=============================================================================
