------------------------------ MODULE MsgQueue ------------------------------
(***************************************************************************)
(* System V style message queues: sys_msgsnd and sys_msgrcv on one queue,  *)
(* composed with the mutex and the condition variable of module Mutex that *)
(* protect it.  Finding the queue by its id under queues_lock changes      *)
(* nothing and is left out; sys_msgget only ever adds queues.              *)
(***************************************************************************)
EXTENDS Mutex

CONSTANTS Type,      \* message types, positive numbers; 0 asks for any
          MaxSends   \* bound: messages sent in all

ASSUME MsgAssumption == Type \subseteq Nat \ {0} /\ MaxSends \in Nat

VARIABLES
    queue,     \* the messages in the queue, as <<number, type>>
    op,        \* op[p]: what p's system call does next, with its argument
    sent,      \* all messages ever queued, in order
    received   \* all messages ever taken, in order

msgVars == <<mutexVars, queue, op, sent, received>>
data    == <<queue, sent, received>>

NoOp == <<"none", 0>>

Init == /\ mutex_init
        /\ queue = <<>> /\ sent = <<>> /\ received = <<>>
        /\ op = [p \in Proc |-> NoOp]

Op(p, name) == op[p][1] = name
SetOp(p, name, arg) == op' = [op EXCEPT ![p] = <<name, arg>>]

\* p is at the point of its system call named here, not inside a mutex call.
Doing(p, name) == At(p, "idle") /\ Op(p, name)

-----------------------------------------------------------------------------
\* Both calls start with mutex_lock(&q->lock).
BeginCall(p) ==
    /\ Doing(p, "none")
    /\ \/ \E t \in Type : SetOp(p, "append", t)
       \/ \E t \in Type \union {0} : SetOp(p, "receive", t)
    /\ CallLock(p)
    /\ UNCHANGED data

\* Faulty variant: a message is queued without telling anybody.
Enqueue_Silent(p) ==
    /\ Doing(p, "append")
    /\ Len(sent) < MaxSends
    /\ LET m == <<Len(sent) + 1, op[p][2]>>
       IN  queue' = Append(queue, m) /\ sent' = Append(sent, m)
    /\ SetOp(p, "unlock", 0)
    /\ UNCHANGED <<mutexVars, received>>

\* sys_msgsnd, holding the mutex: the message goes to the tail.
Enqueue(p) ==
    /\ Doing(p, "append")
    /\ Len(sent) < MaxSends
    /\ LET m == <<Len(sent) + 1, op[p][2]>>
       IN  queue' = Append(queue, m) /\ sent' = Append(sent, m)
    /\ SetOp(p, "broadcast", 0)
    /\ UNCHANGED <<mutexVars, received>>

\* No memory for the entry: give up without queueing or waking.
EnqueueFails(p) ==
    /\ Doing(p, "append")
    /\ CallUnlock(p)
    /\ SetOp(p, "unlocking", 0)
    /\ UNCHANGED data

Broadcast(p) ==
    Doing(p, "broadcast") /\ cond_broadcast(p) /\ SetOp(p, "unlock", 0) /\ UNCHANGED data

Matches(m, typ) == typ = 0 \/ m[2] = typ

\* Faulty variant: the last match is taken.
Receive_Last(p) ==
    /\ Doing(p, "receive")
    /\ LET match == {i \in DOMAIN queue : Matches(queue[i], op[p][2])}
       IN  IF match # {}
           THEN LET i == CHOOSE i \in match : \A j \in match : i >= j
                IN  /\ received' = Append(received, queue[i])
                    /\ queue' = SubSeq(queue, 1, i - 1) \o SubSeq(queue, i + 1, Len(queue))
                    /\ SetOp(p, "unlock", 0)
                    /\ UNCHANGED <<mutexVars, sent>>
           ELSE CallCondWait(p) /\ UNCHANGED <<op, data>>

\* sys_msgrcv, holding the mutex: the first match leaves the queue, whatever
\* its place; with no match the call waits for a broadcast and looks again.
Receive(p) ==
    /\ Doing(p, "receive")
    /\ LET match == {i \in DOMAIN queue : Matches(queue[i], op[p][2])}
       IN  IF match # {}
           THEN LET i == CHOOSE i \in match : \A j \in match : i <= j
                IN  /\ received' = Append(received, queue[i])
                    /\ queue' = SubSeq(queue, 1, i - 1) \o SubSeq(queue, i + 1, Len(queue))
                    /\ SetOp(p, "unlock", 0)
                    /\ UNCHANGED <<mutexVars, sent>>
           ELSE CallCondWait(p) /\ UNCHANGED <<op, data>>

EndCall(p) == Doing(p, "unlock") /\ CallUnlock(p) /\ SetOp(p, "unlocking", 0) /\ UNCHANGED data

Return(p) == Doing(p, "unlocking") /\ op' = [op EXCEPT ![p] = NoOp] /\ UNCHANGED <<mutexVars, data>>

\* A step inside mutex_lock, mutex_unlock or cond_wait.
InMutex(p) ==
    /\ \/ mutex_lock(p) \/ mutex_lock_sleeps(p)
       \/ mutex_unlock(p) \/ mutex_unlock_wakes(p)
       \/ cond_wait(p) \/ cond_wait_wakes(p) \/ cond_wait_sleeps(p)
    /\ UNCHANGED <<op, data>>

MsgYield == /\ Switch({p \in Inside("idle") : Op(p, "none")})
            /\ UNCHANGED <<lockVars, op, data>>

MsgNext == \/ MsgYield
           \/ \E p \in Proc : \/ BeginCall(p) \/ Enqueue(p) \/ EnqueueFails(p) \/ Broadcast(p)
                              \/ Receive(p) \/ EndCall(p) \/ Return(p) \/ InMutex(p)

MsgSpec == Init /\ [][MsgNext]_msgVars

-----------------------------------------------------------------------------
OfType(s, t) == SelectSeq(s, LAMBDA m : m[2] = t)

\* Within a type messages are received in the order they were sent, none twice
\* and none lost: what was received, followed by what is queued, is what was
\* sent - whichever receivers asked for the type or for any type.  The queue is
\* only touched with the mutex held, also after cond_wait.
TypeFifo ==
    /\ \A t \in Type : OfType(sent, t) = OfType(received, t) \o OfType(queue, t)
    /\ \A p \in Proc : pc[p] = "idle" /\ op[p][1] \in {"append", "broadcast", "receive"}
          => owner = p

\* No receiver sleeps over a message it asked for: if one is asleep on the
\* condition while a match is queued, the sender is still about to broadcast.
\* Excepted are the receivers a broadcast passed by, between the mutex_unlock
\* and the sleep_on of cond_wait.
NoMissedMessage ==
    \A r \in Sleepers("cond"), j \in DOMAIN queue :
        Matches(queue[j], op[r][2]) => \E p \in Proc : Op(p, "broadcast")
=============================================================================
