--------------------------------- MODULE Irq ---------------------------------
(***************************************************************************)
(* One interrupt line: its chain of irqactions, request and free, the      *)
(* dispatch in interrupt context, and the threads of threaded actions.     *)
(***************************************************************************)
EXTENDS Integers, SequencesExt

CONSTANTS ActionId, Dev, MaxPosts   \* MaxPosts: bound on a semaphore's count

VARIABLES
    irq_desc,   \* the chain
    action,     \* each irqaction: alive, dev_id, threaded, shared, should_stop, wake_sem
    thread,     \* each action's thread: "none", "test", "wait" or "woken"
    conflict    \* history: threads whose action a refused request freed

irqVars == <<irq_desc, action, thread, conflict>>

NoAction == [alive |-> FALSE, dev_id |-> 0, threaded |-> FALSE, shared |-> FALSE,
             should_stop |-> FALSE, wake_sem |-> 0]
InChain(a) == \E i \in DOMAIN irq_desc : irq_desc[i] = a
sem_post(s) == IF s < MaxPosts THEN s + 1 ELSE s
kfree(acts, a) == [acts EXCEPT ![a] = NoAction]

IrqInit == /\ irq_desc = <<>> /\ action = [a \in ActionId |-> NoAction]
           /\ thread = [a \in ActionId |-> "none"] /\ conflict = {}

\* request_threaded_irq: the thread is made before the line is looked at, and
\* a refused request frees the action without stopping it.
request_threaded_irq(a, dev, threaded, shared) ==
    LET new == [NoAction EXCEPT !.alive = TRUE, !.dev_id = dev, !.threaded = threaded, !.shared = shared]
        admitted == irq_desc = <<>> \/ (action[irq_desc[1]].shared /\ shared)
    IN  /\ ~action[a].alive /\ thread[a] = "none"
        /\ thread' = [thread EXCEPT ![a] = IF threaded THEN "test" ELSE "none"]
        /\ IF admitted THEN irq_desc' = Append(irq_desc, a) /\ action' = [action EXCEPT ![a] = new]
           ELSE irq_desc' = irq_desc /\ action' = kfree([action EXCEPT ![a] = new], a)
        /\ conflict' = IF threaded /\ ~admitted THEN conflict \union {a} ELSE conflict

\* Faulty variant: the action is freed at once, thread or not.
Released_Now(a) == kfree(action, a)

\* An action with a thread is left to the thread to free.
Released(a) == IF action[a].threaded
               THEN [action EXCEPT ![a].should_stop = TRUE, ![a].wake_sem = sem_post(@)]
               ELSE kfree(action, a)

\* free_irq: the first action of the device.
free_irq(dev) ==
    LET own == {i \in DOMAIN irq_desc : action[irq_desc[i]].dev_id = dev}
        k   == CHOOSE i \in own : \A j \in own : i <= j
    IN  /\ own # {}
        /\ irq_desc' = RemoveAt(irq_desc, k)
        /\ action' = Released(irq_desc[k])
        /\ UNCHANGED <<thread, conflict>>

\* generic_handle_irq: every action of the chain is called; `wake' are those
\* with a thread whose handler asks for it or that have no handler.
generic_handle_irq(wake) ==
    /\ irq_desc # <<>>
    /\ action' = [a \in ActionId |-> IF a \in wake
                                     THEN [action[a] EXCEPT !.wake_sem = sem_post(@)] ELSE action[a]]
    /\ UNCHANGED <<irq_desc, thread, conflict>>

\* irq_thread: it gives up the CPU in sem_wait only (and in thread_fn).  The
\* thread of a freed action reads freed memory and is not followed further.
irq_thread(a) ==
    /\ action[a].alive
    /\ \/ /\ thread[a] = "test" /\ ~action[a].should_stop
          /\ thread' = [thread EXCEPT ![a] = "wait"] /\ UNCHANGED action
       \/ /\ thread[a] = "wait" /\ action[a].wake_sem > 0
          /\ thread' = [thread EXCEPT ![a] = "woken"] /\ action' = [action EXCEPT ![a].wake_sem = @ - 1]
       \/ /\ thread[a] = "woken" /\ ~action[a].should_stop
          /\ thread' = [thread EXCEPT ![a] = "test"] /\ UNCHANGED action
       \/ /\ thread[a] \in {"test", "woken"} /\ action[a].should_stop
          /\ thread' = [thread EXCEPT ![a] = "none"] /\ action' = kfree(action, a)
    /\ UNCHANGED <<irq_desc, conflict>>

IrqNext ==
    \/ \E a \in ActionId : irq_thread(a) \/ \E dev \in Dev, th, sh \in BOOLEAN : request_threaded_irq(a, dev, th, sh)
    \/ \E dev \in Dev : free_irq(dev)
    \/ \E wake \in SUBSET {a \in ActionId : InChain(a) /\ action[a].threaded} : generic_handle_irq(wake)

-----------------------------------------------------------------------------
\* An irqaction lives exactly as long as somebody can reach it: those in the
\* chain are distinct and alive, one no longer in the chain is alive only until
\* its thread has seen should_stop - which it will, because free_irq has posted
\* the semaphore - and no thread outlives its action, unless a refused request
\* freed it.
ActionsLive ==
    /\ \A i, j \in DOMAIN irq_desc : irq_desc[i] = irq_desc[j] => i = j
    /\ \A a \in ActionId :
         /\ InChain(a) => action[a].alive /\ ~action[a].should_stop
         /\ action[a].alive /\ ~InChain(a) => action[a].should_stop /\ thread[a] \in {"test", "wait", "woken"}
         /\ action[a].alive /\ action[a].should_stop /\ thread[a] = "wait" => action[a].wake_sem > 0
         /\ thread[a] \in {"test", "wait", "woken"} => action[a].alive \/ a \in conflict
=============================================================================
