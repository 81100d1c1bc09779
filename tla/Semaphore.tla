----------------------------- MODULE Semaphore -----------------------------
(***************************************************************************)
(* sem_wait and sem_post.  Waiting and posting need not come in pairs: the *)
(* semaphores of the kernel are posted by generic_handle_irq, in a         *)
(* handler, and by free_irq, in a process that holds nothing.  The handler *)
(* runs with interrupts off, so its sem_post is one step; it comes between *)
(* any two sections of the processes.                                      *)
(***************************************************************************)
EXTENDS SyncBase

CONSTANTS Permits,        \* the count given to sem_init
          MaxPosts        \* bound: calls of sem_post

ASSUME SemaphoreAssumption ==
    Permits \in Nat /\ MaxPosts \in Nat /\ "sem" \in Queues

VARIABLES count,
          posts,          \* history: calls of sem_post
          taken           \* history: sem_wait calls that returned

semCounts == <<count, posts, taken>>
semVars == <<syncVars, semCounts>>

sem_init == SyncInit /\ count = Permits /\ posts = 0 /\ taken = 0

CallSemWait(p) == At(p, "idle") /\ Goto(p, "sem_wait") /\ UNCHANGED semCounts

\* Faulty variant: the count is not taken from.
sem_wait_NoDecrement(p) ==
    /\ At(p, "sem_wait")
    /\ IF count > 0 THEN taken' = taken + 1 /\ Goto(p, "idle")
                    ELSE UNCHANGED taken /\ Goto(p, "sleep_on")
    /\ UNCHANGED <<count, posts>>

\* The locked section of sem_wait.
sem_wait(p) ==
    /\ At(p, "sem_wait")
    /\ IF count > 0 THEN count' = count - 1 /\ taken' = taken + 1 /\ Goto(p, "idle")
                    ELSE UNCHANGED <<count, taken>> /\ Goto(p, "sleep_on")
    /\ UNCHANGED posts

sem_wait_sleeps(p) == At(p, "sleep_on") /\ sleep_on(p, "sem") /\ UNCHANGED semCounts

Post == posts < MaxPosts /\ count' = count + 1 /\ posts' = posts + 1 /\ UNCHANGED taken

\* sem_post by a process: its locked section, then the wake-up.
sem_post(p) == At(p, "idle") /\ Post /\ Goto(p, "wake_up")

sem_post_wakes(p) ==
    /\ At(p, "wake_up")
    /\ wake_up(p, "idle", "sem", "sem_wait", Inside("sleep_on"))
    /\ UNCHANGED semCounts

\* Faulty variant: the wake-up is left out.
irq_sem_post_Silent == Post /\ UNCHANGED syncVars

\* sem_post by the handler of an interrupt.
irq_sem_post == Post /\ irq_wake_up("sem", "sem_wait", Inside("sleep_on"))

SemYield == Switch(Inside("idle")) /\ UNCHANGED semCounts

SemNext ==
    \/ SemYield \/ irq_sem_post
    \/ \E p \in Proc : \/ CallSemWait(p) \/ sem_wait(p) \/ sem_wait_sleeps(p)
                       \/ sem_post(p) \/ sem_post_wakes(p)

SemSpec == sem_init /\ [][SemNext]_semVars

-----------------------------------------------------------------------------
SemLabels == {"idle", "sem_wait", "sleep_on", "asleep", "wake_up"}

\* The variables of the semaphore and its clients keep their types.
SemTypeOK == SyncTypeOK(SemLabels) /\ semCounts \in Nat \X Nat \X Nat

\* Every permit is accounted for: the ones sem_init and sem_post put in are in
\* the count or have let one sem_wait return, however many processes wait, post
\* and are posted to by a handler at once.
PermitsConserved == count + taken = Permits + posts

\* A permit does not lie about while a process sleeps for it: for every permit
\* in the count a process is on its way to take it or to call wake_up.  Excepted
\* are the sleepers a wake-up passed by, after sem_wait dropped the spinlock and
\* before sleep_on put them on the queue: the handler's post comes there too.
NoLostPost ==
    Sleepers("sem") # {}
        => count <= Cardinality(Inside("sem_wait") \union Inside("wake_up"))
=============================================================================
