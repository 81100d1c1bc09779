# RucixKernel: TLA+ models and proofs

RucixKernel is a small x86_64 kernel in C for one CPU. This directory holds TLA+
modules for its scheduler, locks, memory, files, storage, network and driver
core, TLC configurations that check them on small instances, and TLAPS proofs of
the main safety properties of its locks. `PROJECT.json` lists, for each
definition, the source lines it stands for.

Run a check with `tlc -config primitives.cfg MCPrimitives`, and the proofs of a
module with `tlapm MutexProofs.tla`.

## The system

| Part | State | Operations | Talks to |
|---|---|---|---|
| Process core (`process/process.c`, `sched_mlfq.c`) | process states, run queues by level, sleep queue, current process | create, fork, exit, wait, sleep, yield, schedule, tick | everything that blocks |
| Wait queues (`sync/waitqueue.c`) | list of sleepers | `sleep_on`, `wake_up`, `wake_up_all` | process core |
| Semaphore, mutex, condition, reader-writer lock, barrier (`sync/waitqueue.c`) | a few counters and an owner under a spinlock | lock, unlock, wait, signal | wait queues |
| Spinlock, real-time mutex (`sync/`) | lock word with the saved interrupt flag; owner, waiters, priorities | acquire, release; lock, trylock, unlock | interrupts; process core |
| Pipe, message queue, shared memory, signals (`ipc/`) | ring of bytes; list of typed messages; segments; pending sets | read, write, close; send, receive; attach; kill, deliver | wait queues; mutex and condition; process core |
| Page allocator, heap (`memory/`) | bitmap, search hint and counter; linked headers | allocate, release | everything |
| Page tables, loading, swap (`memory/vmm.c`, `swap.c`, `process/exec.c`) | four-level tables, swap slots | map, unmap, load, swap out, fault | page allocator |
| Timers, interrupt core (`time/hrtimer.c`, `drivers/core/irq.c`) | sorted list; chains of actions and their threads | start, cancel, run; request, free, dispatch | all drivers |
| Keyboard (`drivers/char/keyboard.c`) | ring of characters | interrupt handler, read | wait queue, signals |
| Caches (`fs/buffer.c`, `fs/filemap.c`, `lib/radix-tree.c`) | buffers and pages with reference counts | look up, lock, write back, release | block layer, VFS |
| VFS, ramfs, FAT32 (`fs/`) | dentries, descriptor tables, file data, cluster chains | walk, open, read, write, create, close | caches |
| Block layer, AHCI (`drivers/block/`) | request queue, command slots | submit, merge, issue, complete | interrupts |
| Network (`net/`) | packet buffers, device rings, interfaces, sockets | receive, transmit, deliver | interrupts |
| Driver model, PCI, modules, character devices | device and driver lists, module states | match, probe; load, unload; register | all drivers |
| Cgroups, namespaces, seccomp (`process/`, `security/`) | reference counts, filter chains | attach, fork, exit | process core |
| Boot, console, VMX, display, sound, USB, NVMe | device registers | setup | hardware |

The complete list, with what is and is not modelled, is `components` in
`PROJECT.json`.

### Where concurrency comes from

There is one CPU. A section between `spinlock_acquire` and `spinlock_release`
runs with interrupts off, so it is one step of a model (`Spinlock` checks when
that is so). An interrupt or a system call enters with interrupts off, but the
flag belongs to the CPU and `switch_to_task` leaves it alone: a call that has
slept may go on with interrupts on, because the process that ran in between, or
the `sti` of an idle CPU, turned them on. So nothing is said to be atomic because
it is a system call. Handlers come in between any two sections, and other
processes run while a call sleeps.

Facts about how the kernel is wired decide which questions make sense:

* `scheduler_tick` exists but nothing registers it with an interrupt line. Today
  the kernel switches processes only where code gives up the CPU, and calls that
  never sleep and share nothing with a handler (`Vfs`, `Fat32`) are one step. The
  models of the blocking primitives let the CPU move between any two sections all
  the same; `preempted` remembers whether it ever moved inside a call. Only
  `NoEarlyRelease` of the barrier needs it to be FALSE.
* Every primitive drops its lock before it calls `sleep_on`. A wake-up in between,
  from a handler or after a preemption, finds the queue without the process, and
  the process sleeps all the same. `missed` remembers the processes this happened
  to, until they are woken. The properties about sleepers leave them out, and so
  say that this window is the only way to lose a wake-up. The semaphores that
  handlers post (`drivers/core/irq.c`) are exposed to it today. This is a
  consequence of the code, not something a comment or document of the repository
  denies, so it is recorded under `hazards` and not as a finding.
* Several interfaces have no caller yet: the real-time mutex, `hrtimer_start`,
  `request_threaded_irq` and `free_irq`, `delete_from_page_cache`, `swap_out`,
  `vmm_unmap_page`, `seccomp_attach_filter`, `cgroup_fork`, `copy_nsproxy`, the
  `unregister` calls. The models call them in any order. `Evict`, the caller of
  `swap_out`, is an assumption: it stores the entry that `handle_swap_fault` reads.
* Where the code does not keep a promise, or needs a discipline it does not
  enforce, a history variable records that it was broken, and the property is
  claimed until then, or of what it does not concern:

  | Variable | Records |
  |---|---|
  | `missed` (`SyncBase`) | processes a wake-up passed by |
  | `misused` (`Spinlock`) | a lock taken twice, released out of order or held over a switch |
  | `barged` (`RtMutex`) | a lock taken before the waiter chosen for it ran |
  | `stale` (`Signals`) | a signal has hit a blocked process |
  | `conflict` (`Irq`) | actions freed by a refused request |
  | `contended`, fields `lossy`, `left` (`Buffer`) | competition for a buffer lock; a write failed or overtaken; sleepers not woken because another was |
  | `shared` (`Vfs`), `base`, `overdrawn`, `uncounted` (`Tasks`) | what fork copied uncounted |
  | `failed` (`Fat32`) | a read has failed |
  | `leaked` (`Net`) | sk_buffs lost on two paths |
  | `astray` (`AddressSpace`) | a walk took memory for a table that is none |
  | `stranded`, `misdetached` (`Registries`) | interfaces whose failed registration was ignored; segments detached by a stranger |

  A hazard that a variable of this list excuses has no property in `PROJECT.json`,
  or a note saying which part of it is excused. The behaviours go on beyond these
  points, except after `astray`, and except that code which has misused a spinlock
  takes no further step in the run.

## Modules

| Module | Models |
|---|---|
| `Cpu` | abstract: a set of runnable processes, one of them current |
| `Scheduler` | the process core, with `sleep_on`'s window before `process_schedule` |
| `SyncBase` | `sleep_on` and `wake_up` over a CPU that may choose any runnable process |
| `Semaphore`, `Mutex`, `RwLock`, `Barrier` | the primitives, each over `SyncBase` |
| `ByteFifo` | abstract: a bounded queue |
| `Pipe` | the ring of `ipc/pipe.c` and its blocking, over `SyncBase` |
| `MsgQueue` | one queue of `ipc/msg.c`, composed with `Mutex` |
| `Pmm`, `Heap` | the two allocators |
| `Keyboard` | interrupt handler and reader of the keyboard |
| `Vfs` | dentry cache, path walk and descriptor tables over ramfs |
| `Ramfs` | the data of one ramfs file through several open files |
| `Fat32` | allocation table, directories and files of a FAT volume |
| `Buffer` | the buffer cache with its locks and I/O |
| `BlockQueue` | request queue, elevators and the AHCI command slots |
| `RadixTree`, `PageCache` | the tree, and the page cache of one file over it |
| `Net` | e1000 rings, sk_buffs and the protocol handlers |
| `RtMutex`, `Spinlock` | priority inheritance; locks and the interrupt flag |
| `Signals`, `Hrtimer`, `Irq` | signals against wait queues; timers; one interrupt line |
| `AddressSpace` | page tables, program loading, swap |
| `Devices`, `Modules` | drivers and PCI devices; loadable modules |
| `Registries` | tables of character devices, interfaces, sockets, shared memory |
| `Tasks` | filters, control groups and namespaces through create, fork, exit |
| `SyncProofs` | lemmas about `SyncBase`, used by the proofs of the primitives |
| `MutexProofs`, `RwLockProofs`, `SemaphoreProofs`, `SpinlockProofs` | proofs |
| `MC*` | instances for TLC; `MCPrimitives`, `MCAllocators`, `MCFileSystems`, `MCStorage`, `MCInterrupts` and `MCObjects` also put several components side by side |

Composition: `Mutex`, `Semaphore`, `RwLock`, `Barrier`, `Pipe` and `Keyboard`
extend `SyncBase`, `MsgQueue` extends `Mutex`, and `PageCache` extends
`RadixTree`. `Scheduler` implements `Cpu`, `Pipe` and `Keyboard` implement
`ByteFifo` (checked). `SyncBase` is written to the machine `Cpu` describes: its
current process is any process that is not asleep, or the boot process. That
`SyncBase` itself implements `Cpu` is not checked.

Six `MC` modules hold components that share no state. Which of them a behaviour
uses is chosen at the start, so each is explored in full on its own and one run
covers them all.

### Correspondence with the code

**Scheduler.** `sched` groups what `process_schedule` reads and writes, so that
calls compose as operators from one such record to the next, in the order of the
code. Intrusive lists are sequences; this is exact while no process is on two
lists, which `QueueIntegrity` checks. Deadlines are kept relative to
`global_ticks`. `process_schedule` is one step. The files that `process_exit`
closes are in `Vfs`, the cgroup and seccomp state it releases in `Tasks`.
`sched_kernel` has wait queues and no fork; `sched_user` has fork and no wait
queues. Together they are excluded because `process_exit` wakes a blocked
parent and leaves its entry, which lies on the parent's stack, on the wait queue;
what is then at that address is outside the model.

**SyncBase and the primitives.** `pc[p]` names the locked section `p` runs
next, or `"asleep"`. `wake_up(p, l, q, r, W)` sends the caller to `l` and the first
sleeper of `q` to `r`, the section its loop continues with; `W` are the processes
on their way to `q`, which it passes by. A semaphore is posted by processes
that hold nothing and by a handler, as `free_irq` and `generic_handle_irq` do.
`mutex_unlock`, which the code guards against callers that do not own the mutex,
may be called by anybody. A reader or writer releases what it has locked.

**Pipe.** Each byte is moved, and a process of the other side woken, in one step
of the loop of `pipe_read` or `pipe_write`. `Contents` reads the ring between its
two indices. The inode and files that `pipe_create` makes are not modelled. An end
is closed once, when nobody is inside a call on it; the code also runs
`pipe_close` at every `vfs_close` of a descriptor that fork or dup has copied, so
the two ends of the model are those of processes that share no file.

**MsgQueue.** `op[p]` is the call `p` is in; the steps of `mutex_lock`,
`cond_wait`, `cond_broadcast` and `mutex_unlock` are those of `Mutex`.

**Pmm.** Init ranges over every memory map of `total_pages` pages. It includes
the fallback used when the map has no free page. `FirstRun` follows the loop
of `pmm_alloc_pages` with its jump `i += j`. The path of `pmm_alloc_page` that
handles page 0 is not reachable, because page 0 is always reserved.

**Heap.** Headers are records at addresses, linked by `prev` and `next`, and
the callers' blocks are remembered in a ghost variable. Alignment to 8 is
abstracted: sizes count units.

**Keyboard.** `Translate` maps scan codes to characters by class (letters,
modifiers, Ctrl-C, no character). `kbd_read` is split where a handler may run,
which is everywhere: nothing in it turns interrupts off.
No handler is registered with the input layer, so reporting a key there does
nothing.

**Vfs.** A call is one step: no handler uses files, nothing preempts a process and
ramfs never sleeps. Paths are sequences of components and include `.` and `..`. A failed
lookup leaves a negative dentry, as `ramfs_lookup` does, and `vfs_mkdir` and
`vfs_mknod` allocate a dentry without looking for one. `process_fork` copies
descriptors without counting them; `shared` remembers the files concerned, and
`FilesCounted` is about the others. Nothing is mounted below the root.

**Ramfs.** One cell stands for a byte and `PAGE` cells for the 4096 bytes the
buffer grows by. Fresh memory holds junk.

**Fat32.** The outcomes of an operation are a set, because `bread` may fail at
every call in it. `fat32_next_cluster` answers a failed read with the end of the
chain, so a writer may append a new cluster there and cut the old tail off:
`ClustersOwned` says that no cluster is then in two chains, and that nothing is
lost as long as reads succeed. Clearing a new cluster is taken to succeed, while
the code goes on if `getblk` fails there (`fat32.c:136`). Names are left out: an
entry is the cluster it starts at.

**Buffer.** `getblk` and its `insert` are two steps with the second lookup in the
latter. The device ends an I/O at any later moment, successfully or not. Testing
the lock bit and sleeping are one step: no handler here ends an I/O. No driver of
the repository sets the flag that makes a buffer uptodate; the model lets it be
set or not, as the interface provides.

**BlockQueue.** Bios come with a sector and a size; the two elevators merge and
order them. `ahci_issue` takes the first free slot, or slot 0 if none is free,
as the driver does. After a task file error the port ends no command again,
and its slots stay issued. The driver spins on each command, so a port that works
has one in flight.

**RadixTree and PageCache.** A node is named by its path. `budget` is the number of
nodes an insertion can allocate, so it may stop half way. The page cache is
entered with a count of 0, and the invariant says what the count then means.

**Net.** Lengths are in units that keep the order of header sizes. Frames too
short for ARP or IP arrive, none is shorter than the Ethernet header, whose pull
`eth_type_trans` does not check. `e1000_handle_receive` is one frame of the loop;
the adapter may write the next one in between. A frame runs through the stack,
answers included, within that step. `leaked` holds the sk_buffs lost by the two
paths that neither free nor pass one on.

**RtMutex.** `rt_mutex_lock` up to `process_schedule` and what follows it are two
steps. `Demote` is the level a process loses when its time slice is used up, lent
or not. `behind` is the priority the owner owes each waiter: the one it queued
with, or had when unlock chose among the waiters, less what time slices have cost
the owner since.

**Spinlock.** Each process has a stack of pieces of kernel code: itself and the
handlers that interrupted it, each with the locks it holds. A switch may come in
any of them and leaves the flag alone. Acquiring a lock that is taken succeeds,
as in the code, after the recursion test or the timeout. `found` is the flag as
the running code found it when it took its first lock.

**Signals.** Delivery follows the loop over the pending set. Wait and run queues
are counters of how often a process is on them: `sys_kill` puts a blocked
process on the run queue and leaves it on its wait queue.

**Hrtimer, Irq.** The run over the timers is split around each callback, in which
timers may be started and cancelled. The thread of a threaded action is split at
its semaphore; `free_irq` leaves the freeing of the action to it.

**AddressSpace.** A virtual page is its four table indices; tables and data lie in
frames taken from one pool. There is one root table, that of the boot code, whose
first entry leads to the large pages that map the first 4 GB. `process_exec`
loads segments and a stack. A program header that cannot be read or a frame that
cannot be had ends it, a segment that is read short does not. `astray` records
that a walk went below a large page, or that a table was built in frame 0 because
memory was out; the model stops there. `vmm_free_user_space` is left out:
`process_exit` calls it only for a process whose `cr3` is not the kernel's, and
none has one of its own. The arguments placed on the new stack are not modelled,
and neither is the file descriptor the image is read through.

**Devices, Modules, Registries, Tasks.** Probes, module `init` and `exit`
functions, and allocations succeed or fail in every combination. A module's
functions may sleep, with `module_mutex` held. `Tasks` lets `process_fork` copy
references uncounted and calls `seccomp_fork` and `cgroup_fork`, which would
count them, separately, as the kernel does not call them yet. `sys_shmdt` detaches
for whoever names the segment, attached or not.

## Runs

| Run | Question | Distinct states |
|---|---|---|
| `sched_kernel` | Do kernel threads stay on the right list, one running, none oversleeping, under ticks and wake-ups? Is the core a `Cpu`? | 946,435 |
| `sched_user` | With fork, exit and wait: does every ready process run, does `process_wait` return, do ended processes stay ended? | 196,219 |
| `primitives` | Are permits conserved, the mutex exclusive, a writer alone, barrier releases whole groups? Is a sleeper forgotten that no wake-up passed by? | 921,335 |
| `pipe` | Is the ring a FIFO? Does anybody no wake-up passed by sleep over bytes or space? Does closing reach the other end? | 210,346 |
| `msg` | Order per type, and the mutex held. Missed messages? | 3,896,527 |
| `allocators` | Can a page or a piece of heap have two holders? Is the scan first fit? Do blocks tile the heap, merged? | 21,652 |
| `kbd` | Is the ring a FIFO under interrupts? Does a reader sleep over input? | 614,232 |
| `files` | Is every name found and every directory read in full? Are files counted, contents kept, clusters owned once? | 269,161 |
| `storage` | Is there one buffer per block, coherent with the disk? Are requests contiguous and ordered, and kept until the disk is done with them? Is the tree a map of the cached pages? Has every sleeper a wake-up to come? | 273,013 |
| `net` | Is every sk_buff owned once, or known to be lost, with sound bounds? Is a received frame ever overlooked? | 1,329,174 |
| `interrupts` | Do owners inherit and keep priority, do nested spinlocks restore the flag, signals arrive in order, due timers run, interrupt actions live long enough? | 876,589 |
| `objects` | Are frames, swap slots, devices, modules, table entries and shared references each owned and counted once? | 220,797 |

`primitives`, `pipe`, `msg` and `files` use symmetry: processes of a role are
interchangeable, and only safety is checked there. `files`, `storage`,
`interrupts` and `objects` do not check for deadlock, because bounded numbers
of files, bios, posts and pids may be used up.

Each property is also checked to fail under named faulty variants of a
definition (`Unlock_AllLevels`, for example), listed under `mutants`.

### Bounds

* Four processes for the primitives and the pipe: a holder, two sleepers and a
  newcomer, or two of each side. Three for the message queue and, besides the
  boot process, for the scheduler. Two levels of the run queue are enough to
  move down and to stay at the bottom.
* `MaxDepth = 2` nests the mutex once. `Permits = 1` and
  `MaxPosts = 3` make waiters outnumber permits and permits outnumber waiters.
* `Count = 2` with four processes makes rounds of the barrier overlap;
  `MaxRounds = 3` bounds the ghost counters.
* `PIPE_SIZE = 2` and `KBD_BUFFER_SIZE = 4` wrap and fill, and calls of two bytes
  block in the middle. `MaxSends = 3` queues messages of both types around each
  other. The keyboard has one reader.
* `total_pages = 7` leaves runs of every length between reserved pages.
  `HeapSize = 30` with headers of 5 holds several blocks, so both merges happen.
* `files`: two processes with two descriptor slots each (a table that fills), four
  dentries (a directory, its entry and negative ones), two handles on a ramfs
  file that grows twice, and a FAT of five clusters of which the last lies past
  the data area. Directories fill a cluster of two entries and grow.
* `storage`: two processes, two blocks and two buffers with a cache limit of one,
  so eviction happens; three bios on four sectors merge at both ends; two command
  slots run out; page indexes 0, 1, 5 and 6 with nodes of two slots give trees of
  height one to three that grow and shrink.
* `net`: rings of three descriptors and three sk_buffs; both fill and wrap. One
  frame of each kind the stack tells apart.
* `interrupts`: three processes over two real-time mutexes make a chain, with
  three levels of priority; two spinlocks, two processes and up to two handlers
  nested on each; two signals; three timers over three
  instants; three actions of two devices on one line.
* `objects`: ten frames hold a program, its tables and a device page, and run
  out; one program lies below 4 GB; two swap slots; two PCI slots, one of them with two functions, and three
  drivers; three module structures and six images; two names for three
  interfaces; three tasks and two filters.

### Fairness

* `Scheduler!FairSpec`: the tick keeps coming. It is how the timer would behave
  once connected, and today it is not, so `ReadyRuns` and `WaitReturns` are
  about the scheduler as written, with its tick.
* `Scheduler!WaitFairSpec`: a process in `process_wait` that gets the CPU again
  and again executes its poll; a turn lasts at least one tick.

`ReadyRuns` is about processes that compute, exit, or poll in `process_wait`. A
process that yields before its slice ends keeps its level and can starve those
below it; the scheduler has no boost, and no source line promises otherwise.

## Proofs

All are for every set of processes (finite, but for the spinlock), every number
of permits, nesting depth and priorities, with and without preemption.

* `SyncProofs`: each operator of `SyncBase` keeps the types of its variables and
  `QueueInv`, which says that queued processes are asleep and none is queued
  twice. `HeadLeaves` says what a wake-up does to a queue. Counting lemmas `Enter`,
  `Leave`, `Stay` and `SleepStay` say how a step changes the number of processes
  inside a section.
* `MutexProofs`: `TypeCorrect` (`MutexSpec => []MutexTypeOK`) and `Exclusion`
  (`MutexSpec => []MutualExclusion`). The invariant is `MutexTypeOK /\ MutualExclusion`,
  which ties the owner and the count to what each process holds. One step
  per action, with a lemma for the locked section of `mutex_unlock`.
  `UnlockReaches` (`MutexSpec => []NoLostUnlock`): `NoLostUnlock` speaks of processes
  on the queue, and a process about to join it would break it. `UnlockInv` counts
  those in `mutex_lock` before `sleep_on` as waiting too; with `QueueInv` it is
  inductive, because the wake-up that comes before they are queued puts them
  into `missed`.
* `RwLockProofs`: `CountsTrue` (`RwSpec => []CountsExact`) and `WriterExclusion`
  (`RwSpec => []WriterAlone`). `WriterAlone` is not inductive: the lock decides by
  its counters. The invariant adds `CountsExact`, the fact that the two counters
  exclude each other, and `QueueInv`, without which a wake-up could move a
  process that is inside. `ReleaseReaches` (`RwSpec => []NoLostRelease`) adds
  `WriterCalled` and `ReaderCalled`, which count those on their way to the queues
  as the mutex proof does.
* `SemaphoreProofs`: `Conservation` (`SemSpec => []PermitsConserved`) and `PostReaches`
  (`SemSpec => []NoLostPost`), with posts from processes and from a handler. The
  invariant adds `QueueInv` and `PostInv`: as long as anybody waits, asleep or about
  to be, and was not passed by, there are as many processes coming for the
  permits, or about to wake one, as there are permits.
* `SpinlockProofs`: `Nesting` (`SpinSpec => SpinlocksNest`), for any set of locks
  and processes, any nesting of locks and of interrupts. `LocksPrivate` does not say
  what the flags saved in the locks are, and release restores the flag from
  there. `FlagInv` adds that: the lock taken first keeps the flag as it was found,
  every later one keeps "off". Both are claimed while `misused` is FALSE, which is
  what the property assumes too. The part about a step, `FlagRestored`, follows
  from the invariant before it.

The three theorems named `...Reaches` are the conjuncts of the `NoLostWakeup` that
run `primitives` checks.

Assumptions: `SyncAssumption` (finite processes, the boot process not among
them), `MutexAssumption`, `RwLockAssumption`, `SemaphoreAssumption`,
`SpinAssumption` (pids are positive). TLC evaluates all of them in the runs.

Only model-checked: everything about the other modules; all liveness (fairness
and ENABLED are beyond the prover); what recursive definitions compute
(`FirstRun`, the FAT operations, the radix tree), which needs induction over data.

## Not modelled

See `components`. In short:

* device register access, boot, console, display, sound, USB, NVMe, VMX, the
  serial driver and the input layer;
* data layout: ELF and protocol header fields, checksums, FAT names, relocation
  arithmetic, the signal frame on the user stack, the arguments of `process_exec`;
* `sched_fair.c`, to whose class no process is assigned; `vfs_getcwd`,
  `fat32_readdir`, `sys_msgget`, ends of a pipe shared by fork;
* single assignments of code that takes no lock and runs with interrupts on: the
  boot process in `enqueue_task_mlfq`, and `e1000_start_xmit` interrupted by the
  handler;
* FAT calls that interleave: the one device whose requests complete, the ramdisk,
  completes them at once.

## Plan

1. The serial ring, NVMe and xHCI queues, pipe ends in `Vfs`.
2. The unlocked paths above at the grain of assignments.
3. Proofs: `NoLostWakeup` of the pipe, `ActionsLive`,
   disjointness of page grants, the single-runner invariant of the scheduler, and
   that `SyncBase` implements `Cpu`.
