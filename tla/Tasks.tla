------------------------------- MODULE Tasks --------------------------------
(***************************************************************************)
(* What processes share by reference count: seccomp filters                *)
(* (security/seccomp.c), the control group (process/cgroup.c) and          *)
(* namespaces (process/namespace.c), with what process creation, fork and  *)
(* exit do to them (process/process.c).                                    *)
(*                                                                         *)
(* process_fork copies the whole process structure and counts nothing;     *)
(* seccomp_fork and cgroup_fork are the calls that would.  uncounted and   *)
(* base remember which references were copied without being counted, and   *)
(* overdrawn that a process exited while such a copy of its filters was    *)
(* its own or another's: the filter may then be freed under its user.  A   *)
(* filter is the set of system calls its program does not allow.           *)
(* The nsproxy's own ref_count is left out: it is never read or lowered.   *)
(***************************************************************************)
EXTENDS Integers, FiniteSets, SequencesExt

CONSTANTS
    TaskPid,        \* processes, the kernel's being 0
    FilterId,       \* BOUND: filters that can be attached
    Syscalls,       \* system call numbers
    Subsys,         \* control group subsystems
    CGROUP_SUBSYS_COUNT,
    NsKind,         \* kinds of namespace: uts, pid, ipc, mnt
    MaxProxies      \* BOUND: nsproxy structures

VARIABLES
    born, live, \* processes created so far (a pid is used once), and those not yet exited
    filter,     \* filter structures: [denies, prev, ref_count], or Freed
    task,       \* [seccomp_filter, cgroups, nsproxy] of each process
    css_ref,    \* init_css_set.ref_count
    subsystems, \* registered subsystems, by id
    charged,    \* tasks each subsystem's hooks have been told of
    proxies,    \* nsproxy structures: kind -> namespace
    ns_ref,     \* ref_count of a namespace <<kind, n>>
    base,       \* history: the filter copied into a process uncounted
    uncounted,  \* history: processes whose control group was copied uncounted
    overdrawn,  \* history: a process exited that shared an uncounted filter
    denied      \* history: system calls refused to a process or its parent

secVars == <<filter, base, overdrawn, denied>>
cgVars == <<css_ref, subsystems, charged, uncounted>>
nsVars == <<proxies, ns_ref>>
taskVars == <<born, live, task, secVars, cgVars, nsVars>>

None == 0
Freed == [denies |-> {}, prev |-> None, ref_count |-> 0]

TaskInit ==
    /\ born = {0} /\ live = {0}
    /\ filter = [f \in FilterId |-> Freed]
    /\ task = [p \in TaskPid |-> [seccomp_filter |-> None, cgroups |-> p = 0, nsproxy |-> 1]]
    /\ css_ref = 2 /\ subsystems = <<>> /\ charged = [s \in Subsys |-> {}]
    /\ proxies = <<[k \in NsKind |-> 1]>>
    /\ ns_ref = [k \in NsKind |-> <<1>>]
    /\ base = [p \in TaskPid |-> None] /\ uncounted = {} /\ overdrawn = FALSE
    /\ denied = [p \in TaskPid |-> {}]

-----------------------------------------------------------------------------
(* The filters of a process, its newest first, along prev.  A chain is no  *)
(* longer than there are filters.                                          *)
chain[n \in 0..Cardinality(FilterId), f \in FilterId \cup {None}] ==
    IF n = 0 \/ f = None THEN {} ELSE {f} \cup chain[n - 1, filter[f].prev]

Chain(f) == chain[Cardinality(FilterId), f]

(* seccomp_check_syscall runs every filter of the chain. *)
seccomp_check_syscall(p, nr) == \A f \in Chain(task[p].seccomp_filter) : nr \notin filter[f].denies

Recount(fs, n) == [f \in FilterId |-> IF f \in fs THEN [filter[f] EXCEPT !.ref_count = @ + n] ELSE filter[f]]

seccomp_attach_filter(p, f, nrs) ==
    /\ p \in live
    /\ filter[f] = Freed /\ \A g \in FilterId : g < f => filter[g] # Freed
    /\ filter' = [filter EXCEPT ![f] = [denies |-> nrs, prev |-> task[p].seccomp_filter, ref_count |-> 1]]
    /\ task' = [task EXCEPT ![p].seccomp_filter = f]
    /\ denied' = [denied EXCEPT ![p] = @ \cup nrs]
    /\ UNCHANGED <<born, live, base, overdrawn, cgVars, nsVars>>

\* Faulty variant: only the newest filter of the chain is counted.
seccomp_fork_First(c, p) ==
    /\ base[c] # None /\ base[c] = task[c].seccomp_filter /\ base[c] = task[p].seccomp_filter
    /\ p \in live /\ c \in live /\ base[p] = None
    /\ filter' = Recount({base[c]}, 1)
    /\ base' = [base EXCEPT ![c] = None]
    /\ UNCHANGED <<born, live, task, overdrawn, denied, cgVars, nsVars>>

(* Called for a child just forked: the child's pointer is the parent's     *)
(* already, and every filter of the chain gets a reference.                *)
seccomp_fork(c, p) ==
    /\ base[c] # None /\ base[c] = task[c].seccomp_filter /\ base[c] = task[p].seccomp_filter
    /\ p \in live /\ c \in live /\ base[p] = None
    /\ filter' = Recount(Chain(base[c]), 1)
    /\ base' = [base EXCEPT ![c] = None]
    /\ UNCHANGED <<born, live, task, overdrawn, denied, cgVars, nsVars>>

(* One reference less along the chain; a filter without one is freed. *)
seccomp_exit(p) ==
    LET fs == Chain(task[p].seccomp_filter) IN
    filter' = [f \in FilterId |-> IF f \in fs /\ filter[f].ref_count <= 1 THEN Freed ELSE Recount(fs, -1)[f]]

-----------------------------------------------------------------------------
(* A subsystem takes the first free id.  All of them have hooks here. *)
cgroup_register_subsys(ss) ==
    /\ \A i \in DOMAIN subsystems : subsystems[i] # ss
    /\ Len(subsystems) < CGROUP_SUBSYS_COUNT
    /\ subsystems' = Append(subsystems, ss)
    /\ UNCHANGED <<born, live, task, secVars, css_ref, charged, uncounted, nsVars>>

(* Called for a child just forked by p. *)
cgroup_fork(c, p) ==
    /\ c \in uncounted /\ p \in live /\ task[p].cgroups
    /\ css_ref' = css_ref + 1
    /\ charged' = [s \in Subsys |-> IF \E i \in DOMAIN subsystems : subsystems[i] = s
                                    THEN charged[s] \cup {c} ELSE charged[s]]
    /\ uncounted' = uncounted \ {c}
    /\ UNCHANGED <<born, live, task, secVars, subsystems, nsVars>>

(* Kernel threads have no group.  init_css_set itself is never freed. *)
cgroup_exit(p) ==
    IF ~task[p].cgroups THEN UNCHANGED <<css_ref, charged>>
    ELSE /\ css_ref' = css_ref - 1
         /\ charged' = [s \in Subsys |-> IF \E i \in DOMAIN subsystems : subsystems[i] = s
                                         THEN charged[s] \ {p} ELSE charged[s]]

-----------------------------------------------------------------------------
(* The kinds in flags get a namespace of their own, the others one more    *)
(* reference.  The caller, which the kernel does not have yet, installs    *)
(* the result.                                                             *)
copy_nsproxy(p, flags) ==
    LET orig == proxies[task[p].nsproxy] IN
    /\ p \in live
    /\ Len(proxies) < MaxProxies
    /\ ns_ref' = [k \in NsKind |-> IF k \in flags THEN Append(ns_ref[k], 1)
                                   ELSE [ns_ref[k] EXCEPT ![orig[k]] = @ + 1]]
    /\ proxies' = Append(proxies, [k \in NsKind |-> IF k \in flags THEN Len(ns_ref[k]) + 1 ELSE orig[k]])
    /\ task' = [task EXCEPT ![p].nsproxy = Len(proxies) + 1]
    /\ UNCHANGED <<born, live, secVars, cgVars>>

-----------------------------------------------------------------------------
Unborn(c) == c \notin born /\ \A d \in TaskPid : d < c => d \in born

(* A kernel thread gets its creator's namespaces and nothing else. *)
process_create(p, c) ==
    /\ p \in live /\ Unborn(c)
    /\ born' = born \cup {c} /\ live' = live \cup {c}
    /\ task' = [task EXCEPT ![c] = [seccomp_filter |-> None, cgroups |-> FALSE, nsproxy |-> task[p].nsproxy]]
    /\ UNCHANGED <<secVars, cgVars, nsVars>>

process_fork(p, c) ==
    /\ p \in live /\ Unborn(c)
    /\ born' = born \cup {c} /\ live' = live \cup {c}
    /\ task' = [task EXCEPT ![c] = task[p]]
    /\ base' = [base EXCEPT ![c] = task[p].seccomp_filter]
    /\ uncounted' = IF task[p].cgroups THEN uncounted \cup {c} ELSE uncounted
    /\ denied' = [denied EXCEPT ![c] = denied[p]]
    /\ UNCHANGED <<filter, overdrawn, css_ref, subsystems, charged, nsVars>>

(* cgroup_exit, then seccomp_exit; the nsproxy is not given back. *)
process_exit(p) ==
    /\ p \in live /\ p # 0
    /\ live' = live \ {p}
    /\ cgroup_exit(p) /\ seccomp_exit(p)
    /\ task' = [task EXCEPT ![p].seccomp_filter = None, ![p].cgroups = FALSE, ![p].nsproxy = 1]
    /\ overdrawn' = (overdrawn \/ base[p] # None \/ \E q \in live \ {p} :
                       Chain(base[q]) \cap Chain(task[p].seccomp_filter) # {})
    /\ base' = [base EXCEPT ![p] = None]
    /\ denied' = [denied EXCEPT ![p] = {}]
    /\ uncounted' = uncounted \ {p}
    /\ UNCHANGED <<born, subsystems, nsVars>>

TaskNext ==
    \/ \E p, c \in TaskPid :
          \/ process_create(p, c)
          \/ process_fork(p, c)
          \/ seccomp_fork(c, p)
          \/ cgroup_fork(c, p)
    \/ \E p \in TaskPid : process_exit(p)
    \/ \E p \in TaskPid, f \in FilterId, nrs \in SUBSET Syscalls : seccomp_attach_filter(p, f, nrs)
    \/ \E ss \in Subsys : cgroup_register_subsys(ss)
    \/ \E p \in TaskPid, flags \in SUBSET NsKind : copy_nsproxy(p, flags)

-----------------------------------------------------------------------------
Held(p) == Chain(task[p].seccomp_filter) \ Chain(base[p])

(* As long as no process has exited that shared with another a filter that *)
(* process_fork copied without counting, a filter has one reference for    *)
(* every process that counts it in its chain, it is there while one does,  *)
(* and a process is refused whatever it or an ancestor has had refused.    *)
FiltersCounted ==
    ~overdrawn =>
      /\ \A f \in FilterId : filter[f].ref_count = Cardinality({p \in live : f \in Held(p)})
      /\ \A p \in live : (base[p] = None) =>
            \A nr \in denied[p] : ~seccomp_check_syscall(p, nr)

(* A namespace has one reference for every nsproxy that names it, and      *)
(* subsystems are told of the end of every task they were told of.         *)
SharesCounted ==
    /\ \A k \in NsKind : \A n \in DOMAIN ns_ref[k] :
          ns_ref[k][n] = Cardinality({i \in DOMAIN proxies : proxies[i][k] = n})
    /\ \A s \in Subsys : charged[s] \subseteq live \ uncounted
    /\ IsInjective(subsystems)

(* What process_create, process_fork, process_exit and copy_nsproxy pass   *)
(* on between processes (filters, subsystems, namespaces) is counted.      *)
TasksCounted == FiltersCounted /\ SharesCounted
=============================================================================
