------------------------------ MODULE Modules -------------------------------
(***************************************************************************)
(* Loadable modules (module.c).  Processes load images and delete modules  *)
(* by name, one at a time under module_mutex.  The module's own init and   *)
(* exit functions may sleep, so other processes run while one of them is   *)
(* under way; everything else in the two system calls is one step.  An     *)
(* image is what the loader looks at: a valid header, a symbol table, the  *)
(* undefined symbols of its relocations, an init and an exit function.     *)
(***************************************************************************)
EXTENDS Integers, SequencesExt

CONSTANTS
    ModProc,    \* processes
    Images,     \* [name, valid, symtab, undefined, init, exit]
    KSymtab,    \* symbols the kernel exports
    ModId       \* BOUND: module structures that can exist at a time

VARIABLES
    modules,        \* the list, newest first
    mod,            \* module structures: [state, name, exit, syms]
    blocks,         \* heap blocks: <<"core", m>> and <<"mod", m>>
    module_mutex,   \* its holder, or 0
    call            \* what each process is doing: [at, mod]

modVars == <<modules, mod, blocks, module_mutex, call>>

Idle == [at |-> "idle", mod |-> 0]
Blank == [state |-> "none", name |-> "none", exit |-> FALSE, syms |-> {}]

ModInit ==
    /\ modules = <<>>
    /\ mod = [m \in ModId |-> Blank]
    /\ blocks = {} /\ module_mutex = 0
    /\ call = [p \in ModProc |-> Idle]

(* The kernel's symbols, then the ones of the modules.  No code fills in   *)
(* a module's syms, so a module exports none.                              *)
resolve_symbol(s) == s \in KSymtab \/ \E i \in DOMAIN modules : s \in mod[modules[i]].syms

apply_relocations(image) == \A s \in image.undefined : resolve_symbol(s)

(* What the loader needs before it can call the module's init. *)
Loadable(image) == image.symtab /\ apply_relocations(image) /\ image.init

Of(m) == {<<"core", m>>, <<"mod", m>>}

\* Faulty variant: the error path forgets the module structure.
Discard_Half(m) ==
    /\ blocks' = (blocks \cup Of(m)) \ {<<"core", m>>}
    /\ mod' = [mod EXCEPT ![m] = Blank]

(* An error path: both blocks are freed. *)
Discard(m) ==
    /\ blocks' = blocks \ Of(m)
    /\ mod' = [mod EXCEPT ![m] = Blank]

(* The part of sys_init_module up to the call of init.  Either allocation  *)
(* may fail; every failure gives the mutex back and leaves no block.       *)
sys_init_module(p, image, memory) ==
    \E m \in ModId :
        /\ <<"mod", m>> \notin blocks /\ \A n \in ModId : n < m => <<"mod", n>> \in blocks
        /\ call[p] = Idle /\ module_mutex = 0
        /\ IF image.valid /\ memory /\ Loadable(image)
           THEN /\ blocks' = blocks \cup Of(m)
                /\ mod' = [mod EXCEPT ![m] = [state |-> "coming", name |-> image.name,
                                              exit |-> image.exit, syms |-> {}]]
                /\ module_mutex' = p
                /\ call' = [call EXCEPT ![p] = [at |-> "init", mod |-> m]]
           ELSE /\ IF image.valid /\ memory THEN Discard(m) ELSE UNCHANGED <<blocks, mod>>
                /\ UNCHANGED <<module_mutex, call>>
        /\ UNCHANGED modules

(* init returns: the module goes live, or everything is undone. *)
init_returns(p, ret) ==
    LET m == call[p].mod IN
    /\ call[p].at = "init"
    /\ IF ret = 0
       THEN /\ mod' = [mod EXCEPT ![m].state = "live"]
            /\ modules' = <<m>> \o modules
            /\ UNCHANGED blocks
       ELSE Discard(m) /\ UNCHANGED modules
    /\ module_mutex' = 0
    /\ call' = [call EXCEPT ![p] = Idle]

(* list_del and the two kfrees. *)
Unload(m) ==
    /\ modules' = SelectSeq(modules, LAMBDA n : n # m)
    /\ blocks' = blocks \ Of(m)
    /\ mod' = [mod EXCEPT ![m] = Blank]

(* sys_delete_module takes the first module of that name, if it is live;   *)
(* without an exit function it is gone at once.                            *)
sys_delete_module(p, name) ==
    LET named == SelectSeq(modules, LAMBDA n : mod[n].name = name)
        m == named[1]
    IN
    /\ call[p] = Idle /\ module_mutex = 0
    /\ named # <<>> /\ mod[m].state = "live"
    /\ IF mod[m].exit
       THEN /\ mod' = [mod EXCEPT ![m].state = "going"]
            /\ module_mutex' = p
            /\ call' = [call EXCEPT ![p] = [at |-> "exit", mod |-> m]]
            /\ UNCHANGED <<modules, blocks>>
       ELSE Unload(m) /\ UNCHANGED <<module_mutex, call>>

exit_returns(p) ==
    /\ call[p].at = "exit"
    /\ Unload(call[p].mod)
    /\ module_mutex' = 0
    /\ call' = [call EXCEPT ![p] = Idle]

ModNext ==
    \E p \in ModProc :
        \/ \E image \in Images, memory \in BOOLEAN : sys_init_module(p, image, memory)
        \/ \E ret \in {0, 1} : init_returns(p, ret)
        \/ \E image \in Images : sys_delete_module(p, image.name)
        \/ exit_returns(p)

(* The heap blocks of modules are exactly those of the listed ones and of  *)
(* the one whose init runs: no failure leaks or frees too much.  The code  *)
(* of a module whose init or exit runs is there, for that call alone; a    *)
(* listed module is live unless its exit runs.                             *)
ModulesOwned ==
    LET busy == {p \in ModProc : call[p] # Idle}
        running(at) == {call[p].mod : p \in {q \in ModProc : call[q].at = at}}
    IN /\ blocks = UNION {Of(m) : m \in ToSet(modules) \cup running("init")}
       /\ \A p \in busy : Of(call[p].mod) \subseteq blocks /\ module_mutex = p
       /\ \A m \in ToSet(modules) : mod[m].state = (IF m \in running("exit") THEN "going" ELSE "live")
       /\ IsInjective(modules) /\ ToSet(modules) \cap running("init") = {}
=============================================================================
