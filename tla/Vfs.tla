--------------------------------- MODULE Vfs ---------------------------------
(***************************************************************************)
(* The virtual file system over ramfs: the dentry cache with its negative  *)
(* entries, path walking, and the descriptor tables of the processes.      *)
(* No handler uses files, nothing preempts a process and ramfs never       *)
(* sleeps, so each call is one step.  Nothing is ever added to             *)
(* vfsmount_list, so no walk crosses a mount point.  Dentries are numbered *)
(* in the order they are allocated; an inode belongs to the one dentry it  *)
(* was made for, so only its type is kept.  d_count only grows and nothing *)
(* reads it.                                                               *)
(***************************************************************************)
EXTENDS Integers, SequencesExt

CONSTANTS
    Proc, Names,
    Paths,          \* paths, as [abs |-> starts with "/", comps |-> components]
    MAX_FILES,      \* slots of a descriptor table
    MaxDentries,    \* what the heap has room for
    MaxOpens        \* struct files ever allocated

VARIABLES
    dcache,    \* dent: the dentries; chain: the hashed ones, newest first
    fd_table,  \* the file of each slot, or 0
    cwd,
    files,     \* every struct file ever allocated, freed ones too
    life,      \* each process is "unborn", "alive" or "dead"; no pid is used twice
    shared     \* history: the files some fork copied the descriptors of

vfsVars == <<dcache, fd_table, cwd, files, life, shared>>

Root == 1
Slot == 0 .. MAX_FILES - 1
Alive == {p \in Proc : life[p] = "alive"}
Dentry(fs) == DOMAIN fs.dent
IsDir(fs, d) == fs.dent[d].d_inode = "dir"

\* d_subdirs: alloc_dentry adds at the head.
d_subdirs(fs, d) == Reverse(SelectSeq([i \in Dentry(fs) |-> i],
                                      LAMBDA i : fs.dent[i].d_parent = d))

\* The first dentry of the hash chain with this parent and name, or 0.
d_lookup(fs, parent, name) ==
    LET hits == SelectSeq(fs.chain, LAMBDA i : /\ fs.dent[i].d_parent = parent
                                               /\ fs.dent[i].d_name = name)
    IN  IF hits = <<>> THEN 0 ELSE Head(hits)

HasRoom(fs) == Len(fs.dent) < MaxDentries

\* A new dentry, neither hashed nor with an inode; its number is Len(dent).
alloc_dentry(fs, parent, name) ==
    [fs EXCEPT !.dent = Append(@, [d_parent |-> parent, d_name |-> name, d_inode |-> "none"])]

d_instantiate(fs, d, inode) == [fs EXCEPT !.dent[d].d_inode = inode]

\* Faulty variant: the dentry goes to the tail of its chain.
d_add_Tail(fs, d, inode) == [d_instantiate(fs, d, inode) EXCEPT !.chain = Append(@, d)]

d_add(fs, d, inode) == [d_instantiate(fs, d, inode) EXCEPT !.chain = <<d>> \o @]

\* ramfs_mknod, ramfs_create and ramfs_mkdir, when new_inode succeeds.
ramfs_mknod(fs, d, mode) ==
    IF d \in Range(fs.chain) THEN d_instantiate(fs, d, mode) ELSE d_add(fs, d, mode)

\* ramfs_lookup: a name that is not cached does not exist.
ramfs_lookup(fs, d) == d_add(fs, d, "none")

-----------------------------------------------------------------------------
\* One component of path_walk; w is the walk so far.
WalkStep(w, comp) ==
    LET d     == w.dentry
        child == d_lookup(w.fs, d, comp)
        grown == alloc_dentry(w.fs, d, comp)
    IN  CASE w.err \/ comp = "." -> w
          [] comp = ".." /\ ~w.err -> IF d = Root THEN w ELSE [w EXCEPT !.dentry = w.fs.dent[d].d_parent]
          [] comp \in Names /\ ~w.err /\ child # 0 -> [w EXCEPT !.dentry = child]
          [] OTHER -> IF ~IsDir(w.fs, d) \/ ~HasRoom(w.fs) THEN [w EXCEPT !.err = TRUE]
                      ELSE [w EXCEPT !.fs = ramfs_lookup(grown, Len(grown.dent)),
                                     !.dentry = Len(grown.dent)]

Start(p, path) == IF path.abs THEN Root ELSE cwd[p]

path_walk(fs, p, path, comps) ==
    FoldLeft(WalkStep, [fs |-> fs, dentry |-> Start(p, path), err |-> FALSE], comps)

\* vfs_resolve_parent: the parent without a walk when there is one component;
\* it must have an inode.
vfs_resolve_parent(fs, p, path) ==
    LET w == path_walk(fs, p, path, Front(path.comps))
    IN  [w EXCEPT !.err = @ \/ w.fs.dent[w.dentry].d_inode = "none"]

\* alloc_dentry and then the inode operation of the parent, which a directory
\* has and nothing else; its inode may not be had.  The dentry stays.
MakeNode(w, name, mode) ==
    IF w.err \/ ~HasRoom(w.fs) THEN {w.fs}
    ELSE LET grown == alloc_dentry(w.fs, w.dentry, name)
         IN  {grown} \union IF IsDir(w.fs, w.dentry)
                            THEN {ramfs_mknod(grown, Len(grown.dent), mode)} ELSE {}

vfs_mkdir(p, path) ==
    /\ dcache' \in MakeNode(vfs_resolve_parent(dcache, p, path), Last(path.comps), "dir")
    /\ UNCHANGED <<fd_table, cwd, files, life, shared>>

\* vfs_mknod wants a slash in the path, and asks for the operation before it
\* allocates the dentry.
vfs_mknod(p, path) ==
    LET w == vfs_resolve_parent(dcache, p, path)
    IN  /\ path.abs \/ Len(path.comps) > 1
        /\ dcache' \in IF ~w.err /\ ~IsDir(w.fs, w.dentry) THEN {w.fs}
                       ELSE MakeNode(w, Last(path.comps), "blk")
        /\ UNCHANGED <<fd_table, cwd, files, life, shared>>

\* vfs_stat, and vfs_unlink, vfs_rmdir and vfs_rename, which ramfs has no
\* operations for: the walk leaves its negative dentries, and nothing else.
vfs_lookup(p, path) ==
    /\ dcache' = path_walk(dcache, p, path, path.comps).fs
    /\ UNCHANGED <<fd_table, cwd, files, life, shared>>

vfs_unlink(p, path) ==
    /\ dcache' = vfs_resolve_parent(dcache, p, path).fs
    /\ UNCHANGED <<fd_table, cwd, files, life, shared>>

vfs_chdir(p, path) ==
    LET w == path_walk(dcache, p, path, path.comps)
    IN  /\ dcache' = w.fs
        /\ cwd' = IF ~w.err /\ IsDir(w.fs, w.dentry) THEN [cwd EXCEPT ![p] = w.dentry] ELSE cwd
        /\ UNCHANGED <<fd_table, files, life, shared>>

-----------------------------------------------------------------------------
FreeSlots(p) == {s \in Slot : fd_table[p][s] = 0}
FirstFree(p) == CHOOSE s \in FreeSlots(p) : \A t \in FreeSlots(p) : s <= t

\* Faulty variant: O_CREAT makes the inode anew even if there is one.
Absent_OrCreat(inode, flags) == inode = "none" \/ "creat" \in flags

\* A dentry without an inode is a name that does not exist.
Absent(inode, flags) == inode = "none"

\* The file system after the open, and the dentry opened or 0; flags is a
\* subset of {"creat", "excl", "write", "directory"}.
Opened(fs, p, path, flags) ==
    LET w == path_walk(fs, p, path, path.comps)
        d == w.dentry
        inode == w.fs.dent[d].d_inode
        parent == vfs_resolve_parent(w.fs, p, path)
        Fails(f) == [fs |-> f, dentry |-> 0]
    IN  CASE w.err /\ "creat" \in flags ->
               {Fails(f) : f \in MakeNode(parent, Last(path.comps), "reg")}
          [] w.err /\ "creat" \notin flags -> {Fails(w.fs)}
          [] ~w.err /\ Absent(inode, flags) ->
               {Fails(w.fs)} \union
               IF "creat" \in flags /\ IsDir(w.fs, w.fs.dent[d].d_parent)
               THEN {[fs |-> ramfs_mknod(w.fs, d, "reg"), dentry |-> d]} ELSE {}
          [] ~w.err /\ ~Absent(inode, flags) ->
               IF \/ {"creat", "excl"} \subseteq flags
                  \/ inode = "dir" /\ ("write" \in flags \/ "directory" \notin flags)
               THEN {Fails(w.fs)} ELSE {[fs |-> w.fs, dentry |-> d]}

NewFile(fs, d) == [f_dentry |-> d, f_pos |-> 0, f_count |-> 1, freed |-> 0,
                   todo |-> Range(d_subdirs(fs, d))]

vfs_open(p, path, flags) ==
    /\ FreeSlots(p) # {} /\ Len(files) < MaxOpens
    /\ \E r \in Opened(dcache, p, path, flags) :
         /\ dcache' = r.fs
         /\ IF r.dentry = 0 THEN UNCHANGED <<fd_table, files>>
            ELSE /\ files' = Append(files, NewFile(r.fs, r.dentry))
                 /\ fd_table' = [fd_table EXCEPT ![p][FirstFree(p)] = Len(files) + 1]
    /\ UNCHANGED <<cwd, life, shared>>

\* One reference less; the file is freed when the count is not positive, and
\* its contents, position included, are gone (freed stops at 2: more than once).
Drop(f) == LET n == f.f_count - 1
           IN  IF n > 0 THEN [f EXCEPT !.f_count = n]
               ELSE [f EXCEPT !.f_count = n, !.freed = IF @ = 0 THEN 1 ELSE 2, !.f_pos = 0, !.todo = {}]

vfs_close(p, fd) ==
    /\ fd_table[p][fd] # 0
    /\ fd_table' = [fd_table EXCEPT ![p][fd] = 0]
    /\ files' = [files EXCEPT ![fd_table[p][fd]] = Drop(@)]
    /\ UNCHANGED <<dcache, cwd, life, shared>>

\* Faulty variant: the copy is not counted.
vfs_dup_Uncounted(p, fd) ==
    /\ fd_table[p][fd] # 0 /\ FreeSlots(p) # {}
    /\ fd_table' = [fd_table EXCEPT ![p][FirstFree(p)] = fd_table[p][fd]]
    /\ UNCHANGED <<files, dcache, cwd, life, shared>>

vfs_dup(p, fd) ==
    /\ fd_table[p][fd] # 0 /\ FreeSlots(p) # {}
    /\ files' = [files EXCEPT ![fd_table[p][fd]].f_count = @ + 1]
    /\ fd_table' = [fd_table EXCEPT ![p][FirstFree(p)] = fd_table[p][fd]]
    /\ UNCHANGED <<dcache, cwd, life, shared>>

\* Faulty variant: the children are counted from one.
ramfs_readdir_OffByOne(f) ==
    LET subdirs == d_subdirs(dcache, f.f_dentry)
    IN  IF f.f_pos >= 2 /\ f.f_pos >= Len(subdirs) + 1 THEN f
        ELSE [f EXCEPT !.f_pos = @ + 1,
                       !.todo = IF f.f_pos < 2 THEN @ ELSE @ \ {subdirs[f.f_pos]}]

\* ramfs_readdir: ".", "..", and then the child at that place of d_subdirs.
ramfs_readdir(f) ==
    LET subdirs == d_subdirs(dcache, f.f_dentry)
    IN  IF f.f_pos >= 2 /\ f.f_pos >= Len(subdirs) + 2 THEN f
        ELSE [f EXCEPT !.f_pos = @ + 1,
                       !.todo = IF f.f_pos < 2 THEN @ ELSE @ \ {subdirs[f.f_pos - 1]}]

vfs_readdir(p, fd) ==
    /\ fd_table[p][fd] # 0 /\ IsDir(dcache, files[fd_table[p][fd]].f_dentry)
    /\ files' = [files EXCEPT ![fd_table[p][fd]] = ramfs_readdir(@)]
    /\ UNCHANGED <<dcache, fd_table, cwd, life, shared>>

\* process_fork copies the process structure, the descriptors with it, and
\* counts nothing.
process_fork(p, child) ==
    /\ life[child] = "unborn"
    /\ life' = [life EXCEPT ![child] = "alive"]
    /\ fd_table' = [fd_table EXCEPT ![child] = fd_table[p]]
    /\ cwd' = [cwd EXCEPT ![child] = cwd[p]]
    /\ shared' = shared \union (Range(fd_table[p]) \ {0})
    /\ UNCHANGED <<dcache, files>>

\* process_exit closes every open descriptor.  (A dead process has no cwd; Root
\* stands for none.)
process_exit(p) ==
    LET Slots(f) == {s \in Slot : fd_table[p][s] = f}
        DropAll(f) == FoldLeft(LAMBDA g, s : Drop(g), files[f], SetToSeq(Slots(f)))
    IN  /\ life' = [life EXCEPT ![p] = "dead"]
        /\ files' = [f \in DOMAIN files |-> DropAll(f)]
        /\ fd_table' = [fd_table EXCEPT ![p] = [s \in Slot |-> 0]]
        /\ cwd' = [cwd EXCEPT ![p] = Root]
        /\ UNCHANGED <<dcache, shared>>

-----------------------------------------------------------------------------
Flags == {{}, {"creat"}, {"creat", "excl"}, {"creat", "write"}, {"directory"}}

\* ramfs_mount: the root directory; one process, at the root.
VfsInit ==
    /\ dcache = [dent |-> <<[d_parent |-> 0, d_name |-> "/", d_inode |-> "dir"]>>, chain |-> <<1>>]
    /\ fd_table = [p \in Proc |-> [s \in Slot |-> 0]]
    /\ cwd = [p \in Proc |-> Root]
    /\ files = <<>>
    /\ \E p \in Proc : life = [q \in Proc |-> IF q = p THEN "alive" ELSE "unborn"]
    /\ shared = {}

VfsNext ==
    \/ \E p \in Alive, path \in Paths :
         \/ vfs_mkdir(p, path) \/ vfs_mknod(p, path)
         \/ vfs_lookup(p, path) \/ vfs_unlink(p, path) \/ vfs_chdir(p, path)
         \/ \E flags \in Flags : vfs_open(p, path, flags)
    \/ \E p \in Alive, fd \in Slot : vfs_close(p, fd) \/ vfs_dup(p, fd) \/ vfs_readdir(p, fd)
    \/ \E p \in Alive, child \in Proc : process_fork(p, child)
    \/ \E p \in Alive : process_exit(p)

VfsSpec == VfsInit /\ [][VfsNext]_vfsVars

-----------------------------------------------------------------------------
\* A name that exists is found: a negative dentry left by an earlier failed
\* lookup never comes before the dentry of the file or directory made since.
NegativeNeverHides ==
    \A d \in Range(dcache.chain) \ {Root} :
        LET e == dcache.dent[d]
        IN  e.d_inode # "none" =>
            dcache.dent[d_lookup(dcache, e.d_parent, e.d_name)].d_inode # "none"

\* What a name stands for changes only when the name is made again, by a
\* dentry new in that step: vfs_mkdir and vfs_mknod do not look for the name
\* first.  Opening with O_CREAT, a lookup or a fork never changes it.
NamesStay ==
    [][dcache' # dcache =>
       \A old \in Range(dcache.chain) \ {Root} :
           LET e   == dcache.dent[old]
               new == d_lookup(dcache', e.d_parent, e.d_name)
           IN  e.d_inode # "none" /\ d_lookup(dcache, e.d_parent, e.d_name) = old
                => \/ new = old /\ dcache'.dent[old] = e
                   \/ new > Len(dcache.dent) /\ UNCHANGED <<files, cwd, life>>]_vfsVars

\* A file whose descriptors no fork has copied is counted exactly: f_count is
\* the number of its descriptors, and it is freed once, with the last of them.
FilesCounted ==
    \A f \in DOMAIN files \ shared :
        LET refs == {x \in Proc \X Slot : fd_table[x[1]][x[2]] = f}
        IN  /\ files[f].f_count = Cardinality(refs)
            /\ files[f].freed = IF refs = {} THEN 1 ELSE 0

\* A directory read entry by entry misses none that was there when it was
\* opened, whatever is created meanwhile: what is still to come is ahead of
\* f_pos (new entries are put in front, so some may be seen twice).
ReaddirComplete ==
    \A f \in DOMAIN files :
        LET subdirs == d_subdirs(dcache, files[f].f_dentry)
        IN  \A c \in files[f].todo : \E i \in DOMAIN subdirs :
                subdirs[i] = c /\ i + 1 >= files[f].f_pos
=============================================================================
