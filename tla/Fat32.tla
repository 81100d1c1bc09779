-------------------------------- MODULE Fat32 --------------------------------
(***************************************************************************)
(* The FAT32 driver: the allocation table, directories as chains of        *)
(* clusters, files, and the inodes made for them.  A cluster holds one     *)
(* unit of file data or EntriesPerCluster directory entries.  The block    *)
(* device is external: bread succeeds or, in an operation with ok = FALSE, *)
(* may fail at any call, and always fails on the clusters past the data    *)
(* area that fat32_find_free_cluster also hands out.  Clearing a cluster   *)
(* of the data area is taken to succeed.  The calls do not interleave:     *)
(* the device that completes a request, the ramdisk, does so at once.      *)
(***************************************************************************)
EXTENDS Integers, FiniteSets, Sequences

CONSTANTS
    max_cluster,        \* total_sectors / sectors_per_cluster
    DataEnd,            \* the first cluster number with no sectors on the disk
    EntriesPerCluster,
    MaxInodes, MaxFileSize

VARIABLES
    fat,       \* the table: 0 is free, EOC ends a chain
    ents,      \* the entries of each directory cluster
    inodes,    \* the inodes of files, as [i_ino, i_size, dir]
    failed     \* history: some bread has failed on the data area or the table

fatVars == <<fat, ents, inodes, failed>>

Cluster == 2 .. max_cluster - 1
RootCluster == 2
EOC == 268435455

Readable(c, ok) == IF c >= DataEnd THEN {FALSE} ELSE IF ok THEN {TRUE} ELSE BOOLEAN

\* A table sector that cannot be read looks like the end of the chain.
fat32_next_cluster(f, c, ok) == IF ok THEN {f[c]} ELSE {f[c], EOC}

\* Faulty variant: the last cluster of a chain also counts as free.
fat32_find_free_cluster_Eoc(f, ok) ==
    LET free == {c \in Cluster : f[c] = 0 \/ (f[c] = EOC /\ c # RootCluster)}
    IN  IF free = {} THEN {0}
        ELSE IF ok THEN {CHOOSE c \in free : \A d \in free : c <= d} ELSE free \union {0}

\* The first free cluster, or 0; one whose entry cannot be read is passed over.
fat32_find_free_cluster(f, ok) ==
    LET free == {c \in Cluster : f[c] = 0}
    IN  IF free = {} THEN {0}
        ELSE IF ok THEN {CHOOSE c \in free : \A d \in free : c <= d} ELSE free \union {0}

\* The outcomes of fat32_alloc_cluster: [fat, new], new = 0 for failure.  When
\* the link cannot be written the mark is taken back, if that can be written.
fat32_alloc_cluster(f, prev, ok) ==
    UNION {IF new = 0 THEN {[fat |-> f, new |-> 0]}
           ELSE LET marked == [f EXCEPT ![new] = EOC]
                    linked == IF prev = 0 THEN marked ELSE [marked EXCEPT ![prev] = new]
                IN  {[fat |-> linked, new |-> new]} \union
                    IF ok THEN {} ELSE {[fat |-> f, new |-> 0]} \union
                                       IF prev = 0 THEN {} ELSE {[fat |-> marked, new |-> 0]}
           : new \in fat32_find_free_cluster(f, ok)}

\* The next cluster of the chain, a new one at its end: [fat, new].
NextOrNew(f, c, ok) ==
    UNION {IF next # EOC THEN {[fat |-> f, new |-> next]} ELSE fat32_alloc_cluster(f, c, ok)
           : next \in fat32_next_cluster(f, c, ok)}

\* The outcomes of fat32_add_entry from cluster c of the directory on.
RECURSIVE fat32_add_entry(_, _, _, _, _)
fat32_add_entry(f, en, c, e, ok) ==
    LET here == IF Len(en[c]) < EntriesPerCluster
                THEN {[fat |-> f, ents |-> [en EXCEPT ![c] = Append(@, e)], done |-> TRUE]}
                ELSE UNION {IF r.new = 0 THEN {[fat |-> r.fat, ents |-> en, done |-> FALSE]}
                            ELSE fat32_add_entry(r.fat, en, r.new, e, ok)
                            : r \in NextOrNew(f, c, ok)}
    IN  UNION {IF read THEN here ELSE {[fat |-> f, ents |-> en, done |-> FALSE]}
               : read \in Readable(c, ok)}

-----------------------------------------------------------------------------
Entry(c, isdir) == [start |-> c, isdir |-> isdir, size |-> 0]

\* Faulty variant: the cluster is kept when the entry cannot be added.
Undo_Kept(f, c, ok) == {f}

\* fat32_free_cluster after a failed fat32_add_entry.
Undo(f, c, ok) == {[f EXCEPT ![c] = 0]} \union IF ok THEN {} ELSE {f}

\* The first cluster of a new file or directory and its entry in dir: the
\* outcomes [fat, ents, new].
NewNode(dir, isdir, ok) ==
    UNION {IF a.new = 0 THEN {[fat |-> a.fat, ents |-> ents, new |-> 0]}
           ELSE UNION {IF r.done THEN {[fat |-> r.fat, ents |-> r.ents, new |-> a.new]}
                       ELSE {[fat |-> f, ents |-> r.ents, new |-> 0] : f \in Undo(r.fat, a.new, ok)}
                       : r \in fat32_add_entry(a.fat, ents, dir, Entry(a.new, isdir), ok)}
           : a \in fat32_alloc_cluster(fat, 0, ok)}

\* fat32_create, also by way of fat32_mknod.
fat32_create(dir, ok) ==
    /\ Len(inodes) < MaxInodes
    /\ \E r \in NewNode(dir, FALSE, ok) :
         /\ fat' = r.fat /\ ents' = r.ents
         /\ inodes' = IF r.new = 0 THEN inodes
                      ELSE Append(inodes, [i_ino |-> r.new, i_size |-> 0, dir |-> dir])
    /\ failed' = (failed \/ ~ok)

\* fat32_mkdir: the entries "." and ".." are added if they can be.
fat32_mkdir(dir, ok) ==
    /\ \E r \in NewNode(dir, TRUE, ok) :
         IF r.new = 0 THEN fat' = r.fat /\ ents' = r.ents
         ELSE LET parent == IF dir = RootCluster THEN 0 ELSE dir
              IN  \E r1 \in fat32_add_entry(r.fat, r.ents, r.new, Entry(r.new, TRUE), ok) :
                  \E r2 \in fat32_add_entry(r1.fat, r1.ents, r.new, Entry(parent, TRUE), ok) :
                    fat' = r2.fat /\ ents' = r2.ents
    /\ failed' = (failed \/ ~ok)
    /\ UNCHANGED inodes

\* The clusters of the chain that starts at c, the directory's entries in it.
ChainOf(f, c) ==
    LET follow[S \in SUBSET Cluster] ==
            LET T == S \union ({f[d] : d \in S} \intersect Cluster)
            IN  IF T = S THEN S ELSE follow[T]
    IN  follow[{c} \intersect Cluster]

EntriesOf(en, dir) == {<<c, i>> \in ChainOf(fat, dir) \X (1 .. EntriesPerCluster) : i \in DOMAIN en[c]}

\* fat32_update_inode_size: the entry with the inode's cluster gets its size;
\* a directory sector that cannot be read leaves it as it was.
fat32_update_inode_size(en, inode, ok) ==
    LET mine == {x \in EntriesOf(en, inode.dir) : en[x[1]][x[2]].start = inode.i_ino}
    IN  {[en EXCEPT ![x[1]][x[2]].size = inode.i_size] : x \in mine}
        \union IF ok /\ mine # {} THEN {} ELSE {en}

\* fat32_write from unit pos of the file on, count units left, at cluster c,
\* skip clusters before the position: the outcomes [fat, ents, inode].
RECURSIVE fat32_write(_, _, _, _, _, _, _, _)
fat32_write(f, en, inode, c, skip, pos, count, ok) ==
    LET stop == {[fat |-> f, ents |-> en, inode |-> inode]}
        grown == [inode EXCEPT !.i_size = IF pos + 1 > @ THEN pos + 1 ELSE @]
        Onward(en2, inode2, s, p, n) ==
            UNION {IF r.new = 0 THEN {[fat |-> r.fat, ents |-> en2, inode |-> inode2]}
                   ELSE fat32_write(r.fat, en2, inode2, r.new, s, p, n, ok)
                   : r \in NextOrNew(f, c, ok)}
        Put == UNION {IF count = 1 THEN {[fat |-> f, ents |-> en2, inode |-> grown]}
                      ELSE Onward(en2, grown, 0, pos + 1, count - 1)
                      : en2 \in IF grown = inode THEN {en} ELSE fat32_update_inode_size(en, grown, ok)}
    IN  IF skip > 0 THEN Onward(en, inode, skip - 1, pos, count)
        ELSE UNION {IF read THEN Put ELSE stop : read \in Readable(c, ok)}

WriteFile(i, pos, count, ok) ==
    /\ pos + count <= MaxFileSize
    /\ \E r \in fat32_write(fat, ents, inodes[i], inodes[i].i_ino, pos, pos, count, ok) :
         fat' = r.fat /\ ents' = r.ents /\ inodes' = [inodes EXCEPT ![i] = r.inode]
    /\ failed' = (failed \/ ~ok)

\* fat32_read: how many units it returns from the position on.
fat32_read(inode, pos) ==
    LET chain[n \in 0 .. MaxFileSize] == IF n = 0 THEN inode.i_ino
                                         ELSE IF chain[n - 1] \in Cluster THEN fat[chain[n - 1]] ELSE EOC
        got == {n \in pos .. inode.i_size - 1 : \A m \in 0 .. n : chain[m] \in Cluster}
    IN  Cardinality(got)

\* Directories the driver can be asked about, and fat32_lookup of a file: a
\* new inode, its size taken from the entry.
Used == {y \in Cluster \X (1 .. EntriesPerCluster) : y[2] \in DOMAIN ents[y[1]]}
EntryAt(x) == ents[x[1]][x[2]]
Dirs == ({RootCluster} \union {EntryAt(x).start : x \in {y \in Used : EntryAt(y).isdir}}) \ {0}

fat32_lookup(dir) ==
    /\ Len(inodes) < MaxInodes
    /\ \E x \in EntriesOf(ents, dir) :
         /\ ~EntryAt(x).isdir
         /\ inodes' = Append(inodes, [i_ino |-> EntryAt(x).start, i_size |-> EntryAt(x).size, dir |-> dir])
    /\ UNCHANGED <<fat, ents, failed>>

-----------------------------------------------------------------------------
\* fat32_mount of an empty file system.
FatInit == /\ fat = [c \in Cluster |-> IF c = RootCluster THEN EOC ELSE 0]
           /\ ents = [c \in Cluster |-> <<>>]
           /\ inodes = <<>>
           /\ failed = FALSE

FatNext ==
    \/ \E dir \in Dirs, ok \in BOOLEAN : fat32_create(dir, ok) \/ fat32_mkdir(dir, ok)
    \/ \E dir \in Dirs : fat32_lookup(dir)
    \/ \E i \in DOMAIN inodes, pos \in 0 .. MaxFileSize - 1, count \in 1 .. 2, ok \in BOOLEAN :
         WriteFile(i, pos, count, ok)

FatSpec == FatInit /\ [][FatNext]_fatVars

-----------------------------------------------------------------------------
\* Where chains begin: the root and the entries other than "." and "..".
Starts == ({RootCluster} \union
           {EntryAt(x).start : x \in {y \in Used : ~EntryAt(y).isdir \/ y[1] # EntryAt(y).start}}) \ {0}

\* Whatever reads of the table and of directories fail, no cluster is in two
\* chains or twice in one: a cluster has one predecessor at most, the first
\* cluster of a file or directory none, and no chain runs into a free cluster.
NoCrossLink ==
    LET Preds(c) == {d \in Cluster : fat[d] = c}
    IN  /\ \A c \in Cluster : Cardinality(Preds(c)) <= 1
        /\ \A c \in Starts : Preds(c) = {} /\ fat[c] # 0
        /\ \A c \in Cluster : Preds(c) # {} => fat[c] # 0

\* As long as no read has failed, nothing is lost: every cluster marked used
\* is in the chain of some file or directory, and every inode, the several of
\* one file too, reads back as many units as its size says.
NothingLost ==
    ~failed => /\ \A c \in Cluster : fat[c] # 0 => \E s \in Starts : c \in ChainOf(fat, s)
               /\ \A i \in DOMAIN inodes : fat32_read(inodes[i], 0) = inodes[i].i_size
=============================================================================
