---------------------------- MODULE MCFileSystems ---------------------------
(***************************************************************************)
(* The file system code: names and descriptors over ramfs, the data of a   *)
(* ramfs file, and the FAT32 driver.  The three share no state here, so    *)
(* which of them a behaviour is about is chosen at the start.              *)
(***************************************************************************)
EXTENDS Vfs, Ramfs, Fat32

VARIABLE part

fsVarsAll == <<part, vfsVars, ramVars, fatVars>>

FsInit == part \in {"vfs", "ramfs", "fat32"} /\ VfsInit /\ RamInit /\ FatInit

UseVfs   == part = "vfs"   /\ VfsNext /\ UNCHANGED <<part, ramVars, fatVars>>
UseRamfs == part = "ramfs" /\ RamNext /\ UNCHANGED <<part, vfsVars, fatVars>>
UseFat32 == part = "fat32" /\ FatNext /\ UNCHANGED <<part, vfsVars, ramVars>>

FsSpec == FsInit /\ [][UseVfs \/ UseRamfs \/ UseFat32]_fsVarsAll

\* Nothing in a directory is hidden: a name that exists is found, whatever
\* lookups of it failed before, and a directory read entry by entry misses
\* nothing that was there when it was opened, whatever is created meanwhile.
DirectoriesComplete == NegativeNeverHides /\ ReaddirComplete

\* Every FAT cluster is in one chain at most, whatever reads of the table fail;
\* and as long as none fails every used cluster is in the chain of a file or
\* directory, and files read back as long as their inodes say.
ClustersOwned == NoCrossLink /\ NothingLost

-----------------------------------------------------------------------------
(* Processes are interchangeable, and so are handles. *)
MCNames == {"a"}
MCPaths == {[abs |-> TRUE, comps |-> <<"a">>], [abs |-> FALSE, comps |-> <<"a", "a">>],
            [abs |-> FALSE, comps |-> <<"..", ".", "a">>]}
Symmetry == Permutations(Proc) \union Permutations(Handles)
=============================================================================
