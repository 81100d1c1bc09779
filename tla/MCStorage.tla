------------------------------ MODULE MCStorage -----------------------------
(***************************************************************************)
(* The layers between a file and a disk: the page cache, the buffer cache, *)
(* the request queue with its AHCI port.  A behaviour exercises one of     *)
(* them; their interfaces to each other are part of each module (a bio's   *)
(* completion in Buffer, readpage in PageCache).                           *)
(***************************************************************************)
EXTENDS Buffer, BlockQueue, PageCache

VARIABLE layer   \* the layer this behaviour exercises

storageVars == <<layer, bufVars, blkVars, pcVars>>

StorageInit == /\ layer \in {"buffer", "queue", "page"}
               /\ BufInit /\ BlkInit /\ PcInit
               /\ layer = "queue" \/ elevator = "noop"

UseBuffer == layer = "buffer" /\ BufNext /\ UNCHANGED <<layer, blkVars, pcVars>>
UseQueue == layer = "queue" /\ BlkNext /\ UNCHANGED <<layer, bufVars, pcVars>>
UsePage == layer = "page" /\ PcNext /\ UNCHANGED <<layer, bufVars, blkVars>>

StorageNext == UseBuffer \/ UseQueue \/ UsePage

StorageSpec == StorageInit /\ [][StorageNext]_storageVars

-----------------------------------------------------------------------------
(* Sectors far enough apart to merge in front, behind and not at all. *)
MCSector == 0 .. 3
=============================================================================
