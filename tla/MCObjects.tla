------------------------------ MODULE MCObjects -----------------------------
(***************************************************************************)
(* The objects the kernel keeps for its users: the address space, devices  *)
(* and their drivers, loadable modules, the registration tables and what   *)
(* processes share by count.  A behaviour exercises one of them.           *)
(***************************************************************************)
EXTENDS AddressSpace, Devices, Modules, Registries, Tasks

VARIABLE kind   \* the kind this behaviour exercises

objVars == <<kind, asVars, devVars, modVars, regVars, taskVars>>

ObjInit ==
    /\ kind \in {"memory", "device", "module", "chrdev", "netdev", "socket", "shm", "task"}
    /\ AsInit /\ DevInit /\ ModInit /\ RegInit /\ TaskInit

UseMemory == kind = "memory" /\ AsNext /\ UNCHANGED <<kind, devVars, modVars, regVars, taskVars>>
UseDevice == kind = "device" /\ DevNext /\ UNCHANGED <<kind, asVars, modVars, regVars, taskVars>>
UseModule == kind = "module" /\ ModNext /\ UNCHANGED <<kind, asVars, devVars, regVars, taskVars>>
UseTable == /\ \/ kind = "chrdev" /\ ChrNext
               \/ kind = "netdev" /\ NetdevNext
               \/ kind = "socket" /\ SockNext
               \/ kind = "shm" /\ ShmNext
            /\ UNCHANGED <<kind, asVars, devVars, modVars, taskVars>>
UseTask == kind = "task" /\ TaskNext /\ UNCHANGED <<kind, asVars, devVars, modVars, regVars>>

ObjNext == UseMemory \/ UseDevice \/ UseModule \/ UseTable \/ UseTask

ObjSpec == ObjInit /\ [][ObjNext]_objVars

(* Modules, devices, interfaces, sockets and segments are each owned once, *)
(* on success and on every error path: nothing is listed that is not       *)
(* there, and nothing is there that is not listed.                         *)
RegistriesSound == ModulesOwned /\ TablesExact

-----------------------------------------------------------------------------
(* A code page above 4 GB, a stack page and a device page, each under a    *)
(* root entry of its own; a page below 4 GB; a program of two segments     *)
(* that share a page, and one linked below 4 GB.  Two PCI slots, of        *)
(* which the second hides its function 1; a driver by identifier, one by   *)
(* class and one for everything; images that fail at each of the checks.   *)
MCLow == <<0, 0, 0, 0>>
MCCode == <<0, 1, 0, 0>>
MCStack == <<1, 0, 0, 0>>
MCVUser == {MCLow, MCCode, MCStack}
MCStackPages == <<MCStack>>
MCMmioPages == <<<<2, 0, 0, 0>>>>
MCPrograms == {<<[pages |-> <<MCCode>>, image |-> 1], [pages |-> <<MCCode>>, image |-> 2]>>,
               <<[pages |-> <<MCLow>>, image |-> 1]>>}

Ids(v, d, c, s) == [vendor_id |-> v, device_id |-> d, class |-> c, subclass |-> s]
MCConfigSpace == (<<0, 0>> :> Ids(1, 1, 1, 1)) @@ (<<0, 1>> :> Ids(1, 2, 2, 1))
              @@ (<<1, 0>> :> Ids(2, 1, 1, 1)) @@ (<<1, 1>> :> Ids(1, 1, 1, 1))
MCPciDrivers == [nic |-> Ids(1, 1, 0, 0), disk |-> Ids(9, 9, 1, 1), any |-> Ids(AnyId, AnyId, 0, 0)]

Image(n, v, s, u, i, e) ==
    [name |-> n, valid |-> v, symtab |-> s, undefined |-> u, init |-> i, exit |-> e]
MCImages == {Image("a", TRUE, TRUE, {"printk"}, TRUE, TRUE), Image("a", TRUE, TRUE, {"x"}, TRUE, TRUE),
             Image("unnamed", TRUE, TRUE, {}, TRUE, FALSE), Image("b", TRUE, TRUE, {}, FALSE, FALSE),
             Image("b", TRUE, FALSE, {}, TRUE, FALSE), Image("b", FALSE, FALSE, {}, TRUE, FALSE)}
=============================================================================
