---------------------------- MODULE AddressSpace ----------------------------
(***************************************************************************)
(* The one address space of the kernel: its four-level page tables         *)
(* (memory/vmm.c), program loading (process/exec.c) and the swap device    *)
(* (memory/swap.c).  Every process runs on the same cr3, so there is one   *)
(* root table: the one the boot code made, whose entry 0 maps the first    *)
(* 4 GB by large pages.  A virtual page is its four table indices.  A      *)
(* frame that holds a table has its entries in mem, a frame that holds     *)
(* data has its contents in data; no frame is both (FramesOwned) as long   *)
(* as the walks stay on tables.  They leave them in two cases: the walks   *)
(* do not look at the large-page bit, and go on below such an entry as if  *)
(* the memory it maps were a page table; and vmm_map_page does not look at *)
(* what pmm_alloc_page returns, and builds a table in frame 0 when memory  *)
(* is out.  astray records that this happened; the model stops there.      *)
(*                                                                         *)
(* The stale contents of a freed or unreachable frame or slot are cleared: *)
(* nobody reads them again, and whoever takes it next overwrites them all. *)
(* vmm_free_user_space is left out: process_exit calls it for a process    *)
(* with tables of its own, and no process has them.                        *)
(***************************************************************************)
EXTENDS Integers, FiniteSets, SequencesExt

CONSTANTS
    Frames,        \* the page frames of the allocator, numbered from 1
    VUser,         \* user virtual pages: <<pml4, pdp, pd, pt>> indices
    StackPages,    \* the pages of the user stack, lowest first
    MmioPages,     \* the virtual pages handed out by ioremap, in order
    Programs,      \* executables: sequences of segments [pages, image]
    SwapSlots,     \* slots of swap device 0
    Values         \* contents of a page; 0 is a zeroed page

Root == -1         \* the table cr3 points at
p3_table == -2     \* the boot code's tables below entry 0 of the root
p2_table == -3
Device == 99       \* a device's registers, outside the allocator's memory
Index == {0, 1, 2} \* BOUND: indices used at each level; in the root, 0 is that of
                   \* the boot map and of programs, 1 the stack's, 2 the devices'

VARIABLES
    mem,        \* table entries, by frame
    data,       \* contents of data frames
    used,       \* frames pmm_alloc_page has handed out
    mmio,       \* pages ioremap has handed out (mmio_virt_base)
    bitmap,     \* swap slots in use
    storage,    \* contents of the swap slots
    seen,       \* history: what the program last stored in each page
    lost,       \* history: frames and slots whose last entry was overwritten
    astray      \* history: a walk took memory for a table that is none

tables == <<mem, data, used>>
swapVars == <<bitmap, storage>>
asVars == <<tables, mmio, swapVars, seen, lost, astray>>

Absent == [kind |-> "none", at |-> 0]
PTE(f) == [kind |-> "present", at |-> f]
SwapPTE(s) == [kind |-> "swapped", at |-> s]
Large == [kind |-> "large", at |-> 0]     \* 2 MB of the boot map
IsPresent(e) == e.kind = "present"
Zeroed == [i \in Index |-> Absent]

AsInit ==
    /\ mem = [f \in Frames \cup {0, Root, p3_table, p2_table} |->
                CASE f = Root     -> [Zeroed EXCEPT ![0] = PTE(p3_table)]
                  [] f = p3_table -> [Zeroed EXCEPT ![0] = PTE(p2_table)]
                  [] f = p2_table -> [i \in Index |-> Large]
                  [] OTHER        -> Zeroed]
    /\ data = [f \in Frames \cup {0} |-> 0]
    /\ used = {} /\ mmio = 0
    /\ bitmap = {} /\ storage = [s \in SwapSlots |-> 0]
    /\ seen = [v \in VUser |-> 0]
    /\ lost = {} /\ astray = FALSE

(* pmm_alloc_page: the lowest free frame, or 0. *)
pmm_alloc_page(u) ==
    IF Frames \subseteq u THEN 0
    ELSE CHOOSE f \in Frames \ u : \A g \in Frames \ u : f <= g

-----------------------------------------------------------------------------
(* The page tables.  A machine is the pair of tables and allocated frames. *)
Machine == [mem |-> mem, used |-> used]

\* Faulty variant: a table that is already there is replaced.
Ensure_Always(m, t, i) ==
    LET f == pmm_alloc_page(m.used) IN
    [mem |-> [m.mem EXCEPT ![f] = Zeroed, ![t][i] = PTE(f)],
     used |-> m.used \cup ({f} \ {0})]

(* The next table below entry i of table t, made when it is not there. *)
Ensure(m, t, i) ==
    IF IsPresent(m.mem[t][i]) THEN m
    ELSE LET f == pmm_alloc_page(m.used) IN
         [mem |-> [m.mem EXCEPT ![f] = Zeroed, ![t][i] = PTE(f)],
          used |-> m.used \cup ({f} \ {0})]

(* The entry of v at the third level is a large page: what is below it is  *)
(* ordinary memory.                                                        *)
UnderLarge(m, v) ==
    LET pdp == m.mem[Root][v[1]]
        pd == m.mem[pdp.at][v[2]]
    IN IsPresent(pdp) /\ IsPresent(pd) /\ m.mem[pd.at][v[3]] = Large

(* For a page that is not under a large one, as the ones below. *)
vmm_map_page(m, v, e) ==
    LET m1 == Ensure(m, Root, v[1])
        pdp == m1.mem[Root][v[1]].at
        m2 == Ensure(m1, pdp, v[2])
        pd == m2.mem[pdp][v[2]].at
        m3 == Ensure(m2, pd, v[3])
        pt == m3.mem[pd][v[3]].at
    IN [m3 EXCEPT !.mem[pt][v[4]] = e]

(* The table that holds the entry of v, or 0 with no table on the way. *)
TableOf(m, v) ==
    LET pdp == m.mem[Root][v[1]]
        pd == m.mem[pdp.at][v[2]]
        pt == m.mem[pd.at][v[3]]
    IN IF IsPresent(pdp) /\ IsPresent(pd) /\ IsPresent(pt) THEN pt.at ELSE 0

vmm_get_pte(m, v) == IF TableOf(m, v) = 0 THEN Absent ELSE m.mem[TableOf(m, v)][v[4]]

vmm_get_phys(m, v) ==
    LET pte == vmm_get_pte(m, v) IN IF IsPresent(pte) THEN pte.at ELSE 0

(* What mapping v anew makes unreachable. *)
Overwritten(m, v) ==
    LET pte == vmm_get_pte(m, v) IN
    CASE pte.kind = "present" -> {<<"frame", pte.at>>} \ {<<"frame", Device>>}
      [] pte.kind = "swapped" -> {<<"slot", pte.at>>}
      [] OTHER -> {}

(* The contents once the page at v is unreachable. *)
Without(d, m, v) == [d EXCEPT ![IF vmm_get_phys(m, v) \in Frames THEN vmm_get_phys(m, v) ELSE 0] = 0]

(* Mapping v needs more tables than there are frames left. *)
Missing(m, v) ==
    IF ~IsPresent(m.mem[Root][v[1]]) THEN 3
    ELSE LET pdp == m.mem[Root][v[1]].at IN
         IF ~IsPresent(m.mem[pdp][v[2]]) THEN 2
         ELSE IF IsPresent(m.mem[m.mem[pdp][v[2]].at][v[3]]) THEN 0 ELSE 1

Short(m, v) == Missing(m, v) > Cardinality(Frames \ m.used)

-----------------------------------------------------------------------------
(* process_exec.  x is the state of the load: the machine, the contents,   *)
(* the histories, and failed once a page or a header could not be had.     *)
Loading == [m |-> Machine, data |-> data, seen |-> seen, lost |-> lost,
            short |-> astray, failed |-> FALSE]

(* A fresh zeroed page at v; the whole load stops when there is none. *)
FreshPage(x, v) ==
    LET f == pmm_alloc_page(x.m.used)
        m1 == [x.m EXCEPT !.used = @ \cup {f}]
    IN IF x.failed \/ f = 0 THEN [x EXCEPT !.failed = TRUE]
       ELSE [x EXCEPT !.m = vmm_map_page(m1, v, PTE(f)),
                      !.data = [Without(@, x.m, v) EXCEPT ![f] = 0], !.seen[v] = 0,
                      !.lost = @ \cup Overwritten(x.m, v),
                      !.short = @ \/ Short(m1, v)]

SegmentPage(x, v) ==
    IF UnderLarge(x.m, v) THEN [x EXCEPT !.short = TRUE, !.failed = TRUE]
    ELSE IF vmm_get_phys(x.m, v) = 0 THEN FreshPage(x, v) ELSE x

(* The file's bytes are read into the pages through their mapping. *)
ReadIn(x, v, image) ==
    IF x.failed THEN x
    ELSE [x EXCEPT !.data[vmm_get_phys(x.m, v)] = image, !.seen[v] = image]

(* A segment whose read comes short is used as it is. *)
LoadSegment(x, seg, complete) ==
    LET mapped == FoldLeft(SegmentPage, x, seg.pages)
    IN IF complete THEN FoldLeft(LAMBDA y, v : ReadIn(y, v, seg.image), mapped, seg.pages)
       ELSE mapped

(* The loop over the program headers, of which n can be read, then the     *)
(* stack pages; complete are the segments whose bytes can be read.         *)
Load(prog, n, complete) ==
    LET loaded == FoldLeft(LAMBDA x, i : LoadSegment(x, prog[i], i \in complete),
                           Loading, [i \in 1 .. n |-> i])
    IN IF n < Len(prog) THEN loaded ELSE FoldLeft(FreshPage, loaded, StackPages)

process_exec(prog, n, complete) ==
    LET x == Load(prog, n, complete) IN
    /\ ~astray
    /\ mem' = x.m.mem /\ used' = x.m.used /\ data' = x.data
    /\ seen' = x.seen /\ lost' = x.lost /\ astray' = x.short
    /\ UNCHANGED <<mmio, swapVars>>

(* A running program stores into one of its pages. *)
Store(v, x) ==
    /\ ~astray
    /\ IsPresent(vmm_get_pte(Machine, v))
    /\ data' = [data EXCEPT ![vmm_get_phys(Machine, v)] = x]
    /\ seen' = [seen EXCEPT ![v] = x]
    /\ UNCHANGED <<mem, used, mmio, swapVars, lost, astray>>

vmm_unmap_page(v) ==
    /\ ~astray
    /\ \/ /\ UnderLarge(Machine, v) /\ astray' = TRUE
          /\ UNCHANGED <<mem, lost, data, seen>>
       \/ /\ TableOf(Machine, v) # 0
          /\ mem' = [mem EXCEPT ![TableOf(Machine, v)][v[4]] = Absent]
          /\ lost' = lost \cup Overwritten(Machine, v)
          /\ data' = Without(data, Machine, v)
          /\ seen' = [seen EXCEPT ![v] = 0]
          /\ UNCHANGED astray
    /\ UNCHANGED <<used, mmio, swapVars>>

(* One page of a device's registers. *)
ioremap ==
    LET v == MmioPages[mmio + 1] IN
    /\ ~astray
    /\ mmio < Len(MmioPages)                \* BOUND: device mappings
    /\ mem' = vmm_map_page(Machine, v, PTE(Device)).mem
    /\ used' = vmm_map_page(Machine, v, PTE(Device)).used
    /\ mmio' = mmio + 1
    /\ astray' = Short(Machine, v)
    /\ UNCHANGED <<data, swapVars, seen, lost>>

-----------------------------------------------------------------------------
(* The swap device. *)
find_free_swap_slot == IF SwapSlots \subseteq bitmap THEN -1
                       ELSE CHOOSE s \in SwapSlots \ bitmap : \A t \in SwapSlots \ bitmap : s <= t

\* Faulty variant: the slot is not marked taken.
swap_out_Unmarked(f) ==
    /\ find_free_swap_slot # -1
    /\ bitmap' = bitmap
    /\ storage' = [storage EXCEPT ![find_free_swap_slot] = data[f]]

swap_out(f) ==
    /\ find_free_swap_slot # -1
    /\ bitmap' = bitmap \cup {find_free_swap_slot}
    /\ storage' = [storage EXCEPT ![find_free_swap_slot] = data[f]]

(* The caller swap_out is written for: it moves a page out, leaves the     *)
(* entry handle_swap_fault decodes and returns the frame.                  *)
Evict(v) ==
    LET f == vmm_get_phys(Machine, v) IN
    /\ ~astray
    /\ IsPresent(vmm_get_pte(Machine, v))
    /\ swap_out(f)
    /\ mem' = [mem EXCEPT ![TableOf(Machine, v)][v[4]] = SwapPTE(find_free_swap_slot)]
    /\ used' = used \ {f}
    /\ data' = [data EXCEPT ![f] = 0]
    /\ UNCHANGED <<mmio, seen, lost, astray>>

(* swap_in takes a frame, or fails and changes nothing; the page is then   *)
(* mapped where it was.                                                    *)
handle_swap_fault(v) ==
    LET pte == vmm_get_pte(Machine, v)
        new_page == pmm_alloc_page(used)
        m == vmm_map_page([Machine EXCEPT !.used = @ \cup {new_page}], v, PTE(new_page))
    IN
    /\ ~astray
    /\ pte.kind = "swapped"
    /\ new_page # 0
    /\ data' = [data EXCEPT ![new_page] = storage[pte.at]]
    /\ bitmap' = bitmap \ {pte.at}
    /\ storage' = [storage EXCEPT ![pte.at] = 0]
    /\ mem' = m.mem /\ used' = m.used
    /\ UNCHANGED <<mmio, seen, lost, astray>>

AsNext ==
    \/ \E prog \in Programs : \E n \in 0 .. Len(prog) : \E complete \in SUBSET (1 .. n) :
          process_exec(prog, n, complete)
    \/ \E v \in VUser, x \in Values : Store(v, x)
    \/ \E v \in VUser : vmm_unmap_page(v) \/ Evict(v) \/ handle_swap_fault(v)
    \/ ioremap

-----------------------------------------------------------------------------
LostFrames == {f \in Frames : <<"frame", f>> \in lost}
BootTables == {p3_table, p2_table}
SwappedAt(s) == {v \in VUser : vmm_get_pte(Machine, v) = SwapPTE(s)}
(* What the present entries of the tables ts lead to. *)
Below(m, ts) == {m.mem[t][i].at : <<t, i>> \in {p \in ts \X Index : IsPresent(m.mem[p[1]][p[2]])}}
Tables(m) == LET pdps == Below(m, {Root}) IN pdps \cup Below(m, pdps) \cup Below(m, Below(m, pdps))
Leaves(m) == Below(m, Below(m, Below(m, Below(m, {Root}))))

(* As long as no walk went astray - no page below 4 GB was mapped, loaded  *)
(* or unmapped (vmm.c:52) and no table had to be built without memory      *)
(* (vmm.c:37) - the frames handed out are exactly the tables, the mapped   *)
(* pages and those a later mapping or unmapping made unreachable; no frame *)
(* is both a table and a page, no two entries of the tables lead to the    *)
(* same frame, and the boot tables stay in place.                          *)
FramesOwned ==
    ~astray =>
      /\ used = (Tables(Machine) \ BootTables) \cup (Leaves(Machine) \ {Device}) \cup LostFrames
      /\ BootTables \subseteq Tables(Machine)
      /\ Tables(Machine) \cap (Leaves(Machine) \cup LostFrames) = {}
      /\ Leaves(Machine) \cap LostFrames = {}
      /\ \A p, q \in (Tables(Machine) \cup {Root}) \X Index :
            LET e == mem[p[1]][p[2]] IN
            IsPresent(e) /\ e.at # Device /\ e = mem[q[1]][q[2]] => p = q

(* A page reads back what was last stored in it, wherever it has been in   *)
(* between: in its frame or in its slot of the swap device.  A taken slot  *)
(* belongs to one page, or to one whose entry was overwritten.             *)
PagesKept ==
    ~astray =>
      /\ \A v \in VUser : LET pte == vmm_get_pte(Machine, v) IN
            /\ IsPresent(pte) => data[pte.at] = seen[v]
            /\ pte.kind = "swapped" => pte.at \in bitmap /\ storage[pte.at] = seen[v]
      /\ \A s \in bitmap : Cardinality(SwappedAt(s)) + (IF <<"slot", s>> \in lost THEN 1 ELSE 0) = 1

(* vmm.c, exec.c and swap.c between them lose no frame, share none and     *)
(* keep what a page holds.                                                 *)
AddressSpaceSound == FramesOwned /\ PagesKept
=============================================================================
