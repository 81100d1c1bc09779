------------------------------ MODULE Devices -------------------------------
(***************************************************************************)
(* The driver core (drivers/core/driver.c) and the PCI bus that feeds it   *)
(* (drivers/bus/pci.c).  A PCI function <<slot, f>> becomes a device when   *)
(* the scan finds it; drivers may come before or after.  A probe succeeds  *)
(* or fails as the hardware likes.                                         *)
(***************************************************************************)
EXTENDS Integers, SequencesExt

CONSTANTS
    Slots, MaxFunc,     \* BOUND: slots of the bus, functions of a slot
    ConfigSpace,        \* present function -> [vendor_id, device_id, class, subclass]
    MultiFunction,      \* slots with bit 7 of the header type set
    PciDrivers,         \* driver -> [vendor_id, device_id, class, subclass]
    HasRemove           \* drivers with a remove callback

AnyId == 65535          \* 0xFFFF
NoDriver == "none"

VARIABLES
    scanned,    \* slots pci_scan_bus has visited
    dev_list, drv_list,
    driver,     \* dev->driver
    claimed,    \* history: drivers whose probe took the device and kept it
    refused     \* history: drivers whose probe of the device failed

devVars == <<scanned, dev_list, drv_list, driver, claimed, refused>>

Functions == DOMAIN ConfigSpace
Drv == DOMAIN PciDrivers
IsIn(x, s) == \E i \in DOMAIN s : s[i] = x

DevInit ==
    /\ scanned = {} /\ dev_list = <<>> /\ drv_list = <<>>
    /\ driver = [d \in Functions |-> NoDriver]
    /\ claimed = [d \in Functions |-> {}] /\ refused = [d \in Functions |-> {}]

pci_match(d, v) ==
    LET dev == ConfigSpace[d]
        drv == PciDrivers[v]
    IN \/ /\ drv.class # 0 \/ drv.subclass # 0
          /\ dev.class = drv.class /\ dev.subclass = drv.subclass
       \/ drv.vendor_id = AnyId
       \/ /\ drv.vendor_id = dev.vendor_id
          /\ drv.device_id \in {AnyId, dev.device_id}

(* x is the binding state; ok the pairs whose probe returns 0 this time. *)
Binding == [driver |-> driver, claimed |-> claimed, refused |-> refused]

driver_probe_device(x, v, d, ok) ==
    IF ~pci_match(d, v) THEN x
    ELSE IF <<v, d>> \in ok
         THEN [x EXCEPT !.driver[d] = v, !.claimed[d] = @ \cup {v}]
         ELSE [x EXCEPT !.refused[d] = @ \cup {v}]

Bound(x) == driver' = x.driver /\ claimed' = x.claimed /\ refused' = x.refused

\* Faulty variant: bound devices are offered to the new driver too.
Offer_All(x, v, d, ok) == driver_probe_device(x, v, d, ok)

(* The body of driver_register's loop over the bus. *)
Offer(x, v, d, ok) == IF x.driver[d] = NoDriver THEN driver_probe_device(x, v, d, ok) ELSE x

driver_register(v, ok) ==
    /\ ~IsIn(v, drv_list)
    /\ drv_list' = Append(drv_list, v)
    /\ Bound(FoldLeft(LAMBDA x, d : Offer(x, v, d, ok), Binding, dev_list))
    /\ UNCHANGED <<scanned, dev_list>>

(* A device that is still bound keeps pointing at the driver. *)
driver_unregister(v) ==
    /\ IsIn(v, drv_list)
    /\ drv_list' = SelectSeq(drv_list, LAMBDA w : w # v)
    /\ refused' = [d \in Functions |-> refused[d] \ {v}]
    /\ UNCHANGED <<scanned, dev_list, driver, claimed>>

(* The loop of device_register stops at the first driver that takes it. *)
device_register(x, d, ok) ==
    FoldLeft(LAMBDA y, v : IF y.driver[d] = NoDriver THEN driver_probe_device(y, v, d, ok) ELSE y,
             x, drv_list)

(* The functions of a slot the scan turns into devices: none without       *)
(* function 0, and only function 0 of a single-function slot.  kmalloc     *)
(* may fail for any of them.                                               *)
pci_check_device(s, failing) ==
    LET found == {f \in 0..MaxFunc : <<s, f>> \in Functions}
        fns == IF 0 \notin found THEN {} ELSE IF s \in MultiFunction THEN found ELSE {0}
    IN SetToSortSeq(fns \ failing, LAMBDA a, b : a < b)

(* One slot of pci_scan_bus. *)
pci_scan_slot(s, failing, ok) ==
    LET new == [i \in DOMAIN pci_check_device(s, failing) |-> <<s, pci_check_device(s, failing)[i]>>]
    IN /\ \A t \in Slots : t < s => t \in scanned
       /\ s \notin scanned
       /\ scanned' = scanned \cup {s}
       /\ dev_list' = dev_list \o new
       /\ Bound(FoldLeft(LAMBDA x, d : device_register(x, d, ok), Binding, new))
       /\ UNCHANGED drv_list

(* The driver's remove callback is called, registered or not. *)
device_unregister(d) ==
    /\ IsIn(d, dev_list)
    /\ dev_list' = SelectSeq(dev_list, LAMBDA e : e # d)
    /\ claimed' = [claimed EXCEPT ![d] = @ \ ({driver[d]} \cap HasRemove)]
    /\ UNCHANGED <<scanned, drv_list, driver, refused>>

(* The outcomes of the probes an operation can make. *)
Probes(vs, ds) == SUBSET {p \in vs \X ds : pci_match(p[2], p[1])}

OfSlot(s) == {d \in Functions : d[1] = s}

DevNext ==
    \/ \E v \in Drv : \E ok \in Probes({v}, ToSet(dev_list)) : driver_register(v, ok)
    \/ \E v \in Drv : driver_unregister(v)
    \/ \E s \in Slots, failing \in SUBSET (0..MaxFunc) :
         \E ok \in Probes(ToSet(drv_list), OfSlot(s)) : pci_scan_slot(s, failing, ok)
    \/ \E d \in Functions : device_unregister(d)

(* Whatever the order of the registrations, a device on the bus belongs to *)
(* exactly the driver whose probe took it, so that no two drivers drive    *)
(* the same hardware (driver.c:63, driver.c:87).  It is left without one   *)
(* only if every registered driver that matches it has refused it.  No     *)
(* function is on the bus twice.                                           *)
DevicesBound ==
    /\ \A d \in ToSet(dev_list) :
          /\ claimed[d] = {driver[d]} \ {NoDriver}
          /\ driver[d] = NoDriver =>
                \A v \in ToSet(drv_list) : pci_match(d, v) => v \in refused[d]
    /\ IsInjective(dev_list)
=============================================================================
