----------------------------- MODULE Registries -----------------------------
(***************************************************************************)
(* Four tables the kernel finds its objects in: character devices by major *)
(* number (drivers/char/chardev.c), network interfaces by name             *)
(* (net/core/dev.c, with the drivers that register them), sockets by       *)
(* descriptor (net/socket.c) and shared memory by key and by identifier    *)
(* (ipc/shm.c).  Each operation is one step: it holds a lock, or no        *)
(* handler touches its table and nothing preempts a process.               *)
(***************************************************************************)
EXTENDS Integers, SequencesExt

CONSTANTS
    Majors,     \* MAX_CHAR_DEVICES majors
    Names,      \* names of devices and interfaces
    NetDev,     \* BOUND: net_device structures
    MAX_SOCKETS,
    SockId,     \* BOUND: socket structures
    Keys,       \* keys of shared memory
    ShmProc     \* processes that attach it

VARIABLES
    chrdevs,        \* [name, fops] by major; fops is "null" or its driver's name
    net_devices,    \* the list of registered interfaces
    netdev,         \* allocated net_devices: their name, or "free"
    stranded,       \* history: interfaces whose failed registration was ignored
    socket_table,   \* descriptor -> socket, or 0
    socks,          \* allocated sockets
    segments,       \* shared memory, newest first: [id, key, ref_count]
    attached,       \* history: <<process, id>> attached and not detached
    misdetached     \* history: segments detached by a process that had not attached them

chrVars == <<chrdevs>>
netdevVars == <<net_devices, netdev, stranded>>
sockVars == <<socket_table, socks>>
shmVars == <<segments, attached, misdetached>>
regVars == <<chrVars, netdevVars, sockVars, shmVars>>

RegInit ==
    /\ chrdevs = [m \in Majors |-> [name |-> "", fops |-> "null"]]
    /\ net_devices = <<>> /\ netdev = [d \in NetDev |-> "free"] /\ stranded = {}
    /\ socket_table = [fd \in 0..MAX_SOCKETS - 1 |-> 0] /\ socks = {}
    /\ segments = <<>> /\ attached = {} /\ misdetached = {}

-----------------------------------------------------------------------------
(* A driver registers under its own name and brings its own fops. *)
register_chrdev(major, name) ==
    /\ major \in Majors
    /\ chrdevs[major].fops = "null"
    /\ chrdevs' = [chrdevs EXCEPT ![major] = [name |-> name, fops |-> name]]
    /\ UNCHANGED <<netdevVars, sockVars, shmVars>>

(* The name stays behind.  Without a name no owner is checked. *)
unregister_chrdev(major, name) ==
    /\ major \in Majors
    /\ name \in {chrdevs[major].name, "null"}
    /\ chrdevs' = [chrdevs EXCEPT ![major].fops = "null"]
    /\ UNCHANGED <<netdevVars, sockVars, shmVars>>

chardev_get_fops(major) == IF major \in Majors THEN chrdevs[major].fops ELSE "null"

-----------------------------------------------------------------------------
alloc_netdev(d, name) ==
    /\ netdev[d] = "free"
    /\ \A e \in NetDev : e < d => netdev[e] # "free"

\* Faulty variant: a name that is taken is not noticed.
Collides_Never(name) == FALSE

(* register_netdev's walk of the list. *)
Collides(name) == \E i \in DOMAIN net_devices : netdev[net_devices[i]] = name

(* loopback_init checks the registration and frees what it could not       *)
(* register; e1000_probe and register_wireless_dev do not.                 *)
loopback_init(d, name) ==
    /\ alloc_netdev(d, name)
    /\ IF Collides(name)
       THEN UNCHANGED <<net_devices, netdev>>
       ELSE netdev' = [netdev EXCEPT ![d] = name] /\ net_devices' = Append(net_devices, d)
    /\ UNCHANGED <<chrVars, stranded, sockVars, shmVars>>

(* up is what the interface's init operation returns, when it has one. *)
register_netdev(d, name, up) ==
    /\ alloc_netdev(d, name)
    /\ netdev' = [netdev EXCEPT ![d] = name]
    /\ IF Collides(name) \/ ~up
       THEN stranded' = stranded \cup {d} /\ UNCHANGED net_devices
       ELSE net_devices' = Append(net_devices, d) /\ UNCHANGED stranded
    /\ UNCHANGED <<chrVars, sockVars, shmVars>>

(* The caller that takes an interface away frees it after that. *)
unregister_netdev(d) ==
    /\ \E i \in DOMAIN net_devices : net_devices[i] = d
    /\ net_devices' = SelectSeq(net_devices, LAMBDA e : e # d)
    /\ netdev' = [netdev EXCEPT ![d] = "free"]
    /\ UNCHANGED <<chrVars, stranded, sockVars, shmVars>>

-----------------------------------------------------------------------------
NoFd == -1

install_fd ==
    LET free == {fd \in DOMAIN socket_table : socket_table[fd] = 0}
    IN IF free = {} THEN NoFd ELSE CHOOSE fd \in free : \A g \in free : fd <= g

(* sys_socket: a socket of an unknown type, and one for which there is no  *)
(* descriptor, is released.  Nothing takes a socket out of the table.      *)
sys_socket(type) ==
    \E s \in SockId \ socks :
        /\ \A t \in SockId : t < s => t \in socks
        /\ IF type \in {"stream", "dgram"} /\ install_fd # NoFd
           THEN /\ socket_table' = [socket_table EXCEPT ![install_fd] = s]
                /\ socks' = socks \cup {s}
           ELSE UNCHANGED <<socket_table, socks>>
        /\ UNCHANGED <<chrVars, netdevVars, shmVars>>

-----------------------------------------------------------------------------
(* Identifiers are given out in order and segments are never freed, so     *)
(* next_shm_id is one more than their number.                              *)
next_shm_id == Len(segments) + 1

find_shm(id) == SelectSeq(segments, LAMBDA s : s.id = id)
find_shm_key(key) == SelectSeq(segments, LAMBDA s : s.key = key)

\* Faulty variant: a segment is made for every call.
sys_shmget_New(key) ==
    /\ segments' = <<[id |-> next_shm_id, key |-> key, ref_count |-> 0]>> \o segments
    /\ UNCHANGED <<chrVars, netdevVars, sockVars, attached, misdetached>>

(* A segment is made for a key that has none, if there is memory for it. *)
sys_shmget(key) ==
    /\ find_shm_key(key) = <<>>
    /\ segments' = <<[id |-> next_shm_id, key |-> key, ref_count |-> 0]>> \o segments
    /\ UNCHANGED <<chrVars, netdevVars, sockVars, attached, misdetached>>

Counted(id, n) == [i \in DOMAIN segments |->
    IF segments[i].id = id THEN [segments[i] EXCEPT !.ref_count = @ + n] ELSE segments[i]]

sys_shmat(p, id) ==
    /\ find_shm(id) # <<>>
    /\ <<p, id>> \notin attached       \* BOUND: one attachment per process
    /\ segments' = Counted(id, 1)
    /\ attached' = attached \cup {<<p, id>>}
    /\ UNCHANGED <<chrVars, netdevVars, sockVars, misdetached>>

(* Whoever passes the address of a segment: nobody looks whether it was    *)
(* attached.                                                               *)
sys_shmdt(p, id) ==
    /\ find_shm(id) # <<>>
    /\ find_shm(id)[1].ref_count >= 0       \* BOUND: the count falls to -1
    /\ segments' = Counted(id, -1)
    /\ attached' = attached \ {<<p, id>>}
    /\ misdetached' = misdetached \cup (IF <<p, id>> \in attached THEN {} ELSE {id})
    /\ UNCHANGED <<chrVars, netdevVars, sockVars>>

ChrNext ==
    \/ \E m \in Majors, n \in Names : register_chrdev(m, n)
    \/ \E m \in Majors, n \in Names \cup {"null"} : unregister_chrdev(m, n)

NetdevNext ==
    \/ \E d \in NetDev, n \in Names, up \in BOOLEAN : register_netdev(d, n, up)
    \/ \E d \in NetDev, n \in Names : loopback_init(d, n)
    \/ \E d \in NetDev : unregister_netdev(d)

SockNext == \E t \in {"stream", "dgram", "raw"} : sys_socket(t)

ShmNext ==
    \/ \E k \in Keys : sys_shmget(k)
    \/ \E p \in ShmProc, i \in DOMAIN segments :
          sys_shmat(p, segments[i].id) \/ sys_shmdt(p, segments[i].id)

(* Registered interfaces have distinct names, so that dev_get_by_name has  *)
(* one answer; an allocated interface is registered or was stranded by a   *)
(* driver that ignored the failure; a major's operations are those of the  *)
(* driver whose name it bears; every socket is behind exactly one          *)
(* descriptor; a key and an identifier name one segment, and a segment     *)
(* that nobody detached without having attached it counts its attachments. *)
TablesExact ==
    /\ \A i, j \in DOMAIN net_devices : netdev[net_devices[i]] = netdev[net_devices[j]] => i = j
    /\ {d \in NetDev : netdev[d] # "free"} = ToSet(net_devices) \cup stranded
    /\ ToSet(net_devices) \cap stranded = {}
    /\ \A m \in Majors : chardev_get_fops(m) \in {"null", chrdevs[m].name}
    /\ \A s \in SockId : (s \in socks) <=> (\E fd \in DOMAIN socket_table : socket_table[fd] = s)
    /\ \A fd, g \in DOMAIN socket_table : socket_table[fd] = socket_table[g] => fd = g \/ socket_table[fd] = 0
    /\ \A i \in DOMAIN segments :
          /\ Len(find_shm(segments[i].id)) = 1 /\ Len(find_shm_key(segments[i].key)) = 1
          /\ \/ segments[i].id \in misdetached
             \/ segments[i].ref_count = Cardinality({a \in attached : a[2] = segments[i].id})
=============================================================================
