------------------------------- MODULE MCNet --------------------------------
(* One frame of each kind the stack tells apart, and one too short for its
   protocol. *)
EXTENDS Net

Frame(proto, kind, addr, len) == [proto |-> proto, kind |-> kind, addr |-> addr, len |-> len]

MCFrames == {Frame("arp", "request", "10.0.0.1", 5), Frame("arp", "request", "10.0.0.1", 3),
             Frame("arp", "reply", "10.0.0.1", 5), Frame("ip", "echo", NoAddr, 7),
             Frame("ip", "icmp", NoAddr, 7), Frame("ip", "dhcp", "10.0.0.1", 7),
             Frame("ip", "dhcp", NoAddr, 5), Frame("ip", "tcp", NoAddr, 7),
             Frame("ipv6", "other", NoAddr, 7)}

NetSpec == NetInit /\ [][NetNext]_netVars
=============================================================================
