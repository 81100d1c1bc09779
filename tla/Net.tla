--------------------------------- MODULE Net ---------------------------------
(***************************************************************************)
(* The network stack between the rings of the e1000 and the protocols: an  *)
(* sk_buff is made, moves through the layers, and is freed or handed to    *)
(* the transmit ring.  Lengths are in small units that keep the order of   *)
(* the headers.  The adapter fills and empties descriptors at any time;    *)
(* the interrupt handler is not interrupted by other code.                 *)
(***************************************************************************)
EXTENDS Integers, FiniteSets

CONSTANTS
    SkbId,              \* sk_buffs the heap has room for
    NUM_TX, NUM_RX,     \* descriptors of each ring
    Frames,             \* frames on the wire: proto, kind, addr, len
    Payloads            \* payload lengths sent

VARIABLES
    skb,                \* the live sk_buffs: offsets data, tail and end from head, and len
    tx_cur, tx_clean, tx_skbs, tx_status, tdh,      \* transmit ring; the tail register is tx_cur
    rx_cur, rx_status, rdh, rdt,                    \* receive ring
    icr, irq,           \* receive cause pending, handler running
    ip_addr,
    leaked              \* history: sk_buffs nobody owns any more

netVars == <<skb, tx_cur, tx_clean, tx_skbs, tx_status, tdh,
             rx_cur, rx_status, rdh, rdt, icr, irq, ip_addr, leaked>>

ETH_HLEN == 2
IPHDR == 3
UDPHDR == 1
ARPHDR == 2

Tx == 0 .. NUM_TX - 1
Rx == 0 .. NUM_RX - 1
NoAddr == "0.0.0.0"

NetInit ==
    /\ skb = <<>>
    /\ tx_cur = 0 /\ tx_clean = 0 /\ tdh = 0
    /\ tx_skbs = [i \in Tx |-> 0] /\ tx_status = [i \in Tx |-> 0]
    /\ rx_cur = 0 /\ rx_status = [i \in Rx |-> <<>>] /\ rdh = 0 /\ rdt = NUM_RX - 1
    /\ icr = FALSE /\ irq = FALSE
    /\ ip_addr = NoAddr /\ leaked = {}

\* The part of the state the layers pass on to each other.
Soft == [skb |-> skb, cur |-> tx_cur, clean |-> tx_clean, skbs |-> tx_skbs,
         status |-> tx_status, ip |-> ip_addr, leaked |-> leaked]

Becomes(S) == /\ skb' = S.skb /\ tx_cur' = S.cur /\ tx_clean' = S.clean /\ tx_skbs' = S.skbs
              /\ tx_status' = S.status /\ ip_addr' = S.ip /\ leaked' = S.leaked

-----------------------------------------------------------------------------
alloc_skb(size) == [data |-> 0, tail |-> 0, end |-> size, len |-> 0]
skb_reserve(b, n) == [b EXCEPT !.data = @ + n, !.tail = @ + n]
skb_put(b, n) == [b EXCEPT !.tail = @ + n, !.len = @ + n]
skb_push(b, n) == [b EXCEPT !.data = @ - n, !.len = @ + n]
skb_pull(b, n) == IF n > b.len THEN b ELSE [b EXCEPT !.data = @ + n, !.len = @ - n]

kfree_skb(S, s) == [S EXCEPT !.skb = [t \in DOMAIN @ \ {s} |-> @[t]]]
Lose(S, s) == [S EXCEPT !.leaked = @ \union {s}]
Fresh(S) == CHOOSE s \in SkbId \ DOMAIN S.skb : \A t \in SkbId \ DOMAIN S.skb : s <= t
With(S, s, b) == [S EXCEPT !.skb = [t \in DOMAIN @ \union {s} |-> IF t = s THEN b ELSE @[t]]]

\* The descriptors from tx_clean on that are done, up to the first that is not.
Reclaimed(S) ==
    {i \in Tx : LET n == (i - S.clean) % NUM_TX
                IN  /\ n < (S.cur - S.clean) % NUM_TX
                    /\ \A j \in 0 .. n : S.status[(S.clean + j) % NUM_TX] = 1}

\* e1000_clean_tx
e1000_clean_tx(S) ==
    LET done == Reclaimed(S)
        gone == {S.skbs[i] : i \in done}
    IN  [S EXCEPT !.skb = [t \in DOMAIN @ \ gone |-> @[t]],
                  !.skbs = [i \in Tx |-> IF i \in done THEN 0 ELSE @[i]],
                  !.status = [i \in Tx |-> IF i \in done THEN 0 ELSE @[i]],
                  !.clean = (@ + Cardinality(done)) % NUM_TX]

\* Faulty variant: the last free descriptor is used as well.
e1000_start_xmit_Full(S, s) ==
    LET C == e1000_clean_tx(S)
    IN  [C EXCEPT !.skbs[C.cur] = s, !.status[C.cur] = 0, !.cur = (C.cur + 1) % NUM_TX]

\* e1000_start_xmit: with the ring full it returns -1 and no caller frees the
\* sk_buff.
e1000_start_xmit(S, s) ==
    LET C    == e1000_clean_tx(S)
        next == (C.cur + 1) % NUM_TX
    IN  IF next = C.clean THEN Lose(C, s)
        ELSE [C EXCEPT !.skbs[C.cur] = s, !.status[C.cur] = 0, !.cur = next]

-----------------------------------------------------------------------------
\* The receive handlers.  Each frees the sk_buff or sends it back, with two
\* ways of losing it: a full ring, and a datagram for the DHCP client.
arp_rcv(S, s, f) ==
    IF S.skb[s].len < ARPHDR \/ f.kind # "request" \/ f.addr # S.ip THEN kfree_skb(S, s)
    ELSE e1000_start_xmit(S, s)

icmp_rcv(S, s, f) == IF f.kind = "echo" THEN e1000_start_xmit(S, s) ELSE kfree_skb(S, s)

\* dhcp_input: an offer or an acknowledgement sets the address.
dhcp_input(S, s, f) == Lose([S EXCEPT !.ip = IF f.addr = NoAddr THEN @ ELSE f.addr], s)

udp_rcv(S, s, f) == IF S.skb[s].len >= IPHDR + UDPHDR /\ f.kind = "dhcp" THEN dhcp_input(S, s, f)
                    ELSE kfree_skb(S, s)

tcp_rcv(S, s, f) == kfree_skb(S, s)

ip_rcv(S, s, f) ==
    CASE S.skb[s].len >= IPHDR /\ f.kind \in {"echo", "icmp"} -> icmp_rcv(S, s, f)
      [] S.skb[s].len >= IPHDR /\ f.kind \in {"dhcp", "udp"}  -> udp_rcv(S, s, f)
      [] S.skb[s].len >= IPHDR /\ f.kind = "tcp"              -> tcp_rcv(S, s, f)
      [] OTHER                                                -> kfree_skb(S, s)

\* netif_rx: the first packet_type that matches, or nobody.
netif_rx(S, s, f) == CASE f.proto = "arp" -> arp_rcv(S, s, f)
                       [] f.proto = "ip"  -> ip_rcv(S, s, f)
                       [] OTHER           -> kfree_skb(S, s)

\* eth_type_trans uses the result of its pull unchecked; a frame on the wire is
\* never shorter than the header it pulls.
eth_type_trans(S, s) == [S EXCEPT !.skb[s] = skb_pull(@, ETH_HLEN)]

loopback_xmit(S, s, f) == netif_rx(eth_type_trans(S, s), s, f)

-----------------------------------------------------------------------------
\* The adapter: a frame arrives in the next descriptor it owns, a descriptor
\* is sent.
HwReceive(f) ==
    /\ rdh # rdt
    /\ rx_status' = [rx_status EXCEPT ![rdh] = <<f>>] /\ rdh' = (rdh + 1) % NUM_RX /\ icr' = TRUE
    /\ UNCHANGED <<skb, tx_cur, tx_clean, tx_skbs, tx_status, tdh, rx_cur, rdt, irq, ip_addr, leaked>>

HwSend ==
    /\ tdh # tx_cur
    /\ tx_status' = [tx_status EXCEPT ![tdh] = 1] /\ tdh' = (tdh + 1) % NUM_TX
    /\ UNCHANGED <<skb, tx_cur, tx_clean, tx_skbs, rx_cur, rx_status, rdh, rdt, icr, irq, ip_addr, leaked>>

\* e1000_irq_handler: reading ICR clears it, before the ring is looked at; it
\* returns when e1000_handle_receive finds the next descriptor empty.
e1000_irq_handler ==
    /\ \/ ~irq /\ icr /\ irq' = TRUE /\ icr' = FALSE
       \/ irq /\ rx_status[rx_cur] = <<>> /\ irq' = FALSE /\ UNCHANGED icr
    /\ UNCHANGED <<skb, tx_cur, tx_clean, tx_skbs, tx_status, tdh, rx_cur, rx_status, rdh, rdt, ip_addr, leaked>>

\* Faulty variant: the handler returns after one frame.
e1000_handle_receive_Once ==
    /\ irq /\ rx_status[rx_cur] # <<>>
    /\ LET f == rx_status[rx_cur][1]
           b == skb_put(skb_reserve(alloc_skb(f.len + 2), 2), f.len)
           s == Fresh(Soft)
       IN  Becomes(IF DOMAIN skb = SkbId THEN Soft
                   ELSE netif_rx(eth_type_trans(With(Soft, s, b), s), s, f))
    /\ rx_status' = [rx_status EXCEPT ![rx_cur] = <<>>]
    /\ rx_cur' = (rx_cur + 1) % NUM_RX /\ rdt' = rx_cur
    /\ irq' = FALSE /\ UNCHANGED <<tdh, rdh, icr>>

\* e1000_handle_receive, one turn of its loop: copy, deliver, give the
\* descriptor back.  Without memory the frame is dropped.
e1000_handle_receive ==
    /\ irq /\ rx_status[rx_cur] # <<>>
    /\ LET f == rx_status[rx_cur][1]
           b == skb_put(skb_reserve(alloc_skb(f.len + 2), 2), f.len)
           s == Fresh(Soft)
       IN  Becomes(IF DOMAIN skb = SkbId THEN Soft
                   ELSE netif_rx(eth_type_trans(With(Soft, s, b), s), s, f))
    /\ rx_status' = [rx_status EXCEPT ![rx_cur] = <<>>]
    /\ rx_cur' = (rx_cur + 1) % NUM_RX /\ rdt' = rx_cur
    /\ UNCHANGED <<tdh, rdh, icr, irq>>

\* ip_send_packet and dev_queue_xmit: the headers in front, then the driver.
ip_send_packet(S, s, dev, f) ==
    LET P == [S EXCEPT !.skb[s] = skb_push(skb_push(@, IPHDR), ETH_HLEN)]
    IN  IF dev = "lo" THEN loopback_xmit(P, s, f) ELSE e1000_start_xmit(P, s)

\* udp_send_packet from a process, on the adapter or the loopback device.
udp_send_packet(dev, n, kind) ==
    LET s == Fresh(Soft)
        b == skb_push(skb_put(skb_reserve(alloc_skb(n + UDPHDR + IPHDR + ETH_HLEN + 2),
                                          ETH_HLEN + IPHDR + UDPHDR), n), UDPHDR)
        f == [proto |-> "ip", kind |-> kind, addr |-> NoAddr, len |-> b.len]
    IN  /\ ~irq /\ DOMAIN skb # SkbId
        /\ Becomes(ip_send_packet(With(Soft, s, b), s, dev, f))
        /\ UNCHANGED <<tdh, rx_cur, rx_status, rdh, rdt, icr, irq>>

NetNext ==
    \/ \E f \in Frames : HwReceive(f)
    \/ HwSend
    \/ e1000_irq_handler \/ e1000_handle_receive
    \/ \E dev \in {"eth0", "lo"}, n \in Payloads, kind \in {"udp", "dhcp"} : udp_send_packet(dev, n, kind)

-----------------------------------------------------------------------------
InRing == {i \in Tx : (i - tx_clean) % NUM_TX < (tx_cur - tx_clean) % NUM_TX}

\* Every live sk_buff has one owner, the transmit ring, or was lost in one of
\* the two known ways.  The descriptors between tx_clean and tx_cur hold
\* distinct live sk_buffs, so none is freed twice and the adapter never sends
\* freed memory.  And however the headers were pulled and pushed, the data lies
\* within the buffer and len is its length.
SkbOwned ==
    /\ \A i \in Tx : IF i \in InRing THEN tx_skbs[i] \in DOMAIN skb ELSE tx_skbs[i] = 0
    /\ \A i, j \in InRing : i # j => tx_skbs[i] # tx_skbs[j]
    /\ (tdh - tx_clean) % NUM_TX <= (tx_cur - tx_clean) % NUM_TX
    /\ DOMAIN skb = leaked \union {tx_skbs[i] : i \in InRing}
    /\ \A s \in DOMAIN skb : /\ 0 <= skb[s].data /\ skb[s].data <= skb[s].tail /\ skb[s].tail <= skb[s].end
                             /\ skb[s].len = skb[s].tail - skb[s].data

\* The frames received lie between rx_cur and the adapter's head, so none is
\* overwritten or taken out of turn, and when the handler has returned and no
\* cause is pending none is left in the ring: a frame that comes while the
\* handler is leaving its loop raises the cause again.
RxRing ==
    /\ \A i \in Rx : rx_status[i] # <<>> <=> (i - rx_cur) % NUM_RX < (rdh - rx_cur) % NUM_RX
    /\ ~irq /\ ~icr => \A i \in Rx : rx_status[i] = <<>>
=============================================================================
