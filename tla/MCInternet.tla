------------------------------- MODULE MCInternet -------------------------------
(* The loads of a host's network layers, one at a time.                       *)
(* SafetyLoads, seven ways to load the IP layer: output that waits for ARP,   *)
(* with more hosts than entries; fragments that overlap, repeat and are too   *)
(* many; a datagram that is too long; fragments of more datagrams than there  *)
(* are queues; fragments that time out; both input queues filling up, with a  *)
(* process that sends; replies and ICMP errors.  RaceLoads: two processes     *)
(* that send when the queue is full.  TcpWorkloads: two hosts, a client "c"    *)
(* and a server "s", and the ways to use TCP in which its properties hold.    *)
(* In ReuseLoads a client opens a second connection after it has closed one,  *)
(* and a segment may be late or repeated.                                     *)
EXTENDS Internet

MCBuf == 1 .. 4
MCLength == [d \in Datagrams |-> IF d = 2 THEN 5 ELSE 3]

Load(bufs, sent, arrive, arp, senders, ticks) ==
    [bufs |-> bufs, sent |-> sent, arrive |-> arrive, arp |-> arp,
     senders |-> senders, timers |-> ticks]

To(h) == [Blank EXCEPT !.to = h]
Kind(k, prec) == [Blank EXCEPT !.kind = k, !.prec = prec]
Fragment(id, off, len, mf) ==
    [Blank EXCEPT !.kind = "frag", !.id = id, !.off = off, !.len = len, !.mf = mf]

SafetyLoads ==
    {Load(1 .. 3, {To("h1")}, {}, {"h1", "h2", "h3"}, {"a"}, TRUE),
     Load(MCBuf, {}, {Fragment(1, 0, 1, TRUE), Fragment(1, 0, 2, TRUE), Fragment(1, 1, 2, FALSE),
                      Fragment(1, 2, 1, FALSE)}, {}, {}, FALSE),
     Load(MCBuf, {}, {Fragment(2, 0, 3, TRUE), Fragment(2, 3, 1, TRUE)}, {}, {}, FALSE),
     Load(MCBuf, {}, {Fragment(d, 0, 4, TRUE) : d \in Datagrams}, {}, {}, FALSE),
     Load(1 .. 3, {}, {Fragment(1, 0, 1, TRUE)}, {}, {}, TRUE),
     Load(MCBuf, {Blank}, {Kind("data", 0), Kind("bad", 1)}, {}, {"a"}, FALSE),
     Load(MCBuf, {}, {Kind("echo", 0), Kind("error", 0)}, {}, {}, FALSE)}

RaceLoads == {Load(MCBuf, {Blank}, {}, {}, {"a", "b"}, FALSE)}

Both(client, server) == [h \in Host |-> IF h = "c" THEN client ELSE server]
MCNtcp == Both(2, 3)
ReuseNtcp == Both(1, 3)

(* One connection: what each end writes, who closes, how many faults. *)
Connection(client, server, closing, n) ==
    [listen |-> {"s"}, lqsize |-> 1, opens |-> Both(1, 1), bytes |-> Both(client, server),
     closing |-> closing, patient |-> {"s"}, chunk |-> 1, unlisten |-> {}, opts |-> {},
     races |-> FALSE, faults |-> n]
Everybody == {"c", "s"}

TcpWorkloads ==
    {Connection(2, 0, Everybody, 0),
     Connection(0, 1, Everybody, 0),
     Connection(1, 0, {}, 1),
     Connection(0, 0, Everybody, 1),
     [Connection(0, 1, Everybody, 0) EXCEPT !.patient = {"c"}],
     [Connection(4, 0, {}, 0) EXCEPT !.chunk = 2],
     [Connection(2, 0, {}, 0) EXCEPT !.opts = {"DELACK"}],
     [Connection(0, 0, Everybody, 0) EXCEPT !.races = TRUE],
     [Connection(1, 0, {}, 0) EXCEPT !.races = TRUE],
     [Connection(0, 0, Everybody, 0) EXCEPT !.listen = {}],
     [Connection(1, 0, {"s"}, 0) EXCEPT !.unlisten = {"s"}, !.opens = Both(1, 2)],
     [Connection(0, 0, {}, 0) EXCEPT !.opens = Both(2, 2)],
     [Connection(0, 0, {}, 0) EXCEPT !.opens = Both(2, 1)],
     [Connection(4, 0, {"c"}, 0) EXCEPT !.chunk = 2, !.lqsize = 0]}

ReuseLoads ==
    {[Connection(0, 0, Everybody, 1) EXCEPT !.opens = Both(2, 2)]}

InternetLoads == SafetyLoads \union {NoTraffic}
InternetTcpLoads == TcpWorkloads \union {NoTcp}

InternetRaceLoads == RaceLoads \union {NoTraffic}
NoTcpLoads == {NoTcp}

InternetReuseLoads == ReuseLoads \union {NoTcp}
QuietLoads == {NoTraffic}
===============================================================================
