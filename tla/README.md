# Xinu in TLA+

Specifications of the Xinu system in this repository (`xinu/`, the Sun 3/50 and
MIO boards): its kernel, its network and its printer services; TLC models that
check them on small instances; and TLAPS proofs. The source is the reference:
every definition is translated from the code, and `PROJECT.json` ("map") gives
the lines each one stands for.

## The system

Xinu is one address space with a fixed table of processes. Processes call the
kernel by ordinary function calls that run with interrupts disabled; the
processor changes hands only where a call reaches `resched()`. Everything else
is built on that: semaphores and one-slot messages, then memory, buffer pools
and ports, then device drivers, the network and the applications.

| component | state | operations | hard behaviour | what makes it correct |
|---|---|---|---|---|
| process manager (`create kill suspend resume chprio setnok ready resched`) | `proctab`, the lists in `q[]`, `currpid`, `numproc`, `nextproc`, `preempt` | calls, preemption from the clock | `kill` runs its next of kin in the middle; a list is found from a state that must be current | a process is on exactly the list its state names; the highest priority runs; round robin reaches everybody |
| semaphores (`screate sdelete wait signal signaln sreset`) | `semaph`, queues, `nextsem` | calls, also from interrupt handlers | waiters are killed; semaphores are deleted and reset under them | count -n means n waiters |
| messages (`send sendf receive recvclr recvtim`) | `pmsg`, `phasmsg` | calls | message, timeout and kill race | an accepted message stays until it is taken; nobody is blocked with one waiting |
| clock (`clkint wakeup sleep10 insertd unsleep stopclk strtclk`) | the delta list `clockq`, `slnempty`, `sltop`, deferred ticks | interrupts, timed waits | the handler reads a pointer into a list that calls edit | no early wake-up, every wait ends |
| memory (`getmem freemem getstk freestk`) | list of free blocks | calls | frees that overlap or are repeated | no byte lost or given out twice |
| buffer pools (`mkpool getbuf freebuf`) | `bptab`, a word in each buffer | calls | several processes between the semaphore and the list | a buffer is in one place |
| ports (`pcreate psend preceive preset pdelete`) | `ports`, list of nodes | calls, `_ptclear` with a dispose function | a port is cleared, deleted, re-created while others wait | bounded FIFO mailbox, nodes conserved |
| terminal driver (`ttyiin ttyoin ttyread ttyputc ttygetc ttycntl`) | input, output and echo rings, modes | interrupts against calls | editing, flow control, delayed sends, full rings | input intact, semaphores agree with rings, writers released |
| queues (`enq deq newq freeq`) | `Q[]` | calls, also from interrupts | `enq` checks the count before its mutex | never beyond its size; ordered by key |
| ARP cache (`arpfind arpalloc arp_in netwrite arptimer`) | `arptable`, a queue per entry | output, Ethernet interrupt, slow timer | eviction with packets waiting, retries, expiry | no packet lost or freed twice |
| IP input and reassembly (`ip_in ipgetp ipproc ipsend ipreass ipftimer`) | input queues, `ifnext`, `ipfqt` | interrupt, IP process, slow timer | a packet and its message against a process about to wait; fragments in any order | no sleep on a packet; what is put together is what was sent |
| ICMP | none | calls from the IP process and the timer | which messages may be answered, in whose buffer | buffers conserved |
| TCP (`tcp_*.c`, `tcpd_*.c`) | `tcbtab`, timer events, send and receive buffers, the queue of a listener | input, output and timer process, device calls | eleven states, retransmission, windows, timers against input, loss and repetition | each direction a FIFO of bytes; both ends agree; nothing stops half-way |
| routing table and RIP (`rt_*.c`, `rip_*.c`) | `rttable`, reference counts, the pool of routes | lookups, updates, ageing, redirects | a route is replaced or freed while in use; lost updates, failing gateways | every use counted; the tables converge |
| UDP and datagram devices (`udp_*.c`, `dg_*.c`) | `upqs`, `dgtab`, one message per reader | delivery, timed reads | a datagram against a read that times out; two processes choose a port | a query ends; an answer belongs to its query |
| SNMP agent and client (`snmp/*.c`, `x_snmp.c`) | the list of variables, five tables read through it | GET, GETNEXT, SET, walks | rows come and go between the queries of a walk | no variable that stays is passed over; the codec reads what it writes |
| print spooler and LPD (`spooler.c`, `despool.c`, `lpd.c`) | jobs and data nodes on linked lists, slots of the daemon | connect, write, disconnect, remove, despool | jobs are linked outside of the semaphores; removed under their writers; nodes run out | a node is in one place; jobs are printed whole and in order |
| TFTP server, test page | a transfer, a button | datagrams, timeouts | repeated blocks, lost acknowledgements, netascii across blocks | what is spooled is the file |
| printer mailbox (`sys/miombc`) | shared memory, two mailboxes, the mail list, packet pools | interrupts, the MBC process, the despooler | four places say what is to be done, changed by interrupt and process | no packet lost; buffers in order |
| Ethernet driver, shell, remote login, C library, boot and simulator | | | | not modelled |

How they meet: every component above the kernel uses semaphores, messages and
buffer pools; the IP process is woken by a message from the Ethernet interrupt,
TCP and UDP get their packets from it through ports; RIP, TFTP and SNMP use
datagram devices, LPD uses TCP devices; LPD, TFTP and the test page write to the
spooler, whose despooler hands buffers to the MBC process.

`PROJECT.json` lists all components with their files and, under "hazards", what
is hard to test in them and which property covers it.

## Modules

| module | models | extends |
|---|---|---|
| `Kernel` | process manager, scheduler, semaphores, messages, clock | |
| `Heap`, `Memory` | what the memory calls promise; `getmem getstk freemem freestk` | `Memory` has an instance of `Heap` |
| `Semaphores` | the semaphore calls, for modules about processes that use them | |
| `Pools`, `Ports`, `Mailbox` | buffer pools; ports; what a port promises | `Semaphores` |
| `Messaging` | pools and ports together, with kills | `Pools`, `Ports`, instance of `Mailbox` |
| `Tty` | the terminal driver | `Semaphores` |
| `NetBufs` | packet buffers and `enq` | |
| `Arp`, `Frag` | the ARP cache; IP reassembly | `NetBufs` |
| `Network` | the IP layer of a host around them | `Arp`, `Frag` |
| `Tcb`, `Tcp`, `Stream` | a connection's block and the functions on it; the processes and the network of two hosts; what a direction promises | instance of `Stream` |
| `Internet` | IP layer and TCP | `Network`, `Tcp` |
| `Spool`, `Spooler`, `PrintQueue` | jobs and nodes; the calls and the despooler; what the spooler promises | |
| `Lpd`, `Tftpd`, `Printing` | the line printer daemon; the TFTP server; both with the test page | `Spooler`, instance of `PrintQueue` |
| `Services` | memory and printing | `Memory`, `Printing` |
| `Mbc` | the mailbox between board and printer | |
| `Routing` | routing tables, RIP and redirects of a few machines | |
| `Asn1`, `Mib`, `Datagrams`, `Snmp` | the codec; the variables; UDP and datagram devices; agent and client | |
| `Management` | routing and SNMP | `Routing`, `Snmp` |
| `MC*` | workloads and small constants for TLC | the module they instantiate |
| `KernelProofs`, `MemoryProofs`, `SemaphoreLemmas`, `MessagingProofs`, `TtyProofs`, `NetworkProofs`, `RoutingProofs`, `MbcProofs` | the theorems and what they rest on | the module they are about |

A *workload* (a variable chosen in `Init` and constant from then on) is the set
of calls, arguments and events one group of behaviours needs. A run checks
several workloads at once; each action and each property is exercised by at
least one of them, and none needs the product of all of them. `Services`,
`Internet` and `Management` put components into one state space that do not act on each
other while one of them is at work; a workload then belongs to one of them.

### Kernel

`pstate pprio psem pmsg phasmsg pnxtkin` are the fields of `proctab`;
`rdy`, `clockq` and `squeue[s]` are the lists threaded through `q[]`, and `qkey`
its keys; `currpid nextproc numproc preempt defclk clkdiff slnempty sltop` are
the globals of those names. `resched`, `ready`, `insert`, `dequeue` are operators on a
record of the scheduling variables, so that an action can call them several
times, as the code does.

A call runs with interrupts disabled and is one action. Where it loops
(`insertd`, `signaln`, `sdelete`, `sreset`, `wakeup`, the make-up ticks of
`strtclk`) or calls `resched()` before its end (`kill`, `receive`, `recvtim`, the
clock handler, `strtclk`), the rest is the continuation `cont[p]`, and the steps of it are
actions. Only the current process takes steps. That is exactly the concurrency
of the code: what can happen between two steps is what `resched` lets in.

The two clock handlers differ: the Sun 3/50's wakes the first sleeper when its
key becomes negative, and preempts when the counter does; the MIO's tests for
zero in both. `load.board` says which one runs. So on the MIO `recvtim(0)` never
times out: its key goes from 0 to -1. `due` is a history variable: how many
ticks a timed waiter is still owed.

Bounds: semaphore counts up to `MaxCount`, deferred ticks up to `MaxDefer`, an
abstract phase of the divider `PHMOD`; one stack size, `stkfree` counts them.
Device closing in `kill` and the stack contents are left out.

### Heap and Memory

`Memory` keeps `memlist` as the set of its blocks, since `freemem` keeps the
list in address order. `Heap` knows only which extents are in use, and says that
a request is refused only when no run of free bytes is long enough. The
refinement (`ImplementsHeap`) maps the list to its complement: it fails as soon
as two neighbouring free blocks are not joined, a block is cut wrongly, or a
double free is accepted.

The first block is as long as the distance between `end` and `maxaddr`, in whole words
(`initialize.c:176-177`), so `MEMSIZE` is any multiple of 4. What is given out is a multiple
of 8, and `getmem` may leave a block of 4 bytes, whose header it writes over what
follows (`getmem.c:38`). `HeadersFit` says that there is no such block; a behaviour
that makes one ends there, since the owner of that word decides what comes next.
`freeTooMuch` frees a block with a size that reaches into a free one; a wrong size
that reaches into a block in use cannot be told from a right one by the code, and is not modelled.

### Semaphores, Pools, Ports, Mailbox, Messaging

Here a process that is not blocked may take its next step at any time; this
covers every order priorities and the clock can produce, so nothing shown
depends on priorities. `getbuf` and `freebuf` are split between the semaphore,
the list and the word in front of the buffer, as the code is; the port calls,
which run with interrupts disabled, are split at `wait` and at the reschedules
inside `_ptclear`. The word of a buffer is one variable with two meanings, as in
the code. `Messaging` passes buffers through ports and disposes of them with
`freebuf`, the way datagram devices do; `kill` may take any process at any point
where it has lost the processor. A pool for which `screate` had no semaphore left never waits;
once it is empty the code follows the null link, and the guard of `getbufUnlink` ends the model
there. A pool with a semaphore needs no guard (lemma `PromisedBuffer` of `MessagingProofs`).

`Mailbox` is a bounded FIFO per port that throws its content away when it is
closed. The mapping (`ImplementsMailbox`) reads the queue of nodes of a port in
state `PTALLOC`, and nothing of one in limbo.

### Tty

Interrupt handlers and calls run with interrupts disabled, so each is one action
up to the point where it blocks. The rings have their full size with
the code's head, tail and count, so wrap, overwriting and the difference between
`icnt` and what is stored are in the model. A character is a member of a small
set: ordinary, and one for each special character. `unread` is a history variable
of what the reader should see, `out.unsent` of what the line has still to get.
`CharactersAccounted` is `InputIntact` (the ring holds what was typed), `InputSemaphore` and
`OutputAccounting` (the semaphores agree with the rings) together.

The transmitter looks at the semaphore only (`tty_oin.c:36`). When a writer was let through
(`Admitted`) and is not yet dispatched, it may send a place that nobody has filled: `out.unsent` becomes
negative. `Prompt` keeps such a step out of the workloads that are not `late`;
in the late one `OutputAccounting` says that no more is sent ahead than those writers
are about to store.

### NetBufs, Arp, Frag, Network

A packet buffer is a number; `pkt` says what it holds and `pool` which are free.
`ip_in` and `arp_in` run in the Ethernet interrupt and are one action each.
`ipsend` is split where the code is exposed: `enq` looks at the count before it
disables interrupts, and the message to the IP process follows later. `ipproc`
steps through `ipgetp` one interface at a time. `ipftimer` holds `ipfmutex`
from the first queue to the last, also while it sends ICMP messages, and
`input` waits for it. Offsets are in units of 8 bytes and unit i holds the value i,
so `Assembled`, the copy loop of `ipfcons` with its computed offsets, can be
compared with the original. A workload's `bufs` are the buffers that other users
of the pool do not hold.

Bounds: the host is not a gateway (`net_start.c:52`); ARP requests take no
buffer from the model's pool; the driver takes every packet; packets are not
above the MTU; the slow timer runs once a second (`delay` = 1); redirects,
directed broadcasts and IP options are left out. A datagram put together moves to
a buffer of the large pool, which is not counted.

### Tcb, Tcp, Stream

`Tcb` holds the functions that work on a control block: a context record (block,
queues, timers, output) goes in and comes out, as each of them is called with
`tcb_mutex` held. `Tcp` has the processes: what is done without the mutex - the
table lookup of the input process, the wait for a semaphore, the kick at the end
of a write, the end of an open and a close - is a step of its own. The timer process looks at the messages at the port of the output process and then
sends (`tcp_timer.c:45-46`); when the port has filled up it waits there and keeps `tqmutex`, and nobody else
sets or clears a timer (`TimersFree`). Segments are a
set, so they are reordered freely; `faults` lets some be lost, repeated, or a
timer expire while segments are under way. `Stream` says that a direction is a
FIFO of bytes with an end. Left out: urgent data, the PUSH flag, options, the
wrap of sequence numbers, lengths of timers (a timer that is set may expire at
any time). User calls come when the TCP processes of both hosts are idle, except
in the workloads with `races`.

### Spool, Spooler, PrintQueue, Lpd, Tftpd, Printing

Lists of jobs and nodes are linked through the records as in the code
(`qj_flink`, `qj_blink`, `link`, `iptr`, `fillp`, `emptyp`), and node 0 is the null pointer, so a
pointer followed too far is seen. What `spool_connect`, `spool_write`,
`getdnode` and `lprm` do under one semaphore is a step; what they do outside of
it is another. `preempt` lets the clock switch between clients and despooler in
between, but, unless the load says `crowd`, not to a client that connects while
another has its job on the list without its first values (see below). `PrintQueue` is a FIFO of jobs, each a sequence of bytes that is open or
closed; paper is what has left it. `tight = FALSE` keeps the despooler from
following a link that the writer has not yet written (see below).

### Mbc

The board's side is the interrupt handler, the MBC process and
`backend_write`; the printer is external and does what the driver expects of it.
`Layouts` computes the negotiation of packets from the sizes of shared memory,
as `mbc_start.c` does. `MayInterrupt` keeps the interrupt out of one window of
`DeliverPacket` (see below) except in `RaceLoads`.

### Routing, Asn1, Mib, Datagrams, Snmp

Each operation on the routing table is a step, for it holds `ri_mutex`; the
rip process, the slow timer and the IP process interleave between them. So a redirect
is four steps, `IcGet`, `IcDelete`, `IcAdd` (which may wait for a buffer) and
`IcFree`. An update carries no masks, and an address in it gets the mask of its network
(`RipDst`); a redirect for the default route is one for the network of the packet. Time is
counted in periods of the regular updates. `load.timely` says that what was sent in a
period is taken in before the next. In `Datagrams` a read is
split at each point where a datagram may come. The agent ends (`Gone`) with an answer that is too big, and with an answer, also of an error, for which there is no route. `Mib` has a leaf or two of
every group and a column of each kind; object identifiers are sequences of small
numbers. `Asn1` has octets of `CHAR_BITS` bits.

## Runs

| run | instance | states | what it shows |
|---|---|---|---|
| `kernel_safety` | 4 processes, 2 semaphores, 8 workloads | 878,540 | lists, states, counts, priorities, clock view, deadlines, process counts and messages stay consistent |
| `kernel_live` | 4 processes, quantum 1, both boards | | round robin reaches every ready process; every timed wait of at least a tick ends |
| `kernel_kill_race` | next of kin, expected violation | | `kill` lets the next of kin run before the victim is gone; `numproc` no longer counts processes |
| `messaging` | 3 processes, 2 pools, 2 ports, symmetric, 5 workloads | 271,915 | buffers and nodes conserved, semaphores agree with lists, `Mailbox` is implemented |
| `tty` | rings of 4, 5 and 3, one reader or two writers, 5 workloads | | input intact, semaphores agree with rings, a blocked writer gets to write |
| `tty_overrun` | full input ring, expected violation | | the end of a line overwrites unread input |
| `network` | 4 buffers, 3 hosts, 2 ARP entries, 3 reassembly queues in 7 workloads; two TCP hosts in 14 | 177,139 | buffers in one place, no lost wake-up, exact reassembly; TCP's ends agree, nothing stalls, `Stream` is implemented |
| `network_enq` | 2 senders, expected violation | | a packet both queued and freed |
| `tcp_delete` | a block used twice, expected violation | | a DELETE timer outlives its connection and deletes the next |
| `services` | 6 units of memory and a word; or 3 nodes, 2 jobs, 26 ways to print | | memory is tiled and `Heap` implemented; spooler lists whole, `PrintQueue` implemented, files spooled as sent, everything printed |
| `mbc` | 2 or 3 READ packets, one WRITE, 4 workloads | | packets conserved and returned, buffers printed in order |
| `management` | up to 3 machines and 3 networks; agent and client | 143,378 | routes counted, tables converge; walks exact, queries end, codec inverse |

Why these bounds are enough. Four processes are the null process, a current one
and two that can race on a list or queue behind one another; the same workload
holds the longest chain any call touches (killer, victim, next of kin). Delta
lists of up to three entries have a first, a middle and a last one to take out.
Six units of memory hold two blocks with free space before, between and after
them; with a word more (`MEMSIZE` = 52) blocks of 4 bytes can be left. Two ports of capacity 1 and 2 see a full port, a waiting sender and a
waiting receiver; three processes can wait, close and re-create. Rings of 4, 5 and 3
places wrap within a line, and `OBUFLEN` = 5 with `OBMINSP` = 2 passes the threshold
of delayed sends in both directions; two writers can both be late. Three queues of three fragments can
overflow, run out, hold an overlap of three fragments and expire; two ARP
entries for three hosts force evictions. TCP buffers of three bytes and segments
of one fill and close the window and leave segments out of order; five segments
under way at once cover a window, its acknowledgements and a FIN from each end.
Three nodes for two jobs run out while both are being written; a job is removed while its writer waits
for one, and with preemption the LPD client, the test page and the despooler interleave. A mail list of 9
is longer than the packets negotiated, as the code assumes; `INTERRUPTS_AHEAD` = 3
covers every batch MBC can find. Metrics up to 4 let a route count to infinity
in a line of three gateways. Octets of 3 bits reach every length of an integer,
length or identifier at a small size. In all models the programs of the
processes are arbitrary sequences of the calls in the workload, or, for the
printer services, scripts that cover each command.

`CHECK_DEADLOCK FALSE` stands where the system can stop: all processes blocked
with only the null process left (`kernel_safety`), all of them killed or
waiting (`messaging`), a typist who stops (`tty`), all buffers lost to received
ICMP errors, queued for good without a timer, or all connections used up (`network`), everything printed
(`services`), nothing left to ask or route (`mbc`, `management`).

## Fairness

* `Kernel!FairSpec`: kernel code that has begun runs on (weak fairness of the
  steps of continuations), and the clock, a device that interrupts 100 times a
  second whatever the software does, finds interrupts enabled infinitely often
  and then infinitely often gets in (strong fairness of `tick`). No process is
  assumed to make any call.
* `Tty!FairSpec`: the transmitter interrupts again after each character (weak);
  the echo ring is empty again and again, because the line is faster than the typist, and output
  then gets its turn (strong); a writer that was let through is dispatched.
  Nobody is assumed to type, read or write.
* `InternetSpec`: the slow timer goes on (weak): it has a high priority and
  the clock wakes it (`Kernel!TimedWaitEnds`). Nothing is assumed of arrivals.
  TCP's properties need no fairness: `NobodyStalls` speaks of states in which
  nothing is on its way.
* `PrintingFairness`: despooler, TFTP server, test page and the slots of LPD run again
  and again (strong: they have the same priority, 35, and round robin reaches them,
  `Kernel!ReadyEventuallyRuns`), but only in the workloads (`drains`) in which the clients
  finish what they have begun.
* `MbcFairness`: MBC, the despooler and the interrupts get their turn, and the
  printer takes its mail, answers, and returns READ packets.
* `RoutingFairness`: the machines' processes go on and time passes (weak).
  `SnmpFairness`: the two systems go on (weak); no datagram is assumed to
  arrive, for the client gives up after two timeouts.

## Proofs

What the modules prove, for every value of the constants that satisfies the
assumptions stated with them (numbers of processes, semaphores, ports, buffers,
entries and hosts, sizes, bounds, and every set of workloads):

| module | theorem | says |
|---|---|---|
| `KernelProofs` | `Invariance` | the inductive invariant `IInv` |
| | `TypeCorrectness` | `TypeOK` |
| | `ListIntegrity` | `ListsMatchStates`: every process is on the list its state names, once |
| | `NullEligibility` | `NullAlwaysEligible`: `resched` never finds the ready list empty |
| | `SemaphoreCounts` | `SemCountMatchesQueue` |
| | `PriorityScheduling` | `HighestPriorityRuns` |
| | `ClockHandlerSafe` | `ClockHandlerView` |
| | `StateDiagram` | every step takes every process along an edge of the state diagram |
| | `NoMessageWhileBlocked` | `BlockedMeansNoMessage` |
| | `MessagesStay` | `MessageKept` (action property) |
| | `RoundRobinArmed` | `PreemptionArmed` |
| | `DeathsCounted` | `DeathAccounted` |
| | `DelaysLast` | `NoEarlyWakeup` (action property) |
| | `DeltaKeysExact` | `DeltaListExact` |
| `MemoryProofs` | `MemoryInvariance`, `MemoryIsPartitioned` | `MemoryPartitioned` |
| | `HeadersStayInside` | `HeadersFit`, if `MEMSIZE` is a multiple of 8 |
| | `MemoryImplementsHeap` | the refinement `ImplementsHeap` |
| `MessagingProofs` | `MessagingInvariance` | the inductive invariant of ports, pools and semaphores |
| | `PoolsAreAccounted`, `PortsAreAccounted` | `PoolsAccounted`, `PortsAccounted` |
| | `PortsImplementMailbox` | the refinement `ImplementsMailbox` |
| `TtyProofs` | `TtyAccounts` | `CharactersAccounted` |
| `NetworkProofs` | `PacketsKept`, `PacketsKeptAlone` | `PacketInOnePlace` |
| | `DatagramsRebuilt`, `DatagramsRebuiltAlone` | `ReassemblyExact` |
| | `WakeupsKept` | `NoLostWakeup` |
| `RoutingProofs` | `RoutesAreCounted` | `RoutesCounted` |
| `MbcProofs` | `BuffersInOrder` | `PrintedInOrder` |
| | `MailIsAccounted` | `MailAccounted`, unless the board hangs |

### Kernel

The properties speak of moments when user code runs; calls and loops break them
for a while. `IInv` says what is true in between: which operations may be
suspended (`Parked`: only those that lost the processor in `resched`; a loop never
does before it ends), what a suspended operation remembers (`KillTargets`,
`LoopState`), and during which loops the clock handler's view (`ViewStale`) or
the priority rule (`RankStale`) may be out of date. `Good(Sched)` is list
integrity of the record the scheduling operators work on, with the ready list
sorted; `Running(Sched)` says that one process is current. The
lemmas at the beginning of `KernelProofs` say what inserting into and removing from a sorted or a
delta list keeps; `SchedCall`, `EnterLoop`, `LeaveLoop` and `LoopStep` carry the
invariant through the shapes a call can have; each action has its step lemma,
and `NextKeeps` collects them.

The second half of the module builds on it. `Edge(p)` lists every way a process can change its state and
what makes it do so; messages (`MessageInv`), preemption (`ArmInv`) and deaths
(`DeathInv`) follow by going through the edges. The delta list needs more: its keys
are differences, and their sums are what waits are owed. `Fits(l, key, V)` states
that without a recursive sum, member by member: the wait V of a process is its key more than
that of the one before it. `DelayInv` has a witness for V that is never below
what is owed; `ExactInv`, on the MIO and without waits of zero ticks, says that
what is owed itself fits. `SearchMoves` and `DeltaMoves` say how each step of
`insertd`, `wakeup` and `unsleep` changes keys and witness.

### Memory

Free blocks are whole words and never touch (`Gap`), blocks in use are apart, every byte is covered
by one of them. This holds for every number of words, up to and with a first block of 4 bytes;
`HeadersStayInside` says that none is ever left where `MEMSIZE` is a multiple of 8
(`WholeBlocks`: every free block is one), which the boards do not ensure. `StackAssumption` excludes stack sizes for which `freestk` rounds
differently from `getstk` (`mem.h:23`). Each step of the four calls is then a
step of `Heap` on the extents in use.

### Messaging

`PortsAccounted` and `PoolsAccounted` are far from inductive: a process that `wait` has let
through carries a promise, and whoever clears, deletes or kills in between has to
keep it. `Promise(t, s, K)` is the count of a semaphore plus those of K it has let
through; `SemaphoreLemmas` says how each semaphore call changes it. The invariant
has in addition: every semaphore that anybody still refers to is in use and
has one owner (`OwnUsed`, `OwnApart`), who waits at it came for what it guards
(`WaitInv`), `ptseq` tells a port from what it was when a caller began to wait
(`SeqInv`), one process clears a port (`ClearInv`), and the free list of
a pool as it is threaded through the buffers (a witness, `PoolsInv`; equal to what the
model computes, by the least place where the two would differ). With kills the
promises are only bounded; without them they are exact. The refinement follows: a sender
that was let through finds a promise of at least one, so there is room; the step
into limbo closes the mailbox and the return from it opens it.

### Tty

`TtyAccounts` holds under `Bounded`: at most one reader, and input that is only
stored where there is room (with the overrun, `InputIntact` is false: run `tty_overrun`);
all workloads of run `tty` are of this kind. The number of writers is not limited. Three
parts make the invariant. `Ring` says that the characters between tail and head are `unread`,
position by position, through every wrap; the lemmas on `%` at the beginning give the arithmetic, since
the solver knows nothing of remainders by a variable. `Account(t, s, W)` is the
count of semaphore s plus those of W it has let through but who have not gone on
(the processes at a place, `Wants`); it equals `icnt` for input and, with `odsend`
and `unsent`, `OBUFLEN` for output (`OutOK`); `unsent` is never negative (`Prompt` is needed for that), or, where
writers are late, not below what they are about to store. `PcInv` says where a process can
be, and that nobody but the reader waits for input. A line that ends, a
deletion, a change of mode and the reset each move all three together.

### Network

`PacketInOnePlace` holds exactly as long as `enq` is not raced (see below), so
`PacketsKept` has the absence of that race as its hypothesis: `AloneInEnq`, no two processes
between `gpq.c:46` and the insertion. `PacketsKeptAlone` derives that from the workload: at
most one of the senders, the IP process (if there are echo requests) and the
slow timer (if fragments can expire) puts packets into the local queue; all
workloads of run `network` are of this kind (`EInv`). The invariant says that the
six kinds of places a buffer can be in exclude each other (`Apart`), that
what is free or not pending holds nothing, and what each process has in its
hands. `WakeupsKept` is unconditional: an interface that `ipgetp` found empty
is empty still, or a message is pending, or the process that queued a packet
has yet to send one.

`DatagramsRebuilt` is `ReassemblyExact` under the hypothesis of `PacketsKept` and one on what
arrives (`Genuine`): a fragment without the more-fragments flag ends where its datagram does.
`EndInv` keeps that of every packet, `MemberInv` that the fragments in a
queue are of its datagram. The copy loop of `ipfcons` is a recursive function over the places
of the queue; by induction over the set of places for which the claim holds (`EveryNumber`), what has been
copied up to a place `Reaches` from the beginning to the end of that fragment without a gap, whatever overlaps.

### Routing

Six functions change the count of a route, and a process may hold one while others
delete or replace it in the table. `TableOK(t, B, H)` speaks of one table: its
buffers are B, a linked route is in the bucket of its network (`Placed`) and the default route is
one (`DefaultOK`), the buckets are in order and without repetition (`Sorted`), and the count of each is
the table's reference plus the holders H[b]. Every operation is a chain of small moves, each
with a lemma: somebody takes hold (`HoldKeeps`) or lets go (`FreeKeeps`), a buffer leaves the pool
(`TakeKeeps`), is linked in, exchanged or unlinked (`LinkKeeps`, `SwapKeeps`, `UnlinkKeeps`).
From these follow `AddKeeps`, `DelKeeps`, `TimerKeeps` and `FirstOK`. `HoldOf` reads the holders
off the places of the rip process and the IP process; `RipTyped` and `IpTyped`
say what each has in its hands, and `Reaches` that an update can only come
from a router on a common network, so that a route to its sender exists. What a loop of the code does
to a bucket or a table is a recursive function over places; induction is over the set of
the numbers for which the claim holds (`EveryNumber`). `LoadsAssumption` asks of a
load that the pool has room for the routes a machine starts with, as `RT_BPSIZE` has.

### Mbc

Both theorems assume `Quiet`, that no interrupt comes between the two halves of
`DeliverPacket`; TLC shows with `RaceLoads` that it is needed. All workloads of run `mbc` are of
this kind. They hold for every size of the shared memory, of the
packets and of the list, every negotiation and every number of buffers and resets.
`MInv` says where MBC can be at each stage of the negotiation
(`StageInv`), what it has in its hands (`HandInv`), and that `MIO_Mail` and the counts agree with the
lists (`ListInv`); `BuffersInOrder` follows, since a
buffer is posted only by a despooler that found the mailbox free and waits for it (`OrderInv`).
Both say nothing about the window that `Quiet` closes; no property covers it.

`MailIsAccounted` adds `AInv`. `Sum(p)` adds up the ten kinds of places a packet can be in, and
is 1 for every packet that has been handed out and 0 for every other (`Accounted`); a step moves
a packet from one term to another, and the lemmas on `Hits`, the positions of a sequence that
hold a given packet, say what taking from and adding to a pool or the list does to its term. `BalanceInv` is why MBC never
waits with work left: there is an interrupt to come for each message and each WRITE it has
not acted upon, except for the one it is at. Nothing is assumed of how far the printer gets ahead: when
the list is full the board hangs, which is as far as the theorem goes, and it holds again after the
reset that ends that. That the list does not fill up the code does not ensure: there are 100 entries, and up to 138 packets.

### Only model-checked

That a blocked writer is released; that the packets of the mailbox come back; everything about
TCP, the printer services and SNMP; that routes converge; the refinements of `Stream` and
`PrintQueue`; and all liveness. Liveness under fairness and `ENABLED`
are beyond the prover used, and so is induction over data: that the spooler's linked lists are
what the recursive walks find, or that the codec reads what it writes for every
number, is checked up to the bounds (a loop over the places of one sequence, as in `Frag` and
`Routing`, is within reach). `Mib`, `Printing`, `Spool` and `Tftpd`
have `RECURSIVE` operators; no module with theorems, and none it extends, has one.

## Disagreements between code and comments

The runs marked as expected violations each show one, listed under "findings" with
the line that says otherwise: `kill` and `numproc`; the full
input ring; `enq`; the DELETE timer. The others below were met while modelling.
Where a model keeps away from one, its bound is named.

Kernel and drivers:
* `recvtim(0)` on the MIO never times out (`recvtim.c:20`); `sendf` does not wake a timed receiver.
* Any character but STOP ends a hold of output, but one that is not echoed does not
  start the transmitter again (`tty_iin.c:65`): a blocked writer stays blocked.
* The transmitter sends as long as the semaphore is below `OBUFLEN` (`tty_oin.c:36`). With a writer let through that has not stored yet it sends
  what was in that place before, and the character stored there later is never sent (the late
  workload of `tty` reaches it; without the exception for it `OutputAccounting` fails).
* The length of memory is a multiple of 4 (`initialize.c:176-177`), and of 8 only by chance: `maxaddr` is 4 below a round address.
  `getmem` then leaves blocks of 4 bytes and writes their length into the block behind (`getmem.c:38`).
  `create` keeps the stack when it finds no slot (`create.c:38`).
* `freestk` rounds a size up to a multiple of 8 (`mem.h:23`), `getstk` with `roundew`; `mkpool` does not look at what
  `screate` returns (`mkpool.c:35`); the echo ring has no limit (`tty_iin.c:197`).

Network:
* Buffers of received ICMP errors are never freed (`icmp_in.c:62`); `icerrok` is
  never asked (`icmp_.c:47`); an ARP entry whose request fails is retried ten minutes later (`arp_send.c:20`).
* TCP, each confirmed with TLC under a workload that is not in the runs: a retransmission sends FIN
  before the last bytes (`tcp_send.c:45`); a FIN first sent that way is not
  counted in `snext` (72-75); a FIN is forgotten when an acknowledgement empties the buffer, and `close`
  sleeps for ever (`tcp_ostate.c:23-26`); an acknowledgement of a part cancels RETRANSMIT
  (`tcp_rtt.c:17`); one segment goes beyond the window (`tcp_xmit.c:39`).
  `NobodyStalls` names the two cases it leaves out in its guards.
* From reading: the closer is released before its FIN is sent (`tcp_fin1.c:37`); `tcptimer`'s suspend
  can lose a `resume`; when it waits at the full port with `tqmutex` and the output process,
  half-way through a message, waits for `tqmutex`, neither goes on (`tcp_timer.c:45`; `tcpout` is one
  step here, so the runs do not have this); a kick is dropped when the port is full; the data of a window probe is
  cut off, so it is never answered.
* UDP: `dgmopen` gives the mutex back between choosing and taking a port
  (`dg_mopen.c:36`); one process of each machine opens ports in the run, so this is not raced there. `dgread` may time out with a datagram queued; the late message then
  makes the next timed read wait without limit (`QueryAlwaysEnds` fails; `QueryEnds` is the part that holds;
  `snclient.c:41` says "retry once, on timeout").

Routing and SNMP:
* `ripmetric` sends 17 for unreachable, `ripok` refuses more than 16 (`rip_metric.c:24`,
  `rip_ok.c:16`): bad news goes by ageing only. Unreachable routes whose
  gateway repeats them never leave (`rt_add.c:60-67`): `ZombiesLeave` fails. A host's routes are not
  refreshed, so `RoutesConverge` is claimed for gateways. The default route is replaced whatever
  the metric (`rt_add.c:35-41`). Redirects for networks keep the unmasked address (`icmp_redir.c:35-37`).
* The agent says "no such name" at the end and for a row that is gone alike
  (`snrslv.c:51`); `sat_getn` with two interfaces passes over rows (its comment: "there's only 1
  iface"); an answer that is too big, or without a route, ends `snmpd`; a SET that fails half-way
  stays half done; unsigned values from 2^31 on are read as 0.

Printing:
* A job whose last free node has just been filled: the despooler takes the full node before the waiting
  writer links the next, and goes on at address 0 (`despool.c:105-140`); TLC confirms it
  with `tight` set, and the runs exclude it.
* `lprm` of the job being printed can free nodes the despooler uses; `getdnode` and `lprm` take two
  semaphores in opposite order (`spooler.c:1165` and `1290`). An ERROR
  packet leaves a TFTP job connected until the timeout; "abort" of LPD does not abort.
* `spool_connect` links a job and gives the semaphore back before it clears the job's link
  (`spooler.c:335-347` and 364). A client that connects in between is linked behind that job,
  and drops off the list for good when the first one goes on: neither its job nor its nodes
  ever come back (`CrowdLoads` of `MCServices` violate `SpoolerConsistent`).
* An LPD client that announces a data file and closes before its first byte makes
  `spool_disconnect` mark the end of the job through a null `qj_fillp`, at address 0 (`spooler.c:661`, from `lpd.c:134`). The
  job never gets its end and blocks the queue; with such a script TLC finds `SpoolerConsistent` violated.
* MBC: `DeliverPacket` finds the mailbox free with interrupts enabled
  (`mbc_misc.c:101`), and the interrupt handler may fill it before (`RaceLoads` of `MCMbc` shows the packet
  lost); the real sizes give 138 packets and a list of 100 entries; `backend_write` never uses the last READ
  packet; a job whose last node is empty never gets its LOGICAL_BREAK.

## Not modelled

`PROJECT.json` gives the reason for each component. In short: tables that a
generator fills, start-up and printing (no state to speak of); formatting and
parsing of packets, names and shell input; registers of chips and the boot
monitor; the C library and the host-side tools. Some
hazards have no property that holds, or none that reaches them: their notes in `PROJECT.json` say why. They are
the stack that `create` leaks, blocks of 4 bytes, the buffers of received ICMP errors, the despooler's early look at a
link, the window of `DeliverPacket`, the full mail list and two processes that open a port at once.

## What is left

* Proofs: `ConnectionsAgree` needs an invariant about all segments
  under way; `SpoolerConsistent` needs the linked lists of `Spool` as functions
  instead of `RECURSIVE` walks.
* Models: fragmentation and redirects on output, urgent data and options of TCP,
  answers to RIP requests, `getdmem`, the delta list of TCP's timers.
