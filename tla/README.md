# A verification of this Xinu

The repository is Xinu for the x86 (`src/xinu`) with an addition of its own: demand paging with a
virtual heap per process (`vcreate`, `vmalloc`, `vfree`, a page-fault handler that evicts to a swap
region). This directory holds TLA+ models translated from that source, TLC configurations that
check them on small instances, and proofs, checked by TLAPS, that hold for every instance.

Paths below are relative to `src/xinu/`. To check a run:
`tlc -config Kernel.cfg MCKernelModes.tla`; to check a proof: `tlapm PortsProofs.tla`.

1. [The system](#1-the-system) - 2. [The modules](#2-the-modules) - 3. [The runs](#3-the-runs) -
4. [The proofs](#4-the-proofs) - 5. [Disagreements found](#5-disagreements-found) -
6. [What is left out](#6-what-is-left-out) - 7. [Plan](#7-plan)

## 1. The system

One processor. Every system call disables interrupts on entry and restores them on return; there are
no locks below the file systems. A call therefore is atomic *up to the point where `resched` gives
the processor away*: what it does after that point happens when its process is chosen again, in a
world that may have changed. Interrupt handlers (clock, Ethernet, tty) run to completion but may call
`resched` too. Nearly all that is hard in this code follows from these two facts.

| component | state | operations | hard part | what makes it correct | module |
|---|---|---|---|---|---|
| **demand paging** `system/paging.c`, `pagefault_handler*.{c,S}`, `vmalloc.c`, `vfree.c`, `vcreate.c`, the paging part of `kill.c` | page directories and tables in the PDPT region; trackers and counters of the PDPT, FSS and swap regions; per process `pdbr`, `v_add_counter`, `avail_v_heap`; `ALL_HEAP_SIZE`, `cr3`, `cr2` | creation, allocation, freeing, fault (first touch, swap-in, each with or without eviction), death | eviction rewrites a table of *another* process; tables, frames and slots change hands through five operations; counters kept apart from what they count; a trap gate that leaves interrupts on | no frame, slot or table leaked or shared; eviction rewrites the right entry; a process finds what it stored | `Paging` |
| **process manager** `create.c` `kill.c` `ready.c` `resched.c` `resume.c` `suspend.c` `chprio.c` `yield.c`, `queue.c` `insert.c` `getitem.c` | `proctab`, ready list in `queuetab`, `currpid`, `preempt`, deferral of `resched`, `prcount` | as named | every state change is also a list change; `kill` may be switched away from half-way | list and state agree; the highest priority runs | `Kernel` |
| **semaphores** `wait.c` `signal.c` `signaln.c` `semreset.c` `semdelete.c` `semcreate.c` | `semtab`: state, count, queue | as named | queue length implied by the sign of the count; killing, resetting, deleting under waiting processes | a negative count is the number of waiting processes | `Kernel`; seen from above, `Semaphores` |
| **messages** `send.c` `receive.c` `recvclr.c` `recvtime.c` | `prmsg`, `prhasmsg` | as named | message and time-out racing | nobody waits with a message at hand | `Kernel` |
| **clock and delays** `clkhandler.c` `wakeup.c` `sleep.c` `unsleep.c` `insertd.c` | delta list `sleepq`, `preempt` | tick, sleep, timed receive, cancellation | leaving the middle of a delta list; several wake-ups in one tick, the first of which may switch | delays exact; every delay ends; time slices shared | `Kernel` |
| **memory allocator** `getmem.c` `freemem.c` `getstk.c` `meminit.c` | free list in address order, its length | allocate from below, from above, free | joining at both ends; rounding; wrong frees | free list and what is held divide the heap, never two adjacent free blocks | `Memory` |
| **buffer pools, ports** `mkbufpool.c` `getbuf.c` `freebuf.c`, `pt*.c` | pools and their semaphores; port table, shared node list, `ptseq` | get, free; create, send, receive, reset, delete, count | reset and delete under processes that wait in `ptsend`/`ptrecv`; node list shared by all ports | messages neither lost nor delivered to a later port; semaphores count what they stand for | `Ports` |
| **device switch, name space, RAM disk** `system/open.c` ... `control.c`, `device/nam`, `device/ram` | `devtab`, `nametab`, the disk | dispatch, `mount`, `nammap`, block copies | prefixes replaced repeatedly; lengths in a `char` | a name reaches the device its prefix stands for, and not by way of the name space for ever | `Devices` |
| **tty** `device/tty` | three ring buffers and their semaphores, modes, hold | input and output interrupt, get, put, read, write, control | upper and lower half share the buffers; line editing moves the tail backwards; output held and let go | characters in order, as edited; output never stalls | `Tty` |
| **remote disk** `device/rds` | request queue, cache, free list, reference counts; one outstanding exchange | read, write, sync, open, close, delete; the process `rdsprocess`; retry with time-out | buffers move between three lists in two processes; late replies | every buffer accounted for; cached copies are the newest; a sync means written | `RemoteDisk` |
| **remote files** `device/rfs` | open-file table, one mutex, one exchange | open, read, write, seek, close, the requests of `rfscontrol` | repeated requests, late replies | a read returns what acknowledged writes left | `RemoteFiles`, `FileModes` |
| **local files** `device/lfs` | directory in memory, index and data blocks, open-file table | open, read, write, seek, truncate, close | allocation before the mutex; flushing without it; blocks that move between files and free lists | file contents are an array of bytes; no block lost or shared; a closed file is on the disk | `LocalFiles`, `FileModes` |
| **network** `net/net.c` `ip.c` `udp.c` `icmp.c` `arp.c` | ARP cache, UDP and ICMP slots, IP output queue, one pool of buffers | `netin`, `ipout`, resolve, register, send, receive with time-out, release | the input process and waiting processes share table entries and wake each other by messages | an answer goes to who waits for it; no buffer lost or freed twice | `Network` over `NetBase`, `Arp`, `Udp`, `Icmp` |
| **network services** `dhcp.c` `dns.c` `tftp.c` | the counters of one call, the UDP slots it holds | `getlocalip`, `dnslookup`, `tftpget_mb` | answers to earlier questions; every way out | the answer belongs to the question; slots are given back | `Services` |
| **Ethernet** `device/eth` | two descriptor rings with two heads and tails each, two semaphores | read, write, interrupt; the controller; set-up | driver and controller move along one ring; several writers | packets leave and arrive in order, none twice | `Ether` |
| **the rest**: SD card, shell, library, start-up, diagnostics, configuration | - | - | straight-line code, register I/O or text handling | see section 6 | - |

**Interactions.** Paging is called by programs (`vmalloc`, `vfree`) and by exception 14; `resched`
loads `cr3`, and `kill` releases a directory after it has sent the parent a message, that is after a
possible switch. Semaphores, messages and delays all end in `ready` and `resched`. Everything above
(ports, pools, tty, disk, files, network) is built on semaphores and messages and shares its tables
by the rule "interrupts off until you block": its modules take from `Kernel` what that means for them,
namely that a call goes on, after the place where it may wait, in a step of its own, once the
semaphore or the message it waits for lets it, and in any order with other processes (`Semaphores`,
and `n.mail` of `NetBase`). The network services use UDP, the remote disk and the remote files too:
to them UDP is a set of datagrams that are lost, late and repeated.

The hazards of each part, by line, are in `PROJECT.json`, with the properties that cover them.

## 2. The modules

| module | role |
|---|---|
| `Paging` | demand paging, one action per path of each operation |
| `PagingProperties` | its type invariant and safety properties |
| `PagingInvariant` | `OwnershipInv` and `PagesInv`, the inductive invariants of the proofs |
| `AddressSpace` | abstract: what a process may expect of its virtual memory |
| `PagingRefinement` | the mapping under which `Paging` implements `AddressSpace` (`KeepsMemory`) |
| `PagingProofs` | theorems about `Paging`: types, tables and frames; then pages, slots and counters; then that it implements `AddressSpace` |
| `Kernel` | processes, semaphores, messages, delays, clock, kill |
| `KernelProperties` | its properties and its fair specification |
| `KernelInvariant` | `KernelInv`, `InOrder`, `HaltInv`, `DelayInv`: the inductive invariants of the proofs |
| `KernelProofs` | theorems about `Kernel`, on lemmas about the operations on lists (`insert`, `getitem`, taking from the front), the scheduler's functions, from `MakeReady` to `Wakeup`, and the delta list |
| `CommonProofs` | induction over numbers and finite sets, division and remainder, rings, sums over a set, semaphores and their units: lemmas that the proofs of more than one component use |
| `Semaphores` | semaphores as the modules below see them: a count and a queue |
| `Memory` | `getmem`, `getstk`, `freemem` |
| `Ports` | buffer pools and ports |
| `PortsProofs` | theorems about `Ports` |
| `Tty` | the console between its users and its interrupts |
| `TtyProofs` | theorems about `Tty` |
| `Devices` | device switch, name space, RAM disk |
| `Ether` | the Ethernet driver and the controller |
| `MachineProofs` | theorems about `Memory`, `Ether` and `Services` |
| `NetBase`, `Arp`, `Udp`, `Icmp` | tables of the network and what each protocol does to them, as functions on one record |
| `Network` | the processes of the network: `netin`, `ipout` and those that send and receive |
| `NetworkProofs` | theorems about `Network`: what each handler does to the tables, the invariant, the actions |
| `Services` | DHCP, DNS and TFTP clients |
| `RemoteDisk` | the remote disk, its process and its server |
| `FileModes` | `rfsgetmode`, `lfgetmode` |
| `RemoteFiles`, `LocalFiles` | the two file systems |
| `StorageProofs` | theorems about `RemoteDisk` and `RemoteFiles` |
| `MCPaging`, `MCPagingModes`, `MCKernel`, `MCKernelModes`, `MCMachine`, `MCStorage` | instances for TLC |

Definitions with an underscore and a word (`Merged_NotAfter`) are not part of any specification: they
are variants with a plausible mistake, against which `PROJECT.json` checks that each property notices.

### Paging

*State.* `ent` is the raw memory of the PDPT region: for each frame and index the valid, present and
swap bits and the base that the code keeps in `pd_t`/`pt_t`. A frame is a directory or a table only
by who refers to it, so reuse of a frame with stale bits (`reset_pd` and `reset_pt` do not clear
everything) is in the model. `pdptAvail/fssAvail/swapAvail` and the `...Used` counters are the
trackers, kept apart as in the code; `fssPte` is `pte_addr`. `pdbr`, `vAdd`, `avail`, `allHeap` are
the process and global fields; `cr3` and `cr2` are the registers. `blocks` records, as history, what
a program holds; `data` is what frames and slots contain. Pages are numbered consecutively: 0 is the
kernel region, then PDPT, FSS and swap. `allHeap` and the virtual counter are taken modulo `Word` and
`Top`, since they are unsigned and wrap.

*Actions.* `Vcreate`; `Vmalloc` and its two refusals; `Vfree` and its refusal; `Store` and `Fault`
for memory accesses; the handler's four cases `FirstTouch`, `FirstTouchEvict`, `SwapIn`,
`SwapInEvict`, and `SegmentationFault`; `Exit`/`FinishExit` and `KillOther`/`FinishKillOther`, which
are two steps because `kill` sends a message in between; `Preempt`. The victim of an eviction is any
frame of the full region, as the code takes a random one.

*Discipline.* The code does not survive certain uses. They are named in the constant `Hazards`, so
that a configuration admits those it studies, and each has been seen to break a property:
`"stub"` (a clock interrupt before the dispatcher's `cli`), `"golden"` (touching the heap after
`vmalloc`/`vfree` returned `SYSERR` and left the golden directory in `cr3`), `"straddle"` (freeing a
block that crosses a table boundary), `"badfree"` (freeing more than was allocated), `"wild"`
(touching pages that were not allocated), `"wrap"` (allocating past 4 GB), `"killrace"` (killing a
process that is being killed). Proofs assume `Disciplined == Hazards \subseteq {"badfree",
"straddle"}`, for ownership survives those two, or, where it is about which pages are valid,
`Careful == Hazards \subseteq {"badfree"}`.

### Kernel

*State.* The fields of `proctab`; `readylist`, `sleepq`, `squeue` are the lists of `queuetab`, with
`qkey` their keys; `sused`, `scount` are `semtab`; `prcount`, `currpid`, `preempt` as in the code.
`cont` says what a call that was switched away from still has to do when its process comes back
(`"receive"`, `"recvtime"`, `"tick"` for the rest of `clkhandler`, `"kill"`), `victim` whom it was
killing. `left` is history: the ticks a sleeper still has to sleep, for the delta list to be compared
with.

*Scheduler.* `MakeReady`, `Dispatch`, `Resched`, `ReadyAll` are functions on a record of the
scheduler's state, composed within one step as the code composes the calls (`resched_cntl(DEFER_START)`,
several `ready`, `DEFER_STOP`, one `resched`). A step is one system call or one interrupt up to where
the processor changes hands.

*Actions.* `Create`, `Resume`, `Suspend`, `Yield`, `Chprio`; `Semcreate`, `Wait`, `Signal`,
`Signaln`, `Semreset`, `Semdelete`; `Send`, `Receive`, `Recvclr`, `Recvtime`, `ReceiveReturns`;
`Sleep`, `Tick`, `TickReturns`; `Kill`, `FinishKill`; `Halt`. Calls that
interrupt handlers make too (`signal`, `signaln`, `send`), and those by which the null process starts
the system (`create`, `resume`, `semcreate`), are enabled whoever runs; the others exclude the null
process, which never makes them. `sleepms(0)`, which only
yields, is `Yield`; `userret` and `exit` are `Kill` of oneself.

*Discipline.* `"chprio"`: without it, `chprio` is not applied to a ready process and a process does
not lower its own priority. `"killrace"`: without it, a process that is being killed is not killed again and does not kill, and
one that is in `kill` is not killed. (That a victim must not kill takes five processes to see: it counts its own victim
out, is freed in the middle of `kill`, and the victim is neither counted nor killed.) Delays are from
1 up: `recvtime(0)` breaks `DeltasExact` and `SleepsNoLonger` for the other sleepers (the head's key
goes to -1, only the head is counted down, and those behind it lose the tick).

### Memory

`memlist` is the free list, `memfree` its `mlength`, `taken` (history) what callers hold. `Getmem`
takes from the bottom of the first block that fits, `Getstk` from the top of the last one, `Freemem`
walks to its place, refuses what overlaps free memory and joins with both neighbours. Callers may
free any part of what they hold, and what is free already.

### Ports and Semaphores

`bpnext` and `bpsem` are the pools; `ptstate`, `ptseq`, `ptmaxcnt`, `ptlist`, `ptssem`, `ptrsem` the
ports, `ptfree` the number of nodes on their common free list. `doing`, `on`, `seq` say where a
client's call stands and what `ptseq` it remembers; `walk` what `_ptclear` has yet to dispose of, for
the disposal function may give the processor away. `Mkbufpool`, `Getbuf`, `Freebuf`; `Ptcreate` (each
of its semaphores may be refused), `Ptsend`, `Ptrecv`, `Ptcount`, `Ptreset`, `Ptdelete`, each with the
step that goes on after a wait (`...Returns`).

### Tty

The three rings with heads, tails and semaphores; `line`, `typed`, `pending` are history: what was
typed and edited, what is unread, what is unsent. `Ttyhandle_in(c)` is one character, whatever the
mode (`Raw`, `Cbreak`, `Cooked`, `FlowControl`), with its echo; `Ttyhandle_out` one transmit interrupt;
`Ttywrite`, `Ttyread`, `Ttycontrol` the calls. `Ttyputc` and `Ttygetc` are what `Put` and `Get` repeat. A
character is one of the kinds the driver tells apart.

### Devices

`Open(d)` ... `DevInit(d)` are the calls of the switch, with `ioerr` and `ionull` where the table has
them; `Mount`, `Namopen`; `Ramread`, `Ramwrite`; `Getdev`. `Nammap` refuses a name that does not fit its
buffer and then goes in `Rounds`, each the replacement of one prefix (`Namrepl`), while the device is the
name space. `Olen` keeps a name's length in a `char`, as `namrepl` does. A length that a `char` does not hold
comes out negative: then nothing behind the prefix is copied, not even the null (`ended` is false), and the
buffer keeps what it held, which `Namopen` takes from `NmStack` for the first round. The same becomes of a
name that fills its buffer in `namcpy`. `Mountable` has the limits of prefix and replacement.

### Ether

`rx` and `tx` hold a ring with the driver's and the controller's indices and the semaphore. `Stores` and
`Transmits` are the controller, `Handler` the interrupt, `EthRead` and `EthWrite`/`EthCopies`/
`EthAdvances` the driver: with interrupts enabled, as `ipout` calls it, `ethwrite` has three steps.
`FindController`, `ProgramPhy`, `Negotiate` are `ethinit`.

### Network

`nw` is one record with the ARP cache, the UDP and ICMP slots, the output queue, the count of free
buffers, the message of each process and the call it waits in; every protocol handler is a function from
such a record to the next, as they call each other (`netin` to `arp_in`, `ip_in`, `udp_in`, `icmp_in`,
`ip_enqueue`). A step goes from one place where a process can wait to the next. `ArpReturns`,
`UdpReturns`, `IcmpReturns` are what a waiting process does when it runs again: with the message it was
sent or with `TIMEOUT`, and these may come in either order with the packet. `Stray` is a message that
nobody of the network sent.

### Services

`sv` is one process with its counters and the UDP slots it holds, `svnet` the datagrams that may reach
it, `svserver` the state of the TFTP server's transfers. The servers are external.

### RemoteDisk

`rdreq`, `rdcache`, `rdfree` are the lists of buffers, `rdbuf` their headers, `availsem` and `reqsem` the
semaphores. `Rdsread`, `Rdswrite`, `RdsSync`, `Rdsopen`, `Rdsclose`, `RdsDelete` are the calls;
`StartRead`, `EndRead`, `StartWrite`, `EndWrite`, `SyncReached` the process `rdsprocess`; `RdsTimeout`,
`RdsIgnore`, `GivesUp` the loop of `rdscomm`. `net` is the datagrams under way, `Server` the server, which
is external. The contents of a block are the number of the write they come from; `latest` and `before`
are history. A sync request has block number 0, as in the code, and block 0 is a block: `EndRead` answers and
unlinks the first other request with the number of the block it has read (`Sharing`), a sync as well. `MayRead`,
`MayWrite` and `MaySync` say which calls may begin while another with that number is under way. `GivesUp` may
come at any try, for UDP may refuse one and the server may report an error. The disk can be opened again while
the last write before a close is being sent: `udp_recv` then has a reader already, and the open fails
(`RdsopenRefused`).

### RemoteFiles and LocalFiles

`RemoteFiles`: `rfltab` is the table of open files, `rfexch` the exchange of the process that has the
mutex; `RfBegin` is the beginning of a call up to the mutex, `RfAsks` the request, `RfTimeout`,
`RfIgnore`, `RfGivesUp` the loop of `rfscomm`, `Rfsopen`, `Rflread`, `Rflwrite`, `Rfscontrol` what a call
does with its reply. The server carries out a request each time it gets one. Requests that change no file
(`RfChanging` are the others) and all replies come in any order; changes come in the order they were sent unless
`"late"` is admitted (`RfInTime`): nothing in `rfscomm` or in UDP gives that, it is an assumption about the network.

`LocalFiles`: `lf` is `Lf_data`, `lfltab` the control blocks, `lfdisk` the disk. What runs under `lf_mutex`
is a function on one state of the three (`Lfsetup`, `Lfiballoc`, `Emptyfile`, `Lfflush`, ...), as the code
composes it. What runs without it is cut where the code waits for the disk. `lfsopen` chooses its device in a
step of its own. `lflgetc` and `lflputc` call `lfsetup` and then, with the mutex of the file only, store or take
the byte, change the size and set `lf_dirdirty`. `lfsetup` is itself cut between the write of the directory
and the end of its mark, once in its `lfflush` (`LfsetupFlushes`) and once in `lfdballoc` (`LfsetupEnds`).
`lflclose` writes the directory (`LflcloseWrites`), clears the mark and writes the data block (`LflcloseSaves`),
reads the sector of its index block (`LfibputReads`) and writes it back (`LflcloseEnds`), with the
`PerSector` index blocks that it read, not those that are there by then. `MarkKept` and `SectorKept` are
what the code does not ensure: that nobody marks the directory while a mark is about to be cleared, and that
no index block of a sector changes on the disk while a close is about to write the sector back.

*Discipline of these modules.* `TtyHazards`, `NmHazards`, `RdHazards`, `RfHazards`, `LfHazards`, `NetHazards`,
`EthHazards` and `SvHazards` name the uses that the code does not survive; the passing runs leave them empty, and
section 5 says what each of them breaks.

## 3. The runs

Safety runs use symmetry (user processes, or page contents, are interchangeable: no definition orders or
names them) and a view, defined, with the reason, in the MC module. A view leaves out only what no later step
and no property can tell apart: values that are overwritten before they are read (fields of free slots, ring
slots without a character, headers of free buffers, the message of the null process), histories of which a
property asks one thing (whether the last read was right, whether the last frame reached its hop), and which
of several interchangeable things is where (buffers of a pool are counted per place; frames and swap slots
are not told apart where all pages look alike and each belongs to one entry). What a property asks of the
parts left out is itself in the view, so that a state that violates it is never taken for one seen before. The
quotients lose no class of states: small enough subjects were explored in full once, and the full set of states had
as many different views as the quotient had states. The liveness run uses neither. Several runs put more than
one question into one instance, so that the sizes add up in place of multiplying: `mode` (in
`MCKernelModes`) or `subject` (in `MCMachine`, `MCStorage`) is chosen in the initial state, never changes
and says what may happen. `MCPagingModes` tells its two questions apart by the contents memory starts
with: the action constraint `OneQuestion` keeps everything alike where it starts alike, and admits only
processes that live on where it does not. Modules that share a run share no variable.

| run | bounds | shows |
|---|---|---|
| `paging_two` | 2 processes, 3-entry tables, 2 frames, 2 slots, 2 frames for tables beyond golden and directories, one-page blocks, heaps of 2, `"badfree"`. *Contents alike*: every order of exit, kill and re-creation; *contents that differ*: two contents, processes that live on, 3 pages at once | ownership of tables, frames and slots, counters, kernel mappings, with evictions across processes; `Paging` implements `AddressSpace` |
| `paging_one` | 1 process, heap of 5 pages in blocks of 1 and 3 (filling and crossing 3-entry tables), `MAX_HEAP_SIZE` 4, 2 frames, 2 slots, `"stub"` | blocks mapped exactly, the heap cap, that a slot is there when evicting |
| `kernel` | null + 3 processes. Mode *semaphores*: priorities 1-2, one semaphore with counts up to 2; mode *delays*: delays 1-2, one priority. Quantum 1 | lists match states, counts match queues, the highest runs, halting only at the end, delta list exact, nobody oversleeps, no message missed |
| `kernel_fair` | null + 2 processes, priorities 1-2, delays 1-2, quantum 2 | every delay ends; processes of equal priority share the processor |
| `machine` | *memory*: 8 units with a hole, requests of 1, 2, 4, 5 bytes with a unit of 2. *one port, two ports*: 3 clients of one port or 2 of two, 3 buffers, 2 nodes, counts 1-2, `ptseq` up to 3. *tty in, tty out*: rings of 3, FIFO of 2, 4 characters typed, 2 users. *devices*: 6 devices, 9 mounts, names of 40 with a `char` up to 19. *ether*: rings of 4 and 2, 6 arrivals, 4 sends. *arp, udp, icmp*: 2 processes with `netin` and `ipout`, tables of 1-3 entries, queues of 1-2, 5 buffers. *lookup, tftp*: 2 tries, files of 3 blocks | every invariant of `Memory`, `Ports`, `Tty`, `Devices`, `Ether`, `Network`, `Services` |
| `storage` | *remote disk*: 2 processes, blocks 0 and 1, 2 buffers, 2 tries, 3 writes, 4 exchanges. *remote files*: 2 processes, one file of up to 2 bytes, 2 tries, 4 exchanges, 2 datagrams under way. *local files*: 2 processes, 2 files, blocks of 2 bytes, 2 index blocks in one sector, 2 data blocks, sizes up to 3 | every invariant of `RemoteDisk`, `RemoteFiles`, `LocalFiles` |
| `paging_stub`, `paging_straddle`, `paging_tables`, `paging_heap_cap`, `kernel_chprio`, `kernel_killrace` | - | the first disagreements of section 5 |

*Why the bounds are enough for the interesting cases.*

- *Paging.* Two processes and fewer frames than pages make every access a possible eviction of the
  other's page, and two frames beyond the golden ones per process make a freed directory come back as a
  table and the reverse. Three entries per table are the least for a block to fill a table, to cross
  into the next, and to leave a table half used. `paging_two` and three violation runs set `Word` to 1
  and `MaxHeap` to 0, which makes the test of `MAX_HEAP_SIZE` always succeed, and leave that cap to
  `paging_one` and `paging_heap_cap`, so that `ALL_HEAP_SIZE` does not multiply the states.
- *Kernel.* Three user processes put one in the middle of the delta list and of a semaphore's queue, and
  allow a killer, a victim and a parent that differ; two priorities distinguish "higher" from "equal".
  Counts 0 and 2 with a bound of 2 cover positive, zero and negative counts down to -3. `MaxCount` is
  not the code's bound: it stops `signal` from counting up for ever.
- *Memory.* Eight units allow blocks freed with a free neighbour below, above, on both sides and on
  neither, and requests that are not multiples of the unit.
- *Ports.* Three buffers and two nodes make the nodes the scarcer of the two: without the callers' rule
  that the ports do not promise more nodes than there are, `CountsAccount` fails. `MaxSeq` bounds how
  often ports are created and reset; three lets a waiting process see its port gone, and another in its
  place.
- *Tty.* Rings of three with four characters typed wrap around. While input is studied, output is what
  its echoes put on the echo queue, which is not sent meanwhile, and while output is studied nobody reads.
- *Devices.* `CharLimit` is 20 in place of 128 and `NmMaxlen` 40 in place of 256, so that names need not be 128
  long to reach the last length that a `char` holds. The run has names of that length, names that get it by a
  replacement, and names that do not fit; those in between are admitted by `"long"`, and break the property.
- *Ether.* Six arrivals in a ring of four, and four sends in a ring of two, wrap both.
- *Network.* A cache of two entries and three hosts make entries be reused; queues of one or two fill up.
  Echoes use one slot of each table, with `netin` and `ipout` in between.
- *Storage.* Two buffers for two processes make each request take one from the cache; five sequence
  numbers are four exchanges of two tries each. Three writes let a block be written again while an
  earlier write of it is queued, on its way or cached, and a call wait for a buffer meanwhile. One of
  the two blocks is 0, the number of syncs. In the remote files a call may time out while its request,
  or its reply, is still under way in the next exchange. A local file of three bytes in blocks of two
  with one data block per index block has two of each, so that index blocks are linked, and two files
  compete for the two blocks. Both index blocks are in one sector, so that every close may meet another
  call there. File "b" is opened on the second device, while "a" has the first: the two orders of
  opening make the same calls.

*Fairness.* `FairSpec` of `KernelProperties` assumes two things. A call that was switched away from goes
on once its process has the processor (weak fairness of `Returns`): the processor executes instructions.
The clock ticks again and again if interrupts are enabled again and again: the timer interrupts
periodically and a pending interrupt is taken as soon as interrupts are enabled. This is strong fairness
of `Tick`, written with `Running`, which is exactly when `Tick` is enabled; with a quantum of 2 a tick
always changes `preempt` or the current process, so that it is never a stutter. Nothing is assumed of
programs: a process may run for ever, block for ever, or be killed, and the properties say so
(`\/ halted`, `Overtaken`). The modules above `Kernel` state no fairness; that output does not stall
(`OutputGoesOn`) is the invariant that an interrupt is due.

*Deadlock* is checked in the runs of `Paging` and `Kernel`. `Halt` is an explicit stuttering step, for
`halt()` never returns. `machine` and `storage` do not check it: their histories are bounded (characters
typed, packets, writes), so that behaviours end, and processes may wait for one another for good, as
two senders to a full port that nobody reads from do.

## 4. The proofs

The theorems about paging hold for every number of processes, frames, slots, entries and every block
size (`PagingAssumption`), those about the kernel for every number of processes and semaphores, every
set of priorities, delays and counts, and every quantum (`KernelAssumption`), that about memory for every heap,
hole and word (`MemoryAssumption`), that about the Ethernet driver for every size of the two rings
(`EtherAssumption`), those about pools and ports for every finite number of clients, ports, pools, buffers
and nodes (`PortsAssumption`), those about the remote disk for every finite number of processes and
buffers, every set of blocks, and any number of tries, writes and exchanges (`RemoteDiskAssumption`),
those about remote files for every finite number of processes, every set of names and modes, and any number
of tries, exchanges, bytes in a file and bytes in a request (`RemoteFilesAssumption`),
those about the network for every finite number of processes, every size of the pool, the tables and the
queues, and whatever frames and packets arrive (`NetBaseAssumption`), if an ICMP slot has no more places for
packets than there are slots (`IcmpAssumption`: eight and ten in `icmp.h`), those about the clients of UDP
for any number of retries, blocks, ports, leases and names, if what a DNS server says of an address is true
(`ServicesAssumption`, `DnsAssumption`), and those about the console for every size of the three buffers and
of the FIFO, every finite number of processes and whatever they read, write and type (`TtyAssumption`).

| theorem | statement | needs |
|---|---|---|
| `TypeCorrect` | `Spec => []TypeOK` | nothing else: it holds under every hazard |
| `TablesOwned` | `Spec => []TableOwnership` | `Disciplined` |
| `FramesOwned` | `Spec => []FrameOwnership` | `Disciplined` |
| `KernelMapKept` | `Spec => []KernelMapIntact` | `Disciplined` |
| `ServesAbsentPages` | `Spec => []NoResidentFault` | `Disciplined` (which leaves out `"stub"`, `"wild"`, `"golden"`) |
| `SwapOwned` | `Spec => []SwapOwnership` | `Careful` |
| `PagesMapped` | `Spec => []BlocksMapped` | `Careful` |
| `CountersAreExact` | `Spec => []CountersExact` | `Careful` |
| `ServesValidatedPages` | `Spec => []FaultsOnValidated` | `Careful`: `paging_straddle` refutes it for the others |
| `MemoryKept` | `Spec => KeepsMemory`: `Paging` implements `AddressSpace` | `Careful`, `RefinementAssumption` |
| `TypesKept` | `Spec => []TypeOK` of the kernel | nothing else |
| `ListsAndStates` | `Spec => []ListsMatchStates` | nothing else |
| `CountsAndQueues` | `Spec => []CountsWaiting` | nothing else |
| `MessagesWake` | `Spec => []MessageWakes` | nothing else |
| `HighestHasProcessor` | `Spec => []HighestRuns` | `"chprio" \notin Hazards` |
| `HaltsOnlyAtTheEnd` | `Spec => []HaltsAtTheEnd` | `"killrace" \notin Hazards` |
| `DeltasStayExact` | `Spec => []DeltasExact` | `0 \notin Delay` |
| `NobodySleepsOn` | `Spec => []SleepsNoLonger` | `0 \notin Delay` |
| `HeapStaysExact` | `MemSpec => []HeapExact` | `Rounds`: no size within a unit of the end of the address space, which `roundmb` takes to 0 |
| `RingsKeepOrder` | `EthSpec => []RingsInOrder` | `"race" \notin EthHazards`, `"full" \notin EthHazards` |
| `CountsStayExact` | `PortsSpec => []CountsAccount` | nothing else |
| `BuffersStayOwned` | `PortsSpec => []BufferOwnership` | nothing else |
| `BuffersKept` | `RdSpec => []BuffersInv`: the lists, requests, references and copies of the remote disk | `Careful` of `StorageProofs`: `RdHazards` without `"shared"`, `"slow"`, `"steal"`, `"close"` |
| `BuffersStayAccounted` | `RdSpec => []BuffersAccounted` | the same |
| `CacheStaysFresh` | `RdSpec => []CacheFresh` | the same; datagrams may be late |
| `SyncStaysWritten` | `RdSpec => []SyncMeansWritten` | the same, and `"late" \notin RdHazards` |
| `RemoteFilesInvariant` | `RfSpec => []RfInv`: the mutex, the exchange, what is on its way, the files and their histories | `"late" \notin RfHazards` |
| `ReadsStayRight` | `RfSpec => []ReadsWhatWasWritten` | the same; replies and reads may be late |
| `NetworkInvariant` | `NetSpec => []NetInv`: each part of it as far as the hazards that are admitted allow | nothing else |
| `NetworkWaitersAgree` | `NetSpec => []WaitersAgree` | `NetHazards` without `"stray"`, `"recycle"`, `"share"`, `"release"` |
| `NetworkFramesReachTheirHop` | `NetSpec => []FramesReachTheirHop` | `NetHazards` without `"stray"`, `"recycle"` |
| `NetworkPacketsAccounted` | `NetSpec => []PacketsAccounted` | `NetHazards` empty or `{"recycle"}` |
| `OutputStaysFaithful` | `TtySpec => []OutputFaithful` | `"slow" \notin TtyHazards` |
| `OutputAlwaysGoesOn` | `TtySpec => []OutputGoesOn` | `TtyHazards` without `"slow"`, `"quiet"` |
| `InputStaysFaithful` | `TtySpec => []InputFaithful` | `TtyHazards` without `"overrun"`, `"eofwrap"` |
| `ServicesInvariant` | `SvSpec => []SvInv`: a call and its slot, what is on its way to it, what it has stored | nothing else |
| `ServicesAnswersMatch` | `SvSpec => []AnswersMatch` | `Prompt`: `SvHazards` without `"late"` |
| `ServicesSlotsReturned` | `SvSpec => []SlotsReturned` | `Tidy`: `SvHazards` without `"nosid"`, `"stray"` |

Each hypothesis is a use that the code does not survive: without it TLC finds the property violated
(sections 2 and 5).

### Paging

`TypeOK` is inductive by itself; the work is in `Vmalloc` and `Vfree`, where indices come from
division and remainder, and in the counters, which must not go below zero.

The ownership theorems rest on one invariant, `OwnershipInv`, since none of the properties is
inductive alone. That a frame is not shared needs that the entry found in `fss_free_track` lies in a
table that is in use by exactly one directory entry (`Tables`); that needs that an available frame
has no valid or present entry beyond the kernel's (`Directories`), for `vcreate` does not reset the
valid bits and `kill` follows them; that a newly validated entry is not already present needs that
nothing at or above `v_add_counter` is present (`Frames`) and that blocks lie below it (`Heap`); that
eviction finds all frames in use needs that `fss_used_size` counts them (`FramesCounted`), which in
turn rests on every present entry naming a different frame; that the handler fills an entry that is
absent needs that the one faulting process is the current one (`Control`, `FaultServed`). The proof
goes action by action: the handler's four cases reduce to two lemmas (`InstallFree`, `InstallEvict`),
`Vfree` and the two ways of dying to one (`ReturnsStep`, what returning a set of entries and tables
preserves), and `OwnershipExplicit` turns the invariant into the properties.

`PagesInv` adds what holds of pages: the blocks of a process do not overlap (`Apart`); the pages of
its blocks have validated entries, and what is present or swapped belongs to a block (`Mapped`); the
entry a fault is about is allocated (`FaultAllocated`), which is what the handler relies on when it
trusts the swap bit; a slot in use is named by exactly one entry, and by one that is not present
(`Slots`); `swap_used_size` counts them (`SlotsCounted`). It needs `OwnershipInv` and is inductive with
it. The third counter, of tables (`TablesCounted`), is exact wherever ownership is.

`MemoryKept` shows step by step that what `AddressSpace` calls the memory of a process, the contents
that `PagingRefinement` finds by walking the directory and the tables (from the frame if the entry is
present, from the slot if it is swapped, blank if it was never touched), changes only by the action of
`AddressSpace` that the step stands for. `Held` is that content of one page of a block, spelled with the
names the invariant uses (`ContentsHeld`); eviction and swapping move the contents together with the
entry that finds them, so that they are stutters. The refinement needs that the mark for a page outside
every block is none of the values a page can hold (`RefinementAssumption`).

### Kernel

`KernelInv` is inductive under every hazard. What is not obvious in it is that calls run through
states in which it does not hold: between `getitem` and `ready` a process is on no list, and after
`wait` has entered a semaphore's queue the current process is still current. The scheduler's functions
are therefore stated about records (`Sched`), with the set of processes that are on their way between two
lists as a parameter: `Linked(s, T)` holds of everybody else and `OnNone(s, T)` of those. `MakeReady`
takes `p` out of that set, `Dispatch` puts the old current process into it, `Unsleep` and `Unlink` put
one in, and a step begins and ends with it empty. Lists are handled by one predicate, `Spliced(r, list, n,
p)`: `insert`, `insertd`, `enqueue` and `getitem` all relate two lists by it, in one direction or the
other, and what is kept about membership and order is proved once.

`CountsWaiting` is inductive with `QueuesMatch`, for a kill finds the queue through `prsem`.
`HighestRuns` needs `InOrder`: the ready list is sorted by its keys, the keys are the priorities, and
its head is not above the one that runs. `MessageWakes` is proved from `KernelInv` with the observation
that most steps are `Quiet`: they neither begin a wait for a message nor send one.

`HaltInv` says what `prcount` counts: the processes that are there and that nobody is killing
(`ProcessesCounted`), each victim having one killer (`KillsApart`). When it reaches one, only the null
process is left of these.

`DelayInv` states the delta list by differences: each key is what its process has left less what the
one before it has left. So stated an entry, a departure from the middle and a tick each concern one
neighbour (`DeltasEnter`, `DeltasLeave`, `DeltasCount`), and the sums of `DeltasExact` follow
(`DeltasSum`).

*Recursion.* The loops of `resched_cntl`'s deferral (`Readied`) and of `insertd` (`Sums`) are recursive
functions on the numbers `0 .. n`. That such a definition defines a function at all, and properties that
every step keeps, are proved by a form of induction over a set of numbers (`Induct`, `Recursion` in
`CommonProofs`), which does not take an operator as a parameter.

### Memory and Ethernet

Both are about numbers reduced modulo a constant, and share the lemmas of `CommonProofs`:
a number is divided in one way, multiples of a unit are a unit apart, places less than a turn apart in a
ring are different ones.

`HeapInv` says of the free list what `HeapExact` says of neighbours, but of *every* two blocks
(`Ordered`: each ends before a later one begins, with a gap), so that the search for the place of a block
needs no walk along the list; every address and size is a multiple of the unit, no block is empty, and
the free and the held units are those of the heap, none of them both. Taking from either end of a block
and putting a block back with a join below, above, on both sides or on none are all `Put` or `Dropped`:
what the list covers afterwards is proved of these (`PutFacts`, `DroppedFacts`, `MergedFacts`). The length
is kept modulo the word throughout. Without `Rounds` the theorem is false, as TLC shows for a size of 31
with words of 32: `freemem` links a block of 0 bytes in.

`RxInv` and `TxInv` replace the six indices by counts that only grow: packets stored, counted by the
handler and read; queued, sent and reclaimed. Each index is its count reduced modulo the size of the ring
(`RxInv`, `TxHolds`), and the counts are less than a turn apart, which is why a descriptor is told apart
from every other one in use. For the receive ring the end of what the controller may fill (`Limit`) is a
multiple of the block at most a block behind a full turn. For the transmit ring `osem` is what is left of
a turn, less the descriptor of the process between the copy and the tail (`Copying`), and one descriptor
is always free, without which `tdh = tdt` would mean two things (`"full"`).

### Buffer pools and ports

Neither property is inductive. `AccountsInv` says of each semaphore that its queue is as long as its
count is below zero, without a process twice (`Sound`), and counts its *units*: those that may be taken
and those that were granted to a process which has not run (`Units`). `PoolInv` and `PortInv` equate
them with buffers, places and messages. What a semaphore does is proved once, of semaphores as values:
a unit is taken (`WaitTakes`), a process is queued (`WaitQueues`), a signal adds a unit, whoever gets it
(`SignalAdds`), one that was let through uses his (`GoesOn`).

Only those count that wait on a port in its present life (`Present`): `ptreset` and `ptdelete` let go
processes that will find another `ptseq`, and whose units are not the port's. `InCall` says that nobody
waits on a port in a life that is over or to come and finds it in use, so that `Present` is empty
whenever a life begins (`NoneIn`); `Clears` says how far a process has come in `_ptclear`, and that only
one clears a port. `NodesAccount` is the account of the message nodes: those on the free list and those
that hold a message, a sum over the ports; with the sum of the maximum counts below `MaxMsgs`, a message
less than a port has promised leaves a node for every sender that was let through (`NodesSuffice`).
The sums are folds over a set; `CommonProofs` proves that such a fold over numbers is a sum
(`SumSplit`, `SumChange`, `SumBound`) by induction over finite sets.

`BufferOwnership` is inductive with these accounts, which tell that a receiver finds a message and that a
process that begins a call has none to dispose of. Each step that moves buffers takes a set of them from
one place to another (`Transfer`); `Mkbufpool` alone makes new ones.

### The remote disk

`BuffersInv` says where each buffer is and why. A buffer is on one of the three lists (`Lists`). The call
a process is in and the request it waits for agree (`CallOf`, `RequestOf`): a request for a read or a sync is
of the one process that waits for its message, and the number of a read's block is in no other request, syncs
with their number 0 included, which is why `rdsprocess`, looking for other requests with the number of the block
it has got, finds none to unlink with the wrong neighbours (`~ruined`). A cached buffer is referred to by a reader that was told of it and has not copied it, or by
nobody (`CachedFor`). `Available` is the account of `availsem`, with the units of the proofs about ports:
free and cached buffers are the count and those granted to processes that have not run. With it, and
since nobody takes a buffer while a reader still refers to one, a process that was let through finds a
free buffer or a cached one without references, and `rdsbufalloc` never panics. `Copies` is the statement
of `CacheFresh` about every valid copy in the queue or the cache, of which there is one at most. Datagrams
that are late cannot break any of it, for `rdsprocess` does not mark valid what a read brought: it goes to
its reader, and no later read is served with it.

`WrittenInv` follows a write to the server. While no datagram is late, requests to write reach the server
in the order of their numbers, which for one block is the order of their data (`Ordered`), and the request
of the exchange under way is the newest of them; a reply with its number means that the server's disk has
it (`Newest`). The last write to a block is therefore carried by the queue, by the exchange or by the disk
(`LatestCarried`, `Carried`), and what was the last when a sync was asked for is carried *ahead* of the
sync's place in the queue (`SyncsQueued`), or by the whole queue while the caller waits for a buffer
(`SyncsNext`). A write to a block whose request is still queued replaces its data and lets it keep its
place, a write to a cached block or to a new one is put at the tail: neither takes anything away from
what is ahead. When the sync is at the head nothing is ahead of it and nothing is being exchanged, so that
only the disk is left. Each step of the queue is one of a few: a buffer is put at the tail, the head is
taken, or an exchange begins for it. Replies with an old number are accepted by `rdscomm`, and with `"late"`
TLC finds the sync that came back too early.

### The remote files

`RfInv` has four parts. `RfMutexed` is the account of `rf_mutex`, with the units of the proofs about ports: one call
at a time has it, and the exchange under way is that call's. `RfNumbers` orders what is on its way: the
server takes changes in the order of their numbers, so that no reply to a change has a number above that of a
change that is still under way; reads, and all replies, come whenever they like; every request with the number of the exchange is its request; and a request that was sent once has either
not reached the server or not been answered. `RfKept` relates each file of the server to its history `sure`:
the file *agrees* with it (`Agrees`: it has every byte the history is sure of, and is no longer), or, for
the one file that the exchange under way is about, with what the history will be once the reply is there
(`RfAfter`), and then no change is late (`RfLateChanges`). A late change is *spent* (`RfSpent`): a write whose bytes are
all its own or unsure, a truncation of a file of which nothing is sure; executing it leaves the file in
agreement (`SpentKeeps`).

An exchange ends in one of three ways. It is answered: the history becomes `RfAfter`, and the request is
spent (`SpentAfter`), for nothing else can be late. It is given up: the history becomes `RfBlur`, which is
weaker than what it was and than what it would have been (`BlurWeaker`), and a weaker history keeps all that
agreed and all that was spent (`WeakerKeeps`). It is refused: if it was sent once, the server has it no
more and the file is as it was; if more often, it may have been executed and then refused (a file deleted
already), and is treated as one that was given up. What a read returns agrees with the history at the time
the server executed it (`SliceReads`), and the history does not change before the reply is accepted.

A write beyond the end of a file fills the gap with zeros. If such a write is given up, the gap and what was
written are both unsure (`Blurred`); with a file of one byte there is no such gap, which is why `storage`
lets a file have two.

### The network

The handlers are functions of the tables `n`, and one calls the other, so that the proof is by handlers and not by
actions: `Gives(n, m, d)` says that tables `m` which a handler makes of `n` are good when `n` is, and that `d`
of the buffers its caller had in hand went back. A handler that drops, queues or sends its packet gives one
back, whichever way it takes (`IpLocalGood`, `IpRouteGood`, `IpSendGood`); getting a buffer takes one; the
steps of processes, of `netin` and of `ipout` are compositions that give none (`GivesBoth`).

`NetGood` is the invariant. `WaitersFit` says of each slot of the three tables who is *in* it (`In`: the calls
that wait on it), whether it says so (`Open`, `Owner`) and whether what they wait for is there (`Full`):
a slot that is open names a process that is in it and has no message (`MarkedAt`); who is in a slot is alone
there, with the slot open and empty as long as he has no message and full once he has one (`AgreedAt`). So
stated, ARP, UDP and ICMP are the same, and the four things that happen (the owner is woken, a process
comes in, leaves, or an unused slot changes) are proved once (`WakesGood`, `SlotGood`). That nobody is left
in a slot that is registered, released or given to another address is what the guards for `"share"`, `"release"`
and `"recycle"` are for; a stray message breaks `MarkedAt` itself, and the invariant then says nothing of
who waits. `FramesReachTheirHop` needs `Heard`, that a resolved entry has the hardware address of its own
address, and `Asked`, that an entry somebody waits for still has the address he asked for: it does not
depend on `"flood"`, `"wrap"`, `"urgent"`, `"share"` or `"release"`.

`PacketsAccounted` sums over calls and slots (`Total`). An ICMP queue is a ring whose head wraps at the
number of *slots* and whose tail wraps at the number of *packets*: `RingSound` says that the places from the
head on, as many as the count, hold packets and the others none, with the places taken modulo the size
(`Places`); a head beyond the ring is possible after the last receive, but nobody receives or waits there
without `"wrap"` (`Rings`). That `icmp_release` takes every packet out is proved by induction over the count
(`DrainStep`, `Recursion`). Reusing an ARP entry early loses a frame, never a buffer, which is why
`"recycle"` may stay.

### The console

The two halves of the driver share nothing but who is in a call: `OutInv` and `InInv` are separate
invariants, and a step of one side leaves the other alone. Each has four parts. The queue of the
semaphore is of processes in the call that waits on it, which have something left to put or to take
(`OutQueue`, `InQueue`). The ring holds a history from its head on, in order, each index taken modulo the size
(`RingHolds`): what is unsent, `pending`; or what is complete and unread, `typed`, followed by the `line` being
edited, which is why erasing and killing move the tail by as much as the cursor (`InRing`). The semaphore's
units are the account of the ring (`OutUnits`: places taken, free, or granted to a writer that has not run;
`InUnits`: characters of complete lines, free to take or granted to a reader). `OutputFaithful` and
`InputFaithful` are read off them.

How rings change is proved once: characters are taken from the head (`RingDrops`), put behind the end
(`RingPuts`), erased from it (`RingBack`), and of semaphores the proofs use the units of the proofs about
ports. `"slow"` breaks `OutUnits`, since the transmit interrupt then sends a place granted to a writer as
a character; `"overrun"` and `"eofwrap"` break `InRing`, the one its bound, the other its tail. Line editing
itself and the length of what is echoed need no hypothesis. `OutputGoesOn` is inductive with `OutInv`: output is
left to the next interrupt only by who makes one due, and `"quiet"` is the one way of letting a held
terminal go that does not.

### The clients of UDP

`SvInv` holds under every hazard, each part with the hypothesis it needs. A call holds its own slot, and a
process between calls is in the initial state but for the slots left behind (`SvOk`); `Tidy` says that there
are none, for `"nosid"` and `"stray"` are the two ways out of `getlocalip` that forget it. `NetOk` is about
what may still arrive: while no message is late, an acknowledgement of DHCP is of an address that this call
requested, for `xid` would not tell. `tftpget_mb` has stored the blocks 1 to `expected - 1`, in order,
however many transfers the repeated request started. DNS is the exception to invariants: `dnslookup` takes any
answer, and the address it picks is the name's since the answer says so of it (`DnsBest`) and answers
are true. `DnsAssumption` says the latter: a host is named by one component, its address. That also leaves out
names of which the one asked for is only the start, which `dns_geta`, comparing with `strncmp` over the
length of the question, would take.

### What stays with TLC

- Liveness under fairness (`DelaysEnd`, `TimeSharing`): not within reach of the prover, and neither is
  `ENABLED`.
- `HeapCap` and `SwapHasRoom`: `HeapCap` is false in general (`paging_heap_cap`), and so not a theorem;
  `SwapHasRoom` is about the sizes of one instance.
- `BlocksMapped` is checked by TLC also where `"stub"` is admitted, which the theorem excludes.
- The properties of `Devices` and `LocalFiles`. `NamesResolve` depends on what repeated replacement of
  prefixes computes, those of `LocalFiles` on what folds over chains of index blocks compute for every
  chain, which takes an induction over data that is out of the prover's reach.

## 5. Disagreements found

In `PROJECT.json` each has the lines and the statement of the source it contradicts. The first six are
runs in which TLC finds that statement violated:

- `paging_stub`: exception 14 is a trap gate; a clock interrupt before the dispatcher's `cli` lets
  another fault overwrite `cr2`. The handler then serves a page that is already present, against
  `pagefault_handler.c:54`.
- `paging_straddle`: `vfree` restarts at the same index in each table and derives the number of
  tables from the size alone. The neighbour of a block that crosses a table boundary faults on an
  entry that is not validated, against `pagefault_handler.c:53`.
- `paging_tables`: `sysinit` zeroes `pdpt_used_size` after 16 frames were taken, so `is_pdpt_full`
  says there is room when there is none, and the scan of `get_free_page_pdpt` leaves the array.
- `paging_heap_cap`: `reset_pt` leaves valid bits in place; a directory's frame that comes back as a
  table makes `kill` count pages out of `ALL_HEAP_SIZE` that were never counted in, and more than
  `MAX_HEAP_SIZE` pages can be allocated.
- `kernel_chprio`: `chprio` does not move a ready process, so `resched` may pass over the highest
  priority.
- `kernel_killrace`: `kill` decrements `prcount` before a possible switch; a process that is killed
  twice is counted twice, and the machine halts under the others. So does a process that kills while it
  is being killed itself.

The others are uses that the passing runs leave out and that TLC shows to be fatal: set the constant of
the module's configuration to the hazard named and the property is violated, in `machine` or `storage`.

- **Ports.** Nothing in `ptcreate` compares the counts with the nodes of `ptinit`: without `Promised`,
  `CountsAccount` fails and `ptsend` panics.
- **Tty** (`TtyHazards`). `"overrun"`: the end of a line, and characters in raw and cbreak mode while a reader
  was let through but has not run, are stored in a full buffer (`InputFaithful`). `"eofwrap"`: an
  end-of-file character does not wrap the tail (`InputFaithful`). `"quiet"`: a character without an echo
  ends the hold without starting the output (`OutputGoesOn`). `"slow"`: the transmit interrupt takes a writer
  that was let through for a character (`OutputFaithful`).
- **Ethernet** (`EthHazards`). `"race"`: `ipout` calls `ethwrite` with interrupts enabled, and two writers, or a
  writer and the handler, take the same descriptor (`RingsInOrder`). `"full"`: `osem` starts at the ring's
  size, and a ring that is full looks empty to the controller (`RingsInOrder`).
- **Network** (`NetHazards`). `"recycle"`: a cache entry is given away before the process that waited for it
  has read it (`WaitersAgree`, `FramesReachTheirHop`). `"stray"`: any message is taken for the answer
  (`WaitersAgree`). `"share"`, `"release"`: two processes receive from one slot, or it is released under one
  that does (`WaitersAgree`). `"flood"`: an echo reply for a full queue is not freed. `"wrap"`: the head of the
  ICMP queue wraps at the wrong place. `"urgent"`: `ipout` was woken but has not run while its queue fills;
  `semcount` does not see it (`PacketsAccounted` for the three).
- **Services** (`SvHazards`). `"nosid"`, `"stray"`: `getlocalip` returns with its slot (`SlotsReturned`). `"late"`: an
  acknowledgement of an earlier request is taken for this one, as `xid` is always the same (`AnswersMatch`).
- **Remote disk** (`RdHazards`). `"late"`: a reply with an old number is accepted (`SyncMeansWritten`).
  `"shared"`: a second request for a block is unlinked with the wrong neighbours, and a sync in the queue, whose
  number is 0, is taken for a second read of block 0 (also `CacheFresh`; with three buffers, `SyncMeansWritten`:
  the sync is answered before the write that is queued ahead of it). `"slow"`: a buffer is
  counted as available while its reader has not copied it, and `rdsbufalloc` panics. `"steal"`: `semreset` to
  one less than zero is refused. `"close"`: the disk is closed under a reader
  (`BuffersAccounted` for the four).
- **Remote files** (`RfHazards`). `"late"`: a write that was sent twice arrives, the second time, after a newer
  one and undoes it; `rfscomm` compares numbers of replies, nobody those of requests (`ReadsWhatWasWritten`).
- **Name space** (`NmHazards`). `"long"`: a name whose length a `char` does not hold is mapped to the replacement
  alone, without a null (`NamesResolve`).
- **Local files** (`LfHazards`). `"open"`: two opens choose one pseudo-device. `"sector"`: a close writes a sector
  back with index blocks as they were before another close, `lfsetup` or `lftruncate` wrote them, so that these
  are lost (`FilesKeepBytes`, `BlocksOwned`, `ClosedIsOnDisk` for the two). `"mark"`: `lflputc`, or a truncation,
  marks the directory after another call has written it and before that call clears the mark; it is not
  written when the file is closed (`ClosedIsOnDisk`).
- **Properties no run checks, for the code never has them.** `GetdevFinds` (`Devices`): `getdev` uses the
  result of `strncmp` as if it said "equal". `CreatedCanBeOpened` (`LocalFiles`): `lfscreate` does not write the
  numbers that `lfscheck` wants.

## 6. What is left out

*Of the paging code.* `pg_owner` of the trackers (written, never read for a decision), the TLB
(`cr3` is reloaded by every operation that changes a mapping), sizes that are not multiples of a page
and `vmalloc(0)` (both only round), freeing a part of a block, the failure of the handler's temporary
buffer (`getmem` of a page while swapping in), and steps that need a free page when none is left: the
scan has no bound and leaves the array, so that the model has no such step and the properties
`PdptFullIsTold` and `SwapHasRoom` are about whether it can come to that.

*Of the process manager.* Stacks, `ctxsw`, open descriptors and names; what a message says;
`clktime`; where `newpid` and `newsem` start their search (any free entry may be taken); argument
checks that refuse without a change of state.

*Of the modules above.* Requests within seven bytes of 2^32, which `getmem` rounds to zero; processes
killed inside a call of a port, a device or the network (a unit of a semaphore granted to one that is
killed before it runs is lost for good, an entry that names it stays marked); interrupts left disabled
(`ip.c:161-172` and `icmp.c:243` return without `restore`). *Tty*: the mode changes only between lines
while nobody reads; `TC_NEXTC`, which reads `*tyitail` where its name says it looks ahead. *Remote disk*: a
name too long for `rdsopen`, which leaves the state at `RD_PEND`; that the block number of a read request is
what the stack held is in the model; a wait for ARP inside an exchange; `RDS_CTL_DEL` while the disk is in use,
whose caller would share the UDP slot with `rdsprocess`. *Local files*: `lfmode`, which no read or write looks at;
what another file's `lflputc` or close does between two disk accesses under `lf_mutex`, which is as if it came
before or after them, but for two things. A mark that is cleared late is in the model (`"mark"`). The sector of index
blocks that `lfsetup` and `lftruncate` read is written back in the same step, so that a close that writes in
between, whose block they would undo, is left out together with `"sector"`, which is the same in the other order.
*Ethernet*: register and PCI access, `ethcontrol`; the allocation in `_82545EMInit` whose failure is tested
after rounding, and so never seen.

*Not modelled.* `pxe.c` (scans memory for the boot program's table), `dot2ip.c` and the dumps (conversion of
text). The SD card (register I/O; no row of `conf.c` uses it). The shell (text; `main` does not start it
here), the C library (no shared state), diagnostics, test programs and calendar arithmetic. Start-up and
configuration are straight-line: what they leave behind is `Init`. The parser and scanner of the
configuration language (`y.tab.c`, `lex.yy.c`) are generated.

## 7. Plan

Done: every component that shares state is modelled; paging, the kernel, the memory allocator, the
Ethernet rings, the pools, the ports, the remote disk, the remote files, the network, the clients of UDP and the console are
proved, save what section 4 leaves to TLC. Next, in this order:

1. **Abstract specifications** above the kernel: a bounded queue with a generation for `Ports`, and a disk
   that returns what was last written for `RemoteDisk`; the histories the properties use now are the
   variables of their mappings.
2. **Kills** in the modules above the kernel, with what they leave behind in ports, tables and rings.
