# A TLA+ development for Connectal

Connectal joins software to logic in an FPGA. The programmer declares *portals*:
groups of one-way methods. A request portal carries calls from software to
hardware, an indication portal carries calls the other way. A scatter-gather DMA
path lets the hardware read and write buffers of the program.

This directory holds TLA+ models of the parts of that system whose correctness
depends on order, concurrency or arithmetic at a boundary, TLC runs that check
them on small instances, and TLAPS proofs for every value of the constants.
`PROJECT.json` maps each definition to the lines it models and lists every part of
the system, also those without a model.

## The system and where it is modelled

| Part | Source | Module |
|---|---|---|
| Portal control registers, polling threads | `bsv/MemPortal.bsv`, `cpp/poller.cpp`, `cpp/portal.c` | `Indication` |
| Interrupts on Zynq | `drivers/zynqportal/zynqportal.c`, `bsv/CtrlMux.bsv`, `bsv/ZynqTop.bsv` | `ZynqIndication` (extends `Indication`) |
| Interrupts on PCIe | `bsv/PcieTop.bsv`, `drivers/pcieportal/pcieportal.c` | `PcieIndication` (extends `Indication`) |
| Programs and the simulator | `cpp/portalSocket.c` (BSIM), `cpp/BsimCtrl.cxx` | `SimLink` |
| Request FIFOs of hardware portals | `cpp/portal.c`, `bsv/Adapter.bsv`, `bsv/MemPortal.bsv`, `scripts/bsvgen.py` | `RequestFifo` |
| Portals in shared memory, the sender | `cpp/portalShared.c`, `scripts/cppgen.py` | `SharedRing` |
| ... received by a program | `cpp/portalShared.c` | `SharedPortal` (extends `SharedRing`); its promise `SharedChannel` |
| ... received by the hardware | `lib/bsv/SharedMemoryPortal.bsv` | `SharedRequestPortal` (extends `SharedRing`) |
| Portals over sockets, the multiplexer | `cpp/portalSocket.c`, `cpp/sock_utils.c` | `SocketPortal` |
| Tables of a poller | `cpp/poller.cpp`, `cpp/poller.h` | `PollerTables` |
| Tag generator (in-order completion buffer) | `bsv/CompletionBuffer.bsv` | `TagGen`; its promise `CompletionOrder` |
| Memory server, reads and writes | `bsv/MemServerInternal.bsv` | `MemServer`, extended by `MemRead` and `MemWrite` (over `CompletionOrder`) |
| Memory server, sharing of the MMUs | `bsv/MMU.bsv`, `bsv/MemServer.bsv` | `TranslationPort` |
| Allocation and description of buffers | `drivers/portalmem/portalmem.c`, `cpp/dmaSendFd.h` | `SGList` |
| MMU | `bsv/MMU.bsv` | `MMU` (extends `SGList`, over `CompletionOrder`) |
| DMA manager | `cpp/dmaManager.c`, `cpp/dmaManager.h`, `cpp/StdDmaIndication.h` | `DmaManager` (extends `MMU`) |
| Drivers | `drivers/pcieportal`, `drivers/zynqportal`, `drivers/portalmem` | `PcieDriver`, `ZynqDriver`, `PortalMem` |
| Example programs | `examples/` | `PortalScript`, `ProgramRun`; `MemoryPrograms`, `StringPrograms`, `PortalPrograms` |
| Programs with a protocol of their own | `examples/flowcontrol`, `examples/regexp`, `examples/ring` | `FlowControl`, `RegexpTokens`, `CommandRing` |
| Morris-Pratt search | `lib/strstr/cpp/mp.h` | `StringSearch` |

The theorems are in eight modules: `IndicationProofs` (`ZynqIndication`,
`PcieIndication`), `LinkProofs` (`RequestFifo`, `PollerTables`, `SharedPortal`,
`SharedRing`), `SocketProofs` (`SocketPortal`, `SimLink`), `TagGenProofs`,
`MemServerProofs` and `MemWriteProofs` (`MemServer`, `MemWrite`), `PcieDriverProofs` and `DriverProofs` (`ZynqDriver`, `PortalMem`).

How the parts meet: an application calls a generated proxy method; its words go
to a register FIFO of the hardware, to a socket or to a ring in shared memory.
The hardware's answer waits in an indication FIFO, raises an interrupt, wakes a
thread in `poll(2)`, and the thread's `portalExec` loop empties the FIFO. In
simulation registers and interrupts are messages on a socket. Buffers are
registered with the MMU through a request portal, and the memory server translates
the clients' requests, tags them with `mkTagGen` and matches the answers. The
drivers create the devices that programs open and map.

In all models of Bluespec modules a rule or a method is one atomic action, as
in the language's semantics. In models of C code a step is one access to shared
memory or to a device register, or one call of the kernel.

## The runs

Six runs pass (`MCIndications`, `MCMemory`, `MCDmaManager`, `MCLinks`, `MCDrivers`,
`MCPrograms`). Each has an MC module that holds several models side by side: the
variable `subject` (`board` in `MCIndications`) says which of them a behaviour is
about, the others keep their initial state, and the fairness of each is restricted
to its own behaviours. So one run answers one question for several mechanisms
without multiplying their states. An MC module extends the modules that theorems are
about, so that a run checks the very definitions the proofs are about and evaluates
their assumptions; of the others it has instances.

| Run | Question | Models | Distinct states |
|---|---|---|---|
| `indications` | does every indication reach its handler? | `ZynqIndication`, `PcieIndication`, `SimLink` | 0.2 million |
| `memory` | does hardware get what software put in memory, and tell the right client? | `TagGen`, `MemRead`, `MemWrite`, `SharedRequestPortal`, `CommandRing` (two sizes) | 0.5 million |
| `dma_setup` | are translations right once a buffer is registered? | `DmaManager`, `TranslationPort` | 0.4 million |
| `links` | do calls arrive whole, once and in order, and return? | `SharedPortal`, `SocketPortal`, `PollerTables`, `RequestFifo` | 0.6 million |
| `drivers` | do the drivers give back what they take, and keep what is used? | `PcieDriver`, `ZynqDriver`, `PortalMem` | 0.9 million |
| `programs` | do the example programs end, with the right verdict? | `ProgramRun`, `FlowControl`, `RegexpTokens`, `StringSearch` | 0.09 million |

Properties of the form `[]<>P` in these runs say that something happens: the work of
a behaviour is bounded, so from some point on nothing changes, and `[]<>P` then says
that `P` holds at the end.

Deadlock is not checked: all these systems rest when their bounded work is done.
That they do not rest earlier is what the liveness properties say.

Six runs show a disagreement between the code and what a comment or a test says of
it; each is described with its module. They use the model itself, or an MC module with
other constants (`MCIndicationsSMP.cfg`, `MCIndicationsTwo.cfg`, `MCDmaManager`).

| Run | Shows |
|---|---|
| `zynq_smp_mask` | a portal stays masked after its user-mode driver enabled it |
| `pcie_two_pollers` | of two portals that rise in one cycle only one gets a message |
| `shared_request_one_argument` | a message of one argument is dropped |
| `shared_request_stale` | words of an earlier lap are taken for messages |
| `dma_full_table` | the end mark of a list overwrites its first entry |
| `string_search_misses` | an occurrence is not found |

## Indication, ZynqIndication, PcieIndication

`Indication` has the control registers of each portal (status, enable, queue
status) and the pollers: `portalExec_init` enables the interrupts, `poll(2)` calls
each descriptor's driver (queue the thread, read the status), sleeps when nothing
was ready, and after it each portal's FIFOs are emptied (`portalCheckIndication`)
and its interrupt enabled again (`enableint`). A loop over the portals visits
them in any order. `poll(2)` and `wake_up_interruptible` are the kernel's: the
model has what the code relies on, that a wakeup between the queueing and the
sleep is not lost.

`ZynqIndication` adds the shared level-triggered line and `portal_isr` in its
three steps (read the status, mask, wake). The constant `SMP` says whether a
poller can run while the handler does. `PcieIndication` adds `interrupt_rule`,
which samples the levels in every clock cycle, and the queue of MSI-X messages. The
variable `board` says which of the two a behaviour is about.

- `indications` (`NoLostWakeup`, `PcieNoLostWakeup`, `AllHandled`): on a Zynq board
  with one processor no poller sleeps on a masked portal that has an indication; on
  a PCIe board with one poller for both portals no poller sleeps on an indication
  without a message on its way; on both every indication is handled. Two portals
  with two channels and up to two indications each: enough for an indication to
  arrive in each of the windows between status read, mask, wake, scan, sleep, drain
  and enable, and for a second one to arrive in the next. `interruptRequestFifo`
  holds two messages, so it is full at times.
- `zynq_smp_mask` (violation): with a second processor, `portal_isr` reads the
  status, the poller handles the indication and enables the portal, and then the
  handler's write masks it. Nobody enables it again.
- `pcie_two_pollers` (violation): two portals that rise in the same cycle share
  one message, so the lower one's poller is not woken.

Fairness: interrupts are delivered, handlers run to their end, threads are
scheduled, the clock runs. The hardware is never obliged to send.

## SimLink

Each program has one socket to the simulator, a main thread and a poller. A register
read holds `socket_mutex` from the request to the answer; the reader also meets
interrupt notices, which it keeps in `interrupt_value`, and `bsim_poll_interrupt`
also meets answers, which it keeps in `shared_response`. Tags on answers are not
compared. The simulator's thread accepts programs; the clocked side takes one request
at a time and sends all connected programs the level of the interrupt line when it
changes.

- `indications` (`OwnAnswer`, `LevelKnown`, `AllHandled`): a register read returns
  the answer to its own request. The level a connected program knows, or will know
  once it has read the notices on their way, is the level of the line. The first
  program to connect has its indications handled. One program whose main thread makes
  an access while its poller works, or two programs; one request fits a socket.

A program accepted while the line is high is not told so. `LevelKnown` exempts it
(`late`), and only the first program is claimed to be served. A program that leaves is
not modelled.

Fairness: the simulator runs, its accepting thread runs, and the threads of programs
run; strong fairness of a thread says that `socket_mutex` is not always given to the
other one.

## RequestFifo

A generated proxy method asks `busy_hardware` for room in its method's FIFO, gives up
after fifty full readings (and returns to the caller without a sign), and else writes
the words of its message one by one. `mkFromBit` shifts them into a register; the last
word moves the message to a FIFO of one (`mkFIFOF1`) and is held on the bus while that is
full. The design's rule takes the message and calls the method. One thread calls.

- `links` (`WholeRequests`, `CallsReturn`): the design gets whole messages in the order
  of the calls, none of a call that was given up, and a call is given up only after as
  many full readings as the loop makes. A call that has found room never waits on the
  bus: the reading speaks of the FIFO that the last word will need, and only this caller
  fills it. So a call returns even when the design takes nothing. Two methods, with
  messages of three words and of one, two readings, four calls.

`busy_hardware` tests its counter again behind the loop: room found on the reading
after the fiftieth full one counts as failure, so that reading is of no use. The model
keeps this.

Fairness: the calling thread runs. The design is not obliged to take anything.

## SharedRing, SharedPortal, SharedRequestPortal

A memory of `Limit` words holds the offsets of the next message to write and the
next to read, and the messages. `SharedRing` is the writer: `busywait_shared`,
the arguments, the header and padding, the new write offset, the zero header, each a
step of its own. Word `k` of message `n` is the pair `<<n, k>>`, so that any
mixture of messages shows. `SharedPortal` is the reader in software.

- `links` (`NoOverwrite`, `ImplementsChannel`, `CallsReturn`): messages of one to
  three words, 15 words of memory (room for two or three messages), seven messages:
  the ring wraps at least twice at different places. No unread word is overwritten;
  the ring implements `SharedChannel`, a FIFO of whole messages. The caller never
  waits for ever in `busywait_shared`.

Fairness: both programs run. The reader's part of it needs a poller that keeps
calling `event_shared`; without a descriptor of its own, a shared-memory portal
depends on other portals or on the simulator's time-out for that.

`SharedRequestPortal` is the reader in hardware: every rule of
`mkSharedMemoryRequestPortal`. The read engine answers in order, two words a beat.
A word that is not a header but is read as one may have any value.

- `memory` (`MessagesRight`, `RingsDrain`): with messages of two arguments, nine
  messages in a ring for five, all arguments are delivered in order, messages are
  released only when delivered, and every message is delivered.
- `shared_request_one_argument` (violation): a message of an even number of words
  that ends what was read is released without being delivered.
- `shared_request_stale` (violation): with messages of different lengths, words of
  an earlier lap are taken for messages after the second wrap.

Fairness: rules that can fire fire, and the calling program runs. When both
rules that take beats can fire, the first in the source wins, as the compiler
chooses without an attribute.

## SocketPortal

A daemon serves several clients over one listening socket that carries several portals
through the multiplexer, as in `examples/echomux`. A message is three words: the
multiplexer's header, the message's header and an argument, whose upper half is zero.
A client may leave at any time, after whole messages, also with answers it has not
received, which makes the daemon's next receive fail (`reset`). `event_socket` takes one
message of one client at a time out of its table of descriptors; at an end of file it
closes the descriptor, moves the others up and goes on to the handler with the header it
still has. A receive that finds nothing leaves its buffer as it was.

So after an end of file a handler may read words of the client that moved into the place
of the one that left: a message's header is then taken for a multiplexer's header and an
argument for a message's header. Numbers of portals and of methods overlap, and all of
this is in the model: port 0, which an argument names, is a proxy without a handler, and
an unknown method counts towards the ten after which the generated handler ends the
daemon (`runaway`; none in the run, so that the first one ends it). `torn` has the clients
whose words a handler took so.

- `links` (`CallsAreMessages`, `LeavingBounded`, `PollersServe`): until the daemon
  meets an end of file, every call is for a message of a client, with its portal and
  method, after the calls for all that client's earlier messages and for none of them
  again. While no handler has taken another client's words, a client that leaves costs at
  most one repeated call. A client whose words none took loses no message while the
  daemon runs, and the poller goes on waiting for those that stay. As long as no client
  leaves, every message is handled. Three clients with four messages for two portals, one
  of which answers: every client may leave while another waits behind it in the table.

A receive of part of a word does not happen: `sendmsg` on a local socket puts a message
there at once.

Fairness: the daemon's poller runs. Clients are never obliged to send or to leave.

## PollerTables

The tables `portal_wrappers` and `portal_fds` under the construction and destruction of
portals, with the poller's thread in `poll(2)` with the table it was given. A portal has
a descriptor (`fpga_fd`), a connection (`client_fd`) or neither; `registerInstance`
enters the first two, `unregisterInstance` looks for the first only. It takes the wrapper
with the portal's *number*, the first there is, and shortens both tables by one also when
it found nothing. `~Portal` calls it only for portals with a handler: the others stay in
the tables, a search that reads the number of one that is gone may find any, and a poller
that comes to it may crash (`crash`), as may an entry written in front of the table when
`numFds` is below zero. `timed` says whether `poll` has a
time-out, as in simulation, where the socket of the simulator is entered too.

- `links` (`TablesExact`, `PollersServe`): the wrappers are exactly those of the portals
  that should be there until one is unregistered whose number another entry has, or may
  seem to have (`mistakable`); the descriptors are exactly theirs until a portal without
  `fpga_fd` is unregistered (`displaced`), which takes another portal's. Whatever happens
  nothing is in a table twice, and nothing that was never registered.
  Portals constructed before the thread started are served, with these exceptions; with a
  time-out all are, and the thread stops when told.
  On a board, where the time-out is -1, nothing is claimed of portals registered
  later. Three portals: one with a descriptor, one with neither and the same number, one
  with a connection and no handler.

The memory that `realloc` may move under a running `portalExec` is not modelled.

Fairness: the poller's thread runs; `poll(2)` returns when a descriptor is readable or
the time-out has passed.

## TagGen

`mkTagGen` issues tags in ring order, takes them back in any order and reports
them complete in the order of issue. State: the BRAM `tags` (the set of words that
are True), `head_ptr`, `tail_ptr`, `inited`, the unary counter `comp_state`
(represented by its number of ones), the two FIFOs, the response queue of BRAM
port B, and a ghost set `held` of the tags the client has. Actions are the rules
`init`, `complete_rule0`, `complete_rule1` (two disjuncts), `ret` and the methods
`getTag`, `returnTag`, `complete`. A client returns only tags it holds. That port B
accepts a request only while `outFIFODepth` answers are not outstanding is the
BSV library's behaviour, taken from its use here.

`CompletionOrder` is what the clients of the generator rely on: tags are issued in
rotation, never while they are out, and reported in the order of issue. `MemRead`,
`MemWrite` and `MMU` use it in place of the generator.

- `memory` (`IInv`, `ImplementsCompletionOrder`, `TransfersEnd`): the inductive
  invariant of the proofs, that `TagGen` implements `CompletionOrder`, and that a
  returned tag completes if all older tags are returned. 4 tags, FIFOs of depth 2, so
  the ring wraps, fills and both FIFOs block. The BRAM starts with any contents.

Fairness: weak fairness of each rule, of the client taking completions and of the
holders returning their tags, since a rule that can fire and has no conflict fires.
`ret` and `complete_rule0` both need port B of the BRAM; strong fairness of `ret`
says that the polling rule does not keep it out for ever. With weak fairness alone
the property fails.

## MemServer, MemRead, MemWrite

`mkMemReadInternal` takes read requests of several clients, has each translated by
the MMU its identifier names, gives it a tag, sends it to the bus, collects the
beats in a buffer indexed by tag and position, and hands them to the clients in
the order of the requests. `mkMemWriteInternal` sends requests to the bus in the same
way, follows them with the clients' data and tells the clients, in the order of their
requests, when memory has it. What the two have in common, requests, tags and the
counting of beats, is in `MemServer`. Every rule and method is an action; the debug
counters are left out. A request is known by its number, which also stands for its address
and its client's tag, so the k-th word of request n is `<<n, k>>` and any exchange
of requests shows. An MMU is a queue that answers in order; the bus answers reads, and
reports writes, in any order but does not interleave bursts. The clients ask when they
like. The generator frees a tag when it reports it complete, before the rules behind it
have used what is kept under it; a request whose tag is issued again too early is in the
ghost `lost`.

- `memory` (`RightReads`, `RightWrites`, `TransfersEnd`): each beat on its way to a
  client is the next of what it asked for, each request goes to its own address; memory
  gets each burst's own data, lost or not; clients are told of their own bursts, in order
  and not before memory has them. All this holds but for the lost requests, and a request
  is lost only when more of them are unanswered than there are tags. Every request is
  answered in full. Two clients (one with bursts of two beats), two MMUs, four tags, five
  requests: the tags go round once, requests are lost, bursts of both lengths overtake
  each other on the bus and every FIFO blocks.

Nothing in the server keeps the clients from having that many requests unanswered. The
clients of the repository ask only for data they have room for and so never stall it.

Fairness: rules that can fire fire, the bus answers, clients take and give their data.

## TranslationPort

The masters of a memory server share each MMU through `mkMMUAddrServer`, an arbiter
with a FIFO of the masters to answer; software's `addrTrans` uses one of the same ports
behind its back. The MMU answers in order and does not answer what it rejects.

- `dma_setup` (`TranslationOff`, `MastersServed`): a master gets the translation of
  its own request, but for one place for each request its MMU has rejected and each
  `addrTrans` on the same port. As long as nothing is rejected every request is
  answered, also when masters use several MMUs in different orders. Two masters, two MMUs, two requests each, one
  rejection and one `addrTrans`.

A rejected translation does move all later answers of that MMU by one place; nothing in
the code removes the master's entry. The properties say how far this goes.

Fairness: MMUs answer or reject, and the masters take their answers.

## SGList, MMU, DmaManager

`SGList` has the lists of segments `portalmem` can allocate, what
`send_fd_to_portal` computes from such a list (the shifted addresses, borders and
index offsets, modulo the width of an index) and, as reference, the address of an
offset found by walking the list. `MMU` has the identifier generator, the region
registers and page tables, the methods of `MMURequest` and the five rules of the
translation pipeline. A request carries the answer its client wants as a ghost.
`DmaManager` adds the program's thread in `reference` (by the drivers' `SEND_FD`
ioctl, entry by entry) and `dereference`, the poller's thread that posts the
semaphores, and hardware that translates with references in use, behind the end of
a buffer, and with references given back.

- `dma_setup` (`TranslationsRight`, `TablesComplete`, `ReferenceReturns`): pages of 4,
  2 and 1 units stand for those of 1 MB, 64 kB and 4 kB; tables have four entries,
  there are three identifiers and four calls of `reference`, so identifiers are used
  again over old tables, calls have to wait for an identifier, and one buffer has a
  segment of each size. After `reference` has returned the tables describe the buffer
  completely, answers are right, errors are reported only for what is wrong, and
  `reference` returns unless the identifiers are used up.
- `dma_full_table` (violation): a buffer with as many segments as a table has
  entries. The end mark overwrites the first entry and is translated through.

`ReferenceReturns` excepts one case. Identifiers are freed in the order of issue, so
a program that keeps one reference can call `reference` 30 more times in all,
whatever it gives back; the next call does not return. The model shows this case,
`UsedUp`, and that there is no other.

One translation is in progress at a time, on one of the two equal ports; every
stage of it meets every step of the software. `TablesComplete` covers all offsets.
Assumed of the program: one thread refers at a time, a reference is given back when
hardware has stopped using it, and lists are shorter than a table (`MaxSegments`).
Each method of the request portal has its own FIFO; the model has one place for a
call because a call takes many bus cycles to write and one to be taken. That does
not cover translations that are never collected, which could hold up `sglist`.

Fairness: the MMU's rules fire, both threads run, the poller is woken for each
indication (which the indication models show). Nothing obliges the program to call.

## PcieDriver, ZynqDriver, PortalMem

The drivers are models of what they hold. There is no fairness: the run `drivers` has
safety properties only, and nothing obliges a process or the kernel to act.

`PcieDriver`: `board_activate` takes one resource after the other, each of which the
kernel may refuse, and gives them back through a ladder of labels that removal uses
too. Portals can be opened while it goes on; boards are removed under open files, and
given to the next device. An operation on such a file may follow a pointer to what is
gone; the behaviour then stops (`crashed`).

- `BoardsKept`, `FilesKept`: all that was taken is given back, an active board has its
  nodes and interrupts, a board belongs to one device; open files are counted, their
  registers mapped while their board is there, and only a file that outlived its board, or
  the board's last clearing, follows such a pointer. Two devices compete for one
  board, one of them probed twice; three portals at most, two files. `open_count` wraps
  at two in the run, at its own width in the proofs.

The properties name what the code does not keep: the buffers of `portal_mmap` (the
address of one outlives its device, and the next device's portal gets it), the
mappings when bar 0 or bar 2 is not mapped (`goto BARS_ALLOCATED_label`), the
interrupts when one is refused, and the count after a file has outlived its board. Of
`pcieportal_poll` and the ioctls the model has only what they read.

`ZynqDriver`: opening `/dev/connectal` forgets the portals and queues the work that
registers those of the hardware; one static structure carries the work's argument.
Processes open portals, ask for the interrupt, sleep in `portal_poll`. Nothing keeps
`/dev/connectal` from being opened, or the driver from being removed, while portals are
open or the work is pending; `rash` says which of the two there were, `failed` which
kernel calls failed, and `misuse` what the driver then did to freed, missing or
unregistered things. After a misuse a behaviour stops, since nothing can be said of it.

- `PortalsReplaced`: freed `portal_data` is used only through files that were open at an
  opening, or after an opening that found no resources; what is not registered is
  deregistered only after a kernel call failed; NULL is written through only for want of
  memory. Up to then the registered portals are those of the newest opening, all of them
  if no call failed, whatever old files are open, and the handler is called only for a
  registered portal that a process has open. An opening or a removal that overtakes the
  work always deregisters portals the work has not come to (`OvertakenIsLost`), and
  nothing more is claimed of it. Two openings, two portals of three possible, two
  processes.

`portal_open` and `portal_release` initialise the wait queue, so a second opening or a
release empties it under a process that sleeps there; no property is about such sleepers.
The lock that the kernel's `misc_open` holds during `connectal_open`, and that
`misc_deregister` takes, is not modelled.

`PortalMem`: allocation out of blocks of falling size, mapping into a process from any
page for any number of pages, the counted kernel mapping, release. Every kernel call may
fail; where the code then uses what is not there (`oops`), as it does after a failing
`dma_buf_export` or with a buffer that was destroyed, the behaviour stops.

- `PagesExact`, `BuffersKept`: a buffer has the pages asked for, each once, also after
  calls that failed half way; a mapping has the buffer's pages from its offset on;
  `kmap_cnt` is the number of accesses that go on and of vmaps there were, and the kernel
  mapping is there exactly while it is not zero; a buffer is released once for each
  `portalmem_dmabuffer_destroy` and once by the last close.
  Blocks of 4, 2 and 1 pages, 9 pages in all, so that 7 pages come as 4+2+1, as 2+2+2+1
  or as ones, or not at all.

`free_buffer_page` gives no page back (its body is commented out), nor does a failing
allocation; the model keeps the pages taken. `pa_dma_buf_vunmap` does not count down, so
a buffer that was once vmapped stays mapped.

## PortalScript, ProgramRun, the suites

A program of `examples/` is a record of sequences of steps: its main thread, its forked
child, the methods the poller calls; with it goes a table of the answers its hardware
may give: sequences of indications and of work on memory that is right, wrong in a way
the program can see (`Wrong`) or wrong unnoticed (`Missed`). Work without an indication
behind it goes on while the next request is taken. `ProgramRun` interleaves main, child,
poller and hardware. The indications of one method come in their order; the poller may
find those of different methods in any order, as each has its own FIFO. Requests of a
portal are taken in the order in which they were sent. The three suites hold 37 programs.
A buffer is either as expected or not; a loop of a program runs twice; printed timings
are left out.

- `programs` (`VerdictRight`, `ExclusiveUse`, `ProgramsEnd`): a program that judges the
  hardware ends with status 0 and no failed check only when the hardware made no error
  that its answers show, and otherwise only if it did make an error; no
  thread touches a buffer the hardware uses, also not by exiting; no two threads send
  through one portal; every program ends. `claims` says which of these a program is
  meant to satisfy.

What the claims leave out, and why:

- `memcpy` compares in `done` after it has posted the semaphore. Its verdict is right
  because main asks for memory traffic twice before it exits and the same thread serves
  these answers. It is not claimed to leave its buffers alone: the design indicates
  `done` for each burst that ends after the last was asked for, and an error behind the
  first of them may be missed.
- `memread`'s design loads its count of words before it knows their number
  (`Memread.bsv:161`), so its last report comes one beat into the last pass. The rest is
  read silently: what it misreads is forgotten, and main spoils the buffer meanwhile
  (`testmemread.h:171-173`), so that the second test may count too many or too few. Only
  that it ends is claimed.
- `memread2`'s rule `done` (`Memread2.bsv:87-91`) reads the counts in the cycle in which
  the last beat is compared and does not count a mismatch there; if the poller meets that
  mismatch first, the program never ends. Its end is not claimed.
- `memread128` may report before all passes have ended, so that a mismatch is missed.
- `memwrite`'s parent exits with the status `waitpid` gave it, 256 times the child's,
  of which the system keeps the lower byte: always 0. No verdict is claimed for it.
- `strstr` compares the total number of matches in two texts, so that a missed match and
  a false one cancel: an error may be missed.
- `smithwaterman` waits twice for what is indicated once; only "quiet" is claimed.
- `Sleep` is taken to be long enough for hardware and poller to finish.

`FlowControl` (`CreditsKept`): credits are neither made nor lost, so the sink never
makes a put wait. `pthread_cond_wait` is called without a test of `count`, and a signal
sent while main is not waiting is lost, although the comment at `test.cpp:45-46` has it
tell main of the credits; the end of main is claimed for behaviours in which none is. A sink of five places, a
threshold of two, seven values: credits come back in several portions.

`RegexpTokens` (`TextsRight`): the engines search texts that are there and every match
is counted. `setupComplete` posts the semaphore before it stores the token; main may
read an old one (the assertion at `testregexp.cpp:97` guards against one out of range).
The properties are about behaviours in which main reads what was stored (`~stale`). Two
engines, four searches, so each is used again.

`StringSearch` (`SearchRight`): the tables of `mp.h` are those `teststrstr` asserts,
reported positions are occurrences, a needle that does not repeat its first character is
found everywhere, the search ends. All needles of up to four and all texts of up to six
characters over two letters: the loop depends only on equality of characters.

- `string_search_misses` (violation): `compute_MP_next` uses positions counted from 1
  as C indices, so the table is that of the needle without its first character, and an
  occurrence may be skipped: "aab" in "aaab".

Fairness: in these models every step uses up some of a bounded amount of work, so it is
enough that some thread, the poller or the hardware takes a step while one can
(`FlowControl` has fairness of each because of spurious wakeups).

## CommandRing

`examples/ring`: the program writes commands to a ring in memory and asks the design
for its progress every quarter of the ring; the design fetches commands, runs them in
two engines and writes a status per command to a second ring, which the program polls.

- `memory` (`WholeCommands`, `CompletionsExact`, `RingsDrain`): the words an engine gets
  are of one command; the completions in use are those of the commands and statuses on
  their way, each once, and the assertions of the program hold; the program gets all
  completions. Two instances: rings of 4 slots with 8 completions, the fewest that
  suffice, and of 8 slots, where the space is
  asked for before every second command only.

The design acknowledges a command after its first word, and only the slot that is always
left empty keeps the program from overwriting the others. Behaviours start after
`ring_init` and `hwenable`; the start-up thread, which is not joined, is taken to have
left its last `StatusPoll`. Portal calls wait and are not dropped. The last word of a
status, which the program looks at, is written last. The program tells the design every
`StartEvery` commands, which must be fewer than the slots of a ring.

Fairness: the program runs and every rule that can fire fires.

## What is proved

Proved with TLAPS for every value of the constants, from the named assumptions of the
modules and the hypotheses given here. Every inductive invariant was also checked with
TLC on the instances of the runs (`WriteInv`, which bounds two numbers by `Nat` only,
with an interval for `Nat`, two tags and four requests, so that requests are lost).

| Theorems | For all | Hypothesis |
|---|---|---|
| `IndicationProofs`: `Wakeups`, `NoWakeupLost` | finite sets of portals and channels, pollers, owners | `~SMP` |
| `IndicationProofs`: `PcieWakeups`, `PcieNoWakeupLost` | finite sets of portals and channels, depths of FIFO | one poller |
| `SocketProofs`: `LinkKept`, `AnswersAreOwn`, `LevelIsKnown` | numbers of programs, loads, sizes of socket buffers | there is a program |
| `LinkProofs`: `RequestsAreWhole` | interfaces, numbers of readings and of calls | each message has a word |
| `LinkProofs`: `TablesAreExact` | portals, with or without descriptor, connection and handler, and their numbers | |
| `SocketProofs`: `CallsAreOfMessages`, `TableIsPolled` | clients, portals, methods and messages | |
| `LinkProofs`: `RingCorrect`, `TypeCorrect`, `NeverOverwrites`, `RingIsChannel` | memories, message lengths, numbers of messages | more than `2 * reqwords + 4` words of memory |
| `TagGenProofs`: `Inductive`, `TypeCorrect`, `CompStateCorrect`, `PortsNeverCollide`, `CompletesOnlyReturned`, `TagGenIsCompletionOrder` | numbers of tags from 2 on, depths of FIFO | |
| `MemWriteProofs`: `WritesRight` | clients, MMUs, burst lengths, sequences of requests, numbers of tags from 2 on, depths of FIFO | |
| `PcieDriverProofs`: `BoardsInvariant`, `BoardsAreKept`, `FilesAreKept` | devices, numbers of boards and portals, finite sets of files, widths of `open_count` | a device has a portal |
| `DriverProofs`: `PortalsAreReplaced` | numbers of portals and openings, processes | |
| `DriverProofs`: `BuffersAreKept` | block sizes, lengths, finite sets of callers | |

- *Tags.* `IInv` ties together what `CompStateExact` leaves out: the tags between
  `tail_ptr` and `head_ptr` are exactly those held, in `retFifo` or written and not
  yet reported, without duplicates, and an outstanding answer of port B is about
  the tag now at `tail_ptr`. The last part holds because at most one read is
  outstanding (`outFIFODepth = 1`); the library's default depth breaks it. From it
  follow the types, the exactness of the counter, that the ports never write one word
  at a time, and that only returned tags complete. The refinement is proved from it too:
  `getTag` is `Get`, `returnTag` is `Return`, `complete_rule1` that finds a returned tag
  is `Finish`, `complete` is `Take`, every other rule a stutter. The abstract queue of
  tags issued and not finished is the window from `tail_ptr` to `head_ptr`, so most of
  the proof is about that window losing its first and gaining a last element in a ring.
- *Writes.* `RightWrites` speaks of the two ends, memory and the clients; `WriteInv`
  (in `MemServerProofs`) follows a request through the server. `FrontInv`:
  the requests are numbered as they came, those in `lreqFifo` are the last ones, those an
  MMU has are its own in that order, so that the oldest one being translated is the head of
  its MMU's queue; the tag of request *n* is *n* - 1 modulo the number of tags, and the
  tags out are those of fewer consecutive requests than there are tags, so they differ.
  `MovedInv` says which beat memdata moves next and that the three registers of its
  counter agree with it, `StreamInv` that the words a client has yet to hand over and
  those that wait in its port are, in order, those of its own requests that memdata has
  not moved. `ChainInv` and `BusInv` follow the words behind memdata: those in
  `memDataFifo` come one after the other, from the word the bus took last to the one
  memdata moved last, and a burst on the bus has the words up to there. `ReturnedInv`,
  `RespInv` and `DoneInv` are about the way back: a returned tag is of a request that was
  written whole, `respFifos` has the answer of every request whose tag is out, and what
  the clients have been told is a prefix of the requests. Nothing bounds the requests: what
  a client is told is its own request's answer unless that request is lost, and since
  tags are issued in rotation a request is lost only behind more than a round of
  unanswered ones.
- *Zynq.* `NoLostWakeup` speaks of sleeping pollers only; `WakeupInv` follows a portal
  through the loop: a masked portal is about to be enabled by its poller, or it has an
  indication that the poller is bound to see because it has not scanned it yet, has
  found something ready, has been woken, or is being woken.
- *PCIe.* Nothing masks a portal once `portalExec_init` has enabled it (`EnabledInv`).
  A poller that scanned a portal before its indication came has another reason to wake
  up (`AnnouncedInv`): a level that has risen and is not yet sampled, a message under
  way for a portal that has an indication, or such a portal still to be scanned. One
  message for several rises is enough because one poller serves all of them; with two
  pollers the theorem is false, as `pcie_two_pollers` shows.
- *Ring.* `RingInv` says where the unread messages lie (each behind its predecessor or
  at the start of the ring, those before the reader's offset behind all the others),
  what the memory holds, and that the room the writer saw is still there. Without the
  assumption on the size of the memory the first call would never return. The
  refinement is proved from `RingInv`: publishing is `Send`, handling is `Receive`,
  every other step is a stutter or settles a length.
- *Simulator.* A thread asks only while it owns `socket_mutex` (`LockInv`), so a program
  has one read under way at most, in one place: on the way there, at the simulator, on
  the way back or in `shared_response` (`OnceInv`). What is there is the owner's
  (`OwnInv`). That is why the tags may be ignored. For `LevelIsKnown` the invariant
  (`LevelInv`) adds that a program not yet accepted has been sent nothing and takes the
  line to be low; the proof follows the last notice on the way to each program.
- *Request FIFOs.* While a call writes, the shift register ends with the words it has
  written and the FIFO it will need is empty; no other register has a part of a message
  (`FilledInv`). The messages taken and waiting are whole and in the order of the calls
  (`MessagesInv`), and of calls that are over and were not given up (`CallsInv`).
- *Tables.* `TablesExact` is inductive with its types. What is to be proved is that
  removing one entry of a table without duplicates by a shift leaves the others, each
  once, and that the entry is the portal's own unless another one has its number.
- *Sockets.* `CallsAreMessages` speaks of calls only; `ClientInv` says where each client's
  stream is. It holds exactly the words of the messages that have not been handled, or all
  of them but the first when the handler is about to run for this client, and then
  `map_base` is that first word. So `portal_mux_handler` always finds a whole message.
  `SocketInv` keeps this until the first end of file; what it says of the tables
  (`TableInv`) it keeps for ever.
- *PCIe driver.* `BoardInv` says what a device can hold at each stage of `board_activate`
  (`StageInv`), so that each label gives back all that the stages before it took; that a
  device which is neither active nor being activated holds nothing (`NothingHeld`); and
  that an active one has what it needs (`Active`, `Owned`). `FileInv` adds the count: the
  number of open files of a board that are younger than its last clearing, modulo the
  width of `open_count`.
- *Zynq driver.* Up to the first misuse and while the work was not overtaken
  (`CarefulInv`), the registered portals are among those the work has reached, and all of
  them if no call failed (`Registered`); the work's argument is the current opening; every
  open file is of a registered portal or was open at an opening; and an interrupt that is
  on belongs to a registered, open portal. From the state before a misuse its cause
  follows.
- *Buffers.* `kmap_cnt` is the number of callers in an access and of vmaps, and the number
  of releases that of the destroys and of the last close: both are exact, so what
  remains is that a caller in an access keeps the buffer referred to.

## What is only model-checked

- Liveness: it rests on fairness, which the proof system does not treat.
- What is computed by recursion over data: the tables of `StringSearch` (`SearchRight`),
  those `send_fd_to_portal` computes from a list of segments and the reference that
  walks it (`TablesComplete`, `TranslationsRight`), the pages of a sequence of blocks
  (`PagesExact`), the credits summed over a queue (`CreditsKept`). It would take induction
  over sequences, which the installed provers cannot use.
- What speaks of the concrete programs of the suites: `VerdictRight`, `ExclusiveUse`.
- `LeavingBounded`, but for its part `TablePolled`: after the first end of file a handler
  may start in the middle of a message, and no invariant as simple as `ClientInv` holds.
- All properties of `SharedRequestPortal`, `MemRead`, `TranslationPort`,
  `RegexpTokens` and `CommandRing`.

## Not modelled

- Left out of modelled parts: that `region` overtakes the last calls of `sglist`
  (`MMU.bsv:302`), which have a FIFO of their own, while answers nobody takes block the
  tables' port: in `DmaManager` a call is taken before the next is written; the debug and
  traffic counters of the memory server; the path of `reference` in simulation and
  kernel builds; ioctls that only read registers; the trace buffer of `pcieportal`;
  identification and cycle-count registers; the passing of descriptors over sockets.
- Without state of their own: the software MMU server (`MMUServer.h`), the simulator's
  memory (`BsimDma.cxx`), the kernel relay (`bsim_relay.c`, `kernel_module.c`), timers.
- Hardware libraries that are pipelines of FIFOs scheduled by the compiler or routing of
  one request at a time: read and write engines, MIFO, address generator, register
  multiplexers. The models that use them take an in-order queue.
- Packet formats and vendor cores of the PCIe and AXI paths, the code generators except
  the calling sequence of a proxy method, video and sensor devices, floating-point
  libraries (`matmul`, `rbm`).
- Code that no longer matches what it calls: `gralloc/`, the kernel half of
  `portalSocket.c`, `examples/swmemcpy`, `examples/memwrite_4m`, `pcietestbench`,
  `runtest_chunk`.
- Programs that never end or add nothing: `leds`, `tiny3`, `aurora`, `readbw`, the main
  program of `echoshared`'s test, `simplesharedhw`, `memread_4m` (as `memread`),
  `algo2_nandsim` (the loop of `RegexpTokens`), `imageon`, `hdmidisplay`.
