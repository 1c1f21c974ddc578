----------------------------- MODULE PcieDriver -----------------------------
(***************************************************************************)
(* The life of a PCIe board in drivers/pcieportal/pcieportal.c: loading    *)
(* the module, probing and removing boards, and the files of the portals.  *)
(*                                                                         *)
(* board_activate takes one resource of the kernel after the other, any of *)
(* which the kernel may refuse, and gives them back through a ladder of    *)
(* labels.  A portal can be opened as soon as its cdev is added, while     *)
(* board_activate goes on.  A file does not stop a board from being        *)
(* removed; it does stop the module from being unloaded.                   *)
(***************************************************************************)
EXTENDS Integers, Sequences, FiniteSets

CONSTANTS
  Dev,         \* PCI devices
  NumBoards,   \* NUM_BOARDS
  MaxPortals,  \* MAX_NUM_PORTALS
  Portals,     \* the number of portals of each device
  File,        \* files processes may open
  MaxProbes,   \* bound on the probes of each device
  Wrap         \* the number of values of open_count

Board == 0 .. NumBoards - 1
Fpn == 0 .. MaxPortals - 1
NoDev == "none"

ASSUME DevAssumption == NoDev \notin Dev
ASSUME BoardAssumption == NumBoards \in Nat /\ MaxPortals \in Nat \ {0}
\* The last portal of a design is marked as such, so there is one.
ASSUME PortalsAssumption == Portals \in [Dev -> Nat \ {0}]
ASSUME FileAssumption == IsFiniteSet(File)
ASSUME WrapAssumption == Wrap \in Nat \ {0}

VARIABLES
  module,     \* resources of the module: class, region, driver
  held,       \* the resources each device holds
  drvdata,    \* the board of each device, or -1
  board,      \* board_map
  act,        \* where board_activate is
  files,      \* what each file is open on
  probes,     \* number of probes of each device
  lost,       \* resources each device was left without having given back
  shortcut,   \* which of its calls failed, of those that lose some: map, irq
  stray,      \* boards one of whose files outlived the board it was opened on
  virt,       \* portals of boards that have a buffer
  crashed     \* files by way of which the driver followed a pointer that is not valid

boardsVars == <<module, held, drvdata, board, act, files, probes, lost, shortcut, stray, virt, crashed>>

EmptyBoard == [pci_dev |-> NoDev, num_portals |-> 0, open_count |-> 0, regs |-> {}]
Idle == [dev |-> NoDev, board |-> 0, stage |-> "idle", n |-> 0]
Closed == [board |-> -1, portal |-> 0, stale |-> FALSE]

BoardsInit ==
  /\ module = {}
  /\ held = [d \in Dev |-> {}]
  /\ drvdata = [d \in Dev |-> -1]
  /\ board = [b \in Board |-> EmptyBoard]
  /\ act = Idle
  /\ files = [f \in File |-> Closed]
  /\ probes = [d \in Dev |-> 0]
  /\ lost = [d \in Dev |-> {}]
  /\ shortcut = [d \in Dev |-> {}]
  /\ stray = {}
  /\ virt = {}
  /\ crashed = {}

-----------------------------------------------------------------------------
\* Loading and unloading.

\* When pci_register_driver fails the region stays allocated.
pcieportal_init ==
  /\ "driver" \notin module
  /\ module' \in {{"class", "region", "driver"}, module, {"region"}}
  /\ board' = [b \in Board |-> EmptyBoard]
  /\ virt' = {}
  /\ UNCHANGED <<held, drvdata, act, files, probes, lost, shortcut, stray, crashed>>

\* After pci_unregister_driver has removed every device.
pcieportal_exit ==
  /\ "driver" \in module
  /\ act = Idle
  /\ \A d \in Dev : drvdata[d] = -1
  /\ \A f \in File : files[f] = Closed
  /\ module' = {}
  /\ UNCHANGED <<held, drvdata, board, act, files, probes, lost, shortcut, stray, virt, crashed>>

-----------------------------------------------------------------------------
\* board_activate.

Irqs == {<<"irq", i>> : i \in Fpn}
Bars == {<<"bar", i>> : i \in 0..2}
Maps == {<<"map", i>> : i \in 0..2}
Dma == {<<"dma", p>> : p \in Fpn}
Node(i) == {<<"cdev", i>>, <<"node", i>>}
Nodes(n) == UNION {Node(i) : i \in 0 .. n - 1}

\* What the code from a label on gives back.
Labels == <<"deactivate", "MSI_ENABLED", "BARS_MAPPED", "BARS_ALLOCATED", "PCI_DEV_ENABLED", "err_exit">>
\* Mutant: the message interrupts stay enabled.
GivenBack_NoMsix(label, num_portals) ==
  CASE label = "deactivate" -> Nodes(num_portals) \cup {<<"master", 0>>, <<"unmasked", 0>>} \cup Irqs
    [] label = "BARS_MAPPED" -> Maps
    [] label = "BARS_ALLOCATED" -> Bars
    [] label = "PCI_DEV_ENABLED" -> {<<"enabled", 0>>}
    [] label \in {"MSI_ENABLED", "err_exit"} -> {}

GivenBack(label, num_portals) ==
  CASE label = "deactivate" -> Nodes(num_portals) \cup {<<"master", 0>>, <<"unmasked", 0>>} \cup Irqs
    [] label = "MSI_ENABLED" -> {<<"msix", 0>>}
    [] label = "BARS_MAPPED" -> Maps
    [] label = "BARS_ALLOCATED" -> Bars
    [] label = "PCI_DEV_ENABLED" -> {<<"enabled", 0>>}
    [] label = "err_exit" -> {}

Back(label, num_portals) ==
  UNION {GivenBack(Labels[j], num_portals) :
           j \in {k \in DOMAIN Labels : \E i \in 1 .. k : Labels[i] = label}}

\* The end of board_activate from a label on, for a device that holds h.
FromLabel(d, b, label, h) ==
  /\ held' = [held EXCEPT ![d] = {}]
  /\ lost' = [lost EXCEPT ![d] = @ \cup (h \ Back(label, board'[b].num_portals))]
  /\ drvdata' = [drvdata EXCEPT ![d] = -1]
  /\ act' = Idle

\* A kernel call of board_activate that succeeds, and one that fails.
Take(r, stage, n) ==
  /\ held' = [held EXCEPT ![act.dev] = @ \cup r]
  /\ act' = [act EXCEPT !.stage = stage, !.n = n]
  /\ UNCHANGED <<drvdata, board, lost, shortcut>>

Fail(label, r, how) ==
  /\ board' = [board EXCEPT ![act.board].pci_dev = NoDev]
  /\ FromLabel(act.dev, act.board, label, held[act.dev] \cup r)
  /\ shortcut' = [shortcut EXCEPT ![act.dev] = @ \cup how]

pci_enable_device ==
  /\ act.stage = "enable"
  /\ \/ Take({<<"enabled", 0>>}, "bar0", 0)
     \/ Fail("err_exit", {}, {})

\* Only the first region is insisted on.
pci_request_region ==
  /\ act.stage = "bar0"
  /\ \/ \E more \in SUBSET {<<"bar", 1>>, <<"bar", 2>>} : Take({<<"bar", 0>>} \cup more, "map", 0)
     \/ Fail("PCI_DEV_ENABLED", {}, {})

\* Mutant: only bar 0 is insisted on.
pci_iomap_Bar0 ==
  /\ act.stage = "map"
  /\ \E got \in SUBSET Maps :
       IF <<"map", 0>> \in got
       THEN Take(got, "check", 0)
       ELSE Fail("BARS_ALLOCATED", got, {"map"})

\* Bar 1 is tried twice and may stay unmapped; if bar 0 or bar 2 does, the ladder is
\* entered below the label that unmaps.
pci_iomap ==
  /\ act.stage = "map"
  /\ \E got \in SUBSET Maps :
       IF {<<"map", 0>>, <<"map", 2>>} \subseteq got
       THEN Take(got, "check", 0)
       ELSE Fail("BARS_ALLOCATED", got, {"map"})

\* The magic number, the DMA mask and pci_enable_msix.
check_device ==
  /\ act.stage = "check"
  /\ \/ Take({<<"msix", 0>>}, "irq", 0)
     \/ Fail("BARS_MAPPED", {}, {})

\* Mutant: the loop ends one interrupt early.
request_irq_Short ==
  /\ act.stage = "irq"
  /\ \/ /\ act.n + 2 < MaxPortals
        /\ Take({<<"irq", act.n>>}, "irq", act.n + 1)
     \/ /\ act.n + 2 = MaxPortals
        /\ Take({<<"irq", act.n>>, <<"unmasked", 0>>, <<"master", 0>>}, "portal", 0)
     \/ Fail("MSI_ENABLED", {}, {"irq"})

\* After the last interrupt: unmasked, and the board becomes bus master.
request_irq ==
  /\ act.stage = "irq"
  /\ \/ /\ act.n + 1 < MaxPortals
        /\ Take({<<"irq", act.n>>}, "irq", act.n + 1)
     \/ /\ act.n + 1 = MaxPortals
        /\ Take({<<"irq", act.n>>, <<"unmasked", 0>>, <<"master", 0>>}, "portal", 0)
     \/ Fail("MSI_ENABLED", {}, {"irq"})

\* One portal: its registers, its cdev and its device node, then the end of the loop.
cdev_add ==
  LET d == act.dev
      b == act.board
      fpn == act.n
      top == fpn + 1 >= Portals[d]
      full == fpn + 1 >= MaxPortals
  IN
  /\ act.stage = "portal"
  /\ \E added \in BOOLEAN :
       LET err == full \/ ~added
           kept == held[d] \cup (IF added THEN Node(fpn) ELSE {})
           listed == [board[b] EXCEPT !.regs = @ \cup {fpn}, !.num_portals = IF err \/ top THEN fpn + 1 ELSE @]
       IN
       \/ /\ err
          /\ board' = [board EXCEPT ![b] = [listed EXCEPT !.pci_dev = NoDev]]
          /\ FromLabel(d, b, "deactivate", kept)
       \/ /\ ~err
          /\ board' = [board EXCEPT ![b] = listed]
          /\ held' = [held EXCEPT ![d] = kept]
          /\ drvdata' = IF top THEN [drvdata EXCEPT ![d] = b] ELSE drvdata
          /\ act' = IF top THEN Idle ELSE [act EXCEPT !.n = fpn + 1]
          /\ UNCHANGED lost
  /\ UNCHANGED shortcut

board_activate ==
  /\ \/ pci_enable_device \/ pci_request_region \/ pci_iomap
     \/ check_device \/ request_irq \/ cdev_add
  /\ UNCHANGED <<module, files, probes, stray, virt, crashed>>

-----------------------------------------------------------------------------
\* Mutant: boards in use are taken for free ones.
Free_Any == Board

Free == {b \in Board : board[b].pci_dev = NoDev}

\* The first free board is cleared and activated; when there is none, -EBUSY.
pcieportal_probe(d) ==
  /\ "driver" \in module
  /\ act = Idle
  /\ drvdata[d] = -1
  /\ probes[d] < MaxProbes[d]
  /\ probes' = [probes EXCEPT ![d] = @ + 1]
  /\ \/ Free = {} /\ UNCHANGED <<board, act, files, virt>>
     \/ \E b \in Free :
          /\ \A other \in Free : b <= other
          /\ board' = [board EXCEPT ![b] = [EmptyBoard EXCEPT !.pci_dev = d]]
          /\ virt' = virt \ {<<b, p>> : p \in Fpn}
          /\ act' = [dev |-> d, board |-> b, stage |-> "enable", n |-> 0]
          /\ files' = [f \in File |-> IF files[f].board = b THEN [files[f] EXCEPT !.stale = TRUE] ELSE files[f]]
  /\ UNCHANGED <<module, held, drvdata, lost, shortcut, stray, crashed>>

\* board_activate(0): all of the ladder.
pcieportal_remove(d) ==
  /\ act = Idle
  /\ drvdata[d] # -1
  /\ board' = [board EXCEPT ![drvdata[d]].pci_dev = NoDev]
  /\ FromLabel(d, drvdata[d], "deactivate", held[d])
  /\ UNCHANGED <<module, files, probes, shortcut, stray, virt, crashed>>

-----------------------------------------------------------------------------
\* Files.

\* The minor number of a cdev is that of its board and portal.
pcieportal_open(f, b, p) ==
  /\ files[f] = Closed
  /\ \E d \in Dev : board[b].pci_dev = d /\ <<"cdev", p>> \in held[d]
  /\ files' = [files EXCEPT ![f] = [board |-> b, portal |-> p, stale |-> FALSE]]
  /\ board' = [board EXCEPT ![b].open_count = (@ + 1) % Wrap]
  /\ UNCHANGED <<module, held, drvdata, act, probes, lost, shortcut, stray, virt, crashed>>

\* Mutant: open_count stays.
pcieportal_release_NoCount(f) ==
  /\ files[f] # Closed
  /\ files' = [files EXCEPT ![f] = Closed]
  /\ stray' = IF files[f].stale THEN stray \cup {files[f].board} ELSE stray
  /\ UNCHANGED <<module, held, drvdata, board, act, probes, lost, shortcut, virt, crashed>>

\* The portal of a file: the pointers to its board and its registers are set (regs), its
\* device is there, its bars are mapped.
HasBoard(f) == files[f].portal \in board[files[f].board].regs
HasDevice(f) == board[files[f].board].pci_dev # NoDev
Mapped == {<<"map", 0>>, <<"map", 2>>}
HasBars(f) == HasDevice(f) /\ Mapped \subseteq held[board[files[f].board].pci_dev]

\* An operation on a file that follows a pointer to what is not there.
Crash(f) ==
  /\ crashed' = crashed \cup {f}
  /\ UNCHANGED <<module, held, drvdata, board, act, files, probes, lost, shortcut, stray, virt>>

\* A probe clears the pointer to the board until board_activate comes to the portal.
pcieportal_release_crash(f) == files[f] # Closed /\ ~HasBoard(f) /\ Crash(f)

pcieportal_release(f) ==
  LET b == files[f].board IN
  /\ files[f] # Closed
  /\ HasBoard(f)
  /\ files' = [files EXCEPT ![f] = Closed]
  /\ board' = [board EXCEPT ![b].open_count = (@ + Wrap - 1) % Wrap]
  /\ stray' = IF files[f].stale THEN stray \cup {b} ELSE stray
  /\ UNCHANGED <<module, held, drvdata, act, probes, lost, shortcut, virt, crashed>>

\* Below page 16 the registers are mapped, from there on a buffer of the portal, which is
\* allocated once and which nothing gives back.  The registers, and the allocation, take
\* the device from the board.
HasBuffer(f) == <<files[f].board, files[f].portal>> \in virt

portal_mmap_crash(f) ==
  /\ files[f] # Closed
  /\ ~HasBoard(f) \/ ~HasDevice(f)
  /\ Crash(f)

portal_mmap(f) ==
  LET b == files[f].board IN
  /\ files[f] # Closed
  /\ HasBoard(f) /\ HasDevice(f) /\ ~HasBuffer(f)
  /\ held' = [held EXCEPT ![board[b].pci_dev] = @ \cup {<<"dma", files[f].portal>>}]
  /\ virt' = virt \cup {<<b, files[f].portal>>}
  /\ UNCHANGED <<module, drvdata, board, act, files, probes, lost, shortcut, stray, crashed>>

\* Both read registers; pcieportal_poll first looks whether it has their address.
pcieportal_poll(f) == files[f] # Closed /\ HasBoard(f) /\ ~HasBars(f) /\ Crash(f)
pcieportal_ioctl(f) == files[f] # Closed /\ ~(HasBoard(f) /\ HasBars(f)) /\ Crash(f)

\* After such an access there is nothing to say any more.
BoardsNext ==
  /\ crashed = {}
  /\ \/ pcieportal_init
     \/ pcieportal_exit
     \/ board_activate
     \/ \E d \in Dev : pcieportal_probe(d) \/ pcieportal_remove(d)
     \/ \E f \in File :
          \/ pcieportal_release(f) \/ pcieportal_release_crash(f)
          \/ portal_mmap(f) \/ portal_mmap_crash(f)
          \/ pcieportal_poll(f) \/ pcieportal_ioctl(f)
          \/ \E b \in Board, p \in Fpn : pcieportal_open(f, b, p)

BoardsSpec == BoardsInit /\ [][BoardsNext]_boardsVars

-----------------------------------------------------------------------------
\* board_activate gives back all it took when a call fails and when the board is
\* removed, but for the buffers of portal_mmap, for the mappings there are when bar 0
\* or bar 2 is not mapped, and for the interrupts there are when one is refused.
CleanExit ==
  \A d \in Dev :
    lost[d] \subseteq Dma
                     \cup (IF "map" \in shortcut[d] THEN Maps ELSE {})
                     \cup (IF "irq" \in shortcut[d] THEN Irqs ELSE {})

\* A board belongs to one device, and the device knows it when it is active.
OneBoard ==
  /\ \A d, e \in Dev : d # e /\ drvdata[d] # -1 => drvdata[d] # drvdata[e]
  /\ \A d \in Dev : drvdata[d] # -1 => board[drvdata[d]].pci_dev = d
  /\ \A b \in Board : board[b].pci_dev # NoDev =>
       drvdata[board[b].pci_dev] = b \/ (act.dev = board[b].pci_dev /\ act.board = b)

\* While the board a file was opened on is there, the file has its board and the
\* registers that pcieportal_poll and pcieportal_ioctl read are mapped, although
\* board_activate may still be at a later portal.
RegsMapped ==
  \A f \in File : files[f] # Closed /\ ~files[f].stale /\ HasDevice(f) => HasBoard(f) /\ HasBars(f)

\* So only a file that outlived its board, or the board's last clearing, makes the driver
\* follow a pointer to what is gone.
CrashHasCause == \A f \in crashed : files[f].stale \/ ~HasDevice(f)

\* open_count is the number of the board's open files, as far as it can count them,
\* unless a file opened before the board was cleared has been closed since.
Users(b) == {f \in File : files[f].board = b /\ ~files[f].stale}
OpenCount ==
  \A b \in Board : b \notin stray => board[b].open_count = Cardinality(Users(b)) % Wrap

\* The nodes of an active board are those of its portals, and its interrupts are on.
ActiveComplete ==
  \A d \in Dev : drvdata[d] # -1 =>
    /\ {i \in Fpn : Node(i) \subseteq held[d]} = 0 .. Portals[d] - 1
    /\ Irqs \subseteq held[d]
    /\ {<<"master", 0>>, <<"unmasked", 0>>, <<"msix", 0>>} \subseteq held[d]

\* board_activate takes all it needs, for one device a board, and whatever fails or is
\* removed gives it back.
BoardsKept == CleanExit /\ ActiveComplete /\ OneBoard

\* A file of pcieportal is counted, and safe to use, as long as its board is there
\* (pcieportal_open, pcieportal_release, pcieportal_poll, pcieportal_ioctl, portal_mmap).
FilesKept == OpenCount /\ RegsMapped /\ CrashHasCause

-----------------------------------------------------------------------------
\* The inductive invariant of the proofs.

Early == Dma \cup {<<"enabled", 0>>} \cup Bars \cup Maps
Fixed == Early \cup Irqs \cup {<<"msix", 0>>, <<"master", 0>>, <<"unmasked", 0>>}

\* A device whose interrupts are on and whose first n portals have their nodes.
Serves(d, b, n) ==
  /\ held[d] \subseteq Fixed \cup Nodes(n)
  /\ Mapped \cup Irqs \cup {<<"msix", 0>>, <<"master", 0>>, <<"unmasked", 0>>} \subseteq held[d]
  /\ Nodes(n) \subseteq held[d]
  /\ n <= MaxPortals
  /\ 0 .. n - 1 \subseteq board[b].regs

BoardTypes ==
  /\ held \in [Dev -> SUBSET (Fixed \cup Nodes(MaxPortals))]
  /\ drvdata \in [Dev -> Board \cup {-1}]
  /\ board \in [Board -> [pci_dev : Dev \cup {NoDev}, num_portals : Nat,
                          open_count : Nat, regs : SUBSET Fpn]]
  /\ act \in [dev : Dev \cup {NoDev}, board : Nat, n : Nat,
              stage : {"idle", "enable", "bar0", "map", "check", "irq", "portal"}]
  /\ files \in [File -> {Closed} \cup [board : Board, portal : Fpn, stale : BOOLEAN]]
  /\ lost \in [Dev -> SUBSET (Fixed \cup Nodes(MaxPortals))]
  /\ shortcut \in [Dev -> SUBSET {"map", "irq"}]

\* The device that is being activated, with what it holds at each stage.
StageInv ==
  LET d == act.dev
      h == held[act.dev]
      s == act.stage
  IN
  /\ s = "idle" => act = Idle
  /\ s # "idle" => d \in Dev /\ act.board \in Board /\ drvdata[d] = -1 /\ board[act.board].pci_dev = d
  /\ s = "enable" => h \subseteq Dma
  /\ s = "bar0" => h \subseteq Dma \cup {<<"enabled", 0>>}
  /\ s = "map" => h \subseteq Dma \cup {<<"enabled", 0>>} \cup Bars
  /\ s = "check" => h \subseteq Early /\ Mapped \subseteq h
  /\ s = "irq" => /\ h \subseteq Early \cup Irqs \cup {<<"msix", 0>>}
                  /\ Mapped \cup {<<"msix", 0>>} \subseteq h
                  /\ \A i \in 0 .. act.n - 1 : <<"irq", i>> \in h
  /\ s = "portal" => Serves(d, act.board, act.n) /\ act.n < Portals[d] /\ act.n < MaxPortals

Unloaded == "driver" \notin module => act = Idle /\ \A d \in Dev : drvdata[d] = -1

NothingHeld == \A d \in Dev : drvdata[d] = -1 /\ act.dev # d => held[d] = {}

Active ==
  \A d \in Dev : drvdata[d] # -1 =>
    /\ board[drvdata[d]].pci_dev = d
    /\ board[drvdata[d]].num_portals = Portals[d]
    /\ Serves(d, drvdata[d], Portals[d])

Owned ==
  \A b \in Board : board[b].pci_dev # NoDev =>
    drvdata[board[b].pci_dev] = b \/ (act.dev = board[b].pci_dev /\ act.board = b)

BoardInv == BoardTypes /\ StageInv /\ CleanExit /\ Unloaded /\ NothingHeld /\ Active /\ Owned

FilesClosed == "driver" \notin module => \A f \in File : files[f] = Closed

FileInv == BoardInv /\ FilesClosed /\ FilesKept
=============================================================================
