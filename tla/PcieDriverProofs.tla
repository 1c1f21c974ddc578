-------------------------- MODULE PcieDriverProofs --------------------------
(***************************************************************************)
(* Proofs about module PcieDriver, for any number of devices, boards,      *)
(* portals, files and probes.                                              *)
(*                                                                         *)
(* BoardInv says, for the device that board_activate is at, what it holds  *)
(* at each stage, and for every other device that it holds nothing or all  *)
(* of an active board.  A stage that fails enters the ladder of labels at  *)
(* the label that gives back what the stage before it holds (FailKeeps,    *)
(* LadderKeeps).  The files need BoardInv and that an unloaded module has  *)
(* none open.                                                              *)
(***************************************************************************)
EXTENDS PcieDriver, FiniteSetTheorems, TLAPS

\* The SMT solver gets half a minute for a leaf; a leaf for Zenon says so.
USE SMTT(30)

-----------------------------------------------------------------------------
\* The boards of pcieportal.

\* What the code from one label on gives back includes what the code at each later
\* label does.
LEMMA BackIncludes ==
  ASSUME NEW n, NEW i \in 1 .. 6, NEW j \in i .. 6
  PROVE  GivenBack(Labels[j], n) \subseteq Back(Labels[i], n)
<1>1. j \in DOMAIN Labels /\ i \in 1 .. j
  BY DEF Labels
<1>2. j \in {k \in DOMAIN Labels : \E m \in 1 .. k : Labels[m] = Labels[i]}
  BY Zenon, <1>1
<1>3. QED
  BY Zenon, <1>2 DEF Back

\* What each label gives back.
LEMMA BackOf ==
  ASSUME NEW n
  PROVE  /\ {<<"enabled", 0>>} \subseteq Back("PCI_DEV_ENABLED", n)
         /\ {<<"enabled", 0>>} \cup Bars \subseteq Back("BARS_ALLOCATED", n)
         /\ {<<"enabled", 0>>} \cup Bars \cup Maps \subseteq Back("BARS_MAPPED", n)
         /\ {<<"enabled", 0>>, <<"msix", 0>>} \cup Bars \cup Maps \subseteq Back("MSI_ENABLED", n)
         /\ Fixed \ Dma \subseteq Back("deactivate", n)
         /\ Nodes(n) \subseteq Back("deactivate", n)
<1>1. /\ Labels[1] = "deactivate" /\ Labels[2] = "MSI_ENABLED" /\ Labels[3] = "BARS_MAPPED"
      /\ Labels[4] = "BARS_ALLOCATED" /\ Labels[5] = "PCI_DEV_ENABLED"
  BY Zenon DEF Labels
<1>2. /\ GivenBack("MSI_ENABLED", n) = {<<"msix", 0>>}
      /\ GivenBack("BARS_MAPPED", n) = Maps
      /\ GivenBack("BARS_ALLOCATED", n) = Bars
      /\ GivenBack("PCI_DEV_ENABLED", n) = {<<"enabled", 0>>}
  <2>1. GivenBack("MSI_ENABLED", n) = {<<"msix", 0>>}
    BY Zenon DEF GivenBack
  <2>2. GivenBack("BARS_MAPPED", n) = Maps
    BY Zenon DEF GivenBack
  <2>3. GivenBack("BARS_ALLOCATED", n) = Bars
    BY Zenon DEF GivenBack
  <2>4. GivenBack("PCI_DEV_ENABLED", n) = {<<"enabled", 0>>}
    BY Zenon DEF GivenBack
  <2>5. QED
    BY Zenon, <2>1, <2>2, <2>3, <2>4
<1>3. GivenBack("deactivate", n) = Nodes(n) \cup {<<"master", 0>>, <<"unmasked", 0>>} \cup Irqs
  BY Zenon DEF GivenBack
<1>4. {<<"enabled", 0>>} \subseteq Back("PCI_DEV_ENABLED", n)
  BY <1>1, <1>2, BackIncludes
<1>5. {<<"enabled", 0>>} \subseteq Back("BARS_ALLOCATED", n) /\ Bars \subseteq Back("BARS_ALLOCATED", n)
  BY <1>1, <1>2, BackIncludes
<1>6. /\ {<<"enabled", 0>>} \subseteq Back("BARS_MAPPED", n)
      /\ Bars \subseteq Back("BARS_MAPPED", n) /\ Maps \subseteq Back("BARS_MAPPED", n)
  BY <1>1, <1>2, BackIncludes
<1>7. /\ {<<"enabled", 0>>} \subseteq Back("MSI_ENABLED", n) /\ {<<"msix", 0>>} \subseteq Back("MSI_ENABLED", n)
      /\ Bars \subseteq Back("MSI_ENABLED", n) /\ Maps \subseteq Back("MSI_ENABLED", n)
  BY <1>1, <1>2, BackIncludes
<1>8. /\ {<<"enabled", 0>>} \subseteq Back("deactivate", n) /\ {<<"msix", 0>>} \subseteq Back("deactivate", n)
      /\ Bars \subseteq Back("deactivate", n) /\ Maps \subseteq Back("deactivate", n)
      /\ Nodes(n) \cup {<<"master", 0>>, <<"unmasked", 0>>} \cup Irqs \subseteq Back("deactivate", n)
  BY <1>1, <1>2, <1>3, BackIncludes
<1>9. QED
  BY Zenon, <1>4, <1>5, <1>6, <1>7, <1>8 DEF Fixed, Early

\* A device does not know its board and is not the one being activated: it has none.
LEMMA TwoBoards ==
  ASSUME BoardInv, NEW d \in Dev, NEW b \in Board, board[b].pci_dev = d,
         NEW e \in Dev, e # d, drvdata[e] # -1
  PROVE  drvdata[e] \in Board /\ drvdata[e] # b
BY DEF BoardInv, BoardTypes, Active

\* The device being activated or removed has no second board.
LEMMA NoSecondBoard ==
  ASSUME BoardInv, NEW d \in Dev, NEW b \in Board, board[b].pci_dev = d,
         act = Idle \/ (act.dev = d /\ act.board = b),
         NEW c \in Board, c # b, board[c].pci_dev # NoDev
  PROVE  board[c].pci_dev \in Dev \ {d}
<1>1. board[c].pci_dev \in Dev /\ c # -1
  BY DEF BoardInv, BoardTypes, Board
<1>2. CASE act = Idle
  BY <1>1, <1>2, DevAssumption DEF BoardInv, Owned, Idle
<1>3. CASE act.dev = d /\ act.board = b
  <2>1. drvdata[d] = -1
    BY <1>3, DevAssumption DEF BoardInv, StageInv, Idle
  <2>2. QED
    BY Zenon, <1>1, <1>3, <2>1 DEF BoardInv, Owned
<1>4. QED
  BY Zenon, <1>2, <1>3

\* The end of board_activate from a label on, and the removal of a board, for whatever
\* the kernel had given the device.
LEMMA LadderKeeps ==
  ASSUME BoardInv, NEW d \in Dev, NEW b \in Board, board[b].pci_dev = d,
         act = Idle \/ (act.dev = d /\ act.board = b),
         NEW x, board' = [board EXCEPT ![b] = x], x.pci_dev = NoDev,
         x \in [pci_dev : Dev \cup {NoDev}, num_portals : Nat, open_count : Nat, regs : SUBSET Fpn],
         held' = [held EXCEPT ![d] = {}], drvdata' = [drvdata EXCEPT ![d] = -1], act' = Idle,
         CleanExit',
         lost' \in [Dev -> SUBSET (Fixed \cup Nodes(MaxPortals))],
         shortcut' \in [Dev -> SUBSET {"map", "irq"}],
         UNCHANGED <<module, files>>
  PROVE  BoardInv'
<1>1. BoardTypes'
  <2>1. held' \in [Dev -> SUBSET (Fixed \cup Nodes(MaxPortals))]
    BY Zenon DEF BoardInv, BoardTypes
  <2>2. drvdata' \in [Dev -> Board \cup {-1}]
    BY Zenon DEF BoardInv, BoardTypes
  <2>3. board' \in [Board -> [pci_dev : Dev \cup {NoDev}, num_portals : Nat,
                               open_count : Nat, regs : SUBSET Fpn]]
    BY Zenon DEF BoardInv, BoardTypes
  <2>4. act' \in [dev : Dev \cup {NoDev}, board : Nat, n : Nat,
                  stage : {"idle", "enable", "bar0", "map", "check", "irq", "portal"}]
    BY Zenon DEF Idle
  <2>5. QED
    BY Zenon, <2>1, <2>2, <2>3, <2>4 DEF BoardInv, BoardTypes
<1>2. StageInv'
  BY Zenon DEF StageInv, Idle
<1>3. ASSUME NEW e \in Dev, e # d
      PROVE  held'[e] = held[e] /\ drvdata'[e] = drvdata[e] /\ act.dev # e
  BY <1>3, DevAssumption DEF BoardInv, BoardTypes, Idle
<1>4. NothingHeld'
  BY <1>3 DEF BoardInv, BoardTypes, NothingHeld
<1>5. ASSUME NEW e \in Dev, drvdata'[e] # -1
      PROVE  /\ board'[drvdata'[e]].pci_dev = e
             /\ board'[drvdata'[e]].num_portals = Portals[e]
             /\ Serves(e, drvdata[e], Portals[e])'
  <2>1. e # d
    BY Zenon, <1>5 DEF BoardInv, BoardTypes
  <2>2. drvdata'[e] = drvdata[e] /\ held'[e] = held[e] /\ board'[drvdata'[e]] = board[drvdata[e]]
    BY <1>3, <1>5, <2>1, TwoBoards DEF BoardInv, BoardTypes
  <2>3. Serves(e, drvdata[e], Portals[e])
    BY Zenon, <1>5, <2>2 DEF BoardInv, Active
  <2>4. QED
    BY <1>5, <2>2, <2>3 DEF BoardInv, Active, Serves
<1>6. ASSUME NEW c \in Board, board'[c].pci_dev # NoDev
      PROVE  drvdata'[board'[c].pci_dev] = c
  <2>1. c # b /\ board'[c] = board[c] /\ c # -1
    BY <1>6 DEF BoardInv, BoardTypes, Board
  <2>2. board[c].pci_dev \in Dev
    BY Zenon, <1>6, <2>1 DEF BoardInv, BoardTypes
  <2>3. board[c].pci_dev # d
    BY Zenon, <1>6, <2>1, NoSecondBoard
  <2>4. drvdata[board[c].pci_dev] = c
    BY <1>3, <1>6, <2>1, <2>2, <2>3 DEF BoardInv, Owned
  <2>5. QED
    BY Zenon, <1>3, <2>1, <2>2, <2>3, <2>4
<1>7. Unloaded'
  BY Zenon, <1>3 DEF BoardInv, BoardTypes, Unloaded
<1>8. Active' /\ Owned'
  BY Zenon, <1>5, <1>6 DEF Active, Owned
<1>9. QED
  BY Zenon, <1>1, <1>2, <1>4, <1>7, <1>8 DEF BoardInv

\* A kernel call of board_activate that succeeds.
LEMMA TakeKeeps ==
  ASSUME BoardInv, act.stage # "idle", NEW r \in SUBSET Fixed, NEW n \in Nat,
         NEW s \in {"enable", "bar0", "map", "check", "irq", "portal"},
         Take(r, s, n), UNCHANGED <<module, files>>
  PROVE  /\ act.dev \in Dev /\ act.board \in Board
         /\ act'.dev = act.dev /\ act'.board = act.board /\ act'.stage = s /\ act'.n = n
         /\ held'[act.dev] = held[act.dev] \cup r /\ board' = board /\ drvdata' = drvdata
         /\ drvdata[act.dev] = -1 /\ board[act.board].pci_dev = act.dev
         /\ StageInv' => BoardInv'
<1>1. act.dev \in Dev /\ act.board \in Board /\ drvdata[act.dev] = -1 /\ board[act.board].pci_dev = act.dev
  BY Zenon DEF BoardInv, StageInv
<1>2. act'.dev = act.dev /\ act'.board = act.board /\ act'.stage = s /\ act'.n = n
  BY Zenon DEF Take, BoardInv, BoardTypes
<1>3. /\ held'[act.dev] = held[act.dev] \cup r
      /\ \A e \in Dev \ {act.dev} : held'[e] = held[e]
      /\ UNCHANGED <<board, drvdata, lost, shortcut>>
  BY Zenon, <1>1 DEF Take, BoardInv, BoardTypes
<1>4. ASSUME StageInv' PROVE BoardInv'
  <2>1. BoardTypes'
    <3>1. held' \in [Dev -> SUBSET (Fixed \cup Nodes(MaxPortals))]
      BY Zenon, <1>1 DEF Take, BoardInv, BoardTypes
    <3>2. act' \in [dev : Dev \cup {NoDev}, board : Nat, n : Nat,
                    stage : {"idle", "enable", "bar0", "map", "check", "irq", "portal"}]
      BY Zenon DEF Take, BoardInv, BoardTypes
    <3>3. QED
      BY Zenon, <1>3, <3>1, <3>2 DEF BoardInv, BoardTypes
  <2>2. CleanExit'
    BY Zenon, <1>3 DEF BoardInv, CleanExit
  <2>3. Unloaded'
    BY <1>1, DevAssumption DEF BoardInv, Unloaded, Idle
  <2>4. NothingHeld'
    BY Zenon, <1>1, <1>2, <1>3 DEF BoardInv, NothingHeld
  <2>5. ASSUME NEW e \in Dev, drvdata'[e] # -1
        PROVE  /\ board'[drvdata'[e]].pci_dev = e
               /\ board'[drvdata'[e]].num_portals = Portals[e]
               /\ Serves(e, drvdata[e], Portals[e])'
    <3>1. e # act.dev /\ held'[e] = held[e] /\ Serves(e, drvdata[e], Portals[e])
      BY Zenon, <1>1, <1>3, <2>5 DEF BoardInv, Active
    <3>2. QED
      BY Zenon, <1>3, <2>5, <3>1 DEF BoardInv, Active, Serves
  <2>6. Active'
    BY Zenon, <2>5 DEF Active
  <2>7. Owned'
    BY Zenon, <1>2, <1>3 DEF BoardInv, Owned
  <2>8. QED
    BY Zenon, <1>4, <2>1, <2>2, <2>3, <2>4, <2>6, <2>7 DEF BoardInv
<1>5. QED
  BY Zenon, <1>1, <1>2, <1>3, <1>4

\* A kernel call of board_activate that fails, when what the ladder leaves is what the
\* code says it may leave.
LEMMA FailKeeps ==
  ASSUME BoardInv, act.stage # "idle", NEW r \in SUBSET Fixed, NEW how \in SUBSET {"map", "irq"},
         NEW label, Fail(label, r, how), UNCHANGED <<module, files>>,
         \A n \in Nat : (held[act.dev] \cup r) \ Back(label, n) \subseteq
           Dma \cup (IF "map" \in how THEN Maps ELSE {}) \cup (IF "irq" \in how THEN Irqs ELSE {})
  PROVE  BoardInv'
<1>1. act.dev \in Dev /\ act.board \in Board /\ drvdata[act.dev] = -1 /\ board[act.board].pci_dev = act.dev
  BY Zenon DEF BoardInv, StageInv
<1> DEFINE d == act.dev
           b == act.board
           x == [board[b] EXCEPT !.pci_dev = NoDev]
           left == (held[d] \cup r) \ Back(label, board[b].num_portals)
<1>2. /\ board' = [board EXCEPT ![b] = x] /\ x.pci_dev = NoDev
      /\ x \in [pci_dev : Dev \cup {NoDev}, num_portals : Nat, open_count : Nat, regs : SUBSET Fpn]
      /\ board'[b].num_portals = board[b].num_portals
  BY <1>1 DEF Fail, BoardInv, BoardTypes
<1>3. lost' = [lost EXCEPT ![d] = @ \cup left]
  BY Zenon, <1>2 DEF Fail, FromLabel
<1>4. left \subseteq Dma \cup (IF "map" \in how THEN Maps ELSE {}) \cup (IF "irq" \in how THEN Irqs ELSE {})
  BY Zenon, <1>1 DEF BoardInv, BoardTypes
<1>5. shortcut' = [shortcut EXCEPT ![d] = @ \cup how]
  BY Zenon DEF Fail
<1>6. shortcut' \in [Dev -> SUBSET {"map", "irq"}]
  BY Zenon, <1>1, <1>5 DEF BoardInv, BoardTypes
<1>7. lost' \in [Dev -> SUBSET (Fixed \cup Nodes(MaxPortals))]
  BY Zenon, <1>1, <1>3 DEF BoardInv, BoardTypes
<1> HIDE DEF left
<1>8. CleanExit'
  <2> SUFFICES ASSUME NEW e \in Dev
               PROVE  lost'[e] \subseteq Dma \cup (IF "map" \in shortcut'[e] THEN Maps ELSE {})
                                             \cup (IF "irq" \in shortcut'[e] THEN Irqs ELSE {})
    BY Zenon DEF CleanExit
  <2>1. lost[e] \subseteq Dma \cup (IF "map" \in shortcut[e] THEN Maps ELSE {})
                              \cup (IF "irq" \in shortcut[e] THEN Irqs ELSE {})
    BY Zenon DEF BoardInv, CleanExit
  <2>2. CASE e = d
    <3>1. lost'[e] = lost[e] \cup left /\ shortcut'[e] = shortcut[e] \cup how
      BY Zenon, <1>3, <1>5, <2>2 DEF BoardInv, BoardTypes
    <3>2. QED
      BY Zenon, <1>4, <2>1, <3>1
  <2>3. CASE e # d
    BY Zenon, <1>3, <1>5, <2>1, <2>3 DEF BoardInv, BoardTypes
  <2>4. QED
    BY Zenon, <2>2, <2>3
<1>9. held' = [held EXCEPT ![d] = {}] /\ drvdata' = [drvdata EXCEPT ![d] = -1] /\ act' = Idle
  BY Zenon DEF Fail, FromLabel
<1> HIDE DEF x
<1>10. QED
  BY Zenon, <1>1, <1>2, <1>6, <1>7, <1>8, <1>9, LadderKeeps

\* The calls of board_activate up to the loop over the portals.
LEMMA CallsKeep ==
  ASSUME BoardInv, UNCHANGED <<module, files>>,
         pci_enable_device \/ pci_request_region \/ pci_iomap \/ check_device
  PROVE  BoardInv'
<1>1. CASE pci_enable_device
  <2>1. act.stage = "enable" /\ held[act.dev] \subseteq Dma
    BY Zenon, <1>1 DEF pci_enable_device, BoardInv, StageInv
  <2>2. CASE Take({<<"enabled", 0>>}, "bar0", 0)
    <3>1. {<<"enabled", 0>>} \in SUBSET Fixed
      BY Zenon DEF Fixed, Early
    <3>2. StageInv'
      BY Zenon, <2>1, <2>2, <3>1, TakeKeeps DEF StageInv
    <3>3. QED
      BY Zenon, <2>1, <2>2, <3>1, <3>2, TakeKeeps
  <2>3. CASE Fail("err_exit", {}, {})
    BY <2>1, <2>3, FailKeeps
  <2>4. QED
    BY Zenon, <1>1, <2>2, <2>3 DEF pci_enable_device
<1>2. CASE pci_request_region
  <2>1. act.stage = "bar0" /\ held[act.dev] \subseteq Dma \cup {<<"enabled", 0>>}
    BY Zenon, <1>2 DEF pci_request_region, BoardInv, StageInv
  <2>2. ASSUME NEW more \in SUBSET {<<"bar", 1>>, <<"bar", 2>>}, Take({<<"bar", 0>>} \cup more, "map", 0)
        PROVE  BoardInv'
    <3>1. {<<"bar", 0>>} \cup more \subseteq Bars
      BY DEF Bars
    <3>2. {<<"bar", 0>>} \cup more \in SUBSET Fixed
      BY Zenon, <3>1 DEF Fixed, Early
    <3>3. StageInv'
      BY ZenonT(60), <2>1, <2>2, <3>1, <3>2, TakeKeeps DEF StageInv
    <3>4. QED
      BY Zenon, <2>1, <2>2, <3>2, <3>3, TakeKeeps
  <2>3. CASE Fail("PCI_DEV_ENABLED", {}, {})
    BY <2>1, <2>3, FailKeeps, BackOf
  <2>4. QED
    BY Zenon, <1>2, <2>2, <2>3 DEF pci_request_region
<1>3. CASE pci_iomap
  <2>1. act.stage = "map" /\ held[act.dev] \subseteq Dma \cup {<<"enabled", 0>>} \cup Bars
    BY Zenon, <1>3 DEF pci_iomap, BoardInv, StageInv
  <2>2. ASSUME NEW got \in SUBSET Maps, Mapped \subseteq got, Take(got, "check", 0)
        PROVE  BoardInv'
    <3>1. got \in SUBSET Fixed
      BY Zenon DEF Fixed, Early
    <3>2. held[act.dev] \cup got \subseteq Early /\ Mapped \subseteq held[act.dev] \cup got
      BY Zenon, <2>1, <2>2 DEF Early
    <3>3. StageInv'
      BY ZenonT(60), <2>1, <2>2, <3>1, <3>2, TakeKeeps DEF StageInv
    <3>4. QED
      BY Zenon, <2>1, <2>2, <3>1, <3>3, TakeKeeps
  <2>3. ASSUME NEW got \in SUBSET Maps, Fail("BARS_ALLOCATED", got, {"map"})
        PROVE  BoardInv'
    <3>1. got \in SUBSET Fixed
      BY Zenon DEF Fixed, Early
    <3>2. \A n \in Nat : (held[act.dev] \cup got) \ Back("BARS_ALLOCATED", n) \subseteq Dma \cup Maps
      BY Zenon, <2>1, BackOf
    <3>3. QED
      BY Zenon, <2>1, <2>3, <3>1, <3>2, FailKeeps
  <2>4. QED
    BY Zenon, <1>3, <2>2, <2>3 DEF pci_iomap, Mapped
<1>4. CASE check_device
  <2>1. act.stage = "check" /\ held[act.dev] \subseteq Early /\ Mapped \subseteq held[act.dev]
    BY Zenon, <1>4 DEF check_device, BoardInv, StageInv
  <2>2. CASE Take({<<"msix", 0>>}, "irq", 0)
    <3>1. {<<"msix", 0>>} \in SUBSET Fixed
      BY Zenon DEF Fixed
    <3>2. /\ act.dev \in Dev /\ act.board \in Board
          /\ act'.dev = act.dev /\ act'.board = act.board /\ act'.stage = "irq" /\ act'.n = 0
          /\ held'[act.dev] = held[act.dev] \cup {<<"msix", 0>>} /\ board' = board /\ drvdata' = drvdata
          /\ drvdata[act.dev] = -1 /\ board[act.board].pci_dev = act.dev
      BY Zenon, <2>1, <2>2, <3>1, TakeKeeps
    <3>3. /\ held'[act.dev] \subseteq Early \cup Irqs \cup {<<"msix", 0>>}
          /\ Mapped \cup {<<"msix", 0>>} \subseteq held'[act.dev]
          /\ \A i \in 0 .. act'.n - 1 : <<"irq", i>> \in held'[act.dev]
      BY <2>1, <3>2
    <3>4. StageInv'
      BY Zenon, <3>2, <3>3 DEF StageInv
    <3>5. QED
      BY Zenon, <2>1, <2>2, <3>1, <3>4, TakeKeeps
  <2>3. CASE Fail("BARS_MAPPED", {}, {})
    <3>1. \A n \in Nat : (held[act.dev] \cup {}) \ Back("BARS_MAPPED", n) \subseteq Dma
      BY Zenon, <2>1, BackOf DEF Early
    <3>2. QED
      BY <2>1, <2>3, <3>1, FailKeeps
  <2>4. QED
    BY Zenon, <1>4, <2>2, <2>3 DEF check_device
<1>5. QED
  BY Zenon, <1>1, <1>2, <1>3, <1>4

\* The interrupts, one after the other.
LEMMA IrqKeeps ==
  ASSUME BoardInv, UNCHANGED <<module, files>>, request_irq
  PROVE  BoardInv'
<1> USE BoardAssumption
<1> DEFINE h == held[act.dev]
<1>1. /\ act.stage = "irq" /\ h \subseteq Early \cup Irqs \cup {<<"msix", 0>>}
      /\ Mapped \cup {<<"msix", 0>>} \subseteq h
      /\ \A i \in 0 .. act.n - 1 : <<"irq", i>> \in h
  BY Zenon DEF request_irq, BoardInv, StageInv
<1>2. act.n \in Nat /\ act.dev \in Dev /\ Portals[act.dev] \in Nat \ {0}
  BY Zenon, <1>1, PortalsAssumption DEF BoardInv, BoardTypes, StageInv
<1> HIDE DEF h
<1>3. CASE act.n + 1 < MaxPortals /\ Take({<<"irq", act.n>>}, "irq", act.n + 1)
  <2>1. <<"irq", act.n>> \in Irqs
    BY <1>2, <1>3 DEF Irqs, Fpn
  <2>2. {<<"irq", act.n>>} \in SUBSET Fixed /\ act.n + 1 \in Nat
    BY <1>2, <2>1 DEF Fixed
  <2>3. /\ act.dev \in Dev /\ act.board \in Board
        /\ act'.dev = act.dev /\ act'.board = act.board /\ act'.stage = "irq" /\ act'.n = act.n + 1
        /\ held'[act.dev] = h \cup {<<"irq", act.n>>} /\ board' = board /\ drvdata' = drvdata
        /\ drvdata[act.dev] = -1 /\ board[act.board].pci_dev = act.dev
    BY ZenonT(60), <1>1, <1>3, <2>2, TakeKeeps DEF h
  <2>4. ASSUME NEW i \in 0 .. act'.n - 1 PROVE <<"irq", i>> \in held'[act.dev]
    <3>1. i = act.n \/ i \in 0 .. act.n - 1
      BY <1>2, <2>3
    <3>2. QED
      BY Zenon, <1>1, <2>3, <3>1
  <2>5. /\ held'[act.dev] \subseteq Early \cup Irqs \cup {<<"msix", 0>>}
        /\ Mapped \cup {<<"msix", 0>>} \subseteq held'[act.dev]
    BY Zenon, <1>1, <2>1, <2>3
  <2>6. StageInv'
    <3>1. /\ act'.stage = "irq" /\ act'.dev \in Dev /\ act'.board \in Board /\ drvdata'[act'.dev] = -1
          /\ board'[act'.board].pci_dev = act'.dev
      BY Zenon, <2>3
    <3>2. /\ held'[act'.dev] \subseteq Early \cup Irqs \cup {<<"msix", 0>>}
          /\ Mapped \cup {<<"msix", 0>>} \subseteq held'[act'.dev]
          /\ \A i \in 0 .. act'.n - 1 : <<"irq", i>> \in held'[act'.dev]
      BY Zenon, <2>3, <2>4, <2>5
    <3>3. QED
      BY Zenon, <3>1, <3>2 DEF StageInv
  <2>7. QED
    BY Zenon, <1>1, <1>3, <2>2, <2>6, TakeKeeps
<1>4. CASE act.n + 1 = MaxPortals /\ Take({<<"irq", act.n>>, <<"unmasked", 0>>, <<"master", 0>>}, "portal", 0)
  <2> DEFINE r == {<<"irq", act.n>>, <<"unmasked", 0>>, <<"master", 0>>}
  <2>1. <<"irq", act.n>> \in Irqs
    BY <1>2, <1>4 DEF Irqs, Fpn
  <2>2. r \in SUBSET Fixed
    BY Zenon, <2>1 DEF Fixed
  <2>3. /\ act.dev \in Dev /\ act.board \in Board
        /\ act'.dev = act.dev /\ act'.board = act.board /\ act'.stage = "portal" /\ act'.n = 0
        /\ held'[act.dev] = h \cup r /\ board' = board /\ drvdata' = drvdata
        /\ drvdata[act.dev] = -1 /\ board[act.board].pci_dev = act.dev
    BY ZenonT(60), <1>1, <1>4, <2>2, TakeKeeps DEF h
  <2>4. Irqs \subseteq held'[act.dev]
    BY <1>1, <1>2, <1>4, <2>3 DEF Irqs, Fpn
  <2>5. Nodes(0) = {}
    BY DEF Nodes
  <2>6. /\ held'[act.dev] \subseteq Fixed
        /\ Mapped \cup Irqs \cup {<<"msix", 0>>, <<"master", 0>>, <<"unmasked", 0>>} \subseteq held'[act.dev]
    BY Zenon, <1>1, <2>2, <2>3, <2>4 DEF Fixed
  <2>7. Serves(act.dev, act.board, 0)'
    BY <2>3, <2>5, <2>6 DEF Serves
  <2>8. Serves(act.dev, act.board, act.n)' /\ act'.n < Portals[act'.dev] /\ act'.n < MaxPortals
    BY <1>2, <2>3, <2>7
  <2>9. StageInv'
    BY Zenon, <2>3, <2>8 DEF StageInv
  <2>10. QED
    BY Zenon, <1>1, <1>4, <2>2, <2>9, TakeKeeps
<1>5. CASE Fail("MSI_ENABLED", {}, {"irq"})
  <2>1. \A n \in Nat : (held[act.dev] \cup {}) \ Back("MSI_ENABLED", n) \subseteq Dma \cup Irqs
    BY Zenon, <1>1, BackOf DEF Early, h
  <2>2. QED
    BY Zenon, <1>1, <1>5, <2>1, FailKeeps
<1>6. QED
  BY Zenon, <1>3, <1>4, <1>5 DEF request_irq

\* The nodes of one portal more.
LEMMA NodesNext == ASSUME NEW n \in Nat PROVE Nodes(n + 1) = Nodes(n) \cup Node(n)
<1>1. 0 .. (n + 1) - 1 = (0 .. n - 1) \cup {n}
  OBVIOUS
<1>2. QED
  BY Zenon, <1>1 DEF Nodes

LEMMA NodesGrow == ASSUME NEW m \in Nat, NEW n \in Nat, m <= n PROVE Nodes(m) \subseteq Nodes(n)
<1>1. 0 .. m - 1 \subseteq 0 .. n - 1
  OBVIOUS
<1>2. QED
  BY Zenon, <1>1 DEF Nodes

\* Losing a buffer of portal_mmap.
LEMMA LostBuffers ==
  ASSUME BoardInv, NEW d \in Dev, NEW left \in SUBSET Dma,
         lost' = [lost EXCEPT ![d] = @ \cup left], shortcut' = shortcut
  PROVE  CleanExit' /\ lost' \in [Dev -> SUBSET (Fixed \cup Nodes(MaxPortals))]
<1>1. lost' \in [Dev -> SUBSET (Fixed \cup Nodes(MaxPortals))]
  BY Zenon DEF BoardInv, BoardTypes, Fixed, Early
<1>2. ASSUME NEW e \in Dev
      PROVE  lost'[e] \subseteq Dma \cup (IF "map" \in shortcut'[e] THEN Maps ELSE {})
                                    \cup (IF "irq" \in shortcut'[e] THEN Irqs ELSE {})
  <2>1. lost[e] \subseteq Dma \cup (IF "map" \in shortcut[e] THEN Maps ELSE {})
                              \cup (IF "irq" \in shortcut[e] THEN Irqs ELSE {})
    BY Zenon DEF BoardInv, CleanExit
  <2>2. lost'[e] \subseteq lost[e] \cup Dma
    BY Zenon DEF BoardInv, BoardTypes
  <2>3. QED
    BY Zenon, <2>1, <2>2
<1>3. QED
  BY Zenon, <1>1, <1>2 DEF CleanExit

\* One portal of the loop, its end, and its failure.
LEMMA PortalKeeps ==
  ASSUME BoardInv, UNCHANGED <<module, files>>, cdev_add
  PROVE  BoardInv'
<1> USE BoardAssumption
<1>1. /\ act.stage = "portal" /\ act.dev \in Dev /\ act.board \in Board /\ drvdata[act.dev] = -1
      /\ board[act.board].pci_dev = act.dev
      /\ Serves(act.dev, act.board, act.n) /\ act.n < Portals[act.dev] /\ act.n < MaxPortals
  BY Zenon DEF cdev_add, BoardInv, StageInv
<1>2. act.n \in Nat /\ Portals[act.dev] \in Nat \ {0}
  BY Zenon, <1>1, PortalsAssumption DEF BoardInv, BoardTypes
<1> DEFINE d == act.dev
           b == act.board
           fpn == act.n
           top == fpn + 1 >= Portals[d]
           full == fpn + 1 >= MaxPortals
<1>3. PICK added \in BOOLEAN :
        LET err == full \/ ~added
            kept == held[d] \cup (IF added THEN Node(fpn) ELSE {})
            listed == [board[b] EXCEPT !.regs = @ \cup {fpn}, !.num_portals = IF err \/ top THEN fpn + 1 ELSE @]
        IN
        \/ /\ err
           /\ board' = [board EXCEPT ![b] = [listed EXCEPT !.pci_dev = NoDev]]
           /\ FromLabel(d, b, "deactivate", kept)
        \/ /\ ~err
           /\ board' = [board EXCEPT ![b] = listed]
           /\ held' = [held EXCEPT ![d] = kept]
           /\ drvdata' = IF top THEN [drvdata EXCEPT ![d] = b] ELSE drvdata
           /\ act' = IF top THEN Idle ELSE [act EXCEPT !.n = fpn + 1]
           /\ UNCHANGED lost
  BY Zenon DEF cdev_add
<1> DEFINE err == full \/ ~added
           kept == held[d] \cup (IF added THEN Node(fpn) ELSE {})
           listed == [board[b] EXCEPT !.regs = @ \cup {fpn}, !.num_portals = IF err \/ top THEN fpn + 1 ELSE @]
<1>4. shortcut' = shortcut
  BY Zenon DEF cdev_add
<1>5. Nodes(fpn + 1) = Nodes(fpn) \cup Node(fpn)
  BY Zenon, <1>2, NodesNext
<1>6. kept \subseteq Fixed \cup Nodes(fpn + 1)
  BY Zenon, <1>1, <1>5 DEF Serves
<1>7. /\ listed \in [pci_dev : Dev \cup {NoDev}, num_portals : Nat, open_count : Nat, regs : SUBSET Fpn]
      /\ listed.pci_dev = d /\ listed.regs = board[b].regs \cup {fpn}
      /\ (err \/ top => listed.num_portals = fpn + 1)
  <2>1. fpn \in Fpn /\ fpn + 1 \in Nat
    BY <1>1, <1>2 DEF Fpn
  <2>2. board[b] \in [pci_dev : Dev \cup {NoDev}, num_portals : Nat, open_count : Nat, regs : SUBSET Fpn]
    BY Zenon, <1>1 DEF BoardInv, BoardTypes
  <2>3. QED
    BY Zenon, <1>1, <2>1, <2>2
<1>8. CASE /\ err
           /\ board' = [board EXCEPT ![b] = [listed EXCEPT !.pci_dev = NoDev]]
           /\ FromLabel(d, b, "deactivate", kept)
  <2> DEFINE x == [listed EXCEPT !.pci_dev = NoDev]
  <2>1. /\ x \in [pci_dev : Dev \cup {NoDev}, num_portals : Nat, open_count : Nat, regs : SUBSET Fpn]
        /\ x.pci_dev = NoDev /\ x.num_portals = fpn + 1
    BY Zenon, <1>7, <1>8
  <2>2. board' = [board EXCEPT ![b] = x]
    BY Zenon, <1>8
  <2> HIDE DEF x, listed, kept
  <2>3. board'[b].num_portals = fpn + 1
    BY Zenon, <1>1, <2>1, <2>2 DEF BoardInv, BoardTypes
  <2>4. kept \ Back("deactivate", fpn + 1) \subseteq Dma
    BY Zenon, <1>6, BackOf
  <2>5. lost' = [lost EXCEPT ![d] = @ \cup (kept \ Back("deactivate", fpn + 1))]
    BY Zenon, <1>8, <2>3 DEF FromLabel
  <2>6. CleanExit' /\ lost' \in [Dev -> SUBSET (Fixed \cup Nodes(MaxPortals))]
    BY Zenon, <1>1, <1>4, <2>4, <2>5, LostBuffers
  <2>7. shortcut' \in [Dev -> SUBSET {"map", "irq"}]
    BY Zenon, <1>4 DEF BoardInv, BoardTypes
  <2>8. held' = [held EXCEPT ![d] = {}] /\ drvdata' = [drvdata EXCEPT ![d] = -1] /\ act' = Idle
    BY Zenon, <1>8 DEF FromLabel
  <2>9. QED
    BY Zenon, <1>1, <2>1, <2>2, <2>6, <2>7, <2>8, LadderKeeps
<1>9. CASE /\ ~err
           /\ board' = [board EXCEPT ![b] = listed]
           /\ held' = [held EXCEPT ![d] = kept]
           /\ drvdata' = IF top THEN [drvdata EXCEPT ![d] = b] ELSE drvdata
           /\ act' = IF top THEN Idle ELSE [act EXCEPT !.n = fpn + 1]
           /\ UNCHANGED lost
  <2>1. added /\ fpn + 1 < MaxPortals
    BY <1>1, <1>2, <1>9
  <2>2. kept = held[d] \cup Node(fpn) /\ Nodes(fpn + 1) \subseteq kept
    BY Zenon, <1>1, <1>5, <2>1 DEF Serves
  <2> HIDE DEF listed, kept
  <2>3. board'[b] = listed /\ held'[d] = kept
    BY Zenon, <1>1, <1>9 DEF BoardInv, BoardTypes
  <2>4. 0 .. fpn \subseteq listed.regs
    BY <1>1, <1>2, <1>7 DEF Serves
  <2>5. /\ held'[d] \subseteq Fixed \cup Nodes(fpn + 1)
        /\ Mapped \cup Irqs \cup {<<"msix", 0>>, <<"master", 0>>, <<"unmasked", 0>>} \subseteq held'[d]
        /\ Nodes(fpn + 1) \subseteq held'[d]
        /\ fpn + 1 <= MaxPortals
        /\ 0 .. fpn \subseteq board'[b].regs
    BY <1>1, <1>2, <1>6, <2>1, <2>2, <2>3, <2>4 DEF Serves
  <2>6. ASSUME NEW e \in Dev, e # d
        PROVE  /\ held'[e] = held[e] /\ drvdata'[e] = drvdata[e] /\ act.dev # e /\ act'.dev # e
               /\ (drvdata[e] # -1 => board'[drvdata[e]] = board[drvdata[e]])
    <3>1. held'[e] = held[e] /\ drvdata'[e] = drvdata[e] /\ act.dev # e
      BY Zenon, <1>9, <2>6 DEF BoardInv, BoardTypes
    <3>2. act'.dev # e
      BY Zenon, <1>9, <2>6, DevAssumption DEF BoardInv, BoardTypes, Idle
    <3>3. drvdata[e] # -1 => board'[drvdata[e]] = board[drvdata[e]]
      BY Zenon, <1>1, <1>9, <2>6, TwoBoards DEF BoardInv, BoardTypes
    <3>4. QED
      BY Zenon, <3>1, <3>2, <3>3
  <2>7. BoardTypes'
    <3>1. Nodes(fpn + 1) \subseteq Nodes(MaxPortals)
      BY <1>2, <2>1, NodesGrow
    <3>2. held' \in [Dev -> SUBSET (Fixed \cup Nodes(MaxPortals))]
      BY Zenon, <1>1, <1>6, <1>9, <3>1 DEF BoardInv, BoardTypes
    <3>3. drvdata' \in [Dev -> Board \cup {-1}]
      BY Zenon, <1>1, <1>9 DEF BoardInv, BoardTypes
    <3>4. board' \in [Board -> [pci_dev : Dev \cup {NoDev}, num_portals : Nat,
                                open_count : Nat, regs : SUBSET Fpn]]
      BY Zenon, <1>7, <1>9 DEF BoardInv, BoardTypes
    <3>5. act' \in [dev : Dev \cup {NoDev}, board : Nat, n : Nat,
                    stage : {"idle", "enable", "bar0", "map", "check", "irq", "portal"}]
      BY <1>2, <1>9 DEF BoardInv, BoardTypes, Idle
    <3>6. QED
      BY <1>4, <1>9, <3>2, <3>3, <3>4, <3>5 DEF BoardInv, BoardTypes
  <2>8. CleanExit'
    BY Zenon, <1>4, <1>9 DEF BoardInv, CleanExit
  <2>9. Unloaded'
    BY <1>1, DevAssumption DEF BoardInv, Unloaded, Idle
  <2>10. CASE top
    <3>1. act' = Idle /\ drvdata'[d] = b /\ Portals[d] = fpn + 1 /\ b # -1
      BY <1>1, <1>2, <1>9, <2>10 DEF BoardInv, BoardTypes, Board
    <3>2. StageInv'
      BY Zenon, <3>1 DEF StageInv, Idle
    <3>3. NothingHeld'
      BY <2>6, <3>1 DEF BoardInv, NothingHeld
    <3>4. ASSUME NEW e \in Dev, drvdata'[e] # -1
          PROVE  /\ board'[drvdata'[e]].pci_dev = e
                 /\ board'[drvdata'[e]].num_portals = Portals[e]
                 /\ Serves(e, drvdata[e], Portals[e])'
      <4>1. CASE e = d
        <5>1. board'[drvdata'[e]].pci_dev = e /\ board'[drvdata'[e]].num_portals = Portals[e]
          BY <1>7, <2>3, <2>10, <3>1, <4>1
        <5>2. 0 .. Portals[e] - 1 = 0 .. fpn
          BY <1>2, <3>1, <4>1
        <5>3. Serves(e, drvdata[e], Portals[e])'
          BY ZenonT(60), <2>5, <3>1, <4>1, <5>2 DEF Serves
        <5>4. QED
          BY Zenon, <5>1, <5>3
      <4>2. CASE e # d
        <5>1. Serves(e, drvdata[e], Portals[e])
          BY Zenon, <2>6, <3>4, <4>2 DEF BoardInv, Active
        <5>2. QED
          BY <2>6, <3>4, <4>2, <5>1 DEF BoardInv, Active, Serves
      <4>3. QED
        BY Zenon, <4>1, <4>2
    <3>5. Active'
      BY Zenon, <3>4 DEF Active
    <3>6. Owned'
      <4> SUFFICES ASSUME NEW c \in Board, board'[c].pci_dev # NoDev
                   PROVE  drvdata'[board'[c].pci_dev] = c
        BY Zenon DEF Owned
      <4>1. CASE c = b
        BY Zenon, <1>7, <2>3, <3>1, <4>1
      <4>2. CASE c # b
        <5>1. board'[c] = board[c] /\ board[c].pci_dev \in Dev /\ c # -1
          BY <1>9, <4>2 DEF BoardInv, BoardTypes, Board
        <5>2. drvdata[board[c].pci_dev] = c /\ board[c].pci_dev # d
          BY <1>1, <4>2, <5>1 DEF BoardInv, Owned
        <5>3. QED
          BY Zenon, <2>6, <5>1, <5>2
      <4>3. QED
        BY Zenon, <4>1, <4>2
    <3>7. QED
      BY Zenon, <2>7, <2>8, <2>9, <3>2, <3>3, <3>5, <3>6 DEF BoardInv
  <2>11. CASE ~top
    <3>1. /\ act'.dev = d /\ act'.board = b /\ act'.n = fpn + 1 /\ act'.stage = "portal"
          /\ drvdata' = drvdata /\ fpn + 1 < Portals[d]
      BY <1>1, <1>2, <1>9, <2>11 DEF BoardInv, BoardTypes
    <3>2. StageInv'
      <4>1. 0 .. act'.n - 1 = 0 .. fpn
        BY <1>2, <3>1
      <4>2. Serves(act.dev, act.board, act.n)'
        BY ZenonT(60), <2>5, <3>1, <4>1 DEF Serves
      <4>3. /\ act'.dev \in Dev /\ act'.board \in Board /\ drvdata'[act'.dev] = -1
            /\ board'[act'.board].pci_dev = act'.dev
        BY Zenon, <1>1, <1>7, <2>3, <3>1
      <4>4. act'.n < Portals[act'.dev] /\ act'.n < MaxPortals
        BY Zenon, <2>1, <3>1
      <4>5. QED
        BY Zenon, <3>1, <4>2, <4>3, <4>4 DEF StageInv
    <3>3. NothingHeld'
      BY <2>6, <3>1 DEF BoardInv, NothingHeld
    <3>4. ASSUME NEW e \in Dev, drvdata'[e] # -1
          PROVE  /\ board'[drvdata'[e]].pci_dev = e
                 /\ board'[drvdata'[e]].num_portals = Portals[e]
                 /\ Serves(e, drvdata[e], Portals[e])'
      <4>1. e # d /\ Serves(e, drvdata[e], Portals[e])
        BY Zenon, <1>1, <3>1, <3>4 DEF BoardInv, Active
      <4>2. QED
        BY <2>6, <3>1, <3>4, <4>1 DEF BoardInv, Active, Serves
    <3>5. Active'
      BY Zenon, <3>4 DEF Active
    <3>6. Owned'
      <4> SUFFICES ASSUME NEW c \in Board, board'[c].pci_dev # NoDev
                   PROVE  drvdata'[board'[c].pci_dev] = c \/ (act'.dev = board'[c].pci_dev /\ act'.board = c)
        BY Zenon DEF Owned
      <4>1. CASE c = b
        BY <1>7, <2>3, <3>1, <4>1
      <4>2. CASE c # b
        <5>1. board'[c] = board[c]
          BY Zenon, <1>9, <4>2 DEF BoardInv, BoardTypes
        <5>2. QED
          BY Zenon, <3>1, <4>2, <5>1 DEF BoardInv, Owned
      <4>3. QED
        BY Zenon, <4>1, <4>2
    <3>7. QED
      BY Zenon, <2>7, <2>8, <2>9, <3>2, <3>3, <3>5, <3>6 DEF BoardInv
  <2>12. QED
    BY Zenon, <2>10, <2>11
<1>10. QED
  BY Zenon, <1>3, <1>8, <1>9

\* Probing a device that has no board.
LEMMA ProbeKeeps ==
  ASSUME BoardInv, NEW d \in Dev, pcieportal_probe(d)
  PROVE  BoardInv'
<1>1. act = Idle /\ drvdata[d] = -1 /\ "driver" \in module /\ held[d] = {} /\ act.dev = NoDev
  BY Zenon, DevAssumption DEF pcieportal_probe, BoardInv, NothingHeld, Idle
<1>2. UNCHANGED <<module, held, drvdata, lost, shortcut>>
  BY Zenon DEF pcieportal_probe
<1>3. CASE UNCHANGED <<board, act, files>>
  BY ZenonT(60), <1>2, <1>3 DEF BoardInv, BoardTypes, StageInv, Serves, CleanExit, Unloaded, NothingHeld, Active, Owned
<1>4. ASSUME NEW b \in Free,
             board' = [board EXCEPT ![b] = [EmptyBoard EXCEPT !.pci_dev = d]],
             act' = [dev |-> d, board |-> b, stage |-> "enable", n |-> 0],
             files' = [f \in File |-> IF files[f].board = b THEN [files[f] EXCEPT !.stale = TRUE] ELSE files[f]]
      PROVE  BoardInv'
  <2>1. b \in Board /\ b \in Nat /\ board[b].pci_dev = NoDev
    BY BoardAssumption DEF Free, Board
  <2>2. /\ board'[b].pci_dev = d /\ \A c \in Board \ {b} : board'[c] = board[c]
        /\ board' \in [Board -> [pci_dev : Dev \cup {NoDev}, num_portals : Nat,
                                 open_count : Nat, regs : SUBSET Fpn]]
    BY Zenon, <1>4, <2>1 DEF EmptyBoard, BoardInv, BoardTypes
  <2>3. BoardTypes'
    <3>1. act' \in [dev : Dev \cup {NoDev}, board : Nat, n : Nat,
                    stage : {"idle", "enable", "bar0", "map", "check", "irq", "portal"}]
      BY Zenon, <1>4, <2>1
    <3>2. files' \in [File -> {Closed} \cup [board : Board, portal : Fpn, stale : BOOLEAN]]
      <4>1. ASSUME NEW f \in File
            PROVE  files'[f] \in {Closed} \cup [board : Board, portal : Fpn, stale : BOOLEAN]
        <5>1. files[f].board = b => files[f] # Closed
          BY <2>1 DEF Closed
        <5>2. QED
          BY ZenonT(60), <1>4, <5>1 DEF BoardInv, BoardTypes
      <4>2. QED
        BY Zenon, <1>4, <4>1
    <3>3. QED
      BY Zenon, <1>2, <2>2, <3>1, <3>2 DEF BoardInv, BoardTypes
  <2>4. /\ act'.dev = d /\ act'.board = b /\ act'.stage = "enable"
    BY Zenon, <1>4
  <2>5. StageInv'
    BY Zenon, <1>1, <1>2, <2>1, <2>2, <2>4 DEF StageInv
  <2>6. CleanExit' /\ Unloaded'
    BY Zenon, <1>1, <1>2 DEF BoardInv, CleanExit, Unloaded
  <2>7. NothingHeld'
    BY Zenon, <1>1, <1>2, DevAssumption DEF BoardInv, NothingHeld
  <2>8. ASSUME NEW e \in Dev, drvdata'[e] # -1
         PROVE  /\ board'[drvdata'[e]].pci_dev = e
                /\ board'[drvdata'[e]].num_portals = Portals[e]
                /\ Serves(e, drvdata[e], Portals[e])'
    <3>1. board[drvdata[e]].pci_dev = e /\ Serves(e, drvdata[e], Portals[e]) /\ drvdata[e] \in Board
      BY <1>2, <2>8 DEF BoardInv, BoardTypes, Active
    <3>2. drvdata[e] # b
      BY Zenon, <2>1, <3>1, DevAssumption
    <3>3. QED
      BY Zenon, <1>2, <2>2, <2>8, <3>1, <3>2 DEF BoardInv, Active, Serves
  <2>9. Active'
    BY Zenon, <2>8 DEF Active
  <2>10. Owned'
    <3> SUFFICES ASSUME NEW c \in Board, board'[c].pci_dev # NoDev
                 PROVE  drvdata'[board'[c].pci_dev] = c \/ (act'.dev = board'[c].pci_dev /\ act'.board = c)
      BY Zenon DEF Owned
    <3>1. CASE c = b
      BY <2>2, <2>4, <3>1
    <3>2. CASE c # b
      BY <1>1, <1>2, <2>2, <3>2, DevAssumption DEF BoardInv, Owned
    <3>3. QED
      BY Zenon, <3>1, <3>2
  <2>11. QED
    BY Zenon, <2>3, <2>5, <2>6, <2>7, <2>9, <2>10 DEF BoardInv
<1>5. QED
  BY Zenon, <1>3, <1>4 DEF pcieportal_probe

\* Removing a board.
LEMMA RemoveKeeps ==
  ASSUME BoardInv, NEW d \in Dev, pcieportal_remove(d)
  PROVE  BoardInv'
<1>1. /\ act = Idle /\ drvdata[d] # -1 /\ drvdata[d] \in Board
      /\ board[drvdata[d]].pci_dev = d /\ board[drvdata[d]].num_portals = Portals[d]
      /\ Serves(d, drvdata[d], Portals[d])
  BY DEF pcieportal_remove, BoardInv, BoardTypes, Active
<1>2. PICK b \in Board : b = drvdata[d] /\ board[b].pci_dev = d
  BY Zenon, <1>1
<1> DEFINE x == [board[b] EXCEPT !.pci_dev = NoDev]
<1>4. /\ x \in [pci_dev : Dev \cup {NoDev}, num_portals : Nat, open_count : Nat, regs : SUBSET Fpn]
      /\ x.pci_dev = NoDev /\ x.num_portals = Portals[d]
  BY <1>1, <1>2 DEF BoardInv, BoardTypes
<1>5. board' = [board EXCEPT ![b] = x]
  BY Zenon, <1>2 DEF pcieportal_remove
<1> HIDE DEF x
<1>6. board'[b].num_portals = Portals[d]
  BY Zenon, <1>4, <1>5 DEF BoardInv, BoardTypes
<1>7. /\ held' = [held EXCEPT ![d] = {}] /\ drvdata' = [drvdata EXCEPT ![d] = -1] /\ act' = Idle
      /\ lost' = [lost EXCEPT ![d] = @ \cup (held[d] \ Back("deactivate", Portals[d]))]
      /\ UNCHANGED <<module, files, shortcut>>
  BY Zenon, <1>2, <1>6 DEF pcieportal_remove, FromLabel
<1>8. held[d] \ Back("deactivate", Portals[d]) \subseteq Dma
  BY Zenon, <1>1, BackOf DEF Serves
<1>9. CleanExit' /\ lost' \in [Dev -> SUBSET (Fixed \cup Nodes(MaxPortals))]
  BY Zenon, <1>7, <1>8, LostBuffers
<1>10. shortcut' \in [Dev -> SUBSET {"map", "irq"}]
  BY Zenon, <1>7 DEF BoardInv, BoardTypes
<1>11. act = Idle \/ (act.dev = d /\ act.board = b)
  BY <1>1, Zenon
<1>12. UNCHANGED <<module, files>>
  BY Zenon, <1>7
<1>13. /\ x \in [pci_dev : Dev \cup {NoDev}, num_portals : Nat, open_count : Nat, regs : SUBSET Fpn]
       /\ held' = [held EXCEPT ![d] = {}] /\ drvdata' = [drvdata EXCEPT ![d] = -1] /\ act' = Idle
  BY Zenon, <1>4, <1>7
<1>14. QED
  BY ZenonT(60), <1>2, <1>4, <1>5, <1>9, <1>10, <1>11, <1>12, <1>13, LadderKeeps

\* A step that only counts an open file changes nothing else of the boards.
LEMMA CountKeeps ==
  ASSUME BoardInv, NEW b \in Board, NEW v \in Nat, board' = [board EXCEPT ![b].open_count = v],
         UNCHANGED <<module, held, drvdata, act, lost, shortcut>>,
         files' \in [File -> {Closed} \cup [board : Board, portal : Fpn, stale : BOOLEAN]]
  PROVE  BoardInv'
<1>1. /\ board' \in [Board -> [pci_dev : Dev \cup {NoDev}, num_portals : Nat,
                               open_count : Nat, regs : SUBSET Fpn]]
      /\ \A c \in Board : /\ board'[c].pci_dev = board[c].pci_dev
                          /\ board'[c].num_portals = board[c].num_portals
                          /\ board'[c].regs = board[c].regs
  BY DEF BoardInv, BoardTypes
<1>2. BoardTypes'
  BY Zenon, <1>1 DEF BoardInv, BoardTypes
<1>3. ASSUME NEW d \in Dev, NEW c \in Board, NEW n, Serves(d, c, n) PROVE Serves(d, c, n)'
  BY Zenon, <1>1, <1>3 DEF Serves
<1>4. StageInv'
  BY Zenon, <1>1, <1>3 DEF BoardInv, StageInv
<1>5. CleanExit' /\ Unloaded' /\ NothingHeld'
  BY Zenon DEF BoardInv, CleanExit, Unloaded, NothingHeld
<1>6. Active'
  BY <1>1, <1>3 DEF BoardInv, BoardTypes, Active
<1>7. Owned'
  BY <1>1 DEF BoardInv, Owned
<1>8. QED
  BY Zenon, <1>2, <1>4, <1>5, <1>6, <1>7 DEF BoardInv

\* A file that is open has its board and its portal.
LEMMA OpenFile ==
  ASSUME BoardTypes, NEW f \in File, files[f] # Closed
  PROVE  files[f] \in [board : Board, portal : Fpn, stale : BOOLEAN]
BY Zenon DEF BoardTypes

\* A buffer more for a device that has a board.
LEMMA MmapKeeps ==
  ASSUME BoardInv, NEW f \in File, portal_mmap(f)
  PROVE  BoardInv'
<1>1. files[f] \in [board : Board, portal : Fpn, stale : BOOLEAN]
  BY Zenon, OpenFile DEF portal_mmap, BoardInv
<1>2. PICK d \in Dev : d = board[files[f].board].pci_dev
  BY Zenon, <1>1 DEF portal_mmap, HasDevice, BoardInv, BoardTypes
<1>3. PICK r \in Dma : r = <<"dma", files[f].portal>>
  BY ZenonT(60), <1>1 DEF Dma
<1>4. /\ held' = [held EXCEPT ![d] = @ \cup {r}]
      /\ UNCHANGED <<module, drvdata, board, act, files, lost, shortcut>>
  BY Zenon, <1>2, <1>3 DEF portal_mmap
<1>5. /\ held'[d] = held[d] \cup {r} /\ \A e \in Dev \ {d} : held'[e] = held[e]
      /\ held' \in [Dev -> SUBSET (Fixed \cup Nodes(MaxPortals))]
  BY <1>4 DEF BoardInv, BoardTypes, Fixed, Early
<1>6. drvdata[d] # -1 \/ act.dev = d
  BY <1>1, <1>2, DevAssumption DEF BoardInv, Owned, Board
<1>7. BoardTypes'
  BY Zenon, <1>4, <1>5 DEF BoardInv, BoardTypes
<1>8. ASSUME NEW e \in Dev, NEW c, NEW n, Serves(e, c, n) PROVE Serves(e, c, n)'
  BY Zenon, <1>4, <1>5, <1>8 DEF Serves, Fixed, Early
<1>9. StageInv'
  <2>1. CASE act.dev = d
    <3>1. PICK h, s, g : h = held[d] /\ s = act.stage /\ g = held'[d]
      BY Zenon
    <3>2. act' = act /\ drvdata' = drvdata /\ board' = board /\ g = h \cup {r} /\ r \in Dma
      BY Zenon, <1>4, <1>5, <3>1
    <3>3. /\ s = "idle" => act = Idle
          /\ s # "idle" => /\ d \in Dev /\ act.board \in Board /\ drvdata[d] = -1
                           /\ board[act.board].pci_dev = d
      BY Zenon, <2>1, <3>1 DEF BoardInv, StageInv
    <3>4. /\ s = "enable" => h \subseteq Dma
          /\ s = "bar0" => h \subseteq Dma \cup {<<"enabled", 0>>}
          /\ s = "map" => h \subseteq Dma \cup {<<"enabled", 0>>} \cup Bars
          /\ s = "check" => h \subseteq Early /\ Mapped \subseteq h
      BY Zenon, <2>1, <3>1 DEF BoardInv, StageInv
    <3>5. s = "irq" => /\ h \subseteq Early \cup Irqs \cup {<<"msix", 0>>}
                       /\ Mapped \cup {<<"msix", 0>>} \subseteq h
                       /\ \A i \in 0 .. act.n - 1 : <<"irq", i>> \in h
      BY Zenon, <2>1, <3>1 DEF BoardInv, StageInv
    <3>6. s = "portal" => Serves(d, act.board, act.n) /\ act.n < Portals[d] /\ act.n < MaxPortals
      BY Zenon, <2>1, <3>1 DEF BoardInv, StageInv
    <3>7. /\ s = "enable" => g \subseteq Dma
          /\ s = "bar0" => g \subseteq Dma \cup {<<"enabled", 0>>}
          /\ s = "map" => g \subseteq Dma \cup {<<"enabled", 0>>} \cup Bars
      BY Zenon, <3>2, <3>4
    <3>8. s = "check" => g \subseteq Early /\ Mapped \subseteq g
      BY Zenon, <3>2, <3>4 DEF Early
    <3>9. s = "irq" => /\ g \subseteq Early \cup Irqs \cup {<<"msix", 0>>}
                       /\ Mapped \cup {<<"msix", 0>>} \subseteq g
                       /\ \A i \in 0 .. act.n - 1 : <<"irq", i>> \in g
      BY Zenon, <3>2, <3>5 DEF Early
    <3>10. s = "portal" => Serves(d, act.board, act.n)' /\ act.n < Portals[d] /\ act.n < MaxPortals
      BY Zenon, <1>8, <3>2, <3>6
    <3>11. QED
      BY Zenon, <2>1, <3>1, <3>2, <3>3, <3>7, <3>8, <3>9, <3>10 DEF StageInv
  <2>2. CASE act.dev # d
    <3>1. CASE act.stage = "idle"
      BY ZenonT(60), <1>4, <3>1 DEF BoardInv, StageInv
    <3>2. CASE act.stage # "idle"
      BY <1>4, <1>5, <1>8, <2>2, <3>2 DEF BoardInv, StageInv
    <3>3. QED
      BY Zenon, <3>1, <3>2
  <2>3. QED
    BY Zenon, <2>1, <2>2
<1>10. CleanExit' /\ Unloaded' /\ Owned'
  BY Zenon, <1>4 DEF BoardInv, CleanExit, Unloaded, Owned
<1>11. NothingHeld'
  BY Zenon, <1>4, <1>5, <1>6 DEF BoardInv, NothingHeld
<1>12. Active'
  BY Zenon, <1>4, <1>8 DEF BoardInv, Active
<1>13. QED
  BY Zenon, <1>7, <1>9, <1>10, <1>11, <1>12 DEF BoardInv

\* Loading and unloading the module.
LEMMA LoadKeeps ==
  ASSUME BoardInv, pcieportal_init \/ pcieportal_exit
  PROVE  BoardInv'
<1>1. CASE pcieportal_init
  <2>1. /\ act = Idle /\ \A d \in Dev : drvdata[d] = -1
        /\ board' = [b \in Board |-> EmptyBoard]
        /\ UNCHANGED <<held, drvdata, act, files, lost, shortcut>>
    BY Zenon, <1>1 DEF pcieportal_init, BoardInv, Unloaded
  <2>2. \A b \in Board : board'[b].pci_dev = NoDev
    BY Zenon, <2>1 DEF EmptyBoard
  <2>3. BoardTypes'
    BY Zenon, <2>1 DEF BoardInv, BoardTypes, EmptyBoard
  <2>4. StageInv'
    <3>1. act' = Idle /\ act'.stage = "idle"
      BY Zenon, <2>1 DEF Idle
    <3>2. QED
      BY Zenon, <3>1 DEF StageInv
  <2>5. QED
    BY ZenonT(60), <2>1, <2>2, <2>3, <2>4 DEF BoardInv, CleanExit, Unloaded, NothingHeld, Active, Owned
<1>2. CASE pcieportal_exit
  <2>1. /\ act = Idle /\ \A d \in Dev : drvdata[d] = -1
        /\ UNCHANGED <<held, drvdata, board, act, files, lost, shortcut>>
    BY Zenon, <1>2 DEF pcieportal_exit
  <2>2. BoardTypes'
    BY Zenon, <2>1 DEF BoardInv, BoardTypes
  <2>3. StageInv'
    BY Zenon, <2>1 DEF StageInv, Idle
  <2>4. QED
    BY Zenon, <2>1, <2>2, <2>3 DEF BoardInv, CleanExit, Unloaded, NothingHeld, Active, Owned
<1>3. QED
  BY Zenon, <1>1, <1>2

\* Opening and closing a file.
LEMMA FilesTyped ==
  ASSUME BoardInv, NEW f \in File
  PROVE  /\ \A b \in Board, p \in Fpn : pcieportal_open(f, b, p) => BoardInv'
         /\ pcieportal_release(f) => BoardInv'
<1> USE WrapAssumption
<1>1. ASSUME NEW b \in Board, NEW p \in Fpn, pcieportal_open(f, b, p) PROVE BoardInv'
  <2>1. board[b].open_count \in Nat
    BY Zenon DEF BoardInv, BoardTypes
  <2>2. (board[b].open_count + 1) % Wrap \in Nat
    BY <2>1
  <2>3. board' = [board EXCEPT ![b].open_count = (board[b].open_count + 1) % Wrap]
    BY Zenon, <1>1 DEF pcieportal_open, BoardInv, BoardTypes
  <2>4. files' \in [File -> {Closed} \cup [board : Board, portal : Fpn, stale : BOOLEAN]]
    BY Zenon, <1>1 DEF pcieportal_open, BoardInv, BoardTypes
  <2>5. UNCHANGED <<module, held, drvdata, act, lost, shortcut>>
    BY Zenon, <1>1 DEF pcieportal_open
  <2>6. QED
    BY Zenon, <2>2, <2>3, <2>4, <2>5, CountKeeps
<1>2. ASSUME pcieportal_release(f) PROVE BoardInv'
  <2>1. files[f].board \in Board
    BY Zenon, <1>2, OpenFile DEF pcieportal_release, BoardInv
  <2>2. PICK b \in Board : b = files[f].board
    BY Zenon, <2>1
  <2>3. board[b].open_count \in Nat
    BY Zenon DEF BoardInv, BoardTypes
  <2>4. (board[b].open_count + Wrap - 1) % Wrap \in Nat
    BY <2>3
  <2>5. board' = [board EXCEPT ![b].open_count = (board[b].open_count + Wrap - 1) % Wrap]
    BY Zenon, <1>2, <2>2 DEF pcieportal_release, BoardInv, BoardTypes
  <2>6. files' \in [File -> {Closed} \cup [board : Board, portal : Fpn, stale : BOOLEAN]]
    BY Zenon, <1>2 DEF pcieportal_release, BoardInv, BoardTypes
  <2>7. UNCHANGED <<module, held, drvdata, act, lost, shortcut>>
    BY Zenon, <1>2 DEF pcieportal_release
  <2>8. QED
    BY Zenon, <2>4, <2>5, <2>6, <2>7, CountKeeps
<1>3. QED
  BY Zenon, <1>1, <1>2

\* An operation that crashes changes nothing else, and its file has lost its board, its
\* device or the mappings.
Crashes == \E f \in File : pcieportal_release_crash(f) \/ portal_mmap_crash(f) \/ pcieportal_poll(f) \/ pcieportal_ioctl(f)

LEMMA CrashLeaves ==
  ASSUME Crashes
  PROVE  /\ UNCHANGED <<module, held, drvdata, board, act, files, probes, lost, shortcut, stray>>
         /\ \E f \in File : files[f] # Closed /\ ~(HasBoard(f) /\ HasBars(f)) /\ crashed' = crashed \cup {f}
BY Zenon DEF Crashes, pcieportal_release_crash, portal_mmap_crash, pcieportal_poll, pcieportal_ioctl, Crash, HasBars

\* The inductive invariant of the boards.
THEOREM BoardsInvariant == BoardsSpec => []BoardInv
<1>1. BoardsInit => BoardInv
  <2> SUFFICES ASSUME BoardsInit PROVE BoardInv
    BY Zenon
  <2>1. BoardTypes
    BY Zenon DEF BoardsInit, BoardTypes, EmptyBoard, Idle
  <2>2. StageInv
    BY Zenon DEF BoardsInit, StageInv, Idle
  <2>3. QED
    BY Zenon, <2>1, <2>2 DEF BoardsInit, BoardInv, CleanExit, Unloaded, NothingHeld, Active, Owned, EmptyBoard
<1>2. ASSUME BoardInv, [BoardsNext]_boardsVars PROVE BoardInv'
  <2>1. CASE board_activate
    BY <1>2, <2>1, CallsKeep, IrqKeeps, PortalKeeps DEF board_activate
  <2>2. CASE UNCHANGED boardsVars
    BY ZenonT(60), <1>2, <2>2 DEF boardsVars, BoardInv, BoardTypes, StageInv, Serves, CleanExit,
       Unloaded, NothingHeld, Active, Owned
  <2>3. CASE Crashes
    <3>1. UNCHANGED <<module, held, drvdata, board, act, files, lost, shortcut>>
      BY Zenon, <2>3, CrashLeaves
    <3>2. QED
      BY ZenonT(60), <1>2, <3>1 DEF BoardInv, BoardTypes, StageInv, Serves, CleanExit,
         Unloaded, NothingHeld, Active, Owned
  <2>4. QED
    BY Zenon, <1>2, <2>1, <2>2, <2>3, LoadKeeps, ProbeKeeps, RemoveKeeps, FilesTyped, MmapKeeps DEF BoardsNext, Crashes
<1>3. QED
  BY <1>1, <1>2, PTL DEF BoardsSpec

\* board_activate takes all it needs, for one device a board, and whatever fails or is
\* removed gives it back, but for what the code loses.
THEOREM BoardsAreKept == BoardsSpec => []BoardsKept
<1>1. ASSUME BoardInv PROVE BoardsKept
  <2>1. OneBoard
    BY ZenonT(60), <1>1 DEF BoardInv, Active, Owned, OneBoard
  <2>2. ASSUME NEW d \in Dev, drvdata[d] # -1
        PROVE  {i \in Fpn : Node(i) \subseteq held[d]} = 0 .. Portals[d] - 1
    <3>1. PICK n \in Nat : n = Portals[d]
      BY Zenon, PortalsAssumption
    <3>2. held[d] \subseteq Fixed \cup Nodes(n) /\ Nodes(n) \subseteq held[d] /\ n <= MaxPortals
      BY Zenon, <1>1, <2>2, <3>1 DEF BoardInv, Active, Serves
    <3>3. ASSUME NEW i \in Fpn, Node(i) \subseteq held[d] PROVE i \in 0 .. n - 1
      <4>1. <<"cdev", i>> \in Fixed \cup Nodes(n)
        BY Zenon, <3>2, <3>3 DEF Node
      <4>2. <<"cdev", i>> \notin Fixed
        BY Zenon DEF Fixed, Early, Dma, Bars, Maps, Irqs
      <4>3. QED
        BY <4>1, <4>2 DEF Nodes, Node
    <3>4. ASSUME NEW i \in 0 .. n - 1 PROVE i \in Fpn /\ Node(i) \subseteq held[d]
      BY <3>2, BoardAssumption DEF Fpn, Nodes
    <3>5. QED
      BY Zenon, <3>1, <3>3, <3>4
  <2>3. ActiveComplete
    BY Zenon, <1>1, <2>2 DEF BoardInv, Active, Serves, ActiveComplete
  <2>4. QED
    BY Zenon, <1>1, <2>1, <2>3 DEF BoardInv, BoardsKept
<1>2. QED
  BY <1>1, BoardsInvariant, PTL

\* Counting modulo Wrap.
LEMMA Remainder ==
  ASSUME NEW k \in Nat
  PROVE  \E q \in Nat, r \in 0 .. Wrap - 1 : k = Wrap * q + r /\ k % Wrap = r
<1>1. k \div Wrap \in Nat /\ (k % Wrap) \in 0 .. Wrap - 1 /\ k = Wrap * (k \div Wrap) + (k % Wrap)
  BY WrapAssumption
<1>2. QED
  BY Zenon, <1>1

LEMMA RemainderUnique ==
  ASSUME NEW q \in Nat, NEW r \in 0 .. Wrap - 1, NEW k \in Nat, k = Wrap * q + r
  PROVE  k % Wrap = r
BY WrapAssumption

LEMMA CountUp == ASSUME NEW k \in Nat PROVE ((k % Wrap) + 1) % Wrap = (k + 1) % Wrap
<1>1. PICK q \in Nat, r \in 0 .. Wrap - 1 : k = Wrap * q + r /\ k % Wrap = r
  BY Zenon, Remainder
<1>2. CASE r + 1 < Wrap
  <2>1. k + 1 = Wrap * q + (r + 1) /\ r + 1 = Wrap * 0 + (r + 1) /\ r + 1 \in 0 .. Wrap - 1
    BY <1>1, <1>2, WrapAssumption
  <2>2. (k + 1) % Wrap = r + 1 /\ (r + 1) % Wrap = r + 1
    BY <2>1, RemainderUnique
  <2>3. QED
    BY Zenon, <1>1, <2>2
<1>3. CASE r + 1 = Wrap
  <2>1. k + 1 = Wrap * (q + 1) + 0 /\ r + 1 = Wrap * 1 + 0 /\ q + 1 \in Nat /\ 0 \in 0 .. Wrap - 1
    BY <1>1, <1>3, WrapAssumption
  <2>2. (k + 1) % Wrap = 0 /\ (r + 1) % Wrap = 0
    BY <2>1, RemainderUnique
  <2>3. QED
    BY Zenon, <1>1, <2>2
<1>4. QED
  BY <1>2, <1>3, WrapAssumption

LEMMA CountDown == ASSUME NEW k \in Nat PROVE (((k + 1) % Wrap) + Wrap - 1) % Wrap = k % Wrap
<1>1. PICK q \in Nat, r \in 0 .. Wrap - 1 : k = Wrap * q + r /\ k % Wrap = r
  BY Zenon, Remainder
<1>2. CASE r + 1 < Wrap
  <2>1. k + 1 = Wrap * q + (r + 1) /\ r + Wrap = Wrap * 1 + r /\ r + 1 \in 0 .. Wrap - 1
    BY <1>1, <1>2, WrapAssumption
  <2>2. (k + 1) % Wrap = r + 1 /\ (r + Wrap) % Wrap = r
    BY <2>1, RemainderUnique, WrapAssumption
  <2>3. (r + 1) + Wrap - 1 = r + Wrap
    BY WrapAssumption
  <2>4. QED
    BY Zenon, <1>1, <2>2, <2>3
<1>3. CASE r + 1 = Wrap
  <2>1. k + 1 = Wrap * (q + 1) + 0 /\ q + 1 \in Nat /\ 0 \in 0 .. Wrap - 1 /\ r = Wrap * 0 + r
    BY <1>1, <1>3, WrapAssumption
  <2>2. (k + 1) % Wrap = 0 /\ r % Wrap = r
    BY <2>1, RemainderUnique
  <2>3. 0 + Wrap - 1 = r
    BY <1>3, WrapAssumption
  <2>4. QED
    BY Zenon, <1>1, <2>2, <2>3
<1>4. QED
  BY <1>2, <1>3, WrapAssumption

-----------------------------------------------------------------------------
\* The files of the portals.

\* Nothing is taken from the registers of a board that stays.
LEMMA RegsGrow ==
  ASSUME BoardTypes, RegsMapped, files' = files,
         \A c \in Board : board'[c].pci_dev # NoDev =>
           /\ board'[c].pci_dev = board[c].pci_dev
           /\ board[c].regs \subseteq board'[c].regs
           /\ Mapped \subseteq held[board[c].pci_dev] => Mapped \subseteq held'[board[c].pci_dev]
  PROVE  RegsMapped'
<1> SUFFICES ASSUME NEW f \in File, files[f] # Closed, ~files[f].stale,
                    board'[files[f].board].pci_dev # NoDev
             PROVE  /\ files[f].portal \in board'[files[f].board].regs
                    /\ Mapped \subseteq held'[board'[files[f].board].pci_dev]
  BY Zenon DEF RegsMapped, HasBoard, HasDevice, HasBars
<1>1. files[f].board \in Board
  BY Zenon, OpenFile
<1>2. QED
  BY Zenon, <1>1 DEF RegsMapped, HasBoard, HasDevice, HasBars

LEMMA CountsSame ==
  ASSUME OpenCount, files' = files, stray' = stray,
         \A c \in Board : board'[c].open_count = board[c].open_count
  PROVE  OpenCount'
<1>1. \A c \in Board : Users(c)' = Users(c)
  BY Zenon DEF Users
<1>2. QED
  BY Zenon, <1>1 DEF OpenCount

\* The end of board_activate from a label on leaves the other boards as they are.
LEMMA LadderLeaves ==
  ASSUME BoardInv, NEW d \in Dev, NEW b \in Board, board[b].pci_dev = d,
         act = Idle \/ (act.dev = d /\ act.board = b),
         NEW x, board' = [board EXCEPT ![b] = x], x.pci_dev = NoDev, x.open_count = board[b].open_count,
         held' = [held EXCEPT ![d] = {}]
  PROVE  /\ \A c \in Board : board'[c].open_count = board[c].open_count
         /\ \A c \in Board : board'[c].pci_dev # NoDev =>
              /\ board'[c].pci_dev = board[c].pci_dev
              /\ board[c].regs \subseteq board'[c].regs
              /\ Mapped \subseteq held[board[c].pci_dev] => Mapped \subseteq held'[board[c].pci_dev]
<1>1. board'[b] = x /\ \A c \in Board \ {b} : board'[c] = board[c]
  BY Zenon DEF BoardInv, BoardTypes
<1>2. ASSUME NEW c \in Board, board'[c].pci_dev # NoDev
      PROVE  board'[c] = board[c] /\ held'[board[c].pci_dev] = held[board[c].pci_dev]
  <2>1. c # b /\ board'[c] = board[c]
    BY Zenon, <1>1, <1>2
  <2>2. board[c].pci_dev \in Dev \ {d}
    BY Zenon, <1>2, <2>1, NoSecondBoard
  <2>3. QED
    BY Zenon, <2>1, <2>2 DEF BoardInv, BoardTypes
<1>3. QED
  BY Zenon, <1>1, <1>2

\* A step of board_activate takes no registers from a board that stays, and does not
\* count files.
LEMMA ActivateLeaves ==
  ASSUME BoardInv, board_activate
  PROVE  /\ \A c \in Board : board'[c].open_count = board[c].open_count
         /\ \A c \in Board : board'[c].pci_dev # NoDev =>
              /\ board'[c].pci_dev = board[c].pci_dev
              /\ board[c].regs \subseteq board'[c].regs
              /\ Mapped \subseteq held[board[c].pci_dev] => Mapped \subseteq held'[board[c].pci_dev]
<1>1. act.stage # "idle" /\ act.dev \in Dev /\ act.board \in Board /\ board[act.board].pci_dev = act.dev
  BY ZenonT(60) DEF board_activate, pci_enable_device, pci_request_region, pci_iomap, check_device,
     request_irq, cdev_add, BoardInv, StageInv
<1>2. ASSUME NEW h, board' = board, held' = [held EXCEPT ![act.dev] = @ \cup h]
      PROVE  \A e : Mapped \subseteq held[e] /\ e \in Dev => Mapped \subseteq held'[e]
  BY Zenon, <1>1, <1>2 DEF BoardInv, BoardTypes
<1>3. ASSUME NEW r, NEW s, NEW n, Take(r, s, n)
      PROVE  /\ board' = board
             /\ \A e \in Dev : Mapped \subseteq held[e] => Mapped \subseteq held'[e]
  BY Zenon, <1>2, <1>3 DEF Take
<1>4. ASSUME NEW label, NEW r, NEW how, Fail(label, r, how)
      PROVE  /\ \A c \in Board : board'[c].open_count = board[c].open_count
             /\ \A c \in Board : board'[c].pci_dev # NoDev =>
                  /\ board'[c].pci_dev = board[c].pci_dev
                  /\ board[c].regs \subseteq board'[c].regs
                  /\ Mapped \subseteq held[board[c].pci_dev] => Mapped \subseteq held'[board[c].pci_dev]
  <2> DEFINE x == [board[act.board] EXCEPT !.pci_dev = NoDev]
  <2>1. /\ board' = [board EXCEPT ![act.board] = x]
        /\ x.pci_dev = NoDev /\ x.open_count = board[act.board].open_count
        /\ held' = [held EXCEPT ![act.dev] = {}]
    BY <1>1, <1>4 DEF Fail, FromLabel, BoardInv, BoardTypes
  <2> HIDE DEF x
  <2>2. QED
    BY ZenonT(60), <1>1, <2>1, LadderLeaves
<1>5. CASE pci_enable_device \/ pci_request_region \/ pci_iomap \/ check_device \/ request_irq
  <2>1. \/ \E r, s, n : Take(r, s, n)
        \/ \E label, r, how : Fail(label, r, how)
    BY Zenon, <1>5 DEF pci_enable_device, pci_request_region, pci_iomap, check_device, request_irq
  <2>2. QED
    BY Zenon, <1>3, <1>4, <2>1 DEF BoardInv, BoardTypes
<1>6. CASE cdev_add
  <2> DEFINE d == act.dev
             b == act.board
  <2>1. PICK x, h : /\ x.open_count = board[b].open_count /\ board' = [board EXCEPT ![b] = x]
                    /\ \/ x.pci_dev = NoDev /\ held' = [held EXCEPT ![d] = {}]
                       \/ /\ x.pci_dev = d /\ board[b].regs \subseteq x.regs
                          /\ held[d] \subseteq h /\ held' = [held EXCEPT ![d] = h]
    <3> DEFINE fpn == act.n
               top == fpn + 1 >= Portals[d]
               full == fpn + 1 >= MaxPortals
    <3>1. PICK added \in BOOLEAN :
            LET err == full \/ ~added
                kept == held[d] \cup (IF added THEN Node(fpn) ELSE {})
                listed == [board[b] EXCEPT !.regs = @ \cup {fpn}, !.num_portals = IF err \/ top THEN fpn + 1 ELSE @]
            IN
            \/ /\ board' = [board EXCEPT ![b] = [listed EXCEPT !.pci_dev = NoDev]]
               /\ FromLabel(d, b, "deactivate", kept)
            \/ /\ board' = [board EXCEPT ![b] = listed]
               /\ held' = [held EXCEPT ![d] = kept]
      BY Zenon, <1>6 DEF cdev_add
    <3> DEFINE err == full \/ ~added
               kept == held[d] \cup (IF added THEN Node(fpn) ELSE {})
               listed == [board[b] EXCEPT !.regs = @ \cup {fpn}, !.num_portals = IF err \/ top THEN fpn + 1 ELSE @]
               gone == [listed EXCEPT !.pci_dev = NoDev]
    <3>2. /\ listed.open_count = board[b].open_count /\ listed.pci_dev = d /\ board[b].regs \subseteq listed.regs
          /\ gone.open_count = board[b].open_count /\ gone.pci_dev = NoDev
      BY <1>1 DEF BoardInv, BoardTypes
    <3>3. held[d] \subseteq kept
      BY Zenon
    <3> HIDE DEF listed, gone, kept
    <3>4. CASE board' = [board EXCEPT ![b] = gone] /\ FromLabel(d, b, "deactivate", kept)
      BY Zenon, <3>2, <3>4 DEF FromLabel
    <3>5. CASE board' = [board EXCEPT ![b] = listed] /\ held' = [held EXCEPT ![d] = kept]
      BY Zenon, <3>2, <3>3, <3>5
    <3>6. QED
      BY Zenon, <3>1, <3>4, <3>5 DEF listed, gone, kept
  <2>2. CASE x.pci_dev = NoDev /\ held' = [held EXCEPT ![d] = {}]
    BY ZenonT(60), <1>1, <2>1, <2>2, LadderLeaves
  <2>3. CASE /\ x.pci_dev = d /\ board[b].regs \subseteq x.regs
             /\ held[d] \subseteq h /\ held' = [held EXCEPT ![d] = h]
    <3>1. board'[b] = x /\ \A c \in Board \ {b} : board'[c] = board[c]
      BY Zenon, <1>1, <2>1 DEF BoardInv, BoardTypes
    <3>2. \A e \in Dev : Mapped \subseteq held[e] => Mapped \subseteq held'[e]
      BY Zenon, <2>3 DEF BoardInv, BoardTypes
    <3>3. \A c \in Board : board[c].pci_dev \in Dev \cup {NoDev}
      BY Zenon DEF BoardInv, BoardTypes
    <3>4. QED
      BY <1>1, <2>1, <2>3, <3>1, <3>2, <3>3
  <2>4. QED
    BY Zenon, <2>1, <2>2, <2>3
<1>7. QED
  BY Zenon, <1>5, <1>6 DEF board_activate

\* open_count keeps counting.
LEMMA CountsKept ==
  ASSUME BoardInv, FilesClosed, OpenCount, [BoardsNext]_boardsVars
  PROVE  OpenCount'
<1> USE WrapAssumption
<1>1. \A c : IsFiniteSet(Users(c)) /\ Cardinality(Users(c)) \in Nat
  BY Zenon, FileAssumption, FS_Subset, FS_CardinalityType DEF Users
<1>2. 0 % Wrap = 0 /\ Cardinality({}) = 0
  BY FS_EmptySet
<1>3. ASSUME NEW c \in Board, \A f \in File : files'[f].board = c => files'[f].stale, board'[c].open_count = 0
      PROVE  board'[c].open_count = Cardinality(Users(c)') % Wrap
  <2>1. Users(c)' = {}
    BY Zenon, <1>3 DEF Users
  <2>2. QED
    BY Zenon, <1>2, <1>3, <2>1
<1>4. CASE pcieportal_init
  <2>1. \A f \in File : files'[f] = Closed
    BY Zenon, <1>4 DEF pcieportal_init, FilesClosed
  <2>2. \A c \in Board : board'[c].open_count = 0 /\ \A f \in File : files'[f].board # c
    BY <1>4, <2>1 DEF pcieportal_init, EmptyBoard, Closed, Board
  <2>3. QED
    BY Zenon, <1>3, <2>2 DEF OpenCount
<1>5. CASE board_activate
  BY Zenon, <1>5, ActivateLeaves, CountsSame DEF board_activate
<1>6. CASE pcieportal_exit \/ UNCHANGED boardsVars \/ Crashes \/ \E f \in File : portal_mmap(f)
  BY Zenon, <1>6, CountsSame, CrashLeaves DEF pcieportal_exit, boardsVars, portal_mmap
<1>7. ASSUME NEW d \in Dev, pcieportal_remove(d) PROVE OpenCount'
  <2>1. \A c \in Board : board'[c].open_count = board[c].open_count
    BY <1>7 DEF pcieportal_remove, BoardInv, BoardTypes
  <2>2. QED
    BY Zenon, <1>7, <2>1, CountsSame DEF pcieportal_remove
<1>8. ASSUME NEW d \in Dev, pcieportal_probe(d) PROVE OpenCount'
  <2>1. CASE UNCHANGED <<board, act, files>>
    BY Zenon, <1>8, <2>1, CountsSame DEF pcieportal_probe
  <2>2. ASSUME NEW b \in Free,
               board' = [board EXCEPT ![b] = [EmptyBoard EXCEPT !.pci_dev = d]],
               files' = [f \in File |-> IF files[f].board = b THEN [files[f] EXCEPT !.stale = TRUE] ELSE files[f]]
        PROVE  OpenCount'
    <3>1. b \in Board /\ board'[b].open_count = 0 /\ \A c \in Board \ {b} : board'[c] = board[c]
      BY Zenon, <2>2 DEF Free, EmptyBoard, BoardInv, BoardTypes
    <3>2. ASSUME NEW f \in File
          PROVE  files'[f].board = files[f].board /\ (files[f].board = b => files'[f].stale)
                 /\ (files[f].board # b => files'[f] = files[f])
      BY <2>2 DEF BoardInv, BoardTypes, Closed
    <3>3. board'[b].open_count = Cardinality(Users(b)') % Wrap
      BY Zenon, <1>3, <3>1, <3>2
    <3>4. ASSUME NEW c \in Board, c # b PROVE Users(c)' = Users(c)
      BY Zenon, <3>2, <3>4 DEF Users
    <3>5. stray' = stray
      BY Zenon, <1>8 DEF pcieportal_probe
    <3>6. QED
      BY Zenon, <3>1, <3>3, <3>4, <3>5 DEF OpenCount
  <2>3. QED
    BY Zenon, <1>8, <2>1, <2>2 DEF pcieportal_probe
<1>9. ASSUME NEW f \in File, NEW b \in Board, NEW p \in Fpn, pcieportal_open(f, b, p) PROVE OpenCount'
  <2>1. /\ files[f] = Closed /\ files' = [files EXCEPT ![f] = [board |-> b, portal |-> p, stale |-> FALSE]]
        /\ board' = [board EXCEPT ![b].open_count = (board[b].open_count + 1) % Wrap] /\ stray' = stray
    BY Zenon, <1>9 DEF pcieportal_open, BoardInv, BoardTypes
  <2>2. /\ board'[b].open_count = (board[b].open_count + 1) % Wrap
        /\ \A c \in Board \ {b} : board'[c] = board[c]
    BY <2>1 DEF BoardInv, BoardTypes
  <2>3. /\ files'[f].board = b /\ ~files'[f].stale /\ files[f].board = -1
        /\ \A g \in File \ {f} : files'[g] = files[g]
    BY <2>1 DEF BoardInv, BoardTypes, Closed
  <2>4. Users(b)' = Users(b) \cup {f} /\ f \notin Users(b)
    BY <2>3 DEF Users, Board
  <2>5. Cardinality(Users(b)') = Cardinality(Users(b)) + 1
    BY ZenonT(60), <1>1, <2>4, FS_AddElement
  <2>6. ASSUME NEW c \in Board, c # b PROVE Users(c)' = Users(c)
    BY <2>3, <2>6 DEF Users, Board
  <2>7. b \notin stray => board'[b].open_count = Cardinality(Users(b)') % Wrap
    BY Zenon, <1>1, <2>2, <2>5, CountUp DEF OpenCount
  <2>8. QED
    BY Zenon, <2>1, <2>2, <2>6, <2>7 DEF OpenCount
<1>10. ASSUME NEW f \in File, pcieportal_release(f) PROVE OpenCount'
  <2>1. files[f] # Closed /\ files[f] \in [board : Board, portal : Fpn, stale : BOOLEAN]
    BY Zenon, <1>10, OpenFile DEF pcieportal_release, BoardInv
  <2>2. PICK b \in Board : b = files[f].board
    BY Zenon, <2>1
  <2>3. /\ files' = [files EXCEPT ![f] = Closed]
        /\ board' = [board EXCEPT ![b].open_count = (board[b].open_count + Wrap - 1) % Wrap]
        /\ stray' = IF files[f].stale THEN stray \cup {b} ELSE stray
    BY Zenon, <1>10, <2>2 DEF pcieportal_release, BoardInv, BoardTypes
  <2>4. /\ board'[b].open_count = (board[b].open_count + Wrap - 1) % Wrap
        /\ \A c \in Board \ {b} : board'[c] = board[c]
    BY <2>3 DEF BoardInv, BoardTypes
  <2>5. files'[f].board = -1 /\ \A g \in File \ {f} : files'[g] = files[g]
    BY Zenon, <2>3 DEF BoardInv, BoardTypes, Closed
  <2>6. ASSUME NEW c \in Board, c # b PROVE Users(c)' = Users(c)
    BY <2>2, <2>5, <2>6 DEF Users, Board
  <2>7. ASSUME ~files[f].stale, b \notin stray PROVE board'[b].open_count = Cardinality(Users(b)') % Wrap
    <3>1. f \in Users(b) /\ Users(b)' = Users(b) \ {f}
      BY <2>2, <2>5, <2>7 DEF Users, Board
    <3>2. PICK k \in Nat : k = Cardinality(Users(b)') /\ Cardinality(Users(b)) = k + 1
      <4>1. Cardinality(Users(b) \ {f}) = Cardinality(Users(b)) - 1 /\ IsFiniteSet(Users(b) \ {f})
        BY Zenon, <1>1, <3>1, FS_RemoveElement
      <4>2. Cardinality(Users(b) \ {f}) \in Nat /\ Cardinality(Users(b)) \in Nat
        BY Zenon, <1>1, <4>1, FS_CardinalityType
      <4>3. QED
        BY <3>1, <4>1, <4>2
    <3>3. board[b].open_count = (k + 1) % Wrap
      BY Zenon, <2>7, <3>2 DEF OpenCount
    <3>4. QED
      BY ZenonT(60), <2>4, <3>2, <3>3, CountDown
  <2>8. QED
    BY Zenon, <2>3, <2>4, <2>6, <2>7 DEF OpenCount
<1>11. QED
  BY Zenon, <1>4, <1>5, <1>6, <1>7, <1>8, <1>9, <1>10 DEF BoardsNext, Crashes

\* The registers of an open file stay mapped.
LEMMA RegsKept ==
  ASSUME BoardInv, FilesClosed, RegsMapped, [BoardsNext]_boardsVars
  PROVE  RegsMapped'
<1>1. BoardTypes
  BY Zenon DEF BoardInv
<1>2. CASE board_activate
  BY Zenon, <1>1, <1>2, ActivateLeaves, RegsGrow DEF board_activate
<1>3. CASE pcieportal_init
  <2>1. files' = files /\ \A c \in Board : board'[c].pci_dev = NoDev
    BY Zenon, <1>3 DEF pcieportal_init, EmptyBoard
  <2>2. QED
    BY Zenon, <1>1, <2>1, RegsGrow
<1>4. CASE pcieportal_exit \/ UNCHANGED boardsVars \/ Crashes
  BY Zenon, <1>1, <1>4, RegsGrow, CrashLeaves DEF pcieportal_exit, boardsVars
<1>5. ASSUME NEW d \in Dev, pcieportal_remove(d) PROVE RegsMapped'
  <2>1. drvdata[d] \in Board /\ board[drvdata[d]].pci_dev = d /\ act = Idle /\ files' = files
    BY <1>5 DEF pcieportal_remove, BoardInv, BoardTypes, Active
  <2>2. PICK b \in Board : b = drvdata[d]
    BY Zenon, <2>1
  <2> DEFINE x == [board[b] EXCEPT !.pci_dev = NoDev]
  <2>3. /\ board' = [board EXCEPT ![b] = x] /\ x.pci_dev = NoDev /\ x.open_count = board[b].open_count
        /\ held' = [held EXCEPT ![d] = {}]
    BY <1>5, <2>2 DEF pcieportal_remove, FromLabel, BoardInv, BoardTypes
  <2> HIDE DEF x
  <2>4. \A c \in Board : board'[c].pci_dev # NoDev =>
          /\ board'[c].pci_dev = board[c].pci_dev
          /\ board[c].regs \subseteq board'[c].regs
          /\ Mapped \subseteq held[board[c].pci_dev] => Mapped \subseteq held'[board[c].pci_dev]
    BY ZenonT(60), <2>1, <2>2, <2>3, LadderLeaves
  <2>5. QED
    BY Zenon, <1>1, <2>1, <2>4, RegsGrow
<1>6. ASSUME NEW f \in File, portal_mmap(f) PROVE RegsMapped'
  <2>1. \A e \in Dev : held[e] \subseteq held'[e]
    BY Zenon, <1>1, <1>6 DEF portal_mmap, BoardTypes
  <2>2. board' = board /\ files' = files /\ \A c \in Board : board[c].pci_dev \in Dev \cup {NoDev}
    BY Zenon, <1>1, <1>6 DEF portal_mmap, BoardTypes
  <2>3. QED
    BY Zenon, <1>1, <2>1, <2>2, RegsGrow
<1>7. ASSUME NEW d \in Dev, pcieportal_probe(d) PROVE RegsMapped'
  <2>1. CASE UNCHANGED <<board, act, files>>
    BY Zenon, <1>1, <1>7, <2>1, RegsGrow DEF pcieportal_probe
  <2>2. ASSUME NEW b \in Free,
               board' = [board EXCEPT ![b] = [EmptyBoard EXCEPT !.pci_dev = d]],
               files' = [f \in File |-> IF files[f].board = b THEN [files[f] EXCEPT !.stale = TRUE] ELSE files[f]]
        PROVE  RegsMapped'
    <3> SUFFICES ASSUME NEW f \in File, files'[f] # Closed, ~files'[f].stale,
                        board'[files'[f].board].pci_dev # NoDev
                 PROVE  /\ files'[f].portal \in board'[files'[f].board].regs
                        /\ Mapped \subseteq held'[board'[files'[f].board].pci_dev]
      BY Zenon DEF RegsMapped, HasBoard, HasDevice, HasBars
    <3>1. files[f].board # b /\ files'[f] = files[f] /\ files[f].board \in Board
      <4>1. files[f].board # b
        <5>1. ASSUME files[f].board = b PROVE FALSE
          <6>1. files'[f] = [files[f] EXCEPT !.stale = TRUE]
            BY Zenon, <2>2, <5>1
          <6>2. files[f] # Closed
            BY <5>1 DEF Free, Board, Closed
          <6>3. files[f] \in [board : Board, portal : Fpn, stale : BOOLEAN]
            BY Zenon, <1>1, <6>2, OpenFile
          <6>4. QED
            BY Zenon, <6>1, <6>3
        <5>2. QED
          BY Zenon, <5>1
      <4>2. files'[f] = files[f]
        BY Zenon, <2>2, <4>1
      <4>3. QED
        BY Zenon, <1>1, <4>1, <4>2, OpenFile
    <3>2. board'[files[f].board] = board[files[f].board] /\ held' = held
      BY Zenon, <1>1, <1>7, <2>2, <3>1 DEF BoardTypes, pcieportal_probe
    <3>3. QED
      BY Zenon, <3>1, <3>2 DEF RegsMapped, HasBoard, HasDevice, HasBars
  <2>3. QED
    BY Zenon, <1>7, <2>1, <2>2 DEF pcieportal_probe
<1>8. ASSUME NEW f \in File, NEW b \in Board, NEW p \in Fpn, pcieportal_open(f, b, p) PROVE RegsMapped'
  <2>1. PICK d \in Dev : board[b].pci_dev = d /\ <<"cdev", p>> \in held[d]
    BY Zenon, <1>8 DEF pcieportal_open
  <2>2. /\ files' = [files EXCEPT ![f] = [board |-> b, portal |-> p, stale |-> FALSE]] /\ held' = held
        /\ \A c \in Board : board'[c].pci_dev = board[c].pci_dev /\ board'[c].regs = board[c].regs
    BY <1>1, <1>8 DEF pcieportal_open, BoardTypes
  <2>3. PICK n : Serves(d, b, n) /\ n \in Nat
    <3>1. CASE drvdata[d] = b
      BY <3>1, PortalsAssumption DEF BoardInv, Active, Board
    <3>2. CASE act.dev = d /\ act.board = b
      <4>1. act.stage # "idle" /\ act.n \in Nat
        BY <1>1, <3>2, DevAssumption DEF BoardInv, BoardTypes, StageInv, Idle
      <4>2. <<"cdev", p>> \notin Early \cup Irqs \cup {<<"msix", 0>>}
        BY Zenon DEF Early, Dma, Bars, Maps, Irqs
      <4>3. act.stage = "portal"
        BY ZenonT(60), <1>1, <2>1, <3>2, <4>1, <4>2 DEF BoardInv, BoardTypes, StageInv, Early
      <4>4. QED
        BY Zenon, <3>2, <4>1, <4>3 DEF BoardInv, StageInv
    <3>3. QED
      BY Zenon, <2>1, <3>1, <3>2, DevAssumption DEF BoardInv, Owned
  <2>4. p \in board[b].regs /\ Mapped \subseteq held[d]
    <3>1. <<"cdev", p>> \notin Fixed
      BY ZenonT(60) DEF Fixed, Early, Dma, Bars, Maps, Irqs
    <3>2. <<"cdev", p>> \in Nodes(n)
      BY Zenon, <2>1, <2>3, <3>1 DEF Serves
    <3>3. p \in 0 .. n - 1
      BY <2>3, <3>2 DEF Nodes, Node
    <3>4. QED
      BY Zenon, <2>3, <3>3 DEF Serves, Mapped
  <2>5. SUFFICES ASSUME NEW g \in File, files'[g] # Closed, ~files'[g].stale,
                        board'[files'[g].board].pci_dev # NoDev
                 PROVE  /\ files'[g].portal \in board'[files'[g].board].regs
                        /\ Mapped \subseteq held'[board'[files'[g].board].pci_dev]
    BY Zenon DEF RegsMapped, HasBoard, HasDevice, HasBars
  <2>6. CASE g = f
    BY Zenon, <1>1, <2>1, <2>2, <2>4, <2>6 DEF BoardTypes
  <2>7. CASE g # f
    <3>1. files'[g] = files[g] /\ files[g].board \in Board
      BY ZenonT(60), <1>1, <2>2, <2>5, <2>7, OpenFile DEF BoardTypes
    <3>2. PICK c : c = files[g].board
      BY Zenon
    <3>3. /\ board'[c].pci_dev = board[c].pci_dev /\ board'[c].regs = board[c].regs /\ held' = held
          /\ files'[g].board = c /\ files'[g].portal = files[g].portal
      BY Zenon, <2>2, <3>1, <3>2
    <3>4. files[g] # Closed /\ ~files[g].stale /\ board[c].pci_dev # NoDev
      BY Zenon, <2>5, <3>1, <3>2, <3>3
    <3>5. files[g].portal \in board[c].regs /\ Mapped \subseteq held[board[c].pci_dev]
      BY Zenon, <3>2, <3>4 DEF RegsMapped, HasBoard, HasDevice, HasBars
    <3>6. QED
      BY Zenon, <3>3, <3>5
  <2>8. QED
    BY Zenon, <2>6, <2>7
<1>9. ASSUME NEW f \in File, pcieportal_release(f) PROVE RegsMapped'
  <2>1. files[f].board \in Board
    BY Zenon, <1>1, <1>9, OpenFile DEF pcieportal_release
  <2>2. /\ files' = [files EXCEPT ![f] = Closed] /\ held' = held
        /\ \A c \in Board : board'[c].pci_dev = board[c].pci_dev /\ board'[c].regs = board[c].regs
    BY <1>1, <1>9, <2>1 DEF pcieportal_release, BoardTypes
  <2>3. SUFFICES ASSUME NEW g \in File, files'[g] # Closed, ~files'[g].stale,
                        board'[files'[g].board].pci_dev # NoDev
                 PROVE  /\ files'[g].portal \in board'[files'[g].board].regs
                        /\ Mapped \subseteq held'[board'[files'[g].board].pci_dev]
    BY Zenon DEF RegsMapped, HasBoard, HasDevice, HasBars
  <2>4. files'[g] = files[g] /\ files[g].board \in Board
    BY Zenon, <1>1, <2>2, <2>3, OpenFile DEF BoardTypes
  <2>5. QED
    BY Zenon, <2>2, <2>3, <2>4 DEF RegsMapped, HasBoard, HasDevice, HasBars
<1>10. QED
  BY Zenon, <1>2, <1>3, <1>4, <1>5, <1>6, <1>7, <1>8, <1>9 DEF BoardsNext, Crashes

\* Only by way of a file that has lost its board does the driver crash.
LEMMA CrashesKept ==
  ASSUME RegsMapped, CrashHasCause, [BoardsNext]_boardsVars
  PROVE  CrashHasCause'
<1>1. CASE Crashes
  <2>1. PICK f \in File : files[f] # Closed /\ ~(HasBoard(f) /\ HasBars(f)) /\ crashed' = crashed \cup {f}
    BY Zenon, <1>1, CrashLeaves
  <2>2. files[f].stale \/ ~HasDevice(f)
    BY Zenon, <2>1 DEF RegsMapped
  <2>3. files' = files /\ board' = board
    BY Zenon, <1>1, CrashLeaves
  <2>4. QED
    BY Zenon, <2>1, <2>2, <2>3 DEF CrashHasCause, HasDevice
<1>2. CASE UNCHANGED boardsVars
  BY Zenon, <1>2 DEF boardsVars, CrashHasCause, HasDevice
<1>3. CASE BoardsNext /\ ~Crashes
  <2>1. crashed' = {}
    BY ZenonT(60), <1>3 DEF BoardsNext, Crashes, pcieportal_init, pcieportal_exit, board_activate, pcieportal_probe,
       pcieportal_remove, pcieportal_release, portal_mmap, pcieportal_open
  <2>2. QED
    BY Zenon, <2>1 DEF CrashHasCause
<1>4. QED
  BY Zenon, <1>1, <1>2, <1>3

\* A file is counted, and safe to use, as long as its board is there.
THEOREM FilesAreKept == BoardsSpec => []FilesKept
<1>1. BoardsInit => FilesClosed /\ FilesKept
  <2> SUFFICES ASSUME BoardsInit PROVE FilesClosed /\ FilesKept
    BY Zenon
  <2>1. \A f \in File : files[f] = Closed
    BY Zenon DEF BoardsInit
  <2>2. \A c \in Board : Users(c) = {} /\ board[c].open_count = 0
    BY <2>1 DEF BoardsInit, Users, Closed, EmptyBoard, Board
  <2>3. Cardinality({}) = 0 /\ 0 % Wrap = 0
    BY FS_EmptySet, WrapAssumption
  <2>4. QED
    BY Zenon, <2>1, <2>2, <2>3 DEF BoardsInit, FilesClosed, FilesKept, OpenCount, RegsMapped, CrashHasCause
<1>2. ASSUME BoardInv, FilesClosed, [BoardsNext]_boardsVars PROVE FilesClosed'
  <2>1. ASSUME NEW b \in Board, NEW d \in Dev, board[b].pci_dev = d PROVE "driver" \in module
    <3>1. CASE "driver" \notin module
      <4>1. act.dev = NoDev /\ drvdata[d] = -1
        BY <1>2, <3>1 DEF BoardInv, Unloaded, Idle
      <4>2. QED
        BY <1>2, <2>1, <4>1, DevAssumption DEF BoardInv, Owned, Board
    <3>2. QED
      BY Zenon, <3>1
  <2>2. CASE \E f \in File, b \in Board, p \in Fpn : pcieportal_open(f, b, p)
    BY Zenon, <2>1, <2>2 DEF pcieportal_open, FilesClosed
  <2>3. CASE \E d \in Dev : pcieportal_probe(d)
    BY Zenon, <2>3 DEF pcieportal_probe, FilesClosed
  <2>4. CASE \E f \in File : pcieportal_release(f) \/ portal_mmap(f)
    BY Zenon, <1>2, <2>4 DEF pcieportal_release, portal_mmap, FilesClosed, BoardInv, BoardTypes
  <2>5. CASE pcieportal_init \/ pcieportal_exit
    BY Zenon, <1>2, <2>5 DEF pcieportal_init, pcieportal_exit, FilesClosed
  <2>6. CASE board_activate \/ UNCHANGED boardsVars \/ Crashes \/ \E d \in Dev : pcieportal_remove(d)
    BY Zenon, <1>2, <2>6, CrashLeaves DEF board_activate, boardsVars, pcieportal_remove, FilesClosed
  <2>7. QED
    BY Zenon, <1>2, <2>2, <2>3, <2>4, <2>5, <2>6 DEF BoardsNext, Crashes
<1>3. ASSUME BoardInv, FilesClosed, FilesKept, [BoardsNext]_boardsVars PROVE FilesKept'
  BY Zenon, <1>3, CountsKept, RegsKept, CrashesKept DEF FilesKept
<1>4. QED
  BY <1>1, <1>2, <1>3, BoardsInvariant, PTL DEF BoardsSpec

=============================================================================
