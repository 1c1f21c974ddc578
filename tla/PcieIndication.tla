---------------------------- MODULE PcieIndication ----------------------------
(***************************************************************************)
(* Indications on a PCIe board.  interrupt_rule (bsv/PcieTop.bsv) turns    *)
(* the level of each portal into one MSI-X message per rising edge; the    *)
(* message wakes the portal's wait queue (drivers/pcieportal/pcieportal.c, *)
(* intr_handler).  Nothing masks a portal once its poller has enabled it.  *)
(*                                                                         *)
(* The rule fires in every clock cycle in which it can, so each step that  *)
(* changes or reads the hardware is one cycle and takes a sample of the    *)
(* levels at its start.  MSI-X entries are programmed before a portal is   *)
(* opened, and a message on its way to the processor stays in order.       *)
(***************************************************************************)
EXTENDS Indication, Sequences, Functions

CONSTANT
  FifoDepth   \* depth of interruptRequestFifo

VARIABLES
  interruptRequested,   \* the portals whose level was high in the last sample
  interruptRequestFifo  \* MSI-X messages not yet delivered, by portal

msiVars == <<interruptRequested, interruptRequestFifo>>
pcieVars == <<hwVars, pollVars, msiVars>>

Level == {p \in Portal : Interrupt(p)}

MsiInit ==
  /\ interruptRequested = {}
  /\ interruptRequestFifo = << >>

PcieInit == board = "pcie" /\ IndicationInit /\ MsiInit

Rising == Level \ interruptRequested

\* Mutant: a level once seen is never forgotten.
interrupt_rule_Sticky(fifo) ==
  /\ interruptRequested' = interruptRequested \union Level
  /\ interruptRequestFifo' =
       IF Rising # {} THEN Append(fifo, Max(Rising)) ELSE fifo

\* interrupt_rule in a cycle that leaves fifo of the messages: the last rising
\* portal gets the message, all of them are remembered; the rule waits while
\* its message does not fit.
interrupt_rule(fifo) ==
  \/ /\ Rising = {}
     /\ interruptRequested' = Level
     /\ interruptRequestFifo' = fifo
  \/ /\ Rising # {}
     /\ Len(interruptRequestFifo) < FifoDepth
     /\ interruptRequested' = Level
     /\ interruptRequestFifo' = Append(fifo, Max(Rising))
  \/ /\ Rising # {}
     /\ Len(interruptRequestFifo) >= FifoDepth
     /\ interruptRequestFifo' = fifo
     /\ UNCHANGED interruptRequested

\* A cycle in which nothing else happens.
Tick ==
  /\ interrupt_rule(interruptRequestFifo)
  /\ UNCHANGED <<hwVars, pollVars>>

\* mkMemInterrupt sends the message, the processor runs intr_handler.
intr_handler ==
  /\ interruptRequestFifo # << >>
  /\ WakeUp(Head(interruptRequestFifo))
  /\ interrupt_rule(Tail(interruptRequestFifo))
  /\ UNCHANGED <<hwVars, pc, at, todo, chan, ready, queued>>

PciePollerStep(q) ==
  \/ PollerAccess(q) /\ interrupt_rule(interruptRequestFifo)
  \/ PollerKernel(q) /\ UNCHANGED msiVars

PcieNext ==
  \/ \E M \in SUBSET (Portal \X Channel) :
       indicate(M) /\ interrupt_rule(interruptRequestFifo)
  \/ Tick
  \/ intr_handler
  \/ \E q \in Poller : PciePollerStep(q)

PcieSpec == PcieInit /\ [][PcieNext /\ UNCHANGED board]_<<board, pcieVars>>

\* The clock runs, messages are delivered and every thread is scheduled.
PcieFairness ==
  /\ WF_pcieVars(Tick)
  /\ WF_pcieVars(intr_handler)
  /\ \A q \in Poller : WF_pcieVars(PciePollerStep(q))

PcieFairSpec == PcieSpec /\ PcieFairness

-----------------------------------------------------------------------------
\* No lost wakeup: while a poller sleeps and one of its portals has an
\* indication, some portal of its has a message on the way or is about to get
\* one (interrupt_rule l.225-236, pcieportal_poll l.160-162).
PcieNoLostWakeup ==
  board = "pcie" => \A q \in Poller :
    Asleep(q) /\ (\E p \in Mine(q) : InterruptStatus(p))
      => \E p \in Mine(q) : p \in Rising \/ p \in Range(interruptRequestFifo)

\* "going from level to edge-triggered interrupt" (PcieTop.bsv l.223): a level
\* that rises and stays high leads to a message for its portal.
EveryRiseIsSent ==
  \A p \in Portal : (p \in Rising) ~>
     (p \in Range(interruptRequestFifo) \/ ~Interrupt(p))

=============================================================================
