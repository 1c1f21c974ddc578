---------------------------- MODULE ZynqIndication ----------------------------
(***************************************************************************)
(* Indications on a Zynq board.  All portals share one level-triggered     *)
(* interrupt line (bsv/CtrlMux.bsv, mkInterruptMux), so the kernel runs    *)
(* portal_isr (drivers/zynqportal/zynqportal.c) for every portal when it   *)
(* is high.  The handler masks a portal that has an indication; the poller *)
(* enables it again.                                                       *)
(***************************************************************************)
EXTENDS Indication

CONSTANT
  SMP   \* may a poller run on another processor while portal_isr runs?

ASSUME SMPAssumption == SMP \in BOOLEAN

VARIABLES
  isr,     \* step of portal_isr, "idle" outside the interrupt
  isrAt,   \* the portal whose portal_isr runs
  isrTodo  \* the portals whose portal_isr is still to run for this interrupt

isrVars == <<isr, isrAt, isrTodo>>
zynqVars == <<hwVars, pollVars, isrVars>>

IsrInit ==
  /\ isr = "idle"
  /\ isrAt \in Portal
  /\ isrTodo = {}

ZynqInit == board = "zynq" /\ IndicationInit /\ IsrInit

\* mkInterruptMux: the line is the disjunction of the portals' interrupts.
IrqLine == \E p \in Portal : Interrupt(p)

\* The kernel calls portal_isr for each portal in turn, the line masked.
irq_enter ==
  /\ isr = "idle"
  /\ IrqLine
  /\ isr' = "read"
  /\ isrAt' \in Portal
  /\ isrTodo' = Portal \ {isrAt'}
  /\ UNCHANGED <<hwVars, pollVars>>

\* The next portal_isr, or the end of the interrupt.
IsrNext ==
  \/ \E p \in isrTodo :
       /\ isr' = "read"
       /\ isrAt' = p
       /\ isrTodo' = isrTodo \ {p}
  \/ /\ isrTodo = {}
     /\ isr' = "idle"
     /\ UNCHANGED <<isrAt, isrTodo>>

\* readl(interrupt_virt) is zero: not this portal.
portal_isr_none ==
  /\ isr = "read"
  /\ ~InterruptStatus(isrAt)
  /\ IsrNext
  /\ UNCHANGED <<hwVars, pollVars>>

\* readl(interrupt_virt) is not zero.
portal_isr_read ==
  /\ isr = "read"
  /\ InterruptStatus(isrAt)
  /\ isr' = "disable"
  /\ UNCHANGED <<isrAt, isrTodo, hwVars, pollVars>>

\* writel(0, mask_virt).
portal_isr_disable ==
  /\ isr = "disable"
  /\ enable' = enable \ {isrAt}
  /\ isr' = "wake"
  /\ UNCHANGED <<isrAt, isrTodo, ind, sent, pollVars>>

\* wake_up_interruptible(wait_queue).
portal_isr_wake ==
  /\ isr = "wake"
  /\ WakeUp(isrAt)
  /\ IsrNext
  /\ UNCHANGED <<hwVars, pc, at, todo, chan, ready, queued>>

portal_isr ==
  portal_isr_none \/ portal_isr_read \/ portal_isr_disable \/ portal_isr_wake

\* With one processor the handler runs to its end before any poller goes on.
CanRun == SMP \/ isr = "idle"

ZynqPollerStep(q) ==
  /\ CanRun
  /\ PollerAccess(q) \/ PollerKernel(q)
  /\ UNCHANGED isrVars

ZynqNext ==
  \/ \E M \in SUBSET (Portal \X Channel) : indicate(M) /\ UNCHANGED isrVars
  \/ irq_enter
  \/ portal_isr
  \/ \E q \in Poller : ZynqPollerStep(q)

ZynqSpec == ZynqInit /\ [][ZynqNext /\ UNCHANGED board]_<<board, zynqVars>>

\* The interrupt is delivered, the handler runs to its end and every thread is
\* scheduled.  The hardware need not send anything.
ZynqFairness ==
  /\ WF_zynqVars(irq_enter)
  /\ WF_zynqVars(portal_isr)
  /\ \A q \in Poller : WF_zynqVars(ZynqPollerStep(q))

ZynqFairSpec == ZynqSpec /\ ZynqFairness

-----------------------------------------------------------------------------
\* No lost wakeup: while a poller sleeps, every portal of its that has an
\* indication can raise the interrupt, or is being woken for it (portal_isr,
\* l.95-101; portal_poll, l.241-243; portalExec_event, poller.cpp l.167-169).
NoLostWakeup ==
  \A p \in Portal :
    Asleep(Owner[p]) /\ InterruptStatus(p)
      => p \in enable \/ (isr = "wake" /\ isrAt = p)

InEvent(q) == pc[q] \in {"event", "handle", "enable"}

WillSee(p, q) ==
  \/ InEvent(q)
  \/ pc[q] = "init"
  \/ pc[q] = "poll" /\ p \in Pending(q)
  \/ q \in ready
  \/ q \in woken
  \/ isr = "wake" /\ isrAt = p

MaskedInv(p, q) ==
  \/ p \in enable
  \/ (InEvent(q) \/ pc[q] = "init") /\ p \in Pending(q)
  \/ InterruptStatus(p) /\ WillSee(p, q)

PortalInv(p, q) ==
  /\ pc[q] = "poll" => p \in queued \/ p \in Pending(q)
  /\ pc[q] = "polled" => p \in queued
  /\ isr \in {"disable", "wake"} /\ isrAt = p => InterruptStatus(p)
  /\ MaskedInv(p, q)

\* The inductive invariant of the proofs, for one processor.  A loop's current
\* and remaining portals are those of its poller; while a poll is under way each
\* portal is queued or still to be scanned; portal_isr acts on a portal that
\* still has its indication; and a masked portal is about to be enabled by its
\* poller, or has an indication that the poller is bound to see (portal_isr
\* l.95-101, poller.cpp l.142-182).
WakeupInv == LoopsInv /\ \A p \in Portal : PortalInv(p, Owner[p])

\* "disable interrupt. this will be re-enabled by user mode driver after all
\* the HW->SW FIFOs have been emptied" (zynqportal.c l.98-99).
ReenabledByUserMode == \A p \in Portal : p \notin enable ~> p \in enable

=============================================================================
