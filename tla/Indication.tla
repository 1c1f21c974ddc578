------------------------------ MODULE Indication ------------------------------
(***************************************************************************)
(* How an indication reaches its handler, up to the interrupt: the control *)
(* registers of a portal (bsv/MemPortal.bsv) and the threads that poll for *)
(* it (cpp/poller.cpp, cpp/portal.c).  The interrupt itself differs by     *)
(* board: ZynqIndication and PcieIndication extend this module, and a      *)
(* behaviour is about one kind of board.                                   *)
(*                                                                         *)
(* A message is its place in the queue of its method; a register access is *)
(* one step.  poll(2) is the kernel's: it puts the thread on the wait      *)
(* queue of every descriptor while it scans them, sleeps if none was       *)
(* ready, and scans again when one of the queues is woken.                 *)
(***************************************************************************)
EXTENDS Integers, FiniteSets, FiniteSetsExt

CONSTANTS
  Portal,   \* portal numbers
  Channel,  \* indication methods of a portal
  Poller,   \* threads running portalExec
  Owner,    \* the poller each portal is registered with
  MaxInd    \* bound: indications the hardware sends on a portal

ASSUME PortalAssumption == Portal \subseteq Nat /\ IsFiniteSet(Portal)
ASSUME ChannelAssumption == Channel \subseteq Nat /\ IsFiniteSet(Channel)
ASSUME OwnerAssumption == Owner \in [Portal -> Poller]
                          /\ \A q \in Poller : \E p \in Portal : Owner[p] = q
ASSUME MaxIndAssumption == MaxInd \in Nat

VARIABLES
  board,    \* the kind of board of this behaviour: "zynq" or "pcie"
  ind,      \* ind[p][c]: messages waiting in indication pipe c of portal p
  sent,     \* sent[p]: indications sent so far, for the bound
  enable,   \* the portals whose interruptEnableReg is True
  pc,       \* where each poller is in portalExec
  at,       \* the portal its loop is at
  todo,     \* the portals its loop has not reached yet
  chan,     \* the channel it read from the queue status register
  ready,    \* the pollers whose scan has found a readable descriptor
  queued,   \* portals whose wait queue holds their poller
  woken     \* pollers woken since they last slept

hwVars == <<ind, sent, enable>>
pollVars == <<pc, at, todo, chan, ready, queued, woken>>

Mine(q) == {p \in Portal : Owner[p] = q}

-----------------------------------------------------------------------------
\* mkPortalCtrlMemSlave.

Ready(p) == {c \in Channel : ind[p][c] > 0}
InterruptStatus(p) == Ready(p) # {}

\* The interrupt output of the portal.
Interrupt(p) == InterruptStatus(p) /\ p \in enable

\* The loop over readyBits keeps the last ready channel.
ReadyChannel(p) == Max(Ready(p))

\* In one clock cycle any set of methods may enqueue an indication.
indicate(M) ==
  /\ M # {}
  /\ \A p \in Portal :
       sent[p] + Cardinality({c \in Channel : <<p, c>> \in M}) <= MaxInd
  /\ ind' = [p \in Portal |-> [c \in Channel |->
               IF <<p, c>> \in M THEN ind[p][c] + 1 ELSE ind[p][c]]]
  /\ sent' = [p \in Portal |->
               sent[p] + Cardinality({c \in Channel : <<p, c>> \in M})]
  /\ UNCHANGED <<enable, pollVars>>

-----------------------------------------------------------------------------
\* PortalPoller::portalExec.  A loop over portal_wrappers or portal_fds runs in
\* the order of registration, which may be any order.

IndicationInit ==
  /\ ind = [p \in Portal |-> [c \in Channel |-> 0]]
  /\ sent = [p \in Portal |-> 0]
  /\ enable = {}
  /\ pc = [q \in Poller |-> "init"]
  /\ at \in [Poller -> Portal]
  /\ \A q \in Poller : Owner[at[q]] = q
  /\ todo = [q \in Poller |-> Mine(q) \ {at[q]}]
  /\ chan = [q \in Poller |-> 0]
  /\ ready = {}
  /\ queued = {}
  /\ woken = {}

\* Go on with the next portal of the loop, in state same, or start the next
\* loop, in state next.
Advance(q, same, next) ==
  \/ \E p \in todo[q] :
       /\ at' = [at EXCEPT ![q] = p]
       /\ todo' = [todo EXCEPT ![q] = @ \ {p}]
       /\ pc' = [pc EXCEPT ![q] = same]
  \/ /\ todo[q] = {}
     /\ \E p \in Mine(q) :
          /\ at' = [at EXCEPT ![q] = p]
          /\ todo' = [todo EXCEPT ![q] = Mine(q) \ {p}]
          /\ pc' = [pc EXCEPT ![q] = next]

\* portalExec_init enables the interrupts before the first poll.
portalExec_init(q) ==
  /\ pc[q] = "init"
  /\ enable' = enable \union {at[q]}
  /\ Advance(q, "init", "poll")
  /\ UNCHANGED <<ind, sent, chan, ready, queued, woken>>

\* Mutant: the driver's poll does not queue the thread.
poll_scan_Unqueued(q) ==
  /\ pc[q] = "poll"
  /\ queued' = queued
  /\ ready' = IF InterruptStatus(at[q]) THEN ready \union {q} ELSE ready
  /\ Advance(q, "poll", "polled")
  /\ UNCHANGED <<hwVars, chan, woken>>

\* poll(2), one descriptor: the driver's poll queues the thread, then reads
\* the interrupt status.
poll_scan(q) ==
  /\ pc[q] = "poll"
  /\ queued' = queued \union {at[q]}
  /\ ready' = IF InterruptStatus(at[q]) THEN ready \union {q} ELSE ready
  /\ Advance(q, "poll", "polled")
  /\ UNCHANGED <<hwVars, chan, woken>>

\* poll(2) returns: the thread leaves the wait queues.
poll_return(q) ==
  /\ pc[q] = "polled"
  /\ q \in ready
  /\ queued' = queued \ Mine(q)
  /\ ready' = ready \ {q}
  /\ woken' = woken \ {q}
  /\ pc' = [pc EXCEPT ![q] = "event"]
  /\ UNCHANGED <<hwVars, at, todo, chan>>

\* poll(2) with portalExec_timeout -1: sleep until a queue is woken, scan again.
poll_sleep(q) ==
  /\ pc[q] = "polled"
  /\ q \notin ready
  /\ q \in woken
  /\ woken' = woken \ {q}
  /\ pc' = [pc EXCEPT ![q] = "poll"]
  /\ UNCHANGED <<hwVars, at, todo, chan, ready, queued>>

\* portalCheckIndication reads the queue status: a channel to handle, or done.
portalCheckIndication(q) ==
  /\ pc[q] = "event"
  /\ \/ /\ InterruptStatus(at[q])
        /\ chan' = [chan EXCEPT ![q] = ReadyChannel(at[q])]
        /\ pc' = [pc EXCEPT ![q] = "handle"]
     \/ /\ ~InterruptStatus(at[q])
        /\ pc' = [pc EXCEPT ![q] = "enable"]
        /\ UNCHANGED chan
  /\ UNCHANGED <<hwVars, at, todo, ready, queued, woken>>

\* pint->handler reads the message from the indication FIFO of the channel.
handler(q) ==
  /\ pc[q] = "handle"
  /\ ind[at[q]][chan[q]] > 0
  /\ ind' = [ind EXCEPT ![at[q]][chan[q]] = @ - 1]
  /\ pc' = [pc EXCEPT ![q] = "event"]
  /\ UNCHANGED <<sent, enable, at, todo, chan, ready, queued, woken>>

\* Mutant: the portal is left as it is after its event.
enableint_Forgotten(q) ==
  /\ pc[q] = "enable"
  /\ Advance(q, "event", "poll")
  /\ UNCHANGED <<hwVars, chan, ready, queued, woken>>

\* enableint after the portal's event; then the next portal, or poll again.
enableint(q) ==
  /\ pc[q] = "enable"
  /\ enable' = enable \union {at[q]}
  /\ Advance(q, "event", "poll")
  /\ UNCHANGED <<ind, sent, chan, ready, queued, woken>>

\* A step of poller q that reads or writes a register of a portal.
PollerAccess(q) ==
  \/ portalExec_init(q)
  \/ poll_scan(q)
  \/ portalCheckIndication(q)
  \/ handler(q)
  \/ enableint(q)

\* A step of poller q inside the kernel.
PollerKernel(q) == poll_return(q) \/ poll_sleep(q)

\* wake_up_interruptible on the wait queue of portal p.
WakeUp(p) == woken' = woken \union {q \in Poller : p \in queued /\ q = Owner[p]}

-----------------------------------------------------------------------------
\* The portals the loop of poller q has still to deal with.
Pending(q) == todo[q] \union {at[q]}

\* The shapes of the variables, and loops that stay within the portals of their poller.
LoopsInv ==
  /\ ind \in [Portal -> [Channel -> Nat]]
  /\ pc \in [Poller -> {"init", "poll", "polled", "event", "handle", "enable"}]
  /\ at \in [Poller -> Portal]
  /\ todo \in [Poller -> SUBSET Portal]
  /\ \A q \in Poller : Pending(q) \subseteq Mine(q)
  /\ \A q \in Poller : pc[q] = "polled" => Pending(q) = Mine(q)

\* The poller is inside poll(2), its scan found nothing and nothing woke it.
Asleep(q) == pc[q] = "polled" /\ q \notin ready /\ q \notin woken

\* Every indication is handled (portalExec, poller.cpp l.194-198): their number
\* is bounded, so again and again none is left.
IndicationsHandled == []<>(\A p \in Portal : ~InterruptStatus(p))

=============================================================================
