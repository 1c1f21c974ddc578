--------------------------- MODULE IndicationProofs ---------------------------
(***************************************************************************)
(* No lost wakeup.  On a Zynq board with one processor, for every number   *)
(* of portals, channels and pollers, no poller sleeps on a portal that has *)
(* an indication and cannot interrupt.  On a PCIe board with one poller,   *)
(* for every number of portals and channels and every depth of             *)
(* interruptRequestFifo, although interrupt_rule forgets rises: while a    *)
(* poller sleeps on a portal that has an indication, a message for it or   *)
(* for another of its portals is on the way or about to be sent.           *)
(***************************************************************************)
EXTENDS ZynqIndication, PcieIndication, FiniteSetTheorems, SequenceTheorems, TLAPS

\* The SMT solver gets half a minute for a leaf; a leaf for Zenon says so.
USE SMTT(30)

-----------------------------------------------------------------------------
\* The pollers and their loops, on both kinds of board.

\* Every portal has an owner among the pollers, every poller owns a portal.
LEMMA Owners ==
  /\ \A p \in Portal : Owner[p] \in Poller /\ p \in Mine(Owner[p])
  /\ \A q \in Poller : Mine(q) # {} /\ Mine(q) \subseteq Portal
BY Zenon, OwnerAssumption DEF Mine

\* A loop step keeps the loops of every poller within its own portals.
LEMMA AdvanceLoops ==
  ASSUME LoopsInv, NEW q \in Poller, NEW same, NEW next,
         same \in {"init", "poll", "event"},
         next \in {"poll", "polled"},
         Advance(q, same, next)
  PROVE  /\ pc' \in [Poller -> {"init", "poll", "polled", "event", "handle", "enable"}]
         /\ at' \in [Poller -> Portal]
         /\ todo' \in [Poller -> SUBSET Portal]
         /\ \A r \in Poller \ {q} :
              pc'[r] = pc[r] /\ at'[r] = at[r] /\ todo'[r] = todo[r]
         /\ \/ /\ pc'[q] = same
               /\ todo'[q] \union {at'[q]} \subseteq Mine(q)
               /\ \A p \in todo[q] : p \in todo'[q] \union {at'[q]}
            \/ /\ pc'[q] = next
               /\ todo[q] = {}
               /\ todo'[q] \union {at'[q]} = Mine(q)
<1>1. todo[q] \subseteq Mine(q) /\ Mine(q) \subseteq Portal
  BY Zenon, Owners DEF LoopsInv, Pending
<1>2. CASE \E p \in todo[q] :
             /\ at' = [at EXCEPT ![q] = p]
             /\ todo' = [todo EXCEPT ![q] = @ \ {p}]
             /\ pc' = [pc EXCEPT ![q] = same]
  BY <1>1, <1>2 DEF LoopsInv
<1>3. CASE /\ todo[q] = {}
           /\ \E p \in Mine(q) :
                /\ at' = [at EXCEPT ![q] = p]
                /\ todo' = [todo EXCEPT ![q] = Mine(q) \ {p}]
                /\ pc' = [pc EXCEPT ![q] = next]
  BY <1>1, <1>3 DEF LoopsInv
<1>4. QED
  BY Zenon, <1>2, <1>3 DEF Advance

\* An indication touches no loop.
LEMMA IndicateLoops ==
  ASSUME LoopsInv, NEW M, indicate(M)
  PROVE  LoopsInv'
BY DEF LoopsInv, indicate, pollVars, Pending

\* A step of a poller keeps every loop within the portals of its poller.
LEMMA PollerLoops ==
  ASSUME LoopsInv, NEW q \in Poller, PollerAccess(q) \/ PollerKernel(q)
  PROVE  LoopsInv'
<1>1. at[q] \in Mine(q) /\ at[q] \in Portal
  BY Zenon DEF LoopsInv, Pending
<1>2. ASSUME NEW same, NEW next, same \in {"init", "poll", "event"},
             next \in {"poll", "polled"}, Advance(q, same, next), UNCHANGED ind
      PROVE  LoopsInv'
  <2>1. /\ pc' \in [Poller -> {"init", "poll", "polled", "event", "handle", "enable"}]
        /\ at' \in [Poller -> Portal]
        /\ todo' \in [Poller -> SUBSET Portal]
        /\ ind' \in [Portal -> [Channel -> Nat]]
    BY <1>2, AdvanceLoops DEF LoopsInv
  <2>2. ASSUME NEW r \in Poller
        PROVE  Pending(r)' \subseteq Mine(r) /\ (pc'[r] = "polled" => Pending(r)' = Mine(r))
    <3>1. CASE r = q
      BY <1>2, <3>1, AdvanceLoops DEF Pending
    <3>2. CASE r # q
      <4>1. pc'[r] = pc[r] /\ at'[r] = at[r] /\ todo'[r] = todo[r]
        BY <1>2, <3>2, AdvanceLoops
      <4>2. QED
        BY Zenon, <4>1 DEF Pending, LoopsInv
    <3>3. QED
      BY Zenon, <3>1, <3>2
  <2>3. QED
    BY Zenon, <2>1, <2>2 DEF LoopsInv
<1>3. CASE portalExec_init(q)
  BY Zenon, <1>2, <1>3 DEF portalExec_init
<1>4. CASE poll_scan(q)
  BY <1>2, <1>4 DEF poll_scan, hwVars
<1>5. CASE enableint(q)
  BY Zenon, <1>2, <1>5 DEF enableint
<1>6. CASE portalCheckIndication(q)
  BY Zenon, <1>6 DEF portalCheckIndication, LoopsInv, Pending, hwVars
<1>7. CASE handler(q)
  <2>1. ind[at[q]] \in [Channel -> Nat]
    BY Zenon, <1>1 DEF LoopsInv
  <2> DEFINE f == [ind[at[q]] EXCEPT ![chan[q]] = ind[at[q]][chan[q]] - 1]
  <2>2. \A c \in Channel : f[c] \in Nat
    <3> SUFFICES ASSUME NEW c \in Channel PROVE f[c] \in Nat
      BY Zenon
    <3>1. ind[at[q]][c] \in Nat /\ (c = chan[q] => ind[at[q]][c] > 0)
      BY Zenon, <2>1, <1>7 DEF handler
    <3>2. f[c] = IF c = chan[q] THEN ind[at[q]][c] - 1 ELSE ind[at[q]][c]
      BY Zenon, <2>1
    <3>3. QED
      BY <3>1, <3>2
  <2>3. f \in [Channel -> Nat]
    BY Zenon, <2>1, <2>2
  <2>4. ind' = [ind EXCEPT ![at[q]] = f]
    BY Zenon, <1>7 DEF handler
  <2> HIDE DEF f
  <2>5. ind' \in [Portal -> [Channel -> Nat]]
    BY Zenon, <2>3, <2>4, <1>1 DEF LoopsInv
  <2>6. QED
    BY Zenon, <1>7, <2>5 DEF handler, LoopsInv, Pending
<1>8. CASE PollerKernel(q)
  BY Zenon, <1>8 DEF PollerKernel, poll_return, poll_sleep, LoopsInv, Pending, hwVars
<1>9. QED
  BY Zenon, <1>3, <1>4, <1>5, <1>6, <1>7, <1>8 DEF PollerAccess

-----------------------------------------------------------------------------
\* Zynq.

\* Initially every portal is masked and about to be enabled.
LEMMA InitWakeup == ZynqInit => WakeupInv
<1> SUFFICES ASSUME ZynqInit PROVE WakeupInv
  BY Zenon
<1>1. LoopsInv
  BY Zenon, Owners DEF ZynqInit, IsrInit, IndicationInit, LoopsInv, Pending, Mine
<1>2. ASSUME NEW p \in Portal PROVE PortalInv(p, Owner[p])
  BY Zenon, Owners DEF ZynqInit, IsrInit, IndicationInit, PortalInv, MaskedInv, Pending
<1>3. QED
  BY Zenon, <1>1, <1>2 DEF WakeupInv

\* An indication sets the status of its portal and clears none.
LEMMA IndicateWakeup ==
  ASSUME WakeupInv, NEW M, indicate(M), UNCHANGED isrVars
  PROVE  WakeupInv'
<1>1. ind' \in [Portal -> [Channel -> Nat]]
  BY DEF WakeupInv, LoopsInv, indicate
<1>2. \A p \in Portal : InterruptStatus(p) => InterruptStatus(p)'
  BY DEF WakeupInv, LoopsInv, indicate, InterruptStatus, Ready
<1>3. LoopsInv'
  BY Zenon, <1>1 DEF WakeupInv, LoopsInv, indicate, pollVars, Pending
<1>4. ASSUME NEW p \in Portal PROVE PortalInv(p, Owner[p])'
  BY Zenon, <1>2 DEF WakeupInv, PortalInv, MaskedInv, WillSee, InEvent, Pending,
              indicate, pollVars, isrVars
<1>5. QED
  BY Zenon, <1>3, <1>4 DEF WakeupInv

\* Entering the interrupt touches no portal.
LEMMA EnterWakeup == WakeupInv /\ irq_enter => WakeupInv'
<1> SUFFICES ASSUME WakeupInv, irq_enter PROVE WakeupInv'
  BY Zenon
<1>1. LoopsInv'
  BY Zenon DEF WakeupInv, LoopsInv, irq_enter, hwVars, pollVars, Pending
<1>2. ASSUME NEW p \in Portal PROVE PortalInv(p, Owner[p])'
  BY Zenon DEF WakeupInv, PortalInv, MaskedInv, WillSee, InEvent, Pending, irq_enter,
         hwVars, pollVars, InterruptStatus, Ready
<1>3. QED
  BY Zenon, <1>1, <1>2 DEF WakeupInv

\* portal_isr masks a portal that has an indication, and wakes its poller.
LEMMA IsrWakeup == WakeupInv /\ portal_isr => WakeupInv'
<1> SUFFICES ASSUME WakeupInv, portal_isr PROVE WakeupInv'
  BY Zenon
<1>1. /\ UNCHANGED <<ind, pc, at, todo, ready, queued>>
      /\ enable' \in {enable, enable \ {isrAt}}
  BY Zenon DEF portal_isr, portal_isr_none, portal_isr_read, portal_isr_disable,
         portal_isr_wake, hwVars, pollVars
<1>2. LoopsInv'
  BY Zenon, <1>1 DEF WakeupInv, LoopsInv, Pending
<1>3. ASSUME NEW p \in Portal PROVE PortalInv(p, Owner[p])'
  <2> DEFINE q == Owner[p]
  <2>1. PortalInv(p, q) /\ q \in Poller
    BY Zenon, Owners DEF WakeupInv
  <2>2. InterruptStatus(p)' <=> InterruptStatus(p)
    BY Zenon, <1>1 DEF InterruptStatus, Ready
  <2>3. pc' = pc /\ Pending(q)' = Pending(q)
    BY Zenon, <1>1 DEF Pending
  <2>4. CASE portal_isr_none
    BY Zenon, <2>1, <2>2, <2>3, <2>4
       DEF portal_isr_none, IsrNext, PortalInv, MaskedInv, WillSee, InEvent,
           hwVars, pollVars
  <2>5. CASE portal_isr_read
    BY Zenon, <2>1, <2>2, <2>3, <2>5
       DEF portal_isr_read, PortalInv, MaskedInv, WillSee, InEvent,
           hwVars, pollVars
  <2>6. CASE portal_isr_disable
    BY Zenon, <2>1, <2>2, <2>3, <2>6
       DEF portal_isr_disable, PortalInv, MaskedInv, WillSee, InEvent, pollVars
  <2>7. CASE portal_isr_wake
    <3>1. pc[q] \in {"init", "poll", "polled", "event", "handle", "enable"}
      BY Zenon, <2>1 DEF WakeupInv, LoopsInv
    <3>2. isr' # "wake" /\ isr' # "disable"
      BY Zenon, <2>7 DEF portal_isr_wake, IsrNext
    <3>3. woken \subseteq woken' /\ (isrAt = p /\ p \in queued => q \in woken')
      BY Zenon, <2>7, <2>1 DEF portal_isr_wake, WakeUp
    <3>4. isrAt = p => InterruptStatus(p) /\ WillSee(p, q)'
      BY Zenon, <2>1, <2>3, <2>7, <3>1, <3>3
         DEF portal_isr_wake, PortalInv, WillSee, InEvent
    <3>5. MaskedInv(p, q)'
      BY Zenon, <2>1, <2>2, <2>3, <2>7, <3>3, <3>4
         DEF portal_isr_wake, PortalInv, MaskedInv, WillSee, InEvent, hwVars
    <3>6. QED
      BY Zenon, <1>1, <2>1, <2>3, <3>2, <3>5 DEF PortalInv
  <2>8. QED
    BY Zenon, <2>4, <2>5, <2>6, <2>7 DEF portal_isr
<1>4. QED
  BY Zenon, <1>2, <1>3 DEF WakeupInv

-----------------------------------------------------------------------------
\* Steps of a poller, when the interrupt handler is not running.

\* A step that leaves a portal and its poller alone keeps the portal's invariant.
LEMMA OtherPortal ==
  ASSUME NEW p \in Portal, NEW r \in Poller, PortalInv(p, r),
         pc'[r] = pc[r], at'[r] = at[r], todo'[r] = todo[r],
         ind'[p] = ind[p], p \in enable <=> p \in enable',
         p \in queued <=> p \in queued', r \in ready <=> r \in ready',
         r \in woken <=> r \in woken', UNCHANGED isrVars
  PROVE  PortalInv(p, r)'
<1>1. InterruptStatus(p)' <=> InterruptStatus(p)
  BY Zenon DEF InterruptStatus, Ready
<1>2. Pending(r)' = Pending(r)
  BY Zenon DEF Pending
<1>3. QED
  BY Zenon, <1>1, <1>2 DEF PortalInv, MaskedInv, WillSee, InEvent, isrVars

\* What a loop step means for a portal p of the poller q that takes it: the loop
\* is still before p, or it was at p or beyond it.
LEMMA AdvancePortal ==
  ASSUME LoopsInv, NEW q \in Poller, NEW same, NEW next,
         same \in {"init", "poll", "event"}, next \in {"poll", "polled"},
         Advance(q, same, next),
         NEW p \in Mine(q)
  PROVE  /\ pc'[q] \in {same, next}
         /\ pc'[q] = same /\ same # next /\ p \in Pending(q) => p \in Pending(q)' \/ p = at[q]
         /\ pc'[q] = next /\ same # next => p \in Pending(q)' /\ (p \in Pending(q) => p = at[q])
BY AdvanceLoops DEF Pending

\* Enabling a portal's interrupt before the first poll.
LEMMA ExecInitWakeup ==
  ASSUME WakeupInv, isr = "idle", UNCHANGED isrVars,
         NEW q \in Poller, portalExec_init(q)
  PROVE  WakeupInv'
<1> USE DEF portalExec_init
<1>1. LoopsInv /\ at[q] \in Mine(q)
  BY Zenon DEF WakeupInv, LoopsInv, Pending
<1>2. LoopsInv'
  BY Zenon, <1>1, PollerLoops DEF PollerAccess
<1>3. ASSUME NEW p \in Portal PROVE PortalInv(p, Owner[p])'
  <2>1. PortalInv(p, Owner[p]) /\ Owner[p] \in Poller
    BY Zenon, Owners DEF WakeupInv
  <2>2. CASE Owner[p] # q
    BY <1>1, <2>1, <2>2, AdvanceLoops, OtherPortal DEF Mine
  <2>3. CASE Owner[p] = q
    <3>1. p \in Mine(q)
      BY Zenon, <2>3 DEF Mine
    <3>2. /\ pc'[q] \in {"init", "poll"}
          /\ pc'[q] = "init" /\ p \in Pending(q) => p \in Pending(q)' \/ p = at[q]
          /\ pc'[q] = "poll" => p \in Pending(q)' /\ (p \in Pending(q) => p = at[q])
      BY Zenon, <1>1, <3>1, AdvancePortal
    <3>3. InterruptStatus(p)' <=> InterruptStatus(p)
      BY Zenon DEF InterruptStatus, Ready
    <3>4. QED
      BY Zenon, <2>1, <2>3, <3>2, <3>3
         DEF PortalInv, MaskedInv, WillSee, InEvent, isrVars
  <2>4. QED
    BY Zenon, <2>2, <2>3
<1>4. QED
  BY Zenon, <1>2, <1>3 DEF WakeupInv

\* Scanning a descriptor queues its portal and notices its indication.
LEMMA ScanWakeup ==
  ASSUME WakeupInv, isr = "idle", UNCHANGED isrVars,
         NEW q \in Poller, poll_scan(q)
  PROVE  WakeupInv'
<1> USE DEF poll_scan
<1>1. LoopsInv /\ at[q] \in Mine(q)
  BY Zenon DEF WakeupInv, LoopsInv, Pending
<1>2. LoopsInv'
  BY Zenon, <1>1, PollerLoops DEF PollerAccess
<1>3. ASSUME NEW p \in Portal PROVE PortalInv(p, Owner[p])'
  <2>1. PortalInv(p, Owner[p]) /\ Owner[p] \in Poller
    BY Zenon, Owners DEF WakeupInv
  <2>2. CASE Owner[p] # q
    BY <1>1, <2>1, <2>2, AdvanceLoops, OtherPortal DEF Mine, hwVars
  <2>3. CASE Owner[p] = q
    <3>1. p \in Mine(q)
      BY Zenon, <2>3 DEF Mine
    <3>2. /\ pc'[q] \in {"poll", "polled"}
          /\ pc'[q] = "poll" /\ p \in Pending(q) => p \in Pending(q)' \/ p = at[q]
          /\ pc'[q] = "polled" => p \in Pending(q)' /\ (p \in Pending(q) => p = at[q])
      BY <1>1, <3>1, AdvancePortal
    <3>3. (InterruptStatus(p)' <=> InterruptStatus(p)) /\ enable' = enable
      BY Zenon DEF InterruptStatus, Ready, hwVars
    <3>4. ready \subseteq ready' /\ (p = at[q] /\ InterruptStatus(p) => q \in ready')
      BY Zenon
    <3>5. QED
      BY Zenon, <2>1, <2>3, <3>2, <3>3, <3>4
         DEF PortalInv, MaskedInv, WillSee, InEvent, isrVars
  <2>4. QED
    BY Zenon, <2>2, <2>3
<1>4. QED
  BY Zenon, <1>2, <1>3 DEF WakeupInv

\* Leaving poll(2), to handle events or to scan again, starts a loop over all
\* portals of the poller.
LEMMA KernelWakeup ==
  ASSUME WakeupInv, isr = "idle", UNCHANGED isrVars,
         NEW q \in Poller, PollerKernel(q)
  PROVE  WakeupInv'
<1>1. /\ pc[q] = "polled" /\ Pending(q) = Mine(q)
      /\ pc'[q] \in {"event", "poll"}
      /\ \A r \in Poller \ {q} : pc'[r] = pc[r]
      /\ pc' \in [Poller -> {"init", "poll", "polled", "event", "handle", "enable"}]
      /\ UNCHANGED <<ind, enable, at, todo>>
      /\ \A p \in Portal \ Mine(q) : p \in queued <=> p \in queued'
      /\ \A r \in Poller \ {q} : (r \in ready <=> r \in ready')
                                 /\ (r \in woken <=> r \in woken')
  BY ZenonT(60) DEF PollerKernel, poll_return, poll_sleep, WakeupInv, LoopsInv, hwVars
<1>2. LoopsInv'
  BY Zenon, <1>1 DEF WakeupInv, LoopsInv, Pending
<1>3. ASSUME NEW p \in Portal PROVE PortalInv(p, Owner[p])'
  <2>1. PortalInv(p, Owner[p]) /\ Owner[p] \in Poller
    BY Zenon, Owners DEF WakeupInv
  <2>2. CASE Owner[p] # q
    BY Zenon, <1>1, <2>1, <2>2, OtherPortal DEF Mine
  <2>3. CASE Owner[p] = q
    <3>1. p \in Pending(q)'
      BY Zenon, <1>1, <2>3 DEF Mine, Pending
    <3>2. InterruptStatus(p)' <=> InterruptStatus(p)
      BY Zenon, <1>1 DEF InterruptStatus, Ready
    <3>3. QED
      BY Zenon, <1>1, <2>1, <2>3, <3>1, <3>2
         DEF PortalInv, MaskedInv, WillSee, InEvent, isrVars
  <2>4. QED
    BY Zenon, <2>2, <2>3
<1>4. QED
  BY Zenon, <1>2, <1>3 DEF WakeupInv

\* Reading the queue status and handling a message stay at the current portal.
LEMMA EventWakeup ==
  ASSUME WakeupInv, isr = "idle", UNCHANGED isrVars,
         NEW q \in Poller, portalCheckIndication(q) \/ handler(q)
  PROVE  WakeupInv'
<1>1. /\ at[q] \in Mine(q) /\ at[q] \in Portal /\ InEvent(q)
      /\ pc'[q] \in {"event", "handle", "enable"}
      /\ \A r \in Poller \ {q} : pc'[r] = pc[r]
      /\ pc' \in [Poller -> {"init", "poll", "polled", "event", "handle", "enable"}]
      /\ UNCHANGED <<enable, at, todo, ready, queued, woken>>
  BY Zenon DEF portalCheckIndication, handler, WakeupInv, LoopsInv, Pending, InEvent,
         hwVars
<1>2. /\ ind' \in [Portal -> [Channel -> Nat]]
      /\ \A p \in Portal \ {at[q]} : ind'[p] = ind[p]
  <2>1. CASE portalCheckIndication(q)
    BY Zenon, <2>1 DEF portalCheckIndication, WakeupInv, LoopsInv, hwVars
  <2>2. CASE handler(q)
    <3>1. ind[at[q]] \in [Channel -> Nat]
      BY Zenon, <1>1 DEF WakeupInv, LoopsInv
    <3> DEFINE f == [ind[at[q]] EXCEPT ![chan[q]] = ind[at[q]][chan[q]] - 1]
    <3>2. \A c \in Channel : f[c] \in Nat
      <4> SUFFICES ASSUME NEW c \in Channel PROVE f[c] \in Nat
        BY Zenon
      <4>1. ind[at[q]][c] \in Nat /\ (c = chan[q] => ind[at[q]][c] > 0)
        BY Zenon, <3>1, <2>2 DEF handler
      <4>2. f[c] = IF c = chan[q] THEN ind[at[q]][c] - 1 ELSE ind[at[q]][c]
        BY Zenon, <3>1
      <4>3. QED
        BY <4>1, <4>2
    <3>3. f \in [Channel -> Nat]
      BY Zenon, <3>1, <3>2
    <3>4. ind' = [ind EXCEPT ![at[q]] = f]
      BY Zenon, <2>2 DEF handler
    <3> HIDE DEF f
    <3>5. QED
      BY Zenon, <3>3, <3>4, <1>1 DEF WakeupInv, LoopsInv
  <2>3. QED
    BY Zenon, <2>1, <2>2
<1>3. LoopsInv'
  BY ZenonT(60), <1>1, <1>2 DEF WakeupInv, LoopsInv, Pending
<1>4. ASSUME NEW p \in Portal PROVE PortalInv(p, Owner[p])'
  <2>1. PortalInv(p, Owner[p]) /\ Owner[p] \in Poller
    BY Zenon, Owners DEF WakeupInv
  <2>2. CASE Owner[p] # q
    <3>1. p # at[q]
      BY Zenon, <1>1, <2>2 DEF Mine
    <3>2. QED
      BY Zenon, <1>1, <1>2, <2>1, <2>2, <3>1, OtherPortal
  <2>3. CASE Owner[p] = q
    <3>1. InEvent(q)' /\ Pending(q)' = Pending(q) /\ at[q] \in Pending(q)
      BY Zenon, <1>1 DEF InEvent, Pending
    <3>2. p # at[q] => (InterruptStatus(p)' <=> InterruptStatus(p))
      BY Zenon, <1>2 DEF InterruptStatus, Ready
    <3>3. QED
      BY Zenon, <1>1, <2>1, <2>3, <3>1, <3>2
         DEF PortalInv, MaskedInv, WillSee, InEvent, isrVars
  <2>4. QED
    BY Zenon, <2>2, <2>3
<1>5. QED
  BY Zenon, <1>3, <1>4 DEF WakeupInv

\* Enabling a portal again after its events.
LEMMA EnableWakeup ==
  ASSUME WakeupInv, isr = "idle", UNCHANGED isrVars,
         NEW q \in Poller, enableint(q)
  PROVE  WakeupInv'
<1> USE DEF enableint
<1>1. LoopsInv /\ at[q] \in Mine(q)
  BY Zenon DEF WakeupInv, LoopsInv, Pending
<1>2. LoopsInv'
  BY Zenon, <1>1, PollerLoops DEF PollerAccess
<1>3. ASSUME NEW p \in Portal PROVE PortalInv(p, Owner[p])'
  <2>1. PortalInv(p, Owner[p]) /\ Owner[p] \in Poller
    BY Zenon, Owners DEF WakeupInv
  <2>2. CASE Owner[p] # q
    BY <1>1, <2>1, <2>2, AdvanceLoops, OtherPortal DEF Mine
  <2>3. CASE Owner[p] = q
    <3>1. p \in Mine(q)
      BY Zenon, <2>3 DEF Mine
    <3>2. /\ pc'[q] \in {"event", "poll"}
          /\ pc'[q] = "event" /\ p \in Pending(q) => p \in Pending(q)' \/ p = at[q]
          /\ pc'[q] = "poll" => p \in Pending(q)' /\ (p \in Pending(q) => p = at[q])
      BY Zenon, <1>1, <3>1, AdvancePortal
    <3>3. InterruptStatus(p)' <=> InterruptStatus(p)
      BY Zenon DEF InterruptStatus, Ready
    <3>4. QED
      BY Zenon, <2>1, <2>3, <3>2, <3>3
         DEF PortalInv, MaskedInv, WillSee, InEvent, isrVars
  <2>4. QED
    BY Zenon, <2>2, <2>3
<1>4. QED
  BY Zenon, <1>2, <1>3 DEF WakeupInv

-----------------------------------------------------------------------------
\* On one processor WakeupInv is an invariant.
THEOREM Wakeups == ASSUME ~SMP PROVE ZynqSpec => []WakeupInv
<1>1. WakeupInv /\ [ZynqNext /\ UNCHANGED board]_<<board, zynqVars>> => WakeupInv'
  <2> SUFFICES ASSUME WakeupInv, [ZynqNext /\ UNCHANGED board]_<<board, zynqVars>> PROVE WakeupInv'
    BY Zenon
  <2>1. CASE \E M \in SUBSET (Portal \X Channel) : indicate(M) /\ UNCHANGED isrVars
    BY Zenon, <2>1, IndicateWakeup
  <2>2. CASE irq_enter
    BY Zenon, <2>2, EnterWakeup
  <2>3. CASE portal_isr
    BY Zenon, <2>3, IsrWakeup
  <2>4. ASSUME NEW q \in Poller, ZynqPollerStep(q) PROVE WakeupInv'
    <3>1. isr = "idle" /\ UNCHANGED isrVars
      BY Zenon, <2>4 DEF ZynqPollerStep, CanRun
    <3>2. QED
      BY Zenon, <2>4, <3>1, ExecInitWakeup, ScanWakeup, KernelWakeup, EventWakeup,
         EnableWakeup DEF ZynqPollerStep, PollerAccess
  <2>5. CASE UNCHANGED <<board, zynqVars>>
    BY <2>5 DEF zynqVars, hwVars, pollVars, isrVars, WakeupInv, LoopsInv, PortalInv,
                MaskedInv, WillSee, InEvent, Pending, InterruptStatus, Ready
  <2>6. QED
    BY Zenon, <2>1, <2>2, <2>3, <2>4, <2>5 DEF ZynqNext
<1>2. QED
  BY <1>1, InitWakeup, PTL DEF ZynqSpec

\* No poller sleeps on a portal that has an indication and cannot interrupt,
\* when portal_isr and the pollers share one processor.
THEOREM NoWakeupLost == ASSUME ~SMP PROVE ZynqSpec => []NoLostWakeup
<1>1. WakeupInv => NoLostWakeup
  <2> SUFFICES ASSUME WakeupInv, NEW p \in Portal,
                      Asleep(Owner[p]), InterruptStatus(p)
               PROVE  p \in enable \/ (isr = "wake" /\ isrAt = p)
    BY Zenon DEF NoLostWakeup
  <2>1. QED
    BY Zenon DEF WakeupInv, PortalInv, MaskedInv, WillSee, InEvent, Asleep
<1>2. QED
  BY <1>1, Wakeups, PTL

-----------------------------------------------------------------------------
\* PCIe.

\* The portals that the poll(2) under way has scanned.
Scanned(q) ==
  {p \in Mine(q) : pc[q] = "polled" \/ (pc[q] = "poll" /\ p \notin Pending(q))}

\* A portal of a running poller is enabled once its loop has passed it.
EnabledInv(q) ==
  \A p \in Mine(q) : p \in enable \/ (pc[q] = "init" /\ p \in Pending(q))

\* A poller that has scanned a portal too early to see its indication has another
\* reason to wake up: a rising level, a message for a portal that has an indication,
\* or such a portal still to be scanned.
AnnouncedInv(q) ==
  /\ Scanned(q) \subseteq queued
  /\ q \notin ready /\ q \notin woken /\ (\E p \in Scanned(q) : InterruptStatus(p))
       => \/ Rising # {}
          \/ \E p \in Portal :
               /\ InterruptStatus(p)
               /\ p \in Range(interruptRequestFifo) \/ p \notin Scanned(q)

\* The inductive invariant of the proofs, for one poller (interrupt_rule l.225-236,
\* poller.cpp l.142-182).
PcieInv ==
  /\ LoopsInv
  /\ interruptRequestFifo \in Seq(Portal)
  /\ \A q \in Poller : EnabledInv(q) /\ AnnouncedInv(q)

-----------------------------------------------------------------------------
\* A finite set of portal numbers that is not empty has a greatest element.
LEMMA MaxIn ==
  ASSUME NEW S \in SUBSET Nat, IsFiniteSet(S), S # {}
  PROVE  Max(S) \in S
<1> DEFINE Above(x) == {y \in S : y > x}
           T == {Above(x) : x \in S}
<1>1. IsWellFoundedOn(StrictSubsetOrdering(S), SUBSET S)
  BY Zenon, FS_StrictSubsetOrderingWellFounded, FS_FiniteSubsetsOfFinite
<1>2. T \subseteq SUBSET S /\ T # {}
  BY Zenon
<1>3. PICK A \in T : \A B \in T : ~(<<B, A>> \in StrictSubsetOrdering(S))
  BY Zenon, <1>1, <1>2, WFMin
<1>4. PICK x \in S : A = Above(x)
  BY Zenon, <1>3
<1>5. \A y \in S : x >= y
  <2> SUFFICES ASSUME NEW y \in S, y > x PROVE FALSE
    BY <1>4
  <2>0. Above(y) \in T
    BY Zenon
  <2>1. Above(y) \subseteq Above(x) /\ y \in Above(x) /\ y \notin Above(y)
    <3>1. x \in Nat /\ y \in Nat /\ ~(y > y)
      OBVIOUS
    <3>2. \A z \in S : z > y => z > x
      BY <3>1
    <3> HIDE DEF T
    <3>3. QED
      BY <3>1, <3>2, Zenon
  <2>2. <<Above(y), A>> \in StrictSubsetOrdering(S)
    BY Zenon, <1>4, <2>1 DEF StrictSubsetOrdering
  <2>3. QED
    BY Zenon, <1>3, <2>0, <2>2
<1>6. QED
  BY Zenon, <1>4, <1>5 DEF Max

\* Range of the messages after a step.
LEMMA Messages ==
  ASSUME NEW s \in Seq(Portal)
  PROVE  /\ \A p \in Portal : Append(s, p) \in Seq(Portal)
                             /\ Range(s) \union {p} \subseteq Range(Append(s, p))
         /\ s # << >> => /\ Head(s) \in Portal /\ Tail(s) \in Seq(Portal)
                        /\ Range(s) \subseteq Range(Tail(s)) \union {Head(s)}
<1>1. ASSUME NEW p \in Portal
      PROVE  Append(s, p) \in Seq(Portal) /\ Range(s) \union {p} \subseteq Range(Append(s, p))
  <2>1. /\ Append(s, p) \in Seq(Portal)
        /\ Len(s) + 1 \in DOMAIN Append(s, p) /\ Append(s, p)[Len(s) + 1] = p
    OBVIOUS
  <2>2. \A i \in DOMAIN s : i \in DOMAIN Append(s, p) /\ Append(s, p)[i] = s[i]
    OBVIOUS
  <2>3. QED
    BY Zenon, <2>1, <2>2 DEF Range
<1>2. ASSUME s # << >>
      PROVE  /\ Head(s) \in Portal /\ Tail(s) \in Seq(Portal)
             /\ Range(s) \subseteq Range(Tail(s)) \union {Head(s)}
  <2>1. Head(s) \in Portal /\ Tail(s) \in Seq(Portal) /\ Len(s) > 0
    BY <1>2
  <2>2. ASSUME NEW i \in DOMAIN s PROVE s[i] \in Range(Tail(s)) \union {Head(s)}
    <3>1. CASE i = 1
      BY <3>1
    <3>2. CASE i # 1
      <4>1. i - 1 \in DOMAIN Tail(s) /\ Tail(s)[i - 1] = s[i]
        BY <1>2, <3>2
      <4>2. QED
        BY Zenon, <4>1 DEF Range
    <3>3. QED
      BY Zenon, <3>1, <3>2
  <2>3. QED
    BY Zenon, <2>1, <2>2 DEF Range
<1>3. QED
  BY Zenon, <1>1, <1>2

\* What interrupt_rule does, when all portals are enabled and none loses its status in
\* the step: it waits and a level goes on rising, it sends a message for a portal with
\* an indication, or nothing was rising and what rises now is new.
LEMMA RuleStep ==
  ASSUME NEW f \in Seq(Portal), interrupt_rule(f),
         Portal \subseteq enable, Portal \subseteq enable',
         \A p \in Portal : InterruptStatus(p) => InterruptStatus(p)'
  PROVE  /\ interruptRequestFifo' \in Seq(Portal)
         /\ Range(f) \subseteq Range(interruptRequestFifo')
         /\ \/ Rising' # {}
            \/ \E p \in Portal : InterruptStatus(p)' /\ p \in Range(interruptRequestFifo')
            \/ Rising = {} /\ \A p \in Portal : InterruptStatus(p)' => InterruptStatus(p)
<1>1. Level = {p \in Portal : InterruptStatus(p)} /\ Level' = {p \in Portal : InterruptStatus(p)'}
  BY Zenon DEF Level, Interrupt
<1>2. Level \subseteq Level' /\ Rising \subseteq Portal
  BY Zenon, <1>1 DEF Rising
<1>3. CASE /\ Rising = {}
           /\ interruptRequested' = Level
           /\ interruptRequestFifo' = f
  BY Zenon, <1>1, <1>3 DEF Rising
<1>4. CASE /\ Rising # {}
           /\ interruptRequestFifo' = Append(f, Max(Rising))
  <2>1. Rising \in SUBSET Nat /\ IsFiniteSet(Rising)
    BY Zenon, <1>2, PortalAssumption, FS_Subset
  <2>2. Max(Rising) \in Rising
    BY Zenon, <1>4, <2>1, MaxIn
  <2>3. Max(Rising) \in Portal /\ InterruptStatus(Max(Rising))
    BY Zenon, <1>1, <2>2 DEF Rising
  <2>4. QED
    BY Zenon, <1>4, <2>3, Messages
<1>5. CASE /\ Rising # {}
           /\ interruptRequestFifo' = f
           /\ UNCHANGED interruptRequested
  BY Zenon, <1>2, <1>5 DEF Rising
<1>6. QED
  BY Zenon, <1>3, <1>4, <1>5 DEF interrupt_rule

\* In every step interrupt_rule leaves a sequence of messages for portals.
LEMMA RuleType ==
  ASSUME NEW f \in Seq(Portal), interrupt_rule(f)
  PROVE  interruptRequestFifo' \in Seq(Portal)
<1>1. Rising \in SUBSET Nat /\ IsFiniteSet(Rising) /\ Rising \subseteq Portal
  BY Zenon, PortalAssumption, FS_Subset DEF Rising, Level
<1>2. Rising # {} => Max(Rising) \in Portal
  BY ZenonT(60), <1>1, MaxIn
<1>3. QED
  BY Zenon, <1>2, Messages DEF interrupt_rule

-----------------------------------------------------------------------------
OnePoller == \A q, r \in Poller : q = r

\* The one poller owns every portal.
LEMMA OwnsAll == ASSUME OnePoller, NEW q \in Poller PROVE Mine(q) = Portal
BY Zenon, OwnerAssumption DEF OnePoller, Mine

\* The initial state: no portal has been scanned.
LEMMA InitPcie == PcieInit => PcieInv
<1> SUFFICES ASSUME PcieInit PROVE PcieInv
  BY Zenon
<1>1. LoopsInv
  BY Zenon, Owners DEF PcieInit, MsiInit, IndicationInit, LoopsInv, Pending, Mine
<1>2. interruptRequestFifo \in Seq(Portal)
  BY DEF PcieInit, MsiInit
<1>3. ASSUME NEW q \in Poller PROVE EnabledInv(q) /\ AnnouncedInv(q)
  <2>1. pc[q] = "init" /\ Pending(q) = Mine(q)
    BY Zenon, <1>1 DEF PcieInit, MsiInit, IndicationInit, Pending, LoopsInv
  <2>2. Scanned(q) = {}
    BY Zenon, <2>1 DEF Scanned
  <2>3. QED
    BY Zenon, <2>1, <2>2 DEF EnabledInv, AnnouncedInv
<1>4. QED
  BY Zenon, <1>1, <1>2, <1>3 DEF PcieInv

\* The step of interrupt_rule keeps the sleeping poller announced: when the step wakes
\* nobody and finds no descriptor ready, the portals it adds to the scanned ones have
\* no indication yet, and a message it takes is not for a scanned portal.
LEMMA StaysAnnounced ==
  ASSUME OnePoller, PcieInv, NEW q \in Poller, NEW f \in Seq(Portal), interrupt_rule(f),
         enable' = enable, pc[q] # "init",
         \A p \in Portal : InterruptStatus(p) => InterruptStatus(p)',
         q \notin ready, q \notin woken,
         \A p \in Portal : InterruptStatus(p) => (p \in Scanned(q)' <=> p \in Scanned(q)),
         \A p \in Scanned(q) : p \in Range(interruptRequestFifo) => p \in Range(f),
         \E p \in Scanned(q)' : InterruptStatus(p)'
  PROVE  \/ Rising' # {}
         \/ \E p \in Portal :
              /\ InterruptStatus(p)'
              /\ p \in Range(interruptRequestFifo') \/ p \notin Scanned(q)'
<1>1. Mine(q) = Portal /\ Portal \subseteq enable
  BY Zenon, OwnsAll DEF PcieInv, EnabledInv
<1>2. /\ Range(f) \subseteq Range(interruptRequestFifo')
      /\ \/ Rising' # {}
         \/ \E p \in Portal : InterruptStatus(p)' /\ p \in Range(interruptRequestFifo')
         \/ Rising = {} /\ \A p \in Portal : InterruptStatus(p)' => InterruptStatus(p)
  BY Zenon, <1>1, RuleStep
<1>3. CASE Rising = {} /\ \A p \in Portal : InterruptStatus(p)' => InterruptStatus(p)
  <2>1. PICK p \in Scanned(q)' : InterruptStatus(p)'
    BY Zenon
  <2>2. p \in Portal /\ InterruptStatus(p) /\ p \in Scanned(q)
    BY Zenon, <1>1, <1>3, <2>1 DEF Scanned, Mine
  <2>3. PICK r \in Portal :
          InterruptStatus(r) /\ (r \in Range(interruptRequestFifo) \/ r \notin Scanned(q))
    BY Zenon, <1>3, <2>2 DEF PcieInv, AnnouncedInv
  <2>4. QED
    BY Zenon, <1>2, <2>3
<1>4. QED
  BY Zenon, <1>2, <1>3

\* A step in which no poller moves: an indication, an idle cycle or a delivery.
LEMMA PollerRests ==
  ASSUME OnePoller, PcieInv, LoopsInv', NEW f \in Seq(Portal), interrupt_rule(f),
         UNCHANGED <<enable, pc, at, todo, ready, queued>>, woken \subseteq woken',
         \A p \in Portal : InterruptStatus(p) => InterruptStatus(p)',
         \A q \in Poller : q \notin woken' =>
           \A p \in queued : p \in Range(interruptRequestFifo) => p \in Range(f)
  PROVE  PcieInv'
<1>1. interruptRequestFifo' \in Seq(Portal)
  BY Zenon, RuleType
<1>2. ASSUME NEW q \in Poller PROVE EnabledInv(q)' /\ AnnouncedInv(q)'
  <2>1. Pending(q)' = Pending(q) /\ Scanned(q)' = Scanned(q)
    BY Zenon DEF Pending, Scanned, Mine
  <2>2. EnabledInv(q)'
    BY Zenon, <2>1 DEF PcieInv, EnabledInv, Mine
  <2>3. Scanned(q)' \subseteq queued'
    BY Zenon, <2>1 DEF PcieInv, AnnouncedInv
  <2>4. ASSUME q \notin ready', q \notin woken', \E p \in Scanned(q)' : InterruptStatus(p)'
        PROVE  \/ Rising' # {}
               \/ \E p \in Portal :
                    /\ InterruptStatus(p)'
                    /\ p \in Range(interruptRequestFifo') \/ p \notin Scanned(q)'
    <3>1. pc[q] # "init"
      BY Zenon, <2>1, <2>4 DEF Scanned
    <3>2. q \notin ready /\ q \notin woken
      BY Zenon, <2>4
    <3>3. \A p \in Scanned(q) : p \in Range(interruptRequestFifo) => p \in Range(f)
      BY Zenon, <2>3, <2>1, <2>4
    <3>4. QED
      BY Zenon, <2>1, <2>4, <3>1, <3>2, <3>3, StaysAnnounced
  <2>5. QED
    BY Zenon, <2>2, <2>3, <2>4 DEF AnnouncedInv
<1>3. QED
  BY Zenon, <1>1, <1>2 DEF PcieInv

\* A delivery wakes the poller, unless the message is for a portal that poll(2) has not
\* come to.
LEMMA DeliveryPcie == ASSUME OnePoller, PcieInv, intr_handler PROVE PcieInv'
<1>1. /\ Tail(interruptRequestFifo) \in Seq(Portal) /\ Head(interruptRequestFifo) \in Portal
      /\ Range(interruptRequestFifo)
           \subseteq Range(Tail(interruptRequestFifo)) \union {Head(interruptRequestFifo)}
  BY Zenon, Messages DEF PcieInv, intr_handler
<1>2. LoopsInv' /\ woken \subseteq woken'
  BY Zenon DEF PcieInv, LoopsInv, intr_handler, hwVars, Pending, WakeUp
<1>3. \A p \in Portal : InterruptStatus(p) => InterruptStatus(p)'
  BY Zenon DEF intr_handler, hwVars, InterruptStatus, Ready
<1>4. ASSUME NEW q \in Poller, q \notin woken', NEW p \in queued,
             p \in Range(interruptRequestFifo)
      PROVE  p \in Range(Tail(interruptRequestFifo))
  <2>1. Head(interruptRequestFifo) \notin queued
    BY Zenon, <1>1, <1>4, OwnerAssumption DEF intr_handler, WakeUp, OnePoller
  <2>2. QED
    BY Zenon, <1>1, <1>4, <2>1
<1>5. QED
  BY ZenonT(60), <1>1, <1>2, <1>3, <1>4, PollerRests DEF intr_handler, hwVars

\* A step of the poller after which no portal counts as scanned.
LEMMA NothingScanned ==
  ASSUME OnePoller, PcieInv, LoopsInv', interruptRequestFifo' \in Seq(Portal),
         NEW q \in Poller, EnabledInv(q)', Scanned(q)' = {}
  PROVE  PcieInv'
BY Zenon DEF PcieInv, AnnouncedInv, OnePoller

\* Scanning a descriptor: a portal that has its indication makes the poller ready.
LEMMA ScanPcie ==
  ASSUME OnePoller, PcieInv, NEW q \in Poller, poll_scan(q),
         interrupt_rule(interruptRequestFifo)
  PROVE  PcieInv'
<1> USE DEF poll_scan
<1>1. LoopsInv /\ LoopsInv' /\ interruptRequestFifo \in Seq(Portal)
  BY ZenonT(60), PollerLoops DEF PcieInv, PollerAccess
<1>2. interruptRequestFifo' \in Seq(Portal)
  BY Zenon, <1>1, RuleType
<1>3. enable' = enable /\ \A p \in Portal : InterruptStatus(p)' <=> InterruptStatus(p)
  BY Zenon DEF hwVars, InterruptStatus, Ready
<1>4. /\ pc[q] = "poll" /\ pc'[q] \in {"poll", "polled"}
      /\ pc'[q] = "poll" => \A p \in todo[q] : p \in Pending(q)'
      /\ pc'[q] = "polled" => todo[q] = {}
  BY <1>1, AdvanceLoops DEF Pending
<1>5. \A p \in Mine(q) : p # at[q] => (p \in Scanned(q)' => p \in Scanned(q))
  BY Zenon, <1>4 DEF Scanned, Pending
<1>6. \A p \in Mine(q) : p # at[q] => (p \in Scanned(q) => p \in Scanned(q)')
  <2>1. pc'[q] = "poll" => Pending(q)' \subseteq Pending(q)
    BY <1>1, <1>4 DEF Advance, Pending, LoopsInv
  <2>2. QED
    BY Zenon, <1>4, <2>1 DEF Scanned, Mine
<1>7. ASSUME NEW r \in Poller PROVE EnabledInv(r)' /\ AnnouncedInv(r)'
  <2>1. r = q /\ Mine(r) = Portal
    BY Zenon, OwnsAll DEF OnePoller
  <2>2. EnabledInv(r)'
    BY Zenon, <1>3, <1>4, <2>1 DEF PcieInv, EnabledInv, Mine
  <2>3. Scanned(r)' \subseteq queued'
    BY Zenon, <1>5, <2>1 DEF PcieInv, AnnouncedInv, Scanned, Mine
  <2>4. ASSUME q \notin ready', q \notin woken', \E p \in Scanned(q)' : InterruptStatus(p)'
        PROVE  \/ Rising' # {}
               \/ \E p \in Portal :
                    /\ InterruptStatus(p)'
                    /\ p \in Range(interruptRequestFifo') \/ p \notin Scanned(q)'
    <3>1. ~InterruptStatus(at[q]) /\ q \notin ready /\ q \notin woken
      BY Zenon, <2>4
    <3>2. \A p \in Portal : InterruptStatus(p) => (p \in Scanned(q)' <=> p \in Scanned(q))
      BY Zenon, <1>5, <1>6, <2>1, <3>1
    <3>3. QED
      BY ZenonT(60), <1>1, <1>3, <1>4, <2>4, <3>1, <3>2, StaysAnnounced
  <2>5. QED
    BY Zenon, <2>1, <2>2, <2>3, <2>4 DEF AnnouncedInv
<1>8. QED
  BY Zenon, <1>1, <1>2, <1>7 DEF PcieInv

\* Every other step of the poller begins a scan anew or is outside poll(2).
LEMMA OtherPcie ==
  ASSUME OnePoller, PcieInv, NEW q \in Poller, interruptRequestFifo' \in Seq(Portal),
         \/ portalExec_init(q) \/ portalCheckIndication(q) \/ handler(q) \/ enableint(q)
         \/ PollerKernel(q)
  PROVE  PcieInv'
<1>1. LoopsInv /\ LoopsInv'
  BY Zenon, PollerLoops DEF PcieInv, PollerAccess
<1>2. Mine(q) = Portal
  BY Zenon, OwnsAll
<1>3. EnabledInv(q)' /\ Scanned(q)' = {}
  <2>1. CASE portalExec_init(q)
    <3>1. /\ pc'[q] \in {"init", "poll"}
          /\ pc'[q] = "init" => \A p \in todo[q] : p \in Pending(q)'
          /\ pc'[q] = "poll" => todo[q] = {} /\ Pending(q)' = Mine(q)
      BY ZenonT(60), <1>1, <2>1, AdvanceLoops DEF portalExec_init, Pending
    <3>2. enable' = enable \union {at[q]} /\ pc[q] = "init"
      BY ZenonT(60), <2>1 DEF portalExec_init
    <3>3. QED
      BY Zenon, <3>1, <3>2 DEF PcieInv, EnabledInv, Scanned, Pending, Mine
  <2>2. CASE enableint(q)
    <3>1. /\ pc'[q] \in {"event", "poll"}
          /\ pc'[q] = "poll" => Pending(q)' = Mine(q)
      BY <1>1, <2>2, AdvanceLoops DEF enableint, Pending
    <3>2. enable \subseteq enable' /\ pc[q] = "enable"
      BY Zenon, <2>2 DEF enableint
    <3>3. QED
      BY Zenon, <3>1, <3>2 DEF PcieInv, EnabledInv, Scanned, Mine
  <2>3. CASE portalCheckIndication(q) \/ handler(q)
    <3>1. /\ pc[q] \in {"event", "handle"} /\ pc'[q] \in {"event", "handle", "enable"}
          /\ enable' = enable
      BY Zenon, <1>1, <2>3 DEF portalCheckIndication, handler, hwVars, LoopsInv
    <3>2. QED
      BY Zenon, <3>1 DEF PcieInv, EnabledInv, Scanned, Mine
  <2>4. CASE PollerKernel(q)
    <3>1. /\ pc[q] = "polled" /\ pc'[q] \in {"event", "poll"} /\ enable' = enable
          /\ Pending(q)' = Mine(q)
      BY Zenon, <1>1, <2>4 DEF PollerKernel, poll_return, poll_sleep, hwVars, LoopsInv, Pending
    <3>2. QED
      BY ZenonT(60), <3>1 DEF PcieInv, EnabledInv, Scanned, Mine
  <2>5. QED
    BY Zenon, <2>1, <2>2, <2>3, <2>4
<1>4. QED
  BY Zenon, <1>1, <1>3, NothingScanned

-----------------------------------------------------------------------------
\* With one poller PcieInv is an invariant, whatever the depth of the FIFO.
THEOREM PcieWakeups == ASSUME OnePoller PROVE PcieSpec => []PcieInv
<1>1. PcieInv /\ [PcieNext /\ UNCHANGED board]_<<board, pcieVars>> => PcieInv'
  <2> SUFFICES ASSUME PcieInv, [PcieNext /\ UNCHANGED board]_<<board, pcieVars>> PROVE PcieInv'
    BY Zenon
  <2>0. interruptRequestFifo \in Seq(Portal) /\ LoopsInv
    BY Zenon DEF PcieInv
  <2>1. ASSUME NEW M, indicate(M), interrupt_rule(interruptRequestFifo) PROVE PcieInv'
    <3>1. LoopsInv' /\ UNCHANGED <<enable, pc, at, todo, ready, queued, woken>>
      BY ZenonT(60), <2>0, <2>1, IndicateLoops DEF indicate, pollVars
    <3>2. \A p \in Portal : InterruptStatus(p) => InterruptStatus(p)'
      BY <2>0, <2>1 DEF LoopsInv, indicate, InterruptStatus, Ready
    <3>3. QED
      BY Zenon, <2>0, <2>1, <3>1, <3>2, PollerRests
  <2>2. CASE Tick
    <3>1. LoopsInv' /\ UNCHANGED <<enable, pc, at, todo, ready, queued, woken>>
      BY Zenon, <2>0, <2>2 DEF Tick, hwVars, pollVars, LoopsInv, Pending
    <3>2. \A p \in Portal : InterruptStatus(p) => InterruptStatus(p)'
      BY Zenon, <2>2 DEF Tick, hwVars, InterruptStatus, Ready
    <3>3. QED
      BY Zenon, <2>0, <2>2, <3>1, <3>2, PollerRests DEF Tick
  <2>3. CASE intr_handler
    BY Zenon, <2>3, DeliveryPcie
  <2>4. ASSUME NEW q \in Poller, PciePollerStep(q) PROVE PcieInv'
    <3>1. interruptRequestFifo' \in Seq(Portal)
      BY Zenon, <2>0, <2>4, RuleType DEF PciePollerStep, msiVars
    <3>2. QED
      BY Zenon, <2>4, <3>1, ScanPcie, OtherPcie DEF PciePollerStep, PollerAccess
  <2>5. CASE UNCHANGED <<board, pcieVars>>
    <3>1. UNCHANGED <<ind, enable, pc, at, todo, ready, queued, woken, interruptRequested,
                      interruptRequestFifo>>
      BY Zenon, <2>5 DEF pcieVars, hwVars, pollVars, msiVars
    <3>2. LoopsInv' /\ interruptRequestFifo' \in Seq(Portal)
      BY Zenon, <2>0, <3>1 DEF LoopsInv, Pending, Mine
    <3>3. Rising' = Rising /\ Range(interruptRequestFifo') = Range(interruptRequestFifo)
      BY Zenon, <3>1 DEF Rising, Level, Interrupt, InterruptStatus, Ready
    <3>4. ASSUME NEW q \in Poller PROVE EnabledInv(q)' /\ AnnouncedInv(q)'
      <4>1. EnabledInv(q) /\ AnnouncedInv(q) /\ Scanned(q)' = Scanned(q)
        BY ZenonT(60), <3>1 DEF PcieInv, Scanned, Pending, Mine
      <4>2. \A p \in Portal : InterruptStatus(p)' <=> InterruptStatus(p)
        BY ZenonT(60), <3>1 DEF InterruptStatus, Ready
      <4>3. Scanned(q) \subseteq Portal
        BY Zenon DEF Scanned, Mine
      <4>4. QED
        BY Zenon, <3>1, <3>3, <4>1, <4>2, <4>3 DEF EnabledInv, AnnouncedInv, Pending, Mine
    <3>5. QED
      BY Zenon, <3>2, <3>4 DEF PcieInv
  <2>6. QED
    BY Zenon, <2>1, <2>2, <2>3, <2>4, <2>5 DEF PcieNext
<1>2. QED
  BY <1>1, InitPcie, PTL DEF PcieSpec

\* No poller sleeps on an indication without a message on the way or about to be sent
\* for one of its portals, when one poller serves all portals: interrupt_rule may send
\* one message for several rises and forget a level that fell while it waited.
THEOREM PcieNoWakeupLost == ASSUME OnePoller PROVE PcieSpec => []PcieNoLostWakeup
<1>1. PcieInv => PcieNoLostWakeup
  <2> SUFFICES ASSUME PcieInv, NEW q \in Poller, Asleep(q), NEW p \in Mine(q), InterruptStatus(p)
               PROVE  \E r \in Mine(q) : r \in Rising \/ r \in Range(interruptRequestFifo)
    BY Zenon DEF PcieNoLostWakeup
  <2>1. Mine(q) = Portal /\ Scanned(q) = Mine(q) /\ Rising \subseteq Portal
    BY Zenon, OwnsAll DEF Asleep, Scanned, Rising, Level
  <2>2. QED
    BY Zenon, <2>1 DEF PcieInv, AnnouncedInv, Asleep
<1>2. QED
  BY <1>1, PcieWakeups, PTL

=============================================================================
