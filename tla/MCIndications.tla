---------------------------- MODULE MCIndications ----------------------------
(* Indications on both kinds of board, two portals with one poller for both,  *)
(* and over the simulator's socket.  A behaviour is about one of the three;   *)
(* the two boards share the variables of Indication.                          *)
EXTENDS ZynqIndication, PcieIndication, SimLink, TLC

CONSTANTS
  Boards,   \* what the behaviours of a run are about
  p1, p2    \* programs of the simulator

MCPortal == {0, 1}
MCOnePortal == {0}
MCChannel == {0, 1}
MCOneChannel == {0}
MCPoller == {"a"}
MCOwner == 0 :> "a" @@ 1 :> "a"
MCOneOwner == 0 :> "a"
MCTwoPollers == {"a", "b"}
MCTwoOwners == 0 :> "a" @@ 1 :> "b"

\* One program with an access of its own besides the poller's, or two programs.
MCProc == {p1, p2}
MCLoads == {p1 :> 1, p1 :> 0 @@ p2 :> 0}

\* The variables of the others keep one initial value.
MCInit ==
  /\ board \in Boards
  /\ IndicationInit /\ IsrInit /\ MsiInit /\ SimInit
  /\ board = "sim" => \A q \in Poller : \A p \in Mine(q) : at[q] <= p
  /\ board # "zynq" => isrAt = 0
  /\ board # "sim" => sock[p2] = "none"

MCNext ==
  /\ UNCHANGED board
  /\ \/ board = "zynq" /\ ZynqNext /\ UNCHANGED <<msiVars, allSimVars>>
     \/ board = "pcie" /\ PcieNext /\ UNCHANGED <<isrVars, allSimVars>>
     \/ board = "sim" /\ SimNext /\ UNCHANGED <<zynqVars, msiVars>>

\* A step of the board that this behaviour is about.
On(b, A) == board = b /\ A

\* The fairness of the three specifications, each on its board.
MCSpec ==
  /\ MCInit /\ [][MCNext]_<<board, zynqVars, msiVars, allSimVars>>
  /\ WF_zynqVars(On("zynq", irq_enter)) /\ WF_zynqVars(On("zynq", portal_isr))
  /\ \A q \in Poller : WF_zynqVars(On("zynq", ZynqPollerStep(q)))
  /\ WF_pcieVars(On("pcie", Tick)) /\ WF_pcieVars(On("pcie", intr_handler))
  /\ \A q \in Poller : WF_pcieVars(On("pcie", PciePollerStep(q)))
  /\ WF_allSimVars(On("sim", Simulator))
  /\ \A p \in Proc : WF_allSimVars(On("sim", pthread_worker(p)))
  /\ \A p \in Proc, t \in Thread : SF_allSimVars(On("sim", ThreadStep(p, t)))

\* Every indication is handled: on a Zynq board, on a PCIe board and, for the first
\* program to connect, over the simulator's socket (portalExec, portal_isr,
\* interrupt_rule, bsim_poll_interrupt).
AllHandled == IndicationsHandled /\ FirstServed

=============================================================================
