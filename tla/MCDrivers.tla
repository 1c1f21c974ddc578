------------------------------ MODULE MCDrivers ------------------------------
(* The drivers: boards and portals of pcieportal, portals of zynqportal and   *)
(* buffers of portalmem.  A behaviour is about one of them, the subject.      *)
EXTENDS PcieDriver, ZynqDriver, PortalMem, TLC

CONSTANTS d1, d2

VARIABLE subject

\* Two devices for one board, one of them with as many portals as there may be.
MCPortals == d1 :> 2 @@ d2 :> 3
MCMaxProbes == d1 :> 2 @@ d2 :> 1

\* Blocks of 4, 2 and 1 pages.
MCOrders == <<4, 2, 1>>

MCInit ==
  /\ subject \in {"pcie", "zynq", "mem"}
  /\ BoardsInit /\ ZynqInit /\ MemInit

MCNext ==
  /\ UNCHANGED subject
  /\ \/ subject = "pcie" /\ BoardsNext /\ UNCHANGED <<zynqVars, memVars>>
     \/ subject = "zynq" /\ ZynqNext /\ UNCHANGED <<boardsVars, memVars>>
     \/ subject = "mem" /\ MemNext /\ UNCHANGED <<boardsVars, zynqVars>>

MCSpec == MCInit /\ [][MCNext]_<<subject, boardsVars, zynqVars, memVars>>
=============================================================================
