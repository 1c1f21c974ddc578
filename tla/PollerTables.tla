---------------------------- MODULE PollerTables ----------------------------
(***************************************************************************)
(* cpp/poller.cpp and cpp/poller.h: the tables of a PortalPoller under the *)
(* construction and destruction of portals by the program's thread, while  *)
(* the poller's own thread waits in poll(2) with the table it was given.   *)
(*                                                                         *)
(* A portal has a descriptor of its own (hardware, or a listening socket), *)
(* one connection (socketfuncInit) or neither (simulation, shared memory,  *)
(* or on a mux), and a descriptor closed is not given out again.  It       *)
(* becomes readable when its portal has an indication; the event function  *)
(* of a portal handles what it has.  Connections accepted later are in     *)
(* SocketPortal.                                                           *)
(***************************************************************************)
EXTENDS Integers, Sequences, Functions

CONSTANTS
  Portal,    \* the portals initPortal registers, each constructed at most once
  Number,    \* their fpga_number: programs use one for several
  Handled,   \* those with a handler; the others are sockets
  HasFd,     \* those with an fpga_fd
  HasClient, \* those with a client_fd at registration (init_socketInit)
  SimFd,     \* global_sockfd, the connection to the simulator
  MaxEvents  \* bound on the indications of a portal

ASSUME PortalAssumption ==
  /\ HasFd \subseteq Portal /\ HasClient \subseteq Portal /\ HasFd \cap HasClient = {}
  /\ SimFd \notin Portal

VARIABLES
  portal_wrappers, portal_fds,   \* the tables; a descriptor is named by its portal
  numFds,    \* the length of portal_fds, or less than zero
  life,      \* a portal: new, live, dead
  pending,   \* the portal has indications that are not handled
  events,    \* number of indications of a portal
  thread,    \* the poller's thread: none, init, loop, poll, event, ended; crashed
  fds,       \* the table poll was called with
  stopping,  \* set by portalExec_stop
  early,     \* portals constructed before the thread read the tables
  timed,     \* poll has a timeout (portalExec_timeout = 100, simulation)
  displaced, \* a portal without an fpga_fd has been unregistered
  mistakable \* one has been that the table had another entry for: with its number, or
             \* of a portal that is gone and whose number is anything

tables == <<portal_wrappers, portal_fds, numFds, early, displaced, mistakable, timed>>
tableVars == <<tables, life, pending, events, thread, fds, stopping>>

TablesInit ==
  /\ portal_wrappers = <<>>
  /\ portal_fds = <<>> /\ numFds = 0
  /\ life = [p \in Portal |-> "new"]
  /\ pending = [p \in Portal |-> FALSE]
  /\ events = [p \in Portal |-> 0]
  /\ thread = "none"
  /\ fds = <<>>
  /\ stopping = FALSE
  /\ timed \in BOOLEAN
  /\ early = {}
  /\ displaced = FALSE /\ mistakable = FALSE

-----------------------------------------------------------------------------
\* The program's thread.

\* The tables have an entry of a portal that is gone.
Dangling == \E p \in Range(portal_wrappers) : life[p] = "dead"

\* With numFds below zero the entry is written before the beginning of the table.
addFd(f) ==
  /\ portal_fds' = IF numFds < 0 THEN portal_fds ELSE Append(portal_fds, f)
  /\ numFds' = numFds + 1

registerInstance(p) ==
  /\ life[p] = "new" /\ thread # "crashed"
  /\ life' = [life EXCEPT ![p] = "live"]
  /\ portal_wrappers' = Append(portal_wrappers, p)
  /\ IF p \in HasFd \cup HasClient THEN addFd(p) ELSE UNCHANGED <<portal_fds, numFds>>
  /\ early' = IF thread = "none" THEN early \cup {p} ELSE early
  /\ UNCHANGED <<pending, events, thread, fds, stopping, displaced, mistakable, timed>>

\* Mutant: always the last element.
Removed_Last(table, at) == IF table = <<>> THEN {<<>>} ELSE {SubSeq(table, 1, Len(table) - 1)}

\* The entries behind the one that is removed move up.
Without(table, i) == SubSeq(table, 1, i - 1) \o SubSeq(table, i + 1, Len(table))

\* The two removal loops: the first entry that matches, or else the last of the table.
Removed(table, at) ==
  IF table = <<>> THEN {<<>>}
  ELSE {Without(table, i) :
          i \in IF at = {} THEN {Len(table)} ELSE {j \in at : \A k \in at : j <= k}}

\* The entries with the number of portal p, where those of the portals in gone, which
\* are no more, happen to read like it.
SameNumber(p, gone) ==
  {i \in DOMAIN portal_wrappers :
     LET q == portal_wrappers[i] IN IF life[q] = "dead" THEN q \in gone ELSE Number[q] = Number[p]}

\* ~Portal of a portal with a handler.
unregisterInstance(p) ==
  /\ life[p] = "live" /\ thread # "crashed" /\ p \in Handled
  /\ life' = [life EXCEPT ![p] = "dead"]
  /\ \E gone \in SUBSET {q \in Range(portal_wrappers) : life[q] = "dead"} :
       portal_wrappers' \in Removed(portal_wrappers, SameNumber(p, gone))
  /\ portal_fds' \in Removed(portal_fds, {i \in DOMAIN portal_fds : portal_fds[i] = p /\ p \in HasFd})
  /\ numFds' = numFds - 1
  /\ displaced' = (displaced \/ p \notin HasFd)
  /\ mistakable' = (mistakable \/ \E q \in Range(portal_wrappers) \ {p} :
                                     life[q] = "dead" \/ Number[q] = Number[p])
  /\ UNCHANGED <<pending, events, thread, fds, stopping, early, timed>>

\* ~Portal of one without: it stays in the tables.
destruct(p) ==
  /\ life[p] = "live" /\ thread # "crashed" /\ p \notin Handled
  /\ life' = [life EXCEPT ![p] = "dead"]
  /\ UNCHANGED <<tables, pending, events, thread, fds, stopping>>

portalExec_start ==
  /\ thread = "none"
  /\ thread' = "init"
  /\ UNCHANGED <<tables, life, pending, events, fds, stopping>>

portalExec_stop ==
  /\ ~stopping /\ thread # "crashed"
  /\ stopping' = TRUE
  /\ UNCHANGED <<tables, life, pending, events, thread, fds>>

-----------------------------------------------------------------------------
\* The poller's thread.

\* In simulation the connection to the simulator is added.
portalExec_init ==
  /\ thread = "init"
  /\ IF timed THEN addFd(SimFd) ELSE UNCHANGED <<portal_fds, numFds>>
  /\ thread' = IF numFds' = 0 THEN "ended" ELSE "loop"
  /\ UNCHANGED <<portal_wrappers, early, displaced, mistakable, timed, life, pending, events, fds, stopping>>

\* Mutant: the flag is not looked at again.
portalExec_Deaf ==
  /\ thread = "loop"
  /\ thread' = "poll"
  /\ fds' = portal_fds
  /\ UNCHANGED <<tables, life, pending, events, stopping>>

\* The head of portalExec's loop and the call of poll: a negative number of descriptors
\* is an error, and one that is closed is ready at once.
portalExec ==
  /\ thread = "loop"
  /\ IF stopping \/ numFds < 0
     THEN thread' = "ended" /\ fds' = fds
     ELSE /\ thread' = IF \E p \in HasFd : p \in Range(portal_fds) /\ life[p] = "dead"
                       THEN "event" ELSE "poll"
          /\ fds' = portal_fds
  /\ UNCHANGED <<tables, life, pending, events, stopping>>

\* poll returns.
portalExec_poll ==
  /\ thread = "poll"
  /\ timed \/ \E p \in Range(fds) \ {SimFd} : pending[p]
  /\ thread' = "event"
  /\ UNCHANGED <<tables, life, pending, events, fds, stopping>>

\* A poll that fails (EINTR) ends the loop.
portalExec_poll_error ==
  /\ thread = "poll"
  /\ thread' = "ended"
  /\ UNCHANGED <<tables, life, pending, events, fds, stopping>>

\* Mutant: only the portals whose descriptors were waited for.
portalExec_event_FdsOnly ==
  /\ thread = "event"
  /\ thread' = "loop"
  /\ pending' = [p \in Portal |-> pending[p] /\ p \notin Range(portal_fds) \cap Handled]
  /\ UNCHANGED <<tables, life, events, fds, stopping>>

\* Mutant: the loop over the portals ends with the first.
portalExec_event_First ==
  /\ thread = "event"
  /\ thread' = "loop"
  /\ pending' = [p \in Portal |->
       pending[p] /\ (portal_wrappers = <<>> \/ p # Head(portal_wrappers))]
  /\ UNCHANGED <<tables, life, events, fds, stopping>>

\* The event function of every portal with a handler handles all it has and enables its
\* interrupt.
portalExec_event ==
  /\ thread = "event"
  /\ thread' = "loop"
  /\ pending' = [p \in Portal |-> pending[p] /\ p \notin Range(portal_wrappers) \cap Handled]
  /\ UNCHANGED <<tables, life, events, fds, stopping>>

\* The loops of portalExec_init and portalExec_event call a portal that is gone, or addFd
\* writes before the beginning of the table: the program may end.
crash ==
  /\ \/ thread \in {"init", "event"} /\ Dangling
     \/ thread # "crashed" /\ numFds < 0
        /\ ((timed /\ thread = "init") \/ \E p \in HasFd \cup HasClient : life[p] = "new")
  /\ thread' = "crashed"
  /\ UNCHANGED <<tables, life, pending, events, fds, stopping>>

\* Hardware.
Indicate(p) ==
  /\ life[p] = "live"
  /\ events[p] < MaxEvents
  /\ events' = [events EXCEPT ![p] = @ + 1]
  /\ pending' = [pending EXCEPT ![p] = TRUE]
  /\ UNCHANGED <<tables, life, thread, fds, stopping>>

Poller == portalExec_init \/ portalExec \/ portalExec_poll \/ portalExec_event

TablesNext ==
  \/ \E p \in Portal : registerInstance(p) \/ unregisterInstance(p) \/ destruct(p) \/ Indicate(p)
  \/ portalExec_start \/ portalExec_stop \/ Poller \/ portalExec_poll_error \/ crash

TablesSpec == TablesInit /\ [][TablesNext]_tableVars
TablesFairSpec == TablesSpec /\ WF_tableVars(Poller)

-----------------------------------------------------------------------------
\* The portals that are to be in the tables: the live ones, and those without a handler,
\* whose destructor leaves them there.
Kept == {p \in Portal : life[p] = "live" \/ (life[p] = "dead" /\ p \notin Handled)}

\* registerInstance and unregisterInstance keep portal_wrappers equal to the portals that
\* are to be in it as long as the number of each unregistered one was no other entry's,
\* and portal_fds equal to their descriptors and the connections of all there were as
\* long as each unregistered one had a descriptor: else another portal's entry goes.
\* Whatever goes wrong, no portal is in a table twice, nor one that was never there.
TablesExact ==
  /\ ~mistakable => Range(portal_wrappers) = Kept
  /\ ~displaced => /\ numFds = Len(portal_fds)
                   /\ Range(portal_fds) \ {SimFd} =
                        (Kept \cap HasFd) \cup {p \in HasClient : life[p] # "new"}
  /\ \A p \in Range(portal_wrappers) \cup (Range(portal_fds) \ {SimFd}) : life[p] # "new"
  /\ IsInjective(portal_wrappers) /\ IsInjective(portal_fds)

\* The inductive invariant of the proofs.
TablesInv ==
  /\ portal_wrappers \in Seq(Portal) /\ portal_fds \in Seq(Portal \cup {SimFd}) /\ numFds \in Int
  /\ life \in [Portal -> {"new", "live", "dead"}]
  /\ thread \in {"none", "init"} => SimFd \notin Range(portal_fds)
  /\ TablesExact

\* Indications are bounded, so each of these says what holds again and again.

\* An indication of a portal that portalExec_init found is handled, unless the
\* poller stops or fails, the portal is destructed or an entry of it may have gone with
\* another portal.
EarlyPortalsServed ==
  []<>(\A p \in early \cap Handled \cap (HasFd \cup HasClient) :
         pending[p] => \/ thread \in {"none", "ended", "crashed"} \/ life[p] = "dead"
                       \/ displaced \/ mistakable)

\* With a timeout, portalExec_stop ends the thread.
TimedPollerStops == []<>(timed /\ stopping => thread \in {"none", "ended", "crashed"})

\* With a timeout every portal is served, also one without a descriptor or one
\* constructed after the thread has called poll.
TimedPollerServes ==
  []<>(\A p \in Handled :
         timed /\ pending[p] =>
           thread \in {"none", "ended", "crashed"} \/ life[p] = "dead" \/ mistakable)
=============================================================================
