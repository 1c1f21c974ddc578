------------------------------- MODULE MCLinks -------------------------------
(* How requests travel: the ring in shared memory, the sockets of a daemon,   *)
(* the tables of a poller and the request FIFOs of a hardware portal.  A      *)
(* behaviour is about one of them, the subject.  The ring is that of          *)
(* examples/echoshared: 60 bytes, at most two arguments.                      *)
EXTENDS SharedPortal, SocketPortal, PollerTables, RequestFifo, TLC

CONSTANTS c1, c2, c3

VARIABLE subject

MCLens == {1, 2, 3}

\* Three clients of the portals of examples/echomux on one mux: 0 is a proxy, which no
\* client sends to, and portal 3 answers.
MCClient == {c1, c2, c3}
Say(p, m) == [port |-> p, method |-> m]
MCScript == c1 :> <<Say(1, 0), Say(3, 1)>> @@ c2 :> <<Say(3, 0)>> @@ c3 :> <<Say(1, 1)>>

\* The socket of a mux, a portal on it with the same number, and the connection of a
\* proxy's mux, which has no handler.
MCNumber == 1 :> 0 @@ 2 :> 0 @@ 3 :> 1

\* Messages of three words and of one.
MCWords == "sglist" :> 3 @@ "idReturn" :> 1

MCInit ==
  /\ subject \in {"ring", "socket", "tables", "fifo"}
  /\ Init /\ SocketInit /\ TablesInit /\ FifoInit
  /\ callee = "sglist"
  /\ subject # "tables" => ~timed

MCNext ==
  /\ UNCHANGED subject
  /\ \/ subject = "ring" /\ Next /\ UNCHANGED <<socketVars, tableVars, fifoVars>>
     \/ subject = "socket" /\ SocketNext /\ UNCHANGED <<vars, tableVars, fifoVars>>
     \/ subject = "tables" /\ TablesNext /\ UNCHANGED <<vars, socketVars, fifoVars>>
     \/ subject = "fifo" /\ FifoNext /\ UNCHANGED <<vars, socketVars, tableVars>>

\* A step of the subject.
Of(s, A) == subject = s /\ A

\* The fairness of the four specifications, each for its own behaviours.
MCSpec ==
  /\ MCInit /\ [][MCNext]_<<subject, vars, socketVars, tableVars, fifoVars>>
  /\ WF_vars(Of("ring", WriterStep)) /\ WF_vars(Of("ring", Reader))
  /\ WF_socketVars(Of("socket", Daemon))
  /\ WF_tableVars(Of("tables", Poller))
  /\ WF_fifoVars(Of("fifo", Caller))

\* A client that leaves costs the daemon at most one repeated call and no message of
\* the others, but of those whose words a handler took with its header, and the poller
\* goes on waiting for the others (event_socket).
LeavingBounded == RepeatsBounded /\ LossBounded /\ TablePolled

\* A call returns, through the ring in shared memory and to a hardware portal
\* (busywait_shared, busy_hardware, write_hardware).
CallsReturn == CallReturns /\ RequestReturns

\* What waits for a poller is handled: messages at the daemon's sockets and indications
\* of the portals in its tables; with a timeout it also obeys portalExec_stop.
PollersServe ==
  /\ MessagesHandled
  /\ EarlyPortalsServed /\ TimedPollerServes /\ TimedPollerStops

=============================================================================
