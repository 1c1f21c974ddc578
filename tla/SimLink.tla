------------------------------ MODULE SimLink ------------------------------
(***************************************************************************)
(* The link between programs and the simulator: the BSIM part of           *)
(* cpp/portalSocket.c in each program, cpp/BsimCtrl.cxx in the simulator.  *)
(*                                                                         *)
(* A program has two threads, main and poller, one socket and one portal.  *)
(* Register reads hold socket_mutex from the request to the answer; writes *)
(* do not.  The simulator takes one request at a time and sends every      *)
(* connected program the interrupt level when it changes.                  *)
(*                                                                         *)
(* The hardware behind the link is a portal with an enable register and a  *)
(* queue of indications; reading its FIFO takes one.  int_rule calls       *)
(* interruptLevel in every cycle, so hardware changes wait for it.         *)
(***************************************************************************)
EXTENDS Integers, Sequences, Functions

CONSTANTS
  Proc,      \* programs
  MaxPending,    \* bound on the indications of a program's portal
  Loads,     \* which programs run, and the accesses their main threads make
  SockBuf    \* requests that fit a socket's buffer

Thread == {"main", "poller"}

VARIABLES
  sock,      \* a program's socket: absent, none, backlog, accepted
  requests,  \* requests on the way to the simulator
  responses, \* answers and interrupt levels on the way back
  mutex,     \* owner of socket_mutex, or "none"
  step,        \* per program and thread
  ops,       \* accesses a main thread still makes
  shared_response, shared_response_valid, interrupt_value,
  fd_array,  \* the simulator's connections
  head,      \* the request the simulator is at
  level,     \* the level it has sent last
  late,      \* programs accepted while that level was high, which they were not sent
  writes,    \* writes the hardware has not carried out
  enabled, pending, inds   \* the portals: enable, indications, and how many so far

linkVars == <<sock, requests, responses, fd_array, head, level, late>>
portalVars == <<writes, enabled, pending, inds>>
progVars == <<mutex, step, ops, shared_response, shared_response_valid, interrupt_value>>
allSimVars == <<linkVars, portalVars, progVars>>

NoAnswer == [kind |-> "none", by |-> "none", value |-> 0]
NoRequest == [by |-> "none", write |-> FALSE, reg |-> "none"]

SimInit ==
  /\ \E l \in Loads :
       /\ sock = [p \in Proc |-> IF p \in DOMAIN l THEN "none" ELSE "absent"]
       /\ ops = [p \in Proc |-> IF p \in DOMAIN l THEN l[p] ELSE 0]
  /\ requests = [p \in Proc |-> <<>>]
  /\ responses = [p \in Proc |-> <<>>]
  /\ mutex = [p \in Proc |-> "none"]
  /\ step = [p \in Proc |-> [t \in Thread |-> "start"]]
  /\ shared_response = [p \in Proc |-> NoAnswer]
  /\ shared_response_valid = [p \in Proc |-> FALSE]
  /\ interrupt_value = [p \in Proc |-> 0]
  /\ fd_array = <<>>
  /\ head = [valid |-> FALSE, inflight |-> FALSE, proc |-> CHOOSE p \in Proc : TRUE, req |-> NoRequest]
  /\ level = 0
  /\ late = {}
  /\ writes = <<>>
  /\ enabled = [p \in Proc |-> FALSE]
  /\ pending = [p \in Proc |-> 0]
  /\ inds = [p \in Proc |-> 0]

-----------------------------------------------------------------------------
\* The program.

\* portalSendFd of one request; a full socket blocks the sender.  The request
\* carries its thread's name in the place of a tag: a thread waits for one at a time.
Request(p, t, isWrite, r) ==
  /\ Len(requests[p]) < SockBuf
  /\ requests' = [requests EXCEPT ![p] = Append(@, [by |-> t, write |-> isWrite, reg |-> r])]

\* Mutant: socket_mutex is taken without waiting for it.
read_portal_bsim_NoLock(p, t, r, next) ==
  /\ mutex' = [mutex EXCEPT ![p] = t]
  /\ Request(p, t, FALSE, r)
  /\ step' = [step EXCEPT ![p][t] = next]

\* read_portal_bsim up to its loop.
read_portal_bsim(p, t, r, next) ==
  /\ mutex[p] = "none"
  /\ mutex' = [mutex EXCEPT ![p] = t]
  /\ Request(p, t, FALSE, r)
  /\ step' = [step EXCEPT ![p][t] = next]

write_portal_bsim(p, t, next) ==
  /\ Request(p, t, TRUE, "enable")
  /\ step' = [step EXCEPT ![p][t] = next]
  /\ UNCHANGED mutex

readVars == <<shared_response, shared_response_valid, interrupt_value>>
simVars == <<sock, responses, fd_array, head, level, late>>

\* connect_to_bsim and init_bsim: the portal's interrupt is enabled.
connect_to_bsim(p) ==
  /\ sock[p] = "none"
  /\ sock' = [sock EXCEPT ![p] = "backlog"]
  /\ UNCHANGED <<requests, responses, fd_array, head, level, late, portalVars, progVars>>

init_bsim(p) ==
  /\ step[p]["main"] = "start"
  /\ sock[p] \in {"backlog", "accepted"}
  /\ write_portal_bsim(p, "main", "ready")
  /\ UNCHANGED <<simVars, portalVars, ops, readVars>>

\* Main reads a register or enables the interrupt again.
main_access(p) ==
  /\ step[p]["main"] = "ready"
  /\ ops[p] > 0
  /\ ops' = [ops EXCEPT ![p] = @ - 1]
  /\ \/ read_portal_bsim(p, "main", "reg", "reg")
     \/ write_portal_bsim(p, "main", "ready")
  /\ UNCHANGED <<simVars, portalVars, readVars>>

\* poll_response when no answer is held.
poll_response(p) ==
  /\ ~shared_response_valid[p]
  /\ responses[p] # <<>>
  /\ responses' = [responses EXCEPT ![p] = Tail(@)]
  /\ LET a == Head(responses[p]) IN
     IF a.kind = "interrupt"
     THEN /\ interrupt_value' = [interrupt_value EXCEPT ![p] = a.value]
          /\ UNCHANGED <<shared_response, shared_response_valid>>
     ELSE /\ shared_response' = [shared_response EXCEPT ![p] = a]
          /\ shared_response_valid' = [shared_response_valid EXCEPT ![p] = TRUE]
          /\ UNCHANGED interrupt_value

\* The loop of read_portal_bsim.
poll_for_answer(p, t) ==
  /\ step[p][t] \in {"reg", "status", "take"}
  /\ poll_response(p)
  /\ UNCHANGED <<sock, requests, fd_array, head, level, late, portalVars, mutex, step, ops>>

\* Mutant: shared_response_valid stays set.
read_end_KeepsValid(p, t) ==
  /\ step[p][t] \in {"reg", "status", "take"}
  /\ mutex[p] = t
  /\ shared_response_valid[p]
  /\ mutex' = [mutex EXCEPT ![p] = "none"]
  /\ step' = [step EXCEPT ![p][t] =
       CASE @ = "reg" -> "ready"
         [] @ = "status" /\ shared_response[p].value # 0 -> "handler"
         [] @ = "status" /\ shared_response[p].value = 0 -> "enableint"
         [] @ = "take" -> "check"]
  /\ UNCHANGED <<linkVars, portalVars, ops, shared_response, shared_response_valid,
                 interrupt_value>>

\* Its end: where the thread goes on depends on what it read.
read_end(p, t) ==
  /\ step[p][t] \in {"reg", "status", "take"}
  /\ mutex[p] = t
  /\ shared_response_valid[p]
  /\ shared_response_valid' = [shared_response_valid EXCEPT ![p] = FALSE]
  /\ mutex' = [mutex EXCEPT ![p] = "none"]
  /\ step' = [step EXCEPT ![p][t] =
       CASE @ = "reg" -> "ready"
         [] @ = "status" /\ shared_response[p].value # 0 -> "handler"
         [] @ = "status" /\ shared_response[p].value = 0 -> "enableint"
         [] @ = "take" -> "check"]
  /\ UNCHANGED <<linkVars, portalVars, ops, shared_response, interrupt_value>>

\* Mutant: a level that was received before is not remembered.
bsim_poll_interrupt_Edge(p) ==
  /\ step[p]["poller"] = "start"
  /\ step[p]["main"] # "start"
  /\ mutex[p] = "none"
  /\ \/ poll_response(p)
     \/ responses[p] = <<>> /\ UNCHANGED <<responses, shared_response, shared_response_valid, interrupt_value>>
  /\ step' = [step EXCEPT ![p]["poller"] =
       IF interrupt_value'[p] = 1 /\ interrupt_value[p] = 0 THEN "check" ELSE "enableint"]
  /\ UNCHANGED <<sock, requests, fd_array, head, level, late, portalVars, mutex, ops>>

\* bsim_poll_interrupt in event_portal_bsim, after portalExec_poll's timeout.
bsim_poll_interrupt(p) ==
  /\ step[p]["poller"] = "start"
  /\ step[p]["main"] # "start"
  /\ mutex[p] = "none"
  /\ \/ poll_response(p)
     \/ responses[p] = <<>> /\ UNCHANGED <<responses, shared_response, shared_response_valid, interrupt_value>>
  /\ step' = [step EXCEPT ![p]["poller"] = IF interrupt_value'[p] = 1 THEN "check" ELSE "enableint"]
  /\ UNCHANGED <<sock, requests, fd_array, head, level, late, portalVars, mutex, ops>>

\* portalCheckIndication reads the status, its handler the FIFO; then portalExec_event
\* enables the interrupt.
poller_access(p) ==
  /\ \/ step[p]["poller"] = "check" /\ read_portal_bsim(p, "poller", "status", "status")
     \/ step[p]["poller"] = "handler" /\ read_portal_bsim(p, "poller", "fifo", "take")
     \/ step[p]["poller"] = "enableint" /\ write_portal_bsim(p, "poller", "start")
  /\ UNCHANGED <<simVars, portalVars, ops, readVars>>

-----------------------------------------------------------------------------
\* The simulator.

Line == IF \E p \in Proc : enabled[p] /\ pending[p] > 0 THEN 1 ELSE 0

pthread_worker(p) ==
  /\ sock[p] = "backlog"
  /\ sock' = [sock EXCEPT ![p] = "accepted"]
  /\ fd_array' = Append(fd_array, p)
  /\ late' = IF level = 1 THEN late \cup {p} ELSE late
  /\ UNCHANGED <<requests, responses, head, level, portalVars, progVars>>

\* Mutant: only a rising level is sent.
interruptLevel_Rising ==
  /\ level # Line
  /\ level' = Line
  /\ late' = {}
  /\ responses' = [p \in Proc |->
       IF p \in Range(fd_array) /\ Line = 1
       THEN Append(responses[p], [kind |-> "interrupt", by |-> "none", value |-> Line])
       ELSE responses[p]]
  /\ UNCHANGED <<sock, requests, fd_array, head, portalVars, progVars>>

interruptLevel ==
  /\ level # Line
  /\ level' = Line
  /\ late' = {}
  /\ responses' = [p \in Proc |->
       IF p \in Range(fd_array)
       THEN Append(responses[p], [kind |-> "interrupt", by |-> "none", value |-> Line])
       ELSE responses[p]]
  /\ UNCHANGED <<sock, requests, fd_array, head, portalVars, progVars>>

\* The first connection with a request, in the order of fd_array.
Waiting == {i \in DOMAIN fd_array : requests[fd_array[i]] # <<>>}

checkForRequest ==
  /\ ~head.valid
  /\ Waiting # {}
  /\ LET p == fd_array[CHOOSE i \in Waiting : \A j \in Waiting : i <= j] IN
     /\ head' = [valid |-> TRUE, inflight |-> TRUE, proc |-> p, req |-> Head(requests[p])]
     /\ requests' = [requests EXCEPT ![p] = Tail(@)]
  /\ UNCHANGED <<sock, responses, fd_array, level, late, portalVars, progVars>>

getRequest32 ==
  /\ head.valid /\ head.inflight
  /\ Len(writes) < 1
  /\ head' = [head EXCEPT !.valid = ~head.req.write, !.inflight = FALSE]
  /\ writes' = IF head.req.write THEN Append(writes, head.proc) ELSE writes
  /\ UNCHANGED <<sock, requests, responses, fd_array, level, late, enabled, pending, inds, progVars>>

\* The hardware reads and the answer goes to the connection the request is from.
readResponse32 ==
  /\ head.valid /\ ~head.inflight
  /\ level = Line
  /\ LET p == head.proc IN
     /\ head' = [head EXCEPT !.valid = FALSE]
     /\ pending' = IF head.req.reg = "fifo" THEN [pending EXCEPT ![p] = @ - 1] ELSE pending
     /\ responses' = [responses EXCEPT ![p] =
          Append(@, [kind |-> "answer", by |-> head.req.by, value |-> pending[p]])]
  /\ UNCHANGED <<sock, requests, fd_array, level, late, writes, enabled, inds, progVars>>

\* Hardware.
write_enable ==
  /\ writes # <<>>
  /\ level = Line
  /\ enabled' = [enabled EXCEPT ![Head(writes)] = TRUE]
  /\ writes' = Tail(writes)
  /\ UNCHANGED <<linkVars, pending, inds, progVars>>

ind_enq(p) ==
  /\ level = Line
  /\ inds[p] < MaxPending
  /\ inds' = [inds EXCEPT ![p] = @ + 1]
  /\ pending' = [pending EXCEPT ![p] = @ + 1]
  /\ UNCHANGED <<linkVars, writes, enabled, progVars>>

Simulator == interruptLevel \/ checkForRequest \/ getRequest32 \/ readResponse32 \/ write_enable
ThreadStep(p, t) ==
  \/ poll_for_answer(p, t) \/ read_end(p, t)
  \/ t = "poller" /\ (bsim_poll_interrupt(p) \/ poller_access(p))
  \/ t = "main" /\ init_bsim(p)

SimNext ==
  \/ Simulator
  \/ \E p \in Proc : connect_to_bsim(p) \/ pthread_worker(p) \/ main_access(p) \/ ind_enq(p)
  \/ \E p \in Proc, t \in Thread : ThreadStep(p, t)

SimSpec == SimInit /\ [][SimNext]_allSimVars

\* The simulator and the threads run; socket_mutex is given to every thread that
\* keeps asking for it.
SimFairSpec ==
  /\ SimSpec
  /\ WF_allSimVars(Simulator)
  /\ \A p \in Proc : WF_allSimVars(pthread_worker(p))
  /\ \A p \in Proc : \A t \in Thread : SF_allSimVars(ThreadStep(p, t))

-----------------------------------------------------------------------------
\* read_portal_bsim returns the answer to the thread's own request, although
\* poll_response compares portal numbers only and ignores tags; and an answer is held
\* only for a thread that waits for it, so that bsim_poll_interrupt, which asks for no
\* portal, can receive the next message.
OwnAnswer ==
  \A p \in Proc : shared_response_valid[p] =>
    /\ mutex[p] \in Thread
    /\ step[p][mutex[p]] \in {"reg", "status", "take"}
    /\ shared_response[p].by = mutex[p]

\* The first program to connect has all its indications handled: again and again
\* none of them waits (interruptLevel, bsim_poll_interrupt, read_portal_bsim).
FirstServed ==
  []<>(fd_array # <<>> => ~(pending[fd_array[1]] > 0 /\ enabled[fd_array[1]]))

\* What a connected program knows, or will know once it has received what is on
\* the way, is the level of the interrupt line as the simulator last sent it; only a
\* program accepted while the line was high does not know it, until it falls.
Knows(p, l) ==
  LET Levels == {i \in DOMAIN responses[p] : responses[p][i].kind = "interrupt"} IN
  IF Levels = {} THEN interrupt_value[p] = l
  ELSE \E i \in Levels : (\A j \in Levels : j <= i) /\ responses[p][i].value = l

LevelKnown ==
  \A p \in Range(fd_array) : Knows(p, IF p \in late THEN 0 ELSE level)

=============================================================================
