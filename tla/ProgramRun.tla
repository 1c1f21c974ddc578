----------------------------- MODULE ProgramRun -----------------------------
(***************************************************************************)
(* A run of one of the programs of examples/ against its hardware.  The    *)
(* main thread, the child process and the poller thread interleave step by *)
(* step; the hardware answers the requests of a portal in their order and  *)
(* those of different portals in any; the poller calls one method at a     *)
(* time, for whichever portal has an indication.                           *)
(*                                                                         *)
(* Requests and indications are not lost: PcieIndication, ZynqIndication   *)
(* and the ring modules are about that.  The hardware may work wrongly, as *)
(* the answers of a program's table say; `bad' records how it did.         *)
(***************************************************************************)
EXTENDS PortalScript

CONSTANTS
  Suite,       \* the programs, by name
  Name         \* the names of those that run

VARIABLES
  prog,        \* the program that runs
  code,        \* per thread, the steps it has still to take
  arg,         \* the argument of the method the poller is in
  sem,         \* the semaphores
  mem,         \* the program's variables
  data,        \* whether the buffer that is compared is as it should be
  reqs,        \* per portal, requests the hardware has not begun
  work,        \* per portal, what is left of the answers it has begun
  inds,        \* per portal, indications the poller has not fetched
  started,     \* the poller thread runs
  child,       \* exit status of the child, -1 while it runs
  status,      \* exit status of the program, -1 while it runs
  bad          \* the errors of the hardware: some that show, some that need not

threadVars == <<code, arg, sem, mem, started, child, status>>
deviceVars == <<reqs, work, inds>>
vars == <<prog, threadVars, data, deviceVars, bad>>

P == Suite[prog]

Init ==
  /\ prog \in Name
  /\ code = [t \in Thread |-> CASE t = "main" -> P.main [] t = "child" -> P.child
                                [] OTHER -> <<>>]
  /\ arg = 0
  /\ sem = [s \in Sem |-> 0]
  /\ mem = P.mem
  /\ data = FALSE
  /\ reqs = [p \in Portal |-> <<>>]
  /\ work = [p \in Portal |-> <<>>]
  /\ inds = [p \in Portal |-> <<>>]
  /\ started = FALSE
  /\ child = -1
  /\ status = -1
  /\ bad = {}

-----------------------------------------------------------------------------
At(t, op) == code[t] # <<>> /\ Head(code[t]).op = op
Now(t) == Head(code[t])
Advance(t) == code' = [code EXCEPT ![t] = Tail(@)]

\* The hardware is using a buffer.
UsingBuffer ==
  \E p \in Portal :
    \/ Range(reqs[p]) \cap P.dma # {}
    \/ P.dma # {} /\ Range(work[p]) \cap Silent # {}

Quiet == \A p \in Portal : reqs[p] = <<>> /\ work[p] = <<>> /\ inds[p] = <<>>

DoSend(t) ==
  /\ At(t, "send")
  /\ LET p == PortalOf(Now(t).a) IN reqs' = [reqs EXCEPT ![p] = Append(@, Now(t).a)]
  /\ Advance(t)
  /\ UNCHANGED <<prog, arg, sem, mem, started, child, status, data, work, inds, bad>>

DoWait(t) ==
  /\ At(t, "wait")
  /\ sem[Now(t).a] > 0
  /\ sem' = [sem EXCEPT ![Now(t).a] = @ - 1]
  /\ Advance(t)
  /\ UNCHANGED <<prog, arg, mem, started, child, status, data, deviceVars, bad>>

DoPost(t) ==
  /\ At(t, "post")
  /\ sem' = IF Now(t).b = "end" /\ arg # End THEN sem ELSE [sem EXCEPT ![Now(t).a] = @ + 1]
  /\ Advance(t)
  /\ UNCHANGED <<prog, arg, mem, started, child, status, data, deviceVars, bad>>

\* The steps that only change a variable of the program.
Assigned(o) ==
  CASE o.op = "take" -> arg
    [] o.op = "add" -> mem[o.a] + arg
    [] o.op = "inc" -> IF o.b = "more" /\ arg = End THEN mem[o.a] ELSE mem[o.a] + 1
    [] o.op = "clear" -> 0
    [] o.op = "or" -> IF mem[o.a] # 0 \/ mem[o.b] # 0 THEN 1 ELSE 0
    [] o.op = "compare" -> IF data THEN 0 ELSE 1

DoAssign(t) ==
  /\ \E op \in {"take", "add", "inc", "clear", "or", "compare"} : At(t, op)
  /\ mem' = [mem EXCEPT ![Now(t).a] = Assigned(Now(t))]
  /\ Advance(t)
  /\ UNCHANGED <<prog, arg, sem, started, child, status, data, deviceVars, bad>>

DoCheck(t) ==
  /\ At(t, "check")
  /\ mem' = IF mem[Now(t).a] = mem[Now(t).b] THEN mem ELSE [mem EXCEPT !["fail"] = @ + 1]
  /\ Advance(t)
  /\ UNCHANGED <<prog, arg, sem, started, child, status, data, deviceVars, bad>>

DoFill(t) ==
  /\ At(t, "fill")
  /\ data' = FALSE
  /\ Advance(t)
  /\ UNCHANGED <<prog, arg, sem, mem, started, child, status, deviceVars, bad>>

DoStart(t) ==
  /\ At(t, "start")
  /\ started' = TRUE
  /\ Advance(t)
  /\ UNCHANGED <<prog, arg, sem, mem, child, status, data, deviceVars, bad>>

\* A sleep is long enough for the hardware and the poller to finish.
DoSleep(t) ==
  /\ At(t, "sleep")
  /\ Quiet /\ code["poller"] = <<>>
  /\ Advance(t)
  /\ UNCHANGED <<prog, arg, sem, mem, started, child, status, data, deviceVars, bad>>

DoPollEnd(t) ==
  /\ At(t, "poll")
  /\ code["poller"] = <<>> /\ mem[Now(t).a] = mem[Now(t).b]
  /\ Advance(t)
  /\ UNCHANGED <<prog, arg, sem, mem, started, child, status, data, deviceVars, bad>>

-----------------------------------------------------------------------------
\* Ends.  A status has eight bits; abort() gives 134.

Abort == 134
Byte(v) == v % 256

DoExit(t) ==
  /\ \/ At(t, "exit") /\ status' = Byte(mem[Now(t).a])
     \/ At(t, "assert") /\ status' = IF mem[Now(t).a] = mem[Now(t).b] THEN -1 ELSE Abort
     \/ At(t, "exitwhen")
          /\ status' = IF mem[Now(t).a] # mem[Now(t).b] THEN -1
                       ELSE IF mem[Now(t).c] = 0 THEN 0 ELSE 1
  /\ Advance(t)
  /\ UNCHANGED <<prog, arg, sem, mem, started, child, data, deviceVars, bad>>

DoExitChild ==
  /\ At("child", "exitchild")
  /\ child' = Byte(mem[Now("child").a])
  /\ Advance("child")
  /\ UNCHANGED <<prog, arg, sem, mem, started, status, data, deviceVars, bad>>

\* waitpid stores the child's status in bits 8 to 15 of its result.
DoWaitChild ==
  /\ At("main", "waitchild")
  /\ child >= 0
  /\ mem' = [mem EXCEPT ![Now("main").a] = 256 * child]
  /\ Advance("main")
  /\ UNCHANGED <<prog, arg, sem, started, child, status, data, deviceVars, bad>>

-----------------------------------------------------------------------------
\* The poller's loop: portalExec_event fetches an indication and calls its method.
\* The indications of one method come in their order.  A method has a FIFO of its own,
\* and the portal's status picks one of those that hold something.

FirstOfMethod(s, k) == \A m \in 1 .. k - 1 : s[m][1] # s[k][1]

Poll(p) ==
  /\ started \/ (At("main", "poll") /\ mem[Now("main").a] # mem[Now("main").b])
  /\ code["poller"] = <<>>
  /\ \E k \in DOMAIN inds[p] :
       /\ FirstOfMethod(inds[p], k)
       /\ code' = [code EXCEPT !["poller"] = P.on[inds[p][k][1]]]
       /\ arg' = inds[p][k][2]
       /\ inds' = [inds EXCEPT ![p] = RemoveAt(@, k)]
  /\ UNCHANGED <<prog, sem, mem, started, child, status, data, reqs, work, bad>>

\* The hardware takes a request when it has sent the indications of the one before,
\* if not finished its work.
Begin(p) ==
  /\ reqs[p] # <<>> /\ Range(work[p]) \subseteq Silent
  /\ reqs' = [reqs EXCEPT ![p] = Tail(@)]
  /\ \E answer \in P.reply[Head(reqs[p])] : work' = [work EXCEPT ![p] = @ \o answer]
  /\ UNCHANGED <<prog, threadVars, data, inds, bad>>

Indicate(p) ==
  /\ work[p] # <<>> /\ Head(work[p]) \notin Silent
  /\ inds' = [inds EXCEPT ![p] = Append(@, Head(work[p]))]
  /\ work' = [work EXCEPT ![p] = Tail(@)]
  /\ UNCHANGED <<prog, threadVars, data, reqs, bad>>

Labour(p) ==
  /\ work[p] # <<>> /\ Head(work[p]) \in Silent
  /\ data' = (Head(work[p]) = Right)
  /\ bad' = bad \cup ({Head(work[p])} \ {Right})
  /\ work' = [work EXCEPT ![p] = Tail(@)]
  /\ UNCHANGED <<prog, threadVars, reqs, inds>>

ThreadStep(t) ==
  \/ DoSend(t) \/ DoWait(t) \/ DoPost(t) \/ DoAssign(t) \/ DoCheck(t) \/ DoFill(t)
  \/ DoStart(t) \/ DoSleep(t) \/ DoPollEnd(t) \/ DoExit(t)

DeviceStep(p) == Begin(p) \/ Indicate(p) \/ Labour(p)

Running == status = -1

Next ==
  /\ Running
  /\ \/ \E t \in Thread : ThreadStep(t)
     \/ DoExitChild \/ DoWaitChild
     \/ \E p \in Portal : Poll(p) \/ DeviceStep(p)

Spec == Init /\ [][Next]_vars

\* While a thread, the poller or the hardware can take a step, one of them does.  No
\* more is needed: every step uses up some of a program, a request or an answer.
FairSpec == Spec /\ WF_vars(Next)

-----------------------------------------------------------------------------
\* Properties.

Passed == status = 0 /\ mem["fail"] = 0

\* A program that judges the hardware judges it right, however its threads are
\* scheduled.  It ends with status 0 and no failed check only if the hardware made no
\* error that its answers show, and otherwise only if the hardware did make an error.
VerdictRight ==
  ~Running /\ "verdict" \in P.claims =>
    IF Passed THEN Wrong \notin bad ELSE bad # {}

\* No thread writes or compares a buffer while the hardware is using it: a wait
\* that returns means that the request before it is done.
BuffersQuiet ==
  "quiet" \in P.claims =>
    \A t \in Thread : At(t, "fill") \/ At(t, "compare") => ~UsingBuffer

\* Two threads are never about to send through the same portal: a proxy has no
\* lock, and the words of two messages would mix on their way (the words of one in
\* portal.c's send are those of the next in a socket or a ring).
OneSender ==
  ~(/\ At("main", "send") /\ At("poller", "send")
    /\ PortalOf(Now("main").a) = PortalOf(Now("poller").a))

\* A program does not exit while the hardware still uses a buffer that the exit
\* returns to the system.
QuietExit == ~Running /\ status # Abort /\ "quiet" \in P.claims => ~UsingBuffer

Ended == ~Running \/ "ends" \notin P.claims

\* Every run ends, whatever the hardware answers: no thread waits for an answer
\* that does not come, and the poller runs before the first wait.
Terminates == []<>Ended
=============================================================================
