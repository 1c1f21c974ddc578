---------------------------- MODULE PortalScript ----------------------------
(***************************************************************************)
(* The steps a portal program is made of.  A program of examples/ has a    *)
(* main thread, at times a child process, and the methods of its           *)
(* indication wrappers, which the poller thread calls.  Each is a sequence *)
(* of the steps below; ProgramRun runs them.                               *)
(*                                                                         *)
(* A program is a record                                                   *)
(*   main, child   the steps of main() and of a forked child               *)
(*   on            per indication, the steps of its method                 *)
(*   reply         per request, the answers the hardware may give          *)
(*   dma           the requests that make the hardware use a buffer        *)
(*   mem           its variables with their initial values                 *)
(*   claims        "verdict": its result says whether the hardware worked; *)
(*                 "quiet": it leaves a buffer alone while the hardware    *)
(*                 uses it; "ends": it comes to an end                     *)
(*                                                                         *)
(* An answer is a sequence of indications and of work the hardware does    *)
(* without a word: Right, Wrong or Missed.  Work after the last indication *)
(* goes on when the program has been told that all is done.                *)
(***************************************************************************)
EXTENDS Integers, Sequences, SequencesExt, TLC

Step(op, a, b, c) == [op |-> op, a |-> a, b |-> b, c |-> c]

Send(r) == Step("send", r, "", "")           \* a proxy's method
Wait(s) == Step("wait", s, "", "")           \* sem_wait
Post(s) == Step("post", s, "", "")           \* sem_post
PostAtEnd(s) == Step("post", s, "end", "")   \* sem_post if the argument is -1
Take(v) == Step("take", v, "", "")           \* v = argument
Add(v) == Step("add", v, "", "")             \* v += argument
Inc(v) == Step("inc", v, "", "")             \* v++
IncBeforeEnd(v) == Step("inc", v, "more", "")  \* v++ unless the argument is -1
Clear(v) == Step("clear", v, "", "")         \* v = 0
Or(v, w) == Step("or", v, w, "")             \* v = v || w
Fill == Step("fill", "", "", "")             \* write a buffer the hardware uses
Compare(v) == Step("compare", v, "", "")     \* v = whether a buffer is not as expected
Check(v, w) == Step("check", v, w, "")       \* count a failure unless v == w
Require(v, w) == Step("assert", v, w, "")    \* assert(v == w)
ExitWhen(v, w, s) == Step("exitwhen", v, w, s)  \* if (v == w) exit(s ? 1 : 0)
Exit(v) == Step("exit", v, "", "")           \* exit(v), or a return from main
Start == Step("start", "", "", "")           \* the poller thread begins to run
Sleep == Step("sleep", "", "", "")           \* sleep(n)
PollUntil(v, w) == Step("poll", v, w, "")    \* the thread polls itself until v == w
ExitChild(v) == Step("exitchild", v, "", "") \* exit(v) in the child
WaitChild(v) == Step("waitchild", v, "", "") \* waitpid(pid, &v, 0)

Call(r, s) == <<Send(r), Wait(s)>>
Twice(steps) == steps \o steps

\* What MemServerIndication::getMemoryTraffic and dma->reference do: a request
\* and a wait for the method the answer calls.
Traffic == Call("memoryTraffic", "mtSem")
Reference == Call("idRequest", "sglIdSem") \o Call("region", "confSem")

End == 99                                    \* the argument -1
Ind(i, x) == <<i, x>>

\* Work on the request or on its buffer.  What is Wrong shows, in the indications
\* that follow or in the buffer when they come; what is Missed need not show: it is
\* not counted, or happens after the hardware has said that it is done, or is put
\* right later.
Right == <<"right", 0>>
Wrong == <<"wrong", 0>>
Missed == <<"missed", 0>>
Silent == {Right, Wrong, Missed}

Says(inds) == inds                           \* a message is answered
Errs(inds) == <<Wrong>> \o inds              \* a message is answered wrongly
Ending(w, inds) == Front(inds) \o <<w, Last(inds)>>  \* the last tells that work is done

\* The methods of MemServerIndication and of MMUIndication, and what makes the
\* hardware call them.
LibraryOn ==
  "reportMemoryTraffic" :> <<Post("mtSem")>>
    @@ "idResponse" :> <<Post("sglIdSem")>>
    @@ "configResp" :> <<Post("confSem")>>

LibraryReply ==
  "memoryTraffic" :> {Says(<<Ind("reportMemoryTraffic", 1)>>)}
    @@ "idRequest" :> {Says(<<Ind("idResponse", 1)>>)}
    @@ "region" :> {Says(<<Ind("configResp", 1)>>)}

\* The portal a request is sent through, and the one its answers come by.
PortalOf(r) ==
  CASE r = "memoryTraffic" -> "memserver"
    [] r \in {"idRequest", "region"} -> "mmu"
    [] r \in {"reset", "setTrigger", "startScope"} -> "scope"
    [] r \in {"configureNand", "startWrite", "startRead"} -> "nand"
    [] r \in {"backingId", "backingRegion"} -> "backing"
    [] r \in {"ddsPhaseAdvance", "getData"} -> "dds"
    [] OTHER -> "app"

Portal == {"app", "memserver", "mmu", "scope", "nand", "backing", "dds"}
Sem == {"mtSem", "sglIdSem", "confSem", "sem", "sem2", "sock", "listen", "sglIdSem2", "confSem2"}
Thread == {"main", "poller", "child"}

Vars(init) == init @@ ("zero" :> 0 @@ "one" :> 1 @@ "fail" :> 0 @@ "status" :> 0)

Judges == {"verdict", "ends"}
Careful == {"quiet", "ends"}
Ends == {"ends"}

Program(main, child, on, reply, dma, mem, claims) ==
  [main |-> main, child |-> child, on |-> on @@ LibraryOn,
   reply |-> reply @@ LibraryReply, dma |-> dma, mem |-> Vars(mem), claims |-> claims]
=============================================================================
