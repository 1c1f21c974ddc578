--------------------------- MODULE MemoryPrograms ---------------------------
(***************************************************************************)
(* The programs of examples/ that make hardware read and write memory.     *)
(* A loop of a program makes two rounds here.  The buffers of a program    *)
(* are one: what matters is whether the hardware is using it.              *)
(***************************************************************************)
EXTENDS PortalScript

\* memcpy/testmemcpy.h.  done() posts before it compares; main asks for the
\* memory traffic before it exits, and the same thread serves that answer.
memcpy_on == "started" :> <<>> @@ "done" :> <<Post("sem"), Compare("memcmp_fail")>>

\* Mutant: main exits without asking for the memory traffic.
memcpy_runtest_NoTraffic ==
  <<Start, Fill>> \o Twice(Reference) \o Call("startCopy", "sem")

memcpy_runtest ==
  <<Start, Fill>> \o Twice(Reference) \o Call("startCopy", "sem") \o Twice(Traffic)

\* Memcpy.bsv copies the buffer several times and indicates done for every burst that
\* ends after the last one began, so that it may still write when main goes on.
memcpy_hw ==
  LET s == Ind("started", 0)  d == Ind("done", 0)
  IN "startCopy" :> {<<s, Right, d>>, <<s, Right, d, Right, d>>, <<s, Wrong, d>>,
                     <<s, Wrong, d, Wrong, d>>, <<s, Right, d, Missed, d>>, <<s, Missed, d, Right, d>>}

memcpy_main == memcpy_runtest \o <<Exit("memcmp_fail")>>

memcpy ==
  Program(memcpy_main, <<>>, memcpy_on, memcpy_hw, {"startCopy"}, "memcmp_fail" :> 0,
          {"verdict"})

\* memread/testmemread.h.  The second test spoils three words of the buffer and
\* expects each to be counted; mismatchCount goes on from the first test.
memread_on ==
  "readDone" :> <<Add("mismatchCount"), Post("sem")>> @@ "started" :> <<>>
    @@ "reportStateDbg" :> <<>>

memread_runtest ==
  <<Start, Fill, Send("getStateDbg")>> \o Reference
    \o Call("startRead", "sem") \o <<Check("mismatchCount", "zero")>> \o Traffic
    \o <<Fill>> \o Call("startSpoilt", "sem")
    \o <<Check("mismatchCount", "three"), Exit("fail")>>

ReadDone(w, n) == Ending(w, <<Ind("started", 0), Ind("readDone", n)>>)

\* The first startRead loads valuesToRead while numWords is still 0, so that one beat
\* makes the first report and the last report comes one beat into the last pass.  The
\* rest of that pass is read without a report: what it misreads is forgotten when the
\* second startRead clears mismatchCounts, and main spoils the buffer under it.  If it
\* is still being read then, the second test counts some beats of it as its own.
memread_hw ==
  "getStateDbg" :> {Says(<<Ind("reportStateDbg", 0)>>)}
    @@ "startRead" :> {ReadDone(Right, 0) \o <<Right>>, ReadDone(Right, 0) \o <<Missed>>,
                       ReadDone(Wrong, 1) \o <<Right>>}
    @@ "startSpoilt" :> {ReadDone(w, n) : w \in {Right, Missed}, n \in 2 .. 4}

\* So its result proves nothing, and the buffer is not its own.
memread ==
  Program(memread_runtest, <<>>, memread_on, memread_hw, {"startRead", "startSpoilt"},
          "mismatchCount" :> 0 @@ "three" :> 3, Ends)

\* memread128/testmemread.cpp.  Memread.bsv reports after each of the passes that
\* end once the last has begun, so that the first report may miss a mismatch.
memread128_main ==
  <<Start, Fill>> \o Reference \o Call("startRead", "sem") \o Traffic
    \o <<Or("mismatchCount", "zero"), Exit("mismatchCount")>>

memread128_hw ==
  LET s == Ind("started", 0)  d(n) == Ind("readDone", n)
  IN "startRead" :> {<<s, Right, d(0)>>, <<s, Right, d(0), Right, d(0)>>,
                     <<s, Wrong, d(1)>>, <<s, Right, d(0), Missed, d(1)>>}

memread128 ==
  Program(memread128_main, <<>>, memread_on, memread128_hw, {"startRead"},
          "mismatchCount" :> 0, Judges)

\* memread2/testmemread2.cpp.  Each mismatch is reported before or after the
\* number of them; the program ends when as many have come.
memread2_on ==
  "started" :> <<>> @@ "reportStateDbg" :> <<>>
    @@ "readDone" :> <<Take("mismatchCount"),
                       ExitWhen("mismatchesReceived", "mismatchCount", "mismatchCount")>>
    @@ "mismatch" :> <<Inc("mismatchesReceived"),
                       ExitWhen("mismatchesReceived", "mismatchCount", "one")>>

memread2_main ==
  <<Start, Fill>> \o Twice(Reference) \o <<Send("startRead")>>
    \o Twice(<<Send("getStateDbg")>> \o Traffic)

\* Rule done reads the counts in the cycle in which the last beat is compared: it does
\* not count a mismatch of that beat.  When the poller meets that mismatch first, the
\* program never ends.
memread2_hw ==
  LET m == Ind("mismatch", 0)  s == Ind("started", 0)  d(n) == Ind("readDone", n)
  IN "getStateDbg" :> {Says(<<Ind("reportStateDbg", 0)>>)}
       @@ "startRead" :> {<<s, Right, d(0)>>, <<s, Wrong, m, m, d(2)>>,
                          <<s, Missed, d(0), m>>, <<s, Wrong, m, d(1), m>>}

memread2 ==
  Program(memread2_main, <<>>, memread2_on, memread2_hw, {"startRead"},
          "mismatchCount" :> 0 @@ "mismatchesReceived" :> 0, {"verdict", "quiet"})

\* memwrite/testmemwrite.h and testmemwrite.cpp.  The child maps the buffer whose
\* descriptor the parent sends it, compares, and exits with the result; the
\* parent exits with what waitpid stored.
memwrite_on == "started" :> <<>> @@ "writeDone" :> <<Post("sem")>>

\* Mutant: the descriptor is sent before the write is done.
memwrite_parent_Early ==
  <<Start>> \o Reference \o <<Fill, Send("startWrite"), Post("sock"), Wait("sem")>> \o Traffic

memwrite_parent ==
  <<Start>> \o Reference \o <<Fill>> \o Call("startWrite", "sem") \o Traffic \o <<Post("sock")>>

memwrite_child == <<Wait("sock"), Compare("mismatch"), ExitChild("mismatch")>>

memwrite_main == memwrite_parent \o <<WaitChild("status"), Exit("status")>>

memwrite_hw ==
  "startWrite" :> {Ending(w, <<Ind("started", 0), Ind("writeDone", 0)>>) : w \in {Right, Wrong}}

memwrite(claims) ==
  Program(memwrite_main, memwrite_child, memwrite_on, memwrite_hw, {"startWrite"},
          "mismatch" :> 0, claims)

\* memrw/testmemrw.h.  The two directions end in either order, each perhaps with
\* more than one indication.
memrw_on == "started" :> <<>> @@ "readDone" :> <<Post("sem")>> @@ "writeDone" :> <<Post("sem2")>>

memrw_runtest ==
  <<Start, Fill>> \o Twice(Reference) \o <<Sleep, Send("start"), Wait("sem"), Wait("sem2")>>
    \o Twice(Traffic) \o <<Exit("zero")>>

memrw_hw ==
  LET s == Ind("started", 0)  r == Ind("readDone", 0)  w == Ind("writeDone", 0)
  IN "start" :> {Ending(Right, says) :
                   says \in {<<s, r, w>>, <<s, w, r>>, <<s, r, r, w, w>>, <<s, w, r, w, r>>}}

memrw == Program(memrw_runtest, <<>>, memrw_on, memrw_hw, {"start"}, <<>>, Ends)

\* memlatency/testmemlatency.cpp
memlatency_on ==
  "started" :> <<>> @@ "readLatency" :> <<Add("rd_latency"), Inc("num_reads")>>
    @@ "writeLatency" :> <<Add("wr_latency"), Inc("num_writes")>>
    @@ "readDone" :> <<Post("sem")>> @@ "writeDone" :> <<Post("sem2")>>

memlatency_runtest ==
  <<Start, Fill>> \o Twice(Reference) \o <<Send("start"), Wait("sem"), Wait("sem2"),
    Exit("zero")>>

memlatency_hw ==
  LET pair == <<Ind("readLatency", 1), Ind("writeLatency", 1)>>
      done == <<Ind("writeDone", 0), Ind("readDone", 0)>>
  IN "start" :> {Ending(Right, <<Ind("started", 0)>> \o pair \o pair \o done),
                 Ending(Right, <<Ind("started", 0)>> \o pair \o done \o pair \o done)}

memlatency ==
  Program(memlatency_runtest, <<>>, memlatency_on, memlatency_hw, {"start"},
          "rd_latency" :> 0 @@ "num_reads" :> 0 @@ "wr_latency" :> 0 @@ "num_writes" :> 0, Ends)

\* perf/testperf.cpp.  copy_size is never 0, so that started() does not post.
perf_on ==
  "started" :> <<Inc("start_count")>> @@ "done" :> <<Inc("finishedCount"), Post("sem")>>
    @@ "reportStateDbg" :> <<>>

perf_dotest == <<Clear("finishedCount")>> \o Call("startCopy", "sem")

perf_main ==
  <<Start>> \o Twice(Reference) \o Twice(perf_dotest) \o <<Send("getStateDbg"), Exit("zero")>>

perf_hw ==
  "startCopy" :> {Ending(Right, <<Ind("started", 0), Ind("done", 0)>>)}
    @@ "getStateDbg" :> {Says(<<Ind("reportStateDbg", 0)>>)}

perf ==
  Program(perf_main, <<>>, perf_on, perf_hw, {"startCopy"},
          "start_count" :> 0 @@ "finishedCount" :> 0, Careful)

\* bluescope/testbluescope.cpp.  Only the sleep before exit_test lets done() compare
\* and the trigger arrive in time.
bluescope_on ==
  "started" :> <<>> @@ "done" :> <<Post("sem"), Compare("mcf"), Or("memcmp_fail", "mcf")>>
    @@ "triggerFired" :> <<Clear("missed")>> @@ "scopeDone" :> <<>>

bluescope_main ==
  <<Start, Fill>> \o Twice(Reference) \o Reference
    \o <<Send("reset"), Send("setTrigger"), Send("setTrigger"), Send("startScope"), Sleep>>
    \o Call("startCopy", "sem") \o <<Sleep, Or("memcmp_fail", "missed"), Exit("memcmp_fail")>>

\* The scope watches the data of the copy: it fires when the trigger value passes, and
\* it is wrong not to, even if the copy is right.
bluescope_hw ==
  LET s == Ind("started", 0)  d == Ind("done", 0)  t == Ind("triggerFired", 0)
  IN "reset" :> {<<>>} @@ "setTrigger" :> {<<>>} @@ "startScope" :> {<<>>}
       @@ "startCopy" :> {<<s, t, Right, d, Ind("scopeDone", 0)>>, <<s, Right, d, t>>,
                          <<s, t, Wrong, d>>, <<s, Wrong, Right, d>>}

bluescope ==
  Program(bluescope_main, <<>>, bluescope_on, bluescope_hw, {"startCopy"},
          "mcf" :> 0 @@ "memcmp_fail" :> 0 @@ "missed" :> 1, {"verdict"})
=============================================================================
