--------------------------- MODULE PortalPrograms ---------------------------
(***************************************************************************)
(* The programs of examples/ that only exchange messages with the hardware.*)
(* An argument that is compared stands for the whole of a message: 1 when  *)
(* it is what the program expects and 2 when it is not.  Loops run twice.  *)
(***************************************************************************)
EXTENDS PortalScript

Echoes(i) == {Says(<<Ind(i, 1)>>), Errs(<<Ind(i, 2)>>)}
Answers(i) == {Says(<<Ind(i, 1)>>)}
Taken == {<<>>}
Fixed(main, on, reply, mem, claims) == Program(main, <<>>, on, reply, {}, mem, claims)

\* echo, printf, xsim-echo: heard answers the hardware with say2, in the poller.
echo_on == "heard" :> <<Send("say2")>> @@ "heard2" :> <<Post("sem")>>
\* Mutant: say does not wait.
call_say_NoWait == <<Send("say")>>

call_say == Call("say", "sem")
call_say2 == Call("say2", "sem")
echo_hw == "say" :> Answers("heard") @@ "say2" :> Answers("heard2") @@ "setLeds" :> Taken

echo_main == <<Start>> \o Twice(call_say) \o call_say2 \o <<Send("setLeds"), Exit("zero")>>
echo == Fixed(echo_main, echo_on, echo_hw, <<>>, Ends)

printf_on == echo_on @@ "displayInd" :> <<>>
printf_call_say == Call("say", "sem")
printf_call_say2 == Call("say2", "sem")
printf_main ==
  <<Start>> \o Twice(printf_call_say) \o printf_call_say2 \o <<Send("setLeds"), Exit("zero")>>
printf_hw == "say" :> {Says(<<Ind("displayInd", 1), Ind("heard", 1)>>)} @@ echo_hw
printf == Fixed(printf_main, printf_on, printf_hw, <<>>, Ends)

xsim_echo_on == "heard" :> <<Send("say2")>> @@ "heard2" :> <<Post("sem")>>
xsim_echo_main ==
  <<Start>> \o Twice(Call("say", "sem")) \o Twice(Call("say2", "sem"))
    \o <<Send("setLeds"), Exit("zero")>>
xsim_echo == Fixed(xsim_echo_main, xsim_echo_on, echo_hw, <<>>, Ends)

\* echosoft, echomux: the program talks to a daemon by a socket, which passes requests
\* on to the hardware and answers back; echomux has three portals on one socket.
echosoft_on == "heard" :> <<Send("say2")>> @@ "heard2" :> <<Post("sem")>>
echosoft_daemon ==
  "say" :> Answers("heard") @@ "say2" :> Answers("heard2") @@ "setLeds" :> Taken
echosoft_main ==
  <<Start>> \o Twice(Twice(Call("say", "sem"))) \o Call("say2", "sem")
    \o <<Send("setLeds"), Exit("zero")>>
echosoft == Fixed(echosoft_main, echosoft_on, echosoft_daemon, <<>>, Ends)

echomux_on == echosoft_on @@ "Secondheard" :> <<>> @@ "Thirdheard" :> <<>>
echomux_daemon ==
  echosoft_daemon @@ "Secondsay" :> Answers("Secondheard") @@ "Thirdsay" :> Answers("Thirdheard")
echomux_main ==
  <<Start>> \o Call("say", "sem") \o <<Send("Secondsay")>> \o Call("say", "sem")
    \o <<Send("Thirdsay")>> \o Twice(Call("say", "sem")) \o Call("say2", "sem")
    \o <<Send("setLeds"), Exit("zero")>>
echomux == Fixed(echomux_main, echomux_on, echomux_daemon, <<>>, Ends)

\* echoring: the requests go by a ring in shared memory, which is set up first.
allocateShared == Reference \o <<Send("setInterface")>>
echoring_on == "heard" :> <<Send("say2")>> @@ "heard2" :> <<Post("sem")>>
echoring_main ==
  <<Start>> \o allocateShared \o Reference \o <<Send("setSglId")>>
    \o Twice(Call("say", "sem")) \o Call("say2", "sem") \o <<Send("setLeds"), Exit("zero")>>
echoring_hw == echo_hw @@ ("setInterface" :> Taken @@ "setSglId" :> Taken)
echoring == Fixed(echoring_main, echoring_on, echoring_hw, <<>>, Ends)

\* simple, portal-synth-boundary: the poller ends the program with the last answer.
Said(n) == <<Take("a"), Require("a", "one"), Inc("cnt"), ExitWhen("cnt", n, "zero")>>

says == <<"say1", "say2", "say3", "say4", "say5", "say6", "say7">>
Simple == [i \in Range(says) |-> Said("seven")]
simple_main == <<Start>> \o [i \in 1 .. 7 |-> Send(says[i])] \o <<Sleep>>
simple_hw == [i \in DOMAIN Simple |-> IF i \in {"say3", "say7"} THEN Echoes(i) ELSE Answers(i)]
simple == Fixed(simple_main, Simple, simple_hw, "a" :> 0 @@ "cnt" :> 0 @@ "seven" :> 7, Judges)

boundary_on == "heard1" :> Said("one")
boundary_main == <<Start, Send("say1"), Sleep>>
boundary ==
  Fixed(boundary_main, boundary_on, "say1" :> Echoes("heard1"), "a" :> 0 @@ "cnt" :> 0, Judges)

\* Mutant: the answer is stored and nobody told.
noc_ack_NoPost == "ack" :> <<Take("last")>>

\* noc, noc2d: a message at a time, and the answer stored before the post.
noc_ack == "ack" :> <<Take("last"), Post("sem")>>
noc_dosend == Call("send", "sem") \o <<Check("last", "one")>>
noc_main == <<Start>> \o Twice(noc_dosend) \o <<Exit("zero")>>
noc == Fixed(noc_main, noc_ack, "send" :> Echoes("ack"), "last" :> 0, Judges)

noc2d_ack == "ack" :> <<Take("last"), Post("sem")>>
noc2d_dosend == Call("send", "sem") \o <<Check("last", "one")>>
noc2d_main == <<Start>> \o Twice(Twice(noc2d_dosend)) \o <<Exit("zero")>>
noc2d == Fixed(noc2d_main, noc2d_ack, "send" :> Echoes("ack"), "last" :> 0, Judges)

\* serialconfig: registers written, then read back.
serialconfig_ack == "ack" :> <<Take("last"), Post("sem")>>
doread == Call("read", "sem") \o <<Check("last", "one")>>
dowrite == Call("write", "sem") \o <<Check("last", "one")>>
serialconfig_main == <<Start>> \o dowrite \o Twice(dowrite \o doread) \o <<Exit("zero")>>
serialconfig ==
  Fixed(serialconfig_main, serialconfig_ack, "read" :> Echoes("ack") @@ "write" :> Echoes("ack"),
        "last" :> 0, Judges)

\* yuv: the expected pixel is a variable both threads use; a sleep separates the rounds.
\* Pixel 1 is asked for first, then pixel 2 and pixel 1 again.
incr_cnt == <<Inc("cnt"), ExitWhen("cnt", "numTests", "zero")>>
YuvIndication ==
  "rgb" :> (<<Take("answer"), Require("answer", "expected")>> \o incr_cnt)
    @@ "yuv" :> (<<Take("answer"), Require("answer", "expected")>> \o incr_cnt)
    @@ "yyuv" :> incr_cnt
yuv_round(one, three) ==
  <<Inc("expected"), Inc("numTests"), Send(one), Inc("numTests"), Send(three),
    Inc("numTests"), Send("toYyuv"), Sleep>>
yuv_main ==
  <<Start, Inc("numTests")>> \o yuv_round("toRgb", "toYuv") \o yuv_round("toRgb2", "toYuv2")
    \o <<Clear("expected"), Inc("expected"), Send("toRgb"), Sleep>>
yuv_hw ==
  "toRgb" :> Answers("rgb") @@ "toYuv" :> {Says(<<Ind("yuv", 1)>>), Errs(<<Ind("yuv", 2)>>)}
    @@ "toRgb2" :> {Says(<<Ind("rgb", 2)>>)}
    @@ "toYuv2" :> {Says(<<Ind("yuv", 2)>>), Errs(<<Ind("yuv", 1)>>)} @@ "toYyuv" :> Answers("yyuv")
yuv ==
  Fixed(yuv_main, YuvIndication, yuv_hw, "answer" :> 0 @@ "expected" :> 0 @@ "cnt" :> 0
          @@ "numTests" :> 0, Judges)

\* channelselect: two request portals, whose answers post the same two semaphores.
channelselect_on ==
  "ifreqData" :> <<>> @@ "setDataResp" :> <<Post("sem")>> @@ "setConfigResp" :> <<Post("sem2")>>
DDSTestIndication == "ddsData" :> <<Post("sem")>> @@ "ddsConfigResp" :> <<Post("sem2")>>
channelselect_main ==
  <<Start, Send("ddsPhaseAdvance")>> \o Twice(Call("getData", "sem"))
    \o Twice(Call("setCoeff", "sem2")) \o Call("setPhaseAdvance", "sem2")
    \o Twice(Call("rfreqDataWrite", "sem")) \o <<Exit("zero")>>
channelselect_hw ==
  "ddsPhaseAdvance" :> Answers("ddsConfigResp") @@ "getData" :> Answers("ddsData")
    @@ "setCoeff" :> Answers("setConfigResp") @@ "setPhaseAdvance" :> Answers("setConfigResp")
    @@ "rfreqDataWrite" :> {Says(<<Ind("setDataResp", 0)>>),
                            Says(<<Ind("setDataResp", 0), Ind("ifreqData", 0)>>)}
channelselect ==
  Fixed(channelselect_main, channelselect_on @@ DDSTestIndication, channelselect_hw, <<>>, Ends)

\* fmcomms1: starting the transfers is answered too, and main waits for one of the two
\* answers; the transfers under way are answered when they are stopped.
FMComms1Indication == "readStatus" :> <<Post("sem")>> @@ "writeStatus" :> <<Post("sem2")>>
Status == <<Send("getReadStatus"), Send("getWriteStatus"), Wait("sem"), Wait("sem2")>>
fmcomms1_main ==
  <<Start>> \o Status \o Twice(Reference) \o <<Send("startRead1"), Send("startWrite1"), Wait("sem"), Sleep>>
    \o Status \o <<Sleep, Send("startRead0"), Send("startWrite0"), Wait("sem"), Wait("sem2"), Exit("zero")>>
Reads(i) == {Says(<<Ind(i, 0)>>), Says(<<Ind(i, 0), Ind(i, 0)>>)}
fmcomms1_hw ==
  "getReadStatus" :> Answers("readStatus") @@ "getWriteStatus" :> Answers("writeStatus")
    @@ "startRead1" :> Answers("readStatus") @@ "startWrite1" :> Answers("writeStatus")
    @@ "startRead0" :> Reads("readStatus") @@ "startWrite0" :> Reads("writeStatus")
fmcomms1 == Fixed(fmcomms1_main, FMComms1Indication, fmcomms1_hw, <<>>, Ends)

\* portalperf: there is no poller thread, main polls until it has heard all.
spits == {"spit", "spitl", "spitd"}
PortalPerfIndication == [i \in spits |-> <<Inc("heard_count"), Take("vr")>>]
swallows == <<Send("swallow"), Send("swallowl"), Send("swallowd")>>
dotestout == Twice(swallows)
wait_for == <<PollUntil("heard_count", "loops")>>
dotestin(r) == <<Clear("heard_count"), Send(r)>> \o wait_for
portalperf_main ==
  dotestout \o dotestin("startspit") \o dotestin("startspitl") \o dotestin("startspitd") \o <<Exit("zero")>>
portalperf_hw ==
  "swallow" :> Taken @@ "swallowl" :> Taken @@ "swallowd" :> Taken
    @@ "startspit" :> {Says(<<Ind("spit", 0), Ind("spit", 0)>>)}
    @@ "startspitl" :> {Says(<<Ind("spitl", 1), Ind("spitl", 1)>>)}
    @@ "startspitd" :> {Says(<<Ind("spitd", 1), Ind("spitd", 1)>>)}
portalperf ==
  Fixed(portalperf_main, PortalPerfIndication, portalperf_hw,
        "heard_count" :> 0 @@ "vr" :> 0 @@ "loops" :> 2, Ends)

\* fib, fp, bscan, pipe_mul, pipe_mul2
FibIndication == "fibresult" :> <<Post("sem")>>
fib_main == <<Start>> \o Twice(Call("fib", "sem")) \o <<Exit("zero")>>
fib == Fixed(fib_main, FibIndication, "fib" :> Answers("fibresult"), <<>>, Ends)

FpIndication == "added" :> <<Inc("cnt"), ExitWhen("cnt", "one", "zero")>>
fp_main == <<Start, Send("add"), Sleep>>
fp == Fixed(fp_main, FpIndication, "add" :> Answers("added"), "cnt" :> 0, Ends)

BscanIndication == "bscanGet" :> <<Post("sem")>>
bscan_main(argc) ==
  <<Start>> \o (CASE argc = 1 -> Twice(<<Send("bscanPut")>>)
                  [] argc = 2 -> Call("bscanGet", "sem")
                  [] argc = 3 -> <<Send("bscanPut")>>) \o <<Exit("zero")>>
bscan(argc) ==
  Fixed(bscan_main(argc), BscanIndication, "bscanPut" :> Taken @@ "bscanGet" :> Answers("bscanGet"),
        <<>>, Ends)

PipeMulIndication == "res" :> <<Exit("zero")>>
pipe_mul_main == <<Start, Send("mul")>>
pipe_mul == Fixed(pipe_mul_main, PipeMulIndication, "mul" :> Answers("res"), <<>>, Ends)
pipe_mul2_on == "res" :> <<Exit("zero")>>
pipe_mul2_main == <<Start, Send("mul")>>
pipe_mul2 == Fixed(pipe_mul2_main, pipe_mul2_on, "mul" :> Answers("res"), <<>>, Ends)
=============================================================================
