--------------------------- MODULE StringPrograms ---------------------------
(***************************************************************************)
(* The programs of examples/ that give an algorithm in hardware strings in *)
(* memory, and nandsim, which gives two of them a flash memory.            *)
(***************************************************************************)
EXTENDS PortalScript

\* lib/strstr/cpp/strstr.h
StrstrIndication ==
  "setupComplete" :> <<Post("sem")>>
    @@ "searchResult" :> <<PostAtEnd("sem"), IncBeforeEnd("match_cnt")>>

Found(n) == [i \in 1 .. n + 1 |-> Ind("searchResult", IF i = n + 1 THEN End ELSE i)]

\* strstr/teststrstr.cpp: a text with two matches, then one with none.
strstr_first ==
  <<Start, Fill>> \o Twice(Reference) \o Reference \o <<Send("setup")>>
    \o Call("search", "sem") \o Traffic

strstr_second ==
  Twice(Reference) \o Reference \o <<Fill, Send("setup")>> \o Call("searchNone", "sem") \o Traffic

strstr_main == strstr_first \o strstr_second \o <<Check("match_cnt", "sw_match_cnt"), Exit("fail")>>

\* main compares the numbers of matches in both texts together, so that a match missed
\* and one reported where there is none cancel: no error is sure to show.
strstr_hw ==
  "setup" :> {<<Right>>}
    @@ "search" :> {Ending(Right, Found(2)), Ending(Missed, Found(1)), Ending(Missed, Found(2))}
    @@ "searchNone" :> {Ending(Right, Found(0)), Ending(Missed, Found(1))}

strstr ==
  Program(strstr_main, <<>>, StrstrIndication, strstr_hw, {"setup", "search", "searchNone"},
          "match_cnt" :> 0 @@ "sw_match_cnt" :> 2, Judges \cup Careful)

\* nandsim/testnandsim.cpp, run alone: write the flash, then read it back.
nandsim_on ==
  "readDone" :> <<Post("sem2")>> @@ "writeDone" :> <<Post("sem2")>> @@ "eraseDone" :> <<Post("sem2")>>
    @@ "configureNandDone" :> <<Post("sem2")>>

nandsim_main ==
  <<Start>> \o Reference \o Call("configureNand", "sem2") \o Reference
    \o Twice(<<Fill>> \o Call("startWrite", "sem2"))
    \o Twice(<<Fill>> \o Call("startRead", "sem2") \o <<Compare("differs"), Or("mismatch", "differs")>>)
    \o <<Exit("mismatch")>>

\* A page that is written wrongly is one that is read wrongly.
nandsim_hw ==
  "configureNand" :> {Says(<<Ind("configureNandDone", 0)>>)}
    @@ "startWrite" :> {<<Right, Ind("writeDone", 0)>>}
    @@ "startRead" :> {<<Right, Ind("readDone", 0)>>, <<Wrong, Ind("readDone", 0)>>}

nandsim ==
  Program(nandsim_main, <<>>, nandsim_on, nandsim_hw, {"startWrite", "startRead"},
          "differs" :> 0 @@ "mismatch" :> 0, Judges \cup Careful)

\* lib/nandsim/cpp/nandsim.h: the socket between nandsim and the program that
\* searches its flash.  connect is tried again until the other side listens.
wait_for_connect_nandsim_exe == <<Post("listen"), Wait("sock")>>
read_from_nandsim_exe == <<Wait("sock")>>
connect_to_algo_exe == <<Wait("listen"), Post("sock")>>
write_to_algo_exe == <<Post("sock")>>

\* nandsim/testnandsim.cpp beside algo1_nandsim/test.cpp: the text is written to the
\* flash before the other process learns where it is.  It has an MMU and semaphores of
\* its own; the pollers of the two processes are one here, and their methods only post.
backing_reference == Call("backingId", "sglIdSem2") \o Call("backingRegion", "confSem2")

nandsim_exe ==
  backing_reference \o Call("configureNand", "sem2") \o backing_reference \o <<Fill>>
    \o Call("startWrite", "sem2") \o connect_to_algo_exe \o Twice(write_to_algo_exe) \o <<Sleep>>

backing_on == "backingIdResponse" :> <<Post("sglIdSem2")>> @@ "backingConfigResp" :> <<Post("confSem2")>>

backing_hw ==
  "backingId" :> {Says(<<Ind("backingIdResponse", 1)>>)}
    @@ "backingRegion" :> {Says(<<Ind("backingConfigResp", 1)>>)}

algo1_main ==
  <<Start>> \o Twice(Reference) \o wait_for_connect_nandsim_exe \o Twice(read_from_nandsim_exe)
    \o Reference \o <<Send("setup")>> \o Call("search", "sem")
    \o <<Check("match_cnt", "three"), Exit("fail")>>

algo1_hw ==
  ("setup" :> {<<Right>>}
     @@ "search" :> {Ending(Right, Found(3)), Ending(Wrong, Found(2)), Ending(Missed, Found(3))})
    @@ nandsim_hw @@ backing_hw

algo1 ==
  Program(algo1_main, nandsim_exe, StrstrIndication @@ nandsim_on @@ backing_on, algo1_hw,
          {"startWrite", "setup", "search"}, "match_cnt" :> 0 @@ "three" :> 3, Judges \cup Careful)

\* splice/testsplice.cpp
splice_on ==
  "setupAComplete" :> <<Post("sem2")>> @@ "setupBComplete" :> <<Post("sem2")>>
    @@ "fetchComplete" :> <<Post("sem2")>> @@ "searchResult" :> <<Take("result_len"), Post("sem")>>

splice_main ==
  <<Start, Fill>> \o Twice(Reference) \o Reference
    \o Call("setupA", "sem2") \o Call("setupB", "sem2") \o Call("start", "sem") \o Traffic
    \o Call("fetch", "sem2") \o <<Compare("fail"), Exit("zero")>>

setup_hw ==
  "setupA" :> {<<Right, Ind("setupAComplete", 0)>>} @@ "setupB" :> {<<Right, Ind("setupBComplete", 0)>>}
    @@ "start" :> {Says(<<Ind("searchResult", 3)>>)}
    @@ "fetch" :> {<<Right, Ind("fetchComplete", 0)>>, <<Wrong, Ind("fetchComplete", 0)>>}

splice ==
  Program(splice_main, <<>>, splice_on, setup_hw, {"setupA", "setupB", "fetch"},
          "result_len" :> 0, Careful)

\* maxcommonsubseq/testmaxcommonsubseq.cpp: every answer posts the same semaphore,
\* and the strings are written anew between two of the four algorithms.
maxcommonsubseq_on ==
  "setupAComplete" :> <<Post("sem")>> @@ "setupBComplete" :> <<Post("sem")>>
    @@ "fetchComplete" :> <<Post("sem")>> @@ "searchResult" :> <<Take("result_length"), Post("sem")>>

Setup == Call("setupA", "sem") \o Call("setupB", "sem")
StartFetch == Call("start", "sem") \o Call("fetch", "sem") \o <<Compare("fetched")>>

maxcommonsubseq_first ==
  <<Start, Fill>> \o Twice(Reference) \o Reference \o Setup \o Call("start", "sem") \o Traffic
    \o Twice(Call("fetch", "sem")) \o <<Compare("fetched")>>

maxcommonsubseq_rest == StartFetch \o Twice(<<Fill>> \o Setup \o StartFetch) \o <<Exit("zero")>>

maxcommonsubseq ==
  Program(maxcommonsubseq_first \o maxcommonsubseq_rest, <<>>, maxcommonsubseq_on, setup_hw,
          {"setupA", "setupB", "start", "fetch"}, "result_length" :> 0 @@ "fetched" :> 0, Careful)

\* smithwaterman/testsmithwaterman.cpp: Smithwaterman.bsv gives one result, and main
\* waits twice.
smithwaterman_on ==
  "setupAComplete" :> <<Post("sem")>> @@ "setupBComplete" :> <<Post("sem")>>
    @@ "searchResult" :> <<Take("result_length"), Post("sem")>>

smithwaterman_main ==
  <<Start, Fill>> \o Twice(Reference) \o Setup \o Call("start", "sem") \o <<Wait("sem"), Exit("zero")>>

smithwaterman ==
  Program(smithwaterman_main, <<>>, smithwaterman_on, setup_hw, {"setupA", "setupB"},
          "result_length" :> 0, {"quiet"})
=============================================================================
