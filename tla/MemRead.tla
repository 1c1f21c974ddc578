-------------------------------- MODULE MemRead --------------------------------
(***************************************************************************)
(* bsv/MemServerInternal.bsv, mkMemReadInternal: takes read requests from  *)
(* its clients, has their addresses translated, renames their tags, sends  *)
(* them to the bus, collects the answers in a buffer and hands them to the *)
(* clients in the order of the requests.                                   *)
(*                                                                         *)
(* Requests, tags and the counting of beats are those of MemServer.  The   *)
(* bus answers bursts in any order, the beats of one burst together.       *)
(***************************************************************************)
EXTENDS MemServer

VARIABLES
  dreqFifos,     \* BRAM: per tag, the request it was last used for
  dreqA, dreqB,  \* answers of its two ports
  bus,           \* bursts that the bus has not answered completely
  readDataPipelineFifo,           \* beats from the bus: tag and data
  read_buffer,   \* BRAM: per tag and position, data for a client
  bufferB,       \* answers of its port B
  compFifo1,     \* completed tags whose request is being looked up
  compReg0, compReg1, compReg2,   \* rest of a burst: beats, tag, client
  compFifo0,     \* clients of the answers in bufferB
  meant,         \* ghost: the request and beat that each answer in bufferB is read as
  latest         \* ghost: the last of them

compVars == <<compReg0, compReg1, compReg2>>
readVars == <<dreqFifos, dreqA, dreqB, bus, readDataPipelineFifo, read_buffer, bufferB,
              compFifo1, compVars, compFifo0, meant, latest>>
memReadVars == <<serverVars, readVars>>

Request == 1 .. MaxReq

\* Words nothing has been written to.
None == 0
NoBeat == [data |-> <<None, 0>>, tag |-> None, last |-> FALSE]

\* What the client of request n gets as beat k.
Beat(n, k) == [data |-> <<n, k>>, tag |-> n, last |-> k = req[n].burstLen]

ReadInit ==
  /\ ServerInit
  /\ dreqFifos = [t \in RenameTag |-> None]
  /\ dreqA = << >>
  /\ dreqB = << >>
  /\ bus = {}
  /\ readDataPipelineFifo = << >>
  /\ read_buffer = [t \in RenameTag |-> [k \in 1 .. MaxBurst |-> NoBeat]]
  /\ bufferB = << >>
  /\ compFifo1 = << >>
  /\ compReg0 = 0
  /\ compReg1 = 0
  /\ compReg2 = (CHOOSE c \in Client : TRUE)
  /\ compFifo0 = << >>
  /\ meant = << >>
  /\ latest = <<0, 0>>

-----------------------------------------------------------------------------
\* From the clients to the bus.

read_loadClient_error == loadClient_error /\ UNCHANGED readVars

read_loadClient(c, a) ==
  /\ loadClient(c, a)
  /\ UNCHANGED readVars

read_dmaError == dmaError /\ UNCHANGED readVars

\* A tag is needed until the last beat is read from read_buffer: by the burst that is
\* being read, the bursts looked up, and those whose completion was not taken.
read_checkMmuResp ==
  /\ checkMmuResp
  /\ LET n == latest[1] IN
       lost' = lost \union (IF compReg0 > 0 /\ compReg1 = next THEN {n} ELSE {})
                    \union {n + i : i \in {j \in DOMAIN compFifo1 : compFifo1[j] = next}}
                    \union {n + Len(compFifo1) + i : i \in {j \in DOMAIN done : done[j] = next}}
  /\ UNCHANGED readVars

readReq_get ==
  /\ reqFifo # << >>
  /\ Len(dreqB) < BramDepth
  /\ LET r == Head(reqFifo) IN
       /\ dreqFifos' = [dreqFifos EXCEPT ![r.tag] = r.req]
       /\ bus' = bus \union {[tag |-> r.tag, pa |-> r.pa,
                              burstLen |-> req[r.req].burstLen, sent |-> 0]}
  /\ reqFifo' = Tail(reqFifo)
  /\ UNCHANGED <<req, lreqFifo, mmu, dmaErrorFifo, tagVars, burstVars, lost, dreqA, dreqB,
                 readDataPipelineFifo, read_buffer, bufferB, compFifo1, compVars,
                 compFifo0, meant, latest>>

-----------------------------------------------------------------------------
\* From the bus to the read buffer.

\* The bus sends a beat of burst r; it does not interleave bursts.
readData_put(r) ==
  /\ \A s \in bus : s.sent > 0 => s = r
  /\ Len(readDataPipelineFifo) < ServerDepth
  /\ Len(dreqA) < BramDepth
  /\ readDataPipelineFifo' =
       Append(readDataPipelineFifo, [tag |-> r.tag, data |-> <<r.pa, r.sent + 1>>])
  /\ dreqA' = Append(dreqA, dreqFifos[r.tag])
  /\ bus' = (bus \ {r}) \union
              (IF r.sent + 1 = r.burstLen THEN {} ELSE {[r EXCEPT !.sent = @ + 1]})
  /\ UNCHANGED <<requestVars, tagVars, dreqFifos, dreqB, burstVars, read_buffer,
                 bufferB, compFifo1, compVars, compFifo0, meant, latest>>

\* Mutant: the first beat ends the burst.
ReturnsTag_First(n) == firstReg

\* The beat of request n gives its tag back.
ReturnsTag(n) == Last(n)

read_data ==
  /\ readDataPipelineFifo # << >>
  /\ dreqA # << >>
  /\ LET response == Head(readDataPipelineFifo)
         drq == Head(dreqA) IN
       /\ read_buffer' = [read_buffer EXCEPT ![response.tag][BurstLen(drq)] =
                            [data |-> response.data, tag |-> drq, last |-> Last(drq)]]
       /\ IF ReturnsTag(drq) THEN tag_gen!Return(response.tag) ELSE UNCHANGED tagVars
       /\ CountDown(BurstLen(drq))
  /\ readDataPipelineFifo' = Tail(readDataPipelineFifo)
  /\ dreqA' = Tail(dreqA)
  /\ UNCHANGED <<requestVars, dreqFifos, dreqB, bus, bufferB, compFifo1,
                 compVars, compFifo0, meant, latest>>

-----------------------------------------------------------------------------
\* From the read buffer to the clients.

read_tag_gen_step == tag_gen_step /\ UNCHANGED readVars

complete_burst0 ==
  /\ tag_gen!Take
  /\ Len(compFifo1) < ServerDepth
  /\ Len(dreqB) < BramDepth
  /\ dreqB' = Append(dreqB, dreqFifos[Head(done)])
  /\ compFifo1' = Append(compFifo1, Head(done))
  /\ UNCHANGED <<requestVars, dreqFifos, dreqA, bus, readDataPipelineFifo,
                 burstVars, read_buffer, bufferB, compVars, compFifo0, meant, latest>>

\* Reads position k of tag t for client c, as beat l[2] of request l[1].
ReadBuffer(t, k, c, l) ==
  /\ Len(compFifo0) < ServerDepth
  /\ Len(bufferB) < BramDepth
  /\ bufferB' = Append(bufferB, read_buffer[t][k])
  /\ compFifo0' = Append(compFifo0, c)
  /\ compReg0' = k - 1
  /\ meant' = Append(meant, l)
  /\ latest' = l

complete_burst1a ==
  /\ compReg0 = 0
  /\ dreqB # << >>
  /\ compFifo1 # << >>
  /\ LET drq == req[Head(dreqB)]
         tag == Head(compFifo1) IN
       /\ ReadBuffer(tag, drq.burstLen, drq.client, <<latest[1] + 1, 1>>)
       /\ compReg1' = tag
       /\ compReg2' = drq.client
  /\ dreqB' = Tail(dreqB)
  /\ compFifo1' = Tail(compFifo1)
  /\ UNCHANGED <<requestVars, tagVars, dreqFifos, dreqA, bus,
                 readDataPipelineFifo, burstVars, read_buffer>>

complete_burst1b ==
  /\ compReg0 > 0
  /\ ReadBuffer(compReg1, compReg0, compReg2, <<latest[1], latest[2] + 1>>)
  /\ UNCHANGED <<requestVars, tagVars, dreqFifos, dreqA, dreqB, bus,
                 readDataPipelineFifo, burstVars, read_buffer, compFifo1,
                 compReg1, compReg2>>

complete_burst2 ==
  /\ compFifo0 # << >>
  /\ bufferB # << >>
  /\ compFifo0' = Tail(compFifo0)
  /\ bufferB' = Tail(bufferB)
  /\ meant' = Tail(meant)
  /\ UNCHANGED <<requestVars, tagVars, dreqFifos, dreqA, dreqB, bus,
                 readDataPipelineFifo, burstVars, read_buffer, compFifo1,
                 compVars, latest>>

-----------------------------------------------------------------------------
ReadNext ==
  \/ read_loadClient_error
  \/ \E c \in Client : \E a \in Asks[c] : read_loadClient(c, a)
  \/ read_dmaError
  \/ read_checkMmuResp
  \/ readReq_get
  \/ \E r \in bus : readData_put(r)
  \/ read_data
  \/ read_tag_gen_step
  \/ complete_burst0
  \/ complete_burst1a
  \/ complete_burst1b
  \/ complete_burst2

ReadSpec == ReadInit /\ [][ReadNext]_memReadVars

\* Rules fire when they can, the bus answers, software takes the reports of
\* errors and the clients take their data.  Nothing obliges a client to ask.
ReadFairness ==
  /\ WF_memReadVars(read_dmaError)
  /\ WF_memReadVars(read_checkMmuResp)
  /\ WF_memReadVars(readReq_get)
  /\ WF_memReadVars(\E r \in bus : readData_put(r))
  /\ WF_memReadVars(read_data)
  /\ WF_memReadVars(read_tag_gen_step)
  /\ WF_memReadVars(complete_burst0)
  /\ WF_memReadVars(complete_burst1a)
  /\ WF_memReadVars(complete_burst1b)
  /\ WF_memReadVars(complete_burst2)

FairReadSpec == ReadSpec /\ ReadFairness

-----------------------------------------------------------------------------
ReadTypeOK ==
  /\ \A n \in DOMAIN req : req[n] \in
       [client : Client, mmu : Mmu, burstLen : 1 .. MaxBurst]
  /\ Len(req) <= MaxReq
  /\ Len(lreqFifo) <= PipelineDepth
  /\ issued \in Seq(RenameTag)
  /\ Len(reqFifo) <= ServerDepth
  /\ dreqFifos \in [RenameTag -> {None} \union Request]
  /\ Len(dreqA) <= BramDepth /\ Len(dreqB) <= BramDepth /\ Len(bufferB) <= BramDepth
  /\ Len(dreqA) = Len(readDataPipelineFifo)
  /\ firstReg \in BOOLEAN /\ lastReg \in BOOLEAN
  /\ burstReg \in 0 .. MaxBurst
  /\ compReg0 \in 0 .. MaxBurst
  /\ compReg1 \in RenameTag
  /\ compReg2 \in Client

\* Bursts go to the clients in the order of the requests.  But for the lost requests,
\* what goes out as beat k of request n is beat k of request n, with its client's tag,
\* its last mark, and for its client; and all its beats do (complete_burst1a,
\* complete_burst1b, complete_burst2, l.140-167).
RightBeats ==
  /\ Len(bufferB) = Len(compFifo0)
  /\ \A i \in DOMAIN bufferB : meant[i][1] \notin lost =>
       /\ bufferB[i] = Beat(meant[i][1], meant[i][2])
       /\ compFifo0[i] = req[meant[i][1]].client
  /\ latest[1] \notin lost \union {0} => compReg0 = req[latest[1]].burstLen - latest[2]

\* A request on the bus has the address its own translation gave (l.185-195).
RightAddress ==
  /\ \A i \in DOMAIN reqFifo : reqFifo[i].pa = reqFifo[i].req
  /\ \A r \in bus : r.pa = dreqFifos[r.tag]

\* Only with more requests unanswered than there are tags can the next tag be one that
\* is still needed, and a request be lost (checkMmuResp, l.185-195).
ReadLossNeedsCrowd ==
  LET reading == IF compReg0 > 0 THEN {compReg1} ELSE {} IN
  next \in reading \union Range(compFifo1) \union Range(done) /\ lreqFifo # << >> =>
    Len(req) - latest[1] + Cardinality(reading) > numTags

\* Every client gets the data of its own requests, read from the addresses their own
\* translations gave, but for those whose tag was issued again too early, which takes
\* more unanswered requests than tags (mkMemReadInternal).
RightReads == RightBeats /\ RightAddress /\ ReadLossNeedsCrowd

\* A burst goes out for every accepted request (l.134-246): their number is bounded, so
\* again and again none is left.
AllAnswered == latest[1] = Len(req) /\ compReg0 = 0 /\ bufferB = << >>
ReadsAnswered == []<>AllAnswered

=============================================================================
