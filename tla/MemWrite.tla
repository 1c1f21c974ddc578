------------------------------- MODULE MemWrite -------------------------------
(***************************************************************************)
(* bsv/MemServerInternal.bsv, mkMemWriteInternal: takes write requests     *)
(* from its clients, has their addresses translated, renames their tags,   *)
(* sends them to the bus, follows them with the data of the clients, and   *)
(* tells the clients, in the order of the requests, when memory has it.    *)
(*                                                                         *)
(* Requests, tags and the counting of beats are those of MemServer.  A     *)
(* client has the data of its requests in their order, from their          *)
(* acceptance on.  The bus takes beats in the order of its bursts and      *)
(* reports bursts that are written in any order.                           *)
(***************************************************************************)
EXTENDS MemServer

VARIABLES
  dreqFifo,      \* requests on the bus that memdata has not finished
  respFifos,     \* BRAM: per tag, the client's tag and the client
  respB,         \* answers of its port B
  unwritten,     \* per client, the words it has not handed over
  clientWriteData,
  memDataFifo,   \* beats for the bus
  bursts,        \* the bus: bursts with the beats it got for them
  told           \* ghost: the number of requests whose client was told

dataVars == <<unwritten, clientWriteData, memDataFifo>>
writeVars == <<dreqFifo, respFifos, respB, dataVars, bursts, told>>
memWriteVars == <<serverVars, writeVars>>

NoResp == [orig_tag |-> 0, client |-> CHOOSE c \in Client : TRUE]

WriteInit ==
  /\ ServerInit
  /\ dreqFifo = << >>
  /\ respFifos = [t \in RenameTag |-> NoResp] /\ respB = << >>
  /\ unwritten = [c \in Client |-> << >>]
  /\ clientWriteData = [c \in Client |-> << >>]
  /\ memDataFifo = << >> /\ bursts = << >>
  /\ told = 0

-----------------------------------------------------------------------------
\* From the clients to the bus: requests.

write_loadClient_error == loadClient_error /\ UNCHANGED writeVars

write_loadClient(c, a) ==
  /\ loadClient(c, a)
  /\ unwritten' = [unwritten EXCEPT ![c] = @ \o [k \in 1 .. a.burstLen |-> <<Len(req) + 1, k>>]]
  /\ UNCHANGED <<dreqFifo, respFifos, respB, clientWriteData, memDataFifo, bursts, told>>

write_dmaError == dmaError /\ UNCHANGED writeVars

\* tag_gen reports the requests complete in their order.
write_checkMmuResp ==
  /\ checkMmuResp
  /\ lost' = lost \union {told + Len(respB) + i : i \in {j \in DOMAIN done : done[j] = next}}
  /\ UNCHANGED writeVars

writeReq_get ==
  /\ reqFifo # << >>
  /\ Len(dreqFifo) < numTags
  /\ LET r == Head(reqFifo) IN
       /\ dreqFifo' = Append(dreqFifo, [req |-> r.req, tag |-> r.tag])
       /\ bursts' = Append(bursts, [tag |-> r.tag, pa |-> r.pa,
                                    burstLen |-> req[r.req].burstLen, beats |-> << >>])
  /\ reqFifo' = Tail(reqFifo)
  /\ UNCHANGED <<req, lreqFifo, mmu, tagVars, dmaErrorFifo, burstVars, lost, respFifos, respB,
                 dataVars, told>>

-----------------------------------------------------------------------------
\* From the clients to the bus: data.

clientdata(c) ==
  /\ unwritten[c] # << >>
  /\ Len(clientWriteData[c]) < ServerDepth
  /\ clientWriteData' = [clientWriteData EXCEPT ![c] = Append(@, Head(unwritten[c]))]
  /\ unwritten' = [unwritten EXCEPT ![c] = Tail(@)]
  /\ UNCHANGED <<requestVars, tagVars, burstVars, dreqFifo, respFifos, respB, memDataFifo,
                 bursts, told>>

\* Mutant: remembers the request accepted last.
Remember_Latest(d) ==
  respFifos' = [respFifos EXCEPT ![d.tag] =
                  [orig_tag |-> Len(req), client |-> req[Len(req)].client]]

\* With the first beat, whom to tell when tag d.tag is done.
Remember(d) ==
  respFifos' = [respFifos EXCEPT ![d.tag] =
                  [orig_tag |-> d.req, client |-> req[d.req].client]]

memdata ==
  /\ dreqFifo # << >>
  /\ Len(memDataFifo) < ServerDepth
  /\ LET d == Head(dreqFifo)
         c == req[d.req].client IN
       /\ clientWriteData[c] # << >>
       /\ clientWriteData' = [clientWriteData EXCEPT ![c] = Tail(@)]
       /\ IF firstReg THEN Remember(d) ELSE UNCHANGED respFifos
       /\ CountDown(BurstLen(d.req))
       /\ dreqFifo' = IF Last(d.req) THEN Tail(dreqFifo) ELSE dreqFifo
       /\ memDataFifo' = Append(memDataFifo, [data |-> Head(clientWriteData[c]),
                                              tag |-> d.tag, last |-> Last(d.req)])
  /\ UNCHANGED <<requestVars, tagVars, respB, unwritten, bursts, told>>

Complete(b) == Len(b.beats) = b.burstLen

\* The bus takes a beat, for the oldest burst that is not complete.
writeData_get ==
  /\ memDataFifo # << >>
  /\ \E i \in DOMAIN bursts :
       /\ ~Complete(bursts[i]) /\ \A j \in 1 .. i - 1 : Complete(bursts[j])
       /\ bursts' = [bursts EXCEPT ![i].beats = Append(@, Head(memDataFifo))]
  /\ memDataFifo' = Tail(memDataFifo)
  /\ UNCHANGED <<requestVars, tagVars, burstVars, dreqFifo, respFifos, respB, unwritten,
                 clientWriteData, told>>

-----------------------------------------------------------------------------
\* From the bus to the clients.

\* The bus has written the i-th of its bursts.
writeDone_put(i) ==
  /\ Complete(bursts[i])
  /\ tag_gen!Return(bursts[i].tag)
  /\ bursts' = SubSeq(bursts, 1, i - 1) \o SubSeq(bursts, i + 1, Len(bursts))
  /\ UNCHANGED <<requestVars, burstVars, dreqFifo, respFifos, respB, dataVars, told>>

write_tag_gen_step == tag_gen_step /\ UNCHANGED writeVars

writeDoneComp0 ==
  /\ tag_gen!Take
  /\ Len(respB) < BramDepth
  /\ respB' = Append(respB, respFifos[Head(done)])
  /\ UNCHANGED <<requestVars, burstVars, dreqFifo, respFifos, dataVars, bursts, told>>

writeDoneComp1 ==
  /\ respB # << >>
  /\ respB' = Tail(respB)
  /\ told' = told + 1
  /\ UNCHANGED <<requestVars, tagVars, burstVars, dreqFifo, respFifos, dataVars, bursts>>

-----------------------------------------------------------------------------
WriteNext ==
  \/ write_loadClient_error
  \/ \E c \in Client : \E a \in Asks[c] : write_loadClient(c, a)
  \/ write_dmaError
  \/ write_checkMmuResp
  \/ writeReq_get
  \/ \E c \in Client : clientdata(c)
  \/ memdata
  \/ writeData_get
  \/ \E i \in DOMAIN bursts : writeDone_put(i)
  \/ write_tag_gen_step
  \/ writeDoneComp0
  \/ writeDoneComp1

WriteSpec == WriteInit /\ [][WriteNext]_memWriteVars

\* Rules fire when they can, the bus takes data and reports, and clients that have
\* asked hand their data over.  Nothing obliges a client to ask.
WriteFairness ==
  /\ WF_memWriteVars(write_dmaError)
  /\ WF_memWriteVars(write_checkMmuResp)
  /\ WF_memWriteVars(writeReq_get)
  /\ \A c \in Client : WF_memWriteVars(clientdata(c))
  /\ WF_memWriteVars(memdata)
  /\ WF_memWriteVars(writeData_get)
  /\ WF_memWriteVars(\E i \in DOMAIN bursts : writeDone_put(i))
  /\ WF_memWriteVars(write_tag_gen_step)
  /\ WF_memWriteVars(writeDoneComp0)
  /\ WF_memWriteVars(writeDoneComp1)

FairWriteSpec == WriteSpec /\ WriteFairness

-----------------------------------------------------------------------------
\* Every beat goes to the burst it was given for: the bus gets for an address the
\* words its client has for it, in order, with the tag of the burst and the mark on
\* the last, although the data travels apart from the requests and the clients share
\* one stream (memdata, writeReq, l.355-389).
RightData ==
  \A i \in DOMAIN bursts : \A k \in DOMAIN bursts[i].beats :
    LET b == bursts[i] IN
    b.beats[k] = [data |-> <<b.pa, k>>, tag |-> b.tag, last |-> k = b.burstLen]

\* Clients are told of the requests in the order in which they were accepted, and only
\* of data that memory has; and each client of its own requests, with its own tags, but
\* for the lost ones, which may be told to the client of the request that got their tag
\* (writeDoneComp0, writeDoneComp1, l.333-343).
RightDone ==
  /\ told + Len(respB) <= Len(req)
  /\ \A i \in DOMAIN respB :
       LET n == told + i IN
       /\ n \in lost \/ respB[i] = [orig_tag |-> n, client |-> req[n].client]
       /\ \A b \in Range(bursts) : b.pa # n

\* Only with more requests unanswered than there are tags can the next tag be one whose
\* completion is still to be taken, and a request be lost (checkMmuResp, l.321-331).
LossNeedsCrowd == next \in Range(done) /\ lreqFifo # << >> => Len(req) - told > numTags

\* Memory gets every burst's own data, whatever the clients do; every client is told of
\* its own bursts, in order and once memory has them, but for those whose tag was issued
\* again too early, which takes more unanswered requests than tags (mkMemWriteInternal).
RightWrites == RightData /\ RightDone /\ LossNeedsCrowd

\* Every accepted request is written and its client told: their number is bounded, so
\* again and again none is left.
AllTold == told = Len(req)
WritesDone == []<>AllTold
=============================================================================
