---------------------------------- MODULE MMU ----------------------------------
(***************************************************************************)
(* bsv/MMU.bsv, mkMMU: hands out identifiers of scatter-gather lists,      *)
(* keeps their tables, and translates (identifier, offset) to a physical   *)
(* address in a pipeline of five rules, one pipeline per port.             *)
(*                                                                         *)
(* A rule or a method is one action.  FIFOs that are filled and emptied    *)
(* together are one sequence of records.  A BRAM answers a read with the   *)
(* word present when the request was put, so the answer is kept with the   *)
(* request that waits for it.  sglId_gen is used through its promise,      *)
(* CompletionOrder.                                                        *)
(*                                                                         *)
(* The request portal has a FIFO per method.  A call takes one program     *)
(* many bus cycles to write and the MMU one to take, so at most one call   *)
(* waits; request is that call.                                            *)
(***************************************************************************)
EXTENDS SGList, Sequences, Functions

CONSTANTS
  NumIds,      \* MaxNumSGLists
  Port,        \* indices of the address servers
  FifoDepth    \* depth of mkFIFO and mkFIFOF

VARIABLES
  request,               \* the call that waits in the request portal, if any
  next, issued, returned, done,   \* sglId_gen, see CompletionOrder
  idReturnFifo,          \* identifiers given back
  regall,                \* BRAM: per identifier, its region registers
  pages,                 \* BRAM: per identifier and index, an address
  configRespFifo,        \* identifiers whose region has been set
  idResponse, configResp,   \* indications not yet read by software
  incomingReqs, reqs0, reqs1, offs0, offs1,  \* per port, requests in stages 1 to 5
  pageResponseFifos,     \* per port, the answers
  dmaErrorFifo           \* rejected requests, not yet reported

idVars == <<next, issued, returned, done>>
tableVars == <<regall, pages>>
configVars == <<request, idVars, idReturnFifo, tableVars, configRespFifo,
                idResponse, configResp>>
pipeVars == <<incomingReqs, reqs0, reqs1, offs0, offs1, pageResponseFifos,
              dmaErrorFifo>>
mmuVars == <<configVars, pipeVars>>

Id == 0 .. NumIds - 1

sglId_gen == INSTANCE CompletionOrder WITH NumTags <- NumIds

\* Depth of the FIFOs beside a BRAM, and of its answers.
BramDepth == 3

Invalid == [valid |-> FALSE, barrier |-> [j \in Order |-> 0], idxOffset |-> [j \in Order |-> 0]]

MMUInit ==
  /\ request = << >>
  /\ sglId_gen!Init
  /\ idReturnFifo = << >>
  /\ regall = [id \in Id |-> Invalid]
  /\ pages = [id \in Id |-> [p \in 0 .. Entries - 1 |-> 0]]
  /\ configRespFifo = << >>
  /\ idResponse = << >>
  /\ configResp = << >>
  /\ incomingReqs = [i \in Port |-> << >>]
  /\ reqs0 = [i \in Port |-> << >>]
  /\ reqs1 = [i \in Port |-> << >>]
  /\ offs0 = [i \in Port |-> << >>]
  /\ offs1 = [i \in Port |-> << >>]
  /\ pageResponseFifos = [i \in Port |-> << >>]
  /\ dmaErrorFifo = << >>

-----------------------------------------------------------------------------
\* The methods of MMURequest and the rules behind them.

Called(method) == request # << >> /\ request[1].method = method /\ request' = << >>

idRequest ==
  /\ Called("idRequest")
  /\ sglId_gen!Get
  /\ Len(idResponse) < FifoDepth
  /\ idResponse' = Append(idResponse, next)
  /\ UNCHANGED <<idReturnFifo, tableVars, configRespFifo, configResp, pipeVars>>

idReturn ==
  /\ Called("idReturn")
  /\ Len(idReturnFifo) < NumIds
  /\ idReturnFifo' = Append(idReturnFifo, request[1].id)
  /\ UNCHANGED <<idVars, tableVars, configRespFifo, idResponse, configResp, pipeVars>>

region ==
  /\ Called("region")
  /\ Len(configRespFifo) < FifoDepth
  /\ LET r == request[1] IN
       /\ regall' = [regall EXCEPT ![r.id] =
                       [valid |-> TRUE, barrier |-> r.barrier, idxOffset |-> r.idxOffset]]
       /\ configRespFifo' = Append(configRespFifo, r.id)
  /\ UNCHANGED <<idVars, idReturnFifo, pages, idResponse, configResp, pipeVars>>

sglist ==
  /\ Called("sglist")
  /\ LET r == request[1] IN
       pages' = [pages EXCEPT ![r.id][r.index % Entries] = r.addr]
  /\ UNCHANGED <<idVars, idReturnFifo, regall, configRespFifo, idResponse, configResp,
                 pipeVars>>

sendConfigResp ==
  /\ configRespFifo # << >>
  /\ Len(configResp) < FifoDepth
  /\ configRespFifo' = Tail(configRespFifo)
  /\ configResp' = Append(configResp, Head(configRespFifo))
  /\ UNCHANGED <<request, idVars, idReturnFifo, tableVars, idResponse, pipeVars>>

\* Mutant: the identifier is not given back.
ReturnTag_Not(id) == UNCHANGED idVars

ReturnTag(id) == sglId_gen!Return(id)

\* The list of identifier id is no longer valid.
Invalidate(id) == regall' = [regall EXCEPT ![id] = Invalid]

idReturnRule ==
  /\ idReturnFifo # << >>
  /\ ReturnTag(Head(idReturnFifo))
  /\ Invalidate(Head(idReturnFifo))
  /\ idReturnFifo' = Tail(idReturnFifo)
  /\ UNCHANGED <<request, pages, configRespFifo, idResponse, configResp, pipeVars>>

\* sglId_gen's own rules.
sglId_gen_step ==
  /\ sglId_gen!Finish
  /\ UNCHANGED <<request, idReturnFifo, tableVars, configRespFifo, idResponse, configResp,
                 pipeVars>>

complete_sglId_gen ==
  /\ sglId_gen!Take
  /\ UNCHANGED <<request, idReturnFifo, tableVars, configRespFifo, idResponse, configResp,
                 pipeVars>>

-----------------------------------------------------------------------------
\* The translation pipeline of port i.  A request carries, as a ghost, the answer
\* its client wants.

\* fifo loses its head on port i.
Dequeued(fifo, i) == [fifo EXCEPT ![i] = Tail(@)]

\* fifo gets x on port i.
Enqueued(fifo, i, x) == [fifo EXCEPT ![i] = Append(@, x)]

addr_request(i, id, off, want) ==
  /\ Len(incomingReqs[i]) < FifoDepth
  /\ incomingReqs' = Enqueued(incomingReqs, i, [id |-> id, off |-> off, want |-> want])
  /\ UNCHANGED <<configVars, reqs0, reqs1, offs0, offs1, pageResponseFifos, dmaErrorFifo>>

stage1(i) ==
  /\ incomingReqs[i] # << >>
  /\ Len(reqs0[i]) < BramDepth
  /\ LET req == Head(incomingReqs[i]) IN
       reqs0' = Enqueued(reqs0, i, [req |-> req, regionall |-> regall[req.id]])
  /\ incomingReqs' = Dequeued(incomingReqs, i)
  /\ UNCHANGED <<configVars, reqs1, offs0, offs1, pageResponseFifos, dmaErrorFifo>>

\* cond8, cond4, cond0: the offset is before the end of the region of size j.
Below(off, barrier) == [j \in Order |-> off \div 2 ^ Shift[j] < barrier[j]]

DmaError(error, req) == dmaErrorFifo' = Append(dmaErrorFifo, [error |-> error, req |-> req])

stage2(i) ==
  /\ reqs0[i] # << >>
  /\ LET r == Head(reqs0[i]) IN
       \/ /\ r.regionall.valid
          /\ Len(reqs1[i]) < FifoDepth
          /\ reqs1' = Enqueued(reqs1, i, [req |-> r.req,
                                          conds |-> Below(r.req.off, r.regionall.barrier),
                                          idxOffset |-> r.regionall.idxOffset])
          /\ UNCHANGED dmaErrorFifo
       \/ /\ ~ r.regionall.valid
          /\ Len(dmaErrorFifo) < FifoDepth
          /\ DmaError("SGLIdInvalid", r.req)
          /\ UNCHANGED reqs1
  /\ reqs0' = Dequeued(reqs0, i)
  /\ UNCHANGED <<configVars, incomingReqs, offs0, offs1, pageResponseFifos>>

\* Mutant: the smallest size wins.
PageSize_Smallest(conds) == Max({0} \union {j \in Order : conds[j]})

\* The largest page size whose region holds the offset, 0 for none.
PageSize(conds) == IF \E j \in Order : conds[j] THEN Min({j \in Order : conds[j]}) ELSE 0

stage3(i) ==
  /\ reqs1[i] # << >>
  /\ Len(offs0[i]) < FifoDepth
  /\ LET r == Head(reqs1[i])
         j == PageSize(r.conds) IN
       offs0' = Enqueued(offs0, i,
                  [req |-> r.req, pageSize |-> j,
                   pbase |-> IF j = 0 THEN 0 ELSE (r.req.off \div 2 ^ Shift[j]) % Entries,
                   idxOffset |-> IF j = 0 THEN 0 ELSE r.idxOffset[j]])
  /\ reqs1' = Dequeued(reqs1, i)
  /\ UNCHANGED <<configVars, incomingReqs, reqs0, offs1, pageResponseFifos, dmaErrorFifo>>

stage4(i) ==
  /\ offs0[i] # << >>
  /\ LET o == Head(offs0[i])
         p == (o.pbase + o.idxOffset) % Entries IN
       \/ /\ o.pageSize = 0
          /\ Len(dmaErrorFifo) < FifoDepth
          /\ DmaError("OffsetOutOfRange", o.req)
          /\ UNCHANGED offs1
       \/ /\ o.pageSize # 0
          /\ Len(offs1[i]) < BramDepth
          /\ offs1' = Enqueued(offs1, i, [req |-> o.req, pageSize |-> o.pageSize,
                                          page |-> pages[o.req.id][p]])
          /\ UNCHANGED dmaErrorFifo
  /\ offs0' = Dequeued(offs0, i)
  /\ UNCHANGED <<configVars, incomingReqs, reqs0, reqs1, pageResponseFifos>>

stage5(i) ==
  /\ offs1[i] # << >>
  /\ Len(pageResponseFifos[i]) < FifoDepth
  /\ LET o == Head(offs1[i])
         size == 2 ^ Shift[o.pageSize] IN
       pageResponseFifos' = Enqueued(pageResponseFifos, i,
                              [req |-> o.req, pa |-> o.page * size + (o.req.off % size)])
  /\ offs1' = Dequeued(offs1, i)
  /\ UNCHANGED <<configVars, incomingReqs, reqs0, reqs1, offs0, dmaErrorFifo>>

addr_response(i) ==
  /\ pageResponseFifos[i] # << >>
  /\ pageResponseFifos' = Dequeued(pageResponseFifos, i)
  /\ UNCHANGED <<configVars, incomingReqs, reqs0, reqs1, offs0, offs1, dmaErrorFifo>>

dmaError ==
  /\ dmaErrorFifo # << >>
  /\ dmaErrorFifo' = Tail(dmaErrorFifo)
  /\ UNCHANGED <<configVars, incomingReqs, reqs0, reqs1, offs0, offs1, pageResponseFifos>>

\* The rules, which need nothing from outside.
MMURule ==
  \/ idRequest
  \/ idReturn
  \/ region
  \/ sglist
  \/ sendConfigResp
  \/ idReturnRule
  \/ sglId_gen_step
  \/ complete_sglId_gen
  \/ \E i \in Port : stage1(i) \/ stage2(i) \/ stage3(i) \/ stage4(i) \/ stage5(i)

=============================================================================
