------------------------------- MODULE MemServer -------------------------------
(***************************************************************************)
(* bsv/MemServerInternal.bsv, what mkMemReadInternal and                   *)
(* mkMemWriteInternal have in common: requests are taken from the clients, *)
(* have their addresses translated and their tags renamed, and the beats   *)
(* of a burst are counted down.  MemRead and MemWrite extend this module,  *)
(* and their own rules say what each rule here does besides.               *)
(*                                                                         *)
(* A rule or a method is one action.  A request is known by its number in  *)
(* the order of acceptance: its number also stands for the tag its client  *)
(* gave it and for the physical address it translates to, so the k-th word *)
(* of request n is <<n, k>>.  burstLen is in beats.                        *)
(*                                                                         *)
(* tag_gen is used through its promise, CompletionOrder, which TagGen      *)
(* implements.  An MMU (bsv/MMU.bsv) answers in order; requests it would   *)
(* reject are not made.                                                    *)
(***************************************************************************)
EXTENDS Integers, Sequences, FiniteSets, Functions

CONSTANTS
  Client,         \* indices of readClients or writeClients
  Mmu,            \* indices of mmus
  numTags,
  ServerDepth,    \* depth of mkFIFO
  DoneDepth,      \* depth of tag_gen's FIFO of completed tags
  PipelineDepth,  \* MMU_PIPELINE_DEPTH, the depth of lreqFifo
  MaxBurst,       \* the longest burst, in beats: what an address of read_buffer counts to
  Asks,           \* per client, the MMUs and burst lengths it uses
  MaxReq          \* bound on the number of requests

ASSUME numTagsAssumption == numTags \in Nat /\ numTags >= 2
ASSUME AsksAssumption ==
  /\ MaxBurst \in Nat
  /\ Asks \in [Client -> SUBSET [mmu : Mmu, burstLen : 1 .. MaxBurst]]

VARIABLES
  req,           \* the accepted requests, by number
  lreqFifo,      \* requests being translated
  mmu,           \* per MMU, the requests it has not answered
  next, issued, returned, done,   \* tag_gen, see CompletionOrder
  reqFifo,       \* translated requests: number, physical address, tag
  dmaErrorFifo,  \* rejected requests, not yet reported
  burstReg, firstReg, lastReg,    \* position in the burst that is being counted
  lost           \* ghost: requests whose tag was issued again while it was still needed

tagVars == <<next, issued, returned, done>>
requestVars == <<req, lreqFifo, mmu, reqFifo, dmaErrorFifo, lost>>
burstVars == <<burstReg, firstReg, lastReg>>
serverVars == <<requestVars, tagVars, burstVars>>

\* rename_tag
RenameTag == 0 .. numTags - 1

tag_gen == INSTANCE CompletionOrder WITH NumTags <- numTags, FifoDepth <- DoneDepth

\* outFIFODepth of a BRAM with the default configuration.
BramDepth == 3

ServerInit ==
  /\ req = << >> /\ lreqFifo = << >> /\ mmu = [m \in Mmu |-> << >>]
  /\ tag_gen!Init
  /\ reqFifo = << >> /\ dmaErrorFifo = << >>
  /\ burstReg = 0 /\ firstReg = TRUE /\ lastReg = FALSE
  /\ lost = {}

-----------------------------------------------------------------------------
\* Requests.

\* An MMU number or a list identifier out of range.
loadClient_error ==
  /\ Len(dmaErrorFifo) < ServerDepth
  /\ dmaErrorFifo' = Append(dmaErrorFifo, "OutOfRange")
  /\ UNCHANGED <<req, lreqFifo, mmu, reqFifo, tagVars, burstVars, lost>>

\* A request of client c in range, for MMU a.mmu.
loadClient(c, a) ==
  /\ Len(req) < MaxReq
  /\ Len(lreqFifo) < PipelineDepth
  /\ LET n == Len(req) + 1 IN
       /\ req' = Append(req, [client |-> c, mmu |-> a.mmu, burstLen |-> a.burstLen])
       /\ lreqFifo' = Append(lreqFifo, n)
       /\ mmu' = [mmu EXCEPT ![a.mmu] = Append(@, n)]
  /\ UNCHANGED <<reqFifo, dmaErrorFifo, tagVars, burstVars, lost>>

dmaError ==
  /\ dmaErrorFifo # << >>
  /\ dmaErrorFifo' = Tail(dmaErrorFifo)
  /\ UNCHANGED <<req, lreqFifo, mmu, reqFifo, tagVars, burstVars, lost>>

\* Mutant: takes the answer of the MMU of the latest request.
MmuSel_Latest(n) == req[Len(req)].mmu

\* The MMU that request n was sent to, sglId[31:16].
MmuSel(n) == req[n].mmu

\* tag_gen counts a tag as free once it reports it complete, whether or not the
\* request it was used for is done with: MemRead and MemWrite say which are lost.
checkMmuResp ==
  /\ lreqFifo # << >>
  /\ LET n == Head(lreqFifo)
         m == MmuSel(n) IN
       /\ mmu[m] # << >>
       /\ mmu' = [mmu EXCEPT ![m] = Tail(@)]
       /\ Len(reqFifo) < ServerDepth
       /\ reqFifo' = Append(reqFifo, [req |-> n, pa |-> Head(mmu[m]), tag |-> next])
  /\ tag_gen!Get
  /\ lreqFifo' = Tail(lreqFifo)
  /\ UNCHANGED <<req, dmaErrorFifo, burstVars>>

\* tag_gen's own rules.
tag_gen_step ==
  /\ tag_gen!Finish
  /\ UNCHANGED <<requestVars, burstVars>>

-----------------------------------------------------------------------------
\* Beats.

\* Beats left of request n's burst, with the one at hand.
BurstLen(n) == IF firstReg THEN req[n].burstLen ELSE burstReg

\* Mutant: a burst of one is not known to end with its first beat.
Last_Reg(n) == lastReg

\* The beat at hand is the last of request n's burst.
Last(n) == IF firstReg THEN req[n].burstLen = 1 ELSE lastReg

\* Mutant: counts one beat too many.
CountDown_Late(b) ==
  /\ burstReg' = b - 1
  /\ firstReg' = (b = 0)
  /\ lastReg' = (b = 1)

\* Mutant: the last beat is taken for the one after it.
CountDown_NoLast(b) ==
  /\ burstReg' = b - 1
  /\ firstReg' = (b - 1 = 0)
  /\ lastReg' = (b - 1 = 0)

\* The position after b.
CountDown(b) ==
  /\ burstReg' = b - 1
  /\ firstReg' = (b - 1 = 0)
  /\ lastReg' = (b - 1 = 1)

=============================================================================
