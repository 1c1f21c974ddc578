----------------------------- MODULE MCDmaManager -----------------------------
(* The use of the MMUs: by the program that sets up their tables, and by the  *)
(* masters that share them.  A behaviour is about one of them, the subject.   *)
EXTENDS DmaManager

VARIABLES
  subject,
  \* TranslationPort
  lreqFifo, asked, arb, tokFifo, puts, pipe, out, addrReqFifo, queries, rejected,
  answer

tvars == <<lreqFifo, asked, arb, tokFifo, puts, pipe, out, addrReqFifo, queries,
           rejected, answer>>

\* Pages of 4, 2 and 1.
PageShifts == <<2, 1, 0>>

\* Buffer 1 has a segment of each size, buffer 2 one of two and one of one, or
\* three of one: with its end each list can fill a table of four entries.
Lengths == <<7, 3>>

\* Two masters with two requests each, for either of two MMUs.
Share == INSTANCE TranslationPort WITH
  Master <- {0, 1}, Mmu <- {1, 2}, ArbStates <- 2, TokDepth <- 2, PipelineDepth <- 2,
  Places <- 1, FifoDepth <- 1, MaxReq <- 2, MaxQuery <- 1, MaxReject <- 1

MCInit ==
  /\ subject \in {"tables", "masters"}
  /\ Init /\ Share!Init
  /\ subject = "masters" =>
       \A f \in Buffer :
         buffer[f] = CHOOSE b \in portalmem_dmabuffer_create(BufLen[f]) : Segments(b) <= MaxSegments

MCNext ==
  /\ UNCHANGED subject
  /\ \/ subject = "tables" /\ Next /\ UNCHANGED tvars
     \/ subject = "masters" /\ Share!Next /\ UNCHANGED vars

\* A step of the subject.
Of(s, A) == subject = s /\ A

TableFairness ==
  /\ WF_vars(Of("tables", wait_sglId)) /\ WF_vars(Of("tables", send_sglist))
  /\ WF_vars(Of("tables", send_region)) /\ WF_vars(Of("tables", wait_conf))
  /\ WF_vars(Of("tables", sglIdResp)) /\ WF_vars(Of("tables", confResp))
  /\ WF_vars(Of("tables", Hardware(idRequest))) /\ WF_vars(Of("tables", Hardware(idReturn)))
  /\ WF_vars(Of("tables", Hardware(region))) /\ WF_vars(Of("tables", Hardware(sglist)))
  /\ WF_vars(Of("tables", Hardware(sendConfigResp)))
  /\ WF_vars(Of("tables", Hardware(idReturnRule)))
  /\ WF_vars(Of("tables", Hardware(sglId_gen_step)))
  /\ WF_vars(Of("tables", Hardware(complete_sglId_gen)))

MasterFairness ==
  /\ \A m \in {1, 2} : WF_tvars(Of("masters", Share!translate(m) \/ Share!reject(m)))
  /\ \A i \in {0, 1} : WF_tvars(Of("masters", Share!checkMmuResp(i)))
  /\ WF_tvars(Of("masters", Share!mmuEntry))

MCSpec ==
  MCInit /\ [][MCNext]_<<subject, vars, tvars>> /\ TableFairness /\ MasterFairness

\* A client gets the address that its identifier's list gives, and an error only for an
\* address outside it (mkMMU, send_fd_to_portal).
TranslationsRight == RightTranslation /\ OnlyRealErrors

\* The properties of TranslationPort.
TranslationOff == Share!TranslationOff
MastersServed == Share!MastersServed
=============================================================================
