------------------------------ MODULE DmaManager ------------------------------
(***************************************************************************)
(* cpp/dmaManager.c and cpp/dmaSendFd.h over the MMU: a program makes a    *)
(* buffer known to the MMU (reference), hands the identifier to hardware   *)
(* that translates with it, and gives it back (dereference).               *)
(*                                                                         *)
(* The processes are the program's thread, the poller's thread that runs   *)
(* the indication handlers (cpp/StdDmaIndication.h), the MMU and the       *)
(* hardware that asks for translations.  reference takes the path of the   *)
(* drivers' SEND_FD ioctl, which runs send_fd_to_portal in the kernel.     *)
(*                                                                         *)
(* What the program owes: one thread refers at a time, no translation is   *)
(* in progress for a reference that is given back, and a buffer has at     *)
(* most MaxSegments segments, which nothing in the code checks.            *)
(***************************************************************************)
EXTENDS MMU, FiniteSets

CONSTANTS
  Buffer,    \* file descriptors of the buffers
  BufLen,    \* their lengths
  MaxSegments,   \* bound on the segments of a buffer
  Offsets,   \* offsets that are translated, besides the first behind a buffer
  Lookups,   \* bound on the translations in progress
  MaxRef     \* bound on the calls of reference

VARIABLES
  buffer,    \* the segments portalmem allocated for each buffer
  pc, fd, id, index,          \* the program's thread in reference
  sglId, sglIdSem, confSem,   \* DmaManagerPrivate
  ref,       \* per identifier, the buffer the program refers to with it, or None
  calls      \* number of calls of reference

threadVars == <<pc, fd, id, index, calls>>
privVars == <<sglId, sglIdSem, confSem>>
vars == <<mmuVars, buffer, threadVars, privVars, ref>>

None == 0

\* What is wanted of a translation that must be reported as an error.
Error == -1

Init ==
  /\ MMUInit
  /\ buffer \in [Buffer -> UNION {portalmem_dmabuffer_create(BufLen[f]) : f \in Buffer}]
  /\ \A f \in Buffer : Bytes(buffer[f]) = BufLen[f] /\ Segments(buffer[f]) <= MaxSegments
  /\ pc = "idle"
  /\ fd = None
  /\ id = 0
  /\ index = 0
  /\ sglId = 0
  /\ sglIdSem = 0
  /\ confSem = 0
  /\ ref = [r \in Id |-> None]
  /\ calls = 0

-----------------------------------------------------------------------------
\* Translations.

InStage(i) ==
  {r : r \in Range(incomingReqs[i])} \union
  {r.req : r \in Range(reqs0[i]) \union Range(reqs1[i]) \union Range(offs0[i])
                 \union Range(offs1[i]) \union Range(pageResponseFifos[i])}

InProgress == UNION {InStage(i) : i \in Port}

InProgressCount ==
  MapThenSumSet(LAMBDA i : Len(incomingReqs[i]) + Len(reqs0[i]) + Len(reqs1[i])
                  + Len(offs0[i]) + Len(offs1[i]) + Len(pageResponseFifos[i]), Port)

\* The MMU has taken back identifier r.
TakenBack(r) == r \notin Range(issued) \/ r \in returned

\* Hardware asks for a translation: in a buffer, behind it, or with an identifier
\* that was given back.
translate(i, r) ==
  /\ InProgressCount < Lookups
  /\ \/ /\ ref[r] # None
        /\ \E off \in {o \in Offsets : o < BufLen[ref[r]]} :
             addr_request(i, r, off, Phys(ref[r], buffer[ref[r]], off))
     \/ /\ ref[r] # None
        /\ addr_request(i, r, BufLen[ref[r]], Error)
     \/ /\ ref[r] = None
        /\ pc = "idle"
        /\ TakenBack(r)
        /\ addr_request(i, r, 0, Error)
  /\ UNCHANGED <<buffer, threadVars, privVars, ref>>

-----------------------------------------------------------------------------
\* The program's thread.

\* The thread writes a call into the request portal.
Call(call) ==
  /\ request = << >>
  /\ request' = <<call>>
  /\ UNCHANGED <<idVars, idReturnFifo, tableVars, configRespFifo, idResponse, configResp,
                 pipeVars>>

reference(f) ==
  /\ pc = "idle"
  /\ calls < MaxRef
  /\ \A r \in InProgress : ref[r.id] # None
  /\ Call([method |-> "idRequest"])
  /\ pc' = "sglId"
  /\ fd' = f
  /\ calls' = calls + 1
  /\ UNCHANGED <<buffer, id, index, privVars, ref>>

wait_sglId ==
  /\ pc = "sglId"
  /\ sglIdSem > 0
  /\ sglIdSem' = sglIdSem - 1
  /\ id' = sglId
  /\ index' = 0
  /\ pc' = "sglist"
  /\ UNCHANGED <<mmuVars, buffer, fd, calls, sglId, confSem, ref>>

\* The entries of the list and its end.
send_sglist ==
  /\ pc = "sglist"
  /\ Call([method |-> "sglist", id |-> id, index |-> index,
           addr |-> SglistAddr(fd, buffer[fd], index)])
  /\ pc' = IF index = Segments(buffer[fd]) THEN "region" ELSE "sglist"
  /\ index' = index + 1
  /\ UNCHANGED <<buffer, fd, id, calls, privVars, ref>>

send_region ==
  /\ pc = "region"
  /\ Call([method |-> "region", id |-> id, barrier |-> borderVal(buffer[fd]),
           idxOffset |-> indexVal(buffer[fd])])
  /\ pc' = "conf"
  /\ UNCHANGED <<buffer, fd, id, index, calls, privVars, ref>>

\* Mutant: the test of the other path, which waits for identifier 0 only.
WaitConf_Other ==
  IF id = 0 THEN confSem > 0 /\ confSem' = confSem - 1 ELSE UNCHANGED confSem

\* SEND_FD returned 0: the thread waits for configResp.
WaitConf == confSem > 0 /\ confSem' = confSem - 1

wait_conf ==
  /\ pc = "conf"
  /\ WaitConf
  /\ ref' = [ref EXCEPT ![id] = fd]
  /\ pc' = "idle"
  /\ UNCHANGED <<mmuVars, buffer, fd, id, index, calls, sglId, sglIdSem>>

dereference(r) ==
  /\ pc = "idle"
  /\ ref[r] # None
  /\ \A p \in InProgress : p.id # r
  /\ Call([method |-> "idReturn", id |-> r])
  /\ ref' = [ref EXCEPT ![r] = None]
  /\ UNCHANGED <<buffer, threadVars, privVars>>

-----------------------------------------------------------------------------
\* The poller's thread.

sglIdResp ==
  /\ idResponse # << >>
  /\ idResponse' = Tail(idResponse)
  /\ sglId' = Head(idResponse)
  /\ sglIdSem' = sglIdSem + 1
  /\ UNCHANGED <<request, idVars, idReturnFifo, tableVars, configRespFifo, configResp,
                 pipeVars, buffer, threadVars, confSem, ref>>

confResp ==
  /\ configResp # << >>
  /\ configResp' = Tail(configResp)
  /\ confSem' = confSem + 1
  /\ UNCHANGED <<request, idVars, idReturnFifo, tableVars, configRespFifo, idResponse,
                 pipeVars, buffer, threadVars, sglId, sglIdSem, ref>>

-----------------------------------------------------------------------------
\* The MMU works while the software does something else.
Hardware(A) == A /\ UNCHANGED <<buffer, threadVars, privVars, ref>>

Next ==
  \/ \E i \in Port, r \in Id : translate(i, r)
  \/ \E f \in Buffer : reference(f)
  \/ wait_sglId
  \/ send_sglist
  \/ send_region
  \/ wait_conf
  \/ \E r \in Id : dereference(r)
  \/ sglIdResp
  \/ confResp
  \/ Hardware(MMURule)
  \/ Hardware(dmaError)
  \/ \E i \in Port : Hardware(addr_response(i))

Spec == Init /\ [][Next]_vars

\* The MMU's rules fire when they can, both threads run, and the poller is woken
\* for each indication.  Nothing obliges the program to call or the hardware to
\* translate.
Fairness ==
  /\ WF_vars(wait_sglId)
  /\ WF_vars(send_sglist)
  /\ WF_vars(send_region)
  /\ WF_vars(wait_conf)
  /\ WF_vars(sglIdResp)
  /\ WF_vars(confResp)
  /\ WF_vars(Hardware(idRequest))
  /\ WF_vars(Hardware(idReturn))
  /\ WF_vars(Hardware(region))
  /\ WF_vars(Hardware(sglist))
  /\ WF_vars(Hardware(sendConfigResp))
  /\ WF_vars(Hardware(idReturnRule))
  /\ WF_vars(Hardware(sglId_gen_step))
  /\ WF_vars(Hardware(complete_sglId_gen))

FairSpec == Spec /\ Fairness

-----------------------------------------------------------------------------
\* An answered translation has the address its client wants: that of the offset in
\* the buffer the program referred to, also while other lists are being set up or
\* given back (bsv/MMU.bsv l.144-241).
RightTranslation ==
  \A i \in Port : \A a \in Range(pageResponseFifos[i]) : a.pa = a.req.want

\* An error is reported only for an offset behind the buffer or for an identifier
\* the program gave back, never for a reference in use (bsv/MMU.bsv l.173-176,
\* l.218-221; cpp/dmaManager.c l.86-88).
OnlyRealErrors == \A i \in DOMAIN dmaErrorFifo : dmaErrorFifo[i].req.want = Error

\* The address the tables of identifier r give to an offset.
Walk(r, off) ==
  LET j == PageSize(Below(off, regall[r].barrier))
      size == 2 ^ Shift[j]
  IN  pages[r][(off \div size + regall[r].idxOffset[j]) % Entries] * size + (off % size)

\* Once reference has returned and until dereference is called, the MMU's tables for
\* the identifier describe the whole buffer and nothing else, whatever list had the
\* identifier before (cpp/dmaSendFd.h l.105-147, bsv/MMU.bsv l.251-317).
TablesComplete ==
  \A r \in Id : ref[r] # None =>
    /\ r \in Range(issued) \ returned
    /\ regall[r].valid
    /\ \A off \in 0 .. BufLen[ref[r]] - 1 :
         /\ PageSize(Below(off, regall[r].barrier)) # 0
         /\ Walk(r, off) = Phys(ref[r], buffer[ref[r]], off)
    /\ PageSize(Below(BufLen[ref[r]], regall[r].barrier)) = 0

\* Zeros end a list (cpp/dmaSendFd.h l.129, "HW interprets zeros as end of sglist"):
\* no translation goes through an entry that is zero (bsv/MMU.bsv l.211-241).
ZerosEndList == \A i \in Port : \A o \in Range(offs1[i]) : o.page # 0

\* The identifiers are used up behind one that is still in use: the ring of
\* identifiers is full and only dereference of its oldest would make room.
UsedUp == Len(issued) = NumIds - 1 /\ ref[Head(issued)] # None

\* reference returns, unless the identifiers are used up (cpp/dmaManager.c l.67-98,
\* bsv/MMU.bsv l.98-100, l.245-256, l.280-300).
ReferenceReturns == []<>(pc = "idle" \/ UsedUp)

=============================================================================
