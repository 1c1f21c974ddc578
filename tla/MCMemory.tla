------------------------------- MODULE MCMemory -------------------------------
(* How hardware uses memory: the tags, the reads and the writes of the memory *)
(* server, a request ring read by hardware, and the command and status rings  *)
(* of examples/ring.  A behaviour is about one of them, the subject.          *)
EXTENDS TagGen, MemRead, MemWrite

VARIABLES
  subject,
  \* SharedRequestPortal
  mem, wr, rd, wpc, wlen, ns, words, at, readyReg, reqState, reqLimitReg,
  reqHeadReg, reqTailReg, wordCountReg, messageWordsReg, methodIdReg, cmds,
  readMifo, out,
  \* CommandRing
  pc, n, cmd_ring, getresult_flag, status_last, completionfreelist, in_use, arg,
  finished, cmdBuffer, statusBuffer, requests, results, cmdRing, statusRing,
  reads, tokens, cmd, echoEngine, copyEngine, writes

svars == <<mem, wr, rd, wpc, wlen, ns, words, at, readyReg, reqState,
           reqLimitReg, reqHeadReg, reqTailReg, wordCountReg, messageWordsReg,
           methodIdReg, cmds, readMifo, out>>
cvars == <<pc, n, cmd_ring, getresult_flag, status_last, completionfreelist,
           in_use, arg, finished, cmdBuffer, statusBuffer, requests, results,
           cmdRing, statusRing, reads, tokens, cmd, echoEngine, copyEngine,
           writes>>

\* Client 1 reads or writes single beats through MMU 1, client 2 bursts of two
\* through MMU 2.
MCAsks == [c \in {1, 2} |-> {[mmu |-> c, burstLen |-> c]}]

\* Messages of two arguments.
Ring == INSTANCE SharedRequestPortal WITH
  Limit <- 24, ReqSize <- 3, Lens <- {3}, MaxMsg <- 9, MifoDepth <- 20

\* Rings of four slots, and the fewest completions with which none is missing: three
\* in each ring, one in an engine and one on its way there.  In rings of eight slots
\* the space left is asked for before every second command only.
Commands == INSTANCE CommandRing WITH
  Slots <- 4, Completions <- 8, Pairs <- 1, Copies <- 2, Echoes <- 9,
  StartEvery <- 3, Tokens <- 2, EngineDepth <- 1
Commands8 == INSTANCE CommandRing WITH
  Slots <- 8, Completions <- 12, Pairs <- 0, Copies <- 2, Echoes <- 8,
  StartEvery <- 7, Tokens <- 1, EngineDepth <- 1

\* The BRAM of tags starts with any contents, where the tags are the subject.
MCInit ==
  /\ subject \in {"tags", "read", "write", "ring", "commands", "commands8"}
  /\ Init /\ ReadInit /\ WriteInit /\ Ring!Init
  /\ IF subject = "commands8" THEN Commands8!Init ELSE Commands!Init
  /\ subject # "tags" => tags = {}

MCNext ==
  /\ UNCHANGED subject
  /\ \/ subject = "tags" /\ Next /\ UNCHANGED <<serverVars, readVars, writeVars, svars, cvars>>
     \/ subject = "read" /\ ReadNext /\ UNCHANGED <<vars, writeVars, svars, cvars>>
     \/ subject = "write" /\ WriteNext /\ UNCHANGED <<vars, readVars, svars, cvars>>
     \/ subject = "ring" /\ Ring!Next /\ UNCHANGED <<vars, serverVars, readVars, writeVars, cvars>>
     \/ subject = "commands" /\ Commands!Next /\ UNCHANGED <<vars, serverVars, readVars, writeVars, svars>>
     \/ subject = "commands8" /\ Commands8!Next /\ UNCHANGED <<vars, serverVars, readVars, writeVars, svars>>

\* A step of the subject.
Of(s, A) == subject = s /\ A

\* The fairness of the specifications, each for its own behaviours.
TagFairness ==
  /\ WF_vars(Of("tags", init)) /\ WF_vars(Of("tags", complete_rule0))
  /\ WF_vars(Of("tags", complete_rule1)) /\ SF_vars(Of("tags", ret))
  /\ WF_vars(Of("tags", complete))
  /\ \A t \in Tag : WF_vars(Of("tags", t \in held /\ returnTag(t)))

ReadsFair ==
  /\ WF_memReadVars(Of("read", read_dmaError))
  /\ WF_memReadVars(Of("read", read_checkMmuResp))
  /\ WF_memReadVars(Of("read", readReq_get))
  /\ WF_memReadVars(Of("read", \E r \in bus : readData_put(r)))
  /\ WF_memReadVars(Of("read", read_data)) /\ WF_memReadVars(Of("read", read_tag_gen_step))
  /\ WF_memReadVars(Of("read", complete_burst0))
  /\ WF_memReadVars(Of("read", complete_burst1a))
  /\ WF_memReadVars(Of("read", complete_burst1b))
  /\ WF_memReadVars(Of("read", complete_burst2))

WritesFair ==
  /\ WF_memWriteVars(Of("write", write_dmaError))
  /\ WF_memWriteVars(Of("write", write_checkMmuResp))
  /\ WF_memWriteVars(Of("write", writeReq_get))
  /\ \A c \in Client : WF_memWriteVars(Of("write", clientdata(c)))
  /\ WF_memWriteVars(Of("write", memdata))
  /\ WF_memWriteVars(Of("write", writeData_get))
  /\ WF_memWriteVars(Of("write", \E i \in DOMAIN bursts : writeDone_put(i)))
  /\ WF_memWriteVars(Of("write", write_tag_gen_step))
  /\ WF_memWriteVars(Of("write", writeDoneComp0))
  /\ WF_memWriteVars(Of("write", writeDoneComp1))

RingFairness ==
  /\ WF_svars(Of("ring", Ring!WriterStep)) /\ WF_svars(Of("ring", Ring!setSglId))
  /\ WF_svars(Of("ring", Ring!Rules))

OfRings(A, A8) == Of("commands", A) \/ Of("commands8", A8)

CommandsFairness ==
  /\ WF_cvars(OfRings(Commands!Program, Commands8!Program))
  /\ WF_cvars(OfRings(Commands!setCmdFirst, Commands8!setCmdFirst))
  /\ WF_cvars(OfRings(Commands!setStatusLast, Commands8!setStatusLast))
  /\ WF_cvars(OfRings(Commands!get, Commands8!get))
  /\ WF_cvars(OfRings(Commands!cmdFetch, Commands8!cmdFetch))
  /\ WF_cvars(OfRings(Commands!cmdDispatch, Commands8!cmdDispatch))
  /\ WF_cvars(OfRings(Commands!finishCmdReads, Commands8!finishCmdReads))
  /\ WF_cvars(OfRings(Commands!dispatch_rest, Commands8!dispatch_rest))
  /\ WF_cvars(OfRings(Commands!copyStart, Commands8!copyStart))
  /\ WF_cvars(OfRings(Commands!copyFinish, Commands8!copyFinish))
  /\ WF_cvars(OfRings(Commands!responseArbiter, Commands8!responseArbiter))
  /\ WF_cvars(OfRings(Commands!status_write, Commands8!status_write))

MCSpec ==
  /\ MCInit /\ [][MCNext]_<<subject, vars, serverVars, readVars, writeVars, svars, cvars>>
  /\ TagFairness /\ ReadsFair /\ WritesFair /\ RingFairness
  /\ CommandsFairness

\* The properties of SharedRequestPortal and CommandRing.  Those of the
\* last that depend on its constants are about the behaviours that have them.
TypesOK == TypeOK /\ ReadTypeOK /\ Ring!TypeOK

\* A returned tag is reported complete, every read is answered and every write reported
\* done (mkTagGen, mkMemReadInternal, mkMemWriteInternal).
TransfersEnd ==
  /\ ReturnedTagCompletes
  /\ []<>(subject = "read" => AllAnswered) /\ []<>(subject = "write" => AllTold)

\* The methods of the design get the messages of the ring in order, none of them left
\* out (mkSharedMemoryRequestPortal).
MessagesRight == Ring!InOrder /\ Ring!NothingDropped

WholeCommands == Commands!WholeCommands

\* The completions in use are those of the commands and statuses that are on their way,
\* and the program's assertions on them hold (testring.cpp, Ring.bsv).
CompletionsExact ==
  /\ subject = "commands" => Commands!CompletionsExact
  /\ subject = "commands8" => Commands8!CompletionsExact
  /\ Commands!NoAssertion

\* Both rings are emptied: every message is delivered and every command completed.
RingsDrain ==
  /\ Ring!Delivered
  /\ []<>(subject \in {"commands", "commands8"} => pc = "done")

=============================================================================
