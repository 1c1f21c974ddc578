------------------------- MODULE SharedRequestPortal -------------------------
(***************************************************************************)
(* A portal in shared memory from a program to the hardware: the ring of   *)
(* SharedRing read by mkSharedMemoryRequestPortal                          *)
(* (lib/bsv/SharedMemoryPortal.bsv).  The hardware reads the offsets, then *)
(* all words up to the writer's offset or up to the end of the memory, and *)
(* takes the messages out of them.                                         *)
(*                                                                         *)
(* The read engine answers its commands in order, two words a beat, and    *)
(* reads the memory no earlier than the command.  Both receiveReqHeadTail  *)
(* and demuxwords take beats: the rule that stands first in the source     *)
(* wins.                                                                   *)
(***************************************************************************)
EXTENDS SharedRing, SequencesExt

CONSTANT
  MifoDepth   \* bound: words in readMifo, at least two; the beats of the read
              \* engine are whole, so Limit is even

VARIABLES
  readyReg, reqState, reqLimitReg, reqHeadReg, reqTailReg,
  wordCountReg, messageWordsReg, methodIdReg,
  cmds,      \* read commands under way: <<next word, words left>>
  readMifo,  \* words of the ring not yet taken apart
  out        \* what portal.requests got: <<method, word>>

regVars == <<readyReg, reqLimitReg, reqHeadReg, reqTailReg>>
msgVars == <<wordCountReg, messageWordsReg, methodIdReg>>
readerVars == <<regVars, msgVars, reqState, cmds, readMifo, out>>
vars == <<ringVars, readerVars>>

Init ==
  /\ RingInit
  /\ readyReg = FALSE
  /\ reqState = "Idle"
  /\ reqLimitReg = 0
  /\ reqHeadReg = 0
  /\ reqTailReg = 0
  /\ wordCountReg = 0
  /\ messageWordsReg = 0
  /\ methodIdReg = 0
  /\ cmds = << >>
  /\ readMifo = << >>
  /\ out = << >>

\* Half-word registers count down modulo 2^16.
Half == 65536
Dec(n) == (n - 1) % Half

\* The method of the padding header, 0xffff.
NoMethod == -1

\* A beat leaves the read engine.
TakeBeat ==
  LET c == Head(cmds) IN
  cmds' = IF c[2] > 2 THEN <<<<c[1] + 2, c[2] - 2>>>> \o Tail(cmds) ELSE Tail(cmds)

\* The values word i of the memory may have as a number: a word of the ring
\* may be anything.
Value(i) ==
  CASE i = 0 -> {Limit}
    [] i = 1 -> {wr}
    [] i = 2 -> {rd}
    [] i = 3 -> {0}
    [] OTHER -> Addr

\* The software passes on the memory's identifier.
setSglId ==
  /\ ~readyReg
  /\ readyReg' = TRUE
  /\ UNCHANGED <<ringVars, reqState, reqLimitReg, reqHeadReg, reqTailReg, msgVars,
                 cmds, readMifo, out>>

updateReqHeadTail ==
  /\ reqState = "Idle"
  /\ readyReg
  /\ cmds' = Append(cmds, <<0, 4>>)
  /\ reqState' = "HeadRequested"
  /\ UNCHANGED <<ringVars, regVars, msgVars, readMifo, out>>

receiveReqHead ==
  /\ reqState = "HeadRequested"
  /\ cmds # << >>
  /\ reqLimitReg' \in Value(Head(cmds)[1])
  /\ reqHeadReg' \in Value(Head(cmds)[1] + 1)
  /\ reqState' = "TailRequested"
  /\ TakeBeat
  /\ UNCHANGED <<ringVars, readyReg, reqTailReg, msgVars, readMifo, out>>

\* The tail is read once and kept by the hardware from then on.
receiveReqTail ==
  /\ reqState = "TailRequested"
  /\ cmds # << >>
  /\ IF reqTailReg = 0 THEN reqTailReg' \in Value(Head(cmds)[1])
                       ELSE UNCHANGED reqTailReg
  /\ reqState' = IF reqTailReg' # reqHeadReg THEN "RequestMessage" ELSE "Idle"
  /\ TakeBeat
  /\ UNCHANGED <<ringVars, readyReg, reqLimitReg, reqHeadReg, msgVars, readMifo, out>>

receiveReqHeadTail == receiveReqHead \/ receiveReqTail

\* Mutant: reads a wrapped ring to its end, but goes on at the writer's offset.
requestMessage_Unwrapped ==
  /\ reqState = "RequestMessage"
  /\ wordCountReg' = ((IF reqHeadReg < reqTailReg THEN reqLimitReg ELSE reqHeadReg)
                        - reqTailReg) % Half
  /\ reqTailReg' = reqHeadReg
  /\ cmds' = Append(cmds, <<reqTailReg, wordCountReg'>>)
  /\ reqState' = "MessageHeaderRequested"
  /\ UNCHANGED <<ringVars, readyReg, reqLimitReg, reqHeadReg, messageWordsReg,
                 methodIdReg, readMifo, out>>

\* Up to the writer's offset, or to the end of the memory when it has wrapped.
requestMessage ==
  /\ reqState = "RequestMessage"
  /\ IF reqHeadReg < reqTailReg
     THEN /\ wordCountReg' = (reqLimitReg - reqTailReg) % Half
          /\ reqTailReg' = START
     ELSE /\ wordCountReg' = (reqHeadReg - reqTailReg) % Half
          /\ reqTailReg' = reqHeadReg
  /\ cmds' = Append(cmds, <<reqTailReg, wordCountReg'>>)
  /\ reqState' = "MessageHeaderRequested"
  /\ UNCHANGED <<ringVars, readyReg, reqLimitReg, reqHeadReg, messageWordsReg,
                 methodIdReg, readMifo, out>>

demuxwords ==
  /\ reqState \notin {"HeadRequested", "TailRequested"}
  /\ cmds # << >>
  /\ Len(readMifo) + 2 <= MifoDepth
  /\ LET i == Head(cmds)[1] IN readMifo' = readMifo \o <<mem[i], mem[i + 1]>>
  /\ TakeBeat
  /\ UNCHANGED <<ringVars, regVars, msgVars, reqState, out>>

\* The method and the length in a word taken for a header.  An argument may
\* read as any header, among them one whose method is that of the padding.
Header(w) ==
  CASE w = Zero -> {<<0, 0>>}
    [] w = Pad -> {<<NoMethod, 1>>}
    [] w[2] = 0 /\ w # Zero -> {<<w[1], words[w[1]]>>}
    [] OTHER -> {0, NoMethod} \X (0 .. ReqSize)

\* Mutant: takes a message at the end of what was read for one cut short.
AfterHeader_Strict(hdr) ==
  IF hdr = <<0, 0>> THEN IF wordCountReg = 1 THEN "UpdateTail" ELSE "Drain"
  ELSE IF wordCountReg <= hdr[2] + 1 THEN "UpdateTail"
  ELSE IF hdr[2] = 1 THEN "MessageHeaderRequested"
  ELSE "MessageRequested"

AfterHeader(hdr) ==
  IF hdr = <<0, 0>> THEN IF wordCountReg = 1 THEN "UpdateTail" ELSE "Drain"
  ELSE IF wordCountReg <= hdr[2] THEN "UpdateTail"
  ELSE IF hdr[2] = 1 THEN "MessageHeaderRequested"
  ELSE "MessageRequested"

\* Mutant: counts the header among the words still to come.
receiveMessageHeader_Counted ==
  /\ reqState = "MessageHeaderRequested"
  /\ readMifo # << >>
  /\ readMifo' = Tail(readMifo)
  /\ wordCountReg' = Dec(wordCountReg)
  /\ \E hdr \in Header(Head(readMifo)) :
       /\ methodIdReg' = hdr[1]
       /\ messageWordsReg' = hdr[2]
       /\ reqState' = AfterHeader(hdr)
  /\ UNCHANGED <<ringVars, regVars, cmds, out>>

receiveMessageHeader ==
  /\ reqState = "MessageHeaderRequested"
  /\ readMifo # << >>
  /\ readMifo' = Tail(readMifo)
  /\ wordCountReg' = Dec(wordCountReg)
  /\ \E hdr \in Header(Head(readMifo)) :
       /\ methodIdReg' = hdr[1]
       /\ messageWordsReg' = Dec(hdr[2])
       /\ reqState' = AfterHeader(hdr)
  /\ UNCHANGED <<ringVars, regVars, cmds, out>>

\* Mutant: stops one word early.
drain_Early ==
  /\ reqState = "Drain"
  /\ readMifo # << >>
  /\ readMifo' = Tail(readMifo)
  /\ reqState' = IF wordCountReg = 2 THEN "UpdateTail" ELSE "Drain"
  /\ wordCountReg' = Dec(wordCountReg)
  /\ UNCHANGED <<ringVars, regVars, messageWordsReg, methodIdReg, cmds, out>>

\* Behind a zero header.
drain ==
  /\ reqState = "Drain"
  /\ readMifo # << >>
  /\ readMifo' = Tail(readMifo)
  /\ reqState' = IF wordCountReg = 1 THEN "UpdateTail" ELSE "Drain"
  /\ wordCountReg' = Dec(wordCountReg)
  /\ UNCHANGED <<ringVars, regVars, messageWordsReg, methodIdReg, cmds, out>>

receiveMessage ==
  /\ reqState = "MessageRequested"
  /\ readMifo # << >>
  /\ readMifo' = Tail(readMifo)
  /\ out' = IF methodIdReg = NoMethod THEN out
            ELSE Append(out, <<methodIdReg, Head(readMifo)>>)
  /\ messageWordsReg' = Dec(messageWordsReg)
  /\ wordCountReg' = Dec(wordCountReg)
  /\ reqState' = IF messageWordsReg = 1 THEN "MessageHeaderRequested"
                 ELSE IF wordCountReg <= 1 THEN "UpdateTail" ELSE "MessageRequested"
  /\ UNCHANGED <<ringVars, regVars, methodIdReg, cmds>>

updateTail ==
  /\ reqState = "UpdateTail"
  /\ reqState' = "Waiting"
  /\ UNCHANGED <<ringVars, regVars, msgVars, cmds, readMifo, out>>

\* The write engine has written the new SHARED_READ.
waiting ==
  /\ reqState = "Waiting"
  /\ rd' = reqTailReg
  /\ reqState' = "Idle"
  /\ UNCHANGED <<mem, writerVars, regVars, msgVars, cmds, readMifo, out>>

Rules ==
  \/ updateReqHeadTail \/ receiveReqHeadTail \/ requestMessage \/ demuxwords
  \/ receiveMessageHeader \/ drain \/ receiveMessage \/ updateTail \/ waiting

WriterStep == Writer /\ UNCHANGED readerVars

Next ==
  \/ \E l \in Lens : call(l) /\ UNCHANGED readerVars
  \/ WriterStep
  \/ setSglId
  \/ Rules

Spec == Init /\ [][Next]_vars

\* The program runs, and so does the clock: a rule that can fire fires.
FairSpec == Spec /\ WF_vars(WriterStep) /\ WF_vars(setSglId) /\ WF_vars(Rules)

-----------------------------------------------------------------------------
TypeOK ==
  /\ RingTypeOK
  /\ reqState \in {"Idle", "HeadRequested", "TailRequested", "RequestMessage",
                   "MessageHeaderRequested", "MessageRequested", "Drain",
                   "UpdateTail", "Waiting"}
  /\ reqLimitReg \in 0 .. Limit
  /\ reqHeadReg \in Addr
  /\ reqTailReg \in Addr
  /\ wordCountReg \in 0 .. Limit
  /\ Len(readMifo) <= MifoDepth
  /\ Len(cmds) <= 1

\* What the hardware should get for the first m messages.
Sent(m) ==
  FlattenSeq([n \in 1 .. m |-> [k \in 1 .. words[n] - 1 |-> <<n, <<n, k>>>>]])

\* The hardware gets the words that were sent, in order, each under the method of
\* its message, and no others (receiveMessageHeader and receiveMessage).
InOrder == IsPrefix(out, Sent(ns))

\* The words of a message are given back to the writer (updateTail) only when
\* all of its arguments have been delivered.
NothingDropped ==
  reqState = "Waiting" => \E m \in 0 .. ns : at[m + 1] = reqTailReg /\ out = Sent(m)

\* Every message sent is delivered: "read the head and tail pointers, if they
\* are different, then read a request" (SharedMemoryPortal.bsv:59).  Their number
\* is bounded, so the hardware catches up with the program.
Delivered == []<>(Len(out) = Len(Sent(ns)))

=============================================================================
