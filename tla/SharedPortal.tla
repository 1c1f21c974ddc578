----------------------------- MODULE SharedPortal -----------------------------
(***************************************************************************)
(* A portal in shared memory between two programs: the ring of SharedRing  *)
(* read by event_shared (cpp/portalShared.c), which the receiving          *)
(* program's poller calls.                                                 *)
(***************************************************************************)
EXTENDS SharedRing

VARIABLES
  rpc,   \* where the reader is in event_shared
  hdr,   \* the header it read
  ng,    \* messages handled so far
  got    \* got[n]: the words the n-th call of the handler read

readerVars == <<rpc, hdr, ng, got>>
vars == <<ringVars, readerVars>>

Init ==
  /\ RingInit
  /\ rpc = "idle"
  /\ hdr = Zero
  /\ ng = 0
  /\ got = [n \in 1 .. MaxMsg |-> << >>]

\* hdr & 0xffff, for a header; a word that is none has no say in it.
HdrWords(h) == IF h \in (1 .. MaxMsg) \X {0} THEN words[h[1]] ELSE 1

\* event_shared finds a message and reads its header.
event_shared ==
  /\ rpc = "idle"
  /\ rd # wr
  /\ hdr' = mem[rd]
  /\ rpc' = "handler"
  /\ UNCHANGED <<ringVars, ng, got>>

\* pint->handler reads the arguments from mapchannel_sharedInd on; padding has
\* no handler.
handler ==
  /\ rpc = "handler"
  /\ IF hdr = Pad \/ ng = MaxMsg
     THEN UNCHANGED <<ng, got>>
     ELSE /\ ng' = ng + 1
          /\ got' = [got EXCEPT ![ng + 1] =
                       [k \in 0 .. HdrWords(hdr) - 1 |->
                          IF k = 0 THEN hdr ELSE mem[rd + k]]]
  /\ rpc' = "advance"
  /\ UNCHANGED <<ringVars, hdr>>

\* Mutant: the reader never wraps.
advance_Straight ==
  /\ rpc = "advance"
  /\ rd' = rd + Even(HdrWords(hdr))
  /\ rpc' = "idle"
  /\ UNCHANGED <<mem, writerVars, hdr, ng, got>>

\* The new SHARED_READ.
advance ==
  /\ rpc = "advance"
  /\ rd' = increment_shared(rd + Even(HdrWords(hdr)))
  /\ rpc' = "idle"
  /\ UNCHANGED <<mem, writerVars, hdr, ng, got>>

Reader == event_shared \/ handler \/ advance

WriterStep == Writer /\ UNCHANGED readerVars

Next ==
  \/ \E l \in Lens : call(l) /\ UNCHANGED readerVars
  \/ WriterStep
  \/ Reader

Spec == Init /\ [][Next]_vars

\* The writer is scheduled and the reader's poller calls event_shared again and
\* again (every 100 ms in simulation, poller.cpp l.110).
FairSpec == Spec /\ WF_vars(WriterStep) /\ WF_vars(Reader)

-----------------------------------------------------------------------------
TypeOK ==
  /\ RingTypeOK
  /\ rpc \in {"idle", "handler", "advance"}
  /\ hdr \in Nat \X Nat
  /\ ng \in 0 .. MaxMsg

\* The number of the message at the reader's offset, and the messages sent that
\* the reader has not passed.
First == IF rpc = "advance" THEN ng ELSE ng + 1
Unread == First .. ns

\* The writer stays inside the memory and never touches a word of a message that
\* is still to be read, nor the padding behind it: neither with a message nor
\* with the zero header (busywait_shared l.77-87, send_shared l.104-112).
NoOverwrite ==
  /\ wpc \in {"marshall", "header", "publish"} =>
       /\ wr + Even(wlen) < Limit
       /\ \A n \in Unread :
            wr + Even(wlen) <= at[n] \/ at[n] + Even(words[n]) <= wr
  /\ wpc = "terminate" =>
       \A n \in Unread : wr < at[n] \/ at[n] + Even(words[n]) <= wr

-----------------------------------------------------------------------------
\* The inductive invariant of the proofs.

\* Where the messages are: each follows the one before it or starts the ring
\* again; those before the reader's offset come after all the others.
Layout ==
  /\ at[ns + 1] = wr
  /\ First \in 1 .. ns + 1
  /\ at[First] = rd
  /\ \A n \in Unread : words[n] \in Lens
  /\ \A n \in First .. ns + 1 : at[n] + reqwords < Limit
  /\ \A n \in Unread : at[n + 1] = increment_shared(at[n] + Even(words[n]))
  /\ \A i, j \in First .. ns + 1 :
       i < j => /\ at[i] < rd => at[j] < rd
                /\ (at[i] < rd <=> at[j] < rd) => at[i] + Even(words[i]) <= at[j]

\* What the memory holds: the unread messages, and the part already written of
\* the next one.
Contents ==
  /\ \A n \in Unread :
       /\ mem[at[n]] = <<n, 0>>
       /\ \A k \in 1 .. words[n] - 1 : mem[at[n] + k] = <<n, k>>
  /\ wpc \in {"header", "publish"} =>
       \A k \in 1 .. wlen - 1 : mem[wr + k] = <<ns + 1, k>>
  /\ wpc = "publish" => mem[wr] = <<ns + 1, 0>> /\ words[ns + 1] = wlen

\* The ring's inductive invariant: the layout and contents above, the room
\* busywait_shared saw is still there, and the reader holds the header of the
\* message at its offset (busywait_shared, send_shared and event_shared).
RingInv ==
  /\ TypeOK
  /\ wpc # "idle" => wlen \in Lens
  /\ wpc \in {"busywait", "marshall", "header", "publish"} => ns < MaxMsg
  /\ wpc \in {"marshall", "header", "publish"} => EnqReady(wr, rd)
  /\ rpc # "idle" => First <= ns /\ hdr = <<First, 0>>
  /\ Layout
  /\ Contents

-----------------------------------------------------------------------------
\* The channel whose sent and handled messages are those of the ring.
Channel == INSTANCE SharedChannel

\* The ring is a channel: messages are handled whole, once and in the order in
\* which send_shared published them (event_shared l.116-124).
ImplementsChannel == Channel!Spec

\* Every call returns: the room busywait_shared waits for comes (l.73-88).
CallReturns == []<>(wpc = "idle")

=============================================================================
