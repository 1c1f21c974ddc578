------------------------------ MODULE SharedRing ------------------------------
(***************************************************************************)
(* The sending side of a portal in shared memory (cpp/portalShared.c): a   *)
(* ring of words with the offsets of the next message to write and the     *)
(* next one to read, and the calls a generated proxy method makes to put a *)
(* message in it.  SharedPortal adds the software that reads the ring,     *)
(* SharedRequestPortal the hardware that does.                             *)
(*                                                                         *)
(* The k-th word of message n is <<n, k>>; word 0 is its header, which     *)
(* holds the number of words of the message.                               *)
(***************************************************************************)
EXTENDS Integers

CONSTANTS
  Limit,    \* words in the shared memory, map_base[SHARED_LIMIT]
  ReqSize,  \* words of the longest message, its header included (reqsize / 4)
  Lens,     \* words of the messages of the interface, headers included
  MaxMsg    \* bound: messages sent

\* SHARED_START: the first word of the ring.
START == 4

\* (n + 1) & 0xfffe
Even(n) == IF n % 2 = 0 THEN n ELSE n + 1

\* reqwords in busywait_shared and increment_shared.
reqwords == Even(ReqSize + 1)

ASSUME ReqSizeAssumption == ReqSize \in Nat \ {0}
ASSUME LensAssumption == Lens \subseteq 1 .. ReqSize
\* The memory is large enough for busywait_shared to let a message into the
\* empty ring.
ASSUME LimitAssumption == Limit \in Nat /\ Limit > 2 * reqwords + 4
ASSUME MaxMsgAssumption == MaxMsg \in Nat

VARIABLES
  mem,    \* the words of the shared memory
  wr,     \* map_base[SHARED_WRITE]
  rd,     \* map_base[SHARED_READ]
  wpc,    \* where the writer is in the proxy method
  wlen,   \* words of the message it writes
  ns,     \* messages sent so far
  words,  \* words[n]: length of message n
  at      \* at[n]: where message n starts (for the properties only)

ringVars == <<mem, wr, rd, wpc, wlen, ns, words, at>>
writerVars == <<wr, wpc, wlen, ns, words, at>>

Addr == 0 .. Limit - 1
Zero == <<0, 0>>
Pad == <<0, 1>>   \* the header 0xffff0001

\* init_shared.
RingInit ==
  /\ mem = [i \in Addr |-> Zero]
  /\ wr = START
  /\ rd = START
  /\ wpc = "idle"
  /\ wlen = 0
  /\ ns = 0
  /\ words = [n \in 1 .. MaxMsg |-> 0]
  /\ at = [n \in 1 .. MaxMsg + 1 |-> START]

increment_shared(newp) == IF newp + reqwords >= Limit THEN START ELSE newp

\* Mutant: compares words with bytes.
EnqReady_Bytes(w, r) ==
  (IF w >= r THEN Limit - (w - r) - 4 ELSE r - w) > 2 * 4 * reqwords

\* Mutant: takes no account of the words skipped when the ring wraps.
EnqReady_NoWrap(w, r) ==
  (IF w >= r THEN Limit - (w - r) - 4 ELSE r - w) > reqwords

\* The test busywait_shared spins on.
EnqReady(w, r) ==
  (IF w >= r THEN Limit - (w - r) - 4 ELSE r - w) > 2 * reqwords

\* The application calls a method of the proxy.
call(l) ==
  /\ wpc = "idle"
  /\ ns < MaxMsg
  /\ wlen' = l
  /\ wpc' = "busywait"
  /\ UNCHANGED <<mem, wr, rd, ns, words, at>>

\* busywait_shared sees enough room.
busywait_shared ==
  /\ wpc = "busywait"
  /\ EnqReady(wr, rd)
  /\ wpc' = "marshall"
  /\ UNCHANGED <<mem, wr, rd, wlen, ns, words, at>>

\* p->item->write: the arguments, from mapchannel_sharedReq on.  A method
\* without arguments writes one word all the same.
marshall ==
  /\ wpc = "marshall"
  /\ mem' = [i \in Addr |->
               IF wr < i /\ (i < wr + wlen \/ i = wr + 1)
               THEN <<ns + 1, i - wr>> ELSE mem[i]]
  /\ wpc' = "header"
  /\ UNCHANGED <<wr, rd, wlen, ns, words, at>>

\* send_shared, the header and the padding.
send_header ==
  /\ wpc = "header"
  /\ mem' = [i \in Addr |->
               IF i = wr THEN <<ns + 1, 0>>
               ELSE IF i = wr + wlen /\ wlen % 2 = 1 THEN Pad ELSE mem[i]]
  /\ words' = [words EXCEPT ![ns + 1] = wlen]
  /\ wpc' = "publish"
  /\ UNCHANGED <<wr, rd, wlen, ns, at>>

\* send_shared, the new SHARED_WRITE.
send_publish ==
  /\ wpc = "publish"
  /\ wr' = increment_shared(wr + Even(wlen))
  /\ ns' = ns + 1
  /\ at' = [at EXCEPT ![ns + 2] = wr']
  /\ wpc' = "terminate"
  /\ UNCHANGED <<mem, rd, wlen, words>>

\* send_shared, the zero header after the message.
send_terminate ==
  /\ wpc = "terminate"
  /\ mem' = [mem EXCEPT ![wr] = Zero]
  /\ wpc' = "idle"
  /\ UNCHANGED <<wr, rd, wlen, ns, words, at>>

\* The steps of the proxy once it is called.
send_shared == send_header \/ send_publish \/ send_terminate
Writer == busywait_shared \/ marshall \/ send_shared

RingTypeOK ==
  /\ mem \in [Addr -> Nat \X Nat]
  /\ wr \in START .. Limit - 1
  /\ rd \in START .. Limit - 1
  /\ wpc \in {"idle", "busywait", "marshall", "header", "publish", "terminate"}
  /\ wlen \in Lens \union {0}
  /\ ns \in 0 .. MaxMsg
  /\ words \in [1 .. MaxMsg -> Lens \union {0}]
  /\ at \in [1 .. MaxMsg + 1 -> START .. Limit - 1]

=============================================================================
