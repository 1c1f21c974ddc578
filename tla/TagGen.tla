-------------------------------- MODULE TagGen --------------------------------
(***************************************************************************)
(* bsv/CompletionBuffer.bsv, mkTagGen: hands out tags in ring order, takes *)
(* them back in any order, and completes them in the order of issue.       *)
(*                                                                         *)
(* Every BSV rule and every interface method is one atomic action, which   *)
(* is the semantics bsc implements.  Bit#(tsz) pointers wrap at NumTags,   *)
(* which is a power of two in every instance (MemServerTags,               *)
(* MaxNumSGLists).  comp_state is a unary counter (1 | (x << 1), x >> 1)   *)
(* and is represented by the number of its ones.                           *)
(*                                                                         *)
(* The BRAM server and the FIFOs belong to the BSV library: a BRAM port    *)
(* takes a request only while fewer than outFIFODepth of its responses are *)
(* waiting, and a read answers with the word present when it was accepted. *)
(***************************************************************************)
EXTENDS Integers, Sequences, FiniteSets, Functions

CONSTANTS
  NumTags,    \* numTags, the size of the ring
  FifoDepth   \* depth of mkFIFO

ASSUME NumTagsAssumption == NumTags \in Nat /\ NumTags >= 2
ASSUME FifoDepthAssumption == FifoDepth \in Nat \ {0}

VARIABLES
  tags,        \* BRAM of Bool: the tags whose word is True, issued and not returned
  head_ptr,    \* next tag to issue
  tail_ptr,    \* oldest tag not yet completed
  inited,      \* the BRAM has been cleared
  comp_state,  \* number of returned tags not yet completed
  comp_fifo,   \* completed tags, not yet taken
  retFifo,     \* tags given to returnTag, not yet written to the BRAM
  portB,       \* read responses of portB, not yet taken
  held         \* ghost: tags issued and not yet given to returnTag

vars == <<tags, head_ptr, tail_ptr, inited, comp_state, comp_fifo, retFifo,
          portB, held>>

Tag == 0 .. NumTags - 1

\* Mutant: wraps one step late.
SuccLate(p) == IF p = NumTags THEN 0 ELSE p + 1

\* The successor of a Bit#(tsz) pointer.
Succ(p) == IF p = NumTags - 1 THEN 0 ELSE p + 1

\* The number of steps from pointer p forward to pointer q.
Dist(p, q) == IF p <= q THEN q - p ELSE q - p + NumTags

\* Mutant: the library's default, latency + 2.
OutFIFODepthDefault == 3

\* cfg.outFIFODepth of the tags BRAM.
OutFIFODepth == 1

\* portB accepts a request (BSV library).
PortBReady == Len(portB) < OutFIFODepth

\* The word a read of tag t answers with: True is "out", False is "back".
Poll(t) == IF t \in tags THEN "out" ELSE "back"

Init ==
  /\ tags \in SUBSET Tag
  /\ head_ptr = 0
  /\ tail_ptr = 0
  /\ inited = FALSE
  /\ comp_state = 0
  /\ comp_fifo = << >>
  /\ retFifo = << >>
  /\ portB = << >>
  /\ held = {}

-----------------------------------------------------------------------------
\* Rules.

init ==
  /\ ~inited
  /\ tags' = tags \ {head_ptr}
  /\ head_ptr' = Succ(head_ptr)
  /\ inited' = (Succ(head_ptr) = 0)
  /\ UNCHANGED <<tail_ptr, comp_state, comp_fifo, retFifo, portB, held>>

complete_rule0 ==
  /\ comp_state # 0
  /\ PortBReady
  /\ portB' = Append(portB, Poll(tail_ptr))
  /\ UNCHANGED <<tags, head_ptr, tail_ptr, inited, comp_state, comp_fifo,
                 retFifo, held>>

\* The rule body when the tag at tail_ptr is still out.
complete_rule1_wait ==
  /\ comp_state # 0
  /\ portB # << >>
  /\ Head(portB) = "out"
  /\ portB' = Tail(portB)
  /\ UNCHANGED <<tags, head_ptr, tail_ptr, inited, comp_state, comp_fifo,
                 retFifo, held>>

\* Mutant: reports the pointer after the increment.
complete_rule1_done_NewTail ==
  /\ comp_state # 0
  /\ portB # << >>
  /\ Head(portB) = "back"
  /\ Len(comp_fifo) < FifoDepth
  /\ portB' = Tail(portB)
  /\ tail_ptr' = Succ(tail_ptr)
  /\ comp_state' = comp_state - 1
  /\ comp_fifo' = Append(comp_fifo, Succ(tail_ptr))
  /\ UNCHANGED <<tags, head_ptr, inited, retFifo, held>>

\* The rule body when it has been returned.
complete_rule1_done ==
  /\ comp_state # 0
  /\ portB # << >>
  /\ Head(portB) = "back"
  /\ Len(comp_fifo) < FifoDepth
  /\ portB' = Tail(portB)
  /\ tail_ptr' = Succ(tail_ptr)
  /\ comp_state' = comp_state - 1
  /\ comp_fifo' = Append(comp_fifo, tail_ptr)
  /\ UNCHANGED <<tags, head_ptr, inited, retFifo, held>>

complete_rule1 == complete_rule1_wait \/ complete_rule1_done

\* Mutant: sets the low bit without shifting.
ret_NoShift ==
  /\ retFifo # << >>
  /\ PortBReady
  /\ tags' = tags \ {Head(retFifo)}
  /\ retFifo' = Tail(retFifo)
  /\ comp_state' = IF comp_state = 0 THEN 1 ELSE comp_state
  /\ UNCHANGED <<head_ptr, tail_ptr, inited, comp_fifo, portB, held>>

\* comp_state is NumTags bits wide: a shift drops what does not fit.
ret ==
  /\ retFifo # << >>
  /\ PortBReady
  /\ tags' = tags \ {Head(retFifo)}
  /\ retFifo' = Tail(retFifo)
  /\ comp_state' = IF comp_state < NumTags THEN comp_state + 1 ELSE NumTags
  /\ UNCHANGED <<head_ptr, tail_ptr, inited, comp_fifo, portB, held>>

-----------------------------------------------------------------------------
\* Methods.

CanGet == inited /\ Succ(head_ptr) # tail_ptr

getTag ==
  /\ CanGet
  /\ tags' = tags \union {head_ptr}
  /\ head_ptr' = Succ(head_ptr)
  /\ held' = held \union {head_ptr}
  /\ UNCHANGED <<tail_ptr, inited, comp_state, comp_fifo, retFifo, portB>>

returnTag(t) ==
  /\ inited
  /\ Len(retFifo) < FifoDepth
  /\ retFifo' = Append(retFifo, t)
  /\ held' = held \ {t}
  /\ UNCHANGED <<tags, head_ptr, tail_ptr, inited, comp_state, comp_fifo, portB>>

complete ==
  /\ comp_fifo # << >>
  /\ comp_fifo' = Tail(comp_fifo)
  /\ UNCHANGED <<tags, head_ptr, tail_ptr, inited, comp_state, retFifo, portB,
                 held>>

-----------------------------------------------------------------------------
\* A client returns each tag it holds once, in any order.

Rules == init \/ complete_rule0 \/ complete_rule1 \/ ret

Next ==
  \/ Rules
  \/ getTag
  \/ \E t \in held : returnTag(t)
  \/ complete

Spec == Init /\ [][Next]_vars

\* Hardware rules fire when they can; the client returns every tag and takes
\* every completion.  ret and complete_rule0 compete for portB, and the schedule
\* lets ret in again and again.
Fairness ==
  /\ WF_vars(init)
  /\ WF_vars(complete_rule0)
  /\ WF_vars(complete_rule1)
  /\ SF_vars(ret)
  /\ WF_vars(complete)
  /\ \A t \in Tag : WF_vars(t \in held /\ returnTag(t))

FairSpec == Spec /\ Fairness

-----------------------------------------------------------------------------
\* The tags between tail_ptr and head_ptr: issued and not yet completed.
Window == {t \in Tag : inited /\ Dist(tail_ptr, t) < Dist(tail_ptr, head_ptr)}

\* Tags given back by the client, whether or not ret has written them.
Returned == Window \ held

\* Tags whose return has reached the BRAM.
Written == Window \ tags

TypeOK ==
  /\ tags \in SUBSET Tag
  /\ head_ptr \in Tag
  /\ tail_ptr \in Tag
  /\ inited \in BOOLEAN
  /\ comp_state \in 0 .. NumTags
  /\ comp_fifo \in Seq(Tag)
  /\ Len(comp_fifo) <= FifoDepth
  /\ retFifo \in Seq(Tag)
  /\ Len(retFifo) <= FifoDepth
  /\ portB \in Seq({"out", "back"})
  /\ Len(portB) <= OutFIFODepth
  /\ held \in SUBSET Tag

\* A tag enters comp_fifo only once its holder has returned it and ret has
\* written the return (complete_rule1, l.63-66): a polled value that has gone
\* stale never completes a tag that is still out.
CompleteOnlyReturned ==
  [][\A t \in Tag : comp_fifo' = Append(comp_fifo, t)
        => t \notin held /\ t \notin Range(retFifo)]_vars

\* comp_state is exactly the number of returns written and not yet completed,
\* and its NumTags bits never shift a return out (l.53, l.75).
CompStateExact ==
  /\ comp_state = Cardinality(Written)
  /\ comp_state < NumTags

\* portA and portB never touch the same BRAM word in one cycle, where the
\* outcome would be undefined: getTag writes head_ptr while complete_rule0
\* reads tail_ptr or ret writes a returned tag (l.58, l.74, l.85).
PortsDisjoint ==
  CanGet =>
    /\ comp_state # 0 => head_ptr # tail_ptr
    /\ head_ptr \notin Range(retFifo)

\* The inductive invariant of the proofs: until init is done nothing has
\* happened; afterwards the tags that are held or on their way back are the
\* window tags the BRAM marks, no tag is on its way back twice, comp_state
\* counts the rest of the window, and a waiting poll result is about the tag
\* now at tail_ptr and says "back" only if that tag is back (l.47-97).
IInv ==
  /\ TypeOK
  /\ ~inited => /\ tail_ptr = 0 /\ comp_state = 0 /\ comp_fifo = << >>
                /\ retFifo = << >> /\ portB = << >> /\ held = {}
  /\ held \subseteq Window
  /\ \A i \in DOMAIN retFifo : retFifo[i] \in Window \ held
  /\ \A i, j \in DOMAIN retFifo : retFifo[i] = retFifo[j] => i = j
  /\ \A t \in Window : t \in tags <=> t \in held \/ t \in Range(retFifo)
  /\ comp_state = Cardinality(Written)
  /\ portB # << >> => comp_state # 0 /\ (tail_ptr \in tags => portB[1] = "out")

\* Once every tag that was issued before it has been returned as well, a
\* returned tag is completed: polling tail_ptr neither loses a return nor
\* starves the rule that records it (l.57-76).
ReturnedTagCompletes == \A t \in Tag : []<>(t \notin Returned)

-----------------------------------------------------------------------------
\* The window in the order of issue.
Outstanding == IF inited THEN Dist(tail_ptr, head_ptr) ELSE 0
Issued == [i \in 1 .. Outstanding |-> (tail_ptr + i - 1) % NumTags]

\* The promise to the client: tags are issued in rotation and complete in the
\* order they were issued.
CB == INSTANCE CompletionOrder WITH
        next <- IF inited THEN head_ptr ELSE 0,
        issued <- Issued,
        returned <- Returned,
        done <- comp_fifo

\* mkTagGen implements the in-order completion buffer of CompletionOrder.
ImplementsCompletionOrder == CB!Spec

=============================================================================
