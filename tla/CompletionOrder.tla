---------------------------- MODULE CompletionOrder ----------------------------
(***************************************************************************)
(* What a client of mkTagGen (bsv/CompletionBuffer.bsv) relies on, with no *)
(* BRAM or polling: tags are issued in rotation and never while they are   *)
(* out, come back in any order, and are reported done in the order of      *)
(* issue.                                                                  *)
(***************************************************************************)
EXTENDS Integers, Sequences, Functions

CONSTANTS
  NumTags,    \* number of tags
  FifoDepth   \* how many completions may wait for the client

VARIABLES
  next,      \* the tag to issue next
  issued,    \* tags issued and not yet reported done, oldest first
  returned,  \* those of them the holder has given back
  done       \* tags reported done, not yet taken by the client

vars == <<next, issued, returned, done>>

Tag == 0 .. NumTags - 1

Init ==
  /\ next = 0
  /\ issued = << >>
  /\ returned = {}
  /\ done = << >>

\* One tag always stays behind, so that a full ring differs from an empty one.
Get ==
  /\ Len(issued) < NumTags - 1
  /\ next \notin Range(issued)
  /\ next' = (next + 1) % NumTags
  /\ issued' = Append(issued, next)
  /\ UNCHANGED <<returned, done>>

Return(t) ==
  /\ t \in Range(issued) \ returned
  /\ returned' = returned \union {t}
  /\ UNCHANGED <<next, issued, done>>

Finish ==
  /\ issued # << >>
  /\ Head(issued) \in returned
  /\ Len(done) < FifoDepth
  /\ issued' = Tail(issued)
  /\ returned' = returned \ {Head(issued)}
  /\ done' = Append(done, Head(issued))
  /\ UNCHANGED next

Take ==
  /\ done # << >>
  /\ done' = Tail(done)
  /\ UNCHANGED <<next, issued, returned>>

Next ==
  \/ Get
  \/ \E t \in Tag : Return(t)
  \/ Finish
  \/ Take

Spec == Init /\ [][Next]_vars

=============================================================================
