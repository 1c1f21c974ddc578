---------------------------- MODULE SharedChannel ----------------------------
(***************************************************************************)
(* What a portal in shared memory promises: the messages sent are received *)
(* whole, each once, in the order they were sent.                          *)
(***************************************************************************)
EXTENDS Integers

CONSTANTS Lens, MaxMsg

VARIABLES
  words,  \* words[n]: length of message n
  ns,     \* messages sent
  ng,     \* messages received
  got     \* got[n]: the words of the n-th message received

vars == <<words, ns, ng, got>>

\* Message n, of l words.
Message(n, l) == [k \in 0 .. l - 1 |-> <<n, k>>]

Init ==
  /\ words = [n \in 1 .. MaxMsg |-> 0]
  /\ ns = 0
  /\ ng = 0
  /\ got = [n \in 1 .. MaxMsg |-> << >>]

\* The length of the next message is settled, then the message is sent.
Settle(l) ==
  /\ ns < MaxMsg
  /\ words' = [words EXCEPT ![ns + 1] = l]
  /\ UNCHANGED <<ns, ng, got>>

Send ==
  /\ ns < MaxMsg
  /\ ns' = ns + 1
  /\ UNCHANGED <<words, ng, got>>

Receive ==
  /\ ng < ns
  /\ ng' = ng + 1
  /\ got' = [got EXCEPT ![ng + 1] = Message(ng + 1, words[ng + 1])]
  /\ UNCHANGED <<words, ns>>

Next == (\E l \in Lens : Settle(l)) \/ Send \/ Receive

Spec == Init /\ [][Next]_vars

=============================================================================
