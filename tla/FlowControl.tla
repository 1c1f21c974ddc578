----------------------------- MODULE FlowControl -----------------------------
(***************************************************************************)
(* examples/flowcontrol: a program that sends values to a sink in hardware *)
(* and has one credit for each place of the sink.  The sink returns the    *)
(* credits; the poller's method adds them to count and signals a condition *)
(* variable on which main waits.                                           *)
(***************************************************************************)
EXTENDS Naturals, Sequences, SequencesExt

CONSTANTS
  Capacity,    \* places of the sink
  Threshold,   \* the sink returns its credits from this many on
  Goal         \* values main sends

VARIABLES
  pc,          \* main: start, lock, wait, woken, put, exit
  tokens,      \* values sent
  count,       \* credits returned and not yet consumed
  local_count, \* credits main consumes
  puts,        \* values on their way to the sink
  full,        \* places of the sink in use (Sink.bsv's count)
  inds,        \* returnTokens on their way to the poller
  lost         \* a signal found main not waiting

vars == <<pc, tokens, count, local_count, puts, full, inds, lost>>

Init ==
  /\ pc = "start"
  /\ tokens = 0 /\ count = 0 /\ local_count = 0
  /\ puts = 0 /\ full = 0
  /\ inds = <<>>
  /\ lost = FALSE

\* sinkRequestProxy->init(0), which the hardware answers with all its places.
init ==
  /\ pc = "start"
  /\ inds' = Append(inds, Capacity)
  /\ pc' = "lock"
  /\ UNCHANGED <<tokens, count, local_count, puts, full, lost>>

\* The head of the loop: lock the mutex and wait, which unlocks it.
pthread_cond_wait ==
  /\ pc = "lock"
  /\ pc' = IF tokens < Goal THEN "wait" ELSE "exit"
  /\ UNCHANGED <<tokens, count, local_count, puts, full, inds, lost>>

\* pthread_cond_wait may return without a signal.
spurious_wakeup ==
  /\ pc = "wait"
  /\ pc' = "woken"
  /\ UNCHANGED <<tokens, count, local_count, puts, full, inds, lost>>

\* Mutant: the credits stay in count.
consume_credit_NoReset ==
  /\ pc = "woken"
  /\ local_count' = count
  /\ pc' = "put"
  /\ UNCHANGED <<tokens, count, puts, full, inds, lost>>

\* The mutex is held again: take the credits and unlock.
consume_credit ==
  /\ pc = "woken"
  /\ local_count' = count
  /\ count' = 0
  /\ pc' = "put"
  /\ UNCHANGED <<tokens, puts, full, inds, lost>>

put ==
  /\ pc = "put"
  /\ IF local_count > 0
     THEN /\ local_count' = local_count - 1
          /\ tokens' = tokens + 1
          /\ puts' = puts + 1
          /\ UNCHANGED pc
     ELSE /\ pc' = "lock"
          /\ UNCHANGED <<local_count, tokens, puts>>
  /\ UNCHANGED <<count, full, inds, lost>>

\* Mutant: without pthread_cond_signal.
returnTokens_NoSignal ==
  /\ inds # <<>>
  /\ count' = count + Head(inds)
  /\ inds' = Tail(inds)
  /\ lost' = (lost \/ pc \notin {"wait", "woken"})
  /\ UNCHANGED <<pc, tokens, local_count, puts, full>>

\* The poller's method.  A signal wakes main only if main is waiting.
returnTokens ==
  /\ inds # <<>>
  /\ count' = count + Head(inds)
  /\ inds' = Tail(inds)
  /\ pc' = IF pc = "wait" THEN "woken" ELSE pc
  /\ lost' = (lost \/ pc \notin {"wait", "woken"})
  /\ UNCHANGED <<tokens, local_count, puts, full>>

\* The sink: put has the guard count < capacity; consume returns the credits.
sink_put ==
  /\ puts > 0 /\ full < Capacity
  /\ puts' = puts - 1
  /\ full' = full + 1
  /\ UNCHANGED <<pc, tokens, count, local_count, inds, lost>>

sink_consume ==
  /\ full >= Threshold
  /\ inds' = Append(inds, full)
  /\ full' = 0
  /\ UNCHANGED <<pc, tokens, count, local_count, puts, lost>>

Main == init \/ pthread_cond_wait \/ consume_credit \/ put
Next == Main \/ spurious_wakeup \/ returnTokens \/ sink_put \/ sink_consume

Spec == Init /\ [][Next]_vars

\* main runs, the poller calls the method, and the hardware's rules fire.
Fairness ==
  WF_vars(Main) /\ WF_vars(returnTokens) /\ WF_vars(sink_put) /\ WF_vars(sink_consume)

FairSpec == Spec /\ Fairness

-----------------------------------------------------------------------------
\* Credits are neither made nor lost: after the start, those main holds, those on their
\* way back and the values in the sink or on their way to it fill the sink.  So the
\* sink never makes a put wait.
CreditsKept ==
  pc # "start" =>
    count + local_count + puts + full + FoldLeft(LAMBDA a, b : a + b, 0, inds) = Capacity

Sent == tokens >= Goal \/ lost

\* If every signal finds main waiting, main sends all its values.
SentUnlessLost == []<>Sent
=============================================================================
