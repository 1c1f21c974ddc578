----------------------------- MODULE RequestFifo -----------------------------
(* The requests of a hardware portal: a generated proxy method looks for room *)
(* in the FIFO of its method (busy_hardware), gives the request up when it    *)
(* finds none for too long, and else writes the words of the message, which   *)
(* mkFromBit puts together: all but the last go to a shift register, the last *)
(* moves the message to a FIFO of one and waits on the bus while that is      *)
(* full.  The design takes the message and calls the method.  One thread      *)
(* calls.                                                                     *)
EXTENDS Integers, Sequences, FiniteSets

CONSTANTS
  FifoMethod,  \* the methods of the interface
  Words,       \* the number of words of each
  Count,       \* the readings of busy_hardware
  MaxCalls     \* bound on the calls

VARIABLES
  caller, called, \* where the caller is, and how often it has called
  callee,      \* the method it calls
  count,       \* of busy_hardware
  written,     \* words of the message written
  fbnbuff,     \* per method, the shift register: the words written last
  filled,      \* its count of the words of the present message
  fifo,        \* its FIFO of one message
  taken,       \* the messages the design has taken, in order
  full,        \* readings of the present call that found the FIFO full
  dropped      \* calls given up, with the number of full readings

adapterVars == <<fbnbuff, filled, fifo, taken>>
fifoVars == <<caller, called, callee, count, written, adapterVars, full, dropped>>

\* A word is the call it is of and its number in the message; none is written yet.
NoWord == <<0, 0>>

FifoInit ==
  /\ caller = "idle" /\ called = 0
  /\ callee \in FifoMethod
  /\ count = 0 /\ written = 0 /\ full = 0
  /\ fbnbuff = [x \in FifoMethod |-> [k \in 1 .. Words[x] |-> NoWord]]
  /\ filled = [x \in FifoMethod |-> 0]
  /\ fifo = [x \in FifoMethod |-> <<>>]
  /\ taken = [x \in FifoMethod |-> <<>>]
  /\ dropped = {}

request(x) ==
  /\ caller = "idle" /\ called < MaxCalls
  /\ called' = called + 1
  /\ callee' = x
  /\ count' = Count /\ full' = 0
  /\ caller' = "busywait"
  /\ UNCHANGED <<written, adapterVars, dropped>>

\* What a reading of the portal at offset 4 says: is there room for a message?
notFull(x) == fifo[x] = <<>>

\* Mutant: the readings are not counted.
busy_hardware_Forever ==
  /\ caller = "busywait"
  /\ IF notFull(callee)
     THEN caller' = "write" /\ written' = 0 /\ UNCHANGED <<count, full, dropped>>
     ELSE full' = full /\ UNCHANGED <<caller, count, written, dropped>>
  /\ UNCHANGED <<called, callee, adapterVars>>

\* Mutant: when the readings run out the words are written all the same.
busy_hardware_Anyway ==
  /\ caller = "busywait"
  /\ IF ~notFull(callee) /\ count > 0
     THEN /\ count' = count - 1 /\ full' = full + 1
          /\ UNCHANGED <<caller, written, dropped>>
     ELSE caller' = "write" /\ written' = 0 /\ UNCHANGED <<count, full, dropped>>
  /\ UNCHANGED <<called, callee, adapterVars>>

\* A reading, and the test after the loop: the reading after the last decrement
\* counts for nothing, whatever it says.
busy_hardware ==
  /\ caller = "busywait"
  /\ IF ~notFull(callee) /\ count > 0
     THEN /\ count' = count - 1 /\ full' = full + 1
          /\ UNCHANGED <<caller, written, dropped>>
     ELSE IF notFull(callee) /\ count > 0
     THEN caller' = "write" /\ written' = 0 /\ UNCHANGED <<count, full, dropped>>
     ELSE /\ caller' = "idle"
          /\ dropped' = dropped \cup {<<called, full>>}
          /\ UNCHANGED <<count, full, written>>
  /\ UNCHANGED <<called, callee, adapterVars>>

\* The guard of mkFromBit's enq.
CanEnq(x) == filled[x] < Words[x] - 1 \/ notFull(x)

\* Word w is shifted in; the last word of a message moves it to the FIFO.
enq(x, w) ==
  LET newbuff == Append(Tail(fbnbuff[x]), w) IN
  /\ CanEnq(x)
  /\ fbnbuff' = [fbnbuff EXCEPT ![x] = newbuff]
  /\ IF filled[x] = Words[x] - 1
     THEN /\ filled' = [filled EXCEPT ![x] = 0]
          /\ fifo' = [fifo EXCEPT ![x] = Append(@, newbuff)]
     ELSE /\ filled' = [filled EXCEPT ![x] = @ + 1]
          /\ UNCHANGED fifo

\* A word of the message, which the bus holds until enq can take it; send does nothing
\* more.
write_hardware ==
  /\ caller = "write"
  /\ enq(callee, <<called, written + 1>>)
  /\ written' = written + 1
  /\ caller' = IF written' = Words[callee] THEN "idle" ELSE "write"
  /\ UNCHANGED <<called, callee, count, taken, full, dropped>>

\* The design takes the message and calls the method.
handle_request(x) ==
  /\ fifo[x] # <<>>
  /\ fifo' = [fifo EXCEPT ![x] = Tail(@)]
  /\ taken' = [taken EXCEPT ![x] = Append(@, Head(fifo[x]))]
  /\ UNCHANGED <<caller, called, callee, count, written, fbnbuff, filled, full, dropped>>

Caller == busy_hardware \/ write_hardware

FifoNext == (\E x \in FifoMethod : request(x) \/ handle_request(x)) \/ Caller

\* The caller is scheduled; the design need not take anything.
FifoSpec == FifoInit /\ [][FifoNext]_fifoVars /\ WF_fifoVars(Caller)

-----------------------------------------------------------------------------
\* The design gets whole messages or none: the words mkFromBit puts together are those of
\* one call, in order; no call that was given up is among them, and none is given up
\* before all the readings found the FIFO full (busy_hardware, mkFromBit).
WholeMessages ==
  /\ \A x \in FifoMethod : \A i \in DOMAIN taken[x] :
       LET c == taken[x][i][1][1] IN
       /\ taken[x][i] = [k \in 1 .. Words[x] |-> <<c, k>>]
       /\ \A d \in dropped : d[1] # c
       /\ \A j \in 1 .. i - 1 : taken[x][j][1][1] < c
  /\ \A d \in dropped : d[2] >= Count

\* A call that has found room never waits on the bus: the message before is gone when the
\* last word is written (busy_hardware, the guard of enq).
BusNeverHeld == caller = "write" => CanEnq(callee)

WholeRequests == WholeMessages /\ BusNeverHeld

\* A call ends, whether the design takes its requests or not.
RequestReturns == []<>(caller = "idle")
=============================================================================
