----------------------------- MODULE LinkProofs -----------------------------
(***************************************************************************)
(* A hardware portal: the design gets whole requests or none, and a call   *)
(* that has found room is never held on the bus, for every interface and   *)
(* every number of readings of busy_hardware.  The words written last in   *)
(* the shift register of the method that is called are those of the call,  *)
(* every other register waits for a first word, and the FIFO a call writes *)
(* to has been empty since it looked.                                      *)
(*                                                                         *)
(* The poller's tables: they list each registered portal once, until a     *)
(* portal is removed that has no descriptor, or whose number is that of    *)
(* another, and takes another's entry with it.                             *)
(*                                                                         *)
(* The ring in shared memory is a FIFO channel for every size of the       *)
(* memory, every set of message lengths and every interleaving of the      *)
(* writer with the reader.                                                 *)
(***************************************************************************)
EXTENDS RequestFifo, PollerTables, SharedPortal, SequenceTheorems, TLAPS

\* The SMT solver gets half a minute for a leaf; a leaf for Zenon says so.
USE SMTT(30)

-----------------------------------------------------------------------------
\* The requests of a hardware portal.

Word == Nat \X Nat

\* The message of call c, and the call a message is of.
Message(x, c) == [k \in 1 .. Words[x] |-> <<c, k>>]
Call(m) == m[1][1]

\* The inductive invariant: the types,
FifoTypes ==
  /\ caller \in {"idle", "busywait", "write"} /\ called \in Nat /\ callee \in FifoMethod
  /\ count \in Nat /\ written \in Nat /\ full \in Nat
  /\ fbnbuff \in [FifoMethod -> Seq(Word)] /\ filled \in [FifoMethod -> Nat]
  /\ fifo \in [FifoMethod -> Seq(Seq(Word))] /\ taken \in [FifoMethod -> Seq(Seq(Word))]
  /\ dropped \subseteq Nat \X Nat

\* the words in the shift registers,
FilledInv ==
  /\ \A x \in FifoMethod : Len(fbnbuff[x]) = Words[x]
  /\ \A x \in FifoMethod : filled[x] = IF caller = "write" /\ x = callee THEN written ELSE 0
  /\ caller = "write" =>
       /\ written < Words[callee] /\ fifo[callee] = <<>>
       /\ \A k \in 1 .. written : fbnbuff[callee][(Words[callee] - written) + k] = <<called, k>>

\* the messages of a method, which are whole and in the order of the calls,
MessagesInv(x) ==
  /\ \A i \in DOMAIN taken[x] :
       /\ taken[x][i] = Message(x, Call(taken[x][i]))
       /\ \A j \in 1 .. i - 1 : Call(taken[x][j]) < Call(taken[x][i])
  /\ Len(fifo[x]) <= 1
  /\ \A i \in DOMAIN fifo[x] :
       /\ fifo[x][i] = Message(x, Call(fifo[x][i]))
       /\ \A j \in DOMAIN taken[x] : Call(taken[x][j]) < Call(fifo[x][i])

\* and the calls they are of: those that have come to their end, and of these the ones
\* that were not given up.
Past == {c \in Nat : c <= called /\ (caller # "idle" => c < called)}
Sent == {c \in Past : \A d \in dropped : d[1] # c}

CallsInv ==
  /\ \A x \in FifoMethod : /\ \A i \in DOMAIN taken[x] : Call(taken[x][i]) \in Sent
                           /\ \A i \in DOMAIN fifo[x] : Call(fifo[x][i]) \in Sent
  /\ \A d \in dropped : d[1] \in Past /\ d[2] >= Count
  /\ caller # "idle" => called > 0
  /\ caller = "busywait" => count + full = Count

FifoInv == FifoTypes /\ FilledInv /\ (\A x \in FifoMethod : MessagesInv(x)) /\ CallsInv

\* What the proofs assume of an interface: a message has a word.
Lengths == Words \in [FifoMethod -> Nat \ {0}] /\ Count \in Nat

\* A word shifted into a register.
LEMMA Shifts ==
  ASSUME NEW S, NEW s \in Seq(S), Len(s) > 0, NEW e \in S
  PROVE  LET r == Append(Tail(s), e) IN
         /\ r \in Seq(S) /\ Len(r) = Len(s) /\ r[Len(s)] = e
         /\ \A i \in 1 .. Len(s) - 1 : r[i] = s[i + 1]
<1>1. s # <<>>
  OBVIOUS
<1>2. PICK t : t = Tail(s)
  BY Zenon
<1>3. t \in Seq(S) /\ Len(t) = Len(s) - 1 /\ \A i \in 1 .. Len(t) : t[i] = s[i + 1]
  BY <1>1, <1>2, HeadTailProperties
<1>4. /\ Append(t, e) \in Seq(S) /\ Len(Append(t, e)) = Len(t) + 1
      /\ \A i \in 1 .. Len(t) : Append(t, e)[i] = t[i]
      /\ Append(t, e)[Len(t) + 1] = e
  BY <1>3, AppendProperties
<1>5. Len(s) \in Nat /\ Len(t) + 1 = Len(s) /\ Len(s) - 1 = Len(t)
  BY <1>3
<1>6. QED
  BY Zenon, <1>2, <1>3, <1>4, <1>5

\* Steps that write no word and take no message.
LEMMA AdapterStays ==
  ASSUME FifoInv, UNCHANGED adapterVars
  PROVE  \A x \in FifoMethod : MessagesInv(x)'
BY Zenon DEF FifoInv, adapterVars, MessagesInv

\* The call of a method,
LEMMA CallFifo ==
  ASSUME Lengths, FifoInv, NEW x \in FifoMethod, request(x) PROVE FifoInv'
<1>1. FifoTypes'
  BY DEF request, adapterVars, FifoInv, FifoTypes, Lengths
<1>2. FilledInv'
  BY DEF request, adapterVars, FifoInv, FilledInv
<1>3. Past \subseteq Past'
  BY DEF request, Past, FifoInv, FifoTypes
<1>4. CallsInv'
  <2>1. called' > 0 /\ count' + full' = Count
    BY DEF request, Lengths, FifoInv, FifoTypes
  <2>2. Sent \subseteq Sent'
    BY Zenon, <1>3 DEF Sent, request
  <2>3. QED
    BY Zenon, <1>3, <2>1, <2>2 DEF CallsInv, FifoInv, request, adapterVars
<1>5. QED
  BY Zenon, <1>1, <1>2, <1>4, AdapterStays DEF FifoInv, request

\* a reading of busy_hardware,
LEMMA BusyFifo == ASSUME Lengths, FifoInv, busy_hardware PROVE FifoInv'
<1>1. FifoTypes'
  BY DEF busy_hardware, adapterVars, FifoInv, FifoTypes
<1>2. FilledInv'
  <2>1. UNCHANGED <<called, callee, fbnbuff, filled, fifo>> /\ caller = "busywait"
    BY Zenon DEF busy_hardware, adapterVars
  <2>2. \A x \in FifoMethod : filled[x] = 0 /\ Words[x] > 0
    BY <2>1 DEF FifoInv, FilledInv, Lengths
  <2>3. caller' = "write" => written' = 0 /\ fifo[callee] = <<>>
    BY DEF busy_hardware, notFull
  <2>4. \A x \in FifoMethod : filled'[x] = IF caller' = "write" /\ x = callee' THEN written' ELSE 0
    BY Zenon, <2>1, <2>2, <2>3
  <2>5. callee \in FifoMethod /\ \A k \in 1 .. 0 : FALSE
    BY DEF FifoInv, FifoTypes
  <2>6. \A x \in FifoMethod : 0 < Words[x]
    BY <2>2
  <2>7. \A x \in FifoMethod : Len(fbnbuff[x]) = Words[x]
    BY Zenon DEF FifoInv, FilledInv
  <2>8. QED
    BY Zenon, <2>1, <2>3, <2>4, <2>5, <2>6, <2>7 DEF FilledInv
<1>3. CallsInv'
  <2>1. UNCHANGED <<called, fifo, taken>> /\ caller = "busywait" /\ called > 0
    BY Zenon DEF busy_hardware, adapterVars, FifoInv, CallsInv
  <2>2. Past \subseteq Past'
    BY <2>1 DEF Past
  <2>3. caller' = "busywait" => count' + full' = Count
    BY DEF busy_hardware, FifoInv, FifoTypes, CallsInv
  <2>4. CASE UNCHANGED dropped
    <3>1. Sent \subseteq Sent'
      BY Zenon, <2>2, <2>4 DEF Sent
    <3>2. QED
      BY Zenon, <2>1, <2>2, <2>3, <2>4, <3>1 DEF CallsInv, FifoInv
  <2>5. CASE dropped' # dropped
    <3>1. dropped' = dropped \cup {<<called, full>>} /\ caller' = "idle" /\ count = 0
      BY <2>5 DEF busy_hardware, FifoInv, FifoTypes
    <3>2. full >= Count /\ called \in Nat /\ called <= called
      BY <2>1, <3>1 DEF FifoInv, FifoTypes, CallsInv
    <3>3. \A c \in Past : c # called
      BY <2>1 DEF Past, FifoInv, FifoTypes
    <3>4. Sent \subseteq Sent'
      <4>1. <<called, full>>[1] = called
        OBVIOUS
      <4>2. QED
        BY Zenon, <2>2, <3>1, <3>3, <4>1 DEF Sent
    <3>5. called \in Past'
      BY <2>1, <3>1, <3>2 DEF Past
    <3>6. \A d \in dropped' : d[1] \in Past' /\ d[2] >= Count
      <4>1. \A d \in dropped : d[1] \in Past' /\ d[2] >= Count
        BY Zenon, <2>2 DEF CallsInv, FifoInv
      <4>2. <<called, full>>[1] = called /\ <<called, full>>[2] = full
        OBVIOUS
      <4>3. QED
        BY Zenon, <2>1, <3>1, <3>2, <3>5, <4>1, <4>2
    <3>7. QED
      BY Zenon, <2>1, <2>3, <3>1, <3>4, <3>6 DEF CallsInv, FifoInv
  <2>6. QED
    BY Zenon, <2>4, <2>5
<1>4. QED
  BY Zenon, <1>1, <1>2, <1>3, AdapterStays DEF FifoInv, busy_hardware

\* a word, which may complete the message,
LEMMA WriteFifo == ASSUME Lengths, FifoInv, write_hardware PROVE FifoInv'
<1> DEFINE x == callee
           n == Words[x]
           w == <<called, written + 1>>
<1>1. /\ caller = "write" /\ x \in FifoMethod /\ n \in Nat \ {0} /\ Len(fbnbuff[x]) = n
      /\ fbnbuff[x] \in Seq(Word) /\ filled[x] = written /\ written \in Nat /\ written < n
      /\ called \in Nat /\ called > 0 /\ w \in Word /\ fifo[x] = <<>>
      /\ \A k \in 1 .. written : fbnbuff[x][(n - written) + k] = <<called, k>>
  <2>1. /\ x \in FifoMethod /\ written \in Nat /\ called \in Nat /\ caller = "write"
        /\ fbnbuff \in [FifoMethod -> Seq(Word)] /\ Words \in [FifoMethod -> Nat \ {0}]
    BY Zenon DEF write_hardware, Lengths, FifoInv, FifoTypes
  <2>2. /\ Len(fbnbuff[x]) = n /\ filled[x] = written /\ written < n /\ fifo[x] = <<>>
        /\ \A k \in 1 .. written : fbnbuff[x][(n - written) + k] = <<called, k>>
    BY Zenon, <2>1 DEF FifoInv, FilledInv
  <2>3. called > 0 /\ n \in Nat \ {0} /\ fbnbuff[x] \in Seq(Word)
    BY <2>1 DEF FifoInv, CallsInv
  <2>4. w \in Word
    BY <2>1 DEF Word
  <2>5. QED
    BY Zenon, <2>1, <2>2, <2>3, <2>4
<1>2. PICK r : r = Append(Tail(fbnbuff[x]), w)
  BY Zenon
<1>3. /\ r \in Seq(Word) /\ Len(r) = n /\ r[n] = w
      /\ \A i \in 1 .. n - 1 : r[i] = fbnbuff[x][i + 1]
  BY <1>1, <1>2, Shifts
<1> HIDE DEF n
<1>4. \A k \in 1 .. written + 1 : r[(n - (written + 1)) + k] = <<called, k>>
  <2> SUFFICES ASSUME NEW k \in 1 .. written + 1 PROVE r[(n - (written + 1)) + k] = <<called, k>>
    BY Zenon
  <2>1. CASE k = written + 1
    <3>1. (n - (written + 1)) + k = n
      BY <1>1, <2>1
    <3>2. QED
      BY Zenon, <1>3, <2>1, <3>1
  <2>2. CASE k # written + 1
    <3>1. /\ k \in 1 .. written /\ (n - (written + 1)) + k \in 1 .. n - 1
          /\ ((n - (written + 1)) + k) + 1 = (n - written) + k
      BY <1>1, <2>2
    <3>2. QED
      BY Zenon, <1>1, <1>3, <3>1
  <2>3. QED
    BY Zenon, <2>1, <2>2
<1>5. /\ fbnbuff' = [fbnbuff EXCEPT ![x] = r] /\ written' = written + 1
      /\ UNCHANGED <<called, callee, count, taken, full, dropped>>
  BY Zenon, <1>2 DEF write_hardware, enq
<1>6. CASE written + 1 = n
  <2>1. /\ filled' = [filled EXCEPT ![x] = 0] /\ fifo' = [fifo EXCEPT ![x] = <<r>>]
        /\ caller' = "idle"
    <3>1. filled[x] = n - 1 /\ Append(fifo[x], r) = <<r>>
      BY <1>1, <1>6
    <3>2. filled' = [filled EXCEPT ![x] = 0] /\ fifo' = [fifo EXCEPT ![x] = Append(fifo[x], r)]
      BY Zenon, <1>2, <3>1 DEF write_hardware, enq, n
    <3>3. QED
      BY Zenon, <1>5, <1>6, <3>1, <3>2 DEF write_hardware, n
  <2>2. r = Message(x, called) /\ Call(r) = called
    <3>1. \A k \in 1 .. n : r[k] = <<called, k>>
      <4>1. \A k \in 1 .. n : k \in 1 .. written + 1 /\ (n - (written + 1)) + k = k
        BY <1>1, <1>6 DEF n
      <4>2. QED
        BY Zenon, <1>4, <4>1
    <3>2. DOMAIN r = 1 .. n /\ r = [k \in 1 .. n |-> r[k]] /\ 1 \in 1 .. n
      BY <1>1, <1>3
    <3>3. r = [k \in 1 .. n |-> <<called, k>>] /\ r[1] = <<called, 1>>
      BY Zenon, <3>1, <3>2
    <3>4. <<called, 1>>[1] = called
      OBVIOUS
    <3>5. QED
      BY Zenon, <3>3, <3>4 DEF Message, Call, n
  <2>3. FifoTypes'
    <3>1. <<r>> \in Seq(Seq(Word))
      BY <1>3
    <3>2. fifo' \in [FifoMethod -> Seq(Seq(Word))] /\ fbnbuff' \in [FifoMethod -> Seq(Word)]
      BY <1>3, <1>5, <2>1, <3>1 DEF FifoInv, FifoTypes
    <3>3. filled' \in [FifoMethod -> Nat] /\ written' \in Nat
      BY <1>1, <1>5, <2>1 DEF FifoInv, FifoTypes
    <3>4. QED
      BY Zenon, <1>5, <2>1, <3>2, <3>3 DEF FifoInv, FifoTypes
  <2>4. FilledInv'
    <3>1. \A y \in FifoMethod : filled'[y] = 0 /\ Len(fbnbuff'[y]) = Words[y]
      BY <1>1, <1>3, <1>5, <2>1 DEF FifoInv, FifoTypes, FilledInv, n
    <3>2. QED
      BY <2>1, <3>1 DEF FilledInv
  <2>5. ASSUME NEW y \in FifoMethod PROVE MessagesInv(y)'
    <3>1. CASE y = x
      <4>1. fifo'[y] = <<r>> /\ taken'[y] = taken[y]
        BY Zenon, <1>5, <2>1, <3>1 DEF FifoInv, FifoTypes
      <4>2. \A j \in DOMAIN taken[y] : Call(taken[y][j]) < called
        BY <1>1 DEF FifoInv, CallsInv, Sent, Past
      <4>3. DOMAIN <<r>> = {1} /\ <<r>>[1] = r /\ Len(<<r>>) <= 1
        OBVIOUS
      <4>4. \A i \in DOMAIN taken[y] :
              /\ taken[y][i] = Message(y, Call(taken[y][i]))
              /\ \A j \in 1 .. i - 1 : Call(taken[y][j]) < Call(taken[y][i])
        BY Zenon DEF FifoInv, MessagesInv
      <4>5. \A i \in DOMAIN fifo'[y] : fifo'[y][i] = r
        BY Zenon, <4>1, <4>3
      <4>6. \A i \in DOMAIN fifo'[y] :
              /\ fifo'[y][i] = Message(y, Call(fifo'[y][i]))
              /\ \A j \in DOMAIN taken'[y] : Call(taken'[y][j]) < Call(fifo'[y][i])
        BY Zenon, <2>2, <3>1, <4>1, <4>2, <4>5
      <4>7. QED
        BY Zenon, <4>1, <4>3, <4>4, <4>6 DEF MessagesInv
    <3>2. CASE y # x
      <4>1. fifo'[y] = fifo[y] /\ taken'[y] = taken[y]
        BY Zenon, <1>5, <2>1, <3>2 DEF FifoInv, FifoTypes
      <4>2. QED
        BY Zenon, <4>1 DEF FifoInv, MessagesInv
    <3>3. QED
      BY Zenon, <3>1, <3>2
  <2>6. CallsInv'
    <3>1. Sent \subseteq Sent'
      BY <1>1, <1>5, <2>1 DEF Sent, Past
    <3>2. \A d \in dropped : d[1] \in Past' /\ d[2] >= Count
      BY <1>1, <1>5, <2>1 DEF Past, FifoInv, CallsInv
    <3>3. called \in Sent'
      BY <1>1, <1>5, <2>1 DEF Sent, Past, FifoInv, CallsInv
    <3>4. ASSUME NEW y \in FifoMethod, NEW i \in DOMAIN fifo'[y] PROVE Call(fifo'[y][i]) \in Sent'
      <4>1. CASE y = x
        <5>1. fifo'[y] = <<r>> /\ DOMAIN <<r>> = {1} /\ <<r>>[1] = r
          BY <2>1, <4>1 DEF FifoInv, FifoTypes
        <5>2. fifo'[y][i] = r
          BY Zenon, <5>1, <3>4
        <5>3. QED
          BY Zenon, <1>5, <2>2, <3>3, <5>2
      <4>2. CASE y # x
        <5>1. fifo'[y] = fifo[y]
          BY Zenon, <2>1, <4>2 DEF FifoInv, FifoTypes
        <5>2. QED
          BY Zenon, <3>1, <3>4, <5>1 DEF FifoInv, CallsInv
      <4>3. QED
        BY Zenon, <4>1, <4>2
    <3>5. \A y \in FifoMethod : \A i \in DOMAIN taken'[y] : Call(taken'[y][i]) \in Sent'
      BY Zenon, <1>5, <3>1 DEF FifoInv, CallsInv
    <3>6. caller' # "busywait" /\ caller' = "idle"
      BY Zenon, <2>1
    <3>7. QED
      BY Zenon, <1>5, <3>2, <3>4, <3>5, <3>6 DEF CallsInv
  <2>7. QED
    BY Zenon, <2>3, <2>4, <2>5, <2>6 DEF FifoInv
<1>7. CASE written + 1 # n
  <2>1. /\ filled' = [filled EXCEPT ![x] = @ + 1] /\ fifo' = fifo /\ caller' = "write"
    BY <1>1, <1>5, <1>7 DEF write_hardware, enq, n
  <2>2. FifoTypes'
    <3>1. fbnbuff' \in [FifoMethod -> Seq(Word)]
      BY <1>3, <1>5 DEF FifoInv, FifoTypes
    <3>2. filled' \in [FifoMethod -> Nat] /\ written' \in Nat
      BY <1>1, <1>5, <2>1 DEF FifoInv, FifoTypes
    <3>3. QED
      BY Zenon, <1>5, <2>1, <3>1, <3>2 DEF FifoInv, FifoTypes
  <2>3. FilledInv'
    <3>1. \A y \in FifoMethod : Len(fbnbuff'[y]) = Words[y]
      BY <1>1, <1>3, <1>5 DEF FifoInv, FifoTypes, FilledInv, n
    <3>2. \A y \in FifoMethod : filled'[y] = IF y = x THEN written' ELSE 0
      BY <1>1, <1>5, <2>1 DEF FifoInv, FifoTypes, FilledInv
    <3>3. written' < n
      BY <1>1, <1>5, <1>7
    <3>4. fbnbuff'[x] = r
      BY Zenon, <1>1, <1>5 DEF FifoInv, FifoTypes
    <3>5. QED
      BY Zenon, <1>1, <1>4, <1>5, <2>1, <3>1, <3>2, <3>3, <3>4 DEF FilledInv, n
  <2>4. \A y \in FifoMethod : MessagesInv(y)'
    BY Zenon, <1>5, <2>1 DEF FifoInv, MessagesInv
  <2>5. CallsInv'
    <3>1. UNCHANGED <<called, caller, dropped, taken, fifo, count, full>>
      BY Zenon, <1>1, <1>5, <2>1
    <3>2. QED
      BY Zenon, <3>1 DEF FifoInv, CallsInv, Sent, Past
  <2>6. QED
    BY Zenon, <2>2, <2>3, <2>4, <2>5 DEF FifoInv
<1>8. QED
  BY Zenon, <1>6, <1>7

\* and a message the design takes.
LEMMA TakeFifo ==
  ASSUME Lengths, FifoInv, NEW x \in FifoMethod, handle_request(x) PROVE FifoInv'
<1>1. UNCHANGED <<caller, called, callee, count, written, fbnbuff, filled, full, dropped>>
  BY Zenon DEF handle_request
<1>2. PICK m : m = fifo[x][1]
  BY Zenon
<1>3. /\ fifo[x] = <<m>> /\ m \in Seq(Word) /\ 1 \in DOMAIN fifo[x]
      /\ Tail(fifo[x]) = <<>> /\ Head(fifo[x]) = m
  BY <1>2 DEF handle_request, FifoInv, FifoTypes, MessagesInv
<1>4. /\ fifo' = [fifo EXCEPT ![x] = <<>>]
      /\ taken' = [taken EXCEPT ![x] = Append(taken[x], m)]
  BY Zenon, <1>3 DEF handle_request
<1>5. FifoTypes'
  <2>1. fifo' \in [FifoMethod -> Seq(Seq(Word))] /\ taken' \in [FifoMethod -> Seq(Seq(Word))]
    BY <1>3, <1>4 DEF FifoInv, FifoTypes
  <2>2. QED
    BY Zenon, <1>1, <2>1 DEF FifoInv, FifoTypes
<1>6. FilledInv'
  <2>1. callee \in FifoMethod /\ (fifo[callee] = <<>> => fifo'[callee] = <<>>)
    BY Zenon, <1>4 DEF FifoInv, FifoTypes
  <2>2. QED
    BY Zenon, <1>1, <2>1 DEF FifoInv, FilledInv
<1>7. /\ taken[x] \in Seq(Seq(Word)) /\ taken'[x] = Append(taken[x], m) /\ fifo'[x] = <<>>
      /\ \A y \in FifoMethod : y # x => taken'[y] = taken[y] /\ fifo'[y] = fifo[y]
  BY <1>4 DEF FifoInv, FifoTypes
<1>8. PICK l : l = Len(taken[x])
  BY Zenon
<1>9. /\ l \in Nat /\ DOMAIN taken[x] = 1 .. l /\ DOMAIN taken'[x] = 1 .. l + 1
      /\ taken'[x][l + 1] = m /\ \A i \in 1 .. l : taken'[x][i] = taken[x][i]
  BY <1>3, <1>7, <1>8, AppendProperties
<1>10. \A i \in 1 .. l + 1 : (i \in 1 .. l /\ 1 .. i - 1 \subseteq 1 .. l) \/ (i = l + 1 /\ 1 .. i - 1 = 1 .. l)
  BY <1>9
<1>11. m = Message(x, Call(m)) /\ \A j \in 1 .. l : Call(taken[x][j]) < Call(m)
  BY Zenon, <1>2, <1>3, <1>9 DEF FifoInv, MessagesInv
<1>12. ASSUME NEW y \in FifoMethod PROVE MessagesInv(y)'
  <2>1. CASE y = x
    <3>1. DOMAIN <<>> = {} /\ Len(<<>>) <= 1
      OBVIOUS
    <3>2. \A i \in 1 .. l : /\ taken[x][i] = Message(x, Call(taken[x][i]))
                            /\ \A j \in 1 .. i - 1 : Call(taken[x][j]) < Call(taken[x][i])
      BY Zenon, <1>9 DEF FifoInv, MessagesInv
    <3>3. ASSUME NEW i \in 1 .. l + 1
          PROVE  /\ taken'[x][i] = Message(x, Call(taken'[x][i]))
                 /\ \A j \in 1 .. i - 1 : Call(taken'[x][j]) < Call(taken'[x][i])
      <4>1. CASE i \in 1 .. l /\ 1 .. i - 1 \subseteq 1 .. l
        BY Zenon, <1>9, <3>2, <4>1
      <4>2. CASE i = l + 1 /\ 1 .. i - 1 = 1 .. l
        BY Zenon, <1>9, <1>11, <4>2
      <4>3. QED
        BY Zenon, <1>10, <4>1, <4>2
    <3>4. QED
      BY Zenon, <1>7, <1>9, <2>1, <3>1, <3>3 DEF MessagesInv
  <2>2. CASE y # x
    BY Zenon, <1>7, <2>2 DEF FifoInv, MessagesInv
  <2>3. QED
    BY Zenon, <2>1, <2>2
<1>13. CallsInv'
  <2>1. Sent \subseteq Sent'
    BY Zenon, <1>1 DEF Sent, Past
  <2>2. Past \subseteq Past'
    BY Zenon, <1>1 DEF Past
  <2>3. Call(m) \in Sent
    BY Zenon, <1>2, <1>3 DEF FifoInv, CallsInv
  <2>4. ASSUME NEW y \in FifoMethod
        PROVE  /\ \A i \in DOMAIN taken'[y] : Call(taken'[y][i]) \in Sent'
               /\ \A i \in DOMAIN fifo'[y] : Call(fifo'[y][i]) \in Sent'
    <3>1. CASE y = x
      <4>1. DOMAIN <<>> = {} /\ \A i \in 1 .. l + 1 : i \in 1 .. l \/ i = l + 1
        BY <1>9
      <4>2. \A i \in 1 .. l : Call(taken[x][i]) \in Sent
        BY Zenon, <1>9 DEF FifoInv, CallsInv
      <4>3. \A i \in 1 .. l + 1 : Call(taken'[x][i]) \in Sent
        BY Zenon, <1>9, <2>3, <4>1, <4>2
      <4>4. QED
        BY Zenon, <1>7, <1>9, <2>1, <3>1, <4>1, <4>3
    <3>2. CASE y # x
      BY Zenon, <1>7, <2>1, <3>2 DEF FifoInv, CallsInv
    <3>3. QED
      BY Zenon, <3>1, <3>2
  <2>5. QED
    BY Zenon, <1>1, <2>2, <2>4 DEF FifoInv, CallsInv
<1>14. QED
  BY Zenon, <1>5, <1>6, <1>12, <1>13 DEF FifoInv

\* The design gets whole messages or none, in the order of the calls, and a call that has
\* found room is never held on the bus (busy_hardware and mkFromBit), for every interface
\* and every number of readings.
THEOREM RequestsAreWhole == ASSUME Lengths PROVE FifoSpec => []WholeRequests
<1>1. FifoInit => FifoInv
  <2> SUFFICES ASSUME FifoInit PROVE FifoInv
    BY Zenon
  <2>1. \A y \in FifoMethod : /\ fbnbuff[y] \in Seq(Word) /\ Len(fbnbuff[y]) = Words[y]
                              /\ filled[y] = 0 /\ fifo[y] = <<>> /\ taken[y] = <<>>
    <3> SUFFICES ASSUME NEW y \in FifoMethod
                 PROVE  /\ fbnbuff[y] \in Seq(Word) /\ Len(fbnbuff[y]) = Words[y]
                        /\ filled[y] = 0 /\ fifo[y] = <<>> /\ taken[y] = <<>>
      BY Zenon
    <3>1. fbnbuff[y] = [k \in 1 .. Words[y] |-> NoWord] /\ NoWord \in Word /\ Words[y] \in Nat
      BY DEF FifoInit, Lengths, NoWord, Word
    <3>2. QED
      BY <3>1 DEF FifoInit
  <2>2. FifoTypes
    BY <2>1 DEF FifoInit, FifoTypes
  <2>3. FilledInv
    <3>1. caller # "write"
      BY DEF FifoInit
    <3>2. QED
      BY Zenon, <2>1, <3>1 DEF FilledInv
  <2>4. \A y \in FifoMethod : MessagesInv(y)
    BY <2>1 DEF MessagesInv
  <2>5. CallsInv
    BY <2>1 DEF FifoInit, CallsInv
  <2>6. QED
    BY Zenon, <2>2, <2>3, <2>4, <2>5 DEF FifoInv
<1>2. FifoInv /\ [FifoNext]_fifoVars => FifoInv'
  <2> SUFFICES ASSUME FifoInv, [FifoNext]_fifoVars PROVE FifoInv'
    BY Zenon
  <2>1. CASE UNCHANGED fifoVars
    <3>1. /\ UNCHANGED <<caller, called, callee, count, written, fbnbuff, filled>>
          /\ UNCHANGED <<fifo, taken, full, dropped>>
      BY Zenon, <2>1 DEF fifoVars, adapterVars
    <3>2. FifoTypes' /\ FilledInv'
      BY Zenon, <3>1 DEF FifoInv, FifoTypes, FilledInv
    <3>3. CallsInv'
      BY Zenon, <3>1 DEF FifoInv, CallsInv, Sent, Past
    <3>4. QED
      BY Zenon, <3>1, <3>2, <3>3, AdapterStays DEF FifoInv, adapterVars
  <2>2. CASE FifoNext
    BY Zenon, <2>2, CallFifo, BusyFifo, WriteFifo, TakeFifo DEF FifoNext, Caller
  <2>3. QED
    BY Zenon, <2>1, <2>2
<1>3. FifoInv => WholeRequests
  <2> SUFFICES ASSUME FifoInv PROVE WholeRequests
    BY Zenon
  <2>1. WholeMessages
    BY Zenon DEF WholeMessages, FifoInv, MessagesInv, CallsInv, Sent, Message, Call
  <2>2. BusNeverHeld
    BY DEF BusNeverHeld, CanEnq, notFull, FifoInv, FilledInv
  <2>3. QED
    BY Zenon, <2>1, <2>2 DEF WholeRequests
<1>4. QED
  BY <1>1, <1>2, <1>3, PTL DEF FifoSpec

-----------------------------------------------------------------------------
\* The tables of a poller.

\* An element joins a table.
LEMMA TableGrows ==
  ASSUME NEW S, NEW s \in Seq(S), NEW e \in S, IsInjective(s), e \notin Range(s)
  PROVE  /\ Append(s, e) \in Seq(S)
         /\ Range(Append(s, e)) = Range(s) \cup {e}
         /\ IsInjective(Append(s, e))
         /\ Len(Append(s, e)) = Len(s) + 1
<1>1. /\ Append(s, e) \in Seq(S) /\ Len(Append(s, e)) = Len(s) + 1 /\ Len(s) \in Nat
      /\ \A i \in 1 .. Len(s) : Append(s, e)[i] = s[i]
      /\ Append(s, e)[Len(s) + 1] = e
  BY AppendProperties
<1>2. DOMAIN s = 1 .. Len(s) /\ DOMAIN Append(s, e) = 1 .. Len(s) + 1
  BY <1>1
<1>3. \A i \in 1 .. Len(s) + 1 : i \in 1 .. Len(s) \/ i = Len(s) + 1
  BY <1>1
<1>4. 1 .. Len(s) \subseteq 1 .. Len(s) + 1 /\ Len(s) + 1 \in 1 .. Len(s) + 1
  BY <1>1
<1>5. Range(Append(s, e)) = Range(s) \cup {e}
  BY Zenon, <1>1, <1>2, <1>3, <1>4 DEF Range
<1>6. IsInjective(Append(s, e))
  BY Zenon, <1>1, <1>2, <1>3 DEF IsInjective, Range
<1>7. QED
  BY Zenon, <1>1, <1>5, <1>6

\* And one leaves it.
LEMMA TableShrinks ==
  ASSUME NEW S, NEW s \in Seq(S), NEW i \in DOMAIN s, IsInjective(s)
  PROVE  /\ Without(s, i) \in Seq(S)
         /\ Range(Without(s, i)) = Range(s) \ {s[i]}
         /\ IsInjective(Without(s, i))
         /\ Len(Without(s, i)) = Len(s) - 1
<1> DEFINE n == Len(s)
           u == SubSeq(s, 1, i - 1)
           v == SubSeq(s, i + 1, n)
           r == u \o v
<1>1. n \in Nat /\ DOMAIN s = 1 .. n /\ i \in 1 .. n /\ \A k \in 1 .. n : s[k] \in S
  OBVIOUS
<1> HIDE DEF n
<1>2. u \in Seq(S) /\ Len(u) = i - 1 /\ \A k \in 1 .. i - 1 : u[k] = s[k]
  BY <1>1, SubSeqProperties
<1>3. v \in Seq(S) /\ Len(v) = n - i /\ \A k \in 1 .. n - i : v[k] = s[i + k]
  <2>1. i + 1 \in Int /\ n \in Int /\ \A k \in i + 1 .. n : s[k] \in S
    BY <1>1
  <2>2. /\ v \in Seq(S) /\ Len(v) = IF i + 1 <= n THEN n - (i + 1) + 1 ELSE 0
        /\ \A k \in 1 .. n - (i + 1) + 1 : v[k] = s[(i + 1) + k - 1]
    BY <2>1, SubSeqProperties
  <2> HIDE DEF v
  <2>3. n - (i + 1) + 1 = n - i /\ \A k \in 1 .. n - i : (i + 1) + k - 1 = i + k
    BY <1>1
  <2>4. Len(v) = n - i
    BY <1>1, <2>2, <2>3
  <2>5. \A k \in 1 .. n - i : v[k] = s[i + k]
    BY Zenon, <2>2, <2>3
  <2>6. QED
    BY Zenon, <2>2, <2>4, <2>5
<1> HIDE DEF u, v
<1>4. /\ r \in Seq(S) /\ Len(r) = n - 1
      /\ \A k \in 1 .. n - 1 : r[k] = IF k <= i - 1 THEN u[k] ELSE v[k - (i - 1)]
  <2>1. Len(u) + Len(v) = n - 1
    BY <1>1, <1>2, <1>3
  <2>2. /\ r \in Seq(S) /\ Len(r) = Len(u) + Len(v)
        /\ \A k \in 1 .. Len(u) + Len(v) : r[k] = IF k <= Len(u) THEN u[k] ELSE v[k - Len(u)]
    BY ZenonT(60), <1>2, <1>3, ConcatProperties
  <2> HIDE DEF r
  <2>3. QED
    BY Zenon, <1>2, <2>1, <2>2
<1> HIDE DEF r
<1>5. DOMAIN r = 1 .. n - 1 /\ \A k \in 1 .. n - 1 : r[k] = IF k < i THEN s[k] ELSE s[k + 1]
  <2>1. DOMAIN r = 1 .. n - 1
    BY <1>4
  <2>2. ASSUME NEW k \in 1 .. n - 1, k < i PROVE r[k] = s[k]
    BY <1>1, <1>2, <1>4, <2>2
  <2>3. ASSUME NEW k \in 1 .. n - 1, ~(k < i) PROVE r[k] = s[k + 1]
    <3>1. k - (i - 1) \in 1 .. n - i /\ i + (k - (i - 1)) = k + 1 /\ ~(k <= i - 1)
      BY <1>1, <2>3
    <3>2. QED
      BY Zenon, <1>3, <1>4, <3>1
  <2>4. QED
    BY Zenon, <2>1, <2>2, <2>3
<1>6. \A k \in 1 .. n - 1 : \E j \in 1 .. n : j # i /\ r[k] = s[j]
  BY <1>1, <1>5
<1>7. \A j \in 1 .. n : j # i => \E k \in 1 .. n - 1 : r[k] = s[j]
  <2> SUFFICES ASSUME NEW j \in 1 .. n, j # i PROVE \E k \in 1 .. n - 1 : r[k] = s[j]
    BY Zenon
  <2>1. CASE j < i
    BY <1>1, <1>5, <2>1
  <2>2. CASE j > i
    <3>1. j - 1 \in 1 .. n - 1 /\ r[j - 1] = s[j]
      BY <1>1, <1>5, <2>2
    <3>2. QED
      BY Zenon, <3>1
  <2>3. QED
    BY <1>1, <2>1, <2>2
<1>8. Range(r) = Range(s) \ {s[i]}
  <2>1. Range(r) = {r[k] : k \in 1 .. n - 1} /\ Range(s) = {s[k] : k \in 1 .. n}
    BY Zenon, <1>1, <1>5 DEF Range
  <2>2. \A j \in 1 .. n : s[j] = s[i] => j = i
    BY Zenon, <1>1 DEF IsInjective
  <2>3. \A e \in Range(r) : e \in Range(s) /\ e # s[i]
    BY <1>1, <1>6, <2>1, <2>2
  <2>4. \A e \in Range(s) : e # s[i] => e \in Range(r)
    BY Zenon, <1>7, <2>1
  <2>5. QED
    BY Zenon, <2>3, <2>4
<1>9. IsInjective(r)
  <2> SUFFICES ASSUME NEW a \in 1 .. n - 1, NEW b \in 1 .. n - 1, r[a] = r[b] PROVE a = b
    BY Zenon, <1>5 DEF IsInjective
  <2>1. \A j, k \in 1 .. n : s[j] = s[k] => j = k
    BY Zenon, <1>1 DEF IsInjective
  <2>2. a \in 1 .. n /\ a + 1 \in 1 .. n /\ b \in 1 .. n /\ b + 1 \in 1 .. n
    BY <1>1
  <2>3. QED
    BY <1>1, <1>5, <2>1, <2>2
<1>10. Without(s, i) = r
  BY Zenon DEF Without, r, u, v, n
<1>11. QED
  BY Zenon, <1>4, <1>8, <1>9, <1>10 DEF n

\* A removal loop takes out at most one element, and the one that matches if just one
\* does.
LEMMA TableRemoves ==
  ASSUME NEW S, NEW s \in Seq(S), IsInjective(s), NEW hits \in SUBSET DOMAIN s,
         NEW r \in Removed(s, hits)
  PROVE  /\ r \in Seq(S) /\ IsInjective(r) /\ Range(r) \subseteq Range(s)
         /\ \A p \in Range(s) : hits = {i \in DOMAIN s : s[i] = p} =>
              Range(r) = Range(s) \ {p} /\ Len(r) = Len(s) - 1
<1>1. CASE s = <<>>
  BY <1>1 DEF Removed, Range, IsInjective
<1>2. CASE s # <<>>
  <2>1. Len(s) \in DOMAIN s
    BY <1>2
  <2>2. PICK i \in DOMAIN s : r = Without(s, i) /\ (hits # {} => i \in hits)
    BY Zenon, <1>2, <2>1 DEF Removed
  <2>3. /\ r \in Seq(S) /\ IsInjective(r) /\ Range(r) = Range(s) \ {s[i]}
        /\ Len(r) = Len(s) - 1
    BY Zenon, <2>2, TableShrinks
  <2>4. ASSUME NEW p \in Range(s), hits = {j \in DOMAIN s : s[j] = p} PROVE s[i] = p
    <3>1. hits # {}
      BY Zenon, <2>4 DEF Range
    <3>2. QED
      BY Zenon, <2>2, <2>4, <3>1
  <2>5. QED
    BY Zenon, <2>3, <2>4
<1>3. QED
  BY Zenon, <1>1, <1>2

\* A descriptor joins the table, or is lost before its beginning.
LEMMA FdGrows ==
  ASSUME TablesInv, NEW f \in Portal \cup {SimFd}, f \notin Range(portal_fds), addFd(f)
  PROVE  /\ portal_fds' \in Seq(Portal \cup {SimFd}) /\ IsInjective(portal_fds') /\ numFds' \in Int
         /\ Range(portal_fds') \subseteq Range(portal_fds) \cup {f}
         /\ ~displaced => /\ numFds' = Len(portal_fds')
                          /\ Range(portal_fds') = Range(portal_fds) \cup {f}
<1>1. /\ portal_fds \in Seq(Portal \cup {SimFd}) /\ IsInjective(portal_fds) /\ numFds \in Int
      /\ ~displaced => numFds = Len(portal_fds)
  BY Zenon DEF TablesInv, TablesExact
<1>2. /\ Append(portal_fds, f) \in Seq(Portal \cup {SimFd})
      /\ Range(Append(portal_fds, f)) = Range(portal_fds) \cup {f}
      /\ IsInjective(Append(portal_fds, f))
      /\ Len(Append(portal_fds, f)) = Len(portal_fds) + 1
  BY Zenon, <1>1, TableGrows
<1>3. numFds' = numFds + 1 /\ numFds' \in Int
  BY <1>1 DEF addFd
<1>4. CASE numFds < 0
  <2>1. portal_fds' = portal_fds /\ displaced
    BY <1>1, <1>4 DEF addFd
  <2>2. QED
    BY Zenon, <1>1, <1>3, <2>1
<1>5. CASE ~(numFds < 0)
  <2>1. portal_fds' = Append(portal_fds, f)
    BY Zenon, <1>5 DEF addFd
  <2>2. QED
    BY Zenon, <1>1, <1>2, <1>3, <2>1
<1>6. QED
  BY Zenon, <1>4, <1>5

\* registerInstance adds a portal that was in no table,
LEMMA RegisterTables ==
  ASSUME TablesInv, NEW p \in Portal, registerInstance(p) PROVE TablesInv'
<1>1. /\ p \notin Range(portal_wrappers) /\ p \notin Range(portal_fds) /\ p # SimFd
      /\ life[p] = "new"
  BY Zenon, PortalAssumption DEF registerInstance, TablesInv, TablesExact
<1>2. /\ portal_wrappers' \in Seq(Portal) /\ IsInjective(portal_wrappers')
      /\ Range(portal_wrappers') = Range(portal_wrappers) \cup {p}
  <2>1. portal_wrappers \in Seq(Portal) /\ IsInjective(portal_wrappers)
    BY Zenon DEF TablesInv, TablesExact
  <2>2. portal_wrappers' = Append(portal_wrappers, p)
    BY Zenon DEF registerInstance
  <2>3. QED
    BY Zenon, <1>1, <2>1, <2>2, TableGrows
<1>3. /\ portal_fds' \in Seq(Portal \cup {SimFd}) /\ IsInjective(portal_fds') /\ numFds' \in Int
      /\ Range(portal_fds') \subseteq Range(portal_fds) \cup {p}
      /\ ~displaced => /\ numFds' = Len(portal_fds')
                       /\ Range(portal_fds') = IF p \in HasFd \cup HasClient
                                               THEN Range(portal_fds) \cup {p} ELSE Range(portal_fds)
  <2>1. CASE p \in HasFd \cup HasClient
    <3>1. addFd(p) /\ p \in Portal \cup {SimFd}
      BY Zenon, <2>1 DEF registerInstance
    <3>2. QED
      BY Zenon, <1>1, <2>1, <3>1, FdGrows
  <2>2. CASE p \notin HasFd \cup HasClient
    BY Zenon, <2>2 DEF registerInstance, TablesInv, TablesExact
  <2>3. QED
    BY Zenon, <2>1, <2>2
<1>4. /\ life' \in [Portal -> {"new", "live", "dead"}] /\ life'[p] = "live"
      /\ \A o \in Portal : o # p => life'[o] = life[o]
      /\ displaced' = displaced /\ mistakable' = mistakable /\ thread' = thread
  BY Zenon DEF registerInstance, TablesInv
<1>5. Kept' = Kept \cup {p}
  BY <1>1, <1>4 DEF Kept
<1>6. ~mistakable' => Range(portal_wrappers') = Kept'
  BY Zenon, <1>2, <1>4, <1>5 DEF TablesInv, TablesExact
<1>7. ~displaced' => /\ numFds' = Len(portal_fds')
                     /\ Range(portal_fds') \ {SimFd} =
                          (Kept' \cap HasFd) \cup {o \in HasClient : life'[o] # "new"}
  <2>1. {o \in HasClient : life'[o] # "new"} =
          {o \in HasClient : life[o] # "new"} \cup (HasClient \cap {p})
    BY <1>1, <1>4, PortalAssumption
  <2>2. ~displaced => Range(portal_fds) \ {SimFd} =
                        (Kept \cap HasFd) \cup {o \in HasClient : life[o] # "new"}
    BY Zenon DEF TablesInv, TablesExact
  <2>3. CASE p \in HasFd \cup HasClient
    BY <1>1, <1>3, <1>4, <1>5, <2>1, <2>2, <2>3
  <2>4. CASE p \notin HasFd \cup HasClient
    BY <1>1, <1>3, <1>4, <1>5, <2>1, <2>2, <2>4
  <2>5. QED
    BY Zenon, <2>3, <2>4
<1>8. \A o \in Range(portal_wrappers') \cup (Range(portal_fds') \ {SimFd}) : life'[o] # "new"
  <2>1. \A o \in Range(portal_wrappers) \cup (Range(portal_fds) \ {SimFd}) : o \in Portal /\ life[o] # "new"
    <3>1. Range(portal_wrappers) \subseteq Portal /\ Range(portal_fds) \subseteq Portal \cup {SimFd}
      BY DEF TablesInv, Range
    <3>2. QED
      BY Zenon, <3>1 DEF TablesInv, TablesExact
  <2>2. life'[p] # "new"
    BY <1>4
  <2>3. QED
    BY Zenon, <1>2, <1>3, <1>4, <2>1, <2>2
<1>9. thread' \in {"none", "init"} => SimFd \notin Range(portal_fds')
  BY Zenon, <1>1, <1>3, <1>4 DEF TablesInv
<1>10. QED
  BY Zenon, <1>2, <1>3, <1>4, <1>6, <1>7, <1>8, <1>9 DEF TablesInv, TablesExact

\* unregisterInstance removes one,
LEMMA UnregisterTables ==
  ASSUME TablesInv, NEW p \in Portal, unregisterInstance(p) PROVE TablesInv'
<1>1. /\ life[p] = "live" /\ p \in Handled /\ p # SimFd
      /\ p \in Kept
  BY Zenon, PortalAssumption DEF unregisterInstance, Kept
<1>2. PICK gone \in SUBSET {q \in Range(portal_wrappers) : life[q] = "dead"} :
        portal_wrappers' \in Removed(portal_wrappers, SameNumber(p, gone))
  BY Zenon DEF unregisterInstance
<1>3. /\ portal_wrappers \in Seq(Portal) /\ IsInjective(portal_wrappers)
      /\ portal_fds \in Seq(Portal \cup {SimFd}) /\ IsInjective(portal_fds) /\ numFds \in Int
      /\ SameNumber(p, gone) \in SUBSET DOMAIN portal_wrappers
  BY Zenon DEF TablesInv, TablesExact, SameNumber
<1>4. /\ portal_wrappers' \in Seq(Portal) /\ IsInjective(portal_wrappers')
      /\ Range(portal_wrappers') \subseteq Range(portal_wrappers)
      /\ p \in Range(portal_wrappers) /\ SameNumber(p, gone) = {i \in DOMAIN portal_wrappers : portal_wrappers[i] = p}
           => Range(portal_wrappers') = Range(portal_wrappers) \ {p}
  <2>1. PICK hits : hits = SameNumber(p, gone)
    BY Zenon
  <2>2. hits \in SUBSET DOMAIN portal_wrappers /\ portal_wrappers' \in Removed(portal_wrappers, hits)
    BY Zenon, <1>2, <1>3, <2>1
  <2>3. /\ portal_wrappers' \in Seq(Portal) /\ IsInjective(portal_wrappers')
        /\ Range(portal_wrappers') \subseteq Range(portal_wrappers)
        /\ \A q \in Range(portal_wrappers) :
             hits = {i \in DOMAIN portal_wrappers : portal_wrappers[i] = q} =>
               Range(portal_wrappers') = Range(portal_wrappers) \ {q}
    <3>1. PICK s, r : s = portal_wrappers /\ r = portal_wrappers'
      BY Zenon
    <3>2. s \in Seq(Portal) /\ IsInjective(s) /\ hits \in SUBSET DOMAIN s /\ r \in Removed(s, hits)
      BY Zenon, <1>3, <2>2, <3>1
    <3>3. /\ r \in Seq(Portal) /\ IsInjective(r) /\ Range(r) \subseteq Range(s)
          /\ \A q \in Range(s) : hits = {i \in DOMAIN s : s[i] = q} => Range(r) = Range(s) \ {q}
      BY ZenonT(60), <3>2, TableRemoves
    <3>4. QED
      BY Zenon, <3>1, <3>3
  <2>4. QED
    BY Zenon, <2>1, <2>3
<1>5. PICK hits : hits = {i \in DOMAIN portal_fds : portal_fds[i] = p /\ p \in HasFd}
  BY Zenon
<1>6. hits \in SUBSET DOMAIN portal_fds /\ portal_fds' \in Removed(portal_fds, hits)
  BY Zenon, <1>5 DEF unregisterInstance
<1>7. /\ portal_fds' \in Seq(Portal \cup {SimFd}) /\ IsInjective(portal_fds')
      /\ Range(portal_fds') \subseteq Range(portal_fds)
      /\ p \in Range(portal_fds) /\ p \in HasFd
           => Range(portal_fds') = Range(portal_fds) \ {p} /\ Len(portal_fds') = Len(portal_fds) - 1
  <2>1. p \in HasFd => hits = {i \in DOMAIN portal_fds : portal_fds[i] = p}
    BY Zenon, <1>5
  <2>2. QED
    BY Zenon, <1>3, <1>6, <2>1, TableRemoves
<1>8. /\ life' \in [Portal -> {"new", "live", "dead"}] /\ life'[p] = "dead"
      /\ \A o \in Portal : o # p => life'[o] = life[o]
      /\ ~displaced' => ~displaced /\ p \in HasFd
      /\ ~mistakable' => /\ ~mistakable
                         /\ \A q \in Range(portal_wrappers) \ {p} : life[q] # "dead" /\ Number[q] # Number[p]
      /\ numFds' = numFds - 1 /\ thread' = thread
  BY ZenonT(60) DEF unregisterInstance, TablesInv
<1>9. Kept' = Kept \ {p}
  BY <1>1, <1>8 DEF Kept
<1>10. ~mistakable' => Range(portal_wrappers') = Kept'
  <2> SUFFICES ASSUME ~mistakable' PROVE Range(portal_wrappers') = Kept'
    BY Zenon
  <2>1. Range(portal_wrappers) = Kept /\ p \in Range(portal_wrappers)
    BY Zenon, <1>1, <1>8 DEF TablesInv, TablesExact
  <2>2. ASSUME NEW i \in DOMAIN portal_wrappers
        PROVE  i \in SameNumber(p, gone) <=> portal_wrappers[i] = p
    <3>1. portal_wrappers[i] \in Range(portal_wrappers)
      BY Zenon DEF Range
    <3>2. CASE portal_wrappers[i] = p
      BY <1>1, <3>2 DEF SameNumber
    <3>3. CASE portal_wrappers[i] # p
      BY <1>8, <3>1, <3>3 DEF SameNumber
    <3>4. QED
      BY Zenon, <3>2, <3>3
  <2>3. SameNumber(p, gone) = {i \in DOMAIN portal_wrappers : portal_wrappers[i] = p}
    BY Zenon, <1>3, <2>2
  <2>4. QED
    BY Zenon, <1>4, <1>9, <2>1, <2>3
<1>11. ~displaced' => /\ numFds' = Len(portal_fds')
                      /\ Range(portal_fds') \ {SimFd} =
                           (Kept' \cap HasFd) \cup {o \in HasClient : life'[o] # "new"}
  <2> SUFFICES ASSUME ~displaced'
               PROVE  /\ numFds' = Len(portal_fds')
                      /\ Range(portal_fds') \ {SimFd} =
                           (Kept' \cap HasFd) \cup {o \in HasClient : life'[o] # "new"}
    BY Zenon
  <2>1. /\ numFds = Len(portal_fds) /\ p \in HasFd /\ p \notin HasClient
        /\ Range(portal_fds) \ {SimFd} = (Kept \cap HasFd) \cup {o \in HasClient : life[o] # "new"}
    BY Zenon, <1>8, PortalAssumption DEF TablesInv, TablesExact
  <2>2. p \in Range(portal_fds)
    BY Zenon, <1>1, <2>1
  <2>3. Range(portal_fds') = Range(portal_fds) \ {p} /\ Len(portal_fds') = Len(portal_fds) - 1
    BY Zenon, <1>7, <2>1, <2>2
  <2>4. {o \in HasClient : life'[o] # "new"} = {o \in HasClient : life[o] # "new"}
    BY <1>8, <2>1, PortalAssumption
  <2>5. numFds' = Len(portal_fds')
    BY Zenon, <1>8, <2>1, <2>3
  <2>6. QED
    BY <1>9, <2>1, <2>3, <2>4, <2>5
<1>12. \A o \in Range(portal_wrappers') \cup (Range(portal_fds') \ {SimFd}) : life'[o] # "new"
  <2>1. Range(portal_wrappers) \subseteq Portal /\ Range(portal_fds) \subseteq Portal \cup {SimFd}
    BY <1>3 DEF Range
  <2>2. \A o \in Range(portal_wrappers) \cup (Range(portal_fds) \ {SimFd}) : o \in Portal /\ life[o] # "new"
    BY Zenon, <2>1 DEF TablesInv, TablesExact
  <2>3. life'[p] # "new"
    BY <1>8
  <2>4. QED
    BY Zenon, <1>4, <1>7, <1>8, <2>2, <2>3
<1>13. numFds' \in Int
  BY <1>3, <1>8
<1>14. thread' \in {"none", "init"} => SimFd \notin Range(portal_fds')
  BY Zenon, <1>7, <1>8 DEF TablesInv
<1>15. QED
  BY Zenon, <1>4, <1>7, <1>8, <1>10, <1>11, <1>12, <1>13, <1>14 DEF TablesInv, TablesExact

\* the destructor of a portal without a handler leaves it in,
LEMMA DestructTables ==
  ASSUME TablesInv, NEW p \in Portal, destruct(p) PROVE TablesInv'
<1>1. /\ UNCHANGED <<portal_wrappers, portal_fds, numFds, displaced, mistakable, thread>>
      /\ life[p] = "live" /\ p \notin Handled
  BY Zenon DEF destruct, tables
<1>2. /\ life' \in [Portal -> {"new", "live", "dead"}] /\ life'[p] = "dead"
      /\ \A o \in Portal : o # p => life'[o] = life[o]
  BY Zenon DEF destruct, TablesInv
<1>3. Kept' = Kept /\ \A o \in Portal : life'[o] = "new" <=> life[o] = "new"
  BY <1>1, <1>2 DEF Kept
<1>4. {o \in HasClient : life'[o] # "new"} = {o \in HasClient : life[o] # "new"}
  BY Zenon, <1>3, PortalAssumption
<1>5. Range(portal_wrappers) \cup (Range(portal_fds) \ {SimFd}) \subseteq Portal
  BY DEF Range, TablesInv
<1>6. \A o \in Range(portal_wrappers) \cup (Range(portal_fds) \ {SimFd}) : life'[o] # "new"
  BY Zenon, <1>3, <1>5 DEF TablesInv, TablesExact
<1>7. QED
  BY Zenon, <1>1, <1>2, <1>3, <1>4, <1>6 DEF TablesInv, TablesExact

\* and portalExec_init adds the connection to the simulator.
LEMMA InitTables == ASSUME TablesInv, portalExec_init PROVE TablesInv'
<1>1. /\ UNCHANGED <<portal_wrappers, displaced, mistakable, life>> /\ thread = "init"
      /\ SimFd \notin Range(portal_fds) /\ thread' \notin {"none", "init"} /\ Kept' = Kept
  BY DEF portalExec_init, TablesInv, Kept
<1>2. CASE timed
  <2>1. addFd(SimFd) /\ SimFd \in Portal \cup {SimFd}
    BY Zenon, <1>2 DEF portalExec_init
  <2>2. /\ portal_fds' \in Seq(Portal \cup {SimFd}) /\ IsInjective(portal_fds') /\ numFds' \in Int
        /\ Range(portal_fds') \subseteq Range(portal_fds) \cup {SimFd}
        /\ ~displaced => /\ numFds' = Len(portal_fds')
                         /\ Range(portal_fds') = Range(portal_fds) \cup {SimFd}
    BY Zenon, <1>1, <2>1, FdGrows
  <2>3. QED
    BY Zenon, <1>1, <2>2 DEF TablesInv, TablesExact
<1>3. CASE ~timed
  <2>1. UNCHANGED <<portal_fds, numFds>>
    BY Zenon, <1>3 DEF portalExec_init
  <2>2. QED
    BY Zenon, <1>1, <2>1 DEF TablesInv, TablesExact
<1>4. QED
  BY Zenon, <1>2, <1>3

\* The tables hold the portals that are to be in them and their descriptors, each once,
\* whatever is constructed and destructed while the poller runs, until a portal is
\* unregistered whose number another entry has (portal_wrappers) or that has no descriptor
\* of its own (portal_fds).
THEOREM TablesAreExact == TablesSpec => []TablesExact
<1>1. TablesInit => TablesInv
  <2> SUFFICES ASSUME TablesInit PROVE TablesInv
    BY Zenon
  <2>1. Range(<<>>) = {} /\ IsInjective(<<>>)
    BY DEF Range, IsInjective
  <2>2. \A p \in Portal : life[p] = "new"
    BY Zenon DEF TablesInit
  <2>3. Kept = {} /\ {p \in HasClient : life[p] # "new"} = {}
    BY <2>2, PortalAssumption DEF Kept
  <2>4. TablesExact
    BY <2>1, <2>3 DEF TablesInit, TablesExact
  <2>5. QED
    BY <2>1, <2>4 DEF TablesInit, TablesInv
<1>2. TablesInv /\ [TablesNext]_tableVars => TablesInv'
  <2> SUFFICES ASSUME TablesInv, [TablesNext]_tableVars PROVE TablesInv'
    BY Zenon
  <2>1. ASSUME UNCHANGED <<tables, life>>, thread' \in {"none", "init"} => thread \in {"none", "init"}
        PROVE  TablesInv'
    <3>1. UNCHANGED <<portal_wrappers, portal_fds, numFds, displaced, mistakable, life>>
      BY Zenon, <2>1 DEF tables
    <3>2. QED
      BY Zenon, <2>1, <3>1 DEF TablesInv, TablesExact, Kept
  <2>2. ASSUME NEW p \in Portal,
               registerInstance(p) \/ unregisterInstance(p) \/ destruct(p) \/ Indicate(p)
        PROVE  TablesInv'
    BY Zenon, <2>1, <2>2, RegisterTables, UnregisterTables, DestructTables DEF Indicate
  <2>3. CASE portalExec_start \/ portalExec_stop \/ portalExec_poll_error \/ crash
    <3>1. UNCHANGED <<tables, life>> /\ (thread' \in {"none", "init"} => thread \in {"none", "init"})
      BY <2>3 DEF portalExec_start, portalExec_stop, portalExec_poll_error, crash
    <3>2. QED
      BY Zenon, <2>1, <3>1
  <2>4. CASE portalExec \/ portalExec_poll \/ portalExec_event
    <3>1. UNCHANGED <<tables, life>> /\ (thread' \in {"none", "init"} => thread \in {"none", "init"})
      BY <2>4 DEF portalExec, portalExec_poll, portalExec_event
    <3>2. QED
      BY Zenon, <2>1, <3>1
  <2>5. CASE UNCHANGED tableVars
    BY Zenon, <2>1, <2>5 DEF tableVars
  <2>6. QED
    BY Zenon, <2>2, <2>3, <2>4, <2>5, InitTables DEF TablesNext, Poller
<1>3. TablesInv => TablesExact
  BY Zenon DEF TablesInv
<1>4. QED
  BY <1>1, <1>2, <1>3, PTL DEF TablesSpec

-----------------------------------------------------------------------------
\* The ring in shared memory.

\* What the proofs use of the rounding: a padded message fits in reqwords words.
LEMMA Sizes ==
  /\ reqwords \in Nat /\ reqwords >= 2
  /\ \A l \in Lens : /\ l \in Nat /\ l >= 1
                     /\ Even(l) \in Nat /\ l <= Even(l) /\ Even(l) <= reqwords
                     /\ l % 2 = 1 => l < Even(l)
  /\ Limit \in Nat /\ Limit > 2 * reqwords + 4
BY ReqSizeAssumption, LensAssumption, LimitAssumption DEF Even, reqwords

\* A new offset is in the ring and leaves room for a message.
LEMMA Increment ==
  ASSUME NEW p \in Nat, p >= START
  PROVE  /\ increment_shared(p) \in START .. Limit - 1
         /\ increment_shared(p) + reqwords < Limit
BY Sizes DEF increment_shared, START

-----------------------------------------------------------------------------
\* The reader's number and the ring are unchanged: so is the layout.
LEMMA SameLayout ==
  ASSUME Layout, UNCHANGED <<wr, rd, ns, words, at>>, First' = First
  PROVE  Layout'
BY Zenon DEF Layout, Unread

\* The ring starts empty, both offsets at its start.
LEMMA InitRing == Init => RingInv
<1> SUFFICES ASSUME Init PROVE RingInv
  BY Zenon
<1> USE DEF Init, RingInit
<1>1. TypeOK
  BY Sizes, MaxMsgAssumption DEF TypeOK, RingTypeOK, Zero, START, Addr
<1>2. First = 1 /\ Unread = {}
  BY DEF First, Unread
<1>3. Layout
  BY <1>2, Sizes, MaxMsgAssumption DEF Layout, START
<1>4. Contents
  BY Zenon, <1>2 DEF Contents
<1>5. QED
  BY Zenon, <1>1, <1>3, <1>4 DEF RingInv

\* A call only settles the length of the next message.
LEMMA CallRing ==
  ASSUME RingInv, NEW l \in Lens, call(l), UNCHANGED readerVars
  PROVE  RingInv'
<1> USE DEF call, readerVars
<1>1. First' = First /\ Unread' = Unread
  BY Zenon DEF First, Unread
<1>2. TypeOK'
  BY Zenon DEF RingInv, TypeOK, RingTypeOK
<1>3. Layout'
  BY Zenon, <1>1, SameLayout DEF RingInv
<1>4. Contents'
  BY Zenon, <1>1 DEF RingInv, Contents
<1>5. QED
  BY Zenon, <1>1, <1>2, <1>3, <1>4 DEF RingInv, TypeOK, RingTypeOK

\* Past busywait_shared the room it saw is there.
LEMMA BusywaitRing ==
  ASSUME RingInv, busywait_shared, UNCHANGED readerVars
  PROVE  RingInv'
<1> USE DEF busywait_shared, readerVars
<1>1. First' = First /\ Unread' = Unread
  BY Zenon DEF First, Unread
<1>2. TypeOK'
  BY Zenon DEF RingInv, TypeOK, RingTypeOK
<1>3. Layout'
  BY Zenon, <1>1, SameLayout DEF RingInv
<1>4. Contents'
  BY Zenon, <1>1 DEF RingInv, Contents
<1>5. QED
  BY Zenon, <1>1, <1>2, <1>3, <1>4 DEF RingInv, EnqReady

\* The numbers of the unread messages, of the writer and of the memory.
LEMMA UnreadFacts ==
  ASSUME RingInv, NEW n \in Unread
  PROVE  /\ n \in Nat /\ n >= 1 /\ n <= ns /\ n \in First .. ns + 1
         /\ at[n] \in Nat /\ at[n] >= START /\ at[n] + reqwords < Limit
         /\ words[n] \in Lens /\ words[n] \in Nat /\ words[n] >= 1
         /\ Even(words[n]) \in Nat /\ words[n] <= Even(words[n])
         /\ Even(words[n]) <= reqwords
<1>1. /\ ns \in Nat /\ ns <= MaxMsg /\ First \in 1 .. ns + 1
      /\ at \in [1 .. MaxMsg + 1 -> START .. Limit - 1]
  BY MaxMsgAssumption DEF RingInv, TypeOK, RingTypeOK, Layout
<1>2. n \in Nat /\ n >= 1 /\ n <= ns /\ n \in First .. ns + 1 /\ n \in 1 .. MaxMsg + 1
  BY <1>1, MaxMsgAssumption DEF Unread
<1>3. at[n] \in START .. Limit - 1
  BY Zenon, <1>1, <1>2
<1>4. at[n] \in Nat /\ at[n] >= START
  BY <1>3, Sizes DEF START
<1>5. words[n] \in Lens /\ at[n] + reqwords < Limit
  BY Zenon, <1>2 DEF RingInv, Layout
<1>6. QED
  BY Zenon, <1>2, <1>4, <1>5, Sizes

\* The writer has a message of known length, and its offset leaves room for it.
LEMMA WriterFacts ==
  ASSUME RingInv, wpc # "idle"
  PROVE  /\ wr \in Nat /\ wr >= START /\ wr + reqwords < Limit
         /\ wlen \in Lens /\ wlen \in Nat /\ wlen >= 1
         /\ Even(wlen) \in Nat /\ wlen <= Even(wlen) /\ Even(wlen) <= reqwords
         /\ wlen % 2 = 1 => wlen < Even(wlen)
         /\ ns \in Nat /\ First \in 1 .. ns + 1 /\ reqwords \in Nat /\ reqwords >= 2
         /\ \A i : i \in Addr <=> i \in Nat /\ i < Limit
<1>1. ns \in Nat /\ First \in 1 .. ns + 1 /\ wr \in START .. Limit - 1 /\ wlen \in Lens
  BY MaxMsgAssumption DEF RingInv, TypeOK, RingTypeOK, Layout
<1>2. wr \in Nat /\ wr >= START
  BY <1>1, Sizes DEF START
<1>3. wr + reqwords < Limit
  BY <1>1 DEF RingInv, Layout
<1>4. \A i : i \in Addr <=> i \in Nat /\ i < Limit
  BY Sizes DEF Addr
<1>5. QED
  BY Zenon, <1>1, <1>2, <1>3, <1>4, Sizes

\* The room busywait_shared waits for is disjoint from every unread message.
LEMMA RoomIsFree ==
  ASSUME RingInv, wpc \in {"marshall", "header", "publish"}
  PROVE  /\ wr + Even(wlen) < Limit
         /\ \A n \in Unread :
              wr + Even(wlen) <= at[n] \/ at[n] + Even(words[n]) <= wr
<1>1. /\ wr \in Nat /\ rd \in Nat /\ wr < Limit /\ rd < Limit
      /\ wlen \in Lens /\ ns \in Nat /\ First \in 1 .. ns + 1
      /\ EnqReady(wr, rd) /\ at[ns + 1] = wr /\ at[First] = rd
  BY Sizes DEF RingInv, TypeOK, RingTypeOK, Layout, START
<1>2. wr + reqwords < Limit
  BY <1>1 DEF RingInv, Layout
<1>3. ASSUME NEW n \in Unread
      PROVE  wr + Even(wlen) <= at[n] \/ at[n] + Even(words[n]) <= wr
  <2>1. n \in First .. ns + 1 /\ ns + 1 \in First .. ns + 1 /\ n < ns + 1
    BY <1>1 DEF Unread
  <2>2. /\ at[n] < rd => wr < rd
        /\ (at[n] < rd <=> wr < rd) => at[n] + Even(words[n]) <= wr
    BY <1>1, <2>1 DEF RingInv, Layout
  <2>3. at[n] \in Nat
    BY Zenon, UnreadFacts
  <2>4. CASE at[n] < rd <=> wr < rd
    BY Zenon, <2>2, <2>4
  <2>5. CASE at[n] >= rd /\ wr < rd
    BY <1>1, <2>3, <2>5, Sizes DEF EnqReady
  <2>6. QED
    BY <1>1, <2>2, <2>3, <2>4, <2>5
<1>4. QED
  BY <1>1, <1>2, <1>3, Sizes

\* A write that stays clear of the unread messages keeps them.
LEMMA UnreadKept ==
  ASSUME RingInv,
         \A n \in Unread : \A i \in Addr :
            at[n] <= i /\ i < at[n] + words[n] => mem'[i] = mem[i],
         NEW n \in Unread
  PROVE  /\ mem'[at[n]] = <<n, 0>>
         /\ \A k \in 1 .. words[n] - 1 : mem'[at[n] + k] = <<n, k>>
<1>1. /\ words[n] \in Nat /\ words[n] >= 1 /\ at[n] \in Nat
      /\ at[n] + words[n] < Limit
  BY UnreadFacts, Sizes
<1>2. at[n] \in Addr /\ \A k \in 1 .. words[n] - 1 : at[n] + k \in Addr
  BY <1>1, Sizes DEF Addr
<1>3. /\ mem[at[n]] = <<n, 0>>
      /\ \A k \in 1 .. words[n] - 1 : mem[at[n] + k] = <<n, k>>
  BY Zenon DEF RingInv, Contents
<1>4. mem'[at[n]] = mem[at[n]]
  BY <1>1, <1>2
<1>5. ASSUME NEW k \in 1 .. words[n] - 1 PROVE mem'[at[n] + k] = <<n, k>>
  <2>1. at[n] + k \in Addr /\ at[n] <= at[n] + k /\ at[n] + k < at[n] + words[n]
    BY <1>1, <1>2
  <2>2. mem'[at[n] + k] = mem[at[n] + k]
    BY Zenon, <2>1
  <2>3. QED
    BY Zenon, <1>3, <2>2
<1>6. QED
  BY Zenon, <1>3, <1>4, <1>5

\* Writing the arguments touches no unread message.
LEMMA MarshallRing ==
  ASSUME RingInv, marshall, UNCHANGED readerVars
  PROVE  RingInv'
<1>1. /\ wpc = "marshall" /\ wpc' = "header"
      /\ UNCHANGED <<wr, rd, wlen, ns, words, at, rpc, hdr, ng>>
      /\ mem \in [Addr -> Nat \X Nat]
  BY Zenon DEF marshall, readerVars, RingInv, TypeOK, RingTypeOK
<1>2. First' = First /\ Unread' = Unread
  BY Zenon, <1>1 DEF First, Unread
<1>3. /\ wr + Even(wlen) < Limit
      /\ \A n \in Unread :
           wr + Even(wlen) <= at[n] \/ at[n] + Even(words[n]) <= wr
  BY Zenon, <1>1, RoomIsFree
<1>4. /\ mem' \in [Addr -> Nat \X Nat]
      /\ \A i \in Addr : mem'[i] =
           IF wr < i /\ (i < wr + wlen \/ i = wr + 1)
           THEN <<ns + 1, i - wr>> ELSE mem[i]
  <2>1. \A i \in Addr : wr < i => <<ns + 1, i - wr>> \in Nat \X Nat
    BY <1>1, WriterFacts
  <2>2. QED
    BY Zenon, <1>1, <2>1 DEF marshall
<1>5. TypeOK'
  BY Zenon, <1>1, <1>4 DEF RingInv, TypeOK, RingTypeOK
<1>6. Layout'
  BY Zenon, <1>1, <1>2, SameLayout DEF RingInv
<1>7. \A n \in Unread : \A i \in Addr :
         at[n] <= i /\ i < at[n] + words[n] => mem'[i] = mem[i]
  <2> SUFFICES ASSUME NEW n \in Unread, NEW i \in Addr,
                      at[n] <= i, i < at[n] + words[n]
               PROVE  ~(wr < i /\ (i < wr + wlen \/ i = wr + 1))
    BY Zenon, <1>4
  <2>1. /\ words[n] \in Nat /\ at[n] \in Nat /\ Even(words[n]) \in Nat
        /\ words[n] <= Even(words[n])
    BY Zenon, UnreadFacts
  <2>2. /\ i \in Nat /\ wr \in Nat /\ wlen \in Nat /\ Even(wlen) \in Nat
        /\ wlen <= Even(wlen) /\ wlen >= 1
    BY Zenon, <1>1, WriterFacts
  <2>3. Even(wlen) >= 2
    BY <2>2 DEF Even
  <2>4. QED
    BY <1>3, <2>1, <2>2, <2>3
<1>8. \A k \in 1 .. wlen - 1 : mem'[wr + k] = <<ns + 1, k>>
  <2> SUFFICES ASSUME NEW k \in 1 .. wlen - 1 PROVE mem'[wr + k] = <<ns + 1, k>>
    BY Zenon
  <2>1. /\ wr \in Nat /\ wlen \in Nat /\ Even(wlen) \in Nat /\ wlen <= Even(wlen)
        /\ Limit \in Nat
    BY Zenon, <1>1, WriterFacts, Sizes
  <2>2. /\ wr + k \in Nat /\ wr + k < Limit
        /\ wr < wr + k /\ wr + k < wr + wlen /\ (wr + k) - wr = k
    BY <1>3, <2>1
  <2>3. wr + k \in Addr
    BY Zenon, <1>1, <2>2, WriterFacts
  <2>4. QED
    BY Zenon, <1>4, <2>2, <2>3
<1>9. Contents'
  <2>1. ASSUME NEW n \in Unread
        PROVE  /\ mem'[at[n]] = <<n, 0>>
               /\ \A k \in 1 .. words[n] - 1 : mem'[at[n] + k] = <<n, k>>
    BY Zenon, <1>7, UnreadKept
  <2>2. QED
    BY Zenon, <1>1, <1>2, <1>8, <2>1 DEF Contents
<1>10. QED
  BY Zenon, <1>1, <1>2, <1>5, <1>6, <1>9 DEF RingInv, EnqReady

\* Writing the header and the padding touches no unread message.
LEMMA HeaderRing ==
  ASSUME RingInv, send_header, UNCHANGED readerVars
  PROVE  RingInv'
<1>1. /\ wpc = "header" /\ wpc' = "publish"
      /\ UNCHANGED <<wr, rd, wlen, ns, at, rpc, hdr, ng>>
      /\ words' = [words EXCEPT ![ns + 1] = wlen]
  BY Zenon DEF send_header, readerVars
<1>2. /\ wr \in Nat /\ wr >= START /\ wlen \in Lens /\ ns \in Nat /\ ns < MaxMsg
      /\ mem \in [Addr -> Nat \X Nat]
      /\ words \in [1 .. MaxMsg -> Lens \union {0}] /\ First \in 1 .. ns + 1
  BY <1>1, Sizes DEF RingInv, TypeOK, RingTypeOK, Layout, START
<1>3. /\ wr + Even(wlen) < Limit
      /\ \A n \in Unread :
           wr + Even(wlen) <= at[n] \/ at[n] + Even(words[n]) <= wr
  BY Zenon, <1>1, RoomIsFree
<1>4. First' = First /\ Unread' = Unread
  BY Zenon, <1>1 DEF First, Unread
<1>5. words'[ns + 1] = wlen /\ \A n \in 1 .. ns : words'[n] = words[n]
  BY <1>1, <1>2, MaxMsgAssumption
<1>6. /\ mem' \in [Addr -> Nat \X Nat]
      /\ wr \in Addr => mem'[wr] = <<ns + 1, 0>>
      /\ \A i \in Addr : i # wr /\ (i = wr + wlen => wlen % 2 # 1)
                           => mem'[i] = mem[i]
  BY <1>2 DEF send_header, Pad
<1>7. TypeOK'
  <2>1. words' \in [1 .. MaxMsg -> Lens \union {0}]
    BY Zenon, <1>1, <1>2
  <2>2. QED
    BY Zenon, <1>1, <1>6, <2>1 DEF RingInv, TypeOK, RingTypeOK
<1>8. Layout'
  <2>1. \A n \in Unread : words'[n] = words[n]
    BY <1>2, <1>5 DEF Unread
  <2>2. \A i, j \in First .. ns + 1 : i < j => words'[i] = words[i]
    BY <1>2, <1>5
  <2>3. QED
    BY Zenon, <1>1, <1>4, <2>1, <2>2 DEF RingInv, Layout, increment_shared
<1>9. \A n \in Unread : \A i \in Addr :
         at[n] <= i /\ i < at[n] + words[n] => mem'[i] = mem[i]
  <2> SUFFICES ASSUME NEW n \in Unread, NEW i \in Addr,
                      at[n] <= i, i < at[n] + words[n]
               PROVE  i # wr /\ (i = wr + wlen => wlen % 2 # 1)
    BY Zenon, <1>6
  <2>1. /\ words[n] \in Nat /\ at[n] \in Nat /\ Even(words[n]) \in Nat
        /\ words[n] <= Even(words[n])
    BY Zenon, UnreadFacts
  <2>2. /\ i \in Nat /\ wlen \in Nat /\ Even(wlen) \in Nat
        /\ wlen <= Even(wlen) /\ wlen >= 1
        /\ wlen % 2 = 1 => wlen < Even(wlen)
    BY Zenon, <1>1, WriterFacts
  <2>3. CASE wr + Even(wlen) <= at[n]
    <3>1. wr < i /\ wr + Even(wlen) <= i
      BY <1>2, <2>1, <2>2, <2>3
    <3>2. QED
      BY <1>2, <2>2, <3>1
  <2>4. CASE at[n] + Even(words[n]) <= wr
    <3>1. i < wr
      BY <1>2, <2>1, <2>2, <2>4
    <3>2. QED
      BY <1>2, <2>2, <3>1
  <2>5. QED
    BY Zenon, <1>3, <2>3, <2>4
<1>10. /\ mem'[wr] = <<ns + 1, 0>>
       /\ \A k \in 1 .. wlen - 1 : mem'[wr + k] = <<ns + 1, k>>
  <2>1. /\ wlen \in Nat /\ Even(wlen) \in Nat /\ wlen <= Even(wlen)
        /\ Limit \in Nat /\ \A i : i \in Addr <=> i \in Nat /\ i < Limit
    BY Zenon, <1>1, WriterFacts, Sizes
  <2>2. wr \in Addr
    <3>1. wr < Limit
      BY <1>2, <1>3, <2>1
    <3>2. QED
      BY Zenon, <1>2, <2>1, <3>1
  <2>3. ASSUME NEW k \in 1 .. wlen - 1 PROVE mem'[wr + k] = <<ns + 1, k>>
    <3>1. wr + k \in Nat /\ wr + k < Limit /\ wr + k # wr /\ wr + k # wr + wlen
      BY <1>2, <1>3, <2>1
    <3>2. mem[wr + k] = <<ns + 1, k>>
      BY Zenon, <1>1 DEF RingInv, Contents
    <3>3. QED
      BY Zenon, <1>6, <2>1, <3>1, <3>2
  <2>4. QED
    BY Zenon, <1>6, <2>2, <2>3
<1>11. Contents'
  <2>1. ASSUME NEW n \in Unread
        PROVE  /\ mem'[at[n]] = <<n, 0>>
               /\ \A k \in 1 .. words'[n] - 1 : mem'[at[n] + k] = <<n, k>>
    <3>1. words'[n] = words[n]
      BY <1>2, <1>5 DEF Unread
    <3>2. QED
      BY Zenon, <1>9, <3>1, UnreadKept
  <2>2. QED
    BY Zenon, <1>1, <1>4, <1>5, <1>10, <2>1 DEF Contents
<1>12. QED
  BY Zenon, <1>1, <1>4, <1>7, <1>8, <1>11 DEF RingInv, EnqReady

\* Publishing: the message joins the unread ones; the next one starts behind it,
\* or at the start of the ring, which is then behind the reader.
LEMMA PublishRing ==
  ASSUME RingInv, send_publish, UNCHANGED readerVars
  PROVE  RingInv'
<1>1. /\ wpc = "publish" /\ wpc' = "terminate"
      /\ UNCHANGED <<mem, rd, wlen, words, rpc, hdr, ng>>
      /\ wr' = increment_shared(wr + Even(wlen))
      /\ ns' = ns + 1
      /\ at' = [at EXCEPT ![ns + 2] = wr']
  BY Zenon DEF send_publish, readerVars
<1>2. /\ wr \in Nat /\ wr >= START /\ wr + reqwords < Limit /\ wlen \in Lens
      /\ Even(wlen) \in Nat /\ Even(wlen) <= reqwords /\ Even(wlen) >= 1
      /\ reqwords \in Nat /\ Limit \in Nat
      /\ ns \in Nat /\ First \in 1 .. ns + 1
  BY <1>1, WriterFacts, Sizes
<1>3. /\ ns < MaxMsg /\ words[ns + 1] = wlen /\ EnqReady(wr, rd)
      /\ rd \in START .. Limit - 1
      /\ at \in [1 .. MaxMsg + 1 -> START .. Limit - 1]
  BY Zenon, <1>1 DEF RingInv, Contents, TypeOK, RingTypeOK
<1>4. First' = First /\ Unread' = First .. ns + 1
  BY Zenon, <1>1 DEF First, Unread
<1>5. wr' \in START .. Limit - 1 /\ wr' + reqwords < Limit
  BY <1>1, <1>2, Increment DEF START
<1>6. /\ at' \in [1 .. MaxMsg + 1 -> START .. Limit - 1]
      /\ at'[ns + 2] = wr'
      /\ \A n \in 1 .. ns + 1 : at'[n] = at[n]
  <2>1. ns + 2 \in 1 .. MaxMsg + 1
    BY <1>2, <1>3, MaxMsgAssumption
  <2>2. \A n \in 1 .. ns + 1 : n # ns + 2 /\ n \in 1 .. MaxMsg + 1
    BY <1>2, <1>3, MaxMsgAssumption
  <2>3. QED
    BY Zenon, <1>1, <1>3, <1>5, <2>1, <2>2
<1>7. TypeOK'
  <2>1. ns' \in 0 .. MaxMsg
    BY <1>1, <1>2, <1>3, MaxMsgAssumption
  <2>2. QED
    BY Zenon, <1>1, <1>5, <1>6, <2>1 DEF RingInv, TypeOK, RingTypeOK
<1>8. /\ at[ns + 1] = wr /\ at[First] = rd
      /\ \A n \in First .. ns : words[n] \in Lens
      /\ \A n \in First .. ns + 1 : at[n] + reqwords < Limit
      /\ \A n \in First .. ns : at[n + 1] = increment_shared(at[n] + Even(words[n]))
      /\ \A i, j \in First .. ns + 1 :
           i < j => /\ at[i] < rd => at[j] < rd
                    /\ (at[i] < rd <=> at[j] < rd) => at[i] + Even(words[i]) <= at[j]
  BY Zenon DEF RingInv, Layout, Unread
\* The new offset against the offset of this message.
<1>9. /\ wr < rd => wr' < rd /\ wr + Even(wlen) <= wr'
      /\ wr >= rd => (wr' < rd \/ wr + Even(wlen) <= wr')
  <2>1. rd \in Nat /\ rd >= START /\ rd < Limit /\ START = 4
    BY <1>3, Sizes DEF START
  <2>2. CASE wr < rd
    BY <1>1, <1>2, <1>3, <2>1, <2>2 DEF EnqReady, increment_shared
  <2>3. CASE wr >= rd
    BY <1>1, <1>2, <1>3, <2>1, <2>3 DEF EnqReady, increment_shared
  <2>4. QED
    BY Zenon, <1>2, <2>1, <2>2, <2>3
<1>10. Layout'
  <2>1. ASSUME NEW n \in First .. ns + 1 PROVE words[n] \in Lens
    <3>1. n = ns + 1 \/ n \in First .. ns
      BY <1>2
    <3>2. QED
      BY Zenon, <1>2, <1>3, <1>8, <3>1
  <2>2. ASSUME NEW n \in First .. ns + 2 PROVE at'[n] + reqwords < Limit
    <3>1. CASE n = ns + 2
      BY Zenon, <1>5, <1>6, <3>1
    <3>2. CASE n \in First .. ns + 1
      <4>1. n \in 1 .. ns + 1
        BY <1>2, <3>2
      <4>2. QED
        BY Zenon, <1>6, <1>8, <3>2, <4>1
    <3>3. QED
      BY <1>2, <3>1, <3>2
  <2>3. \A n \in First .. ns + 1 :
          at'[n + 1] = increment_shared(at'[n] + Even(words[n]))
    <3> SUFFICES ASSUME NEW n \in First .. ns + 1
                 PROVE  at'[n + 1] = increment_shared(at'[n] + Even(words[n]))
      BY Zenon
    <3>1. CASE n = ns + 1
      BY <1>1, <1>2, <1>3, <1>6, <1>8, <3>1
    <3>2. CASE n \in First .. ns
      <4>1. n \in 1 .. ns + 1 /\ n + 1 \in 1 .. ns + 1
        BY <1>2, <3>2
      <4>2. at'[n] = at[n] /\ at'[n + 1] = at[n + 1]
        BY Zenon, <1>6, <4>1
      <4>3. QED
        BY Zenon, <1>8, <3>2, <4>2
    <3>3. QED
      BY <1>2, <3>1, <3>2
  <2>4. ASSUME NEW i \in First .. ns + 2, NEW j \in First .. ns + 2, i < j
        PROVE  /\ at'[i] < rd => at'[j] < rd
               /\ (at'[i] < rd <=> at'[j] < rd) => at'[i] + Even(words[i]) <= at'[j]
    <3>1. i \in First .. ns + 1 /\ i \in 1 .. ns + 1 /\ at'[i] = at[i]
      BY <1>2, <1>6, <2>4
    <3>2. CASE j \in First .. ns + 1
      <4>1. at'[j] = at[j]
        BY <1>2, <1>6, <3>2
      <4>2. QED
        BY Zenon, <1>8, <2>4, <3>1, <3>2, <4>1
    <3>3. CASE j = ns + 2
      <4>1. at'[j] = wr' /\ wr' \in Nat /\ rd \in Nat
        BY <1>3, <1>5, <1>6, <3>3, Sizes DEF START
      <4>2. CASE i = ns + 1
        BY <1>2, <1>3, <1>8, <1>9, <3>1, <4>1, <4>2
      <4>3. CASE i \in First .. ns
        <5>1. /\ at[i] < rd => wr < rd
              /\ (at[i] < rd <=> wr < rd) => at[i] + Even(words[i]) <= wr
          BY <1>2, <1>8, <4>3
        <5>2. /\ at[i] \in Nat /\ Even(words[i]) \in Nat
          BY Zenon, <4>3, UnreadFacts DEF Unread
        <5>3. QED
          BY <1>2, <1>9, <3>1, <4>1, <5>1, <5>2
      <4>4. QED
        BY <1>2, <3>1, <4>2, <4>3
    <3>4. QED
      BY <1>2, <3>2, <3>3
  <2>5. First \in 1 .. ns + 2 /\ at'[First] = rd /\ at'[ns + 2] = wr'
    BY <1>2, <1>6, <1>8
  <2>6. ns' + 1 = ns + 2
    BY <1>1, <1>2
  <2>7. QED
    BY <1>1, <1>4, <2>1, <2>2, <2>3, <2>4, <2>5, <2>6 DEF Layout, increment_shared
<1>11. Contents'
  <2>1. ASSUME NEW n \in First .. ns + 1
        PROVE  /\ mem[at'[n]] = <<n, 0>>
               /\ \A k \in 1 .. words[n] - 1 : mem[at'[n] + k] = <<n, k>>
    <3>1. at'[n] = at[n]
      BY <1>2, <1>6
    <3>2. CASE n = ns + 1
      BY Zenon, <1>1, <1>3, <1>8, <3>1, <3>2 DEF RingInv, Contents
    <3>3. CASE n \in First .. ns
      BY Zenon, <3>1, <3>3 DEF RingInv, Contents, Unread
    <3>4. QED
      BY <1>2, <3>2, <3>3
  <2>2. QED
    BY Zenon, <1>1, <1>4, <2>1 DEF Contents
<1>12. rpc' # "idle" => First' <= ns' /\ hdr' = <<First', 0>>
  BY <1>1, <1>2, <1>4 DEF RingInv
<1>13. QED
  BY Zenon, <1>1, <1>2, <1>7, <1>10, <1>11, <1>12 DEF RingInv

\* The zero header is written where no unread message is.
LEMMA EndIsFree ==
  ASSUME RingInv, wpc = "terminate", NEW n \in Unread
  PROVE  wr < at[n] \/ at[n] + Even(words[n]) <= wr
<1>1. /\ at[n] < rd => wr < rd
      /\ (at[n] < rd <=> wr < rd) => at[n] + Even(words[n]) <= wr
  <2>1. n \in First .. ns + 1 /\ ns + 1 \in First .. ns + 1 /\ n < ns + 1
    BY UnreadFacts, WriterFacts
  <2>2. QED
    BY Zenon, <2>1 DEF RingInv, Layout
<1>2. wr \in Nat /\ at[n] \in Nat
  BY Zenon, UnreadFacts, WriterFacts
<1>3. rd \in Nat
  BY Sizes DEF RingInv, TypeOK, RingTypeOK, START
<1>4. QED
  BY <1>1, <1>2, <1>3

\* Writing the zero header touches no unread message.
LEMMA TerminateRing ==
  ASSUME RingInv, send_terminate, UNCHANGED readerVars
  PROVE  RingInv'
<1>1. /\ wpc = "terminate" /\ wpc' = "idle"
      /\ UNCHANGED <<wr, rd, wlen, ns, words, at, rpc, hdr, ng>>
      /\ mem' = [mem EXCEPT ![wr] = Zero] /\ mem \in [Addr -> Nat \X Nat]
  BY Zenon DEF send_terminate, readerVars, RingInv, TypeOK, RingTypeOK
<1>2. First' = First /\ Unread' = Unread
  BY Zenon, <1>1 DEF First, Unread
<1>3. mem' \in [Addr -> Nat \X Nat] /\ \A i \in Addr : i # wr => mem'[i] = mem[i]
  BY Zenon, <1>1 DEF Zero
<1>4. TypeOK'
  BY Zenon, <1>1, <1>3 DEF RingInv, TypeOK, RingTypeOK
<1>5. Layout'
  BY Zenon, <1>1, <1>2, SameLayout DEF RingInv
<1>6. \A n \in Unread : \A i \in Addr :
         at[n] <= i /\ i < at[n] + words[n] => mem'[i] = mem[i]
  <2> SUFFICES ASSUME NEW n \in Unread, NEW i \in Addr,
                      at[n] <= i, i < at[n] + words[n]
               PROVE  i # wr
    BY Zenon, <1>3
  <2>1. /\ words[n] \in Nat /\ at[n] \in Nat /\ Even(words[n]) \in Nat
        /\ words[n] <= Even(words[n])
    BY Zenon, UnreadFacts
  <2>2. wr < at[n] \/ at[n] + Even(words[n]) <= wr
    BY Zenon, <1>1, EndIsFree
  <2>3. i \in Nat /\ wr \in Nat
    BY Zenon, <1>1, WriterFacts
  <2>4. QED
    BY <2>1, <2>2, <2>3
<1>7. Contents'
  <2>1. ASSUME NEW n \in Unread
        PROVE  /\ mem'[at[n]] = <<n, 0>>
               /\ \A k \in 1 .. words[n] - 1 : mem'[at[n] + k] = <<n, k>>
    BY Zenon, <1>6, UnreadKept
  <2>2. QED
    BY Zenon, <1>1, <1>2, <2>1 DEF Contents
<1>8. QED
  BY Zenon, <1>1, <1>2, <1>4, <1>5, <1>7 DEF RingInv

\* The reader takes the header of the message at its offset.
LEMMA EventRing == RingInv /\ event_shared => RingInv'
<1> SUFFICES ASSUME RingInv, event_shared PROVE RingInv'
  BY Zenon
<1>1. /\ rpc = "idle" /\ rpc' = "handler" /\ rd # wr /\ hdr' = mem[rd]
      /\ UNCHANGED <<mem, wr, rd, wpc, wlen, ns, words, at, ng>>
  BY Zenon DEF event_shared, ringVars
<1>2. First' = First /\ Unread' = Unread
  BY Zenon, <1>1 DEF First, Unread
<1>3. ns \in Nat /\ First \in 1 .. ns + 1 /\ at[First] = rd /\ at[ns + 1] = wr
  BY MaxMsgAssumption DEF RingInv, TypeOK, RingTypeOK, Layout
<1>4. First <= ns /\ First \in Unread /\ First \in Nat
  BY <1>1, <1>3 DEF Unread
<1>5. hdr' = <<First, 0>>
  BY Zenon, <1>1, <1>3, <1>4 DEF RingInv, Contents
<1>6. TypeOK'
  BY <1>1, <1>4, <1>5 DEF RingInv, TypeOK, RingTypeOK
<1>7. Layout'
  BY Zenon, <1>1, <1>2, SameLayout DEF RingInv
<1>8. Contents'
  BY Zenon, <1>1, <1>2 DEF RingInv, Contents
<1>9. QED
  BY Zenon, <1>1, <1>2, <1>4, <1>5, <1>6, <1>7, <1>8 DEF RingInv, EnqReady

\* What the handler does: it counts the message at the reader's offset, whose
\* header is no padding, and stays there.
LEMMA HandlerFacts ==
  ASSUME RingInv, handler
  PROVE  /\ rpc = "handler" /\ rpc' = "advance"
         /\ UNCHANGED <<mem, wr, rd, wpc, wlen, ns, words, at, hdr>>
         /\ First = ng + 1 /\ First \in Unread /\ ng \in Nat /\ ng < ns /\ ns <= MaxMsg
         /\ ns \in Nat /\ hdr = <<ng + 1, 0>> /\ HdrWords(hdr) = words[ng + 1]
         /\ at[ng + 1] = rd
         /\ ng' = ng + 1
         /\ got' = [got EXCEPT ![ng + 1] =
                      [k \in 0 .. words[ng + 1] - 1 |->
                         IF k = 0 THEN hdr ELSE mem[rd + k]]]
<1>1. /\ rpc = "handler" /\ rpc' = "advance"
      /\ UNCHANGED <<mem, wr, rd, wpc, wlen, ns, words, at, hdr>>
  BY Zenon DEF handler, ringVars
<1>2. ng \in Nat /\ ns \in Nat /\ ns <= MaxMsg /\ MaxMsg \in Nat
  BY MaxMsgAssumption DEF RingInv, TypeOK, RingTypeOK
<1>3. First = ng + 1
  BY Zenon, <1>1 DEF First
<1>4. First <= ns /\ hdr = <<First, 0>> /\ at[First] = rd
  BY Zenon, <1>1 DEF RingInv, Layout
<1>5. hdr # Pad /\ ng # MaxMsg /\ First \in Unread /\ ng < ns
  BY <1>2, <1>3, <1>4 DEF Pad, Unread
<1>6. hdr \in (1 .. MaxMsg) \X {0} /\ hdr[1] = ng + 1
  BY <1>2, <1>3, <1>4
<1>7. HdrWords(hdr) = words[ng + 1]
  BY Zenon, <1>6 DEF HdrWords
<1>8. /\ ng' = ng + 1
      /\ got' = [got EXCEPT ![ng + 1] =
                   [k \in 0 .. words[ng + 1] - 1 |->
                      IF k = 0 THEN hdr ELSE mem[rd + k]]]
  BY Zenon, <1>5, <1>7 DEF handler
<1>9. QED
  BY Zenon, <1>1, <1>2, <1>3, <1>4, <1>5, <1>7, <1>8

\* Handling the message counts it, and leaves the ring alone.
LEMMA HandlerRing == RingInv /\ handler => RingInv'
<1> SUFFICES ASSUME RingInv, handler PROVE RingInv'
  BY Zenon
<1>1. First' = First /\ Unread' = Unread
  BY Zenon, HandlerFacts DEF First, Unread
<1>2. ng' \in 0 .. MaxMsg
  BY HandlerFacts, MaxMsgAssumption
<1>3. TypeOK'
  BY Zenon, <1>2, HandlerFacts DEF RingInv, TypeOK, RingTypeOK
<1>4. Layout'
  BY Zenon, <1>1, HandlerFacts, SameLayout DEF RingInv
<1>5. Contents'
  <2>1. /\ UNCHANGED <<mem, wr, wpc, wlen, ns, words, at>>
        /\ Contents
    BY Zenon, HandlerFacts DEF RingInv
  <2>2. QED
    BY Zenon, <1>1, <2>1 DEF Contents
<1>6. First' <= ns' /\ hdr' = <<First', 0>>
  BY <1>1, HandlerFacts
<1>7. QED
  BY Zenon, <1>3, <1>4, <1>5, <1>6, HandlerFacts DEF RingInv, EnqReady

\* Room for the writer does not shrink when the reader moves up on its side.
LEMMA MoreRoom ==
  ASSUME NEW w \in Nat, NEW r \in Nat, NEW s \in Nat, r <= s,
         w < s <=> w < r, EnqReady(w, r)
  PROVE  EnqReady(w, s)
<1>1. reqwords \in Nat /\ Limit \in Nat
  BY Zenon, Sizes
<1>2. CASE w < r
  <2>1. w < s /\ ~(w >= r) /\ ~(w >= s)
    BY <1>2
  <2>2. r - w > 2 * reqwords
    BY Zenon, <2>1 DEF EnqReady
  <2>3. s - w > 2 * reqwords
    BY <1>1, <2>2
  <2>4. QED
    BY Zenon, <2>1, <2>3 DEF EnqReady
<1>3. CASE w >= r
  <2>1. w >= s
    BY <1>3
  <2>2. Limit - (w - r) - 4 > 2 * reqwords
    BY Zenon, <1>3 DEF EnqReady
  <2>3. Limit - (w - s) - 4 > 2 * reqwords
    BY <1>1, <2>2
  <2>4. QED
    BY Zenon, <2>1, <2>3 DEF EnqReady
<1>4. QED
  BY <1>2, <1>3

\* The reader goes on to the next message; the room the writer saw only grows.
LEMMA AdvanceRing == RingInv /\ advance => RingInv'
<1> SUFFICES ASSUME RingInv, advance PROVE RingInv'
  BY Zenon
<1>1. /\ rpc = "advance" /\ rpc' = "idle"
      /\ UNCHANGED <<mem, wr, wpc, wlen, ns, words, at, hdr, ng>>
      /\ rd' = increment_shared(rd + Even(HdrWords(hdr)))
  BY Zenon DEF advance, writerVars
<1> DEFINE f == First
<1>2. /\ f = ng /\ First' = f + 1 /\ ns \in Nat /\ ns <= MaxMsg /\ MaxMsg \in Nat
      /\ ng \in Nat
  BY <1>1, MaxMsgAssumption DEF First, RingInv, TypeOK, RingTypeOK
<1>3. f \in 1 .. ns /\ hdr = <<f, 0>>
  BY <1>1, <1>2 DEF RingInv, Layout
<1> HIDE DEF f
<1>4. /\ at[ns + 1] = wr /\ at[f] = rd
      /\ \A n \in f .. ns : words[n] \in Lens
      /\ \A n \in f .. ns + 1 : at[n] + reqwords < Limit
      /\ \A n \in f .. ns : at[n + 1] = increment_shared(at[n] + Even(words[n]))
      /\ \A i, j \in f .. ns + 1 :
           i < j => /\ at[i] < rd => at[j] < rd
                    /\ (at[i] < rd <=> at[j] < rd) => at[i] + Even(words[i]) <= at[j]
  BY Zenon DEF RingInv, Layout, Unread, f
<1>5. /\ \A n \in f .. ns + 1 : at[n] \in Nat /\ at[n] >= START /\ at[n] < Limit
      /\ \A n \in f .. ns : Even(words[n]) \in Nat /\ Even(words[n]) >= 1
  <2>1. at \in [1 .. MaxMsg + 1 -> START .. Limit - 1]
    BY Zenon DEF RingInv, TypeOK, RingTypeOK
  <2>2. ASSUME NEW n \in f .. ns + 1
        PROVE  at[n] \in Nat /\ at[n] >= START /\ at[n] < Limit
    <3>1. n \in 1 .. MaxMsg + 1
      BY <1>2, <1>3
    <3>2. at[n] \in START .. Limit - 1
      BY Zenon, <2>1, <3>1
    <3>3. QED
      BY <3>2, Sizes DEF START
  <2>3. ASSUME NEW n \in f .. ns PROVE Even(words[n]) \in Nat /\ Even(words[n]) >= 1
    BY <1>4, Sizes
  <2>4. QED
    BY Zenon, <2>2, <2>3
<1>6. HdrWords(hdr) = words[f]
  BY <1>2, <1>3 DEF HdrWords
<1>7. rd' = at[f + 1] /\ f \in f .. ns + 1 /\ f + 1 \in f .. ns + 1 /\ f \in Nat
  <2>1. f \in f .. ns /\ f \in f .. ns + 1 /\ f + 1 \in f .. ns + 1 /\ f \in Nat
    BY <1>2, <1>3
  <2>2. QED
    BY Zenon, <1>1, <1>4, <1>6, <2>1
<1>8. rd \in Nat /\ rd' \in Nat /\ rd >= START /\ rd' >= START /\ rd < Limit /\ rd' < Limit
  BY Zenon, <1>4, <1>5, <1>7
<1>9. rd' >= rd => rd + Even(words[f]) <= rd'
  BY <1>4, <1>7, <1>8
<1>10. Unread' = (f + 1) .. ns /\ Unread = f .. ns
  BY Zenon, <1>1, <1>2 DEF Unread, f
<1>11. ASSUME NEW i \in f + 1 .. ns + 1
       PROVE  /\ i \in f .. ns + 1 /\ i \in Nat
              /\ rd' >= rd => (at[i] < rd' <=> at[i] < rd)
              /\ rd' < rd => at[i] < rd /\ at[i] >= rd'
  <2>1. i \in f .. ns + 1 /\ i \in Nat
    BY <1>3
  <2>2. CASE i = f + 1
    BY <1>5, <1>7, <1>8, <2>1, <2>2
  <2>3. CASE i > f + 1
    <3>1. /\ at[f + 1] < rd => at[i] < rd
          /\ (at[f + 1] < rd <=> at[i] < rd) => at[f + 1] + Even(words[f + 1]) <= at[i]
      BY Zenon, <1>4, <1>7, <2>1, <2>3
    <3>2. at[i] \in Nat /\ Even(words[f + 1]) \in Nat
      <4>1. f + 1 \in f .. ns
        BY <1>2, <1>3, <2>1, <2>3
      <4>2. QED
        BY Zenon, <1>5, <2>1, <4>1
    <3>3. QED
      BY <1>7, <1>8, <2>1, <3>1, <3>2
  <2>4. QED
    BY <1>7, <2>1, <2>2, <2>3
<1>12. TypeOK'
  <2>1. rd' \in START .. Limit - 1
    BY <1>8, Sizes DEF START
  <2>2. QED
    BY Zenon, <1>1, <2>1 DEF RingInv, TypeOK, RingTypeOK
<1>13. Layout'
  <2>1. \A n \in f + 1 .. ns : words[n] \in Lens
    BY <1>3, <1>4
  <2>2. \A n \in f + 1 .. ns + 1 : at[n] + reqwords < Limit
    BY <1>3, <1>4
  <2>3. \A n \in f + 1 .. ns : at[n + 1] = increment_shared(at[n] + Even(words[n]))
    BY <1>3, <1>4
  <2>4. ASSUME NEW i \in f + 1 .. ns + 1, NEW j \in f + 1 .. ns + 1, i < j
        PROVE  /\ at[i] < rd' => at[j] < rd'
               /\ (at[i] < rd' <=> at[j] < rd') => at[i] + Even(words[i]) <= at[j]
    <3>1. /\ i \in f .. ns + 1 /\ j \in f .. ns + 1
          /\ at[i] < rd => at[j] < rd
          /\ (at[i] < rd <=> at[j] < rd) => at[i] + Even(words[i]) <= at[j]
      BY Zenon, <1>4, <1>11, <2>4
    <3>2. at[i] \in Nat /\ at[j] \in Nat
      BY Zenon, <1>5, <3>1
    <3>3. CASE rd' >= rd
      BY Zenon, <1>11, <3>1, <3>3
    <3>4. CASE rd' < rd
      BY <1>8, <1>11, <3>1, <3>2, <3>4
    <3>5. QED
      BY <1>8, <3>3, <3>4
  <2>5. f + 1 \in 1 .. ns + 1
    BY <1>2, <1>3
  <2>6. QED
    BY <1>1, <1>2, <1>4, <1>7, <1>10, <2>1, <2>2, <2>3, <2>4, <2>5
       DEF Layout, increment_shared
<1>14. Contents'
  <2>1. Unread' \subseteq Unread
    BY <1>3, <1>10
  <2>2. QED
    BY Zenon, <1>1, <2>1 DEF RingInv, Contents
<1>15. EnqReady(wr, rd) => EnqReady(wr, rd')
  <2>1. /\ wr \in Nat /\ wr >= START
        /\ rd' >= rd => (wr < rd' <=> wr < rd)
        /\ rd' < rd => wr < rd /\ wr >= rd'
    <3>1. ns + 1 \in f + 1 .. ns + 1
      BY <1>2, <1>3
    <3>2. QED
      BY Zenon, <1>4, <1>5, <1>11, <3>1
  <2>2. START = 4 /\ reqwords \in Nat /\ Limit \in Nat
    BY Zenon, Sizes DEF START
  <2>3. CASE rd' >= rd
    BY Zenon, <1>8, <2>1, <2>3, MoreRoom
  <2>4. CASE rd' < rd
    <3>1. rd' = START
      BY <1>1, <1>3, <1>4, <1>5, <1>6, <1>7, <1>8, <2>4 DEF increment_shared
    <3>2. QED
      BY <1>8, <2>1, <2>2, <2>4, <3>1 DEF EnqReady
  <2>5. QED
    BY <1>8, <2>3, <2>4
<1>16. QED
  BY Zenon, <1>1, <1>12, <1>13, <1>14, <1>15 DEF RingInv

-----------------------------------------------------------------------------
\* RingInv is an invariant of the ring.
THEOREM RingCorrect == Spec => []RingInv
<1>1. RingInv /\ [Next]_vars => RingInv'
  <2> SUFFICES ASSUME RingInv, [Next]_vars PROVE RingInv'
    BY Zenon
  <2>1. ASSUME NEW l \in Lens, call(l), UNCHANGED readerVars PROVE RingInv'
    BY Zenon, <2>1, CallRing
  <2>2. CASE WriterStep
    BY Zenon, <2>2, BusywaitRing, MarshallRing, HeaderRing, PublishRing, TerminateRing
       DEF WriterStep, Writer, send_shared
  <2>3. CASE Reader
    BY Zenon, <2>3, EventRing, HandlerRing, AdvanceRing DEF Reader
  <2>4. CASE UNCHANGED vars
    <3>1. UNCHANGED <<mem, wr, rd, wpc, wlen, ns, words, at, rpc, hdr, ng>>
      BY Zenon, <2>4 DEF vars, ringVars, readerVars
    <3>2. First' = First /\ Unread' = Unread
      BY Zenon, <3>1 DEF First, Unread
    <3>3. TypeOK' /\ Contents'
      BY Zenon, <3>1, <3>2 DEF RingInv, TypeOK, RingTypeOK, Contents
    <3>4. Layout'
      BY Zenon, <3>1, <3>2, SameLayout DEF RingInv
    <3>5. QED
      BY Zenon, <3>1, <3>2, <3>3, <3>4 DEF RingInv, EnqReady
  <2>5. QED
    BY Zenon, <2>1, <2>2, <2>3, <2>4 DEF Next
<1>2. QED
  BY <1>1, InitRing, PTL DEF Spec

\* The type invariant: both offsets stay in the ring.
THEOREM TypeCorrect == Spec => []TypeOK
<1>1. RingInv => TypeOK
  BY Zenon DEF RingInv
<1>2. QED
  BY <1>1, RingCorrect, PTL

\* The writer never touches what is still to be read (busywait_shared,
\* send_shared).
THEOREM NeverOverwrites == Spec => []NoOverwrite
<1>1. RingInv => NoOverwrite
  BY Zenon, RoomIsFree, EndIsFree DEF NoOverwrite
<1>2. QED
  BY <1>1, RingCorrect, PTL

\* The ring implements the channel: event_shared hands every message that
\* send_shared published to the handler, whole, once and in order.
THEOREM RingIsChannel == Spec => ImplementsChannel
<1>1. Init => Channel!Init
  BY Zenon DEF Init, RingInit, Channel!Init
<1>2. RingInv /\ [Next]_vars => [Channel!Next]_Channel!vars
  <2> SUFFICES ASSUME RingInv, [Next]_vars PROVE [Channel!Next]_Channel!vars
    BY Zenon
  <2> USE DEF Channel!vars
  <2>1. ASSUME NEW l \in Lens, call(l), UNCHANGED readerVars
        PROVE  UNCHANGED Channel!vars
    BY Zenon, <2>1 DEF call, readerVars
  <2>2. CASE WriterStep
    <3>1. CASE busywait_shared \/ marshall \/ send_terminate
      BY Zenon, <2>2, <3>1 DEF WriterStep, readerVars, busywait_shared, marshall, send_terminate
    <3>2. CASE send_header
      <4>1. wlen \in Lens /\ ns < MaxMsg
        BY Zenon, <3>2 DEF send_header, RingInv
      <4>2. Channel!Settle(wlen)
        BY Zenon, <2>2, <3>2, <4>1 DEF WriterStep, readerVars, send_header, Channel!Settle
      <4>3. QED
        BY Zenon, <4>1, <4>2 DEF Channel!Next
    <3>3. CASE send_publish
      <4>1. ns < MaxMsg
        BY Zenon, <3>3 DEF send_publish, RingInv
      <4>2. Channel!Send
        BY Zenon, <2>2, <3>3, <4>1 DEF WriterStep, readerVars, send_publish, Channel!Send
      <4>3. QED
        BY Zenon, <4>2 DEF Channel!Next
    <3>4. QED
      BY Zenon, <2>2, <3>1, <3>2, <3>3 DEF WriterStep, Writer, send_shared
  <2>3. CASE event_shared \/ advance
    BY Zenon, <2>3 DEF event_shared, advance, ringVars, writerVars
  <2>4. CASE handler
    <3>1. /\ ng < ns /\ ng' = ng + 1 /\ UNCHANGED <<words, ns>>
          /\ got' = [got EXCEPT ![ng + 1] =
                       [k \in 0 .. words[ng + 1] - 1 |->
                          IF k = 0 THEN hdr ELSE mem[rd + k]]]
      BY Zenon, <2>4, HandlerFacts
    <3>2. ASSUME NEW k \in 0 .. words[ng + 1] - 1
          PROVE  (IF k = 0 THEN hdr ELSE mem[rd + k]) = <<ng + 1, k>>
      <4>1. /\ hdr = <<ng + 1, 0>> /\ ng + 1 \in Unread /\ at[ng + 1] = rd
        BY Zenon, <2>4, HandlerFacts
      <4>2. \A m \in 1 .. words[ng + 1] - 1 : mem[rd + m] = <<ng + 1, m>>
        BY Zenon, <4>1 DEF RingInv, Contents
      <4>3. words[ng + 1] \in Nat
        BY Zenon, <4>1, UnreadFacts
      <4>4. k = 0 \/ k \in 1 .. words[ng + 1] - 1
        BY <4>3
      <4>5. QED
        BY Zenon, <4>1, <4>2, <4>4
    <3>3. [k \in 0 .. words[ng + 1] - 1 |-> IF k = 0 THEN hdr ELSE mem[rd + k]]
            = Channel!Message(ng + 1, words[ng + 1])
      BY Zenon, <3>2 DEF Channel!Message
    <3>4. Channel!Receive
      BY Zenon, <3>1, <3>3 DEF Channel!Receive
    <3>5. QED
      BY Zenon, <3>4 DEF Channel!Next
  <2>5. CASE UNCHANGED vars
    BY Zenon, <2>5 DEF vars, ringVars, readerVars
  <2>6. QED
    BY Zenon, <2>1, <2>2, <2>3, <2>4, <2>5 DEF Next, Reader
<1>3. QED
  BY <1>1, <1>2, RingCorrect, PTL DEF Spec, ImplementsChannel, Channel!Spec

=============================================================================
