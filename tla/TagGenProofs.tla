----------------------------- MODULE TagGenProofs -----------------------------
(***************************************************************************)
(* Proofs about bsv/CompletionBuffer.bsv as modelled in TagGen, for every  *)
(* number of tags, every FIFO depth and either schedule of portB.          *)
(***************************************************************************)
EXTENDS TagGen, FiniteSetTheorems, SequenceTheorems, TLAPS

\* The SMT solver gets half a minute for a leaf; a leaf for Zenon says so.
USE SMTT(30)

-----------------------------------------------------------------------------
\* The ring.

\* The successor of a tag is a tag.
LEMMA SuccType == \A p \in Tag : Succ(p) \in Tag
BY NumTagsAssumption DEF Succ, Tag

\* Distances on the ring are below its size, and zero only between equals.
LEMMA DistType ==
  \A p, q \in Tag : Dist(p, q) \in 0 .. NumTags - 1 /\ (Dist(p, q) = 0 <=> p = q)
BY NumTagsAssumption DEF Dist, Tag

\* Moving the far pointer adds it to the interval, when the ring is not full.
LEMMA GrowRing ==
  ASSUME NEW p \in Tag, NEW q \in Tag, Succ(q) # p, NEW t \in Tag
  PROVE  Dist(p, t) < Dist(p, Succ(q)) <=> Dist(p, t) < Dist(p, q) \/ t = q
BY NumTagsAssumption DEF Dist, Succ, Tag

\* Moving the near pointer removes it from the interval, when it is not empty.
LEMMA ShrinkRing ==
  ASSUME NEW p \in Tag, NEW q \in Tag, p # q, NEW t \in Tag
  PROVE  Dist(Succ(p), t) < Dist(Succ(p), q) <=> Dist(p, t) < Dist(p, q) /\ t # p
BY NumTagsAssumption DEF Dist, Succ, Tag

-----------------------------------------------------------------------------
\* The window of issued tags.

\* Any set of tags is finite.
LEMMA TagsFinite == \A S \in SUBSET Tag : IsFiniteSet(S)
<1>1. IsFiniteSet(Tag)
  BY FS_Interval, NumTagsAssumption DEF Tag
<1>2. QED
  BY Zenon, <1>1, FS_Subset

\* head_ptr is never in the window, so fewer than NumTags tags are.
LEMMA WindowBounded ==
  ASSUME TypeOK
  PROVE  /\ head_ptr \notin Window
         /\ Window \subseteq Tag
         /\ \A S \in SUBSET Window : Cardinality(S) \in 0 .. NumTags - 1
<1>1. head_ptr \notin Window /\ Window \subseteq Tag
  BY DistType DEF Window, TypeOK
<1>2. IsFiniteSet(Tag) /\ Cardinality(Tag) = NumTags
  BY FS_Interval, NumTagsAssumption DEF Tag
<1>3. /\ IsFiniteSet(Tag \ {head_ptr})
      /\ Cardinality(Tag \ {head_ptr}) = NumTags - 1
  BY Zenon, <1>2, FS_RemoveElement DEF TypeOK
<1>4. ASSUME NEW S \in SUBSET Window
      PROVE  Cardinality(S) \in 0 .. NumTags - 1
  <2>1. S \subseteq Tag \ {head_ptr}
    BY Zenon, <1>1
  <2>2. IsFiniteSet(S) /\ Cardinality(S) <= NumTags - 1
    BY <2>1, <1>3, FS_Subset
  <2>3. Cardinality(S) \in Nat
    BY Zenon, <2>2, FS_CardinalityType
  <2>4. QED
    BY <2>2, <2>3, NumTagsAssumption
<1>5. QED
  BY Zenon, <1>1, <1>4

\* While a written return waits, the oldest tag is in the window.
LEMMA TailInWindow ==
  ASSUME IInv, comp_state # 0
  PROVE  inited /\ tail_ptr # head_ptr /\ tail_ptr \in Window
<1>1. Written # {}
  BY Zenon, FS_EmptySet DEF IInv
<1>2. PICK t \in Tag : inited /\ Dist(tail_ptr, t) < Dist(tail_ptr, head_ptr)
  BY Zenon, <1>1 DEF Written, Window
<1>3. tail_ptr # head_ptr /\ Dist(tail_ptr, tail_ptr) = 0
      /\ Dist(tail_ptr, head_ptr) > 0
  BY <1>2, DistType, NumTagsAssumption DEF IInv, TypeOK
<1>4. QED
  BY Zenon, <1>2, <1>3 DEF Window, IInv, TypeOK

-----------------------------------------------------------------------------
\* The inductive invariant, one lemma per rule or method.

\* Nothing has been issued or returned after reset.
LEMMA InitIInv == Init => IInv
<1> SUFFICES ASSUME Init PROVE IInv
  BY Zenon
<1>1. Window = {} /\ Written = {}
  BY Zenon DEF Init, Window, Written
<1>2. Cardinality(Written) = 0
  BY Zenon, <1>1, FS_EmptySet
<1>3. TypeOK
  <2>1. << >> \in Seq(Tag) /\ << >> \in Seq({"out", "back"}) /\ Len(<< >>) = 0
    BY Zenon, EmptySeq
  <2>2. 0 \in Tag /\ 0 \in 0 .. NumTags /\ 0 <= FifoDepth /\ 0 <= OutFIFODepth
    BY NumTagsAssumption, FifoDepthAssumption DEF Tag, OutFIFODepth
  <2>3. QED
    BY Zenon, <2>1, <2>2 DEF Init, TypeOK
<1>4. QED
  BY <1>1, <1>2, <1>3 DEF Init, IInv

\* Clearing the BRAM (rule init) leaves the ring empty.
LEMMA InitRuleIInv == IInv /\ init => IInv'
<1> SUFFICES ASSUME IInv, init PROVE IInv'
  BY Zenon
<1>1. TypeOK'
  BY Zenon, SuccType DEF IInv, TypeOK, init
<1>2. Window = {} /\ Written = {}
  BY Zenon DEF Window, Written, init
<1>3. Window' = {} /\ Written' = {}
  <2>1. inited' => head_ptr' = tail_ptr'
    BY Zenon DEF init, IInv
  <2>2. QED
    BY <2>1, <1>1, DistType DEF Window, Written, TypeOK
<1>4. QED
  BY Zenon, <1>1, <1>2, <1>3 DEF IInv, init

\* Polling the BRAM (complete_rule0) reads the tag now at tail_ptr.
LEMMA PollIInv == IInv /\ complete_rule0 => IInv'
<1> SUFFICES ASSUME IInv, complete_rule0 PROVE IInv'
  BY Zenon
<1> USE DEF complete_rule0
<1>1. portB = << >> /\ portB' = <<Poll(tail_ptr)>>
  <2>1. portB \in Seq({"out", "back"}) /\ Len(portB) < 1
    BY Zenon DEF PortBReady, OutFIFODepth, IInv, TypeOK
  <2>2. portB = << >>
    BY <2>1, EmptySeq
  <2>3. QED
    BY <2>2
<1>2. TypeOK'
  BY <1>1 DEF IInv, TypeOK, OutFIFODepth, Poll
<1>3. Window' = Window /\ Written' = Written
  BY Zenon DEF Window, Written
<1>4. inited
  BY Zenon, TailInWindow
<1>5. QED
  BY <1>1, <1>2, <1>3, <1>4 DEF IInv, Poll

\* A poll that finds the tag still out only clears the response.
LEMMA PollAgainIInv == IInv /\ complete_rule1_wait => IInv'
<1> SUFFICES ASSUME IInv, complete_rule1_wait PROVE IInv'
  BY Zenon
<1> USE DEF complete_rule1_wait
<1>1. portB' = << >>
  BY DEF IInv, TypeOK, OutFIFODepth
<1>2. TypeOK'
  BY <1>1 DEF IInv, TypeOK, OutFIFODepth
<1>3. Window' = Window /\ Written' = Written
  BY Zenon DEF Window, Written
<1>4. QED
  BY Zenon, <1>1, <1>2, <1>3 DEF IInv

\* A poll that finds the oldest tag back removes exactly that tag.
LEMMA CompleteIInv == IInv /\ complete_rule1_done => IInv'
<1> SUFFICES ASSUME IInv, complete_rule1_done PROVE IInv'
  BY Zenon
<1> USE DEF complete_rule1_done
<1>1. portB' = << >> /\ portB[1] = "back"
  BY DEF IInv, TypeOK, OutFIFODepth
<1>2. inited /\ tail_ptr # head_ptr /\ tail_ptr \in Window
  BY Zenon, TailInWindow
<1>3. tail_ptr \in Written
  BY Zenon, <1>1, <1>2 DEF IInv, Written
<1>4. TypeOK'
  <2>1. tail_ptr' \in Tag /\ comp_state' \in 0 .. NumTags
    BY SuccType, NumTagsAssumption DEF IInv, TypeOK
  <2>2. comp_fifo' \in Seq(Tag) /\ Len(comp_fifo') <= FifoDepth
    BY FifoDepthAssumption DEF IInv, TypeOK
  <2>3. portB' \in Seq({"out", "back"}) /\ Len(portB') <= OutFIFODepth
    <3>1. << >> \in Seq({"out", "back"}) /\ Len(<< >>) = 0
      BY Zenon, EmptySeq
    <3>2. 0 <= OutFIFODepth
      BY DEF OutFIFODepth
    <3>3. QED
      BY <1>1, <3>1, <3>2, Zenon
  <2>4. QED
    BY Zenon, <2>1, <2>2, <2>3 DEF IInv, TypeOK
<1>5. Window' = Window \ {tail_ptr}
  BY Zenon, <1>2, ShrinkRing DEF Window, IInv, TypeOK
<1>6. Written' = Written \ {tail_ptr}
  BY Zenon, <1>5 DEF Written
<1>7. IsFiniteSet(Written)
  BY Zenon, TagsFinite DEF Written, Window
<1>8. comp_state' = Cardinality(Written')
  BY Zenon, <1>3, <1>6, <1>7, FS_RemoveElement DEF IInv
<1>9. tail_ptr \notin held /\ tail_ptr \notin Range(retFifo)
  BY Zenon, <1>3 DEF IInv, Written
<1>10. \A i \in DOMAIN retFifo : retFifo[i] # tail_ptr
  BY Zenon, <1>9 DEF Range
<1>11. QED
  BY Zenon, <1>1, <1>2, <1>4, <1>5, <1>8, <1>9, <1>10 DEF IInv

\* Taking the first element of a sequence without duplicates.
LEMMA TailDistinct ==
  ASSUME NEW S, NEW s \in Seq(S), s # << >>,
         \A i, j \in DOMAIN s : s[i] = s[j] => i = j
  PROVE  /\ Tail(s) \in Seq(S) /\ Len(Tail(s)) = Len(s) - 1
         /\ \A i, j \in DOMAIN Tail(s) : Tail(s)[i] = Tail(s)[j] => i = j
         /\ Head(s) \in Range(s)
         /\ Range(Tail(s)) = Range(s) \ {Head(s)}
<1>1. /\ Tail(s) \in Seq(S) /\ Len(Tail(s)) = Len(s) - 1
      /\ \A i \in 1 .. Len(s) - 1 : Tail(s)[i] = s[i + 1]
      /\ Len(s) \in Nat \ {0} /\ Head(s) = s[1]
      /\ DOMAIN s = 1 .. Len(s) /\ DOMAIN Tail(s) = 1 .. Len(s) - 1
  BY HeadTailProperties, LenProperties, EmptySeq
<1>2. \A i, j \in DOMAIN Tail(s) : Tail(s)[i] = Tail(s)[j] => i = j
  BY <1>1
<1>3. Head(s) \in Range(s)
  BY <1>1 DEF Range
<1>4. Range(Tail(s)) \subseteq Range(s) \ {Head(s)}
  BY <1>1 DEF Range
<1>5. ASSUME NEW x \in Range(s) \ {Head(s)} PROVE x \in Range(Tail(s))
  <2>1. PICK i \in 1 .. Len(s) : x = s[i]
    BY <1>1 DEF Range
  <2>2. i - 1 \in DOMAIN Tail(s) /\ Tail(s)[i - 1] = x
    BY <1>1, <2>1
  <2>3. QED
    BY Zenon, <2>2 DEF Range
<1>6. QED
  BY Zenon, <1>1, <1>2, <1>3, <1>4, <1>5

\* Adding a new element at the end of a sequence without duplicates.
LEMMA AppendDistinct ==
  ASSUME NEW S, NEW s \in Seq(S), NEW e \in S, e \notin Range(s),
         \A i, j \in DOMAIN s : s[i] = s[j] => i = j
  PROVE  /\ Append(s, e) \in Seq(S) /\ Len(Append(s, e)) = Len(s) + 1
         /\ \A i, j \in DOMAIN Append(s, e) : Append(s, e)[i] = Append(s, e)[j] => i = j
         /\ Range(Append(s, e)) = Range(s) \union {e}
<1>1. /\ Append(s, e) \in Seq(S) /\ Len(Append(s, e)) = Len(s) + 1
      /\ \A i \in 1 .. Len(s) : Append(s, e)[i] = s[i]
      /\ Append(s, e)[Len(s) + 1] = e
      /\ Len(s) \in Nat
      /\ DOMAIN s = 1 .. Len(s) /\ DOMAIN Append(s, e) = 1 .. Len(s) + 1
  BY AppendProperties, LenProperties
<1>2. \A i \in DOMAIN s : s[i] # e
  BY Zenon DEF Range
<1>3. \A i, j \in DOMAIN Append(s, e) : Append(s, e)[i] = Append(s, e)[j] => i = j
  BY <1>1, <1>2
<1>4. Range(Append(s, e)) \subseteq Range(s) \union {e}
  BY <1>1 DEF Range
<1>5. Range(s) \union {e} \subseteq Range(Append(s, e))
  BY <1>1 DEF Range
<1>6. QED
  BY Zenon, <1>1, <1>3, <1>4, <1>5

\* Writing a return (ret) moves one tag from retFifo to Written.
LEMMA RetIInv == IInv /\ ret => IInv'
<1> SUFFICES ASSUME IInv, ret PROVE IInv'
  BY Zenon
<1> DEFINE t == Head(retFifo)
<1> USE DEF ret
<1>1. /\ retFifo' \in Seq(Tag) /\ Len(retFifo') = Len(retFifo) - 1
      /\ \A i, j \in DOMAIN retFifo' : retFifo'[i] = retFifo'[j] => i = j
      /\ t \in Range(retFifo)
      /\ Range(retFifo') = Range(retFifo) \ {t}
  BY Zenon, TailDistinct DEF IInv, TypeOK
<1>2. Range(retFifo) \subseteq Window \ held
  BY Zenon DEF IInv, Range
<1>3. \A i \in DOMAIN retFifo' : retFifo'[i] \in Window \ held
  BY Zenon, <1>1, <1>2 DEF Range
<1>4. portB = << >>
  BY EmptySeq DEF PortBReady, OutFIFODepth, IInv, TypeOK
<1>5. Window' = Window /\ Window \subseteq Tag
  BY Zenon DEF Window
<1>6. t \in tags /\ Written' = Written \union {t} /\ t \notin Written
  BY <1>1, <1>2, <1>5 DEF Written, IInv
<1>7. /\ comp_state \in 0 .. NumTags - 1
      /\ comp_state' = comp_state + 1 /\ comp_state' = Cardinality(Written')
  <2>1. IsFiniteSet(Written) /\ Written \in SUBSET Window
    BY Zenon, TagsFinite, <1>5 DEF Written
  <2>2. comp_state \in 0 .. NumTags - 1
    BY Zenon, <2>1, WindowBounded DEF IInv
  <2>3. Cardinality(Written') = Cardinality(Written) + 1
    BY Zenon, <1>6, <2>1, FS_AddElement
  <2>4. QED
    BY <2>2, <2>3, NumTagsAssumption DEF IInv
<1>8. TypeOK'
  <2>1. Len(retFifo') <= FifoDepth
    BY <1>1, FifoDepthAssumption, LenProperties DEF IInv, TypeOK
  <2>2. comp_state' \in 0 .. NumTags
    BY <1>7, NumTagsAssumption
  <2>3. QED
    BY Zenon, <1>1, <2>1, <2>2 DEF IInv, TypeOK
<1>9. \A u \in Window' : u \in tags' <=> u \in held' \/ u \in Range(retFifo')
  BY Zenon, <1>1, <1>2, <1>5 DEF IInv
<1>10. inited
  BY Zenon, <1>1, <1>2 DEF Window
<1>11. QED
  BY Zenon, <1>1, <1>3, <1>4, <1>5, <1>7, <1>8, <1>9, <1>10 DEF IInv

\* Issuing a tag (getTag) adds it to the window, marked and held.
LEMMA GetIInv == IInv /\ getTag => IInv'
<1> SUFFICES ASSUME IInv, getTag PROVE IInv'
  BY Zenon
<1> USE DEF getTag, CanGet
<1>1. TypeOK'
  BY Zenon, SuccType DEF IInv, TypeOK
<1>2. Window' = Window \union {head_ptr} /\ head_ptr \notin Window
  <2>1. Window' = Window \union {head_ptr}
    BY Zenon, GrowRing DEF Window, IInv, TypeOK
  <2>2. QED
    BY Zenon, <2>1, WindowBounded DEF IInv
<1>3. Written' = Written
  BY Zenon, <1>2 DEF Written
<1>4. \A i \in DOMAIN retFifo : retFifo[i] # head_ptr
  BY Zenon, <1>2 DEF IInv
<1>5. head_ptr \notin Range(retFifo)
  BY Zenon, <1>4 DEF Range
<1>6. portB # << >> => tail_ptr # head_ptr
  BY Zenon, TailInWindow DEF IInv
<1>7. QED
  BY Zenon, <1>1, <1>2, <1>3, <1>4, <1>5, <1>6 DEF IInv

\* Giving a held tag back (returnTag) moves it from held to retFifo.
LEMMA ReturnIInv == \A t \in held : IInv /\ returnTag(t) => IInv'
<1> SUFFICES ASSUME NEW t \in held, IInv, returnTag(t) PROVE IInv'
  BY Zenon
<1> USE DEF returnTag
<1>1. t \in Tag /\ t \in Window
  BY Zenon DEF IInv, TypeOK
<1>2. t \notin Range(retFifo)
  BY Zenon DEF IInv, Range
<1>3. /\ retFifo' \in Seq(Tag) /\ Len(retFifo') = Len(retFifo) + 1
      /\ \A i, j \in DOMAIN retFifo' : retFifo'[i] = retFifo'[j] => i = j
      /\ Range(retFifo') = Range(retFifo) \union {t}
  BY <1>1, <1>2, AppendDistinct DEF IInv, TypeOK
<1>4. TypeOK'
  <2>1. Len(retFifo') <= FifoDepth
    BY <1>3, FifoDepthAssumption, LenProperties DEF IInv, TypeOK
  <2>2. QED
    BY Zenon, <1>3, <2>1 DEF IInv, TypeOK
<1>5. Window' = Window /\ Written' = Written
  BY Zenon DEF Window, Written
<1>6. \A i \in DOMAIN retFifo' : retFifo'[i] \in Window' \ held'
  <2>1. Range(retFifo) \subseteq Window \ held
    BY Zenon DEF IInv, Range
  <2>2. Range(retFifo') \subseteq Window \ held'
    BY Zenon, <2>1, <1>1, <1>3
  <2>3. QED
    BY Zenon, <2>2, <1>5 DEF Range
<1>7. \A u \in Window' : u \in tags' <=> u \in held' \/ u \in Range(retFifo')
  BY <1>1, <1>3, <1>5 DEF IInv
<1>8. QED
  BY Zenon, <1>3, <1>4, <1>5, <1>6, <1>7 DEF IInv

\* Taking a completion (complete) only shortens comp_fifo.
LEMMA TakeIInv == IInv /\ complete => IInv'
<1> SUFFICES ASSUME IInv, complete PROVE IInv'
  BY Zenon
<1> USE DEF complete
<1>1. comp_fifo' \in Seq(Tag) /\ Len(comp_fifo') <= FifoDepth
  BY FifoDepthAssumption DEF IInv, TypeOK
<1>2. TypeOK'
  BY Zenon, <1>1 DEF IInv, TypeOK
<1>3. Window' = Window /\ Written' = Written
  BY Zenon DEF Window, Written
<1>4. QED
  BY Zenon, <1>2, <1>3 DEF IInv

-----------------------------------------------------------------------------
\* The theorems.

\* IInv holds initially and every rule and method preserves it, whatever the
\* number of tags.
THEOREM Inductive == Spec => []IInv
<1>1. IInv /\ [Next]_vars => IInv'
  <2> SUFFICES ASSUME IInv, [Next]_vars PROVE IInv'
    BY Zenon
  <2>1. CASE Rules
    BY Zenon, <2>1, InitRuleIInv, PollIInv, PollAgainIInv, CompleteIInv, RetIInv
       DEF Rules, complete_rule1
  <2>2. CASE getTag
    BY Zenon, <2>2, GetIInv
  <2>3. CASE \E t \in held : returnTag(t)
    BY Zenon, <2>3, ReturnIInv
  <2>4. CASE complete
    BY Zenon, <2>4, TakeIInv
  <2>5. CASE UNCHANGED vars
    BY Zenon, <2>5 DEF vars, IInv, TypeOK, Window, Written
  <2>6. QED
    BY Zenon, <2>1, <2>2, <2>3, <2>4, <2>5 DEF Next
<1>2. QED
  BY <1>1, InitIInv, PTL DEF Spec

\* Every register and FIFO of mkTagGen stays within its width and depth.
THEOREM TypeCorrect == Spec => []TypeOK
<1>1. IInv => TypeOK
  BY Zenon DEF IInv
<1>2. QED
  BY <1>1, Inductive, PTL

\* The unary counter comp_state counts the written returns exactly and never
\* shifts one out.
THEOREM CompStateCorrect == Spec => []CompStateExact
<1>1. IInv => CompStateExact
  <2> SUFFICES ASSUME IInv PROVE CompStateExact
    BY Zenon
  <2>1. Written \in SUBSET Window
    BY Zenon DEF Written
  <2>2. Cardinality(Written) \in 0 .. NumTags - 1
    BY Zenon, <2>1, WindowBounded DEF IInv
  <2>3. QED
    BY <2>2, NumTagsAssumption DEF IInv, CompStateExact
<1>2. QED
  BY <1>1, Inductive, PTL

\* The two BRAM ports never address the same word in a cycle in which getTag
\* may write.
THEOREM PortsNeverCollide == Spec => []PortsDisjoint
<1>1. IInv => PortsDisjoint
  <2> SUFFICES ASSUME IInv, CanGet
               PROVE  (comp_state # 0 => head_ptr # tail_ptr)
                      /\ head_ptr \notin Range(retFifo)
    BY Zenon DEF PortsDisjoint
  <2>1. head_ptr \notin Window
    BY Zenon, WindowBounded DEF IInv
  <2>2. QED
    BY Zenon, <2>1, TailInWindow DEF IInv, Range
<1>2. QED
  BY <1>1, Inductive, PTL

\* No step reports a tag complete while its holder still has it or while its
\* return waits in retFifo.
THEOREM CompletesOnlyReturned == Spec => CompleteOnlyReturned
<1> DEFINE Step == \A t \in Tag : comp_fifo' = Append(comp_fifo, t)
                      => t \notin held /\ t \notin Range(retFifo)
<1>1. IInv /\ [Next]_vars => [Step]_vars
  <2> SUFFICES ASSUME IInv, Next, NEW t \in Tag, comp_fifo' = Append(comp_fifo, t)
               PROVE  t \notin held /\ t \notin Range(retFifo)
    BY Zenon DEF Step
  <2>1. comp_fifo \in Seq(Tag) /\ Len(comp_fifo') = Len(comp_fifo) + 1
        /\ Len(comp_fifo) \in Nat
    BY AppendProperties, LenProperties DEF IInv, TypeOK
  <2>2. complete_rule1_done
    <3>1. comp_fifo' # comp_fifo
      BY <2>1
    <3>2. ~complete
      <4>1. complete => Len(comp_fifo') = Len(comp_fifo) - 1
        BY Zenon, <2>1, HeadTailProperties DEF complete
      <4>2. QED
        BY <4>1, <2>1
    <3>3. QED
      BY Zenon, <3>1, <3>2 DEF Next, Rules, init, complete_rule0, complete_rule1,
                        complete_rule1_wait, ret, getTag, returnTag
  <2>3. t = tail_ptr
    <3>1. tail_ptr \in Tag /\ Append(comp_fifo, t) = Append(comp_fifo, tail_ptr)
      BY Zenon, <2>2 DEF complete_rule1_done, IInv, TypeOK
    <3>2. QED
      BY <3>1, <2>1, AppendProperties
  <2>4. portB[1] = "back" /\ tail_ptr \in Window
    BY <2>2, TailInWindow DEF complete_rule1_done, IInv, TypeOK
  <2>5. tail_ptr \notin tags
    BY Zenon, <2>2, <2>4 DEF complete_rule1_done, IInv
  <2>6. QED
    BY Zenon, <2>3, <2>4, <2>5 DEF IInv
<1>2. QED
  BY <1>1, Inductive, PTL DEF Spec, CompleteOnlyReturned, Step

-----------------------------------------------------------------------------
\* The refinement of CompletionOrder.

\* The remainder of a number below twice the size of the ring.
LEMMA ModRing ==
  ASSUME NEW x \in 0 .. 2 * NumTags - 1
  PROVE  x % NumTags = IF x < NumTags THEN x ELSE x - NumTags
<1>1. CASE x < NumTags
  BY <1>1, NumTagsAssumption
<1>2. CASE x >= NumTags
  BY <1>2, NumTagsAssumption
<1>3. QED
  BY <1>1, <1>2, NumTagsAssumption

\* Once around the ring is where it started.
LEMMA ModAround ==
  ASSUME NEW x \in 0 .. NumTags - 1
  PROVE  (x + NumTags) % NumTags = x
<1>1. x + NumTags \in 0 .. 2 * NumTags - 1 /\ ~(x + NumTags < NumTags) /\ x + NumTags - NumTags = x
  BY NumTagsAssumption
<1> DEFINE y == x + NumTags
<1>2. y % NumTags = IF y < NumTags THEN y ELSE y - NumTags
  <2> HIDE DEF y
  <2> QED BY Zenon, <1>1, ModRing DEF y
<1>3. ~(y < NumTags) /\ y - NumTags = x
  BY <1>1, NumTagsAssumption
<1> HIDE DEF y
<1>4. y % NumTags = x
  BY Zenon, <1>2, <1>3
<1>5. QED
  BY Zenon, <1>4 DEF y

\* The tag n steps ahead of another, and what the pointers' moves do to distances.
LEMMA StepsAhead ==
  ASSUME NEW p \in Tag, NEW q \in Tag
  PROVE  /\ (p + Dist(p, q)) % NumTags = q
         /\ Succ(p) = (p + 1) % NumTags
         /\ \A n \in 0 .. NumTags - 1 : /\ (p + n) % NumTags \in Tag
                                        /\ Dist(p, (p + n) % NumTags) = n
         /\ Succ(q) # p => Dist(p, Succ(q)) = Dist(p, q) + 1 /\ Dist(p, q) < NumTags - 1
         /\ p # q => Dist(Succ(p), q) = Dist(p, q) - 1
<1>1. (p + Dist(p, q)) % NumTags = q
  <2>1. p + Dist(p, q) \in 0 .. 2 * NumTags - 1
    BY NumTagsAssumption DEF Dist, Tag
  <2>2. QED
    BY <2>1, ModRing, NumTagsAssumption DEF Dist, Tag
<1>2. Succ(p) = (p + 1) % NumTags
  <2>1. p + 1 \in 0 .. 2 * NumTags - 1
    BY NumTagsAssumption DEF Tag
  <2>2. QED
    BY <2>1, ModRing, NumTagsAssumption DEF Succ, Tag
<1>3. ASSUME NEW n \in 0 .. NumTags - 1
      PROVE  (p + n) % NumTags \in Tag /\ Dist(p, (p + n) % NumTags) = n
  <2>1. p + n \in 0 .. 2 * NumTags - 1
    BY NumTagsAssumption DEF Tag
  <2>2. QED
    BY <2>1, ModRing, NumTagsAssumption DEF Dist, Tag
<1>4. Succ(q) # p => Dist(p, Succ(q)) = Dist(p, q) + 1 /\ Dist(p, q) < NumTags - 1
  BY NumTagsAssumption DEF Dist, Succ, Tag
<1>5. p # q => Dist(Succ(p), q) = Dist(p, q) - 1
  BY NumTagsAssumption DEF Dist, Succ, Tag
<1>6. QED
  BY Zenon, <1>1, <1>2, <1>3, <1>4, <1>5

\* The list of n tags of the ring from one on.
LEMMA ListRing ==
  ASSUME NEW p \in Tag, NEW n \in 0 .. NumTags
  PROVE  LET l == [i \in 1 .. n |-> (p + i - 1) % NumTags] IN l \in Seq(Tag) /\ Len(l) = n
<1> DEFINE l == [i \in 1 .. n |-> (p + i - 1) % NumTags]
<1>1. \A i \in 1 .. n : (p + i - 1) % NumTags \in Tag
  BY NumTagsAssumption DEF Tag
<1>2. l \in [1 .. n -> Tag] /\ n \in Nat /\ DOMAIN l = 1 .. n
  BY <1>1, NumTagsAssumption
<1>3. l \in Seq(Tag)
  BY <1>2, SeqDef
<1>4. Len(l) = n
  BY <1>2, <1>3, LenProperties
<1>5. QED
  BY Zenon, <1>3, <1>4

\* Issued lists the window, oldest first.
LEMMA IssuedWindow ==
  ASSUME TypeOK
  PROVE  /\ Outstanding \in 0 .. NumTags - 1
         /\ Issued \in Seq(Tag) /\ Len(Issued) = Outstanding
         /\ DOMAIN Issued = 1 .. Outstanding
         /\ Range(Issued) = Window
<1>1. Outstanding \in 0 .. NumTags - 1
  BY DistType, NumTagsAssumption DEF Outstanding, TypeOK
<1>2. \A i \in 1 .. Outstanding :
        Issued[i] \in Tag /\ Dist(tail_ptr, Issued[i]) = i - 1
  <2> SUFFICES ASSUME NEW i \in 1 .. Outstanding
               PROVE  Issued[i] \in Tag /\ Dist(tail_ptr, Issued[i]) = i - 1
    BY Zenon
  <2>1. i - 1 \in 0 .. NumTags - 1 /\ tail_ptr + (i - 1) = tail_ptr + i - 1
    BY <1>1, NumTagsAssumption DEF TypeOK, Tag
  <2>2. Issued[i] = (tail_ptr + (i - 1)) % NumTags
    BY Zenon, <2>1 DEF Issued
  <2>3. QED
    BY <2>1, <2>2, StepsAhead DEF TypeOK
<1>3. DOMAIN Issued = 1 .. Outstanding
  BY Zenon DEF Issued
<1>4. Issued \in Seq(Tag) /\ Len(Issued) = Outstanding
  <2>1. Issued \in [1 .. Outstanding -> Tag]
    BY Zenon, <1>2 DEF Issued
  <2>2. QED
    BY <2>1, <1>1, <1>3, SeqDef, LenProperties, NumTagsAssumption
<1>5. Range(Issued) \subseteq Window
  <2> SUFFICES ASSUME NEW i \in 1 .. Outstanding PROVE Issued[i] \in Window
    BY Zenon, <1>3 DEF Range
  <2>1. inited /\ Outstanding = Dist(tail_ptr, head_ptr)
    BY DEF Outstanding
  <2>2. QED
    BY <1>2, <2>1, <1>1 DEF Window
<1>6. ASSUME NEW t \in Window PROVE t \in Range(Issued)
  <2> DEFINE i == Dist(tail_ptr, t) + 1
  <2>1. /\ t \in Tag /\ inited /\ Dist(tail_ptr, t) < Outstanding
        /\ Dist(tail_ptr, t) \in 0 .. NumTags - 1
    BY Zenon, DistType DEF Window, Outstanding, TypeOK
  <2>2. i \in 1 .. Outstanding /\ tail_ptr + i - 1 = tail_ptr + Dist(tail_ptr, t)
    BY <2>1, <1>1, NumTagsAssumption DEF TypeOK, Tag
  <2>3. Issued[i] = t
    BY <2>1, <2>2, StepsAhead DEF Issued, TypeOK
  <2>4. QED
    BY Zenon, <2>2, <2>3, <1>3 DEF Range
<1>7. QED
  BY Zenon, <1>1, <1>3, <1>4, <1>5, <1>6

\* getTag is Get.
LEMMA GetRefines == IInv /\ getTag => CB!Get
<1> SUFFICES ASSUME IInv, getTag PROVE CB!Get
  BY Zenon
<1>1. TypeOK /\ IInv'
  BY Zenon, GetIInv DEF IInv
<1>2. inited /\ inited' /\ tail_ptr' = tail_ptr /\ head_ptr' = Succ(head_ptr) /\ Succ(head_ptr) # tail_ptr
  BY Zenon DEF getTag, CanGet
<1>3. Outstanding' = Outstanding + 1 /\ Outstanding < NumTags - 1
      /\ Outstanding = Dist(tail_ptr, head_ptr)
  BY Zenon, <1>1, <1>2, StepsAhead DEF Outstanding, TypeOK
<1>4. Issued' = Append(Issued, head_ptr)
  <2>1. (tail_ptr + (Outstanding + 1) - 1) % NumTags = head_ptr
    <3>1. tail_ptr \in Int /\ Outstanding \in Int
      BY <1>1, IssuedWindow DEF TypeOK, Tag
    <3>2. tail_ptr + (Outstanding + 1) - 1 = tail_ptr + Dist(tail_ptr, head_ptr)
      BY <3>1, <1>3
    <3>3. QED
      BY <1>1, <3>2, StepsAhead DEF TypeOK
  <2>2. /\ Issued' = [i \in 1 .. Outstanding + 1 |-> (tail_ptr + i - 1) % NumTags]
        /\ Outstanding \in Nat
    BY <1>1, <1>2, <1>3, IssuedWindow DEF Issued
  <2>3. /\ Append(Issued, head_ptr) \in Seq(Tag)
        /\ Len(Append(Issued, head_ptr)) = Outstanding + 1
        /\ \A i \in 1 .. Outstanding : Append(Issued, head_ptr)[i] = Issued[i]
        /\ Append(Issued, head_ptr)[Outstanding + 1] = head_ptr
    BY <1>1, IssuedWindow, AppendProperties DEF TypeOK
  <2>4. Issued' \in Seq(Tag) /\ Len(Issued') = Outstanding + 1
    <3>1. Outstanding + 1 \in 0 .. NumTags /\ tail_ptr \in Tag
      BY <1>1, <1>3, <2>2, NumTagsAssumption DEF TypeOK
    <3>2. QED
      BY Zenon, <2>2, <3>1, ListRing
  <2>5. ASSUME NEW i \in 1 .. Outstanding + 1
        PROVE  Issued'[i] = Append(Issued, head_ptr)[i]
    <3>1. CASE i = Outstanding + 1
      BY Zenon, <3>1, <2>1, <2>2, <2>3
    <3>2. CASE i \in 1 .. Outstanding
      <4>1. Issued[i] = (tail_ptr + i - 1) % NumTags
        BY Zenon, <3>2 DEF Issued
      <4>2. QED
        BY Zenon, <3>2, <4>1, <2>2, <2>3
    <3>3. Outstanding \in Nat
      BY Zenon, <2>2
    <3>4. i = Outstanding + 1 \/ i \in 1 .. Outstanding
      BY <3>3
    <3>5. QED
      BY <3>1, <3>2, <3>4, Zenon
  <2>6. QED
    BY Zenon, <2>3, <2>4, <2>5, SeqEqual
<1>5. head_ptr \notin Range(Issued) /\ Len(Issued) < NumTags - 1
  BY Zenon, <1>1, <1>3, IssuedWindow, WindowBounded
<1>6. Returned' = Returned
  <2>1. Window' = Window \union {head_ptr} /\ head_ptr \notin Window
    BY Zenon, <1>1, <1>2, GrowRing, WindowBounded DEF Window, TypeOK
  <2>2. QED
    BY Zenon, <2>1 DEF Returned, getTag
<1>7. head_ptr' = (head_ptr + 1) % NumTags
  BY Zenon, <1>1, <1>2, StepsAhead DEF TypeOK
<1>8. QED
  BY Zenon, <1>2, <1>4, <1>5, <1>6, <1>7 DEF CB!Get, CB!Range, Range, getTag

\* returnTag is Return, before ret has written it.
LEMMA ReturnRefines == ASSUME IInv, NEW t \in held, returnTag(t) PROVE t \in Tag /\ CB!Return(t)
<1>1. t \in Window /\ t \in Tag /\ Range(Issued) = Window
  BY Zenon, IssuedWindow DEF IInv, TypeOK
<1>2. Window' = Window /\ Issued' = Issued
  BY Zenon DEF returnTag, Window, Issued, Outstanding
<1>3. Returned' = Returned \union {t} /\ t \notin Returned
  BY Zenon, <1>1, <1>2 DEF Returned, returnTag
<1>4. QED
  BY Zenon, <1>1, <1>2, <1>3 DEF CB!Return, CB!Range, Range, returnTag

\* complete_rule1 that finds the oldest tag back is Finish.
LEMMA FinishRefines == IInv /\ complete_rule1_done => CB!Finish
<1> SUFFICES ASSUME IInv, complete_rule1_done PROVE CB!Finish
  BY Zenon
<1>1. TypeOK /\ tail_ptr \in Tag
  BY Zenon DEF IInv, TypeOK
<1>2. inited /\ tail_ptr # head_ptr /\ tail_ptr \in Window
  BY Zenon, TailInWindow DEF complete_rule1_done
<1>3. tail_ptr \notin held
  <2>1. portB[1] = "back" /\ portB # << >>
    BY DEF complete_rule1_done, IInv, TypeOK
  <2>2. tail_ptr \notin tags
    BY Zenon, <2>1 DEF IInv
  <2>3. QED
    BY Zenon, <1>2, <2>2 DEF IInv
<1>4. inited' /\ tail_ptr' = Succ(tail_ptr) /\ head_ptr' = head_ptr
  BY Zenon, <1>2 DEF complete_rule1_done
<1>5. /\ Outstanding' = Outstanding - 1 /\ Outstanding \in 1 .. NumTags - 1
      /\ Issued \in Seq(Tag) /\ Len(Issued) = Outstanding
  <2>1. Outstanding' = Outstanding - 1 /\ Outstanding = Dist(tail_ptr, head_ptr)
    BY Zenon, <1>1, <1>2, <1>4, StepsAhead DEF Outstanding, TypeOK
  <2>2. QED
    BY <2>1, <1>1, <1>2, DistType, IssuedWindow, NumTagsAssumption DEF TypeOK
<1>6. Head(Issued) = tail_ptr
  <2>1. Head(Issued) = (tail_ptr + 1 - 1) % NumTags
    BY <1>5 DEF Issued
  <2>2. tail_ptr + 1 - 1 = tail_ptr /\ tail_ptr \in 0 .. 2 * NumTags - 1 /\ tail_ptr < NumTags
    BY <1>1, NumTagsAssumption DEF Tag
  <2>3. QED
    BY Zenon, <2>1, <2>2, ModRing
<1>7. Issued' = Tail(Issued)
  <2>1. \A i \in 1 .. Outstanding - 1 : (Succ(tail_ptr) + i - 1) % NumTags = Issued[i + 1]
    <3> SUFFICES ASSUME NEW i \in 1 .. Outstanding - 1
                 PROVE  (Succ(tail_ptr) + i - 1) % NumTags = Issued[i + 1]
      BY Zenon
    <3>1. Issued[i + 1] = (tail_ptr + (i + 1) - 1) % NumTags
      BY <1>5 DEF Issued
    <3>2. /\ Succ(tail_ptr) + i - 1 \in 0 .. 2 * NumTags - 1
          /\ tail_ptr + (i + 1) - 1 \in 0 .. 2 * NumTags - 1
      BY <1>1, <1>5, NumTagsAssumption DEF Succ, Tag
    <3>3. CASE tail_ptr = NumTags - 1
      <4>1. Succ(tail_ptr) + i - 1 = i - 1 /\ tail_ptr + (i + 1) - 1 = i - 1 + NumTags
            /\ i - 1 < NumTags /\ ~(i - 1 + NumTags < NumTags)
            /\ i - 1 + NumTags - NumTags = i - 1
        <5>1. i \in Int /\ i >= 1 /\ i < NumTags /\ NumTags \in Int
          BY <1>5, NumTagsAssumption
        <5>2. Succ(tail_ptr) = 0
          BY Zenon, <3>3 DEF Succ
        <5>3. QED
          BY <5>1, <5>2, <3>3
      <4>2. (Succ(tail_ptr) + i - 1) % NumTags = i - 1
        BY Zenon, <3>2, <4>1, ModRing
      <4>3. (tail_ptr + (i + 1) - 1) % NumTags = i - 1
        <5>1. i - 1 \in 0 .. NumTags - 1 /\ tail_ptr + (i + 1) - 1 = (i - 1) + NumTags
          BY <4>1, NumTagsAssumption
        <5>2. ((i - 1) + NumTags) % NumTags = i - 1
          BY Zenon, <5>1, ModAround
        <5>3. QED
          BY <5>1, <5>2, Zenon
      <4>4. QED
        BY Zenon, <3>1, <4>2, <4>3
    <3>4. CASE tail_ptr # NumTags - 1
      BY <1>1, <3>1, <3>4, NumTagsAssumption DEF Succ, Tag
    <3>5. QED
      BY Zenon, <3>3, <3>4
  <2>2. Issued' = [i \in 1 .. Outstanding - 1 |-> (Succ(tail_ptr) + i - 1) % NumTags]
    BY Zenon, <1>4, <1>5 DEF Issued
  <2>3. Issued # << >>
    BY <1>5, EmptySeq
  <2>4. /\ Tail(Issued) \in Seq(Tag) /\ Len(Tail(Issued)) = Outstanding - 1
        /\ \A i \in 1 .. Outstanding - 1 : Tail(Issued)[i] = Issued[i + 1]
    BY Zenon, <1>5, <2>3, HeadTailProperties
  <2>5. Issued' \in Seq(Tag) /\ Len(Issued') = Outstanding - 1
    <3>1. Outstanding - 1 \in 0 .. NumTags /\ Succ(tail_ptr) \in Tag
      BY <1>1, <1>5, SuccType, NumTagsAssumption
    <3>2. QED
      BY Zenon, <2>2, <3>1, ListRing
  <2>6. QED
    BY Zenon, <2>1, <2>2, <2>4, <2>5, SeqEqual
<1>8. Returned' = Returned \ {tail_ptr} /\ tail_ptr \in Returned
  <2>1. Window' = Window \ {tail_ptr}
    BY Zenon, <1>1, <1>2, <1>4, ShrinkRing DEF Window, TypeOK
  <2>2. QED
    BY Zenon, <2>1, <1>2, <1>3 DEF Returned, complete_rule1_done
<1>9. Issued # << >>
  BY <1>5, EmptySeq
<1>10. QED
  BY Zenon, <1>2, <1>4, <1>6, <1>7, <1>8, <1>9 DEF CB!Finish, complete_rule1_done

\* The rules that clear the BRAM, poll it and write returns to it are not seen.
LEMMA HiddenRules ==
  ASSUME IInv, init \/ complete_rule0 \/ complete_rule1_wait \/ ret \/ UNCHANGED vars
  PROVE  UNCHANGED CB!vars
<1>1. CASE init
  <2>1. ~inited /\ tail_ptr = 0 /\ tail_ptr' = 0 /\ (inited' => head_ptr' = 0)
    BY ZenonT(60), <1>1 DEF init, IInv
  <2>2. Outstanding = 0 /\ Outstanding' = 0
    BY <2>1 DEF Outstanding, Dist
  <2>3. Window = {} /\ Window' = {}
    <3>1. Dist(0, 0) = 0 /\ \A t \in Tag : Dist(0, t) >= 0
      BY NumTagsAssumption DEF Dist, Tag
    <3>2. QED
      BY <2>1, <3>1, NumTagsAssumption DEF Window, Tag, Dist
  <2>4. QED
    BY Zenon, <1>1, <2>1, <2>2, <2>3 DEF CB!vars, Issued, Returned, init
<1>2. CASE complete_rule0 \/ complete_rule1_wait \/ ret \/ UNCHANGED vars
  BY <1>2 DEF CB!vars, Issued, Outstanding, Returned, Window, complete_rule0,
              complete_rule1_wait, ret, vars
<1>3. QED
  BY Zenon, <1>1, <1>2

\* mkTagGen implements CompletionOrder: whatever order the tags come back in, and
\* however polls and returns interleave, they are reported done in the order of issue.
THEOREM TagGenIsCompletionOrder == Spec => ImplementsCompletionOrder
<1>1. Init => CB!Init
  <2> SUFFICES ASSUME Init PROVE CB!Init
    BY Zenon
  <2>1. Outstanding = 0 /\ Window = {}
    BY Zenon DEF Init, Outstanding, Window
  <2>2. Issued = << >>
    BY <2>1 DEF Issued
  <2>3. QED
    BY Zenon, <2>1, <2>2 DEF Init, CB!Init, Returned
<1>2. IInv /\ [Next]_vars => [CB!Next]_(CB!vars)
  <2> SUFFICES ASSUME IInv, [Next]_vars PROVE [CB!Next]_(CB!vars)
    BY Zenon
  <2>1. CASE init \/ complete_rule0 \/ complete_rule1_wait \/ ret \/ UNCHANGED vars
    BY Zenon, <2>1, HiddenRules
  <2>2. CASE complete_rule1_done
    BY Zenon, <2>2, FinishRefines DEF CB!Next
  <2>3. CASE getTag
    BY Zenon, <2>3, GetRefines DEF CB!Next
  <2>4. CASE \E t \in held : returnTag(t)
    BY Zenon, <2>4, ReturnRefines DEF CB!Next, CB!Tag, Tag
  <2>5. CASE complete
    <3>1. CB!Take
      BY Zenon, <2>5 DEF complete, CB!Take, Issued, Outstanding, Returned, Window
    <3>2. QED
      BY Zenon, <3>1 DEF CB!Next
  <2>6. QED
    BY Zenon, <2>1, <2>2, <2>3, <2>4, <2>5 DEF Next, Rules, complete_rule1
<1>3. QED
  BY <1>1, <1>2, Inductive, PTL DEF Spec, ImplementsCompletionOrder, CB!Spec

=============================================================================
