--------------------------- MODULE MemServerProofs ---------------------------
(***************************************************************************)
(* The memory server's requests on their way to the bus and the rotation of *)
(* their tags; the inductive invariant of the writes (MemWrite), and the   *)
(* steps that move no word into the server: those of the requests and of   *)
(* their tags, a client's that hands over a word, the bus's end of a burst. *)
(* MemWriteProofs has the others, and the theorem.                         *)
(***************************************************************************)
EXTENDS MemWrite, TLAPS

\* The SMT solver gets half a minute for a leaf; a leaf for Zenon says so.
USE SMTT(30)

\* Sequences: their elements, and what Append, Tail, \o and SubSeq make of them.
LEMMA Element == ASSUME NEW S, NEW s \in Seq(S), NEW n \in 1 .. Len(s) PROVE s[n] \in S
OBVIOUS

LEMMA Empty ==
  ASSUME NEW S
  PROVE  /\ << >> \in Seq(S) /\ Len(<< >>) = 0
         /\ \A s \in Seq(S) : s # << >> => Len(s) \in Nat \ {0}
OBVIOUS

LEMMA Length ==
  ASSUME NEW S, NEW s \in Seq(S)
  PROVE  Len(s) \in Nat /\ s \in [1 .. Len(s) -> S] /\ DOMAIN s = 1 .. Len(s)
OBVIOUS

LEMMA IsSeq == ASSUME NEW S, NEW n \in Nat, NEW s \in [1 .. n -> S] PROVE s \in Seq(S) /\ Len(s) = n
OBVIOUS

LEMMA Pushed ==
  ASSUME NEW S, NEW s \in Seq(S), NEW e \in S, NEW t, t = Append(s, e)
  PROVE  /\ t \in Seq(S) /\ Len(s) \in Nat /\ Len(t) = Len(s) + 1 /\ t[Len(s) + 1] = e
         /\ \A i \in 1 .. Len(s) : t[i] = s[i]
OBVIOUS

LEMMA Popped ==
  ASSUME NEW S, NEW s \in Seq(S), s # << >>, NEW t, t = Tail(s)
  PROVE  /\ t \in Seq(S) /\ Len(s) \in Nat \ {0} /\ Len(t) = Len(s) - 1
         /\ Head(s) = s[1] /\ s[1] \in S
         /\ \A i \in 1 .. Len(s) - 1 : t[i] = s[i + 1]
OBVIOUS

LEMMA Joined ==
  ASSUME NEW S, NEW s \in Seq(S), NEW t \in Seq(S)
  PROVE  /\ s \o t \in Seq(S) /\ Len(s \o t) = Len(s) + Len(t)
         /\ \A i \in 1 .. Len(s) + Len(t) : (s \o t)[i] = IF i <= Len(s) THEN s[i] ELSE t[i - Len(s)]
OBVIOUS

LEMMA Replaced ==
  ASSUME NEW S, NEW s \in Seq(S), NEW i \in 1 .. Len(s), NEW e \in S, NEW t, t = [s EXCEPT ![i] = e]
  PROVE  /\ t \in Seq(S) /\ Len(t) = Len(s) /\ t[i] = e
         /\ \A j \in 1 .. Len(s) : j # i => t[j] = s[j]
OBVIOUS

LEMMA Part ==
  ASSUME NEW S, NEW s, NEW m \in Int, NEW n \in Int, \A i \in m .. n : s[i] \in S
  PROVE  /\ SubSeq(s, m, n) \in Seq(S)
         /\ Len(SubSeq(s, m, n)) = IF m <= n THEN n - m + 1 ELSE 0
         /\ \A i \in 1 .. n - m + 1 : SubSeq(s, m, n)[i] = s[m + i - 1]
OBVIOUS

\* A sequence after an element is taken from its middle.
LEMMA Dropped ==
  ASSUME NEW S, NEW s \in Seq(S), NEW i \in 1 .. Len(s), NEW t,
         t = SubSeq(s, 1, i - 1) \o SubSeq(s, i + 1, Len(s))
  PROVE  /\ t \in Seq(S) /\ Len(t) = Len(s) - 1 /\ Len(s) \in Nat
         /\ \A j \in 1 .. Len(s) - 1 : t[j] = IF j < i THEN s[j] ELSE s[j + 1]
<1>1. PICK a, b : a = SubSeq(s, 1, i - 1) /\ b = SubSeq(s, i + 1, Len(s))
  BY Zenon
<1>2. Len(s) \in Nat
  BY Zenon, Length
<1>3. a \in Seq(S) /\ Len(a) = i - 1 /\ \A j \in 1 .. i - 1 : a[j] = s[j]
  <2>1. \A j \in 1 .. i - 1 : s[j] \in S
    BY <1>2, Element
  <2>2. /\ SubSeq(s, 1, i - 1) \in Seq(S)
        /\ Len(SubSeq(s, 1, i - 1)) = IF 1 <= i - 1 THEN i - 1 - 1 + 1 ELSE 0
        /\ \A j \in 1 .. i - 1 - 1 + 1 : SubSeq(s, 1, i - 1)[j] = s[1 + j - 1]
    BY <1>2, <2>1, Part
  <2>3. QED
    BY <1>1, <1>2, <2>2
<1>4. b \in Seq(S) /\ Len(b) = Len(s) - i /\ \A j \in 1 .. Len(s) - i : b[j] = s[i + j]
  <2>1. \A j \in i + 1 .. Len(s) : s[j] \in S
    BY <1>2, Element
  <2>2. /\ SubSeq(s, i + 1, Len(s)) \in Seq(S)
        /\ Len(SubSeq(s, i + 1, Len(s))) = IF i + 1 <= Len(s) THEN Len(s) - (i + 1) + 1 ELSE 0
        /\ \A j \in 1 .. Len(s) - (i + 1) + 1 : SubSeq(s, i + 1, Len(s))[j] = s[(i + 1) + j - 1]
    BY <1>2, <2>1, Part
  <2>3. QED
    BY <1>1, <1>2, <2>2
<1>5. PICK x, y : x = Len(a) /\ y = Len(b)
  BY Zenon
<1>6. /\ t \in Seq(S) /\ Len(t) = x + y
      /\ \A j \in 1 .. x + y : t[j] = IF j <= x THEN a[j] ELSE b[j - x]
  <2>1. a \in Seq(S) /\ b \in Seq(S) /\ t = a \o b
    BY Zenon, <1>1, <1>3, <1>4
  <2>2. /\ a \o b \in Seq(S) /\ Len(a \o b) = Len(a) + Len(b)
        /\ \A j \in 1 .. Len(a) + Len(b) : (a \o b)[j] = IF j <= Len(a) THEN a[j] ELSE b[j - Len(a)]
    BY Zenon, <2>1, Joined
  <2>3. QED
    BY Zenon, <1>5, <2>1, <2>2
<1>7. x = i - 1 /\ y = Len(s) - i /\ x + y = Len(s) - 1
  BY <1>2, <1>3, <1>4, <1>5
<1>8. ASSUME NEW j \in 1 .. Len(s) - 1 PROVE t[j] = IF j < i THEN s[j] ELSE s[j + 1]
  <2>1. j \in 1 .. x + y /\ (j <= x <=> j < i)
    BY <1>2, <1>7
  <2>2. CASE j < i
    <3>1. j \in 1 .. i - 1
      BY <2>2
    <3>2. t[j] = a[j] /\ a[j] = s[j]
      BY Zenon, <1>3, <1>6, <2>1, <2>2, <3>1
    <3>3. QED
      BY Zenon, <2>2, <3>2
  <2>3. CASE ~(j < i)
    <3>1. j - x \in 1 .. Len(s) - i /\ i + (j - x) = j + 1
      BY <1>2, <1>7, <2>3
    <3>2. t[j] = b[j - x] /\ b[j - x] = s[i + (j - x)]
      BY Zenon, <1>4, <1>6, <2>1, <2>3, <3>1
    <3>3. QED
      BY Zenon, <2>3, <3>1, <3>2
  <2>4. QED
    BY Zenon, <2>2, <2>3
<1>9. QED
  BY Zenon, <1>2, <1>6, <1>7, <1>8

-----------------------------------------------------------------------------
\* Requests and tags: every FIFO holds an interval of the requests.

\* The tag of request n: tags are issued in rotation, in the order of the requests.
TagOf(n) == (n - 1) % numTags

\* How many requests have been translated, sent to the bus, reported complete by tag_gen
\* and taken from it.
Translated == Len(req) - Len(lreqFifo)
Requested == Translated - Len(reqFifo)
Finished == Translated - Len(issued)
Taken == Finished - Len(done)

RequestTypes ==
  /\ req \in Seq([client : Client, mmu : Mmu, burstLen : 1 .. MaxBurst])
  /\ lreqFifo \in Seq(Nat)
  /\ mmu \in [Mmu -> Seq(Nat)]
  /\ reqFifo \in Seq([req : Nat, pa : Nat, tag : Nat])

RequestInv ==
  /\ Requested \in Nat
  /\ \A i \in 1 .. Len(lreqFifo) : lreqFifo[i] = Translated + i
  /\ \A i \in 1 .. Len(reqFifo) :
       reqFifo[i] = [req |-> Requested + i, pa |-> Requested + i, tag |-> TagOf(Requested + i)]

\* An MMU has the requests that are being translated and are for it, in order.
MmuInv ==
  \A m \in Mmu :
    /\ \A i \in 1 .. Len(mmu[m]) :
         mmu[m][i] \in Translated + 1 .. Len(req) /\ req[mmu[m][i]].mmu = m
    /\ \A i, j \in 1 .. Len(mmu[m]) : i < j => mmu[m][i] < mmu[m][j]
    /\ \A n \in Translated + 1 .. Len(req) :
         req[n].mmu = m => \E i \in 1 .. Len(mmu[m]) : mmu[m][i] = n

TagInv ==
  /\ Taken \in Nat
  /\ issued \in Seq(Nat) /\ done \in Seq(Nat)
  /\ Len(issued) < numTags
  /\ next = TagOf(Translated + 1)
  /\ \A i \in 1 .. Len(issued) : issued[i] = TagOf(Finished + i)
  /\ \A i \in 1 .. Len(done) : done[i] = TagOf(Taken + i)
  /\ \A t \in returned : \E i \in 1 .. Len(issued) : issued[i] = t

FrontInv == RequestTypes /\ RequestInv /\ MmuInv /\ TagInv

LEMMA TagType == \A n \in Nat \ {0} : TagOf(n) \in 0 .. numTags - 1
BY numTagsAssumption DEF TagOf

LEMMA Apart == ASSUME NEW x \in Nat, NEW y \in Nat, x < y, y - x < numTags
  PROVE x % numTags # y % numTags
<1>1. x = numTags * (x \div numTags) + (x % numTags) /\ x \div numTags \in Int /\ x % numTags \in Int
  BY numTagsAssumption
<1>2. y = numTags * (y \div numTags) + (y % numTags) /\ y \div numTags \in Int /\ y % numTags \in Int
  BY numTagsAssumption
<1>3. SUFFICES ASSUME x % numTags = y % numTags PROVE FALSE
  BY Zenon
<1> DEFINE d == y \div numTags - x \div numTags
<1>4. d \in Int /\ y - x = numTags * d
  BY <1>1, <1>2, <1>3, numTagsAssumption
<1> HIDE DEF d
<1>5. CASE d >= 1
  <2>1. numTags * d >= numTags
    BY <1>5, <1>4, numTagsAssumption
  <2>2. QED BY <2>1, <1>4, numTagsAssumption
<1>6. CASE d <= 0
  <2>1. numTags * d <= 0
    BY <1>6, <1>4, numTagsAssumption
  <2>2. QED BY <2>1, <1>4, numTagsAssumption
<1>7. QED BY <1>5, <1>6, <1>4

LEMMA NextTag == ASSUME NEW n \in Nat \ {0}
  PROVE (TagOf(n) + 1) % numTags = TagOf(n + 1)
<1> DEFINE x == n - 1  r == x % numTags q == x \div numTags
<1>1. x \in Nat /\ x = numTags * q + r /\ q \in Int /\ r \in 0 .. numTags - 1 /\ q >= 0
  BY numTagsAssumption
<1>2. TagOf(n) = r /\ TagOf(n + 1) = (x + 1) % numTags
  BY DEF TagOf
<1> HIDE DEF x, r, q
<1>3. CASE r < numTags - 1
  <2>1. (r + 1) % numTags = r + 1 BY <1>1, <1>3, numTagsAssumption
  <2>2. (x + 1) % numTags = r + 1 BY <1>1, <1>3, numTagsAssumption
  <2>3. QED BY Zenon, <2>1, <2>2, <1>2
<1>4. CASE r = numTags - 1
  <2>1. (r + 1) % numTags = 0 BY <1>1, <1>4, numTagsAssumption
  <2>2. x + 1 = numTags * (q + 1) BY <1>1, <1>4, numTagsAssumption
  <2>3. (x + 1) % numTags = 0 BY <1>1, <2>2, numTagsAssumption
  <2>4. QED BY Zenon, <2>1, <2>3, <1>2
<1>5. QED BY <1>1, <1>3, <1>4, numTagsAssumption

\* Tags come round after numTags requests.
LEMMA TagRepeats == ASSUME NEW n \in Nat \ {0} PROVE TagOf(n + numTags) = TagOf(n)
<1>1. PICK x, q, r : x = n - 1 /\ q = x \div numTags /\ r = x % numTags
  BY Zenon
<1>2. x \in Nat /\ x = numTags * q + r /\ q \in Nat /\ r \in 0 .. numTags - 1
  BY <1>1, numTagsAssumption
<1>3. x + numTags = numTags * (q + 1) + r
  BY <1>2, numTagsAssumption
<1>4. (x + numTags) % numTags = r
  BY <1>2, <1>3, numTagsAssumption
<1>5. (n + numTags) - 1 = x + numTags
  BY <1>1, numTagsAssumption
<1>6. QED
  BY Zenon, <1>1, <1>4, <1>5 DEF TagOf

LEMMA FrontCounts ==
  ASSUME FrontInv
  PROVE  /\ Len(req) \in Nat /\ Translated \in Nat /\ Requested \in Nat /\ Finished \in Nat
         /\ Taken \in Nat
         /\ Requested <= Translated /\ Translated <= Len(req)
         /\ Taken <= Finished /\ Finished <= Translated /\ Translated < Finished + numTags
<1>1. /\ Len(req) \in Nat /\ Len(lreqFifo) \in Nat /\ Len(reqFifo) \in Nat
      /\ Len(issued) \in Nat /\ Len(done) \in Nat
  BY DEF FrontInv, RequestTypes, TagInv
<1>2. Requested \in Nat /\ Taken \in Nat /\ Len(issued) < numTags
  BY Zenon DEF FrontInv, RequestInv, TagInv
<1>3. QED
  BY <1>1, <1>2, numTagsAssumption DEF Translated, Requested, Finished, Taken

LEMMA FrontStays ==
  ASSUME FrontInv, UNCHANGED <<req, lreqFifo, mmu, reqFifo, tagVars>>
  PROVE  /\ FrontInv'
         /\ Translated' = Translated /\ Requested' = Requested /\ Finished' = Finished
         /\ Taken' = Taken
<1>1. /\ Translated' = Translated /\ Requested' = Requested /\ Finished' = Finished
      /\ Taken' = Taken
  BY Zenon DEF Translated, Requested, Finished, Taken, tagVars
<1>2. RequestTypes' /\ RequestInv'
  BY Zenon, <1>1 DEF FrontInv, RequestTypes, RequestInv, tagVars
<1>3. MmuInv'
  BY Zenon, <1>1 DEF FrontInv, MmuInv, tagVars
<1>4. TagInv'
  BY Zenon, <1>1 DEF FrontInv, TagInv, tagVars
<1>5. QED
  BY Zenon, <1>1, <1>2, <1>3, <1>4 DEF FrontInv

\* A request is accepted.
LEMMA FrontLoads ==
  ASSUME FrontInv, NEW c \in Client, NEW a \in Asks[c], loadClient(c, a)
  PROVE  /\ FrontInv'
         /\ Translated' = Translated /\ Requested' = Requested /\ Finished' = Finished
         /\ Taken' = Taken /\ Len(req') = Len(req) + 1
         /\ \A n \in 1 .. Len(req) : req'[n] = req[n]
         /\ req'[Len(req) + 1] = [client |-> c, mmu |-> a.mmu, burstLen |-> a.burstLen]
         /\ a.burstLen \in Nat \ {0}
<1>1. PICK l, r, k : /\ l = Len(req) /\ k = Len(lreqFifo)
                     /\ r = [client |-> c, mmu |-> a.mmu, burstLen |-> a.burstLen]
  BY Zenon
<1>2. a.mmu \in Mmu /\ a.burstLen \in 1 .. MaxBurst /\ a.burstLen \in Nat \ {0}
  BY AsksAssumption
<1>3. /\ req' = Append(req, r) /\ lreqFifo' = Append(lreqFifo, l + 1)
      /\ mmu' = [mmu EXCEPT ![a.mmu] = Append(@, l + 1)]
      /\ UNCHANGED <<reqFifo, next, issued, returned, done>>
  BY Zenon, <1>1 DEF loadClient, tagVars
<1>4. /\ req \in Seq([client : Client, mmu : Mmu, burstLen : 1 .. MaxBurst])
      /\ lreqFifo \in Seq(Nat) /\ mmu \in [Mmu -> Seq(Nat)]
      /\ reqFifo \in Seq([req : Nat, pa : Nat, tag : Nat])
  BY Zenon DEF FrontInv, RequestTypes
<1>5. r \in [client : Client, mmu : Mmu, burstLen : 1 .. MaxBurst] /\ r.mmu = a.mmu
  BY Zenon, <1>1, <1>2
<1>6. /\ req' \in Seq([client : Client, mmu : Mmu, burstLen : 1 .. MaxBurst])
      /\ l \in Nat /\ Len(req') = l + 1 /\ req'[l + 1] = r
      /\ \A n \in 1 .. l : req'[n] = req[n]
  BY <1>1, <1>3, <1>4, <1>5, Pushed
<1>7. /\ lreqFifo' \in Seq(Nat) /\ k \in Nat /\ Len(lreqFifo') = k + 1
      /\ lreqFifo'[k + 1] = l + 1
      /\ \A i \in 1 .. k : lreqFifo'[i] = lreqFifo[i]
  <2>1. l + 1 \in Nat
    BY <1>6
  <2>2. QED
    BY <1>1, <1>3, <1>4, <2>1, Pushed
<1>8. /\ Translated' = Translated /\ Requested' = Requested /\ Finished' = Finished
      /\ Taken' = Taken
  <2>1. Translated' = Translated
    BY <1>1, <1>6, <1>7 DEF Translated
  <2>2. QED
    BY Zenon, <2>1, <1>3 DEF Requested, Finished, Taken
<1>9. Translated = l - k /\ Translated \in Nat
  BY Zenon, <1>1, FrontCounts DEF Translated
<1>10. /\ \A x \in Mmu : x # a.mmu => mmu'[x] = mmu[x]
       /\ mmu'[a.mmu] = Append(mmu[a.mmu], l + 1)
       /\ mmu[a.mmu] \in Seq(Nat) /\ DOMAIN mmu' = Mmu
  BY Zenon, <1>2, <1>3, <1>4
<1>11. /\ mmu'[a.mmu] \in Seq(Nat) /\ Len(mmu[a.mmu]) \in Nat
       /\ Len(mmu'[a.mmu]) = Len(mmu[a.mmu]) + 1 /\ mmu'[a.mmu][Len(mmu[a.mmu]) + 1] = l + 1
       /\ \A i \in 1 .. Len(mmu[a.mmu]) : mmu'[a.mmu][i] = mmu[a.mmu][i]
  <2>1. l + 1 \in Nat
    BY <1>6
  <2>2. QED
    BY <1>10, <2>1, Pushed
<1>12. RequestTypes'
  <2>1. PICK t : t = Append(mmu[a.mmu], l + 1)
    BY Zenon
  <2>2. mmu' = [mmu EXCEPT ![a.mmu] = t] /\ t \in Seq(Nat)
    BY Zenon, <1>3, <1>10, <1>11, <2>1
  <2>3. mmu' \in [Mmu -> Seq(Nat)]
    BY Zenon, <1>2, <1>4, <2>2
  <2>4. QED
    BY Zenon, <1>3, <1>4, <1>6, <1>7, <2>3 DEF RequestTypes
<1>13. RequestInv'
  <2>1. \A i \in 1 .. k : lreqFifo[i] = Translated + i
    BY Zenon, <1>1 DEF FrontInv, RequestInv
  <2>2. ASSUME NEW i \in 1 .. k + 1 PROVE lreqFifo'[i] = Translated + i
    <3>1. CASE i \in 1 .. k
      BY Zenon, <1>7, <2>1, <3>1
    <3>2. CASE i \notin 1 .. k
      <4>1. i = k + 1 /\ Translated + (k + 1) = l + 1
        BY <1>6, <1>7, <1>9, <3>2
      <4>2. QED
        BY Zenon, <1>7, <4>1
    <3>3. QED
      BY Zenon, <3>1, <3>2
  <2>3. QED
    BY Zenon, <2>2, <1>3, <1>7, <1>8 DEF FrontInv, RequestInv
<1>14. MmuInv'
  <2> SUFFICES ASSUME NEW m \in Mmu
      PROVE /\ \A i \in 1 .. Len(mmu'[m]) :
                 mmu'[m][i] \in Translated + 1 .. l + 1 /\ req'[mmu'[m][i]].mmu = m
            /\ \A i, j \in 1 .. Len(mmu'[m]) : i < j => mmu'[m][i] < mmu'[m][j]
            /\ \A n \in Translated + 1 .. l + 1 :
                 req'[n].mmu = m => \E i \in 1 .. Len(mmu'[m]) : mmu'[m][i] = n
    BY <1>6, <1>8 DEF MmuInv
  <2>1. PICK q, p : q = mmu[m] /\ p = Len(mmu[m])
    BY Zenon
  <2>2. /\ q \in Seq(Nat) /\ p \in Nat
        /\ \A i \in 1 .. p : q[i] \in Translated + 1 .. l /\ req[q[i]].mmu = m
        /\ \A i, j \in 1 .. p : i < j => q[i] < q[j]
        /\ \A n \in Translated + 1 .. l :
             req[n].mmu = m => \E i \in 1 .. p : q[i] = n
    <3>1. q \in Seq(Nat) /\ p \in Nat
      BY <1>4, <2>1
    <3>2. QED
      BY Zenon, <1>1, <2>1, <3>1 DEF FrontInv, MmuInv
  <2>3. \A n \in Translated + 1 .. l : n \in Int /\ n <= l /\ n # l + 1 /\ req'[n] = req[n]
    BY <1>6, <1>9
  <2>4. req'[l + 1].mmu = a.mmu
    BY Zenon, <1>5, <1>6
  <2>5. CASE m = a.mmu
    <3>1. PICK t : t = mmu'[m]
      BY Zenon
    <3>2. /\ Len(t) = p + 1 /\ t[p + 1] = l + 1
          /\ \A i \in 1 .. p : t[i] = q[i]
      BY Zenon, <1>11, <2>1, <2>5, <3>1
    <3>3. ASSUME NEW i \in 1 .. p + 1
          PROVE  t[i] \in Translated + 1 .. l + 1 /\ req'[t[i]].mmu = m
      <4>1. CASE i \in 1 .. p
        <5>1. PICK x : x = q[i]
          BY Zenon
        <5>2. x \in Translated + 1 .. l /\ req[x].mmu = m /\ t[i] = x
          BY Zenon, <2>2, <3>2, <4>1, <5>1
        <5>3. x \in Translated + 1 .. l + 1 /\ req'[x] = req[x]
          BY <1>6, <1>9, <2>3, <5>2
        <5>4. QED
          BY Zenon, <5>2, <5>3
      <4>2. CASE i = p + 1
        BY <1>6, <1>7, <1>9, <2>4, <2>5, <3>2, <4>2
      <4>3. QED
        BY <2>2, <4>1, <4>2
    <3>4. ASSUME NEW i \in 1 .. p + 1, NEW j \in 1 .. p + 1, i < j PROVE t[i] < t[j]
      <4>1. i \in 1 .. p /\ t[i] = q[i] /\ q[i] \in Translated + 1 .. l
        BY <2>2, <3>2, <3>4
      <4>2. CASE j \in 1 .. p
        BY Zenon, <2>2, <3>2, <3>4, <4>1, <4>2
      <4>3. CASE j = p + 1
        BY <1>6, <1>9, <3>2, <4>1, <4>3
      <4>4. QED
        BY <2>2, <4>2, <4>3
    <3>5. ASSUME NEW n \in Translated + 1 .. l + 1, req'[n].mmu = m
          PROVE  \E i \in 1 .. p + 1 : t[i] = n
      <4>1. CASE n = l + 1
        BY <2>2, <3>2, <4>1
      <4>2. CASE n # l + 1
        <5>1. n \in Translated + 1 .. l
          BY <1>6, <1>9, <4>2
        <5>2. PICK i \in 1 .. p : q[i] = n
          BY Zenon, <2>2, <2>3, <3>5, <5>1
        <5>3. QED
          BY <2>2, <3>2, <5>2
      <4>3. QED
        BY Zenon, <4>1, <4>2
    <3>6. QED
      BY Zenon, <3>1, <3>2, <3>3, <3>4, <3>5
  <2>6. CASE m # a.mmu
    <3>1. mmu'[m] = q /\ Len(mmu'[m]) = p
      BY Zenon, <1>10, <2>1, <2>6
    <3>2. ASSUME NEW i \in 1 .. p
          PROVE  q[i] \in Translated + 1 .. l + 1 /\ req'[q[i]].mmu = m
      <4>1. PICK x : x = q[i]
        BY Zenon
      <4>2. x \in Translated + 1 .. l /\ req[x].mmu = m
        BY Zenon, <2>2, <4>1
      <4>3. x \in Translated + 1 .. l + 1
        BY <1>6, <1>9, <4>2
      <4>4. req'[x] = req[x]
        BY Zenon, <2>3, <4>2
      <4>5. QED
        BY Zenon, <4>1, <4>2, <4>3, <4>4
    <3>3. ASSUME NEW n \in Translated + 1 .. l + 1, req'[n].mmu = m
          PROVE  \E i \in 1 .. p : q[i] = n
      <4>1. n # l + 1
        BY Zenon, <2>4, <2>6, <3>3
      <4>2. n \in Translated + 1 .. l
        BY <1>6, <1>9, <4>1
      <4>3. req[n].mmu = m
        BY Zenon, <2>3, <3>3, <4>2
      <4>4. QED
        BY Zenon, <2>2, <4>2, <4>3
    <3>4. QED
      BY Zenon, <2>2, <3>1, <3>2, <3>3
  <2>7. QED
    BY Zenon, <2>5, <2>6
<1>15. TagInv'
  BY Zenon, <1>3, <1>8 DEF FrontInv, TagInv
<1>16. QED
  BY Zenon, <1>1, <1>2, <1>6, <1>8, <1>12, <1>13, <1>14, <1>15 DEF FrontInv

\* An MMU's answer meets its request: MMUs answer in order, and the oldest request that is
\* being translated is the oldest one of its MMU.
LEMMA FrontChecks ==
  ASSUME FrontInv, checkMmuResp
  PROVE  /\ FrontInv' /\ UNCHANGED <<req, returned, burstReg, firstReg, lastReg>>
         /\ Translated' = Translated + 1 /\ Requested' = Requested /\ Finished' = Finished
         /\ Taken' = Taken /\ Translated < Len(req)
<1>1. PICK n, m, l, k, z, T : /\ n = Head(lreqFifo) /\ m = MmuSel(n) /\ l = Len(req) /\ k = Len(lreqFifo)
                              /\ z = Len(reqFifo) /\ T = Translated
  BY Zenon
<1>2. PICK r : r = [req |-> n, pa |-> Head(mmu[m]), tag |-> next]
  BY Zenon
<1>3. /\ lreqFifo # << >> /\ mmu[m] # << >> /\ mmu' = [mmu EXCEPT ![m] = Tail(@)]
      /\ reqFifo' = Append(reqFifo, r) /\ lreqFifo' = Tail(lreqFifo)
      /\ next' = (next + 1) % numTags /\ issued' = Append(issued, next)
      /\ Len(issued) < numTags - 1
      /\ UNCHANGED <<req, returned, done, burstReg, firstReg, lastReg>>
  BY Zenon, <1>1, <1>2 DEF checkMmuResp, tag_gen!Get, burstVars
<1>4. /\ req \in Seq([client : Client, mmu : Mmu, burstLen : 1 .. MaxBurst])
      /\ lreqFifo \in Seq(Nat) /\ mmu \in [Mmu -> Seq(Nat)]
      /\ reqFifo \in Seq([req : Nat, pa : Nat, tag : Nat])
  BY Zenon DEF FrontInv, RequestTypes
<1>5. /\ lreqFifo' \in Seq(Nat) /\ k \in Nat \ {0} /\ Len(lreqFifo') = k - 1
      /\ n = lreqFifo[1] /\ \A i \in 1 .. k - 1 : lreqFifo'[i] = lreqFifo[i + 1]
  BY <1>1, <1>3, <1>4, Popped
<1>6. T = l - k /\ T \in Nat /\ l \in Nat /\ Requested = T - z /\ Requested \in Nat /\ z \in Nat
  <2>1. z \in Nat
    BY <1>1, <1>4
  <2>2. QED
    BY Zenon, <1>1, <2>1, FrontCounts DEF Translated, Requested
<1>7. n = T + 1 /\ n \in 1 .. l /\ \A i \in 1 .. k : lreqFifo[i] = T + i
  <2>1. \A i \in 1 .. k : lreqFifo[i] = T + i
    BY Zenon, <1>1 DEF FrontInv, RequestInv
  <2>2. QED
    BY <1>5, <1>6, <2>1
<1>8. m \in Mmu /\ req[n].mmu = m
  <2>1. n \in 1 .. Len(req)
    BY Zenon, <1>1, <1>7
  <2>2. req[n] \in [client : Client, mmu : Mmu, burstLen : 1 .. MaxBurst]
    BY Zenon, <1>4, <2>1, Element
  <2>3. QED
    BY Zenon, <1>1, <2>2 DEF MmuSel
<1>9. PICK q, p, t : q = mmu[m] /\ p = Len(mmu[m]) /\ t = Tail(q)
  BY Zenon
<1>10. /\ q \in Seq(Nat) /\ t \in Seq(Nat) /\ p \in Nat \ {0} /\ Len(t) = p - 1 /\ Head(q) = q[1]
       /\ \A i \in 1 .. p - 1 : t[i] = q[i + 1]
  <2>1. q \in Seq(Nat) /\ q # << >>
    BY Zenon, <1>3, <1>4, <1>8, <1>9
  <2>2. QED
    BY <1>9, <2>1, Popped
<1>11. /\ \A x \in Mmu : x # m => mmu'[x] = mmu[x]
       /\ mmu'[m] = t /\ mmu' \in [Mmu -> Seq(Nat)]
  BY Zenon, <1>3, <1>4, <1>8, <1>9, <1>10
<1>12. /\ \A x \in Mmu : \A i \in 1 .. Len(mmu[x]) :
            mmu[x][i] \in T + 1 .. l /\ req[mmu[x][i]].mmu = x
       /\ \A x \in Mmu : \A i, j \in 1 .. Len(mmu[x]) : i < j => mmu[x][i] < mmu[x][j]
       /\ \A x \in Mmu : \A y \in T + 1 .. l :
            req[y].mmu = x => \E i \in 1 .. Len(mmu[x]) : mmu[x][i] = y
  BY Zenon, <1>1 DEF FrontInv, MmuInv
<1>13. /\ \A i \in 1 .. p : q[i] \in T + 1 .. l /\ req[q[i]].mmu = m
       /\ \A i, j \in 1 .. p : i < j => q[i] < q[j]
       /\ \A y \in T + 1 .. l : req[y].mmu = m => \E i \in 1 .. p : q[i] = y
  <2>1. \A i \in 1 .. Len(mmu[m]) : mmu[m][i] \in T + 1 .. l /\ req[mmu[m][i]].mmu = m
    BY Zenon, <1>8, <1>12
  <2>2. \A i, j \in 1 .. Len(mmu[m]) : i < j => mmu[m][i] < mmu[m][j]
    BY Zenon, <1>8, <1>12
  <2>3. \A y \in T + 1 .. l : req[y].mmu = m => \E i \in 1 .. Len(mmu[m]) : mmu[m][i] = y
    BY Zenon, <1>8, <1>12
  <2>4. QED
    BY ZenonT(60), <1>9, <2>1, <2>2, <2>3
<1>14. q[1] = n
  <2>1. PICK i \in 1 .. p : q[i] = n
    BY <1>6, <1>7, <1>8, <1>13
  <2>2. q[1] \in T + 1 .. l
    BY <1>10, <1>13
  <2>3. i # 1 => q[1] < q[i]
    BY <1>10, <1>13
  <2>4. QED
    BY <1>6, <1>7, <2>1, <2>2, <2>3
<1>15. Len(issued) \in Nat /\ next = TagOf(T + 1) /\ next \in Nat
  <2>1. TagOf(T + 1) \in 0 .. numTags - 1
    BY <1>6, TagType
  <2>2. QED
    BY <1>1, <2>1, numTagsAssumption DEF FrontInv, TagInv
<1>16. r = [req |-> T + 1, pa |-> T + 1, tag |-> TagOf(T + 1)] /\ r \in [req : Nat, pa : Nat, tag : Nat]
  <2>1. Head(mmu[m]) = n
    BY Zenon, <1>9, <1>10, <1>14
  <2>2. r = [req |-> T + 1, pa |-> T + 1, tag |-> TagOf(T + 1)]
    BY Zenon, <1>2, <1>7, <1>15, <2>1
  <2>3. T + 1 \in Nat /\ TagOf(T + 1) \in Nat
    BY <1>6, <1>15
  <2>4. QED
    BY Zenon, <2>2, <2>3
<1>17. /\ reqFifo' \in Seq([req : Nat, pa : Nat, tag : Nat]) /\ Len(reqFifo') = z + 1
       /\ reqFifo'[z + 1] = r /\ \A i \in 1 .. z : reqFifo'[i] = reqFifo[i]
  BY <1>1, <1>3, <1>4, <1>16, Pushed
<1>18. issued \in Seq(Nat) /\ done \in Seq(Nat)
  BY Zenon DEF FrontInv, TagInv
<1>19. /\ issued' \in Seq(Nat) /\ Len(issued') = Len(issued) + 1
       /\ issued'[Len(issued) + 1] = next /\ \A i \in 1 .. Len(issued) : issued'[i] = issued[i]
  BY <1>3, <1>15, <1>18, Pushed
<1>20. /\ Translated' = T + 1 /\ Requested' = Requested /\ Finished' = Finished /\ Taken' = Taken
  <2>1. Translated' = T + 1
    BY <1>1, <1>3, <1>5, <1>6 DEF Translated
  <2>2. Requested' = Requested
    BY <1>1, <1>6, <1>17, <2>1 DEF Requested
  <2>3. Finished' = Finished
    BY <1>1, <1>6, <1>15, <1>19, <2>1 DEF Finished
  <2>4. QED
    BY Zenon, <1>3, <2>1, <2>2, <2>3 DEF Taken
<1>21. RequestTypes'
  BY Zenon, <1>3, <1>4, <1>5, <1>11, <1>17 DEF RequestTypes
<1>22. RequestInv'
  <2>1. \A i \in 1 .. k - 1 : lreqFifo'[i] = (T + 1) + i
    BY <1>5, <1>6, <1>7
  <2>2. \A i \in 1 .. z : reqFifo[i] = [req |-> Requested + i, pa |-> Requested + i, tag |-> TagOf(Requested + i)]
    BY Zenon, <1>1 DEF FrontInv, RequestInv
  <2>3. Requested + (z + 1) = T + 1
    BY <1>6
  <2>4. \A i \in 1 .. z + 1 : reqFifo'[i] = [req |-> Requested + i, pa |-> Requested + i, tag |-> TagOf(Requested + i)]
    <3> SUFFICES ASSUME NEW i \in 1 .. z + 1
        PROVE reqFifo'[i] = [req |-> Requested + i, pa |-> Requested + i, tag |-> TagOf(Requested + i)]
      BY Zenon
    <3>1. CASE i = z + 1
      BY Zenon, <1>16, <1>17, <2>3, <3>1
    <3>2. CASE i # z + 1
      <4>1. i \in 1 .. z
        BY <1>6, <3>2
      <4>2. QED
        BY Zenon, <1>17, <2>2, <4>1
    <3>3. QED
      BY Zenon, <3>1, <3>2
  <2>5. QED
    BY Zenon, <1>5, <1>6, <1>17, <1>20, <2>1, <2>4 DEF RequestInv
<1>23. MmuInv'
  <2> SUFFICES ASSUME NEW x \in Mmu
      PROVE /\ \A i \in 1 .. Len(mmu'[x]) :
                 mmu'[x][i] \in (T + 1) + 1 .. l /\ req[mmu'[x][i]].mmu = x
            /\ \A i, j \in 1 .. Len(mmu'[x]) : i < j => mmu'[x][i] < mmu'[x][j]
            /\ \A y \in (T + 1) + 1 .. l :
                 req[y].mmu = x => \E i \in 1 .. Len(mmu'[x]) : mmu'[x][i] = y
    <3>1. Translated' = T + 1 /\ req' = req /\ Len(req') = l
      BY Zenon, <1>1, <1>3, <1>20
    <3>2. QED
      BY Zenon, <3>1 DEF MmuInv
  <2>1. CASE x = m
    <3>1. \A i \in 1 .. p - 1 : t[i] \in (T + 1) + 1 .. l /\ req[t[i]].mmu = m
      <4> SUFFICES ASSUME NEW i \in 1 .. p - 1 PROVE t[i] \in (T + 1) + 1 .. l /\ req[t[i]].mmu = m
        BY Zenon
      <4>1. i + 1 \in 1 .. p /\ 1 \in 1 .. p /\ 1 < i + 1 /\ t[i] = q[i + 1]
        BY <1>10
      <4>2. q[1] < q[i + 1] /\ q[i + 1] \in T + 1 .. l /\ req[q[i + 1]].mmu = m
        BY Zenon, <1>13, <4>1
      <4>3. QED
        BY <1>6, <1>7, <1>14, <4>1, <4>2
    <3>2. \A i, j \in 1 .. p - 1 : i < j => t[i] < t[j]
      BY <1>10, <1>13
    <3>3. ASSUME NEW y \in (T + 1) + 1 .. l, req[y].mmu = m PROVE \E i \in 1 .. p - 1 : t[i] = y
      <4>1. PICK i \in 1 .. p : q[i] = y
        BY <1>6, <1>13, <3>3
      <4>2. i # 1
        BY <1>6, <1>7, <1>14, <4>1
      <4>3. i - 1 \in 1 .. p - 1 /\ (i - 1) + 1 = i
        BY <1>10, <4>2
      <4>4. t[i - 1] = y
        BY Zenon, <1>10, <4>1, <4>3
      <4>5. QED
        BY Zenon, <4>3, <4>4
    <3>4. mmu'[x] = t /\ Len(mmu'[x]) = p - 1
      BY Zenon, <1>10, <1>11, <2>1
    <3>5. QED
      BY ZenonT(60), <2>1, <3>1, <3>2, <3>3, <3>4
  <2>2. CASE x # m
    <3>1. \A i \in 1 .. Len(mmu[x]) : mmu[x][i] \in (T + 1) + 1 .. l /\ req[mmu[x][i]].mmu = x
      BY <1>6, <1>7, <1>8, <1>12, <2>2
    <3>2. ASSUME NEW y \in (T + 1) + 1 .. l, req[y].mmu = x
          PROVE  \E i \in 1 .. Len(mmu[x]) : mmu[x][i] = y
      <4>1. y \in T + 1 .. l
        BY <1>6
      <4>2. QED
        BY Zenon, <1>12, <3>2, <4>1
    <3>3. mmu'[x] = mmu[x]
      BY Zenon, <1>11, <2>2
    <3>4. QED
      BY Zenon, <1>12, <3>1, <3>2, <3>3
  <2>3. QED
    BY Zenon, <2>1, <2>2
<1>24. TagInv'
  <2>1. next' = TagOf((T + 1) + 1)
    <3>1. T + 1 \in Nat \ {0}
      BY <1>6
    <3>2. TagOf((T + 1) + 1) = (TagOf(T + 1) + 1) % numTags
      BY Zenon, <3>1, NextTag
    <3>3. QED
      BY Zenon, <1>3, <1>15, <3>2
  <2>2. /\ Taken \in Nat /\ Finished \in Nat /\ T = Finished + Len(issued)
    BY <1>1, <1>15, FrontCounts DEF Finished
  <2>3. \A i \in 1 .. Len(issued) + 1 : issued'[i] = TagOf(Finished + i)
    <3>1. \A i \in 1 .. Len(issued) : issued[i] = TagOf(Finished + i)
      BY Zenon DEF FrontInv, TagInv
    <3>2. Finished + (Len(issued) + 1) = T + 1
      BY <1>15, <2>2
    <3>3. QED
      BY <1>15, <1>19, <3>1, <3>2
  <2>4. \A y \in returned : \E i \in 1 .. Len(issued) + 1 : issued'[i] = y
    <3>1. \A y \in returned : \E i \in 1 .. Len(issued) : issued[i] = y
      BY Zenon DEF FrontInv, TagInv
    <3>2. QED
      BY <1>15, <1>19, <3>1
  <2>5. \A i \in 1 .. Len(done') : done'[i] = TagOf(Taken + i)
    BY Zenon, <1>3 DEF FrontInv, TagInv
  <2>6. Len(issued') < numTags
    BY <1>3, <1>15, <1>19, numTagsAssumption
  <2>7. QED
    <3>1. /\ issued' \in Seq(Nat) /\ done' \in Seq(Nat) /\ next' = TagOf(Translated' + 1)
          /\ Len(issued') < numTags /\ Len(issued') = Len(issued) + 1 /\ Taken' \in Nat
      BY Zenon, <1>3, <1>18, <1>19, <1>20, <2>1, <2>2, <2>6
    <3>2. /\ \A i \in 1 .. Len(issued') : issued'[i] = TagOf(Finished' + i)
          /\ \A y \in returned' : \E i \in 1 .. Len(issued') : issued'[i] = y
          /\ \A i \in 1 .. Len(done') : done'[i] = TagOf(Taken' + i)
      BY Zenon, <1>3, <1>19, <1>20, <2>3, <2>4, <2>5
    <3>3. QED
      BY Zenon, <1>3, <3>1, <3>2 DEF TagInv
<1>25. QED
  BY <1>1, <1>3, <1>5, <1>6, <1>20, <1>21, <1>22, <1>23, <1>24 DEF FrontInv

\* A request goes to the bus.
LEMMA FrontSends ==
  ASSUME FrontInv, reqFifo # << >>, reqFifo' = Tail(reqFifo), UNCHANGED <<req, lreqFifo, mmu, tagVars>>
  PROVE  /\ FrontInv'
         /\ Translated' = Translated /\ Requested' = Requested + 1 /\ Finished' = Finished
         /\ Taken' = Taken /\ Requested < Translated
         /\ Head(reqFifo) = [req |-> Requested + 1, pa |-> Requested + 1, tag |-> TagOf(Requested + 1)]
<1>1. PICK z, Q : z = Len(reqFifo) /\ Q = Requested
  BY Zenon
<1>2. reqFifo \in Seq([req : Nat, pa : Nat, tag : Nat])
  BY Zenon DEF FrontInv, RequestTypes
<1>3. /\ reqFifo' \in Seq([req : Nat, pa : Nat, tag : Nat]) /\ z \in Nat \ {0} /\ Len(reqFifo') = z - 1
      /\ Head(reqFifo) = reqFifo[1] /\ \A i \in 1 .. z - 1 : reqFifo'[i] = reqFifo[i + 1]
  BY <1>1, <1>2, Popped
<1>4. Q = Translated - z /\ Q \in Nat /\ Translated \in Nat
  BY Zenon, <1>1, FrontCounts DEF Requested
<1>5. \A i \in 1 .. z : reqFifo[i] = [req |-> Q + i, pa |-> Q + i, tag |-> TagOf(Q + i)]
  BY Zenon, <1>1 DEF FrontInv, RequestInv
<1>6. /\ Translated' = Translated /\ Requested' = Q + 1 /\ Finished' = Finished /\ Taken' = Taken
  <2>1. Translated' = Translated /\ Finished' = Finished /\ Taken' = Taken
    BY Zenon DEF Translated, Finished, Taken, tagVars
  <2>2. Requested' = Translated - (z - 1)
    BY Zenon, <1>3, <2>1 DEF Requested
  <2>3. QED
    BY <1>3, <1>4, <2>1, <2>2
<1>7. \A i \in 1 .. z - 1 :
        reqFifo'[i] = [req |-> (Q + 1) + i, pa |-> (Q + 1) + i, tag |-> TagOf((Q + 1) + i)]
  <2> SUFFICES ASSUME NEW i \in 1 .. z - 1
      PROVE  reqFifo'[i] = [req |-> (Q + 1) + i, pa |-> (Q + 1) + i, tag |-> TagOf((Q + 1) + i)]
    BY Zenon
  <2>1. PICK x, y : x = i + 1 /\ y = (Q + 1) + i
    BY Zenon
  <2>2. x \in 1 .. z /\ Q + x = y /\ reqFifo'[i] = reqFifo[x]
    BY <1>3, <1>4, <2>1
  <2>3. reqFifo[x] = [req |-> y, pa |-> y, tag |-> TagOf(y)]
    BY Zenon, <1>5, <2>2
  <2>4. QED
    BY Zenon, <2>1, <2>2, <2>3
<1>8. RequestTypes' /\ RequestInv'
  BY <1>3, <1>4, <1>6, <1>7 DEF FrontInv, RequestTypes, RequestInv
<1>9. MmuInv'
  BY Zenon, <1>6 DEF FrontInv, MmuInv
<1>10. TagInv'
  BY Zenon, <1>6 DEF FrontInv, TagInv, tagVars
<1>11. Q < Translated /\ Head(reqFifo) = [req |-> Q + 1, pa |-> Q + 1, tag |-> TagOf(Q + 1)]
  BY <1>3, <1>4, <1>5
<1>12. QED
  BY Zenon, <1>1, <1>6, <1>8, <1>9, <1>10, <1>11 DEF FrontInv

\* A tag comes back.
LEMMA FrontReturns ==
  ASSUME FrontInv, NEW t, tag_gen!Return(t), UNCHANGED <<req, lreqFifo, mmu, reqFifo>>
  PROVE  /\ FrontInv'
         /\ Translated' = Translated /\ Requested' = Requested /\ Finished' = Finished
         /\ Taken' = Taken /\ returned' = returned \cup {t}
<1>1. /\ \E i \in DOMAIN issued : issued[i] = t
      /\ returned' = returned \cup {t} /\ UNCHANGED <<next, issued, done>>
  BY Zenon DEF tag_gen!Return, tag_gen!Range
<1>2. /\ Translated' = Translated /\ Requested' = Requested /\ Finished' = Finished
      /\ Taken' = Taken
  BY Zenon, <1>1 DEF Translated, Requested, Finished, Taken
<1>3. RequestTypes' /\ RequestInv'
  BY Zenon, <1>2 DEF FrontInv, RequestTypes, RequestInv
<1>4. MmuInv'
  BY Zenon, <1>2 DEF FrontInv, MmuInv
<1>5. \E i \in 1 .. Len(issued) : issued[i] = t
  <2>1. issued \in Seq(Nat)
    BY Zenon DEF FrontInv, TagInv
  <2>2. QED
    BY Zenon, <1>1, <2>1, Length
<1>6. TagInv'
  <2>1. TagInv
    BY Zenon DEF FrontInv
  <2>2. \A y \in returned' : \E i \in 1 .. Len(issued) : issued[i] = y
    BY Zenon, <1>1, <1>5, <2>1 DEF TagInv
  <2>3. QED
    BY Zenon, <1>1, <1>2, <2>1, <2>2 DEF TagInv, TagOf
<1>7. QED
  BY Zenon, <1>1, <1>2, <1>3, <1>4, <1>6 DEF FrontInv

\* tag_gen finds that its oldest tag is back.
LEMMA FrontFinishes ==
  ASSUME FrontInv, tag_gen!Finish, UNCHANGED <<req, lreqFifo, mmu, reqFifo>>
  PROVE  /\ FrontInv'
         /\ Translated' = Translated /\ Requested' = Requested /\ Finished' = Finished + 1
         /\ Taken' = Taken /\ Finished < Translated
         /\ TagOf(Finished + 1) \in returned /\ returned' \subseteq returned
<1>1. PICK k, F, d : k = Len(issued) /\ F = Finished /\ d = Len(done)
  BY Zenon
<1>2. /\ issued # << >> /\ Head(issued) \in returned /\ issued' = Tail(issued)
      /\ returned' = returned \ {Head(issued)} /\ done' = Append(done, Head(issued))
      /\ next' = next
  BY Zenon DEF tag_gen!Finish
<1>3. /\ issued \in Seq(Nat) /\ done \in Seq(Nat) /\ k < numTags
      /\ \A i \in 1 .. k : issued[i] = TagOf(F + i)
      /\ \A i \in 1 .. d : done[i] = TagOf(Taken + i)
      /\ \A t \in returned : \E i \in 1 .. k : issued[i] = t
  BY Zenon, <1>1 DEF FrontInv, TagInv
<1>4. /\ issued' \in Seq(Nat) /\ k \in Nat \ {0} /\ Len(issued') = k - 1
      /\ Head(issued) = issued[1] /\ issued[1] \in Nat /\ \A i \in 1 .. k - 1 : issued'[i] = issued[i + 1]
  BY <1>1, <1>2, <1>3, Popped
<1>5. /\ done' \in Seq(Nat) /\ d \in Nat /\ Len(done') = d + 1 /\ done'[d + 1] = Head(issued)
      /\ \A i \in 1 .. d : done'[i] = done[i]
  <2>1. Head(issued) \in Nat
    BY Zenon, <1>4
  <2>2. QED
    BY <1>1, <1>2, <1>3, <2>1, Pushed
<1>6. F = Translated - k /\ F \in Nat /\ Translated \in Nat /\ Taken = F - d /\ Taken \in Nat
  BY Zenon, <1>1, FrontCounts DEF Finished, Taken
<1>7. Head(issued) = TagOf(F + 1)
  BY <1>3, <1>4
<1>8. /\ Translated' = Translated /\ Requested' = Requested /\ Finished' = F + 1 /\ Taken' = Taken
  <2>1. Translated' = Translated /\ Requested' = Requested
    BY Zenon DEF Translated, Requested
  <2>2. Finished' = F + 1
    BY <1>4, <1>6, <2>1 DEF Finished
  <2>3. QED
    BY <1>5, <1>6, <2>1, <2>2 DEF Taken
<1>9. RequestTypes' /\ RequestInv' /\ MmuInv'
  <2>1. RequestTypes' /\ RequestInv'
    BY Zenon, <1>8 DEF FrontInv, RequestTypes, RequestInv
  <2>2. MmuInv'
    BY Zenon, <1>8 DEF FrontInv, MmuInv
  <2>3. QED
    BY Zenon, <2>1, <2>2
<1>10. TagInv'
  <2>1. \A i \in 1 .. k - 1 : issued'[i] = TagOf((F + 1) + i)
    <3> SUFFICES ASSUME NEW i \in 1 .. k - 1 PROVE issued'[i] = TagOf((F + 1) + i)
      BY Zenon
    <3>1. i + 1 \in 1 .. k /\ F + (i + 1) = (F + 1) + i /\ issued'[i] = issued[i + 1]
      BY <1>4, <1>6
    <3>2. QED
      BY Zenon, <1>3, <3>1
  <2>2. \A i \in 1 .. d + 1 : done'[i] = TagOf(Taken + i)
    <3>1. Taken + (d + 1) = F + 1
      BY <1>5, <1>6
    <3>2. QED
      BY <1>3, <1>5, <1>7, <3>1
  <2>3. ASSUME NEW t \in returned' PROVE \E i \in 1 .. k - 1 : issued'[i] = t
    <3>1. t \in returned /\ t # issued[1]
      BY Zenon, <1>2, <1>4
    <3>2. PICK i \in 1 .. k : issued[i] = t
      BY Zenon, <1>3, <3>1
    <3>3. i - 1 \in 1 .. k - 1 /\ issued'[i - 1] = t
      BY <1>4, <3>1, <3>2
    <3>4. QED
      BY Zenon, <3>3
  <2>4. next' = TagOf(Translated + 1)
    BY Zenon, <1>2 DEF FrontInv, TagInv
  <2>5. k - 1 < numTags
    BY <1>3, <1>4, numTagsAssumption
  <2>6. QED
    BY Zenon, <1>4, <1>5, <1>6, <1>8, <2>1, <2>2, <2>3, <2>4, <2>5 DEF TagInv
<1>11. QED
  BY <1>1, <1>2, <1>4, <1>6, <1>7, <1>8, <1>9, <1>10 DEF FrontInv

\* A completed tag is taken from tag_gen.
LEMMA FrontTakes ==
  ASSUME FrontInv, tag_gen!Take, UNCHANGED <<req, lreqFifo, mmu, reqFifo>>
  PROVE  /\ FrontInv'
         /\ Translated' = Translated /\ Requested' = Requested /\ Finished' = Finished
         /\ Taken' = Taken + 1 /\ Taken < Finished /\ returned' = returned
         /\ Head(done) = TagOf(Taken + 1)
<1>1. PICK d, K : d = Len(done) /\ K = Taken
  BY Zenon
<1>2. done # << >> /\ done' = Tail(done) /\ UNCHANGED <<next, issued, returned>>
  BY Zenon DEF tag_gen!Take
<1>3. done \in Seq(Nat) /\ \A i \in 1 .. d : done[i] = TagOf(K + i)
  BY Zenon, <1>1 DEF FrontInv, TagInv
<1>4. /\ done' \in Seq(Nat) /\ d \in Nat \ {0} /\ Len(done') = d - 1
      /\ Head(done) = done[1] /\ \A i \in 1 .. d - 1 : done'[i] = done[i + 1]
  BY <1>1, <1>2, <1>3, Popped
<1>5. K = Finished - d /\ K \in Nat /\ Finished \in Nat
  BY Zenon, <1>1, FrontCounts DEF Taken
<1>6. /\ Translated' = Translated /\ Requested' = Requested /\ Finished' = Finished /\ Taken' = K + 1
  <2>1. Translated' = Translated /\ Requested' = Requested /\ Finished' = Finished
    BY Zenon, <1>2 DEF Translated, Requested, Finished
  <2>2. QED
    BY <1>4, <1>5, <2>1 DEF Taken
<1>7. RequestTypes' /\ RequestInv' /\ MmuInv'
  <2>1. RequestTypes' /\ RequestInv'
    BY Zenon, <1>6 DEF FrontInv, RequestTypes, RequestInv
  <2>2. MmuInv'
    BY Zenon, <1>6 DEF FrontInv, MmuInv
  <2>3. QED
    BY Zenon, <2>1, <2>2
<1>8. \A i \in 1 .. d - 1 : done'[i] = TagOf((K + 1) + i)
  <2> SUFFICES ASSUME NEW i \in 1 .. d - 1 PROVE done'[i] = TagOf((K + 1) + i)
    BY Zenon
  <2>1. i + 1 \in 1 .. d /\ K + (i + 1) = (K + 1) + i
    BY <1>4, <1>5
  <2>2. done'[i] = done[i + 1]
    BY Zenon, <1>4
  <2>3. QED
    BY Zenon, <1>3, <2>1, <2>2
<1>9. TagInv'
  <2>1. Taken' \in Nat
    BY <1>5, <1>6
  <2>2. \A i \in 1 .. Len(done') : done'[i] = TagOf(Taken' + i)
    BY Zenon, <1>4, <1>6, <1>8
  <2>3. TagInv
    BY Zenon DEF FrontInv
  <2>4. QED
    BY Zenon, <1>2, <1>4, <1>6, <2>1, <2>2, <2>3 DEF TagInv, TagOf
<1>10. QED
  BY <1>1, <1>2, <1>3, <1>4, <1>5, <1>6, <1>7, <1>9 DEF FrontInv

\* The tags of requests less than numTags apart differ.
LEMMA TagsApart ==
  ASSUME NEW m \in Nat \ {0}, NEW n \in Nat \ {0}, m < n, n - m < numTags
  PROVE  TagOf(m) # TagOf(n)
<1>1. PICK x, y : x = m - 1 /\ y = n - 1
  BY Zenon
<1>2. x \in Nat /\ y \in Nat /\ x < y /\ y - x < numTags
  BY <1>1, numTagsAssumption
<1>3. x % numTags # y % numTags
  BY Zenon, <1>2, Apart
<1>4. QED
  BY Zenon, <1>1, <1>3 DEF TagOf

-----------------------------------------------------------------------------
\* The inductive invariant of the writes.

\* How many requests memdata has moved, and how many beats of the next.
Moved == Requested - Len(dreqFifo)
Pos == IF firstReg THEN 0 ELSE req[Moved + 1].burstLen - burstReg

\* A beat for the bus, and a burst of the bus.
WriteBeat == [data : Nat \X Nat, tag : Nat, last : BOOLEAN]
Burst == [tag : Nat, pa : Nat, burstLen : Nat, beats : Seq(WriteBeat)]

\* What a client may be told.
Told == [orig_tag : Nat, client : Client \union {NoResp.client}]

WriteTypes ==
  /\ dreqFifo \in Seq([req : Nat, tag : Nat])
  /\ DOMAIN respFifos = RenameTag /\ \A t \in RenameTag : respFifos[t] \in Told
  /\ clientWriteData \in [Client -> Seq(Nat \X Nat)]
  /\ unwritten \in [Client -> Seq(Nat \X Nat)]
  /\ memDataFifo \in Seq(WriteBeat)
  /\ bursts \in Seq(Burst)
  /\ firstReg \in BOOLEAN /\ lastReg \in BOOLEAN /\ burstReg \in Int

MovedInv ==
  /\ Moved \in Nat
  /\ \A i \in 1 .. Len(dreqFifo) : dreqFifo[i] = [req |-> Moved + i, tag |-> TagOf(Moved + i)]
  /\ ~firstReg => /\ dreqFifo # << >>
                  /\ burstReg \in 1 .. req[Moved + 1].burstLen - 1
                  /\ lastReg = (burstReg = 1)

\* The words client c has not given memdata, in order.
Ahead(c, i) ==
  IF i <= Len(clientWriteData[c]) THEN clientWriteData[c][i]
                                  ELSE unwritten[c][i - Len(clientWriteData[c])]
AheadLen(c) == Len(clientWriteData[c]) + Len(unwritten[c])

\* Word k of request n is one of client c, and memdata has not moved it.
Due(c, n, k) ==
  /\ n \in 1 .. Len(req) /\ req[n].client = c /\ k \in 1 .. req[n].burstLen
  /\ n > Moved + 1 \/ (n = Moved + 1 /\ k > Pos)

Before(w, x) == w[1] < x[1] \/ (w[1] = x[1] /\ w[2] < x[2])

\* A client's words are those that are due, in order.
StreamInv ==
  \A c \in Client :
    /\ \A i \in 1 .. AheadLen(c) : Due(c, Ahead(c, i)[1], Ahead(c, i)[2])
    /\ \A i, j \in 1 .. AheadLen(c) : i < j => Before(Ahead(c, i), Ahead(c, j))
    /\ \A n, k \in Nat :
         Due(c, n, k) => \E i \in 1 .. AheadLen(c) : Ahead(c, i) = <<n, k>>

\* Word x follows word w in the stream of all requests.
Follows(w, x) ==
  x = IF w[2] = req[w[1]].burstLen THEN <<w[1] + 1, 1>> ELSE <<w[1], w[2] + 1>>

\* A beat that memdata has moved.
MovedBeat(b) ==
  LET n == b.data[1] k == b.data[2] IN
  /\ n \in 1 .. Len(req) /\ k \in 1 .. req[n].burstLen
  /\ n <= Moved \/ (n = Moved + 1 /\ k <= Pos)
  /\ b.tag = TagOf(n) /\ b.last = (k = req[n].burstLen)

\* The beats between memdata and the bus, which has v beats of request u and all of
\* those before it.
ChainInv(u, v) ==
  /\ u <= Moved + 1
  /\ \A i \in 1 .. Len(memDataFifo) : MovedBeat(memDataFifo[i])
  /\ memDataFifo # << >> => memDataFifo[1].data = <<u, v + 1>>
  /\ memDataFifo = << >> => u = Moved + 1 /\ v = Pos
  /\ \A i \in 1 .. Len(memDataFifo) :
       Follows(memDataFifo[i].data,
               IF i < Len(memDataFifo) THEN memDataFifo[i + 1].data ELSE <<Moved + 1, Pos + 1>>)

BusInv(u, v) ==
  /\ \A i, j \in 1 .. Len(bursts) : i < j => bursts[i].pa < bursts[j].pa
  /\ \A i \in 1 .. Len(bursts) :
       LET b == bursts[i] IN
       /\ b.pa \in 1 .. Requested /\ b.tag = TagOf(b.pa) /\ b.burstLen = req[b.pa].burstLen
       /\ Len(b.beats) = IF b.pa < u THEN b.burstLen ELSE IF b.pa = u THEN v ELSE 0
  /\ \A n \in u .. Requested : \E i \in 1 .. Len(bursts) : bursts[i].pa = n
  /\ u <= Requested => v < req[u].burstLen

\* Requests whose tags are back are not on the bus, and only they are complete.
ReturnedInv ==
  /\ Finished <= Moved
  /\ \A i \in 1 .. Len(bursts) : bursts[i].pa > Finished
  /\ \A n \in Finished + 1 .. Translated :
       TagOf(n) \in returned => n <= Requested /\ \A i \in 1 .. Len(bursts) : bursts[i].pa # n

\* respFifos knows whom to tell of a request from its first beat on, until tag_gen's
\* completion of it is taken, unless the request is lost; and it is if its tag was issued
\* again.
Answer(n) == [orig_tag |-> n, client |-> req[n].client]
RespInv ==
  /\ \A n \in Taken + 1 .. Len(req) :
       n <= Moved \/ (n = Moved + 1 /\ ~firstReg) => n \in lost \/ respFifos[TagOf(n)] = Answer(n)
  /\ \A n \in Taken + 1 .. Finished : n + numTags <= Translated => n \in lost

DoneInv ==
  /\ told \in Nat /\ respB \in Seq(Told) /\ told + Len(respB) = Taken
  /\ \A i \in 1 .. Len(respB) : told + i \in lost \/ respB[i] = Answer(told + i)

\* The inductive invariant of the writes.
WriteInv ==
  /\ FrontInv /\ WriteTypes /\ MovedInv /\ StreamInv /\ RightData
  /\ \E u \in Nat \ {0}, v \in Nat : ChainInv(u, v) /\ BusInv(u, v)
  /\ ReturnedInv /\ RespInv /\ DoneInv

\* The tags that are back are those of requests that have been translated.
LEMMA ReturnedWindow ==
  ASSUME FrontInv, NEW t \in returned
  PROVE  \E n \in Finished + 1 .. Translated : t = TagOf(n)
<1>1. PICK i \in 1 .. Len(issued) : issued[i] = t /\ issued[i] = TagOf(Finished + i)
  BY Zenon DEF FrontInv, TagInv
<1>2. Len(issued) \in Nat /\ Finished \in Nat /\ Translated = Finished + Len(issued)
  <2>1. Len(issued) \in Nat
    BY DEF FrontInv, TagInv
  <2>2. QED
    BY <2>1, FrontCounts DEF Finished
<1>3. Finished + i \in Finished + 1 .. Translated
  BY <1>2
<1>4. QED
  BY Zenon, <1>1, <1>3

LEMMA RequestType ==
  ASSUME FrontInv, NEW n \in 1 .. Len(req)
  PROVE  req[n].client \in Client /\ req[n].burstLen \in Nat \ {0}
<1>1. req \in Seq([client : Client, mmu : Mmu, burstLen : 1 .. MaxBurst])
  BY Zenon DEF FrontInv, RequestTypes
<1>2. req[n] \in [client : Client, mmu : Mmu, burstLen : 1 .. MaxBurst]
  BY Zenon, <1>1, Element
<1>3. QED
  BY <1>2, AsksAssumption

LEMMA WriteCounts ==
  ASSUME FrontInv, WriteTypes, MovedInv
  PROVE  /\ Moved \in Nat /\ Moved <= Requested /\ Pos \in Nat
         /\ firstReg => Pos = 0
         /\ ~firstReg => /\ Moved + 1 <= Requested /\ Moved + 1 \in 1 .. Len(req)
                         /\ Pos \in 1 .. req[Moved + 1].burstLen - 1
                         /\ burstReg = req[Moved + 1].burstLen - Pos
                         /\ lastReg = (burstReg = 1)
         /\ Moved < Requested <=> dreqFifo # << >>
<1>1. dreqFifo \in Seq([req : Nat, tag : Nat])
  BY Zenon DEF WriteTypes
<1>2. Len(dreqFifo) \in Nat /\ (dreqFifo # << >> <=> Len(dreqFifo) > 0)
  BY <1>1, Empty
<1>3. Requested \in Nat /\ Requested <= Len(req) /\ Len(req) \in Nat
  BY FrontCounts
<1>4. Moved \in Nat /\ Moved = Requested - Len(dreqFifo)
  BY Zenon DEF MovedInv, Moved
<1>5. /\ Moved <= Requested /\ (Moved < Requested <=> dreqFifo # << >>)
  BY <1>2, <1>3, <1>4
<1>6. CASE firstReg
  BY Zenon, <1>4, <1>5, <1>6 DEF Pos
<1>7. CASE ~firstReg
  <2>1. Moved + 1 <= Requested /\ Moved + 1 \in 1 .. Len(req)
    BY <1>3, <1>4, <1>5, <1>7 DEF MovedInv
  <2>2. req[Moved + 1].burstLen \in Nat \ {0}
    BY Zenon, <2>1, RequestType
  <2>3. burstReg \in 1 .. req[Moved + 1].burstLen - 1 /\ lastReg = (burstReg = 1)
    BY Zenon, <1>7 DEF MovedInv
  <2>4. Pos = req[Moved + 1].burstLen - burstReg
    BY Zenon, <1>7 DEF Pos
  <2>5. QED
    BY <1>4, <1>5, <1>7, <2>1, <2>2, <2>3, <2>4
<1>8. QED
  BY Zenon, <1>6, <1>7

\* What lies between memdata and the bus stays while both do, whatever requests are added.
LEMMA MovedStays ==
  ASSUME UNCHANGED <<req, burstReg, firstReg, lastReg, dreqFifo, memDataFifo>>, Requested' = Requested
  PROVE  /\ Moved' = Moved /\ Pos' = Pos /\ (MovedInv => MovedInv')
         /\ \A u, v : ChainInv(u, v) => ChainInv(u, v)'
<1>1. Moved' = Moved
  BY Zenon DEF Moved
<1>2. Pos' = Pos
  BY Zenon, <1>1 DEF Pos
<1>3. MovedInv => MovedInv'
  BY Zenon, <1>1 DEF MovedInv, TagOf
<1>4. ASSUME NEW u, NEW v, ChainInv(u, v) PROVE ChainInv(u, v)'
  BY Zenon, <1>1, <1>2, <1>4 DEF ChainInv, MovedBeat, Follows, TagOf
<1>5. QED
  BY Zenon, <1>1, <1>2, <1>3, <1>4

LEMMA BusStays ==
  ASSUME FrontInv, WriteTypes, MovedInv, RightData,
         Len(req') \in Nat, Len(req) <= Len(req'), \A n \in 1 .. Len(req) : req'[n] = req[n],
         Requested' = Requested, UNCHANGED <<burstReg, firstReg, lastReg, dreqFifo, memDataFifo, bursts>>
  PROVE  /\ MovedInv' /\ RightData' /\ Moved' = Moved /\ Pos' = Pos
         /\ \A u \in Nat \ {0}, v \in Nat :
              ChainInv(u, v) /\ BusInv(u, v) => ChainInv(u, v)' /\ BusInv(u, v)'
<1>1. Moved' = Moved
  BY Zenon DEF Moved
<1>2. Pos' = Pos /\ MovedInv'
  <2>1. CASE firstReg
    BY Zenon, <1>1, <2>1 DEF Pos, MovedInv
  <2>2. CASE ~firstReg
    <3>1. req'[Moved + 1] = req[Moved + 1]
      BY Zenon, <2>2, WriteCounts
    <3>2. QED
      BY Zenon, <1>1, <2>2, <3>1 DEF Pos, MovedInv
  <2>3. QED
    BY Zenon, <2>1, <2>2
<1>3. RightData'
  BY Zenon DEF RightData
<1>4. Len(req) \in Nat /\ Requested <= Len(req) /\ Requested \in Nat
  BY FrontCounts
<1>5. ASSUME NEW u \in Nat \ {0}, NEW v \in Nat, ChainInv(u, v), BusInv(u, v)
      PROVE  ChainInv(u, v)' /\ BusInv(u, v)'
  <2>1. ASSUME NEW i \in 1 .. Len(memDataFifo) PROVE MovedBeat(memDataFifo[i])'
    <3>1. MovedBeat(memDataFifo[i])
      BY Zenon, <1>5 DEF ChainInv
    <3>2. req'[memDataFifo[i].data[1]] = req[memDataFifo[i].data[1]]
      BY Zenon, <3>1 DEF MovedBeat
    <3>3. memDataFifo[i].data[1] \in 1 .. Len(req')
      BY <1>4, <3>1 DEF MovedBeat
    <3>4. QED
      BY Zenon, <1>1, <1>2, <3>1, <3>2, <3>3 DEF MovedBeat
  <2>2. ASSUME NEW i \in 1 .. Len(memDataFifo)
        PROVE  Follows(memDataFifo[i].data,
                       IF i < Len(memDataFifo) THEN memDataFifo[i + 1].data ELSE <<Moved + 1, Pos + 1>>)'
    <3>1. MovedBeat(memDataFifo[i])
      BY Zenon, <1>5 DEF ChainInv
    <3>2. req'[memDataFifo[i].data[1]] = req[memDataFifo[i].data[1]]
      BY Zenon, <3>1 DEF MovedBeat
    <3>3. Follows(memDataFifo[i].data,
                  IF i < Len(memDataFifo) THEN memDataFifo[i + 1].data ELSE <<Moved + 1, Pos + 1>>)
      BY Zenon, <1>5 DEF ChainInv
    <3>4. QED
      BY Zenon, <1>1, <1>2, <3>2, <3>3 DEF Follows
  <2>3. ChainInv(u, v)'
    BY Zenon, <1>1, <1>2, <1>5, <2>1, <2>2 DEF ChainInv
  <2>4. \A n \in 1 .. Requested : req'[n] = req[n]
    BY <1>4
  <2>5. BusInv(u, v)'
    BY <1>4, <1>5, <2>4 DEF BusInv
  <2>6. QED
    BY Zenon, <2>3, <2>5
<1>6. QED
  BY Zenon, <1>1, <1>2, <1>3, <1>5

\* The streams of words stay with the requests, memdata's position and the words.
LEMMA StreamStays ==
  ASSUME StreamInv, UNCHANGED req, Moved' = Moved, Pos' = Pos,
         \A c \in Client : AheadLen(c)' = AheadLen(c),
         \A c \in Client : \A i \in 1 .. AheadLen(c) : Ahead(c, i)' = Ahead(c, i)
  PROVE  StreamInv'
<1>1. \A c, n, k : Due(c, n, k)' <=> Due(c, n, k)
  BY Zenon DEF Due
<1>2. ASSUME NEW c \in Client
      PROVE  /\ \A i \in 1 .. AheadLen(c)' : Due(c, Ahead(c, i)[1], Ahead(c, i)[2])'
             /\ \A i, j \in 1 .. AheadLen(c)' : i < j => Before(Ahead(c, i), Ahead(c, j))'
             /\ \A n, k \in Nat :
                  Due(c, n, k)' => \E i \in 1 .. AheadLen(c)' : Ahead(c, i)' = <<n, k>>
  <2>1. \A i \in 1 .. AheadLen(c) : Due(c, Ahead(c, i)[1], Ahead(c, i)[2])'
    <3> SUFFICES ASSUME NEW i \in 1 .. AheadLen(c) PROVE Due(c, Ahead(c, i)[1], Ahead(c, i)[2])'
      BY Zenon
    <3>1. Due(c, Ahead(c, i)[1], Ahead(c, i)[2])
      BY Zenon DEF StreamInv
    <3>2. Ahead(c, i)' = Ahead(c, i)
      BY Zenon
    <3>3. QED
      BY Zenon, <3>1, <3>2 DEF Due
  <2>2. \A i, j \in 1 .. AheadLen(c) : i < j => Before(Ahead(c, i), Ahead(c, j))'
    <3> SUFFICES ASSUME NEW i \in 1 .. AheadLen(c), NEW j \in 1 .. AheadLen(c), i < j
        PROVE  Before(Ahead(c, i), Ahead(c, j))'
      BY Zenon
    <3>1. Before(Ahead(c, i), Ahead(c, j))
      BY Zenon DEF StreamInv
    <3>2. Ahead(c, i)' = Ahead(c, i) /\ Ahead(c, j)' = Ahead(c, j)
      BY Zenon
    <3>3. QED
      BY Zenon, <3>1, <3>2 DEF Before
  <2>3. \A n, k \in Nat : Due(c, n, k)' => \E i \in 1 .. AheadLen(c) : Ahead(c, i)' = <<n, k>>
    BY <1>1 DEF StreamInv
  <2>4. QED
    BY Zenon, <2>1, <2>2, <2>3
<1>3. QED
  BY Zenon, <1>2 DEF StreamInv

LEMMA AheadStays ==
  ASSUME UNCHANGED <<clientWriteData, unwritten>>
  PROVE  /\ \A c \in Client : AheadLen(c)' = AheadLen(c)
         /\ \A c \in Client : \A i \in 1 .. AheadLen(c) : Ahead(c, i)' = Ahead(c, i)
BY Zenon DEF Ahead, AheadLen

LEMMA AheadType ==
  ASSUME WriteTypes, NEW c \in Client
  PROVE  AheadLen(c) \in Nat /\ \A i \in 1 .. AheadLen(c) : Ahead(c, i) \in Nat \X Nat
<1>1. clientWriteData[c] \in Seq(Nat \X Nat) /\ unwritten[c] \in Seq(Nat \X Nat)
  BY Zenon DEF WriteTypes
<1>2. PICK p, q : p = Len(clientWriteData[c]) /\ q = Len(unwritten[c])
  BY Zenon
<1>3. p \in Nat /\ q \in Nat /\ AheadLen(c) = p + q
  BY Zenon, <1>1, <1>2, Length DEF AheadLen
<1>4. ASSUME NEW i \in 1 .. p + q PROVE Ahead(c, i) \in Nat \X Nat
  <2>1. CASE i <= p
    <3>1. i \in 1 .. Len(clientWriteData[c]) /\ Ahead(c, i) = clientWriteData[c][i]
      BY <1>2, <1>3, <2>1 DEF Ahead
    <3>2. QED
      BY <1>1, <3>1, Element
  <2>2. CASE ~(i <= p)
    <3>1. i - p \in 1 .. q
      BY <1>3, <2>2
    <3>2. Ahead(c, i) = unwritten[c][i - p]
      BY Zenon, <1>2, <2>2 DEF Ahead
    <3>3. QED
      BY <1>1, <1>2, <3>1, <3>2, Element
  <2>3. QED
    BY Zenon, <2>1, <2>2
<1>5. QED
  BY <1>3, <1>4

\* What respFifos holds is right while it, the requests, memdata and tag_gen stay.
LEMMA RespStays ==
  ASSUME RespInv, FrontInv, Taken' = Taken, Moved' = Moved, Finished' = Finished,
         Translated' = Translated, UNCHANGED <<req, firstReg, respFifos, lost>>
  PROVE  RespInv'
BY Zenon DEF RespInv, Answer, TagOf

LEMMA DoneStays ==
  ASSUME DoneInv, Taken' = Taken, UNCHANGED <<req, respB, told>>, lost \subseteq lost'
  PROVE  DoneInv'
BY Zenon DEF DoneInv, Answer

-----------------------------------------------------------------------------
\* The steps of the writes.

\* An error, its report, or a request that goes out of range.
LEMMA WriteErrors ==
  ASSUME WriteInv, UNCHANGED <<req, lreqFifo, mmu, reqFifo, tagVars, burstVars, lost, writeVars>>
  PROVE  WriteInv'
<1>1. /\ FrontInv /\ WriteTypes /\ MovedInv /\ StreamInv /\ RightData
      /\ ReturnedInv /\ RespInv /\ DoneInv
  BY Zenon DEF WriteInv
<1>2. PICK u \in Nat \ {0}, v \in Nat : ChainInv(u, v) /\ BusInv(u, v)
  BY Zenon DEF WriteInv
<1>3. /\ FrontInv' /\ Translated' = Translated /\ Requested' = Requested /\ Finished' = Finished
      /\ Taken' = Taken
  BY Zenon, <1>1, FrontStays
<1>4. /\ UNCHANGED <<burstReg, firstReg, lastReg, dreqFifo, respFifos, respB, unwritten, clientWriteData,
                     memDataFifo, bursts, told, lost, returned>>
  BY Zenon DEF burstVars, writeVars, dataVars, tagVars
<1>5. MovedInv' /\ RightData' /\ Moved' = Moved /\ Pos' = Pos /\ ChainInv(u, v)' /\ BusInv(u, v)'
  <2>1. Len(req) \in Nat
    BY Zenon, <1>1, FrontCounts
  <2>2. QED
    BY <1>1, <1>2, <1>3, <1>4, <2>1, BusStays
<1>6. StreamInv'
  BY Zenon, <1>1, <1>4, <1>5, StreamStays, AheadStays
<1>7. WriteTypes'
  BY Zenon, <1>1, <1>4 DEF WriteTypes
<1>8. ReturnedInv'
  BY Zenon, <1>1, <1>3, <1>4, <1>5 DEF ReturnedInv, TagOf
<1>9. RespInv'
  BY Zenon, <1>1, <1>3, <1>4, <1>5, RespStays
<1>10. DoneInv'
  BY Zenon, <1>1, <1>3, <1>4, DoneStays
<1>11. QED
  BY Zenon, <1>3, <1>5, <1>6, <1>7, <1>8, <1>9, <1>10 DEF WriteInv

LEMMA WriteChecks == ASSUME WriteInv, write_checkMmuResp PROVE WriteInv'
<1>1. /\ FrontInv /\ WriteTypes /\ MovedInv /\ StreamInv /\ RightData
      /\ ReturnedInv /\ RespInv /\ DoneInv
  BY Zenon DEF WriteInv
<1>2. PICK u \in Nat \ {0}, v \in Nat : ChainInv(u, v) /\ BusInv(u, v)
  BY Zenon DEF WriteInv
<1>3. /\ FrontInv' /\ Translated' = Translated + 1 /\ Requested' = Requested /\ Finished' = Finished
      /\ Taken' = Taken /\ UNCHANGED <<req, returned, burstReg, firstReg, lastReg>>
  BY Zenon, <1>1, FrontChecks DEF write_checkMmuResp
<1>4. /\ UNCHANGED <<dreqFifo, respFifos, respB, unwritten, clientWriteData,
                     memDataFifo, bursts, told>>
      /\ lost' = lost \union {told + Len(respB) + i : i \in {j \in DOMAIN done : done[j] = next}}
  BY Zenon DEF write_checkMmuResp, writeVars, dataVars
<1>5. MovedInv' /\ RightData' /\ Moved' = Moved /\ Pos' = Pos /\ ChainInv(u, v)' /\ BusInv(u, v)'
  <2>1. Len(req) \in Nat
    BY Zenon, <1>1, FrontCounts
  <2>2. QED
    BY <1>1, <1>2, <1>3, <1>4, <2>1, BusStays
<1>6. StreamInv'
  BY Zenon, <1>1, <1>3, <1>4, <1>5, StreamStays, AheadStays
<1>7. WriteTypes'
  BY Zenon, <1>1, <1>3, <1>4 DEF WriteTypes
<1>8. ReturnedInv'
  <2>1. TagOf(Translated + 1) \notin returned
    <3>1. SUFFICES ASSUME TagOf(Translated + 1) \in returned PROVE FALSE
      BY Zenon
    <3>2. PICK n \in Finished + 1 .. Translated : TagOf(Translated + 1) = TagOf(n)
      BY Zenon, <1>1, <3>1, ReturnedWindow
    <3>3. /\ Finished \in Nat /\ Translated \in Nat /\ Translated < Finished + numTags
      BY Zenon, <1>1, FrontCounts
    <3>4. /\ n \in Nat \ {0} /\ Translated + 1 \in Nat \ {0} /\ n < Translated + 1
          /\ (Translated + 1) - n < numTags
      BY <3>2, <3>3, numTagsAssumption
    <3>5. QED
      BY Zenon, <3>2, <3>4, TagsApart
  <2>2. Translated \in Nat /\ Finished \in Nat
    BY Zenon, <1>1, FrontCounts
  <2>3. \A n \in Finished + 1 .. Translated + 1 :
          TagOf(n) \in returned => n <= Requested /\ \A i \in 1 .. Len(bursts) : bursts[i].pa # n
    BY <1>1, <2>1, <2>2 DEF ReturnedInv
  <2>4. QED
    BY Zenon, <1>1, <1>3, <1>4, <1>5, <2>3 DEF ReturnedInv, TagOf
<1>9. RespInv'
  <2>1. \A n \in Taken + 1 .. Len(req) :
          n <= Moved \/ (n = Moved + 1 /\ ~firstReg) => n \in lost' \/ respFifos[TagOf(n)] = Answer(n)
    BY Zenon, <1>1, <1>4 DEF RespInv
  <2>2. ASSUME NEW n \in Taken + 1 .. Finished, n + numTags <= Translated + 1 PROVE n \in lost'
    <3>1. /\ Taken \in Nat /\ Finished \in Nat /\ Translated \in Nat /\ Finished <= Translated
          /\ Taken = Finished - Len(done) /\ Len(done) \in Nat
      <4>1. Len(done) \in Nat
        BY <1>1 DEF FrontInv, TagInv
      <4>2. QED
        BY Zenon, <1>1, <4>1, FrontCounts DEF Taken
    <3>2. CASE n + numTags <= Translated
      BY Zenon, <1>1, <1>4, <3>2 DEF RespInv
    <3>3. CASE n + numTags = Translated + 1
      <4>1. PICK j : j = n - Taken
        BY Zenon
      <4>2. j \in 1 .. Len(done) /\ n \in Nat \ {0} /\ Taken + j = n
        BY <3>1, <4>1
      <4>3. done[j] = TagOf(n) /\ next = TagOf(n + numTags) /\ done \in Seq(Nat)
        BY Zenon, <1>1, <3>3, <4>2 DEF FrontInv, TagInv
      <4>4. j \in DOMAIN done /\ done[j] = next
        BY Zenon, <4>2, <4>3, TagRepeats, Length
      <4>5. told + Len(respB) + j = n
        <5>1. told + Len(respB) = Taken
          BY Zenon, <1>1 DEF DoneInv
        <5>2. QED
          BY Zenon, <4>2, <5>1
      <4>6. QED
        BY Zenon, <1>4, <4>4, <4>5
    <3>4. n + numTags <= Translated \/ n + numTags = Translated + 1
      BY <2>2, <3>1, numTagsAssumption
    <3>5. QED
      BY Zenon, <3>2, <3>3, <3>4
  <2>3. QED
    BY Zenon, <1>3, <1>4, <1>5, <2>1, <2>2 DEF RespInv, Answer, TagOf
<1>10. DoneInv'
  BY Zenon, <1>1, <1>3, <1>4, DoneStays
<1>11. QED
  BY Zenon, <1>3, <1>5, <1>6, <1>7, <1>8, <1>9, <1>10 DEF WriteInv

\* A request whose tag is back has left the bus, so that all its beats were moved.
LEMMA WriteFinishes == ASSUME WriteInv, write_tag_gen_step PROVE WriteInv'
<1>1. /\ FrontInv /\ WriteTypes /\ MovedInv /\ StreamInv /\ RightData
      /\ ReturnedInv /\ RespInv /\ DoneInv
  BY Zenon DEF WriteInv
<1>2. PICK u \in Nat \ {0}, v \in Nat : ChainInv(u, v) /\ BusInv(u, v)
  BY Zenon DEF WriteInv
<1>3. /\ UNCHANGED <<req, lreqFifo, mmu, reqFifo, burstReg, firstReg, lastReg, dreqFifo, respFifos, respB,
                     unwritten, clientWriteData, memDataFifo, bursts, told, lost>>
      /\ tag_gen!Finish
  BY Zenon DEF write_tag_gen_step, tag_gen_step, requestVars, burstVars, writeVars, dataVars
<1>4. /\ FrontInv' /\ Translated' = Translated /\ Requested' = Requested /\ Finished' = Finished + 1
      /\ Taken' = Taken /\ TagOf(Finished + 1) \in returned /\ returned' \subseteq returned
      /\ Finished < Translated
  BY Zenon, <1>1, <1>3, FrontFinishes
<1>5. MovedInv' /\ RightData' /\ Moved' = Moved /\ Pos' = Pos /\ ChainInv(u, v)' /\ BusInv(u, v)'
  <2>1. Len(req) \in Nat
    BY Zenon, <1>1, FrontCounts
  <2>2. QED
    BY <1>1, <1>2, <1>3, <1>4, <2>1, BusStays
<1>6. StreamInv'
  BY Zenon, <1>1, <1>3, <1>5, StreamStays, AheadStays
<1>7. WriteTypes'
  BY Zenon, <1>1, <1>3 DEF WriteTypes
<1>8. ReturnedInv'
  <2>1. /\ Finished \in Nat /\ Translated \in Nat /\ Requested \in Nat /\ Moved \in Nat
    BY Zenon, <1>1, FrontCounts, WriteCounts
  <2>2. Finished + 1 <= Requested /\ \A i \in 1 .. Len(bursts) : bursts[i].pa # Finished + 1
    BY <1>1, <1>4, <2>1 DEF ReturnedInv
  <2>3. ~(u <= Finished + 1)
    BY <1>2, <2>1, <2>2 DEF BusInv
  <2>4. Finished + 1 <= Moved
    BY <1>2, <2>1, <2>3 DEF ChainInv
  <2>5. \A i \in 1 .. Len(bursts) : bursts[i].pa > Finished + 1
    <3>1. \A i \in 1 .. Len(bursts) : bursts[i].pa \in Nat /\ bursts[i].pa > Finished
      BY <1>1, <1>2, <2>1 DEF ReturnedInv, BusInv
    <3>2. QED
      BY <2>1, <2>2, <3>1
  <2>6. \A n \in (Finished + 1) + 1 .. Translated :
          TagOf(n) \in returned' => n <= Requested /\ \A i \in 1 .. Len(bursts) : bursts[i].pa # n
    BY <1>1, <1>4, <2>1 DEF ReturnedInv
  <2>7. QED
    BY Zenon, <1>3, <1>4, <1>5, <2>4, <2>5, <2>6 DEF ReturnedInv, TagOf
<1>9. RespInv'
  <2>1. /\ Taken \in Nat /\ Finished \in Nat /\ Translated \in Nat /\ Translated < Finished + numTags
    BY Zenon, <1>1, FrontCounts
  <2>2. ASSUME NEW n \in Taken + 1 .. Finished + 1, n + numTags <= Translated PROVE n \in lost
    <3>1. n \in Taken + 1 .. Finished
      BY <2>1, <2>2, numTagsAssumption
    <3>2. QED
      BY Zenon, <1>1, <2>2, <3>1 DEF RespInv
  <2>3. QED
    BY Zenon, <1>1, <1>3, <1>4, <1>5, <2>2 DEF RespInv, Answer, TagOf
<1>10. DoneInv'
  BY Zenon, <1>1, <1>3, <1>4, DoneStays
<1>11. QED
  BY Zenon, <1>4, <1>5, <1>6, <1>7, <1>8, <1>9, <1>10 DEF WriteInv

\* tag_gen's completion of a request finds in respFifos whom to tell of it.
LEMMA WriteTakes == ASSUME WriteInv, writeDoneComp0 PROVE WriteInv'
<1>1. /\ FrontInv /\ WriteTypes /\ MovedInv /\ StreamInv /\ RightData
      /\ ReturnedInv /\ RespInv /\ DoneInv
  BY Zenon DEF WriteInv
<1>2. PICK u \in Nat \ {0}, v \in Nat : ChainInv(u, v) /\ BusInv(u, v)
  BY Zenon DEF WriteInv
<1>3. /\ UNCHANGED <<req, lreqFifo, mmu, reqFifo, burstReg, firstReg, lastReg, dreqFifo, respFifos,
                     unwritten, clientWriteData, memDataFifo, bursts, told, lost>>
      /\ tag_gen!Take /\ respB' = Append(respB, respFifos[Head(done)])
  BY Zenon DEF writeDoneComp0, requestVars, burstVars, dataVars
<1>4. /\ FrontInv' /\ Translated' = Translated /\ Requested' = Requested /\ Finished' = Finished
      /\ Taken' = Taken + 1 /\ Taken < Finished /\ returned' = returned
      /\ Head(done) = TagOf(Taken + 1)
  BY Zenon, <1>1, <1>3, FrontTakes
<1>5. MovedInv' /\ RightData' /\ Moved' = Moved /\ Pos' = Pos /\ ChainInv(u, v)' /\ BusInv(u, v)'
  <2>1. Len(req) \in Nat
    BY Zenon, <1>1, FrontCounts
  <2>2. QED
    BY <1>1, <1>2, <1>3, <1>4, <2>1, BusStays
<1>6. StreamInv'
  BY Zenon, <1>1, <1>3, <1>5, StreamStays, AheadStays
<1>7. WriteTypes'
  BY Zenon, <1>1, <1>3 DEF WriteTypes
<1>8. ReturnedInv'
  BY Zenon, <1>1, <1>3, <1>4, <1>5 DEF ReturnedInv, TagOf
<1>9. /\ Taken \in Nat /\ Finished \in Nat /\ Finished <= Len(req) /\ Len(req) \in Nat /\ Finished <= Moved
      /\ Moved \in Nat
  BY <1>1, FrontCounts, WriteCounts DEF ReturnedInv
<1>10. RespInv'
  <2>1. \A n \in (Taken + 1) + 1 .. Len(req) : n \in Taken + 1 .. Len(req)
    BY <1>9
  <2>2. \A n \in (Taken + 1) + 1 .. Finished : n \in Taken + 1 .. Finished
    BY <1>9
  <2>3. QED
    BY Zenon, <1>1, <1>3, <1>4, <1>5, <2>1, <2>2 DEF RespInv, Answer, TagOf
<1>11. DoneInv'
  <2>1. PICK e, k : e = respFifos[Head(done)] /\ k = Len(respB)
    BY Zenon
  <2>2. Taken + 1 \in lost \/ e = Answer(Taken + 1)
    <3>1. Taken + 1 \in Taken + 1 .. Len(req) /\ Taken + 1 <= Moved
      BY <1>4, <1>9
    <3>2. QED
      BY Zenon, <1>1, <1>4, <2>1, <3>1 DEF RespInv
  <2>3. e \in Told
    <3>1. Taken + 1 \in Nat \ {0}
      BY <1>9
    <3>2. TagOf(Taken + 1) \in RenameTag
      BY Zenon, <3>1, TagType DEF RenameTag
    <3>3. QED
      BY Zenon, <1>1, <1>4, <2>1, <3>2 DEF WriteTypes
  <2>4. /\ told \in Nat /\ respB \in Seq(Told) /\ told + k = Taken
        /\ \A i \in 1 .. k : told + i \in lost \/ respB[i] = Answer(told + i)
    BY Zenon, <1>1, <2>1 DEF DoneInv
  <2>5. /\ respB' \in Seq(Told) /\ k \in Nat /\ Len(respB') = k + 1
        /\ respB'[k + 1] = e /\ \A i \in 1 .. k : respB'[i] = respB[i]
    BY <1>3, <2>1, <2>3, <2>4, Pushed
  <2>6. told + (k + 1) = Taken + 1
    BY <1>9, <2>4, <2>5
  <2>7. ASSUME NEW i \in 1 .. k + 1 PROVE told + i \in lost \/ respB'[i] = Answer(told + i)
    <3>1. CASE i \in 1 .. k
      BY Zenon, <2>4, <2>5, <3>1
    <3>2. CASE i = k + 1
      BY Zenon, <2>2, <2>5, <2>6, <3>2
    <3>3. QED
      BY <2>5, <3>1, <3>2
  <2>8. QED
    BY Zenon, <1>3, <1>4, <2>4, <2>5, <2>6, <2>7 DEF DoneInv, Answer
<1>12. QED
  BY Zenon, <1>4, <1>5, <1>6, <1>7, <1>8, <1>10, <1>11 DEF WriteInv

\* A client is told.
LEMMA WriteTells == ASSUME WriteInv, writeDoneComp1 PROVE WriteInv'
<1>1. /\ FrontInv /\ WriteTypes /\ MovedInv /\ StreamInv /\ RightData
      /\ ReturnedInv /\ RespInv /\ DoneInv
  BY Zenon DEF WriteInv
<1>2. PICK u \in Nat \ {0}, v \in Nat : ChainInv(u, v) /\ BusInv(u, v)
  BY Zenon DEF WriteInv
<1>3. /\ UNCHANGED <<req, lreqFifo, mmu, reqFifo, tagVars, returned, burstReg, firstReg, lastReg, dreqFifo, respFifos,
                     unwritten, clientWriteData, memDataFifo, bursts, lost>>
      /\ respB # << >> /\ respB' = Tail(respB)
      /\ told' = told + 1
  BY Zenon DEF writeDoneComp1, requestVars, burstVars, dataVars, tagVars
<1>4. /\ FrontInv' /\ Translated' = Translated /\ Requested' = Requested /\ Finished' = Finished
      /\ Taken' = Taken
  BY Zenon, <1>1, <1>3, FrontStays
<1>5. MovedInv' /\ RightData' /\ Moved' = Moved /\ Pos' = Pos /\ ChainInv(u, v)' /\ BusInv(u, v)'
  <2>1. Len(req) \in Nat
    BY Zenon, <1>1, FrontCounts
  <2>2. QED
    BY <1>1, <1>2, <1>3, <1>4, <2>1, BusStays
<1>6. StreamInv'
  BY Zenon, <1>1, <1>3, <1>5, StreamStays, AheadStays
<1>7. WriteTypes'
  BY Zenon, <1>1, <1>3 DEF WriteTypes
<1>8. ReturnedInv'
  BY Zenon, <1>1, <1>3, <1>4, <1>5 DEF ReturnedInv, TagOf
<1>9. RespInv'
  BY Zenon, <1>1, <1>3, <1>4, <1>5, RespStays
<1>10. DoneInv'
  <2>1. PICK k : k = Len(respB)
    BY Zenon
  <2>2. /\ told \in Nat /\ respB \in Seq(Told) /\ told + k = Taken
        /\ \A i \in 1 .. k : told + i \in lost \/ respB[i] = Answer(told + i)
    BY Zenon, <1>1, <2>1 DEF DoneInv
  <2>3. /\ respB' \in Seq(Told) /\ k \in Nat \ {0} /\ Len(respB') = k - 1
        /\ \A i \in 1 .. k - 1 : respB'[i] = respB[i + 1]
    BY <1>3, <2>1, <2>2, Popped
  <2>4. told + 1 \in Nat /\ (told + 1) + (k - 1) = Taken
    BY <2>2, <2>3
  <2>5. ASSUME NEW i \in 1 .. k - 1 PROVE (told + 1) + i \in lost \/ respB'[i] = Answer((told + 1) + i)
    <3>1. i + 1 \in 1 .. k /\ told + (i + 1) = (told + 1) + i
      BY <2>2, <2>3
    <3>2. QED
      BY Zenon, <2>2, <2>3, <3>1
  <2>6. QED
    BY Zenon, <1>3, <1>4, <2>3, <2>4, <2>5 DEF DoneInv, Answer
<1>11. QED
  BY Zenon, <1>4, <1>5, <1>6, <1>7, <1>8, <1>9, <1>10 DEF WriteInv

\* A request goes to the bus, which has no beat of it.
LEMMA WriteSends == ASSUME WriteInv, writeReq_get PROVE WriteInv'
<1>1. /\ FrontInv /\ WriteTypes /\ MovedInv /\ StreamInv /\ RightData
      /\ ReturnedInv /\ RespInv /\ DoneInv
  BY Zenon DEF WriteInv
<1>2. PICK u \in Nat \ {0}, v \in Nat : ChainInv(u, v) /\ BusInv(u, v)
  BY Zenon DEF WriteInv
<1>3. PICK Q, l, z : Q = Requested /\ l = Len(dreqFifo) /\ z = Len(bursts)
  BY Zenon
<1>4. PICK d, b : /\ d = [req |-> Q + 1, tag |-> TagOf(Q + 1)]
                  /\ b = [tag |-> TagOf(Q + 1), pa |-> Q + 1, burstLen |-> req[Q + 1].burstLen, beats |-> << >>]
  BY Zenon
<1>5. /\ UNCHANGED <<req, lreqFifo, mmu, tagVars, returned, burstReg, firstReg, lastReg, respFifos, respB,
                     unwritten, clientWriteData, memDataFifo, told, lost>>
      /\ reqFifo # << >> /\ reqFifo' = Tail(reqFifo)
  BY Zenon DEF writeReq_get, burstVars, dataVars, tagVars
<1>6. /\ FrontInv' /\ Translated' = Translated /\ Requested' = Q + 1 /\ Finished' = Finished
      /\ Taken' = Taken /\ Q < Translated
      /\ Head(reqFifo) = [req |-> Q + 1, pa |-> Q + 1, tag |-> TagOf(Q + 1)]
  BY Zenon, <1>1, <1>3, <1>5, FrontSends
<1>7. dreqFifo' = Append(dreqFifo, d) /\ bursts' = Append(bursts, b)
  BY <1>4, <1>6 DEF writeReq_get
<1>8. /\ Q \in Nat /\ Translated \in Nat /\ Translated <= Len(req) /\ Len(req) \in Nat
      /\ Moved \in Nat /\ Moved <= Q /\ Pos \in Nat /\ Moved = Q - l /\ Finished \in Nat
  BY Zenon, <1>1, <1>3, FrontCounts, WriteCounts DEF Moved
<1>9. Q + 1 \in 1 .. Len(req) /\ req[Q + 1].burstLen \in Nat \ {0} /\ TagOf(Q + 1) \in Nat
  <2>1. Q + 1 \in 1 .. Len(req)
    BY <1>6, <1>8
  <2>2. TagOf(Q + 1) \in 0 .. numTags - 1
    BY <1>8, TagType
  <2>3. QED
    BY <1>1, <2>1, <2>2, RequestType, numTagsAssumption
<1>10. /\ dreqFifo' \in Seq([req : Nat, tag : Nat]) /\ l \in Nat /\ Len(dreqFifo') = l + 1
       /\ dreqFifo'[l + 1] = d /\ \A i \in 1 .. l : dreqFifo'[i] = dreqFifo[i]
  <2>1. d \in [req : Nat, tag : Nat]
    BY <1>4, <1>8, <1>9
  <2>2. dreqFifo \in Seq([req : Nat, tag : Nat])
    BY Zenon, <1>1 DEF WriteTypes
  <2>3. QED
    BY <1>3, <1>7, <2>1, <2>2, Pushed
<1>11. /\ bursts' \in Seq(Burst)
       /\ z \in Nat /\ Len(bursts') = z + 1
       /\ bursts'[z + 1] = b /\ \A i \in 1 .. z : bursts'[i] = bursts[i]
  <2>1. << >> \in Seq(WriteBeat)
    BY Zenon, Empty
  <2>2. b \in Burst
    BY <1>4, <1>8, <1>9, <2>1 DEF Burst
  <2>3. bursts \in Seq(Burst)
    BY Zenon, <1>1 DEF WriteTypes
  <2>4. QED
    BY <1>3, <1>7, <2>2, <2>3, Pushed
<1>12. /\ z \in Nat /\ Len(bursts') = z + 1
       /\ bursts'[z + 1] = b /\ \A i \in 1 .. z : bursts'[i] = bursts[i]
  BY Zenon, <1>11
<1>13. Moved' = Moved /\ Pos' = Pos
  <2>1. Moved' = Moved
    BY <1>6, <1>8, <1>10 DEF Moved
  <2>2. QED
    BY Zenon, <1>5, <2>1 DEF Pos
<1>14. MovedInv'
  <2>1. \A i \in 1 .. l + 1 : dreqFifo'[i] = [req |-> Moved + i, tag |-> TagOf(Moved + i)]
    <3>1. \A i \in 1 .. l : dreqFifo[i] = [req |-> Moved + i, tag |-> TagOf(Moved + i)]
      BY Zenon, <1>1, <1>3 DEF MovedInv
    <3>2. Moved + (l + 1) = Q + 1
      BY <1>8, <1>10
    <3>3. ASSUME NEW i \in 1 .. l + 1 PROVE dreqFifo'[i] = [req |-> Moved + i, tag |-> TagOf(Moved + i)]
      <4>1. CASE i = l + 1
        BY Zenon, <1>4, <1>10, <3>2, <4>1
      <4>2. CASE i # l + 1
        <5>1. i \in 1 .. l
          BY <1>10, <4>2
        <5>2. QED
          BY Zenon, <1>10, <3>1, <5>1
      <4>3. QED
        BY Zenon, <4>1, <4>2
    <3>4. QED
      BY Zenon, <3>3
  <2>2. dreqFifo' # << >>
    BY <1>10, Empty
  <2>3. \A i : TagOf(i)' = TagOf(i)
    BY Zenon DEF TagOf
  <2>4. QED
    BY Zenon, <1>1, <1>5, <1>10, <1>13, <2>1, <2>2 DEF MovedInv, TagOf
<1>15. ChainInv(u, v)'
  BY Zenon, <1>2, <1>5, <1>13 DEF ChainInv, MovedBeat, Follows, TagOf
<1>16. u <= Q + 1 /\ (u = Q + 1 => v = 0)
  <2>1. u <= Moved + 1
    BY Zenon, <1>2 DEF ChainInv
  <2>2. ASSUME u = Q + 1 PROVE v = 0
    <3>1. Moved = Q
      BY <1>8, <2>1, <2>2
    <3>2. firstReg /\ Pos = 0
      BY <1>1, <1>3, <1>8, <3>1, WriteCounts
    <3>3. memDataFifo \in Seq(WriteBeat)
      BY Zenon, <1>1 DEF WriteTypes
    <3>4. ASSUME memDataFifo # << >> PROVE FALSE
      <4>1. Len(memDataFifo) \in Nat \ {0}
        BY Zenon, <3>3, <3>4, Empty
      <4>2. MovedBeat(memDataFifo[1]) /\ memDataFifo[1].data = <<u, v + 1>>
        BY <1>2, <3>4, <4>1 DEF ChainInv
      <4>3. u <= Moved \/ v + 1 <= Pos
        BY <4>2 DEF MovedBeat
      <4>4. QED
        BY <1>8, <2>2, <3>1, <3>2, <4>3
    <3>5. QED
      BY Zenon, <1>2, <3>2, <3>4 DEF ChainInv
  <2>3. QED
    BY <1>8, <2>1, <2>2
<1>17. BusInv(u, v)'
  <2>1. \A i \in 1 .. z : bursts[i].pa \in 1 .. Q
    BY Zenon, <1>2, <1>3 DEF BusInv
  <2>2. \A i, j \in 1 .. z + 1 : i < j => bursts'[i].pa < bursts'[j].pa
    <3> SUFFICES ASSUME NEW i \in 1 .. z + 1, NEW j \in 1 .. z + 1, i < j
        PROVE  bursts'[i].pa < bursts'[j].pa
      BY Zenon
    <3>1. i \in 1 .. z
      BY <1>12
    <3>2. CASE j = z + 1
      <4>1. bursts'[i].pa = bursts[i].pa /\ bursts'[j].pa = Q + 1
        BY <1>4, <1>12, <3>1, <3>2
      <4>2. QED
        BY <1>8, <2>1, <3>1, <4>1
    <3>3. CASE j # z + 1
      <4>1. j \in 1 .. z
        BY <1>12, <3>3
      <4>2. bursts[i].pa < bursts[j].pa
        BY Zenon, <1>2, <1>3, <3>1, <4>1 DEF BusInv
      <4>3. QED
        BY Zenon, <1>12, <3>1, <4>1, <4>2
    <3>4. QED
      BY Zenon, <3>2, <3>3
  <2>3. ASSUME NEW i \in 1 .. z + 1
        PROVE  /\ bursts'[i].pa \in 1 .. Q + 1 /\ bursts'[i].tag = TagOf(bursts'[i].pa)
               /\ bursts'[i].burstLen = req[bursts'[i].pa].burstLen
               /\ Len(bursts'[i].beats) = IF bursts'[i].pa < u THEN bursts'[i].burstLen
                                          ELSE IF bursts'[i].pa = u THEN v ELSE 0
    <3>1. CASE i = z + 1
      <4>1. bursts'[i] = b /\ Len(<< >>) = 0
        BY Zenon, <1>12, <3>1
      <4>2. QED
        BY <1>4, <1>8, <1>16, <4>1
    <3>2. CASE i # z + 1
      <4>1. i \in 1 .. z
        BY <1>12, <3>2
      <4>2. /\ bursts[i].pa \in 1 .. Q /\ bursts[i].tag = TagOf(bursts[i].pa)
            /\ bursts[i].burstLen = req[bursts[i].pa].burstLen
            /\ Len(bursts[i].beats) = IF bursts[i].pa < u THEN bursts[i].burstLen
                                      ELSE IF bursts[i].pa = u THEN v ELSE 0
        BY Zenon, <1>2, <1>3, <4>1 DEF BusInv
      <4>3. bursts'[i] = bursts[i]
        BY Zenon, <1>12, <4>1
      <4>4. bursts[i].pa \in 1 .. Q + 1
        BY <1>8, <4>2
      <4>5. QED
        BY Zenon, <4>2, <4>3, <4>4
    <3>3. QED
      BY Zenon, <3>1, <3>2
  <2>4. \A n \in u .. Q + 1 : \E i \in 1 .. z + 1 : bursts'[i].pa = n
    <3> SUFFICES ASSUME NEW n \in u .. Q + 1 PROVE \E i \in 1 .. z + 1 : bursts'[i].pa = n
      BY ZenonT(60)
    <3>1. CASE n = Q + 1
      BY <1>4, <1>12, <3>1
    <3>2. CASE n # Q + 1
      <4>1. n \in u .. Q
        BY <1>8, <3>2
      <4>2. PICK i \in 1 .. z : bursts[i].pa = n
        BY Zenon, <1>2, <1>3, <4>1 DEF BusInv
      <4>3. i \in 1 .. z + 1
        BY <1>12
      <4>4. bursts'[i].pa = n
        BY Zenon, <1>12, <4>2
      <4>5. QED
        BY Zenon, <4>3, <4>4
    <3>3. QED
      BY Zenon, <3>1, <3>2
  <2>5. v < req[u].burstLen
    <3>1. CASE u = Q + 1
      BY <1>9, <1>16, <3>1
    <3>2. CASE u # Q + 1
      <4>1. u <= Q
        BY <1>8, <1>16, <3>2
      <4>2. QED
        BY Zenon, <1>2, <1>3, <4>1 DEF BusInv
    <3>3. QED
      BY Zenon, <3>1, <3>2
  <2>6. QED
    <3>1. Requested' = Q + 1 /\ Len(bursts') = z + 1 /\ req' = req
      BY Zenon, <1>5, <1>6, <1>12
    <3>2. QED
      BY Zenon, <2>2, <2>3, <2>4, <2>5, <3>1 DEF BusInv, TagOf
<1>18. RightData'
  <2>1. \A i \in 1 .. z + 1 : \A k \in DOMAIN bursts'[i].beats :
          bursts'[i].beats[k] = [data |-> <<bursts'[i].pa, k>>, tag |-> bursts'[i].tag,
                                 last |-> k = bursts'[i].burstLen]
    <3> SUFFICES ASSUME NEW i \in 1 .. z + 1, NEW k \in DOMAIN bursts'[i].beats
        PROVE bursts'[i].beats[k] = [data |-> <<bursts'[i].pa, k>>, tag |-> bursts'[i].tag,
                                     last |-> k = bursts'[i].burstLen]
      BY Zenon
    <3>1. CASE i = z + 1
      <4>1. bursts'[i].beats = << >>
        BY <1>4, <1>12, <3>1
      <4>2. DOMAIN << >> = {}
        OBVIOUS
      <4>3. QED
        BY Zenon, <4>1, <4>2
    <3>2. CASE i # z + 1
      <4>1. i \in 1 .. z /\ i \in DOMAIN bursts
        <5>1. i \in 1 .. z
          BY <1>12, <3>2
        <5>2. DOMAIN bursts = 1 .. z
          BY Zenon, <1>1, <1>3, Length DEF WriteTypes
        <5>3. QED
          BY Zenon, <5>1, <5>2
      <4>2. bursts'[i] = bursts[i]
        BY Zenon, <1>12, <4>1
      <4>3. QED
        BY <1>1, <4>1, <4>2 DEF RightData
    <3>3. QED
      BY Zenon, <3>1, <3>2
  <2>2. DOMAIN bursts' = 1 .. z + 1
    BY Zenon, <1>11, Length
  <2>3. QED
    BY Zenon, <2>1, <2>2 DEF RightData
<1>19. ReturnedInv'
  <2>1. \A i \in 1 .. z + 1 : bursts'[i].pa > Finished
    <3>1. Finished < Q + 1
      BY <1>1, <1>8 DEF ReturnedInv
    <3>2. \A i \in 1 .. z : bursts[i].pa > Finished
      BY Zenon, <1>1, <1>3 DEF ReturnedInv
    <3>3. ASSUME NEW i \in 1 .. z + 1 PROVE bursts'[i].pa > Finished
      <4>1. CASE i = z + 1
        BY <1>4, <1>8, <1>12, <3>1, <4>1
      <4>2. CASE i # z + 1
        <5>1. i \in 1 .. z
          BY <1>12, <4>2
        <5>2. QED
          BY Zenon, <1>12, <3>2, <5>1
      <4>3. QED
        BY Zenon, <4>1, <4>2
    <3>4. QED
      BY Zenon, <3>3
  <2>2. \A n \in Finished + 1 .. Translated :
          TagOf(n) \in returned => n <= Q /\ \A i \in 1 .. z : bursts[i].pa # n
    BY Zenon, <1>1, <1>3 DEF ReturnedInv
  <2>3. \A n \in Finished + 1 .. Translated :
          TagOf(n) \in returned => n <= Q + 1 /\ \A i \in 1 .. z + 1 : bursts'[i].pa # n
    <3> SUFFICES ASSUME NEW n \in Finished + 1 .. Translated, TagOf(n) \in returned
        PROVE  n <= Q + 1 /\ \A i \in 1 .. z + 1 : bursts'[i].pa # n
      BY Zenon
    <3>1. n <= Q /\ \A i \in 1 .. z : bursts[i].pa # n
      BY Zenon, <2>2
    <3>2. n <= Q + 1 /\ n # Q + 1
      BY <1>8, <3>1
    <3>3. ASSUME NEW i \in 1 .. z + 1 PROVE bursts'[i].pa # n
      <4>1. CASE i = z + 1
        BY <1>4, <1>12, <3>2, <4>1
      <4>2. CASE i # z + 1
        <5>1. i \in 1 .. z
          BY <1>12, <4>2
        <5>2. QED
          BY Zenon, <1>12, <3>1, <5>1
      <4>3. QED
        BY Zenon, <4>1, <4>2
    <3>4. QED
      BY Zenon, <3>2, <3>3
  <2>4. Finished <= Moved
    BY Zenon, <1>1 DEF ReturnedInv
  <2>5. QED
    BY Zenon, <1>5, <1>6, <1>12, <1>13, <2>1, <2>3, <2>4 DEF ReturnedInv, TagOf
<1>20. StreamInv'
  BY Zenon, <1>1, <1>5, <1>13, StreamStays, AheadStays
<1>21. WriteTypes'
  BY Zenon, <1>1, <1>5, <1>10, <1>11 DEF WriteTypes
<1>22. RespInv'
  BY Zenon, <1>1, <1>5, <1>6, <1>13, RespStays
<1>23. DoneInv'
  BY Zenon, <1>1, <1>5, <1>6, DoneStays
<1>24. QED
  BY Zenon, <1>2, <1>6, <1>14, <1>15, <1>17, <1>18, <1>19, <1>20, <1>21, <1>22, <1>23 DEF WriteInv

\* A client hands over a word: its stream is the same.
LEMMA ClientHands == ASSUME WriteInv, NEW c \in Client, clientdata(c) PROVE WriteInv'
<1>1. /\ FrontInv /\ WriteTypes /\ MovedInv /\ StreamInv /\ RightData
      /\ ReturnedInv /\ RespInv /\ DoneInv
  BY Zenon DEF WriteInv
<1>2. PICK u \in Nat \ {0}, v \in Nat : ChainInv(u, v) /\ BusInv(u, v)
  BY Zenon DEF WriteInv
<1>3. /\ UNCHANGED <<req, lreqFifo, mmu, reqFifo, tagVars, returned, burstReg, firstReg, lastReg, dreqFifo,
                     respFifos, respB, memDataFifo, bursts, told, lost>>
      /\ unwritten[c] # << >>
      /\ clientWriteData' = [clientWriteData EXCEPT ![c] = Append(@, Head(unwritten[c]))]
      /\ unwritten' = [unwritten EXCEPT ![c] = Tail(@)]
  BY Zenon DEF clientdata, requestVars, burstVars, tagVars
<1>4. /\ FrontInv' /\ Translated' = Translated /\ Requested' = Requested /\ Finished' = Finished
      /\ Taken' = Taken
  BY Zenon, <1>1, <1>3, FrontStays
<1>5. MovedInv' /\ RightData' /\ Moved' = Moved /\ Pos' = Pos /\ ChainInv(u, v)' /\ BusInv(u, v)'
  <2>1. Len(req) \in Nat
    BY Zenon, <1>1, FrontCounts
  <2>2. QED
    BY <1>1, <1>2, <1>3, <1>4, <2>1, BusStays
<1>6. clientWriteData \in [Client -> Seq(Nat \X Nat)] /\ unwritten \in [Client -> Seq(Nat \X Nat)]
  BY Zenon, <1>1 DEF WriteTypes
<1>7. PICK w, x, h : w = clientWriteData[c] /\ x = unwritten[c] /\ h = Head(x)
  BY Zenon
<1>8. PICK p, q : p = Append(w, h) /\ q = Tail(x)
  BY Zenon
<1>9. /\ clientWriteData'[c] = p /\ unwritten'[c] = q
      /\ \A y \in Client \ {c} : clientWriteData'[y] = clientWriteData[y] /\ unwritten'[y] = unwritten[y]
  BY Zenon, <1>3, <1>6, <1>7, <1>8
<1>10. w \in Seq(Nat \X Nat) /\ x \in Seq(Nat \X Nat) /\ x # << >>
  BY Zenon, <1>3, <1>6, <1>7
<1>11. /\ q \in Seq(Nat \X Nat) /\ Len(x) \in Nat \ {0} /\ Len(q) = Len(x) - 1
       /\ h = x[1] /\ h \in Nat \X Nat
       /\ \A i \in 1 .. Len(x) - 1 : q[i] = x[i + 1]
  <2>1. /\ q \in Seq(Nat \X Nat) /\ Len(x) \in Nat \ {0} /\ Len(q) = Len(x) - 1
        /\ Head(x) = x[1] /\ x[1] \in Nat \X Nat
        /\ \A i \in 1 .. Len(x) - 1 : q[i] = x[i + 1]
    BY <1>8, <1>10, Popped
  <2>2. QED
    BY Zenon, <1>7, <2>1
<1>12. /\ p \in Seq(Nat \X Nat) /\ Len(w) \in Nat /\ Len(p) = Len(w) + 1 /\ p[Len(w) + 1] = h
       /\ \A i \in 1 .. Len(w) : p[i] = w[i]
  BY <1>8, <1>10, <1>11, Pushed
<1>13. WriteTypes'
  <2>1. clientWriteData' \in [Client -> Seq(Nat \X Nat)] /\ unwritten' \in [Client -> Seq(Nat \X Nat)]
    BY Zenon, <1>3, <1>6, <1>7, <1>8, <1>11, <1>12
  <2>2. QED
    BY Zenon, <1>1, <1>3, <2>1 DEF WriteTypes
<1>14. StreamInv'
  <2>1. ASSUME NEW y \in Client
        PROVE  AheadLen(y)' = AheadLen(y) /\ \A i \in 1 .. AheadLen(y) : Ahead(y, i)' = Ahead(y, i)
    <3>1. CASE y = c
      <4>1. AheadLen(y) = Len(w) + Len(x) /\ AheadLen(y)' = Len(p) + Len(q)
        BY Zenon, <1>7, <1>9, <3>1 DEF AheadLen
      <4>2. ASSUME NEW i \in 1 .. Len(w) + Len(x) PROVE Ahead(y, i)' = Ahead(y, i)
        <5>1. /\ Ahead(y, i) = IF i <= Len(w) THEN w[i] ELSE x[i - Len(w)]
              /\ Ahead(y, i)' = IF i <= Len(p) THEN p[i] ELSE q[i - Len(p)]
          BY Zenon, <1>7, <1>9, <3>1 DEF Ahead
        <5>2. CASE i <= Len(w)
          BY <1>12, <5>1, <5>2
        <5>3. CASE i = Len(w) + 1
          BY <1>11, <1>12, <5>1, <5>3
        <5>4. CASE i > Len(w) + 1
          <6>1. /\ Len(w) \in Nat /\ Len(x) \in Nat /\ Len(p) = Len(w) + 1
            BY Zenon, <1>11, <1>12
          <6>2. /\ i - Len(p) \in 1 .. Len(x) - 1 /\ (i - Len(p)) + 1 = i - Len(w)
                /\ ~(i <= Len(p)) /\ ~(i <= Len(w))
            BY <5>4, <6>1
          <6>3. q[i - Len(p)] = x[i - Len(w)]
            BY Zenon, <1>11, <6>2
          <6>4. QED
            BY Zenon, <5>1, <6>2, <6>3
        <5>5. QED
          BY <1>12, <5>2, <5>3, <5>4
      <4>3. QED
        BY <1>11, <1>12, <4>1, <4>2
    <3>2. CASE y # c
      <4>1. clientWriteData'[y] = clientWriteData[y] /\ unwritten'[y] = unwritten[y]
        BY Zenon, <1>9, <3>2
      <4>2. QED
        BY Zenon, <4>1 DEF Ahead, AheadLen
    <3>3. QED
      BY Zenon, <3>1, <3>2
  <2>2. QED
    BY Zenon, <1>1, <1>3, <1>5, <2>1, StreamStays
<1>15. ReturnedInv'
  BY Zenon, <1>1, <1>3, <1>4, <1>5 DEF ReturnedInv, TagOf
<1>16. RespInv'
  BY Zenon, <1>1, <1>3, <1>4, <1>5, RespStays
<1>17. DoneInv'
  BY Zenon, <1>1, <1>3, <1>4, DoneStays
<1>18. QED
  BY Zenon, <1>4, <1>5, <1>13, <1>14, <1>15, <1>16, <1>17 DEF WriteInv

\* The bus reports a burst: memory has all of it.
LEMMA BusWrites == ASSUME WriteInv, NEW i \in DOMAIN bursts, writeDone_put(i) PROVE WriteInv'
<1>1. /\ FrontInv /\ WriteTypes /\ MovedInv /\ StreamInv /\ RightData
      /\ ReturnedInv /\ RespInv /\ DoneInv
  BY Zenon DEF WriteInv
<1>2. PICK u \in Nat \ {0}, v \in Nat : ChainInv(u, v) /\ BusInv(u, v)
  BY Zenon DEF WriteInv
<1>3. PICK z, t, m : z = Len(bursts) /\ t = bursts[i].tag /\ m = bursts[i].pa
  BY Zenon
<1>4. /\ UNCHANGED <<req, lreqFifo, mmu, reqFifo, burstReg, firstReg, lastReg, dreqFifo, respFifos, respB,
                     unwritten, clientWriteData, memDataFifo, told, lost>>
      /\ Complete(bursts[i]) /\ tag_gen!Return(t)
  BY Zenon, <1>3 DEF writeDone_put, requestVars, burstVars, dataVars
<1>5. /\ FrontInv' /\ Translated' = Translated /\ Requested' = Requested /\ Finished' = Finished
      /\ Taken' = Taken /\ returned' = returned \cup {t}
  BY Zenon, <1>1, <1>4, FrontReturns
<1>6. /\ Finished \in Nat /\ Translated \in Nat /\ Requested \in Nat /\ Requested <= Translated
      /\ Len(req) \in Nat /\ Translated <= Len(req) /\ Translated < Finished + numTags
  BY Zenon, <1>1, FrontCounts
<1>7. bursts \in Seq(Burst)
  BY Zenon, <1>1 DEF WriteTypes
<1>8. DOMAIN bursts = 1 .. z /\ i \in 1 .. z /\ z \in Nat
  BY Zenon, <1>3, <1>7, Length
<1>9. /\ bursts' \in Seq(Burst)
      /\ Len(bursts') = z - 1
      /\ \A j \in 1 .. z - 1 : bursts'[j] = IF j < i THEN bursts[j] ELSE bursts[j + 1]
  <2>1. i \in 1 .. Len(bursts)
    BY Zenon, <1>3, <1>8
  <2>2. bursts' = SubSeq(bursts, 1, i - 1) \o SubSeq(bursts, i + 1, Len(bursts))
    BY Zenon DEF writeDone_put
  <2>3. /\ bursts' \in Seq(Burst) /\ Len(bursts') = Len(bursts) - 1
        /\ \A j \in 1 .. Len(bursts) - 1 : bursts'[j] = IF j < i THEN bursts[j] ELSE bursts[j + 1]
    BY SMTT(60), <1>7, <2>1, <2>2, Dropped
  <2>4. QED
    BY Zenon, <1>3, <2>3
<1>10. PICK f : f = [j \in 1 .. z - 1 |-> IF j < i THEN j ELSE j + 1]
  BY Zenon
<1>11. /\ \A j \in 1 .. z - 1 : f[j] \in 1 .. z /\ f[j] # i /\ bursts'[j] = bursts[f[j]]
       /\ \A j, k \in 1 .. z - 1 : j < k => f[j] < f[k]
       /\ \A k \in 1 .. z : k # i => \E j \in 1 .. z - 1 : f[j] = k
  <2>1. \A j \in 1 .. z - 1 : f[j] \in 1 .. z /\ f[j] # i /\ bursts'[j] = bursts[f[j]]
    BY <1>8, <1>9, <1>10
  <2>2. \A j, k \in 1 .. z - 1 : j < k => f[j] < f[k]
    BY <1>8, <1>10
  <2>3. ASSUME NEW k \in 1 .. z, k # i PROVE \E j \in 1 .. z - 1 : f[j] = k
    <3>1. CASE k < i
      <4>1. k \in 1 .. z - 1 /\ f[k] = k
        BY <1>8, <1>10, <3>1
      <4>2. QED
        BY Zenon, <4>1
    <3>2. CASE ~(k < i)
      <4>1. k - 1 \in 1 .. z - 1 /\ f[k - 1] = k
        BY <1>8, <1>10, <2>3, <3>2
      <4>2. QED
        BY Zenon, <4>1
    <3>3. QED
      BY Zenon, <3>1, <3>2
  <2>4. QED
    BY Zenon, <2>1, <2>2, <2>3
<1>12. /\ m \in 1 .. Requested /\ t = TagOf(m) /\ bursts[i].burstLen = req[m].burstLen
       /\ Len(bursts[i].beats) = IF m < u THEN bursts[i].burstLen ELSE IF m = u THEN v ELSE 0
  BY Zenon, <1>2, <1>3, <1>8 DEF BusInv
<1>13. m < u
  <2>1. req[m].burstLen \in Nat \ {0}
    <3>1. m \in 1 .. Len(req)
      BY <1>6, <1>12
    <3>2. QED
      BY Zenon, <1>1, <3>1, RequestType
  <2>2. Len(bursts[i].beats) = req[m].burstLen
    BY Zenon, <1>4, <1>12 DEF Complete
  <2>3. u <= Requested => v < req[u].burstLen
    BY Zenon, <1>2 DEF BusInv
  <2>4. CASE m = u
    <3>1. v < req[m].burstLen /\ Len(bursts[i].beats) = v
      BY <1>6, <1>12, <2>3, <2>4
    <3>2. QED
      BY <2>1, <2>2, <3>1
  <2>5. CASE m > u
    <3>1. Len(bursts[i].beats) = 0
      BY <1>6, <1>12, <2>5
    <3>2. QED
      BY Zenon, <2>1, <2>2, <3>1
  <2>6. QED
    BY <1>12, <1>6, <2>4, <2>5
<1>14. Moved' = Moved /\ Pos' = Pos /\ MovedInv' /\ ChainInv(u, v)'
  <2>1. UNCHANGED <<req, burstReg, firstReg, lastReg, dreqFifo, memDataFifo>> /\ Requested' = Requested
    BY Zenon, <1>4, <1>5
  <2>2. /\ Moved' = Moved /\ Pos' = Pos /\ (MovedInv => MovedInv')
        /\ \A x, y : ChainInv(x, y) => ChainInv(x, y)'
    BY Zenon, <2>1, MovedStays
  <2>3. QED
    BY Zenon, <1>1, <1>2, <2>2
<1>15. \A j \in 1 .. z : j # i => bursts[j].pa # m
  <2> SUFFICES ASSUME NEW j \in 1 .. z, j # i PROVE bursts[j].pa # m
    BY Zenon
  <2>1. \A k \in 1 .. z : bursts[k].pa \in Nat
    BY <1>2, <1>3, <1>6 DEF BusInv
  <2>2. j < i \/ i < j
    BY <1>8
  <2>3. bursts[j].pa < m \/ m < bursts[j].pa
    BY Zenon, <1>2, <1>3, <1>8, <2>2 DEF BusInv
  <2>4. QED
    BY <1>3, <1>8, <2>1, <2>3
<1>16. BusInv(u, v)'
  <2>1. \A j, k \in 1 .. z - 1 : j < k => bursts'[j].pa < bursts'[k].pa
    <3>1. \A j, k \in 1 .. z : j < k => bursts[j].pa < bursts[k].pa
      BY Zenon, <1>2, <1>3 DEF BusInv
    <3>2. SUFFICES ASSUME NEW j \in 1 .. z - 1, NEW k \in 1 .. z - 1, j < k
                   PROVE  bursts'[j].pa < bursts'[k].pa
      BY Zenon
    <3>3. /\ f[j] \in 1 .. z /\ f[k] \in 1 .. z /\ f[j] < f[k]
          /\ bursts'[j] = bursts[f[j]] /\ bursts'[k] = bursts[f[k]]
      BY Zenon, <1>11, <3>2
    <3>4. QED
      BY Zenon, <3>1, <3>3
  <2>2. ASSUME NEW j \in 1 .. z - 1
        PROVE  /\ bursts'[j].pa \in 1 .. Requested /\ bursts'[j].tag = TagOf(bursts'[j].pa)
               /\ bursts'[j].burstLen = req[bursts'[j].pa].burstLen
               /\ Len(bursts'[j].beats) = IF bursts'[j].pa < u THEN bursts'[j].burstLen
                                          ELSE IF bursts'[j].pa = u THEN v ELSE 0
    <3>1. PICK k \in 1 .. z : bursts'[j] = bursts[k]
      BY Zenon, <1>11
    <3>2. QED
      BY <1>2, <1>3, <3>1 DEF BusInv
  <2>3. \A n \in u .. Requested : \E j \in 1 .. z - 1 : bursts'[j].pa = n
    <3> SUFFICES ASSUME NEW n \in u .. Requested PROVE \E j \in 1 .. z - 1 : bursts'[j].pa = n
      BY Zenon
    <3>1. PICK k \in 1 .. z : bursts[k].pa = n
      BY Zenon, <1>2, <1>3 DEF BusInv
    <3>2. k # i
      BY <1>3, <1>6, <1>12, <1>13, <3>1
    <3>3. PICK j \in 1 .. z - 1 : f[j] = k
      BY Zenon, <1>11, <3>2
    <3>4. QED
      BY Zenon, <1>11, <3>1, <3>3
  <2>4. QED
    <3>1. Requested' = Requested /\ Len(bursts') = z - 1 /\ req' = req
      BY Zenon, <1>4, <1>5, <1>9
    <3>2. u <= Requested => v < req[u].burstLen
      BY Zenon, <1>2 DEF BusInv
    <3>3. QED
      BY Zenon, <2>1, <2>2, <2>3, <3>1, <3>2 DEF BusInv, TagOf
<1>17. RightData'
  <2>1. DOMAIN bursts' = 1 .. z - 1
    BY ZenonT(60), <1>9, Length
  <2>2. ASSUME NEW j \in 1 .. z - 1, NEW k \in DOMAIN bursts'[j].beats
        PROVE  bursts'[j].beats[k] = [data |-> <<bursts'[j].pa, k>>, tag |-> bursts'[j].tag,
                                      last |-> k = bursts'[j].burstLen]
    <3>1. PICK x \in DOMAIN bursts : bursts'[j] = bursts[x]
      BY Zenon, <1>8, <1>11
    <3>2. QED
      BY <1>1, <2>2, <3>1 DEF RightData
  <2>3. QED
    BY Zenon, <2>1, <2>2 DEF RightData
<1>18. ReturnedInv'
  <2>1. \A j \in 1 .. z : bursts[j].pa > Finished
    BY Zenon, <1>1, <1>3 DEF ReturnedInv
  <2>2. \A j \in 1 .. z - 1 : bursts'[j].pa > Finished
    BY Zenon, <1>11, <2>1
  <2>3. ASSUME NEW n \in Finished + 1 .. Translated, TagOf(n) \in returned \cup {t}
        PROVE  n <= Requested /\ \A j \in 1 .. z - 1 : bursts'[j].pa # n
    <3>1. CASE TagOf(n) \in returned
      <4>1. n <= Requested /\ \A j \in 1 .. z : bursts[j].pa # n
        BY Zenon, <1>1, <1>3, <3>1 DEF ReturnedInv
      <4>2. QED
        BY <1>11, <4>1
    <3>2. CASE TagOf(n) = t
      <4>1. m \in Nat \ {0} /\ n \in Nat \ {0} /\ m > Finished /\ m <= Translated
        BY <1>3, <1>6, <1>8, <1>12, <2>1
      <4>2. ~(m < n)
        <5>1. m < n => n - m < numTags
          BY <1>6, <4>1, numTagsAssumption
        <5>2. QED
          BY Zenon, <1>12, <3>2, <4>1, <5>1, TagsApart
      <4>3. ~(n < m)
        <5>1. n < m => m - n < numTags
          BY <1>6, <4>1, numTagsAssumption
        <5>2. QED
          BY Zenon, <1>12, <3>2, <4>1, <5>1, TagsApart
      <4>4. n = m
        BY <4>1, <4>2, <4>3
      <4>5. QED
        BY <1>6, <1>11, <1>12, <1>15, <4>4
    <3>3. QED
      BY ZenonT(60), <2>3, <3>1, <3>2
  <2>4. QED
    BY Zenon, <1>1, <1>5, <1>9, <1>14, <2>2, <2>3 DEF ReturnedInv, TagOf
<1>19. StreamInv'
  BY Zenon, <1>1, <1>4, <1>14, StreamStays, AheadStays
<1>20. WriteTypes'
  BY Zenon, <1>1, <1>4, <1>9 DEF WriteTypes
<1>21. RespInv'
  BY Zenon, <1>1, <1>4, <1>5, <1>14, RespStays
<1>22. DoneInv'
  BY Zenon, <1>1, <1>4, <1>5, DoneStays
<1>23. QED
  BY Zenon, <1>5, <1>14, <1>16, <1>17, <1>18, <1>19, <1>20, <1>21, <1>22 DEF WriteInv

=============================================================================
