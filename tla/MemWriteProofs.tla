---------------------------- MODULE MemWriteProofs ----------------------------
(***************************************************************************)
(* Every word a client writes gets to its address, and every client is     *)
(* told of its own bursts, in order (MemWrite): the steps with which a     *)
(* client asks, memdata moves a word and the bus takes one, and the        *)
(* theorem.                                                                *)
(***************************************************************************)
EXTENDS MemServerProofs

\* The SMT solver gets half a minute for a leaf; a leaf for Zenon says so.
USE SMTT(30)

\* The bus takes the next beat for the burst it is for.
LEMMA BusTakes == ASSUME WriteInv, writeData_get PROVE WriteInv'
<1>1. /\ FrontInv /\ WriteTypes /\ MovedInv /\ StreamInv /\ RightData
      /\ ReturnedInv /\ RespInv /\ DoneInv
  BY Zenon DEF WriteInv
<1>2. PICK u \in Nat \ {0}, v \in Nat : ChainInv(u, v) /\ BusInv(u, v)
  BY Zenon DEF WriteInv
<1>3. /\ UNCHANGED <<req, lreqFifo, mmu, reqFifo, tagVars, returned, burstReg, firstReg, lastReg, dreqFifo,
                     respFifos, respB, unwritten, clientWriteData, told, lost>>
      /\ memDataFifo # << >> /\ memDataFifo' = Tail(memDataFifo)
  BY Zenon DEF writeData_get, requestVars, burstVars, tagVars
<1>4. PICK i \in DOMAIN bursts :
        /\ ~Complete(bursts[i]) /\ \A j \in 1 .. i - 1 : Complete(bursts[j])
        /\ bursts' = [bursts EXCEPT ![i].beats = Append(@, Head(memDataFifo))]
  BY Zenon DEF writeData_get
<1>5. PICK z, l, h, b, x : /\ z = Len(bursts) /\ l = Len(memDataFifo) /\ h = Head(memDataFifo)
                           /\ b = bursts[i] /\ x = Append(b.beats, h)
  BY Zenon
<1>6. /\ FrontInv' /\ Translated' = Translated /\ Requested' = Requested /\ Finished' = Finished
      /\ Taken' = Taken
  BY <1>1, <1>3, FrontStays
<1>7. /\ memDataFifo' \in Seq(WriteBeat) /\ l \in Nat \ {0}
      /\ Len(memDataFifo') = l - 1 /\ h = memDataFifo[1]
      /\ h \in WriteBeat
      /\ \A j \in 1 .. l - 1 : memDataFifo'[j] = memDataFifo[j + 1]
  <2>1. memDataFifo \in Seq(WriteBeat)
    BY Zenon, <1>1 DEF WriteTypes
  <2>2. QED
    BY <1>3, <1>5, <2>1, Popped
<1>8. /\ DOMAIN bursts = 1 .. z /\ i \in 1 .. z /\ z \in Nat
      /\ b \in Burst
  <2>1. bursts \in Seq(Burst)
    BY Zenon, <1>1 DEF WriteTypes
  <2>2. DOMAIN bursts = 1 .. z /\ z \in Nat
    BY Zenon, <1>5, <2>1, Length
  <2>3. QED
    BY Zenon, <1>5, <2>1, <2>2, Element
<1>9. /\ Moved \in Nat /\ Moved <= Requested /\ Pos \in Nat /\ Requested \in Nat
      /\ Requested <= Len(req) /\ Len(req) \in Nat
      /\ firstReg => Pos = 0
      /\ ~firstReg => Moved + 1 <= Requested /\ Pos \in 1 .. req[Moved + 1].burstLen - 1
  BY <1>1, FrontCounts, WriteCounts
<1>10. PICK L : L = req[u].burstLen
  BY Zenon
<1>11. /\ h.data = <<u, v + 1>> /\ u \in 1 .. Len(req) /\ v + 1 \in 1 .. L
       /\ u <= Moved \/ (u = Moved + 1 /\ v + 1 <= Pos)
       /\ h.tag = TagOf(u) /\ h.last = (v + 1 = L)
  <2>1. MovedBeat(h) /\ h.data = <<u, v + 1>>
    BY <1>2, <1>3, <1>5, <1>7 DEF ChainInv
  <2>2. QED
    BY <1>10, <2>1 DEF MovedBeat
<1>12. L \in Nat \ {0}
  BY Zenon, <1>1, <1>10, <1>11, RequestType
<1>13. u <= Requested /\ (v + 1 = L => u <= Moved)
  <2>1. CASE u <= Moved
    BY <1>9, <2>1
  <2>2. CASE u = Moved + 1 /\ v + 1 <= Pos
    <3>1. ~firstReg
      BY <1>9, <2>2
    <3>2. Pos \in 1 .. L - 1 /\ Moved + 1 <= Requested
      BY Zenon, <1>9, <1>10, <2>2, <3>1
    <3>3. QED
      BY <1>9, <1>12, <2>2, <3>2
  <2>3. QED
    BY Zenon, <1>11, <2>1, <2>2
<1>14. \A j \in 1 .. z : /\ bursts[j].pa \in 1 .. Requested /\ bursts[j].tag = TagOf(bursts[j].pa)
                         /\ bursts[j].burstLen = req[bursts[j].pa].burstLen
                         /\ Len(bursts[j].beats) = IF bursts[j].pa < u THEN bursts[j].burstLen
                                                   ELSE IF bursts[j].pa = u THEN v ELSE 0
  BY Zenon, <1>2, <1>5 DEF BusInv
<1>15. b.pa = u /\ b.burstLen = L /\ b.tag = TagOf(u) /\ Len(b.beats) = v
  <2>1. PICK k \in 1 .. z : bursts[k].pa = u
    <3>1. u \in u .. Requested
      BY <1>9, <1>13
    <3>2. QED
      BY Zenon, <1>2, <1>5, <3>1 DEF BusInv
  <2>2. ~Complete(bursts[k])
    <3>1. Len(bursts[k].beats) = v /\ bursts[k].burstLen = L
      BY <1>10, <1>14, <2>1
    <3>2. v < L
      BY <1>11, <1>12
    <3>3. QED
      BY <1>12, <3>1, <3>2 DEF Complete
  <2>3. ~(k < i)
    <3>1. k < i => k \in 1 .. i - 1
      BY <1>8
    <3>2. QED
      BY Zenon, <1>4, <2>2, <3>1
  <2>4. ~(i < k)
    <3>1. ASSUME i < k PROVE FALSE
      <4>1. bursts[i].pa < u
        BY Zenon, <1>2, <1>5, <1>8, <2>1, <3>1 DEF BusInv
      <4>2. Complete(bursts[i])
        BY Zenon, <1>8, <1>14, <4>1 DEF Complete
      <4>3. QED
        BY Zenon, <1>4, <4>2
    <3>2. QED
      BY Zenon, <3>1
  <2>5. i = k
    BY <1>8, <2>3, <2>4
  <2>6. QED
    BY <1>5, <1>10, <1>14, <2>1, <2>5
<1>16. \A j \in 1 .. z : j # i => bursts[j].pa # u
  <2> SUFFICES ASSUME NEW j \in 1 .. z, j # i PROVE bursts[j].pa # u
    BY Zenon
  <2>1. j < i \/ i < j
    BY <1>8
  <2>2. bursts[j].pa < bursts[i].pa \/ bursts[i].pa < bursts[j].pa
    BY Zenon, <1>2, <1>5, <1>8, <2>1 DEF BusInv
  <2>3. QED
    BY <1>5, <1>9, <1>14, <1>15, <2>2
<1>17. /\ x \in Seq(WriteBeat) /\ Len(x) = v + 1
       /\ x[v + 1] = h /\ \A k \in 1 .. v : x[k] = b.beats[k]
  <2>1. b.beats \in Seq(WriteBeat)
    BY Zenon, <1>8 DEF Burst
  <2>2. h \in WriteBeat /\ x = Append(b.beats, h) /\ Len(b.beats) = v
    BY Zenon, <1>5, <1>7, <1>15
  <2>3. QED
    <3>1. /\ x \in Seq(WriteBeat) /\ Len(x) = Len(b.beats) + 1
          /\ x[Len(b.beats) + 1] = h /\ \A k \in 1 .. Len(b.beats) : x[k] = b.beats[k]
      BY <2>1, <2>2, Pushed
    <3>2. QED
      BY Zenon, <2>2, <3>1
<1>18. PICK b1 : b1 = [b EXCEPT !.beats = x]
  BY Zenon
<1>19. /\ b1 \in Burst
       /\ b1.tag = TagOf(u) /\ b1.pa = u /\ b1.burstLen = L /\ b1.beats = x
  <2>1. /\ b1 = [tag |-> b.tag, pa |-> b.pa, burstLen |-> b.burstLen, beats |-> x]
        /\ b.tag \in Nat /\ b.pa \in Nat /\ b.burstLen \in Nat
    BY Zenon, <1>8, <1>18 DEF Burst
  <2>2. QED
    BY Zenon, <1>15, <1>17, <2>1 DEF Burst
<1>20. /\ bursts' \in Seq(Burst)
       /\ Len(bursts') = z /\ bursts'[i] = b1
       /\ \A j \in 1 .. z : j # i => bursts'[j] = bursts[j]
  <2>1. bursts' = [bursts EXCEPT ![i] = b1]
    BY Zenon, <1>4, <1>5, <1>18
  <2>2. bursts \in Seq(Burst)
    BY Zenon, <1>1 DEF WriteTypes
  <2>3. QED
    <3>1. i \in 1 .. Len(bursts) /\ b1 \in Burst
      BY <1>5, <1>8, <1>19
    <3>2. /\ bursts' \in Seq(Burst) /\ Len(bursts') = Len(bursts) /\ bursts'[i] = b1
          /\ \A j \in 1 .. Len(bursts) : j # i => bursts'[j] = bursts[j]
      BY <2>1, <2>2, <3>1, Replaced
    <3>3. QED
      BY Zenon, <1>5, <3>2
<1>21. Moved' = Moved /\ Pos' = Pos /\ MovedInv'
  <2>1. Moved' = Moved
    BY Zenon, <1>3, <1>6 DEF Moved
  <2>2. Pos' = Pos
    BY Zenon, <1>3, <2>1 DEF Pos
  <2>3. QED
    BY Zenon, <1>1, <1>3, <2>1, <2>2 DEF MovedInv, TagOf
<1>22. PICK s, t : /\ s = IF v + 1 = L THEN u + 1 ELSE u
                   /\ t = IF v + 1 = L THEN 0 ELSE v + 1
  BY Zenon
<1>23. s \in Nat \ {0} /\ t \in Nat
  BY <1>22
<1>24. ChainInv(s, t)'
  <2>1. s <= Moved + 1
    BY <1>9, <1>11, <1>13, <1>22
  <2>2. \A j \in 1 .. l - 1 : MovedBeat(memDataFifo'[j])
    <3> SUFFICES ASSUME NEW j \in 1 .. l - 1 PROVE MovedBeat(memDataFifo'[j])
      BY Zenon
    <3>1. j + 1 \in 1 .. l
      BY <1>7
    <3>2. QED
      BY Zenon, <1>2, <1>5, <1>7, <3>1 DEF ChainInv
  <2>3. \A j \in 1 .. l - 1 : MovedBeat(memDataFifo[j])'
    <3>1. req' = req /\ Moved' = Moved /\ Pos' = Pos
      BY Zenon, <1>3, <1>21
    <3>2. QED
      BY Zenon, <2>2, <3>1 DEF MovedBeat, TagOf
  <2>4. Follows(<<u, v + 1>>, IF 1 < l THEN memDataFifo[2].data ELSE <<Moved + 1, Pos + 1>>)
    <3>1. Follows(memDataFifo[1].data, IF 1 < l THEN memDataFifo[2].data ELSE <<Moved + 1, Pos + 1>>)
      <4>1. 1 \in 1 .. l /\ 1 + 1 = 2
        BY <1>7
      <4>2. Follows(memDataFifo[1].data, IF 1 < l THEN memDataFifo[1 + 1].data ELSE <<Moved + 1, Pos + 1>>)
        BY Zenon, <1>2, <1>5, <4>1 DEF ChainInv
      <4>3. QED
        BY Zenon, <4>1, <4>2
    <3>2. QED
      BY Zenon, <1>7, <1>11, <3>1
  <2>5. (IF 1 < l THEN memDataFifo[2].data ELSE <<Moved + 1, Pos + 1>>) = <<s, t + 1>>
    BY <1>10, <1>22, <2>4 DEF Follows
  <2>6. memDataFifo' # << >> => memDataFifo'[1].data = <<s, t + 1>>
    <3>1. memDataFifo' # << >> => Len(memDataFifo') # 0
      BY Zenon, <1>7, Empty
    <3>2. ASSUME memDataFifo' # << >> PROVE 1 < l /\ 1 \in 1 .. l - 1
      BY <1>7, <3>1, <3>2
    <3>3. QED
      BY <1>7, <2>5, <3>2
  <2>7. memDataFifo' = << >> => s = Moved + 1 /\ t = Pos
    <3>1. ASSUME memDataFifo' = << >> PROVE s = Moved + 1 /\ t = Pos
      <4>1. ~(1 < l)
        BY <1>7, <3>1, Empty
      <4>2. <<Moved + 1, Pos + 1>> = <<s, t + 1>>
        BY Zenon, <2>5, <4>1
      <4>3. Moved + 1 = s /\ Pos + 1 = t + 1
        BY Zenon, <4>2
      <4>4. QED
        BY <1>9, <1>23, <4>3
    <3>2. QED
      BY Zenon, <3>1
  <2>8. ASSUME NEW j \in 1 .. l - 1
        PROVE  Follows(memDataFifo'[j].data,
                       IF j < l - 1 THEN memDataFifo'[j + 1].data ELSE <<Moved + 1, Pos + 1>>)
    <3>1. j + 1 \in 1 .. l /\ (j < l - 1 <=> j + 1 < l)
      BY <1>7
    <3>2. Follows(memDataFifo[j + 1].data,
                  IF j + 1 < l THEN memDataFifo[(j + 1) + 1].data ELSE <<Moved + 1, Pos + 1>>)
      BY Zenon, <1>2, <1>5, <3>1 DEF ChainInv
    <3>3. CASE j < l - 1
      <4>1. j + 1 \in 1 .. l - 1
        BY <1>7, <3>3
      <4>2. memDataFifo'[j] = memDataFifo[j + 1] /\ memDataFifo'[j + 1] = memDataFifo[(j + 1) + 1]
        BY Zenon, <1>7, <4>1
      <4>3. QED
        BY Zenon, <3>1, <3>2, <3>3, <4>2
    <3>4. CASE ~(j < l - 1)
      BY Zenon, <1>7, <3>1, <3>2, <3>4
    <3>5. QED
      BY Zenon, <3>3, <3>4
  <2>9. \A j \in 1 .. l - 1 :
           Follows(memDataFifo[j].data,
                   IF j < Len(memDataFifo) THEN memDataFifo[j + 1].data ELSE <<Moved + 1, Pos + 1>>)'
    BY Zenon, <1>3, <1>7, <1>21, <2>8 DEF Follows
  <2>10. QED
    <3>1. Len(memDataFifo') = l - 1 /\ Moved' = Moved /\ Pos' = Pos
      BY Zenon, <1>7, <1>21
    <3>2. QED
      BY Zenon, <2>1, <2>3, <2>6, <2>7, <2>9, <3>1 DEF ChainInv
<1>25. BusInv(s, t)'
  <2>1. \A j \in 1 .. z : bursts'[j].pa = bursts[j].pa
    <3> SUFFICES ASSUME NEW j \in 1 .. z PROVE bursts'[j].pa = bursts[j].pa
      BY Zenon
    <3>1. CASE j = i
      BY Zenon, <1>5, <1>15, <1>19, <1>20, <3>1
    <3>2. CASE j # i
      BY Zenon, <1>20, <3>2
    <3>3. QED
      BY Zenon, <3>1, <3>2
  <2>2. \A j, k \in 1 .. z : j < k => bursts'[j].pa < bursts'[k].pa
    <3>1. \A j, k \in 1 .. z : j < k => bursts[j].pa < bursts[k].pa
      BY Zenon, <1>2, <1>5 DEF BusInv
    <3>2. QED
      BY Zenon, <2>1, <3>1
  <2>3. ASSUME NEW j \in 1 .. z
        PROVE  /\ bursts'[j].pa \in 1 .. Requested /\ bursts'[j].tag = TagOf(bursts'[j].pa)
               /\ bursts'[j].burstLen = req[bursts'[j].pa].burstLen
               /\ Len(bursts'[j].beats) = IF bursts'[j].pa < s THEN bursts'[j].burstLen
                                          ELSE IF bursts'[j].pa = s THEN t ELSE 0
    <3>1. CASE j = i
      BY <1>9, <1>10, <1>13, <1>17, <1>19, <1>20, <1>22, <3>1
    <3>2. CASE j # i
      <4>1. bursts'[j] = bursts[j] /\ bursts[j].pa # u
        BY Zenon, <1>16, <1>20, <3>2
      <4>2. QED
        BY <1>9, <1>14, <1>22, <4>1
    <3>3. QED
      BY Zenon, <3>1, <3>2
  <2>4. \A n \in s .. Requested : \E j \in 1 .. z : bursts'[j].pa = n
    <3>1. \A n \in s .. Requested : n \in u .. Requested
      BY <1>9, <1>22
    <3>2. \A n \in u .. Requested : \E j \in 1 .. z : bursts[j].pa = n
      BY Zenon, <1>2, <1>5 DEF BusInv
    <3>3. QED
      BY Zenon, <2>1, <3>1, <3>2
  <2>5. s <= Requested => t < req[s].burstLen
    <3>1. CASE v + 1 = L
      <4>1. s = u + 1 /\ t = 0
        BY Zenon, <1>22, <3>1
      <4>2. s <= Requested => s \in 1 .. Len(req)
        BY <1>9, <1>23
      <4>3. s <= Requested => req[s].burstLen \in Nat \ {0}
        BY Zenon, <1>1, <4>2, RequestType
      <4>4. QED
        BY <4>1, <4>3
    <3>2. CASE v + 1 # L
      BY <1>10, <1>11, <1>12, <1>22, <3>2
    <3>3. QED
      BY Zenon, <3>1, <3>2
  <2>6. QED
    BY Zenon, <1>3, <1>6, <1>20, <2>2, <2>3, <2>4, <2>5 DEF BusInv, TagOf
<1>26. RightData'
  <2>1. DOMAIN bursts' = 1 .. z
    BY Zenon, <1>20, Length
  <2>2. ASSUME NEW j \in 1 .. z, NEW k \in DOMAIN bursts'[j].beats
        PROVE  bursts'[j].beats[k] = [data |-> <<bursts'[j].pa, k>>, tag |-> bursts'[j].tag,
                                      last |-> k = bursts'[j].burstLen]
    <3>1. CASE j # i
      <4>1. bursts'[j] = bursts[j] /\ j \in DOMAIN bursts
        BY Zenon, <1>8, <1>20, <3>1
      <4>2. QED
        BY <1>1, <2>2, <4>1 DEF RightData
    <3>2. CASE j = i
      <4>1. bursts'[j] = b1 /\ bursts'[j].beats = x
        BY Zenon, <1>19, <1>20, <3>2
      <4>2. DOMAIN x = 1 .. v + 1
        BY Zenon, <1>17, Length
      <4>3. k \in 1 .. v + 1
        BY Zenon, <2>2, <4>1, <4>2
      <4>4. CASE k = v + 1
        <5>1. h = [data |-> <<u, v + 1>>, tag |-> TagOf(u), last |-> v + 1 = L]
          <6>1. h = [data |-> h.data, tag |-> h.tag, last |-> h.last]
            BY Zenon, <1>7 DEF WriteBeat
          <6>2. QED
            BY Zenon, <1>11, <6>1
        <5>2. QED
          BY Zenon, <1>17, <1>19, <4>1, <4>4, <5>1
      <4>5. CASE k # v + 1
        <5>1. k \in 1 .. v
          BY <4>3, <4>5
        <5>2. DOMAIN b.beats = 1 .. v
          BY <1>8, <1>15, Length
        <5>3. b.beats[k] = [data |-> <<b.pa, k>>, tag |-> b.tag, last |-> k = b.burstLen]
          BY Zenon, <1>1, <1>4, <1>5, <5>1, <5>2 DEF RightData
        <5>4. QED
          BY <1>15, <1>17, <1>19, <4>1, <5>1, <5>3
      <4>6. QED
        BY Zenon, <4>4, <4>5
    <3>3. QED
      BY Zenon, <3>1, <3>2
  <2>3. QED
    BY Zenon, <2>1, <2>2 DEF RightData
<1>27. ReturnedInv'
  <2>1. \A j \in 1 .. z : bursts'[j].pa = bursts[j].pa
    <3> SUFFICES ASSUME NEW j \in 1 .. z PROVE bursts'[j].pa = bursts[j].pa
      BY Zenon
    <3>1. CASE j = i
      BY Zenon, <1>5, <1>15, <1>19, <1>20, <3>1
    <3>2. CASE j # i
      BY Zenon, <1>20, <3>2
    <3>3. QED
      BY Zenon, <3>1, <3>2
  <2>2. QED
    <3>1. /\ Finished' = Finished /\ Translated' = Translated /\ Requested' = Requested /\ Moved' = Moved
          /\ returned' = returned /\ Len(bursts') = Len(bursts)
      BY Zenon, <1>3, <1>5, <1>6, <1>20, <1>21
    <3>2. \A j \in 1 .. Len(bursts) : bursts'[j].pa = bursts[j].pa
      BY <1>5, <2>1
    <3>3. QED
      BY Zenon, <1>1, <3>1, <3>2 DEF ReturnedInv, TagOf
<1>28. StreamInv'
  BY Zenon, <1>1, <1>3, <1>21, StreamStays, AheadStays
<1>29. WriteTypes'
  BY Zenon, <1>1, <1>3, <1>7, <1>20 DEF WriteTypes
<1>30. RespInv'
  BY Zenon, <1>1, <1>3, <1>6, <1>21, RespStays
<1>31. DoneInv'
  BY Zenon, <1>1, <1>3, <1>6, DoneStays
<1>32. QED
  BY Zenon, <1>6, <1>21, <1>23, <1>24, <1>25, <1>26, <1>27, <1>28, <1>29, <1>30, <1>31 DEF WriteInv

\* A request is accepted, and its client has the words for it.
LEMMA WriteLoads ==
  ASSUME WriteInv, NEW c \in Client, NEW a \in Asks[c], write_loadClient(c, a)
  PROVE  WriteInv'
<1>1. /\ FrontInv /\ WriteTypes /\ MovedInv /\ StreamInv /\ RightData
      /\ ReturnedInv /\ RespInv /\ DoneInv
  BY Zenon DEF WriteInv
<1>2. PICK u \in Nat \ {0}, v \in Nat : ChainInv(u, v) /\ BusInv(u, v)
  BY Zenon DEF WriteInv
<1>3. PICK l, b, e : /\ l = Len(req) /\ b = a.burstLen
                     /\ e = [k \in 1 .. b |-> <<l + 1, k>>]
  BY Zenon
<1>4. /\ UNCHANGED <<tagVars, returned, burstReg, firstReg, lastReg, dreqFifo, respFifos, respB,
                     clientWriteData, memDataFifo, bursts, told, lost>>
      /\ loadClient(c, a)
      /\ unwritten' = [unwritten EXCEPT ![c] = @ \o e]
  BY Zenon, <1>3 DEF write_loadClient, loadClient, burstVars, tagVars
<1>5. /\ FrontInv' /\ Translated' = Translated /\ Requested' = Requested /\ Finished' = Finished
      /\ Taken' = Taken /\ Len(req') = l + 1
      /\ \A n \in 1 .. l : req'[n] = req[n]
      /\ req'[l + 1].client = c /\ req'[l + 1].burstLen = b
      /\ b \in Nat \ {0}
  <2>1. FrontInv /\ loadClient(c, a)
    BY Zenon, <1>1, <1>4
  <2>2. /\ FrontInv' /\ Translated' = Translated /\ Requested' = Requested /\ Finished' = Finished
        /\ Taken' = Taken /\ Len(req') = Len(req) + 1
        /\ \A n \in 1 .. Len(req) : req'[n] = req[n]
        /\ req'[Len(req) + 1] = [client |-> c, mmu |-> a.mmu, burstLen |-> a.burstLen]
        /\ a.burstLen \in Nat \ {0}
    BY Zenon, <2>1, FrontLoads
  <2>3. /\ req'[Len(req) + 1].client = c /\ req'[Len(req) + 1].burstLen = a.burstLen
    BY <2>2
  <2>4. QED
    BY Zenon, <1>3, <2>2, <2>3
<1>6. /\ l \in Nat /\ Requested \in Nat /\ Requested <= l /\ Moved \in Nat /\ Moved <= Requested /\ Pos \in Nat
      /\ firstReg => Pos = 0
      /\ ~firstReg => Moved + 1 <= Requested
      /\ Taken \in Nat /\ Taken <= l
  BY <1>1, <1>3, FrontCounts, WriteCounts
<1>7. MovedInv' /\ RightData' /\ Moved' = Moved /\ Pos' = Pos /\ ChainInv(u, v)' /\ BusInv(u, v)'
  <2>1. Len(req') \in Nat /\ Len(req) <= Len(req') /\ \A n \in 1 .. Len(req) : req'[n] = req[n]
    BY <1>3, <1>5, <1>6
  <2>2. QED
    BY Zenon, <1>1, <1>2, <1>4, <1>5, <2>1, BusStays
<1>8. clientWriteData \in [Client -> Seq(Nat \X Nat)] /\ unwritten \in [Client -> Seq(Nat \X Nat)]
  BY Zenon, <1>1 DEF WriteTypes
<1>9. PICK w, x : w = clientWriteData[c] /\ x = unwritten[c]
  BY Zenon
<1>10. PICK y : y = x \o e
  BY Zenon
<1>11. e \in Seq(Nat \X Nat) /\ Len(e) = b /\ \A k \in 1 .. b : e[k] = <<l + 1, k>>
  <2>1. e \in [1 .. b -> Nat \X Nat]
    BY <1>3, <1>5, <1>6
  <2>2. QED
    <3>1. b \in Nat
      BY Zenon, <1>5
    <3>2. e \in Seq(Nat \X Nat) /\ Len(e) = b
      BY Zenon, <2>1, <3>1, IsSeq
    <3>3. \A k \in 1 .. b : e[k] = <<l + 1, k>>
      BY Zenon, <1>3
    <3>4. QED
      BY Zenon, <3>2, <3>3
<1>12. w \in Seq(Nat \X Nat) /\ x \in Seq(Nat \X Nat) /\ Len(w) \in Nat /\ Len(x) \in Nat
  BY Zenon, <1>8, <1>9, Length
<1>13. /\ y \in Seq(Nat \X Nat) /\ Len(y) = Len(x) + b
       /\ \A i \in 1 .. Len(x) + b : y[i] = IF i <= Len(x) THEN x[i] ELSE e[i - Len(x)]
  <2>1. /\ x \o e \in Seq(Nat \X Nat) /\ Len(x \o e) = Len(x) + Len(e)
        /\ \A i \in 1 .. Len(x) + Len(e) : (x \o e)[i] = IF i <= Len(x) THEN x[i] ELSE e[i - Len(x)]
    BY Zenon, <1>11, <1>12, Joined
  <2>2. QED
    BY Zenon, <1>10, <1>11, <2>1
<1>14. /\ unwritten' \in [Client -> Seq(Nat \X Nat)] /\ unwritten'[c] = y
       /\ \A z \in Client \ {c} : unwritten'[z] = unwritten[z]
  <2>1. unwritten' = [unwritten EXCEPT ![c] = y]
    BY Zenon, <1>4, <1>9, <1>10
  <2>2. QED
    BY Zenon, <1>8, <1>13, <2>1
<1>15. WriteTypes'
  BY Zenon, <1>1, <1>4, <1>14 DEF WriteTypes
<1>16. \A z \in Client, n \in Nat, k \in Nat :
         Due(z, n, k)' <=> Due(z, n, k) \/ (z = c /\ n = l + 1 /\ k \in 1 .. b)
  <2> SUFFICES ASSUME NEW z \in Client, NEW n \in Nat, NEW k \in Nat
      PROVE  Due(z, n, k)' <=> Due(z, n, k) \/ (z = c /\ n = l + 1 /\ k \in 1 .. b)
    BY Zenon
  <2>1. CASE n \in 1 .. l
    <3>1. n \in 1 .. l + 1 /\ n # l + 1 /\ req'[n] = req[n]
      BY <1>5, <1>6, <2>1
    <3>2. QED
      BY Zenon, <1>3, <1>5, <1>7, <2>1, <3>1 DEF Due
  <2>2. CASE n = l + 1
    <3>1. ~Due(z, n, k)
      BY <1>3, <1>6, <2>2 DEF Due
    <3>2. n \in 1 .. Len(req') /\ req'[n].client = c /\ req'[n].burstLen = b
      BY <1>5, <1>6, <2>2
    <3>3. k \in 1 .. b => n > Moved + 1 \/ (n = Moved + 1 /\ k > Pos)
      BY <1>5, <1>6, <2>2
    <3>4. Due(z, n, k)' <=> z = c /\ k \in 1 .. b
      BY Zenon, <1>7, <3>2, <3>3 DEF Due
    <3>5. QED
      BY Zenon, <2>2, <3>1, <3>4
  <2>3. CASE n \notin 1 .. l /\ n # l + 1
    <3>1. n \notin 1 .. l + 1
      BY <1>6, <2>3
    <3>2. QED
      BY Zenon, <1>3, <1>5, <2>3, <3>1 DEF Due
  <2>4. QED
    BY Zenon, <2>1, <2>2, <2>3
<1>17. StreamInv'
  <2>1. ASSUME NEW z \in Client, z # c
        PROVE  /\ AheadLen(z)' = AheadLen(z) /\ \A i : Ahead(z, i)' = Ahead(z, i)
    BY Zenon, <1>4, <1>14, <2>1 DEF Ahead, AheadLen
  <2>2. PICK A : A = Len(w) + Len(x)
    BY Zenon
  <2>3. AheadLen(c) = A /\ AheadLen(c)' = A + b /\ A \in Nat
    <3>1. AheadLen(c) = Len(w) + Len(x) /\ AheadLen(c)' = Len(w) + (Len(x) + b)
      <4>1. clientWriteData' = clientWriteData
        BY Zenon, <1>4
      <4>2. QED
        BY Zenon, <1>9, <1>13, <1>14, <4>1 DEF AheadLen
    <3>2. QED
      BY <1>5, <1>12, <2>2, <3>1
  <2>4. \A i : Ahead(c, i) = IF i <= Len(w) THEN w[i] ELSE x[i - Len(w)]
    BY Zenon, <1>9 DEF Ahead
  <2>5. \A i : Ahead(c, i)' = IF i <= Len(w) THEN w[i] ELSE y[i - Len(w)]
    <3>1. clientWriteData' = clientWriteData
      BY Zenon, <1>4
    <3>2. QED
      BY Zenon, <1>9, <1>14, <3>1 DEF Ahead
  <2>6. ASSUME NEW i \in 1 .. A PROVE Ahead(c, i)' = Ahead(c, i)
    <3>1. CASE i <= Len(w)
      BY Zenon, <2>4, <2>5, <3>1
    <3>2. CASE ~(i <= Len(w))
      <4>1. i - Len(w) \in 1 .. Len(x) + b /\ i - Len(w) <= Len(x)
        BY <1>5, <1>12, <2>2, <3>2
      <4>2. QED
        <5>1. Ahead(c, i) = x[i - Len(w)] /\ Ahead(c, i)' = y[i - Len(w)]
          BY Zenon, <2>4, <2>5, <3>2
        <5>2. y[i - Len(w)] = x[i - Len(w)]
          BY Zenon, <1>13, <4>1
        <5>3. QED
          BY Zenon, <5>1, <5>2
    <3>3. QED
      BY Zenon, <3>1, <3>2
  <2>7. ASSUME NEW i \in A + 1 .. A + b PROVE Ahead(c, i)' = <<l + 1, i - A>> /\ i - A \in 1 .. b
    <3>1. /\ ~(i <= Len(w)) /\ i - Len(w) \in 1 .. Len(x) + b /\ ~(i - Len(w) <= Len(x))
          /\ (i - Len(w)) - Len(x) = i - A /\ i - A \in 1 .. b
      BY <1>5, <1>12, <2>2
    <3>2. QED
      BY Zenon, <1>11, <1>13, <2>5, <3>1
  <2>8. ASSUME NEW z \in Client, NEW i \in 1 .. AheadLen(z)
        PROVE  Due(z, Ahead(z, i)[1], Ahead(z, i)[2])
    BY Zenon, <1>1 DEF StreamInv
  <2>9. ASSUME NEW z \in Client, NEW i \in 1 .. AheadLen(z)
        PROVE  Ahead(z, i) \in Nat \X Nat
    BY Zenon, <1>1, AheadType
  <2>10. ASSUME NEW z \in Client
         PROVE  /\ \A i \in 1 .. AheadLen(z)' : Due(z, Ahead(z, i)[1], Ahead(z, i)[2])'
                /\ \A i, j \in 1 .. AheadLen(z)' : i < j => Before(Ahead(z, i), Ahead(z, j))'
                /\ \A n, k \in Nat :
                     Due(z, n, k)' => \E i \in 1 .. AheadLen(z)' : Ahead(z, i)' = <<n, k>>
    <3>1. \A i \in 1 .. AheadLen(z) : Ahead(z, i)' = Ahead(z, i)
      BY Zenon, <2>1, <2>3, <2>6
    <3>2. ASSUME NEW i \in 1 .. AheadLen(z) PROVE Due(z, Ahead(z, i)[1], Ahead(z, i)[2])'
      <4>1. PICK n, k \in Nat : Ahead(z, i) = <<n, k>>
        BY <2>9
      <4>2. n \in Nat /\ Due(z, n, k)
        BY <2>8, <2>9, <4>1
      <4>3. Due(z, n, k)'
        BY Zenon, <1>16, <4>2
      <4>4. Ahead(z, i)' = <<n, k>>
        BY Zenon, <3>1, <4>1
      <4>5. QED
        BY <4>3, <4>4 DEF Due
    <3>3. ASSUME NEW i \in 1 .. AheadLen(z), NEW j \in 1 .. AheadLen(z), i < j
          PROVE  Before(Ahead(z, i), Ahead(z, j))'
      <4>1. Before(Ahead(z, i), Ahead(z, j))
        BY Zenon, <1>1, <3>3 DEF StreamInv
      <4>2. Ahead(z, i)' = Ahead(z, i) /\ Ahead(z, j)' = Ahead(z, j)
        BY Zenon, <3>1
      <4>3. QED
        BY Zenon, <4>1, <4>2 DEF Before
    <3>4. ASSUME NEW n \in Nat, NEW k \in Nat, Due(z, n, k)
          PROVE  \E i \in 1 .. AheadLen(z) : Ahead(z, i)' = <<n, k>>
      BY <1>1, <3>1, <3>4 DEF StreamInv
    <3>5. CASE z # c
      <4>1. \A n, k \in Nat : Due(z, n, k)' => Due(z, n, k)
        BY Zenon, <1>16, <3>5
      <4>2. AheadLen(z)' = AheadLen(z)
        BY Zenon, <2>1, <3>5
      <4>3. QED
        BY Zenon, <3>2, <3>3, <3>4, <4>1, <4>2
    <3>6. CASE z = c
      <4>1. ASSUME NEW i \in 1 .. A + b PROVE Due(c, Ahead(c, i)[1], Ahead(c, i)[2])'
        <5>1. CASE i \in 1 .. A
          BY Zenon, <2>3, <3>2, <3>6, <5>1
        <5>2. CASE i \notin 1 .. A
          <6>1. i \in A + 1 .. A + b
            BY <1>5, <2>3, <5>2
          <6>2. PICK k \in 1 .. b : Ahead(c, i)' = <<l + 1, k>>
            BY Zenon, <2>7, <6>1
          <6>3. Due(c, l + 1, k)'
            BY <1>5, <1>6, <1>16, <6>2
          <6>4. QED
            BY <6>2, <6>3 DEF Due
        <5>3. QED
          BY Zenon, <5>1, <5>2
      <4>2. ASSUME NEW i \in 1 .. A + b, NEW j \in 1 .. A + b, i < j
            PROVE  Before(Ahead(c, i), Ahead(c, j))'
        <5>1. CASE j \in 1 .. A
          <6>1. i \in 1 .. A
            BY <2>3, <4>2, <5>1
          <6>2. QED
            BY Zenon, <2>3, <3>3, <3>6, <4>2, <5>1, <6>1
        <5>2. CASE j \notin 1 .. A
          <6>1. j \in A + 1 .. A + b
            BY <1>5, <2>3, <5>2
          <6>2. PICK k : k = j - A
            BY Zenon
          <6>3. Ahead(c, j)' = <<l + 1, k>> /\ k \in 1 .. b
            BY Zenon, <2>7, <6>1, <6>2
          <6>4. CASE i \in 1 .. A
            <7>1. PICK n, m \in Nat : Ahead(c, i) = <<n, m>>
              BY <2>3, <2>9, <6>4
            <7>2. n \in 1 .. l
              BY SMTT(60), <1>3, <2>3, <2>8, <6>4, <7>1 DEF Due
            <7>3. Ahead(c, i)' = <<n, m>> /\ n < l + 1
              BY <1>6, <2>6, <6>4, <7>1, <7>2
            <7>4. QED
              BY <6>3, <7>3 DEF Before
          <6>5. CASE i \notin 1 .. A
            <7>1. i \in A + 1 .. A + b /\ i - A < k
              BY <1>5, <2>3, <4>2, <6>2, <6>5
            <7>2. PICK m : m = i - A
              BY Zenon
            <7>3. Ahead(c, i)' = <<l + 1, m>> /\ m < k
              BY Zenon, <2>7, <7>1, <7>2
            <7>4. QED
              BY <6>3, <7>3 DEF Before
          <6>6. QED
            BY Zenon, <6>4, <6>5
        <5>3. QED
          BY Zenon, <5>1, <5>2
      <4>3. ASSUME NEW n \in Nat, NEW k \in Nat, Due(c, n, k)'
            PROVE  \E i \in 1 .. A + b : Ahead(c, i)' = <<n, k>>
        <5>1. CASE Due(c, n, k)
          <6>1. PICK i \in 1 .. A : Ahead(c, i)' = <<n, k>>
            BY Zenon, <2>3, <3>4, <3>6, <5>1
          <6>2. i \in 1 .. A + b
            BY <1>5, <2>3
          <6>3. QED
            BY Zenon, <6>1, <6>2
        <5>2. CASE n = l + 1 /\ k \in 1 .. b
          <6>1. A + k \in A + 1 .. A + b /\ A + k \in 1 .. A + b /\ (A + k) - A = k
            BY <1>5, <2>3, <5>2
          <6>2. Ahead(c, A + k)' = <<l + 1, k>>
            BY Zenon, <2>7, <6>1
          <6>3. QED
            BY Zenon, <5>2, <6>1, <6>2
        <5>3. QED
          BY Zenon, <1>16, <4>3, <5>1, <5>2
      <4>4. QED
        BY Zenon, <2>3, <3>6, <4>1, <4>2, <4>3
    <3>7. QED
      BY Zenon, <3>5, <3>6
  <2>11. QED
    BY Zenon, <2>10 DEF StreamInv
<1>18. ReturnedInv'
  BY Zenon, <1>1, <1>4, <1>5, <1>7 DEF ReturnedInv, TagOf
<1>19. RespInv'
  <2>1. ASSUME NEW n \in Taken + 1 .. l + 1, n <= Moved \/ (n = Moved + 1 /\ ~firstReg)
        PROVE  n \in lost \/ respFifos[TagOf(n)] = [orig_tag |-> n, client |-> req'[n].client]
    <3>1. n \in Taken + 1 .. Len(req) /\ n \in 1 .. l
      BY <1>3, <1>6, <2>1
    <3>2. QED
      BY Zenon, <1>1, <1>5, <2>1, <3>1 DEF RespInv, Answer
  <2>2. \A n \in Taken + 1 .. Finished : n + numTags <= Translated => n \in lost
    BY Zenon, <1>1 DEF RespInv
  <2>3. QED
    BY Zenon, <1>4, <1>5, <1>7, <2>1, <2>2 DEF RespInv, Answer, TagOf
<1>20. DoneInv'
  <2>1. /\ told \in Nat /\ respB \in Seq(Told) /\ told + Len(respB) = Taken
        /\ \A i \in 1 .. Len(respB) : told + i \in lost \/ respB[i] = Answer(told + i)
    BY Zenon, <1>1 DEF DoneInv
  <2>2. ASSUME NEW i \in 1 .. Len(respB)
        PROVE  told + i \in lost \/ respB[i] = [orig_tag |-> told + i, client |-> req'[told + i].client]
    <3>1. Len(respB) \in Nat
      BY Zenon, <2>1, Length
    <3>2. told + i \in 1 .. l
      BY <1>6, <2>1, <3>1
    <3>3. QED
      BY Zenon, <1>5, <2>1, <3>2 DEF Answer
  <2>3. QED
    BY Zenon, <1>4, <1>5, <2>1, <2>2 DEF DoneInv, Answer
<1>21. QED
  BY Zenon, <1>5, <1>7, <1>15, <1>17, <1>18, <1>19, <1>20 DEF WriteInv

\* Where memdata is in the burst it counts, and where a beat takes it.
LEMMA BeatMoves ==
  ASSUME WriteInv, memdata, NEW n, n = Moved + 1, NEW L, L = req[n].burstLen, NEW p, p = Pos
  PROVE  /\ n \in 1 .. Len(req) /\ n <= Requested /\ L \in Nat \ {0} /\ p \in Nat /\ p < L
         /\ Head(dreqFifo) = [req |-> n, tag |-> TagOf(n)]
         /\ Last(n) <=> p + 1 = L
         /\ p + 1 = L => Moved' = n /\ Pos' = 0 /\ firstReg'
         /\ p + 1 # L => Moved' = Moved /\ Pos' = p + 1 /\ ~firstReg'
         /\ MovedInv' /\ dreqFifo' \in Seq([req : Nat, tag : Nat])
         /\ firstReg' \in BOOLEAN /\ lastReg' \in BOOLEAN /\ burstReg' \in Int
<1>1. FrontInv /\ WriteTypes /\ MovedInv
  BY Zenon DEF WriteInv
<1>2. PICK d, l : d = Head(dreqFifo) /\ l = Len(dreqFifo)
  BY Zenon
<1>3. /\ UNCHANGED <<req, lreqFifo, mmu, reqFifo, tagVars>>
      /\ dreqFifo # << >> /\ CountDown(BurstLen(d.req))
      /\ dreqFifo' = IF Last(d.req) THEN Tail(dreqFifo) ELSE dreqFifo
  <2>1. UNCHANGED requestVars /\ UNCHANGED tagVars
    BY Zenon DEF memdata
  <2>2. /\ dreqFifo # << >> /\ CountDown(BurstLen(Head(dreqFifo).req))
        /\ dreqFifo' = IF Last(Head(dreqFifo).req) THEN Tail(dreqFifo) ELSE dreqFifo
    BY Zenon DEF memdata
  <2>3. UNCHANGED <<req, lreqFifo, mmu, reqFifo>>
    BY Zenon, <2>1 DEF requestVars
  <2>4. QED
    BY Zenon, <1>2, <2>1, <2>2, <2>3
<1>4. /\ Moved \in Nat /\ Moved <= Requested /\ p \in Nat
      /\ firstReg => p = 0
      /\ ~firstReg => /\ p \in 1 .. L - 1 /\ burstReg = L - p /\ lastReg = (burstReg = 1)
      /\ Moved < Requested /\ Requested \in Nat /\ Requested <= Len(req) /\ Len(req) \in Nat
      /\ Moved = Requested - l
  BY <1>1, <1>2, <1>3, FrontCounts, WriteCounts DEF Moved
<1>5. n \in 1 .. Len(req) /\ n <= Requested
  BY <1>4
<1>6. L \in Nat \ {0}
  BY Zenon, <1>1, <1>5, RequestType
<1>7. p < L
  BY <1>4, <1>6
<1>8. dreqFifo \in Seq([req : Nat, tag : Nat])
  BY Zenon, <1>1 DEF WriteTypes
<1>9. PICK t : t = Tail(dreqFifo)
  BY Zenon
<1>10. /\ t \in Seq([req : Nat, tag : Nat]) /\ l \in Nat \ {0} /\ Len(t) = l - 1
       /\ d = dreqFifo[1] /\ \A i \in 1 .. l - 1 : t[i] = dreqFifo[i + 1]
  BY <1>2, <1>3, <1>8, <1>9, Popped
<1>11. \A i \in 1 .. l : dreqFifo[i] = [req |-> Moved + i, tag |-> TagOf(Moved + i)]
  BY Zenon, <1>1, <1>2 DEF MovedInv
<1>12. d = [req |-> n, tag |-> TagOf(n)] /\ d.req = n
  BY <1>10, <1>11
<1>13. BurstLen(n) = L - p
  BY <1>4, <1>6 DEF BurstLen
<1>14. Last(n) <=> p + 1 = L
  <2>1. CASE firstReg
    <3>1. Last(n) <=> L = 1
      BY Zenon, <2>1 DEF Last
    <3>2. L = 1 <=> p + 1 = L
      BY <1>4, <1>6, <2>1
    <3>3. QED
      BY Zenon, <3>1, <3>2
  <2>2. CASE ~firstReg
    <3>1. Last(n) <=> burstReg = 1
      BY Zenon, <1>4, <2>2 DEF Last
    <3>2. burstReg = 1 <=> p + 1 = L
      BY <1>4, <1>6, <2>2
    <3>3. QED
      BY Zenon, <3>1, <3>2
  <2>3. QED
    BY Zenon, <2>1, <2>2
<1>15. burstReg' = L - p - 1 /\ firstReg' = (L - p - 1 = 0) /\ lastReg' = (L - p - 1 = 1)
  BY Zenon, <1>3, <1>12, <1>13 DEF CountDown
<1>16. firstReg' \in BOOLEAN /\ lastReg' \in BOOLEAN /\ burstReg' \in Int
  <2>1. firstReg' \in BOOLEAN /\ lastReg' \in BOOLEAN
    BY Zenon, <1>15
  <2>2. burstReg' \in Int
    BY <1>4, <1>6, <1>15
  <2>3. QED
    BY Zenon, <2>1, <2>2
<1>17. Requested' = Requested
  BY Zenon, <1>3 DEF Requested, Translated
<1>18. CASE p + 1 = L
  <2>1. dreqFifo' = t
    BY Zenon, <1>3, <1>9, <1>12, <1>14, <1>18
  <2>2. Moved' = n
    <3>1. Moved' = Requested - Len(t)
      BY Zenon, <1>17, <2>1 DEF Moved
    <3>2. QED
      BY <1>4, <1>10, <3>1
  <2>3. firstReg'
    <3>1. L - p - 1 = 0
      BY <1>4, <1>6, <1>18
    <3>2. QED
      BY Zenon, <1>15, <3>1
  <2>4. Pos' = 0
    BY Zenon, <2>3 DEF Pos
  <2>5. \A i \in 1 .. l - 1 : t[i] = [req |-> n + i, tag |-> TagOf(n + i)]
    <3> SUFFICES ASSUME NEW i \in 1 .. l - 1 PROVE t[i] = [req |-> n + i, tag |-> TagOf(n + i)]
      BY Zenon
    <3>1. i + 1 \in 1 .. l /\ Moved + (i + 1) = n + i
      BY <1>4, <1>10
    <3>2. QED
      BY Zenon, <1>10, <1>11, <3>1
  <2>6. MovedInv'
    <3>1. Moved' \in Nat
      BY <1>4, <2>2
    <3>2. QED
      BY Zenon, <1>10, <2>1, <2>2, <2>3, <2>5, <3>1 DEF MovedInv, TagOf
  <2>7. dreqFifo' \in Seq([req : Nat, tag : Nat])
    BY Zenon, <1>10, <2>1
  <2>8. QED
    BY Zenon, <1>2, <1>4, <1>5, <1>6, <1>7, <1>12, <1>14, <1>16, <1>18, <2>2, <2>3, <2>4, <2>6, <2>7
<1>19. CASE p + 1 # L
  <2>1. dreqFifo' = dreqFifo
    BY Zenon, <1>3, <1>12, <1>14, <1>19
  <2>2. Moved' = Moved
    BY Zenon, <1>17, <2>1 DEF Moved
  <2>3. ~firstReg'
    <3>1. ~(L - p - 1 = 0)
      BY <1>4, <1>6, <1>19
    <3>2. QED
      BY Zenon, <1>15, <3>1
  <2>4. Pos' = p + 1
    <3>1. Pos' = L - burstReg'
      BY Zenon, <1>3, <2>2, <2>3 DEF Pos
    <3>2. QED
      BY <1>4, <1>6, <1>15, <3>1
  <2>5. burstReg' \in 1 .. L - 1 /\ lastReg' = (burstReg' = 1)
    BY <1>4, <1>6, <1>7, <1>15, <1>19
  <2>6. MovedInv'
    BY Zenon, <1>1, <1>3, <2>1, <2>2, <2>3, <2>5 DEF MovedInv, TagOf
  <2>7. dreqFifo' \in Seq([req : Nat, tag : Nat])
    BY Zenon, <1>8, <2>1
  <2>8. QED
    BY Zenon, <1>2, <1>4, <1>5, <1>6, <1>7, <1>12, <1>14, <1>16, <1>19, <2>2, <2>3, <2>4, <2>6, <2>7
<1>20. QED
  BY Zenon, <1>18, <1>19

\* The word at the front of its client's stream is the one memdata is at.
LEMMA NextWord ==
  ASSUME WriteInv, memdata, NEW n, n = Moved + 1, NEW c, c = req[n].client
  PROVE  /\ c \in Client /\ AheadLen(c) > 0 /\ Ahead(c, 1) = <<n, Pos + 1>>
         /\ Head(clientWriteData[c]) = <<n, Pos + 1>> /\ clientWriteData[c] # << >>
<1>1. FrontInv /\ WriteTypes /\ StreamInv
  BY Zenon DEF WriteInv
<1>2. PICK L, p : L = req[n].burstLen /\ p = Pos
  BY Zenon
<1>3. /\ n \in 1 .. Len(req) /\ L \in Nat \ {0} /\ p \in Nat /\ p < L
      /\ Head(dreqFifo) = [req |-> n, tag |-> TagOf(n)]
  BY Zenon, <1>2, BeatMoves
<1>4. c \in Client
  BY Zenon, <1>1, <1>3, RequestType
<1>5. clientWriteData[c] # << >>
  <2>1. Head(dreqFifo).req = n
    BY <1>3
  <2>2. QED
    BY Zenon, <2>1 DEF memdata
<1>6. clientWriteData[c] \in Seq(Nat \X Nat) /\ unwritten[c] \in Seq(Nat \X Nat)
  BY Zenon, <1>1, <1>4 DEF WriteTypes
<1>7. Len(clientWriteData[c]) \in Nat \ {0} /\ Len(unwritten[c]) \in Nat
  BY Zenon, <1>5, <1>6, Empty, Length
<1>8. Head(clientWriteData[c]) = Ahead(c, 1) /\ AheadLen(c) \in Nat /\ AheadLen(c) > 0
  <2>1. Head(clientWriteData[c]) = clientWriteData[c][1]
    BY Zenon, <1>5, <1>6, Popped
  <2>2. 1 <= Len(clientWriteData[c])
    BY <1>7
  <2>3. Ahead(c, 1) = clientWriteData[c][1]
    BY Zenon, <2>2 DEF Ahead
  <2>4. AheadLen(c) \in Nat /\ AheadLen(c) > 0
    <3>1. \A i \in Nat \ {0}, j \in Nat : i + j \in Nat /\ i + j > 0
      OBVIOUS
    <3>2. QED
      BY Zenon, <1>7, <3>1 DEF AheadLen
  <2>5. QED
    BY Zenon, <2>1, <2>3, <2>4
<1>9. n \in Nat /\ Due(c, n, p + 1)
  BY <1>2, <1>3 DEF Due
<1>10. PICK i \in 1 .. AheadLen(c) : Ahead(c, i) = <<n, p + 1>>
  BY <1>1, <1>3, <1>4, <1>9 DEF StreamInv
<1>11. PICK m, k \in Nat : Ahead(c, 1) = <<m, k>>
  BY <1>1, <1>4, <1>8, AheadType
<1>12. Due(c, m, k)
  BY <1>1, <1>4, <1>8, <1>11 DEF StreamInv
<1>13. m \in Nat /\ k \in Nat /\ (m > n \/ (m = n /\ k > p))
  BY Zenon, <1>2, <1>12, <1>11 DEF Due
<1>14. ~(1 < i)
  <2>1. ASSUME 1 < i PROVE FALSE
    <3>1. Before(<<m, k>>, <<n, p + 1>>)
      BY <1>1, <1>4, <1>8, <1>10, <1>11, <2>1 DEF StreamInv
    <3>2. m < n \/ (m = n /\ k < p + 1)
      BY Zenon, <3>1 DEF Before
    <3>3. QED
      BY <1>3, <1>9, <1>13, <3>2
  <2>2. QED
    BY Zenon, <2>1
<1>15. i = 1
  BY <1>8, <1>14
<1>16. QED
  BY Zenon, <1>2, <1>4, <1>5, <1>8, <1>10, <1>15

\* The streams of words after memdata has taken one.
LEMMA BeatStream == ASSUME WriteInv, memdata PROVE StreamInv' /\ clientWriteData' \in [Client -> Seq(Nat \X Nat)]
<1>1. FrontInv /\ WriteTypes /\ StreamInv
  BY Zenon DEF WriteInv
<1>2. PICK n, L, p, c : n = Moved + 1 /\ L = req[n].burstLen /\ p = Pos /\ c = req[n].client
  BY Zenon
<1>3. /\ n \in 1 .. Len(req) /\ L \in Nat \ {0} /\ p \in Nat /\ p < L
      /\ Head(dreqFifo).req = n
      /\ p + 1 = L => Moved' = n /\ Pos' = 0
      /\ p + 1 # L => Moved' = Moved /\ Pos' = p + 1
  BY <1>2, BeatMoves
<1>4. /\ c \in Client /\ AheadLen(c) > 0 /\ Ahead(c, 1) = <<n, p + 1>> /\ clientWriteData[c] # << >>
  BY Zenon, <1>2, NextWord
<1>5. /\ UNCHANGED <<req, unwritten>>
      /\ clientWriteData' = [clientWriteData EXCEPT ![c] = Tail(@)]
  <2>1. UNCHANGED requestVars /\ unwritten' = unwritten
    BY Zenon DEF memdata
  <2>2. clientWriteData' = [clientWriteData EXCEPT ![req[Head(dreqFifo).req].client] = Tail(@)]
    BY Zenon DEF memdata
  <2>3. req' = req
    BY Zenon, <2>1 DEF requestVars
  <2>4. QED
    BY Zenon, <1>2, <1>3, <2>1, <2>2, <2>3
<1>6. clientWriteData \in [Client -> Seq(Nat \X Nat)] /\ unwritten \in [Client -> Seq(Nat \X Nat)]
  BY Zenon, <1>1 DEF WriteTypes
<1>7. PICK w, x, q : w = clientWriteData[c] /\ x = unwritten[c] /\ q = Tail(w)
  BY Zenon
<1>8. /\ w \in Seq(Nat \X Nat) /\ w # << >> /\ x \in Seq(Nat \X Nat) /\ Len(x) \in Nat
  BY Zenon, <1>4, <1>6, <1>7, Length
<1>9. /\ q \in Seq(Nat \X Nat) /\ Len(w) \in Nat \ {0} /\ Len(q) = Len(w) - 1
      /\ \A i \in 1 .. Len(w) - 1 : q[i] = w[i + 1]
  BY <1>7, <1>8, Popped
<1>10. /\ clientWriteData' \in [Client -> Seq(Nat \X Nat)] /\ clientWriteData'[c] = q
       /\ \A z \in Client \ {c} : clientWriteData'[z] = clientWriteData[z]
  BY Zenon, <1>4, <1>5, <1>6, <1>7, <1>9
<1>11. \A z \in Client, m \in Nat, k \in Nat :
         Due(z, m, k)' <=> Due(z, m, k) /\ ~(m = n /\ k = p + 1)
  <2> SUFFICES ASSUME NEW z \in Client, NEW m \in Nat, NEW k \in Nat
      PROVE  Due(z, m, k)' <=> Due(z, m, k) /\ ~(m = n /\ k = p + 1)
    BY Zenon
  <2>1. /\ Due(z, m, k) <=> /\ m \in 1 .. Len(req) /\ req[m].client = z /\ k \in 1 .. req[m].burstLen
                            /\ m > n \/ (m = n /\ k > p)
        /\ Due(z, m, k)' <=> /\ m \in 1 .. Len(req) /\ req[m].client = z /\ k \in 1 .. req[m].burstLen
                             /\ m > Moved' + 1 \/ (m = Moved' + 1 /\ k > Pos')
    BY Zenon, <1>2, <1>5 DEF Due
  <2>2. CASE p + 1 = L
    <3>1. Moved' = n /\ Pos' = 0
      BY Zenon, <1>3, <2>2
    <3>2. k \in 1 .. L /\ k > p => k = p + 1
      BY <1>3, <2>2
    <3>3. m \in 1 .. Len(req) => req[m].burstLen \in Nat
      BY Zenon, <1>1, RequestType
    <3>4. QED
      BY <1>2, <1>3, <2>1, <3>1, <3>2, <3>3
  <2>3. CASE p + 1 # L
    <3>1. Moved' + 1 = n /\ Pos' = p + 1
      BY Zenon, <1>2, <1>3, <2>3
    <3>2. QED
      BY <1>3, <2>1, <3>1
  <2>4. QED
    BY Zenon, <2>2, <2>3
<1>12. ASSUME NEW z \in Client
       PROVE  /\ AheadLen(z) \in Nat /\ \A i \in 1 .. AheadLen(z) : Ahead(z, i) \in Nat \X Nat
              /\ \A i \in 1 .. AheadLen(z) : Due(z, Ahead(z, i)[1], Ahead(z, i)[2])
              /\ \A i, j \in 1 .. AheadLen(z) : i < j => Before(Ahead(z, i), Ahead(z, j))
              /\ \A m, k \in Nat :
                   Due(z, m, k) => \E i \in 1 .. AheadLen(z) : Ahead(z, i) = <<m, k>>
  BY Zenon, <1>1, AheadType DEF StreamInv
<1>13. ASSUME NEW z \in Client, z # c
       PROVE  /\ \A i \in 1 .. AheadLen(z)' : Due(z, Ahead(z, i)[1], Ahead(z, i)[2])'
              /\ \A i, j \in 1 .. AheadLen(z)' : i < j => Before(Ahead(z, i), Ahead(z, j))'
              /\ \A m, k \in Nat :
                   Due(z, m, k)' => \E i \in 1 .. AheadLen(z)' : Ahead(z, i)' = <<m, k>>
  <2>1. AheadLen(z)' = AheadLen(z) /\ \A i : Ahead(z, i)' = Ahead(z, i)
    BY Zenon, <1>5, <1>10, <1>13 DEF Ahead, AheadLen
  <2>2. \A m, k \in Nat : Due(z, m, k)' <=> Due(z, m, k)
    <3>1. \A k \in Nat : ~Due(z, n, k)
      BY Zenon, <1>2, <1>13 DEF Due
    <3>2. QED
      BY Zenon, <1>11, <3>1
  <2>3. ASSUME NEW i \in 1 .. AheadLen(z) PROVE Due(z, Ahead(z, i)[1], Ahead(z, i)[2])'
    <3>1. PICK m, k \in Nat : Ahead(z, i) = <<m, k>>
      BY <1>12
    <3>2. Due(z, m, k)
      BY <1>12, <3>1
    <3>3. Due(z, m, k)'
      BY Zenon, <2>2, <3>2
    <3>4. QED
      BY <2>1, <3>1, <3>3 DEF Due
  <2>4. ASSUME NEW i \in 1 .. AheadLen(z), NEW j \in 1 .. AheadLen(z), i < j
        PROVE  Before(Ahead(z, i), Ahead(z, j))'
    <3>1. Before(Ahead(z, i), Ahead(z, j))
      BY Zenon, <1>12, <2>4
    <3>2. QED
      BY <2>1, <3>1 DEF Before
  <2>5. QED
    BY <1>12, <2>1, <2>2, <2>3, <2>4
<1>14. PICK A : A = AheadLen(c)
  BY Zenon
<1>15. A \in Nat /\ A > 0 /\ AheadLen(c)' = A - 1 /\ A = Len(w) + Len(x)
  <2>1. AheadLen(c) = Len(w) + Len(x) /\ AheadLen(c)' = Len(q) + Len(x)
    BY Zenon, <1>5, <1>7, <1>10 DEF AheadLen
  <2>2. QED
    BY <1>4, <1>8, <1>9, <1>14, <2>1
<1>16. ASSUME NEW i \in 1 .. A - 1 PROVE Ahead(c, i)' = Ahead(c, i + 1)
  <2>1. /\ Ahead(c, i + 1) = IF i + 1 <= Len(w) THEN w[i + 1] ELSE x[(i + 1) - Len(w)]
        /\ Ahead(c, i)' = IF i <= Len(q) THEN q[i] ELSE x[i - Len(q)]
    BY <1>5, <1>7, <1>10 DEF Ahead
  <2>2. (i <= Len(q) <=> i + 1 <= Len(w)) /\ i - Len(q) = (i + 1) - Len(w)
    BY <1>9
  <2>3. CASE i <= Len(q)
    <3>1. i \in 1 .. Len(w) - 1
      BY <1>9, <2>3
    <3>2. QED
      <4>1. q[i] = w[i + 1]
        BY Zenon, <1>9, <3>1
      <4>2. QED
        BY Zenon, <2>1, <2>2, <2>3, <4>1
  <2>4. CASE ~(i <= Len(q))
    BY Zenon, <2>1, <2>2, <2>4
  <2>5. QED
    BY Zenon, <2>3, <2>4
<1>17. \A i \in 1 .. A - 1 : i + 1 \in 1 .. A /\ 1 < i + 1
  BY <1>15
<1>18. ASSUME NEW i \in 1 .. A - 1 PROVE Due(c, Ahead(c, i)[1], Ahead(c, i)[2])'
  <2>1. PICK m, k \in Nat : Ahead(c, i + 1) = <<m, k>>
    BY <1>4, <1>12, <1>14, <1>17
  <2>2. Due(c, m, k)
    BY <1>4, <1>12, <1>14, <1>17, <2>1
  <2>3. Before(<<n, p + 1>>, <<m, k>>)
    <3>1. 1 \in 1 .. A /\ i + 1 \in 1 .. A /\ 1 < i + 1
      BY <1>15, <1>17
    <3>2. Before(Ahead(c, 1), Ahead(c, i + 1))
      BY Zenon, <1>4, <1>12, <1>14, <3>1
    <3>3. QED
      BY Zenon, <1>4, <2>1, <3>2
  <2>4. n < m \/ (n = m /\ p + 1 < k)
    BY Zenon, <2>3 DEF Before
  <2>5. ~(m = n /\ k = p + 1)
    BY <1>3, <2>4
  <2>6. Due(c, m, k)'
    BY Zenon, <1>4, <1>11, <2>2, <2>5
  <2>7. Ahead(c, i)' = <<m, k>>
    BY Zenon, <1>16, <2>1
  <2>8. QED
    BY <2>6, <2>7 DEF Due
<1>19. ASSUME NEW i \in 1 .. A - 1, NEW j \in 1 .. A - 1, i < j
       PROVE  Before(Ahead(c, i), Ahead(c, j))'
  <2>1. i + 1 \in 1 .. A /\ j + 1 \in 1 .. A /\ i + 1 < j + 1
    BY <1>15, <1>19
  <2>2. Before(Ahead(c, i + 1), Ahead(c, j + 1))
    BY Zenon, <1>4, <1>12, <1>14, <2>1
  <2>3. Ahead(c, i)' = Ahead(c, i + 1) /\ Ahead(c, j)' = Ahead(c, j + 1)
    BY Zenon, <1>16
  <2>4. QED
    BY Zenon, <2>2, <2>3 DEF Before
<1>20. ASSUME NEW m \in Nat, NEW k \in Nat, Due(c, m, k)'
       PROVE  \E i \in 1 .. A - 1 : Ahead(c, i)' = <<m, k>>
  <2>1. Due(c, m, k) /\ ~(m = n /\ k = p + 1)
    BY Zenon, <1>4, <1>11, <1>20
  <2>2. PICK j \in 1 .. A : Ahead(c, j) = <<m, k>>
    BY Zenon, <1>4, <1>12, <1>14, <2>1
  <2>3. j # 1
    BY <1>4, <2>1, <2>2
  <2>4. PICK i \in 1 .. A - 1 : i + 1 = j
    <3>1. j - 1 \in 1 .. A - 1 /\ (j - 1) + 1 = j
      BY <1>15, <2>3
    <3>2. QED
      BY Zenon, <3>1
  <2>5. QED
    BY Zenon, <1>16, <2>2, <2>4
<1>21. ASSUME NEW z \in Client
       PROVE  /\ \A i \in 1 .. AheadLen(z)' : Due(z, Ahead(z, i)[1], Ahead(z, i)[2])'
              /\ \A i, j \in 1 .. AheadLen(z)' : i < j => Before(Ahead(z, i), Ahead(z, j))'
              /\ \A m, k \in Nat :
                   Due(z, m, k)' => \E i \in 1 .. AheadLen(z)' : Ahead(z, i)' = <<m, k>>
  <2>1. CASE z = c
    BY Zenon, <1>15, <1>18, <1>19, <1>20, <2>1
  <2>2. CASE z # c
    BY Zenon, <1>13, <2>2
  <2>3. QED
    BY Zenon, <2>1, <2>2
<1>22. StreamInv'
  BY Zenon, <1>21 DEF StreamInv
<1>23. QED
  BY Zenon, <1>10, <1>22

\* memdata moves a beat.
LEMMA BeatGoes == ASSUME WriteInv, memdata PROVE WriteInv'
<1>1. /\ FrontInv /\ WriteTypes /\ MovedInv /\ StreamInv /\ RightData
      /\ ReturnedInv /\ RespInv /\ DoneInv
  BY Zenon DEF WriteInv
<1>2. PICK u \in Nat \ {0}, v \in Nat : ChainInv(u, v) /\ BusInv(u, v)
  BY Zenon DEF WriteInv
<1>3. PICK n, L, p, l : n = Moved + 1 /\ L = req[n].burstLen /\ p = Pos /\ l = Len(memDataFifo)
  BY Zenon
<1>4. PICK h : h = [data |-> <<n, p + 1>>, tag |-> TagOf(n), last |-> p + 1 = L]
  BY Zenon
<1>5. /\ n \in 1 .. Len(req) /\ L \in Nat \ {0} /\ p \in Nat /\ p < L
      /\ Head(dreqFifo) = [req |-> n, tag |-> TagOf(n)]
      /\ Last(n) <=> p + 1 = L
      /\ p + 1 = L => Moved' = n /\ Pos' = 0 /\ firstReg'
      /\ p + 1 # L => Moved' = Moved /\ Pos' = p + 1 /\ ~firstReg'
      /\ MovedInv' /\ dreqFifo' \in Seq([req : Nat, tag : Nat])
      /\ firstReg' \in BOOLEAN /\ lastReg' \in BOOLEAN /\ burstReg' \in Int
  BY Zenon, <1>3, BeatMoves
<1>6. Head(clientWriteData[req[n].client]) = <<n, p + 1>>
  BY Zenon, <1>3, NextWord
<1>7. Last(n) \in BOOLEAN
  BY Zenon, <1>1 DEF Last, WriteTypes
<1>8. Last(n) = (p + 1 = L)
  BY Zenon, <1>5, <1>7
<1>9. Head(dreqFifo).req = n /\ Head(dreqFifo).tag = TagOf(n)
  BY <1>5
<1>10. /\ UNCHANGED <<req, lreqFifo, mmu, reqFifo, tagVars, returned, respB, unwritten, bursts, told, lost>>
       /\ IF firstReg THEN respFifos' = [respFifos EXCEPT ![TagOf(n)] = Answer(n)] ELSE UNCHANGED respFifos
       /\ memDataFifo' = Append(memDataFifo, h)
  <2>1. /\ UNCHANGED <<requestVars, tagVars, respB, unwritten, bursts, told>>
        /\ IF firstReg THEN Remember(Head(dreqFifo)) ELSE UNCHANGED respFifos
        /\ memDataFifo' = Append(memDataFifo, [data |-> Head(clientWriteData[req[Head(dreqFifo).req].client]),
                                               tag |-> Head(dreqFifo).tag, last |-> Last(Head(dreqFifo).req)])
    BY Zenon DEF memdata
  <2>2. memDataFifo' = Append(memDataFifo, h)
    BY Zenon, <1>4, <1>6, <1>8, <1>9, <2>1
  <2>3. Remember(Head(dreqFifo)) => respFifos' = [respFifos EXCEPT ![TagOf(n)] = Answer(n)]
    BY Zenon, <1>9 DEF Remember, Answer
  <2>4. QED
    BY Zenon, <2>1, <2>2, <2>3 DEF requestVars, tagVars
<1>11. /\ FrontInv' /\ Translated' = Translated /\ Requested' = Requested /\ Finished' = Finished
       /\ Taken' = Taken
  BY Zenon, <1>1, <1>10, FrontStays
<1>12. /\ Len(req) \in Nat /\ Taken \in Nat /\ Taken <= Finished /\ Finished \in Nat
       /\ Moved \in Nat /\ Requested \in Nat
  BY Zenon, <1>1, FrontCounts, WriteCounts
<1>13. StreamInv' /\ clientWriteData' \in [Client -> Seq(Nat \X Nat)]
  BY Zenon, BeatStream
<1>14. n \in Nat \ {0} /\ TagOf(n) \in RenameTag /\ TagOf(n) \in Nat
  <2>1. TagOf(n) \in 0 .. numTags - 1
    BY <1>5, <1>12, TagType
  <2>2. QED
    BY <1>5, <1>12, <2>1, numTagsAssumption DEF RenameTag
<1>15. /\ memDataFifo' \in Seq(WriteBeat) /\ l \in Nat
       /\ Len(memDataFifo') = l + 1 /\ memDataFifo'[l + 1] = h
       /\ \A i \in 1 .. l : memDataFifo'[i] = memDataFifo[i]
  <2>1. h \in WriteBeat
    BY <1>4, <1>5, <1>14 DEF WriteBeat
  <2>2. memDataFifo \in Seq(WriteBeat)
    BY Zenon, <1>1 DEF WriteTypes
  <2>3. QED
    BY <1>3, <1>10, <2>1, <2>2, Pushed
<1>16. WriteTypes'
  <2>1. DOMAIN respFifos' = RenameTag
    BY Zenon, <1>1, <1>10 DEF WriteTypes
  <2>2. Answer(n) \in Told
    <3>1. n \in Nat /\ req[n].client \in Client
      BY Zenon, <1>1, <1>5, <1>14, RequestType
    <3>2. QED
      BY <3>1 DEF Answer, Told
  <2>3. ASSUME NEW t \in RenameTag PROVE respFifos'[t] \in Told
    <3>1. respFifos[t] \in Told /\ DOMAIN respFifos = RenameTag
      BY Zenon, <1>1 DEF WriteTypes
    <3>2. QED
      BY Zenon, <1>10, <2>2, <3>1
  <2>4. QED
    BY Zenon, <1>1, <1>5, <1>10, <1>13, <1>15, <2>1, <2>3 DEF WriteTypes, Told
<1>17. ChainInv(u, v)'
  <2>1. Moved' \in Nat /\ Moved <= Moved' /\ u <= Moved' + 1
    <3>1. u <= Moved + 1
      BY Zenon, <1>2 DEF ChainInv
    <3>2. QED
      BY <1>3, <1>5, <1>12, <3>1
  <2>2. ASSUME NEW i \in 1 .. l PROVE MovedBeat(memDataFifo[i])'
    <3>1. MovedBeat(memDataFifo[i])
      BY Zenon, <1>2, <1>3 DEF ChainInv
    <3>2. PICK m, k : m = memDataFifo[i].data[1] /\ k = memDataFifo[i].data[2]
      BY Zenon
    <3>3. /\ m \in 1 .. Len(req) /\ k \in 1 .. req[m].burstLen
          /\ m <= Moved \/ (m = Moved + 1 /\ k <= p)
      BY Zenon, <1>3, <3>1, <3>2 DEF MovedBeat
    <3>4. k \in Nat
      <4>1. req[m].burstLen \in Nat
        BY Zenon, <1>1, <3>3, RequestType
      <4>2. QED
        BY <3>3, <4>1
    <3>5. m <= Moved' \/ (m = Moved' + 1 /\ k <= Pos')
      BY <1>3, <1>5, <1>12, <3>3, <3>4
    <3>6. memDataFifo'[i] = memDataFifo[i]
      BY Zenon, <1>15
    <3>7. req' = req
      BY Zenon, <1>10
    <3>8. QED
      BY Zenon, <3>1, <3>2, <3>5, <3>6, <3>7 DEF MovedBeat, TagOf
  <2>3. MovedBeat(h)'
    <3>1. h.data[1] = n /\ h.data[2] = p + 1 /\ h.tag = TagOf(n) /\ h.last = (p + 1 = L)
      BY Zenon, <1>4
    <3>2. n <= Moved' \/ (n = Moved' + 1 /\ p + 1 <= Pos')
      BY <1>3, <1>5, <1>12
    <3>3. p + 1 \in 1 .. L
      BY <1>5
    <3>4. QED
      BY Zenon, <1>3, <1>5, <1>10, <3>1, <3>2, <3>3 DEF MovedBeat, TagOf
  <2>4. \A i \in 1 .. l + 1 : MovedBeat(memDataFifo[i])'
    <3> SUFFICES ASSUME NEW i \in 1 .. l + 1 PROVE MovedBeat(memDataFifo[i])'
      BY Zenon
    <3>1. CASE i \in 1 .. l
      BY Zenon, <2>2, <3>1 DEF MovedBeat
    <3>2. CASE i = l + 1
      BY Zenon, <1>15, <2>3, <3>2 DEF MovedBeat
    <3>3. QED
      BY <1>15, <3>1, <3>2
  <2>5. memDataFifo' # << >> /\ memDataFifo'[1].data = <<u, v + 1>>
    <3>1. memDataFifo' # << >>
      BY <1>15, Empty
    <3>2. CASE memDataFifo = << >>
      <4>1. u = n /\ v = p /\ l = 0
        BY Zenon, <1>2, <1>3, <3>2, Empty DEF ChainInv
      <4>2. QED
        BY <1>4, <1>15, <3>1, <4>1
    <3>3. CASE memDataFifo # << >>
      <4>1. 1 \in 1 .. l
        BY <1>1, <1>3, <1>15, <3>3, Empty DEF WriteTypes
      <4>2. QED
        BY Zenon, <1>2, <1>15, <3>1, <3>3, <4>1 DEF ChainInv
    <3>4. QED
      BY Zenon, <3>2, <3>3
  <2>6. ASSUME NEW i \in 1 .. l + 1
        PROVE  Follows(memDataFifo'[i].data,
                       IF i < l + 1 THEN memDataFifo'[i + 1].data ELSE <<Moved' + 1, Pos' + 1>>)
    <3>1. CASE i = l + 1
      <4>1. memDataFifo'[i].data = <<n, p + 1>> /\ ~(i < l + 1)
        BY <1>4, <1>15, <3>1
      <4>2. Follows(<<n, p + 1>>, <<Moved' + 1, Pos' + 1>>)
        <5>1. CASE p + 1 = L
          BY <1>3, <1>5, <5>1 DEF Follows
        <5>2. CASE p + 1 # L
          BY Zenon, <1>3, <1>5, <5>2 DEF Follows
        <5>3. QED
          BY Zenon, <5>1, <5>2
      <4>3. QED
        BY Zenon, <4>1, <4>2
    <3>2. CASE i = l
      <4>1. i \in 1 .. l /\ i < l + 1 /\ ~(i < l)
        BY <1>15, <3>2
      <4>2. Follows(memDataFifo[i].data, <<n, p + 1>>)
        BY Zenon, <1>2, <1>3, <4>1 DEF ChainInv
      <4>3. memDataFifo'[i] = memDataFifo[i] /\ memDataFifo'[i + 1].data = <<n, p + 1>>
        <5>1. h.data = <<n, p + 1>>
          BY Zenon, <1>4
        <5>2. QED
          BY Zenon, <1>15, <3>2, <4>1, <5>1
      <4>4. QED
        BY Zenon, <4>1, <4>2, <4>3
    <3>3. CASE i # l /\ i # l + 1
      <4>1. i \in 1 .. l /\ i + 1 \in 1 .. l /\ i < l /\ i < l + 1
        BY <1>15, <3>3
      <4>2. Follows(memDataFifo[i].data, memDataFifo[i + 1].data)
        BY Zenon, <1>2, <1>3, <4>1 DEF ChainInv
      <4>3. memDataFifo'[i] = memDataFifo[i] /\ memDataFifo'[i + 1] = memDataFifo[i + 1]
        BY Zenon, <1>15, <4>1
      <4>4. QED
        BY Zenon, <4>1, <4>2, <4>3
    <3>4. QED
      BY Zenon, <3>1, <3>2, <3>3
  <2>7. \A i \in 1 .. l + 1 :
          Follows(memDataFifo[i].data,
                  IF i < Len(memDataFifo) THEN memDataFifo[i + 1].data ELSE <<Moved + 1, Pos + 1>>)'
    BY Zenon, <1>10, <1>15, <2>6 DEF Follows
  <2>8. QED
    BY Zenon, <1>15, <2>1, <2>4, <2>5, <2>7 DEF ChainInv
<1>18. BusInv(u, v)' /\ RightData'
  <2>1. req' = req /\ bursts' = bursts
    BY Zenon, <1>10
  <2>2. BusInv(u, v)'
    BY Zenon, <1>2, <1>11, <2>1 DEF BusInv, TagOf
  <2>3. RightData'
    BY Zenon, <1>1, <2>1 DEF RightData
  <2>4. QED
    BY Zenon, <2>2, <2>3
<1>19. ReturnedInv'
  <2>1. Finished <= Moved'
    BY <1>1, <1>3, <1>5, <1>12 DEF ReturnedInv
  <2>2. QED
    BY Zenon, <1>1, <1>10, <1>11, <2>1 DEF ReturnedInv, TagOf
<1>20. RespInv'
  <2> SUFFICES ASSUME NEW m \in Taken + 1 .. Len(req), m <= Moved' \/ (m = Moved' + 1 /\ ~firstReg')
      PROVE  m \in lost \/ respFifos'[TagOf(m)] = Answer(m)
    BY Zenon, <1>1, <1>10, <1>11 DEF RespInv, Answer, TagOf
  <2>1. m \in Nat \ {0} /\ m <= n
    BY <1>3, <1>5, <1>12
  <2>2. CASE m = n
    <3>1. CASE firstReg
      BY Zenon, <1>1, <1>10, <1>14, <2>2, <3>1 DEF WriteTypes
    <3>2. CASE ~firstReg
      BY Zenon, <1>1, <1>3, <1>10, <2>2, <3>2 DEF RespInv
    <3>3. QED
      BY Zenon, <3>1, <3>2
  <2>3. CASE m # n
    <3>1. m < n /\ m <= Moved
      BY <1>3, <1>12, <2>1, <2>3
    <3>2. CASE n - m < numTags
      <4>1. TagOf(m) # TagOf(n)
        BY Zenon, <1>14, <2>1, <3>1, <3>2, TagsApart
      <4>2. m \in lost \/ respFifos[TagOf(m)] = Answer(m)
        BY Zenon, <1>1, <3>1 DEF RespInv
      <4>3. TagOf(m) \in RenameTag
        BY Zenon, <2>1, TagType DEF RenameTag
      <4>4. QED
        BY Zenon, <1>1, <1>10, <4>1, <4>2, <4>3 DEF WriteTypes
    <3>3. CASE ~(n - m < numTags)
      <4>1. /\ n <= Requested /\ Requested <= Translated /\ Translated \in Nat
            /\ Translated < Finished + numTags
        BY Zenon, <1>1, <1>3, BeatMoves, FrontCounts
      <4>2. m \in Taken + 1 .. Finished /\ m + numTags <= Translated
        BY <1>12, <1>14, <2>1, <3>3, <4>1, numTagsAssumption
      <4>3. QED
        BY Zenon, <1>1, <4>2 DEF RespInv
    <3>4. QED
      BY Zenon, <3>2, <3>3
  <2>4. QED
    BY Zenon, <2>2, <2>3
<1>21. DoneInv'
  BY Zenon, <1>1, <1>10, <1>11, DoneStays
<1>22. QED
  BY Zenon, <1>5, <1>11, <1>13, <1>16, <1>17, <1>18, <1>19, <1>20, <1>21 DEF WriteInv

-----------------------------------------------------------------------------
LEMMA WriteInitInv == WriteInit => WriteInv
<1> SUFFICES ASSUME WriteInit PROVE WriteInv
  BY Zenon
<1>1. /\ req = << >> /\ lreqFifo = << >> /\ mmu = [m \in Mmu |-> << >>] /\ reqFifo = << >>
      /\ next = 0 /\ issued = << >> /\ returned = {} /\ done = << >>
      /\ burstReg = 0 /\ firstReg = TRUE /\ lastReg = FALSE
      /\ dreqFifo = << >> /\ DOMAIN respFifos = RenameTag /\ respB = << >>
      /\ unwritten = [c \in Client |-> << >>] /\ clientWriteData = [c \in Client |-> << >>]
      /\ memDataFifo = << >> /\ bursts = << >> /\ told = 0
  BY Zenon DEF WriteInit, ServerInit, tag_gen!Init
<1>2. Len(<< >>) = 0 /\ \A S : << >> \in Seq(S)
  BY Zenon, Empty
<1>3. Translated = 0 /\ Requested = 0 /\ Finished = 0 /\ Taken = 0 /\ Moved = 0 /\ Pos = 0
  <2>1. Translated = 0
    BY <1>1, <1>2 DEF Translated
  <2>2. 0 - 0 = 0
    OBVIOUS
  <2>3. Requested = 0 /\ Finished = 0
    BY Zenon, <1>1, <1>2, <2>1, <2>2 DEF Requested, Finished
  <2>4. Taken = 0 /\ Moved = 0
    BY Zenon, <1>1, <1>2, <2>2, <2>3 DEF Taken, Moved
  <2>5. Pos = 0
    BY Zenon, <1>1, <1>2, <2>2, <2>4 DEF Pos
  <2>6. QED
    BY Zenon, <2>1, <2>3, <2>4, <2>5
<1>4. FrontInv
  <2>1. RequestTypes /\ RequestInv
    BY <1>1, <1>2, <1>3 DEF RequestTypes, RequestInv
  <2>2. MmuInv
    BY <1>1, <1>2, <1>3 DEF MmuInv
  <2>3. TagOf(0 + 1) = 0
    BY numTagsAssumption DEF TagOf
  <2>4. TagInv
    BY <1>1, <1>2, <1>3, <2>3, numTagsAssumption DEF TagInv
  <2>5. QED
    BY Zenon, <2>1, <2>2, <2>4 DEF FrontInv
<1>5. WriteTypes
  <2>1. /\ clientWriteData \in [Client -> Seq(Nat \X Nat)]
        /\ unwritten \in [Client -> Seq(Nat \X Nat)]
    BY Zenon, <1>1, <1>2
  <2>2. dreqFifo \in Seq([req : Nat, tag : Nat]) /\ memDataFifo \in Seq(WriteBeat) /\ bursts \in Seq(Burst)
    BY Zenon, <1>1, <1>2
  <2>3. firstReg \in BOOLEAN /\ lastReg \in BOOLEAN
    BY Zenon, <1>1
  <2>4. burstReg \in Int
    BY <1>1
  <2>5. \A t \in RenameTag : respFifos[t] \in Told
    <3>1. respFifos = [t \in RenameTag |-> NoResp]
      BY Zenon DEF WriteInit
    <3>2. NoResp \in Told
      BY DEF NoResp, Told
    <3>3. QED
      BY Zenon, <3>1, <3>2
  <2>6. QED
    BY Zenon, <1>1, <2>1, <2>2, <2>3, <2>4, <2>5 DEF WriteTypes
<1>6. MovedInv
  BY <1>1, <1>2, <1>3 DEF MovedInv
<1>7. StreamInv
  <2>1. \A c \in Client : AheadLen(c) = 0
    BY <1>1, <1>2 DEF AheadLen
  <2>2. \A c, n, k : ~Due(c, n, k)
    BY <1>1, <1>2 DEF Due
  <2>3. QED
    BY <2>1, <2>2 DEF StreamInv
<1>8. RightData
  BY <1>1 DEF RightData
<1>9. ChainInv(1, 0) /\ BusInv(1, 0)
  BY <1>1, <1>2, <1>3 DEF ChainInv, BusInv
<1>10. ReturnedInv /\ RespInv
  BY <1>1, <1>2, <1>3 DEF ReturnedInv, RespInv
<1>11. DoneInv
  BY <1>1, <1>2, <1>3 DEF DoneInv
<1>12. QED
  BY <1>4, <1>5, <1>6, <1>7, <1>8, <1>9, <1>10, <1>11 DEF WriteInv

LEMMA WriteStep == ASSUME WriteInv, [WriteNext]_memWriteVars PROVE WriteInv'
<1>1. CASE UNCHANGED memWriteVars
  BY Zenon, <1>1, WriteErrors DEF memWriteVars, serverVars, requestVars
<1>2. CASE write_loadClient_error
  BY Zenon, <1>2, WriteErrors DEF write_loadClient_error, loadClient_error
<1>3. CASE write_dmaError
  BY Zenon, <1>3, WriteErrors DEF write_dmaError, dmaError
<1>4. CASE \E c \in Client : \E a \in Asks[c] : write_loadClient(c, a)
  BY Zenon, <1>4, WriteLoads
<1>5. CASE write_checkMmuResp
  BY Zenon, <1>5, WriteChecks
<1>6. CASE writeReq_get
  BY Zenon, <1>6, WriteSends
<1>7. CASE \E c \in Client : clientdata(c)
  BY Zenon, <1>7, ClientHands
<1>8. CASE memdata
  BY Zenon, <1>8, BeatGoes
<1>9. CASE writeData_get
  BY Zenon, <1>9, BusTakes
<1>10. CASE \E i \in DOMAIN bursts : writeDone_put(i)
  BY Zenon, <1>10, BusWrites
<1>11. CASE write_tag_gen_step
  BY Zenon, <1>11, WriteFinishes
<1>12. CASE writeDoneComp0
  BY Zenon, <1>12, WriteTakes
<1>13. CASE writeDoneComp1
  BY Zenon, <1>13, WriteTells
<1>14. QED
  BY Zenon, <1>1, <1>2, <1>3, <1>4, <1>5, <1>6, <1>7, <1>8, <1>9, <1>10, <1>11, <1>12, <1>13 DEF WriteNext

LEMMA WriteInvRight == ASSUME WriteInv PROVE RightWrites
<1>1. /\ FrontInv /\ WriteTypes /\ RightData /\ ReturnedInv /\ DoneInv
  BY Zenon DEF WriteInv
<1>2. PICK k : k = Len(respB)
  BY Zenon
<1>3. /\ respB \in Seq(Told) /\ told \in Nat /\ told + k = Taken
      /\ \A i \in 1 .. k : told + i \in lost \/ respB[i] = Answer(told + i)
  BY Zenon, <1>1, <1>2 DEF DoneInv
<1>4. k \in Nat /\ DOMAIN respB = 1 .. k
  BY Zenon, <1>2, <1>3, Length
<1>5. /\ Len(req) \in Nat /\ Taken \in Nat /\ Finished \in Nat /\ Translated \in Nat
      /\ Taken <= Finished /\ Finished <= Translated /\ Translated <= Len(req)
  BY Zenon, <1>1, FrontCounts
<1>6. told + k <= Len(req)
  BY <1>3, <1>4, <1>5
<1>7. ASSUME NEW i \in 1 .. k
      PROVE  /\ told + i \in lost \/ respB[i] = [orig_tag |-> told + i, client |-> req[told + i].client]
             /\ \A b \in Range(bursts) : b.pa # told + i
  <2>1. told + i \in Nat /\ told + i <= Finished
    BY <1>3, <1>4, <1>5
  <2>2. ASSUME NEW b \in Range(bursts) PROVE b.pa # told + i
    <3>1. PICK j \in DOMAIN bursts : b = bursts[j]
      BY Zenon DEF Range
    <3>2. bursts[j] \in Burst
          /\ j \in 1 .. Len(bursts)
      BY Zenon, <1>1, Length, Element DEF WriteTypes
    <3>3. bursts[j].pa > Finished /\ bursts[j].pa \in Nat
      BY Zenon, <1>1, <3>2 DEF ReturnedInv, Burst
    <3>4. QED
      BY <1>5, <2>1, <3>1, <3>3
  <2>3. QED
    BY Zenon, <1>3, <2>1, <2>2 DEF Answer
<1>8. RightDone
  BY Zenon, <1>2, <1>4, <1>6, <1>7 DEF RightDone
<1>9. LossNeedsCrowd
  <2> SUFFICES ASSUME next \in Range(done), lreqFifo # << >> PROVE Len(req) - told > numTags
    BY Zenon DEF LossNeedsCrowd
  <2>1. /\ done \in Seq(Nat) /\ next = TagOf(Translated + 1)
        /\ \A i \in 1 .. Len(done) : done[i] = TagOf(Taken + i)
    BY Zenon, <1>1 DEF FrontInv, TagInv
  <2>2. PICK j \in DOMAIN done : done[j] = next
    BY Zenon DEF Range
  <2>3. j \in 1 .. Len(done) /\ Len(done) \in Nat
    BY Zenon, <2>1, Length
  <2>4. PICK m : m = Taken + j
    BY Zenon
  <2>5. Taken = Finished - Len(done)
    BY Zenon DEF Taken
  <2>6. m \in Nat \ {0} /\ m <= Finished /\ m < Translated + 1 /\ Translated + 1 \in Nat \ {0}
    BY <1>5, <2>3, <2>4, <2>5
  <2>7. TagOf(m) = TagOf(Translated + 1)
    BY Zenon, <2>1, <2>2, <2>3, <2>4
  <2>8. ~((Translated + 1) - m < numTags)
    <3>1. PICK q : q = Translated + 1
      BY Zenon
    <3>2. q \in Nat \ {0} /\ m < q /\ TagOf(m) = TagOf(q)
      BY Zenon, <2>6, <2>7, <3>1
    <3>3. ASSUME q - m < numTags PROVE TagOf(m) # TagOf(q)
      BY Zenon, <2>6, <3>2, <3>3, TagsApart
    <3>4. QED
      BY Zenon, <3>1, <3>2, <3>3
  <2>9. Len(lreqFifo) > 0 /\ Len(lreqFifo) \in Nat
    BY <1>1, Empty DEF FrontInv, RequestTypes
  <2>10. Len(req) >= Translated + 1
    BY <1>5, <2>9 DEF Translated
  <2>11. QED
    BY <1>3, <1>4, <1>5, <2>3, <2>4, <2>6, <2>8, <2>10, numTagsAssumption
<1>10. QED
  BY Zenon, <1>1, <1>8, <1>9 DEF RightWrites

\* Memory gets every burst's own data, in order and with the tag and the mark of the
\* burst; every client is told of its own bursts, in order and once memory has them, but
\* for those whose tag tag_gen issued again before they were told of; and that takes more
\* unanswered requests than there are tags. For any clients, MMUs, burst lengths, depths
\* and number of tags, and however many requests are made (mkMemWriteInternal).
THEOREM WritesRight == WriteSpec => []RightWrites
<1>1. WriteInit => WriteInv
  BY Zenon, WriteInitInv
<1>2. WriteInv /\ [WriteNext]_memWriteVars => WriteInv'
  BY Zenon, WriteStep
<1>3. WriteInv => RightWrites
  BY Zenon, WriteInvRight
<1>4. QED
  BY <1>1, <1>2, <1>3, PTL DEF WriteSpec
=============================================================================
