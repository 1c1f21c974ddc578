----------------------------- MODULE DriverProofs -----------------------------
(***************************************************************************)
(* Proofs about the drivers as modelled in PortalMem and ZynqDriver, for   *)
(* any number of callers, processes, openings and portals.                 *)
(***************************************************************************)
EXTENDS ZynqDriver, PortalMem, FiniteSetTheorems, TLAPS

\* The SMT solver gets half a minute for a leaf; a leaf for Zenon says so.
USE SMTT(30)

-----------------------------------------------------------------------------
\* The buffers of portalmem.

\* The callers that are in an access.
Begun == {c \in Caller : access[c] = "begun"}

\* There are finitely many of them.
LEMMA BegunFinite == IsFiniteSet(Begun) /\ Cardinality(Begun) \in Nat
<1>1. Begun \subseteq Caller
  BY Zenon DEF Begun
<1>2. QED
  BY Zenon, <1>1, CallerAssumption, FS_Subset, FS_CardinalityType

\* No buffer, no reference and no access at first.
LEMMA BufferStart == MemInit => BufferInv
<1> SUFFICES ASSUME MemInit PROVE BufferInv
  BY Zenon
<1>1. buffer.state = "none" /\ ~create.running
  BY Zenon DEF MemInit, NoBuffer, NoCreate
<1>2. Begun = {}
  BY Zenon DEF MemInit, Begun
<1>3. Cardinality(Begun) = 0
  BY Zenon, <1>2, FS_EmptySet
<1>4. MappedInAccess
  BY <1>3 DEF MemInit, MappedInAccess, Begun
<1>5. QED
  BY <1>1, <1>4 DEF MemInit, BufferInv, BuffersKept, ReleasesExact

\* Steps that leave the kernel mapping, the accesses and the references alone.
LEMMA BufferOther ==
  ASSUME BufferInv,
         \/ \E len \in Lengths : create_enter(len)
         \/ create_block \/ create_fail \/ dma_buf_export_fail \/ dma_buf_fd_fail
         \/ \E pgoff, n : pa_dma_buf_mmap(pgoff, n)
         \/ access_destroyed
         \/ UNCHANGED memVars
  PROVE  BufferInv'
<1>1. UNCHANGED <<buffer, kmap_cnt, vaddr, access, vmaps, frees, fds, destroys>>
  BY ZenonT(60) DEF create_enter, create_block, create_fail, dma_buf_export_fail, dma_buf_fd_fail, Undone,
     pa_dma_buf_mmap, access_destroyed, memVars, kernelVars, lifeVars
<1>2. create'.running => buffer.state = "none"
  BY ZenonT(60) DEF create_enter, create_block, create_fail, dma_buf_export_fail, dma_buf_fd_fail, Undone,
     pa_dma_buf_mmap, access_destroyed, memVars, NoCreate, BufferInv
<1>3. BuffersKept'
  BY Zenon, <1>1 DEF BufferInv, BuffersKept, MappedInAccess, ReleasesExact, Live
<1>4. QED
  BY Zenon, <1>1, <1>2, <1>3 DEF BufferInv

\* A new buffer has one reference and no mapping, and nobody is in an access.
LEMMA BufferCreated == BufferInv /\ create_end => BufferInv'
<1> SUFFICES ASSUME BufferInv, create_end PROVE BufferInv'
  BY Zenon
<1>1. buffer.state = "none" /\ buffer'.state = "made" /\ ~create'.running /\ fds' = 1
  BY Zenon DEF create_end, NoCreate, BufferInv
<1>2. UNCHANGED <<kmap_cnt, vaddr, access, vmaps, frees, destroys>>
  BY Zenon DEF create_end, kernelVars
<1>3. /\ frees = 0 /\ destroys = 0 /\ kmap_cnt = 0 /\ vmaps = 0
      /\ \A c \in Caller : access[c] = "none"
  BY Zenon, <1>1 DEF BufferInv
<1>4. Begun = {}
  BY Zenon, <1>3 DEF Begun
<1>5. Cardinality(Begun) = 0
  BY Zenon, <1>4, FS_EmptySet
<1>6. kmap_cnt = Cardinality(Begun) + vmaps
  BY <1>3, <1>5
<1>7. MappedInAccess'
  BY Zenon, <1>2, <1>6 DEF BufferInv, BuffersKept, MappedInAccess, Begun
<1>8. ReleasesExact'
  BY <1>1, <1>2, <1>3 DEF ReleasesExact
<1>9. fds' \in Nat /\ buffer'.state # "none"
  BY <1>1
<1>10. QED
  BY Zenon, <1>1, <1>2, <1>7, <1>8, <1>9 DEF BufferInv, BuffersKept

\* What an access changes keeps the invariant when the count stays right.
LEMMA AccessKeeps ==
  ASSUME BufferInv, Live, UNCHANGED <<create, buffer, frees, fds, destroys>>,
         kmap_cnt' \in Nat, vmaps' \in Nat, access' \in [Caller -> {"none", "begun", "vmapped"}],
         vaddr' <=> kmap_cnt' > 0,
         kmap_cnt' = Cardinality(Begun') + vmaps'
  PROVE  BufferInv'
<1>1. buffer.state = "made" /\ buffer.state # "none"
  BY Zenon DEF Live
<1>2. MappedInAccess'
  BY Zenon DEF MappedInAccess, Begun
<1>3. ReleasesExact'
  BY Zenon DEF BufferInv, BuffersKept, ReleasesExact
<1>4. QED
  BY Zenon, <1>1, <1>2, <1>3 DEF BufferInv, BuffersKept

\* Every access that begins is counted in kmap_cnt, and so is every vmap.
LEMMA AccessBegins ==
  ASSUME BufferInv, NEW c \in Caller, NEW as \in {"begun", "vmapped"}, begin_cpu_access(c, as)
  PROVE  BufferInv'
<1>1. Live /\ UNCHANGED <<create, buffer, frees, fds, destroys>> /\ access[c] = "none"
  BY Zenon DEF begin_cpu_access, lifeVars
<1>2. /\ kmap_cnt \in Nat /\ vmaps \in Nat /\ (vaddr <=> kmap_cnt > 0)
      /\ kmap_cnt = Cardinality(Begun) + vmaps /\ access \in [Caller -> {"none", "begun", "vmapped"}]
  BY Zenon, <1>1 DEF BufferInv, BuffersKept, MappedInAccess, Begun
<1>3. CASE UNCHANGED <<vaddr, kmap_cnt, access, vmaps>>
  <2>1. Begun' = Begun
    BY Zenon, <1>3 DEF Begun
  <2>2. kmap_cnt' = Cardinality(Begun') + vmaps'
    BY Zenon, <1>2, <1>3, <2>1
  <2>3. (vaddr' <=> kmap_cnt' > 0) /\ kmap_cnt' \in Nat /\ vmaps' \in Nat
    BY Zenon, <1>2, <1>3
  <2>4. QED
    BY Zenon, <1>1, <1>2, <1>3, <2>2, <2>3, AccessKeeps
<1>4. CASE /\ vaddr' = TRUE /\ kmap_cnt' = kmap_cnt + 1 /\ access' = [access EXCEPT ![c] = as]
           /\ vmaps' = IF as = "vmapped" THEN vmaps + 1 ELSE vmaps
  <2>1. access' \in [Caller -> {"none", "begun", "vmapped"}]
    BY Zenon, <1>2, <1>4
  <2>0. kmap_cnt \in Nat /\ vmaps \in Nat /\ kmap_cnt' = kmap_cnt + 1 /\ vmaps' \in {vmaps, vmaps + 1}
    BY Zenon, <1>2, <1>4
  <2>2. kmap_cnt' \in Nat /\ kmap_cnt' > 0 /\ vmaps' \in Nat
    BY <2>0
  <2>3. (vaddr' <=> kmap_cnt' > 0)
    BY Zenon, <1>4, <2>2
  <2>4. CASE as = "begun"
    <3>1. Begun' = Begun \cup {c} /\ c \notin Begun
      BY Zenon, <1>1, <1>2, <1>4, <2>4 DEF Begun
    <3>2. Cardinality(Begun') = Cardinality(Begun) + 1
      BY Zenon, <3>1, BegunFinite, FS_AddElement
    <3>3. vmaps' = vmaps
      BY Zenon, <1>4, <2>4
    <3> DEFINE n == Cardinality(Begun)
    <3>4. n \in Nat /\ kmap_cnt = n + vmaps /\ Cardinality(Begun') = n + 1
      BY Zenon, <1>2, <3>2, BegunFinite
    <3>5. kmap_cnt' = (n + 1) + vmaps'
      <4> HIDE DEF n
      <4>1. QED
        BY <2>0, <3>3, <3>4
    <3>6. kmap_cnt' = Cardinality(Begun') + vmaps'
      BY Zenon, <3>4, <3>5
    <3>7. QED
      BY Zenon, <1>1, <2>1, <2>2, <2>3, <3>6, AccessKeeps
  <2>5. CASE as = "vmapped"
    <3>1. Begun' = Begun
      BY Zenon, <1>1, <1>2, <1>4, <2>5 DEF Begun
    <3>2. vmaps' = vmaps + 1
      BY Zenon, <1>4, <2>5
    <3>3. Cardinality(Begun') = Cardinality(Begun)
      BY Zenon, <3>1
    <3> DEFINE n == Cardinality(Begun)
    <3>4. n \in Nat /\ kmap_cnt = n + vmaps /\ Cardinality(Begun') = n
      BY Zenon, <1>2, <3>3, BegunFinite
    <3>5. kmap_cnt' = n + vmaps'
      <4> HIDE DEF n
      <4>1. QED
        BY <2>0, <3>2, <3>4
    <3>6. kmap_cnt' = Cardinality(Begun') + vmaps'
      BY Zenon, <3>4, <3>5
    <3>7. QED
      BY Zenon, <1>1, <2>1, <2>2, <2>3, <3>6, AccessKeeps
  <2>6. QED
    BY Zenon, <2>4, <2>5
<1>5. QED
  BY Zenon, <1>3, <1>4 DEF begin_cpu_access

\* The mapping goes with the last access that end_cpu_access ends.
LEMMA AccessEnds == ASSUME BufferInv, NEW c \in Caller, end_cpu_access(c) PROVE BufferInv'
<1>1. Live /\ UNCHANGED <<create, buffer, frees, fds, destroys>> /\ access[c] = "begun"
  BY Zenon DEF end_cpu_access, lifeVars
<1>2. /\ kmap_cnt \in Nat /\ vmaps \in Nat /\ (vaddr <=> kmap_cnt > 0)
      /\ kmap_cnt = Cardinality(Begun) + vmaps /\ access \in [Caller -> {"none", "begun", "vmapped"}]
  BY Zenon, <1>1 DEF BufferInv, BuffersKept, MappedInAccess, Begun
<1>3. /\ kmap_cnt' = kmap_cnt - 1 /\ (vaddr' <=> vaddr /\ kmap_cnt # 1) /\ vmaps' = vmaps
      /\ access' = [access EXCEPT ![c] = "none"]
  BY Zenon DEF end_cpu_access
<1>4. access' \in [Caller -> {"none", "begun", "vmapped"}] /\ Begun' = Begun \ {c} /\ c \in Begun
  BY Zenon, <1>1, <1>2, <1>3 DEF Begun
<1>5. Cardinality(Begun') = Cardinality(Begun) - 1 /\ Cardinality(Begun) # 0
  BY Zenon, <1>4, BegunFinite, FS_RemoveElement, FS_EmptySet
<1>6. kmap_cnt' \in Nat /\ vmaps' \in Nat /\ kmap_cnt' = Cardinality(Begun') + vmaps'
  BY <1>2, <1>3, <1>5, BegunFinite
<1>7. kmap_cnt > 0 /\ (kmap_cnt' > 0 <=> kmap_cnt # 1)
  BY <1>2, <1>3, <1>5, BegunFinite
<1>8. (vaddr' <=> kmap_cnt' > 0)
  BY Zenon, <1>2, <1>3, <1>7
<1>9. QED
  BY Zenon, <1>1, <1>4, <1>6, <1>8, AccessKeeps

\* pa_dma_buf_vunmap leaves the mapping.
LEMMA AccessLeaves == ASSUME BufferInv, NEW c \in Caller, vunmap(c) PROVE BufferInv'
<1>1. /\ UNCHANGED <<create, buffer, frees, fds, destroys, kmap_cnt, vaddr, vmaps>>
      /\ access[c] = "vmapped" /\ access' = [access EXCEPT ![c] = "none"]
  BY Zenon DEF vunmap, lifeVars
<1>2. access' \in [Caller -> {"none", "begun", "vmapped"}] /\ Begun' = Begun
  BY Zenon, <1>1 DEF BufferInv, Begun
<1>3. buffer.state # "none"
  BY Zenon, <1>1 DEF BufferInv
<1>4. MappedInAccess'
  BY Zenon, <1>1, <1>2 DEF BufferInv, BuffersKept, MappedInAccess, Begun, Live
<1>5. ReleasesExact'
  BY Zenon, <1>1 DEF BufferInv, BuffersKept, ReleasesExact
<1>6. QED
  BY Zenon, <1>1, <1>2, <1>3, <1>4, <1>5 DEF BufferInv, BuffersKept

\* References come and go, and every release is counted.
LEMMA BufferReleased ==
  BufferInv /\ (dup \/ close_fd \/ portalmem_dmabuffer_destroy) => BufferInv'
<1> SUFFICES ASSUME BufferInv, dup \/ close_fd \/ portalmem_dmabuffer_destroy PROVE BufferInv'
  BY Zenon
<1>1. UNCHANGED <<create, buffer, kmap_cnt, vaddr, access, vmaps>>
  BY Zenon DEF dup, close_fd, portalmem_dmabuffer_destroy, kernelVars
<1>2. fds \in Nat /\ frees \in Nat /\ destroys \in Nat
  BY Zenon DEF BufferInv
<1>3. fds > 0
  BY <1>2 DEF dup, close_fd, portalmem_dmabuffer_destroy
<1>4. buffer.state = "made" /\ buffer.state # "none"
  BY <1>3 DEF BufferInv
<1>5. frees = destroys
  BY <1>2, <1>3, <1>4 DEF BufferInv, BuffersKept, ReleasesExact
<1>6. /\ fds' \in Nat /\ frees' \in Nat /\ destroys' \in Nat
      /\ frees' = destroys' + (IF fds' = 0 THEN 1 ELSE 0)
      /\ frees' = 0 => frees = 0
  <2>1. CASE dup
    BY <1>2, <1>5, <2>1 DEF dup
  <2>2. CASE close_fd /\ fds = 1
    BY <1>2, <1>5, <2>2 DEF close_fd, pa_buffer_free
  <2>3. CASE close_fd /\ fds # 1
    BY <1>2, <1>3, <1>5, <2>3 DEF close_fd
  <2>4. CASE portalmem_dmabuffer_destroy
    BY <1>2, <1>3, <1>5, <2>4 DEF portalmem_dmabuffer_destroy, pa_buffer_free
  <2>5. QED
    BY Zenon, <2>1, <2>2, <2>3, <2>4
<1>7. MappedInAccess'
  BY Zenon, <1>1, <1>6 DEF BufferInv, BuffersKept, MappedInAccess, Live
<1>8. ReleasesExact'
  BY Zenon, <1>6 DEF ReleasesExact
<1>9. QED
  BY Zenon, <1>1, <1>4, <1>6, <1>7, <1>8 DEF BufferInv, BuffersKept

\* Whatever callers share a buffer, it has its kernel mapping while it is counted, and
\* counted are the accesses and the vmaps; and it is released once for its last
\* reference and once for every portalmem_dmabuffer_destroy.
THEOREM BuffersAreKept == MemSpec => []BuffersKept
<1>1. BufferInv /\ [MemNext]_memVars => BufferInv'
  <2> SUFFICES ASSUME BufferInv, [MemNext]_memVars PROVE BufferInv'
    BY Zenon
  <2>1. CASE \E c \in Caller : begin_cpu_access(c, "begun") \/ begin_cpu_access(c, "vmapped")
                               \/ end_cpu_access(c) \/ vunmap(c)
    BY Zenon, <2>1, AccessBegins, AccessEnds, AccessLeaves
  <2>2. CASE dup \/ close_fd \/ portalmem_dmabuffer_destroy
    BY Zenon, <2>2, BufferReleased
  <2>3. CASE create_end
    BY Zenon, <2>3, BufferCreated
  <2>4. QED
    BY Zenon, <2>1, <2>2, <2>3, BufferOther DEF MemNext
<1>2. BufferInv => BuffersKept
  BY Zenon DEF BufferInv
<1>3. QED
  BY <1>1, <1>2, BufferStart, PTL DEF MemSpec

-----------------------------------------------------------------------------
\* The portals of zynqportal.

\* No portal is the one that stands for a file that is not open.
LEMMA NoneNoPortal == None \notin Gen \X Number
BY MaxGenAssumption DEF None, Gen, Number

\* The shapes of the variables.
LEMMA ZynqTyped == ZynqTypes /\ [ZynqNext]_zynqVars => ZynqTypes'
<1> SUFFICES ASSUME ZynqTypes, [ZynqNext]_zynqVars PROVE ZynqTypes'
  BY Zenon
<1> USE NumPortalsAssumption, MaxGenAssumption
<1>1. ASSUME Forget PROVE irq' \subseteq Gen \X Number
  BY Zenon, <1>1 DEF Forget, remove_portal_devices, ZynqTypes
<1>2. CASE connectal_open
  <2>1. gens' \in 0 .. MaxGen /\ gens' = gens + 1
    BY <1>2 DEF connectal_open, ZynqTypes
  <2>2. current' \in {current, 0, gens + 1}
    BY Zenon, <1>2 DEF connectal_open
  <2>3. current' \in 0 .. gens'
    BY <2>1, <2>2 DEF ZynqTypes
  <2>4. wq' \in BOOLEAN
    BY Zenon, <1>2 DEF connectal_open, ZynqTypes
  <2>5. queued' \in BOOLEAN
    BY Zenon, <1>2 DEF connectal_open, ZynqTypes
  <2>6. QED
    BY Zenon, <1>1, <1>2, <2>1, <2>3, <2>4, <2>5 DEF connectal_open, fileVars, ZynqTypes
<1>3. CASE connectal_of_remove
  BY Zenon, <1>1, <1>3 DEF connectal_of_remove, workVars, fileVars, ZynqTypes
<1>4. CASE connectal_work_start
  <2>1. queued' \in BOOLEAN
    BY ZenonT(60), <1>4 DEF connectal_work_start
  <2>2. running' \in -1 .. NumPortals - 1
    BY <1>4 DEF connectal_work_start
  <2>3. QED
    BY Zenon, <1>4, <2>1, <2>2 DEF connectal_work_start, fileVars, ZynqTypes
<1>5. CASE connectal_work_handler
  <2>1. running' \in -1 .. NumPortals - 1
    BY <1>5 DEF connectal_work_handler, ZynqTypes
  <2>2. QED
    BY Zenon, <1>5, <2>1 DEF connectal_work_handler, fileVars, ZynqTypes
<1>6. CASE connectal_of_probe \/ cancel_delayed_work_sync \/ UNCHANGED zynqVars
  BY ZenonT(60), <1>6 DEF connectal_of_probe, cancel_delayed_work_sync, zynqVars, workVars, fileVars, ZynqTypes
<1>7. ASSUME NEW q \in Proc, enable_interrupt(q) PROVE ZynqTypes'
  BY Zenon, <1>7 DEF enable_interrupt, workVars, ZynqTypes
<1>8. ASSUME NEW q \in Proc, portal_poll(q) \/ portal_release(q) PROVE ZynqTypes'
  BY Zenon, <1>8 DEF portal_poll, portal_release, workVars, ZynqTypes
<1>9. ASSUME NEW d \in Gen \X Number, portal_isr(d) PROVE ZynqTypes'
  BY Zenon, <1>9 DEF portal_isr, workVars, ZynqTypes
<1>10. ASSUME NEW d \in Gen \X Number, NEW q \in Proc, portal_open(q, d) PROVE ZynqTypes'
  BY Zenon, <1>10 DEF portal_open, workVars, ZynqTypes
<1>11. QED
  BY Zenon, <1>2, <1>3, <1>4, <1>5, <1>6, <1>7, <1>8, <1>9, <1>10 DEF ZynqNext

\* Registered portals are of the current generation, which is not freed.
LEMMA RegisteredIsCurrent ==
  ASSUME CarefulInv, NEW d \in misc
  PROVE  driver = "on" /\ current # 0 /\ d[1] = current /\ current \notin freed
<1>1. d \in Registered
  BY Zenon DEF CarefulInv
<1>2. driver = "on" /\ current # 0 /\ d[1] = current
  BY <1>1 DEF Registered
<1>3. QED
  BY Zenon, <1>2 DEF CarefulInv

\* What remove_portal_devices does for connectal_open and connectal_of_remove: with no
\* work pending it leaves no portal and no interrupt, and errs only after a failure; with
\* work pending it deregisters a portal the work has not come to.
LEMMA ForgetAll ==
  ASSUME ZynqTypes, CarefulInv, Sane, driver = "on", Forget
  PROVE  /\ freed' = freed \cup (IF current = 0 THEN {} ELSE {current})
         /\ misuse' \subseteq {"irq0", "freed", "deregister"}
         /\ "freed" \in misuse' => "resources" \in failed
         /\ ~WorkPending => misc' = {} /\ irq' = {} /\ ("deregister" \in misuse' => Missing)
         /\ WorkPending /\ current # 0 => "deregister" \in misuse'
<1> USE NumPortalsAssumption
<1>1. CASE current = 0
  <2>1. misc = {} /\ irq = {}
    BY Zenon, <1>1, RegisteredIsCurrent DEF CarefulInv
  <2>2. UNCHANGED <<misc, irq, freed, misuse>>
    BY Zenon, <1>1 DEF Forget
  <2>3. QED
    BY Zenon, <1>1, <2>1, <2>2 DEF Sane
<1>2. CASE current # 0
  <2> DEFINE visited == IF current \in topped THEN 0 .. NumPortals - 1 ELSE Number
             gone == {<<current, p>> : p \in visited}
  <2>1. /\ misc' = misc \ gone /\ irq' = irq \ gone /\ freed' = freed \cup {current}
        /\ misuse' = misuse \cup (IF gone \subseteq misc THEN {} ELSE {"deregister"})
                            \cup (IF current \in freed THEN {"freed"} ELSE {})
    BY Zenon, <1>2 DEF Forget, remove_portal_devices
  <2>2. ("freed" \in misuse' => "resources" \in failed) /\ misuse' \subseteq {"irq0", "freed", "deregister"}
    BY Zenon, <2>1 DEF Sane, CarefulInv
  <2>3. ASSUME ~WorkPending
        PROVE  misc' = {} /\ irq' = {} /\ ("deregister" \in misuse' => Missing)
    <3>1. Registered = {<<current, p>> : p \in 0 .. NumPortals - 1}
      BY Zenon, <1>2, <2>3 DEF Registered, WorkPending
    <3>2. 0 .. NumPortals - 1 \subseteq visited
      BY DEF Number
    <3>3. misc \subseteq gone
      <4>1. \A p \in 0 .. NumPortals - 1 : <<current, p>> \in gone
        BY Zenon, <3>2
      <4>2. QED
        BY Zenon, <3>1, <4>1 DEF CarefulInv
    <3>4. irq \subseteq misc
      BY Zenon DEF CarefulInv
    <3>5. ASSUME ~Missing PROVE gone \subseteq misc
      <4>1. misc = Registered /\ current \in topped
        BY Zenon, <1>2, <2>3, <3>5 DEF CarefulInv
      <4>2. QED
        BY Zenon, <3>1, <4>1
    <3>6. "deregister" \in misuse' => ~(gone \subseteq misc)
      BY Zenon, <2>1 DEF Sane
    <3>7. QED
      BY Zenon, <2>1, <3>3, <3>4, <3>5, <3>6
  <2>4. ASSUME WorkPending PROVE "deregister" \in misuse'
    <3>1. current \notin topped
      BY Zenon, <2>4 DEF CarefulInv
    <3>2. PICK p \in Number : <<current, p>> \notin Registered
      <4>1. CASE queued
        <5>1. Registered = {} /\ 0 \in Number
          BY <4>1 DEF Registered, Number
        <5>2. QED
          BY Zenon, <5>1
      <4>2. CASE ~queued
        <5>1. running \in Number /\ running # -1 /\ running \notin 0 .. running - 1
          BY <2>4, <4>2 DEF WorkPending, ZynqTypes, Number
        <5>2. Registered = {<<current, x>> : x \in 0 .. running - 1}
          BY Zenon, <1>2, <4>2, <5>1 DEF Registered
        <5>3. <<current, running>> \notin Registered
          BY <5>1, <5>2
        <5>4. QED
          BY Zenon, <5>1, <5>3
      <4>3. QED
        BY Zenon, <4>1, <4>2
    <3>3. <<current, p>> \in gone /\ <<current, p>> \notin misc
      BY Zenon, <3>1, <3>2 DEF CarefulInv
    <3>4. QED
      BY Zenon, <2>1, <3>3
  <2>5. QED
    BY Zenon, <1>2, <2>1, <2>2, <2>3, <2>4
<1>3. QED
  BY Zenon, <1>1, <1>2

\* The files after remove_portal_devices: all are of freed generations.
LEMMA FilesForgotten ==
  ASSUME ZynqTypes, CarefulInv, driver = "on",
         freed' = freed \cup (IF current = 0 THEN {} ELSE {current}),
         rash' = rash \cup InUse,
         NEW q \in Proc, file[q] # None
  PROVE  file[q][1] \in freed' /\ "files" \in rash'
<1>1. "files" \in rash'
  BY Zenon DEF InUse
<1>2. CASE file[q] \in misc
  BY Zenon, <1>1, <1>2, RegisteredIsCurrent
<1>3. CASE file[q] \notin misc
  BY Zenon, <1>1, <1>3 DEF CarefulInv
<1>4. QED
  BY Zenon, <1>2, <1>3

\* The steps of processes with their files.
LEMMA FileSteps ==
  ASSUME ZynqTypes, CarefulInv,
         UNCHANGED <<driver, current, freed, gens, ws, queued, running, topped, misc, rash, failed>>,
         \A q \in Proc : file'[q] # None => file'[q] \in misc \/ file'[q] = file[q],
         \A d \in irq' : d \in misc /\ OpenOn(d)' # {}
  PROVE  CarefulInv'
<1>1. Registered' = Registered /\ (Missing' <=> Missing) /\ (WorkPending' <=> WorkPending)
  BY Zenon DEF Registered, Missing, WorkPending
<1>2. \A q \in Proc : file'[q] # None => file'[q] \in misc \/ (file'[q][1] \in freed /\ "files" \in rash)
  BY Zenon DEF CarefulInv
<1>3. QED
  BY Zenon, <1>1, <1>2 DEF CarefulInv

\* A file whose portal is freed was open when /dev/connectal was opened.
LEMMA FreedFile ==
  ASSUME CarefulInv, NEW q \in Proc, file[q] # None, file[q][1] \in freed
  PROVE  "files" \in rash
BY Zenon, RegisteredIsCurrent DEF CarefulInv

\* connectal_open.
LEMMA OpenKeeps ==
  ASSUME ZynqTypes, CarefulInv, Sane, "work" \notin rash, connectal_open
  PROVE  MisuseHasCause' /\ OvertakenIsLost' /\ (Sane' /\ "work" \notin rash' => CarefulInv')
<1>1. driver = "on" /\ Forget /\ rash' = rash \cup InUse /\ failed \subseteq failed'
  BY Zenon DEF connectal_open
<1>2. /\ freed' = freed \cup (IF current = 0 THEN {} ELSE {current})
      /\ misuse' \subseteq {"irq0", "freed", "deregister"}
      /\ "freed" \in misuse' => "resources" \in failed
      /\ ~WorkPending => misc' = {} /\ irq' = {} /\ ("deregister" \in misuse' => Missing)
      /\ WorkPending /\ current # 0 => "deregister" \in misuse'
  BY Zenon, <1>1, ForgetAll
<1>3. CASE WorkPending
  <2>1. "work" \in rash'
    BY Zenon, <1>1, <1>3 DEF InUse
  <2>2. "memory" \notin failed' => current # 0
    BY Zenon, <1>1, <1>3 DEF CarefulInv
  <2>3. QED
    BY Zenon, <1>2, <1>3, <2>1, <2>2 DEF MisuseHasCause, OvertakenIsLost
<1>4. CASE ~WorkPending
  <2>1. "work" \notin rash' /\ ~queued /\ running = -1
    BY Zenon, <1>1, <1>4 DEF InUse, WorkPending
  <2>2. MisuseHasCause' /\ OvertakenIsLost'
    <3>1. Missing => Missing'
      BY Zenon, <1>1 DEF Missing
    <3>2. "null" \notin misuse' /\ "register" \notin misuse'
      BY Zenon, <1>2
    <3>3. "deregister" \in misuse' => Missing'
      BY Zenon, <1>2, <1>4, <3>1
    <3>4. "freed" \in misuse' => "resources" \in failed'
      BY Zenon, <1>1, <1>2
    <3>5. QED
      BY Zenon, <2>1, <3>2, <3>3, <3>4 DEF MisuseHasCause, OvertakenIsLost, Missing
  <2>3. /\ driver' = "on" /\ running' = -1 /\ topped' = topped /\ file' = file /\ gens' = gens + 1
        /\ misc' = {} /\ irq' = {}
    BY Zenon, <1>1, <1>2, <1>4, <2>1 DEF connectal_open, fileVars
  <2>4. freed \cup topped \subseteq 1 .. gens /\ gens \in Nat /\ current \in 0 .. gens
    <3>1. freed \cup topped \subseteq 1 .. gens /\ current \in 0 .. gens /\ gens \in 0 .. MaxGen
      BY Zenon DEF CarefulInv, ZynqTypes
    <3>2. QED
      BY <3>1, MaxGenAssumption
  <2>5. freed' \cup topped' \subseteq 1 .. gens /\ freed' \cup topped' \subseteq 1 .. gens'
    BY <1>2, <2>3, <2>4
  <2>6. \A q \in Proc : file'[q] # None => file'[q][1] \in freed' /\ "files" \in rash'
    BY Zenon, <1>1, <1>2, <2>3, FilesForgotten
  <2>7. CASE failed' = failed \cup {"resources"} /\ UNCHANGED <<ws, current, queued, wq>>
    <3>1. "resources" \in failed' /\ Missing' /\ ~WorkPending'
      BY Zenon, <2>1, <2>3, <2>7 DEF Missing, WorkPending
    <3>2. QED
      BY Zenon, <2>1, <2>2, <2>3, <2>5, <2>6, <2>7, <3>1 DEF CarefulInv, WorkPending
  <2>8. ASSUME NEW drvdata \in {0, gens + 1}, ws' = drvdata, current' = drvdata,
               queued' = (queued \/ wq'),
               failed' = failed \cup (IF drvdata = 0 THEN {"memory"} ELSE {})
                                \cup (IF wq' THEN {} ELSE {"workqueue"})
        PROVE  CarefulInv'
    <3>1. current' \notin freed' \cup topped'
      <4>1. current' \notin 1 .. gens
        BY <2>4, <2>8
      <4>2. QED
        BY Zenon, <2>5, <4>1
    <3>2. current' = 0 => "memory" \in failed'
      BY Zenon, <2>8
    <3>3. ~Missing' => queued'
      BY Zenon, <2>8 DEF Missing
    <3>4. ~Missing' => Registered' = {} /\ WorkPending'
      BY Zenon, <3>3 DEF Registered, WorkPending
    <3>5. WorkPending' => driver' = "on" /\ ws' = current'
      BY Zenon, <2>3, <2>8
    <3>6. QED
      BY Zenon, <2>3, <2>5, <2>6, <3>1, <3>2, <3>4, <3>5 DEF CarefulInv
  <2>9. QED
    BY Zenon, <2>2, <2>7, <2>8 DEF connectal_open
<1>5. QED
  BY Zenon, <1>3, <1>4

\* connectal_of_remove.
LEMMA RemovePortalsKeeps ==
  ASSUME ZynqTypes, CarefulInv, Sane, "work" \notin rash, connectal_of_remove
  PROVE  MisuseHasCause' /\ OvertakenIsLost' /\ (Sane' /\ "work" \notin rash' => CarefulInv')
<1>1. driver = "on" /\ Forget /\ rash' = rash \cup InUse /\ failed' = failed
  BY Zenon DEF connectal_of_remove
<1>2. /\ freed' = freed \cup (IF current = 0 THEN {} ELSE {current})
      /\ misuse' \subseteq {"irq0", "freed", "deregister"}
      /\ "freed" \in misuse' => "resources" \in failed
      /\ ~WorkPending => misc' = {} /\ irq' = {} /\ ("deregister" \in misuse' => Missing)
      /\ WorkPending /\ current # 0 => "deregister" \in misuse'
  BY Zenon, <1>1, ForgetAll
<1>3. CASE WorkPending
  <2>1. "work" \in rash'
    BY Zenon, <1>1, <1>3 DEF InUse
  <2>2. "memory" \notin failed' => current # 0
    BY Zenon, <1>1, <1>3 DEF CarefulInv
  <2>3. QED
    BY Zenon, <1>2, <1>3, <2>1, <2>2 DEF MisuseHasCause, OvertakenIsLost
<1>4. CASE ~WorkPending
  <2>1. "work" \notin rash'
    BY Zenon, <1>1, <1>4 DEF InUse
  <2>2. MisuseHasCause' /\ OvertakenIsLost'
    <3>1. "null" \notin misuse' /\ "register" \notin misuse'
      BY Zenon, <1>2
    <3>2. QED
      BY Zenon, <1>1, <1>2, <1>4, <2>1, <3>1 DEF MisuseHasCause, OvertakenIsLost, Missing
  <2>3. /\ driver' = "removing" /\ misc' = {} /\ irq' = {}
        /\ UNCHANGED <<current, ws, queued, running, topped, file, gens>>
    BY Zenon, <1>2, <1>4 DEF connectal_of_remove, workVars, fileVars
  <2>4. freed \cup topped \subseteq 1 .. gens /\ gens \in Nat /\ current \in 0 .. gens
    <3>1. freed \cup topped \subseteq 1 .. gens /\ current \in 0 .. gens /\ gens \in 0 .. MaxGen
      BY Zenon DEF CarefulInv, ZynqTypes
    <3>2. QED
      BY <3>1, MaxGenAssumption
  <2>5. freed' \cup topped' \subseteq 1 .. gens'
    BY <1>2, <2>3, <2>4
  <2>6. \A q \in Proc : file'[q] # None => file'[q][1] \in freed' /\ "files" \in rash'
    BY Zenon, <1>1, <1>2, <2>3, FilesForgotten
  <2>7. ~WorkPending' /\ Registered' = {}
    BY Zenon, <1>4, <2>3 DEF WorkPending, Registered
  <2>8. CarefulInv'
    BY Zenon, <2>3, <2>5, <2>6, <2>7 DEF CarefulInv, WorkPending
  <2>9. QED
    BY Zenon, <2>2, <2>8
<1>5. QED
  BY Zenon, <1>3, <1>4

\* The work finds the portals one by one.
LEMMA WorkKeeps ==
  ASSUME ZynqTypes, CarefulInv, Sane, "work" \notin rash, connectal_work_handler
  PROVE  MisuseHasCause' /\ OvertakenIsLost' /\ (Sane' /\ "work" \notin rash' => CarefulInv')
<1> USE NumPortalsAssumption
<1>1. /\ UNCHANGED <<driver, current, freed, gens, ws, queued, irq, file, rash>>
      /\ failed \subseteq failed' /\ running # -1
  BY Zenon DEF connectal_work_handler, fileVars
<1>2. /\ driver = "on" /\ ws = current /\ current \notin freed /\ current \notin topped
      /\ ~queued /\ (current = 0 => "memory" \in failed)
  BY Zenon, <1>1 DEF CarefulInv, WorkPending
<1>3. running \in 0 .. NumPortals - 1
  BY <1>1 DEF ZynqTypes
<1>4. <<current, running>> \notin misc
  <2>1. <<current, running>> \notin Registered
    BY <1>1, <1>3 DEF Registered
  <2>2. QED
    BY Zenon, <2>1 DEF CarefulInv
<1>5. misuse' = misuse \cup (IF current = 0 THEN {"null"} ELSE {})
  BY Zenon, <1>2, <1>4 DEF connectal_work_handler
<1>6. MisuseHasCause' /\ OvertakenIsLost'
  <2>1. misuse' \subseteq {"irq0", "null"} /\ ("null" \in misuse' => "memory" \in failed')
    BY Zenon, <1>1, <1>2, <1>5 DEF Sane
  <2>2. /\ "freed" \notin misuse' /\ "deregister" \notin misuse' /\ "register" \notin misuse'
    BY Zenon, <2>1
  <2>3. QED
    BY Zenon, <1>1, <2>1, <2>2 DEF MisuseHasCause, OvertakenIsLost
<1>7. ASSUME Sane' PROVE CarefulInv'
  <2>1. current # 0
    BY Zenon, <1>5, <1>7 DEF Sane
  <2>2. /\ (running' = -1 /\ running + 1 = NumPortals /\ topped' = topped \cup {current})
           \/ (running' = running + 1 /\ running' # -1 /\ topped' = topped)
    BY <1>2, <1>3 DEF connectal_work_handler
  <2>3. (IF running' = -1 THEN NumPortals ELSE running') - 1 = running
    BY <1>3, <2>2
  <2>4. Registered = {<<current, p>> : p \in 0 .. running - 1}
    BY Zenon, <1>1, <1>2, <2>1 DEF Registered
  <2>5. Registered' = {<<current, p>> : p \in 0 .. running}
    BY Zenon, <1>1, <1>2, <2>1, <2>3 DEF Registered
  <2>6. 0 .. running = (0 .. running - 1) \cup {running}
    BY <1>3
  <2>7. Registered' = Registered \cup {<<current, running>>}
    BY Zenon, <2>4, <2>5, <2>6
  <2>8. \/ misc' = misc \cup {<<current, running>>} /\ failed' = failed
        \/ misc' = misc /\ failed' = failed \cup {"register"}
    BY Zenon, <1>2 DEF connectal_work_handler
  <2>9. misc \subseteq misc' /\ misc' \subseteq Registered'
    BY Zenon, <2>7, <2>8 DEF CarefulInv
  <2>10. ~Missing' => misc' = Registered'
    BY Zenon, <2>7, <2>8 DEF CarefulInv, Missing
  <2>11. WorkPending' => current' \notin freed' \cup topped'
    BY Zenon, <1>1, <1>2, <2>2 DEF WorkPending
  <2>12. ~WorkPending' => current' \in topped'
    BY Zenon, <1>1, <2>2 DEF WorkPending
  <2>13. freed' \cup topped' \subseteq 1 .. gens'
    <3>1. current \in 1 .. gens
      BY <2>1, MaxGenAssumption DEF ZynqTypes
    <3>2. topped' \subseteq topped \cup {current}
      BY Zenon, <2>2
    <3>3. QED
      BY Zenon, <1>1, <3>1, <3>2 DEF CarefulInv
  <2>14. \A d \in irq' : d \in misc' /\ OpenOn(d)' # {}
    BY Zenon, <1>1, <2>9 DEF CarefulInv, OpenOn
  <2>15. \A q \in Proc : file'[q] # None => file'[q] \in misc' \/ (file'[q][1] \in freed' /\ "files" \in rash')
    BY Zenon, <1>1, <2>9 DEF CarefulInv
  <2>16. driver' = "on" /\ ws' = current' /\ current' # 0 /\ current' \notin freed' /\ ~queued'
    BY Zenon, <1>1, <1>2, <2>1
  <2>17. QED
    BY Zenon, <2>9, <2>10, <2>11, <2>12, <2>13, <2>14, <2>15, <2>16 DEF CarefulInv
<1>8. QED
  BY Zenon, <1>6, <1>7

\* What a process does with a file, and what the kernel does by itself.
LEMMA ProcessKeeps ==
  ASSUME ZynqTypes, CarefulInv, Sane, "work" \notin rash,
         \/ connectal_of_probe \/ cancel_delayed_work_sync \/ connectal_work_start
         \/ \E q \in Proc : enable_interrupt(q) \/ portal_poll(q) \/ portal_release(q)
         \/ \E d \in Gen \X Number : portal_isr(d) \/ \E q \in Proc : portal_open(q, d)
         \/ UNCHANGED zynqVars
  PROVE  MisuseHasCause' /\ OvertakenIsLost' /\ (Sane' => CarefulInv')
<1>1. rash' = rash /\ failed' = failed
  BY ZenonT(60) DEF connectal_of_probe, cancel_delayed_work_sync, connectal_work_start, enable_interrupt,
     portal_poll, portal_release, portal_isr, portal_open, blameVars, zynqVars
<1>2. ASSUME misuse' \subseteq {"irq0", "freed"}, "freed" \in misuse' => "files" \in rash
      PROVE  MisuseHasCause' /\ OvertakenIsLost'
  <2>1. "deregister" \notin misuse' /\ "null" \notin misuse' /\ "register" \notin misuse'
    BY Zenon, <1>2
  <2>2. QED
    BY Zenon, <1>1, <1>2, <2>1 DEF MisuseHasCause, OvertakenIsLost
<1>3. ASSUME misuse' = misuse PROVE MisuseHasCause' /\ OvertakenIsLost'
  BY Zenon, <1>2, <1>3 DEF Sane
<1>4. CASE connectal_of_probe
  <2>1. /\ current = 0 /\ driver = "off" /\ driver' = "on"
        /\ UNCHANGED <<current, freed, gens, ws, queued, running, topped, misc, irq, file, misuse>>
    BY Zenon, <1>4 DEF connectal_of_probe, workVars, fileVars, CarefulInv
  <2>2. Registered' = Registered /\ (WorkPending' <=> WorkPending) /\ (Missing' <=> Missing)
    BY Zenon, <1>1, <2>1 DEF Registered, WorkPending, Missing
  <2>3. current' \notin freed'
    BY <2>1 DEF CarefulInv
  <2>4. \A d \in irq' : d \in misc' /\ OpenOn(d)' # {}
    BY Zenon, <2>1 DEF CarefulInv, OpenOn
  <2>5. QED
    BY Zenon, <1>1, <1>3, <2>1, <2>2, <2>3, <2>4 DEF CarefulInv
<1>5. CASE cancel_delayed_work_sync
  <2>1. /\ driver = "removing" /\ driver' = "gone" /\ ~queued' /\ running = -1
        /\ UNCHANGED <<current, freed, gens, ws, running, topped, misc, irq, file, misuse>>
    BY Zenon, <1>5 DEF cancel_delayed_work_sync, fileVars
  <2>2. Registered' = Registered /\ ~WorkPending' /\ (Missing' <=> Missing)
    BY Zenon, <1>1, <2>1 DEF Registered, WorkPending, Missing
  <2>3. \A d \in irq' : d \in misc' /\ OpenOn(d)' # {}
    BY Zenon, <2>1 DEF CarefulInv, OpenOn
  <2>4. QED
    BY Zenon, <1>1, <1>3, <2>1, <2>2, <2>3 DEF CarefulInv
<1>6. CASE connectal_work_start
  <2>1. /\ queued /\ running = -1 /\ ~queued' /\ running' = 0
        /\ UNCHANGED <<driver, current, freed, gens, ws, topped, misc, irq, file, misuse>>
    BY Zenon, <1>6 DEF connectal_work_start, fileVars
  <2>2. WorkPending /\ WorkPending' /\ (Missing' <=> Missing)
    BY <1>1, <2>1 DEF WorkPending, Missing
  <2>3. Registered = {} /\ Registered' = {}
    BY <2>1 DEF Registered
  <2>4. \A d \in irq' : d \in misc' /\ OpenOn(d)' # {}
    BY Zenon, <2>1 DEF CarefulInv, OpenOn
  <2>5. QED
    BY Zenon, <1>1, <1>3, <2>1, <2>2, <2>3, <2>4 DEF CarefulInv
<1>7. ASSUME NEW q \in Proc, enable_interrupt(q)
      PROVE  MisuseHasCause' /\ OvertakenIsLost' /\ (Sane' => CarefulInv')
  <2>1. file[q] # None
    BY Zenon, <1>7 DEF enable_interrupt
  <2>2. /\ UNCHANGED <<driver, current, freed, gens, ws, queued, running, topped, misc, file>>
        /\ irq' \subseteq irq \cup {file[q]}
    BY Zenon, <1>7 DEF enable_interrupt, workVars
  <2>3. /\ misuse' \subseteq {"irq0", "freed"}
        /\ "freed" \in misuse' => file[q][1] \in freed
        /\ Sane' => file[q][1] \notin freed
    BY Zenon, <1>7 DEF enable_interrupt, Sane
  <2>4. "freed" \in misuse' => "files" \in rash
    BY Zenon, <2>1, <2>3, FreedFile
  <2>5. ASSUME Sane' PROVE CarefulInv'
    <3>1. file[q] \in misc
      BY Zenon, <2>1, <2>3, <2>5 DEF CarefulInv
    <3>2. \A d \in irq' : d \in misc /\ OpenOn(d)' # {}
      BY Zenon, <2>2, <3>1 DEF CarefulInv, OpenOn
    <3>3. QED
      BY Zenon, <1>1, <2>2, <3>2, FileSteps
  <2>6. QED
    BY Zenon, <1>2, <2>3, <2>4, <2>5
<1>8. ASSUME NEW q \in Proc, portal_poll(q)
      PROVE  MisuseHasCause' /\ OvertakenIsLost' /\ (Sane' => CarefulInv')
  <2>1. file[q] # None
    BY Zenon, <1>8 DEF portal_poll
  <2>2. UNCHANGED <<driver, current, freed, gens, ws, queued, running, topped, misc, file, irq>>
    BY Zenon, <1>8 DEF portal_poll, workVars
  <2>3. misuse' \subseteq {"irq0", "freed"} /\ ("freed" \in misuse' => file[q][1] \in freed)
    BY Zenon, <1>8 DEF portal_poll, Sane
  <2>4. "freed" \in misuse' => "files" \in rash
    BY Zenon, <2>1, <2>3, FreedFile
  <2>5. \A d \in irq' : d \in misc /\ OpenOn(d)' # {}
    BY Zenon, <2>2 DEF CarefulInv, OpenOn
  <2>6. QED
    BY Zenon, <1>1, <1>2, <2>2, <2>3, <2>4, <2>5, FileSteps
<1>9. ASSUME NEW q \in Proc, portal_release(q)
      PROVE  MisuseHasCause' /\ OvertakenIsLost' /\ (Sane' => CarefulInv')
  <2>1. file[q] # None
    BY Zenon, <1>9 DEF portal_release
  <2>2. /\ UNCHANGED <<driver, current, freed, gens, ws, queued, running, topped, misc>>
        /\ file' = [file EXCEPT ![q] = None] /\ irq' = irq \ {file[q]}
    BY Zenon, <1>9 DEF portal_release, workVars
  <2>3. misuse' \subseteq {"irq0", "freed"} /\ ("freed" \in misuse' => file[q][1] \in freed)
    BY Zenon, <1>9 DEF portal_release, Sane
  <2>4. "freed" \in misuse' => "files" \in rash
    BY Zenon, <2>1, <2>3, FreedFile
  <2>5. \A r \in Proc : file'[r] # None => file'[r] = file[r]
    BY Zenon, <2>2 DEF ZynqTypes
  <2>6. ASSUME NEW d \in irq' PROVE d \in misc /\ OpenOn(d)' # {}
    <3>1. PICK r \in Proc : file[r] = d
      BY Zenon, <2>2 DEF CarefulInv, OpenOn
    <3>2. r # q /\ file'[r] = d
      BY Zenon, <2>2, <3>1 DEF ZynqTypes
    <3>3. d \in misc
      BY Zenon, <2>2 DEF CarefulInv
    <3>4. r \in OpenOn(d)'
      BY Zenon, <3>2 DEF OpenOn
    <3>5. QED
      BY Zenon, <3>3, <3>4
  <2>7. CarefulInv'
    BY Zenon, <1>1, <2>2, <2>5, <2>6, FileSteps
  <2>8. QED
    BY Zenon, <1>2, <2>3, <2>4, <2>7
<1>10. ASSUME NEW d \in Gen \X Number, portal_isr(d)
       PROVE  MisuseHasCause' /\ OvertakenIsLost' /\ CarefulInv'
  <2>1. UNCHANGED <<driver, current, freed, gens, ws, queued, running, topped, misc, file, irq, misuse>>
    BY Zenon, <1>10 DEF portal_isr, workVars
  <2>2. \A e \in irq' : e \in misc /\ OpenOn(e)' # {}
    BY Zenon, <2>1 DEF CarefulInv, OpenOn
  <2>3. QED
    BY Zenon, <1>1, <1>3, <2>1, <2>2, FileSteps
<1>11. ASSUME NEW d \in Gen \X Number, NEW q \in Proc, portal_open(q, d)
       PROVE  MisuseHasCause' /\ OvertakenIsLost' /\ CarefulInv'
  <2>1. /\ UNCHANGED <<driver, current, freed, gens, ws, queued, running, topped, misc, irq, misuse>>
        /\ file' = [file EXCEPT ![q] = d] /\ d \in misc /\ file[q] = None
    BY Zenon, <1>11 DEF portal_open, workVars
  <2>2. \A r \in Proc : file'[r] # None => file'[r] \in misc \/ file'[r] = file[r]
    BY Zenon, <2>1 DEF ZynqTypes
  <2>3. ASSUME NEW e \in irq' PROVE e \in misc /\ OpenOn(e)' # {}
    <3>1. PICK r \in Proc : file[r] = e
      BY Zenon, <2>1 DEF CarefulInv, OpenOn
    <3>2. r # q
      BY Zenon, <2>1, <2>3, <3>1, NoneNoPortal DEF ZynqTypes
    <3>3. file'[r] = e
      BY Zenon, <2>1, <3>1, <3>2 DEF ZynqTypes
    <3>4. QED
      BY Zenon, <2>1, <3>3 DEF OpenOn, CarefulInv
  <2>4. CarefulInv'
    BY Zenon, <1>1, <2>1, <2>2, <2>3, FileSteps
  <2>5. QED
    BY Zenon, <1>3, <2>1, <2>4
<1>12. CASE UNCHANGED zynqVars
  <2>1. UNCHANGED <<driver, current, freed, gens, ws, queued, running, topped, misc, file, irq, misuse>>
    BY Zenon, <1>12 DEF zynqVars, workVars, fileVars
  <2>2. \A e \in irq' : e \in misc /\ OpenOn(e)' # {}
    BY Zenon, <2>1 DEF CarefulInv, OpenOn
  <2>3. QED
    BY Zenon, <1>1, <1>3, <2>1, <2>2, FileSteps
<1>13. QED
  BY Zenon, <1>4, <1>5, <1>6, <1>7, <1>8, <1>9, <1>10, <1>11, <1>12

\* What was in use, and what failed, is not forgotten.
LEMMA BlameKept == [ZynqNext]_zynqVars => rash \subseteq rash' /\ failed \subseteq failed'
<1> SUFFICES ASSUME [ZynqNext]_zynqVars PROVE rash \subseteq rash' /\ failed \subseteq failed'
  BY Zenon
<1>1. CASE connectal_open \/ connectal_of_remove \/ connectal_work_handler
  BY Zenon, <1>1 DEF connectal_open, connectal_of_remove, connectal_work_handler
<1>2. CASE ~(connectal_open \/ connectal_of_remove \/ connectal_work_handler)
  BY ZenonT(60), <1>2 DEF ZynqNext, zynqVars, blameVars, connectal_of_probe, cancel_delayed_work_sync,
     connectal_work_start, enable_interrupt, portal_poll, portal_release, portal_isr, portal_open
<1>3. QED
  BY Zenon, <1>1, <1>2

\* The inductive invariant, and from it: /dev/connectal replaces the portals as a whole,
\* whatever files are open, and the driver errs only for the causes named.
THEOREM PortalsAreReplaced == ZynqSpec => [](ZynqInv /\ PortalsReplaced)
<1>1. ZynqInit => ZynqInv
  <2> SUFFICES ASSUME ZynqInit PROVE ZynqInv
    BY Zenon
  <2>1. ZynqTypes
    <3>1. queued \in BOOLEAN /\ wq \in BOOLEAN
      BY ZenonT(60) DEF ZynqInit
    <3>2. gens \in 0 .. MaxGen /\ current \in 0 .. gens /\ running \in -1 .. NumPortals - 1
      BY NumPortalsAssumption, MaxGenAssumption DEF ZynqInit
    <3>3. file \in [Proc -> (Gen \X Number) \cup {None}] /\ irq \subseteq Gen \X Number
      BY Zenon DEF ZynqInit
    <3>4. QED
      BY Zenon, <3>1, <3>2, <3>3 DEF ZynqInit, ZynqTypes
  <2>2. Registered = {} /\ ~WorkPending
    BY Zenon DEF ZynqInit, Registered, WorkPending
  <2>3. CarefulInv
    BY Zenon, <2>2 DEF ZynqInit, CarefulInv
  <2>4. MisuseHasCause /\ OvertakenIsLost
    BY Zenon DEF ZynqInit, MisuseHasCause, OvertakenIsLost
  <2>5. QED
    BY Zenon, <2>1, <2>3, <2>4 DEF ZynqInv
<1>2. ZynqInv /\ [ZynqNext]_zynqVars => ZynqInv'
  <2> SUFFICES ASSUME ZynqInv, [ZynqNext]_zynqVars PROVE ZynqInv'
    BY Zenon
  <2>1. ZynqTypes /\ ZynqTypes' /\ rash \subseteq rash' /\ failed \subseteq failed'
    BY Zenon, ZynqTyped, BlameKept DEF ZynqInv
  <2>2. CASE UNCHANGED zynqVars
    BY Zenon, <2>1, <2>2 DEF ZynqInv, zynqVars, workVars, fileVars, blameVars, MisuseHasCause, OvertakenIsLost,
       Sane, CarefulInv, WorkPending, Registered, Missing, OpenOn
  <2>3. CASE ZynqNext /\ "work" \in rash
    <3>1. "memory" \in failed' /\ "work" \in rash'
      BY Zenon, <2>1, <2>3 DEF ZynqInv, ZynqNext, Sane, OvertakenIsLost
    <3>2. QED
      BY Zenon, <2>1, <3>1 DEF ZynqInv, MisuseHasCause, OvertakenIsLost
  <2>4. CASE ZynqNext /\ "work" \notin rash
    <3>1. Sane /\ CarefulInv
      BY Zenon, <2>4 DEF ZynqInv, ZynqNext
    <3>2. MisuseHasCause' /\ OvertakenIsLost' /\ (Sane' /\ "work" \notin rash' => CarefulInv')
      BY Zenon, <2>1, <2>4, <3>1, OpenKeeps, RemovePortalsKeeps, WorkKeeps, ProcessKeeps DEF ZynqNext
    <3>3. QED
      BY Zenon, <2>1, <3>2 DEF ZynqInv
  <2>5. QED
    BY Zenon, <2>2, <2>3, <2>4
<1>3. ZynqInv => PortalsReplaced
  <2> SUFFICES ASSUME ZynqInv PROVE PortalsReplaced
    BY Zenon
  <2>1. HandlerHasFile
    BY Zenon DEF ZynqInv, CarefulInv, HandlerHasFile
  <2>2. PortalsRegistered
    <3> DEFINE all == IF driver = "on" /\ current # 0
                      THEN {<<current, p>> : p \in 0 .. NumPortals - 1} ELSE {}
    <3>1. SUFFICES ASSUME Sane, "work" \notin rash, ~WorkPending
                   PROVE  misc \subseteq all /\ (failed = {} => misc = all)
      BY Zenon DEF PortalsRegistered
    <3>2. CarefulInv
      BY Zenon, <3>1 DEF ZynqInv
    <3>3. Registered = all
      BY Zenon, <3>1 DEF Registered, WorkPending
    <3>4. failed = {} => ~Missing
      BY Zenon DEF Missing
    <3>5. QED
      BY Zenon, <3>2, <3>3, <3>4 DEF CarefulInv
  <2>3. QED
    BY Zenon, <2>1, <2>2 DEF ZynqInv, PortalsReplaced
<1>4. QED
  BY <1>1, <1>2, <1>3, PTL DEF ZynqSpec

=============================================================================
