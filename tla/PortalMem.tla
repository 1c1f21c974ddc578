----------------------------- MODULE PortalMem ------------------------------
(***************************************************************************)
(* Buffers of drivers/portalmem/portalmem.c: their allocation out of       *)
(* blocks of pages, their mapping into a process, the kernel's own mapping *)
(* that begin_cpu_access and end_cpu_access share, and their release.      *)
(*                                                                         *)
(* A size is a number of pages.  A buffer is the sequence of its blocks,   *)
(* each a sequence of page numbers.                                        *)
(***************************************************************************)
EXTENDS Integers, Sequences, FiniteSets, Functions

CONSTANTS
  Orders,    \* the block sizes tried, in pages: 2^8, 2^4 and 2^0 in the code
  Lengths,   \* sizes callers ask for
  Caller,    \* callers of the kernel's access functions
  MaxPages,  \* pages the machine has
  MaxAsks    \* bound on the accesses of a caller

ASSUME CallerAssumption == IsFiniteSet(Caller)

VARIABLES
  create,    \* portalmem_dmabuffer_create: the call that runs
  pages,     \* number of pages taken from the kernel, which gets none back
  buffer,    \* the buffer: none or made, its blocks and its size
  kmap_cnt,  \* the buffer's kmap_cnt
  vaddr,     \* is the buffer's vaddr set?
  frees,     \* calls of pa_buffer_free for it
  fds,       \* references to its file
  access,    \* what each caller does: none, begun, vmapped
  asks,      \* number of accesses of each caller
  vmaps,     \* number of calls of pa_dma_buf_vmap that mapped the buffer
  maps,      \* the mapping into a process just made: pages asked for and pages mapped
  destroys,  \* number of calls of portalmem_dmabuffer_destroy
  oops       \* why the driver followed a pointer that is not valid

kernelVars == <<kmap_cnt, vaddr, access, asks, vmaps>>
lifeVars == <<frees, fds, destroys>>
memVars == <<create, pages, buffer, kernelVars, lifeVars, maps, oops>>

NoBuffer == [state |-> "none", blocks |-> <<>>, size |-> 0]
NoCreate == [running |-> FALSE, left |-> 0, max_order |-> Orders[1], blocks |-> <<>>, len |-> 0]
NoMap == [want |-> <<>>, got |-> <<>>]

MemInit ==
  /\ create = NoCreate /\ pages = 0
  /\ buffer = NoBuffer /\ kmap_cnt = 0 /\ vaddr = FALSE
  /\ frees = 0 /\ fds = 0 /\ destroys = 0
  /\ access = [c \in Caller |-> "none"]
  /\ asks = [c \in Caller |-> 0]
  /\ vmaps = 0
  /\ maps = NoMap
  /\ oops = {}

\* Every step but pa_dma_buf_mmap forgets the mapping before it.
Step == maps' = NoMap

\* The pages of a list of blocks, one block after the other.
Pages(blocks) ==
  LET upto[i \in 0 .. Len(blocks)] == IF i = 0 THEN <<>> ELSE upto[i - 1] \o blocks[i]
  IN  upto[Len(blocks)]

-----------------------------------------------------------------------------
\* portalmem_dmabuffer_create.

create_enter(len) ==
  /\ ~create.running
  /\ buffer.state = "none"
  /\ create' = [NoCreate EXCEPT !.running = TRUE, !.left = len, !.len = len]
  /\ Step /\ UNCHANGED <<pages, buffer, kernelVars, lifeVars, oops>>

\* Mutant: an order that was refused is tried again for the next block.
Eligible_Again == SelectSeq(Orders, LAMBDA o : create.left >= o)

\* The orders that the loop may ask alloc_pages for, in this order.
Eligible == SelectSeq(Orders, LAMBDA o : create.left >= o /\ create.max_order >= o)

\* One round of the loop: the orders in front of the one that is found were refused.
\* The kmalloc that follows is not checked.
create_block ==
  /\ create.running /\ create.left > 0
  /\ \E i \in DOMAIN Eligible :
       LET o == Eligible[i] IN
       /\ pages + o <= MaxPages
       /\ pages' = pages + o
       /\ \/ /\ create' = [create EXCEPT !.left = @ - o, !.max_order = o,
                             !.blocks = Append(@, [k \in 1 .. o |-> pages + k])]
             /\ UNCHANGED oops
          \/ /\ oops' = {"info"}
             /\ UNCHANGED create
  /\ Step /\ UNCHANGED <<buffer, kernelVars, lifeVars>>

\* The call ends without a buffer.  Its pages are not given back: free_buffer_page, which
\* the error paths and pa_buffer_free call, is empty.
Undone ==
  /\ create' = NoCreate
  /\ Step /\ UNCHANGED <<pages, buffer, kernelVars, lifeVars>>

\* No order is left that alloc_pages grants, or nothing was asked for, or sg_alloc_table
\* fails: -ENOMEM.  The loop takes the next entry of the list from the one it has freed.
create_fail ==
  /\ create.running
  /\ Undone
  /\ \/ UNCHANGED oops
     \/ create.blocks # <<>> /\ oops' = {"list"}

\* dma_buf_export fails: the buffer is freed and the error read as a dma_buf.
dma_buf_export_fail ==
  /\ create.running /\ create.left = 0 /\ create.blocks # <<>>
  /\ Undone
  /\ oops' = {"export"}

\* dma_buf_fd fails: dma_buf_put releases the buffer.
dma_buf_fd_fail ==
  /\ create.running /\ create.left = 0 /\ create.blocks # <<>>
  /\ Undone
  /\ UNCHANGED oops

create_end ==
  /\ create.running /\ create.left = 0 /\ create.blocks # <<>>
  /\ buffer' = [state |-> "made", blocks |-> create.blocks, size |-> create.len]
  /\ fds' = 1
  /\ create' = NoCreate
  /\ Step /\ UNCHANGED <<pages, kernelVars, frees, destroys, oops>>

-----------------------------------------------------------------------------
\* Mutant: the offset is left out of every block.
MapBlock_KeepsOffset(acc, block) ==
  LET room == Len(block) - acc.offset
      len == IF room < acc.todo THEN room ELSE acc.todo
  IN  IF acc.todo = 0 THEN acc
      ELSE IF room <= 0 THEN [acc EXCEPT !.offset = @ - Len(block)]
      ELSE [offset |-> acc.offset, todo |-> acc.todo - len,
            got |-> acc.got \o SubSeq(block, acc.offset + 1, acc.offset + len)]

\* The loop of pa_dma_buf_mmap at one block: acc has the offset that is left, the
\* pages still to map and the pages mapped.
MapBlock(acc, block) ==
  LET room == Len(block) - acc.offset
      len == IF room < acc.todo THEN room ELSE acc.todo
  IN  IF acc.todo = 0 THEN acc
      ELSE IF room <= 0 THEN [acc EXCEPT !.offset = @ - Len(block)]
      ELSE [offset |-> 0, todo |-> acc.todo - len,
            got |-> acc.got \o SubSeq(block, acc.offset + 1, acc.offset + len)]

\* n pages from page pgoff on: those the buffer has, and those the loop maps.  It reads
\* the blocks only, which never change, so it is enough to look at it before the first
\* kernel access.
MapWanted(pgoff, n) ==
  LET whole == Pages(buffer.blocks)
  IN  SubSeq(whole, pgoff + 1, IF pgoff + n < Len(whole) THEN pgoff + n ELSE Len(whole))

MapGot(pgoff, n) ==
  LET after[i \in 0 .. Len(buffer.blocks)] ==
        IF i = 0 THEN [offset |-> pgoff, todo |-> n, got |-> <<>>]
                 ELSE MapBlock(after[i - 1], buffer.blocks[i])
  IN  after[Len(buffer.blocks)].got

Live == buffer.state = "made" /\ frees = 0

pa_dma_buf_mmap(pgoff, n) ==
  /\ Live /\ fds > 0
  /\ \A c \in Caller : asks[c] = 0
  /\ maps' = [want |-> MapWanted(pgoff, n), got |-> MapGot(pgoff, n)]
  /\ UNCHANGED <<create, pages, buffer, kernelVars, lifeVars, oops>>

\* Under the buffer's lock; vmap may fail.
begin_cpu_access(c, as) ==
  /\ Live /\ fds > 0
  /\ access[c] = "none"
  /\ asks[c] < MaxAsks
  /\ asks' = [asks EXCEPT ![c] = @ + 1]
  /\ \/ /\ vaddr' = TRUE
        /\ kmap_cnt' = kmap_cnt + 1
        /\ access' = [access EXCEPT ![c] = as]
        /\ vmaps' = IF as = "vmapped" THEN vmaps + 1 ELSE vmaps
     \/ /\ kmap_cnt = 0
        /\ UNCHANGED <<vaddr, kmap_cnt, access, vmaps>>
  /\ Step /\ UNCHANGED <<create, pages, buffer, lifeVars, oops>>

\* Mutant: the first caller to end takes the mapping away.
end_cpu_access_Unmaps(c) ==
  /\ Live
  /\ access[c] = "begun"
  /\ kmap_cnt' = kmap_cnt - 1
  /\ vaddr' = FALSE
  /\ access' = [access EXCEPT ![c] = "none"]
  /\ Step /\ UNCHANGED <<create, pages, buffer, asks, vmaps, lifeVars, oops>>

end_cpu_access(c) ==
  /\ Live
  /\ access[c] = "begun"
  /\ kmap_cnt' = kmap_cnt - 1
  /\ vaddr' = (vaddr /\ kmap_cnt # 1)
  /\ access' = [access EXCEPT ![c] = "none"]
  /\ Step /\ UNCHANGED <<create, pages, buffer, asks, vmaps, lifeVars, oops>>

\* pa_dma_buf_vunmap does nothing.
vunmap(c) ==
  /\ access[c] = "vmapped"
  /\ access' = [access EXCEPT ![c] = "none"]
  /\ Step /\ UNCHANGED <<create, pages, buffer, kmap_cnt, vaddr, asks, vmaps, lifeVars, oops>>

\* Any of these on a buffer that was destroyed under its descriptor: they follow what
\* is in the freed pa_buffer.
access_destroyed ==
  /\ buffer.state = "made" /\ frees > 0 /\ fds > 0
  /\ oops' = {"destroyed"}
  /\ Step /\ UNCHANGED <<create, pages, buffer, kernelVars, lifeVars>>

-----------------------------------------------------------------------------
\* The pages are not given back, and a kernel mapping that is there stays.
pa_buffer_free == frees' = frees + 1

dup ==
  /\ fds = 1 /\ Live
  /\ fds' = 2
  /\ Step /\ UNCHANGED <<create, pages, buffer, kernelVars, frees, destroys, oops>>

\* Mutant: every close releases the buffer.
close_fd_Releases ==
  /\ fds > 0
  /\ fds = 1 => \A c \in Caller : access[c] = "none"
  /\ fds' = fds - 1
  /\ pa_buffer_free
  /\ Step /\ UNCHANGED <<create, pages, buffer, kernelVars, destroys, oops>>

\* The last reference calls pa_dma_buf_release.  A caller in an access holds one.
close_fd ==
  /\ fds > 0
  /\ fds = 1 => \A c \in Caller : access[c] = "none"
  /\ fds' = fds - 1
  /\ IF fds = 1 THEN pa_buffer_free ELSE UNCHANGED frees
  /\ Step /\ UNCHANGED <<create, pages, buffer, kernelVars, destroys, oops>>

\* Releases the buffer and leaves the descriptor.
portalmem_dmabuffer_destroy ==
  /\ fds > 0
  /\ pa_buffer_free
  /\ destroys' = destroys + 1
  /\ Step /\ UNCHANGED <<create, pages, buffer, kernelVars, fds, oops>>

\* After a second release, or an access to what is not there, there is nothing to say.
MemNext ==
  /\ frees < 2 /\ oops = {}
  /\ \/ \E len \in Lengths : create_enter(len)
     \/ create_block \/ create_fail \/ dma_buf_export_fail \/ dma_buf_fd_fail \/ create_end
     \/ \E pgoff \in 0 .. buffer.size, n \in 1 .. buffer.size + 1 : pa_dma_buf_mmap(pgoff, n)
     \/ \E c \in Caller : begin_cpu_access(c, "begun") \/ begin_cpu_access(c, "vmapped")
                          \/ end_cpu_access(c) \/ vunmap(c)
     \/ access_destroyed
     \/ dup \/ close_fd \/ portalmem_dmabuffer_destroy

MemSpec == MemInit /\ [][MemNext]_memVars

-----------------------------------------------------------------------------
\* A buffer has the pages asked for, each once, in blocks that never grow from one
\* to the next.
BlocksExact ==
  buffer.state # "none" =>
    LET whole == Pages(buffer.blocks) IN
    /\ Len(whole) = buffer.size
    /\ Cardinality(Range(whole)) = buffer.size
    /\ \A i \in 1 .. Len(buffer.blocks) - 1 : Len(buffer.blocks[i + 1]) <= Len(buffer.blocks[i])

\* pa_dma_buf_mmap maps the pages of the buffer from the offset on, up to its end,
\* wherever the offset and the length fall in its blocks.
MapExact == maps.got = maps.want

\* The buffer's kernel mapping is there exactly while it is counted, and counted are the
\* accesses that go on and every vmap there ever was: pa_dma_buf_vunmap gives none back,
\* so a buffer that was once vmapped stays mapped until its release, and after it.
MappedInAccess ==
  /\ vaddr <=> kmap_cnt > 0
  /\ Live => kmap_cnt = Cardinality({c \in Caller : access[c] = "begun"}) + vmaps

\* The buffer is released once for its last reference and once for every call of
\* portalmem_dmabuffer_destroy: without it exactly when nobody refers to it any more,
\* and with it twice by the time its descriptor is closed.
ReleasesExact ==
  buffer.state = "made" => frees = destroys + (IF fds = 0 THEN 1 ELSE 0)

\* A buffer of portalmem is made of the pages asked for, also after calls that failed half
\* way, and mapped with these pages (portalmem_dmabuffer_create, pa_dma_buf_mmap).
PagesExact == BlocksExact /\ MapExact

\* A buffer is there while it is used: its kernel mapping during every access, the
\* buffer until the last close (begin_cpu_access, end_cpu_access, pa_dma_buf_release).
BuffersKept == MappedInAccess /\ ReleasesExact

-----------------------------------------------------------------------------
\* The inductive invariant of the proofs.
BufferInv ==
  /\ create.running => buffer.state = "none"
  /\ buffer.state \in {"none", "made"}
  /\ buffer.state = "none" => /\ fds = 0 /\ frees = 0 /\ destroys = 0
                              /\ kmap_cnt = 0 /\ vmaps = 0
                              /\ \A c \in Caller : access[c] = "none"
  /\ fds \in Nat /\ frees \in Nat /\ destroys \in Nat /\ vmaps \in Nat /\ kmap_cnt \in Nat
  /\ access \in [Caller -> {"none", "begun", "vmapped"}]
  /\ BuffersKept
=============================================================================
