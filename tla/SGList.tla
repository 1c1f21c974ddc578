-------------------------------- MODULE SGList --------------------------------
(***************************************************************************)
(* The scatter-gather list of a buffer: how portalmem allocates it         *)
(* (drivers/portalmem/portalmem.c), what send_fd_to_portal                 *)
(* (cpp/dmaSendFd.h) tells the MMU about it, and the address it gives to   *)
(* an offset.                                                              *)
(*                                                                         *)
(* A buffer is known by its regions: regions[j] is the number of its       *)
(* segments of size 2^Shift[j].  The allocator never returns to a larger   *)
(* size (max_order), so these numbers determine the list.  Addresses and   *)
(* lengths are in units of the smallest page or of a part of it.           *)
(***************************************************************************)
EXTENDS Integers, FiniteSetsExt

CONSTANTS
  Shift,       \* shifts: PAGE_SHIFT8, PAGE_SHIFT4, PAGE_SHIFT0, decreasing
  IndexWidth   \* bits of an index into the table of a list

Order == 1 .. 3

Entries == 2 ^ IndexWidth

\* Number of segments.
Segments(regions) == regions[1] + regions[2] + regions[3]

Bytes(regions) ==
  regions[1] * 2 ^ Shift[1] + regions[2] * 2 ^ Shift[2] + regions[3] * 2 ^ Shift[3]

\* The lists an allocation of len can get: alloc_pages may fail for each of the
\* larger sizes at any time.
portalmem_dmabuffer_create(len) ==
  {regions \in [Order -> 0 .. len] : Bytes(regions) = len}

\* The size of segment i, counted from 0.
OrderOf(regions, i) ==
  CASE i < regions[1] -> 1
    [] i >= regions[1] /\ i < regions[1] + regions[2] -> 2
    [] OTHER -> 3

\* Where segment i starts in the buffer.
Start(regions, i) ==
  MapThenSumSet(LAMBDA k : 2 ^ Shift[OrderOf(regions, k)], 0 .. i - 1)

\* Where segment i of buffer fd is in memory: alloc_pages gives disjoint
\* segments, each aligned to its size.
sg_phys(fd, i) == (fd * Entries + i) * 2 ^ Shift[1]

\* The address an offset into the buffer has.
Phys(fd, regions, off) ==
  LET i == CHOOSE k \in 0 .. Segments(regions) - 1 :
             /\ Start(regions, k) <= off
             /\ off < Start(regions, k) + 2 ^ Shift[OrderOf(regions, k)]
  IN  sg_phys(fd, i) + off - Start(regions, i)

-----------------------------------------------------------------------------
\* What send_fd_to_portal computes.

\* The address of entry i, 0 for the end of the list.
SglistAddr(fd, regions, i) ==
  IF i = Segments(regions) THEN 0
  ELSE sg_phys(fd, i) \div 2 ^ Shift[OrderOf(regions, i)]

\* border before the segments of each size are counted, in pages of that size.
Border(regions) ==
  LET b2 == regions[1] * 2 ^ (Shift[1] - Shift[2])
      b3 == (b2 + regions[2]) * 2 ^ (Shift[2] - Shift[3])
  IN  <<0, b2, b3>>

\* entryCount before the segments of each size are counted.
EntryCount(regions) == <<0, regions[1], regions[1] + regions[2]>>

borderVal(regions) == [j \in Order |-> Border(regions)[j] + regions[j]]

\* Mutant: the index is not reduced by the border.
indexVal_NoBorder(regions) == [j \in Order |-> EntryCount(regions)[j] % Entries]

\* entryCount and idxOffset are unsigned char, as wide as the MMU's index.
indexVal(regions) ==
  [j \in Order |-> (EntryCount(regions)[j] - Border(regions)[j]) % Entries]

=============================================================================
