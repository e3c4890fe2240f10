-------------------------- MODULE MCFrameAllocator --------------------------
(***************************************************************************)
(* Memory maps for FrameAllocator, in bytes, with pages of 4 bytes.        *)
(***************************************************************************)
EXTENDS FrameAllocator

Region(page, bytes) == [base |-> page * PageSize, size |-> bytes]

(* For one CPU: the first region fills the buffer and overflows into the  *)
(* list; two single pages touch it and each other (in any order of adding, *)
(* as unmap returns pages); one region ends inside a page, one is smaller  *)
(* than a page.  A larger region would not touch: it loses its first pages *)
(* to the buffer.                                                          *)
OneCPURegions ==
  {Region(8, 40), Region(18, 4), Region(19, 4), Region(24, 18), Region(30, 3)}

(* For two CPUs that add at the same time: one region fills the buffer, so *)
(* that the others become list nodes, four pages below it, all touching.   *)
RaceQueue ==
  <<Region(20, 52), Region(12, 4), Region(13, 4), Region(10, 4), Region(11, 4)>>

TouchingRegions == Range(RaceQueue)

(* Directs the search, which need not reach every state to meet a          *)
(* violation: the regions are added in the order of RaceQueue, one at a    *)
(* time until the third has begun, and other code allocates at the end.    *)
RaceOrder ==
  /\ \A i, j \in DOMAIN RaceQueue :
       i < j /\ RaceQueue[j] \notin todo => RaceQueue[i] \notin todo
  /\ RaceQueue[2] \notin todo => RaceQueue[1] \in live
  /\ RaceQueue[3] \in todo => Cardinality({c \in CPUs : pc[c] # "idle"}) < 2
  /\ calls > 0 => todo = {}

(* One region larger than the buffer and one beside it, too small to pay   *)
(* for its own list node.                                                  *)
TightRegions == {Region(8, 32), Region(16, 8)}

(* A memory map with the kernel's own constants (4096-byte pages): three   *)
(* regions above 1 MB, of 256, 40 and 97 pages, the first two touching;    *)
(* the last one ends inside a page.                                        *)
BootRegions ==
  {Region(256, 1048576), Region(512, 163840), Region(1024, 399360)}
=============================================================================
