------------------------------ MODULE PageTable ------------------------------
(***************************************************************************)
(* PaginationTable::alloc_vm and free_vm, on the window of one entry (509) *)
(* of the top table, which the heap uses, read and written through the     *)
(* recursive entry 510.  The heap makes every call, under its own lock: a  *)
(* call is one action, calls do not overlap, and a call that waits for     *)
(* that lock never returns.  The frame allocator is external: allocate()   *)
(* gives FrameCount frames and then does not return, and addMemorySpace    *)
(* of a single page begins with kernel_malloc (FrameAllocator.cpp:82).     *)
(*                                                                         *)
(* An entry is named as the recursive mapping addresses it, <<level, i>>:  *)
(* <<0, i>> maps page i of the window, <<1, i>> is the page table of pages *)
(* i * FANOUT and following, <<2, i>> the directory above it, <<3, 0>> the *)
(* entry of the top table.  Frames are interchangeable and only counted.   *)
(* A frame that becomes a table is assumed to be all zero.                 *)
(***************************************************************************)
EXTENDS Integers, FiniteSets, FiniteSetsExt

CONSTANTS
  FANOUT,        (* entries of a table, 512                                *)
  FrameCount,    (* frames allocate() gives before it does not return      *)
  Sizes          (* numbers of pages that are requested                    *)

ASSUME PageTableAssumption ==
  /\ FANOUT \in Nat /\ FANOUT > 1
  /\ FrameCount \in Nat
  /\ Sizes \subseteq Nat \ {0}

VARIABLES
  present,   (* the entries whose present bit is set                       *)
  free,      (* number of frames the allocator still has                   *)
  taken,     (* number of frames unmap took out of their entries and has   *)
             (* not given to the allocator yet                             *)
  held,      (* blocks handed out and not given back: [at, pages]          *)
  stopped    (* "no", or why a call never returned                         *)

vars == <<present, free, taken, held, stopped>>

WindowPages == FANOUT * FANOUT * FANOUT

Init ==
  /\ present = {}
  /\ free = FrameCount
  /\ taken = 0
  /\ held = {}
  /\ stopped = "no"

-----------------------------------------------------------------------------
(* The entry that holds the table an entry lies in. *)
Above(e) == <<e[1] + 1, e[2] \div FANOUT>>

(* (hi << 9) | lo.  lo may be FANOUT itself, whose bit an odd hi also has. *)
Shl(hi, lo) ==
  IF lo = FANOUT /\ hi % 2 = 1 THEN hi * FANOUT ELSE hi * FANOUT + lo

(* The entries _getEntryLevel(509, z, y, x, PAGE) reads, top level first:  *)
(* the last index is added to the address of its table, the others are     *)
(* shifted into it.                                                        *)
Chain(z, y, x) ==
  <<<<3, 0>>, <<2, z>>, <<1, z * FANOUT + y>>, <<0, Shl(z, y) * FANOUT + x>>>>

(* _getEntryLevel: "null" at the first entry that is not present; reading  *)
(* an entry of a table that does not exist is a page fault.                *)
Probe(z, y, x) ==
  LET chain  == Chain(z, y, x)
      absent == {k \in 1 .. 4 : chain[k] \notin present}
      first  == chain[Min(absent)]
  IN  IF absent = {} THEN "page"
      ELSE IF first[1] < 3 /\ Above(first) \notin present THEN "fault"
      ELSE "null"

(* Mutant of At: no carries into the next table. *)
AtUnreduced(p, i) == <<p[1], p[2], p[3] + i>>

(* alloc_vm's indices of the i-th page of a candidate: the first as they   *)
(* stand, the others reduced.                                              *)
At(p, i) ==
  IF i = 0 THEN p
  ELSE LET y == p[2] + (p[3] + i) \div FANOUT
       IN  <<p[1] + y \div FANOUT, y % FANOUT, (p[3] + i) % FANOUT>>

(* Mutant of Advance: one page further. *)
AdvanceTooFar(p, i) ==
  LET x == p[3] + i + 1
  IN  IF x > FANOUT THEN <<p[1], p[2] + x \div FANOUT, x % FANOUT>>
      ELSE <<p[1], p[2], x>>

(* "x += i" with the carries, which leave an index of FANOUT alone. *)
Advance(p, i) ==
  LET x == p[3] + i
      y == p[2] + x \div FANOUT
  IN  IF x <= FANOUT THEN <<p[1], p[2], x>>
      ELSE IF y <= FANOUT THEN <<p[1], y, x % FANOUT>>
      ELSE <<p[1] + y \div FANOUT, y % FANOUT, x % FANOUT>>

(* Where the search may stand: z goes up to wherever the tables end.       *)
Positions == Nat \X (0 .. FANOUT) \X (0 .. FANOUT)

Probed(p, i) == Probe(At(p, i)[1], At(p, i)[2], At(p, i)[3])

(* Mutant of Hits: the entry of the first page is not tested. *)
HitsNotFirst(p, n) == {i \in 1 .. n - 1 : Probed(p, i) # "null"}

(* The pages of a candidate that are in use, or cannot be read. *)
Hits(p, n) == {i \in 0 .. n - 1 : Probed(p, i) # "null"}

(* CONVERT_PAGE_IDX_TO_ADDR *)
AddressOf(p) == Shl(Shl(p[1], p[2]), p[3])

(* The search for n pages, from each position it may stand at: the page it *)
(* ends with, or -1 for a page fault.                                      *)
Search(n) ==
  LET scan[p \in Positions] ==
        IF Hits(p, n) = {} THEN AddressOf(p)
        ELSE IF Probed(p, Min(Hits(p, n))) = "fault" THEN -1
        ELSE scan[Advance(p, Min(Hits(p, n)) + 1)]
  IN  scan

(* The page alloc_vm maps a block of n pages at, or -1. *)
Found(n) == Search(n)[<<0, 0, 0>>]

-----------------------------------------------------------------------------
BlockPages(b) == b.at .. b.at + b.pages - 1

Mapped == {e[2] : e \in {f \in present : f[1] = 0}}

(* The entries on the way to a page, which map() passes top level first.   *)
Path(q) ==
  LET page == <<0, q>>  table == Above(page)  directory == Above(table)
  IN  {page, table, directory, Above(directory)}

(* Mutants of Missing: level L1 is not created; isPresent is not tested.   *)
MissingNoTable(b) ==
  {e \in UNION {Path(q) : q \in BlockPages(b)} : e[1] # 1} \ present

MissingUntested(b) == UNION {Path(q) : q \in BlockPages(b)}

(* The entries map() has to create for a block, each with a new frame. *)
Missing(b) == (UNION {Path(q) : q \in BlockPages(b)}) \ present

(* getOrCreateEntryLevel, page by page and top level first, as far as the  *)
(* frames go.                                                              *)
Created(b) ==
  LET FirstUse(e) == Min({q \in BlockPages(b) : e \in Path(q)})
      Turn(e) == 4 * FirstUse(e) + 3 - e[1]
      Before(e) == {f \in Missing(b) : Turn(f) < Turn(e)}
  IN  {e \in Missing(b) : Cardinality(Before(e)) < free}

(* Bound: requests that end inside the window. *)
InWindow(n) == \A q \in Mapped \cup {-1} : q + n < WindowPages

(* alloc_vm and its call of map.  The search runs past the last table and  *)
(* faults, or allocate() does not return in the middle of the block, or    *)
(* the block is mapped.                                                    *)
AllocVm(n) ==
  /\ InWindow(n)
  /\ Found(n) + n <= WindowPages
  /\ UNCHANGED taken
  /\ LET b == [at |-> Found(n), pages |-> n]
     IN  IF b.at = -1
         THEN stopped' = "alloc fault" /\ UNCHANGED <<present, free, held>>
         ELSE /\ present' = present \cup Created(b)
              /\ free' = free - Cardinality(Created(b))
              /\ IF Created(b) = Missing(b)
                 THEN held' = held \cup {b} /\ UNCHANGED stopped
                 ELSE stopped' = "no frames" /\ UNCHANGED held

-----------------------------------------------------------------------------
(* free_vm and its call of unmap: the first page, which map() made         *)
(* present, loses its entry, and addMemorySpace is called with its frame.  *)
(* It asks the heap for a list node, under the lock that kernel_free holds *)
(* around this call: it waits for ever, and no other page is visited.      *)
FreeVm(b) ==
  /\ present' = present \ {<<0, b.at>>}
  /\ taken' = taken + 1
  /\ stopped' = "self lock"
  /\ UNCHANGED <<free, held>>

Next ==
  /\ stopped = "no"
  /\ \/ \E n \in Sizes : AllocVm(n)
     \/ \E b \in held : FreeVm(b)

Spec == Init /\ [][Next]_vars

-----------------------------------------------------------------------------
(* Types; an entry is present only in a table that exists. *)
TypeOK ==
  /\ present \subseteq (0 .. 3) \X (0 .. WindowPages - 1)
  /\ \A e \in present : e[1] < 3 => Above(e) \in present
  /\ free \in 0 .. FrameCount
  /\ taken \in 0 .. 1
  /\ held \subseteq [at : Nat, pages : Sizes]
  /\ stopped \in {"no", "no frames", "alloc fault", "self lock"}

(* No frame is lost or in two places: each is in the allocator, in exactly *)
(* one entry of the tables, or on its way back, however far map() and      *)
(* unmap() get.                                                            *)
FramesCounted == free + Cardinality(present) + taken = FrameCount

(* The heap has not reached its third directory: it is below 2 GB in the   *)
(* code.  Above, the search may stand at y = FANOUT of an odd directory,   *)
(* where the bit of y is there already, and alloc_vm reads and returns a   *)
(* page of the first table of that directory, in use or not.               *)
BelowThirdDirectory == <<2, 2>> \notin present

HeldPages == UNION {BlockPages(b) : b \in held}

(* What is mapped is what was handed out: alloc_vm hands no page out       *)
(* twice, a map() that did not get all its frames has taken none from      *)
(* another block, and a free_vm that did not return has unmapped one page  *)
(* of its block and no other.                                              *)
MappedIsHeld ==
  BelowThirdDirectory =>
    /\ stopped \in {"no", "alloc fault"} => Mapped = HeldPages
    /\ stopped = "no frames" => HeldPages \subseteq Mapped
    /\ stopped = "self lock" => \E b \in held : Mapped = HeldPages \ {b.at}
    /\ \A b, c \in held : b # c => BlockPages(b) \cap BlockPages(c) = {}

(* The pages in use are the first of the window: whatever the sizes, the   *)
(* search, whose indices may stand one past a table or a directory, leaves *)
(* no free page behind, not even when the frames run out in a block.       *)
WindowCompact ==
  BelowThirdDirectory /\ stopped # "self lock" =>
    \A q \in Mapped : 0 .. q \subseteq Mapped

(* alloc_vm reads a missing table in one situation only: the pages in use  *)
(* end at the end of a page table.  In every other it returns, or runs out *)
(* of frames.                                                              *)
FaultsOnlyAtTableEnd ==
  BelowThirdDirectory /\ stopped = "alloc fault" =>
    \E q \in Mapped : (q + 1) % FANOUT = 0 /\ \A r \in Mapped : r <= q

-----------------------------------------------------------------------------
(* liballoc_alloc returns "NULL if the pages were not allocated": it does  *)
(* return.  When the pages in use fill their tables it does not.           *)
AllocVmReturns == stopped # "alloc fault"
=============================================================================
