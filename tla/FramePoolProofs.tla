-------------------------- MODULE FramePoolProofs --------------------------
(***************************************************************************)
(* For every page and buffer size, any memory map and any order of calls:  *)
(* no page is lost or handed out twice, the list of free regions is        *)
(* sorted, nothing leaks, and the allocator is a FramePool.                *)
(*                                                                         *)
(* SafeMap is the condition: either no two regions touch, and then this    *)
(* holds for any number of processors and any interleaving, or there is    *)
(* one processor, as the boot code starts it, and the regions need only    *)
(* not overlap.  Two processors and touching regions are the README's      *)
(* finding 2: list_push drops lock[1] when it merges two nodes.            *)
(*                                                                         *)
(* PoolInv, the inductive invariant, says where every page is (Places,     *)
(* Kept), what each processor has in hand at each label (Hand), that no    *)
(* two have the same region (Owners), that nodes stay inside their regions *)
(* if those do not touch (Tails), and that the list holds in order the     *)
(* nodes that were linked into it: from avaliableMemory on while nobody is *)
(* in list_push (Whole); for the processor that is, those on its path of   *)
(* activations, then those from its node on (InOrder).                     *)
(***************************************************************************)
EXTENDS FrameAllocatorProofs, NaturalLemmas

-----------------------------------------------------------------------------
(* Addresses of pages, and the runs between them. *)
Aligned(x) == x \in Nat /\ x % PageSize = 0

(* A multiple of the page size, and & ~(PAGE_SIZE - 1), by division.       *)
LEMMA AlignedIs ==
  ASSUME NEW x \in Nat
  PROVE  /\ Aligned(x) => x = (x \div PageSize) * PageSize /\ x \div PageSize \in Nat
         /\ PageMask(x) = (x \div PageSize) * PageSize
<1>1. /\ x \div PageSize \in Nat
      /\ x = (x \div PageSize) * PageSize + (x % PageSize)
      /\ x % PageSize \in 0 .. PageSize - 1
  BY FrameAllocatorAssumption
<1>2. (x \div PageSize) * PageSize \in Nat
  BY <1>1, FrameAllocatorAssumption
<1>3. QED
  BY <1>1, <1>2 DEF Aligned, PageMask

(* k pages from 0 is the k-th page.                                        *)
LEMMA MultipleAligned ==
  ASSUME NEW k \in Nat
  PROVE  /\ Aligned(k * PageSize)
         /\ (k * PageSize) \div PageSize = k
<1> DEFINE m == k * PageSize
           q == m \div PageSize
           s == m % PageSize
<1>1. m \in Nat /\ PageSize \in Nat \ {0}
  BY FrameAllocatorAssumption
<1>2. q \in Nat /\ s \in 0 .. PageSize - 1 /\ m = q * PageSize + s
  BY <1>1
<1>3. q = k
  <2> HIDE DEF q, s
  <2>1. (k - q) * PageSize = s
    BY <1>1, <1>2
  <2>2. k - q < 1 /\ k - q > -1
    BY <1>1, <1>2, <2>1
  <2>3. QED
    BY <1>2, <2>2
<1>4. s = 0
  <2> HIDE DEF q, s
  <2>1. QED
    BY <1>1, <1>2, <1>3
<1>5. QED
  BY <1>1, <1>3, <1>4 DEF Aligned

(* PageMask rounds to a page, and changes nothing that is one.             *)
LEMMA MaskAligned ==
  /\ \A x \in Nat : Aligned(PageMask(x))
  /\ \A x : Aligned(x) => PageMask(x) = x
<1>1. ASSUME NEW x \in Nat
      PROVE  Aligned(PageMask(x))
  <2>1. x \div PageSize \in Nat
    BY FrameAllocatorAssumption
  <2>2. QED
    BY <2>1, AlignedIs, MultipleAligned
<1>2. ASSUME NEW x, Aligned(x)
      PROVE  PageMask(x) = x
  BY <1>2 DEF Aligned, PageMask
<1>3. QED
  BY <1>1, <1>2

(* Sums and differences of page addresses; two of them that differ are a   *)
(* page apart.                                                             *)
LEMMA AlignedSteps ==
  /\ Aligned(0) /\ Aligned(PageSize)
  /\ \A a, b : Aligned(a) /\ Aligned(b) => Aligned(a + b)
  /\ \A a, b : Aligned(a) /\ Aligned(b) /\ b <= a => Aligned(a - b)
  /\ \A a, b : Aligned(a) /\ Aligned(b) /\ a < b => a + PageSize <= b
<1>1. PageSize \in Nat \ {0}
  BY FrameAllocatorAssumption
<1>2. Aligned(0) /\ Aligned(PageSize)
  BY <1>1 DEF Aligned
<1>3. ASSUME NEW a, NEW b, Aligned(a), Aligned(b)
      PROVE  /\ Aligned(a + b)
             /\ b <= a => Aligned(a - b)
             /\ a < b => a + PageSize <= b
  <2>0. a \in Nat /\ b \in Nat
    BY <1>3 DEF Aligned
  <2>1. PICK j \in Nat : a = j * PageSize
    BY <1>3, <2>0, AlignedIs
  <2>2. PICK k \in Nat : b = k * PageSize
    BY <1>3, <2>0, AlignedIs
  <2>3. a + b = (j + k) * PageSize
    BY <1>1, <2>1, <2>2
  <2>4. Aligned(a + b)
    BY <2>3, MultipleAligned
  <2>5. ASSUME b <= a
        PROVE  Aligned(a - b)
    <3>1. k <= j
      BY <1>1, <2>1, <2>2, <2>5
    <3>2. a - b = (j - k) * PageSize /\ j - k \in Nat
      BY <1>1, <2>1, <2>2, <3>1
    <3>3. QED
      BY <3>2, MultipleAligned
  <2>6. ASSUME a < b
        PROVE  a + PageSize <= b
    <3>1. j < k
      BY <1>1, <2>1, <2>2, <2>6
    <3>2. (j + 1) * PageSize <= k * PageSize
      BY <1>1, <3>1
    <3>3. QED
      BY <1>1, <2>1, <2>2, <3>2
  <2>7. QED
    BY <2>4, <2>5, <2>6
<1>4. QED
  BY <1>2, <1>3

(* A run of pages, by its first address and the one past it. *)
Page(x, m) == Aligned(x) /\ m.base <= x /\ x < m.base + m.size

(* PagesIn by membership instead of by a set of quotients.                 *)
LEMMA PagesInAre ==
  ASSUME NEW m, Aligned(m.base), Aligned(m.size)
  PROVE  \A x : x \in PagesIn(m) <=> Page(x, m)
<1>0. PageSize \in Nat \ {0} /\ m.base \in Nat /\ m.size \in Nat
  BY FrameAllocatorAssumption DEF Aligned
<1> DEFINE n == m.size \div PageSize
<1>1. n \in Nat /\ m.size = n * PageSize
  BY <1>0, AlignedIs
<1> HIDE DEF n
<1>2. ASSUME NEW k \in 0 .. n - 1
      PROVE  Page(m.base + k * PageSize, m)
  <2>1. Aligned(k * PageSize) /\ k \in Nat
    BY <1>1, MultipleAligned
  <2>2. Aligned(m.base + k * PageSize)
    BY <2>1, AlignedSteps
  <2>3. (k + 1) * PageSize <= n * PageSize
    BY <1>0, <1>1
  <2>4. k * PageSize \in Nat /\ k * PageSize + PageSize <= m.size
    BY <1>0, <1>1, <2>1, <2>3
  <2>5. QED
    BY <1>0, <2>2, <2>4 DEF Page
<1>3. ASSUME NEW x, Page(x, m)
      PROVE  \E k \in 0 .. n - 1 : x = m.base + k * PageSize
  <2>0. x \in Nat /\ m.base <= x /\ x < m.base + m.size /\ Aligned(x)
    BY <1>3 DEF Page, Aligned
  <2>1. Aligned(x - m.base) /\ x - m.base \in Nat
    BY <1>0, <2>0, AlignedSteps
  <2>2. PICK k \in Nat : x - m.base = k * PageSize
    BY <2>1, AlignedIs
  <2>3. k * PageSize < n * PageSize
    BY <1>0, <1>1, <2>0, <2>2
  <2>4. k < n
    BY <1>0, <1>1, <2>3
  <2>5. k \in 0 .. n - 1
    BY <1>1, <2>4
  <2>6. x = m.base + k * PageSize
    <3>1. k * PageSize \in Nat
      BY <1>0
    <3>2. QED
      BY <1>0, <2>0, <2>2, <3>1
  <2>7. QED
    BY <2>5, <2>6
<1>4. QED
  BY <1>2, <1>3 DEF PagesIn, n

(* Runs that have no byte in common. *)
Apart(m, n) == m.base + m.size <= n.base \/ n.base + n.size <= m.base

Run(m) == Aligned(m.base) /\ Aligned(m.size)

LEMMA RunType ==
  ASSUME NEW m, Run(m)
  PROVE  m.base \in Nat /\ m.size \in Nat
BY DEF Run, Aligned

(* What is left of a run without its first page. *)
LEMMA DropRun ==
  ASSUME NEW m, NEW d, Run(m), m.size >= PageSize,
         d.base = m.base + PageSize, d.size = m.size - PageSize
  PROVE  /\ Run(d)
         /\ Page(m.base, m) /\ ~Page(m.base, d)
         /\ \A x : Page(x, m) <=> x = m.base \/ Page(x, d)
         /\ d.base + d.size = m.base + m.size
<1>0. PageSize \in Nat \ {0} /\ m.base \in Nat /\ m.size \in Nat
  BY FrameAllocatorAssumption, RunType
<1>1. Run(d)
  BY AlignedSteps DEF Run
<1>2. d.base \in Nat /\ d.size \in Nat /\ d.base + d.size = m.base + m.size
  BY <1>0, <1>1, RunType
<1>3. Page(m.base, m) /\ ~Page(m.base, d)
  BY <1>0 DEF Page, Run
<1>4. ASSUME NEW x, Page(x, m), x # m.base
      PROVE  Page(x, d)
  <2>1. x \in Nat /\ Aligned(x) /\ m.base < x
    BY <1>0, <1>4 DEF Page, Aligned
  <2>2. m.base + PageSize <= x
    BY <2>1, AlignedSteps DEF Run
  <2>3. QED
    BY <1>2, <1>4, <2>1, <2>2 DEF Page
<1>5. ASSUME NEW x, Page(x, d)
      PROVE  Page(x, m)
  <2>1. x \in Nat
    BY <1>5 DEF Page, Aligned
  <2>2. QED
    BY <1>0, <1>2, <1>5, <2>1 DEF Page
<1>6. QED
  BY <1>1, <1>2, <1>3, <1>4, <1>5

(* Runs that are apart have no page in common; runs that have none, and    *)
(* have pages, are apart.                                                  *)
LEMMA ApartPages ==
  ASSUME NEW m, NEW n, Run(m), Run(n)
  PROVE  /\ Apart(m, n) => \A x : ~(Page(x, m) /\ Page(x, n))
         /\ m.size > 0 /\ n.size > 0 /\ (\A x : ~(Page(x, m) /\ Page(x, n)))
              => Apart(m, n)
<1>0. m.base \in Nat /\ m.size \in Nat /\ n.base \in Nat /\ n.size \in Nat
  BY RunType
<1>1. ASSUME Apart(m, n), NEW x, Page(x, m), Page(x, n)
      PROVE  FALSE
  <2>1. x \in Nat
    BY <1>1 DEF Page, Aligned
  <2>2. QED
    BY <1>0, <1>1, <2>1 DEF Page, Apart
<1>2. ASSUME m.size > 0, n.size > 0, ~Apart(m, n)
      PROVE  Page(m.base, n) \/ Page(n.base, m) \/ m.base = n.base
  BY <1>0, <1>2 DEF Page, Apart, Run
<1>3. m.size > 0 => Page(m.base, m)
  BY <1>0 DEF Page, Run
<1>4. n.size > 0 => Page(n.base, n)
  BY <1>0 DEF Page, Run
<1>5. QED
  BY <1>1, <1>2, <1>3, <1>4

(* A run is apart from an empty place if the page before it is not in it.  *)
LEMMA ApartPlace ==
  ASSUME NEW m, NEW n, Run(m), Run(n), n.size = 0, m.size > 0,
         NEW x, Aligned(x), n.base = x + PageSize, ~Page(x, m)
  PROVE  Apart(m, n)
<1>0. m.base \in Nat /\ m.size \in Nat /\ n.base \in Nat /\ x \in Nat
      /\ PageSize \in Nat \ {0}
  BY FrameAllocatorAssumption, RunType DEF Aligned
<1>1. x < m.base \/ m.base + m.size <= x
  BY <1>0 DEF Page
<1>2. CASE x < m.base
  <2>1. x + PageSize <= m.base
    BY <1>2, AlignedSteps DEF Run
  <2>2. QED
    BY <1>0, <2>1 DEF Apart
<1>3. CASE m.base + m.size <= x
  BY <1>0, <1>3 DEF Apart
<1>4. QED
  BY <1>1, <1>2, <1>3

(* A run that takes over the one it reaches. *)
LEMMA JoinRuns ==
  ASSUME NEW m, NEW n, NEW j, Run(m), Run(n), m.base + m.size = n.base,
         j.base = m.base, j.size = n.base + n.size - m.base
  PROVE  /\ Run(j)
         /\ j.base + j.size = n.base + n.size
         /\ j.size = m.size + n.size
         /\ \A x : Page(x, j) <=> Page(x, m) \/ Page(x, n)
<1>0. m.base \in Nat /\ m.size \in Nat /\ n.base \in Nat /\ n.size \in Nat
  BY RunType
<1>1. j.size = m.size + n.size
  BY <1>0
<1>2. Run(j)
  BY <1>1, AlignedSteps DEF Run
<1>3. ASSUME NEW x
      PROVE  Page(x, j) <=> Page(x, m) \/ Page(x, n)
  <2>1. Aligned(x) => x \in Nat
    BY DEF Aligned
  <2>2. QED
    BY <1>0, <1>1, <2>1 DEF Page
<1>4. QED
  BY <1>0, <1>1, <1>2, <1>3

-----------------------------------------------------------------------------
(* The pages of the regions given so far. *)
Added == UNION {PagesIn(Normalize(r)) : r \in Regions \ todo}

AllRuns ==
  /\ \A n \in live : Run(node[n])
  /\ \A c \in CPUs : Run(loc[c].map)

(* x is a free page. *)
IsBuffered(x) == \E i \in 0 .. qtd_buffer - 1 : x = frame_buffer[i]
IsListed(x)   == \E n \in live : Page(x, node[n])
IsInHand(x)   == \E c \in CPUs : Page(x, loc[c].map)

(* FreeFrames is what is in the buffer, in a node or in hand.              *)
LEMMA FreeFramesAre ==
  AllRuns => \A x : x \in FreeFrames <=> IsBuffered(x) \/ IsListed(x) \/ IsInHand(x)
<1> SUFFICES ASSUME AllRuns
             PROVE  \A x : x \in FreeFrames <=> IsBuffered(x) \/ IsListed(x) \/ IsInHand(x)
  OBVIOUS
<1>1. \A x : x \in Buffered <=> IsBuffered(x)
  BY DEF Buffered, IsBuffered
<1>2. \A x : IsListed(x) <=> \E n \in live : x \in PagesIn(node[n])
  BY PagesInAre DEF AllRuns, Run, IsListed
<1>3. \A x : IsInHand(x) <=> \E c \in CPUs : x \in PagesIn(loc[c].map)
  BY PagesInAre DEF AllRuns, Run, IsInHand
<1>4. \A n \in live : PagesIn([base |-> node[n].base, size |-> node[n].size]) = PagesIn(node[n])
  BY DEF PagesIn
<1>5. \A x : x \in UNION {PagesIn(m) : m \in Runs}
               <=> \/ \E n \in live : x \in PagesIn(node[n])
                   \/ \E c \in CPUs : x \in PagesIn(loc[c].map)
  <2>1. ASSUME NEW x, x \in UNION {PagesIn(m) : m \in Runs}
        PROVE  \/ \E n \in live : x \in PagesIn(node[n])
               \/ \E c \in CPUs : x \in PagesIn(loc[c].map)
    <3>1. PICK m \in Runs : x \in PagesIn(m)
      BY <2>1
    <3>2. QED
      BY <3>1, <1>4 DEF Runs
  <2>2. ASSUME NEW x, NEW n \in live, x \in PagesIn(node[n])
        PROVE  x \in UNION {PagesIn(m) : m \in Runs}
    BY <2>2, <1>4 DEF Runs
  <2>3. ASSUME NEW x, NEW c \in CPUs, x \in PagesIn(loc[c].map)
        PROVE  x \in UNION {PagesIn(m) : m \in Runs}
    BY <2>3 DEF Runs
  <2>4. QED
    BY <2>1, <2>2, <2>3
<1>6. QED
  BY <1>1, <1>2, <1>3, <1>5 DEF FreeFrames

(* The same after a step.                                                  *)
LEMMA FreeFramesAreNext ==
  (AllRuns => \A x : x \in FreeFrames <=> IsBuffered(x) \/ IsListed(x) \/ IsInHand(x))'
BY FreeFramesAre, PTL

-----------------------------------------------------------------------------
Growing == {"fill", "fillAdd", "malloc", "newObj"}
Getting == {"alloc", "loadLock", "load", "loadAdd", "loadRet", "take", "panic",
            "freeHead"}
Pushing == {"descend", "unwind", "merge", "mergeFree", "relock"}

(* CPU c has a region in hand that is not yet in a list node. *)
Carries(c) == pc[c] \in Growing \/ (pc[c] \in Getting /\ ~loc[c].client)

(* What a CPU has in hand at each place. *)
Hand(c) ==
  /\ ~Carries(c) => loc[c].map = NoMap
  /\ Carries(c) => loc[c].obj \in Regions \ (todo \cup live)
  /\ Carries(c) /\ pc[c] # "fill" => loc[c].map.size >= PageSize
  /\ pc[c] \in {"pushLock", "descend"} => loc[c].obj \in live /\ node[loc[c].obj].size > 0
  /\ pc[c] = "loadAdd" => node[avaliableMemory].size >= PageSize
  /\ pc[c] = "idle" => loc[c] = NoLocals
  /\ pc[c] \in Growing => ~loc[c].client
  /\ pc[c] \notin Pushing \cup {"selfLock"} => loc[c].path = <<>>

RunsApart ==
  /\ \A m, n \in live : m # n => Apart(node[m], node[n])
  /\ \A n \in live, c \in CPUs : loc[c].map.size > 0 => Apart(loc[c].map, node[n])
  /\ \A c, d \in CPUs : c # d /\ loc[c].map.size > 0 /\ loc[d].map.size > 0
       => Apart(loc[c].map, loc[d].map)

(* The page before an emptied node was in it. *)
EmptyRuns ==
  \A n \in live : node[n].size = 0 => \E x \in Added : node[n].base = x + PageSize

BufferDistinct ==
  \A i, j \in 0 .. qtd_buffer - 1 : i # j => frame_buffer[i] # frame_buffer[j]

BufferApart == \A x : IsBuffered(x) => ~IsListed(x) /\ ~IsInHand(x)

Kept == FreeFrames \cap mapped = {} /\ FreeFrames \cup mapped = Added

Places ==
  /\ AllRuns
  /\ live \subseteq Regions \ todo
  /\ RunsApart
  /\ EmptyRuns
  /\ BufferDistinct
  /\ BufferApart

(* Regions are disjoint: no page is given twice. *)
RegionsDisjoint ==
  \A r, s \in Regions : r # s => PagesIn(Normalize(r)) \cap PagesIn(Normalize(s)) = {}

(* They do not even touch. *)
RegionsApart ==
  \A r, s \in Regions : r # s /\ Normalize(r).size > 0 /\ Normalize(s).size > 0 =>
    \/ Normalize(r).base + Normalize(r).size < Normalize(s).base
    \/ Normalize(s).base + Normalize(s).size < Normalize(r).base

(* What the theorems ask of the memory map: regions that do not touch, or  *)
(* one processor and regions that do not overlap.                          *)
SafeMap == RegionsApart \/ (RegionsDisjoint /\ \E c : CPUs = {c})

LEMMA NormalizeRun == \A r \in Regions : Run(Normalize(r))
<1> SUFFICES ASSUME NEW r \in Regions
             PROVE  Run(Normalize(r))
  OBVIOUS
<1>1. r.base \in Nat /\ r.size \in Nat
  BY FrameAllocatorAssumption
<1>2. (r.size - (r.base % PageSize)) % Word \in Nat
  BY <1>1, FrameAllocatorAssumption
<1>3. QED
  BY <1>1, <1>2, MaskAligned DEF Run, Normalize

(* Regions that do not touch have no page in common.                       *)
LEMMA SafeDisjoint == SafeMap => RegionsDisjoint
<1> SUFFICES ASSUME RegionsApart, NEW r \in Regions, NEW s \in Regions, r # s,
                    NEW x \in PagesIn(Normalize(r)), x \in PagesIn(Normalize(s))
             PROVE  FALSE
  BY DEF SafeMap, RegionsDisjoint
<1> DEFINE m == Normalize(r)
           n == Normalize(s)
<1>1. Run(m) /\ Run(n) /\ x \in PagesIn(m) /\ x \in PagesIn(n)
  BY NormalizeRun
<1>2. m.size > 0 /\ n.size > 0 => m.base + m.size < n.base \/ n.base + n.size < m.base
  BY DEF RegionsApart
<1> HIDE DEF m, n
<1>3. Page(x, m) /\ Page(x, n)
  BY <1>1, PagesInAre DEF Run
<1>4. m.base \in Nat /\ m.size \in Nat /\ n.base \in Nat /\ n.size \in Nat /\ x \in Nat
  BY <1>1, <1>3, RunType DEF Page, Aligned
<1>5. QED
  BY <1>2, <1>3, <1>4 DEF Page

(* The pages addMemorySpace was given are pages: it masks the base.        *)
LEMMA AddedAligned == \A x \in Added : Aligned(x)
<1> SUFFICES ASSUME NEW r \in Regions, NEW x \in PagesIn(Normalize(r))
             PROVE  Aligned(x)
  BY DEF Added
<1>1. Run(Normalize(r))
  BY NormalizeRun
<1>2. QED
  BY <1>1, PagesInAre DEF Run, Page

(* Steps that touch neither pages nor runs. *)
LEMMA SamePlaces ==
  ASSUME Places,
         live' = live, qtd_buffer' = qtd_buffer, frame_buffer' = frame_buffer,
         todo' = todo,
         \A n \in live : node'[n].base = node[n].base /\ node'[n].size = node[n].size,
         \A c \in CPUs : loc'[c].map = loc[c].map
  PROVE  Places' /\ FreeFrames' = FreeFrames
<1>1. AllRuns'
  BY DEF Places, AllRuns, Run
<1>2. \A x : /\ IsBuffered(x)' <=> IsBuffered(x)
             /\ IsListed(x)' <=> IsListed(x)
             /\ IsInHand(x)' <=> IsInHand(x)
  BY DEF IsBuffered, IsListed, IsInHand, Page
<1>3. FreeFrames' = FreeFrames
  <2>1. \A x : x \in FreeFrames' <=> x \in FreeFrames
    BY <1>1, <1>2, FreeFramesAre, FreeFramesAreNext DEF Places
  <2>2. QED
    BY <2>1
<1>4. RunsApart'
  BY DEF Places, RunsApart, Apart
<1>5. EmptyRuns'
  BY DEF Places, EmptyRuns, Added
<1>6. BufferDistinct' /\ BufferApart'
  BY <1>2 DEF Places, BufferDistinct, BufferApart
<1>7. QED
  BY <1>1, <1>3, <1>4, <1>5, <1>6 DEF Places

(* x is in hand, and not in c's. *)
InOtherHand(c, x) == \E d \in CPUs : d # c /\ Page(x, loc[d].map)

(* A page in a CPU's hand is nowhere else. *)
LEMMA HandAlone ==
  ASSUME Places, NEW c \in CPUs, NEW x, Page(x, loc[c].map)
  PROVE  loc[c].map.size > 0 /\ ~IsBuffered(x) /\ ~IsListed(x) /\ ~InOtherHand(c, x)
<1>1. /\ \A n \in live : Run(node[n])
      /\ \A d \in CPUs : Run(loc[d].map)
      /\ RunsApart /\ BufferApart
  BY DEF Places, AllRuns
<1>2. \A d \in CPUs : Page(x, loc[d].map) => loc[d].map.size > 0
  <2>1. x \in Nat
    BY DEF Page, Aligned
  <2>2. QED
    BY <1>1, <2>1, RunType DEF Page
<1>3. ~IsBuffered(x)
  BY <1>1 DEF BufferApart, IsInHand
<1>4. \A n \in live : ~Page(x, node[n])
  <2>1. \A n \in live : Apart(loc[c].map, node[n])
    BY <1>1, <1>2 DEF RunsApart
  <2>2. QED
    BY <1>1, <2>1, ApartPages
<1>5. \A d \in CPUs : d # c => ~Page(x, loc[d].map)
  <2>1. SUFFICES ASSUME NEW d \in CPUs, d # c, Page(x, loc[d].map)
                 PROVE  FALSE
    OBVIOUS
  <2>2. Apart(loc[c].map, loc[d].map)
    BY <1>1, <1>2, <2>1 DEF RunsApart
  <2>3. QED
    BY <1>1, <2>1, <2>2, ApartPages
<1>6. QED
  BY <1>2, <1>3, <1>4, <1>5 DEF IsListed, InOtherHand

(* A page in a list node is nowhere else. *)
LEMMA NodeAlone ==
  ASSUME Places, NEW h \in live, NEW x, Page(x, node[h])
  PROVE  /\ ~IsBuffered(x) /\ ~IsInHand(x)
         /\ \A n \in live : n # h => ~Page(x, node[n])
<1>1. IsListed(x)
  BY DEF IsListed
<1>2. ~IsBuffered(x) /\ ~IsInHand(x)
  <2>1. \A d \in CPUs : ~Page(x, loc[d].map)
    BY <1>1, HandAlone
  <2>2. QED
    BY <1>1, <2>1 DEF IsInHand, Places, BufferApart
<1>3. ASSUME NEW n \in live, n # h
      PROVE  ~Page(x, node[n])
  <2>1. Apart(node[h], node[n]) /\ Run(node[h]) /\ Run(node[n])
    BY <1>3 DEF Places, RunsApart, AllRuns
  <2>2. QED
    BY <2>1, ApartPages
<1>4. QED
  BY <1>2, <1>3

(* A frame is stored into the buffer. *)
LEMMA StoreFrame ==
  ASSUME TypeOK, qtd_buffer \in Slots, qtd_buffer < 255,
         NEW f, Aligned(f), AddFrameInBuffer(f)
  PROVE  /\ qtd_buffer' = qtd_buffer + 1
         /\ \A x : IsBuffered(x)' <=> IsBuffered(x) \/ x = f
         /\ BufferDistinct /\ ~IsBuffered(f) => BufferDistinct'
<1>1. qtd_buffer \in 0 .. 254 /\ qtd_buffer' = qtd_buffer + 1
  <2>1. qtd_buffer \in 0 .. 254
    BY DEF TypeOK
  <2>2. \A k \in 0 .. 255 : k % 256 = k
    OBVIOUS
  <2>3. QED
    BY <2>1, <2>2 DEF AddFrameInBuffer
<1>2. \A i \in 0 .. qtd_buffer - 1 : i \in Slots
  BY <1>1, FrameAllocatorAssumption DEF Slots
<1>3. /\ frame_buffer'[qtd_buffer] = f
      /\ \A i \in 0 .. qtd_buffer - 1 : frame_buffer'[i] = frame_buffer[i]
  BY <1>1, <1>2, MaskAligned DEF TypeOK, AddFrameInBuffer
<1>4. 0 .. qtd_buffer' - 1 = (0 .. qtd_buffer - 1) \cup {qtd_buffer}
  BY <1>1
<1>5. QED
  BY <1>1, <1>3, <1>4 DEF IsBuffered, BufferDistinct

(* addMemorySpace buffers the first page of its region. *)
LEMMA FillAddPlaces ==
  ASSUME BufferInv, TypeInv, Places, NEW c \in CPUs, FillAdd(c), Hand(c)
  PROVE  Places' /\ FreeFrames' = FreeFrames
<1> DEFINE m == loc[c].map
           d == loc'[c].map
<1>0. /\ qtd_buffer \in Slots /\ qtd_buffer < 255
      /\ TypeOK /\ c \in CPUs /\ m \in MemorySpaces /\ loc \in [CPUs -> Locals]
  <2>1. c \in Adding
    BY DEF Adding, FillAdd
  <2>2. qtd_buffer + 1 <= MaxBuffer + Slack /\ qtd_buffer + 1 < 256
    BY <2>1, RoomLeft
  <2>3. qtd_buffer \in 0 .. 255
    BY DEF BufferInv
  <2>4. qtd_buffer \in Slots /\ qtd_buffer < 255
    BY <2>2, <2>3, FrameAllocatorAssumption DEF Slots
  <2>5. QED
    BY <2>4 DEF TypeInv, TypeOK, Locals
<1>1. /\ Run(m) /\ m.size >= PageSize
      /\ d.base = m.base + PageSize /\ d.size = m.size - PageSize
  BY <1>0 DEF FillAdd, DropPage, Hand, Carries, Growing, Places, AllRuns, MemorySpaces, Locals
<1>2. /\ Run(d)
      /\ Page(m.base, m) /\ ~Page(m.base, d)
      /\ \A x : Page(x, m) <=> x = m.base \/ Page(x, d)
      /\ d.base + d.size = m.base + m.size
  <2> HIDE DEF m, d
  <2>1. QED
    BY <1>1, DropRun
<1>3. /\ UNCHANGED <<live, node, todo, mapped>>
      /\ AddFrameInBuffer(m.base)
      /\ \A e \in CPUs : e # c => loc'[e] = loc[e]
  BY <1>0 DEF FillAdd
<1>3a. m.size > 0 /\ PageSize \in Nat \ {0} /\ m.base \in Nat /\ m.size \in Nat
  BY <1>1, RunType, FrameAllocatorAssumption
<1> HIDE DEF m, d
<1>4. /\ \A x : IsListed(x)' <=> IsListed(x)
      /\ \A x : IsInHand(x) <=> Page(x, m) \/ InOtherHand(c, x)
      /\ \A x : IsInHand(x)' <=> Page(x, d) \/ InOtherHand(c, x)
  BY <1>3 DEF IsListed, IsInHand, InOtherHand, m, d
<1>5. ~IsBuffered(m.base) /\ ~IsListed(m.base) /\ ~InOtherHand(c, m.base)
  BY <1>2, HandAlone DEF m
<1>6. /\ \A x : IsBuffered(x)' <=> IsBuffered(x) \/ x = m.base
      /\ BufferDistinct'
  BY <1>0, <1>1, <1>3, <1>5, StoreFrame DEF Places, Run
<1>7. AllRuns'
  BY <1>2, <1>3 DEF Places, AllRuns, Run, d
<1>8. FreeFrames' = FreeFrames
  <2>1. \A x : x \in FreeFrames' <=> x \in FreeFrames
    BY <1>2, <1>4, <1>6, <1>7, FreeFramesAre, FreeFramesAreNext DEF Places
  <2>2. QED
    BY <2>1
<1>9. RunsApart'
  <2>1. ASSUME NEW r, Run(r), Apart(m, r)
        PROVE  Apart(d, r) /\ Apart(r, d)
    <3>1. r.base \in Nat /\ r.size \in Nat
      BY <2>1, RunType
    <3>2. QED
      BY <1>1, <1>2, <1>3a, <2>1, <3>1 DEF Apart
  <2>2. \A n \in live : Apart(d, node[n])
    <3>1. \A n \in live : Apart(m, node[n]) /\ Run(node[n])
      BY <1>3a DEF Places, RunsApart, AllRuns, m
    <3>2. QED
      BY <2>1, <3>1
  <2>3. \A e \in CPUs : e # c /\ loc[e].map.size > 0
          => Apart(d, loc[e].map) /\ Apart(loc[e].map, d)
    <3>1. \A e \in CPUs : e # c /\ loc[e].map.size > 0
            => Apart(m, loc[e].map) /\ Run(loc[e].map)
      BY <1>3a DEF Places, RunsApart, AllRuns, m
    <3>2. QED
      BY <2>1, <3>1
  <2>4. (\A k, n \in live : k # n => Apart(node[k], node[n]))'
    BY <1>3 DEF Places, RunsApart
  <2>5. (\A n \in live, e \in CPUs : loc[e].map.size > 0 => Apart(loc[e].map, node[n]))'
    BY <1>3, <2>2 DEF Places, RunsApart, d
  <2>6. (\A e, g \in CPUs : e # g /\ loc[e].map.size > 0 /\ loc[g].map.size > 0
          => Apart(loc[e].map, loc[g].map))'
    BY <1>3, <2>3 DEF Places, RunsApart, d
  <2>7. QED
    BY <2>4, <2>5, <2>6 DEF RunsApart
<1>10. EmptyRuns'
  BY <1>3 DEF Places, EmptyRuns, Added
<1>11. BufferApart'
  BY <1>2, <1>4, <1>5, <1>6 DEF Places, BufferApart
<1>12. QED
  BY <1>3, <1>6, <1>7, <1>8, <1>9, <1>10, <1>11 DEF Places

(* loadBuffer buffers the first page of the first list node. *)
LEMMA LoadAddPlaces ==
  ASSUME BufferInv, TypeInv, Places, Kept, NEW c \in CPUs, LoadAdd(c),
         avaliableMemory \in live, node[avaliableMemory].size >= PageSize
  PROVE  Places' /\ FreeFrames' = FreeFrames
<1> DEFINE h == avaliableMemory
           m == node[h]
           d == node'[h]
<1>0. /\ qtd_buffer \in Slots /\ qtd_buffer < 255
      /\ TypeOK /\ live \subseteq Regions
      /\ node \in [Regions -> [base : Nat, size : Int, next : NodesOrNull]]
  <2>1. c \in Adding
    BY DEF Adding, LoadAdd
  <2>2. qtd_buffer + 1 <= MaxBuffer + Slack /\ qtd_buffer + 1 < 256
    BY <2>1, RoomLeft
  <2>3. qtd_buffer \in 0 .. 255
    BY DEF BufferInv
  <2>4. qtd_buffer \in Slots /\ qtd_buffer < 255
    BY <2>2, <2>3, FrameAllocatorAssumption DEF Slots
  <2>5. QED
    BY <2>4 DEF TypeInv, TypeOK, Locals
<1>1. /\ Run(m) /\ m.size >= PageSize
      /\ d.base = m.base + PageSize /\ d.size = m.size - PageSize
      /\ \A n \in live : n # h => node'[n] = node[n]
  <2>1. h \in Regions /\ node' = [node EXCEPT ![h] = DropPage(node[h])]
    BY <1>0 DEF LoadAdd
  <2>2. node'[h] = DropPage(m) /\ \A n \in live : n # h => node'[n] = node[n]
    BY <1>0, <2>1
  <2>3. QED
    BY <1>0, <2>1, <2>2 DEF DropPage, Places, AllRuns
<1>2. /\ Run(d)
      /\ Page(m.base, m) /\ ~Page(m.base, d)
      /\ \A x : Page(x, m) <=> x = m.base \/ Page(x, d)
      /\ d.base + d.size = m.base + m.size
  <2> HIDE DEF m, d
  <2>1. QED
    BY <1>1, DropRun
<1>3. /\ UNCHANGED <<live, loc, todo, mapped>>
      /\ AddFrameInBuffer(m.base)
  BY DEF LoadAdd
<1>3a. m.size > 0 /\ PageSize \in Nat \ {0} /\ m.base \in Nat /\ m.size \in Nat
  BY <1>1, RunType, FrameAllocatorAssumption
<1> HIDE DEF m, d
<1>4. /\ \A x : IsInHand(x)' <=> IsInHand(x)
      /\ \A x : IsListed(x) <=> Page(x, m) \/ \E n \in live : n # h /\ Page(x, node[n])
      /\ \A x : IsListed(x)' <=> Page(x, d) \/ \E n \in live : n # h /\ Page(x, node[n])
  BY <1>1, <1>3 DEF IsListed, IsInHand, m, d
<1>5. /\ ~IsBuffered(m.base) /\ ~IsInHand(m.base)
      /\ \A n \in live : n # h => ~Page(m.base, node[n])
  BY <1>2, NodeAlone DEF m
<1>6. /\ \A x : IsBuffered(x)' <=> IsBuffered(x) \/ x = m.base
      /\ BufferDistinct'
  BY <1>0, <1>1, <1>3, <1>5, StoreFrame DEF Places, Run
<1>7. AllRuns'
  BY <1>1, <1>2, <1>3 DEF Places, AllRuns, d
<1>8. FreeFrames' = FreeFrames
  <2>1. \A x : x \in FreeFrames' <=> x \in FreeFrames
    BY <1>2, <1>4, <1>6, <1>7, FreeFramesAre, FreeFramesAreNext DEF Places
  <2>2. QED
    BY <2>1
<1>9. RunsApart'
  <2>1. ASSUME NEW r, Run(r)
        PROVE  /\ Apart(r, m) => Apart(r, d)
               /\ Apart(m, r) => Apart(d, r)
    <3>1. r.base \in Nat /\ r.size \in Nat
      BY <2>1, RunType
    <3>2. QED
      BY <1>1, <1>2, <1>3a, <3>1 DEF Apart
  <2>2. ASSUME NEW k \in live, NEW n \in live, k # n
        PROVE  Apart(node'[k], node'[n])
    <3>1. Apart(node[k], node[n]) /\ Run(node[k]) /\ Run(node[n])
      BY <2>2 DEF Places, RunsApart, AllRuns
    <3>2. QED
      BY <1>1, <2>1, <2>2, <3>1 DEF m, d
  <2>3. ASSUME NEW n \in live, NEW e \in CPUs, loc[e].map.size > 0
        PROVE  Apart(loc[e].map, node'[n])
    <3>1. Apart(loc[e].map, node[n]) /\ Run(loc[e].map)
      BY <2>3 DEF Places, RunsApart, AllRuns
    <3>2. QED
      BY <1>1, <2>1, <3>1 DEF m, d
  <2>4. (\A k, n \in live : k # n => Apart(node[k], node[n]))'
    BY <1>3, <2>2
  <2>5. (\A n \in live, e \in CPUs : loc[e].map.size > 0 => Apart(loc[e].map, node[n]))'
    BY <1>3, <2>3
  <2>6. (\A e, g \in CPUs : e # g /\ loc[e].map.size > 0 /\ loc[g].map.size > 0
          => Apart(loc[e].map, loc[g].map))'
    BY <1>3 DEF Places, RunsApart
  <2>7. QED
    BY <2>4, <2>5, <2>6 DEF RunsApart
<1>10. EmptyRuns'
  <2>1. m.base \in Added
    <3>1. IsListed(m.base)
      BY <1>2, <1>4
    <3>2. QED
      BY <3>1, FreeFramesAre DEF Places, Kept
  <2>2. Added' = Added
    BY <1>3 DEF Added
  <2>3. QED
    BY <1>1, <1>3, <2>1, <2>2 DEF Places, EmptyRuns, d
<1>11. BufferApart'
  BY <1>2, <1>4, <1>5, <1>6 DEF Places, BufferApart
<1>12. QED
  BY <1>3, <1>6, <1>7, <1>8, <1>9, <1>10, <1>11 DEF Places

(* A CPU without a region has no pages in hand.                            *)
LEMMA NoMapRun == Run(NoMap) /\ \A x : ~Page(x, NoMap)
<1>1. \A x : ~Page(x, NoMap)
  <2>1. SUFFICES ASSUME NEW x, Page(x, NoMap)
                 PROVE  FALSE
    OBVIOUS
  <2>2. x \in Nat /\ 0 <= x /\ x < 0 + 0
    BY <2>1 DEF Page, NoMap, Aligned
  <2>3. QED
    BY <2>2
<1>2. QED
  BY <1>1, AlignedSteps DEF NoMap, Run

(* addMemorySpace returns with less than a page: there was none. *)
LEMMA EmptyHandPlaces ==
  ASSUME Places, NEW c \in CPUs, loc[c].map.size < PageSize,
         UNCHANGED <<live, node, qtd_buffer, frame_buffer, todo, mapped>>,
         loc'[c].map = NoMap, \A e \in CPUs : e # c => loc'[e] = loc[e]
  PROVE  Places' /\ FreeFrames' = FreeFrames
<1>1. AllRuns'
  BY NoMapRun DEF Places, AllRuns, Run
<1>2. \A x : ~Page(x, loc[c].map)
  <2>1. Run(loc[c].map)
    BY DEF Places, AllRuns
  <2>2. loc[c].map.size = 0
    <3>1. 0 < loc[c].map.size => 0 + PageSize <= loc[c].map.size
      BY <2>1, AlignedSteps DEF Run
    <3>2. QED
      BY <2>1, <3>1, RunType, FrameAllocatorAssumption
  <2>3. SUFFICES ASSUME NEW x, Page(x, loc[c].map)
                 PROVE  FALSE
    OBVIOUS
  <2>4. x \in Nat
    BY <2>3 DEF Page, Aligned
  <2>5. QED
    BY <2>1, <2>2, <2>3, <2>4, RunType DEF Page
<1>3. \A x : /\ IsBuffered(x)' <=> IsBuffered(x)
             /\ IsListed(x)' <=> IsListed(x)
             /\ IsInHand(x)' <=> IsInHand(x)
  <2>1. \A x : IsInHand(x)' <=> InOtherHand(c, x)
    BY NoMapRun DEF IsInHand, InOtherHand
  <2>2. \A x : IsInHand(x) <=> InOtherHand(c, x)
    BY <1>2 DEF IsInHand, InOtherHand
  <2>3. QED
    BY <2>1, <2>2 DEF IsBuffered, IsListed
<1>4. FreeFrames' = FreeFrames
  <2>1. \A x : x \in FreeFrames' <=> x \in FreeFrames
    BY <1>1, <1>3, FreeFramesAre, FreeFramesAreNext DEF Places
  <2>2. QED
    BY <2>1
<1>5. RunsApart'
  <2>1. ~(loc'[c].map.size > 0)
    BY DEF NoMap
  <2>2. QED
    BY <2>1 DEF Places, RunsApart, Apart
<1>6. EmptyRuns' /\ BufferDistinct' /\ BufferApart'
  BY <1>3 DEF Places, EmptyRuns, Added, BufferDistinct, BufferApart
<1>7. QED
  BY <1>1, <1>4, <1>5, <1>6 DEF Places

(* allocate() hands out the frame on top of the buffer. *)
LEMMA TakePlaces ==
  ASSUME BufferInv, TypeInv, Places, Kept, NEW c \in CPUs, Take(c)
  PROVE  /\ Places'
         /\ \E f \in FreeFrames : /\ FreeFrames' = FreeFrames \ {f}
                                  /\ mapped' = mapped \cup {f}
<1>1. qtd_buffer \in 1 .. 255
  <2>1. qtd_buffer > 0 /\ qtd_buffer \in 0 .. 255
    BY DEF Take, BufferInv, NoUnderflow
  <2>2. QED
    BY <2>1
<1>2. TopSlot = qtd_buffer - 1 /\ qtd_buffer' = qtd_buffer - 1
  <2>1. qtd_buffer - 1 \in 0 .. 255
    BY <1>1
  <2>2. \A k \in 0 .. 255 : k % 256 = k
    OBVIOUS
  <2>3. QED
    BY <2>1, <2>2 DEF Take, TopSlot
<1>a. PICK f : f = frame_buffer[TopSlot]
  OBVIOUS
<1>3. /\ UNCHANGED <<frame_buffer, live, node, todo>>
      /\ mapped' = mapped \cup {f}
      /\ \A d \in CPUs : loc'[d].map = loc[d].map
  BY <1>a DEF Take, TypeInv, TypeOK, Locals
<1>4. 0 .. qtd_buffer - 1 = (0 .. qtd_buffer' - 1) \cup {TopSlot}
      /\ TopSlot \notin 0 .. qtd_buffer' - 1
  BY <1>1, <1>2
<1>5. /\ IsBuffered(f) /\ ~IsBuffered(f)'
      /\ \A x : IsBuffered(x) <=> IsBuffered(x)' \/ x = f
      /\ BufferDistinct'
  <2>1. IsBuffered(f)
    BY <1>a, <1>4 DEF IsBuffered
  <2>2. ~IsBuffered(f)'
    BY <1>a, <1>3, <1>4 DEF Places, BufferDistinct, IsBuffered
  <2>3. \A x : IsBuffered(x) <=> IsBuffered(x)' \/ x = f
    BY <1>a, <1>3, <1>4 DEF IsBuffered
  <2>4. BufferDistinct'
    BY <1>3, <1>4 DEF Places, BufferDistinct
  <2>5. QED
    BY <2>1, <2>2, <2>3, <2>4
<1>6. AllRuns'
  BY <1>3 DEF Places, AllRuns, Run
<1>7. \A x : /\ IsListed(x)' <=> IsListed(x)
             /\ IsInHand(x)' <=> IsInHand(x)
  BY <1>3 DEF IsListed, IsInHand, Page
<1>8. f \in FreeFrames /\ FreeFrames' = FreeFrames \ {f}
  <2>1. ~IsListed(f) /\ ~IsInHand(f)
    BY <1>5 DEF Places, BufferApart
  <2>2. \A x : x \in FreeFrames <=> IsBuffered(x) \/ IsListed(x) \/ IsInHand(x)
    BY FreeFramesAre DEF Places
  <2>3. \A x : x \in FreeFrames' <=> IsBuffered(x)' \/ IsListed(x) \/ IsInHand(x)
    BY <1>6, <1>7, FreeFramesAreNext
  <2>4. \A x : x \in FreeFrames' <=> x \in FreeFrames /\ x # f
    BY <1>5, <2>1, <2>2, <2>3
  <2>5. QED
    BY <1>5, <2>2, <2>4
<1>9. RunsApart' /\ EmptyRuns'
  BY <1>3 DEF Places, RunsApart, Apart, EmptyRuns, Added
<1>10. BufferApart'
  BY <1>5, <1>7 DEF Places, BufferApart
<1>11. QED
  BY <1>3, <1>5, <1>6, <1>8, <1>9, <1>10 DEF Places

(* The region in hand becomes a list node. *)
LEMMA NewObjPlaces ==
  ASSUME TypeInv, Places, NEW c \in CPUs, NewObj(c), Hand(c)
  PROVE  Places' /\ FreeFrames' = FreeFrames
<1> DEFINE m == loc[c].map
           o == loc[c].obj
<1>1. /\ node \in [Regions -> [base : Nat, size : Int, next : NodesOrNull]]
      /\ loc \in [CPUs -> Locals]
      /\ o \in Regions \ (todo \cup live)
      /\ m.size >= PageSize /\ Run(m) /\ m.size > 0
  <2>1. m.size >= PageSize /\ Run(m) /\ o \in Regions \ (todo \cup live)
    BY DEF NewObj, Hand, Carries, Growing, Places, AllRuns
  <2>2. m.size > 0
    BY <2>1, RunType, FrameAllocatorAssumption
  <2>3. QED
    BY <2>1, <2>2 DEF TypeInv, TypeOK
<1>2. /\ UNCHANGED <<qtd_buffer, frame_buffer, todo, mapped>>
      /\ live' = live \cup {o}
      /\ node'[o].base = m.base /\ node'[o].size = m.size
      /\ \A n \in live : node'[n] = node[n]
      /\ loc'[c].map = NoMap
      /\ \A e \in CPUs : e # c => loc'[e] = loc[e]
  BY <1>1 DEF NewObj, Places, Locals
<1> HIDE DEF m, o
<1>3. AllRuns'
  BY <1>1, <1>2, NoMapRun DEF Places, AllRuns, Run
<1>4. \A x : /\ IsBuffered(x)' <=> IsBuffered(x)
             /\ IsListed(x)' <=> IsListed(x) \/ Page(x, m)
             /\ IsInHand(x)' <=> InOtherHand(c, x)
             /\ IsInHand(x) <=> Page(x, m) \/ InOtherHand(c, x)
             /\ Page(x, m) => ~InOtherHand(c, x)
  <2>1. \A x : IsListed(x)' <=> IsListed(x) \/ Page(x, m)
    BY <1>1, <1>2 DEF IsListed, Page
  <2>2. \A x : /\ IsInHand(x)' <=> InOtherHand(c, x)
               /\ IsInHand(x) <=> Page(x, m) \/ InOtherHand(c, x)
    BY <1>2, NoMapRun DEF IsInHand, InOtherHand, m
  <2>3. \A x : Page(x, m) => ~InOtherHand(c, x)
    BY HandAlone DEF m
  <2>4. QED
    BY <1>2, <2>1, <2>2, <2>3 DEF IsBuffered
<1>5. FreeFrames' = FreeFrames
  <2>1. \A x : x \in FreeFrames' <=> x \in FreeFrames
    BY <1>3, <1>4, FreeFramesAre, FreeFramesAreNext DEF Places
  <2>2. QED
    BY <2>1
<1>6. RunsApart'
  <2>1. \A n \in live : Apart(m, node[n])
    BY <1>1 DEF Places, RunsApart, m
  <2>2. \A n \in live : Apart(node'[o], node'[n]) /\ Apart(node'[n], node'[o])
    BY <1>2, <2>1 DEF Apart
  <2>3. \A k, n \in live : k # n => Apart(node'[k], node'[n])
    BY <1>2 DEF Places, RunsApart
  <2>4. ~(loc'[c].map.size > 0)
    BY <1>2 DEF NoMap
  <2>5. \A e \in CPUs : e # c /\ loc[e].map.size > 0 => Apart(loc[e].map, node'[o])
    <3>1. \A e \in CPUs : e # c /\ loc[e].map.size > 0 => Apart(loc[e].map, m)
      BY <1>1 DEF Places, RunsApart, m
    <3>2. QED
      BY <1>2, <3>1 DEF Apart
  <2>6. (\A k, n \in live : k # n => Apart(node[k], node[n]))'
    BY <1>2, <2>2, <2>3
  <2>7. (\A n \in live, e \in CPUs : loc[e].map.size > 0 => Apart(loc[e].map, node[n]))'
    BY <1>2, <2>4, <2>5 DEF Places, RunsApart
  <2>8. (\A e, g \in CPUs : e # g /\ loc[e].map.size > 0 /\ loc[g].map.size > 0
          => Apart(loc[e].map, loc[g].map))'
    BY <1>2, <2>4 DEF Places, RunsApart
  <2>9. QED
    BY <2>6, <2>7, <2>8 DEF RunsApart
<1>7. EmptyRuns'
  BY <1>1, <1>2 DEF Places, EmptyRuns, Added
<1>8. BufferDistinct' /\ BufferApart'
  BY <1>2, <1>4 DEF Places, BufferDistinct, BufferApart
<1>9. QED
  BY <1>1, <1>2, <1>3, <1>5, <1>6, <1>7, <1>8 DEF Places

(* addMemorySpace takes a region in hand. *)
LEMMA AddPlaces ==
  ASSUME RegionsDisjoint, TypeInv, Places, Kept, NEW c \in CPUs, Hand(c),
         NEW r \in Regions, AddMemorySpace(c, r)
  PROVE  /\ Places'
         /\ PagesIn(Normalize(r)) \cap (FreeFrames \cup mapped) = {}
         /\ FreeFrames' = FreeFrames \cup PagesIn(Normalize(r))
         /\ Added' = Added \cup PagesIn(Normalize(r))
<1> DEFINE m == Normalize(r)
<1>1. /\ UNCHANGED <<qtd_buffer, frame_buffer, live, node, mapped>>
      /\ r \in todo /\ todo' = todo \ {r} /\ r \notin live
      /\ loc[c].map = NoMap /\ loc'[c].map = m
      /\ \A e \in CPUs : e # c => loc'[e] = loc[e]
  BY DEF AddMemorySpace, Hand, Carries, Growing, Getting, Places, TypeInv, TypeOK, Locals,
         alloc_vars
<1>2. Run(m)
  <2>1. r.base \in Nat /\ r.size \in Nat
    BY FrameAllocatorAssumption
  <2>2. (r.size - (r.base % PageSize)) % Word \in Nat
    BY <2>1, FrameAllocatorAssumption
  <2>3. QED
    BY <2>1, <2>2, MaskAligned DEF Run, Normalize
<1>3. Added' = Added \cup PagesIn(m)
  <2>1. Regions \ todo' = (Regions \ todo) \cup {r}
    BY <1>1
  <2>2. QED
    BY <2>1 DEF Added
<1>4. PagesIn(m) \cap Added = {}
  BY <1>1 DEF Added, RegionsDisjoint
<1>5. \A x : x \in PagesIn(m) <=> Page(x, m)
  BY <1>2, PagesInAre DEF Run
<1> HIDE DEF m
<1>6. \A x \in Added : ~Page(x, m)
  BY <1>4, <1>5
<1>7. AllRuns'
  BY <1>1, <1>2 DEF Places, AllRuns, Run
<1>8. \A x : /\ IsBuffered(x)' <=> IsBuffered(x)
             /\ IsListed(x)' <=> IsListed(x)
             /\ IsInHand(x)' <=> IsInHand(x) \/ Page(x, m)
  <2>1. \A x : /\ IsInHand(x)' <=> Page(x, m) \/ InOtherHand(c, x)
               /\ IsInHand(x) <=> InOtherHand(c, x)
    BY <1>1, NoMapRun DEF IsInHand, InOtherHand
  <2>2. QED
    BY <1>1, <2>1 DEF IsBuffered, IsListed
<1>9. FreeFrames' = FreeFrames \cup PagesIn(m)
  <2>1. \A x : x \in FreeFrames' <=> x \in FreeFrames \/ x \in PagesIn(m)
    BY <1>5, <1>7, <1>8, FreeFramesAre, FreeFramesAreNext DEF Places
  <2>2. QED
    BY <2>1
<1>10. RunsApart'
  <2>1. ASSUME NEW n \in live, m.size > 0
        PROVE  Apart(m, node[n])
    <3>1. Run(node[n])
      BY DEF Places, AllRuns
    <3>2. CASE node[n].size > 0
      <4>1. \A x : Page(x, node[n]) => x \in Added
        <5>1. \A x : Page(x, node[n]) => x \in FreeFrames
          BY FreeFramesAre DEF Places, IsListed
        <5>2. QED
          BY <5>1 DEF Kept
      <4>2. QED
        BY <1>2, <1>6, <2>1, <3>1, <3>2, <4>1, ApartPages
    <3>3. CASE node[n].size = 0
      <4>1. PICK x \in Added : node[n].base = x + PageSize
        BY <3>3 DEF Places, EmptyRuns
      <4>2. QED
        BY <1>2, <1>6, <2>1, <3>1, <3>3, <4>1, AddedAligned, ApartPlace
    <3>4. QED
      BY <3>1, <3>2, <3>3, RunType
  <2>2. ASSUME NEW e \in CPUs, m.size > 0, loc[e].map.size > 0
        PROVE  Apart(m, loc[e].map) /\ Apart(loc[e].map, m)
    <3>1. Run(loc[e].map)
      BY DEF Places, AllRuns
    <3>2. \A x : Page(x, loc[e].map) => x \in Added
      <4>1. \A x : Page(x, loc[e].map) => x \in FreeFrames
        BY FreeFramesAre DEF Places, IsInHand
      <4>2. QED
        BY <4>1 DEF Kept
    <3>3. QED
      BY <1>2, <1>6, <2>2, <3>1, <3>2, ApartPages DEF Apart
  <2>3. (\A k, n \in live : k # n => Apart(node[k], node[n]))'
    BY <1>1 DEF Places, RunsApart
  <2>4. (\A n \in live, e \in CPUs : loc[e].map.size > 0 => Apart(loc[e].map, node[n]))'
    BY <1>1, <2>1 DEF Places, RunsApart
  <2>5. (\A e, g \in CPUs : e # g /\ loc[e].map.size > 0 /\ loc[g].map.size > 0
          => Apart(loc[e].map, loc[g].map))'
    BY <1>1, <2>2 DEF Places, RunsApart
  <2>6. QED
    BY <2>3, <2>4, <2>5 DEF RunsApart
<1>11. EmptyRuns'
  BY <1>1, <1>3 DEF Places, EmptyRuns
<1>12. BufferDistinct' /\ BufferApart'
  <2>1. \A x : IsBuffered(x) => x \in Added
    BY FreeFramesAre DEF Places, Kept
  <2>2. QED
    BY <1>1, <1>6, <1>8, <2>1 DEF Places, BufferDistinct, BufferApart
<1>13. PagesIn(m) \cap (FreeFrames \cup mapped) = {}
  BY <1>4 DEF Kept
<1>14. QED
  BY <1>1, <1>3, <1>7, <1>9, <1>10, <1>11, <1>12, <1>13 DEF Places, m

-----------------------------------------------------------------------------
(* The list.  nd is the contents of the nodes, p the activations of        *)
(* list_push above the one that runs, t the n nodes from f on.             *)
Before(nd, m, k) == m # k /\ nd[m].base + nd[m].size <= nd[k].base

Linked(nd, n, t, f) ==
  /\ f = IF n = 0 THEN Null ELSE t[1]
  /\ \A i \in 1 .. n : nd[t[i]].next = IF i < n THEN t[i + 1] ELSE Null

Rising(nd, n, t) == \A i, j \in 1 .. n : i < j => Before(nd, t[i], t[j])

Values(n, t) == {t[i] : i \in 1 .. n}

Arranged(nd, p, n, t, f, L) ==
  /\ p \in Seq(Regions) /\ n \in Nat /\ t \in [1 .. n -> Regions]
  /\ Linked(nd, n, t, f)
  /\ Rising(nd, Len(p), p) /\ Rising(nd, n, t)
  /\ \A i \in 1 .. Len(p), j \in 1 .. n : Before(nd, p[i], t[j])
  /\ Values(Len(p), p) \cup Values(n, t) = L

(* The list does not notice a change of other nodes.                       *)
LEMMA ArrangedSame ==
  ASSUME NEW nd, NEW nd2, NEW p, NEW n, NEW t, NEW f, NEW L, Arranged(nd, p, n, t, f, L),
         \A k \in L : /\ nd2[k].base = nd[k].base /\ nd2[k].size = nd[k].size
                      /\ nd2[k].next = nd[k].next
  PROVE  Arranged(nd2, p, n, t, f, L)
<1>1. (\A i \in 1 .. Len(p) : p[i] \in L) /\ (\A i \in 1 .. n : t[i] \in L)
  BY DEF Arranged, Values
<1>2. Linked(nd2, n, t, f)
  BY <1>1 DEF Arranged, Linked
<1>3. Rising(nd2, Len(p), p) /\ Rising(nd2, n, t)
  BY <1>1 DEF Arranged, Rising, Before
<1>4. \A i \in 1 .. Len(p), j \in 1 .. n : Before(nd2, p[i], t[j])
  BY <1>1 DEF Arranged, Before
<1>5. QED
  BY <1>2, <1>3, <1>4 DEF Arranged

(* list_push goes on to the next node. *)
LEMMA ArrangedDeeper ==
  ASSUME NEW nd, NEW p, NEW n, NEW t, NEW f, NEW L, Arranged(nd, p, n, t, f, L), f # Null
  PROVE  \E n2, t2 : Arranged(nd, Append(p, f), n2, t2, nd[f].next, L)
<1> DEFINE n2 == n - 1
           t2 == [i \in 1 .. n - 1 |-> t[i + 1]]
           q == Append(p, f)
<1>0. p \in Seq(Regions) /\ n \in Nat /\ t \in [1 .. n -> Regions]
  BY DEF Arranged
<1>1. n > 0 /\ f = t[1] /\ f \in Regions
  BY <1>0 DEF Arranged, Linked
<1>2. n2 \in Nat /\ t2 \in [1 .. n2 -> Regions]
  BY <1>0, <1>1
<1>3. /\ q \in Seq(Regions) /\ Len(q) = Len(p) + 1
      /\ q[Len(p) + 1] = f /\ \A i \in 1 .. Len(p) : q[i] = p[i]
      /\ Len(p) \in Nat
  BY <1>0, <1>1
<1>4. \A i \in 1 .. n2 : t2[i] = t[i + 1] /\ i + 1 \in 1 .. n
  BY <1>0
<1>5. Linked(nd, n2, t2, nd[f].next)
  <2>1. nd[f].next = IF 1 < n THEN t[2] ELSE Null
    BY <1>0, <1>1 DEF Arranged, Linked
  <2>2. n2 > 0 => t2[1] = t[2]
    BY <1>0, <1>4
  <2>3. nd[f].next = IF n2 = 0 THEN Null ELSE t2[1]
    BY <1>0, <1>1, <2>1, <2>2
  <2>4. ASSUME NEW i \in 1 .. n2
        PROVE  nd[t2[i]].next = IF i < n2 THEN t2[i + 1] ELSE Null
    <3>1. nd[t[i + 1]].next = IF i + 1 < n THEN t[(i + 1) + 1] ELSE Null
      BY <1>4 DEF Arranged, Linked
    <3>2. i < n2 => t2[i + 1] = t[(i + 1) + 1]
      BY <1>0, <1>4
    <3>3. i < n2 <=> i + 1 < n
      BY <1>0
    <3>4. QED
      BY <1>4, <3>1, <3>2, <3>3
  <2>5. QED
    BY <2>3, <2>4 DEF Linked
<1>6. Rising(nd, n2, t2)
  BY <1>0, <1>4 DEF Arranged, Rising
<1>7. Rising(nd, Len(q), q)
  <2>1. ASSUME NEW i \in 1 .. Len(q), NEW k \in 1 .. Len(q), i < k
        PROVE  Before(nd, q[i], q[k])
    <3>1. i \in 1 .. Len(p) /\ q[i] = p[i]
      BY <1>3, <2>1
    <3>2. CASE k = Len(p) + 1
      <4>1. Before(nd, p[i], t[1])
        BY <1>0, <1>1, <3>1 DEF Arranged
      <4>2. QED
        BY <1>1, <1>3, <3>1, <3>2, <4>1
    <3>3. CASE k \in 1 .. Len(p)
      <4>1. Before(nd, p[i], p[k])
        BY <2>1, <3>1, <3>3 DEF Arranged, Rising
      <4>2. QED
        BY <1>3, <3>1, <3>3, <4>1
    <3>4. QED
      BY <1>3, <3>2, <3>3
  <2>2. QED
    BY <2>1 DEF Rising
<1>8. \A i \in 1 .. Len(q), k \in 1 .. n2 : Before(nd, q[i], t2[k])
  <2>1. ASSUME NEW i \in 1 .. Len(q), NEW k \in 1 .. n2
        PROVE  Before(nd, q[i], t[k + 1])
    <3>1. CASE i = Len(p) + 1
      <4>1. Before(nd, t[1], t[k + 1])
        BY <1>0, <1>1, <1>4 DEF Arranged, Rising
      <4>2. QED
        BY <1>1, <1>3, <3>1, <4>1
    <3>2. CASE i \in 1 .. Len(p)
      <4>1. Before(nd, p[i], t[k + 1])
        BY <1>4, <3>2 DEF Arranged
      <4>2. QED
        BY <1>3, <3>2, <4>1
    <3>3. QED
      BY <1>3, <3>1, <3>2
  <2>2. QED
    BY <1>4, <2>1
<1>9. Values(Len(q), q) \cup Values(n2, t2) = L
  <2>1. Values(Len(q), q) = Values(Len(p), p) \cup {f}
    <3>1. 1 .. Len(q) = (1 .. Len(p)) \cup {Len(p) + 1}
      BY <1>3
    <3>2. QED
      BY <1>3, <3>1 DEF Values
  <2>2. Values(n, t) = {f} \cup Values(n2, t2)
    <3>1. ASSUME NEW i \in 1 .. n, i # 1
          PROVE  t[i] \in Values(n2, t2)
      <4>1. i - 1 \in 1 .. n2 /\ (i - 1) + 1 = i
        BY <1>0, <3>1
      <4>2. t2[i - 1] = t[i]
        BY <1>4, <4>1
      <4>3. QED
        BY <4>1, <4>2 DEF Values
    <3>2. ASSUME NEW i \in 1 .. n2
          PROVE  t2[i] \in Values(n, t)
      BY <1>4 DEF Values
    <3>3. t[1] \in Values(n, t)
      BY <1>0, <1>1 DEF Values
    <3>4. QED
      BY <1>1, <3>1, <3>2, <3>3 DEF Values
  <2>3. QED
    BY <2>1, <2>2 DEF Arranged
<1>10. QED
  <2> HIDE DEF n2, t2, q
  <2>1. Arranged(nd, q, n2, t2, nd[f].next, L)
    BY <1>2, <1>3, <1>5, <1>6, <1>7, <1>8, <1>9 DEF Arranged
  <2>2. QED
    BY <2>1 DEF q

Nodes == [Regions -> [base : Nat, size : Int, next : NodesOrNull]]

(* nd2 is nd after "o->next = f". *)
Relinked(nd, o, f, nd2) ==
  /\ nd2[o].next = f
  /\ \A k \in Regions : /\ nd2[k].base = nd[k].base /\ nd2[k].size = nd[k].size
                        /\ k # o => nd2[k].next = nd[k].next

(* What an assignment to map->next does.                                   *)
LEMMA LinkOnly ==
  ASSUME NEW nd \in Nodes, NEW o \in Regions, NEW f
  PROVE  Relinked(nd, o, f, [nd EXCEPT ![o].next = f])
BY DEF Nodes, Relinked

Longer(o, n, t) == [i \in 1 .. n + 1 |-> IF i = 1 THEN o ELSE t[i - 1]]

(* A node is linked in front of a list. *)
LEMMA Prepend ==
  ASSUME NEW nd \in Nodes, NEW n \in Nat, NEW t \in [1 .. n -> Regions], NEW f,
         NEW o \in Regions, NEW nd2, Relinked(nd, o, f, nd2),
         Linked(nd, n, t, f), Rising(nd, n, t),
         \A i \in 1 .. n : Before(nd, o, t[i])
  PROVE  /\ Longer(o, n, t) \in [1 .. n + 1 -> Regions]
         /\ Linked(nd2, n + 1, Longer(o, n, t), o)
         /\ Rising(nd2, n + 1, Longer(o, n, t))
         /\ Values(n + 1, Longer(o, n, t)) = Values(n, t) \cup {o}
<1> DEFINE t2 == Longer(o, n, t)
<1>1. /\ t2[1] = o /\ 1 \in 1 .. n + 1
      /\ \A i \in 1 .. n : t2[i + 1] = t[i] /\ i + 1 \in 1 .. n + 1
      /\ \A k \in 1 .. n + 1 : k = 1 \/ (k - 1 \in 1 .. n /\ t2[k] = t[k - 1])
  BY DEF Longer
<1>2. t2 \in [1 .. n + 1 -> Regions]
  BY DEF Longer
<1> HIDE DEF t2
<1>3. /\ nd2[o].next = f
      /\ \A k \in Regions : nd2[k].base = nd[k].base /\ nd2[k].size = nd[k].size
      /\ \A i \in 1 .. n : nd2[t[i]].next = nd[t[i]].next
  <2>1. \A i \in 1 .. n : t[i] # o /\ t[i] \in Regions
    BY DEF Before
  <2>2. QED
    BY <2>1 DEF Relinked
<1>4. Linked(nd2, n + 1, t2, o)
  <2>1. ASSUME NEW k \in 1 .. n + 1
        PROVE  nd2[t2[k]].next = IF k < n + 1 THEN t2[k + 1] ELSE Null
    <3>1. CASE k = 1
      <4>1. nd2[t2[k]].next = f
        BY <1>1, <1>3, <3>1
      <4>2. CASE n = 0
        BY <4>1, <4>2, <3>1 DEF Linked
      <4>3. CASE n > 0
        <5>1. t2[1 + 1] = t[1]
          BY <1>1, <4>3
        <5>2. f = t[1]
          BY <4>3 DEF Linked
        <5>3. QED
          BY <3>1, <4>1, <4>3, <5>1, <5>2
      <4>4. QED
        BY <4>2, <4>3
    <3>2. CASE k # 1
      <4>1. k - 1 \in 1 .. n /\ t2[k] = t[k - 1]
        BY <1>1, <3>2
      <4>2. nd[t[k - 1]].next = IF k - 1 < n THEN t[(k - 1) + 1] ELSE Null
        BY <4>1 DEF Linked
      <4>3. nd2[t2[k]].next = IF k - 1 < n THEN t[k] ELSE Null
        BY <1>3, <4>1, <4>2
      <4>4. k - 1 < n => k \in 1 .. n /\ t2[k + 1] = t[k]
        BY <1>1, <4>1
      <4>5. QED
        BY <4>1, <4>3, <4>4
    <3>3. QED
      BY <3>1, <3>2
  <2>2. QED
    BY <1>1, <2>1 DEF Linked
<1>5. Rising(nd2, n + 1, t2)
  <2>1. ASSUME NEW i \in 1 .. n + 1, NEW k \in 1 .. n + 1, i < k
        PROVE  Before(nd, t2[i], t2[k])
    <3>1. k - 1 \in 1 .. n /\ t2[k] = t[k - 1]
      BY <1>1, <2>1
    <3>2. CASE i = 1
      BY <1>1, <3>1, <3>2
    <3>3. CASE i # 1
      <4>1. i - 1 \in 1 .. n /\ t2[i] = t[i - 1] /\ i - 1 < k - 1
        BY <1>1, <2>1, <3>3
      <4>2. QED
        BY <3>1, <4>1 DEF Rising
    <3>4. QED
      BY <3>2, <3>3
  <2>2. \A i \in 1 .. n + 1 : t2[i] \in Regions
    BY <1>2
  <2>3. QED
    BY <1>3, <2>1, <2>2 DEF Rising, Before
<1>6. Values(n + 1, t2) = Values(n, t) \cup {o}
  <2>1. \A k \in 1 .. n + 1 : t2[k] \in Values(n, t) \cup {o}
    BY <1>1 DEF Values
  <2>2. \A i \in 1 .. n : t[i] \in Values(n + 1, t2)
    BY <1>1 DEF Values
  <2>3. o \in Values(n + 1, t2)
    BY <1>1 DEF Values
  <2>4. QED
    BY <2>1, <2>2, <2>3 DEF Values
<1>7. QED
  BY <1>2, <1>4, <1>5, <1>6 DEF t2

(* list_push links the new node. *)
LEMMA ArrangedLink ==
  ASSUME NEW nd \in Nodes, NEW p, NEW n, NEW t, NEW f, NEW L, Arranged(nd, p, n, t, f, L),
         NEW o \in Regions, o \notin L, NEW nd2, Relinked(nd, o, f, nd2),
         \A k \in L : nd[k].size >= 0 /\ Apart(nd[o], nd[k]),
         nd[o].size > 0,
         \A i \in 1 .. Len(p) : nd[p[i]].base <= nd[o].base,
         f # Null => nd[f].base > nd[o].base
  PROVE  \E n2, t2 : Arranged(nd2, p, n2, t2, o, L \cup {o})
<1>0. /\ p \in Seq(Regions) /\ n \in Nat /\ t \in [1 .. n -> Regions]
      /\ Linked(nd, n, t, f) /\ Rising(nd, n, t) /\ Rising(nd, Len(p), p)
      /\ Len(p) \in Nat /\ \A i \in 1 .. Len(p) : p[i] \in Regions
  BY DEF Arranged
<1>1. (\A i \in 1 .. Len(p) : p[i] \in L) /\ (\A i \in 1 .. n : t[i] \in L)
  BY DEF Arranged, Values
<1>2. \A k \in Regions : nd[k].base \in Nat /\ nd[k].size \in Int
  BY DEF Nodes
<1>3. ASSUME NEW i \in 1 .. n
      PROVE  Before(nd, o, t[i])
  <2>1. f = t[1] /\ f # Null /\ 1 \in 1 .. n /\ t[1] \in Regions /\ t[i] \in Regions
    <3>1. f = t[1] /\ 1 \in 1 .. n
      BY <1>0 DEF Linked
    <3>2. QED
      BY <1>0, <3>1, FrameAllocatorAssumption
  <2>2. nd[t[1]].base <= nd[t[i]].base
    <3>1. CASE i = 1
      BY <1>2, <2>1, <3>1
    <3>2. CASE i # 1
      <4>1. Before(nd, t[1], t[i])
        BY <1>0, <2>1, <3>2 DEF Rising
      <4>2. nd[t[1]].size >= 0
        BY <1>1, <2>1
      <4>3. QED
        BY <1>2, <2>1, <4>1, <4>2 DEF Before
    <3>3. QED
      BY <3>1, <3>2
  <2>3. Apart(nd[o], nd[t[i]]) /\ nd[t[i]].size >= 0 /\ t[i] # o
    BY <1>1
  <2>4. nd[t[i]].base > nd[o].base
    BY <1>2, <2>1, <2>2
  <2>5. QED
    BY <1>2, <2>1, <2>3, <2>4 DEF Before, Apart
<1>4. ASSUME NEW i \in 1 .. Len(p)
      PROVE  Before(nd, p[i], o)
  <2>1. Apart(nd[o], nd[p[i]]) /\ nd[p[i]].size >= 0 /\ p[i] # o /\ p[i] \in Regions
    BY <1>0, <1>1
  <2>2. QED
    BY <1>2, <2>1 DEF Before, Apart
<1> DEFINE t2 == Longer(o, n, t)
<1>5. /\ t2 \in [1 .. n + 1 -> Regions]
      /\ Linked(nd2, n + 1, t2, o)
      /\ Rising(nd2, n + 1, t2)
      /\ Values(n + 1, t2) = Values(n, t) \cup {o}
  <2>1. /\ n \in Nat /\ t \in [1 .. n -> Regions]
        /\ Linked(nd, n, t, f) /\ Rising(nd, n, t)
        /\ \A i \in 1 .. n : Before(nd, o, t[i])
    BY <1>0, <1>3
  <2> HIDE DEF t2
  <2>2. QED
    BY <2>1, Prepend DEF t2
<1>6. \A k \in Regions : nd2[k].base = nd[k].base /\ nd2[k].size = nd[k].size
  BY DEF Relinked
<1>7. Rising(nd2, Len(p), p)
  BY <1>0, <1>6 DEF Rising, Before
<1>8. ASSUME NEW i \in 1 .. Len(p), NEW k \in 1 .. n + 1
      PROVE  Before(nd2, p[i], t2[k])
  <2>1. CASE k = 1
    BY <1>0, <1>4, <1>6, <2>1 DEF Before, Longer
  <2>2. CASE k # 1
    <3>1. k - 1 \in 1 .. n /\ t2[k] = t[k - 1]
      BY <1>0, <2>2 DEF Longer
    <3>2. Before(nd, p[i], t[k - 1])
      BY <3>1 DEF Arranged
    <3>3. t[k - 1] \in Regions
      BY <1>0, <3>1
    <3>4. QED
      BY <1>0, <1>6, <3>1, <3>2, <3>3 DEF Before
  <2>3. QED
    BY <2>1, <2>2
<1>9. Values(Len(p), p) \cup Values(n + 1, t2) = L \cup {o}
  BY <1>5 DEF Arranged
<1>10. n + 1 \in Nat
  BY <1>0
<1>11. Arranged(nd2, p, n + 1, t2, o, L \cup {o})
  BY <1>0, <1>5, <1>7, <1>8, <1>9, <1>10 DEF Arranged
<1>12. QED
  BY <1>11

(* A node loses pages at its front. *)
LEMMA ArrangedShrunk ==
  ASSUME NEW nd \in Nodes, NEW nd2 \in Nodes, NEW p, NEW n, NEW t, NEW f, NEW L,
         Arranged(nd, p, n, t, f, L),
         \A k \in L : /\ nd2[k].base >= nd[k].base
                      /\ nd2[k].base + nd2[k].size = nd[k].base + nd[k].size
                      /\ nd2[k].next = nd[k].next
  PROVE  Arranged(nd2, p, n, t, f, L)
<1>1. (\A i \in 1 .. Len(p) : p[i] \in L) /\ (\A i \in 1 .. n : t[i] \in L)
  BY DEF Arranged, Values
<1>2. L \subseteq Regions
  BY DEF Arranged, Values
<1>3. \A j, k \in L : Before(nd, j, k) => Before(nd2, j, k)
  <2> SUFFICES ASSUME NEW j \in L, NEW k \in L, Before(nd, j, k)
               PROVE  Before(nd2, j, k)
    OBVIOUS
  <2>1. /\ nd[j].base \in Int /\ nd[j].size \in Int /\ nd[k].base \in Int
        /\ nd2[j].base \in Int /\ nd2[j].size \in Int /\ nd2[k].base \in Int
    BY <1>2 DEF Nodes
  <2>2. QED
    BY <2>1 DEF Before
<1>4. Linked(nd2, n, t, f)
  BY <1>1 DEF Arranged, Linked
<1>5. Rising(nd2, Len(p), p) /\ Rising(nd2, n, t)
  BY <1>1, <1>3 DEF Arranged, Rising
<1>6. \A i \in 1 .. Len(p), j \in 1 .. n : Before(nd2, p[i], t[j])
  BY <1>1, <1>3 DEF Arranged
<1>7. QED
  BY <1>4, <1>5, <1>6 DEF Arranged

(* list_push returning: the path without its last activation.              *)
LEMMA PathPrefix ==
  ASSUME NEW p \in Seq(Regions), p # <<>>
  PROVE  /\ SubSeq(p, 1, Len(p) - 1) \in Seq(Regions)
         /\ Len(SubSeq(p, 1, Len(p) - 1)) = Len(p) - 1
         /\ \A i \in 1 .. Len(p) - 1 : SubSeq(p, 1, Len(p) - 1)[i] = p[i]
<1>0. PICK l \in Nat : l = Len(p) - 1
  OBVIOUS
<1>1. Len(SubSeq(p, 1, l)) = l
  BY <1>0
<1>2. SubSeq(p, 1, l) \in Seq(Regions)
  BY <1>0
<1>3. \A i \in 1 .. l : SubSeq(p, 1, l)[i] = p[i]
  BY <1>0
<1>4. QED
  BY <1>0, <1>1, <1>2, <1>3

(* An activation of list_push stores the link it was given. *)
LEMMA ArrangedUnwind ==
  ASSUME NEW nd \in Nodes, NEW p, NEW n, NEW t, NEW f, NEW L, Arranged(nd, p, n, t, f, L),
         p # <<>>, NEW nd2, Relinked(nd, Last(p), f, nd2)
  PROVE  \E n2, t2 : Arranged(nd2, Front(p), n2, t2, Last(p), L)
<1> DEFINE o == Last(p)
           q == Front(p)
           l == Len(p)
<1>0. /\ p \in Seq(Regions) /\ n \in Nat /\ t \in [1 .. n -> Regions]
      /\ Linked(nd, n, t, f) /\ Rising(nd, n, t) /\ Rising(nd, Len(p), p)
  BY DEF Arranged
<1>1. /\ l \in Nat \ {0} /\ \A i \in 1 .. l : p[i] \in Regions
      /\ o = p[l] /\ o \in Regions
      /\ q \in Seq(Regions) /\ Len(q) = l - 1 /\ \A i \in 1 .. l - 1 : q[i] = p[i]
  <2>1. l \in Nat \ {0} /\ \A i \in 1 .. l : p[i] \in Regions
    BY <1>0
  <2>2. o = p[l] /\ l \in 1 .. l
    BY <2>1 DEF Last
  <2>3. q = SubSeq(p, 1, l - 1)
    BY DEF Front
  <2>4. q \in Seq(Regions) /\ Len(q) = l - 1 /\ \A i \in 1 .. l - 1 : q[i] = p[i]
    <3>1. 1 \in 1 .. l + 1 /\ l - 1 \in 0 .. l /\ l - 1 \in Nat
      BY <2>1
    <3> HIDE DEF q, l
    <3>2. QED
      BY <1>0, <2>1, <2>3, <3>1, PathPrefix DEF l
  <2>5. QED
    BY <2>1, <2>2, <2>4
<1> HIDE DEF o, q, l
<1>2. \A i \in 1 .. n : Before(nd, o, t[i])
  <2>1. l \in 1 .. Len(p)
    BY <1>1 DEF l
  <2>2. QED
    BY <1>1, <2>1 DEF Arranged
<1> DEFINE t2 == Longer(o, n, t)
<1>3. /\ t2 \in [1 .. n + 1 -> Regions]
      /\ Linked(nd2, n + 1, t2, o)
      /\ Rising(nd2, n + 1, t2)
      /\ Values(n + 1, t2) = Values(n, t) \cup {o}
  <2> HIDE DEF t2
  <2>1. Relinked(nd, o, f, nd2)
    BY DEF o
  <2>2. o \in Regions /\ Linked(nd, n, t, f) /\ Rising(nd, n, t)
    BY <1>0, <1>1
  <2>3. n \in Nat /\ t \in [1 .. n -> Regions]
    BY <1>0
  <2>4. QED
    BY <1>2, <2>1, <2>2, <2>3, Prepend DEF t2
<1>4. \A k \in Regions : nd2[k].base = nd[k].base /\ nd2[k].size = nd[k].size
  BY DEF Relinked
<1>5. /\ Rising(nd2, Len(q), q)
      /\ \A i \in 1 .. Len(q) : Before(nd2, q[i], o)
  <2>1. ASSUME NEW i \in 1 .. l, NEW k \in 1 .. l, i < k
        PROVE  Before(nd2, p[i], p[k])
    <3>1. Before(nd, p[i], p[k])
      BY <1>0, <2>1 DEF Rising, l
    <3>2. QED
      BY <1>1, <1>4, <3>1 DEF Before
  <2>2. \A i \in 1 .. l - 1 : i \in 1 .. l /\ i < l /\ l \in 1 .. l
    BY <1>1
  <2>3. QED
    BY <1>1, <2>1, <2>2 DEF Rising
<1>6. ASSUME NEW i \in 1 .. Len(q), NEW k \in 1 .. n + 1
      PROVE  Before(nd2, q[i], t2[k])
  <2>1. CASE k = 1
    BY <1>0, <1>5, <2>1 DEF Longer
  <2>2. CASE k # 1
    <3>1. k - 1 \in 1 .. n /\ t2[k] = t[k - 1]
      BY <1>0, <2>2 DEF Longer
    <3>2. i \in 1 .. Len(p) /\ q[i] = p[i]
      BY <1>1 DEF l
    <3>3. Before(nd, p[i], t[k - 1])
      BY <3>1, <3>2 DEF Arranged
    <3>4. t[k - 1] \in Regions /\ p[i] \in Regions
      BY <1>0, <1>1, <3>1, <3>2
    <3>5. QED
      BY <1>4, <3>1, <3>2, <3>3, <3>4 DEF Before
  <2>3. QED
    BY <2>1, <2>2
<1>7. Values(Len(q), q) \cup Values(n + 1, t2) = L
  <2>1. Values(l, p) = Values(Len(q), q) \cup {o}
    <3>1. 1 .. l = (1 .. l - 1) \cup {l}
      BY <1>1
    <3>2. QED
      BY <1>1, <3>1 DEF Values
  <2>2. QED
    BY <1>3, <2>1 DEF Arranged, l
<1>8. n + 1 \in Nat
  BY <1>0
<1>9. Arranged(nd2, q, n + 1, t2, o, L)
  BY <1>1, <1>3, <1>5, <1>6, <1>7, <1>8 DEF Arranged
<1>10. QED
  BY <1>9 DEF q, o

(* The first node of the rest takes over the second. *)
LEMMA ArrangedAbsorb ==
  ASSUME NEW nd \in Nodes, NEW nd2 \in Nodes, NEW p, NEW n, NEW t, NEW f, NEW L,
         Arranged(nd, p, n, t, f, L), f \in Regions,
         NEW s, s = nd[f].next, s # Null,
         nd2[f].base = nd[f].base, nd2[f].size = nd[s].base + nd[s].size - nd[f].base,
         nd2[f].next = nd[s].next,
         \A k \in Regions : k # f => nd2[k] = nd[k]
  PROVE  \E n2, t2 : Arranged(nd2, p, n2, t2, f, L \ {s})
<1> DEFINE t2 == [i \in 1 .. n - 1 |-> IF i = 1 THEN t[1] ELSE t[i + 1]]
<1>0. /\ p \in Seq(Regions) /\ n \in Nat /\ t \in [1 .. n -> Regions]
      /\ Linked(nd, n, t, f) /\ Rising(nd, n, t) /\ Rising(nd, Len(p), p)
      /\ Len(p) \in Nat /\ \A i \in 1 .. Len(p) : p[i] \in Regions
      /\ \A i \in 1 .. Len(p), j \in 1 .. n : Before(nd, p[i], t[j])
  BY DEF Arranged
<1>1. n >= 2 /\ f = t[1] /\ s = t[2] /\ s \in Regions
  <2>1. n > 0 /\ f = t[1]
    BY <1>0, FrameAllocatorAssumption DEF Linked
  <2>2. nd[t[1]].next = IF 1 < n THEN t[1 + 1] ELSE Null
    BY <1>0, <2>1 DEF Linked
  <2>3. QED
    BY <1>0, <2>1, <2>2
<1>2. \A k \in Regions : nd[k].base \in Nat /\ nd[k].size \in Int
  BY DEF Nodes
<1>3. /\ t2 \in [1 .. n - 1 -> Regions] /\ n - 1 \in Nat /\ t2[1] = f
      /\ \A i \in 1 .. n - 1 : i # 1 => t2[i] = t[i + 1] /\ i + 1 \in 3 .. n
  BY <1>0, <1>1
<1> HIDE DEF t2
<1>4. Linked(nd2, n - 1, t2, f)
  <2>1. ASSUME NEW i \in 1 .. n - 1
        PROVE  nd2[t2[i]].next = IF i < n - 1 THEN t2[i + 1] ELSE Null
    <3>1. CASE i = 1
      <4>1. nd[t[2]].next = IF 2 < n THEN t[2 + 1] ELSE Null
        BY <1>0, <1>1 DEF Linked
      <4>2. 2 < n => t2[2] = t[3]
        BY <1>0, <1>3
      <4>3. nd2[t2[1]].next = nd[t[2]].next
        BY <1>1, <1>3
      <4>4. QED
        BY <1>0, <3>1, <4>1, <4>2, <4>3
    <3>2. CASE i # 1
      <4>1. t2[i] = t[i + 1] /\ i + 1 \in 3 .. n
        BY <1>3, <3>2
      <4>2. t[i + 1] # f /\ t[i + 1] \in Regions
        <5>1. Before(nd, t[1], t[i + 1])
          BY <1>0, <1>1, <4>1 DEF Rising
        <5>2. QED
          BY <1>0, <1>1, <4>1, <5>1 DEF Before
      <4>3. nd[t[i + 1]].next = IF i + 1 < n THEN t[(i + 1) + 1] ELSE Null
        BY <1>0, <4>1 DEF Linked
      <4>4. i < n - 1 => t2[i + 1] = t[(i + 1) + 1]
        BY <1>0, <1>3
      <4>5. nd2[t2[i]].next = nd[t[i + 1]].next
        BY <4>1, <4>2
      <4>6. i < n - 1 <=> i + 1 < n
        BY <1>0
      <4>7. QED
        BY <4>3, <4>4, <4>5, <4>6
    <3>3. QED
      BY <3>1, <3>2
  <2>2. QED
    BY <1>0, <1>1, <1>3, <2>1 DEF Linked
<1>5. ASSUME NEW j \in 3 .. n
      PROVE  Before(nd2, f, t[j]) /\ t[j] \in Regions /\ t[j] # f /\ t[j] # s
  <2>1. Before(nd, t[1], t[j]) /\ Before(nd, t[2], t[j])
    BY <1>0, <1>1 DEF Rising
  <2>2. t[j] \in Regions /\ t[j] # f /\ t[j] # s
    BY <1>0, <1>1, <2>1 DEF Before
  <2>3. nd[s].base + nd[s].size <= nd[t[j]].base
    BY <1>1, <2>1 DEF Before
  <2>4. nd2[t[j]].base = nd[t[j]].base
    BY <2>2
  <2>5. nd2[f].base + nd2[f].size = nd[s].base + nd[s].size
    BY <1>1, <1>2
  <2>6. QED
    BY <2>2, <2>3, <2>4, <2>5 DEF Before
<1>6. Rising(nd2, n - 1, t2)
  <2>1. ASSUME NEW i \in 1 .. n - 1, NEW k \in 1 .. n - 1, i < k
        PROVE  Before(nd2, t2[i], t2[k])
    <3>1. t2[k] = t[k + 1] /\ k + 1 \in 3 .. n
      BY <1>3, <2>1
    <3>2. CASE i = 1
      BY <1>3, <1>5, <3>1, <3>2
    <3>3. CASE i # 1
      <4>1. t2[i] = t[i + 1] /\ i + 1 \in 3 .. n
        BY <1>3, <3>3
      <4>2. i + 1 \in 1 .. n /\ k + 1 \in 1 .. n /\ i + 1 < k + 1
        BY <1>0, <2>1
      <4>3. Before(nd, t[i + 1], t[k + 1])
        BY <1>0, <4>2 DEF Rising
      <4>4. nd2[t[i + 1]] = nd[t[i + 1]] /\ nd2[t[k + 1]] = nd[t[k + 1]]
        BY <1>5, <3>1, <4>1
      <4>5. QED
        BY <3>1, <4>1, <4>3, <4>4 DEF Before
    <3>4. QED
      BY <3>2, <3>3
  <2>2. QED
    BY <2>1 DEF Rising
<1>7. ASSUME NEW i \in 1 .. Len(p)
      PROVE  p[i] # f /\ p[i] # s /\ p[i] \in Regions /\ nd2[p[i]] = nd[p[i]]
  <2>1. Before(nd, p[i], t[1]) /\ Before(nd, p[i], t[2])
    BY <1>0, <1>1
  <2>2. QED
    BY <1>0, <1>1, <2>1 DEF Before
<1>8. Rising(nd2, Len(p), p)
  BY <1>0, <1>7 DEF Rising, Before
<1>9. ASSUME NEW i \in 1 .. Len(p), NEW k \in 1 .. n - 1
      PROVE  Before(nd2, p[i], t2[k])
  <2>1. CASE k = 1
    <3>1. Before(nd, p[i], t[1])
      BY <1>0, <1>1
    <3>2. QED
      BY <1>1, <1>3, <1>7, <2>1, <3>1 DEF Before
  <2>2. CASE k # 1
    <3>1. t2[k] = t[k + 1] /\ k + 1 \in 3 .. n
      BY <1>3, <2>2
    <3>2. Before(nd, p[i], t[k + 1])
      BY <1>0, <3>1
    <3>3. nd2[t[k + 1]] = nd[t[k + 1]]
      BY <1>5, <3>1
    <3>4. QED
      BY <1>7, <3>1, <3>2, <3>3 DEF Before
  <2>3. QED
    BY <2>1, <2>2
<1>10. Values(Len(p), p) \cup Values(n - 1, t2) = L \ {s}
  <2>1. Values(n, t) = Values(n - 1, t2) \cup {s}
    <3>1. ASSUME NEW i \in 1 .. n, i # 2
          PROVE  t[i] \in Values(n - 1, t2)
      <4>1. CASE i = 1
        BY <1>0, <1>1, <1>3, <4>1 DEF Values
      <4>2. CASE i # 1
        <5>1. i - 1 \in 1 .. n - 1 /\ i - 1 # 1 /\ (i - 1) + 1 = i
          BY <1>0, <3>1, <4>2
        <5>2. t2[i - 1] = t[i]
          BY <1>3, <5>1
        <5>3. QED
          BY <5>1, <5>2 DEF Values
      <4>3. QED
        BY <4>1, <4>2
    <3>2. ASSUME NEW i \in 1 .. n - 1
          PROVE  t2[i] \in Values(n, t)
      <4>1. CASE i = 1
        BY <1>0, <1>1, <1>3, <4>1 DEF Values
      <4>2. CASE i # 1
        <5>1. t2[i] = t[i + 1] /\ i + 1 \in 1 .. n
          BY <1>0, <1>3, <4>2
        <5>2. QED
          BY <5>1 DEF Values
      <4>3. QED
        BY <4>1, <4>2
    <3>3. s \in Values(n, t)
      BY <1>0, <1>1 DEF Values
    <3>4. QED
      BY <1>1, <3>1, <3>2, <3>3 DEF Values
  <2>2. s \notin Values(n - 1, t2)
    <3>1. ASSUME NEW i \in 1 .. n - 1
          PROVE  t2[i] # s
      <4>1. CASE i = 1
        <5>1. Before(nd, t[1], t[2])
          BY <1>0, <1>1 DEF Rising
        <5>2. QED
          BY <1>1, <1>3, <4>1, <5>1 DEF Before
      <4>2. CASE i # 1
        BY <1>3, <1>5, <4>2
      <4>3. QED
        BY <4>1, <4>2
    <3>2. QED
      BY <3>1 DEF Values
  <2>3. s \notin Values(Len(p), p)
    BY <1>7 DEF Values
  <2>4. QED
    BY <2>1, <2>2, <2>3 DEF Arranged
<1>11. Arranged(nd2, p, n - 1, t2, f, L \ {s})
  BY <1>0, <1>3, <1>4, <1>6, <1>8, <1>9, <1>10 DEF Arranged
<1>12. QED
  BY <1>11

-----------------------------------------------------------------------------
(* The same without the witnesses: the list from f on, below the path p of *)
(* activations, holds the nodes of L, in order.                            *)
InList(nd, p, f, L) == \E n, t : Arranged(nd, p, n, t, f, L)

(* A list keeps its order if its nodes keep their ends: what taking a page *)
(* from the front of one, or changing another, does.                       *)
LEMMA InListKept ==
  /\ \A nd, nd2, p, f, L :
       /\ InList(nd, p, f, L)
       /\ \A k \in L : /\ nd2[k].base = nd[k].base /\ nd2[k].size = nd[k].size
                       /\ nd2[k].next = nd[k].next
       => InList(nd2, p, f, L)
  /\ \A nd, nd2 \in Nodes : \A p, f, L :
       /\ InList(nd, p, f, L)
       /\ \A k \in L : /\ nd2[k].base >= nd[k].base
                       /\ nd2[k].base + nd2[k].size = nd[k].base + nd[k].size
                       /\ nd2[k].next = nd[k].next
       => InList(nd2, p, f, L)
<1>1. ASSUME NEW nd, NEW nd2, NEW p, NEW f, NEW L, InList(nd, p, f, L),
             \A k \in L : /\ nd2[k].base = nd[k].base /\ nd2[k].size = nd[k].size
                          /\ nd2[k].next = nd[k].next
      PROVE  InList(nd2, p, f, L)
  <2>1. PICK n, t : Arranged(nd, p, n, t, f, L)
    BY <1>1 DEF InList
  <2>2. Arranged(nd2, p, n, t, f, L)
    BY <1>1, <2>1, ArrangedSame
  <2>3. QED
    BY <2>2 DEF InList
<1>2. ASSUME NEW nd \in Nodes, NEW nd2 \in Nodes, NEW p, NEW f, NEW L, InList(nd, p, f, L),
             \A k \in L : /\ nd2[k].base >= nd[k].base
                          /\ nd2[k].base + nd2[k].size = nd[k].base + nd[k].size
                          /\ nd2[k].next = nd[k].next
      PROVE  InList(nd2, p, f, L)
  <2>1. PICK n, t : Arranged(nd, p, n, t, f, L)
    BY <1>2 DEF InList
  <2>2. Arranged(nd2, p, n, t, f, L)
    BY <1>2, <2>1, ArrangedShrunk
  <2>3. QED
    BY <2>2 DEF InList
<1>3. QED
  BY <1>1, <1>2

(* Where a node of the list is: on the path, first of the rest, second, or *)
(* behind it.                                                              *)
LEMMA InListPlaces ==
  ASSUME NEW nd, NEW p, NEW f, NEW L, InList(nd, p, f, L)
  PROVE  /\ L \subseteq Regions
         /\ f # Null => f \in L
         /\ \A i \in 1 .. Len(p) : p[i] \in L
         /\ f # Null /\ nd[f].next # Null =>
              /\ nd[f].next \in L /\ Before(nd, f, nd[f].next)
              /\ \A k \in L : k \in {f, nd[f].next} \/ Before(nd, k, f)
                                \/ Before(nd, nd[f].next, k)
<1>1. PICK n, t : Arranged(nd, p, n, t, f, L)
  BY DEF InList
<1>2. /\ p \in Seq(Regions) /\ n \in Nat /\ t \in [1 .. n -> Regions]
      /\ Linked(nd, n, t, f) /\ Rising(nd, n, t)
      /\ L = Values(Len(p), p) \cup Values(n, t)
  BY <1>1 DEF Arranged
<1>3. /\ \A i \in 1 .. n : t[i] \in L /\ t[i] \in Regions
      /\ \A i \in 1 .. Len(p) : p[i] \in L /\ p[i] \in Regions
  BY <1>2 DEF Values
<1>4. f # Null => n > 0 /\ f = t[1] /\ 1 \in 1 .. n
  BY <1>2 DEF Linked
<1>5. ASSUME f # Null, nd[f].next # Null
      PROVE  n >= 2 /\ nd[f].next = t[2] /\ 2 \in 1 .. n /\ 1 \in 1 .. n
  <2>1. nd[t[1]].next = IF 1 < n THEN t[1 + 1] ELSE Null
    BY <1>2, <1>4, <1>5 DEF Linked
  <2>2. QED
    BY <1>2, <1>4, <1>5, <2>1
<1>6. ASSUME f # Null, nd[f].next # Null, NEW k \in L
      PROVE  k \in {f, nd[f].next} \/ Before(nd, k, f) \/ Before(nd, nd[f].next, k)
  <2>1. CASE k \in Values(Len(p), p)
    <3>1. PICK i \in 1 .. Len(p) : k = p[i]
      BY <2>1 DEF Values
    <3>2. Before(nd, p[i], t[1])
      BY <1>1, <1>5, <1>6 DEF Arranged
    <3>3. QED
      BY <1>4, <1>6, <3>1, <3>2
  <2>2. CASE k \in Values(n, t)
    <3>1. PICK i \in 1 .. n : k = t[i]
      BY <2>2 DEF Values
    <3>2. CASE i > 2
      <4>1. Before(nd, t[2], t[i])
        BY <1>2, <1>5, <1>6, <3>2 DEF Rising
      <4>2. QED
        BY <1>5, <1>6, <3>1, <4>1
    <3>3. CASE i = 1 \/ i = 2
      BY <1>4, <1>5, <1>6, <3>1, <3>3
    <3>4. QED
      BY <3>2, <3>3
  <2>3. QED
    BY <1>2, <2>1, <2>2
<1>7. ASSUME f # Null, nd[f].next # Null
      PROVE  nd[f].next \in L /\ Before(nd, f, nd[f].next)
  <2>1. Before(nd, t[1], t[2])
    BY <1>2, <1>5, <1>7 DEF Rising
  <2>2. QED
    BY <1>3, <1>4, <1>5, <1>7, <2>1
<1>8. L \subseteq Regions
  BY <1>2 DEF Values
<1>9. f # Null => f \in L
  BY <1>3, <1>4
<1>10. QED
  BY <1>3, <1>6, <1>7, <1>8, <1>9

(* The steps of list_push. *)
LEMMA InListDeeper ==
  ASSUME NEW nd, NEW p, NEW f, NEW L, InList(nd, p, f, L), f # Null
  PROVE  InList(nd, Append(p, f), nd[f].next, L)
BY ArrangedDeeper DEF InList

(* Linking a node in front of the list (FrameAllocator.cpp:18-20).         *)
LEMMA InListLink ==
  ASSUME NEW nd \in Nodes, NEW p, NEW f, NEW L, InList(nd, p, f, L),
         NEW o \in Regions, o \notin L, NEW nd2, Relinked(nd, o, f, nd2),
         \A k \in L : nd[k].size >= 0 /\ Apart(nd[o], nd[k]),
         nd[o].size > 0,
         \A i \in 1 .. Len(p) : nd[p[i]].base <= nd[o].base,
         f # Null => nd[f].base > nd[o].base
  PROVE  InList(nd2, p, o, L \cup {o})
<1>1. PICK n, t : Arranged(nd, p, n, t, f, L)
  BY DEF InList
<1>2. \E n2, t2 : Arranged(nd2, p, n2, t2, o, L \cup {o})
  BY <1>1, ArrangedLink
<1>3. QED
  BY <1>2 DEF InList

(* map->next = list_push(...) when that call returns                       *)
(* (FrameAllocator.cpp:22).                                                *)
LEMMA InListUnwind ==
  ASSUME NEW nd \in Nodes, NEW p, NEW f, NEW L, InList(nd, p, f, L),
         p # <<>>, NEW nd2, Relinked(nd, Last(p), f, nd2)
  PROVE  InList(nd2, Front(p), Last(p), L)
<1>1. PICK n, t : Arranged(nd, p, n, t, f, L)
  BY DEF InList
<1>2. \E n2, t2 : Arranged(nd2, Front(p), n2, t2, Last(p), L)
  BY <1>1, ArrangedUnwind
<1>3. QED
  BY <1>2 DEF InList

(* The node after f merged into f (FrameAllocator.cpp:24-27).              *)
LEMMA InListAbsorb ==
  ASSUME NEW nd \in Nodes, NEW nd2 \in Nodes, NEW p, NEW f \in Regions, NEW L,
         InList(nd, p, f, L), NEW s, s = nd[f].next, s # Null,
         nd2[f].base = nd[f].base, nd2[f].size = nd[s].base + nd[s].size - nd[f].base,
         nd2[f].next = nd[s].next,
         \A k \in Regions : k # f => nd2[k] = nd[k]
  PROVE  InList(nd2, p, f, L \ {s})
<1>1. PICK n, t : Arranged(nd, p, n, t, f, L)
  BY DEF InList
<1>2. \E n2, t2 : Arranged(nd2, p, n2, t2, f, L \ {s})
  BY <1>1, ArrangedAbsorb
<1>3. QED
  BY <1>2 DEF InList

(* list_push merges two nodes that touch.  No third one, not even an empty *)
(* one, lies between them.                                                 *)
LEMMA MergePlaces ==
  ASSUME TypeInv, Places, NEW c, CPUs = {c}, loc[c].map = NoMap,
         NEW l \in live, NEW s \in live, Before(node, l, s),
         node[l].base + node[l].size >= node[s].base,
         \A k \in live : k \in {l, s} \/ Before(node, k, l) \/ Before(node, s, k),
         node' = Absorb(l, s), live' = live \ {s},
         UNCHANGED <<qtd_buffer, frame_buffer, todo, loc>>
  PROVE  Places' /\ FreeFrames' = FreeFrames
<1> DEFINE m == node[l]
           n == node[s]
           j == node'[l]
<1>1. /\ Run(m) /\ Run(n) /\ l # s
      /\ node \in [Regions -> [base : Nat, size : Int, next : NodesOrNull]]
      /\ live \subseteq Regions
  BY DEF Places, AllRuns, Before, TypeInv, TypeOK
<1>2. /\ j.base = m.base /\ j.size = n.base + n.size - m.base
      /\ \A k \in live \ {l} : node'[k] = node[k]
  BY <1>1 DEF Absorb
<1>3. m.base + m.size = n.base
  <2>1. m.base \in Nat /\ m.size \in Nat /\ n.base \in Nat
    BY <1>1, RunType
  <2>2. QED
    BY <2>1 DEF Before
<1>4. /\ Run(j)
      /\ j.base + j.size = n.base + n.size
      /\ j.size = m.size + n.size
      /\ \A x : Page(x, j) <=> Page(x, m) \/ Page(x, n)
  <2> HIDE DEF j, m, n
  <2>1. QED
    BY <1>1, <1>2, <1>3, JoinRuns
<1>5. AllRuns'
  BY <1>2, <1>4 DEF Places, AllRuns
<1>6. \A x : /\ IsBuffered(x)' <=> IsBuffered(x)
             /\ IsListed(x)' <=> IsListed(x)
             /\ IsInHand(x)' <=> IsInHand(x)
  <2>1. ASSUME NEW x
        PROVE  IsListed(x)' <=> IsListed(x)
    <3>1. IsListed(x)' => IsListed(x)
      BY <1>2, <1>4 DEF IsListed
    <3>2. ASSUME NEW k \in live, Page(x, node[k])
          PROVE  IsListed(x)'
      <4>1. l \in live'
        BY <1>1
      <4>2. CASE k \in {l, s}
        BY <1>4, <3>2, <4>1, <4>2 DEF IsListed
      <4>3. CASE k \notin {l, s}
        BY <1>2, <3>2, <4>3 DEF IsListed
      <4>4. QED
        BY <4>2, <4>3
    <3>3. QED
      BY <3>1, <3>2 DEF IsListed
  <2>2. QED
    BY <2>1 DEF IsBuffered, IsInHand
<1>7. FreeFrames' = FreeFrames
  <2>1. \A x : x \in FreeFrames' <=> x \in FreeFrames
    BY <1>5, <1>6, FreeFramesAre, FreeFramesAreNext DEF Places
  <2>2. QED
    BY <2>1
<1>8. RunsApart'
  <2>1. ASSUME NEW k \in live, k \notin {l, s}
        PROVE  Apart(j, node[k]) /\ Apart(node[k], j)
    <3>1. node[k].base + node[k].size <= m.base \/ n.base + n.size <= node[k].base
      BY <2>1 DEF Before
    <3>2. QED
      BY <1>2, <1>4, <3>1 DEF Apart
  <2>2. ASSUME NEW i \in live', NEW k \in live', i # k
        PROVE  Apart(node'[i], node'[k])
    <3>1. i \in live \ {s} /\ k \in live \ {s}
      OBVIOUS
    <3>2. CASE i = l
      BY <1>2, <2>1, <2>2, <3>1, <3>2
    <3>3. CASE k = l
      BY <1>2, <2>1, <2>2, <3>1, <3>3
    <3>4. CASE i # l /\ k # l
      BY <1>2, <2>2, <3>1, <3>4 DEF Places, RunsApart
    <3>5. QED
      BY <3>2, <3>3, <3>4
  <2>3. loc'[c].map.size = 0
    BY DEF NoMap
  <2>4. QED
    BY <2>2, <2>3 DEF RunsApart
<1>9. EmptyRuns'
  <2>1. Added' = Added
    BY DEF Added
  <2>2. j.size = 0 => m.size = 0
    BY <1>1, <1>4, RunType
  <2>3. ASSUME NEW k \in live', node'[k].size = 0
        PROVE  \E x \in Added : node'[k].base = x + PageSize
    <3>1. CASE k = l
      BY <1>2, <2>2, <2>3, <3>1 DEF Places, EmptyRuns
    <3>2. CASE k # l
      BY <1>2, <2>3, <3>2 DEF Places, EmptyRuns
    <3>3. QED
      BY <3>1, <3>2
  <2>4. QED
    BY <2>1, <2>3 DEF EmptyRuns
<1>10. BufferDistinct' /\ BufferApart'
  BY <1>6 DEF Places, BufferDistinct, BufferApart
<1>11. live' \subseteq Regions \ todo'
  BY DEF Places
<1>12. QED
  BY <1>5, <1>7, <1>8, <1>9, <1>10, <1>11 DEF Places

-----------------------------------------------------------------------------
Linking == {"pushLock", "descend"}

(* CPU c has a region that is not yet on the list; it alone has it. *)
Owns(c) == Carries(c) \/ pc[c] \in Linking
Owners  == \A c, d \in CPUs : c # d /\ Owns(c) /\ Owns(d) => loc[c].obj # loc[d].obj

(* The nodes that are on the list. *)
Placed == {n \in live : \A c \in CPUs : pc[c] \in Linking => loc[c].obj # n}

(* m is what is left of region r. *)
SameEnd(m, r) ==
  /\ m.base >= Normalize(r).base
  /\ m.base + m.size = Normalize(r).base + Normalize(r).size

(* Without touching regions a node stays inside its region, so that no two *)
(* ever merge.                                                             *)
Tails == RegionsApart =>
  /\ \A n \in live : SameEnd(node[n], n) /\ Normalize(n).size > 0
  /\ \A c \in CPUs : Carries(c) => SameEnd(loc[c].map, loc[c].obj)
  /\ \A c \in CPUs : pc[c] \notin {"mergeFree", "relock"}

(* The list as CPU c sees it in list_push. *)
InOrder(c) == pc[c] \in Pushing =>
  /\ InList(node, loc[c].path, loc[c].cur, Placed)
  /\ pc[c] = "descend" =>
       \A i \in 1 .. Len(loc[c].path) : node[loc[c].path[i]].base <= node[loc[c].obj].base

(* The list while nobody is in list_push; a CPU that waits for itself may  *)
(* have left list_push half-way, after a merge.                            *)
ListFree == \A c \in CPUs : pc[c] \notin Pushing /\ (RegionsApart \/ pc[c] # "selfLock")
Whole    == ListFree => InList(node, <<>>, avaliableMemory, Placed)

ListInv ==
  /\ Owners
  /\ Tails
  /\ Whole
  /\ \A c \in CPUs : Hand(c) /\ InOrder(c)

(* The inductive invariant of the pool. *)
PoolInv == Places /\ Kept /\ ListInv

(* Nothing happens to the pages. *)
PoolSame == FreeFrames' = FreeFrames /\ mapped' = mapped /\ todo' = todo

(* What the other CPUs notice of a step of c: nothing. *)
OthersStay(c) == \A d \in CPUs : d # c => pc'[d] = pc[d] /\ loc'[d] = loc[d]

(* Every action is of one CPU.                                             *)
LEMMA StepOthers ==
  ASSUME TypeInv, NEW c \in CPUs,
         \/ \E r \in Regions : AddMemorySpace(c, r)
         \/ ClientMalloc(c) \/ ClientFree(c) \/ Step(c)
  PROVE  OthersStay(c)
<1>1. pc \in [CPUs -> Labels] /\ loc \in [CPUs -> Locals]
  BY DEF TypeInv, TypeOK
<1>2. ASSUME NEW r \in Regions, AddMemorySpace(c, r)
      PROVE  OthersStay(c)
  BY <1>1, <1>2 DEF AddMemorySpace, Goto, OthersStay
<1>3. ASSUME ClientMalloc(c) \/ MallocNode(c)
      PROVE  OthersStay(c)
  <2>1. PICK n \in BlockFrames : \/ loc' = [loc EXCEPT ![c].need = n, ![c].client = TRUE]
                                 \/ loc' = [loc EXCEPT ![c].need = n]
    BY <1>3 DEF ClientMalloc, MallocNode
  <2>2. pc' = [pc EXCEPT ![c] = "alloc"]
    BY <1>3 DEF ClientMalloc, MallocNode, Goto
  <2>3. QED
    BY <1>1, <2>1, <2>2 DEF OthersStay
<1>4. ASSUME ClientFree(c) \/ MergeFree(c)
      PROVE  OthersStay(c)
  BY <1>1, <1>4 DEF ClientFree, MergeFree, FreeBlock, Goto, OthersStay
<1>5. ASSUME FillCheck(c) \/ FillAdd(c) \/ Alloc(c)
      PROVE  OthersStay(c)
  <2>1. CASE FillCheck(c)
    BY <1>1, <2>1 DEF FillCheck, Goto, Return, OthersStay
  <2>2. CASE FillAdd(c)
    BY <1>1, <2>2 DEF FillAdd, Goto, OthersStay
  <2>3. CASE Alloc(c)
    BY <1>1, <2>3 DEF Alloc, Goto, Return, OthersStay
  <2>4. QED
    BY <1>5, <2>1, <2>2, <2>3
<1>6. ASSUME LoadLock(c) \/ Load(c) \/ LoadAdd(c) \/ LoadRet(c) \/ Take(c)
      PROVE  OthersStay(c)
  BY <1>1, <1>6 DEF LoadLock, Load, LoadAdd, LoadRet, Take, Goto, OthersStay
<1>7. ASSUME NewObj(c) \/ PushLock(c) \/ Relock(c)
      PROVE  OthersStay(c)
  BY <1>1, <1>7 DEF NewObj, PushLock, Relock, Goto, OthersStay
<1>8. ASSUME Descend(c) \/ Unwind(c) \/ Merge(c)
      PROVE  OthersStay(c)
  <2>1. CASE Descend(c)
    BY <1>1, <2>1 DEF Descend, Goto, OthersStay
  <2>2. CASE Unwind(c)
    BY <1>1, <2>2 DEF Unwind, PushDone, Goto, Return, OthersStay
  <2>3. CASE Merge(c)
    BY <1>1, <2>3 DEF Merge, Goto, OthersStay
  <2>4. QED
    BY <1>8, <2>1, <2>2, <2>3
<1>9. QED
  BY <1>2, <1>3, <1>4, <1>5, <1>6, <1>7, <1>8 DEF Step

(* One CPU is in list_push, and while it is nobody refills the buffer.     *)
LEMMA PusherAlone ==
  ASSUME SafeMap, TypeInv, Tails, NEW c \in CPUs, NEW d \in CPUs, d # c, pc[c] \in Pushing
  PROVE  pc[d] \notin Pushing \cup {"load", "loadAdd"} /\ lock1 = c
<1>1. RegionsApart
  BY DEF SafeMap
<1>2. pc[c] \in {"descend", "unwind", "merge"} /\ pc[d] \notin {"mergeFree", "relock"}
  BY <1>1 DEF Tails, Pushing
<1>3. lock1 = c
  BY <1>2 DEF TypeInv, LocalsOK, Lock1Critical
<1>4. QED
  BY <1>2, <1>3 DEF TypeInv, LocalsOK, Lock1Critical, Pushing

(* A list that CPU c can change is whole: nobody else is in list_push.     *)
LEMMA LoaderSees ==
  ASSUME SafeMap, TypeInv, ListInv, NEW c \in CPUs,
         pc[c] \in {"load", "loadAdd"} \/ (pc[c] = "pushLock" /\ lock1 = NoCPU)
  PROVE  ListFree /\ InList(node, <<>>, avaliableMemory, Placed)
<1>1. \A d \in CPUs : pc[d] \notin Pushing
  <2>1. SUFFICES ASSUME NEW d \in CPUs, pc[d] \in Pushing
                 PROVE  FALSE
    OBVIOUS
  <2>2. d # c
    BY <2>1 DEF Pushing
  <2>3. pc[c] \notin {"load", "loadAdd"} /\ lock1 = d
    BY <2>1, <2>2, PusherAlone DEF ListInv
  <2>4. QED
    BY <2>3, FrameAllocatorAssumption
<1>2. RegionsApart \/ \A d \in CPUs : pc[d] # "selfLock"
  BY DEF SafeMap
<1>3. QED
  BY <1>1, <1>2 DEF ListInv, Whole, ListFree

(* What the other CPUs have in hand.                                       *)
LEMMA OtherHands ==
  ASSUME ListInv, NEW c \in CPUs, OthersStay(c), todo' \subseteq todo,
         \A d \in CPUs : d # c /\ Carries(d) => loc[d].obj \notin live',
         \A d \in CPUs : d # c /\ pc[d] \in Linking =>
           loc[d].obj \in live' /\ node'[loc[d].obj].size = node[loc[d].obj].size,
         \A d \in CPUs : d # c /\ pc[d] = "loadAdd" =>
           node'[avaliableMemory'].size = node[avaliableMemory].size
  PROVE  \A d \in CPUs : d # c => Hand(d)'
<1> SUFFICES ASSUME NEW d \in CPUs, d # c
             PROVE  Hand(d)'
  OBVIOUS
<1>1. pc'[d] = pc[d] /\ loc'[d] = loc[d] /\ Hand(d)
  BY DEF OthersStay, ListInv
<1>2. Carries(d)' <=> Carries(d)
  BY <1>1 DEF Carries
<1>3. QED
  BY <1>1, <1>2 DEF Hand, Linking

(* A step of a CPU that is not in list_push, and does not change what is   *)
(* on the list.                                                            *)
LEMMA OrderKept ==
  ASSUME ListInv, NEW c \in CPUs, OthersStay(c),
         pc[c] \notin Pushing \cup {"selfLock"}, pc'[c] \notin Pushing,
         \A k \in live : node'[k] = node[k],
         Placed' = Placed, avaliableMemory' = avaliableMemory
  PROVE  (\A d \in CPUs : InOrder(d))' /\ Whole'
<1>1. \A k \in Placed : node'[k] = node[k]
  BY DEF Placed
<1>2. \A p, f : InList(node, p, f, Placed) => InList(node', p, f, Placed)
  BY <1>1, InListKept
<1>3. ASSUME NEW d \in CPUs
      PROVE  InOrder(d)'
  <2>1. CASE d = c
    BY <2>1 DEF InOrder
  <2>2. CASE d # c
    <3>1. pc'[d] = pc[d] /\ loc'[d] = loc[d] /\ Hand(d) /\ InOrder(d)
      BY <2>2 DEF OthersStay, ListInv
    <3>2. CASE pc[d] \notin Pushing
      BY <3>1, <3>2 DEF InOrder
    <3>3. CASE pc[d] \in Pushing
      <4>1. /\ InList(node, loc[d].path, loc[d].cur, Placed)
            /\ InList(node', loc[d].path, loc[d].cur, Placed)
        BY <1>2, <3>1, <3>3 DEF InOrder
      <4>2. \A i \in 1 .. Len(loc[d].path) : node'[loc[d].path[i]] = node[loc[d].path[i]]
        BY <1>1, <4>1, InListPlaces
      <4>3. pc[d] = "descend" => node'[loc[d].obj] = node[loc[d].obj]
        BY <3>1 DEF Hand
      <4>4. QED
        BY <3>1, <3>3, <4>1, <4>2, <4>3 DEF InOrder
    <3>4. QED
      BY <3>2, <3>3
  <2>3. QED
    BY <2>1, <2>2
<1>4. Whole'
  <2>1. ListFree' => ListFree
    BY DEF ListFree, OthersStay
  <2>2. QED
    BY <1>2, <2>1 DEF ListInv, Whole
<1>5. QED
  BY <1>3, <1>4

(* And keeps the list altogether.                                          *)
LEMMA QuietStep ==
  ASSUME Places, ListInv, NEW c \in CPUs, OthersStay(c), Hand(c)',
         UNCHANGED <<node, live, avaliableMemory>>, todo' \subseteq todo,
         pc[c] \notin Pushing \cup Linking \cup {"selfLock"},
         pc'[c] \notin Pushing \cup Linking,
         Carries(c)' =>
           /\ loc'[c].obj \in todo \/ (Carries(c) /\ loc'[c].obj = loc[c].obj)
           /\ RegionsApart => SameEnd(loc'[c].map, loc'[c].obj)
  PROVE  ListInv'
<1>1. \A d \in CPUs : d # c => pc'[d] = pc[d] /\ loc'[d] = loc[d] /\ (Carries(d)' <=> Carries(d))
  BY DEF OthersStay, Carries
<1>2. Placed' = Placed
  <2>1. \A n \in live : n \in Placed' <=> n \in Placed
    BY <1>1 DEF Placed
  <2>2. QED
    BY <2>1 DEF Placed
<1>3. \A d \in CPUs : Hand(d)'
  <2>1. \A d \in CPUs : Hand(d)
    BY DEF ListInv
  <2>2. \A d \in CPUs : d # c => Hand(d)'
    BY <2>1, OtherHands DEF Hand, Linking
  <2>3. QED
    BY <2>2
<1>4. Owners'
  <2>1. \A d \in CPUs : Owns(d) => loc[d].obj \notin todo
    BY DEF Owns, ListInv, Hand, Places, Linking
  <2>2. Owns(c)' => loc'[c].obj \in todo \/ (Owns(c) /\ loc'[c].obj = loc[c].obj)
    BY DEF Owns
  <2>3. \A d \in CPUs : d # c => (Owns(d)' <=> Owns(d)) /\ loc'[d] = loc[d]
    BY <1>1 DEF Owns
  <2>4. QED
    BY <2>1, <2>2, <2>3 DEF ListInv, Owners
<1>5. Tails'
  BY <1>1 DEF ListInv, Tails, Pushing
<1>6. (\A d \in CPUs : InOrder(d))' /\ Whole'
  BY <1>2, OrderKept
<1>7. QED
  BY <1>3, <1>4, <1>5, <1>6 DEF ListInv

(* One lemma for each group of actions: what it keeps of ListInv.  First   *)
(* addMemorySpace up to the node, and the calls of other kernel code.      *)
LEMMA CallSteps ==
  ASSUME TypeInv, Places, ListInv, NEW c \in CPUs,
         \/ \E r \in Regions : AddMemorySpace(c, r)
         \/ ClientMalloc(c) \/ ClientFree(c) \/ FillCheck(c) \/ FillAdd(c) \/ MallocNode(c)
  PROVE  ListInv'
<1>1. /\ pc \in [CPUs -> Labels] /\ loc \in [CPUs -> Locals]
      /\ todo \subseteq Regions
  BY DEF TypeInv, TypeOK
<1>2. OthersStay(c) /\ Hand(c)
  BY StepOthers DEF Step, ListInv
<1>3. RegionsApart /\ Carries(c) => SameEnd(loc[c].map, loc[c].obj)
  BY DEF ListInv, Tails
<1>4. ASSUME NEW r \in Regions, AddMemorySpace(c, r)
      PROVE  ListInv'
  <2>1. /\ pc[c] = "idle" /\ pc'[c] = "fill" /\ r \in todo /\ todo' = todo \ {r}
        /\ loc'[c].obj = r /\ loc'[c].client = loc[c].client /\ loc'[c].path = loc[c].path
        /\ loc'[c].map = Normalize(r)
        /\ UNCHANGED <<node, live, avaliableMemory>>
    BY <1>1, <1>4 DEF AddMemorySpace, Goto, alloc_vars, Locals
  <2>2. Hand(c)'
    BY <1>2, <2>1 DEF Hand, Carries, Growing, Getting, Pushing, Places, NoLocals
  <2>3. SameEnd(loc'[c].map, loc'[c].obj)
    <3>1. Normalize(r).base \in Nat
      BY NormalizeRun, RunType
    <3>2. QED
      BY <2>1, <3>1 DEF SameEnd
  <2>4. QED
    BY <1>2, <2>1, <2>2, <2>3, QuietStep DEF Pushing, Linking
<1>5. ASSUME ClientMalloc(c) \/ MallocNode(c)
      PROVE  ListInv'
  <2>1. /\ loc'[c].client = (loc[c].client \/ pc[c] = "idle") /\ loc'[c].path = loc[c].path
        /\ loc'[c].map = loc[c].map /\ loc'[c].obj = loc[c].obj
    <3>1. CASE ClientMalloc(c)
      <4>1. PICK n \in BlockFrames : loc' = [loc EXCEPT ![c].need = n, ![c].client = TRUE]
        BY <3>1 DEF ClientMalloc
      <4>2. pc[c] = "idle"
        BY <3>1 DEF ClientMalloc
      <4>3. QED
        BY <1>1, <4>1, <4>2 DEF Locals
    <3>2. CASE MallocNode(c)
      <4>1. PICK n \in BlockFrames : loc' = [loc EXCEPT ![c].need = n]
        BY <3>2 DEF MallocNode
      <4>2. pc[c] = "malloc" /\ loc[c].client \in BOOLEAN
        BY <1>1, <3>2 DEF MallocNode, Locals
      <4>3. QED
        BY <1>1, <4>1, <4>2 DEF Locals
    <3>3. QED
      BY <1>5, <3>1, <3>2
  <2>2. /\ pc[c] \in {"idle", "malloc"} /\ pc'[c] = "alloc" /\ todo' = todo
        /\ UNCHANGED <<node, live, avaliableMemory>>
    BY <1>1, <1>5 DEF ClientMalloc, MallocNode, Goto, alloc_vars
  <2>3. Hand(c)'
    BY <1>2, <2>1, <2>2 DEF Hand, Carries, Growing, Getting, Pushing, NoLocals
  <2>4. Carries(c)' => Carries(c)
    BY <2>1, <2>2 DEF Carries, Growing, Getting
  <2>5. QED
    BY <1>2, <1>3, <2>1, <2>2, <2>3, <2>4, QuietStep DEF Pushing, Linking
<1>6. ASSUME ClientFree(c)
      PROVE  ListInv'
  <2>1. /\ pc[c] = "idle" /\ pc'[c] \in {"idle", "selfLock"} /\ todo' = todo
        /\ loc' = loc /\ UNCHANGED <<node, live, avaliableMemory>>
    BY <1>1, <1>6 DEF ClientFree, FreeBlock, Goto, alloc_vars
  <2>2. Hand(c)'
    BY <1>2, <2>1 DEF Hand, Carries, Growing, Getting, Pushing, NoLocals
  <2>3. ~Carries(c)'
    BY <2>1 DEF Carries, Growing, Getting
  <2>4. QED
    BY <1>2, <2>1, <2>2, <2>3, QuietStep DEF Pushing, Linking
<1>7. ASSUME FillCheck(c)
      PROVE  ListInv'
  <2>1. /\ pc[c] = "fill" /\ todo' = todo /\ UNCHANGED <<node, live, avaliableMemory>>
        /\ \/ pc'[c] = "fillAdd" /\ loc' = loc /\ loc[c].map.size > PageSize
           \/ pc'[c] = "idle" /\ loc'[c] = NoLocals
           \/ pc'[c] = "malloc" /\ loc' = loc /\ loc[c].map.size >= PageSize
    BY <1>1, <1>7 DEF FillCheck, FillMore, Goto, Return, alloc_vars
  <2>2. loc[c].map.size \in Nat /\ PageSize \in Nat
    BY <1>1, FrameAllocatorAssumption DEF Locals, MemorySpaces
  <2>3. Hand(c)'
    BY <1>2, <2>1, <2>2 DEF Hand, Carries, Growing, Getting, Pushing, NoLocals, NoMap
  <2>4. Carries(c) /\ (Carries(c)' => loc' = loc)
    BY <2>1 DEF Carries, Growing, Getting
  <2>5. QED
    BY <1>2, <1>3, <2>1, <2>3, <2>4, QuietStep DEF Pushing, Linking
<1>8. ASSUME FillAdd(c)
      PROVE  ListInv'
  <2>1. /\ pc[c] = "fillAdd" /\ pc'[c] = "fill" /\ todo' = todo
        /\ UNCHANGED <<node, live, avaliableMemory>>
        /\ loc'[c].path = loc[c].path /\ loc'[c].obj = loc[c].obj
        /\ loc'[c].client = loc[c].client /\ loc'[c].map = DropPage(loc[c].map)
    BY <1>1, <1>8 DEF FillAdd, Goto, Locals
  <2>2. Hand(c)' /\ Carries(c)
    BY <1>2, <2>1 DEF Hand, Carries, Growing, Getting, Pushing
  <2>3. RegionsApart => SameEnd(loc'[c].map, loc'[c].obj)
    <3>1. loc[c].map \in [base : Nat, size : Nat] /\ PageSize \in Nat /\ loc[c].obj \in Regions
      BY <1>1, <1>2, <2>2, FrameAllocatorAssumption DEF Locals, MemorySpaces, Hand
    <3>2. loc'[c].map.base = loc[c].map.base + PageSize /\ loc'[c].map.size = loc[c].map.size - PageSize
      BY <2>1, <3>1 DEF DropPage
    <3>3. Run(Normalize(loc[c].obj))
      BY <3>1, NormalizeRun
    <3>4. QED
      BY <1>3, <2>1, <2>2, <3>1, <3>2, <3>3, RunType DEF SameEnd
  <2>4. QED
    BY <1>2, <2>1, <2>2, <2>3, QuietStep DEF Pushing, Linking
<1>9. QED
  BY <1>4, <1>5, <1>6, <1>7, <1>8

(* allocate and loadBuffer up to the frames they take.                     *)
LEMMA AllocSteps ==
  ASSUME TypeInv, Places, ListInv, NEW c \in CPUs,
         Alloc(c) \/ LoadLock(c) \/ Load(c) \/ LoadRet(c) \/ Take(c)
  PROVE  ListInv'
<1>0. OthersStay(c) /\ Hand(c)
  BY StepOthers DEF Step, ListInv
<1>1. /\ pc \in [CPUs -> Labels] /\ loc \in [CPUs -> Locals]
      /\ node \in [Regions -> [base : Nat, size : Int, next : NodesOrNull]]
      /\ avaliableMemory \in NodesOrNull /\ PageSize \in Nat
  BY FrameAllocatorAssumption DEF TypeInv, TypeOK
<1>2. /\ todo' = todo /\ UNCHANGED <<node, live, avaliableMemory>>
      /\ pc[c] \in {"alloc", "loadLock", "load", "loadRet", "take"}
      /\ \/ /\ pc'[c] \in {"alloc", "loadLock", "load", "loadAdd", "loadRet", "take", "panic",
                           "freeHead"}
            /\ loc'[c].map = loc[c].map /\ loc'[c].obj = loc[c].obj
            /\ loc'[c].path = loc[c].path /\ loc'[c].client = loc[c].client
            /\ pc'[c] = "loadAdd" => node[avaliableMemory].size >= PageSize
         \/ pc'[c] = "idle" /\ loc[c].client /\ loc'[c] = NoLocals
         \/ pc'[c] = "newObj" /\ ~loc[c].client /\ loc' = loc
  <2>1. CASE Alloc(c)
    BY <1>1, <2>1 DEF Alloc, Goto, Return, alloc_vars
  <2>2. CASE LoadLock(c)
    BY <1>1, <2>2 DEF LoadLock, Goto, alloc_vars
  <2>3. CASE Load(c)
    <3>1. pc'[c] = "loadAdd" => avaliableMemory # Null /\ ~(node[avaliableMemory].size < PageSize)
      BY <1>1, <2>3 DEF Load, Goto
    <3>2. pc'[c] = "loadAdd" => node[avaliableMemory].size >= PageSize
      BY <1>1, <3>1 DEF NodesOrNull
    <3>3. QED
      BY <1>1, <2>3, <3>2 DEF Load, Goto, alloc_vars
  <2>4. CASE LoadRet(c)
    BY <1>1, <2>4 DEF LoadRet, Goto, alloc_vars
  <2>5. CASE Take(c)
    BY <1>1, <2>5 DEF Take, Goto, Locals
  <2>6. QED
    BY <2>1, <2>2, <2>3, <2>4, <2>5
<1>3. Hand(c)'
  BY <1>0, <1>2 DEF Hand, Carries, Growing, Getting, Pushing, NoLocals
<1>4. Carries(c)' => Carries(c) /\ loc'[c].obj = loc[c].obj /\ loc'[c].map = loc[c].map
  BY <1>2 DEF Carries, Growing, Getting
<1>5. RegionsApart /\ Carries(c) => SameEnd(loc[c].map, loc[c].obj)
  BY DEF ListInv, Tails
<1>6. QED
  BY <1>0, <1>2, <1>3, <1>4, <1>5, QuietStep DEF Pushing, Linking

(* loadBuffer takes the first page of the first node.                      *)
LEMMA LoadAddSteps ==
  ASSUME SafeMap, TypeInv, Places, ListInv, NEW c \in CPUs, LoadAdd(c)
  PROVE  ListInv' /\ avaliableMemory \in live
<1> DEFINE h == avaliableMemory
<1>0. OthersStay(c) /\ Hand(c)
  BY StepOthers DEF Step, ListInv
<1>1. /\ pc \in [CPUs -> Labels] /\ loc \in [CPUs -> Locals]
      /\ node \in Nodes /\ PageSize \in Nat \ {0} /\ live \subseteq Regions
  BY FrameAllocatorAssumption DEF TypeInv, TypeOK, Nodes
<1>2. /\ pc[c] = "loadAdd" /\ pc'[c] = "load" /\ todo' = todo
      /\ UNCHANGED <<loc, live, avaliableMemory>>
      /\ node' = [node EXCEPT ![h] = DropPage(@)]
  BY <1>1 DEF LoadAdd, Goto
<1>3. ListFree /\ InList(node, <<>>, h, Placed) /\ h \in Regions
  BY <1>2, LoaderSees DEF TypeInv, LocalsOK
<1>4. h \in Placed /\ h \in live
  <2>1. h \in Placed
    BY <1>3, InListPlaces, FrameAllocatorAssumption
  <2>2. QED
    BY <2>1 DEF Placed
<1>5. /\ node' \in Nodes
      /\ node'[h].base = node[h].base + PageSize
      /\ node'[h].size = node[h].size - PageSize
      /\ node'[h].next = node[h].next
      /\ \A k \in live : k # h => node'[k] = node[k]
      /\ \A k \in live : node[k].base \in Nat /\ node[k].size \in Int
  <2>1. DropPage(node[h]) \in [base : Nat, size : Int, next : NodesOrNull]
    BY <1>1, <1>3, DropPageType DEF Nodes
  <2>2. node' \in Nodes
    BY <1>1, <1>2, <1>3, <2>1 DEF Nodes
  <2>3. node'[h] = DropPage(node[h])
    BY <1>1, <1>2, <1>3 DEF Nodes
  <2>4. /\ node'[h].base = node[h].base + PageSize
        /\ node'[h].size = node[h].size - PageSize
        /\ node'[h].next = node[h].next
    BY <1>1, <1>3, <2>3 DEF Nodes, DropPage
  <2>5. \A k \in live : k # h => node'[k] = node[k]
    BY <1>1, <1>2 DEF Nodes
  <2>6. \A k \in live : node[k].base \in Nat /\ node[k].size \in Int
    BY <1>1 DEF Nodes
  <2>7. QED
    BY <2>2, <2>4, <2>5, <2>6
<1> HIDE DEF h
<1>6. \A d \in CPUs : /\ loc'[d] = loc[d] /\ (pc'[d] \in Linking <=> pc[d] \in Linking)
                      /\ (Carries(d)' <=> Carries(d)) /\ pc[d] \notin Pushing
                      /\ (pc'[d] = pc[d] \/ (d = c /\ pc'[d] = "load"))
  BY <1>0, <1>2, <1>3 DEF OthersStay, Linking, Carries, Growing, Getting, ListFree
<1>7. Placed' = Placed
  <2>1. \A n \in live : n \in Placed' <=> n \in Placed
    BY <1>2, <1>6 DEF Placed
  <2>2. QED
    BY <1>2, <2>1 DEF Placed
<1>8. \A d \in CPUs : Hand(d)'
  <2>1. Hand(c)'
    BY <1>0, <1>2 DEF Hand, Carries, Growing, Getting, Pushing
  <2>2. \A d \in CPUs : Hand(d)
    BY DEF ListInv
  <2>3. \A d \in CPUs : Carries(d) => loc[d].obj \notin live
    BY <2>2 DEF Hand
  <2>4. \A d \in CPUs : pc[d] \in Linking => loc[d].obj \in live /\ loc[d].obj # h
    BY <1>4, <2>2 DEF Hand, Linking, Placed
  <2>5. \A d \in CPUs : d # c => pc[d] # "loadAdd"
    BY <1>2 DEF TypeInv, LocalsOK, Lock1Critical
  <2>6. \A d \in CPUs : d # c => Hand(d)'
    BY <1>0, <1>2, <1>5, <2>3, <2>4, <2>5, OtherHands
  <2>7. QED
    BY <2>1, <2>6
<1>9. Owners'
  <2>1. \A d \in CPUs : Owns(d)' <=> Owns(d)
    BY <1>6 DEF Owns
  <2>2. QED
    BY <1>2, <2>1 DEF ListInv, Owners
<1>10. Tails'
  <2>1. ASSUME RegionsApart, NEW n \in live
        PROVE  SameEnd(node'[n], n) /\ Normalize(n).size > 0
    <3>1. SameEnd(node[n], n) /\ Normalize(n).size > 0 /\ n \in Regions
      BY <1>1, <2>1 DEF ListInv, Tails
    <3>2. Normalize(n).base \in Nat /\ Normalize(n).size \in Nat
      BY <3>1, NormalizeRun, RunType
    <3>3. CASE n = h
      BY <1>1, <1>4, <1>5, <3>1, <3>2, <3>3 DEF SameEnd
    <3>4. CASE n # h
      BY <1>5, <3>1, <3>4
    <3>5. QED
      BY <3>3, <3>4
  <2>2. RegionsApart => \A d \in CPUs : Carries(d) => SameEnd(loc[d].map, loc[d].obj)
    BY DEF ListInv, Tails
  <2>3. \A d \in CPUs : pc'[d] \notin {"mergeFree", "relock"}
    BY <1>6 DEF Pushing
  <2>4. QED
    BY <1>2, <1>6, <2>1, <2>2, <2>3 DEF Tails
<1>11. (\A d \in CPUs : InOrder(d))'
  BY <1>6 DEF InOrder, Pushing
<1>12. Whole'
  <2>1. \A k \in Placed : /\ node'[k].base >= node[k].base
                          /\ node'[k].base + node'[k].size = node[k].base + node[k].size
                          /\ node'[k].next = node[k].next
    <3>1. \A k \in Placed : k \in live
      BY DEF Placed
    <3>2. QED
      BY <1>1, <1>4, <1>5, <3>1
  <2>2. InList(node', <<>>, h, Placed)
    BY <1>1, <1>3, <1>5, <2>1, InListKept
  <2>3. QED
    BY <1>2, <1>7, <2>2 DEF Whole, h
<1>13. QED
  BY <1>4, <1>8, <1>9, <1>10, <1>11, <1>12 DEF ListInv, h

(* The region in hand becomes a node, which is not yet on the list.        *)
LEMMA NewObjSteps ==
  ASSUME SafeMap, TypeInv, Places, ListInv, NEW c \in CPUs, NewObj(c)
  PROVE  ListInv'
<1> DEFINE o == loc[c].obj
<1>0. OthersStay(c) /\ Hand(c)
  BY StepOthers DEF Step, ListInv
<1>1. /\ pc \in [CPUs -> Labels] /\ loc \in [CPUs -> Locals]
      /\ node \in Nodes /\ PageSize \in Nat \ {0} /\ live \subseteq Regions
  BY FrameAllocatorAssumption DEF TypeInv, TypeOK, Nodes
<1>2. /\ pc[c] = "newObj" /\ pc'[c] = "pushLock" /\ todo' = todo
      /\ live' = live \cup {o} /\ avaliableMemory' = avaliableMemory
      /\ loc'[c].obj = o /\ loc'[c].path = loc[c].path /\ loc'[c].map = NoMap
      /\ node' = [node EXCEPT ![o] = [base |-> loc[c].map.base,
                             size |-> loc[c].map.size, next |-> Null]]
  BY <1>1 DEF NewObj, Goto, Locals
<1>3. /\ o \in Regions /\ o \notin live /\ Carries(c) /\ loc[c].path = <<>>
      /\ loc[c].map.size >= PageSize /\ loc[c].map.size \in Nat /\ loc[c].map.base \in Nat
  BY <1>0, <1>1, <1>2 DEF Hand, Carries, Growing, Pushing, Locals, MemorySpaces
<1>4. /\ node'[o].base = loc[c].map.base /\ node'[o].size = loc[c].map.size
      /\ \A k \in live : node'[k] = node[k]
  BY <1>1, <1>2, <1>3 DEF Nodes
<1>5. \A d \in CPUs : d # c => /\ loc'[d] = loc[d] /\ pc'[d] = pc[d]
                               /\ (Carries(d)' <=> Carries(d))
                               /\ (Owns(d) => loc[d].obj # o)
  <2>1. \A d \in CPUs : d # c => loc'[d] = loc[d] /\ pc'[d] = pc[d] /\ (Carries(d)' <=> Carries(d))
    BY <1>0 DEF OthersStay, Carries
  <2>2. \A d \in CPUs : d # c => (Owns(d) => loc[d].obj # o)
    BY <1>3 DEF ListInv, Owners, Owns
  <2>3. QED
    BY <2>1, <2>2
<1> HIDE DEF o
<1>6. Placed' = Placed
  <2>1. o \notin Placed' /\ o \notin Placed
    BY <1>2, <1>3 DEF Placed, Linking
  <2>2. \A n \in live : n \in Placed' <=> n \in Placed
    BY <1>2, <1>3, <1>5 DEF Placed, Linking
  <2>3. QED
    BY <1>2, <2>1, <2>2 DEF Placed
<1>7. \A d \in CPUs : Hand(d)'
  <2>1. Hand(c)'
    BY <1>1, <1>2, <1>3, <1>4 DEF Hand, Carries, Growing, Getting, Pushing
  <2>2. \A d \in CPUs : Hand(d)
    BY DEF ListInv
  <2>3. \A d \in CPUs : d # c /\ Carries(d) => loc[d].obj \notin live'
    BY <1>2, <1>5, <2>2 DEF Hand, Owns
  <2>4. \A d \in CPUs : d # c /\ pc[d] \in Linking =>
          loc[d].obj \in live' /\ node'[loc[d].obj].size = node[loc[d].obj].size
    BY <1>2, <1>4, <2>2 DEF Hand, Linking
  <2>5. ASSUME NEW d \in CPUs, pc[d] = "loadAdd"
        PROVE  avaliableMemory \in live
    <3>1. InList(node, <<>>, avaliableMemory, Placed) /\ avaliableMemory \in Regions
      BY <2>5, LoaderSees DEF TypeInv, LocalsOK
    <3>2. avaliableMemory \in Placed
      BY <3>1, InListPlaces, FrameAllocatorAssumption
    <3>3. QED
      BY <3>2 DEF Placed
  <2>6. \A d \in CPUs : d # c => Hand(d)'
    BY <1>0, <1>2, <1>4, <2>3, <2>4, <2>5, OtherHands
  <2>7. QED
    BY <2>1, <2>6
<1>8. Owners'
  <2>1. \A d \in CPUs : d # c => (Owns(d)' <=> Owns(d))
    BY <1>5 DEF Owns
  <2>2. QED
    BY <1>2, <1>5, <2>1 DEF ListInv, Owners
<1>9. Tails'
  <2>1. ASSUME RegionsApart
        PROVE  SameEnd(node'[o], o) /\ Normalize(o).size > 0
    <3>1. SameEnd(loc[c].map, o)
      BY <1>3, <2>1 DEF ListInv, Tails, o
    <3>2. Normalize(o).base \in Nat /\ Normalize(o).size \in Nat
      BY <1>3, NormalizeRun, RunType
    <3>3. QED
      BY <1>1, <1>3, <1>4, <3>1, <3>2 DEF SameEnd
  <2>2. RegionsApart => \A n \in live : SameEnd(node'[n], n) /\ Normalize(n).size > 0
    BY <1>4 DEF ListInv, Tails
  <2>3. ~Carries(c)'
    BY <1>2 DEF Carries, Growing, Getting
  <2>4. RegionsApart => \A d \in CPUs : Carries(d)' => SameEnd(loc'[d].map, loc'[d].obj)
    BY <1>5, <2>3 DEF ListInv, Tails
  <2>5. RegionsApart => \A d \in CPUs : pc'[d] \notin {"mergeFree", "relock"}
    BY <1>2, <1>5 DEF ListInv, Tails
  <2>6. QED
    BY <1>2, <2>1, <2>2, <2>4, <2>5 DEF Tails
<1>10. (\A d \in CPUs : InOrder(d))' /\ Whole'
  BY <1>0, <1>2, <1>4, <1>6, OrderKept DEF Pushing
<1>11. QED
  BY <1>7, <1>8, <1>9, <1>10 DEF ListInv

(* list_push is called with the list as it is.                             *)
LEMMA PushLockSteps ==
  ASSUME SafeMap, TypeInv, Places, ListInv, NEW c \in CPUs, PushLock(c)
  PROVE  ListInv'
<1>0. OthersStay(c) /\ Hand(c)
  BY StepOthers DEF Step, ListInv
<1>1. pc \in [CPUs -> Labels] /\ loc \in [CPUs -> Locals]
  BY DEF TypeInv, TypeOK
<1>2. /\ pc[c] = "pushLock" /\ pc'[c] = "descend" /\ lock1 = NoCPU
      /\ UNCHANGED <<todo, node, live, avaliableMemory>>
      /\ loc'[c].obj = loc[c].obj /\ loc'[c].path = loc[c].path /\ loc'[c].map = loc[c].map
      /\ loc'[c].cur = avaliableMemory
  BY <1>1 DEF PushLock, acquireLock1, Goto, alloc_vars, Locals
<1>3. ListFree /\ InList(node, <<>>, avaliableMemory, Placed) /\ loc[c].path = <<>>
  BY <1>0, <1>2, LoaderSees DEF Hand, Pushing
<1>4. \A d \in CPUs : /\ pc'[d] = pc[d] \/ (d = c /\ pc'[d] = "descend")
                      /\ d # c => loc'[d] = loc[d]
                      /\ loc'[d].obj = loc[d].obj /\ loc'[d].map = loc[d].map
                      /\ (pc'[d] \in Linking <=> pc[d] \in Linking)
                      /\ (Carries(d)' <=> Carries(d)) /\ pc[d] \notin Pushing
  BY <1>0, <1>2, <1>3 DEF OthersStay, Linking, Carries, Growing, Getting, ListFree
<1>5. Placed' = Placed
  <2>1. \A n \in live : n \in Placed' <=> n \in Placed
    BY <1>2, <1>4 DEF Placed
  <2>2. QED
    BY <1>2, <2>1 DEF Placed
<1>6. \A d \in CPUs : Hand(d)'
  <2>1. Hand(c)'
    BY <1>0, <1>2 DEF Hand, Carries, Growing, Getting, Pushing
  <2>2. \A d \in CPUs : Hand(d)
    BY DEF ListInv
  <2>3. \A d \in CPUs : d # c => Hand(d)'
    BY <1>0, <1>2, <2>2, OtherHands DEF Hand, Linking
  <2>4. QED
    BY <2>1, <2>3
<1>7. Owners'
  BY <1>4 DEF ListInv, Owners, Owns
<1>8. Tails'
  <2>1. \A d \in CPUs : pc'[d] \notin {"mergeFree", "relock"}
    BY <1>4 DEF Pushing
  <2>2. QED
    BY <1>2, <1>4, <2>1 DEF ListInv, Tails
<1>9. (\A d \in CPUs : InOrder(d))'
  <2>1. InOrder(c)'
    <3>1. InList(node', loc'[c].path, loc'[c].cur, Placed')
      BY <1>2, <1>3, <1>5
    <3>2. Len(loc'[c].path) = 0
      BY <1>2, <1>3
    <3>3. QED
      BY <3>1, <3>2 DEF InOrder
  <2>2. \A d \in CPUs : d # c => InOrder(d)'
    BY <1>4 DEF InOrder
  <2>3. QED
    BY <2>1, <2>2
<1>10. Whole'
  BY <1>2 DEF Whole, ListFree, Pushing
<1>11. QED
  BY <1>6, <1>7, <1>8, <1>9, <1>10 DEF ListInv

(* A step inside list_push that leaves the nodes' pages alone.             *)
LEMMA PushStep ==
  ASSUME SafeMap, TypeInv, Places, ListInv, NEW c \in CPUs, OthersStay(c),
         pc[c] \in Pushing, Hand(c)', InOrder(c)',
         UNCHANGED <<todo, live, avaliableMemory>>,
         \A k \in live : node'[k].base = node[k].base /\ node'[k].size = node[k].size,
         pc'[c] \in Pushing \/ (pc'[c] = "selfLock" /\ ~RegionsApart),
         RegionsApart => pc'[c] \notin {"mergeFree", "relock"},
         pc'[c] = "descend" => loc'[c].obj = loc[c].obj /\ pc[c] = "descend"
  PROVE  ListInv'
<1>1. \A d \in CPUs : d # c => /\ loc'[d] = loc[d] /\ pc'[d] = pc[d]
                               /\ (Carries(d)' <=> Carries(d))
                               /\ pc[d] \notin Pushing \cup {"loadAdd"}
  BY PusherAlone DEF OthersStay, Carries, ListInv
<1>2. ~Carries(c)'
  BY DEF Carries, Growing, Getting, Pushing
<1>3. \A d \in CPUs : Hand(d)'
  <2>1. \A d \in CPUs : Hand(d)
    BY DEF ListInv
  <2>2. \A d \in CPUs : d # c /\ Carries(d) => loc[d].obj \notin live
    BY <2>1 DEF Hand
  <2>3. \A d \in CPUs : d # c /\ pc[d] \in Linking =>
          loc[d].obj \in live' /\ node'[loc[d].obj].size = node[loc[d].obj].size
    BY <2>1 DEF Hand, Linking
  <2>4. \A d \in CPUs : d # c => Hand(d)'
    BY <1>1, <2>2, <2>3, OtherHands
  <2>5. QED
    BY <2>4
<1>4. Owners'
  <2>1. /\ \A d \in CPUs : Owns(d)' => Owns(d)
        /\ \A d \in CPUs : Owns(d)' => loc'[d].obj = loc[d].obj
    BY <1>1, <1>2 DEF Owns, Linking, Pushing
  <2>2. QED
    BY <2>1 DEF ListInv, Owners
<1>5. Tails'
  <2>1. RegionsApart => \A n \in live : SameEnd(node'[n], n) /\ Normalize(n).size > 0
    BY DEF ListInv, Tails, SameEnd
  <2>2. RegionsApart => \A d \in CPUs : Carries(d)' => SameEnd(loc'[d].map, loc'[d].obj)
    BY <1>1, <1>2 DEF ListInv, Tails
  <2>3. RegionsApart => \A d \in CPUs : pc'[d] \notin {"mergeFree", "relock"}
    BY <1>1 DEF ListInv, Tails
  <2>4. QED
    BY <2>1, <2>2, <2>3 DEF Tails
<1>6. (\A d \in CPUs : InOrder(d))'
  BY <1>1 DEF InOrder
<1>7. Whole'
  BY DEF Whole, ListFree
<1>8. QED
  BY <1>3, <1>4, <1>5, <1>6, <1>7 DEF ListInv

(* Once CPU c is past descend every node that others are not about to link *)
(* is on the list.                                                         *)
LEMMA PlacedAre ==
  ASSUME NEW c \in CPUs, OthersStay(c), live' = live
  PROVE  /\ pc[c] = "descend" /\ pc'[c] = "descend" /\ loc'[c].obj = loc[c].obj => Placed' = Placed
         /\ pc[c] = "descend" /\ pc'[c] \notin Linking /\ loc[c].obj \in live
              /\ (\A d \in CPUs : d # c /\ pc[d] \in Linking => loc[d].obj # loc[c].obj)
              => Placed' = Placed \cup {loc[c].obj} /\ loc[c].obj \notin Placed
         /\ pc[c] \notin Linking /\ pc'[c] \notin Linking => Placed' = Placed
<1>1. \A d \in CPUs : d # c => pc'[d] = pc[d] /\ loc'[d] = loc[d]
  BY DEF OthersStay
<1>2. ASSUME pc[c] = "descend", pc'[c] = "descend", loc'[c].obj = loc[c].obj
      PROVE  Placed' = Placed
  <2>1. \A n \in live : n \in Placed' <=> n \in Placed
    BY <1>1, <1>2 DEF Placed
  <2>2. QED
    BY <2>1 DEF Placed
<1>3. ASSUME pc[c] = "descend", pc'[c] \notin Linking, loc[c].obj \in live,
             \A d \in CPUs : d # c /\ pc[d] \in Linking => loc[d].obj # loc[c].obj
      PROVE  Placed' = Placed \cup {loc[c].obj} /\ loc[c].obj \notin Placed
  <2>1. loc[c].obj \notin Placed
    BY <1>3 DEF Placed, Linking
  <2>2. \A n \in live : n \in Placed' <=> n \in Placed \/ n = loc[c].obj
    BY <1>1, <1>3 DEF Placed
  <2>3. QED
    BY <1>3, <2>1, <2>2 DEF Placed
<1>4. ASSUME pc[c] \notin Linking, pc'[c] \notin Linking
      PROVE  Placed' = Placed
  <2>1. \A n \in live : n \in Placed' <=> n \in Placed
    BY <1>1, <1>4 DEF Placed
  <2>2. QED
    BY <2>1 DEF Placed
<1>5. QED
  BY <1>2, <1>3, <1>4

(* A test of list_push and its recursion.                                  *)
LEMMA DescendSteps ==
  ASSUME SafeMap, TypeInv, Places, ListInv, NEW c \in CPUs, Descend(c)
  PROVE  ListInv'
<1> DEFINE l == loc[c].cur
           o == loc[c].obj
           p == loc[c].path
           L == Placed
<1>0. OthersStay(c) /\ Hand(c) /\ InOrder(c)
  BY StepOthers DEF Step, ListInv
<1>1. /\ pc \in [CPUs -> Labels] /\ loc \in [CPUs -> Locals]
      /\ node \in Nodes /\ l \in NodesOrNull /\ p \in Seq(Regions)
      /\ live \subseteq Regions /\ pc[c] = "descend" /\ Null \notin Regions
  BY FrameAllocatorAssumption DEF TypeInv, TypeOK, Nodes, Locals, Descend
<1>2. /\ o \in live /\ node[o].size > 0 /\ loc[c].map = NoMap
      /\ InList(node, p, l, L)
      /\ \A i \in 1 .. Len(p) : node[p[i]].base <= node[o].base
      /\ \A d \in CPUs : d # c /\ pc[d] \in Linking => loc[d].obj # o
  <2>1. \A d \in CPUs : d # c /\ pc[d] \in Linking => loc[d].obj # o
    BY <1>1 DEF ListInv, Owners, Owns, Linking
  <2>2. QED
    BY <1>0, <1>1, <2>1 DEF Hand, Carries, Growing, Getting, InOrder, Pushing
<1>3. CASE GoesBefore(o, l)
  <2>1. /\ pc'[c] = "unwind" /\ node' = [node EXCEPT ![o].next = l]
        /\ loc'[c].cur = o /\ loc'[c].path = p /\ loc'[c].map = loc[c].map
        /\ UNCHANGED <<todo, live, avaliableMemory>>
    BY <1>1, <1>3 DEF Descend, Goto, Link, Locals
  <2>2. Hand(c)'
    BY <1>2, <2>1 DEF Hand, Carries, Growing, Getting, Pushing
  <2>3. Relinked(node, o, l, node')
    BY <1>1, <1>2, <2>1, LinkOnly
  <2>4. Placed' = L \cup {o} /\ o \notin L
    BY <1>0, <1>1, <1>2, <2>1, PlacedAre DEF Linking
  <2>5. \A k \in L : node[k].size >= 0 /\ Apart(node[o], node[k])
    <3>1. \A k \in live : node[k].size \in Nat
      BY RunType DEF Places, AllRuns
    <3>2. \A k \in L : k \in live /\ k # o
      BY <2>4 DEF Placed
    <3>3. \A k \in live : k # o => Apart(node[o], node[k])
      BY <1>2 DEF Places, RunsApart
    <3>4. QED
      BY <3>1, <3>2, <3>3
  <2>6. l # Null => node[l].base > node[o].base
    BY <1>3 DEF GoesBefore
  <2>7. InList(node', p, o, L \cup {o})
    <3> HIDE DEF l, o, p, L
    <3>1. o \in Regions /\ o \notin L
      BY <1>1, <1>2, <2>4
    <3>2. QED
      BY <1>1, <1>2, <2>3, <2>5, <2>6, <3>1, InListLink
  <2>8. InOrder(c)'
    BY <2>1, <2>4, <2>7 DEF InOrder
  <2>9. \A k \in live : node'[k].base = node[k].base /\ node'[k].size = node[k].size
    BY <1>1, <2>3 DEF Relinked
  <2>10. QED
    BY <1>0, <1>1, <2>1, <2>2, <2>8, <2>9, PushStep DEF Pushing
<1>4. CASE ~GoesBefore(o, l)
  <2>1. /\ UNCHANGED <<pc, node, todo, live, avaliableMemory>>
        /\ loc'[c].cur = node[l].next /\ loc'[c].path = Append(p, l)
        /\ loc'[c].obj = o /\ loc'[c].map = loc[c].map
    BY <1>1, <1>4 DEF Descend, Locals
  <2>2. Hand(c)'
    BY <1>1, <1>2, <2>1 DEF Hand, Carries, Growing, Getting, Pushing
  <2>3. l # Null /\ node[l].base <= node[o].base /\ l \in Regions
    <3>1. l # Null /\ ~(node[l].base > node[o].base)
      BY <1>4 DEF GoesBefore
    <3>2. l \in Regions /\ o \in Regions
      BY <1>1, <1>2, <3>1 DEF NodesOrNull
    <3>3. QED
      BY <1>1, <3>1, <3>2 DEF Nodes
  <2>4. InList(node, Append(p, l), node[l].next, L)
    BY <1>2, <2>3, InListDeeper
  <2>5. ASSUME NEW i \in 1 .. Len(Append(p, l))
        PROVE  node[Append(p, l)[i]].base <= node[o].base
    <3>1. /\ i \in 1 .. Len(p) + 1
          /\ Append(p, l)[i] = IF i = Len(p) + 1 THEN l ELSE p[i]
      BY <1>1, <2>3
    <3>2. QED
      BY <1>1, <1>2, <2>3, <3>1
  <2>6. InOrder(c)'
    <3>1. Placed' = L
      BY <1>0, <1>1, <2>1, PlacedAre
    <3>2. InList(node', loc'[c].path, loc'[c].cur, Placed')
      BY <2>1, <2>4, <3>1
    <3>3. \A i \in 1 .. Len(loc'[c].path) : node'[loc'[c].path[i]].base <= node'[loc'[c].obj].base
      BY <2>1, <2>5
    <3>4. QED
      BY <3>2, <3>3 DEF InOrder
  <2>7. QED
    BY <1>0, <1>1, <2>1, <2>2, <2>6, PushStep DEF Pushing
<1>5. QED
  BY <1>3, <1>4

(* list_push returning through its activations.                            *)
LEMMA ReturnSteps ==
  ASSUME SafeMap, TypeInv, Places, ListInv, NEW c \in CPUs,
         Unwind(c) \/ MergeFree(c) \/ Relock(c)
  PROVE  ListInv'
<1> DEFINE l == loc[c].cur
           p == loc[c].path
<1>0. OthersStay(c) /\ Hand(c) /\ InOrder(c)
  BY StepOthers DEF Step, ListInv
<1>1. /\ pc \in [CPUs -> Labels] /\ loc \in [CPUs -> Locals]
      /\ node \in Nodes /\ p \in Seq(Regions) /\ live \subseteq Regions
  BY DEF TypeInv, TypeOK, Nodes, Locals
<1>2. ASSUME Unwind(c), p = <<>>
      PROVE  ListInv'
  <2>1. /\ pc[c] = "unwind" /\ pc'[c] = "idle" /\ loc'[c] = NoLocals
        /\ avaliableMemory' = l /\ UNCHANGED <<node, live, todo>>
    BY <1>1, <1>2 DEF Unwind, PushDone, Goto, Return
  <2>2. Hand(c)'
    BY <2>1 DEF Hand, Carries, Growing, Getting, Pushing, NoLocals
  <2>3. \A d \in CPUs : d # c => /\ loc'[d] = loc[d] /\ pc'[d] = pc[d]
                                 /\ (Carries(d)' <=> Carries(d))
                                 /\ pc[d] \notin Pushing \cup {"loadAdd"}
    BY <1>0, <2>1, PusherAlone DEF OthersStay, Carries, ListInv, Pushing
  <2>4. Placed' = Placed
    BY <1>0, <2>1, PlacedAre DEF Linking
  <2>5. \A d \in CPUs : Hand(d)'
    <3>1. \A d \in CPUs : Hand(d)
      BY DEF ListInv
    <3>2. \A d \in CPUs : d # c => Hand(d)'
      BY <1>0, <2>1, <2>3, <3>1, OtherHands DEF Hand, Linking
    <3>3. QED
      BY <2>2, <3>2
  <2>6. ~Carries(c)' /\ ~Owns(c)'
    BY <2>1 DEF Owns, Carries, Growing, Getting, Linking
  <2>7. Owners'
    <3>1. \A d \in CPUs : Owns(d)' => Owns(d) /\ loc'[d] = loc[d]
      BY <2>3, <2>6 DEF Owns
    <3>2. QED
      BY <3>1 DEF ListInv, Owners
  <2>8. Tails'
    BY <2>1, <2>3, <2>6 DEF ListInv, Tails
  <2>9. (\A d \in CPUs : InOrder(d))'
    BY <2>1, <2>3 DEF InOrder, Pushing
  <2>10. Whole'
    <3>1. InList(node, <<>>, l, Placed)
      BY <1>0, <1>2, <2>1 DEF InOrder, Pushing
    <3>2. QED
      BY <2>1, <2>4, <3>1 DEF Whole
  <2>11. QED
    BY <2>5, <2>7, <2>8, <2>9, <2>10 DEF ListInv
<1>3. ASSUME Unwind(c), p # <<>>
      PROVE  ListInv'
  <2>1. /\ pc[c] = "unwind" /\ pc'[c] = "merge"
        /\ loc'[c].path = Front(p) /\ loc'[c].cur = Last(p) /\ loc'[c].map = loc[c].map
        /\ node' = [node EXCEPT ![Last(p)].next = l]
        /\ UNCHANGED <<avaliableMemory, live, todo>>
    BY <1>1, <1>3 DEF Unwind, Goto, Locals
  <2>2. Hand(c)'
    BY <1>0, <2>1 DEF Hand, Carries, Growing, Getting, Pushing
  <2>3. InList(node, p, l, Placed)
    BY <1>0, <2>1 DEF InOrder, Pushing
  <2>4. Relinked(node, Last(p), l, node')
    <3>1. Last(p) \in Regions
      BY <1>1, <1>3, PathType
    <3>2. QED
      BY <1>1, <2>1, <3>1, LinkOnly
  <2>5. InList(node', Front(p), Last(p), Placed)
    <3> HIDE DEF l, p
    <3>1. QED
      BY <1>1, <1>3, <2>3, <2>4, InListUnwind
  <2>6. Placed' = Placed
    BY <1>0, <2>1, PlacedAre DEF Linking
  <2>7. InOrder(c)'
    BY <2>1, <2>5, <2>6 DEF InOrder
  <2>8. \A k \in live : node'[k].base = node[k].base /\ node'[k].size = node[k].size
    BY <1>1, <2>4 DEF Relinked
  <2>9. QED
    BY <1>0, <2>1, <2>2, <2>7, <2>8, PushStep DEF Pushing
<1>4. ASSUME MergeFree(c) \/ Relock(c)
      PROVE  ListInv'
  <2>1. /\ pc[c] \in {"mergeFree", "relock"} /\ pc'[c] \in {"relock", "merge", "selfLock"}
        /\ UNCHANGED <<loc, node, avaliableMemory, live, todo>>
    BY <1>1, <1>4 DEF MergeFree, FreeBlock, Relock, Goto, alloc_vars
  <2>2. Hand(c)'
    BY <1>0, <2>1 DEF Hand, Carries, Growing, Getting, Pushing
  <2>3. ~RegionsApart
    BY <2>1 DEF ListInv, Tails
  <2>4. Placed' = Placed
    BY <1>0, <2>1, PlacedAre DEF Linking
  <2>5. InOrder(c)'
    BY <1>0, <2>1, <2>4 DEF InOrder, Pushing
  <2>6. QED
    BY <1>0, <2>1, <2>2, <2>3, <2>5, PushStep DEF Pushing
<1>5. QED
  BY <1>2, <1>3, <1>4

(* Nodes of regions that do not touch never meet.                          *)
LEMMA NeverReaches ==
  ASSUME RegionsApart, TypeInv, Places, ListInv, NEW l \in live, NEW s \in live, Before(node, l, s)
  PROVE  node[l].base + node[l].size < node[s].base
<1> DEFINE m == Normalize(l)
           n == Normalize(s)
<1>1. l \in Regions /\ s \in Regions /\ l # s
  BY DEF TypeInv, TypeOK, Before
<1>2. /\ node[l].base \in Int /\ node[l].size \in Int
      /\ node[s].base \in Int /\ node[s].size \in Int
  BY <1>1 DEF TypeInv, TypeOK
<1>3. /\ node[l].base >= m.base /\ node[l].base + node[l].size = m.base + m.size /\ m.size > 0
      /\ node[s].base >= n.base /\ node[s].base + node[s].size = n.base + n.size /\ n.size > 0
  BY DEF ListInv, Tails, SameEnd
<1>4. m.base + m.size < n.base \/ n.base + n.size < m.base
  BY <1>1, <1>3 DEF RegionsApart
<1>5. m.base \in Nat /\ m.size \in Nat /\ n.base \in Nat /\ n.size \in Nat
  BY <1>1, NormalizeRun, RunType
<1>6. node[l].base + node[l].size <= node[s].base
  BY DEF Before
<1>7. node[s].size \in Nat /\ node[l].size \in Nat
  BY RunType DEF Places, AllRuns
<1> HIDE DEF m, n
<1>8. QED
  BY <1>2, <1>3, <1>4, <1>5, <1>6, <1>7

(* The merge at the end of an activation.                                  *)
LEMMA MergeSteps ==
  ASSUME SafeMap, TypeInv, TypeInv', Places, ListInv, NEW c \in CPUs, Merge(c)
  PROVE  ListInv' /\ Places' /\ FreeFrames' = FreeFrames
<1> DEFINE l == loc[c].cur
           p == loc[c].path
           s == node[l].next
<1>0. OthersStay(c) /\ Hand(c) /\ InOrder(c)
  BY StepOthers DEF Step, ListInv
<1>1. /\ pc \in [CPUs -> Labels] /\ loc \in [CPUs -> Locals]
      /\ node \in Nodes /\ node' \in Nodes /\ l \in Regions /\ l # Null
      /\ live \subseteq Regions
      /\ pc[c] = "merge" /\ loc' = loc /\ todo' = todo
      /\ UNCHANGED <<avaliableMemory, qtd_buffer, frame_buffer, mapped>>
  BY FrameAllocatorAssumption DEF TypeInv, TypeOK, Nodes, LocalsOK, Merge
<1>2. loc[c].map = NoMap
  BY <1>0, <1>1 DEF Hand, Carries, Growing, Getting
<1>3. InList(node, p, l, Placed)
  BY <1>0, <1>1 DEF InOrder, Pushing
<1>4. ASSUME Reaches(l)
      PROVE  ListInv' /\ Places' /\ FreeFrames' = FreeFrames
  <2>1. /\ s # Null /\ node[l].base + node[l].size >= node[s].base
        /\ pc'[c] = "mergeFree" /\ node' = Absorb(l, s) /\ live' = live \ {s}
    BY <1>1, <1>4 DEF Merge, Reaches, Goto
  <2>2. /\ l \in live /\ s \in live /\ Before(node, l, s)
        /\ \A k \in Placed : k \in {l, s} \/ Before(node, k, l) \/ Before(node, s, k)
    <3>1. /\ l \in Placed /\ s \in Placed /\ Before(node, l, s)
          /\ \A k \in Placed : k \in {l, s} \/ Before(node, k, l) \/ Before(node, s, k)
      BY <1>1, <1>3, <2>1, InListPlaces
    <3>2. QED
      BY <3>1 DEF Placed
  <2>3. ~RegionsApart
    <3>1. ASSUME RegionsApart
          PROVE  FALSE
      <4>1. node[l].base + node[l].size < node[s].base
        <5> HIDE DEF l, s
        <5>1. QED
          BY <2>2, <3>1, NeverReaches
      <4>2. node[l].base \in Int /\ node[l].size \in Int /\ node[s].base \in Int
        BY <1>1, <2>2 DEF Nodes
      <4>3. QED
        BY <2>1, <4>1, <4>2
    <3>2. QED
      BY <3>1
  <2>4. CPUs = {c}
    BY <2>3 DEF SafeMap
  <2>5. Placed = live /\ Placed' = live \ {s}
    <3>1. pc[c] \notin Linking /\ pc'[c] \notin Linking
      BY <1>1, <2>1 DEF Linking
    <3>2. QED
      BY <2>1, <2>4, <3>1 DEF Placed
  <2>6. Places' /\ FreeFrames' = FreeFrames
    <3>1. \A k \in live : k \in {l, s} \/ Before(node, k, l) \/ Before(node, s, k)
      BY <2>2, <2>5
    <3> HIDE DEF l, s
    <3>2. QED
      BY <1>1, <1>2, <2>1, <2>2, <2>4, <3>1, MergePlaces
  <2>7. Hand(c)'
    BY <1>0, <1>1, <1>2, <2>1 DEF Hand, Carries, Growing, Getting, Pushing
  <2>8. /\ node'[l].base = node[l].base
        /\ node'[l].size = node[s].base + node[s].size - node[l].base
        /\ node'[l].next = node[s].next
        /\ \A k \in Regions : k # l => node'[k] = node[k]
    BY <1>1, <2>1 DEF Absorb, Nodes
  <2>9. InList(node', p, l, live \ {s})
    <3>1. s = node[l].next /\ InList(node, p, l, live)
      BY <1>3, <2>5
    <3> HIDE DEF l, s, p
    <3>2. QED
      BY <1>1, <2>1, <2>8, <3>1, InListAbsorb
  <2>10. InOrder(c)'
    BY <1>1, <2>1, <2>5, <2>9 DEF InOrder
  <2>11. Owners' /\ Tails' /\ Whole'
    BY <2>1, <2>3, <2>4 DEF Owners, Tails, Whole, ListFree, Pushing
  <2>12. QED
    BY <2>4, <2>6, <2>7, <2>10, <2>11 DEF ListInv
<1>5. ASSUME ~Reaches(l)
      PROVE  ListInv' /\ Places' /\ FreeFrames' = FreeFrames
  <2>1. pc'[c] = "unwind" /\ node' = node /\ live' = live
    BY <1>1, <1>5 DEF Merge, Goto
  <2>2. Places' /\ FreeFrames' = FreeFrames
    BY <1>1, <2>1, SamePlaces
  <2>3. Hand(c)'
    BY <1>0, <1>1, <1>2, <2>1 DEF Hand, Carries, Growing, Getting, Pushing
  <2>4. Placed' = Placed
    BY <1>0, <1>1, <2>1, PlacedAre DEF Linking
  <2>5. InOrder(c)'
    BY <1>1, <1>3, <2>1, <2>4 DEF InOrder
  <2>6. ListInv'
    BY <1>0, <1>1, <2>1, <2>3, <2>5, PushStep DEF Pushing
  <2>7. QED
    BY <2>2, <2>6
<1>6. QED
  BY <1>4, <1>5

(* What a step does to the pages: nothing, or it takes a region in hand,   *)
(* or it hands out a free frame.                                           *)
Given(r) ==
  /\ r \in todo /\ todo' = todo \ {r}
  /\ PagesIn(Normalize(r)) \cap (FreeFrames \cup mapped) = {}
  /\ FreeFrames' = FreeFrames \cup PagesIn(Normalize(r))
  /\ Added' = Added \cup PagesIn(Normalize(r))
  /\ mapped' = mapped

HandedOut(f) ==
  /\ f \in FreeFrames
  /\ FreeFrames' = FreeFrames \ {f}
  /\ mapped' = mapped \cup {f}
  /\ todo' = todo

(* What each step does to the pages: nothing, a region given, or one       *)
(* handed out.                                                             *)
LEMMA PageSteps ==
  ASSUME SafeMap, BufferInv, TypeInv, TypeInv', Places, Kept, ListInv, NEW c \in CPUs,
         \/ \E r \in Regions : AddMemorySpace(c, r)
         \/ ClientMalloc(c) \/ ClientFree(c) \/ Step(c)
  PROVE  /\ Places'
         /\ PoolSame \/ (\E r \in Regions : Given(r)) \/ (\E f \in FreeFrames : HandedOut(f))
<1>0. OthersStay(c) /\ Hand(c) /\ InOrder(c)
  BY StepOthers DEF ListInv
<1>1. /\ pc \in [CPUs -> Labels] /\ loc \in [CPUs -> Locals]
      /\ node \in Nodes
  BY DEF TypeInv, TypeOK, Nodes
<1>2. ASSUME live' = live, qtd_buffer' = qtd_buffer, frame_buffer' = frame_buffer,
             todo' = todo, mapped' = mapped,
             \A n \in live : node'[n].base = node[n].base /\ node'[n].size = node[n].size,
             loc'[c].map = loc[c].map
      PROVE  Places' /\ PoolSame
  BY <1>0, <1>2, SamePlaces DEF PoolSame, OthersStay
<1>3. ASSUME NEW r \in Regions, AddMemorySpace(c, r)
      PROVE  Places' /\ Given(r)
  <2>1. r \in todo /\ todo' = todo \ {r} /\ mapped' = mapped
    BY <1>3 DEF AddMemorySpace
  <2>2. QED
    BY <1>0, <1>3, <2>1, SafeDisjoint, AddPlaces DEF Given
<1>4. ASSUME ClientMalloc(c) \/ MallocNode(c)
      PROVE  Places' /\ PoolSame
  <2>1. loc'[c].map = loc[c].map
    <3>1. PICK n \in BlockFrames : \/ loc' = [loc EXCEPT ![c].need = n, ![c].client = TRUE]
                                   \/ loc' = [loc EXCEPT ![c].need = n]
      BY <1>4 DEF ClientMalloc, MallocNode
    <3>2. QED
      BY <1>1, <3>1 DEF Locals
  <2>2. UNCHANGED <<alloc_vars, todo, mapped>>
    BY <1>4 DEF ClientMalloc, MallocNode
  <2>3. QED
    BY <1>2, <2>1, <2>2 DEF alloc_vars
<1>5. ASSUME ClientFree(c) \/ LoadLock(c) \/ Load(c) \/ LoadRet(c) \/ MergeFree(c) \/ Relock(c)
      PROVE  Places' /\ PoolSame
  BY <1>2, <1>5 DEF ClientFree, LoadLock, Load, LoadRet, MergeFree, Relock, alloc_vars
<1>6. ASSUME FillCheck(c)
      PROVE  Places' /\ PoolSame
  <2>1. UNCHANGED <<alloc_vars, todo, mapped>>
    BY <1>6 DEF FillCheck
  <2>2. CASE loc' = loc
    BY <1>2, <2>1, <2>2 DEF alloc_vars
  <2>3. CASE loc[c].map.size < PageSize /\ loc'[c] = NoLocals
    <3>1. loc'[c].map = NoMap
      BY <2>3 DEF NoLocals
    <3>2. Places' /\ FreeFrames' = FreeFrames
      BY <1>0, <2>1, <2>3, <3>1, EmptyHandPlaces DEF alloc_vars, OthersStay
    <3>3. QED
      BY <2>1, <3>2 DEF PoolSame
  <2>4. QED
    BY <1>1, <1>6, <2>2, <2>3 DEF FillCheck, Return
<1>7. ASSUME FillAdd(c)
      PROVE  Places' /\ PoolSame
  BY <1>0, <1>7, FillAddPlaces DEF PoolSame, FillAdd
<1>8. ASSUME Alloc(c)
      PROVE  Places' /\ PoolSame
  <2>1. UNCHANGED <<alloc_vars, todo, mapped>>
    BY <1>8 DEF Alloc
  <2>2. loc'[c].map = loc[c].map
    <3>1. CASE loc' = loc
      BY <3>1
    <3>2. CASE loc[c].client /\ loc'[c] = NoLocals
      <4>1. pc[c] = "alloc"
        BY <1>8 DEF Alloc
      <4>2. QED
        BY <1>0, <3>2, <4>1 DEF Hand, Carries, Growing, Getting, NoLocals
    <3>3. QED
      BY <1>1, <1>8, <3>1, <3>2 DEF Alloc, Return
  <2>3. QED
    BY <1>2, <2>1, <2>2 DEF alloc_vars
<1>9. ASSUME LoadAdd(c)
      PROVE  Places' /\ PoolSame
  <2>1. pc[c] = "loadAdd" /\ node[avaliableMemory].size >= PageSize
    BY <1>0, <1>9 DEF LoadAdd, Hand
  <2>2. avaliableMemory \in live
    BY <1>9, LoadAddSteps
  <2>3. QED
    BY <1>9, <2>1, <2>2, LoadAddPlaces DEF PoolSame, LoadAdd
<1>10. ASSUME Take(c)
       PROVE  Places' /\ \E f \in FreeFrames : HandedOut(f)
  BY <1>10, TakePlaces DEF HandedOut, Take
<1>11. ASSUME NewObj(c)
       PROVE  Places' /\ PoolSame
  BY <1>0, <1>11, NewObjPlaces DEF PoolSame, NewObj
<1>12. ASSUME PushLock(c)
       PROVE  Places' /\ PoolSame
  <2>1. loc'[c].map = loc[c].map
    BY <1>1, <1>12 DEF PushLock, Locals
  <2>2. QED
    BY <1>2, <1>12, <2>1 DEF PushLock, alloc_vars
<1>13. ASSUME Descend(c)
       PROVE  Places' /\ PoolSame
  <2>1. loc'[c].map = loc[c].map
    <3>1. \/ loc' = [loc EXCEPT ![c].cur = loc[c].obj]
          \/ loc' = [loc EXCEPT ![c].path = Append(@, loc[c].cur),
                                ![c].cur = node[loc[c].cur].next]
      BY <1>13 DEF Descend
    <3>2. QED
      BY <1>1, <3>1 DEF Locals
  <2>2. \A n \in Regions : node'[n].base = node[n].base /\ node'[n].size = node[n].size
    <3>1. node' = node \/ node' = [node EXCEPT ![loc[c].obj].next = loc[c].cur]
      BY <1>13 DEF Descend, Link
    <3>2. QED
      BY <1>1, <3>1 DEF Nodes
  <2>3. live \subseteq Regions
    BY DEF TypeInv, TypeOK
  <2>4. UNCHANGED <<live, qtd_buffer, frame_buffer, todo, mapped>>
    BY <1>13 DEF Descend
  <2>5. QED
    BY <1>2, <2>1, <2>2, <2>3, <2>4
<1>14. ASSUME Unwind(c)
       PROVE  Places' /\ PoolSame
  <2>1. loc'[c].map = loc[c].map
    <3>1. CASE loc'[c] = NoLocals
      <4>1. pc[c] = "unwind"
        BY <1>14 DEF Unwind
      <4>2. QED
        BY <1>0, <3>1, <4>1 DEF Hand, Carries, Growing, Getting, NoLocals
    <3>2. CASE loc' = [loc EXCEPT ![c].path = Front(loc[c].path), ![c].cur = Last(loc[c].path)]
      BY <1>1, <3>2 DEF Locals
    <3>3. QED
      BY <1>1, <1>14, <3>1, <3>2 DEF Unwind, PushDone, Return
  <2>2. \A n \in Regions : node'[n].base = node[n].base /\ node'[n].size = node[n].size
    <3>1. \/ node' = node
          \/ node' = [node EXCEPT ![Last(loc[c].path)].next = loc[c].cur]
      BY <1>14 DEF Unwind
    <3>2. QED
      BY <1>1, <3>1 DEF Nodes
  <2>3. live \subseteq Regions
    BY DEF TypeInv, TypeOK
  <2>4. UNCHANGED <<live, qtd_buffer, frame_buffer, todo, mapped>>
    BY <1>14 DEF Unwind
  <2>5. QED
    BY <1>2, <2>1, <2>2, <2>3, <2>4
<1>15. ASSUME Merge(c)
       PROVE  Places' /\ PoolSame
  <2>1. todo' = todo /\ mapped' = mapped
    BY <1>15 DEF Merge
  <2>2. QED
    BY <1>15, <2>1, MergeSteps DEF PoolSame
<1>16. QED
  BY <1>3, <1>4, <1>5, <1>6, <1>7, <1>8, <1>9, <1>10, <1>11, <1>12, <1>13, <1>14, <1>15 DEF Step

(* And so no page disappears.                                              *)
LEMMA KeptStep ==
  ASSUME Kept, PoolSame \/ (\E r \in Regions : Given(r)) \/ (\E f \in FreeFrames : HandedOut(f))
  PROVE  Kept'
<1>1. ASSUME todo' = todo
      PROVE  Added' = Added
  BY <1>1 DEF Added
<1>2. CASE PoolSame
  BY <1>1, <1>2 DEF Kept, PoolSame
<1>3. ASSUME NEW r \in Regions, Given(r)
      PROVE  Kept'
  BY <1>3 DEF Kept, Given
<1>4. ASSUME NEW f \in FreeFrames, HandedOut(f)
      PROVE  Kept'
  <2>1. Added' = Added
    BY <1>1, <1>4 DEF HandedOut
  <2>2. QED
    BY <1>4, <2>1 DEF Kept, HandedOut
<1>5. QED
  BY <1>2, <1>3, <1>4

(* The invariant is inductive, and each step is one of the pool.           *)
LEMMA PoolInvStep ==
  ASSUME SafeMap, BufferInv, TypeInv, TypeInv', PoolInv, [Next]_vars
  PROVE  PoolInv' /\ [P!Next]_<<todo, FreeFrames, mapped>>
<1>1. Places /\ Kept /\ ListInv
  BY DEF PoolInv
<1>2. ListInv'
  <2>1. CASE UNCHANGED vars
    BY <1>1, <2>1 DEF vars, alloc_vars, ListInv, Owners, Owns, Tails, Whole, ListFree, Placed,
       Hand, Carries, InOrder
  <2>2. CASE Next
    BY <1>1, <2>2, CallSteps, AllocSteps, LoadAddSteps, NewObjSteps, PushLockSteps,
       DescendSteps, ReturnSteps, MergeSteps DEF Next, Step
  <2>3. QED
    BY <2>1, <2>2
<1>3. /\ Places'
      /\ PoolSame \/ (\E r \in Regions : Given(r)) \/ (\E f \in FreeFrames : HandedOut(f))
  <2>1. CASE UNCHANGED vars
    BY <1>1, <2>1, SamePlaces DEF PoolSame, vars, alloc_vars
  <2>2. CASE Next
    BY <1>1, <2>2, PageSteps DEF Next
  <2>3. QED
    BY <2>1, <2>2
<1>4. Kept'
  BY <1>1, <1>3, KeptStep
<1>5. [P!Next]_<<todo, FreeFrames, mapped>>
  <2>1. CASE PoolSame
    BY <2>1 DEF PoolSame
  <2>2. ASSUME NEW r \in Regions, Given(r)
        PROVE  P!Next
    <3>1. r \in todo /\ P!Add(r)
      BY <2>2 DEF Given, P!Add
    <3>2. QED
      BY <3>1 DEF P!Next
  <2>3. ASSUME NEW f \in FreeFrames, HandedOut(f)
        PROVE  P!Next
    <3>1. P!Take(f)
      BY <2>3 DEF HandedOut, P!Take
    <3>2. QED
      BY <3>1 DEF P!Next
  <2>4. QED
    BY <1>3, <2>1, <2>2, <2>3
<1>6. QED
  BY <1>2, <1>3, <1>4, <1>5 DEF PoolInv

(* At the start there are no pages.                                        *)
LEMMA PoolInvInit ==
  ASSUME Init
  PROVE  PoolInv /\ P!Init
<1>1. /\ live = {} /\ todo = Regions /\ mapped = {} /\ qtd_buffer = 0 /\ avaliableMemory = Null
      /\ \A c \in CPUs : pc[c] = "idle" /\ loc[c] = NoLocals /\ loc[c].map = NoMap
  BY DEF Init, NoLocals
<1>2. Added = {}
  BY <1>1 DEF Added
<1>3. AllRuns
  BY <1>1, NoMapRun DEF AllRuns
<1>4. \A x : ~IsBuffered(x) /\ ~IsListed(x) /\ ~IsInHand(x)
  <2>1. 0 .. qtd_buffer - 1 = {}
    BY <1>1
  <2>2. QED
    BY <1>1, <2>1, NoMapRun DEF IsBuffered, IsListed, IsInHand
<1>5. FreeFrames = {}
  BY <1>3, <1>4, FreeFramesAre
<1>6. BufferDistinct
  <2>1. 0 .. qtd_buffer - 1 = {}
    BY <1>1
  <2>2. QED
    BY <2>1 DEF BufferDistinct
<1>7. RunsApart
  <2>1. \A c \in CPUs : ~(loc[c].map.size > 0)
    BY <1>1 DEF NoMap
  <2>2. QED
    BY <1>1, <2>1 DEF RunsApart
<1>8. Places
  BY <1>1, <1>3, <1>4, <1>6, <1>7 DEF Places, EmptyRuns, BufferApart
<1>9. Kept
  BY <1>1, <1>2, <1>5 DEF Kept
<1>10. \A c \in CPUs : Hand(c) /\ InOrder(c) /\ ~Owns(c) /\ ~Carries(c)
  <2>1. \A c \in CPUs : ~Carries(c) /\ ~Owns(c) /\ InOrder(c)
    BY <1>1 DEF Carries, Owns, InOrder, Growing, Getting, Linking, Pushing
  <2>2. \A c \in CPUs : loc[c].path = <<>>
    BY <1>1 DEF NoLocals
  <2>3. \A c \in CPUs : Hand(c)
    BY <1>1, <2>1, <2>2 DEF Hand, Growing
  <2>4. QED
    BY <2>1, <2>3
<1>11. Whole
  <2>1. InList(node, <<>>, Null, {})
    <3>1. Arranged(node, <<>>, 0, [i \in 1 .. 0 |-> 0], Null, {})
      <4>1. 1 .. 0 = {} /\ Len(<<>>) = 0 /\ <<>> \in Seq(Regions)
        OBVIOUS
      <4>2. [i \in 1 .. 0 |-> 0] \in [1 .. 0 -> Regions]
        BY <4>1
      <4> DEFINE e == [i \in 1 .. 0 |-> 0]
      <4> HIDE DEF e
      <4>3. Arranged(node, <<>>, 0, e, Null, {})
        BY <4>1, <4>2 DEF e, Arranged, Linked, Rising, Values
      <4>4. QED
        BY <4>3 DEF e
    <3>2. QED
      BY <3>1 DEF InList
  <2>2. Placed = {}
    BY <1>1 DEF Placed
  <2>3. QED
    BY <1>1, <2>1, <2>2 DEF Whole
<1>12. Owners /\ Tails
  BY <1>1, <1>10 DEF Owners, Tails
<1>13. P!Init
  BY <1>1, <1>5 DEF P!Init
<1>14. QED
  BY <1>8, <1>9, <1>10, <1>11, <1>12, <1>13 DEF PoolInv, ListInv

-----------------------------------------------------------------------------
(* The invariants of TypeCorrect and of the pool hold together.            *)
LEMMA PoolInvHolds ==
  ASSUME SafeMap
  PROVE  Spec => [](TypeInv /\ PoolInv) /\ ImplementsFramePool
<1>1. Init => TypeInv /\ PoolInv /\ P!Init
  <2>1. Init => TypeInv
    BY TypeInvInit
  <2>2. Init => PoolInv /\ P!Init
    BY PoolInvInit
  <2>3. QED
    BY <2>1, <2>2
<1>2. BufferInv /\ TypeInv /\ PoolInv /\ [Next]_vars
        => TypeInv' /\ PoolInv' /\ [P!Next]_<<todo, FreeFrames, mapped>>
  <2>1. BufferInv /\ TypeInv /\ [Next]_vars => TypeInv'
    BY TypeInvStep
  <2>2. BufferInv /\ TypeInv /\ TypeInv' /\ PoolInv /\ [Next]_vars
          => PoolInv' /\ [P!Next]_<<todo, FreeFrames, mapped>>
    BY PoolInvStep
  <2>3. QED
    BY <2>1, <2>2
<1>3. QED
  BY <1>1, <1>2, BufferInvHolds, PTL DEF Spec, ImplementsFramePool, P!Spec

(* The memory map has regions that do not touch, or the kernel runs on one *)
(* processor and they do not overlap: then the buffer, the list of free    *)
(* regions, list_push with its merging and the nodes' own blocks           *)
(* (FrameAllocator.cpp) are invisible, the allocator is the pool of pages  *)
(* FramePool.tla describes.                                                *)
THEOREM FramePoolImplemented ==
  ASSUME SafeMap
  PROVE  Spec => ImplementsFramePool
BY PoolInvHolds, PTL

-----------------------------------------------------------------------------
(* Counting pages. *)
LEMMA ImageCount ==
  ASSUME NEW n \in Nat, NEW f, DOMAIN f = 0 .. n - 1, f = [i \in DOMAIN f |-> f[i]],
         \A i, j \in 0 .. n - 1 : i # j => f[i] # f[j]
  PROVE  /\ IsFiniteSet({f[i] : i \in 0 .. n - 1})
         /\ Cardinality({f[i] : i \in 0 .. n - 1}) = n
<1> DEFINE D == 0 .. n - 1
           T == {f[i] : i \in D}
<1>1. IsFiniteSet(D) /\ Cardinality(D) = n
  <2>1. PICK b \in Int : b = n - 1
    OBVIOUS
  <2>2. PICK a \in Int : a = 0
    OBVIOUS
  <2>3. IsFiniteSet(a .. b) /\ Cardinality(a .. b) = IF a > b THEN 0 ELSE b - a + 1
    BY FS_Interval
  <2>4. QED
    BY <2>1, <2>2, <2>3
<1>2. f \in Bijection(D, T)
  <2>1. f \in [D -> T]
    OBVIOUS
  <2>2. \A y \in T : \E i \in D : f[i] = y
    OBVIOUS
  <2>3. QED
    BY <2>1, <2>2 DEF Bijection, Injection, Surjection, IsInjective
<1>3. ExistsBijection(D, T)
  BY <1>2 DEF ExistsBijection
<1>4. QED
  <2> HIDE DEF D
  <2>1. IsFiniteSet(T) /\ Cardinality(T) = Cardinality(D)
    BY <1>1, <1>3, FS_Bijection
  <2>2. QED
    BY <1>1, <2>1 DEF D

(* A run of whole pages has PagesOf(size) of them.                         *)
LEMMA PagesCount ==
  ASSUME NEW m, Run(m)
  PROVE  /\ IsFiniteSet(PagesIn(m)) /\ Cardinality(PagesIn(m)) = PagesOf(m.size)
         /\ m.size = PageSize * Cardinality(PagesIn(m))
<1> DEFINE n == m.size \div PageSize
           f == [k \in 0 .. n - 1 |-> m.base + k * PageSize]
<1>1. n \in Nat /\ m.size = n * PageSize /\ m.base \in Nat /\ PageSize \in Nat \ {0}
  BY AlignedIs, RunType, FrameAllocatorAssumption DEF Run
<1>2. \A i, j \in 0 .. n - 1 : i # j => f[i] # f[j]
  <2> HIDE DEF n
  <2>1. \A i, j \in Nat : i # j => i * PageSize # j * PageSize
    BY <1>1
  <2>2. \A i \in 0 .. n - 1 : i \in Nat /\ i * PageSize \in Nat
    BY <1>1
  <2>3. QED
    BY <1>1, <2>1, <2>2
<1>3. PagesIn(m) = {f[k] : k \in 0 .. n - 1}
  BY DEF PagesIn
<1>4. IsFiniteSet(PagesIn(m)) /\ Cardinality(PagesIn(m)) = n
  <2>1. DOMAIN f = 0 .. n - 1 /\ f = [i \in DOMAIN f |-> f[i]]
    OBVIOUS
  <2> HIDE DEF n, f
  <2>2. QED
    BY <1>1, <1>2, <1>3, <2>1, ImageCount
<1> HIDE DEF n
<1>5. n * PageSize = PageSize * n
  BY <1>1
<1>6. QED
  BY <1>1, <1>4, <1>5 DEF PagesOf, n

(* A buffer without duplicates holds qtd_buffer pages.                     *)
LEMMA BufferedCount ==
  ASSUME TypeOK, BufferDistinct
  PROVE  IsFiniteSet(Buffered) /\ Cardinality(Buffered) = qtd_buffer
<1> DEFINE f == [i \in 0 .. qtd_buffer - 1 |-> frame_buffer[i]]
<1>1. qtd_buffer \in Nat
  BY DEF TypeOK
<1>2. /\ DOMAIN f = 0 .. qtd_buffer - 1 /\ f = [i \in DOMAIN f |-> f[i]]
      /\ \A i \in 0 .. qtd_buffer - 1 : f[i] = frame_buffer[i]
  OBVIOUS
<1> HIDE DEF f
<1>3. \A i, j \in 0 .. qtd_buffer - 1 : i # j => f[i] # f[j]
  BY <1>2 DEF BufferDistinct
<1>4. Buffered = {f[i] : i \in 0 .. qtd_buffer - 1}
  BY <1>2 DEF Buffered
<1>5. QED
  BY <1>1, <1>2, <1>3, <1>4, ImageCount

(* Cardinality of a disjoint union.                                        *)
LEMMA DisjointCount ==
  ASSUME NEW A, NEW B, IsFiniteSet(A), IsFiniteSet(B), A \cap B = {}
  PROVE  IsFiniteSet(A \cup B) /\ Cardinality(A \cup B) = Cardinality(A) + Cardinality(B)
<1>1. /\ IsFiniteSet(A \cup B)
      /\ Cardinality(A \cup B) = Cardinality(A) + Cardinality(B) - Cardinality(A \cap B)
  BY FS_Union
<1>2. Cardinality(A \cap B) = 0
  BY FS_EmptySet
<1>3. Cardinality(A) \in Nat /\ Cardinality(B) \in Nat
  BY FS_CardinalityType
<1>4. QED
  BY <1>1, <1>2, <1>3

(* The sets of pages that EveryPageOnce counts. *)
LivePages == UNION {PagesIn(node[n]) : n \in live}
HandPages == UNION {PagesIn(loc[c].map) : c \in CPUs}

(* The nodes' sizes, summed up, count their pages.                         *)
LEMMA LiveSum ==
  ASSUME Places, live \subseteq Regions, Regions \subseteq [base : Nat, size : Nat]
  PROVE  /\ IsFiniteSet(LivePages)
         /\ MapThenSumSet(LAMBDA n : PagesOf(node[n].size), live) = Cardinality(LivePages)
         /\ MapThenSumSet(LAMBDA n : node[n].size, live) = PageSize * Cardinality(LivePages)
<1> DEFINE Pg == [n \in live |-> PagesIn(node[n])]
           w == [n \in live |-> PagesOf(node[n].size)]
           v == [n \in live |-> node[n].size]
<1>1. IsFiniteSet(live)
  BY FS_Subset, FrameAllocatorAssumption
<1>2. ASSUME NEW n \in live
      PROVE  /\ IsFiniteSet(Pg[n]) /\ v[n] = PageSize * Cardinality(Pg[n])
             /\ w[n] = 1 * Cardinality(Pg[n])
  <2>1. Run(node[n])
    BY DEF Places, AllRuns
  <2>2. /\ IsFiniteSet(PagesIn(node[n])) /\ Cardinality(PagesIn(node[n])) = PagesOf(node[n].size)
        /\ node[n].size = PageSize * Cardinality(PagesIn(node[n]))
    BY <2>1, PagesCount
  <2>3. Cardinality(PagesIn(node[n])) \in Nat
    BY <2>2, FS_CardinalityType
  <2>4. \A i \in Nat : 1 * i = i
    OBVIOUS
  <2>5. Pg[n] = PagesIn(node[n]) /\ v[n] = node[n].size /\ w[n] = PagesOf(node[n].size)
    OBVIOUS
  <2> HIDE DEF Pg, v, w
  <2>6. QED
    BY <2>2, <2>3, <2>4, <2>5
<1>3. ASSUME NEW m \in live, NEW n \in live, m # n
      PROVE  Pg[m] \cap Pg[n] = {}
  <2>1. Run(node[m]) /\ Run(node[n]) /\ Apart(node[m], node[n])
    BY <1>3 DEF Places, AllRuns, RunsApart
  <2>2. \A x : ~(Page(x, node[m]) /\ Page(x, node[n]))
    BY <2>1, ApartPages
  <2>3. QED
    BY <2>1, <2>2, PagesInAre DEF Run
<1>4. AllOf(live, Pg) = LivePages
  BY DEF LivePages, AllOf
<1>5. PageSize \in Nat /\ 1 \in Nat
  BY FrameAllocatorAssumption
<1>6. /\ IsFiniteSet(LivePages)
      /\ \E g : SumsUp(g, live, v)
      /\ \A g : SumsUp(g, live, v) => g[live] = PageSize * Cardinality(LivePages)
  <2> HIDE DEF Pg, v
  <2>1. \A n \in live : IsFiniteSet(Pg[n]) /\ v[n] = PageSize * Cardinality(Pg[n])
    BY <1>2
  <2>2. Counts(live, Pg, v, PageSize)
    BY <1>1, <1>3, <1>5, <2>1 DEF Counts
  <2>3. /\ IsFiniteSet(AllOf(live, Pg))
        /\ \E g : SumsUp(g, live, v)
        /\ \A g : SumsUp(g, live, v) => g[live] = PageSize * Cardinality(AllOf(live, Pg))
    BY <2>2, UnionSum
  <2>4. QED
    BY <1>4, <2>3
<1>7. /\ \E g : SumsUp(g, live, w)
      /\ \A g : SumsUp(g, live, w) => g[live] = Cardinality(LivePages)
  <2> HIDE DEF Pg, w
  <2>1. \A n \in live : IsFiniteSet(Pg[n]) /\ w[n] = 1 * Cardinality(Pg[n])
    BY <1>2
  <2>2. Counts(live, Pg, w, 1)
    BY <1>1, <1>3, <1>5, <2>1 DEF Counts
  <2>3. /\ \E g : SumsUp(g, live, w)
        /\ \A g : SumsUp(g, live, w) => g[live] = 1 * Cardinality(AllOf(live, Pg))
    BY <2>2, UnionSum
  <2>4. 1 * Cardinality(LivePages) = Cardinality(LivePages)
    BY <1>6, FS_CardinalityType
  <2>5. QED
    BY <1>4, <2>3, <2>4
<1>8. MapThenSumSet(LAMBDA n : node[n].size, live) = PageSize * Cardinality(LivePages)
  <2> DEFINE Eq(g) == g = [s \in SUBSET live |->
                  IF s = {} THEN 0
                  ELSE node[CHOOSE x \in s : TRUE].size + g[s \ {CHOOSE x \in s : TRUE}]]
             F == CHOOSE g : Eq(g)
  <2>1. ASSUME NEW g
        PROVE  Eq(g) <=> SumsUp(g, live, v)
    <3>1. \A s \in SUBSET live : s # {} =>
            v[CHOOSE x \in s : TRUE] = node[CHOOSE x \in s : TRUE].size
      OBVIOUS
    <3> HIDE DEF v
    <3>2. QED
      BY <3>1 DEF SumsUp
  <2>2. Eq(F)
    <3> HIDE DEF Eq, v
    <3>1. \E g : Eq(g)
      BY <1>6, <2>1
    <3>2. QED
      BY <3>1
  <2>3. SumsUp(F, live, v)
    BY <2>1, <2>2
  <2>4. F[live] = PageSize * Cardinality(LivePages)
    BY <1>6, <2>3
  <2>5. MapThenSumSet(LAMBDA n : node[n].size, live) = F[live]
    BY DEF MapThenSumSet, MapThenFoldSet
  <2>6. QED
    BY <2>4, <2>5
<1>9. MapThenSumSet(LAMBDA n : PagesOf(node[n].size), live) = Cardinality(LivePages)
  <2> DEFINE Eq(g) == g = [s \in SUBSET live |->
                  IF s = {} THEN 0
                  ELSE PagesOf(node[CHOOSE x \in s : TRUE].size) + g[s \ {CHOOSE x \in s : TRUE}]]
             F == CHOOSE g : Eq(g)
  <2>1. ASSUME NEW g
        PROVE  Eq(g) <=> SumsUp(g, live, w)
    <3>1. \A s \in SUBSET live : s # {} =>
            w[CHOOSE x \in s : TRUE] = PagesOf(node[CHOOSE x \in s : TRUE].size)
      OBVIOUS
    <3> HIDE DEF w
    <3>2. QED
      BY <3>1 DEF SumsUp
  <2>2. Eq(F)
    <3> HIDE DEF Eq, w
    <3>1. \E g : Eq(g)
      BY <1>7, <2>1
    <3>2. QED
      BY <3>1
  <2>3. SumsUp(F, live, w)
    BY <2>1, <2>2
  <2>4. F[live] = Cardinality(LivePages)
    BY <1>7, <2>3
  <2>5. MapThenSumSet(LAMBDA n : PagesOf(node[n].size), live) = F[live]
    BY DEF MapThenSumSet, MapThenFoldSet
  <2>6. QED
    BY <2>4, <2>5
<1>10. QED
  BY <1>6, <1>8, <1>9

(* The same of what the processor has in hand.                             *)
LEMMA HandSum ==
  ASSUME Places
  PROVE  /\ IsFiniteSet(HandPages)
         /\ MapThenSumSet(LAMBDA d : PagesOf(loc[d].map.size), CPUs) = Cardinality(HandPages)
<1> DEFINE Pg == [d \in CPUs |-> PagesIn(loc[d].map)]
           w == [d \in CPUs |-> PagesOf(loc[d].map.size)]
<1>1. Counts(CPUs, Pg, w, 1)
  <2>1. ASSUME NEW d \in CPUs
        PROVE  IsFiniteSet(Pg[d]) /\ w[d] = 1 * Cardinality(Pg[d])
    <3>1. Run(loc[d].map)
      BY DEF Places, AllRuns
    <3>2. /\ IsFiniteSet(PagesIn(loc[d].map))
          /\ Cardinality(PagesIn(loc[d].map)) = PagesOf(loc[d].map.size)
      BY <3>1, PagesCount
    <3>3. Cardinality(PagesIn(loc[d].map)) \in Nat
      BY <3>2, FS_CardinalityType
    <3>4. Pg[d] = PagesIn(loc[d].map) /\ w[d] = PagesOf(loc[d].map.size)
      OBVIOUS
    <3> HIDE DEF Pg, w
    <3>5. QED
      BY <3>2, <3>3, <3>4
  <2>2. ASSUME NEW d \in CPUs, NEW e \in CPUs, d # e
        PROVE  Pg[d] \cap Pg[e] = {}
    <3>1. Run(loc[d].map) /\ Run(loc[e].map)
      BY DEF Places, AllRuns
    <3>2. \A x : ~(Page(x, loc[d].map) /\ Page(x, loc[e].map))
      BY <2>2, HandAlone DEF InOtherHand
    <3>3. QED
      BY <3>1, <3>2, PagesInAre DEF Run
  <2> HIDE DEF Pg, w
  <2>3. QED
    BY <2>1, <2>2, FrameAllocatorAssumption DEF Counts
<1>2. AllOf(CPUs, Pg) = HandPages
  BY DEF HandPages, AllOf
<1>3. /\ IsFiniteSet(HandPages)
      /\ \E g : SumsUp(g, CPUs, w)
      /\ \A g : SumsUp(g, CPUs, w) => g[CPUs] = Cardinality(HandPages)
  <2> HIDE DEF Pg, w
  <2>1. /\ IsFiniteSet(HandPages)
        /\ \E g : SumsUp(g, CPUs, w)
        /\ \A g : SumsUp(g, CPUs, w) => g[CPUs] = 1 * Cardinality(HandPages)
    BY <1>1, <1>2, UnionSum
  <2>2. 1 * Cardinality(HandPages) = Cardinality(HandPages)
    BY <2>1, FS_CardinalityType
  <2>3. QED
    BY <2>1, <2>2
<1> DEFINE Eq(g) == g = [s \in SUBSET CPUs |->
                  IF s = {} THEN 0
                  ELSE PagesOf(loc[CHOOSE x \in s : TRUE].map.size) + g[s \ {CHOOSE x \in s : TRUE}]]
           F == CHOOSE g : Eq(g)
<1>4. ASSUME NEW g
      PROVE  Eq(g) <=> SumsUp(g, CPUs, w)
  <2>1. \A s \in SUBSET CPUs : s # {} =>
          w[CHOOSE x \in s : TRUE] = PagesOf(loc[CHOOSE x \in s : TRUE].map.size)
    OBVIOUS
  <2> HIDE DEF w
  <2>2. QED
    BY <2>1 DEF SumsUp
<1>5. Eq(F)
  <2> HIDE DEF Eq, w
  <2>1. \E g : Eq(g)
    BY <1>3, <1>4
  <2>2. QED
    BY <2>1
<1>6. SumsUp(F, CPUs, w)
  BY <1>4, <1>5
<1>7. F[CPUs] = Cardinality(HandPages)
  BY <1>3, <1>6
<1>8. MapThenSumSet(LAMBDA d : PagesOf(loc[d].map.size), CPUs) = F[CPUs]
  BY DEF MapThenSumSet, MapThenFoldSet
<1>9. QED
  BY <1>3, <1>7, <1>8

(* The buffer, the nodes and the hands share no page and hold every free   *)
(* one.                                                                    *)
LEMMA FreeCount ==
  ASSUME TypeInv, Places
  PROVE  /\ IsFiniteSet(FreeFrames)
         /\ Cardinality(FreeFrames) = qtd_buffer + Cardinality(LivePages) + Cardinality(HandPages)
<1>1. IsFiniteSet(Buffered) /\ Cardinality(Buffered) = qtd_buffer
  BY BufferedCount DEF TypeInv, Places
<1>2. IsFiniteSet(LivePages) /\ IsFiniteSet(HandPages)
  BY LiveSum, HandSum, FrameAllocatorAssumption DEF TypeInv, TypeOK
<1>3. /\ \A x : x \in Buffered <=> IsBuffered(x)
      /\ \A x : x \in LivePages <=> IsListed(x)
      /\ \A x : x \in HandPages <=> IsInHand(x)
  <2>1. \A n \in live : \A x : x \in PagesIn(node[n]) <=> Page(x, node[n])
    BY PagesInAre DEF Places, AllRuns, Run
  <2>2. \A d \in CPUs : \A x : x \in PagesIn(loc[d].map) <=> Page(x, loc[d].map)
    BY PagesInAre DEF Places, AllRuns, Run
  <2>3. \A x : x \in LivePages <=> IsListed(x)
    BY <2>1 DEF LivePages, IsListed
  <2>4. \A x : x \in HandPages <=> IsInHand(x)
    BY <2>2 DEF HandPages, IsInHand
  <2>5. QED
    BY <2>3, <2>4 DEF Buffered, IsBuffered
<1>4. ASSUME NEW x, IsListed(x), IsInHand(x)
      PROVE  FALSE
  BY <1>4, HandAlone DEF IsInHand
<1>5. Buffered \cap LivePages = {} /\ (Buffered \cup LivePages) \cap HandPages = {}
  BY <1>3, <1>4 DEF Places, BufferApart
<1>6. FreeFrames = (Buffered \cup LivePages) \cup HandPages
  BY <1>3, FreeFramesAre DEF Places
<1>7. /\ IsFiniteSet(Buffered \cup LivePages)
      /\ Cardinality(Buffered \cup LivePages) = qtd_buffer + Cardinality(LivePages)
  BY <1>1, <1>2, <1>5, DisjointCount
<1>8. /\ IsFiniteSet(FreeFrames)
      /\ Cardinality(FreeFrames) = Cardinality(Buffered \cup LivePages) + Cardinality(HandPages)
  BY <1>2, <1>5, <1>6, <1>7, DisjointCount
<1>9. QED
  BY <1>7, <1>8

-----------------------------------------------------------------------------
(* Following the links from avaliableMemory visits the nodes of a list in  *)
(* turn, then stays at Null.                                               *)
LEMMA NthNodeIs ==
  ASSUME NEW n \in Nat, NEW t \in [1 .. n -> Regions], Linked(node, n, t, avaliableMemory)
  PROVE  \A k \in Nat : NthNode[k] = IF k < n THEN t[k + 1] ELSE Null
<1> DEFINE Next1(g, k) == IF k = 0 THEN avaliableMemory
                          ELSE IF g[k - 1] = Null THEN Null ELSE node[g[k - 1]].next
           Eq(g) == g = [k \in Nat |-> Next1(g, k)]
           G == [k \in Nat |-> IF k < n THEN t[k + 1] ELSE Null]
           F == CHOOSE g : Eq(g)
<1>1. ASSUME NEW k \in Nat
      PROVE  G[k] = Next1(G, k)
  <2>1. CASE k = 0
    BY <2>1 DEF Linked
  <2>2. CASE k # 0 /\ k - 1 < n
    <3>1. k - 1 \in Nat /\ k \in 1 .. n /\ G[k - 1] = t[k] /\ t[k] \in Regions
      BY <2>2
    <3>2. node[t[k]].next = IF k < n THEN t[k + 1] ELSE Null
      BY <3>1 DEF Linked
    <3>3. t[k] # Null
      BY <3>1, FrameAllocatorAssumption
    <3>4. G[k] = IF k < n THEN t[k + 1] ELSE Null
      OBVIOUS
    <3> HIDE DEF G
    <3>5. QED
      BY <2>2, <3>1, <3>2, <3>3, <3>4
  <2>3. CASE k # 0 /\ ~(k - 1 < n)
    <3>1. k - 1 \in Nat /\ G[k - 1] = Null /\ G[k] = Null
      BY <2>3
    <3> HIDE DEF G
    <3>2. QED
      BY <2>3, <3>1
  <2>4. QED
    BY <2>1, <2>2, <2>3
<1>2. Eq(G)
  <2>1. G = [k \in Nat |-> G[k]]
    OBVIOUS
  <2> HIDE DEF G
  <2>2. [k \in Nat |-> G[k]] = [k \in Nat |-> Next1(G, k)]
    BY <1>1
  <2>3. QED
    BY <2>1, <2>2
<1>3. Eq(F)
  <2> HIDE DEF Eq, G
  <2>1. QED
    BY <1>2
<1>4. NthNode = F
  BY DEF NthNode
<1> HIDE DEF G, F
<1>5. \A k \in Nat : F[k] = Next1(F, k)
  <2>1. F = [k \in Nat |-> Next1(F, k)]
    BY <1>3
  <2>2. QED
    BY <2>1
<1> DEFINE S == {k \in Nat : F[k] = G[k]}
<1>6. 0 \in S
  BY <1>1, <1>5
<1>7. ASSUME NEW k \in Nat, k \in S
      PROVE  k + 1 \in S
  <2>1. k + 1 \in Nat /\ k + 1 # 0 /\ (k + 1) - 1 = k /\ F[k] = G[k]
    BY <1>7
  <2>2. F[k + 1] = Next1(F, k + 1) /\ G[k + 1] = Next1(G, k + 1)
    BY <1>1, <1>5, <2>1
  <2>3. QED
    BY <2>1, <2>2
<1>8. Nat \subseteq S
  <2> HIDE DEF S
  <2>1. QED
    BY <1>6, <1>7, SetInduction
<1>9. QED
  BY <1>4, <1>8 DEF G

(* NthNode, which walks the list as freeMemory() does, comes to every live *)
(* node once, in order.                                                    *)
LEMMA ListedIs ==
  ASSUME InList(node, <<>>, avaliableMemory, live)
  PROVE  /\ Listed = live
         /\ \A n \in Listed : node[n].next # Null =>
              node[n].base + node[n].size <= node[node[n].next].base
<1>1. PICK n, t : Arranged(node, <<>>, n, t, avaliableMemory, live)
  BY DEF InList
<1>2. /\ n \in Nat /\ t \in [1 .. n -> Regions]
      /\ Linked(node, n, t, avaliableMemory) /\ Rising(node, n, t)
  BY <1>1 DEF Arranged
<1>3. Values(n, t) = live
  <2>1. Values(Len(<<>>), <<>>) = {}
    <3>1. 1 .. Len(<<>>) = {}
      OBVIOUS
    <3>2. QED
      BY <3>1 DEF Values
  <2>2. QED
    BY <1>1, <2>1 DEF Arranged
<1>4. n <= Cardinality(Regions)
  <2>1. \A i, j \in 1 .. n : i < j => t[i] # t[j]
    BY <1>2 DEF Rising, Before
  <2>2. \A i, j \in 1 .. n : i # j => t[i] # t[j]
    BY <1>2, <2>1
  <2>3. PICK a \in Int : a = 1
    OBVIOUS
  <2>4. IsFiniteSet(a .. n) /\ Cardinality(a .. n) = IF a > n THEN 0 ELSE n - a + 1
    <3>1. n \in Int
      BY <1>2
    <3>2. QED
      BY <3>1, FS_Interval
  <2>5. IsFiniteSet(1 .. n) /\ Cardinality(1 .. n) = n
    BY <1>2, <2>3, <2>4
  <2>6. t \in Injection(1 .. n, Regions)
    BY <1>2, <2>2 DEF Injection, IsInjective
  <2>7. Cardinality(1 .. n) <= Cardinality(Regions)
    BY <2>6, FS_Injection, FrameAllocatorAssumption
  <2>8. QED
    BY <2>5, <2>7
<1>5. \A k \in Nat : NthNode[k] = IF k < n THEN t[k + 1] ELSE Null
  BY <1>2, NthNodeIs
<1>6. Cardinality(Regions) \in Nat
  BY FS_CardinalityType, FrameAllocatorAssumption
<1>7. Listed = live
  <2>1. ASSUME NEW k \in 0 .. Cardinality(Regions), NthNode[k] # Null
        PROVE  NthNode[k] \in Values(n, t)
    <3>1. k \in Nat /\ k < n /\ NthNode[k] = t[k + 1]
      BY <1>5, <1>6, <2>1
    <3>2. k + 1 \in 1 .. n
      BY <1>2, <3>1
    <3>3. QED
      BY <3>1, <3>2 DEF Values
  <2>2. ASSUME NEW i \in 1 .. n
        PROVE  t[i] \in Listed
    <3>1. i - 1 \in 0 .. Cardinality(Regions) /\ i - 1 \in Nat /\ i - 1 < n /\ (i - 1) + 1 = i
      BY <1>2, <1>4, <1>6
    <3>2. NthNode[i - 1] = t[i]
      BY <1>5, <3>1
    <3>3. t[i] # Null
      BY <1>2, FrameAllocatorAssumption
    <3>4. QED
      BY <3>1, <3>2, <3>3 DEF Listed
  <2>3. QED
    BY <1>3, <2>1, <2>2 DEF Listed, Values
<1>8. ASSUME NEW i \in 1 .. n, node[t[i]].next # Null
      PROVE  node[t[i]].base + node[t[i]].size <= node[node[t[i]].next].base
  <2>1. node[t[i]].next = t[i + 1] /\ i + 1 \in 1 .. n /\ i < i + 1
    <3>1. node[t[i]].next = IF i < n THEN t[i + 1] ELSE Null
      BY <1>2 DEF Linked
    <3>2. i < n
      BY <1>8, <3>1
    <3>3. QED
      BY <1>2, <3>1, <3>2
  <2>2. Before(node, t[i], t[i + 1])
    BY <1>2, <2>1 DEF Rising
  <2>3. QED
    BY <2>1, <2>2 DEF Before
<1>9. QED
  BY <1>3, <1>7, <1>8 DEF Values

(* Between calls the list is whole and nothing is in hand.                 *)
LEMMA QuietList ==
  ASSUME PoolInv, Quiet
  PROVE  /\ InList(node, <<>>, avaliableMemory, live)
         /\ \A c \in CPUs : loc[c].map = NoMap
<1>1. \A c \in CPUs : pc[c] = "idle" /\ Hand(c)
  BY DEF PoolInv, ListInv, Quiet
<1>2. Placed = live
  BY <1>1 DEF Placed, Linking
<1>3. ListFree
  BY <1>1 DEF ListFree, Pushing
<1>4. QED
  BY <1>1, <1>2, <1>3 DEF Hand, NoLocals, PoolInv, ListInv, Whole

(* With such a memory map no page is ever in two places:                   *)
(* twice in the buffer, in the buffer and a node, in two nodes, in a node  *)
(* and in addMemorySpace's hands, or free and handed out; and no node is   *)
(* left with a negative size (FrameAllocator.cpp).                         *)
THEOREM PagesAlwaysOnce ==
  ASSUME SafeMap
  PROVE  Spec => []EveryPageOnce
<1>1. TypeInv /\ PoolInv => EveryPageOnce
  <2> SUFFICES ASSUME TypeInv, PoolInv
               PROVE  EveryPageOnce
    OBVIOUS
  <2>1. Places /\ Kept
    BY DEF PoolInv
  <2>2. live \subseteq Regions /\ Regions \subseteq [base : Nat, size : Nat]
    BY FrameAllocatorAssumption DEF TypeInv, TypeOK
  <2>3. \A n \in live : node[n].size >= 0
    BY <2>1, RunType DEF Places, AllRuns
  <2>4. Cardinality(FreeFrames) = qtd_buffer + Cardinality(LivePages) + Cardinality(HandPages)
    BY <2>1, FreeCount
  <2>5. MapThenSumSet(LAMBDA n : PagesOf(node[n].size), live) = Cardinality(LivePages)
    BY <2>1, <2>2, LiveSum
  <2>6. MapThenSumSet(LAMBDA d : PagesOf(loc[d].map.size), CPUs) = Cardinality(HandPages)
    BY <2>1, HandSum
  <2>7. Cardinality(FreeFrames) =
          qtd_buffer + MapThenSumSet(LAMBDA n : PagesOf(node[n].size), live)
                     + MapThenSumSet(LAMBDA d : PagesOf(loc[d].map.size), CPUs)
    BY <2>4, <2>5, <2>6
  <2>8. QED
    BY <2>1, <2>3, <2>7 DEF EveryPageOnce, Kept
<1>2. QED
  BY <1>1, PoolInvHolds, PTL

(* Under the same conditions the list list_push builds is in rising order  *)
(* and free of overlaps whenever no call is in progress.                   *)
THEOREM ListAlwaysSorted ==
  ASSUME SafeMap
  PROVE  Spec => []ListSorted
<1>1. TypeInv /\ PoolInv => ListSorted
  BY QuietList, ListedIs DEF ListSorted
<1>2. QED
  BY <1>1, PoolInvHolds, PTL

(* And no node with free pages has dropped out of it, however often it was *)
(* cut and merged (with two processors and touching regions one does, see  *)
(* the README's finding 2).                                                *)
THEOREM RegionsNeverLost ==
  ASSUME SafeMap
  PROVE  Spec => []NoRegionLost
<1>1. TypeInv /\ PoolInv => NoRegionLost
  BY QuietList, ListedIs DEF NoRegionLost
<1>2. QED
  BY <1>1, PoolInvHolds, PTL

-----------------------------------------------------------------------------
(* Regions begin at a page, as the map's entries above 1 MB do, and their  *)
(* sizes are numbers of 64 bits: addMemorySpace then rounds off no page    *)
(* that setMaxMemory counts.                                               *)
RegionsAligned == \A r \in Regions : r.base % PageSize = 0 /\ r.size < Word

(* A region that begins at a page loses only its tail.                     *)
LEMMA AlignedSize ==
  ASSUME RegionsAligned, NEW r \in Regions
  PROVE  Run(Normalize(r)) /\ Normalize(r).size = PageMask(r.size)
<1>1. r.base \in Nat /\ r.size \in Nat /\ r.base % PageSize = 0 /\ r.size \in 0 .. Word - 1
  BY FrameAllocatorAssumption DEF RegionsAligned
<1>2. (r.size - (r.base % PageSize)) % Word = r.size
  <2>1. \A i \in 0 .. Word - 1 : i % Word = i
    BY FrameAllocatorAssumption
  <2>2. r.size - (r.base % PageSize) = r.size
    BY <1>1
  <2>3. QED
    BY <1>1, <2>1, <2>2
<1>3. Normalize(r) = [base |-> PageMask(r.base), size |-> PageMask(r.size)]
  BY <1>2 DEF Normalize
<1>4. QED
  BY <1>1, <1>3, MaskAligned DEF Run

(* So setMaxMemory's sum is the size of all pages given.                   *)
LEMMA AddedSum ==
  ASSUME RegionsDisjoint, RegionsAligned
  PROVE  IsFiniteSet(Added) /\ MaxMemory = PageSize * Cardinality(Added)
<1> DEFINE S == Regions \ todo
           Pg == [r \in S |-> PagesIn(Normalize(r))]
           w == [r \in S |-> PageMask(r.size)]
<1>1. Counts(S, Pg, w, PageSize)
  <2>1. ASSUME NEW r \in S
        PROVE  IsFiniteSet(Pg[r]) /\ w[r] = PageSize * Cardinality(Pg[r])
    <3>1. Run(Normalize(r)) /\ Normalize(r).size = PageMask(r.size)
      BY AlignedSize
    <3>2. /\ IsFiniteSet(PagesIn(Normalize(r)))
          /\ Normalize(r).size = PageSize * Cardinality(PagesIn(Normalize(r)))
      BY <3>1, PagesCount
    <3>3. Pg[r] = PagesIn(Normalize(r)) /\ w[r] = PageMask(r.size)
      OBVIOUS
    <3> HIDE DEF Pg, w
    <3>4. QED
      BY <3>1, <3>2, <3>3
  <2>2. \A r, s \in S : r # s => Pg[r] \cap Pg[s] = {}
    BY DEF RegionsDisjoint
  <2>3. IsFiniteSet(S)
    BY FrameAllocatorAssumption, FS_Subset
  <2> HIDE DEF Pg, w, S
  <2>4. QED
    BY <2>1, <2>2, <2>3, FrameAllocatorAssumption DEF Counts
<1>2. AllOf(S, Pg) = Added
  BY DEF Added, AllOf
<1>3. /\ IsFiniteSet(Added)
      /\ \E g : SumsUp(g, S, w)
      /\ \A g : SumsUp(g, S, w) => g[S] = PageSize * Cardinality(Added)
  <2> HIDE DEF Pg, w, S
  <2>1. QED
    BY <1>1, <1>2, UnionSum
<1> DEFINE Eq(g) == g = [s \in SUBSET S |->
                  IF s = {} THEN 0
                  ELSE PageMask((CHOOSE x \in s : TRUE).size) + g[s \ {CHOOSE x \in s : TRUE}]]
           F == CHOOSE g : Eq(g)
<1>4. ASSUME NEW g
      PROVE  Eq(g) <=> SumsUp(g, S, w)
  <2>1. \A s \in SUBSET S : s # {} =>
          w[CHOOSE x \in s : TRUE] = PageMask((CHOOSE x \in s : TRUE).size)
    OBVIOUS
  <2> HIDE DEF w, S
  <2>2. QED
    BY <2>1 DEF SumsUp
<1>5. Eq(F)
  <2> HIDE DEF Eq, w, S
  <2>1. \E g : Eq(g)
    BY <1>3, <1>4
  <2>2. QED
    BY <2>1
<1>6. SumsUp(F, S, w)
  BY <1>4, <1>5
<1>7. F[S] = PageSize * Cardinality(Added)
  BY <1>3, <1>6
<1>8. MaxMemory = F[S]
  BY DEF MaxMemory, MapThenSumSet, MapThenFoldSet
<1>9. QED
  BY <1>3, <1>7, <1>8

(* If, besides, regions begin at a page, nothing leaks: between calls what *)
(* freeMemory() reports, what is buffered and what was handed out add up   *)
(* to the figure setupPagination stored (FrameAllocator.cpp:35-48,         *)
(* pagination.cpp:57-80).                                                  *)
THEOREM MemoryAlwaysAccounted ==
  ASSUME SafeMap, RegionsAligned
  PROVE  Spec => []MemoryAccounted
<1>1. TypeInv /\ PoolInv => MemoryAccounted
  <2> SUFFICES ASSUME TypeInv, PoolInv, Quiet
               PROVE  freeMemory + PageSize * (qtd_buffer + Cardinality(mapped)) = MaxMemory
    BY DEF MemoryAccounted
  <2>1. Places /\ Kept
    BY DEF PoolInv
  <2>2. InList(node, <<>>, avaliableMemory, live) /\ \A c \in CPUs : loc[c].map = NoMap
    BY QuietList
  <2>3. Listed = live
    BY <2>2, ListedIs
  <2>4. freeMemory = PageSize * Cardinality(LivePages) /\ IsFiniteSet(LivePages)
    <3>1. live \subseteq Regions /\ Regions \subseteq [base : Nat, size : Nat]
      BY FrameAllocatorAssumption DEF TypeInv, TypeOK
    <3>2. /\ IsFiniteSet(LivePages)
          /\ MapThenSumSet(LAMBDA n : node[n].size, live) = PageSize * Cardinality(LivePages)
      BY <2>1, <3>1, LiveSum
    <3>3. freeMemory = MapThenSumSet(LAMBDA n : node[n].size, live)
      BY <2>3 DEF freeMemory
    <3>4. QED
      BY <3>2, <3>3
  <2>5. Cardinality(HandPages) = 0
    <3>1. HandPages = {}
      <4>1. PagesIn(NoMap) = {}
        BY NoMapRun, PagesInAre DEF Run
      <4>2. QED
        BY <2>2, <4>1 DEF HandPages
    <3>2. QED
      BY <3>1, FS_EmptySet
  <2>6. /\ IsFiniteSet(FreeFrames)
        /\ Cardinality(FreeFrames) = qtd_buffer + Cardinality(LivePages) + Cardinality(HandPages)
    BY <2>1, FreeCount
  <2>7. IsFiniteSet(Added) /\ MaxMemory = PageSize * Cardinality(Added)
    BY SafeDisjoint, AddedSum
  <2>8. IsFiniteSet(mapped) /\ Cardinality(mapped) \in Nat
    <3>1. mapped \in SUBSET Added
      BY <2>1 DEF Kept
    <3>2. QED
      BY <2>7, <3>1, FS_Subset, FS_CardinalityType
  <2>9. Cardinality(Added) = Cardinality(FreeFrames) + Cardinality(mapped)
    BY <2>1, <2>6, <2>8, DisjointCount DEF Kept
  <2>10. Cardinality(LivePages) \in Nat /\ qtd_buffer \in Nat /\ PageSize \in Nat
    BY <2>4, FS_CardinalityType, FrameAllocatorAssumption DEF TypeInv, TypeOK
  <2>11. Cardinality(Added) = Cardinality(LivePages) + (qtd_buffer + Cardinality(mapped))
    BY <2>5, <2>6, <2>8, <2>9, <2>10
  <2>12. \A a, b \in Nat : PageSize * (a + b) = PageSize * a + PageSize * b
    BY <2>10
  <2>13. PageSize * Cardinality(Added)
           = PageSize * Cardinality(LivePages) + PageSize * (qtd_buffer + Cardinality(mapped))
    BY <2>8, <2>10, <2>11, <2>12
  <2>14. QED
    BY <2>4, <2>7, <2>13
<1>2. QED
  BY <1>1, PoolInvHolds, PTL
=============================================================================
