------------------------------ MODULE Liballoc ------------------------------
(***************************************************************************)
(* The kernel heap, lib/kernel/memory/liballoc/liballoc.c: boundary tags   *)
(* that tile page blocks, linked to their neighbours (split_left,          *)
(* split_right) and, while free, into one list per size class (next, prev).*)
(*                                                                         *)
(* Every public call is one section under liballoc_lock, hence one action; *)
(* kernel_realloc is two.  Addresses and sizes are in units of 8 bytes.    *)
(***************************************************************************)
EXTENDS Integers, FiniteSets, FiniteSetsExt

CONSTANTS
  TAG,          (* sizeof(struct boundary_tag)                         *)
  MINEXP,       (* smallest size class                                 *)
  MAXEXP,       (* number of size classes                              *)
  MAXCOMPLETE,  (* whole free blocks kept per size class               *)
  PageSize,     (* l_pageSize                                          *)
  PageCount,    (* l_pageCount: pages of the smallest block            *)
  VmPages,      (* bound: pages of address space for the heap          *)
  INT_MAX,      (* the largest int, 2^31 - 1 bytes                     *)
  Sizes,        (* the sizes that are requested                        *)
  MaxHeld       (* bound: allocations that exist at the same time      *)

ASSUME LiballocAssumption ==
  /\ {TAG, PageSize, PageCount, VmPages, MAXEXP} \subseteq Nat \ {0}
  /\ {MAXCOMPLETE, MaxHeld} \subseteq Nat
  /\ MINEXP \in 0 .. MAXEXP - 1
  /\ Sizes \subseteq Nat /\ INT_MAX \in Nat

VARIABLES
  tag,              (* struct boundary_tag, by address                       *)
  l_freePages,      (* head of the free list of each size class              *)
  l_completePages,  (* number of whole free blocks in it                     *)
  held,             (* what clients hold: the [at, size] of each allocation  *)
  moving,           (* kernel_realloc calls between their malloc and free    *)
  stopped           (* a call never returned and liballoc's lock stays taken *)

vars == <<tag, l_freePages, l_completePages, held, moving, stopped>>

NULL    == 0
Classes == 0 .. MAXEXP - 1

(* The three heap variables as one value, which the functions of the file  *)
(* transform.  An update at NULL, outside the domain, changes nothing.     *)
Heap == [tag |-> tag, free |-> l_freePages, complete |-> l_completePages]

Becomes(h) ==
  /\ tag' = h.tag
  /\ l_freePages' = h.free
  /\ l_completePages' = h.complete

Init ==
  /\ tag = <<>>
  /\ l_freePages = [i \in Classes |-> NULL]
  /\ l_completePages = [i \in Classes |-> 0]
  /\ held = {}
  /\ moving = {}
  /\ stopped = FALSE

-----------------------------------------------------------------------------
(* "1<<e". *)
Bit[e \in Nat] == IF e = 0 THEN 1 ELSE 2 * Bit[e - 1]

(* A tag is larger than two quanta (48 and 16 bytes), and the two smallest *)
(* classes are not the last ones.                                          *)
ASSUME QuantumAssumption ==
  /\ TAG >= 2 * Bit[MINEXP]
  /\ MINEXP + 2 < MAXEXP

(* The largest exponent whose power is not above size; -1 below the quantum. *)
getexp(size) ==
  IF Bit[MINEXP] <= size THEN Max({e \in MINEXP .. MAXEXP - 1 : Bit[e] <= size})
  ELSE -1

Class(size) == IF getexp(size) < MINEXP THEN MINEXP ELSE getexp(size)

(* Mutant of insert_tag: "l_freePages[realIndex]->prev = tag" is missing. *)
insert_tagNoPrev(h, t, i) ==
  [h EXCEPT !.tag = [h.tag EXCEPT ![t].index = i, ![t].next = h.free[i]],
            !.free[i] = t]

(* The tag becomes the head of free list i. *)
insert_tag(h, t, i) ==
  LET head == h.free[i]
  IN  IF head = NULL
      THEN [h EXCEPT !.tag[t].index = i, !.free[i] = t]
      ELSE [h EXCEPT !.tag = [h.tag EXCEPT ![t].index = i,
                                           ![t].next = head,
                                           ![t].prev = h.tag[head].prev,
                                           ![h.tag[head].prev].next = t,
                                           ![head].prev = t],
                     !.free[i] = t]

(* The tag leaves its free list. *)
remove_tag(h, t) ==
  LET r == h.tag[t]
  IN  [h EXCEPT
        !.free[r.index] = IF @ = t THEN r.next ELSE @,
        !.tag = [a \in DOMAIN h.tag |->
          [h.tag[a] EXCEPT
             !.next  = IF a = t THEN NULL ELSE IF a = r.prev THEN r.next ELSE @,
             !.prev  = IF a = t THEN NULL ELSE IF a = r.next THEN r.prev ELSE @,
             !.index = IF a = t THEN -1 ELSE @]]]

(* Mutant of melt: "split_right->split_left = left" is missing. *)
meltKeepsLeft(h, l, r) ==
  [h EXCEPT !.tag = [a \in DOMAIN h.tag \ {r} |->
     [h.tag[a] EXCEPT
        !.real_size = IF a = l THEN @ + h.tag[r].real_size ELSE @,
        !.right = IF a = l THEN h.tag[r].right ELSE @]]]

(* Tag l swallows its right neighbour r, which is in no free list. *)
melt(h, l, r) ==
  LET right == h.tag[r].right
  IN  [h EXCEPT !.tag = [a \in DOMAIN h.tag \ {r} |->
        [h.tag[a] EXCEPT
           !.real_size = IF a = l THEN @ + h.tag[r].real_size ELSE @,
           !.right = IF a = l THEN right ELSE @,
           !.left  = IF a = right THEN l ELSE @]]]

IsFree(h, t) == t # NULL /\ h.tag[t].index >= 0

-----------------------------------------------------------------------------
(* The pages of the heap's window (entry 509 of the top page table) that   *)
(* blocks occupy; liballoc_alloc returns the first gap that is large       *)
(* enough, as alloc_vm does (external here: PageTable.cpp).                *)
Pages(h) == UNION {t \div PageSize .. (t + h.tag[t].real_size - 1) \div PageSize :
                   t \in DOMAIN h.tag}

Gaps(h, n) == {p \in 1 .. VmPages - n + 1 : p .. p + n - 1 \cap Pages(h) = {}}

NewTag(real_size) ==
  [size |-> 0, real_size |-> real_size, index |-> -1,
   left |-> NULL, right |-> NULL, next |-> NULL, prev |-> NULL]

(* Pages of a new block: enough for the tag and the size, and l_pageCount. *)
BlockPages(size) ==
  Max({PageCount, (size + TAG + PageSize - 1) \div PageSize})

(* The code cuts a size_t to an unsigned int (liballoc.c:306, 331, 357)    *)
(* and compares a remainder as an int (line 359).  Both leave the numbers  *)
(* as they are for requests whose block stays below 2 GiB.                 *)
ASSUME WidthAssumption ==
  \A size \in Sizes : BlockPages(size) * PageSize <= INT_MAX

(* A boundary tag appears at address new. *)
WithTag(tags, new, r) ==
  [a \in DOMAIN tags \cup {new} |-> IF a = new THEN r ELSE tags[a]]

allocate_new_tag(h, n, p) ==
  [h EXCEPT !.tag = WithTag(h.tag, p * PageSize, NewTag(n * PageSize))]

(* Mutant of Fits: no room is asked for the tag of the remainder. *)
FitsExactly(h, t, size) == h.tag[t].real_size - TAG > size - TAG

(* "tag->real_size - sizeof(tag) >= size + sizeof(tag)". *)
Fits(h, t, size) == h.tag[t].real_size - TAG >= size + TAG

(* The k-th tag of free list i; the first one that fits, or NULL. *)
NthFree(h, i) ==
  LET nth[k \in Nat] == IF k = 0 THEN h.free[i]
                        ELSE IF nth[k - 1] = NULL THEN NULL
                        ELSE h.tag[nth[k - 1]].next
  IN  nth

FirstFit(h, i, size) ==
  LET fits == {k \in 0 .. Cardinality(DOMAIN h.tag) :
                 LET t == NthFree(h, i)[k]
                 IN  IF t = NULL THEN FALSE ELSE Fits(h, t, size)}
  IN  IF fits = {} THEN NULL ELSE NthFree(h, i)[Min(fits)]

Whole(r) == r.left = NULL /\ r.right = NULL

(* Mutant of Reuse: "remove_tag(tag)" is missing. *)
ReuseListed(h, t, i) ==
  [h EXCEPT !.complete[i] = IF Whole(h.tag[t]) THEN @ - 1 ELSE @]

(* The free tag is taken out of its list; a whole block is no longer one   *)
(* of those standing by.                                                   *)
Reuse(h, t, i) ==
  LET g == remove_tag(h, t)
  IN  [g EXCEPT !.complete[i] = IF Whole(h.tag[t]) THEN @ - 1 ELSE @]

(* Mutant of split_tag: "tag->real_size -= new_tag->real_size" is missing. *)
split_tagKeepsSize(h, t) ==
  LET r == h.tag[t]
      new == t + TAG + r.size
      remainder == r.real_size - TAG - r.size
      nt == [NewTag(remainder) EXCEPT !.left = t, !.right = r.right]
      g == [h EXCEPT !.tag = WithTag(
              [h.tag EXCEPT ![r.right].left = new, ![t].right = new], new, nt)]
  IN  insert_tag(g, new, Class(remainder - TAG))

(* What follows the first size units of the tag becomes a free tag.        *)
split_tag(h, t) ==
  LET r == h.tag[t]
      new == t + TAG + r.size
      remainder == r.real_size - TAG - r.size
      nt == [NewTag(remainder) EXCEPT !.left = t, !.right = r.right]
      g == [h EXCEPT !.tag = WithTag(
              [h.tag EXCEPT ![r.right].left = new,
                            ![t].right = new,
                            ![t].real_size = r.real_size - remainder], new, nt)]
  IN  insert_tag(g, new, Class(remainder - TAG))

(* "tag->size = size", and the excess is split off if it can hold a tag    *)
(* and a quantum.                                                          *)
Shape(h, t, size) ==
  LET g == [h EXCEPT !.tag[t].size = size]
      remainder == h.tag[t].real_size - size - 2 * TAG
  IN  IF remainder > 0 /\ getexp(remainder) >= 0 THEN split_tag(g, t) ELSE g

(* kernel_malloc: the heap after it and the tag that serves the request,   *)
(* NULL if the address space is used up.                                   *)
AfterMalloc(h, size) ==
  LET i == Class(size)
      found == FirstFit(h, i, size)
      n == BlockPages(size)
  IN  IF found # NULL
        THEN [heap |-> Shape(Reuse(h, found, i), found, size), at |-> found]
      ELSE IF Gaps(h, n) = {} THEN [heap |-> h, at |-> NULL]
      ELSE LET p == Min(Gaps(h, n))  t == p * PageSize
           IN  [heap |-> Shape(allocate_new_tag(h, n, p), t, size), at |-> t]

-----------------------------------------------------------------------------
(* One round of each loop of kernel_free: the free left neighbour swallows *)
(* the tag and leaves its list, the tag swallows the free right neighbour. *)
MeltLeft(h, t) ==
  LET left == h.tag[t].left IN remove_tag(melt(h, left, t), left)

MeltRight(h, t) ==
  LET right == h.tag[t].right IN melt(remove_tag(h, right), t, right)

(* The heap and the tag in hand after k rounds of the first loop... *)
LeftRounds(h, t) ==
  LET round[k \in Nat] ==
        IF k = 0 THEN [heap |-> h, at |-> t]
        ELSE LET s == round[k - 1]  l == s.heap.tag[s.at].left
             IN  IF IsFree(s.heap, l)
                 THEN [heap |-> MeltLeft(s.heap, s.at), at |-> l] ELSE s
  IN  round

(* ... and of the second. *)
RightRounds(h, t) ==
  LET round[k \in Nat] ==
        IF k = 0 THEN [heap |-> h, at |-> t]
        ELSE LET s == round[k - 1]
             IN  IF IsFree(s.heap, s.heap.tag[s.at].right)
                 THEN [heap |-> MeltRight(s.heap, s.at), at |-> s.at] ELSE s
  IN  round

(* Mutant of Coalesce: the right neighbour is left alone. *)
CoalesceLeft(h, t) ==
  IF IsFree(h, h.tag[t].left)
  THEN [heap |-> MeltLeft(h, t), at |-> h.tag[t].left] ELSE [heap |-> h, at |-> t]

(* The two loops, as long as there is a free neighbour. *)
Coalesce(h, t) ==
  LET n == Cardinality(DOMAIN h.tag)
      l == LeftRounds(h, t)[n]
  IN  RightRounds(l.heap, l.at)[n]

(* Mutant of Standby: the count of whole blocks is not kept. *)
StandbyUncounted(h, t, i) == h

(* A whole block that stays is counted. *)
Standby(h, t, i) ==
  [h EXCEPT !.complete[i] = IF Whole(h.tag[t]) THEN @ + 1 ELSE @]

(* kernel_free: MAXCOMPLETE whole blocks of a class stand by; one more is  *)
(* given to liballoc_free, which does not return (FrameAllocator.tla,      *)
(* "selfLock").                                                            *)
AfterFree(h, ptr) ==
  LET s == Coalesce(h, ptr - TAG)
      r == s.heap.tag[s.at]
      i == Class(r.real_size - TAG)
  IN  IF Whole(r) /\ h.complete[i] = MAXCOMPLETE
      THEN [heap |-> s.heap, stopped |-> TRUE]
      ELSE [heap |-> insert_tag(Standby(s.heap, s.at, i), s.at, i), stopped |-> FALSE]

-----------------------------------------------------------------------------
kernel_malloc(size) ==
  /\ ~stopped
  /\ Cardinality(held) < MaxHeld
  /\ LET m == AfterMalloc(Heap, size)
     IN  /\ Becomes(m.heap)
         /\ held' = IF m.at = NULL THEN held
                    ELSE held \cup {[at |-> m.at + TAG, size |-> size]}
  /\ UNCHANGED <<moving, stopped>>

(* Callers free what they hold, once; not while kernel_realloc moves it.   *)
kernel_free(a) ==
  /\ ~stopped
  /\ a \in held
  /\ \A m \in moving : a \notin {m.old, m.new}
  /\ LET f == AfterFree(Heap, a.at)
     IN  Becomes(f.heap) /\ stopped' = f.stopped
  /\ held' = held \ {a}
  /\ UNCHANGED moving

(* kernel_realloc(p, size), size > 0: a new allocation, into which the     *)
(* smaller of the two sizes is copied, without a test for NULL.            *)
ReallocMalloc(a, size) ==
  /\ ~stopped
  /\ a \in held
  /\ size > 0
  /\ \A m \in moving : a \notin {m.old, m.new}
  /\ Cardinality(held) < MaxHeld
  /\ LET m == AfterMalloc(Heap, size)
         new == [at |-> IF m.at = NULL THEN NULL ELSE m.at + TAG, size |-> size]
     IN  /\ Becomes(m.heap)
         /\ held' = IF m.at = NULL THEN held ELSE held \cup {new}
         /\ moving' = moving \cup {[old |-> a, new |-> new]}
  /\ UNCHANGED stopped

(* Copying anything to NULL is a page fault (entry 0 of the top table is   *)
(* not present), whose handler never returns: only this call hangs, the    *)
(* heap's lock is free.                                                    *)
CopyFaults(m) == m.new.at = NULL /\ m.old.size > 0

(* ... and the old one is freed, in a section of its own. *)
ReallocFree(m) ==
  /\ ~stopped
  /\ m \in moving
  /\ ~CopyFaults(m)
  /\ LET f == AfterFree(Heap, m.old.at)
     IN  Becomes(f.heap) /\ stopped' = f.stopped
  /\ held' = held \ {m.old}
  /\ moving' = moving \ {m}

Next ==
  \/ \E n \in Sizes : kernel_malloc(n)
  \/ \E a \in held : kernel_free(a)
  \/ \E a \in held, n \in Sizes : ReallocMalloc(a, n)
  \/ \E m \in moving : ReallocFree(m)

Spec == Init /\ [][Next]_vars

-----------------------------------------------------------------------------
Tags == DOMAIN tag
FreeTags == {t \in Tags : tag[t].index >= 0}
TagOrNull == Tags \cup {NULL}

(* Types: every link leads to a tag that exists. *)
TypeOK ==
  /\ tag \in [Tags -> [size : Nat, real_size : Nat, index : Classes \cup {-1},
                       left : TagOrNull, right : TagOrNull,
                       next : TagOrNull, prev : TagOrNull]]
  /\ l_freePages \in [Classes -> TagOrNull]
  /\ l_completePages \in [Classes -> Nat]
  /\ held \subseteq [at : Nat, size : Sizes]
  /\ moving \subseteq [old : held, new : held \cup [at : {NULL}, size : Sizes]]
  /\ stopped \in BOOLEAN

(* The tags tile their blocks: a tag's right neighbour starts where the    *)
(* tag ends and points back to it; a tag without one ends on a page        *)
(* boundary, a tag without a left one starts on one.                       *)
TagsTileBlocks ==
  \A t \in Tags :
    LET r == tag[t]
    IN  /\ IF r.right = NULL THEN (t + r.real_size) % PageSize = 0
           ELSE r.right = t + r.real_size /\ tag[r.right].left = t
        /\ IF r.left = NULL THEN t % PageSize = 0 ELSE tag[r.left].right = t

(* Freeing leaves no free tag next to a free tag, so one round of each     *)
(* loop of kernel_free is enough, and a block nobody uses is whole.        *)
NoFreeNeighbours ==
  \A t \in FreeTags : tag[t].right = NULL \/ tag[t].right \notin FreeTags

(* A list holds the free tags of its class, each once, with mutual links:  *)
(* no free tag is lost to the search of kernel_malloc, none in use is found*)
(* by it.                                                                  *)
ListsExact ==
  \A i \in Classes :
    LET nth == NthFree(Heap, i)
        n   == Cardinality({t \in Tags : tag[t].index = i})
    IN  /\ {nth[k] : k \in 0 .. n - 1} = {t \in Tags : tag[t].index = i}
        /\ nth[n] = NULL
        /\ \A t \in Tags : tag[t].index = i =>
             /\ i = Class(tag[t].real_size - TAG)
             /\ tag[t].prev = (IF l_freePages[i] = t THEN NULL
                               ELSE CHOOSE u \in Tags : tag[u].next = t)

(* l_completePages counts the whole free blocks of each class, and no more *)
(* than MAXCOMPLETE of them stand by.                                      *)
CompleteExact ==
  \A i \in Classes :
    /\ l_completePages[i] =
         Cardinality({t \in FreeTags : Whole(tag[t]) /\ tag[t].index = i})
    /\ l_completePages[i] <= MAXCOMPLETE

(* What a client holds is the payload of a tag in use, large enough.       *)
HeldIsTagged ==
  ~stopped =>
    /\ {a.at - TAG : a \in held} = Tags \ FreeTags
    /\ \A a \in held : /\ tag[a.at - TAG].size = a.size
                       /\ a.size + TAG <= tag[a.at - TAG].real_size

(* The heap implements the abstract heap of Heap.tla: allocations never    *)
(* overlap and none moves or disappears while others come and go.          *)
H == INSTANCE Heap

ImplementsHeap == H!Spec

(* A list node of the frame allocator (24 bytes, 3 units, as any request   *)
(* under 4 quanta) never fits a free tag of its size class: it always      *)
(* costs a new block, which is what FrameAllocator.tla relies on.          *)
SmallRequestsGetNewBlocks ==
  [][\A n \in Sizes : n < 4 * Bit[MINEXP] /\ kernel_malloc(n) /\ held' # held =>
       Cardinality({t \in Tags : tag[t].left = NULL})' >
       Cardinality({t \in Tags : tag[t].left = NULL})]_vars
=============================================================================
