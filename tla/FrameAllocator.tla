--------------------------- MODULE FrameAllocator ---------------------------
(***************************************************************************)
(* The physical page-frame allocator, lib/kernel/memory/pagination/        *)
(* FrameAllocator.cpp, run by any number of CPUs, together with the part   *)
(* of the kernel heap (liballoc) it is entangled with: a list node of the  *)
(* allocator lives in the heap, and a new heap block is filled with frames *)
(* of the allocator, so each calls the other while locks are held.         *)
(*                                                                         *)
(* One action per stretch of code between two lock operations or two       *)
(* unlocked reads of shared state.  A section under lock[0] is one action: *)
(* nothing blocks inside it.  lock[1] and liballoc's lock are explicit,    *)
(* because they are held across calls.                                     *)
(***************************************************************************)
EXTENDS Integers, Sequences, FiniteSets, FiniteSetsExt, SequencesExt

CONSTANTS
  CPUs,          (* processors running kernel code                           *)
  NoCPU,         (* a lock's holder while it is free                         *)
  Null,          (* nullptr, as a list node                                  *)
  PageSize,      (* PAGE_SIZE, in bytes                                      *)
  Word,          (* 2^64: unsigned addresses and sizes wrap here             *)
  MaxBuffer,     (* MAX_BUFFER_FRAMES                                        *)
  Slack,         (* the extra slots of frame_buffer (16)                     *)
  MaxComplete,   (* liballoc's MAXCOMPLETE: whole free blocks it keeps       *)
  BlockFrames,   (* frames one new heap block may need: its pages and the    *)
                 (* page tables that alloc_vm has to create for them         *)
  MaxCalls,      (* bound: kernel_malloc calls of other kernel code          *)
  Regions        (* the memory regions that get added, [base, size] in bytes *)

ASSUME FrameAllocatorAssumption ==
  /\ IsFiniteSet(CPUs)
  /\ NoCPU \notin CPUs
  /\ Null \notin Regions
  /\ PageSize \in Nat \ {0}
  /\ Word \in Nat \ {0}
  /\ MaxBuffer \in Nat \ {0}
  /\ Slack \in Nat
  /\ MaxComplete \in Nat
  /\ BlockFrames \subseteq Nat \ {0}
  /\ MaxCalls \in Nat
  /\ Regions \subseteq [base : Nat, size : Nat]
  /\ IsFiniteSet(Regions)

(* What the declaration "frame_buffer[MAX_BUFFER_FRAMES+16]" relies on: at *)
(* most one CPU more than there are extra slots, and a uint8 counter that  *)
(* can count them all.                                                     *)
ASSUME SlackAssumption ==
  /\ Cardinality(CPUs) <= Slack + 1
  /\ MaxBuffer + Slack < 256

Slots == 0 .. MaxBuffer + Slack - 1

NoMap == [base |-> 0, size |-> 0]

(* memory_space: a run of pages [base, base + size). *)
PagesIn(m) == {m.base + k * PageSize : k \in 0 .. (m.size \div PageSize) - 1}

VARIABLES
  qtd_buffer,       (* number of buffered frames, a uint8           *)
  frame_buffer,     (* the buffered frames                          *)
  avaliableMemory,  (* first node of the list of free regions       *)
  node,             (* list_frame_t, known by the region it is for  *)
  live,             (* nodes allocated and not given to kernel_free *)
  lock1,            (* holder of lock[1]                            *)
  heapLock,         (* holder of liballoc's lock                    *)
  complete,         (* l_completePages of the 16-page blocks        *)
  owned,            (* blocks held by other kernel code             *)
  calls,            (* kernel_malloc calls of other kernel code     *)
  todo,             (* regions not yet added                        *)
  mapped,           (* frames handed out by allocate()              *)
  pc,               (* per CPU: where it is                         *)
  loc               (* per CPU: locals of the call it is in         *)

alloc_vars == <<qtd_buffer, frame_buffer, avaliableMemory, node, live>>
heap_vars  == <<complete, owned, calls>>
vars == <<alloc_vars, heap_vars, lock1, heapLock, todo, mapped, pc, loc>>

(* map: the region being added; obj: its list node, once it has one; path  *)
(* and cur: the activations of list_push and the value they return; need:  *)
(* frames the new heap block still lacks; client: kernel_malloc was called *)
(* by other kernel code.                                                   *)
NoLocals == [map |-> NoMap, obj |-> Null, path |-> <<>>, cur |-> Null,
             need |-> 0, client |-> FALSE]

Init ==
  /\ qtd_buffer = 0
  /\ frame_buffer = [i \in Slots |-> 0]
  /\ avaliableMemory = Null
  /\ node = [n \in Regions |-> [base |-> 0, size |-> 0, next |-> Null]]
  /\ live = {}
  /\ lock1 = NoCPU
  /\ heapLock = NoCPU
  /\ complete = 0
  /\ owned = 0
  /\ calls = 0
  /\ todo = Regions
  /\ mapped = {}
  /\ pc = [c \in CPUs |-> "idle"]
  /\ loc = [c \in CPUs |-> NoLocals]

Goto(c, l) == pc' = [pc EXCEPT ![c] = l]

Return(c) == Goto(c, "idle") /\ loc' = [loc EXCEPT ![c] = NoLocals]

(* lock[1], see SpinLock.tla: a CPU waits until nobody holds it. *)
acquireLock1(c) == lock1 = NoCPU /\ lock1' = c
releaseLock1    == lock1' = NoCPU

(* Mutant of liballoc_lock: it returns at once. *)
liballoc_lockNoWait(c) == heapLock' = c

liballoc_lock(c) == heapLock = NoCPU /\ heapLock' = c
liballoc_unlock  == heapLock' = NoCPU

-----------------------------------------------------------------------------
(* x & PAGE_MASK. *)
PageMask(x) == x - (x % PageSize)

(* addMemorySpace(map), entry: the size loses what precedes the base in    *)
(* its page and is rounded down, the base is rounded down; both wrap.      *)
Normalize(r) ==
  LET size == (r.size - (r.base % PageSize)) % Word
  IN  [base |-> PageMask(r.base), size |-> PageMask(size)]

AddMemorySpace(c, r) ==
  /\ pc[c] = "idle"
  /\ r \in todo
  /\ todo' = todo \ {r}
  /\ loc' = [loc EXCEPT ![c].map = Normalize(r), ![c].obj = r]
  /\ Goto(c, "fill")
  /\ UNCHANGED <<alloc_vars, heap_vars, lock1, heapLock, mapped>>

(* Mutant of DropPage: "map.base += PAGE_SIZE" is missing. *)
DropPageSizeOnly(m) == [m EXCEPT !.size = m.size - PageSize]

(* A run of pages loses its first page to the buffer. *)
DropPage(m) ==
  [m EXCEPT !.base = m.base + PageSize, !.size = m.size - PageSize]

(* addFrameInBuffer: one store and one increment of a uint8 under lock[0]. *)
AddFrameInBuffer(f) ==
  /\ frame_buffer' = [frame_buffer EXCEPT ![qtd_buffer] = PageMask(f)]
  /\ qtd_buffer' = (qtd_buffer + 1) % 256

(* Mutants of FillMore: "<=" in the second condition, no first condition. *)
FillMoreOffByOne(size) == size > PageSize /\ qtd_buffer <= MaxBuffer
FillMoreAnySize(size)  == qtd_buffer < MaxBuffer

(* "map.size > PAGE_SIZE && qtd_buffer < MAX_BUFFER_FRAMES", without a     *)
(* lock: several CPUs may see the same last slot.                          *)
FillMore(size) == size > PageSize /\ qtd_buffer < MaxBuffer

(* One evaluation of that condition, then "if(map.size < PAGE_SIZE)return".*)
FillCheck(c) ==
  /\ pc[c] = "fill"
  /\ LET size == loc[c].map.size
     IN  \/ FillMore(size) /\ Goto(c, "fillAdd") /\ UNCHANGED loc
         \/ ~FillMore(size) /\ size < PageSize /\ Return(c)
         \/ ~FillMore(size) /\ size >= PageSize /\ Goto(c, "malloc") /\ UNCHANGED loc
  /\ UNCHANGED <<alloc_vars, heap_vars, lock1, heapLock, todo, mapped>>

FillAdd(c) ==
  /\ pc[c] = "fillAdd"
  /\ AddFrameInBuffer(loc[c].map.base)
  /\ loc' = [loc EXCEPT ![c].map = DropPage(@)]
  /\ Goto(c, "fill")
  /\ UNCHANGED <<avaliableMemory, node, live, heap_vars, lock1, heapLock,
                 todo, mapped>>

-----------------------------------------------------------------------------
(* kernel_malloc(sizeof(list_frame_t)): liballoc's lock is taken.  A node  *)
(* never fits a free tag of its size class (see the README), so it always  *)
(* gets a new block.                                                       *)
MallocNode(c) ==
  /\ pc[c] = "malloc"
  /\ liballoc_lock(c)
  /\ \E n \in BlockFrames : loc' = [loc EXCEPT ![c].need = n]
  /\ Goto(c, "alloc")
  /\ UNCHANGED <<alloc_vars, heap_vars, lock1, todo, mapped>>

(* kernel_malloc from the rest of the kernel, when it needs a new block.   *)
(* One served from the tags in place changes nothing here.                 *)
ClientMalloc(c) ==
  /\ pc[c] = "idle"
  /\ calls < MaxCalls
  /\ calls' = calls + 1
  /\ liballoc_lock(c)
  /\ \E n \in BlockFrames :
       loc' = [loc EXCEPT ![c].need = n, ![c].client = TRUE]
  /\ Goto(c, "alloc")
  /\ UNCHANGED <<alloc_vars, complete, owned, lock1, todo, mapped>>

(* A block became free as a whole: liballoc keeps MAXCOMPLETE of them.     *)
(* The next one goes back page by page through addMemorySpace({addr,       *)
(* PAGE_SIZE}), which calls kernel_malloc, which waits for liballoc's lock *)
(* that this CPU holds: there is no step out of "selfLock".                *)
FreeBlock(c, l) ==
  \/ /\ complete < MaxComplete
     /\ heapLock = NoCPU
     /\ complete' = complete + 1
     /\ Goto(c, l)
     /\ UNCHANGED heapLock
  \/ /\ complete = MaxComplete
     /\ liballoc_lock(c)
     /\ Goto(c, "selfLock")
     /\ UNCHANGED complete

(* kernel_free from the rest of the kernel, of the last piece of a block. *)
ClientFree(c) ==
  /\ pc[c] = "idle"
  /\ owned > 0
  /\ owned' = owned - 1
  /\ FreeBlock(c, "idle")
  /\ UNCHANGED <<alloc_vars, calls, lock1, todo, mapped, loc>>

(* alloc_vm maps the block page by page; each page, and each page table it *)
(* lacks, is one call of allocate(), whose first act is an unlocked test   *)
(* of the counter.  With the last frame kernel_malloc unlocks and returns. *)
Alloc(c) ==
  /\ pc[c] = "alloc"
  /\ \/ /\ loc[c].need > 0
        /\ Goto(c, IF qtd_buffer <= MaxBuffer \div 2 THEN "loadLock" ELSE "take")
        /\ UNCHANGED <<heapLock, owned, loc>>
     \/ /\ loc[c].need = 0
        /\ liballoc_unlock
        /\ IF loc[c].client
             THEN owned' = owned + 1 /\ Return(c)
             ELSE Goto(c, "newObj") /\ UNCHANGED <<owned, loc>>
  /\ UNCHANGED <<alloc_vars, complete, calls, lock1, todo, mapped>>

(* loadBuffer: lock[1] is taken for the whole refill. *)
LoadLock(c) ==
  /\ pc[c] = "loadLock"
  /\ acquireLock1(c)
  /\ Goto(c, "load")
  /\ UNCHANGED <<alloc_vars, heap_vars, heapLock, todo, mapped, loc>>

(* The refill loop.  A head node with less than a page left is given to    *)
(* kernel_free; every call of allocate() is made under liballoc's lock, so *)
(* that call waits for a lock its own CPU holds: no step leaves "freeHead".*)
Load(c) ==
  /\ pc[c] = "load"
  /\ LET more == qtd_buffer < MaxBuffer /\ avaliableMemory # Null
     IN  \/ /\ more
            /\ Goto(c, IF node[avaliableMemory].size < PageSize
                         THEN "freeHead" ELSE "loadAdd")
            /\ UNCHANGED lock1
         \/ /\ ~more
            /\ releaseLock1
            /\ Goto(c, "loadRet")
  /\ UNCHANGED <<alloc_vars, heap_vars, heapLock, todo, mapped, loc>>

LoadAdd(c) ==
  /\ pc[c] = "loadAdd"
  /\ AddFrameInBuffer(node[avaliableMemory].base)
  /\ node' = [node EXCEPT ![avaliableMemory] = DropPage(@)]
  /\ Goto(c, "load")
  /\ UNCHANGED <<avaliableMemory, live, heap_vars, lock1, heapLock,
                 todo, mapped, loc>>

(* "return qtd_buffer>0", and allocate() panics if that is false. *)
LoadRet(c) ==
  /\ pc[c] = "loadRet"
  /\ Goto(c, IF qtd_buffer > 0 THEN "take" ELSE "panic")
  /\ UNCHANGED <<alloc_vars, heap_vars, lock1, heapLock, todo, mapped, loc>>

(* Mutant of TopSlot: "qtd_buffer--" for "--qtd_buffer". *)
TopSlotPostDecrement == qtd_buffer

(* The slot that "frame_buffer[--qtd_buffer]" reads; the uint8 wraps at 0. *)
TopSlot == (qtd_buffer - 1) % 256

(* That statement, under lock[0], whatever the counter is by now: the test *)
(* above is not repeated.                                                  *)
Take(c) ==
  /\ pc[c] = "take"
  /\ qtd_buffer' = (qtd_buffer - 1) % 256
  /\ mapped' = mapped \cup {frame_buffer[TopSlot]}
  /\ loc' = [loc EXCEPT ![c].need = @ - 1]
  /\ Goto(c, "alloc")
  /\ UNCHANGED <<frame_buffer, avaliableMemory, node, live, heap_vars,
                 lock1, heapLock, todo>>

-----------------------------------------------------------------------------
(* "newObj->data = map". *)
NewObj(c) ==
  /\ pc[c] = "newObj"
  /\ live' = live \cup {loc[c].obj}
  /\ node' = [node EXCEPT ![loc[c].obj] = [base |-> loc[c].map.base,
                             size |-> loc[c].map.size, next |-> Null]]
  /\ loc' = [loc EXCEPT ![c].map = NoMap]
  /\ Goto(c, "pushLock")
  /\ UNCHANGED <<qtd_buffer, frame_buffer, avaliableMemory, heap_vars, lock1,
                 heapLock, todo, mapped>>

(* acquireLock(&lock[1]); the argument avaliableMemory is read. *)
PushLock(c) ==
  /\ pc[c] = "pushLock"
  /\ acquireLock1(c)
  /\ loc' = [loc EXCEPT ![c].cur = avaliableMemory]
  /\ Goto(c, "descend")
  /\ UNCHANGED <<alloc_vars, heap_vars, heapLock, todo, mapped>>

(* Mutant of GoesBefore: "<" for ">", the list is in falling order. *)
GoesBeforeLower(new, l) ==
  IF l = Null THEN TRUE ELSE node[l].base < node[new].base

(* "list==nullptr || list->data.base > newItem->data.base". *)
GoesBefore(new, l) == IF l = Null THEN TRUE ELSE node[l].base > node[new].base

(* Mutant of Link: "tmp->next = list" is missing. *)
LinkAlone(new, l) == node

(* "tmp->next = list". *)
Link(new, l) == [node EXCEPT ![new].next = l]

(* list_push(list, newItem): link the node before the first higher one, or *)
(* recurse into list->next.                                                *)
Descend(c) ==
  /\ pc[c] = "descend"
  /\ LET l == loc[c].cur  new == loc[c].obj
     IN  \/ /\ GoesBefore(new, l)
            /\ node' = Link(new, l)
            /\ loc' = [loc EXCEPT ![c].cur = new]
            /\ Goto(c, "unwind")
         \/ /\ ~GoesBefore(new, l)
            /\ loc' = [loc EXCEPT ![c].path = Append(@, l),
                                  ![c].cur = node[l].next]
            /\ UNCHANGED <<node, pc>>
  /\ UNCHANGED <<qtd_buffer, frame_buffer, avaliableMemory, live, heap_vars,
                 lock1, heapLock, todo, mapped>>

(* Mutant of PushDone: addMemorySpace returns with lock[1] held. *)
PushDoneLocked(c) ==
  /\ avaliableMemory' = loc[c].cur
  /\ Return(c)
  /\ UNCHANGED lock1

(* "avaliableMemory = list_push(...); releaseLock(&lock[1])". *)
PushDone(c) ==
  /\ avaliableMemory' = loc[c].cur
  /\ releaseLock1
  /\ Return(c)

(* An activation of list_push returns its node: to "list->next =" in the   *)
(* activation above it, or to addMemorySpace.                              *)
Unwind(c) ==
  /\ pc[c] = "unwind"
  /\ LET path == loc[c].path
     IN  \/ path = <<>> /\ PushDone(c) /\ UNCHANGED node
         \/ /\ path # <<>>
            /\ node' = [node EXCEPT ![Last(path)].next = loc[c].cur]
            /\ loc' = [loc EXCEPT ![c].path = Front(path), ![c].cur = Last(path)]
            /\ Goto(c, "merge")
            /\ UNCHANGED <<avaliableMemory, lock1>>
  /\ UNCHANGED <<qtd_buffer, frame_buffer, live, heap_vars, heapLock, todo,
                 mapped>>

(* "list->next != nullptr && base + size >= list->next->data.base". *)
Reaches(l) ==
  LET n == node[l].next
  IN  IF n = Null THEN FALSE
      ELSE node[l].base + node[l].size >= node[n].base

(* Mutant of Absorb: the successor's size replaces the union's. *)
AbsorbForgetsSize(l, n) ==
  [node EXCEPT ![l].size = node[n].size, ![l].next = node[n].next]

(* The node takes over its successor's pages and its link. *)
Absorb(l, n) ==
  [node EXCEPT ![l].size = node[n].base + node[n].size - node[l].base,
               ![l].next = node[n].next]

(* Mutant of ReleaseForFree: lock[1] stays held. *)
KeepForFree == UNCHANGED lock1

(* "releaseLock(&lock[1])" before kernel_free(tmp). *)
ReleaseForFree == releaseLock1

(* One evaluation of the while loop of list_push. *)
Merge(c) ==
  /\ pc[c] = "merge"
  /\ LET l == loc[c].cur  n == node[l].next
     IN  \/ /\ Reaches(l)
            /\ node' = Absorb(l, n)
            /\ live' = live \ {n}
            /\ ReleaseForFree
            /\ Goto(c, "mergeFree")
         \/ /\ ~Reaches(l)
            /\ Goto(c, "unwind")
            /\ UNCHANGED <<node, live, lock1>>
  /\ UNCHANGED <<qtd_buffer, frame_buffer, avaliableMemory, heap_vars,
                 heapLock, todo, mapped, loc>>

(* kernel_free of the absorbed node, its block's only allocation. *)
MergeFree(c) ==
  /\ pc[c] = "mergeFree"
  /\ FreeBlock(c, "relock")
  /\ UNCHANGED <<alloc_vars, owned, calls, lock1, todo, mapped, loc>>

Relock(c) ==
  /\ pc[c] = "relock"
  /\ acquireLock1(c)
  /\ Goto(c, "merge")
  /\ UNCHANGED <<alloc_vars, heap_vars, heapLock, todo, mapped, loc>>

-----------------------------------------------------------------------------
(* The steps of a call once it has begun. *)
Step(c) ==
  \/ FillCheck(c) \/ FillAdd(c) \/ MallocNode(c)
  \/ Alloc(c) \/ LoadLock(c) \/ Load(c) \/ LoadAdd(c) \/ LoadRet(c) \/ Take(c)
  \/ NewObj(c) \/ PushLock(c) \/ Descend(c) \/ Unwind(c)
  \/ Merge(c) \/ MergeFree(c) \/ Relock(c)

Next == \E c \in CPUs :
  \/ \E r \in Regions : AddMemorySpace(c, r)
  \/ ClientMalloc(c)
  \/ ClientFree(c)
  \/ Step(c)

Spec == Init /\ [][Next]_vars

(* A CPU that is inside a call goes on executing it.  Nobody is obliged to *)
(* begin one, and a spinning CPU gets a lock only if it stays free.        *)
FairSpec == Spec /\ \A c \in CPUs : WF_vars(Step(c))

(* The boot: loadMemoryInformation adds every region of the map in turn.   *)
BootSpec == FairSpec /\ \A c \in CPUs :
              WF_vars(\E r \in Regions : AddMemorySpace(c, r))

-----------------------------------------------------------------------------
Stops == {"panic", "freeHead", "selfLock"}

Labels == {"idle", "fill", "fillAdd", "malloc", "alloc", "loadLock", "load",
           "loadAdd", "loadRet", "take", "newObj", "pushLock", "descend",
           "unwind", "merge", "mergeFree", "relock"} \cup Stops

MemorySpaces == [base : Nat, size : Nat]
NodesOrNull  == Regions \cup {Null}

Locals == [map : MemorySpaces, obj : NodesOrNull, path : Seq(Regions),
           cur : NodesOrNull, need : Nat, client : BOOLEAN]

(* Types.  qtd_buffer is a uint8 and a node's size is an integer: that it  *)
(* is never negative is part of EveryPageOnce, not of its type.            *)
TypeOK ==
  /\ qtd_buffer \in 0 .. 255
  /\ frame_buffer \in [Slots -> Nat]
  /\ avaliableMemory \in NodesOrNull
  /\ node \in [Regions -> [base : Nat, size : Int, next : NodesOrNull]]
  /\ live \subseteq Regions
  /\ lock1 \in CPUs \cup {NoCPU}
  /\ heapLock \in CPUs \cup {NoCPU}
  /\ complete \in 0 .. MaxComplete
  /\ owned \in Nat
  /\ calls \in 0 .. MaxCalls
  /\ todo \subseteq Regions
  /\ mapped \subseteq Nat
  /\ pc \in [CPUs -> Labels]
  /\ loc \in [CPUs -> Locals]

(* The unguarded "qtd_buffer++" of CPUs that all saw room in the buffer    *)
(* never stores past frame_buffer[MAX_BUFFER_FRAMES+16].                   *)
FrameBufferInBounds ==
  \A c \in CPUs : pc[c] \in {"fillAdd", "loadAdd"} => qtd_buffer \in Slots

(* allocate() tests the counter and decrements it later without looking    *)
(* again; no other CPU takes the last frame in between, so the uint8 never *)
(* wraps from 0 to 255 and no stale slot is handed out.                    *)
NoUnderflow == \A c \in CPUs : pc[c] = "take" => qtd_buffer > 0

-----------------------------------------------------------------------------
(* The nodes reachable from avaliableMemory, in order. *)
NthNode[k \in Nat] ==
  IF k = 0 THEN avaliableMemory
  ELSE IF NthNode[k - 1] = Null THEN Null ELSE node[NthNode[k - 1]].next

Listed == {NthNode[k] : k \in 0 .. Cardinality(Regions)} \ {Null}

(* FrameAllocator::freeMemory. *)
freeMemory == MapThenSumSet(LAMBDA n : node[n].size, Listed)

(* The sum setupPagination stores with setMaxMemory. *)
MaxMemory ==
  MapThenSumSet(LAMBDA r : PageMask(r.size), Regions \ todo)

Buffered == {frame_buffer[i] : i \in 0 .. qtd_buffer - 1}

(* The runs of free pages: list nodes, and regions in a CPU's hands. *)
Runs == {[base |-> node[n].base, size |-> node[n].size] : n \in live}
        \cup {loc[c].map : c \in CPUs}

FreeFrames == Buffered \cup UNION {PagesIn(m) : m \in Runs}

PagesOf(size) == size \div PageSize

(* No page is in two places: not twice in the buffer, not in the buffer    *)
(* and a list node, not in two list nodes, not free and handed out.        *)
EveryPageOnce ==
  /\ \A n \in live : node[n].size >= 0
  /\ Cardinality(FreeFrames) =
       qtd_buffer + MapThenSumSet(LAMBDA n : PagesOf(node[n].size), live)
                  + MapThenSumSet(LAMBDA c : PagesOf(loc[c].map.size), CPUs)
  /\ FreeFrames \cap mapped = {}

Quiet == \A c \in CPUs : pc[c] = "idle"

(* Between calls the list is in rising order of address and its nodes do   *)
(* not overlap, as list_push needs to find a node's place and neighbours.  *)
ListSorted ==
  Quiet => \A n \in Listed : node[n].next # Null =>
    node[n].base + node[n].size <= node[node[n].next].base

(* Between calls every node that holds free pages is on the list: what     *)
(* addMemorySpace was given can still be found by loadBuffer.              *)
NoRegionLost == Quiet => Listed = live

(* Between calls nothing has leaked: what freeMemory() reports, what is    *)
(* buffered and what was handed out add up to setMaxMemory's figure.       *)
MemoryAccounted ==
  Quiet => freeMemory + PageSize * (qtd_buffer + Cardinality(mapped)) = MaxMemory

(* The allocator implements the pool of FramePool.tla: the buffer, the     *)
(* list and the coalescing are invisible, no page is lost or made up.      *)
P == INSTANCE FramePool WITH Pages <- LAMBDA r : PagesIn(Normalize(r)),
                             free <- FreeFrames, given <- mapped

ImplementsFramePool == P!Spec

(* Every call of addMemorySpace or kernel_malloc ends, unless some CPU has *)
(* stopped for good: the two locks are never waited for in a circle.       *)
CallsEnd == \A c \in CPUs :
  (pc[c] # "idle") ~> (pc[c] = "idle" \/ \E d \in CPUs : pc[d] \in Stops)

(* With a memory map of large regions the boot adds them all. *)
BootCompletes == <>[](todo = {} /\ Quiet)

(* liballoc_lock "returns 0 if the lock was acquired successfully": it is  *)
(* supposed to return.  It never does for a CPU that holds that lock       *)
(* already, which happens on both ways from one allocator into the other:  *)
(* loadBuffer frees an emptied list node ("freeHead"), kernel_free gives a *)
(* block back and addMemorySpace allocates ("selfLock").                   *)
NeverWaitsForItself == \A c \in CPUs : pc[c] \notin {"freeHead", "selfLock"}
=============================================================================
