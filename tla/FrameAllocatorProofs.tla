------------------------ MODULE FrameAllocatorProofs ------------------------
(***************************************************************************)
(* For any number of CPUs the slack of frame_buffer allows, any regions,   *)
(* and any interleaving: the frame buffer neither overflows nor underflows,*)
(* and every variable keeps its type.                                      *)
(***************************************************************************)
EXTENDS FrameAllocator, FiniteSetTheorems, TLAPS

(* CPUs between the test of qtd_buffer and the increment it allowed. *)
Adding == {c \in CPUs : pc[c] \in {"fillAdd", "loadAdd"}}

(* kernel_malloc and everything it calls runs under liballoc's lock, and   *)
(* the two stops below it never release it.                                *)
HeapCritical == {"alloc", "loadLock", "load", "loadAdd", "loadRet", "take",
                 "panic", "freeHead", "selfLock"}

(* The inductive invariant of the buffer.  NoUnderflow needs the exclusion *)
(* that liballoc's lock gives to the callers of allocate(); the bound needs*)
(* that each CPU past the test adds one frame only, and the test itself.   *)
BufferInv ==
  /\ qtd_buffer \in 0 .. 255
  /\ pc \in [CPUs -> Labels]
  /\ \A c \in CPUs : pc[c] \in HeapCritical => heapLock = c
  /\ NoUnderflow
  /\ qtd_buffer + Cardinality(Adding) <= MaxBuffer - 1 + Cardinality(CPUs)

(* The CPUs between test and store are a finite set, of at most all CPUs.  *)
LEMMA AddingFinite ==
  /\ IsFiniteSet(Adding)
  /\ Cardinality(Adding) \in Nat
  /\ Cardinality(CPUs) \in Nat
  /\ Cardinality(Adding) <= Cardinality(CPUs)
  /\ \A c \in CPUs : c \notin Adding => Cardinality(Adding) + 1 <= Cardinality(CPUs)
  /\ \A c \in Adding : Cardinality(Adding) >= 1
<1>1. Adding \subseteq CPUs /\ IsFiniteSet(CPUs)
  BY FrameAllocatorAssumption DEF Adding
<1>2. IsFiniteSet(Adding) /\ Cardinality(Adding) <= Cardinality(CPUs)
  BY <1>1, FS_Subset
<1>3. Cardinality(Adding) \in Nat /\ Cardinality(CPUs) \in Nat
  BY <1>1, <1>2, FS_CardinalityType
<1>4. ASSUME NEW c \in CPUs, c \notin Adding
      PROVE  Cardinality(Adding) + 1 <= Cardinality(CPUs)
  <2>1. Adding \subseteq CPUs \ {c}
    BY <1>1, <1>4
  <2>2. IsFiniteSet(CPUs \ {c}) /\ Cardinality(CPUs \ {c}) = Cardinality(CPUs) - 1
    BY <1>1, <1>4, FS_RemoveElement
  <2>3. Cardinality(Adding) <= Cardinality(CPUs \ {c})
    BY <2>1, <2>2, FS_Subset
  <2>4. QED
    BY <2>2, <2>3, <1>3
<1>5. ASSUME NEW c \in Adding
      PROVE  Cardinality(Adding) >= 1
  BY <1>2, <1>3, <1>5, FS_EmptySet
<1>6. QED
  BY <1>2, <1>3, <1>4, <1>5

(* A step of CPU c that neither enters nor leaves Adding. *)
LEMMA OtherStep ==
  ASSUME BufferInv, NEW c \in CPUs, NEW l \in Labels,
         pc' = [pc EXCEPT ![c] = l],
         qtd_buffer' = qtd_buffer,
         c \notin Adding, l \notin {"fillAdd", "loadAdd"},
         l \in HeapCritical => heapLock' = c,
         \A d \in CPUs \ {c} : heapLock = d => heapLock' = d,
         l = "take" => qtd_buffer > 0
  PROVE  BufferInv'
<1>1. Adding' = Adding
  BY DEF Adding, BufferInv
<1>2. (pc \in [CPUs -> Labels])'
  BY DEF BufferInv
<1>3. (\A d \in CPUs : pc[d] \in HeapCritical => heapLock = d)'
  BY DEF BufferInv, HeapCritical
<1>4. NoUnderflow'
  BY DEF BufferInv, NoUnderflow
<1>5. QED
  BY <1>1, <1>2, <1>3, <1>4 DEF BufferInv

(* CPU c passes the test of qtd_buffer: it saw room in the buffer. *)
LEMMA StartAdding ==
  ASSUME BufferInv, NEW c \in CPUs, NEW l \in {"fillAdd", "loadAdd"},
         pc' = [pc EXCEPT ![c] = l],
         qtd_buffer' = qtd_buffer, heapLock' = heapLock,
         c \notin Adding, qtd_buffer < MaxBuffer,
         l = "loadAdd" => heapLock = c
  PROVE  BufferInv'
<1>1. Adding' = Adding \cup {c}
  BY DEF Adding, BufferInv
<1>2. Cardinality(Adding') = Cardinality(Adding) + 1
  BY <1>1, AddingFinite, FS_AddElement
<1>3. qtd_buffer + Cardinality(Adding') <= MaxBuffer - 1 + Cardinality(CPUs)
  BY <1>2, AddingFinite, FrameAllocatorAssumption DEF BufferInv
<1>4. (pc \in [CPUs -> Labels])'
  BY DEF BufferInv, Labels
<1>5. (\A d \in CPUs : pc[d] \in HeapCritical => heapLock = d)'
  BY DEF BufferInv, HeapCritical
<1>6. NoUnderflow'
  BY DEF BufferInv, NoUnderflow
<1>7. QED
  BY <1>3, <1>4, <1>5, <1>6 DEF BufferInv

(* The bound, as the store into frame_buffer needs it. *)
LEMMA RoomLeft ==
  ASSUME BufferInv, NEW c \in Adding
  PROVE  qtd_buffer + 1 <= MaxBuffer + Slack /\ qtd_buffer + 1 < 256
<1>1. qtd_buffer + 1 <= MaxBuffer - 1 + Cardinality(CPUs)
  BY AddingFinite, FrameAllocatorAssumption DEF BufferInv
<1>2. QED
  BY <1>1, AddingFinite, FrameAllocatorAssumption, SlackAssumption DEF BufferInv

(* CPU c stores its frame and increments the counter. *)
LEMMA EndAdding ==
  ASSUME BufferInv, NEW c \in CPUs, NEW l \in {"fill", "load"},
         pc' = [pc EXCEPT ![c] = l],
         qtd_buffer' = (qtd_buffer + 1) % 256, heapLock' = heapLock,
         c \in Adding,
         l = "load" => heapLock = c
  PROVE  BufferInv'
<1>1. Adding' = Adding \ {c}
  BY DEF Adding, BufferInv
<1>2. Cardinality(Adding') = Cardinality(Adding) - 1
  BY <1>1, AddingFinite, FS_RemoveElement
<1>3. qtd_buffer' = qtd_buffer + 1 /\ qtd_buffer' \in 0 .. 255
  BY RoomLeft DEF BufferInv
<1>4. qtd_buffer' + Cardinality(Adding') <= MaxBuffer - 1 + Cardinality(CPUs)
  BY <1>2, <1>3, AddingFinite, FrameAllocatorAssumption DEF BufferInv
<1>5. (pc \in [CPUs -> Labels])'
  BY DEF BufferInv, Labels
<1>6. (\A d \in CPUs : pc[d] \in HeapCritical => heapLock = d)'
  BY DEF BufferInv, HeapCritical
<1>7. NoUnderflow'
  BY <1>3 DEF BufferInv, NoUnderflow
<1>8. QED
  BY <1>3, <1>4, <1>5, <1>6, <1>7 DEF BufferInv

(* CPU c takes a frame: nobody else can be about to, it holds the lock.    *)
LEMMA TakeFrame ==
  ASSUME BufferInv, NEW c \in CPUs, Take(c)
  PROVE  BufferInv'
<1>1. heapLock = c /\ qtd_buffer > 0
  BY DEF Take, BufferInv, HeapCritical, NoUnderflow
<1>2. Adding' = Adding
  BY DEF Take, Goto, Adding, BufferInv
<1>3. qtd_buffer' = qtd_buffer - 1 /\ qtd_buffer' \in 0 .. 255
  BY <1>1 DEF Take, BufferInv
<1>4. qtd_buffer' + Cardinality(Adding') <= MaxBuffer - 1 + Cardinality(CPUs)
  BY <1>2, <1>3, AddingFinite, FrameAllocatorAssumption DEF BufferInv
<1>5. (pc \in [CPUs -> Labels])'
  BY DEF Take, Goto, BufferInv, Labels
<1>6. (\A d \in CPUs : pc[d] \in HeapCritical => heapLock = d)'
  BY DEF Take, Goto, BufferInv, HeapCritical
<1>7. NoUnderflow'
  <2>1. SUFFICES ASSUME NEW d \in CPUs, pc'[d] = "take"
                 PROVE  FALSE
    BY DEF NoUnderflow
  <2>2. pc[d] = "take" /\ d # c
    BY <2>1 DEF Take, Goto, BufferInv
  <2>3. QED
    BY <1>1, <2>2 DEF BufferInv, HeapCritical
<1>8. QED
  BY <1>3, <1>4, <1>5, <1>6, <1>7 DEF BufferInv

(* No step of any CPU breaks the buffer invariant: one case per action.    *)
LEMMA BufferInvStep == BufferInv /\ [Next]_vars => BufferInv'
<1> SUFFICES ASSUME BufferInv, [Next]_vars
             PROVE  BufferInv'
  OBVIOUS
<1>a. ASSUME NEW c \in CPUs, NEW l \in Labels,
             pc[c] \notin {"fillAdd", "loadAdd"},
             Goto(c, l), qtd_buffer' = qtd_buffer, l \notin {"fillAdd", "loadAdd"},
             l \in HeapCritical => heapLock' = c,
             \A d \in CPUs \ {c} : heapLock = d => heapLock' = d,
             l = "take" => qtd_buffer > 0
      PROVE  BufferInv'
  BY <1>a, OtherStep DEF Goto, Adding
<1>1. ASSUME NEW c \in CPUs, NEW r \in Regions, AddMemorySpace(c, r)
      PROVE  BufferInv'
  BY <1>1, <1>a DEF AddMemorySpace, alloc_vars, Labels, HeapCritical
<1>2. ASSUME NEW c \in CPUs, ClientMalloc(c)
      PROVE  BufferInv'
  BY <1>2, <1>a, FrameAllocatorAssumption
     DEF ClientMalloc, liballoc_lock, alloc_vars, Labels, HeapCritical
<1>3. ASSUME NEW c \in CPUs, ClientFree(c)
      PROVE  BufferInv'
  BY <1>3, <1>a, FrameAllocatorAssumption
     DEF ClientFree, FreeBlock, liballoc_lock, alloc_vars, Labels, Stops, HeapCritical
<1>4. ASSUME NEW c \in CPUs, FillCheck(c)
      PROVE  BufferInv'
  <2>1. CASE pc' = [pc EXCEPT ![c] = "fillAdd"] /\ FillMore(loc[c].map.size)
    BY <1>4, <2>1, StartAdding DEF FillCheck, FillMore, alloc_vars, Adding
  <2>2. CASE Goto(c, "idle") \/ Goto(c, "malloc")
    BY <1>4, <2>2, <1>a DEF FillCheck, alloc_vars, Labels, HeapCritical
  <2>3. QED
    BY <1>4, <2>1, <2>2 DEF FillCheck, Goto, Return
<1>5. ASSUME NEW c \in CPUs, FillAdd(c)
      PROVE  BufferInv'
  BY <1>5, EndAdding DEF FillAdd, AddFrameInBuffer, Goto, Adding
<1>6. ASSUME NEW c \in CPUs, MallocNode(c)
      PROVE  BufferInv'
  BY <1>6, <1>a, FrameAllocatorAssumption
     DEF MallocNode, liballoc_lock, alloc_vars, Labels, HeapCritical
<1>7. ASSUME NEW c \in CPUs, Alloc(c)
      PROVE  BufferInv'
  <2>a. heapLock = c
    BY <1>7 DEF Alloc, BufferInv, HeapCritical
  <2>1. CASE loc[c].need > 0
    <3>1. CASE qtd_buffer <= MaxBuffer \div 2
      BY <1>7, <2>a, <2>1, <3>1, <1>a DEF Alloc, alloc_vars, Labels
    <3>2. CASE ~(qtd_buffer <= MaxBuffer \div 2)
      <4>1. qtd_buffer > 0
        BY <3>2, FrameAllocatorAssumption DEF BufferInv
      <4>2. QED
        BY <1>7, <2>a, <2>1, <3>2, <4>1, <1>a DEF Alloc, alloc_vars, Labels
    <3>3. QED
      BY <3>1, <3>2
  <2>2. CASE loc[c].need = 0
    <3>1. Goto(c, "idle") \/ Goto(c, "newObj")
      BY <1>7, <2>2 DEF Alloc, Return
    <3>2. QED
      BY <1>7, <2>a, <3>1, <1>a DEF Alloc, alloc_vars, Labels, HeapCritical
  <2>3. QED
    BY <1>7, <2>1, <2>2 DEF Alloc
<1>8. ASSUME NEW c \in CPUs, LoadLock(c)
      PROVE  BufferInv'
  BY <1>8, <1>a DEF LoadLock, alloc_vars, Labels, HeapCritical, BufferInv
<1>9. ASSUME NEW c \in CPUs, Load(c)
      PROVE  BufferInv'
  <2>1. heapLock = c
    BY <1>9 DEF Load, BufferInv, HeapCritical
  <2>2. CASE Goto(c, "loadAdd") /\ qtd_buffer < MaxBuffer
    BY <1>9, <2>1, <2>2, StartAdding DEF Load, Goto, alloc_vars, Adding
  <2>3. CASE Goto(c, "freeHead") \/ Goto(c, "loadRet")
    BY <1>9, <2>1, <2>3, <1>a DEF Load, alloc_vars, Labels, Stops, HeapCritical
  <2>4. QED
    BY <1>9, <2>2, <2>3 DEF Load
<1>10. ASSUME NEW c \in CPUs, LoadAdd(c)
       PROVE  BufferInv'
  BY <1>10, EndAdding
     DEF LoadAdd, AddFrameInBuffer, Goto, Adding, BufferInv, HeapCritical
<1>11. ASSUME NEW c \in CPUs, LoadRet(c)
       PROVE  BufferInv'
  <2>1. heapLock = c
    BY <1>11 DEF LoadRet, BufferInv, HeapCritical
  <2>2. QED
    BY <1>11, <2>1, <1>a DEF LoadRet, alloc_vars, Labels, Stops, HeapCritical
<1>12. ASSUME NEW c \in CPUs, Take(c)
       PROVE  BufferInv'
  BY <1>12, TakeFrame
<1>13. ASSUME NEW c \in CPUs,
              NewObj(c) \/ PushLock(c) \/ Descend(c) \/ Unwind(c) \/ Merge(c)
              \/ Relock(c)
       PROVE  BufferInv'
  <2>1. /\ pc[c] \in {"newObj", "pushLock", "descend", "unwind", "merge", "relock"}
        /\ qtd_buffer' = qtd_buffer /\ heapLock' = heapLock
    BY <1>13 DEF NewObj, PushLock, Descend, Unwind, Merge, Relock, alloc_vars
  <2>2. \/ Goto(c, "pushLock") \/ Goto(c, "descend") \/ Goto(c, "unwind")
        \/ Goto(c, "idle") \/ Goto(c, "merge") \/ Goto(c, "mergeFree")
        \/ pc' = pc
    BY <1>13 DEF NewObj, PushLock, Descend, Unwind, PushDone, Return, Merge, Relock
  <2>3. CASE pc' = pc
    BY <2>1, <2>3 DEF BufferInv, NoUnderflow, Adding
  <2>4. QED
    BY <2>1, <2>2, <2>3, <1>a DEF Labels, HeapCritical
<1>14. ASSUME NEW c \in CPUs, MergeFree(c)
       PROVE  BufferInv'
  BY <1>14, <1>a, FrameAllocatorAssumption
     DEF MergeFree, FreeBlock, liballoc_lock, alloc_vars, Labels, Stops, HeapCritical
<1>15. CASE UNCHANGED vars
  BY <1>15 DEF vars, alloc_vars, BufferInv, NoUnderflow, Adding
<1>16. QED
  BY <1>1, <1>2, <1>3, <1>4, <1>5, <1>6, <1>7, <1>8, <1>9, <1>10, <1>11, <1>12,
     <1>13, <1>14, <1>15 DEF Next, Step

(* The buffer invariant holds from the empty allocator on.                 *)
THEOREM BufferInvHolds == Spec => []BufferInv
<1>1. Init => BufferInv
  <2> SUFFICES ASSUME Init
               PROVE  BufferInv
    OBVIOUS
  <2>1. Adding = {} /\ \A c \in CPUs : pc[c] = "idle"
    BY DEF Init, Adding
  <2>2. Cardinality(Adding) = 0
    BY <2>1, FS_EmptySet
  <2>3. qtd_buffer + Cardinality(Adding) <= MaxBuffer - 1 + Cardinality(CPUs)
    BY <2>2, AddingFinite, FrameAllocatorAssumption DEF Init
  <2>4. QED
    BY <2>1, <2>3 DEF Init, BufferInv, NoUnderflow, HeapCritical, Labels
<1>2. QED
  BY <1>1, BufferInvStep, PTL DEF Spec

(* allocate() never decrements a counter that is zero, although it tests   *)
(* the counter and decrements it in separate sections (FrameAllocator.cpp: *)
(* 92-101): all its callers hold liballoc's lock.                          *)
THEOREM AllocateNeverUnderflows == Spec => []NoUnderflow
<1>1. BufferInv => NoUnderflow
  BY DEF BufferInv
<1>2. QED
  BY <1>1, BufferInvHolds, PTL

(* The comment at FrameAllocator.hh:19: the 16 extra slots take what CPUs  *)
(* that add at the same time may store beyond MAX_BUFFER_FRAMES.           *)
THEOREM SlackSuffices == Spec => []FrameBufferInBounds
<1>1. BufferInv => FrameBufferInBounds
  <2> SUFFICES ASSUME BufferInv, NEW c \in CPUs, pc[c] \in {"fillAdd", "loadAdd"}
               PROVE  qtd_buffer \in Slots
    BY DEF FrameBufferInBounds
  <2>1. c \in Adding
    BY DEF Adding
  <2>2. QED
    BY <2>1, RoomLeft, FrameAllocatorAssumption DEF BufferInv, Slots
<1>2. QED
  BY <1>1, BufferInvHolds, PTL

-----------------------------------------------------------------------------
(* x & PAGE_MASK of an address is an address. *)
LEMMA PageMaskNat ==
  ASSUME NEW x \in Nat
  PROVE  PageMask(x) \in Nat
<1>1. x % PageSize \in 0 .. PageSize - 1 /\ x % PageSize <= x
  BY FrameAllocatorAssumption, SMTT(30)
<1>2. QED
  BY <1>1 DEF PageMask

(* What addMemorySpace makes of its argument is a memory_space. *)
LEMMA NormalizeType ==
  ASSUME NEW r \in Regions
  PROVE  Normalize(r) \in MemorySpaces
<1> DEFINE size == (r.size - (r.base % PageSize)) % Word
<1>1. r.base \in Nat /\ r.size \in Nat
  BY FrameAllocatorAssumption
<1>2. size \in Nat
  BY <1>1, FrameAllocatorAssumption
<1>3. PageMask(size) \in Nat /\ PageMask(r.base) \in Nat
  BY <1>1, <1>2, PageMaskNat
<1>4. QED
  BY <1>3 DEF Normalize, MemorySpaces

(* The owner of lock[1] is at one of these places. *)
Lock1Critical == {"load", "loadAdd", "freeHead", "descend", "unwind", "merge"}

(* What the code at each place relies on and TypeOK does not say. *)
LocalsOK(c) ==
  /\ pc[c] = "fillAdd" => loc[c].map.size >= PageSize
  /\ pc[c] \in {"loadLock", "load", "loadAdd", "loadRet", "take"} => loc[c].need > 0
  /\ \/ pc[c] \in {"fill", "fillAdd", "malloc", "newObj", "pushLock", "descend"}
     \/ /\ pc[c] \in {"alloc", "loadLock", "load", "loadAdd", "loadRet", "take"}
        /\ ~loc[c].client
     => loc[c].obj \in Regions
  /\ pc[c] \in {"merge", "mergeFree", "relock"} => loc[c].cur \in Regions
  /\ pc[c] \in Lock1Critical => lock1 = c
  /\ pc[c] = "loadAdd" => avaliableMemory \in Regions

TypeInv == TypeOK /\ \A c \in CPUs : LocalsOK(c)

(* A step of CPU c leaves the other CPUs' places and locals alone, gives   *)
(* lock[1] to nobody else, and changes the head only while it holds it.    *)
LEMMA OthersOK ==
  ASSUME TypeInv, NEW c \in CPUs, NEW d \in CPUs, d # c,
         pc'[d] = pc[d], loc'[d] = loc[d],
         lock1 = d => lock1' = d,
         avaliableMemory' = avaliableMemory \/ lock1 = c
  PROVE  LocalsOK(d)'
BY DEF TypeInv, LocalsOK, Lock1Critical

(* The locals of a CPU outside any call. *)
LEMMA NoLocalsType == NoLocals \in Locals
BY DEF NoLocals, NoMap, Locals, MemorySpaces, NodesOrNull

(* A run of at least a page is still a run without its first page. *)
LEMMA DropPageType ==
  /\ \A m \in MemorySpaces : m.size >= PageSize => DropPage(m) \in MemorySpaces
  /\ \A m \in [base : Nat, size : Int, next : NodesOrNull] :
       DropPage(m) \in [base : Nat, size : Int, next : NodesOrNull]
<1>1. PageSize \in Nat
  BY FrameAllocatorAssumption
<1>2. ASSUME NEW m \in MemorySpaces, m.size >= PageSize
      PROVE  DropPage(m) \in MemorySpaces
  <2>1. m.base + PageSize \in Nat /\ m.size - PageSize \in Nat
    BY <1>1, <1>2 DEF MemorySpaces
  <2>2. QED
    BY <2>1 DEF DropPage, MemorySpaces
<1>3. ASSUME NEW m \in [base : Nat, size : Int, next : NodesOrNull]
      PROVE  DropPage(m) \in [base : Nat, size : Int, next : NodesOrNull]
  <2>1. m.base + PageSize \in Nat /\ m.size - PageSize \in Int
    BY <1>1
  <2>2. QED
    BY <2>1 DEF DropPage
<1>4. QED
  BY <1>2, <1>3

(* addFrameInBuffer keeps the types of the buffer. *)
LEMMA AddFrameType ==
  ASSUME TypeOK, NEW f \in Nat, AddFrameInBuffer(f)
  PROVE  qtd_buffer' \in 0 .. 255 /\ frame_buffer' \in [Slots -> Nat]
<1>1. (qtd_buffer + 1) % 256 \in 0 .. 255
  BY DEF TypeOK
<1>2. PageMask(f) \in Nat
  BY PageMaskNat
<1>3. QED
  BY <1>1, <1>2 DEF TypeOK, AddFrameInBuffer

(* Writing the link of a node keeps the type of the nodes. *)
LEMMA LinkType ==
  ASSUME TypeOK, NEW n \in Regions, NEW l \in NodesOrNull
  PROVE  [node EXCEPT ![n].next = l]
           \in [Regions -> [base : Nat, size : Int, next : NodesOrNull]]
BY DEF TypeOK

(* The innermost activation of list_push, and those above it. *)
LEMMA PathType ==
  ASSUME NEW s \in Seq(Regions), s # <<>>
  PROVE  Last(s) \in Regions /\ Front(s) \in Seq(Regions)
BY DEF Last, Front

(* No step of any CPU breaks the types: one case per action.               *)
LEMMA TypeInvStep == BufferInv /\ TypeInv /\ [Next]_vars => TypeInv'
<1> SUFFICES ASSUME BufferInv, TypeInv, [Next]_vars
             PROVE  TypeInv'
  OBVIOUS
<1> USE DEF Goto, alloc_vars, heap_vars
<1>1. ASSUME NEW c \in CPUs, NEW r \in Regions, AddMemorySpace(c, r)
      PROVE  TypeInv'
  <2>1. loc' \in [CPUs -> Locals]
    <3>1. loc \in [CPUs -> Locals] /\ loc' = [loc EXCEPT ![c].map = Normalize(r), ![c].obj = r]
      BY <1>1 DEF AddMemorySpace, TypeInv, TypeOK
    <3>2. Normalize(r) \in MemorySpaces /\ r \in NodesOrNull
      BY NormalizeType DEF NodesOrNull
    <3>3. QED
      BY <3>1, <3>2 DEF Locals
  <2>2. pc' \in [CPUs -> Labels]
    BY <1>1 DEF AddMemorySpace, TypeInv, TypeOK, Labels, Stops
  <2>3. TypeOK'
    BY <1>1, <2>1, <2>2
       DEF AddMemorySpace, TypeInv, TypeOK
  <2>4. LocalsOK(c)'
    BY <1>1, <2>1
       DEF AddMemorySpace, TypeInv, TypeOK, LocalsOK, Lock1Critical, Stops, Locals
  <2>5. ASSUME NEW d \in CPUs, d # c
        PROVE  LocalsOK(d)'
    BY <1>1, <2>5, OthersOK, FrameAllocatorAssumption
       DEF AddMemorySpace, TypeInv, TypeOK, LocalsOK, Lock1Critical
  <2>6. QED
    BY <2>3, <2>4, <2>5 DEF TypeInv
<1>2. ASSUME NEW c \in CPUs, ClientMalloc(c)
      PROVE  TypeInv'
  <2>1. loc' \in [CPUs -> Locals]
    <3>1. PICK k \in BlockFrames : loc' = [loc EXCEPT ![c].need = k, ![c].client = TRUE]
      BY <1>2 DEF ClientMalloc, liballoc_lock
    <3>2. loc \in [CPUs -> Locals] /\ k \in Nat
      BY FrameAllocatorAssumption DEF TypeInv, TypeOK
    <3>3. QED
      BY <3>1, <3>2 DEF Locals
  <2>2. pc' \in [CPUs -> Labels]
    BY <1>2 DEF ClientMalloc, liballoc_lock, TypeInv, TypeOK, Labels, Stops
  <2>3. TypeOK'
    BY <1>2, <2>1, <2>2, FrameAllocatorAssumption
       DEF ClientMalloc, liballoc_lock, TypeInv, TypeOK
  <2>4. LocalsOK(c)'
    BY <1>2, <2>1
       DEF ClientMalloc, liballoc_lock, TypeInv, TypeOK, LocalsOK, Lock1Critical, Stops, Locals
  <2>5. ASSUME NEW d \in CPUs, d # c
        PROVE  LocalsOK(d)'
    BY <1>2, <2>5, OthersOK, FrameAllocatorAssumption
       DEF ClientMalloc, liballoc_lock, TypeInv, TypeOK, LocalsOK, Lock1Critical
  <2>6. QED
    BY <2>3, <2>4, <2>5 DEF TypeInv
<1>3. ASSUME NEW c \in CPUs, ClientFree(c)
      PROVE  TypeInv'
  <2>1. loc' = loc /\ loc' \in [CPUs -> Locals]
    BY <1>3 DEF ClientFree, FreeBlock, liballoc_lock, TypeInv, TypeOK
  <2>2. pc' \in [CPUs -> Labels]
    BY <1>3 DEF ClientFree, FreeBlock, liballoc_lock, TypeInv, TypeOK, Labels, Stops
  <2>3. TypeOK'
    BY <1>3, <2>1, <2>2, FrameAllocatorAssumption
       DEF ClientFree, FreeBlock, liballoc_lock, TypeInv, TypeOK
  <2>4. LocalsOK(c)'
    BY <1>3, <2>1
       DEF ClientFree, FreeBlock, liballoc_lock, TypeInv, TypeOK, LocalsOK, Lock1Critical, Stops
  <2>5. ASSUME NEW d \in CPUs, d # c
        PROVE  LocalsOK(d)'
    BY <1>3, <2>5, OthersOK, FrameAllocatorAssumption
       DEF ClientFree, FreeBlock, liballoc_lock, TypeInv, TypeOK, LocalsOK, Lock1Critical
  <2>6. QED
    BY <2>3, <2>4, <2>5 DEF TypeInv
<1>4. ASSUME NEW c \in CPUs, FillCheck(c)
      PROVE  TypeInv'
  <2>a. loc[c].map.size \in Nat /\ PageSize \in Nat
    BY FrameAllocatorAssumption DEF TypeInv, TypeOK, Locals, MemorySpaces
  <2>1. loc' \in [CPUs -> Locals]
    BY <1>4, NoLocalsType DEF FillCheck, FillMore, Return, TypeInv, TypeOK
  <2>2. pc' \in [CPUs -> Labels]
    BY <1>4 DEF FillCheck, FillMore, Return, TypeInv, TypeOK, Labels, Stops
  <2>3. TypeOK'
    BY <1>4, <2>1, <2>2
       DEF FillCheck, FillMore, Return, TypeInv, TypeOK
  <2>4. LocalsOK(c)'
    BY <1>4, <2>1, <2>a
       DEF FillCheck, FillMore, Return, TypeInv, TypeOK, LocalsOK, Lock1Critical, Stops
  <2>5. ASSUME NEW d \in CPUs, d # c
        PROVE  LocalsOK(d)'
    BY <1>4, <2>5, OthersOK, FrameAllocatorAssumption
       DEF FillCheck, FillMore, Return, TypeInv, TypeOK, LocalsOK, Lock1Critical
  <2>6. QED
    BY <2>3, <2>4, <2>5 DEF TypeInv
<1>5. ASSUME NEW c \in CPUs, FillAdd(c)
      PROVE  TypeInv'
  <2>a. qtd_buffer' \in 0 .. 255 /\ frame_buffer' \in [Slots -> Nat]
    BY <1>5, AddFrameType DEF FillAdd, TypeInv, TypeOK, Locals, MemorySpaces
  <2>1. loc' \in [CPUs -> Locals]
    <3>1. loc \in [CPUs -> Locals] /\ loc' = [loc EXCEPT ![c].map = DropPage(@)]
      BY <1>5 DEF FillAdd, TypeInv, TypeOK
    <3>2. loc[c].map \in MemorySpaces /\ loc[c].map.size >= PageSize
      BY <1>5 DEF FillAdd, TypeInv, TypeOK, LocalsOK, Locals
    <3>3. DropPage(loc[c].map) \in MemorySpaces
      BY <3>2, DropPageType
    <3>4. QED
      BY <3>1, <3>3 DEF Locals
  <2>2. pc' \in [CPUs -> Labels]
    BY <1>5 DEF FillAdd, TypeInv, TypeOK, Labels, Stops
  <2>3. TypeOK'
    BY <1>5, <2>1, <2>2, <2>a
       DEF FillAdd, TypeInv, TypeOK
  <2>4. LocalsOK(c)'
    BY <1>5, <2>1
       DEF FillAdd, TypeInv, TypeOK, LocalsOK, Lock1Critical, Stops, Locals
  <2>5. ASSUME NEW d \in CPUs, d # c
        PROVE  LocalsOK(d)'
    BY <1>5, <2>5, OthersOK, FrameAllocatorAssumption
       DEF FillAdd, TypeInv, TypeOK, LocalsOK, Lock1Critical
  <2>6. QED
    BY <2>3, <2>4, <2>5 DEF TypeInv
<1>6. ASSUME NEW c \in CPUs, MallocNode(c)
      PROVE  TypeInv'
  <2>1. loc' \in [CPUs -> Locals]
    <3>1. PICK k \in BlockFrames : loc' = [loc EXCEPT ![c].need = k]
      BY <1>6 DEF MallocNode, liballoc_lock
    <3>2. loc \in [CPUs -> Locals] /\ k \in Nat
      BY FrameAllocatorAssumption DEF TypeInv, TypeOK
    <3>3. QED
      BY <3>1, <3>2 DEF Locals
  <2>2. pc' \in [CPUs -> Labels]
    BY <1>6 DEF MallocNode, liballoc_lock, TypeInv, TypeOK, Labels, Stops
  <2>3. TypeOK'
    BY <1>6, <2>1, <2>2
       DEF MallocNode, liballoc_lock, TypeInv, TypeOK
  <2>4. LocalsOK(c)'
    BY <1>6, <2>1
       DEF MallocNode, liballoc_lock, TypeInv, TypeOK, LocalsOK, Lock1Critical, Stops, Locals
  <2>5. ASSUME NEW d \in CPUs, d # c
        PROVE  LocalsOK(d)'
    BY <1>6, <2>5, OthersOK, FrameAllocatorAssumption
       DEF MallocNode, liballoc_lock, TypeInv, TypeOK, LocalsOK, Lock1Critical
  <2>6. QED
    BY <2>3, <2>4, <2>5 DEF TypeInv
<1>7. ASSUME NEW c \in CPUs, Alloc(c)
      PROVE  TypeInv'
  <2>1. loc' \in [CPUs -> Locals]
    BY <1>7, NoLocalsType DEF Alloc, liballoc_unlock, Return, TypeInv, TypeOK
  <2>2. pc' \in [CPUs -> Labels]
    BY <1>7 DEF Alloc, liballoc_unlock, Return, TypeInv, TypeOK, Labels, Stops
  <2>3. TypeOK'
    BY <1>7, <2>1, <2>2
       DEF Alloc, liballoc_unlock, Return, TypeInv, TypeOK
  <2>4. LocalsOK(c)'
    BY <1>7, <2>1
       DEF Alloc, liballoc_unlock, Return, TypeInv, TypeOK, LocalsOK, Lock1Critical, Stops
  <2>5. ASSUME NEW d \in CPUs, d # c
        PROVE  LocalsOK(d)'
    BY <1>7, <2>5, OthersOK, FrameAllocatorAssumption
       DEF Alloc, liballoc_unlock, Return, TypeInv, TypeOK, LocalsOK, Lock1Critical
  <2>6. QED
    BY <2>3, <2>4, <2>5 DEF TypeInv
<1>8. ASSUME NEW c \in CPUs, LoadLock(c)
      PROVE  TypeInv'
  <2>1. loc' = loc /\ loc' \in [CPUs -> Locals]
    BY <1>8 DEF LoadLock, acquireLock1, TypeInv, TypeOK
  <2>2. pc' \in [CPUs -> Labels]
    BY <1>8 DEF LoadLock, acquireLock1, TypeInv, TypeOK, Labels, Stops
  <2>3. TypeOK'
    BY <1>8, <2>1, <2>2
       DEF LoadLock, acquireLock1, TypeInv, TypeOK
  <2>4. LocalsOK(c)'
    BY <1>8, <2>1
       DEF LoadLock, acquireLock1, TypeInv, TypeOK, LocalsOK, Lock1Critical, Stops
  <2>5. ASSUME NEW d \in CPUs, d # c
        PROVE  LocalsOK(d)'
    BY <1>8, <2>5, OthersOK, FrameAllocatorAssumption
       DEF LoadLock, acquireLock1, TypeInv, TypeOK, LocalsOK, Lock1Critical
  <2>6. QED
    BY <2>3, <2>4, <2>5 DEF TypeInv
<1>9. ASSUME NEW c \in CPUs, Load(c)
      PROVE  TypeInv'
  <2>1. loc' = loc /\ loc' \in [CPUs -> Locals]
    BY <1>9 DEF Load, releaseLock1, TypeInv, TypeOK
  <2>2. pc' \in [CPUs -> Labels]
    BY <1>9 DEF Load, releaseLock1, TypeInv, TypeOK, Labels, Stops
  <2>3. TypeOK'
    BY <1>9, <2>1, <2>2
       DEF Load, releaseLock1, TypeInv, TypeOK
  <2>4. LocalsOK(c)'
    BY <1>9, <2>1
       DEF Load, releaseLock1, TypeInv, TypeOK, LocalsOK, Lock1Critical, Stops, NodesOrNull
  <2>5. ASSUME NEW d \in CPUs, d # c
        PROVE  LocalsOK(d)'
    BY <1>9, <2>5, OthersOK, FrameAllocatorAssumption
       DEF Load, releaseLock1, TypeInv, TypeOK, LocalsOK, Lock1Critical
  <2>6. QED
    BY <2>3, <2>4, <2>5 DEF TypeInv
<1>10. ASSUME NEW c \in CPUs, LoadAdd(c)
       PROVE  TypeInv'
  <2>a. avaliableMemory \in Regions
    BY <1>10 DEF LoadAdd, TypeInv, TypeOK, LocalsOK
  <2>b. qtd_buffer' \in 0 .. 255 /\ frame_buffer' \in [Slots -> Nat]
    BY <1>10, <2>a, AddFrameType DEF LoadAdd, TypeInv, TypeOK
  <2>c. DropPage(node[avaliableMemory]) \in [base : Nat, size : Int, next : NodesOrNull]
    BY <2>a, DropPageType DEF TypeInv, TypeOK
  <2>1. loc' = loc /\ loc' \in [CPUs -> Locals]
    BY <1>10 DEF LoadAdd, TypeInv, TypeOK
  <2>2. pc' \in [CPUs -> Labels]
    BY <1>10 DEF LoadAdd, TypeInv, TypeOK, Labels, Stops
  <2>3. TypeOK'
    BY <1>10, <2>1, <2>2, <2>a, <2>c, <2>b
       DEF LoadAdd, TypeInv, TypeOK
  <2>4. LocalsOK(c)'
    BY <1>10, <2>1
       DEF LoadAdd, TypeInv, TypeOK, LocalsOK, Lock1Critical, Stops
  <2>5. ASSUME NEW d \in CPUs, d # c
        PROVE  LocalsOK(d)'
    BY <1>10, <2>5, OthersOK, FrameAllocatorAssumption
       DEF LoadAdd, TypeInv, TypeOK, LocalsOK, Lock1Critical
  <2>6. QED
    BY <2>3, <2>4, <2>5 DEF TypeInv
<1>11. ASSUME NEW c \in CPUs, LoadRet(c)
       PROVE  TypeInv'
  <2>1. loc' = loc /\ loc' \in [CPUs -> Locals]
    BY <1>11 DEF LoadRet, TypeInv, TypeOK
  <2>2. pc' \in [CPUs -> Labels]
    BY <1>11 DEF LoadRet, TypeInv, TypeOK, Labels, Stops
  <2>3. TypeOK'
    BY <1>11, <2>1, <2>2
       DEF LoadRet, TypeInv, TypeOK
  <2>4. LocalsOK(c)'
    BY <1>11, <2>1
       DEF LoadRet, TypeInv, TypeOK, LocalsOK, Lock1Critical, Stops
  <2>5. ASSUME NEW d \in CPUs, d # c
        PROVE  LocalsOK(d)'
    BY <1>11, <2>5, OthersOK, FrameAllocatorAssumption
       DEF LoadRet, TypeInv, TypeOK, LocalsOK, Lock1Critical
  <2>6. QED
    BY <2>3, <2>4, <2>5 DEF TypeInv
<1>12. ASSUME NEW c \in CPUs, Take(c)
       PROVE  TypeInv'
  <2>a. frame_buffer[TopSlot] \in Nat
    <3>1. TopSlot \in Slots
      BY <1>12, AddingFinite, SlackAssumption, FrameAllocatorAssumption
         DEF Take, BufferInv, NoUnderflow, TopSlot, Slots
    <3>2. QED
      BY <3>1 DEF TypeInv, TypeOK
  <2>1. loc' \in [CPUs -> Locals]
    <3>1. loc \in [CPUs -> Locals] /\ loc' = [loc EXCEPT ![c].need = @ - 1]
      BY <1>12 DEF Take, TypeInv, TypeOK
    <3>2. loc[c].need - 1 \in Nat
      BY <1>12 DEF Take, TypeInv, TypeOK, LocalsOK, Locals
    <3>3. QED
      BY <3>1, <3>2 DEF Locals
  <2>2. pc' \in [CPUs -> Labels]
    BY <1>12 DEF Take, TypeInv, TypeOK, Labels, Stops
  <2>3. TypeOK'
    BY <1>12, <2>1, <2>2, <2>a
       DEF Take, TypeInv, TypeOK
  <2>4. LocalsOK(c)'
    BY <1>12, <2>1
       DEF Take, TypeInv, TypeOK, LocalsOK, Lock1Critical, Stops, Locals
  <2>5. ASSUME NEW d \in CPUs, d # c
        PROVE  LocalsOK(d)'
    BY <1>12, <2>5, OthersOK, FrameAllocatorAssumption
       DEF Take, TypeInv, TypeOK, LocalsOK, Lock1Critical
  <2>6. QED
    BY <2>3, <2>4, <2>5 DEF TypeInv
<1>13. ASSUME NEW c \in CPUs, NewObj(c)
       PROVE  TypeInv'
  <2>a. /\ loc[c].obj \in Regions
        /\ [base |-> loc[c].map.base, size |-> loc[c].map.size, next |-> Null]
             \in [base : Nat, size : Int, next : NodesOrNull]
    BY <1>13 DEF NewObj, TypeInv, TypeOK, LocalsOK, Locals, MemorySpaces, NodesOrNull
  <2>1. loc' \in [CPUs -> Locals]
    <3>1. loc \in [CPUs -> Locals] /\ loc' = [loc EXCEPT ![c].map = NoMap]
      BY <1>13 DEF NewObj, TypeInv, TypeOK
    <3>2. NoMap \in MemorySpaces
      BY DEF NoMap, MemorySpaces
    <3>3. QED
      BY <3>1, <3>2 DEF Locals
  <2>2. pc' \in [CPUs -> Labels]
    BY <1>13 DEF NewObj, TypeInv, TypeOK, Labels, Stops
  <2>3. TypeOK'
    BY <1>13, <2>1, <2>2, <2>a
       DEF NewObj, TypeInv, TypeOK
  <2>4. LocalsOK(c)'
    BY <1>13, <2>1
       DEF NewObj, TypeInv, TypeOK, LocalsOK, Lock1Critical, Stops, Locals
  <2>5. ASSUME NEW d \in CPUs, d # c
        PROVE  LocalsOK(d)'
    BY <1>13, <2>5, OthersOK, FrameAllocatorAssumption
       DEF NewObj, TypeInv, TypeOK, LocalsOK, Lock1Critical
  <2>6. QED
    BY <2>3, <2>4, <2>5 DEF TypeInv
<1>14. ASSUME NEW c \in CPUs, PushLock(c)
       PROVE  TypeInv'
  <2>1. loc' \in [CPUs -> Locals]
    <3>1. loc \in [CPUs -> Locals] /\ loc' = [loc EXCEPT ![c].cur = avaliableMemory]
      BY <1>14 DEF PushLock, acquireLock1, TypeInv, TypeOK
    <3>2. avaliableMemory \in NodesOrNull
      BY DEF TypeInv, TypeOK
    <3>3. QED
      BY <3>1, <3>2 DEF Locals
  <2>2. pc' \in [CPUs -> Labels]
    BY <1>14 DEF PushLock, acquireLock1, TypeInv, TypeOK, Labels, Stops
  <2>3. TypeOK'
    BY <1>14, <2>1, <2>2
       DEF PushLock, acquireLock1, TypeInv, TypeOK
  <2>4. LocalsOK(c)'
    BY <1>14, <2>1
       DEF PushLock, acquireLock1, TypeInv, TypeOK, LocalsOK, Lock1Critical, Stops, Locals
  <2>5. ASSUME NEW d \in CPUs, d # c
        PROVE  LocalsOK(d)'
    BY <1>14, <2>5, OthersOK, FrameAllocatorAssumption
       DEF PushLock, acquireLock1, TypeInv, TypeOK, LocalsOK, Lock1Critical
  <2>6. QED
    BY <2>3, <2>4, <2>5 DEF TypeInv
<1>15. ASSUME NEW c \in CPUs, Descend(c)
       PROVE  TypeInv'
  <2>a. loc[c].obj \in Regions /\ loc[c].cur \in NodesOrNull
    BY <1>15 DEF Descend, TypeInv, TypeOK, LocalsOK, Locals
  <2>c. node' \in [Regions -> [base : Nat, size : Int, next : NodesOrNull]]
    <3>1. node' = node \/ node' = Link(loc[c].obj, loc[c].cur)
      BY <1>15 DEF Descend
    <3>2. QED
      BY <3>1, <2>a, LinkType DEF Link, TypeInv, TypeOK
  <2>1. loc' \in [CPUs -> Locals]
    <3>1. CASE loc' = [loc EXCEPT ![c].cur = loc[c].obj]
      BY <3>1, <2>a DEF TypeInv, TypeOK, Locals, NodesOrNull
    <3>2. CASE ~GoesBefore(loc[c].obj, loc[c].cur)
      <4>1. loc[c].cur \in Regions
        BY <2>a, <3>2 DEF GoesBefore, NodesOrNull
      <4>2. /\ loc \in [CPUs -> Locals]
            /\ loc' = [loc EXCEPT ![c].path = Append(@, loc[c].cur),
                                  ![c].cur = node[loc[c].cur].next]
        BY <1>15, <3>2 DEF Descend, TypeInv, TypeOK
      <4>3. node[loc[c].cur].next \in NodesOrNull
        BY <4>1 DEF TypeInv, TypeOK
      <4>4. Append(loc[c].path, loc[c].cur) \in Seq(Regions)
        BY <4>1, <4>2 DEF Locals
      <4>5. QED
        BY <4>2, <4>3, <4>4 DEF Locals
    <3>3. QED
      BY <1>15, <3>1, <3>2 DEF Descend
  <2>2. pc' \in [CPUs -> Labels]
    BY <1>15 DEF Descend, GoesBefore, Link, TypeInv, TypeOK, Labels, Stops
  <2>3. TypeOK'
    BY <1>15, <2>1, <2>2, <2>c
       DEF Descend, GoesBefore, Link, TypeInv, TypeOK
  <2>4. LocalsOK(c)'
    BY <1>15, <2>1, <2>a
       DEF Descend, GoesBefore, Link, TypeInv, TypeOK, LocalsOK, Lock1Critical, Stops, Locals
  <2>5. ASSUME NEW d \in CPUs, d # c
        PROVE  LocalsOK(d)'
    BY <1>15, <2>5, OthersOK, FrameAllocatorAssumption
       DEF Descend, GoesBefore, Link, TypeInv, TypeOK, LocalsOK, Lock1Critical
  <2>6. QED
    BY <2>3, <2>4, <2>5 DEF TypeInv
<1>16. ASSUME NEW c \in CPUs, Unwind(c)
       PROVE  TypeInv'
  <2>a. /\ loc \in [CPUs -> Locals] /\ loc[c].cur \in NodesOrNull
        /\ loc[c].path # <<>> =>
             Last(loc[c].path) \in Regions /\ Front(loc[c].path) \in Seq(Regions)
    BY <1>16, PathType DEF TypeInv, TypeOK, Locals
  <2>c. node' \in [Regions -> [base : Nat, size : Int, next : NodesOrNull]]
    <3>1. \/ node' = node
          \/ /\ loc[c].path # <<>>
             /\ node' = [node EXCEPT ![Last(loc[c].path)].next = loc[c].cur]
      BY <1>16 DEF Unwind
    <3>2. CASE node' = node
      BY <3>2 DEF TypeInv, TypeOK
    <3>3. ASSUME loc[c].path # <<>>
          PROVE  [node EXCEPT ![Last(loc[c].path)].next = loc[c].cur]
                   \in [Regions -> [base : Nat, size : Int, next : NodesOrNull]]
      BY <3>3, <2>a, LinkType DEF TypeInv
    <3>4. QED
      BY <3>1, <3>2, <3>3
  <2>1. loc' \in [CPUs -> Locals]
    <3>1. CASE loc' = [loc EXCEPT ![c] = NoLocals]
      BY <2>a, <3>1, NoLocalsType
    <3>2. CASE /\ loc[c].path # <<>>
               /\ loc' = [loc EXCEPT ![c].path = Front(loc[c].path),
                                     ![c].cur = Last(loc[c].path)]
      BY <2>a, <3>2 DEF Locals, NodesOrNull
    <3>3. QED
      BY <1>16, <3>1, <3>2 DEF Unwind, PushDone, Return
  <2>2. pc' \in [CPUs -> Labels]
    BY <1>16 DEF Unwind, PushDone, releaseLock1, Return, TypeInv, TypeOK, Labels, Stops
  <2>3. TypeOK'
    BY <1>16, <2>1, <2>2, <2>a, <2>c
       DEF Unwind, PushDone, releaseLock1, Return, TypeInv, TypeOK
  <2>4. LocalsOK(c)'
    BY <1>16, <2>1, <2>a
       DEF Unwind, PushDone, releaseLock1, Return, TypeInv, TypeOK, LocalsOK, Lock1Critical, Stops, Locals
  <2>5. ASSUME NEW d \in CPUs, d # c
        PROVE  LocalsOK(d)'
    BY <1>16, <2>5, OthersOK, FrameAllocatorAssumption
       DEF Unwind, PushDone, releaseLock1, Return, TypeInv, TypeOK, LocalsOK, Lock1Critical
  <2>6. QED
    BY <2>3, <2>4, <2>5 DEF TypeInv
<1>17. ASSUME NEW c \in CPUs, Merge(c)
       PROVE  TypeInv'
  <2>a. /\ loc[c].cur \in Regions
        /\ Reaches(loc[c].cur) => node[loc[c].cur].next \in Regions
    BY <1>17 DEF Merge, Reaches, TypeInv, TypeOK, LocalsOK, NodesOrNull
  <2>1. loc' = loc /\ loc' \in [CPUs -> Locals]
    BY <1>17 DEF Merge, Absorb, ReleaseForFree, releaseLock1, TypeInv, TypeOK
  <2>2. pc' \in [CPUs -> Labels]
    BY <1>17 DEF Merge, Absorb, ReleaseForFree, releaseLock1, TypeInv, TypeOK, Labels, Stops
  <2>3. TypeOK'
    BY <1>17, <2>1, <2>2, <2>a
       DEF Merge, Absorb, ReleaseForFree, releaseLock1, TypeInv, TypeOK
  <2>4. LocalsOK(c)'
    BY <1>17, <2>1, <2>a
       DEF Merge, Absorb, ReleaseForFree, releaseLock1, TypeInv, TypeOK, LocalsOK, Lock1Critical, Stops
  <2>5. ASSUME NEW d \in CPUs, d # c
        PROVE  LocalsOK(d)'
    BY <1>17, <2>5, OthersOK, FrameAllocatorAssumption
       DEF Merge, Absorb, ReleaseForFree, releaseLock1, TypeInv, TypeOK, LocalsOK, Lock1Critical
  <2>6. QED
    BY <2>3, <2>4, <2>5 DEF TypeInv
<1>18. ASSUME NEW c \in CPUs, MergeFree(c)
       PROVE  TypeInv'
  <2>1. loc' = loc /\ loc' \in [CPUs -> Locals]
    BY <1>18 DEF MergeFree, FreeBlock, liballoc_lock, TypeInv, TypeOK
  <2>2. pc' \in [CPUs -> Labels]
    BY <1>18 DEF MergeFree, FreeBlock, liballoc_lock, TypeInv, TypeOK, Labels, Stops
  <2>3. TypeOK'
    BY <1>18, <2>1, <2>2, FrameAllocatorAssumption
       DEF MergeFree, FreeBlock, liballoc_lock, TypeInv, TypeOK
  <2>4. LocalsOK(c)'
    BY <1>18, <2>1
       DEF MergeFree, FreeBlock, liballoc_lock, TypeInv, TypeOK, LocalsOK, Lock1Critical, Stops
  <2>5. ASSUME NEW d \in CPUs, d # c
        PROVE  LocalsOK(d)'
    BY <1>18, <2>5, OthersOK, FrameAllocatorAssumption
       DEF MergeFree, FreeBlock, liballoc_lock, TypeInv, TypeOK, LocalsOK, Lock1Critical
  <2>6. QED
    BY <2>3, <2>4, <2>5 DEF TypeInv
<1>19. ASSUME NEW c \in CPUs, Relock(c)
       PROVE  TypeInv'
  <2>1. loc' = loc /\ loc' \in [CPUs -> Locals]
    BY <1>19 DEF Relock, acquireLock1, TypeInv, TypeOK
  <2>2. pc' \in [CPUs -> Labels]
    BY <1>19 DEF Relock, acquireLock1, TypeInv, TypeOK, Labels, Stops
  <2>3. TypeOK'
    BY <1>19, <2>1, <2>2
       DEF Relock, acquireLock1, TypeInv, TypeOK
  <2>4. LocalsOK(c)'
    BY <1>19, <2>1
       DEF Relock, acquireLock1, TypeInv, TypeOK, LocalsOK, Lock1Critical, Stops
  <2>5. ASSUME NEW d \in CPUs, d # c
        PROVE  LocalsOK(d)'
    BY <1>19, <2>5, OthersOK, FrameAllocatorAssumption
       DEF Relock, acquireLock1, TypeInv, TypeOK, LocalsOK, Lock1Critical
  <2>6. QED
    BY <2>3, <2>4, <2>5 DEF TypeInv
<1>20. CASE UNCHANGED vars
  BY <1>20 DEF vars, TypeInv, TypeOK, LocalsOK, Lock1Critical
<1>21. QED
  BY <1>1, <1>2, <1>3, <1>4, <1>5, <1>6, <1>7, <1>8, <1>9, <1>10, <1>11, <1>12, <1>13, <1>14, <1>15, <1>16, <1>17, <1>18, <1>19, <1>20
     DEF Next, Step

(* Types hold at the start.                                                *)
LEMMA TypeInvInit == Init => TypeInv
BY FrameAllocatorAssumption
   DEF Init, TypeInv, TypeOK, LocalsOK, Locals, NoLocals, NoMap, Labels, NodesOrNull,
       MemorySpaces, Lock1Critical

(* Every variable keeps its type: in particular no node pointer that is    *)
(* followed is null and no frame is read from outside frame_buffer.        *)
THEOREM TypeCorrect == Spec => []TypeOK
<1>1. Init => TypeInv
  BY TypeInvInit
<1>2. BufferInv /\ TypeInv /\ [Next]_vars => TypeInv'
  BY TypeInvStep
<1>3. TypeInv => TypeOK
  BY DEF TypeInv
<1>4. QED
  BY <1>1, <1>2, <1>3, BufferInvHolds, PTL DEF Spec
=============================================================================
