# FrameBoot: TLA+ models, checks and proofs

FrameBoot is a small x86_64 kernel framework: a boot loader, a kernel in C++
and assembly, and a C library. These modules model its memory management, its
processes, and the way from the boot sector to the end of main() with
interrupts, screen and keyboard; they are checked with TLC, and what matters
most is proved with TLAPS.

The boot code starts one processor. The kernel code is nevertheless written
for several (spinlocks everywhere; "frames extras caso mais de 1 nucleo
adicionar ao mesmo tempo", FrameAllocator.hh:19), so the models of what is
locked take the set of CPUs as a parameter, and the frame allocator is checked
for one and for two. The devices are modelled with the one CPU that is started.

## 1. The system

Paths are relative to the repository. `PROJECT.json` lists the components with
their files and what is modelled of each.

| Component | State | Operations | Called by | What is hard | What makes it correct |
|---|---|---|---|---|---|
| Spinlock (`asm/funcs/global/atomic.asm`) | bit 0 of a word | acquireLock, tryAcquireLock, releaseLock | every other component | waiters race new callers; a flag must survive to the test | mutual exclusion; a free lock is taken |
| Frame allocator (`pagination/FrameAllocator.cpp`) | buffer of 64 + 16 frames and its uint8 counter; sorted list of free regions; two locks | addMemorySpace, allocate, freeMemory | boot, page tables | the counter is tested outside the lock; list_push drops its lock half-way; the list nodes live in the heap, which needs frames | each page is handed out once, none is lost, the buffer stays in bounds, calls end |
| Kernel heap (`liballoc/liballoc.c`) | boundary tags, a free list and a counter per size class | kernel_malloc, kernel_free, kernel_realloc, kernel_calloc | everything, the frame allocator included | coalescing both ways, links of two kinds per tag, realloc in two sections | allocations never overlap; tags tile their blocks; lists hold exactly the free tags |
| Heap interface (`liballoc/liballoc_interface.cpp`) | liballoc's lock | liballoc_lock, _unlock, _alloc, _free | liballoc | both allocators call each other while locks are held | the hooks return |
| Page tables (`pagination/PageTable.cpp`) | the tables of window 509, seen through the recursive entry 510 | alloc_vm, free_vm, map, unmap, getRealAddr | heap interface | index arithmetic over three levels; map and unmap end half-way when the allocator does not return | a page is mapped while its block is held; no frame is lost; no free page is left behind |
| Paging set-up (`pagination/pagination.cpp`) | top table entries 0, 510, 511 | setupPagination | kmain | frames are needed to add frames | every region of the memory map is added |
| Kernel controller (`KernelController.cpp`) | a lock, the allocator, the table, maxMemory | accessors, panic | everything | | |
| Processes (`process/Process.cpp`) | uid counter; per process a thread array in the heap and a page table | constructor, addThread, destructor | nobody yet | the counter is shared; the array grows outside the lock, in two heap calls | uids are unique; no array is shared or leaked |
| Interrupts (`idt.cpp`, `interruptions.asm`, `macros.asm`) | IDT, interrupt controllers, interrupt flag | setupIDT, IRQ 0 and IRQ 1 handlers | hardware | handlers run in the middle of everything else; requests are edges that can be lost | they leave the interrupted code's state alone; every interrupt is acknowledged |
| Console (`gfx_text.cpp`) | screen cells, cursor registers | clrscr, kprintStr, kprintChar, setCursorPosition | everything, IRQ 1 included | the cursor takes two port writes for each half; escape sequences break off anywhere | text comes out as written; nothing is read or stored out of bounds |
| Keyboard and input (`keyboard.cpp`, `stdio.cpp`) | ring of eight characters and a counter | keyboard, getChar | nobody yet | the ring moves under the reader | getChar returns a character typed after its call |
| Boot loader (`boot/*.asm`) | registers, the memory map at 0x7E000, line A20, the keyboard controller's input | disk read, memory map, A20, CPU checks, long mode | BIOS | errors in flags, a controller slower than the polls | the kernel is entered only when it is there and the machine can run it |
| Entry and application (`start_kernel.asm`, `kernel.cpp`, `app.cpp`) | interrupt flag | _start, kmain, main | boot loader | interrupts are on from the middle of the set-up | the order of the set-up steps |
| GDT, runtime helpers, vendored C library | | | | straight-line set-up and third-party code | see section 8 |

How they interact. kernel_malloc, under liballoc's lock, calls liballoc_alloc
-> alloc_vm -> map -> allocate for each page and each page table it lacks.
allocate calls loadBuffer, which takes lock[1] and moves pages from the list
into the buffer; the list's nodes are heap objects, so addMemorySpace calls
kernel_malloc and list_push calls kernel_free. kernel_free, under liballoc's
lock, calls liballoc_free -> free_vm -> unmap -> addMemorySpace. This circle is
where the deepest properties and most of the findings are.

The second meeting place is the screen. The boot sector leaves the BIOS's
interrupts on until kernel_64.asm masks the lines; kmain clears the screen and
prints with interrupts off, setupIDT reprograms the controllers and turns them
on, and from then on isr_33 prints a key in the middle of any kprintStr, on the
same screen and through the same two cursor registers.

## 2. Modules

| Module | Models | Composition |
|---|---|---|
| `Mutex` | abstract lock: free, or held by one CPU | |
| `SpinLock` | atomic.asm, an action per instruction that touches the word | implements `Mutex` (`ImplementsMutex`) |
| `SpinLockProofs` | theorems | extends `SpinLock` |
| `FramePool` | abstract allocator: pages added once, handed out once | |
| `FrameAllocator` | FrameAllocator.cpp, with liballoc's lock and the calls between the two allocators | implements `FramePool` (`ImplementsFramePool`) |
| `MCFrameAllocator` | memory maps for TLC | extends `FrameAllocator` |
| `NaturalLemmas` | no code: induction, recursive functions, walks, sums | |
| `FrameAllocatorProofs` | theorems for any number of CPUs | extends `FrameAllocator` |
| `FramePoolProofs` | theorems for regions that do not touch, or one CPU; the refinement of `FramePool` among them | extends `FrameAllocatorProofs`, `NaturalLemmas` |
| `Heap` | abstract heap: allocations that never overlap or move | |
| `Liballoc` | liballoc.c: tags, lists, malloc, free, realloc | implements `Heap` (`ImplementsHeap`) |
| `LiballocProofs` | theorems, the refinement of `Heap` among them | extends `Liballoc`, `NaturalLemmas` |
| `PageTable` | PageTable.cpp: alloc_vm, map, and free_vm as far as it gets | |
| `PageTableProofs` | theorems | extends `PageTable`, `NaturalLemmas` |
| `Process` | Process.cpp and KernelController's lock on several CPUs | extends `SpinLock`, whose properties are checked of its use here |
| `ProcessProofs` | theorems | extends `Process`, `SpinLockProofs` |
| `Console` | gfx_text.cpp: the screen, the cursor registers, kprintStr | |
| `Interrupts` | idt.cpp, interruptions.asm and the devices they serve | extends `Console` |
| `MemoryMap` | memory_maper.asm and the loop of loadMemoryInformation that reads its table | |
| `Boot` | boot sector, long mode, _start, kmain, main | extends `Interrupts`, `MemoryMap` |
| `Keyboard` | stdio.cpp: keyboard, getChar | |
| `Machine` | the machine: `Boot` and `Keyboard` together, and fairness | extends `Boot`, `Keyboard` |
| `MCMachine` | texts, messages and machines for TLC | extends `Machine` |
| `MachineProofs` | theorems | extends `Machine`, `NaturalLemmas` |

### SpinLock
`word` is the bit, `pc[c]` the next instruction of CPU c that reads it: "out",
"bts" (the locked instruction), "spin" (the pause loop), "held" (inside), and
"trybts" for tryAcquireLock, which no file of the repository calls
(`TryNext`, checked on its own). EAX is what tryAcquireLock forgets to set: `EaxValues` are
the contents it may have on entry.

### FrameAllocator
An action is a stretch of code between two lock operations or two unlocked
reads of shared state; `pc[c]` names where CPU c is and `loc[c]` holds the
locals of its call, the activations of the recursive list_push included
(`path`, `cur`). A section under lock[0] contains nothing that blocks and is
one action. lock[1] and liballoc's lock are variables, because they are held
across calls. A list node is known by the region it was allocated for.

Of the heap, this module has what the allocator can notice: its lock, the
frames a new block takes (`BlockFrames`, chosen freely: 16 pages and the page
tables missing for them), and the number of whole free blocks standing by
(`complete`). Two facts about the heap are used and checked in `Liballoc`:
a 24-byte list node never fits a free tag of its class, so each addMemorySpace
that needs a node takes a new block (`SmallRequestsGetNewBlocks`), and freeing
that node makes its block whole. Other kernel code calls malloc and free
(`ClientMalloc`, `ClientFree`) for blocks that are new or become whole; calls
served from tags in place change nothing here. Requests are smaller than
32 KiB, as those of all callers in the repository, so that a block is 16 pages.

Labels without a step out of them are code that never returns: "panic" (the
kernel's panic), "freeHead" (loadBuffer calls kernel_free under liballoc's
lock) and "selfLock" (kernel_free gives a block back, addMemorySpace calls
kernel_malloc, also under that lock).

### Liballoc
Addresses and sizes are in units of 8 bytes. `tag` maps the address of each
boundary tag to the C struct; `l_freePages` and `l_completePages` are the
arrays of those names. Each public call is one section under the lock and one
action; kernel_realloc is two, as in the code. The functions of the file are
operators from heap to heap, composed as the code composes them; the two loops
of kernel_free are functions of the number of rounds (`LeftRounds`,
`RightRounds`), and the walk through a list one of its length (`NthFree`).
liballoc_alloc is external (`Gaps`: the first gap, as `WindowCompact` of
`PageTable` shows for alloc_vm), and liballoc_free is a stop, because that is
what `FrameAllocator` and `PageTable` show of it. The code passes a size_t on as
an unsigned int and compares remainders as ints; the model computes with the
numbers themselves, and `WidthAssumption` limits the requests to those whose
block is below 2 GiB, where that is the same. kernel_realloc does not test its
kernel_malloc for NULL: `ReallocMalloc` may obtain NULL, and a copy of
something to it (`CopyFaults`) is a page fault, after which that call goes no
further while others go on. kernel_calloc has no caller.

### PageTable
An entry is named as the recursive mapping addresses it: <<level, linear
index>>. That makes the code's index arithmetic visible: the last index of a
lookup is added (and may be 512: it then names the next table's first entry),
the others are shifted and combined with OR (`Shl`). `Probe` is
_getEntryLevel, `Search` the loop of alloc_vm over the `Positions` it may stand
at, with `At` and `Advance` for its carries, `Found` its result; `Missing` and
`Created` are map. `InWindow` is a bound: requests that end inside the window,
so that the search never stands at z = 512, where the code would read the
recursive mapping's own entries.

The heap makes every call of alloc_vm and free_vm, under its own lock, so that
calls do not overlap. It also decides what `FreeVm` is. unmap clears the first
page's entry and calls addMemorySpace with its frame, before it looks at the
next page. A single page is never buffered (FrameAllocator.cpp:75), so
addMemorySpace calls kernel_malloc, and that waits for the lock which
kernel_free, the caller, holds. free_vm therefore ends there: one page unmapped,
its frame in the allocator's hands and not in its lists (`taken`). The lines of
unmap behind that call are never reached and are in no action.

`stopped` says why a call did not return: "alloc fault", alloc_vm reads through
a missing table (the page-fault handler is an endless loop); "no frames",
allocate() does not return, in the middle of map; "self lock", as above.

### Process
`at[c]` is the statement CPU c is about to execute, `this[c]` the object.
`Lock` runs acquireLock instruction by instruction (`Bts`, `SpinTest` of
`SpinLock`), the increment of the volatile counter is a load and a store
modulo `UidLimit`, and the array's growth is the two heap calls inside
kernel_realloc, with any other CPU in between; a block may be NULL at either.
`object` is the field values, `held` the heap blocks in use, `given` the pages
the destructor gives to the frame allocator (an address nothing has set).
The ghost `issued` counts uids handed out. No two CPUs run methods of one
object: the class has no lock of its own, and nothing shares an object.

### Console
A character is a string, `nl`, `esc` and `nul` the control characters; a colour
is a record. `call` holds the locals of the running kprintStr and `out` those of
its kprintChar; `at` is its next access to the screen or a port. `Loop` is one
round of the while loop up to the first access, `Escape` all branches of
"case '\033'", by the number of characters that match (`Matched`), and
`Wrapped` the two tests at the end. `KeyPrinted` is the handler's own
kprintChar, which runs with interrupts off. `Shows` says, for each text of a
run, which characters should appear: the properties compare the screen with it.

### Interrupts
`cpu` is the interrupt flag, what IDTR points to and the running handler; `pic`
the requested and the served lines, and whether all are masked. The two
cascaded controllers are one, since the code treats them alike. `Tick`, `Press`
and `Stray` raise lines, `Enter`, `ReadKey` and `EoiIret` are the handlers in
two parts each; vectors without a gate end in the endless loop of exception 11.
A lost edge is the controller's choice in `remap_irqs`.

### Boot
`pc` is the next statement of the program from the disk read to the system
call. `env` says what machine it is, once: what the disk answers, whether A20
is on at power-up, what the byte at 1 MB holds, what the CPU supports,
EFLAGS.ID, whether a line without a handler is raised, what main() does, and
whether the compiled getChar reloads its counter. `KbcTakes` is the keyboard
controller taking a byte in its own time: WaitKBC gives up after 65,535 polls,
so a byte may meet a controller that is still busy and be lost.

### MemoryMap
`table` is the memory from 0x7E000 on in entries of 24 bytes, `slot` the entry
DI points to and later the one `mem` points to, `added` the regions
addMemorySpace got. The loader and the kernel share nothing but addresses: the
loader's first entry is at +24 because DI goes on before the call, and nobody
stores an end. `env.map` and `env.ends` are what the BIOS answers: EBX is 0 with
the last entry, or with the error after it, or never (the boot then loops).
Entries nobody wrote are taken to be zero. The step from `added` to the buffer
and the list is `FrameAllocator`'s `BootSpec`.

### Keyboard and Machine
Characters are numbered in the order they are typed, so that the ring shows
which is older. getChar's round is its three reads (`Test`, `Aux`, `Pick`);
keyboard() is one step, because it runs with interrupts off. `Machine` lets a
main() that reads characters run on the booted machine; no file of the
repository has one yet.

## 3. Runs

Deadlock checking is off in the runs of all modules but `SpinLock`: the system
may come to rest (all regions added, all calls used, the boot at its endless
loop), and the stops above are real ends.

| Run | Bounds | What it shows |
|---|---|---|
| `kernel_lock` | `Process`: 3 CPUs, 3 objects, 2 heap blocks, 3 uids, no constructor starts after 2 have their uid, 2 threads | refinement of `Mutex` (mutual exclusion with it), some waiter always enters; uids are unique, thread arrays neither shared nor leaked |
| `spinlock_try` (violation) | 2 CPUs, EAX as callers leave it | tryAcquireLock reports success for a lock that is held |
| `frames_one_cpu` | 5 regions in any order, buffer 4+1, 2 client calls, 2 whole blocks standing by | between calls the list is sorted, no region is lost, no byte is unaccounted for; at every step each page is in one place and the step is one of `FramePool` |
| `frames_two_cpus` | 2 CPUs, 2 regions, 2 client calls | buffer neither overflows nor underflows, every call ends or stops for good: lock[1] and the heap lock are never waited for in a circle |
| `frames_boot` | the kernel's constants (4096, 64+16, 5), 3 regions, 1 CPU | the boot adds them all, whatever the heap needs |
| `frames_race` (violation) | 2 CPUs, 5 touching regions added in a given order | a page gets into two nodes of the list, and can be handed out twice |
| `frames_self_wait` (violation) | 1 CPU | a CPU waits for the heap lock it holds |
| `heap` | pages of 256 bytes, blocks of 3 pages, 9 pages, 4 allocations, requests of 0, 64 and 512 bytes | tags tile, no two free neighbours, lists and counters exact, refinement of `Heap` |
| `page_table` | tables of 4 entries, 32 frames, blocks of 1, 3 and 6 pages | frames counted, pages mapped exactly while held, no free page left behind, faults only at the end of a table |
| `page_table_full` (violation) | blocks of 2 pages | alloc_vm faults on full tables |
| `machine` | screen of 3 by 2, registers of 4 values, ring of 2, 3 characters, one scan code sent twice; three memory maps; a sound machine and every machine with one defect | the kernel is entered prepared, interrupts never find the empty IDT, the memory map reaches the allocator, prints are as written and in bounds, the cursor holds what it may, keys are displayed, getChar is fresh and returns, a sound machine reaches the end of main() |
| `boot_disk_error` (violation) | the same | a failed disk read does not stop the boot |

Why the bounds are enough. The allocator's decisions compare the counter with
the buffer size and its half, a size with a page, and two bases. A buffer of 4
with 1 extra slot passes through below half, half, full and over-full. The
regions of `frames_one_cpu` are one that overflows the buffer, single pages
that touch it and each other on either side, one that ends inside a page and
one smaller than a page: a region of more than a page loses its first pages to
the buffer while there is room, so only these shapes of merge arise. Region
bases are page-aligned. `MaxCalls` bounds the client calls, `Word` is a power
of two above every address, so that only a wrap of the code's own arithmetic
would wrap. In `frames_two_cpus` each CPU meets the other at every pair of
labels; 380,000 states.
`frames_race` only has to reach its violation: the constraint `RaceOrder` picks
the order in which the regions are added. In `heap` four allocations give a tag two neighbours on
each side, and 9 pages give three blocks, so that with two standing by the
third is given back. In `page_table`, 32 frames map 23 pages: six page tables
under two directories, so that both carries of alloc_vm and blocks across a
table, across two tables and across a directory occur, memory runs out at many
points half-way through map, and every block that can be held is given back in
some behaviour. `InWindow` never bites at this size. In `kernel_lock` two CPUs wait
while the third is inside, three constructors can get a uid (the third starts
while fewer than two have theirs), so the counter of three wraps once; two heap
blocks run out at every point of an array's growth. In `machine` a text longer
than the rest of a row and of the screen wraps both ways, escape sequences break
off at every place, a position takes both registers, the ring overflows while
getChar looks at it, and a key is pressed at every moment from power-up to the
end, the second as soon as the first has been read, before its interrupt is
acknowledged included. The memory maps are one region, four entries in no order
with low and reserved memory among them, and one with an empty entry in it.

## 4. Properties

Each is stated, with the behaviour it is about, at the end of its module. The
ones that carry most:

* `EveryPageOnce`, `NoRegionLost`, `MemoryAccounted` and `ImplementsFramePool`
  relate buffer, list, handed-out frames and what was added. On several CPUs
  they hold as long as no two nodes are merged (proved), not after
  (`frames_race`).
* `FrameBufferInBounds` and `NoUnderflow`: the counter is tested without a lock
  in addMemorySpace and allocate. The first holds thanks to the extra slots,
  the second only because every caller of allocate holds liballoc's lock.
* `CallsEnd`: the call tree takes lock[1] and liballoc's lock in both orders.
* `ListsExact`, `TagsTileBlocks`, `CompleteExact`: the three structures of the
  heap agree with each other after any sequence of calls.
* `ScreenIsText`: whatever a key or the timer interrupts, the screen shows the
  string; `CursorMixes` says exactly how far the cursor may deviate: each byte
  may be the program's or the key's, except that a key's high byte never stands
  beside the program's low one.
* `KeysDisplayed`: reading port 0x60 and acknowledging are needed for every later
  key; `EntersPrepared`: however slow the keyboard controller is with its two
  bytes, the one check of A20 stops the boot or the line is on.
* `MapHandedOver`: the loader's table and the kernel's walk agree for every order
  of entries and every end of the list.
* `UidsUnique` and `ArraysOwned` relate the objects, the CPUs' locals and the
  heap blocks.
* `WindowCompact` and `FaultsOnlyAtTableEnd`: alloc_vm may stand on index 512 of
  a table or a directory; still it passes over no free page, and it faults in
  exactly one situation. Like `MappedIsHeld` they are stated below the third
  directory, that is, while the heap is below 2 GB (see section 6).
* `FramesCounted` and `MappedIsHeld` say what is left of the tables by a map()
  or an unmap() that does not return.

Every property of a passing run is accompanied by a mutated definition, placed
right before the definition it changes and named in its comment, under which
the run finds the property violated.

## 5. Fairness

`FairSpec` of `FrameAllocator`: weak fairness of `Step(c)` for each CPU, that
is, a CPU inside a call executes its next instruction if that stays possible.
Interrupt handlers end, so this is what the hardware gives. A CPU waiting for a
lock is only promised it if it stays free: acquireLock is not first-come
first-served, and `SomeWaiterEnters` promises entry to somebody, not to each.
Nobody is obliged to start a call, except in `BootSpec`, where
loadMemoryInformation's loop goes on to the next region. With two CPUs, both
locks and bounded calls, weak fairness suffices for `CallsEnd`, since the
number of calls that could overtake a waiter is bounded by `MaxCalls` and the
regions. `SpinLock` assumes the same of its instructions, and that a holder
releases. In `ProcFairSpec` it is only that a CPU inside a method goes on with
it: that a holder releases then follows from the constructor's code.

`FairSpec` of `Machine`: the handlers and the timer's entry are weakly fair,
since nothing interrupts or precedes them. The program is strongly fair: ticks
disable it again and again, but the timer's period (55 ms, as the BIOS leaves
it) is far longer than its handler, so instructions get executed in between;
for the same reason the keyboard's line is served although the timer's is more
urgent. Devices promise nothing: no key need be pressed, no tick need come, and
the keyboard controller need never take a byte.

## 6. Findings

1. tryAcquireLock's final test reads the flag of another instruction
   (`spinlock_try`, atomic.asm:25).
2. list_push releases lock[1] to free an absorbed node in the middle of its
   recursion, and goes on with the nodes it was called with. Another CPU may
   meanwhile absorb and free the very node it stands on, and that node is then
   linked again: a page is in two nodes, and is given out twice
   (`frames_race`, FrameAllocator.cpp:28). A node linked meanwhile may also be
   overwritten and lost. It needs two CPUs in addMemorySpace and regions that
   touch: without either it is harmless (`FramePoolProofs`).
3. When the list runs dry, loadBuffer frees a node while its own CPU holds
   liballoc's lock and waits for itself, before "no frames" can be reported
   (`frames_self_wait`, FrameAllocator.cpp:53). The same wait is reached from
   kernel_free when a sixth whole block of a class becomes free: unmap returns
   single pages, which addMemorySpace never buffers, so it asks the heap for a
   list node (label "selfLock", and `FreeVm` of `PageTable`, which ends there
   with one page unmapped). The run stops at the first of the two.
4. alloc_vm carries only for x > 512: when the pages in use end exactly at the
   end of a page table (32 blocks of 16 pages), it reads the next, missing,
   table (`page_table_full`, PageTable.cpp:86).
5. The boot sector tests for a failed disk read with "or ax,ax", which clears
   the carry flag the BIOS reports the failure in; the error code makes AX
   non-zero, so neither jump stops the boot (`boot_disk_error`, boot.asm:21).

Seen while modelling, and left as they are in the models: what unmap does behind
its first addMemorySpace is never reached (finding 3). Were it reached: its inner
loops restart at the first page's indices (PageTable.cpp:112-114), so that a
block in two tables loses the wrong pages; it looks at the rest of a table
through an entry it may just have erased (line 123); and each addMemorySpace may
come back into alloc_vm on the same, half-erased, window.

alloc_vm may also stand at y = 512 behind the last table of a directory; `z<<9|y` (PageTable.cpp:3, 80, 89) is then the first
table of the next directory if z is even, but for an odd z the bit is already
there: from the second directory's end on, above 2 GB of heap, alloc_vm reads
and returns a page of that directory's own first table, in use or not. Found by
TLC with enough frames, once the proof about alloc_vm's search asked for it; the
properties say `BelowThirdDirectory`. CheckCPU compares the toggled EFLAGS with ECX
instead of with the old value (kernel_64.asm:16), so a machine whose BIOS leaves
the ID bit set hangs (`env.id`). getChar at -O1 is an endless loop
(`env.reloads`). The page-fault handler is called with an arbitrary RDI as the
error code (interruptions.asm:28). memory_types (pagination.cpp:62) has a name
for types 0 to 5 only.

## 7. Proofs

All theorems are for every value of the constants under the named assumptions;
TLC evaluates those assumptions in every run.

`SpinLockProofs`. The inductive invariant is `LockInv` = types, mutual
exclusion and "the bit is set iff somebody is inside": exclusion alone is not
inductive, because bts looks only at the bit. From it `SpinLockExcludes`, and
`SpinLockRefines`: each instruction is a step of `Mutex` or a stutter.

`FrameAllocatorProofs`, part 1. `BufferInv` strengthens the two buffer
properties by (a) a CPU at a label below kernel_malloc holds liballoc's lock,
and (b) qtd_buffer + |Adding| <= MaxBuffer - 1 + |CPUs|, where Adding are the
CPUs between the unlocked test and the increment. (a) gives
`AllocateNeverUnderflows`: between test and decrement nobody else can
decrement. (b) is preserved because a CPU enters Adding only when the counter
is below MaxBuffer and at most |CPUs| are in it; with `SlackAssumption`
(|CPUs| <= Slack + 1, MaxBuffer + Slack < 256) it gives `SlackSuffices`: with
16 extra slots, up to 17 CPUs may add at the same time.

Part 2. `TypeCorrect`. The types need to know what each label promises about
the locals (`LocalsOK`: the node in hand at "unwind" is not null, a region at
"fillAdd" is larger than a page, ...) and that the head node is not taken away
while lock[1] is held. Node sizes are integers there, not naturals: that they
never become negative needs the order of the list, which is false on several
CPUs.

`ProcessProofs`. A step of `Process` is a step of `SpinLock` or leaves its
variables alone (`ProcessUsesSpinLock`), so exclusion and the refinement of
`Mutex` carry over (`ProcessKeepsMutex`). `ProcInv` adds that a CPU is between
lock() and unlock() exactly while it holds the lock, that nobody else has its
object, that between load and store its register is the counter, and that the
counter is `issued` until the limit with every uid below it: uniqueness alone
says nothing of the counter. From it `ProcessTypeCorrect` and `UidsNeverShared`.
`ArrayInv`, on top of it, says which statement owns which block, and gives
`ArraysAlwaysOwned`. No bound of the run (`MaxIssued`, `MaxThreads`) is used.

`MachineProofs`. `RingInv` fixes the whole ring (slot i holds the character typed
i before the last) and that getChar's difference is positive and not ahead of
the counter; freshness alone is not inductive, because the slot is read after
further keys may have moved the ring: `GetCharAlwaysFresh`. `PrepInv` says for
each stage of the boot which IDT is loaded, whether lines are masked and
interrupts off, and what has been checked; it is preserved by every device and
every handler: `AlwaysEntersPrepared`, `NeverTripleFaults`.

`MachineProofs`, the console. `EscapeInString`: wherever an escape sequence breaks off, s ends
on a character of the string; `WrappedOnScreen`: any x and y come back to the
screen. `PrintInv` adds the types of the locals, and that a kprintStr that has
started has a cell in `out`; the rows the memory map is printed in are naturals
(`SlotStep`): `AlwaysPrintsInBounds`, for every screen and text. `CursorInv`
says what the selected register and the two bytes may be at each access of the
program, the handler's own setCursorPosition being one step:
`CursorAlwaysMixes`.

`MachineProofs`, the screen. `ScreenIsText` compares the screen after a call
with what a terminal would draw; in between there is nothing to compare it with,
so `TextInv` says how far the call is: the symbols and sequences of some number
of rounds have been taken from the string (`After`), the cell and the colour are
those a terminal would have come to, and drawn on the screen the call found
(`before`) they give the screen, except that the cell kprintChar is at has not
got its character, or its colour, yet (`Pending`); the cell of IRQ 1 is left
out. Two indices that wrap (`Wrapped`) come to the cell a ring would come to
(`WrapsAlike`), and a string is over after at most as many rounds as it has
symbols (`MeaningIs`). `Meaning` and `Drawn` are recursive functions; that they
grow with the text one character at a time is `DrawnAppend`, by `SetInduction`.
`ScreenAlwaysText` assumes that `Shows` gives each string its `Meaning` on
kmain's colours (`ShowsMeaning`). `Meaning` takes an escape sequence the way
`Escape` does, so that theorem says of sequences only that their effect is the
same at every place of a string, of the screen and among interrupts. That the
two sequences the kernel's texts use set and reset the colour is
`SequencesSetColors`; what those that break off should mean is written out in
`MCShows`, and `MCMachine` has TLC compare it with `Meaning`
(`MeaningAssumption`). TLC checked `TextInv` under the constants of
`machine` before it was proved.

`MachineProofs`, continued. `MapInv` says at each step of the boot loader's loop
which slots of the table hold which entries, and at each step of the kernel's
walk that `added` is what is usable among the entries passed (`UsableAmong`, a
function whose existence `RecursiveFunctionExists` gives):
`MapAlwaysHandedOver`, for maps of any length.
`MachineTypeCorrect` collects the types of the devices and of the above.

`NaturalLemmas`. `SetInduction` is induction for a set of numbers in place of a
predicate, so that no operator parameter is needed; from it: the value a
recursive function has (`RecursiveFunctionExists`), the result of a recursion
that walks from place to place with a falling rank (`WalkFunctionExists`,
`WalkStops`), and what a CHOOSE-based sum over a set of disjoint sets counts
(`UnionSum`). `SumsUp` is the recursion MapThenSumSet unfolds to.

`PageTableProofs`. `EntryInv` = `TypeOK`, `FramesCounted`, "the top level is one
entry" and `Backed` is inductive. `Backed` says that every block still has its
first page, which is why free_vm always gets a frame to wait with; that map
creates as many entries as frames are left needs the entries' order of creation
(`Turn`) to be one-to-one, which `BeforeGrows` gives. The search is a walk
(`IsWalk`): each round moves to a higher page number, and what it finds in use
lies below `Limit`; so it ends, with a page or a fault (`PageTableTypeCorrect`,
`FramesAlwaysCounted`). For what it finds, `ShapeInv` says that the first
directory is the first to exist, that there are no more than two, and that page
tables keep their entry 0; then every position it comes to is `Standing`: the
page before is in use, and no large enough run begins before. A probe from
there tells the truth (`StandingProbe`), so the block found is free
(`MappedAlwaysHeld`) and begins right behind a page in use; and as map creates
pages in their order (`CreatedPrefix`), the pages in use stay the first ones
(`WindowAlwaysCompact`). With that, the only missing table a search can come to
is the one behind a full one (`OnlyTableEndFaults`). `MappedIsHeld` needs
`ShapeInv` but not `WindowCompact`; the last theorem needs both. TLC checked
each of these properties in `page_table` before it was proved.

`FramePoolProofs`. The condition is `SafeMap`: either no two regions touch
(`RegionsApart`), and then the theorems hold for any number of CPUs and every
interleaving, or there is one CPU, as the boot starts it, and the regions need
only be disjoint (`RegionsDisjoint`). That either is enough, and that one of
them is needed, is finding 2: two CPUs lose and double pages only where nodes
are merged. `PoolInv` has these parts:

* `Places`: every buffered page, node and region in hand is a run of whole
  pages, none has a page in common with another, and a node that is emptied but
  still linked lies right behind a page that was given. `Kept`: free and
  handed-out pages together are all pages given.
* `Hand`: what a CPU holds at each label. `Owners`: no two CPUs hold the same
  region's node while it is not linked.
* `Tails`: if regions do not touch, a node ends where its region does, so that
  list_push never finds two to merge (`NeverReaches`), and the labels between
  merging and taking lock[1] again are not reached.
* `Whole`: while no CPU is inside list_push, the list from avaliableMemory is
  exactly the nodes that were linked (`Placed`), in rising order. `InOrder`: for
  the CPU inside, those on list_push's path and then those from its node on.

None is inductive alone: merging subtracts addresses, and keeps sizes right only
if the list is sorted; the list stays sorted only if the runs are disjoint; the
list is whole again at the end of list_push only if nobody else changed it. With
several CPUs the last is lock[1]'s doing, as long as it is not released in
between (`PusherAlone`: a CPU inside list_push holds it, and all others are
outside); with one CPU there is nobody to change it. That the other CPUs are not
disturbed is shown once for all actions (`StepOthers`, `OtherHands`,
`OrderKept`).
`Arranged` describes a list by a function from positions to nodes; one lemma
for each thing the code does to a list (`InListLink`, `InListUnwind`,
`InListAbsorb`, ...), then one for each group of actions, then `PoolInvStep`,
which also gives the step of `FramePool` each one is: `FramePoolImplemented`.
`PagesAlwaysOnce` and `MemoryAlwaysAccounted` count pages by `UnionSum`; the
latter needs regions that begin at a page (`RegionsAligned`), because
setupPagination counts a size that addMemorySpace rounds off. `NthNode`, the
recursive walk of the properties, is identified with `Arranged`'s function by
`SetInduction`: `ListAlwaysSorted`, `RegionsNeverLost`. TLC checked `PoolInv`
as an invariant under the constants of `frames_one_cpu`, and with two CPUs and
three regions that do not touch, before it was proved.

The regions of `RegionsApart` are those of the memory map, as BIOS maps with
reserved memory between usable entries have them. Pages that unmap gives back
would touch their neighbours, but none gets as far as the list (finding 3).

`LiballocProofs`. All but the last theorem assume `LiballocAssumption` only, and
speak of the code for the requests of `WidthAssumption`. `IInv` says of the
heap that it is `Good`, that no two moves of kernel_realloc share an
allocation (`Moves`), and, unless a call never returned, that clients hold
exactly what is in use (`Holds`). `Good` is `Sound` and what holds only between
calls. `Sound` is: tags tile (`Tiled`), no two have an address in common
(`Apart`; tiling alone does not exclude a block inside another), free tags are
linked both ways (`Linked`), and every set of tags that cannot be left by
following a list contains all tags of its class (`Reached`; links alone do not
exclude a ring that no head leads to). `Reached` says this without counting, so
that it is preserved by one insertion or removal at a time; that the walk ends
after as many steps as there are tags follows at the end, from the function of
the first steps being one-to-one (`WalkVisitsAll`). `Good` adds `Classed`,
`Coalesced` and `Counted`. `Coalesced` makes the loops of kernel_free simple:
the neighbour of a free tag is in use, so each loop rests after one round
(`LeftRoundsRest`, `RightRoundsRest`), however many rounds are allowed; and it
is kept because the right neighbour of a tag in hand is in use when its excess
is cut off (`ShapeGood`). Each function of the file first gets a relation that
says field by field what it changes (`RemovedIs`, `InsertedIs`, `MeltedIs`,
`CutIs`, ...), then a lemma that it keeps the heap sound, then `MallocGood` and
`FreeGood` put the calls together. From `HeapInvariant` follow
`HeapImplemented`, `HeapTypeCorrect`, `TagsAlwaysTile`, `FreeTagsAlwaysApart`,
`ListsAlwaysExact`, `WholeBlocksCounted` and `HeldAlwaysTagged`. TLC checked
`IInv`, `Reached` included, under the constants of run `heap` before it was
proved. `SmallAlwaysNewBlock` also needs `QuantumAssumption` (a tag of at least
two quanta, here 48 and 16 bytes): a free tag of class e exceeds its own header
by less than 2^(e+1) (`ClassSpan`), and what is asked for is the request and a
second header (`SmallNeverFits`). The powers of two are a recursive function
(`Bit`) because no installed prover knows more of `^` than its name.

What is only model-checked:

* Everything temporal beyond safety (`CallsEnd`, `BootCompletes`,
  `SomeWaiterEnters`, `BootEnds`, `KeysDisplayed`, `GetCharReturns`): liveness
  and ENABLED are out of the prover's reach.
* What escape sequences that break off should mean: the texts of `MCShows`.

## 8. Not modelled, and why

* The contents of memory: frames that become page tables are assumed to be
  zero. The code does not clear them.
* What unmap does behind its first addMemorySpace, which it never gets to
  (`PageTable`); the TLB, which it does not flush.
* Requests to the heap whose block is 2 GiB or larger: sizes and remainders are
  then cut to 32 bits (liballoc.c:306, 331, 357). A first memory region smaller
  than the heap block its own list node needs, about 20 pages.
* kernel_malloc returning NULL to the frame allocator (address space of 512 GB
  exhausted).
* Unaligned region bases, which BIOS memory maps do not contain for free
  memory above 1 MB.
* Set-up that only fills tables: the first page tables, the GDT, segment
  registers, SSE. getRealAddr and
  freeMemory's other callers only print.
* What the compiler decides: which functions keep locals in the red zone, which
  the handlers' pushes overwrite (the kernel is built without -mno-red-zone),
  and whether getChar reloads its counter (a choice in `env`).
* The page-fault handler's and exceptions' texts; they end in endless loops and
  are stops of the models. setTimer, the trap and task gates, the cursor's
  shape and read-back, kernel_calloc: nobody calls them. kprintnum's digits.
* Vendored code: the musl headers under include/libc and the binaries under
  lib/libc are about nine tenths of the repository's lines; they are
  declarations, and the kernel uses few of them. The share of all lines that
  the models stand for is small for that reason.

## 9. Plan

Written, in this order: spinlock; frame allocator with the heap's lock; heap;
page tables; processes; console, interrupts, boot, memory map and keyboard as
one machine.
Left:

1. unmap as a whole, should free_vm be called without the heap's lock or
   addMemorySpace not need the heap: alloc_vm would then run inside it.
2. kprintStr's callers on several CPUs, should the kernel start more than one:
   the screen has no lock.
