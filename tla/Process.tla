------------------------------ MODULE Process ------------------------------
(***************************************************************************)
(* Process.cpp on several CPUs: the constructor takes a uid under the lock *)
(* of the KernelController (KernelController.cpp:14-19, which is the       *)
(* spinlock of SpinLock.tla) and then grows its thread array on the heap   *)
(* outside it; addThread grows it again; the destructor gives things back. *)
(* No CPU runs a method of an object another CPU is building or using:     *)
(* Process has no lock of its own, and no code shares a Process.           *)
(***************************************************************************)
EXTENDS SpinLock

CONSTANTS
  Objects,     (* memory for Process objects                                *)
  Arrays,      (* heap blocks a thread array may be given                   *)
  NoArray,     (* the NULL pointer                                          *)
  Pages,       (* what the field l4_pointer, never written, may contain     *)
  UidLimit,    (* the values of the uint32 __GLOBAL_UID: 2^32 in the code   *)
  MaxIssued,   (* bound: no constructor starts once this many have their uid *)
  MaxThreads   (* bound: no addThread on an object that has this many       *)

ASSUME ProcessAssumption ==
  /\ NoArray \notin Arrays
  /\ Objects # {}
  /\ UidLimit \in Nat \ {0}
  /\ MaxIssued \in Nat
  /\ MaxThreads \in Nat \ {0}

VARIABLES
  __GLOBAL_UID,  (* the counter, volatile                                   *)
  at,            (* per CPU: the next statement of the method it runs       *)
  this,          (* per CPU: the object of that method                      *)
  reg,           (* per CPU: the register between the load and the store of *)
                 (* __GLOBAL_UID++, and the new block inside kernel_realloc *)
  object,        (* per object: its life, uid, size_threads and threads     *)
  held,          (* the heap blocks in use as thread arrays                 *)
  given,         (* pages the destructors gave to the frame allocator       *)
  issued         (* history: how many uids were handed out                  *)

(* A finished method leaves nothing in these: what they held is dead.      *)
AnyObject == CHOOSE o \in Objects : TRUE

procVars == <<__GLOBAL_UID, at, this, reg, object, held, given, issued>>

Lives == {"absent", "new", "numbered", "live", "dead"}

Statements == {"idle", "lock", "load", "store", "unlock", "malloc", "grow",
               "free", "drop", "fault"}

ProcInit ==
  /\ Init
  /\ __GLOBAL_UID = 0
  /\ at = [c \in CPUs |-> "idle"]
  /\ this = [c \in CPUs |-> AnyObject]
  /\ reg = [c \in CPUs |-> 0]
  /\ object = [o \in Objects |->
                 [life |-> "absent", uid |-> 0, size |-> 0, threads |-> NoArray]]
  /\ held = {}
  /\ given = {}
  /\ issued = 0

Goes(c, from, to) == at[c] = from /\ at' = [at EXCEPT ![c] = to]

-----------------------------------------------------------------------------
(* Process::Process: enter the constructor, call kernel->lock().           *)
Construct(c, o) ==
  /\ Goes(c, "idle", "lock")
  /\ object[o].life = "absent"
  /\ issued < MaxIssued
  /\ Call(c)
  /\ this' = [this EXCEPT ![c] = o]
  /\ object' = [object EXCEPT ![o].life = "new"]
  /\ UNCHANGED <<__GLOBAL_UID, reg, held, given, issued>>

(* Mutant of Lock: the constructor goes on whatever acquireLock has done. *)
LockNotWaited(c) ==
  /\ at[c] = "lock"
  /\ Bts(c) \/ SpinTest(c)
  /\ at' = [at EXCEPT ![c] = "load"]
  /\ UNCHANGED <<__GLOBAL_UID, this, reg, object, held, given, issued>>

(* acquireLock, instruction by instruction; getting in ends the call.      *)
Lock(c) ==
  /\ at[c] = "lock"
  /\ Bts(c) \/ SpinTest(c)
  /\ at' = IF pc'[c] = "held" THEN [at EXCEPT ![c] = "load"] ELSE at
  /\ UNCHANGED <<__GLOBAL_UID, this, reg, object, held, given, issued>>

(* "this->uid = __GLOBAL_UID++" on a volatile: one load, ...               *)
LoadUid(c) ==
  /\ Goes(c, "load", "store")
  /\ reg' = [reg EXCEPT ![c] = __GLOBAL_UID]
  /\ UNCHANGED <<vars, __GLOBAL_UID, this, object, held, given, issued>>

(* Mutant of StoreUid: the counter does not wrap. *)
StoreUidNoWrap(c) ==
  /\ Goes(c, "store", "unlock")
  /\ __GLOBAL_UID' = reg[c] + 1
  /\ object' = [object EXCEPT ![this[c]].uid = reg[c],
                              ![this[c]].life = "numbered"]
  /\ issued' = issued + 1
  /\ reg' = [reg EXCEPT ![c] = 0]
  /\ UNCHANGED <<vars, this, held, given>>

(* ... one store, modulo 2^32, and the old value is the uid.               *)
StoreUid(c) ==
  /\ Goes(c, "store", "unlock")
  /\ __GLOBAL_UID' = (reg[c] + 1) % UidLimit
  /\ object' = [object EXCEPT ![this[c]].uid = reg[c],
                              ![this[c]].life = "numbered"]
  /\ issued' = issued + 1
  /\ reg' = [reg EXCEPT ![c] = 0]
  /\ UNCHANGED <<vars, this, held, given>>

(* kernel->unlock() *)
Unlock(c) ==
  /\ Goes(c, "unlock", "malloc")
  /\ Release(c)
  /\ UNCHANGED <<__GLOBAL_UID, this, reg, object, held, given, issued>>

(* The result of kernel_malloc: a block nobody has, NULL if there is none  *)
(* (Liballoc.tla checks that promise of the heap).                         *)
Mallocs == IF held = Arrays THEN {NoArray} ELSE Arrays \ held

(* "threads = kernel_malloc(0)", a block of no bytes, "size_threads = 0",  *)
(* and on to addThread.                                                    *)
MallocThreads(c) ==
  /\ Goes(c, "malloc", "grow")
  /\ \E a \in Mallocs :
       /\ object' = [object EXCEPT ![this[c]].threads = a,
                                   ![this[c]].size = 0]
       /\ held' = held \cup ({a} \ {NoArray})
  /\ UNCHANGED <<vars, __GLOBAL_UID, this, reg, given, issued>>

(* A later call of addThread on a finished object.                         *)
AddThread(c, o) ==
  /\ Goes(c, "idle", "grow")
  /\ object[o].life = "live" /\ object[o].size < MaxThreads
  /\ this' = [this EXCEPT ![c] = o]
  /\ object' = [object EXCEPT ![o].life = "numbered"]
  /\ UNCHANGED <<vars, __GLOBAL_UID, reg, held, given, issued>>

(* addThread: size_threads++ and the kernel_malloc inside kernel_realloc.  *)
(* Without memory kernel_realloc copies the old threads, if there are any, *)
(* to NULL: a page fault, whose handler never returns.                     *)
Grow(c) ==
  /\ \E a \in Mallocs :
       LET old == object[this[c]] IN
       /\ Goes(c, "grow",
               IF a = NoArray /\ old.threads # NoArray /\ old.size > 0
                 THEN "fault" ELSE "free")
       /\ reg' = [reg EXCEPT ![c] = a]
       /\ held' = held \cup ({a} \ {NoArray})
  /\ object' = [object EXCEPT ![this[c]].size = @ + 1]
  /\ UNCHANGED <<vars, __GLOBAL_UID, this, given, issued>>

(* Mutant of FreeOld: kernel_realloc forgets to free the old block. *)
FreeOldNot(c) ==
  /\ Goes(c, "free", "idle")
  /\ object' = [object EXCEPT ![this[c]].threads = reg[c],
                              ![this[c]].life = "live"]
  /\ reg' = [reg EXCEPT ![c] = 0]
  /\ this' = [this EXCEPT ![c] = AnyObject]
  /\ UNCHANGED <<vars, __GLOBAL_UID, held, given, issued>>

(* kernel_realloc frees the old block, and addThread stores the new one.   *)
FreeOld(c) ==
  /\ Goes(c, "free", "idle")
  /\ held' = held \ {object[this[c]].threads}
  /\ object' = [object EXCEPT ![this[c]].threads = reg[c],
                              ![this[c]].life = "live"]
  /\ reg' = [reg EXCEPT ![c] = 0]
  /\ this' = [this EXCEPT ![c] = AnyObject]
  /\ UNCHANGED <<vars, __GLOBAL_UID, given, issued>>

(* Process::~Process gives the frame allocator one page, at an address no  *)
(* code has ever written into paginatioTable, ...                          *)
Destroy(c, o) ==
  /\ Goes(c, "idle", "drop")
  /\ object[o].life = "live"
  /\ this' = [this EXCEPT ![c] = o]
  /\ object' = [object EXCEPT ![o].life = "dead"]
  /\ \E p \in Pages : given' = given \cup {p}
  /\ UNCHANGED <<vars, __GLOBAL_UID, reg, held, issued>>

(* ... and frees the thread array (kernel_free ignores NULL).              *)
DropThreads(c) ==
  /\ Goes(c, "drop", "idle")
  /\ held' = held \ {object[this[c]].threads}
  /\ object' = [object EXCEPT ![this[c]] =
                  [life |-> "absent", uid |-> 0, size |-> 0, threads |-> NoArray]]
  /\ this' = [this EXCEPT ![c] = AnyObject]
  /\ UNCHANGED <<vars, __GLOBAL_UID, reg, given, issued>>

-----------------------------------------------------------------------------
Step(c) ==
  \/ Lock(c) \/ LoadUid(c) \/ StoreUid(c) \/ Unlock(c)
  \/ MallocThreads(c) \/ Grow(c) \/ FreeOld(c) \/ DropThreads(c)

ProcNext ==
  \E c \in CPUs :
    \/ Step(c)
    \/ \E o \in Objects : Construct(c, o) \/ AddThread(c, o) \/ Destroy(c, o)

ProcSpec == ProcInit /\ [][ProcNext]_<<vars, procVars>>

(* A CPU that is in a method goes on with it. *)
ProcFairSpec == ProcSpec /\ \A c \in CPUs : WF_<<vars, procVars>>(Step(c))

-----------------------------------------------------------------------------
(* Types, of the lock's variables and of the objects'. *)
ProcTypeOK ==
  /\ TypeOK
  /\ __GLOBAL_UID \in 0..(UidLimit - 1)
  /\ at \in [CPUs -> Statements]
  /\ this \in [CPUs -> Objects]
  /\ reg \in [CPUs -> Nat \cup Arrays \cup {NoArray}]
  /\ \A c \in CPUs : at[c] = "free" => reg[c] \in Arrays \cup {NoArray}
  /\ object \in [Objects -> [life: Lives, uid: 0..(UidLimit - 1), size: Nat,
                             threads: Arrays \cup {NoArray}]]
  /\ held \subseteq Arrays
  /\ given \subseteq Pages
  /\ issued \in Nat

Numbered(o) == object[o].life \in {"numbered", "live", "dead"}

(* Until the 32-bit counter has gone round once, two processes that exist  *)
(* at the same time have different uids, on however many CPUs they are     *)
(* being constructed: the increment is two memory accesses and relies on   *)
(* the kernel lock alone (Process.cpp:13-19).                              *)
UidsUnique ==
  issued <= UidLimit =>
    \A o, q \in Objects :
      Numbered(o) /\ Numbered(q) /\ o # q => object[o].uid # object[q].uid

(* The heap blocks in use are exactly the arrays the objects point to and  *)
(* those a kernel_realloc has just obtained, and no two of them coincide:  *)
(* constructing, growing and destroying processes on several CPUs leaks no *)
(* array and shares none.                                                  *)
ArraysOwned ==
  LET Refs == {<<o, object[o].threads>> : o \in Objects}
                \cup {<<c, reg[c]>> : c \in {d \in CPUs : at[d] = "free"}}
      Real == {r \in Refs : r[2] # NoArray}
  IN /\ held = {r[2] : r \in Real}
     /\ \A r, s \in Real : r[2] = s[2] => r = s
=============================================================================
