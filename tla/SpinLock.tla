------------------------------ MODULE SpinLock ------------------------------
(***************************************************************************)
(* The spinlock of asm/funcs/global/atomic.asm, one action per instruction *)
(* that touches the lock word, used by a kernel in which every CPU may run *)
(* acquireLock / releaseLock (all the locks of FrameAllocator, liballoc    *)
(* and KernelController) or tryAcquireLock (exported, called by no file of *)
(* the repository).                                                        *)
(***************************************************************************)
EXTENDS Naturals

CONSTANTS
  CPUs,      (* the processors that contend for one lock word              *)
  NoCPU,     (* refinement only: "no holder"                               *)
  EaxValues  (* what EAX may hold when tryAcquireLock is entered: a subset *)
             (* of {"ones", "other"}, "ones" standing for 0xFFFFFFFF       *)

ASSUME SpinLockAssumption ==
  /\ NoCPU \notin CPUs
  /\ EaxValues \subseteq {"ones", "other"}

VARIABLES
  word,  (* bit 0 of the uint16 the callers pass in RDI      *)
  pc     (* per CPU: the next instruction that reads the bit *)

vars == <<word, pc>>

-----------------------------------------------------------------------------
Init ==
  /\ word = 0
  /\ pc = [c \in CPUs |-> "out"]

Call(c) ==
  /\ pc[c] = "out"
  /\ pc' = [pc EXCEPT ![c] = "bts"]
  /\ UNCHANGED word

(* "lock bts word [rdi],0 / jc": set the bit and look at its old value in  *)
(* one atomic instruction.                                                 *)
Bts(c) ==
  /\ pc[c] = "bts"
  /\ word' = 1
  /\ pc' = [pc EXCEPT ![c] = IF word = 0 THEN "held" ELSE "spin"]

(* Mutant of SpinTest: the loop exits into the caller, not to the retry. *)
SpinTestNoRetry(c) ==
  /\ pc[c] = "spin"
  /\ word = 0
  /\ pc' = [pc EXCEPT ![c] = "held"]
  /\ UNCHANGED word

(* "test word [rdi],1 / jnz .spin_with_pause / jmp acquireLock": while the *)
(* bit is set the loop changes nothing; once it is seen clear, retry.      *)
SpinTest(c) ==
  /\ pc[c] = "spin"
  /\ word = 0
  /\ pc' = [pc EXCEPT ![c] = "bts"]
  /\ UNCHANGED word

(* Mutant of Release: the store to the lock word is missing. *)
ReleaseWithoutStore(c) ==
  /\ pc[c] = "held"
  /\ pc' = [pc EXCEPT ![c] = "out"]
  /\ UNCHANGED word

(* releaseLock: a plain store, by the CPU that is in the critical section. *)
Release(c) ==
  /\ pc[c] = "held"
  /\ word' = 0
  /\ pc' = [pc EXCEPT ![c] = "out"]

(* tryAcquireLock, the unlocked test.  Bit set: ".cant_get: not eax / ret",*)
(* and the caller believes it holds the lock exactly if the result is 0,   *)
(* that is if EAX, which nothing has set, was all ones.                    *)
TryTest(c) ==
  /\ pc[c] = "out"
  /\ \/ /\ word = 0
        /\ pc' = [pc EXCEPT ![c] = "trybts"]
     \/ /\ word = 1
        /\ \E eax \in EaxValues :
             pc' = [pc EXCEPT ![c] = IF eax = "ones" THEN "held" ELSE "out"]
  /\ UNCHANGED word

(* tryAcquireLock, "lock bts / xor eax,eax / jnc .end": the xor clears the *)
(* carry that bts produced, so the jump is always taken and 0 is returned  *)
(* whether or not the bit was already set.                                 *)
TryBts(c) ==
  /\ pc[c] = "trybts"
  /\ word' = 1
  /\ pc' = [pc EXCEPT ![c] = "held"]

-----------------------------------------------------------------------------
(* The lock as the repository uses it: acquireLock and releaseLock only. *)
Next == \E c \in CPUs : Call(c) \/ Bts(c) \/ SpinTest(c) \/ Release(c)

Spec == Init /\ [][Next]_vars

(* A CPU keeps executing instructions, and a critical section ends: those  *)
(* under the kernel's locks are finite straight-line code unless they call *)
(* into another lock (see FrameAllocator).  No CPU is obliged to Call, and *)
(* nothing stronger than weak fairness holds: bts is unordered.            *)
Fairness == \A c \in CPUs : WF_vars(Bts(c) \/ SpinTest(c) \/ Release(c))

FairSpec == Spec /\ Fairness

(* The same lock when some callers use tryAcquireLock. *)
TryNext == Next \/ \E c \in CPUs : TryTest(c) \/ TryBts(c)

TrySpec == Init /\ [][TryNext]_vars

-----------------------------------------------------------------------------
(* Types: the lock word is one bit, every CPU is at a known instruction. *)
TypeOK ==
  /\ word \in {0, 1}
  /\ pc \in [CPUs -> {"out", "bts", "spin", "held", "trybts"}]

Holders == {c \in CPUs : pc[c] = "held"}

(* Two CPUs are never both past the lock: neither two acquireLock callers  *)
(* that race for the bit, nor a waiter that saw it clear and its rivals.   *)
MutualExclusion == \A c, d \in Holders : c = d

(* The bit is set exactly while a CPU is inside; with MutualExclusion, the *)
(* inductive invariant of acquireLock / releaseLock.                       *)
BitMeansHeld == word = 1 <=> Holders # {}

(* The instructions implement the abstract lock of Mutex.tla: ownership    *)
(* passes only through free, and only by the owner's releaseLock.          *)
Holder == IF Holders = {} THEN NoCPU ELSE CHOOSE c \in Holders : TRUE

M == INSTANCE Mutex WITH holder <- Holder

ImplementsMutex == M!Spec

(* While CPUs are waiting, one of them always gets in eventually: the lock *)
(* is never left set by a CPU that has left.  Which one is not promised: a *)
(* single waiter may lose every race (test-and-set order is arbitrary).    *)
SomeWaiterEnters ==
  (\E c \in CPUs : pc[c] \in {"bts", "spin"}) ~> (Holders # {})
=============================================================================
