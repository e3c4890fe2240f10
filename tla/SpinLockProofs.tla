--------------------------- MODULE SpinLockProofs ---------------------------
(***************************************************************************)
(* For any number of CPUs, the instructions of atomic.asm keep the lock    *)
(* exclusive and implement the abstract lock of Mutex.tla.                 *)
(***************************************************************************)
EXTENDS SpinLock, TLAPS

(* The inductive invariant: exclusion alone is not preserved by Bts unless *)
(* a clear bit is known to mean that nobody is inside.                     *)
LockInv == TypeOK /\ MutualExclusion /\ BitMeansHeld

(* No step of acquireLock or releaseLock breaks the lock invariant. *)
LEMMA LockInvStep == LockInv /\ [Next]_vars => LockInv'
<1> SUFFICES ASSUME LockInv, [Next]_vars
             PROVE  LockInv'
  OBVIOUS
<1> USE DEF LockInv, TypeOK, MutualExclusion, BitMeansHeld, Holders
<1>1. ASSUME NEW c \in CPUs, Call(c)
      PROVE  LockInv'
  BY <1>1 DEF Call
<1>2. ASSUME NEW c \in CPUs, Bts(c)
      PROVE  LockInv'
  BY <1>2 DEF Bts
<1>3. ASSUME NEW c \in CPUs, SpinTest(c)
      PROVE  LockInv'
  BY <1>3 DEF SpinTest
<1>4. ASSUME NEW c \in CPUs, Release(c)
      PROVE  LockInv'
  BY <1>4 DEF Release
<1>5. CASE UNCHANGED vars
  BY <1>5 DEF vars
<1>6. QED
  BY <1>1, <1>2, <1>3, <1>4, <1>5 DEF Next

(* Every reachable state of acquireLock / releaseLock satisfies it. *)
THEOREM LockInvHolds == Spec => []LockInv
<1>1. Init => LockInv
  BY DEF Init, LockInv, TypeOK, MutualExclusion, BitMeansHeld, Holders
<1>2. QED
  BY <1>1, LockInvStep, PTL DEF Spec

(* acquireLock never lets a second CPU in (atomic.asm:8-17, 32-34). *)
THEOREM SpinLockExcludes == Spec => []MutualExclusion
<1>1. LockInv => MutualExclusion
  BY DEF LockInv
<1>2. QED
  BY <1>1, LockInvHolds, PTL

-----------------------------------------------------------------------------
(* While a CPU is inside, the abstract holder is that CPU. *)
LEMMA HolderIs ==
  ASSUME MutualExclusion, NEW c \in CPUs, pc[c] = "held"
  PROVE  Holder = c
BY DEF MutualExclusion, Holders, Holder

(* While nobody is inside, the abstract lock is free. *)
LEMMA HolderNone ==
  ASSUME \A c \in CPUs : pc[c] # "held"
  PROVE  Holder = NoCPU
BY DEF Holders, Holder

(* A step that changes no CPU's being inside leaves the abstract holder.   *)
LEMMA SameHolders ==
  ASSUME \A c \in CPUs : pc'[c] = "held" <=> pc[c] = "held"
  PROVE  Holder' = Holder
<1>1. Holders' = Holders
  BY DEF Holders
<1>2. QED
  BY <1>1 DEF Holder

(* Every instruction is a step of the abstract lock, or invisible to it: a *)
(* successful bts is Acquire, the store of releaseLock is Release.         *)
THEOREM SpinLockRefines == Spec => ImplementsMutex
<1>1. Init => M!Init
  BY HolderNone DEF Init, M!Init
<1>2. LockInv /\ LockInv' /\ [Next]_vars => [M!Next]_Holder
  <2> SUFFICES ASSUME LockInv, LockInv', [Next]_vars
               PROVE  [M!Next]_Holder
    OBVIOUS
  <2>1. ASSUME NEW c \in CPUs, Call(c)
        PROVE  Holder' = Holder
    BY <2>1, SameHolders DEF Call, LockInv, TypeOK
  <2>2. ASSUME NEW c \in CPUs, Bts(c)
        PROVE  M!Acquire(c) \/ Holder' = Holder
    <3>1. CASE word = 0
      <4>1. Holder = NoCPU
        BY <3>1, HolderNone DEF LockInv, BitMeansHeld, Holders
      <4>2. pc'[c] = "held"
        BY <3>1, <2>2 DEF Bts, LockInv, TypeOK
      <4>3. Holder' = c
        BY <4>2 DEF LockInv, MutualExclusion, Holders, Holder
      <4>4. QED
        BY <4>1, <4>3 DEF M!Acquire
    <3>2. CASE word # 0
      BY <3>2, <2>2, SameHolders DEF Bts, LockInv, TypeOK
    <3>3. QED
      BY <3>1, <3>2
  <2>3. ASSUME NEW c \in CPUs, SpinTest(c)
        PROVE  Holder' = Holder
    BY <2>3, SameHolders DEF SpinTest, LockInv, TypeOK
  <2>4. ASSUME NEW c \in CPUs, Release(c)
        PROVE  M!Release(c)
    <3>1. Holder = c
      BY <2>4, HolderIs DEF Release, LockInv
    <3>2. \A d \in CPUs : pc'[d] # "held"
      BY <2>4 DEF Release, LockInv, TypeOK, MutualExclusion, Holders
    <3>3. Holder' = NoCPU
      BY <3>2 DEF Holders, Holder
    <3>4. QED
      BY <3>1, <3>3 DEF M!Release
  <2>5. CASE UNCHANGED vars
    BY <2>5, SameHolders DEF vars
  <2>6. QED
    BY <2>1, <2>2, <2>3, <2>4, <2>5 DEF Next, M!Next
<1>3. QED
  BY <1>1, <1>2, LockInvHolds, PTL DEF Spec, ImplementsMutex, M!Spec
=============================================================================
