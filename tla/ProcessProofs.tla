--------------------------- MODULE ProcessProofs ---------------------------
(***************************************************************************)
(* For any number of CPUs, objects, arrays and uids: the constructor uses  *)
(* the kernel lock as SpinLock.tla allows, and hands no uid out twice      *)
(* before the counter has gone round.                                      *)
(***************************************************************************)
EXTENDS Process, SpinLockProofs

(* A step of a Process method is a step of the lock or leaves it alone.    *)
LEMMA LockStep == [ProcNext]_<<vars, procVars>> => [Next]_vars
<1> SUFFICES ASSUME [ProcNext]_<<vars, procVars>>
             PROVE  [Next]_vars
  OBVIOUS
<1>1. ASSUME NEW c \in CPUs, Step(c)
      PROVE  [Next]_vars
  BY <1>1 DEF Step, Lock, LoadUid, StoreUid, Unlock, MallocThreads, Grow,
              FreeOld, DropThreads, Next
<1>2. ASSUME NEW c \in CPUs, NEW o \in Objects,
             Construct(c, o) \/ AddThread(c, o) \/ Destroy(c, o)
      PROVE  [Next]_vars
  BY <1>2 DEF Construct, AddThread, Destroy, Next
<1>3. CASE UNCHANGED <<vars, procVars>>
  BY <1>3
<1>4. QED
  BY <1>1, <1>2, <1>3 DEF ProcNext

(* The constructors call acquireLock and releaseLock as SpinLock's CPUs do *)
(* (Process.cpp:13, 19): whatever holds of the lock holds of theirs.       *)
THEOREM ProcessUsesSpinLock == ProcSpec => Spec
<1>1. ProcInit => Init
  BY DEF ProcInit
<1>2. QED
  BY <1>1, LockStep, PTL DEF ProcSpec, Spec

(* Two constructors are never both between lock() and unlock().            *)
THEOREM ConstructorsExclude == ProcSpec => []MutualExclusion
BY ProcessUsesSpinLock, SpinLockExcludes, PTL

(* The constructors' use of the lock implements the abstract mutex.        *)
THEOREM ProcessKeepsMutex == ProcSpec => ImplementsMutex
BY ProcessUsesSpinLock, SpinLockRefines, PTL

-----------------------------------------------------------------------------
(* A CPU is at a statement between lock() and unlock() exactly while it    *)
(* holds the lock.                                                         *)
InSection ==
  \A c \in CPUs : at[c] \in {"load", "store", "unlock"} <=> pc[c] = "held"

(* No two CPUs run a method of the same object, ...                        *)
OwnObject ==
  \A c, d \in CPUs :
    c # d /\ at[c] # "idle" /\ at[d] # "idle" => this[c] # this[d]

(* ... and how far an object is follows from the statement.                *)
LifeAt ==
  \A c \in CPUs :
    LET life == object[this[c]].life
    IN  /\ at[c] \in {"lock", "load", "store"} => life = "new"
        /\ at[c] \in {"unlock", "malloc", "grow", "free", "fault"} => life = "numbered"
        /\ at[c] = "drop" => life = "dead"

(* Until it wraps, the counter is the number of uids handed out, and so is *)
(* the copy of it in a register.                                           *)
CounterExact ==
  /\ issued < UidLimit => __GLOBAL_UID = issued
  /\ \A c \in CPUs : at[c] = "store" => reg[c] = __GLOBAL_UID

(* Until it wraps, every uid in use is below the counter.                  *)
UidsBelow ==
  issued <= UidLimit => \A o \in Objects : Numbered(o) => object[o].uid < issued

(* The inductive invariant: two uids differ because each was the counter's *)
(* value when it was stored, which needs the lock around load and store.   *)
(* OwnObject and LifeAt: no object counts as numbered before it has a uid. *)
ProcInv ==
  /\ LockInv /\ ProcTypeOK
  /\ InSection /\ OwnObject /\ LifeAt
  /\ CounterExact /\ UidsBelow /\ UidsUnique

LEMMA ModIn ==
  ASSUME NEW n \in Nat, NEW m \in Nat \ {0}
  PROVE  n % m \in 0..(m - 1)
OBVIOUS

LEMMA ModSame ==
  ASSUME NEW m \in Nat \ {0}, NEW n \in 0..(m - 1)
  PROVE  n % m = n
OBVIOUS

LEMMA AnyObjectIn == AnyObject \in Objects
BY ProcessAssumption DEF AnyObject

LEMMA ProcInvInit == ProcInit => ProcInv
<1> SUFFICES ASSUME ProcInit
             PROVE  ProcInv
  OBVIOUS
<1>1. LockInv
  BY DEF ProcInit, Init, LockInv, TypeOK, MutualExclusion, BitMeansHeld, Holders
<1>2. ProcTypeOK
  BY <1>1, AnyObjectIn, ProcessAssumption
     DEF ProcInit, ProcTypeOK, LockInv, Statements, Lives
<1>3. InSection /\ OwnObject /\ LifeAt
  BY DEF ProcInit, Init, InSection, OwnObject, LifeAt
<1>4. CounterExact /\ UidsBelow /\ UidsUnique
  BY DEF ProcInit, CounterExact, UidsBelow, UidsUnique, Numbered
<1>5. QED
  BY <1>1, <1>2, <1>3, <1>4 DEF ProcInv

(* No step of any method breaks it.                                        *)
LEMMA ProcInvStep == ProcInv /\ [ProcNext]_<<vars, procVars>> => ProcInv'
<1> SUFFICES ASSUME ProcInv, [ProcNext]_<<vars, procVars>>
             PROVE  ProcInv'
  OBVIOUS
<1> USE ProcessAssumption DEF ProcInv
<1>0. LockInv'
  BY LockStep, LockInvStep
<1>t. /\ pc \in [CPUs -> {"out", "bts", "spin", "held", "trybts"}]
      /\ at \in [CPUs -> Statements] /\ this \in [CPUs -> Objects]
      /\ reg \in [CPUs -> Nat \cup Arrays \cup {NoArray}]
      /\ \A q \in CPUs : at[q] = "free" => reg[q] \in Arrays \cup {NoArray}
      /\ object \in [Objects -> [life: Lives, uid: 0..(UidLimit - 1), size: Nat,
                                threads: Arrays \cup {NoArray}]]
      /\ held \subseteq Arrays /\ given \subseteq Pages
      /\ __GLOBAL_UID \in 0..(UidLimit - 1) /\ issued \in Nat
  BY DEF LockInv, TypeOK, ProcTypeOK
<1>1. ASSUME NEW c \in CPUs, NEW o \in Objects, Construct(c, o)
      PROVE  ProcInv'
  <2>1. ProcTypeOK'
    BY <1>1, <1>0, <1>t, AnyObjectIn
       DEF Construct, Goes, Call, ProcTypeOK, LockInv, Statements, Lives
  <2>2. InSection'
    BY <1>1, <1>t DEF Construct, Goes, Call, vars, InSection
  <2>3. OwnObject' /\ LifeAt'
    <3>1. \A q \in CPUs : q # c /\ at[q] # "idle" => this[q] # o
      BY <1>1, <1>t DEF Construct, LifeAt, Statements
    <3>2. OwnObject'
      BY <1>1, <1>t, <3>1 DEF Construct, Goes, Call, OwnObject
    <3>3. LifeAt'
      BY <1>1, <1>t, <3>1 DEF Construct, Goes, Call, LifeAt
    <3>4. QED
      BY <3>2, <3>3
  <2>4. CounterExact'
    BY <1>1, <1>t DEF Construct, Goes, Call, CounterExact
  <2>5. UidsBelow' /\ UidsUnique'
    BY <1>1, <1>t DEF Construct, Goes, Call, UidsBelow, UidsUnique, Numbered
  <2>6. QED
    BY <1>0, <2>1, <2>2, <2>3, <2>4, <2>5 DEF ProcInv
<1>2. ASSUME NEW c \in CPUs, Lock(c)
      PROVE  ProcInv'
  <2>1. ProcTypeOK'
    BY <1>2, <1>0, <1>t, AnyObjectIn
       DEF Lock, Bts, SpinTest, ProcTypeOK, LockInv, Statements, Lives
  <2>2. InSection'
    BY <1>2, <1>t DEF Lock, Bts, SpinTest, vars, InSection
  <2>3. OwnObject' /\ LifeAt'
    BY <1>2, <1>t DEF Lock, Bts, SpinTest, OwnObject, LifeAt
  <2>4. CounterExact'
    BY <1>2, <1>t DEF Lock, Bts, SpinTest, CounterExact
  <2>5. UidsBelow' /\ UidsUnique'
    BY <1>2, <1>t DEF Lock, Bts, SpinTest, UidsBelow, UidsUnique, Numbered
  <2>6. QED
    BY <1>0, <2>1, <2>2, <2>3, <2>4, <2>5 DEF ProcInv
<1>3. ASSUME NEW c \in CPUs, LoadUid(c)
      PROVE  ProcInv'
  <2>1. ProcTypeOK'
    BY <1>3, <1>0, <1>t, AnyObjectIn
       DEF LoadUid, Goes, ProcTypeOK, LockInv, Statements, Lives
  <2>2. InSection'
    BY <1>3, <1>t DEF LoadUid, Goes, vars, InSection
  <2>3. OwnObject' /\ LifeAt'
    BY <1>3, <1>t DEF LoadUid, Goes, OwnObject, LifeAt
  <2>4. CounterExact'
    BY <1>3, <1>t DEF LoadUid, Goes, CounterExact
  <2>5. UidsBelow' /\ UidsUnique'
    BY <1>3, <1>t DEF LoadUid, Goes, UidsBelow, UidsUnique, Numbered
  <2>6. QED
    BY <1>0, <2>1, <2>2, <2>3, <2>4, <2>5 DEF ProcInv
<1>4. ASSUME NEW c \in CPUs, StoreUid(c)
      PROVE  ProcInv'
  <2>1. ProcTypeOK'
    <3>1. reg[c] \in 0..(UidLimit - 1)
      BY <1>4, <1>t DEF StoreUid, Goes, CounterExact
    <3>2. (reg[c] + 1) % UidLimit \in 0..(UidLimit - 1)
      BY <3>1, ModIn
    <3>3. __GLOBAL_UID' \in 0..(UidLimit - 1)
      BY <1>4, <3>2 DEF StoreUid
    <3>4. QED
      BY <1>4, <1>0, <1>t, <3>1, <3>3
         DEF StoreUid, Goes, ProcTypeOK, LockInv, Statements, Lives
  <2>2. InSection'
    BY <1>4, <1>t DEF StoreUid, Goes, vars, InSection
  <2>3. OwnObject' /\ LifeAt'
    BY <1>4, <1>t DEF StoreUid, Goes, OwnObject, LifeAt
  <2>4. CounterExact'
    <3>1. \A q \in CPUs : at[q] = "store" => q = c
      BY <1>4 DEF StoreUid, Goes, LockInv, InSection, MutualExclusion, Holders
    <3>2. issued + 1 < UidLimit => __GLOBAL_UID' = issued + 1
      <4> SUFFICES ASSUME issued + 1 < UidLimit
                   PROVE  __GLOBAL_UID' = issued + 1
        OBVIOUS
      <4>1. reg[c] = issued
        BY <1>4, <1>t DEF StoreUid, Goes, CounterExact
      <4>2. issued + 1 \in 0..(UidLimit - 1)
        BY <1>t
      <4>3. (issued + 1) % UidLimit = issued + 1
        BY <4>2, ModSame
      <4>4. QED
        BY <1>4, <4>1, <4>3 DEF StoreUid
    <3>3. QED
      BY <1>4, <1>t, <3>1, <3>2 DEF StoreUid, Goes, CounterExact
  <2>5. UidsBelow' /\ UidsUnique'
    <3> SUFFICES ASSUME issued + 1 <= UidLimit
                 PROVE  UidsBelow' /\ UidsUnique'
      BY <1>4, <1>t DEF StoreUid, UidsBelow, UidsUnique
    <3>1. reg[c] = issued
      BY <1>4, <1>t DEF StoreUid, Goes, CounterExact
    <3>2. \A o \in Objects : Numbered(o) => object[o].uid < issued
      BY <1>t DEF UidsBelow
    <3>3. /\ \A o \in Objects : o # this[c] => object'[o] = object[o]
          /\ object'[this[c]].uid = issued
          /\ issued' = issued + 1
      BY <1>4, <1>t, <3>1 DEF StoreUid
    <3>4. UidsBelow'
      BY <1>t, <3>2, <3>3 DEF UidsBelow, Numbered
    <3>5. UidsUnique'
      <4> SUFFICES ASSUME NEW o \in Objects, NEW q \in Objects,
                          Numbered(o)', Numbered(q)', o # q
                   PROVE  object'[o].uid # object'[q].uid
        BY DEF UidsUnique
      <4>1. CASE o = this[c]
        BY <1>t, <3>2, <3>3, <4>1 DEF Numbered
      <4>2. CASE q = this[c]
        BY <1>t, <3>2, <3>3, <4>2 DEF Numbered
      <4>3. CASE o # this[c] /\ q # this[c]
        BY <1>t, <3>3, <4>3 DEF Numbered, UidsUnique
      <4>4. QED
        BY <4>1, <4>2, <4>3
    <3>6. QED
      BY <3>4, <3>5
  <2>6. QED
    BY <1>0, <2>1, <2>2, <2>3, <2>4, <2>5 DEF ProcInv
<1>5. ASSUME NEW c \in CPUs, Unlock(c)
      PROVE  ProcInv'
  <2>1. ProcTypeOK'
    BY <1>5, <1>0, <1>t, AnyObjectIn
       DEF Unlock, Goes, Release, ProcTypeOK, LockInv, Statements, Lives
  <2>2. InSection'
    BY <1>5, <1>t DEF Unlock, Goes, Release, vars, InSection
  <2>3. OwnObject' /\ LifeAt'
    BY <1>5, <1>t DEF Unlock, Goes, Release, OwnObject, LifeAt
  <2>4. CounterExact'
    BY <1>5, <1>t DEF Unlock, Goes, Release, CounterExact
  <2>5. UidsBelow' /\ UidsUnique'
    BY <1>5, <1>t DEF Unlock, Goes, Release, UidsBelow, UidsUnique, Numbered
  <2>6. QED
    BY <1>0, <2>1, <2>2, <2>3, <2>4, <2>5 DEF ProcInv
<1>6. ASSUME NEW c \in CPUs, MallocThreads(c)
      PROVE  ProcInv'
  <2>1. ProcTypeOK'
    BY <1>6, <1>0, <1>t, AnyObjectIn
       DEF MallocThreads, Goes, Mallocs, ProcTypeOK, LockInv, Statements, Lives
  <2>2. InSection'
    BY <1>6, <1>t DEF MallocThreads, Goes, Mallocs, vars, InSection
  <2>3. OwnObject' /\ LifeAt'
    BY <1>6, <1>t DEF MallocThreads, Goes, Mallocs, OwnObject, LifeAt
  <2>4. CounterExact'
    BY <1>6, <1>t DEF MallocThreads, Goes, Mallocs, CounterExact
  <2>5. UidsBelow' /\ UidsUnique'
    BY <1>6, <1>t
       DEF MallocThreads, Goes, Mallocs, UidsBelow, UidsUnique, Numbered
  <2>6. QED
    BY <1>0, <2>1, <2>2, <2>3, <2>4, <2>5 DEF ProcInv
<1>7. ASSUME NEW c \in CPUs, NEW o \in Objects, AddThread(c, o)
      PROVE  ProcInv'
  <2>1. ProcTypeOK'
    BY <1>7, <1>0, <1>t, AnyObjectIn
       DEF AddThread, Goes, ProcTypeOK, LockInv, Statements, Lives
  <2>2. InSection'
    BY <1>7, <1>t DEF AddThread, Goes, vars, InSection
  <2>3. OwnObject' /\ LifeAt'
    <3>1. \A q \in CPUs : q # c /\ at[q] # "idle" => this[q] # o
      BY <1>7, <1>t DEF AddThread, LifeAt, Statements
    <3>2. OwnObject'
      BY <1>7, <1>t, <3>1 DEF AddThread, Goes, OwnObject
    <3>3. LifeAt'
      BY <1>7, <1>t, <3>1 DEF AddThread, Goes, LifeAt
    <3>4. QED
      BY <3>2, <3>3
  <2>4. CounterExact'
    BY <1>7, <1>t DEF AddThread, Goes, CounterExact
  <2>5. UidsBelow' /\ UidsUnique'
    BY <1>7, <1>t DEF AddThread, Goes, UidsBelow, UidsUnique, Numbered
  <2>6. QED
    BY <1>0, <2>1, <2>2, <2>3, <2>4, <2>5 DEF ProcInv
<1>8. ASSUME NEW c \in CPUs, Grow(c)
      PROVE  ProcInv'
  <2>1. ProcTypeOK'
    BY <1>8, <1>0, <1>t, AnyObjectIn
       DEF Grow, Goes, Mallocs, ProcTypeOK, LockInv, Statements, Lives
  <2>2. InSection'
    BY <1>8, <1>t DEF Grow, Goes, Mallocs, vars, InSection
  <2>3. OwnObject' /\ LifeAt'
    BY <1>8, <1>t DEF Grow, Goes, Mallocs, OwnObject, LifeAt
  <2>4. CounterExact'
    BY <1>8, <1>t DEF Grow, Goes, Mallocs, CounterExact
  <2>5. UidsBelow' /\ UidsUnique'
    BY <1>8, <1>t DEF Grow, Goes, Mallocs, UidsBelow, UidsUnique, Numbered
  <2>6. QED
    BY <1>0, <2>1, <2>2, <2>3, <2>4, <2>5 DEF ProcInv
<1>9. ASSUME NEW c \in CPUs, FreeOld(c)
      PROVE  ProcInv'
  <2>1. ProcTypeOK'
    BY <1>9, <1>0, <1>t, AnyObjectIn
       DEF FreeOld, Goes, ProcTypeOK, LockInv, Statements, Lives
  <2>2. InSection'
    BY <1>9, <1>t DEF FreeOld, Goes, vars, InSection
  <2>3. OwnObject' /\ LifeAt'
    BY <1>9, <1>t DEF FreeOld, Goes, OwnObject, LifeAt
  <2>4. CounterExact'
    BY <1>9, <1>t DEF FreeOld, Goes, CounterExact
  <2>5. UidsBelow' /\ UidsUnique'
    BY <1>9, <1>t DEF FreeOld, Goes, UidsBelow, UidsUnique, Numbered
  <2>6. QED
    BY <1>0, <2>1, <2>2, <2>3, <2>4, <2>5 DEF ProcInv
<1>10. ASSUME NEW c \in CPUs, NEW o \in Objects, Destroy(c, o)
      PROVE  ProcInv'
  <2>1. ProcTypeOK'
    BY <1>10, <1>0, <1>t, AnyObjectIn
       DEF Destroy, Goes, ProcTypeOK, LockInv, Statements, Lives
  <2>2. InSection'
    BY <1>10, <1>t DEF Destroy, Goes, vars, InSection
  <2>3. OwnObject' /\ LifeAt'
    <3>1. \A q \in CPUs : q # c /\ at[q] # "idle" => this[q] # o
      BY <1>10, <1>t DEF Destroy, LifeAt, Statements
    <3>2. OwnObject'
      BY <1>10, <1>t, <3>1 DEF Destroy, Goes, OwnObject
    <3>3. LifeAt'
      BY <1>10, <1>t, <3>1 DEF Destroy, Goes, LifeAt
    <3>4. QED
      BY <3>2, <3>3
  <2>4. CounterExact'
    BY <1>10, <1>t DEF Destroy, Goes, CounterExact
  <2>5. UidsBelow' /\ UidsUnique'
    BY <1>10, <1>t DEF Destroy, Goes, UidsBelow, UidsUnique, Numbered
  <2>6. QED
    BY <1>0, <2>1, <2>2, <2>3, <2>4, <2>5 DEF ProcInv
<1>11. ASSUME NEW c \in CPUs, DropThreads(c)
      PROVE  ProcInv'
  <2>1. ProcTypeOK'
    BY <1>11, <1>0, <1>t, AnyObjectIn
       DEF DropThreads, Goes, ProcTypeOK, LockInv, Statements, Lives
  <2>2. InSection'
    BY <1>11, <1>t DEF DropThreads, Goes, vars, InSection
  <2>3. OwnObject' /\ LifeAt'
    BY <1>11, <1>t DEF DropThreads, Goes, OwnObject, LifeAt
  <2>4. CounterExact'
    BY <1>11, <1>t DEF DropThreads, Goes, CounterExact
  <2>5. UidsBelow' /\ UidsUnique'
    BY <1>11, <1>t DEF DropThreads, Goes, UidsBelow, UidsUnique, Numbered
  <2>6. QED
    BY <1>0, <2>1, <2>2, <2>3, <2>4, <2>5 DEF ProcInv
<1>12. CASE UNCHANGED <<vars, procVars>>
  BY <1>12, <1>0
     DEF vars, procVars, LockInv, ProcTypeOK, TypeOK, InSection, OwnObject,
     LifeAt, CounterExact, UidsBelow, UidsUnique, Numbered
<1>13. QED
  BY <1>1, <1>2, <1>3, <1>4, <1>5, <1>6, <1>7, <1>8, <1>9, <1>10, <1>11, <1>12
     DEF ProcNext, Step

(* Every reachable state satisfies it.                                     *)
THEOREM ProcInvHolds == ProcSpec => []ProcInv
BY ProcInvInit, ProcInvStep, PTL DEF ProcSpec

(* Every variable of the lock and of the objects keeps its type.           *)
THEOREM ProcessTypeCorrect == ProcSpec => []ProcTypeOK
<1>1. ProcInv => ProcTypeOK
  BY DEF ProcInv
<1>2. QED
  BY <1>1, ProcInvHolds, PTL

(* Before the counter has gone round, no two processes share a uid,        *)
(* however many CPUs construct them at once (Process.cpp:13-19).           *)
THEOREM UidsNeverShared == ProcSpec => []UidsUnique
<1>1. ProcInv => UidsUnique
  BY DEF ProcInv
<1>2. QED
  BY <1>1, ProcInvHolds, PTL

-----------------------------------------------------------------------------
(* An object has no array before MallocThreads.                            *)
NoneYet ==
  /\ \A o \in Objects :
       object[o].life \in {"absent", "new"} => object[o].threads = NoArray
  /\ \A c \in CPUs :
       at[c] \in {"unlock", "malloc"} => object[this[c]].threads = NoArray

(* The arrays in use are those of the objects and those a kernel_realloc   *)
(* has obtained, ...                                                       *)
Obtained(c, a) == at[c] = "free" /\ reg[c] = a

ArraysHeld ==
  \A a \in Arrays :
    a \in held <=> \/ \E o \in Objects : object[o].threads = a
                   \/ \E c \in CPUs : Obtained(c, a)

(* ... and each is in one place.                                           *)
ArraysApart ==
  \A a \in Arrays :
    /\ \A o, q \in Objects :
         object[o].threads = a /\ object[q].threads = a => o = q
    /\ \A c, d \in CPUs : Obtained(c, a) /\ Obtained(d, a) => c = d
    /\ \A o \in Objects, c \in CPUs : object[o].threads = a => ~Obtained(c, a)

(* ArraysOwned taken apart, inductive with what it needs to know of the    *)
(* objects under construction.                                             *)
ArrayInv == NoneYet /\ ArraysHeld /\ ArraysApart

(* A step that moves no array keeps the arrays as they were.               *)
LEMMA NoArrayMoves ==
  ASSUME ArraysHeld, ArraysApart,
         \A o \in Objects : object'[o].threads = object[o].threads,
         \A c \in CPUs, a \in Arrays : Obtained(c, a)' <=> Obtained(c, a),
         held' = held
  PROVE  ArraysHeld' /\ ArraysApart'
BY DEF ArraysHeld, ArraysApart

LEMMA ArrayInvStep ==
  ProcInv /\ ArrayInv /\ [ProcNext]_<<vars, procVars>> => ArrayInv'
<1> SUFFICES ASSUME ProcInv, ArrayInv, [ProcNext]_<<vars, procVars>>
             PROVE  ArrayInv'
  OBVIOUS
<1> USE ProcessAssumption DEF ArrayInv
<1>t. /\ at \in [CPUs -> Statements] /\ this \in [CPUs -> Objects]
      /\ reg \in [CPUs -> Nat \cup Arrays \cup {NoArray}]
      /\ \A q \in CPUs : at[q] = "free" => reg[q] \in Arrays \cup {NoArray}
      /\ object \in [Objects -> [life: Lives, uid: 0..(UidLimit - 1), size: Nat,
                                threads: Arrays \cup {NoArray}]]
      /\ held \subseteq Arrays
  BY DEF ProcInv, ProcTypeOK
<1>1. ASSUME NEW c \in CPUs, NEW o \in Objects, Construct(c, o)
      PROVE  ArrayInv'
  <2>0. \A q \in CPUs : q # c /\ at[q] # "idle" => this[q] # o
    BY <1>1, <1>t DEF ProcInv, LifeAt, Construct, Statements
  <2>1. NoneYet'
    BY <1>1, <1>t, <2>0 DEF Construct, Goes, NoneYet, ProcInv, LifeAt
  <2>2. ArraysHeld' /\ ArraysApart'
    BY <1>1, <1>t, NoArrayMoves DEF Construct, Goes, Obtained
  <2>3. QED
    BY <2>1, <2>2
<1>2. ASSUME NEW c \in CPUs, Lock(c)
      PROVE  ArrayInv'
  <2>0. \A q \in CPUs : q # c /\ at[q] # "idle" => this[q] # this[c]
    BY <1>2, <1>t DEF ProcInv, OwnObject, Lock, Bts, SpinTest
  <2>1. NoneYet'
    BY <1>2, <1>t, <2>0 DEF Lock, Bts, SpinTest, NoneYet, ProcInv, LifeAt
  <2>2. ArraysHeld' /\ ArraysApart'
    BY <1>2, <1>t, NoArrayMoves DEF Lock, Bts, SpinTest, Obtained
  <2>3. QED
    BY <2>1, <2>2
<1>3. ASSUME NEW c \in CPUs, LoadUid(c)
      PROVE  ArrayInv'
  <2>0. \A q \in CPUs : q # c /\ at[q] # "idle" => this[q] # this[c]
    BY <1>3, <1>t DEF ProcInv, OwnObject, LoadUid, Goes
  <2>1. NoneYet'
    BY <1>3, <1>t, <2>0 DEF LoadUid, Goes, NoneYet, ProcInv, LifeAt
  <2>2. ArraysHeld' /\ ArraysApart'
    BY <1>3, <1>t, NoArrayMoves DEF LoadUid, Goes, Obtained
  <2>3. QED
    BY <2>1, <2>2
<1>4. ASSUME NEW c \in CPUs, StoreUid(c)
      PROVE  ArrayInv'
  <2>0. \A q \in CPUs : q # c /\ at[q] # "idle" => this[q] # this[c]
    BY <1>4, <1>t DEF ProcInv, OwnObject, StoreUid, Goes
  <2>1. NoneYet'
    BY <1>4, <1>t, <2>0 DEF StoreUid, Goes, NoneYet, ProcInv, LifeAt
  <2>2. ArraysHeld' /\ ArraysApart'
    BY <1>4, <1>t, NoArrayMoves DEF StoreUid, Goes, Obtained
  <2>3. QED
    BY <2>1, <2>2
<1>5. ASSUME NEW c \in CPUs, Unlock(c)
      PROVE  ArrayInv'
  <2>0. \A q \in CPUs : q # c /\ at[q] # "idle" => this[q] # this[c]
    BY <1>5, <1>t DEF ProcInv, OwnObject, Unlock, Goes
  <2>1. NoneYet'
    BY <1>5, <1>t, <2>0 DEF Unlock, Goes, NoneYet, ProcInv, LifeAt
  <2>2. ArraysHeld' /\ ArraysApart'
    BY <1>5, <1>t, NoArrayMoves DEF Unlock, Goes, Obtained
  <2>3. QED
    BY <2>1, <2>2
<1>6. ASSUME NEW c \in CPUs, NEW o \in Objects, AddThread(c, o)
      PROVE  ArrayInv'
  <2>0. \A q \in CPUs : q # c /\ at[q] # "idle" => this[q] # o
    BY <1>6, <1>t DEF ProcInv, LifeAt, AddThread, Statements
  <2>1. NoneYet'
    BY <1>6, <1>t, <2>0 DEF AddThread, Goes, NoneYet, ProcInv, LifeAt
  <2>2. ArraysHeld' /\ ArraysApart'
    BY <1>6, <1>t, NoArrayMoves DEF AddThread, Goes, Obtained
  <2>3. QED
    BY <2>1, <2>2
<1>7. ASSUME NEW c \in CPUs, NEW o \in Objects, Destroy(c, o)
      PROVE  ArrayInv'
  <2>0. \A q \in CPUs : q # c /\ at[q] # "idle" => this[q] # o
    BY <1>7, <1>t DEF ProcInv, LifeAt, Destroy, Statements
  <2>1. NoneYet'
    BY <1>7, <1>t, <2>0 DEF Destroy, Goes, NoneYet, ProcInv, LifeAt
  <2>2. ArraysHeld' /\ ArraysApart'
    BY <1>7, <1>t, NoArrayMoves DEF Destroy, Goes, Obtained
  <2>3. QED
    BY <2>1, <2>2
<1>8. ASSUME NEW c \in CPUs, MallocThreads(c)
      PROVE  ArrayInv'
  <2>0. \A q \in CPUs : q # c /\ at[q] # "idle" => this[q] # this[c]
    BY <1>8, <1>t DEF ProcInv, OwnObject, MallocThreads, Goes, Mallocs
  <2>1. NoneYet'
    BY <1>8, <1>t, <2>0 DEF MallocThreads, Goes, Mallocs, NoneYet, ProcInv, LifeAt
  <2>2. ArraysHeld'
    <3>1. PICK a \in Mallocs :
            /\ object' = [object EXCEPT ![this[c]].threads = a, ![this[c]].size = 0]
            /\ held' = held \cup ({a} \ {NoArray})
      BY <1>8 DEF MallocThreads
    <3>2. a \in Arrays \cup {NoArray}
      BY DEF Mallocs
    <3>3. /\ object[this[c]].threads = NoArray /\ object'[this[c]].threads = a
          /\ \A o \in Objects : o # this[c] => object'[o].threads = object[o].threads
      BY <1>8, <1>t, <3>1 DEF MallocThreads, Goes, NoneYet
    <3>4. \A d \in CPUs, b \in Arrays : Obtained(d, b)' <=> Obtained(d, b)
      BY <1>8, <1>t DEF MallocThreads, Goes, Obtained
    <3>5. \A b \in Arrays : (\E o \in Objects : object'[o].threads = b)
                           <=> b = a \/ \E o \in Objects : object[o].threads = b
      BY <1>t, <3>2, <3>3
    <3>6. \A b \in Arrays : b \in held' <=> b \in held \/ b = a
      BY <3>1
    <3>7. QED
      BY <3>4, <3>5, <3>6 DEF ArraysHeld
  <2>3. ArraysApart'
    BY <1>8, <1>t, <2>0
       DEF MallocThreads, Goes, Mallocs, Obtained, ArraysHeld, ArraysApart, NoneYet
  <2>4. QED
    BY <2>1, <2>2, <2>3
<1>9. ASSUME NEW c \in CPUs, Grow(c)
      PROVE  ArrayInv'
  <2>0. \A q \in CPUs : q # c /\ at[q] # "idle" => this[q] # this[c]
    BY <1>9, <1>t DEF ProcInv, OwnObject, Grow, Goes, Mallocs
  <2>1. NoneYet'
    BY <1>9, <1>t, <2>0 DEF Grow, Goes, Mallocs, NoneYet, ProcInv, LifeAt
  <2>2. ArraysHeld'
    BY <1>9, <1>t, <2>0
       DEF Grow, Goes, Mallocs, Obtained, ArraysHeld, ArraysApart, NoneYet
  <2>3. ArraysApart'
    BY <1>9, <1>t, <2>0
       DEF Grow, Goes, Mallocs, Obtained, ArraysHeld, ArraysApart, NoneYet
  <2>4. QED
    BY <2>1, <2>2, <2>3
<1>10. ASSUME NEW c \in CPUs, FreeOld(c)
      PROVE  ArrayInv'
  <2>0. \A q \in CPUs : q # c /\ at[q] # "idle" => this[q] # this[c]
    BY <1>10, <1>t DEF ProcInv, OwnObject, FreeOld, Goes
  <2>1. NoneYet'
    BY <1>10, <1>t, <2>0 DEF FreeOld, Goes, NoneYet, ProcInv, LifeAt
  <2>2. ArraysHeld'
    BY <1>10, <1>t, <2>0
       DEF FreeOld, Goes, Obtained, ArraysHeld, ArraysApart, NoneYet
  <2>3. ArraysApart'
    BY <1>10, <1>t, <2>0
       DEF FreeOld, Goes, Obtained, ArraysHeld, ArraysApart, NoneYet
  <2>4. QED
    BY <2>1, <2>2, <2>3
<1>11. ASSUME NEW c \in CPUs, DropThreads(c)
      PROVE  ArrayInv'
  <2>0. \A q \in CPUs : q # c /\ at[q] # "idle" => this[q] # this[c]
    BY <1>11, <1>t DEF ProcInv, OwnObject, DropThreads, Goes
  <2>1. NoneYet'
    BY <1>11, <1>t, <2>0 DEF DropThreads, Goes, NoneYet, ProcInv, LifeAt
  <2>2. ArraysHeld'
    BY <1>11, <1>t, <2>0
       DEF DropThreads, Goes, Obtained, ArraysHeld, ArraysApart, NoneYet
  <2>3. ArraysApart'
    BY <1>11, <1>t, <2>0
       DEF DropThreads, Goes, Obtained, ArraysHeld, ArraysApart, NoneYet
  <2>4. QED
    BY <2>1, <2>2, <2>3
<1>12. CASE UNCHANGED <<vars, procVars>>
  BY <1>12 DEF procVars, NoneYet, ArraysHeld, ArraysApart, Obtained
<1>13. QED
  BY <1>1, <1>2, <1>3, <1>4, <1>5, <1>6, <1>7, <1>8, <1>9, <1>10, <1>11, <1>12
     DEF ProcNext, Step

(* The parts make up ArraysOwned.                                          *)
LEMMA ArrayInvOwned == ProcTypeOK /\ ArrayInv => ArraysOwned
<1> SUFFICES ASSUME ProcTypeOK, ArrayInv
             PROVE  ArraysOwned
  OBVIOUS
<1> DEFINE Mine == {<<o, object[o].threads>> : o \in Objects}
           Got  == {<<c, reg[c]>> : c \in {d \in CPUs : at[d] = "free"}}
           Real == {r \in Mine \cup Got : r[2] # NoArray}
<1>1. \A r \in Real :
        /\ r[2] \in Arrays
        /\ \/ \E o \in Objects : r = <<o, r[2]>> /\ object[o].threads = r[2]
           \/ \E c \in CPUs : r = <<c, r[2]>> /\ Obtained(c, r[2])
  BY ProcessAssumption DEF ProcTypeOK, Obtained
<1>2. \A r \in Real : r[2] \in held
  BY <1>1 DEF ArrayInv, ArraysHeld
<1>3. ASSUME NEW a \in held
      PROVE  \E r \in Real : r[2] = a
  <2>1. a \in Arrays /\ a # NoArray
    BY ProcessAssumption DEF ProcTypeOK
  <2>2. CASE \E o \in Objects : object[o].threads = a
    <3>1. PICK o \in Objects : object[o].threads = a
      BY <2>2
    <3>2. <<o, a>> \in Real
      BY <2>1, <3>1
    <3>3. QED
      BY <3>2
  <2>3. CASE \E c \in CPUs : Obtained(c, a)
    <3>1. PICK c \in CPUs : Obtained(c, a)
      BY <2>3
    <3>2. <<c, a>> \in Real
      BY <2>1, <3>1 DEF Obtained
    <3>3. QED
      BY <3>2
  <2>4. QED
    BY <2>1, <2>2, <2>3 DEF ArrayInv, ArraysHeld
<1>4. ASSUME NEW r \in Real, NEW s \in Real, r[2] = s[2]
      PROVE  r = s
  BY <1>1, <1>4 DEF ArrayInv, ArraysApart
<1>5. held = {r[2] : r \in Real}
  BY <1>2, <1>3
<1>6. QED
  BY <1>4, <1>5 DEF ArraysOwned

(* Constructing, growing and destroying processes on any number of CPUs    *)
(* leaks no thread array and shares none (Process.cpp:21-23, 30-32, 45).   *)
THEOREM ArraysAlwaysOwned == ProcSpec => []ArraysOwned
<1>1. ProcInit => ArrayInv
  BY ProcessAssumption
     DEF ProcInit, ArrayInv, NoneYet, ArraysHeld, ArraysApart, Obtained
<1>2. ProcInv /\ ArrayInv => ArraysOwned
  BY ArrayInvOwned DEF ProcInv
<1>3. QED
  BY <1>1, <1>2, ArrayInvStep, ProcInvHolds, PTL DEF ProcSpec
=============================================================================
