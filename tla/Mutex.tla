------------------------------- MODULE Mutex -------------------------------
(***************************************************************************)
(* What a kernel lock promises its callers, whatever the instructions that *)
(* implement it: at most one CPU holds it, and only its holder gives it up.*)
(* SpinLock.tla is shown to implement this module; FrameAllocator.tla uses *)
(* locks at this level of detail.  NoCPU is not in CPUs (SpinLockAssumption).*)
(***************************************************************************)
CONSTANTS
  CPUs,   (* the processors that contend for the lock        *)
  NoCPU   (* the value of holder while nobody holds the lock *)

VARIABLE holder

Init == holder = NoCPU

Acquire(c) == holder = NoCPU /\ holder' = c

Release(c) == holder = c /\ holder' = NoCPU

Next == \E c \in CPUs : Acquire(c) \/ Release(c)

Spec == Init /\ [][Next]_holder
=============================================================================
