-------------------------------- MODULE Heap --------------------------------
(***************************************************************************)
(* What kernel_malloc and kernel_free promise the rest of the kernel: an   *)
(* allocation is a range of bytes that overlaps no other one, and it stays *)
(* where it is, whatever else is allocated or freed, until it is freed.    *)
(***************************************************************************)
EXTENDS Naturals

CONSTANT Sizes   (* the sizes that are requested *)

VARIABLE held    (* the allocations: [at, size] *)

Overlap(a, b) == a.at < b.at + b.size /\ b.at < a.at + a.size

Init == held = {}

Malloc == \E a \in held' \ held :
  /\ a.size \in Sizes /\ a.at > 0
  /\ \A b \in held : ~Overlap(a, b) /\ a.at # b.at
  /\ held' = held \cup {a}

Free == \E a \in held : held' = held \ {a}

Spec == Init /\ [][Malloc \/ Free]_held
=============================================================================
