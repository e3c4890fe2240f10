----------------------------- MODULE FramePool -----------------------------
(***************************************************************************)
(* What the frame allocator promises, whatever it keeps in its buffer, in  *)
(* its list, or in the hands of a CPU half-way through an operation: the   *)
(* pages of every region it is given become free, a free page is handed    *)
(* out at most once, and no page appears or disappears otherwise.          *)
(***************************************************************************)
EXTENDS Naturals

CONSTANTS
  Regions,    (* the memory regions that are added, each once *)
  Pages(_)    (* the whole pages of a region                  *)

VARIABLES
  todo,   (* regions not yet added              *)
  free,   (* pages the allocator may hand out   *)
  given   (* pages it has handed out            *)

Init ==
  /\ todo = Regions
  /\ free = {}
  /\ given = {}

Add(r) ==
  /\ r \in todo
  /\ Pages(r) \cap (free \cup given) = {}
  /\ todo' = todo \ {r}
  /\ free' = free \cup Pages(r)
  /\ UNCHANGED given

Take(f) ==
  /\ f \in free
  /\ free' = free \ {f}
  /\ given' = given \cup {f}
  /\ UNCHANGED todo

Next == (\E r \in todo : Add(r)) \/ (\E f \in free : Take(f))

Spec == Init /\ [][Next]_<<todo, free, given>>
=============================================================================
