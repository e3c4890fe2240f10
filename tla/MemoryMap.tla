----------------------------- MODULE MemoryMap -----------------------------
(***************************************************************************)
(* The BIOS memory map, written by memory_maper.asm at 0x7E000 and read by *)
(* loadMemoryInformation: two loops, far apart in time and in language,    *)
(* that agree on a place, a size of entry and an end only by convention.   *)
(* What addMemorySpace does with a region is FrameAllocator's BootSpec.    *)
(***************************************************************************)
EXTENDS Integers, Sequences

CONSTANTS
  Maps,       (* what int 0x15 may answer: sequences of entries            *)
  MAP_SLOTS,  (* entries from 0xE000 to the segment's end: 341 in the code *)
  HIGH        (* the lowest base the kernel takes: 1 MB                    *)

Entry == [base: Nat, size: Nat, type: {"free", "reserved"}]

ASSUME MapAssumption ==
  /\ MAP_SLOTS \in Nat /\ HIGH \in Nat
  /\ \A m \in Maps : m \in Seq(Entry) /\ Len(m) < MAP_SLOTS

VARIABLES
  table,  (* the memory from 0x7E000 on, in entries of 24 bytes            *)
  slot,   (* the entry DI points to, later mem                             *)
  added   (* history: the regions given to addMemorySpace                  *)

mapVars == <<table, slot, added>>

(* Memory nobody has written is zero: the map's end mark is not stored.    *)
Unwritten == [base |-> 0, size |-> 0, type |-> "reserved"]

MapInit ==
  /\ table = [i \in 0..MAP_SLOTS |-> Unwritten]
  /\ slot = 0
  /\ added = <<>>

(* Mutant of Asked: DI goes on after the call. *)
AskedThenAdvanced(map) ==
  /\ slot' = IF slot > Len(map) THEN slot ELSE slot + 1
  /\ table' = IF slot < Len(map) THEN [table EXCEPT ![slot] = map[slot + 1]]
                                 ELSE table
  /\ UNCHANGED added

(* One round of memory_maper.asm: DI goes on before the call; past the     *)
(* last entry the BIOS sets the carry flag, which nobody looks at, and     *)
(* writes nothing.  (Its going round the segment after that is left out.)  *)
Asked(map) ==
  /\ slot' = IF slot > Len(map) THEN slot ELSE slot + 1
  /\ table' = IF slot < Len(map) THEN [table EXCEPT ![slot + 1] = map[slot + 1]]
                                 ELSE table
  /\ UNCHANGED added

(* EBX is 0 with the last entry, or with the error after it, or never.     *)
LastAnswer(map, ends) ==
  \/ ends = "last" /\ slot + 1 >= Len(map)
  \/ ends = "after" /\ slot >= Len(map)

(* "mem = KERNEL_OFFSET+0x7E000+24" *)
StartReading == slot' = 1 /\ UNCHANGED <<table, added>>

(* "mem->space.size!=0" *)
More == table[slot].size # 0

(* "mem->type==1 && mem->space.base>=0x100000" *)
Usable(e) == e.type = "free" /\ e.base >= HIGH

AddEntry ==
  /\ added' = IF Usable(table[slot]) THEN Append(added, table[slot]) ELSE added
  /\ slot' = slot + 1
  /\ UNCHANGED table
=============================================================================
