----------------------------- MODULE Keyboard -----------------------------
(***************************************************************************)
(* The character ring of stdio.cpp: keyboard(), which a driver calls in    *)
(* interrupt context, and getChar(), which polls.  Characters are numbered *)
(* in the order they are typed, so buffer tells old from new.  Scan codes  *)
(* without a character and releases return before any change and are left  *)
(* out.  No file of the repository calls either function yet.              *)
(***************************************************************************)
EXTENDS Integers

CONSTANTS
  RING,     (* characters kept: 8 in the code              *)
  MaxTyped  (* bound: characters typed                     *)

ASSUME KeyboardAssumption == RING \in Nat \ {0} /\ MaxTyped \in Nat

VARIABLES
  keyboard_vez,  (* how many characters were typed         *)
  buffer,        (* the last ones, the newest at 0         *)
  get,           (* getChar's next access, its time, aux   *)
  got            (* what getChar returned last             *)

kbVars == <<keyboard_vez, buffer, get, got>>

KeyboardInit ==
  /\ keyboard_vez = 0
  /\ buffer = [i \in 0..(RING - 1) |-> 0]
  /\ get = [at |-> "ret", time |-> 0, aux |-> 0]
  /\ got = 0

(* keyboard(): count, shift, store; interrupts are off, so getChar, on the *)
(* same CPU, sees all of it or nothing.                                    *)
keyboard ==
  /\ keyboard_vez < MaxTyped
  /\ keyboard_vez' = keyboard_vez + 1
  /\ buffer' = [i \in 0..(RING - 1) |->
                  IF i = 0 THEN keyboard_vez + 1 ELSE buffer[i - 1]]
  /\ UNCHANGED <<get, got>>

(* getChar is called: "time = keyboard_vez".                               *)
GetChar ==
  /\ get.at = "ret"
  /\ get' = [at |-> "test", time |-> keyboard_vez, aux |-> 0]
  /\ UNCHANGED <<keyboard_vez, buffer, got>>

(* Mutant of Test: the first character does not count. *)
TestOneMore ==
  /\ get.at = "test" /\ keyboard_vez > get.time + 1
  /\ get' = [get EXCEPT !.at = "aux"]
  /\ UNCHANGED <<keyboard_vez, buffer, got>>

(* "if(keyboard_vez>time)"; a round that finds no character changes        *)
(* nothing.                                                                *)
Test ==
  /\ get.at = "test" /\ keyboard_vez > get.time
  /\ get' = [get EXCEPT !.at = "aux"]
  /\ UNCHANGED <<keyboard_vez, buffer, got>>

(* "aux=keyboard_vez-time" may load the counter again.                     *)
Aux ==
  /\ get.at = "aux"
  /\ get' = [get EXCEPT !.at = "pick", !.aux = keyboard_vez - get.time]
  /\ UNCHANGED <<keyboard_vez, buffer, got>>

(* Mutant of Pick: the slot is not moved back by one. *)
PickNext ==
  /\ get.at = "pick"
  /\ got' = buffer[IF get.aux >= RING THEN RING - 1 ELSE get.aux]
  /\ get' = [at |-> "ret", time |-> get.time, aux |-> 0]
  /\ UNCHANGED <<keyboard_vez, buffer>>

(* The slot of the first character typed since the call, or of the oldest  *)
(* one still there.                                                        *)
Pick ==
  /\ get.at = "pick"
  /\ got' = buffer[IF get.aux >= RING THEN RING - 1 ELSE get.aux - 1]
  /\ get' = [at |-> "ret", time |-> get.time, aux |-> 0]
  /\ UNCHANGED <<keyboard_vez, buffer>>

GetCharStep == Test \/ Aux \/ Pick

-----------------------------------------------------------------------------
KeyboardTypeOK ==
  /\ keyboard_vez \in 0..MaxTyped
  /\ buffer \in [0..(RING - 1) -> 0..MaxTyped]
  /\ get \in [at: {"ret", "test", "aux", "pick"}, time: 0..MaxTyped,
              aux: 0..MaxTyped]
  /\ got \in 0..MaxTyped

(* getChar never hands out a character that was typed before it was        *)
(* called, although the ring moves under it between the test, the          *)
(* subtraction and the read of the slot (stdio.cpp:42-56): more keys only  *)
(* make it return a later one.                                             *)
GetCharFresh == get.at = "ret" /\ got # 0 => got > get.time
=============================================================================
