----------------------------- MODULE MCMachine -----------------------------
(***************************************************************************)
(* Texts with what they should show, and machines, for Machine.            *)
(***************************************************************************)
EXTENDS Machine, TLC

In(fg, c) == [c |-> c, color |-> [bg |-> "black", fg |-> fg]]

W(c) == In("white", c)

(* A line break, a text longer than the rest of a row and of the screen,   *)
(* colours set and reset, and sequences that break off at every place.     *)
MCShows ==
     (<<"x">> :> <<W("x")>>)
  @@ (<<"a", "b", "c", "d", "nl", "e">> :>
        <<W("a"), W("b"), W("c"), W("d"), In("white", "nl"), W("e")>>)
  @@ (<<"esc", "[", "0", ";", "3", "2", "m", "a", "esc", "[", "0", "m", "b">> :>
        <<In("2", "a"), W("b")>>)
  @@ (<<"esc">> :> <<>>)
  @@ (<<"esc", "[", "0", "a">> :> <<W("a")>>)
  @@ (<<"esc", "[", "0", ";", "3">> :> <<In("pink", "G")>>)
  @@ (<<"esc", "[", "0", ";", "3", "6">> :> <<>>)
  @@ (<<"esc", "[", "0", ";", "3", "9", "m">> :>
        <<In("pink", "G"), W("9"), W("m")>>)
  @@ (<<"esc", "[", "0", ";", "3", "m", "a">> :> <<In("pink", "G"), W("a")>>)

(* What is written out above is what the strings mean, on the kernel's     *)
(* black background.                                                       *)
ASSUME MeaningAssumption ==
  \A text \in DOMAIN MCShows : MCShows[text] = Meaning(text, Black)

MCBanner == <<"x">>

(* Starting inside the screen, at its last cell, and out of its range.     *)
MCMessages ==
  [text: DOMAIN MCShows \ {MCBanner}, x: {2}, y: {1}]
    \cup {[text |-> <<"a", "b", "c", "d", "nl", "e">>, x |-> 4, y |-> 2]}

Mem(base, size, type) == [base |-> base, size |-> size, type |-> type]

(* One region; four entries in no order, low memory and memory that is not *)
(* free among them; and an empty entry before the last.                    *)
MCMaps ==
  LET low == Mem(0, 1, "free")
      bios == Mem(1, 1, "reserved")
      main == Mem(2, 1, "free")
      top == Mem(3, 1, "free")
  IN {<<main>>, <<top, bios, main, low>>, <<main, Mem(1, 0, "free"), top>>}

(* A machine without a defect and both applications, every single defect,  *)
(* and every memory map; a stray interrupt and the longer maps meet the    *)
(* application that reads.                                                 *)
MCMachines ==
  {e \in Machines :
     LET wrong == {f \in DOMAIN Sound : e[f] # Sound[f]}
     IN /\ \A f, g \in wrong : f = g
        /\ wrong # {} \/ Len(e.map) > 1 => e.app = "reads"
        /\ wrong # {} \/ e.app = "prints" => e.reloads
        /\ wrong # {} \/ ~e.reloads => Len(e.map) = 1}
=============================================================================
