------------------------------ MODULE Console ------------------------------
(***************************************************************************)
(* gfx_text.cpp: the VGA text memory, the two cursor registers behind the  *)
(* index port 0x3D4, and kprintStr, one action per access that the handler *)
(* of IRQ 1 can get in between of.  The handler's own kprintChar runs with *)
(* interrupts off and is one step (KeyPrinted).  A character is a string;  *)
(* a colour is its background and its foreground.                          *)
(***************************************************************************)
EXTENDS Integers, Sequences

CONSTANTS
  Shows,               (* per string that is printed, the characters that *)
                       (* should appear, each with its colour             *)
  NUM_COLS, NUM_ROWS,  (* the screen: 80 and 25 in the code               *)
  BYTE,                (* values of a cursor register: 256                *)
  KEY_X, KEY_Y         (* where IRQ 1 prints: column 10 of row 10         *)

ASSUME ConsoleAssumption ==
  /\ NUM_COLS \in Nat \ {0} /\ NUM_ROWS \in Nat \ {0} /\ BYTE \in Nat \ {0}
  /\ KEY_X \in 0..(NUM_COLS - 1) /\ KEY_Y \in 0..(NUM_ROWS - 1)

VARIABLES
  screen,  (* VGA_MEM: per cell, a character and a colour                  *)
  crtc,    (* the index port, and the registers 0x0F ("lo") and 0x0E ("hi") *)
  at,      (* the next access of the running kprintStr, or "ret"           *)
  call,    (* its locals s, x, y, col and originalColor, and its arguments *)
  out,     (* the locals p, c and color of the program's last kprintChar   *)
  before   (* history: the screen when kprintStr was called                *)

consoleVars == <<screen, crtc, at, call, out, before>>

Cells == 0..(NUM_COLS * NUM_ROWS - 1)

KEY_CELL == NUM_COLS * KEY_Y + KEY_X

Blank(col) == [c |-> " ", color |-> col]

(* Mutant of Bytes: the position is not cut to bytes. *)
BytesUncut(position) == [lo |-> position, hi |-> position \div BYTE]

Bytes(position) == [lo |-> position % BYTE, hi |-> (position \div BYTE) % BYTE]

(* The registers after setCursorPosition has run undisturbed. *)
CursorAt(position) ==
  [index |-> "hi", lo |-> Bytes(position).lo, hi |-> Bytes(position).hi]

-----------------------------------------------------------------------------
(* Mutant of Wrapped: the row below the last one is on the screen. *)
WrappedLate(x, y) ==
  LET row == IF x >= NUM_COLS THEN y + 1 ELSE y
  IN IF row > NUM_ROWS THEN [x |-> 0, y |-> row % NUM_ROWS]
                       ELSE [x |-> x % NUM_COLS, y |-> row]

(* Where kprintStr goes on after a character: lines 131-138.               *)
Wrapped(x, y) ==
  LET row == IF x >= NUM_COLS THEN y + 1 ELSE y
  IN IF row >= NUM_ROWS THEN [x |-> 0, y |-> row % NUM_ROWS]
                        ELSE [x |-> x % NUM_COLS, y |-> row]

Symbol(text, i) == IF i <= Len(text) THEN text[i] ELSE "nul"

Digits == {"0", "1", "2", "3", "4", "5", "6", "7"}

(* What the five tests of "case '\033'" match, in this order. *)
Introducer == <<"esc", "[", "0", ";", "3">>

Matched(text, s) ==
  CHOOSE n \in 1..5 :
    /\ \A i \in 1..n : Symbol(text, s + i - 1) = Introducer[i]
    /\ n < 5 => Symbol(text, s + n) # Introducer[n + 1]

(* "case '\033'": how far s moves before the s++ of the loop, the colour,  *)
(* and whether the default branch prints its 'G'.  A sequence that is not  *)
(* recognised is dropped up to where it stops matching.                    *)
Escape(text, s, col, originalColor) ==
  LET n == Matched(text, s)
      past(i) == IF Symbol(text, i + 1) = "m" THEN i + 1 ELSE i
      digit == Symbol(text, s + 5)
  IN IF n = 3 /\ Symbol(text, s + 3) = "m"
       THEN [s |-> s + 3, col |-> originalColor, prints |-> FALSE]
     ELSE IF n < 5
       THEN [s |-> s + n - 1, col |-> col, prints |-> FALSE]
     ELSE IF digit \in Digits
       THEN [s |-> past(s + 5), col |-> [col EXCEPT !.fg = digit], prints |-> FALSE]
       ELSE [s |-> past(s + 4), col |-> col, prints |-> TRUE]

-----------------------------------------------------------------------------
(* The blank screen of start_kernel.asm:40-43, with the index port and the *)
(* registers as the BIOS left them; kprintStr has not been called.         *)
ConsoleInit(col) ==
  /\ screen = [i \in Cells |-> Blank(col)]
  /\ crtc = CursorAt(0)
  /\ at = "ret"
  /\ call = [text |-> <<>>, s |-> 1, x |-> 0, y |-> 0, col |-> col,
             originalColor |-> col, fromX |-> 0, fromY |-> 0]
  /\ out = [p |-> -1, c |-> " ", color |-> col]
  /\ before = screen

(* clrscr, a kprintChar of every cell; the kernel calls it with interrupts *)
(* off, so nothing sees its intermediate states.                           *)
clrscr(col) ==
  /\ screen' = [i \in Cells |-> Blank(col)]
  /\ crtc' = CursorAt(NUM_COLS * NUM_ROWS)
  /\ out' = [p |-> NUM_COLS * NUM_ROWS - 1, c |-> " ", color |-> col]
  /\ before' = screen'
  /\ UNCHANGED <<at, call>>

(* kprintStr is called: lines 59-61. *)
kprintStr(text, x, y, col) ==
  /\ at = "ret"
  /\ at' = "loop"
  /\ call' = [text |-> text, s |-> 1, x |-> x % NUM_COLS, y |-> y % NUM_ROWS,
              col |-> col, originalColor |-> col,
              fromX |-> x % NUM_COLS, fromY |-> y % NUM_ROWS]
  /\ before' = screen
  /\ UNCHANGED <<screen, crtc, out>>

Moved(s, x, y, col) ==
  call' = [call EXCEPT !.s = s + 1, !.x = Wrapped(x, y).x, !.y = Wrapped(x, y).y,
                       !.col = col]

Prints(c, color) ==
  /\ at' = "char"
  /\ out' = [p |-> NUM_COLS * call.y + call.x, c |-> c, color |-> color]

(* One round of the loop up to the first access of kprintChar; the locals  *)
(* are set to what they will be after it.                                  *)
Loop ==
  LET c == Symbol(call.text, call.s)
      e == Escape(call.text, call.s, call.col, call.originalColor)
  IN /\ at = "loop"
     /\ \/ c = "nul" /\ at' = "ret" /\ UNCHANGED <<call, out>>
        \/ c = "nl" /\ Moved(call.s, 0, call.y + 1, call.col) /\ UNCHANGED <<at, out>>
        \/ /\ c = "esc"
           /\ Moved(e.s, call.x + IF e.prints THEN 1 ELSE 0, call.y, e.col)
           /\ IF e.prints THEN Prints("G", [bg |-> "black", fg |-> "pink"])
                          ELSE UNCHANGED <<at, out>>
        \/ /\ c \notin {"nul", "nl", "esc"}
           /\ Moved(call.s, call.x + 1, call.y, call.col)
           /\ Prints(c, call.col)
     /\ UNCHANGED <<screen, crtc, before>>

Access(from, to) == at = from /\ at' = to /\ UNCHANGED <<call, out, before>>

(* kprintChar's store is two byte stores, character and colour, ... *)
StoreChar ==
  /\ Access("char", "color")
  /\ screen' = [screen EXCEPT ![out.p].c = out.c]
  /\ UNCHANGED crtc

StoreColor ==
  /\ Access("color", "selectLo")
  /\ screen' = [screen EXCEPT ![out.p].color = out.color]
  /\ UNCHANGED crtc

(* ... and setCursorPosition four port writes: a register is selected, and *)
(* a byte goes to whatever register is selected by then.                   *)
Select(from, to, reg) ==
  /\ Access(from, to)
  /\ crtc' = [crtc EXCEPT !.index = reg]
  /\ UNCHANGED screen

WriteByte(from, to, byte) ==
  /\ Access(from, to)
  /\ crtc' = [crtc EXCEPT ![crtc.index] = byte]
  /\ UNCHANGED screen

(* Mutant of setCursorPosition: the high byte is written first. *)
setCursorHighFirst ==
  \/ Select("selectLo", "writeLo", "hi")
  \/ WriteByte("writeLo", "selectHi", Bytes(out.p + 1).hi)
  \/ Select("selectHi", "writeHi", "lo")
  \/ WriteByte("writeHi", "loop", Bytes(out.p + 1).lo)

setCursorPosition ==
  \/ Select("selectLo", "writeLo", "lo")
  \/ WriteByte("writeLo", "selectHi", Bytes(out.p + 1).lo)
  \/ Select("selectHi", "writeHi", "hi")
  \/ WriteByte("writeHi", "loop", Bytes(out.p + 1).hi)

PrintStep == Loop \/ StoreChar \/ StoreColor \/ setCursorPosition

(* Mutant of KeyPrinted: kprintChar keeps its locals in static variables. *)
KeyPrintedStatic(c) ==
  /\ screen' = [screen EXCEPT ![KEY_CELL] =
                  [c |-> c, color |-> [bg |-> "blue", fg |-> "white"]]]
  /\ crtc' = CursorAt(KEY_CELL + 1)
  /\ out' = [out EXCEPT !.p = KEY_CELL]
  /\ UNCHANGED <<at, call, before>>

(* The call of kprintChar(10, 10, c, 0x1f) in the handler of IRQ 1. *)
KeyPrinted(c) ==
  /\ screen' = [screen EXCEPT ![KEY_CELL] =
                  [c |-> c, color |-> [bg |-> "blue", fg |-> "white"]]]
  /\ crtc' = CursorAt(KEY_CELL + 1)
  /\ UNCHANGED <<at, call, out, before>>

-----------------------------------------------------------------------------
ConsoleTypeOK ==
  /\ DOMAIN screen = Cells
  /\ crtc \in [index: {"lo", "hi"}, lo: 0..(BYTE - 1), hi: 0..(BYTE - 1)]
  /\ at \in {"ret", "loop", "char", "color", "selectLo", "writeLo",
             "selectHi", "writeHi"}

(* kprintStr never looks past the terminator of its string, however an     *)
(* escape sequence breaks off, and never stores outside the screen         *)
(* (gfx_text.cpp:69-124, 131-138): both indices are moved by several       *)
(* branches and only tested later.                                         *)
PrintInBounds ==
  at # "ret" => call.s \in 1..(Len(call.text) + 1) /\ out.p \in Cells

(* A colour that is none: the default branch's 'G'. *)
Warning == [c |-> "G", color |-> [bg |-> "black", fg |-> "pink"]]

(* What a string means: a terminal takes one symbol or escape sequence    *)
(* after the other, starting in the given colour.  r.s is where it is in   *)
(* the string, r.col its colour, r.shown what has appeared.                *)
Taken(text, col, r) ==
  LET c == Symbol(text, r.s)
      e == Escape(text, r.s, r.col, col)
  IN IF c = "nul" THEN r
     ELSE IF c = "esc"
       THEN [s |-> e.s + 1, col |-> e.col,
             shown |-> IF e.prints THEN Append(r.shown, Warning) ELSE r.shown]
       ELSE [s |-> r.s + 1, col |-> r.col,
             shown |-> Append(r.shown, [c |-> c, color |-> r.col])]

TakenUpTo(text, col) ==
  LET taken[k \in Nat] == IF k = 0 THEN [s |-> 1, col |-> col, shown |-> <<>>]
                                   ELSE Taken(text, col, taken[k - 1])
  IN  taken

Meaning(text, col) == TakenUpTo(text, col)[Len(text)].shown

(* What a terminal of this size would show: the characters one after the  *)
(* other in the cells, which follow each other in a ring.                  *)
Put(acc, g) ==
  IF g.c = "nl"
    THEN [acc EXCEPT !.cell = ((@ \div NUM_COLS + 1) % NUM_ROWS) * NUM_COLS]
    ELSE [cell |-> (acc.cell + 1) % (NUM_COLS * NUM_ROWS),
          cells |-> [acc.cells EXCEPT ![acc.cell] = g]]

DrawnUpTo(start, shown) ==
  LET drawn[k \in Nat] == IF k = 0 THEN start ELSE Put(drawn[k - 1], shown[k])
  IN  drawn

Drawn(start, shown) == DrawnUpTo(start, shown)[Len(shown)]

Shown ==
  Drawn([cell |-> NUM_COLS * call.fromY + call.fromX, cells |-> before],
        Shows[call.text]).cells

(* When kprintStr has returned, every cell but the one of IRQ 1 shows what *)
(* the string means, in its colours, and the rest of the screen is as it   *)
(* was: no interruption of it by a key, no wrap and no escape sequence     *)
(* puts a character elsewhere (gfx_text.cpp:58-141).                       *)
ScreenIsText ==
  at = "ret" /\ call.text \in DOMAIN Shows =>
    \A i \in Cells \ {KEY_CELL} : screen[i] = Shown[i]

(* When the last access of the cursor is over, the two registers hold the  *)
(* position of the program's last character or of the last key, each byte  *)
(* its own choice, with one exception: the high byte of a key never stands *)
(* beside the low byte of the program (gfx_text.cpp:27-32 against          *)
(* interruptions.asm:48-63).                                               *)
CursorMixes ==
  at \in {"loop", "ret"} =>
    LET P == Bytes(out.p + 1)
        K == Bytes(KEY_CELL + 1)
    IN \/ crtc.lo = P.lo /\ crtc.hi = P.hi
       \/ crtc.lo = K.lo /\ crtc.hi \in {P.hi, K.hi}
=============================================================================
