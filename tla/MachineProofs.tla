--------------------------- MODULE MachineProofs ---------------------------
(***************************************************************************)
(* For every screen, every text, every number of keys and any set of       *)
(* machines: where kprintStr reads and stores, what the screen shows when  *)
(* it has returned, what the cursor register holds, how the kernel is      *)
(* entered and left to interrupts, which regions of memory it adds, and    *)
(* what getChar returns.                                                   *)
(***************************************************************************)
EXTENDS Machine, NaturalLemmas

(* Row y, column x is a cell.                                              *)
LEMMA CellIn ==
  ASSUME NEW x \in 0..(NUM_COLS - 1), NEW y \in 0..(NUM_ROWS - 1)
  PROVE  NUM_COLS * y + x \in Cells
<1>1. NUM_COLS \in Nat /\ NUM_ROWS \in Nat /\ NUM_COLS * y \in Nat
  BY ConsoleAssumption
<1>2. NUM_COLS * (y + 1) <= NUM_COLS * NUM_ROWS
  BY <1>1
<1>3. NUM_COLS * (y + 1) = NUM_COLS * y + NUM_COLS
  BY <1>1
<1>4. QED
  BY <1>1, <1>2, <1>3 DEF Cells

LEMMA ModBelow ==
  ASSUME NEW n \in Nat, NEW m \in Nat \ {0}
  PROVE  n % m \in 0..(m - 1)
OBVIOUS

(* The position kprintStr goes on at is on the screen.                     *)
LEMMA WrappedOnScreen ==
  ASSUME NEW x \in Nat, NEW y \in Nat
  PROVE  /\ Wrapped(x, y).x \in 0..(NUM_COLS - 1)
         /\ Wrapped(x, y).y \in 0..(NUM_ROWS - 1)
<1> DEFINE row == IF x >= NUM_COLS THEN y + 1 ELSE y
<1>1. row \in Nat
  OBVIOUS
<1>2. x % NUM_COLS \in 0..(NUM_COLS - 1) /\ row % NUM_ROWS \in 0..(NUM_ROWS - 1)
  BY <1>1, ModBelow, ConsoleAssumption
<1>3. CASE row >= NUM_ROWS
  BY <1>2, <1>3, ConsoleAssumption DEF Wrapped
<1>4. CASE ~(row >= NUM_ROWS)
  BY <1>1, <1>2, <1>4, ConsoleAssumption DEF Wrapped
<1>5. QED
  BY <1>3, <1>4

(* The tests for an escape sequence go on as long as they match.           *)
LEMMA MatchedIs ==
  ASSUME NEW text, NEW s \in Nat, Symbol(text, s) = "esc"
  PROVE  LET n == Matched(text, s)
         IN /\ n \in 1..5
            /\ \A i \in 1..n : Symbol(text, s + i - 1) = Introducer[i]
            /\ n < 5 => Symbol(text, s + n) # Introducer[n + 1]
<1> DEFINE Is(n) == /\ \A i \in 1..n : Symbol(text, s + i - 1) = Introducer[i]
                    /\ n < 5 => Symbol(text, s + n) # Introducer[n + 1]
<1>i. Introducer[1] = "esc"
  BY DEF Introducer
<1>1. \E k \in 1..5 : Is(k)
  <2>1. \A i \in 1..1 : Symbol(text, s + i - 1) = Introducer[i]
    <3>1. \A i \in 1..1 : i = 1 /\ s + i - 1 = s
      OBVIOUS
    <3>2. QED
      BY <3>1, <1>i
  <2>2. CASE Symbol(text, s + 1) # Introducer[2]
    BY <2>1, <2>2
  <2>3. CASE Symbol(text, s + 1) = Introducer[2] /\ Symbol(text, s + 2) # Introducer[3]
    BY <2>1, <2>3
  <2>4. CASE /\ Symbol(text, s + 1) = Introducer[2] /\ Symbol(text, s + 2) = Introducer[3]
             /\ Symbol(text, s + 3) # Introducer[4]
    BY <2>1, <2>4
  <2>5. CASE /\ Symbol(text, s + 1) = Introducer[2] /\ Symbol(text, s + 2) = Introducer[3]
             /\ Symbol(text, s + 3) = Introducer[4] /\ Symbol(text, s + 4) # Introducer[5]
    BY <2>1, <2>5
  <2>6. CASE /\ Symbol(text, s + 1) = Introducer[2] /\ Symbol(text, s + 2) = Introducer[3]
             /\ Symbol(text, s + 3) = Introducer[4] /\ Symbol(text, s + 4) = Introducer[5]
    BY <2>1, <2>6
  <2>7. QED
    BY <2>2, <2>3, <2>4, <2>5, <2>6
<1>2. QED
  BY <1>1 DEF Matched

(* However an escape sequence breaks off, its last character is one of the *)
(* string's.                                                               *)
LEMMA EscapeInString ==
  ASSUME NEW text \in Seq(STRING), NEW s \in Nat \ {0}, NEW col, NEW originalColor,
         Symbol(text, s) = "esc"
  PROVE  Escape(text, s, col, originalColor).s \in s..Len(text)
<1> DEFINE n == Matched(text, s)
           past(i) == IF Symbol(text, i + 1) = "m" THEN i + 1 ELSE i
<1>0. Len(text) \in Nat
  OBVIOUS
<1>i. /\ Introducer[1] = "esc" /\ Introducer[2] = "[" /\ Introducer[3] = "0"
      /\ Introducer[4] = ";" /\ Introducer[5] = "3"
  BY DEF Introducer
<1>1. \A i \in Nat : Symbol(text, i) # "nul" => i <= Len(text)
  BY <1>0 DEF Symbol
<1>3. /\ n \in 1..5
      /\ \A i \in 1..n : Symbol(text, s + i - 1) = Introducer[i]
  BY MatchedIs
<1>4. s + n - 1 <= Len(text)
  <2>1. Symbol(text, s + n - 1) = Introducer[n]
    BY <1>3
  <2>2. Introducer[n] # "nul"
    <3>1. n = 1 \/ n = 2 \/ n = 3 \/ n = 4 \/ n = 5
      BY <1>3
    <3>2. QED
      BY <3>1, <1>i
  <2>3. QED
    BY <1>1, <1>3, <2>1, <2>2
<1>5. \A i \in Nat : i <= Len(text) => past(i) \in i..Len(text)
  BY <1>0, <1>1
<1>6. CASE n = 3 /\ Symbol(text, s + 3) = "m"
  <2>1. s + 3 <= Len(text)
    BY <1>1, <1>6
  <2>2. Escape(text, s, col, originalColor).s = s + 3
    BY <1>6 DEF Escape
  <2>3. QED
    BY <1>0, <2>1, <2>2
<1>7. CASE ~(n = 3 /\ Symbol(text, s + 3) = "m") /\ n < 5
  <2>1. Escape(text, s, col, originalColor).s = s + n - 1
    BY <1>7 DEF Escape
  <2>2. QED
    BY <1>0, <1>3, <1>4, <2>1
<1>8. CASE n = 5 /\ Symbol(text, s + 5) \in Digits
  <2>1. s + 5 <= Len(text)
    BY <1>1, <1>8 DEF Digits
  <2>2. Escape(text, s, col, originalColor).s = past(s + 5)
    BY <1>8 DEF Escape
  <2>3. QED
    BY <1>0, <1>5, <2>1, <2>2
<1>9. CASE n = 5 /\ Symbol(text, s + 5) \notin Digits
  <2>1. Escape(text, s, col, originalColor).s = past(s + 4)
    BY <1>9 DEF Escape
  <2>2. QED
    BY <1>0, <1>4, <1>5, <1>9, <2>1
<1>10. QED
  BY <1>3, <1>6, <1>7, <1>8, <1>9

(* The two sequences the kernel's texts use do what they are for, wherever *)
(* they stand: ESC[0m gives the colour of the call back, and ESC[0;3dm     *)
(* sets the foreground to d; both are passed whole and print nothing       *)
(* (gfx_text.cpp:69-125).                                                  *)
THEOREM SequencesSetColors ==
  ASSUME NEW text, NEW s \in Nat, NEW col, NEW originalColor,
         Symbol(text, s) = "esc", Symbol(text, s + 1) = "[", Symbol(text, s + 2) = "0"
  PROVE  /\ Symbol(text, s + 3) = "m" =>
              Escape(text, s, col, originalColor) =
                [s |-> s + 3, col |-> originalColor, prints |-> FALSE]
         /\ \A d \in Digits :
              /\ Symbol(text, s + 3) = ";" /\ Symbol(text, s + 4) = "3"
              /\ Symbol(text, s + 5) = d /\ Symbol(text, s + 6) = "m"
              => Escape(text, s, col, originalColor) =
                   [s |-> s + 6, col |-> [col EXCEPT !.fg = d], prints |-> FALSE]
<1> DEFINE n == Matched(text, s)
<1>1. /\ Introducer[2] = "[" /\ Introducer[3] = "0"
      /\ Introducer[4] = ";" /\ Introducer[5] = "3"
  BY DEF Introducer
<1>2. /\ n \in 1..5
      /\ \A i \in 1..n : Symbol(text, s + i - 1) = Introducer[i]
      /\ n < 5 => Symbol(text, s + n) # Introducer[n + 1]
  BY MatchedIs
<1> HIDE DEF n
<1>3. ASSUME NEW k \in 1..4, Symbol(text, s + k) = Introducer[k + 1]
      PROVE  n # k
  <2>1. n = k => Symbol(text, s + k) # Introducer[k + 1]
    BY <1>2
  <2>2. QED
    BY <1>3, <2>1
<1>3a. n # 1 /\ n # 2
  <2>1. 1 \in 1..4 /\ 2 \in 1..4 /\ 1 + 1 = 2 /\ 2 + 1 = 3
    OBVIOUS
  <2>2. Symbol(text, s + 1) = Introducer[1 + 1] /\ Symbol(text, s + 2) = Introducer[2 + 1]
    BY <1>1, <2>1
  <2>3. QED
    BY <1>3, <2>1, <2>2
<1>4. n >= 4 => Symbol(text, s + 3) = ";"
  <2>1. n >= 4 => 4 \in 1..n /\ s + 4 - 1 = s + 3
    BY <1>2
  <2>2. QED
    BY <1>1, <1>2, <2>1
<1>5. CASE Symbol(text, s + 3) = "m"
  <2>1. n = 3
    <3>1. ~(n >= 4)
      BY <1>4, <1>5
    <3>2. QED
      BY <1>2, <1>3a, <3>1
  <2>2. Escape(text, s, col, originalColor) =
          [s |-> s + 3, col |-> originalColor, prints |-> FALSE]
    BY <1>5, <2>1 DEF Escape, n
  <2>3. QED
    BY <1>5, <2>2
<1>6. ASSUME NEW d \in Digits, Symbol(text, s + 3) = ";", Symbol(text, s + 4) = "3",
             Symbol(text, s + 5) = d, Symbol(text, s + 6) = "m"
      PROVE  Escape(text, s, col, originalColor) =
               [s |-> s + 6, col |-> [col EXCEPT !.fg = d], prints |-> FALSE]
  <2>1. n # 3 /\ n # 4
    <3>1. 3 \in 1..4 /\ 4 \in 1..4 /\ 3 + 1 = 4 /\ 4 + 1 = 5
      OBVIOUS
    <3>2. Symbol(text, s + 3) = Introducer[3 + 1] /\ Symbol(text, s + 4) = Introducer[4 + 1]
      BY <1>1, <1>6, <3>1
    <3>3. QED
      BY <1>3, <3>1, <3>2
  <2>2. Matched(text, s) = 5 /\ s + 5 + 1 = s + 6
    BY <1>2, <1>3a, <2>1 DEF n
  <2>3. Escape(text, s, col, originalColor) =
          [s |-> s + 5 + 1, col |-> [col EXCEPT !.fg = d], prints |-> FALSE]
    <3>1. Symbol(text, s + 5) \in Digits /\ Symbol(text, s + 5 + 1) = "m"
          /\ Symbol(text, s + 5) = d
      BY <1>6, <2>2
    <3>2. ~(5 = 3) /\ ~(5 < 5)
      OBVIOUS
    <3>3. QED
      BY <2>2, <3>1, <3>2 DEF Escape
  <2>4. QED
    BY <2>2, <2>3
<1>7. QED
  BY <1>5, <1>6

-----------------------------------------------------------------------------
(* kmain has cleared the screen: there is a last character.                *)
Started == InKernel /\ pc \notin {"cli", "clrscr"}

(* The fields of the two records, whatever the colours.                    *)
CallIs ==
  /\ call = [text |-> call.text, s |-> call.s, x |-> call.x, y |-> call.y,
             col |-> call.col, originalColor |-> call.originalColor,
             fromX |-> call.fromX, fromY |-> call.fromY]
  /\ call.text \in Seq(STRING)
  /\ call.s \in 1..(Len(call.text) + 1)
  /\ call.x \in 0..(NUM_COLS - 1)
  /\ call.y \in 0..(NUM_ROWS - 1)

(* The index and the position between two rounds of the loop; kprintStr    *)
(* runs only once the screen is cleared, which gives out.p its first value.*)
PrintInv ==
  /\ CallIs
  /\ at # "ret" => Started
  /\ Started => out.p \in Cells

(* A round that steps over n characters of the string stays in it.         *)
LEMMA MovedIn ==
  ASSUME CallIs, NEW s \in 0..Len(call.text), NEW x \in Nat, NEW y \in Nat, NEW col,
         Moved(s, x, y, col)
  PROVE  CallIs'
<1>1. /\ Wrapped(x, y).x \in 0..(NUM_COLS - 1)
      /\ Wrapped(x, y).y \in 0..(NUM_ROWS - 1)
  BY WrappedOnScreen
<1>2. call' = [text |-> call.text, s |-> s + 1, x |-> Wrapped(x, y).x,
               y |-> Wrapped(x, y).y, col |-> col,
               originalColor |-> call.originalColor,
               fromX |-> call.fromX, fromY |-> call.fromY]
  BY DEF CallIs, Moved
<1>3. Len(call.text) \in Nat
  BY DEF CallIs
<1>4. QED
  BY <1>1, <1>2, <1>3 DEF CallIs

LEMMA LoopStep ==
  ASSUME CallIs, Loop
  PROVE  CallIs' /\ (UNCHANGED out \/ out'.p \in Cells)
<1> DEFINE c == Symbol(call.text, call.s)
           e == Escape(call.text, call.s, call.col, call.originalColor)
<1>0. /\ Len(call.text) \in Nat /\ call.s \in Nat \ {0}
      /\ call.x \in Nat /\ call.y \in Nat
  BY ConsoleAssumption DEF CallIs
<1>1. c # "nul" => call.s \in 0..Len(call.text)
  BY <1>0 DEF Symbol
<1>2. ASSUME NEW ch, NEW color, Prints(ch, color)
      PROVE  out'.p \in Cells
  BY <1>2, CellIn DEF Prints, CallIs
<1>3. CASE c = "nul" /\ UNCHANGED <<call, out>>
  BY <1>3 DEF CallIs
<1>4. CASE c = "nl" /\ Moved(call.s, 0, call.y + 1, call.col) /\ UNCHANGED out
  BY <1>0, <1>1, <1>4, MovedIn
<1>5. CASE /\ c = "esc"
           /\ Moved(e.s, call.x + IF e.prints THEN 1 ELSE 0, call.y, e.col)
           /\ IF e.prints THEN Prints("G", [bg |-> "black", fg |-> "pink"])
                          ELSE UNCHANGED <<at, out>>
  <2>1. e.s \in call.s..Len(call.text)
    BY <1>0, <1>5, EscapeInString DEF CallIs
  <2>2. e.s \in 0..Len(call.text)
    BY <1>0, <2>1
  <2>3. call.x + (IF e.prints THEN 1 ELSE 0) \in Nat
    BY <1>0
  <2>4. CallIs'
    BY <1>0, <1>5, <2>2, <2>3, MovedIn
  <2>5. UNCHANGED out \/ out'.p \in Cells
    BY <1>2, <1>5
  <2>6. QED
    BY <2>4, <2>5
<1>6. CASE /\ c \notin {"nul", "nl", "esc"}
           /\ Moved(call.s, call.x + 1, call.y, call.col)
           /\ Prints(c, call.col)
  <2>1. CallIs'
    BY <1>0, <1>1, <1>6, MovedIn
  <2>2. QED
    BY <1>2, <1>6, <2>1
<1>7. QED
  BY <1>3, <1>4, <1>5, <1>6 DEF Loop

LEMMA CallStarts ==
  ASSUME NEW text \in Seq(STRING), NEW x \in Nat, NEW y \in Nat, NEW col,
         kprintStr(text, x, y, col)
  PROVE  CallIs'
<1>1. x % NUM_COLS \in 0..(NUM_COLS - 1) /\ y % NUM_ROWS \in 0..(NUM_ROWS - 1)
  BY ModBelow, ConsoleAssumption
<1>2. call' = [text |-> text, s |-> 1, x |-> x % NUM_COLS, y |-> y % NUM_ROWS,
               col |-> col, originalColor |-> col,
               fromX |-> x % NUM_COLS, fromY |-> y % NUM_ROWS]
  BY DEF kprintStr
<1>3. Len(text) \in Nat
  OBVIOUS
<1>4. QED
  BY <1>1, <1>2, <1>3 DEF CallIs

LEMMA LastCell == NUM_COLS * NUM_ROWS - 1 \in Cells
<1>1. NUM_COLS * NUM_ROWS \in Nat \ {0}
  BY ConsoleAssumption
<1>2. QED
  BY <1>1 DEF Cells

(* The rows the memory map is printed in are numbered.                     *)
Numbered == slot \in Nat

LEMMA SlotStep == Numbered /\ [Next]_allVars => Numbered'
<1> SUFFICES ASSUME Numbered, [Next]_allVars
             PROVE  Numbered'
  OBVIOUS
<1> USE DEF Numbered
<1>1. CASE MapMemory
  BY <1>1 DEF MapMemory, Asked
<1>2. CASE LoadMemory
  BY <1>2 DEF LoadMemory, StartReading, AddEntry, Says, mapVars
<1>3. CASE UNCHANGED slot
  BY <1>3
<1>4. ASSUME Program, ~MapMemory, ~LoadMemory
      PROVE  UNCHANGED slot
  BY <1>4 DEF Program, ReadDisk, SendCommand, SendData, CheckA20, CheckCPU,
              CheckLongMode, MaskLines, LoadNullIdt, EnterKernel, Cli, ClearScreen,
              RemapIrqs, LoadKernelIdt, Sti, Reports, Says, Syscall, bootVars, mapVars
<1>5. QED
  BY <1>1, <1>2, <1>3, <1>4
     DEF Next, BootNext, KbcTakes, Devices, Reads, Typed, allVars, bootVars, mapVars

(* No step takes kprintStr out of its string or off the screen.            *)
LEMMA PrintInvStep == Numbered /\ PrintInv /\ [Next]_allVars => PrintInv'
<1> SUFFICES ASSUME Numbered, PrintInv, [Next]_allVars
             PROVE  PrintInv'
  OBVIOUS
<1> USE DEF PrintInv
<1>1. CASE /\ UNCHANGED <<at, call, out>>
           /\ Started' <=> Started
  BY <1>1 DEF CallIs
<1>2. CASE Loop /\ UNCHANGED bootVars
  BY <1>2, LoopStep DEF Loop, bootVars, Started, InKernel
<1>3. CASE (StoreChar \/ StoreColor \/ setCursorPosition) /\ UNCHANGED bootVars
  BY <1>3 DEF StoreChar, StoreColor, setCursorPosition, Select, WriteByte, Access,
              CallIs, bootVars, Started, InKernel
<1>4. CASE ClearScreen
  <2>1. out'.p \in Cells /\ UNCHANGED <<at, call>>
    BY <1>4, LastCell DEF ClearScreen, clrscr
  <2>2. at' = "ret" /\ CallIs'
    BY <1>4, <2>1 DEF ClearScreen, Goes, CallIs
  <2>3. QED
    BY <2>1, <2>2
<1>5. ASSUME NEW from, NEW to \in {"gdt", "remap", "paging", "add", "return"},
             NEW text \in Seq(STRING), NEW x \in Nat, NEW y \in Nat,
             Started, Says(from, to, text, x, y)
      PROVE  PrintInv'
  <2>1. CallIs'
    BY <1>5, CallStarts DEF Says
  <2>2. Started' /\ UNCHANGED out
    BY <1>5 DEF Says, Goes, kprintStr, Started, InKernel
  <2>3. QED
    BY <1>5, <2>1, <2>2
<1>6. CASE Reports
  <2>1. CASE Says("started", "gdt", Banner, 0, 2) \/ Says("gdt", "remap", Banner, 0, 3)
    BY <1>5, <2>1, BootAssumption DEF Says, Goes, Started, InKernel
  <2>2. CASE Says("idt", "paging", Banner, 0, 4)
    BY <1>5, <2>2, BootAssumption DEF Says, Goes, Started, InKernel
  <2>3. ASSUME NEW m \in Messages, Says("main", "return", m.text, m.x, m.y)
        PROVE  PrintInv'
    <3>1. m.text \in Seq(STRING) /\ m.x \in Nat /\ m.y \in Nat
      BY BootAssumption
    <3>2. Started
      BY <2>3 DEF Says, Goes, Started, InKernel
    <3>3. QED
      BY <1>5, <2>3, <3>1, <3>2
  <2>4. QED
    BY <1>6, <2>1, <2>2, <2>3 DEF Reports
<1>6a. CASE LoadMemory
  <2>1. CASE More /\ Says("entry", "add", Banner, 1, 9 + slot)
    <3>1. Started
      BY <2>1 DEF Says, Goes, Started, InKernel
    <3>2. Banner \in Seq(STRING) /\ 9 + slot \in Nat
      BY BootAssumption DEF Numbered
    <3>3. QED
      BY <1>5, <2>1, <3>1, <3>2
  <2>2. CASE \/ Goes("paging", "entry") /\ UNCHANGED consoleVars
             \/ Goes("add", "entry") /\ UNCHANGED consoleVars
             \/ Goes("entry", "main") /\ UNCHANGED consoleVars
    BY <1>1, <2>2 DEF Goes, consoleVars, Started, InKernel
  <2>3. QED
    BY <1>6a, <2>1, <2>2 DEF LoadMemory
<1>7. CASE \/ ReadDisk \/ MapMemory \/ SendCommand \/ SendData \/ CheckA20 \/ CheckCPU
           \/ CheckLongMode \/ MaskLines \/ LoadNullIdt \/ EnterKernel
           \/ Cli \/ RemapIrqs \/ LoadKernelIdt \/ Sti \/ Syscall
  <2>1. UNCHANGED <<at, call, out>> /\ (Started' <=> Started)
    BY <1>7 DEF ReadDisk, MapMemory, SendCommand, SendData, CheckA20, CheckCPU, CheckLongMode,
                MaskLines, LoadNullIdt, EnterKernel, Cli, RemapIrqs, LoadKernelIdt,
                Sti, Syscall, Goes, consoleVars, Started, InKernel, Hang
  <2>2. QED
    BY <1>1, <2>1
<1>8. CASE KbcTakes \/ Devices
  <2>1. UNCHANGED <<at, call, out>> /\ (Started' <=> Started)
    BY <1>8 DEF KbcTakes, Devices, Tick, Press, Stray, consoleVars, bootVars,
                Started, InKernel
  <2>2. QED
    BY <1>1, <2>1
<1>9. CASE Handler /\ UNCHANGED bootVars
  <2>1. UNCHANGED <<at, call, out>>
    BY <1>9 DEF Handler, BiosHandles, TripleFaults, Enter, ReadKey, KeyPrinted,
                EoiIret, consoleVars
  <2>2. Started' <=> Started
    BY <1>9 DEF bootVars, Started, InKernel
  <2>3. QED
    BY <1>1, <2>1, <2>2
<1>10. CASE UNCHANGED <<consoleVars, bootVars>>
  BY <1>1, <1>10 DEF consoleVars, bootVars, Started, InKernel
<1>11. QED
  BY <1>2, <1>3, <1>4, <1>6, <1>6a, <1>7, <1>8, <1>9, <1>10
     DEF Next, BootNext, Program, PrintStep, Reads, Typed, allVars

LEMMA PrintInvInit == Init => PrintInv
<1> SUFFICES ASSUME Init
             PROVE  PrintInv
  OBVIOUS
<1>1. /\ call = [text |-> <<>>, s |-> 1, x |-> 0, y |-> 0,
                 col |-> [bg |-> "blue", fg |-> "white"],
                 originalColor |-> [bg |-> "blue", fg |-> "white"],
                 fromX |-> 0, fromY |-> 0]
      /\ at = "ret" /\ pc = "read"
  BY DEF Init, BootInit, ConsoleInit
<1>2. <<>> \in Seq(STRING) /\ Len(<<>>) = 0
  OBVIOUS
<1>3. CallIs
  BY <1>1, <1>2, ConsoleAssumption DEF CallIs
<1>4. QED
  BY <1>1, <1>3 DEF PrintInv, Started, InKernel

(* kprintStr looks at no character after the terminator and stores nothing *)
(* outside the screen (gfx_text.cpp:58-141).                               *)
THEOREM AlwaysPrintsInBounds == Spec => []PrintInBounds
<1>2. PrintInv => PrintInBounds
  BY DEF PrintInv, PrintInBounds, CallIs
<1>3. Init => Numbered
  BY DEF Init, BootInit, MapInit, Numbered
<1>4. QED
  BY <1>2, <1>3, PrintInvInit, SlotStep, PrintInvStep, PTL DEF Spec

-----------------------------------------------------------------------------
(* The lemmas of PrintInvStep on who may touch the console, as one.        *)
LEMMA ConsoleStep ==
  ASSUME [Next]_allVars
  PROVE  \/ UNCHANGED consoleVars
         \/ at = "ret" /\ clrscr(Black)
         \/ \E text, x, y : kprintStr(text, x, y, Black)
         \/ PrintStep
         \/ \E c : KeyPrinted(c)
<1>1. CASE ClearScreen
  BY <1>1 DEF ClearScreen, Goes
<1>2. CASE Reports \/ LoadMemory
  BY <1>2 DEF Reports, LoadMemory, Says
<1>3. CASE /\ Program
           /\ ~ClearScreen /\ ~Reports /\ ~LoadMemory
  BY <1>3 DEF Program, ReadDisk, MapMemory, SendCommand, SendData, CheckA20, CheckCPU,
              CheckLongMode, MaskLines, LoadNullIdt, EnterKernel, Cli, RemapIrqs,
              LoadKernelIdt, Sti, Syscall
<1>4. CASE KbcTakes \/ Devices
  BY <1>4 DEF KbcTakes, Devices, Tick, Press, Stray
<1>5. CASE Handler
  BY <1>5 DEF Handler, BiosHandles, TripleFaults, Enter, ReadKey, EoiIret
<1>6. CASE UNCHANGED consoleVars
  BY <1>6
<1>7. QED
  BY <1>1, <1>2, <1>3, <1>4, <1>5, <1>6 DEF Next, BootNext, Reads, Typed, allVars

(* The bytes of the program's last position, and of the keys'.             *)
ProgramAt == Bytes(out.p + 1)

KeyAt == Bytes(KEY_CELL + 1)

(* The registers hold bytes, and the last position is one of the screen,   *)
(* or -1 before the first.                                                 *)
CursorType ==
  /\ ConsoleTypeOK
  /\ out.p \in Cells \cup {-1}

(* Between the four writes: what the selected register and the low byte    *)
(* may be.  A key in between leaves the high register selected, so the     *)
(* program's low byte may be written over the key's high one.              *)
CursorInv ==
  /\ CursorType
  /\ at = "writeLo" => crtc.index = "lo" \/ crtc.lo = KeyAt.lo
  /\ at \in {"selectHi", "writeHi"} => crtc.lo \in {ProgramAt.lo, KeyAt.lo}
  /\ at = "writeHi" => crtc.index = "hi"
  /\ CursorMixes

LEMMA BytesType ==
  ASSUME NEW n \in Nat
  PROVE  Bytes(n) \in [lo: 0..(BYTE - 1), hi: 0..(BYTE - 1)]
<1>1. BYTE \in Nat \ {0} /\ n \div BYTE \in Nat
  BY ConsoleAssumption
<1>2. n % BYTE \in 0..(BYTE - 1) /\ (n \div BYTE) % BYTE \in 0..(BYTE - 1)
  BY <1>1, ModBelow
<1>3. QED
  BY <1>2 DEF Bytes

LEMMA CursorAtType ==
  ASSUME NEW n \in Nat
  PROVE  /\ CursorAt(n) \in [index: {"lo", "hi"}, lo: 0..(BYTE - 1), hi: 0..(BYTE - 1)]
         /\ CursorAt(n).index = "hi"
         /\ CursorAt(n).lo = Bytes(n).lo
         /\ CursorAt(n).hi = Bytes(n).hi
BY BytesType DEF CursorAt

LEMMA CellsNat == Cells \subseteq Nat /\ KEY_CELL \in Nat
<1>1. KEY_CELL \in Cells
  BY CellIn, ConsoleAssumption DEF KEY_CELL
<1>2. Cells \subseteq Nat
  BY ConsoleAssumption DEF Cells
<1>3. QED
  BY <1>1, <1>2

LEMMA CursorInvStep ==
  CursorInv /\ Numbered /\ PrintInv /\ PrintInv' /\ [Next]_allVars => CursorInv'
<1> SUFFICES ASSUME CursorInv, Numbered, PrintInv, PrintInv', [Next]_allVars
             PROVE  CursorInv'
  OBVIOUS
<1> USE DEF CursorInv, CursorType, ConsoleTypeOK, CursorMixes
<1>0. at' # "ret" => out'.p \in Cells
  BY DEF PrintInv
<1>a. at # "ret" => out.p \in Cells
  BY DEF PrintInv
<1>t. ProgramAt \in [lo: 0..(BYTE - 1), hi: 0..(BYTE - 1)]
  <2>1. out.p = -1 \/ out.p \in Nat
    BY CellsNat
  <2>2. out.p + 1 \in Nat
    BY <2>1
  <2>3. QED
    BY <2>2, BytesType DEF ProgramAt
<1>1. CASE UNCHANGED consoleVars
  BY <1>1 DEF consoleVars, ProgramAt, KeyAt
<1>2. CASE at = "ret" /\ clrscr(Black)
  <2> DEFINE n == NUM_COLS * NUM_ROWS
  <2>1. n \in Nat \ {0} /\ n - 1 + 1 = n
    BY ConsoleAssumption
  <2>2. /\ crtc' = CursorAt(n) /\ out'.p = n - 1 /\ at' = "ret"
        /\ DOMAIN screen' = Cells
    BY <1>2 DEF clrscr
  <2>3. crtc' \in [index: {"lo", "hi"}, lo: 0..(BYTE - 1), hi: 0..(BYTE - 1)]
        /\ crtc'.lo = Bytes(n).lo /\ crtc'.hi = Bytes(n).hi
    BY <2>1, <2>2, CursorAtType
  <2>4. Bytes(out'.p + 1) = Bytes(n)
    BY <2>1, <2>2
  <2>5. out'.p \in Cells
    BY <2>2, LastCell
  <2>6. QED
    BY <2>2, <2>3, <2>4, <2>5
<1>3. ASSUME NEW text, NEW x, NEW y, kprintStr(text, x, y, Black)
      PROVE  CursorInv'
  BY <1>3 DEF kprintStr
<1>4. CASE Loop
  <2>1. UNCHANGED <<screen, crtc>> /\ at = "loop"
        /\ (at' = "char" \/ (at' \in {"ret", "loop"} /\ UNCHANGED out))
    BY <1>4 DEF Loop, Prints
  <2>2. QED
    BY <1>0, <2>1
<1>5. CASE StoreChar \/ StoreColor
  BY <1>5, <1>0 DEF StoreChar, StoreColor, Access
<1>6. CASE Select("selectLo", "writeLo", "lo")
  BY <1>6 DEF Select, Access
<1>7. CASE WriteByte("writeLo", "selectHi", Bytes(out.p + 1).lo)
  BY <1>7, <1>t DEF WriteByte, Access, ProgramAt, KeyAt
<1>8. CASE Select("selectHi", "writeHi", "hi")
  BY <1>8 DEF Select, Access, ProgramAt, KeyAt
<1>9. CASE WriteByte("writeHi", "loop", Bytes(out.p + 1).hi)
  BY <1>9, <1>t DEF WriteByte, Access, ProgramAt, KeyAt
<1>10. ASSUME NEW c, KeyPrinted(c)
       PROVE  CursorInv'
  <2>1. KEY_CELL + 1 \in Nat
    BY CellsNat
  <2>2. /\ crtc' \in [index: {"lo", "hi"}, lo: 0..(BYTE - 1), hi: 0..(BYTE - 1)]
        /\ crtc'.index = "hi" /\ crtc'.lo = KeyAt.lo /\ crtc'.hi = KeyAt.hi
    BY <1>10, <2>1, CursorAtType DEF KeyPrinted, KeyAt
  <2>3. DOMAIN screen' = Cells /\ UNCHANGED <<at, out>>
    BY <1>10 DEF KeyPrinted
  <2>4. QED
    BY <2>2, <2>3 DEF KeyAt
<1>11. QED
  BY <1>1, <1>2, <1>3, <1>4, <1>5, <1>6, <1>7, <1>8, <1>9, <1>10, ConsoleStep
     DEF PrintStep, setCursorPosition

LEMMA ConsoleInvInit == Init => Numbered /\ PrintInv /\ CursorInv
<1> SUFFICES ASSUME Init
             PROVE  Numbered /\ PrintInv /\ CursorInv
  OBVIOUS
<1>1. Numbered
  BY DEF Init, BootInit, MapInit, Numbered
<1>2. /\ crtc = CursorAt(0) /\ at = "ret" /\ out.p = -1 /\ DOMAIN screen = Cells
  BY DEF Init, BootInit, ConsoleInit
<1>3. 0 \in Nat /\ -1 + 1 = 0
  OBVIOUS
<1>4. CursorType
  BY <1>2, <1>3, CursorAtType DEF CursorType, ConsoleTypeOK
<1>5. CursorMixes
  BY <1>2, <1>3, CursorAtType DEF CursorMixes
<1>6. CursorInv
  BY <1>2, <1>4, <1>5 DEF CursorInv
<1>7. QED
  BY <1>1, <1>6, PrintInvInit

LEMMA ConsoleInvariant == Spec => [](Numbered /\ PrintInv /\ CursorInv)
BY ConsoleInvInit, SlotStep, PrintInvStep, CursorInvStep, PTL DEF Spec

(* Whatever a key interrupts, the cursor's two registers hold the position *)
(* of the program's last character or of the key, or the low byte of the   *)
(* key beside the high one of the program, and nothing else                *)
(* (gfx_text.cpp:27-32 against interruptions.asm:48-63).                   *)
THEOREM CursorAlwaysMixes == Spec => []CursorMixes
<1>1. CursorInv => CursorMixes
  BY DEF CursorInv
<1>2. QED
  BY <1>1, ConsoleInvariant, PTL

-----------------------------------------------------------------------------

(* No step but keyboard() and getChar's own touches the ring.              *)
LEMMA RingStep ==
  [Next]_allVars => keyboard \/ GetChar \/ GetCharStep \/ UNCHANGED kbVars
BY DEF Next, Reads, Typed, allVars

(* The ring holds the last RING characters, counted back from the newest;  *)
(* once getChar has seen the counter move, the slot it is going to read    *)
(* only ever gets newer.                                                   *)
RingInv ==
  /\ keyboard_vez \in Nat /\ got \in Nat
  /\ get \in [at: {"ret", "test", "aux", "pick"}, time: Nat, aux: Nat]
  /\ buffer = [i \in 0..(RING - 1) |->
                 IF i < keyboard_vez THEN keyboard_vez - i ELSE 0]
  /\ get.time <= keyboard_vez
  /\ get.at = "aux" => get.time < keyboard_vez
  /\ get.at = "pick" => 0 < get.aux /\ get.time + get.aux <= keyboard_vez
  /\ GetCharFresh

LEMMA RingInvStep == RingInv /\ [Next]_allVars => RingInv'
<1> SUFFICES ASSUME RingInv, [Next]_allVars
             PROVE  RingInv'
  OBVIOUS
<1> USE KeyboardAssumption DEF RingInv, GetCharFresh
<1>1. CASE keyboard
  <2>1. buffer' = [i \in 0..(RING - 1) |->
                     IF i < keyboard_vez + 1 THEN keyboard_vez + 1 - i ELSE 0]
    BY <1>1 DEF keyboard
  <2>2. QED
    BY <1>1, <2>1 DEF keyboard
<1>2. CASE GetChar
  BY <1>2 DEF GetChar
<1>3. CASE Test
  BY <1>3 DEF Test
<1>4. CASE Aux
  <2>1. get.time < keyboard_vez /\ keyboard_vez - get.time \in Nat
    BY <1>4 DEF Aux
  <2>2. get' = [get EXCEPT !.at = "pick", !.aux = keyboard_vez - get.time]
        /\ UNCHANGED <<keyboard_vez, buffer, got>>
    BY <1>4 DEF Aux
  <2>3. get' = [at |-> "pick", time |-> get.time, aux |-> keyboard_vez - get.time]
    BY <2>2
  <2>4. get.time + (keyboard_vez - get.time) <= keyboard_vez /\ 0 < keyboard_vez - get.time
    BY <2>1
  <2>5. QED
    BY <2>1, <2>2, <2>3, <2>4
<1>5. CASE Pick
  <2> DEFINE place == IF get.aux >= RING THEN RING - 1 ELSE get.aux - 1
  <2>1. place \in 0..(RING - 1) /\ place < get.aux
    BY <1>5 DEF Pick
  <2>2. got' = keyboard_vez - place /\ got' > get.time
    BY <1>5, <2>1 DEF Pick
  <2>3. QED
    BY <1>5, <2>2 DEF Pick
<1>6. CASE UNCHANGED kbVars
  BY <1>6 DEF kbVars
<1>7. QED
  BY <1>1, <1>2, <1>3, <1>4, <1>5, <1>6, RingStep DEF GetCharStep

(* getChar never returns a character typed before it was called, however   *)
(* many arrive while it looks (stdio.cpp:42-56, 89-96).                    *)
THEOREM GetCharAlwaysFresh == Spec => []GetCharFresh
<1>1. Init => RingInv
  BY KeyboardAssumption DEF Init, KeyboardInit, RingInv, GetCharFresh
<1>2. RingInv => GetCharFresh
  BY DEF RingInv
<1>3. QED
  BY <1>1, <1>2, RingInvStep, PTL DEF Spec

-----------------------------------------------------------------------------
CpuType ==
  /\ cpu \in [if: BOOLEAN, idt: {"bios", "null", "kernel"},
              in: {"program", "read", "eoi", "stopped", "reset"}]
  /\ pic \in [masked: BOOLEAN, irr: SUBSET {Lines[i] : i \in 1..3},
              isr: SUBSET {Lines[i] : i \in 1..3}]
  /\ a20 \in BOOLEAN

RealMode == {"read", "map", "command", "data", "check", "cpuid", "extended", "mask",
             "lidt0", Hang}

Switched == {"jump", "cli", "wild"}

Closed == {"clrscr", "started", "gdt", "remap", "lidt", "sti"}

(* What keeps interrupts from an IDT that is not the kernel's, from the    *)
(* mask to sti.                                                            *)
Phases ==
  /\ pc \in RealMode \cup Switched \cup Closed
              \cup {"idt", "paging", "entry", "add", "main", "return", "spin"}
  /\ pc \in RealMode => cpu.idt = "bios" /\ cpu.in = "program"
  /\ pc \in Switched \cup {"lidt0"} => pic.masked /\ cpu.in = "program"
  /\ pc \in Closed => ~cpu.if /\ cpu.in = "program"
  /\ InterruptsOn \/ pc = "sti" => cpu.idt = "kernel"
  /\ InterruptsOn => cpu.in # "reset" /\ (cpu.if <=> cpu.in = "program")

(* What the checks have found by then.                                     *)
Checked ==
  /\ pc \in {"cpuid", "extended", "mask", "lidt0"} \cup Switched \/ InKernel => a20
  /\ pc \in {"mask", "lidt0"} \cup Switched \/ InKernel => env.cpu = "long"

PrepInv == CpuType /\ Phases /\ Checked

LEMMA LinesAre == {Lines[i] : i \in 1..3} = {"timer", "keyboard", "stray"}
BY DEF Lines

LEMMA PrepInvInit == Init => PrepInv
<1> SUFFICES ASSUME Init
             PROVE  PrepInv
  OBVIOUS
<1>1. env \in Machines
  BY MachineAssumption DEF Init, BootInit
<1>2. CpuType
  BY <1>1 DEF Init, BootInit, InterruptsInit, CpuType, Machines
<1>3. Phases /\ Checked
  BY DEF Init, BootInit, InterruptsInit, Phases, Checked, RealMode, Switched,
         Closed, InterruptsOn, InKernel, Hang
<1>4. QED
  BY <1>2, <1>3 DEF PrepInv

LEMMA PrepInvStep == PrepInv /\ [Next]_allVars => PrepInv'
<1> SUFFICES ASSUME PrepInv, [Next]_allVars
             PROVE  PrepInv'
  OBVIOUS
<1> USE DEF PrepInv, CpuType, Phases, Checked, RealMode, Switched, Closed,
            InterruptsOn, InKernel, Hang
<1>1. CASE ReadDisk
  BY <1>1 DEF ReadDisk, Goes, intVars
<1>1a. CASE MapMemory
  BY <1>1a DEF MapMemory, Goes, intVars
<1>2. CASE SendCommand
  BY <1>2 DEF SendCommand, Goes, intVars
<1>3. CASE SendData
  BY <1>3 DEF SendData, Goes, intVars
<1>4. CASE CheckA20
  BY <1>4 DEF CheckA20, Goes, intVars
<1>5. CASE CheckCPU
  BY <1>5 DEF CheckCPU, Goes, intVars
<1>6. CASE CheckLongMode
  BY <1>6 DEF CheckLongMode, Goes, intVars
<1>7. CASE MaskLines
  BY <1>7 DEF MaskLines, Goes, Running, intVars, MaskAll
<1>8. CASE LoadNullIdt
  BY <1>8 DEF LoadNullIdt, Goes, Running, intVars, LoadIdt
<1>9. CASE EnterKernel
  BY <1>9 DEF EnterKernel, Goes, Running, intVars
<1>10. CASE Cli
  BY <1>10 DEF Cli, Goes, Running, intVars, SetIf
<1>11. CASE ClearScreen
  BY <1>11 DEF ClearScreen, Goes, Running, intVars
<1>12. CASE RemapIrqs
  <2>1. pic' \in [masked: BOOLEAN, irr: SUBSET {Lines[i] : i \in 1..3},
                  isr: SUBSET {Lines[i] : i \in 1..3}]
    <3>1. PICK again \in SUBSET {"keyboard"} :
            pic' = [masked |-> FALSE, irr |-> again, isr |-> {}]
      BY <1>12 DEF RemapIrqs, remap_irqs
    <3>2. QED
      BY <3>1, LinesAre
  <2>2. QED
    BY <1>12, <2>1 DEF RemapIrqs, Goes, Running, remap_irqs
<1>13. CASE LoadKernelIdt
  BY <1>13 DEF LoadKernelIdt, Goes, Running, intVars, LoadIdt
<1>14. CASE Sti
  BY <1>14 DEF Sti, Goes, Running, intVars, SetIf
<1>15. CASE Reports
  BY <1>15 DEF Reports, Goes, Running, intVars, Says
<1>15a. CASE LoadMemory
  BY <1>15a DEF LoadMemory, Goes, Running, intVars, Says
<1>16. CASE Syscall
  BY <1>16 DEF Syscall, Goes, Running, intVars
<1>17. CASE KbcTakes
  BY <1>17 DEF KbcTakes, intVars
<1>18. CASE Devices
  <2>1. PICK l \in {"timer", "keyboard", "stray"} : pic' = [pic EXCEPT !.irr = @ \cup {l}]
    BY <1>18 DEF Devices, Tick, Press, Stray, Raised
  <2>2. pic' \in [masked: BOOLEAN, irr: SUBSET {Lines[i] : i \in 1..3},
                  isr: SUBSET {Lines[i] : i \in 1..3}]
    BY <2>1, LinesAre
  <2>3. pic'.masked = pic.masked
    BY <2>1
  <2>4. QED
    BY <1>18, <2>2, <2>3 DEF Devices, Tick, Press, Stray, bootVars
<1>19. ASSUME NEW l \in {Lines[i] : i \in 1..3}, BiosHandles(l), UNCHANGED bootVars
      PROVE  PrepInv'
  BY <1>19 DEF BiosHandles, Deliverable, bootVars
<1>20. ASSUME NEW l \in {Lines[i] : i \in 1..3}, TripleFaults(l), UNCHANGED bootVars
      PROVE  PrepInv'
  BY <1>20 DEF TripleFaults, Deliverable, Running, bootVars
<1>21. ASSUME NEW l \in {Lines[i] : i \in 1..3}, Enter(l), UNCHANGED bootVars
      PROVE  PrepInv'
  BY <1>21 DEF Enter, Deliverable, Running, bootVars
<1>22. CASE ReadKey /\ UNCHANGED bootVars
  BY <1>22 DEF ReadKey, bootVars
<1>23. CASE EoiIret /\ UNCHANGED bootVars
  BY <1>23 DEF EoiIret, bootVars
<1>24. CASE UNCHANGED <<intVars, bootVars>>
  BY <1>24 DEF intVars, bootVars
<1>25. QED
  BY <1>1, <1>1a, <1>2, <1>3, <1>4, <1>5, <1>6, <1>7, <1>8, <1>9, <1>10, <1>11, <1>12,
     <1>13, <1>14, <1>15, <1>15a, <1>16, <1>17, <1>18, <1>19, <1>20, <1>21, <1>22, <1>23, <1>24
     DEF Next, BootNext, Program, Handler, Reads, Typed, allVars

(* The kernel is entered with A20 on and in long mode, and no interrupt    *)
(* reaches it before its IDT is loaded (kernel_64.asm:6-32, 84-88,         *)
(* a20_high_memory.asm:23-43, start_kernel.asm:48, idt.cpp:95-108).        *)
THEOREM AlwaysEntersPrepared == Spec => []EntersPrepared
<1>1. PrepInv => EntersPrepared
  BY DEF PrepInv, CpuType, Phases, Checked, EntersPrepared, InKernel, InterruptsOn,
         Switched, Closed
<1>2. QED
  BY <1>1, PrepInvInit, PrepInvStep, PTL DEF Spec

(* The zero-length IDT is never used.                                      *)
THEOREM NeverTripleFaults == Spec => []NoTripleFault
<1>1. PrepInv => NoTripleFault
  BY DEF PrepInv, Phases, NoTripleFault, RealMode, Switched, Closed, InterruptsOn
<1>2. QED
  BY <1>1, PrepInvInit, PrepInvStep, PTL DEF Spec

-----------------------------------------------------------------------------
(* The function the kernel's walk computes satisfies its equation.         *)
LEMMA UsableAmongDef ==
  ASSUME NEW map \in Seq(Entry)
  PROVE  /\ UsableAmong(map)[0] = <<>>
         /\ \A n \in 1..Len(map) :
              UsableAmong(map)[n] =
                IF Usable(map[n]) THEN Append(UsableAmong(map)[n - 1], map[n])
                                  ELSE UsableAmong(map)[n - 1]
<1> DEFINE D == Seq(Entry)
           next(n, s) == IF Usable(map[n]) THEN Append(s, map[n]) ELSE s
           step == [q \in Nat \X D |->
                      IF q[1] \in 1..Len(map) THEN next(q[1], q[2]) ELSE <<>>]
           F == UsableAmong(map)
<1>0. Len(map) \in Nat /\ \A n \in 1..Len(map) : map[n] \in Entry
  OBVIOUS
<1>1. step \in [Nat \X D -> D]
  <2>1. ASSUME NEW q \in Nat \X D
        PROVE  step[q] \in D
    BY <1>0
  <2>2. QED
    BY <2>1
<1>2. PICK g : Iterates(g, D, <<>>, step)
  <2>1. <<>> \in D
    OBVIOUS
  <2> HIDE DEF step, D
  <2>2. QED
    BY <1>1, <2>1, RecursiveFunctionExists
<1>2a. /\ g[0] = <<>>
       /\ \A n \in Nat : g[n + 1] = step[<<n + 1, g[n]>>]
       /\ g \in [Nat -> D]
  BY <1>2 DEF Iterates
<1> DEFINE G == [n \in 0..Len(map) |-> g[n]]
<1>3. G = [n \in 0..Len(map) |-> IF n = 0 THEN <<>> ELSE next(n, G[n - 1])]
  <2>1. ASSUME NEW n \in 0..Len(map), n # 0
        PROVE  G[n] = next(n, G[n - 1])
    <3>1. n \in 1..Len(map) /\ n - 1 \in 0..Len(map) /\ n \in Nat /\ n - 1 \in Nat
      BY <1>0, <2>1
    <3>2. g[n] = step[<<n, g[n - 1]>>]
      <4>1. n = (n - 1) + 1
        OBVIOUS
      <4> HIDE DEF step
      <4>2. QED
        BY <1>2a, <3>1, <4>1
    <3>3. step[<<n, g[n - 1]>>] = next(n, g[n - 1])
      BY <1>2a, <3>1
    <3>4. QED
      BY <3>1, <3>2, <3>3
  <2>2. G[0] = <<>>
    BY <1>0, <1>2a
  <2>3. \A n \in 0..Len(map) : G[n] = IF n = 0 THEN <<>> ELSE next(n, G[n - 1])
    BY <2>1, <2>2
  <2>4. G = [n \in 0..Len(map) |-> G[n]]
    OBVIOUS
  <2> HIDE DEF G, next
  <2>5. QED
    BY <2>3, <2>4
<1>4. F = [n \in 0..Len(map) |-> IF n = 0 THEN <<>> ELSE next(n, F[n - 1])]
  <2> HIDE DEF G
  <2>1. QED
    BY <1>3 DEF UsableAmong
<1>5. \A n \in 0..Len(map) : F[n] = IF n = 0 THEN <<>> ELSE next(n, F[n - 1])
  <2> HIDE DEF F
  <2>1. QED
    BY <1>4
<1>6. QED
  <2> HIDE DEF F
  <2>1. F[0] = <<>> /\ \A n \in 1..Len(map) : F[n] = next(n, F[n - 1])
    BY <1>0, <1>5
  <2>2. QED
    BY <2>1 DEF F

(* The statements from the walk over the map on.                           *)
Walk == {"entry", "add", "main", "return", "spin"}

(* While the loader runs, the table has what the BIOS has answered so far, *)
(* and zeroes behind; from then on it is the whole map, and the kernel has *)
(* added what is usable among the entries it has passed.                   *)
MapInv ==
  /\ env \in Machines
  /\ table \in [0..MAP_SLOTS -> Entry]
  /\ slot \in 0..MAP_SLOTS
  /\ \A i \in 0..MAP_SLOTS : i > Len(env.map) => table[i] = Unwritten
  /\ pc \in {"read", "map"} =>
       /\ slot <= Len(env.map) + 1
       /\ \A i \in 1..Len(env.map) : i <= slot => table[i] = env.map[i]
  /\ pc \notin {"read", "map", Hang} =>
       \A i \in 1..Len(env.map) : table[i] = env.map[i]
  /\ pc \notin Walk => added = <<>>
  /\ pc \in Walk =>
       /\ slot \in 1..(Len(env.map) + 1)
       /\ added = UsableAmong(env.map)[slot - 1]
  /\ pc = "add" => slot <= Len(env.map)
  /\ pc \in {"main", "return", "spin"} => table[slot].size = 0

LEMMA MapIs ==
  ASSUME env \in Machines
  PROVE  /\ env.map \in Seq(Entry) /\ Len(env.map) \in Nat /\ Len(env.map) < MAP_SLOTS
         /\ \A i \in 1..Len(env.map) : env.map[i] \in Entry
         /\ Unwritten \in Entry /\ MAP_SLOTS \in Nat
<1>1. env.map \in Maps
  BY DEF Machines
<1>2. env.map \in Seq(Entry) /\ Len(env.map) < MAP_SLOTS
  BY <1>1, MapAssumption
<1>3. Unwritten \in Entry
  BY DEF Unwritten, Entry
<1>4. QED
  BY <1>2, <1>3, MapAssumption

(* The other statements leave the map alone.                               *)
LEMMA MapStep ==
  ASSUME [Next]_allVars
  PROVE  \/ MapMemory
         \/ LoadMemory
         \/ /\ UNCHANGED <<table, slot, added, env>>
            /\ \/ pc' = pc
               \/ pc = "read" /\ pc' \in {"map", Hang}
               \/ pc = "main" /\ pc' = "return"
               \/ pc = "return" /\ pc' = "spin"
               \/ /\ pc \notin {"read", "map", Hang} \cup Walk
                  /\ pc' \notin {"read", "map"} \cup Walk
<1>1. CASE Program /\ ~MapMemory /\ ~LoadMemory
  BY <1>1 DEF Program, ReadDisk, SendCommand, SendData, CheckA20, CheckCPU, CheckLongMode,
              MaskLines, LoadNullIdt, EnterKernel, Cli, ClearScreen, RemapIrqs,
              LoadKernelIdt, Sti, Reports, Says, Goes, Syscall, bootVars, mapVars, Walk, Hang
<1>2. CASE UNCHANGED <<pc, env, mapVars>>
  BY <1>2 DEF mapVars
<1>3. QED
  BY <1>1, <1>2 DEF Next, BootNext, KbcTakes, Devices, Reads, Typed, allVars, bootVars

LEMMA MapInvStep == MapInv /\ [Next]_allVars => MapInv'
<1> SUFFICES ASSUME MapInv, [Next]_allVars
             PROVE  MapInv'
  OBVIOUS
<1> DEFINE n == Len(env.map)
<1>0. /\ env.map \in Seq(Entry) /\ n \in Nat /\ n < MAP_SLOTS
      /\ \A i \in 1..n : env.map[i] \in Entry
      /\ Unwritten \in Entry /\ MAP_SLOTS \in Nat
  BY MapIs DEF MapInv
<1>1. CASE MapMemory
  <2> USE DEF MapInv
  <2>1. /\ pc = "map" /\ UNCHANGED <<env, added>>
        /\ pc' = IF LastAnswer(env.map, env.ends) THEN "command" ELSE "map"
        /\ slot' = IF slot > n THEN slot ELSE slot + 1
        /\ table' = IF slot < n THEN [table EXCEPT ![slot + 1] = env.map[slot + 1]]
                                ELSE table
    BY <1>1 DEF MapMemory, Goes, Asked
  <2>2. slot' \in 0..MAP_SLOTS /\ slot' <= n + 1
    BY <1>0, <2>1
  <2>3. table' \in [0..MAP_SLOTS -> Entry]
    <3>1. slot < n => slot + 1 \in 1..n /\ slot + 1 \in 0..MAP_SLOTS
      BY <1>0
    <3>2. QED
      BY <1>0, <2>1, <3>1
  <2>4. \A i \in 0..MAP_SLOTS : i > n => table'[i] = Unwritten
    BY <1>0, <2>1
  <2>5. \A i \in 1..n : i <= slot' => table'[i] = env.map[i]
    BY <1>0, <2>1
  <2>6. pc' = "command" => n <= slot'
    BY <1>0, <2>1 DEF LastAnswer
  <2>7. added' = <<>> /\ pc' \in {"map", "command"}
    BY <2>1 DEF Walk
  <2>8. pc' = "command" => \A i \in 1..n : table'[i] = env.map[i]
    BY <1>0, <2>2, <2>5, <2>6
  <2> QED
    BY <2>1, <2>2, <2>3, <2>4, <2>5, <2>7, <2>8 DEF Walk
<1>2. CASE Goes("paging", "entry") /\ StartReading /\ UNCHANGED env
  <2>1. slot' = 1 /\ UNCHANGED <<table, added, env>> /\ pc = "paging" /\ pc' = "entry"
    BY <1>2 DEF Goes, StartReading
  <2>2. UsableAmong(env.map)[0] = <<>>
    BY <1>0, UsableAmongDef
  <2>3. added = <<>> /\ slot' - 1 = 0
    BY <2>1 DEF MapInv, Walk
  <2>4. QED
    BY <1>0, <2>1, <2>2, <2>3 DEF MapInv, Walk, Hang
<1>3. CASE More /\ Says("entry", "add", Banner, 1, 9 + slot)
  <2>1. UNCHANGED <<table, slot, added, env>> /\ pc = "entry" /\ pc' = "add"
    BY <1>3 DEF Says, Goes, mapVars
  <2>2. slot <= n
    BY <1>0, <1>3, <2>1 DEF MapInv, More, Unwritten, Walk
  <2>3. QED
    BY <2>1, <2>2 DEF MapInv, Walk, Hang
<1>4. CASE Goes("add", "entry") /\ AddEntry /\ UNCHANGED env
  <2>1. /\ UNCHANGED <<table, env>> /\ pc = "add" /\ pc' = "entry" /\ slot' = slot + 1
        /\ added' = IF Usable(table[slot]) THEN Append(added, table[slot]) ELSE added
    BY <1>4 DEF Goes, AddEntry
  <2>2. slot \in 1..n /\ table[slot] = env.map[slot]
        /\ added = UsableAmong(env.map)[slot - 1]
    BY <1>0, <2>1 DEF MapInv, Walk, Hang
  <2>3. added' = UsableAmong(env.map)[slot]
    BY <1>0, <2>1, <2>2, UsableAmongDef
  <2>4. slot' \in 1..(n + 1) /\ slot' \in 0..MAP_SLOTS /\ slot' - 1 = slot
    BY <1>0, <2>1, <2>2
  <2>5. QED
    BY <2>1, <2>3, <2>4 DEF MapInv, Walk, Hang
<1>5. CASE ~More /\ Goes("entry", "main") /\ UNCHANGED <<env, mapVars>>
  <2>1. UNCHANGED <<table, slot, added, env>> /\ pc = "entry" /\ pc' = "main"
        /\ table[slot].size = 0
    BY <1>5 DEF Goes, mapVars, More
  <2>2. QED
    BY <2>1 DEF MapInv, Walk, Hang
<1>6. CASE /\ UNCHANGED <<table, slot, added, env>>
           /\ \/ pc' = pc
              \/ pc = "read" /\ pc' \in {"map", Hang}
              \/ pc = "main" /\ pc' = "return"
              \/ pc = "return" /\ pc' = "spin"
              \/ /\ pc \notin {"read", "map", Hang} \cup Walk
                 /\ pc' \notin {"read", "map"} \cup Walk
  BY <1>6 DEF MapInv, Walk, Hang
<1>7. QED
  BY <1>1, <1>2, <1>3, <1>4, <1>5, <1>6, MapStep DEF LoadMemory, Says

LEMMA MapInvInit == Init => MapInv
<1> SUFFICES ASSUME Init
             PROVE  MapInv
  OBVIOUS
<1>1. env \in Machines /\ pc = "read"
  BY MachineAssumption DEF Init, BootInit
<1>2. table = [i \in 0..MAP_SLOTS |-> Unwritten] /\ slot = 0 /\ added = <<>>
  BY DEF Init, BootInit, MapInit
<1>3. QED
  BY <1>1, <1>2, MapIs DEF MapInv, Walk, Hang

(* However the BIOS orders its map and ends its list, and for maps of any  *)
(* length: the frame allocator is given each free region at or above 1 MB  *)
(* once, in order, and nothing else (memory_maper.asm:6-15,                *)
(* pagination.cpp:34, 53-69).                                              *)
THEOREM MapAlwaysHandedOver == Spec => []MapHandedOver
<1>1. ASSUME MapInv
      PROVE  MapHandedOver
  <2> SUFFICES ASSUME pc \in {"main", "return", "spin"},
                      \A i \in DOMAIN env.map : env.map[i].size > 0
               PROVE  added = UsableAmong(env.map)[Len(env.map)]
    BY DEF MapHandedOver
  <2>1. slot \in 1..(Len(env.map) + 1) /\ table[slot].size = 0
        /\ added = UsableAmong(env.map)[slot - 1]
        /\ \A i \in 1..Len(env.map) : table[i] = env.map[i]
    BY <1>1 DEF MapInv, Walk, Hang
  <2>2. env.map \in Seq(Entry) /\ Len(env.map) \in Nat /\ DOMAIN env.map = 1..Len(env.map)
    BY <1>1, MapIs DEF MapInv
  <2>3. slot \notin 1..Len(env.map)
    BY <2>1, <2>2
  <2>4. slot - 1 = Len(env.map)
    BY <2>1, <2>2, <2>3
  <2>5. QED
    BY <2>1, <2>4
<1>2. QED
  BY <1>1, MapInvInit, MapInvStep, PTL DEF Spec

-----------------------------------------------------------------------------
(* What no invariant above says of the two keyboard interfaces.            *)
DeviceType ==
  /\ kbd \in Keys \cup {NoKey}
  /\ kbc \in [busy: BOOLEAN, byte: {"none", "d1", "df", "lone"}]

LEMMA DeviceTypeStep == DeviceType /\ [Next]_allVars => DeviceType'
<1> SUFFICES ASSUME DeviceType, [Next]_allVars
             PROVE  DeviceType'
  OBVIOUS
<1> USE DEF DeviceType
<1>1. CASE SendCommand
  BY <1>1 DEF SendCommand, intVars
<1>2. CASE SendData
  BY <1>2 DEF SendData, intVars
<1>3. CASE KbcTakes
  BY <1>3 DEF KbcTakes, intVars
<1>4. CASE Program /\ ~SendCommand /\ ~SendData
  BY <1>4 DEF Program, ReadDisk, MapMemory, CheckA20, CheckCPU, CheckLongMode, MaskLines,
              LoadNullIdt, EnterKernel, Cli, ClearScreen, RemapIrqs, LoadKernelIdt, Sti,
              Reports, LoadMemory, Says, Syscall, intVars, bootVars, SetIf, LoadIdt,
              MaskAll, remap_irqs
<1>5. CASE Devices
  BY <1>5 DEF Devices, Tick, Press, Stray, bootVars
<1>6. CASE Handler /\ UNCHANGED bootVars
  BY <1>6 DEF Handler, BiosHandles, TripleFaults, Enter, ReadKey, EoiIret, bootVars
<1>7. CASE UNCHANGED <<intVars, bootVars>>
  BY <1>7 DEF intVars, bootVars
<1>8. QED
  BY <1>1, <1>2, <1>3, <1>4, <1>5, <1>6, <1>7 DEF Next, BootNext, Reads, Typed, allVars

(* The characters getChar counts and returns are among those typed.        *)
RingBounds ==
  /\ keyboard_vez <= MaxTyped
  /\ get.aux <= keyboard_vez
  /\ got <= keyboard_vez

LEMMA RingBoundsStep == RingInv /\ RingBounds /\ [Next]_allVars => RingBounds'
<1> SUFFICES ASSUME RingInv, RingBounds, [Next]_allVars
             PROVE  RingBounds'
  OBVIOUS
<1> USE KeyboardAssumption DEF RingInv, RingBounds
<1>1. CASE keyboard
  BY <1>1 DEF keyboard
<1>2. CASE GetChar
  BY <1>2 DEF GetChar
<1>3. CASE Test
  BY <1>3 DEF Test
<1>4. CASE Aux
  BY <1>4 DEF Aux
<1>5. CASE Pick
  <2> DEFINE place == IF get.aux >= RING THEN RING - 1 ELSE get.aux - 1
  <2>1. place \in 0..(RING - 1)
    BY <1>5 DEF Pick
  <2>2. got' <= keyboard_vez
    BY <1>5, <2>1 DEF Pick
  <2>3. QED
    BY <1>5, <2>2 DEF Pick
<1>6. CASE UNCHANGED kbVars
  BY <1>6 DEF kbVars
<1>7. QED
  BY <1>1, <1>2, <1>3, <1>4, <1>5, <1>6, RingStep DEF GetCharStep

(* Every variable of the machine keeps its type: the cursor registers hold *)
(* bytes, the walk over the map stays in the segment (memory_maper.asm,    *)
(* pagination.cpp:53-69), getChar's numbers are of characters typed.       *)
THEOREM MachineTypeCorrect == Spec => []TypeOK
<1> DEFINE Inv == RingInv /\ RingBounds /\ PrepInv /\ MapInv /\ DeviceType
<1>1. Init => Inv
  <2> SUFFICES ASSUME Init
               PROVE  Inv
    OBVIOUS
  <2>1. RingInv /\ RingBounds
    BY KeyboardAssumption DEF Init, KeyboardInit, RingInv, RingBounds, GetCharFresh
  <2>2. DeviceType
    BY DEF Init, BootInit, InterruptsInit, DeviceType
  <2>3. QED
    BY <2>1, <2>2, PrepInvInit, MapInvInit
<1>2. Inv /\ [Next]_allVars => Inv'
  BY RingInvStep, RingBoundsStep, PrepInvStep, MapInvStep, DeviceTypeStep
<1>3. ASSUME Inv, CursorInv
      PROVE  TypeOK
  <2>1. ConsoleTypeOK
    BY <1>3 DEF CursorInv, CursorType
  <2>2. InterruptsTypeOK
    BY <1>3 DEF PrepInv, CpuType, DeviceType, InterruptsTypeOK
  <2>3. BootTypeOK
    <3>1. slot \in DOMAIN table /\ env \in Machines
      BY <1>3 DEF MapInv
    <3>2. QED
      BY <1>3, <3>1 DEF PrepInv, CpuType, Phases, RealMode, Switched, Closed, DeviceType,
                        BootTypeOK
  <2>4. KeyboardTypeOK
    <3>1. keyboard_vez \in 0..MaxTyped /\ got \in 0..MaxTyped
      BY <1>3, KeyboardAssumption DEF RingInv, RingBounds
    <3>2. get \in [at: {"ret", "test", "aux", "pick"}, time: 0..MaxTyped, aux: 0..MaxTyped]
      BY <1>3, KeyboardAssumption DEF RingInv, RingBounds
    <3>3. buffer \in [0..(RING - 1) -> 0..MaxTyped]
      <4>1. ASSUME NEW i \in 0..(RING - 1)
            PROVE  (IF i < keyboard_vez THEN keyboard_vez - i ELSE 0) \in 0..MaxTyped
        BY <3>1, KeyboardAssumption
      <4>2. buffer = [i \in 0..(RING - 1) |->
                        IF i < keyboard_vez THEN keyboard_vez - i ELSE 0]
        BY <1>3 DEF RingInv
      <4>3. QED
        BY <4>1, <4>2
    <3>4. QED
      BY <3>1, <3>2, <3>3 DEF KeyboardTypeOK
  <2>5. QED
    BY <2>1, <2>2, <2>3, <2>4 DEF TypeOK
<1> HIDE DEF Inv
<1>4. Spec => []Inv
  BY <1>1, <1>2, PTL DEF Spec
<1>5. QED
  BY <1>3, <1>4, ConsoleInvariant, PTL

-----------------------------------------------------------------------------
(* What may appear in a cell.  No prover knows that a string in quotes is  *)
(* one of STRING.                                                          *)
Words  == STRING \cup Digits \cup {"nul", "G", " ", "black", "white", "blue", "pink"}
Colors == [bg: Words, fg: Words]
Glyphs == [c: Words, color: Colors]
Takings == [s: Nat \ {0}, col: Colors, shown: Seq(Glyphs)]

LEMMA SymbolType ==
  ASSUME NEW text \in Seq(STRING), NEW s \in Nat \ {0}
  PROVE  /\ Symbol(text, s) \in Words
         /\ Symbol(text, s) # "nul" => s <= Len(text)
<1>1. CASE s <= Len(text)
  <2>1. text[s] \in STRING
    BY <1>1
  <2>2. QED
    BY <1>1, <2>1 DEF Symbol, Words
<1>2. CASE ~(s <= Len(text))
  BY <1>2 DEF Symbol, Words
<1>3. QED
  BY <1>1, <1>2

LEMMA EscapeColor ==
  ASSUME NEW text, NEW s, NEW col \in Colors, NEW originalColor \in Colors
  PROVE  /\ Escape(text, s, col, originalColor).col \in Colors
         /\ Escape(text, s, col, originalColor).prints \in BOOLEAN
<1> DEFINE n == Matched(text, s)
           digit == Symbol(text, s + 5)
<1>1. digit \in Digits => [col EXCEPT !.fg = digit] \in Colors
  BY DEF Words, Colors
<1>2. CASE n = 3 /\ Symbol(text, s + 3) = "m"
  BY <1>2 DEF Escape
<1>3. CASE ~(n = 3 /\ Symbol(text, s + 3) = "m") /\ n < 5
  BY <1>3 DEF Escape
<1>4. CASE ~(n = 3 /\ Symbol(text, s + 3) = "m") /\ ~(n < 5) /\ digit \in Digits
  BY <1>1, <1>4 DEF Escape
<1>5. CASE ~(n = 3 /\ Symbol(text, s + 3) = "m") /\ ~(n < 5) /\ digit \notin Digits
  BY <1>5 DEF Escape
<1>6. QED
  BY <1>2, <1>3, <1>4, <1>5

(* One round goes on in the string, unless it is over.                     *)
LEMMA TakenType ==
  ASSUME NEW text \in Seq(STRING), NEW col \in Colors, NEW r \in Takings
  PROVE  /\ Taken(text, col, r) \in Takings
         /\ Symbol(text, r.s) # "nul" => Taken(text, col, r).s > r.s
         /\ Symbol(text, r.s) = "nul" => Taken(text, col, r) = r
<1> DEFINE c == Symbol(text, r.s)
           e == Escape(text, r.s, r.col, col)
<1>0. r.s \in Nat \ {0} /\ r.col \in Colors /\ r.shown \in Seq(Glyphs) /\ c \in Words
  BY SymbolType DEF Takings
<1>1. CASE c = "nul"
  BY <1>1 DEF Taken
<1>2. CASE c = "esc"
  <2>1. e.s \in r.s .. Len(text) /\ Len(text) \in Nat
    BY <1>0, <1>2, EscapeInString
  <2>2. e.col \in Colors /\ e.prints \in BOOLEAN
    BY <1>0, EscapeColor
  <2>3. Warning \in Glyphs
    BY DEF Warning, Glyphs, Colors, Words
  <2>4. Append(r.shown, Warning) \in Seq(Glyphs)
    BY <1>0, <2>3
  <2>5. Taken(text, col, r) =
          [s |-> e.s + 1, col |-> e.col,
           shown |-> IF e.prints THEN Append(r.shown, Warning) ELSE r.shown]
    BY <1>2 DEF Taken
  <2>6. e.s + 1 \in Nat \ {0} /\ e.s + 1 > r.s
    BY <1>0, <2>1
  <2> HIDE DEF e
  <2>7. QED
    BY <1>0, <1>2, <2>2, <2>4, <2>5, <2>6 DEF Takings
<1>3. CASE c # "nul" /\ c # "esc"
  <2>1. [c |-> c, color |-> r.col] \in Glyphs
    BY <1>0 DEF Glyphs
  <2>2. Append(r.shown, [c |-> c, color |-> r.col]) \in Seq(Glyphs)
    BY <1>0, <2>1
  <2>3. Taken(text, col, r) = [s |-> r.s + 1, col |-> r.col,
                               shown |-> Append(r.shown, [c |-> c, color |-> r.col])]
    BY <1>3 DEF Taken
  <2>4. QED
    BY <1>0, <1>3, <2>2, <2>3 DEF Takings
<1>4. QED
  BY <1>1, <1>2, <1>3

LEMMA TakenUpToIs ==
  ASSUME NEW text \in Seq(STRING), NEW col \in Colors
  PROVE  /\ TakenUpTo(text, col) \in [Nat -> Takings]
         /\ TakenUpTo(text, col)[0] = [s |-> 1, col |-> col, shown |-> <<>>]
         /\ \A n \in Nat : TakenUpTo(text, col)[n + 1] =
                             Taken(text, col, TakenUpTo(text, col)[n])
<1> DEFINE first == [s |-> 1, col |-> col, shown |-> <<>>]
           step == [q \in Nat \X Takings |-> Taken(text, col, q[2])]
           F == TakenUpTo(text, col)
<1>1. step \in [Nat \X Takings -> Takings]
  BY TakenType
<1>2. first \in Takings
  BY DEF Takings
<1>3. PICK g : Iterates(g, Takings, first, step)
  <2> HIDE DEF step, first
  <2>1. QED
    BY <1>1, <1>2, RecursiveFunctionExists
<1>4. g \in [Nat -> Takings] /\ g[0] = first
  BY <1>3 DEF Iterates
<1>5. ASSUME NEW n \in Nat
      PROVE  g[n + 1] = Taken(text, col, g[n])
  <2>1. g[n + 1] = step[<<n + 1, g[n]>>]
    <3> HIDE DEF step
    <3>1. QED
      BY <1>3 DEF Iterates
  <2>2. <<n + 1, g[n]>> \in Nat \X Takings
    BY <1>4
  <2>3. QED
    BY <2>1, <2>2
<1> HIDE DEF step
<1>6. \A n \in Nat : g[n] = IF n = 0 THEN first ELSE Taken(text, col, g[n - 1])
  <2>1. ASSUME NEW n \in Nat, n # 0
        PROVE  g[n] = Taken(text, col, g[n - 1])
    <3>1. n - 1 \in Nat /\ (n - 1) + 1 = n
      BY <2>1
    <3>2. g[(n - 1) + 1] = Taken(text, col, g[n - 1])
      BY <1>5, <3>1
    <3>3. QED
      BY <3>1, <3>2
  <2> HIDE DEF first
  <2>2. QED
    BY <1>4, <2>1
<1>7. g = [n \in Nat |-> IF n = 0 THEN first ELSE Taken(text, col, g[n - 1])]
  <2>1. g = [n \in Nat |-> g[n]]
    BY <1>4
  <2> HIDE DEF first
  <2>2. QED
    BY <1>6, <2>1
<1>8. F = [n \in Nat |-> IF n = 0 THEN first ELSE Taken(text, col, F[n - 1])]
  BY <1>7 DEF TakenUpTo
<1>9. \A n \in Nat : F[n] = IF n = 0 THEN first ELSE Taken(text, col, F[n - 1])
  <2> HIDE DEF F
  <2>1. QED
    BY <1>8
<1> HIDE DEF F
<1>10. F[0] = first
  BY <1>9
<1>11. \A n \in Nat : F[n + 1] = Taken(text, col, F[n])
  <2> SUFFICES ASSUME NEW n \in Nat
               PROVE  F[n + 1] = Taken(text, col, F[n])
    OBVIOUS
  <2>1. n + 1 \in Nat /\ n + 1 # 0 /\ (n + 1) - 1 = n
    OBVIOUS
  <2>2. F[n + 1] = Taken(text, col, F[(n + 1) - 1])
    BY <1>9, <2>1
  <2>3. QED
    BY <2>1, <2>2
<1>12. F \in [Nat -> Takings]
  <2> DEFINE S == {n \in Nat : F[n] \in Takings}
  <2>1. 0 \in S
    BY <1>2, <1>10
  <2>2. ASSUME NEW n \in Nat, n \in S
        PROVE  n + 1 \in S
    <3>1. n + 1 \in Nat /\ F[n] \in Takings
      BY <2>2
    <3>2. Taken(text, col, F[n]) \in Takings
      BY <3>1, TakenType
    <3>3. QED
      BY <1>11, <3>1, <3>2
  <2> HIDE DEF S
  <2>3. Nat \subseteq S
    BY <2>1, <2>2, SetInduction
  <2>4. \A n \in Nat : F[n] \in Takings
    BY <2>3 DEF S
  <2>5. F = [n \in Nat |-> F[n]]
    BY <1>8
  <2> HIDE DEF first
  <2>6. QED
    BY <2>4, <2>5
<1>13. QED
  BY <1>10, <1>11, <1>12 DEF F

(* Once a string is over nothing more is taken from it, and it is over     *)
(* after as many rounds as it has symbols.                                 *)
LEMMA MeaningIs ==
  ASSUME NEW text \in Seq(STRING), NEW col \in Colors, NEW k \in Nat,
         Symbol(text, TakenUpTo(text, col)[k].s) = "nul"
  PROVE  Meaning(text, col) = TakenUpTo(text, col)[k].shown
<1> DEFINE F == TakenUpTo(text, col)
           N == Len(text)
<1>1. /\ \A n \in Nat : F[n] \in Takings
      /\ F[0].s = 1
      /\ \A n \in Nat : F[n + 1] = Taken(text, col, F[n])
  <2>1. /\ F \in [Nat -> Takings]
        /\ F[0] = [s |-> 1, col |-> col, shown |-> <<>>]
        /\ \A n \in Nat : F[n + 1] = Taken(text, col, F[n])
    BY TakenUpToIs
  <2> HIDE DEF F
  <2>2. QED
    BY <2>1
<1>2. N \in Nat
  OBVIOUS
<1> HIDE DEF F, N
<1>3. ASSUME NEW m \in Nat, Symbol(text, F[m].s) = "nul"
      PROVE  \A n \in Nat : n >= m => F[n] = F[m]
  <2> DEFINE S == {n \in Nat : n >= m => F[n] = F[m]}
  <2>1. 0 \in S
    <3>1. 0 >= m => m = 0
      OBVIOUS
    <3>2. QED
      BY <3>1
  <2>2. ASSUME NEW n \in Nat, n \in S
        PROVE  n + 1 \in S
    <3>1. CASE n >= m
      <4>1. F[n] = F[m]
        BY <2>2, <3>1
      <4>2. Taken(text, col, F[m]) = F[m]
        BY <1>1, <1>3, TakenType
      <4>3. F[n + 1] = F[m]
        BY <1>1, <4>1, <4>2
      <4>4. QED
        BY <4>3
    <3>2. CASE ~(n >= m)
      <4>1. n + 1 >= m => n + 1 = m
        BY <3>2
      <4>2. QED
        BY <4>1
    <3>3. QED
      BY <3>1, <3>2
  <2> HIDE DEF S
  <2>3. Nat \subseteq S
    BY <2>1, <2>2, SetInduction
  <2>4. QED
    BY <2>3 DEF S
<1>4. Symbol(text, F[N].s) = "nul"
  <2> DEFINE S == {n \in Nat : Symbol(text, F[n].s) = "nul" \/ F[n].s > n}
  <2>1. 0 \in S
    <3>1. F[0].s > 0
      BY <1>1
    <3>2. QED
      BY <3>1
  <2>2. ASSUME NEW n \in Nat, n \in S
        PROVE  n + 1 \in S
    <3>1. F[n] \in Takings /\ F[n].s \in Nat /\ F[n + 1].s \in Nat
      <4>0. n \in Nat /\ n + 1 \in Nat
        OBVIOUS
      <4>1. F[n] \in Takings /\ F[n + 1] \in Takings
        BY <1>1, <4>0
      <4>2. QED
        BY <4>1 DEF Takings
    <3>2. CASE Symbol(text, F[n].s) = "nul"
      <4>1. F[n + 1] = F[n]
        BY <1>1, <3>1, <3>2, TakenType
      <4>2. QED
        BY <3>2, <4>1
    <3>3. CASE Symbol(text, F[n].s) # "nul"
      <4>1. F[n].s > n
        BY <2>2, <3>3
      <4>2. F[n + 1].s > F[n].s
        BY <1>1, <3>1, <3>3, TakenType
      <4>3. F[n + 1].s > n + 1
        BY <3>1, <4>1, <4>2
      <4>4. QED
        BY <4>3
    <3>4. QED
      BY <3>2, <3>3
  <2> HIDE DEF S
  <2>3. N \in S
    BY <1>2, <2>1, <2>2, SetInduction
  <2>4. CASE F[N].s > N
    <3>1. F[N].s \in Nat \ {0}
      BY <1>1, <1>2 DEF Takings
    <3>2. ~(F[N].s <= N)
      BY <1>2, <2>4, <3>1
    <3>3. QED
      BY <3>1, <3>2, SymbolType DEF N
  <2>5. QED
    BY <2>3, <2>4 DEF S
<1>5. F[N] = F[k]
  <2>1. Symbol(text, F[k].s) = "nul"
    BY DEF F
  <2>2. N >= k \/ k >= N
    BY <1>2
  <2>3. QED
    BY <1>2, <1>3, <1>4, <2>1, <2>2
<1>6. QED
  BY <1>5 DEF Meaning, F, N

-----------------------------------------------------------------------------
(* A screen with the position of the next character.                       *)
IsScreen(f) == f = [i \in Cells |-> f[i]]

IsDrawing(d) == /\ d = [cell |-> d.cell, cells |-> d.cells]
                /\ d.cell \in Nat
                /\ IsScreen(d.cells)

LEMMA PutType ==
  ASSUME NEW V, NEW d \in [cell: Nat, cells: [Cells -> V]], NEW g \in V
  PROVE  Put(d, g) \in [cell: Nat, cells: [Cells -> V]]
<1> DEFINE row == (d.cell \div NUM_COLS + 1) % NUM_ROWS
           next == (d.cell + 1) % (NUM_COLS * NUM_ROWS)
<1>1. NUM_COLS \in Nat \ {0} /\ NUM_ROWS \in Nat \ {0} /\ d.cell \in Nat
  BY ConsoleAssumption
<1>2. row \in Nat /\ row * NUM_COLS \in Nat
  <2>1. d.cell \div NUM_COLS + 1 \in Nat
    BY <1>1
  <2>2. row \in Nat
    BY <1>1, <2>1, ModBelow
  <2> HIDE DEF row
  <2>3. QED
    BY <1>1, <2>2
<1>3. next \in Nat
  <2>1. d.cell + 1 \in Nat /\ NUM_COLS * NUM_ROWS \in Nat \ {0}
    BY <1>1
  <2>2. QED
    BY <2>1, ModBelow
<1>4. CASE g.c = "nl"
  <2>1. Put(d, g) = [d EXCEPT !.cell = row * NUM_COLS]
    BY <1>4 DEF Put
  <2> HIDE DEF row
  <2>2. QED
    BY <1>2, <2>1
<1>5. CASE g.c # "nl"
  <2>1. Put(d, g) = [cell |-> next, cells |-> [d.cells EXCEPT ![d.cell] = g]]
    BY <1>5 DEF Put
  <2> HIDE DEF next
  <2>2. [d.cells EXCEPT ![d.cell] = g] \in [Cells -> V]
    OBVIOUS
  <2>3. QED
    BY <1>3, <2>1, <2>2
<1>6. QED
  BY <1>4, <1>5

LEMMA DrawnUpToIs ==
  ASSUME NEW start, IsDrawing(start), NEW shown
  PROVE  /\ DrawnUpTo(start, shown)[0] = start
         /\ \A n \in Nat : /\ DrawnUpTo(start, shown)[n + 1] =
                               Put(DrawnUpTo(start, shown)[n], shown[n + 1])
                          /\ IsDrawing(DrawnUpTo(start, shown)[n])
<1> DEFINE V == {start.cells[i] : i \in Cells} \cup {shown[k] : k \in Nat}
           D == [cell: Nat, cells: [Cells -> V]]
           step == [q \in Nat \X D |-> Put(q[2], shown[q[1]])]
           F == DrawnUpTo(start, shown)
<1>1. \A k \in Nat : shown[k] \in V
  OBVIOUS
<1>2. start \in D
  <2>1. \A i \in Cells : start.cells[i] \in V
    OBVIOUS
  <2>2. start.cells = [i \in Cells |-> start.cells[i]] /\ start.cell \in Nat
        /\ start = [cell |-> start.cell, cells |-> start.cells]
    BY DEF IsDrawing, IsScreen
  <2> HIDE DEF V
  <2>3. start.cells \in [Cells -> V]
    BY <2>1, <2>2
  <2>4. QED
    BY <2>2, <2>3
<1>3. \A n \in Nat, d \in D : Put(d, shown[n]) \in D
  <2> HIDE DEF V
  <2>1. QED
    BY <1>1, PutType
<1>4. step \in [Nat \X D -> D]
  <2> HIDE DEF D
  <2>1. QED
    BY <1>3
<1>5. PICK g : Iterates(g, D, start, step)
  <2> HIDE DEF step, D
  <2>1. QED
    BY <1>2, <1>4, RecursiveFunctionExists
<1>6. g \in [Nat -> D] /\ g[0] = start
  BY <1>5 DEF Iterates
<1> HIDE DEF D
<1>7. ASSUME NEW n \in Nat
      PROVE  g[n + 1] = Put(g[n], shown[n + 1])
  <2>1. g[n + 1] = step[<<n + 1, g[n]>>]
    <3> HIDE DEF step
    <3>1. QED
      BY <1>5 DEF Iterates
  <2>2. <<n + 1, g[n]>> \in Nat \X D
    BY <1>6
  <2>3. QED
    BY <2>1, <2>2
<1> HIDE DEF step
<1>8. \A n \in Nat : g[n] = IF n = 0 THEN start ELSE Put(g[n - 1], shown[n])
  <2>1. ASSUME NEW n \in Nat, n # 0
        PROVE  g[n] = Put(g[n - 1], shown[n])
    <3>1. n - 1 \in Nat /\ (n - 1) + 1 = n
      BY <2>1
    <3>2. g[(n - 1) + 1] = Put(g[n - 1], shown[(n - 1) + 1])
      BY <1>7, <3>1
    <3>3. QED
      BY <3>1, <3>2
  <2>2. QED
    BY <1>6, <2>1
<1>9. g = [n \in Nat |-> IF n = 0 THEN start ELSE Put(g[n - 1], shown[n])]
  <2>1. g = [n \in Nat |-> g[n]]
    BY <1>6
  <2>2. QED
    BY <1>8, <2>1
<1>10. F = [n \in Nat |-> IF n = 0 THEN start ELSE Put(F[n - 1], shown[n])]
  BY <1>9 DEF DrawnUpTo
<1>11. \A n \in Nat : F[n] = IF n = 0 THEN start ELSE Put(F[n - 1], shown[n])
  <2> HIDE DEF F
  <2>1. QED
    BY <1>10
<1> HIDE DEF F
<1>12. F[0] = start
  BY <1>11
<1>13. \A n \in Nat : F[n + 1] = Put(F[n], shown[n + 1])
  <2> SUFFICES ASSUME NEW n \in Nat
               PROVE  F[n + 1] = Put(F[n], shown[n + 1])
    OBVIOUS
  <2>1. n + 1 \in Nat /\ n + 1 # 0 /\ (n + 1) - 1 = n
    OBVIOUS
  <2>2. F[n + 1] = Put(F[(n + 1) - 1], shown[n + 1])
    BY <1>11, <2>1
  <2>3. QED
    BY <2>1, <2>2
<1>14. \A n \in Nat : F[n] \in D
  <2> DEFINE S == {n \in Nat : F[n] \in D}
  <2>1. 0 \in S
    BY <1>2, <1>12
  <2>2. ASSUME NEW n \in Nat, n \in S
        PROVE  n + 1 \in S
    <3>1. F[n] \in D /\ n + 1 \in Nat
      BY <2>2
    <3>2. Put(F[n], shown[n + 1]) \in D
      BY <1>3, <3>1
    <3>3. QED
      BY <1>13, <3>1, <3>2
  <2> HIDE DEF S
  <2>3. Nat \subseteq S
    BY <2>1, <2>2, SetInduction
  <2>4. QED
    BY <2>3 DEF S
<1>15. \A d \in D : IsDrawing(d)
  <2> HIDE DEF V
  <2>1. QED
    BY DEF D, IsDrawing, IsScreen
<1>16. QED
  BY <1>12, <1>13, <1>14, <1>15 DEF F

(* What has been drawn of a text does not change when it gets longer.      *)
LEMMA DrawnAppend ==
  ASSUME NEW start, IsDrawing(start), NEW G, NEW shown \in Seq(G), NEW g \in G
  PROVE  /\ IsDrawing(Drawn(start, shown))
         /\ Drawn(start, Append(shown, g)) = Put(Drawn(start, shown), g)
<1> DEFINE N == Len(shown)
           longer == Append(shown, g)
           E == DrawnUpTo(start, shown)
           F == DrawnUpTo(start, longer)
<1>1. /\ N \in Nat /\ Len(longer) = N + 1 /\ longer[N + 1] = g
      /\ \A i \in 1..N : longer[i] = shown[i]
  OBVIOUS
<1>2. /\ E[0] = start /\ F[0] = start
      /\ \A n \in Nat : E[n + 1] = Put(E[n], shown[n + 1])
      /\ \A n \in Nat : F[n + 1] = Put(F[n], longer[n + 1])
      /\ \A n \in Nat : IsDrawing(E[n])
  <2> HIDE DEF longer
  <2>1. QED
    BY DrawnUpToIs
<1>3. Drawn(start, shown) = E[N] /\ Drawn(start, longer) = F[N + 1]
  BY <1>1 DEF Drawn
<1> HIDE DEF E, F, N, longer
<1>4. F[N] = E[N]
  <2> DEFINE S == {n \in Nat : n <= N => F[n] = E[n]}
  <2>1. 0 \in S
    BY <1>2
  <2>2. ASSUME NEW n \in Nat, n \in S
        PROVE  n + 1 \in S
    <3> SUFFICES ASSUME n + 1 <= N
                 PROVE  F[n + 1] = E[n + 1]
      OBVIOUS
    <3>1. n <= N /\ n + 1 \in 1..N
      BY <1>1
    <3>2. F[n] = E[n] /\ longer[n + 1] = shown[n + 1]
      BY <1>1, <2>2, <3>1
    <3>3. F[n + 1] = Put(F[n], longer[n + 1]) /\ E[n + 1] = Put(E[n], shown[n + 1])
      BY <1>2
    <3>4. QED
      BY <3>2, <3>3
  <2> HIDE DEF S
  <2>3. N \in S
    BY <1>1, <2>1, <2>2, SetInduction
  <2>4. QED
    BY <1>1, <2>3 DEF S
<1>5. QED
  BY <1>1, <1>2, <1>3, <1>4 DEF longer

LEMMA DrawnNothing ==
  ASSUME NEW start, IsDrawing(start)
  PROVE  Drawn(start, <<>>) = start
<1>1. Len(<<>>) = 0
  OBVIOUS
<1>2. QED
  BY <1>1, DrawnUpToIs DEF Drawn

-----------------------------------------------------------------------------
(* A row's first cell, and the row of a cell.                              *)
LEMMA RowOf ==
  ASSUME NEW x \in 0..(NUM_COLS - 1), NEW y \in Nat
  PROVE  (NUM_COLS * y + x) \div NUM_COLS = y
<1> DEFINE n == NUM_COLS * y + x
           q == n \div NUM_COLS
           t == n % NUM_COLS
<1>1. NUM_COLS \in Nat \ {0} /\ n \in Nat
  BY ConsoleAssumption
<1>2. q \in Nat /\ t \in 0..(NUM_COLS - 1) /\ n = q * NUM_COLS + t
  <2> HIDE DEF n
  <2>1. QED
    BY <1>1
<1> HIDE DEF q, t
<1>3. (y - q) * NUM_COLS = t - x
  BY <1>1, <1>2
<1>4. t - x < NUM_COLS /\ t - x > -NUM_COLS
  BY <1>1, <1>2
<1> HIDE DEF n
<1>5. y - q < 1 /\ y - q > -1
  <2> DEFINE z == y - q
  <2>1. z \in Int /\ z * NUM_COLS < NUM_COLS /\ z * NUM_COLS > -NUM_COLS
    BY <1>1, <1>2, <1>3, <1>4
  <2> HIDE DEF z
  <2>2. z < 1 /\ z > -1
    BY <1>1, <2>1
  <2>3. QED
    BY <2>2 DEF z
<1>6. QED
  BY <1>2, <1>5 DEF q, n

(* Where kprintStr goes on is the cell a terminal would go on at: after a  *)
(* character, after a line break, and after neither.                       *)
LEMMA WrapsAlike ==
  ASSUME NEW x \in 0..(NUM_COLS - 1), NEW y \in 0..(NUM_ROWS - 1)
  PROVE  LET cell == NUM_COLS * y + x
             at1(p) == NUM_COLS * p.y + p.x
         IN /\ at1(Wrapped(x + 1, y)) = (cell + 1) % (NUM_COLS * NUM_ROWS)
            /\ at1(Wrapped(0, y + 1)) =
                 ((cell \div NUM_COLS + 1) % NUM_ROWS) * NUM_COLS
            /\ Wrapped(x + 0, y) = [x |-> x, y |-> y]
<1> DEFINE C == NUM_COLS
           R == NUM_ROWS
           cell == C * y + x
           Goes1 == NUM_COLS * Wrapped(x + 1, y).y + Wrapped(x + 1, y).x
                      = (cell + 1) % (C * R)
<1>1. C \in Nat \ {0} /\ R \in Nat \ {0} /\ cell \in Nat /\ x \in Nat /\ y \in Nat
      /\ C * y \in Nat /\ x < C /\ y < R
  BY ConsoleAssumption
<1>2. Wrapped(x + 0, y) = [x |-> x, y |-> y]
  BY <1>1 DEF Wrapped
<1>3. ASSUME NEW n \in Nat, NEW m \in Nat \ {0}, n < m
      PROVE  n % m = n
  BY <1>3
<1>4. ASSUME NEW m \in Nat \ {0}
      PROVE  m % m = 0
  BY <1>4
<1>5. ASSUME x + 1 < C
      PROVE  Goes1
  <2>1. Wrapped(x + 1, y) = [x |-> x + 1, y |-> y]
    <3>1. (x + 1) % C = x + 1
      BY <1>1, <1>3, <1>5
    <3>2. QED
      BY <1>1, <1>5, <3>1 DEF Wrapped
  <2>2. x + 1 \in 0..(NUM_COLS - 1) /\ cell + 1 = C * y + (x + 1)
    BY <1>1, <1>5
  <2>3. cell + 1 \in Cells
    BY <2>2, CellIn
  <2>4. cell + 1 < C * R /\ cell + 1 \in Nat /\ C * R \in Nat \ {0}
    BY <1>1, <2>3 DEF Cells
  <2>5. (cell + 1) % (C * R) = cell + 1
    <3> HIDE DEF cell, C, R
    <3>1. QED
      BY <1>3, <2>4
  <2>6. QED
    BY <1>1, <2>1, <2>2, <2>5
<1>6. ASSUME x + 1 = C /\ y + 1 < R
      PROVE  Goes1
  <2>1. Wrapped(x + 1, y) = [x |-> 0, y |-> y + 1]
    <3>1. (x + 1) % C = 0
      BY <1>1, <1>4, <1>6
    <3>2. QED
      BY <1>1, <1>6, <3>1 DEF Wrapped
  <2>2. 0 \in 0..(NUM_COLS - 1) /\ y + 1 \in 0..(NUM_ROWS - 1)
    BY <1>1, <1>6
  <2>3. C * (y + 1) + 0 \in Cells
    BY <2>2, CellIn
  <2>4. cell + 1 = C * (y + 1) + 0
    BY <1>1, <1>6
  <2>5. cell + 1 < C * R /\ cell + 1 \in Nat /\ C * R \in Nat \ {0}
    BY <1>1, <2>3, <2>4 DEF Cells
  <2>6. (cell + 1) % (C * R) = cell + 1
    <3> HIDE DEF cell, C, R
    <3>1. QED
      BY <1>3, <2>5
  <2>7. QED
    BY <1>1, <2>1, <2>4, <2>6
<1>7. ASSUME x + 1 = C /\ y + 1 = R
      PROVE  Goes1
  <2>1. Wrapped(x + 1, y) = [x |-> 0, y |-> 0]
    <3>1. (y + 1) % R = 0
      BY <1>1, <1>4, <1>7
    <3>2. QED
      BY <1>1, <1>7, <3>1 DEF Wrapped
  <2>2. cell + 1 = C * R
    BY <1>1, <1>7
  <2>3. C * R \in Nat \ {0}
    BY <1>1
  <2>4. (cell + 1) % (C * R) = 0
    <3> HIDE DEF cell, C, R
    <3>1. QED
      BY <1>4, <2>2, <2>3
  <2>5. C * 0 + 0 = 0
    BY <1>1
  <2>6. QED
    BY <2>1, <2>4, <2>5
<1>8. NUM_COLS * Wrapped(0, y + 1).y + Wrapped(0, y + 1).x = ((y + 1) % R) * C
  <2>1. CASE y + 1 < R
    <3>1. (y + 1) % R = y + 1 /\ 0 % C = 0
      BY <1>1, <1>3, <2>1
    <3>2. Wrapped(0, y + 1) = [x |-> 0, y |-> y + 1]
      BY <1>1, <2>1, <3>1 DEF Wrapped
    <3>3. QED
      BY <1>1, <3>1, <3>2
  <2>2. CASE y + 1 = R
    <3>1. (y + 1) % R = 0
      BY <1>1, <1>4, <2>2
    <3>2. Wrapped(0, y + 1) = [x |-> 0, y |-> 0]
      BY <1>1, <2>2, <3>1 DEF Wrapped
    <3>3. QED
      BY <1>1, <3>1, <3>2
  <2>3. QED
    BY <1>1, <2>1, <2>2
<1>9. cell \div C = y
  BY <1>1, RowOf
<1>10. x + 1 < C \/ (x + 1 = C /\ y + 1 < R) \/ (x + 1 = C /\ y + 1 = R)
  BY <1>1
<1>11. Goes1
  BY <1>5, <1>6, <1>7, <1>10
<1>12. QED
  BY <1>2, <1>8, <1>9, <1>11

-----------------------------------------------------------------------------
(* The screen as the call found it, with the cell it started at; and what  *)
(* should be seen when the given characters have been drawn: in the cell   *)
(* that kprintChar is at, what it is about to store, elsewhere the screen. *)
Origin == [cell |-> NUM_COLS * call.fromY + call.fromX, cells |-> before]

Pending(i) == at \in {"char", "color"} /\ i = out.p

Agrees(d) ==
  /\ d.cell = NUM_COLS * call.y + call.x
  /\ \A i \in Cells \ {KEY_CELL} :
       IF Pending(i)
         THEN /\ d.cells[i] = [c |-> out.c, color |-> out.color]
              /\ at = "color" => screen[i].c = out.c
         ELSE d.cells[i] = screen[i]

(* k rounds of kprintStr are done, but for what kprintChar is about to do. *)
After(k) ==
  LET r == TakenUpTo(call.text, call.originalColor)[k]
  IN r.s = call.s /\ r.col = call.col /\ Agrees(Drawn(Origin, r.shown))

(* Nothing has been printed: before the screen is cleared.                 *)
Idle == /\ call.text = <<>> /\ call.s = 1 /\ call.col = call.originalColor
        /\ call.x = call.fromX /\ call.y = call.fromY

ScreenType ==
  /\ IsScreen(screen) /\ IsScreen(before)
  /\ \A i \in Cells : screen[i] = [c |-> screen[i].c, color |-> screen[i].color]
  /\ call.originalColor \in Colors
  /\ call.fromX \in 0..(NUM_COLS - 1) /\ call.fromY \in 0..(NUM_ROWS - 1)

TextInv ==
  /\ ScreenType
  /\ at = "ret" => Symbol(call.text, call.s) = "nul"
  /\ call.text = <<>> \/ call.originalColor = Black
  /\ ~Started => Idle
  /\ \E k \in Nat : After(k)

(* Who may touch the console, and when.                                    *)
LEMMA PrintingStep ==
  ASSUME Numbered, [Next]_allVars
  PROVE  /\ Started => Started'
         /\ \/ UNCHANGED consoleVars
            \/ at = "ret" /\ clrscr(Black) /\ ~Started
            \/ \E text \in Seq(STRING), x \in Nat, y \in Nat :
                 kprintStr(text, x, y, Black) /\ Started'
            \/ PrintStep
            \/ \E c : KeyPrinted(c)
<1> DEFINE Ways == \/ UNCHANGED consoleVars
                   \/ at = "ret" /\ clrscr(Black) /\ ~Started
                   \/ \E text \in Seq(STRING), x \in Nat, y \in Nat :
                        kprintStr(text, x, y, Black) /\ Started'
                   \/ PrintStep
                   \/ \E c : KeyPrinted(c)
<1>1. CASE ClearScreen
  BY <1>1 DEF ClearScreen, Goes, Started, InKernel
<1>2. ASSUME NEW from, NEW to \in {"gdt", "remap", "paging", "add", "return"},
             NEW text \in Seq(STRING), NEW x \in Nat, NEW y \in Nat,
             Says(from, to, text, x, y)
      PROVE  Started' /\ Ways
  <2>1. Started'
    BY <1>2 DEF Says, Goes, Started, InKernel
  <2>2. kprintStr(text, x, y, Black)
    BY <1>2 DEF Says
  <2>3. QED
    BY <2>1, <2>2
<1>3. CASE Reports
  <2>1. ASSUME \/ Says("started", "gdt", Banner, 0, 2) \/ Says("gdt", "remap", Banner, 0, 3)
               \/ Says("idt", "paging", Banner, 0, 4)
        PROVE  Started' /\ Ways
    <3>1. Banner \in Seq(STRING) /\ 0 \in Nat /\ 2 \in Nat /\ 3 \in Nat /\ 4 \in Nat
      BY BootAssumption
    <3> HIDE DEF Ways
    <3>2. QED
      BY <1>2, <2>1, <3>1
  <2>2. ASSUME NEW m \in Messages, Says("main", "return", m.text, m.x, m.y)
        PROVE  Started' /\ Ways
    <3>1. m.text \in Seq(STRING) /\ m.x \in Nat /\ m.y \in Nat
      BY BootAssumption
    <3> HIDE DEF Ways
    <3>2. QED
      BY <1>2, <2>2, <3>1
  <2> HIDE DEF Ways
  <2>3. Started' /\ Ways
    BY <1>3, <2>1, <2>2 DEF Reports
  <2>4. QED
    BY <2>3 DEF Ways
<1>4. CASE LoadMemory
  <2>1. CASE More /\ Says("entry", "add", Banner, 1, 9 + slot)
    <3>1. Banner \in Seq(STRING) /\ 1 \in Nat /\ 9 + slot \in Nat
      BY BootAssumption DEF Numbered
    <3> HIDE DEF Ways
    <3>2. Started' /\ Ways
      BY <1>2, <2>1, <3>1
    <3>3. QED
      BY <3>2 DEF Ways
  <2>2. CASE \/ Goes("paging", "entry") /\ UNCHANGED consoleVars
             \/ Goes("add", "entry") /\ UNCHANGED consoleVars
             \/ Goes("entry", "main") /\ UNCHANGED consoleVars
    BY <2>2 DEF Goes, Started, InKernel
  <2>3. QED
    BY <1>4, <2>1, <2>2 DEF LoadMemory
<1>5. CASE \/ ReadDisk \/ MapMemory \/ SendCommand \/ SendData \/ CheckA20 \/ CheckCPU
           \/ CheckLongMode \/ MaskLines \/ LoadNullIdt \/ EnterKernel
           \/ Cli \/ RemapIrqs \/ LoadKernelIdt \/ Sti \/ Syscall
  BY <1>5 DEF ReadDisk, MapMemory, SendCommand, SendData, CheckA20, CheckCPU, CheckLongMode,
              MaskLines, LoadNullIdt, EnterKernel, Cli, RemapIrqs, LoadKernelIdt,
              Sti, Syscall, Goes, Started, InKernel, Hang
<1>6. CASE PrintStep /\ UNCHANGED bootVars
  BY <1>6 DEF bootVars, Started, InKernel
<1>7. CASE KbcTakes \/ Devices
  BY <1>7 DEF KbcTakes, Devices, Tick, Press, Stray, bootVars, Started, InKernel
<1>8. CASE Handler /\ UNCHANGED bootVars
  <2>1. Started' <=> Started
    BY <1>8 DEF bootVars, Started, InKernel
  <2>2. UNCHANGED consoleVars \/ \E c : KeyPrinted(c)
    BY <1>8 DEF Handler, BiosHandles, TripleFaults, Enter, ReadKey, EoiIret
  <2>3. QED
    BY <2>1, <2>2
<1>9. CASE UNCHANGED <<consoleVars, bootVars>>
  BY <1>9 DEF bootVars, Started, InKernel
<1>10. QED
  BY <1>1, <1>3, <1>4, <1>5, <1>6, <1>7, <1>8, <1>9
     DEF Next, BootNext, Program, Reads, Typed, allVars

(* Before the first character.                                             *)
LEMMA Begun ==
  ASSUME NEW text \in Seq(STRING), NEW col \in Colors, NEW start, IsDrawing(start)
  PROVE  LET r == TakenUpTo(text, col)[0]
         IN r.s = 1 /\ r.col = col /\ Drawn(start, r.shown) = start
<1>1. TakenUpTo(text, col)[0] = [s |-> 1, col |-> col, shown |-> <<>>]
  BY TakenUpToIs
<1>2. QED
  BY <1>1, DrawnNothing

LEMMA OriginIsDrawing ==
  ASSUME NEW x \in 0..(NUM_COLS - 1), NEW y \in 0..(NUM_ROWS - 1), NEW f, IsScreen(f)
  PROVE  IsDrawing([cell |-> NUM_COLS * y + x, cells |-> f])
BY CellIn, CellsNat DEF IsDrawing

(* kprintStr's colours are those of the provers' Colors.                   *)
LEMMA BlackIsColor == Black \in Colors
BY DEF Black, Colors, Words

(* What TextInv says of the drawing that the call has come to.             *)
LEMMA DrawingIs ==
  ASSUME PrintInv, TextInv, NEW k \in Nat
  PROVE  LET r == TakenUpTo(call.text, call.originalColor)[k]
         IN /\ r \in Takings
            /\ IsDrawing(Origin)
            /\ IsDrawing(Drawn(Origin, r.shown))
            /\ TakenUpTo(call.text, call.originalColor)[k + 1] =
                 Taken(call.text, call.originalColor, r)
<1> DEFINE r == TakenUpTo(call.text, call.originalColor)[k]
<1>1. call.text \in Seq(STRING) /\ call.originalColor \in Colors
  BY DEF PrintInv, CallIs, TextInv, ScreenType
<1>2. /\ r \in Takings
      /\ TakenUpTo(call.text, call.originalColor)[k + 1] =
           Taken(call.text, call.originalColor, r)
  BY <1>1, TakenUpToIs
<1>3. IsDrawing(Origin)
  BY OriginIsDrawing DEF TextInv, ScreenType, Origin
<1> HIDE DEF r
<1>4. Len(r.shown) \in Nat
  BY <1>2 DEF Takings
<1>5. IsDrawing(Drawn(Origin, r.shown))
  BY <1>3, <1>4, DrawnUpToIs DEF Drawn
<1>6. QED
  BY <1>2, <1>3, <1>5 DEF r

(* The steps that leave the screen, the position and the program's last    *)
(* character alone.                                                        *)
LEMMA TextKept ==
  ASSUME TextInv, UNCHANGED <<call, before, out>>,
         IsScreen(screen'),
         \A i \in Cells : screen'[i] = [c |-> screen'[i].c, color |-> screen'[i].color],
         \A i \in Cells \ {KEY_CELL} : screen'[i] = screen[i],
         at' = at \/ (at \notin {"ret", "char", "color"} /\ at' \notin {"ret", "char", "color"}),
         Started => Started'
  PROVE  TextInv'
<1>1. PICK k \in Nat : After(k)
  BY DEF TextInv
<1>2. After(k)'
  BY <1>1 DEF After, Agrees, Origin, Pending
<1>3. ScreenType'
  BY DEF TextInv, ScreenType
<1>4. (at = "ret" => Symbol(call.text, call.s) = "nul")'
  BY DEF TextInv
<1>5. (call.text = <<>> \/ call.originalColor = Black)' /\ (~Started => Idle)'
  BY DEF TextInv, Idle
<1>6. QED
  BY <1>2, <1>3, <1>4, <1>5 DEF TextInv

(* A round of the loop takes what a terminal would take.                   *)
LEMMA LoopText ==
  ASSUME PrintInv, TextInv, Started, Started', Loop
  PROVE  TextInv'
<1> DEFINE F == TakenUpTo(call.text, call.originalColor)
           c == Symbol(call.text, call.s)
           e == Escape(call.text, call.s, call.col, call.originalColor)
<1>1. /\ at = "loop" /\ UNCHANGED <<screen, before>>
      /\ CallIs
  BY DEF Loop, PrintInv
<1>2. PICK k \in Nat : After(k)
  BY DEF TextInv
<1> DEFINE r == F[k]
           d == Drawn(Origin, r.shown)
<1>3. /\ r \in Takings /\ r.shown \in Seq(Glyphs) /\ r.col \in Colors
      /\ IsDrawing(Origin) /\ IsDrawing(d)
      /\ F[k + 1] = Taken(call.text, call.originalColor, r)
  BY DrawingIs DEF Takings
<1>4. /\ r.s = call.s /\ r.col = call.col
      /\ d.cell = NUM_COLS * call.y + call.x
      /\ \A i \in Cells \ {KEY_CELL} : d.cells[i] = screen[i]
  BY <1>1, <1>2 DEF After, Agrees, Pending
<1>5. /\ call.x \in 0..(NUM_COLS - 1) /\ call.y \in 0..(NUM_ROWS - 1)
      /\ call.text \in Seq(STRING) /\ call.s \in Nat \ {0} /\ c \in Words
  <2>1. /\ call.x \in 0..(NUM_COLS - 1) /\ call.y \in 0..(NUM_ROWS - 1)
        /\ call.text \in Seq(STRING) /\ call.s \in Nat \ {0}
    BY <1>1, <1>3, <1>4 DEF CallIs, Takings
  <2>2. QED
    BY <2>1, SymbolType
<1>6. ScreenType /\ (call.text = <<>> \/ call.originalColor = Black)
  BY DEF TextInv
<1>7. ASSUME NEW n \in Nat, NEW s, NEW x, NEW y, NEW col, Moved(s, x, y, col),
             F[n].s = s + 1, F[n].col = col, at' \in {"loop", "char"},
             NEW w, w = Drawn(Origin, F[n].shown),
             w.cell = NUM_COLS * Wrapped(x, y).y + Wrapped(x, y).x,
             \A i \in Cells \ {KEY_CELL} :
               IF Pending(i)' THEN w.cells[i] = [c |-> out'.c, color |-> out'.color]
                              ELSE w.cells[i] = screen[i]
      PROVE  TextInv'
  <2>1. call' = [text |-> call.text, s |-> s + 1, x |-> Wrapped(x, y).x,
                 y |-> Wrapped(x, y).y, col |-> col,
                 originalColor |-> call.originalColor,
                 fromX |-> call.fromX, fromY |-> call.fromY]
    BY <1>1, <1>7 DEF CallIs, Moved
  <2>2. Origin' = Origin /\ (F[n])' = F[n] /\ Drawn(Origin, F[n].shown)' = w
    BY <1>1, <1>7, <2>1 DEF Origin
  <2> HIDE DEF F
  <2>3. Agrees(w)'
    BY <1>1, <1>7, <2>1 DEF Agrees
  <2>4. After(n)'
    BY <1>7, <2>1, <2>2, <2>3 DEF After, F
  <2>5. ScreenType'
    BY <1>1, <1>6, <2>1 DEF ScreenType
  <2>6. QED
    BY <1>6, <1>7, <2>1, <2>4, <2>5 DEF TextInv
<1>8. CASE c = "nul" /\ at' = "ret" /\ UNCHANGED <<call, out>>
  <2>1. After(k)'
    BY <1>1, <1>2, <1>8 DEF After, Agrees, Origin, Pending
  <2>2. ScreenType'
    BY <1>1, <1>6, <1>8 DEF ScreenType
  <2>3. QED
    BY <1>6, <1>8, <2>1, <2>2 DEF TextInv
<1> DEFINE t == F[k + 1]
           w == Drawn(Origin, t.shown)
<1>9. ASSUME NEW g \in Glyphs, t.shown = Append(r.shown, g)
      PROVE  w = Put(d, g)
  BY <1>3, <1>9, DrawnAppend
<1>10. CASE c = "nl" /\ Moved(call.s, 0, call.y + 1, call.col) /\ UNCHANGED <<at, out>>
  <2> DEFINE g == [c |-> c, color |-> call.col]
  <2>1. g \in Glyphs
    BY <1>3, <1>4, <1>5 DEF Glyphs
  <2>2. t = [s |-> call.s + 1, col |-> call.col, shown |-> Append(r.shown, g)]
    BY <1>3, <1>4, <1>10 DEF Taken
  <2>3. w = Put(d, g)
    BY <1>9, <2>1, <2>2
  <2>4. w = [d EXCEPT !.cell = ((d.cell \div NUM_COLS + 1) % NUM_ROWS) * NUM_COLS]
    BY <1>10, <2>3 DEF Put
  <2>5. /\ w.cells = d.cells
        /\ w.cell = ((d.cell \div NUM_COLS + 1) % NUM_ROWS) * NUM_COLS
    <3> HIDE DEF d, w
    <3>1. QED
      BY <1>3, <2>4 DEF IsDrawing
  <2>6. w.cell = NUM_COLS * Wrapped(0, call.y + 1).y + Wrapped(0, call.y + 1).x
    <3> HIDE DEF d, w
    <3>1. QED
      BY <1>4, <1>5, <2>5, WrapsAlike
  <2>7. \A i \in Cells \ {KEY_CELL} : ~Pending(i)' /\ w.cells[i] = screen[i]
    <3> HIDE DEF d, w
    <3>1. QED
      BY <1>1, <1>4, <1>10, <2>5 DEF Pending
  <2>8. t.s = call.s + 1 /\ t.col = call.col /\ at' = "loop" /\ k + 1 \in Nat
    BY <1>1, <1>10, <2>2
  <2> HIDE DEF d, r, F, g
  <2>9. QED
    BY <1>7, <1>10, <2>6, <2>7, <2>8
<1>11. CASE /\ c = "esc" /\ ~e.prints
            /\ Moved(e.s, call.x + 0, call.y, e.col)
            /\ UNCHANGED <<at, out>>
  <2>1. t = [s |-> e.s + 1, col |-> e.col, shown |-> r.shown]
    BY <1>3, <1>4, <1>11 DEF Taken
  <2>2. w = d
    BY <2>1
  <2>3. w.cell = NUM_COLS * Wrapped(call.x + 0, call.y).y + Wrapped(call.x + 0, call.y).x
    <3>1. Wrapped(call.x + 0, call.y) = [x |-> call.x, y |-> call.y]
      BY <1>5, WrapsAlike
    <3> HIDE DEF d, w
    <3>2. QED
      BY <1>4, <2>2, <3>1
  <2>4. \A i \in Cells \ {KEY_CELL} : ~Pending(i)' /\ w.cells[i] = screen[i]
    <3> HIDE DEF d, w
    <3>1. QED
      BY <1>1, <1>4, <1>11, <2>2 DEF Pending
  <2>5. t.s = e.s + 1 /\ t.col = e.col /\ at' = "loop" /\ k + 1 \in Nat
    BY <1>1, <1>11, <2>1
  <2> HIDE DEF d, r, F, e
  <2>6. QED
    BY <1>7, <1>11, <2>3, <2>4, <2>5
<1>12. ASSUME NEW g \in Glyphs, g.c # "nl", t.shown = Append(r.shown, g),
              NEW s, NEW col, Moved(s, call.x + 1, call.y, col),
              t.s = s + 1, t.col = col, Prints(g.c, g.color)
       PROVE  TextInv'
  <2>1. w = Put(d, g)
    BY <1>9, <1>12
  <2>2. w = [cell |-> (d.cell + 1) % (NUM_COLS * NUM_ROWS),
             cells |-> [d.cells EXCEPT ![d.cell] = g]]
    BY <1>12, <2>1 DEF Put
  <2>3. at' = "char" /\ out' = [p |-> d.cell, c |-> g.c, color |-> g.color]
    BY <1>4, <1>12 DEF Prints
  <2>4. g = [c |-> out'.c, color |-> out'.color] /\ out'.p = d.cell
    BY <2>3 DEF Glyphs
  <2> HIDE DEF d, w
  <2>5. w.cell = NUM_COLS * Wrapped(call.x + 1, call.y).y + Wrapped(call.x + 1, call.y).x
    BY <1>4, <1>5, <2>2, WrapsAlike
  <2>6. \A i \in Cells : w.cells[i] = IF i = d.cell THEN g ELSE d.cells[i]
    BY <1>3, <2>2 DEF IsDrawing, IsScreen
  <2>7. \A i \in Cells \ {KEY_CELL} :
          IF Pending(i)' THEN w.cells[i] = [c |-> out'.c, color |-> out'.color]
                         ELSE w.cells[i] = screen[i]
    BY <1>4, <2>3, <2>4, <2>6 DEF Pending
  <2>8. /\ k + 1 \in Nat /\ w = Drawn(Origin, t.shown)
        /\ at' \in {"loop", "char"}
        /\ Moved(s, call.x + 1, call.y, col) /\ t.s = s + 1 /\ t.col = col
    BY <1>12, <2>3 DEF w
  <2> HIDE DEF r, F
  <2>9. QED
    BY <1>7, <2>5, <2>7, <2>8
<1>13. CASE /\ c = "esc" /\ e.prints
            /\ Moved(e.s, call.x + 1, call.y, e.col)
            /\ Prints("G", [bg |-> "black", fg |-> "pink"])
  <2>1. t = [s |-> e.s + 1, col |-> e.col, shown |-> Append(r.shown, Warning)]
    BY <1>3, <1>4, <1>13 DEF Taken
  <2>2. Warning \in Glyphs /\ Warning.c = "G"
        /\ Warning.color = [bg |-> "black", fg |-> "pink"]
    BY DEF Warning, Glyphs, Colors, Words
  <2> HIDE DEF r, t, e
  <2>3. t.shown = Append(r.shown, Warning) /\ t.s = e.s + 1 /\ t.col = e.col
    BY <2>1
  <2>4. QED
    BY <1>12, <1>13, <2>2, <2>3
<1>14. CASE /\ c \notin {"nul", "nl", "esc"}
            /\ Moved(call.s, call.x + 1, call.y, call.col)
            /\ Prints(c, call.col)
  <2> DEFINE g == [c |-> c, color |-> call.col]
  <2>1. g \in Glyphs /\ g.c = c /\ g.color = call.col
    BY <1>3, <1>4, <1>5 DEF Glyphs
  <2>2. t = [s |-> call.s + 1, col |-> call.col, shown |-> Append(r.shown, g)]
    BY <1>3, <1>4, <1>14 DEF Taken
  <2> HIDE DEF r, t, g
  <2>3. t.shown = Append(r.shown, g) /\ t.s = call.s + 1 /\ t.col = call.col
    BY <2>2
  <2>4. g.c # "nl"
    BY <1>14, <2>1
  <2> HIDE DEF c
  <2>5. QED
    BY <1>12, <1>14, <2>1, <2>3, <2>4
<1>15. QED
  BY <1>8, <1>10, <1>11, <1>13, <1>14 DEF Loop

(* kprintChar's two stores put what is pending on the screen.              *)
LEMMA StoreText ==
  ASSUME PrintInv, TextInv, Started, Started', StoreChar \/ StoreColor
  PROVE  TextInv'
<1>1. PICK k \in Nat : After(k)
  BY DEF TextInv
<1>2. UNCHANGED <<call, out, before>> /\ at \in {"char", "color"} /\ at' # "ret"
  BY DEF StoreChar, StoreColor, Access
<1>d. PICK d : d = Drawn(Origin, TakenUpTo(call.text, call.originalColor)[k].shown)
  OBVIOUS
<1>3. Agrees(d) /\ Origin' = Origin
  BY <1>1, <1>2, <1>d DEF After, Origin
<1>4. screen = [i \in Cells |-> screen[i]]
      /\ \A i \in Cells : screen[i] = [c |-> screen[i].c, color |-> screen[i].color]
  BY DEF TextInv, ScreenType, IsScreen
<1>5. CASE StoreChar
  <2>1. /\ at = "char" /\ at' = "color"
        /\ screen' = [screen EXCEPT ![out.p].c = out.c]
    BY <1>5 DEF StoreChar, Access
  <2>2. /\ screen' = [i \in Cells |-> screen'[i]]
        /\ \A i \in Cells : screen'[i] = IF i = out.p
                                          THEN [c |-> out.c, color |-> screen[i].color]
                                          ELSE screen[i]
    <3>1. \A i \in Cells : [screen[i] EXCEPT !.c = out.c] = [c |-> out.c, color |-> screen[i].color]
      BY <1>4
    <3>2. /\ screen' = [i \in Cells |-> screen'[i]]
          /\ \A i \in Cells : screen'[i] = IF i = out.p THEN [screen[i] EXCEPT !.c = out.c]
                                                        ELSE screen[i]
      BY <1>4, <2>1
    <3>3. QED
      BY <3>1, <3>2
  <2>3. \A i \in Cells : screen'[i] = [c |-> screen'[i].c, color |-> screen'[i].color]
    BY <1>4, <2>2
  <2>4. Agrees(d)'
    <3>1. d.cell = NUM_COLS * call.y + call.x
          /\ \A i \in Cells \ {KEY_CELL} :
               IF i = out.p THEN d.cells[i] = [c |-> out.c, color |-> out.color]
                            ELSE d.cells[i] = screen[i]
      BY <1>3, <2>1 DEF Agrees, Pending
    <3>2. \A i \in Cells : i = out.p => screen'[i].c = out.c
      BY <2>2
    <3>3. \A i \in Cells : i # out.p => screen'[i] = screen[i]
      BY <2>2
    <3>4. QED
      BY <1>2, <2>1, <3>1, <3>2, <3>3 DEF Agrees, Pending
  <2>5. After(k)'
    BY <1>1, <1>2, <1>3, <1>d, <2>4 DEF After
  <2>6. ScreenType'
    BY <1>2, <2>2, <2>3 DEF TextInv, ScreenType, IsScreen
  <2>7. QED
    BY <1>2, <2>5, <2>6 DEF TextInv
<1>6. CASE StoreColor
  <2>1. /\ at = "color" /\ at' = "selectLo"
        /\ screen' = [screen EXCEPT ![out.p].color = out.color]
    BY <1>6 DEF StoreColor, Access
  <2>2. /\ screen' = [i \in Cells |-> screen'[i]]
        /\ \A i \in Cells : screen'[i] = IF i = out.p
                                          THEN [c |-> screen[i].c, color |-> out.color]
                                          ELSE screen[i]
    <3>1. \A i \in Cells : [screen[i] EXCEPT !.color = out.color] = [c |-> screen[i].c, color |-> out.color]
      BY <1>4
    <3>2. /\ screen' = [i \in Cells |-> screen'[i]]
          /\ \A i \in Cells : screen'[i] = IF i = out.p THEN [screen[i] EXCEPT !.color = out.color]
                                                        ELSE screen[i]
      BY <1>4, <2>1
    <3>3. QED
      BY <3>1, <3>2
  <2>3. \A i \in Cells : screen'[i] = [c |-> screen'[i].c, color |-> screen'[i].color]
    BY <1>4, <2>2
  <2>4. Agrees(d)'
    BY <1>2, <1>3, <2>1, <2>2 DEF Agrees, Pending
  <2>5. After(k)'
    BY <1>1, <1>2, <1>3, <1>d, <2>4 DEF After
  <2>6. ScreenType'
    BY <1>2, <2>2, <2>3 DEF TextInv, ScreenType, IsScreen
  <2>7. QED
    BY <1>2, <2>5, <2>6 DEF TextInv
<1>7. QED
  BY <1>5, <1>6

(* A call begins with the screen as it is.                                 *)
LEMMA CallText ==
  ASSUME TextInv, NEW text \in Seq(STRING), NEW x \in Nat, NEW y \in Nat,
         kprintStr(text, x, y, Black), Started'
  PROVE  TextInv'
<1>1. x % NUM_COLS \in 0..(NUM_COLS - 1) /\ y % NUM_ROWS \in 0..(NUM_ROWS - 1)
  BY ModBelow, ConsoleAssumption
<1>2. call' = [text |-> text, s |-> 1, x |-> x % NUM_COLS, y |-> y % NUM_ROWS,
               col |-> Black, originalColor |-> Black,
               fromX |-> x % NUM_COLS, fromY |-> y % NUM_ROWS]
      /\ at' = "loop" /\ before' = screen /\ screen' = screen
  BY DEF kprintStr
<1>s. PICK start : start = [cell |-> NUM_COLS * (y % NUM_ROWS) + (x % NUM_COLS),
                           cells |-> screen]
  OBVIOUS
<1>3. Origin' = start
  BY <1>2, <1>s DEF Origin
<1>4. IsDrawing(start)
  BY <1>1, <1>s, OriginIsDrawing DEF TextInv, ScreenType
<1>5. /\ start.cell = NUM_COLS * (y % NUM_ROWS) + (x % NUM_COLS)
      /\ start.cells = screen
  BY <1>s
<1>6. LET r == TakenUpTo(text, Black)[0]
      IN r.s = 1 /\ r.col = Black /\ Drawn(start, r.shown) = start
  BY <1>4, Begun, BlackIsColor
<1>7. Agrees(start)'
  BY <1>2, <1>5 DEF Agrees, Pending
<1>8. After(0)'
  BY <1>2, <1>3, <1>6, <1>7 DEF After
<1>9. ScreenType'
  BY <1>1, <1>2, BlackIsColor DEF TextInv, ScreenType
<1>10. QED
  BY <1>2, <1>8, <1>9 DEF TextInv

(* Before anything is printed, a blank screen begins anew.                 *)
LEMMA ClearText ==
  ASSUME TextInv, at = "ret", ~Started, clrscr(Black), PrintInv
  PROVE  TextInv'
<1>1. /\ screen' = [i \in Cells |-> Blank(Black)] /\ before' = screen'
      /\ UNCHANGED <<at, call>>
  BY DEF clrscr
<1>2. Idle /\ call.originalColor \in Colors /\ Symbol(call.text, call.s) = "nul"
      /\ call.fromX \in 0..(NUM_COLS - 1) /\ call.fromY \in 0..(NUM_ROWS - 1)
  BY DEF TextInv, ScreenType
<1>3. IsScreen(screen') /\ \A i \in Cells : screen'[i] = Blank(Black)
  BY <1>1 DEF IsScreen
<1>4. ScreenType'
  BY <1>1, <1>2, <1>3 DEF ScreenType, Blank
<1>s. PICK start : start = [cell |-> NUM_COLS * call.fromY + call.fromX, cells |-> screen']
  OBVIOUS
<1>5. Origin' = start
  BY <1>1, <1>s DEF Origin
<1>6. IsDrawing(start)
  BY <1>2, <1>3, <1>s, OriginIsDrawing
<1>7. start.cell = NUM_COLS * call.y + call.x /\ start.cells = screen'
  BY <1>2, <1>s DEF Idle
<1>8. call.text \in Seq(STRING)
  BY DEF PrintInv, CallIs
<1>9. LET r == TakenUpTo(call.text, call.originalColor)[0]
      IN r.s = 1 /\ r.col = call.originalColor /\ Drawn(start, r.shown) = start
  BY <1>2, <1>6, <1>8, Begun
<1>10. Agrees(start)'
  BY <1>1, <1>7 DEF Agrees, Pending
<1>11. After(0)'
  BY <1>1, <1>2, <1>5, <1>9, <1>10 DEF After, Idle
<1>12. QED
  BY <1>1, <1>2, <1>4, <1>11 DEF TextInv, Idle

(* A key is printed in its own cell.                                       *)
LEMMA KeyText ==
  ASSUME TextInv, NEW c, KeyPrinted(c), Started => Started'
  PROVE  TextInv'
<1> DEFINE g == [c |-> c, color |-> [bg |-> "blue", fg |-> "white"]]
<1>1. UNCHANGED <<at, call, before, out>> /\ screen' = [screen EXCEPT ![KEY_CELL] = g]
  BY DEF KeyPrinted
<1>2. screen = [i \in Cells |-> screen[i]]
      /\ \A i \in Cells : screen[i] = [c |-> screen[i].c, color |-> screen[i].color]
  BY DEF TextInv, ScreenType, IsScreen
<1>3. g = [c |-> g.c, color |-> g.color]
  OBVIOUS
<1> HIDE DEF g
<1>4. /\ screen' = [i \in Cells |-> screen'[i]]
      /\ \A i \in Cells : screen'[i] = IF i = KEY_CELL THEN g ELSE screen[i]
  BY <1>1, <1>2
<1>5. \A i \in Cells : screen'[i] = [c |-> screen'[i].c, color |-> screen'[i].color]
  BY <1>2, <1>3, <1>4
<1>6. IsScreen(screen') /\ \A i \in Cells \ {KEY_CELL} : screen'[i] = screen[i]
  BY <1>4 DEF IsScreen
<1>7. QED
  BY <1>1, <1>5, <1>6, TextKept

LEMMA TextInvStep == Numbered /\ PrintInv /\ TextInv /\ [Next]_allVars => TextInv'
<1> SUFFICES ASSUME Numbered, PrintInv, TextInv, [Next]_allVars
             PROVE  TextInv'
  OBVIOUS
<1>1. Started => Started'
  BY PrintingStep
<1>2. IsScreen(screen)
      /\ \A i \in Cells : screen[i] = [c |-> screen[i].c, color |-> screen[i].color]
  BY DEF TextInv, ScreenType
<1>3. ASSUME UNCHANGED <<call, before, out, screen>>,
             at' = at \/ (at \notin {"ret", "char", "color"} /\ at' \notin {"ret", "char", "color"})
      PROVE  TextInv'
  <2>1. IsScreen(screen')
        /\ \A i \in Cells : screen'[i] = [c |-> screen'[i].c, color |-> screen'[i].color]
    BY <1>2, <1>3
  <2>2. QED
    BY <1>1, <1>3, <2>1, TextKept
<1>4. CASE UNCHANGED consoleVars
  BY <1>3, <1>4 DEF consoleVars
<1>5. CASE at = "ret" /\ clrscr(Black) /\ ~Started
  BY <1>5, ClearText
<1>6. CASE \E text \in Seq(STRING), x \in Nat, y \in Nat :
             kprintStr(text, x, y, Black) /\ Started'
  BY <1>6, CallText
<1>7. CASE PrintStep
  <2>1. at # "ret"
    BY <1>7 DEF PrintStep, Loop, StoreChar, StoreColor, setCursorPosition, Select,
                WriteByte, Access
  <2>2. Started /\ Started'
    BY <1>1, <2>1 DEF PrintInv
  <2>3. CASE Loop
    BY <2>2, <2>3, LoopText
  <2>4. CASE StoreChar \/ StoreColor
    BY <2>2, <2>4, StoreText
  <2>5. CASE setCursorPosition
    BY <1>3, <2>5 DEF setCursorPosition, Select, WriteByte, Access
  <2>6. QED
    BY <1>7, <2>3, <2>4, <2>5 DEF PrintStep
<1>8. CASE \E c : KeyPrinted(c)
  BY <1>1, <1>8, KeyText
<1>9. QED
  BY <1>4, <1>5, <1>6, <1>7, <1>8, PrintingStep

LEMMA TextInvInit == Init => TextInv
<1> SUFFICES ASSUME Init
             PROVE  TextInv
  OBVIOUS
<1> DEFINE col == [bg |-> "blue", fg |-> "white"]
<1>1. /\ screen = [i \in Cells |-> Blank(col)] /\ before = screen /\ at = "ret"
      /\ call = [text |-> <<>>, s |-> 1, x |-> 0, y |-> 0, col |-> col,
                 originalColor |-> col, fromX |-> 0, fromY |-> 0]
  BY DEF Init, BootInit, ConsoleInit
<1>2. col \in Colors
  BY DEF Colors, Words
<1>3. IsScreen(screen) /\ \A i \in Cells : screen[i] = Blank(col)
  BY <1>1 DEF IsScreen
<1>4. 0 \in 0..(NUM_COLS - 1) /\ 0 \in 0..(NUM_ROWS - 1)
  BY ConsoleAssumption
<1>5. ScreenType
  BY <1>1, <1>2, <1>3, <1>4 DEF ScreenType, Blank
<1>6. IsDrawing(Origin)
  BY <1>1, <1>3, <1>4, OriginIsDrawing DEF Origin
<1> HIDE DEF col
<1>7. LET r == TakenUpTo(<<>>, col)[0]
      IN r.s = 1 /\ r.col = col /\ Drawn(Origin, r.shown) = Origin
  <2>1. <<>> \in Seq(STRING)
    OBVIOUS
  <2>2. QED
    BY <1>2, <1>6, <2>1, Begun
<1>8. Agrees(Origin)
  BY <1>1 DEF Agrees, Pending, Origin
<1>9. After(0)
  BY <1>1, <1>7, <1>8 DEF After
<1>10. Symbol(call.text, call.s) = "nul" /\ Idle
  <2>1. Len(<<>>) = 0
    OBVIOUS
  <2>2. QED
    BY <1>1, <2>1 DEF Symbol, Idle
<1>11. QED
  BY <1>1, <1>5, <1>9, <1>10 DEF TextInv

(* Shows says what each string means.                                      *)
ShowsMeaning == \A text \in DOMAIN Shows : Shows[text] = Meaning(text, Black)

LEMMA TextInvShows ==
  ASSUME ShowsMeaning, PrintInv, TextInv
  PROVE  ScreenIsText
<1> SUFFICES ASSUME at = "ret", call.text \in DOMAIN Shows,
                    NEW i \in Cells \ {KEY_CELL}
             PROVE  screen[i] = Shown[i]
  BY DEF ScreenIsText
<1>1. PICK k \in Nat : After(k)
  BY DEF TextInv
<1>2. call.text \in Seq(STRING) /\ call.originalColor \in Colors
      /\ Symbol(call.text, call.s) = "nul"
  BY DEF PrintInv, CallIs, TextInv, ScreenType
<1> DEFINE r == TakenUpTo(call.text, call.originalColor)[k]
<1>3. r.s = call.s /\ Agrees(Drawn(Origin, r.shown))
  BY <1>1 DEF After
<1>4. Meaning(call.text, call.originalColor) = r.shown
  BY <1>2, <1>3, MeaningIs
<1>5. Meaning(call.text, Black) = Meaning(call.text, call.originalColor)
  <2>1. CASE call.originalColor = Black
    BY <2>1
  <2>2. CASE call.text = <<>>
    <3>1. \A col : Meaning(<<>>, col) = TakenUpTo(<<>>, col)[0].shown
      <4>1. Len(<<>>) = 0
        OBVIOUS
      <4>2. QED
        BY <4>1 DEF Meaning
    <3>2. /\ TakenUpTo(<<>>, Black)[0].shown = <<>>
          /\ TakenUpTo(<<>>, call.originalColor)[0].shown = <<>>
      <4>1. ASSUME NEW col \in Colors
            PROVE  TakenUpTo(<<>>, col)[0].shown = <<>>
        <5>1. <<>> \in Seq(STRING)
          OBVIOUS
        <5>2. TakenUpTo(<<>>, col)[0] = [s |-> 1, col |-> col, shown |-> <<>>]
          BY <5>1, TakenUpToIs
        <5>3. QED
          BY <5>2
      <4>2. QED
        BY <1>2, <4>1, BlackIsColor
    <3>3. QED
      BY <2>2, <3>1, <3>2
  <2>3. QED
    BY <2>1, <2>2 DEF TextInv
<1>6. Shows[call.text] = r.shown
  BY <1>4, <1>5 DEF ShowsMeaning
<1> HIDE DEF r
<1>7. Shown = Drawn(Origin, r.shown).cells
  BY <1>6 DEF Shown, Origin
<1>8. QED
  BY <1>3, <1>7 DEF Agrees, Pending

(* For every screen, every text and any keys at any moment: when kprintStr *)
(* has returned, the screen shows what the string means, in its colours,   *)
(* and is otherwise as it was (gfx_text.cpp:58-141).                       *)
THEOREM ScreenAlwaysText ==
  ASSUME ShowsMeaning
  PROVE  Spec => []ScreenIsText
<1>1. PrintInv /\ TextInv => ScreenIsText
  BY TextInvShows
<1>2. Spec => [](Numbered /\ PrintInv /\ CursorInv)
  BY ConsoleInvariant
<1>3. QED
  BY <1>1, <1>2, TextInvInit, TextInvStep, PTL DEF Spec
=============================================================================
