------------------------------ MODULE Machine ------------------------------
(***************************************************************************)
(* The whole machine with one CPU: the boot, the kernel's prints, the      *)
(* interrupts, and an application that reads characters (the repository's  *)
(* main() only prints; a main() that calls getChar() is env.app = "reads", *)
(* and then something calls keyboard() in interrupt context).              *)
(***************************************************************************)
EXTENDS Boot, Keyboard

CONSTANT Possible   (* the machines the kernel may be started on *)

ASSUME MachineAssumption == Possible \subseteq Machines

allVars == <<consoleVars, intVars, bootVars, kbVars>>

Init == BootInit(Possible) /\ KeyboardInit

Reading == pc = "main" /\ env.app = "reads" /\ at = "ret"

(* main() calls getChar().  The Makefile's -O1 lets the compiler read the  *)
(* counter, which is not volatile, once: GCC makes getChar an empty loop.  *)
(* env.reloads says whether the compiled loop reads it every round.        *)
Reads ==
  /\ Running /\ Reading
  /\ GetChar \/ (env.reloads /\ GetCharStep)
  /\ UNCHANGED <<consoleVars, intVars, bootVars>>

(* A character arrives while main() runs.                                  *)
Typed ==
  /\ Running /\ cpu.if /\ Reading
  /\ keyboard
  /\ UNCHANGED <<consoleVars, intVars, bootVars>>

Next ==
  \/ BootNext /\ UNCHANGED kbVars
  \/ Reads
  \/ Typed

Spec == Init /\ [][Next]_allVars

(* The CPU runs the program between interrupts: the timer leaves it time   *)
(* for many instructions between two ticks, so strong fairness for the     *)
(* program and for the less urgent keyboard line, weak fairness for the    *)
(* handlers, which nothing interrupts.  Devices promise nothing.           *)
Fairness ==
  /\ SF_allVars(Program /\ UNCHANGED kbVars)
  /\ SF_allVars(Reads)
  /\ WF_allVars(Enter("timer") /\ UNCHANGED <<bootVars, kbVars>>)
  /\ SF_allVars(Enter("keyboard") /\ UNCHANGED <<bootVars, kbVars>>)
  /\ WF_allVars((ReadKey \/ EoiIret) /\ UNCHANGED <<bootVars, kbVars>>)

FairSpec == Spec /\ Fairness

-----------------------------------------------------------------------------
TypeOK ==
  ConsoleTypeOK /\ InterruptsTypeOK /\ BootTypeOK /\ KeyboardTypeOK

Sound == [disk |-> "ok", a20 |-> TRUE, byte |-> "other", cpu |-> "long",
          id |-> FALSE, ends |-> "last", stray |-> FALSE]

(* A machine with nothing wrong, with A20 on at power-up and with no       *)
(* interrupt line but the timer and the keyboard, boots to the end of      *)
(* main(), whatever keys are pressed and whenever: every kprintStr returns.*)
BootEnds ==
  (\A f \in DOMAIN Sound : env[f] = Sound[f]) /\ env.app = "prints"
    ~> pc = "spin"

(* A key whose request reaches the controller after remap_irqs appears on  *)
(* the screen, unless an interrupt without a handler stops the machine:    *)
(* the handler reads port 0x60, so the next key can come, and acknowledges *)
(* both its own and the timer's interrupts (interruptions.asm:34-64).      *)
KeysDisplayed ==
  \A k \in Keys :
    InterruptsOn /\ kbd = k /\ "keyboard" \in pic.irr
      ~> (kbd = NoKey /\ screen[KEY_CELL].c = k) \/ cpu.in = "stopped"

(* getChar, compiled to look at the counter, returns once a character has  *)
(* been typed since it was called (stdio.cpp:51-56).                       *)
GetCharReturns ==
  env.reloads /\ get.at # "ret" /\ keyboard_vez > get.time
    ~> get.at = "ret" \/ cpu.in = "stopped"
=============================================================================
