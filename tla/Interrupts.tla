---------------------------- MODULE Interrupts ----------------------------
(***************************************************************************)
(* The 8259 interrupt controllers, the IDT and the handlers of             *)
(* interruptions.asm, with the timer (IRQ 0), the keyboard controller      *)
(* (IRQ 1) and lines without a handler.  The two cascaded controllers are  *)
(* one: the kernel programs and acknowledges them alike.  The devices are  *)
(* modelled from how the code uses them.                                   *)
(***************************************************************************)
EXTENDS Console

CONSTANTS
  Keys,    (* scan codes                                         *)
  NoKey,   (* the keyboard controller's output buffer is empty   *)
  MaxKeys  (* bound: bytes the keyboard sends                    *)

ASSUME InterruptsAssumption == NoKey \notin Keys /\ MaxKeys \in Nat

VARIABLES
  cpu,   (* if: the interrupt flag; idt: what IDTR points to; in: the      *)
         (* handler that runs, or "program"                                *)
  pic,   (* masked: all lines are; irr, isr: the lines requested, served   *)
  kbd,   (* the output buffer behind port 0x60                             *)
  sent   (* how many bytes the keyboard has sent                           *)

intVars == <<cpu, pic, kbd, sent>>

(* In the order of priority. "stray" is any line but 0 and 1.              *)
Lines == <<"timer", "keyboard", "stray">>

Above(l, m) == \E i, j \in 1..3 : i < j /\ Lines[i] = l /\ Lines[j] = m

(* The program runs: neither a handler nor the end of everything.          *)
Running == cpu.in = "program"

InterruptsInit ==
  /\ cpu = [if |-> TRUE, idt |-> "bios", in |-> "program"]
  /\ pic = [masked |-> FALSE, irr |-> {}, isr |-> {}]
  /\ kbd = NoKey
  /\ sent = 0

Raised(l) == [pic EXCEPT !.irr = @ \cup {l}]

-----------------------------------------------------------------------------
(* The devices.  A line is raised by an edge and remembered, masked or not.*)
(* The timer's period (55 ms as the BIOS leaves it) is longer than isr_32. *)
Tick ==
  /\ "timer" \notin pic.isr
  /\ pic' = Raised("timer")
  /\ UNCHANGED <<consoleVars, cpu, kbd, sent>>

(* The keyboard controller raises IRQ 1 when its buffer becomes full, and  *)
(* holds the next byte back until port 0x60 has been read.                 *)
Press(k) ==
  /\ kbd = NoKey /\ sent < MaxKeys
  /\ kbd' = k
  /\ sent' = sent + 1
  /\ pic' = Raised("keyboard")
  /\ UNCHANGED <<consoleVars, cpu>>

Stray ==
  /\ pic' = Raised("stray")
  /\ UNCHANGED <<consoleVars, cpu, kbd, sent>>

-----------------------------------------------------------------------------
(* The CPU takes the most urgent request, between two instructions of the  *)
(* program, and not while a line as urgent is still being served.          *)
Deliverable(l) ==
  /\ Running /\ cpu.if /\ ~pic.masked
  /\ l \in pic.irr
  /\ ~\E m \in pic.irr \cup pic.isr : Above(m, l)
  /\ l \notin pic.isr

(* Real mode: the BIOS handles it to the end, keys included.               *)
BiosHandles(l) ==
  /\ Deliverable(l) /\ cpu.idt = "bios"
  /\ pic' = [pic EXCEPT !.irr = @ \ {l}]
  /\ kbd' = IF l = "keyboard" THEN NoKey ELSE kbd
  /\ UNCHANGED <<consoleVars, cpu, sent>>

(* With the zero-length IDT of kernel_64.asm:88 there is nothing to jump   *)
(* to, nor for the fault that gives, nor for the fault that gives.         *)
TripleFaults(l) ==
  /\ Deliverable(l) /\ cpu.idt = "null"
  /\ cpu' = [cpu EXCEPT !.in = "reset"]
  /\ UNCHANGED <<consoleVars, pic, kbd, sent>>

(* The kernel's IDT has interrupt gates for vectors 32 and 33, which clear *)
(* the interrupt flag.  Any other line hits an entry that is not present:  *)
(* exception 11 prints its name (a text not modelled) with interrupts off  *)
(* and loops for ever.                                                     *)
Enter(l) ==
  /\ Deliverable(l) /\ cpu.idt = "kernel"
  /\ pic' = [pic EXCEPT !.irr = @ \ {l}, !.isr = @ \cup {l}]
  /\ cpu' = [cpu EXCEPT !.if = FALSE,
                        !.in = CASE l = "timer" -> "eoi"
                                 [] l = "keyboard" -> "read"
                                 [] OTHER -> "stopped"]
  /\ UNCHANGED <<consoleVars, kbd, sent>>

(* isr_33: "in al,60h", which empties the buffer, and kprintChar.          *)
ReadKey ==
  /\ cpu.in = "read"
  /\ cpu' = [cpu EXCEPT !.in = "eoi"]
  /\ kbd' = NoKey
  /\ KeyPrinted(kbd)
  /\ UNCHANGED <<pic, sent>>

(* Mutant of EoiIret: the interrupt is not acknowledged. *)
EoiIretNot ==
  /\ cpu.in = "eoi"
  /\ cpu' = [cpu EXCEPT !.if = TRUE, !.in = "program"]
  /\ UNCHANGED <<consoleVars, pic, kbd, sent>>

(* isr_32 and isr_33: "out 0x20" (end of the most urgent interrupt that is *)
(* being served) and iretq, which restores the flag.                       *)
EoiIret ==
  /\ cpu.in = "eoi"
  /\ pic' = [pic EXCEPT !.isr = {l \in @ : \E m \in @ : Above(m, l)}]
  /\ cpu' = [cpu EXCEPT !.if = TRUE, !.in = "program"]
  /\ UNCHANGED <<consoleVars, kbd, sent>>

Handler ==
  \/ \E i \in 1..3 :
       BiosHandles(Lines[i]) \/ TripleFaults(Lines[i]) \/ Enter(Lines[i])
  \/ ReadKey \/ EoiIret

-----------------------------------------------------------------------------
(* remap_irqs: the initialisation words forget what was requested, what    *)
(* was being served and the mask; the last two writes unmask every line.   *)
(* A keyboard line that is still high is a new edge for some controllers   *)
(* (QEMU's, at its next update) and none for others.                       *)
remap_irqs ==
  /\ \E again \in SUBSET {l \in {"keyboard"} : kbd # NoKey} :
       pic' = [masked |-> FALSE, irr |-> again, isr |-> {}]
  /\ UNCHANGED <<cpu, kbd, sent>>

(* idt_register_isrs fills the table that setupIDT has cleared, and lidt.  *)
LoadIdt(t) == cpu' = [cpu EXCEPT !.idt = t] /\ UNCHANGED <<pic, kbd, sent>>

SetIf(b) == cpu' = [cpu EXCEPT !.if = b] /\ UNCHANGED <<pic, kbd, sent>>

MaskAll == pic' = [pic EXCEPT !.masked = TRUE] /\ UNCHANGED <<cpu, kbd, sent>>

-----------------------------------------------------------------------------
InterruptsTypeOK ==
  /\ cpu \in [if: BOOLEAN, idt: {"bios", "null", "kernel"},
              in: {"program", "read", "eoi", "stopped", "reset"}]
  /\ pic \in [masked: BOOLEAN, irr: SUBSET {Lines[i] : i \in 1..3},
              isr: SUBSET {Lines[i] : i \in 1..3}]
  /\ kbd \in Keys \cup {NoKey}

(* No interrupt is ever delivered while IDTR holds the zero-length table:  *)
(* the lines are masked before it is loaded (kernel_64.asm:84-88) and the  *)
(* flag is cleared long before remap_irqs opens them again                 *)
(* (start_kernel.asm:48, idt.cpp:81-82, 101-107).                          *)
NoTripleFault == cpu.in # "reset"
=============================================================================
