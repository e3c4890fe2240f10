-------------------------------- MODULE Boot --------------------------------
(***************************************************************************)
(* From boot.asm to the end of main(): the real-mode checks, the switch to *)
(* long mode, start_kernel.asm and kmain, on the interrupts of             *)
(* Interrupts.tla and the screen of Console.tla.  What the machine is like *)
(* is chosen once, in env.  The steps that only fill tables (the first     *)
(* page tables, the GDT) have no action here.                              *)
(***************************************************************************)
EXTENDS Interrupts, MemoryMap

CONSTANTS
  Banner,      (* what kmain prints                                *)
  Messages     (* what setupPagination, kmain and main print after *)
               (* the memory map: texts and the cell they start at *)

ASSUME BootAssumption ==
  /\ Banner \in Seq(STRING)
  /\ Messages \subseteq [text: Seq(STRING), x: Nat, y: Nat]

VARIABLES
  pc,     (* the next statement of the program                     *)
  env,    (* the machine                                           *)
  a20,    (* address line 20 is enabled                            *)
  kbc     (* the keyboard controller's input: busy, and the byte   *)

bootVars == <<pc, env, a20, kbc, mapVars>>

(* disk: what int 0x13 answers (AX = 0 without an error is "nothing");     *)
(* byte: how the byte at 1 MB compares with the one at 0; cpu: what it     *)
(* supports; id: EFLAGS.ID as the BIOS leaves it; map, ends: its memory    *)
(* map; app: what main() does.                                             *)
Machines ==
  [disk: {"ok", "error", "nothing"}, a20: BOOLEAN,
   map: Maps, ends: {"last", "after", "never"},
   byte: {"other", "same", "next"}, cpu: {"none", "cpuid", "long"},
   id: BOOLEAN, stray: BOOLEAN, app: {"prints", "reads"}, reloads: BOOLEAN]

Black == [bg |-> "black", fg |-> "white"]

BootInit(machines) ==
  /\ ConsoleInit([bg |-> "blue", fg |-> "white"])
  /\ InterruptsInit
  /\ MapInit
  /\ pc = "read"
  /\ env \in machines
  /\ a20 = env.a20
  /\ kbc = [busy |-> FALSE, byte |-> "none"]

(* A statement of the program, from one label to the next: not while a     *)
(* handler runs and not before kprintStr has returned.                     *)
Goes(from, to) == Running /\ at = "ret" /\ pc = from /\ pc' = to

Hang == "jmp $"

-----------------------------------------------------------------------------
(* boot.asm:13-23.  int 0x13 reports an error in the carry flag and a code *)
(* in AH; "or ax,ax" clears the carry before "jc $" looks at it, so only   *)
(* AX = 0 stops the boot.                                                  *)
ReadDisk ==
  /\ Goes("read", IF env.disk = "nothing" THEN Hang ELSE "map")
  /\ UNCHANGED <<consoleVars, intVars, env, a20, kbc, mapVars>>

(* memory_maper.asm *)
MapMemory ==
  /\ Goes("map", IF LastAnswer(env.map, env.ends) THEN "command" ELSE "map")
  /\ Asked(env.map)
  /\ UNCHANGED <<consoleVars, intVars, env, a20, kbc>>

(* ChangeA20.  WaitKBC reads the status until the controller is ready, or  *)
(* 65535 times; what is written to a busy controller is lost.              *)
SendCommand ==
  /\ Goes("command", "data")
  /\ kbc' = IF kbc.busy THEN kbc ELSE [busy |-> TRUE, byte |-> "d1"]
  /\ UNCHANGED <<consoleVars, intVars, env, a20, mapVars>>

SendData ==
  /\ Goes("data", "check")
  /\ kbc' = IF kbc.busy THEN kbc
            ELSE [busy |-> TRUE, byte |-> IF kbc.byte = "d1" THEN "df" ELSE "lone"]
  /\ UNCHANGED <<consoleVars, intVars, env, a20, mapVars>>

(* The controller, in its own time, takes the byte; 0xdf after 0xd1 sets   *)
(* the line.                                                               *)
KbcTakes ==
  /\ kbc.busy
  /\ kbc' = [kbc EXCEPT !.busy = FALSE]
  /\ a20' = (a20 \/ kbc.byte = "df")
  /\ UNCHANGED <<consoleVars, intVars, pc, env, mapVars>>

(* Mutant of CheckA20: JNZ for JZ. *)
CheckA20Inverted ==
  /\ Goes("check", IF a20 /\ env.byte # "same" THEN Hang ELSE "cpuid")
  /\ UNCHANGED <<consoleVars, intVars, env, a20, kbc, mapVars>>

(* CheckA20: with the line off, 0xFFFF:0x10 is address 0 and the bytes are *)
(* equal; with it on they may be equal too, before or after the increment. *)
(* "A20_OFF: jnc $" is reached with equal operands, hence no carry.        *)
CheckA20 ==
  /\ Goes("check", IF ~a20 \/ env.byte \in {"same", "next"} THEN Hang ELSE "cpuid")
  /\ UNCHANGED <<consoleVars, intVars, env, a20, kbc, mapVars>>

(* CheckCPU toggles EFLAGS.ID, reads it back and compares it with ECX,     *)
(* whose bit 21 is 0, instead of with the old flags.                       *)
CheckCPU ==
  LET readBack == env.cpu # "none" /\ ~env.id
  IN /\ Goes("cpuid", IF readBack THEN "extended" ELSE Hang)
     /\ UNCHANGED <<consoleVars, intVars, env, a20, kbc, mapVars>>

(* The extended functions and the long-mode bit.                           *)
CheckLongMode ==
  /\ Goes("extended", IF env.cpu = "long" THEN "mask" ELSE Hang)
  /\ UNCHANGED <<consoleVars, intVars, env, a20, kbc, mapVars>>

(* Mutant of MaskLines: the lines stay as the BIOS left them. *)
MaskLinesNot ==
  /\ Goes("mask", "lidt0")
  /\ UNCHANGED <<consoleVars, intVars, env, a20, kbc, mapVars>>

(* kernel_64.asm:84-88: "out 0x21", then the empty IDT. *)
MaskLines ==
  /\ Goes("mask", "lidt0")
  /\ MaskAll
  /\ UNCHANGED <<consoleVars, env, a20, kbc, mapVars>>

LoadNullIdt ==
  /\ Goes("lidt0", "jump")
  /\ LoadIdt("null")
  /\ UNCHANGED <<consoleVars, env, a20, kbc, mapVars>>

(* Long mode, and the far jump to 0x7E00: into the kernel, or, if the disk *)
(* was not read, into whatever is there.                                   *)
EnterKernel ==
  /\ Goes("jump", IF env.disk = "ok" THEN "cli" ELSE "wild")
  /\ UNCHANGED <<consoleVars, intVars, env, a20, kbc, mapVars>>

-----------------------------------------------------------------------------
(* start_kernel.asm:48 *)
Cli ==
  /\ Goes("cli", "clrscr")
  /\ SetIf(FALSE)
  /\ UNCHANGED <<consoleVars, env, a20, kbc, mapVars>>

(* kmain: "clrscr(base)" *)
ClearScreen ==
  /\ Goes("clrscr", "started")
  /\ clrscr(Black)
  /\ UNCHANGED <<intVars, env, a20, kbc, mapVars>>

Says(from, to, text, x, y) ==
  /\ Goes(from, to)
  /\ kprintStr(text, x, y, Black)
  /\ UNCHANGED <<intVars, env, a20, kbc, mapVars>>

(* setupIDT: remap_irqs with the interrupt flag off, ... *)
RemapIrqs ==
  /\ Goes("remap", "lidt")
  /\ remap_irqs
  /\ UNCHANGED <<consoleVars, env, a20, kbc, mapVars>>

(* Mutant of LoadKernelIdt: the table is filled but not loaded. *)
LoadKernelIdtNot ==
  /\ Goes("lidt", "sti")
  /\ UNCHANGED <<consoleVars, intVars, env, a20, kbc, mapVars>>

(* ... the table and lidt, ... *)
LoadKernelIdt ==
  /\ Goes("lidt", "sti")
  /\ LoadIdt("kernel")
  /\ UNCHANGED <<consoleVars, env, a20, kbc, mapVars>>

(* ... and sti. *)
Sti ==
  /\ Goes("sti", "idt")
  /\ SetIf(TRUE)
  /\ UNCHANGED <<consoleVars, env, a20, kbc, mapVars>>

(* The prints of kmain before setupPagination (the second follows          *)
(* setupGDT), and one of those that follow the memory map: Messages.       *)
Reports ==
  \/ Says("started", "gdt", Banner, 0, 2)
  \/ Says("gdt", "remap", Banner, 0, 3)
  \/ Says("idt", "paging", Banner, 0, 4)
  \/ /\ env.app = "prints"
     /\ \E m \in Messages : Says("main", "return", m.text, m.x, m.y)

(* loadMemoryInformation: each entry up to the first of size 0 is printed  *)
(* (a text not modelled), and added if it is usable.                       *)
LoadMemory ==
  \/ /\ Goes("paging", "entry")
     /\ StartReading
     /\ UNCHANGED <<consoleVars, intVars, env, a20, kbc>>
  \/ More /\ Says("entry", "add", Banner, 1, 9 + slot)
  \/ /\ Goes("add", "entry")
     /\ AddEntry
     /\ UNCHANGED <<consoleVars, intVars, env, a20, kbc>>
  \/ /\ ~More /\ Goes("entry", "main")
     /\ UNCHANGED <<consoleVars, intVars, env, a20, kbc, mapVars>>

(* main returns; setup_syscall; the handler of "syscall" is "jmp $", with  *)
(* the interrupt flag as it was.                                           *)
Syscall ==
  /\ Goes("return", "spin")
  /\ UNCHANGED <<consoleVars, intVars, env, a20, kbc, mapVars>>

Program ==
  \/ ReadDisk \/ MapMemory \/ SendCommand \/ SendData \/ CheckA20 \/ CheckCPU
  \/ CheckLongMode \/ MaskLines \/ LoadNullIdt \/ EnterKernel
  \/ Cli \/ ClearScreen \/ RemapIrqs \/ LoadKernelIdt \/ Sti \/ Reports
  \/ LoadMemory \/ Syscall
  \/ Running /\ PrintStep /\ UNCHANGED <<intVars, bootVars>>

Devices ==
  /\ \/ Tick
     \/ \E k \in Keys : Press(k)
     \/ env.stray /\ Stray
  /\ UNCHANGED bootVars

BootNext ==
  \/ Program \/ KbcTakes \/ Devices
  \/ Handler /\ UNCHANGED bootVars

-----------------------------------------------------------------------------
InKernel == pc \in {"cli", "clrscr", "started", "gdt", "remap", "lidt", "sti",
                    "idt", "paging", "entry", "add", "main", "return", "spin"}

InterruptsOn ==
  pc \in {"idt", "paging", "entry", "add", "main", "return", "spin"}

BootTypeOK ==
  /\ pc \in {"read", "map", "command", "data", "check", "cpuid", "extended", "mask",
             "lidt0", "jump", "cli", "clrscr", "started", "gdt", "remap",
             "lidt", "sti", "idt", "paging", "entry", "add", "main", "return",
             "spin", "wild", Hang}
  /\ env \in Machines
  /\ a20 \in BOOLEAN
  /\ kbc.busy \in BOOLEAN
  /\ slot \in DOMAIN table

(* The kernel is only entered on a CPU with long mode and with line A20    *)
(* on, whatever the keyboard controller does with its two bytes and        *)
(* whenever it takes them (a20_high_memory.asm, kernel_64.asm:6-32); from  *)
(* cli to sti no interrupt can reach it, and after sti none finds an IDT   *)
(* that is not its own (start_kernel.asm:48, idt.cpp:95-108).              *)
EntersPrepared ==
  /\ pc \in {"mask", "lidt0", "jump"} \/ InKernel => a20 /\ env.cpu = "long"
  /\ InKernel /\ pc # "cli" =>
       cpu.in # "program" \/ cpu.if = InterruptsOn
  /\ InKernel /\ cpu.if => cpu.idt = "kernel" \/ pic.masked

(* The usable ones among the first n entries of a map, in their order.     *)
UsableAmong(map) ==
  LET among[n \in 0..Len(map)] ==
        IF n = 0 THEN <<>>
        ELSE IF Usable(map[n]) THEN Append(among[n - 1], map[n]) ELSE among[n - 1]
  IN  among

(* Whatever order the BIOS reports the memory in and however it ends its   *)
(* list, the frame allocator is given each free region at or above 1 MB    *)
(* once, and nothing else: the loader and the kernel agree on where the    *)
(* map starts and stops (memory_maper.asm:6-15, pagination.cpp:34,         *)
(* 53-69).  A zero-length entry would end the map early.                   *)
MapHandedOver ==
  pc \in {"main", "return", "spin"} /\ (\A i \in DOMAIN env.map : env.map[i].size > 0)
    => added = UsableAmong(env.map)[Len(env.map)]

(* The boot sector jumps to a kernel it has loaded: "jc $ ; por algum      *)
(* motivo deu erro" (boot.asm:23) stops it when the disk reports an error. *)
DiskErrorStops == env.disk = "error" => pc \notin {"cli", "wild"}
=============================================================================
