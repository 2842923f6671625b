------------------------------ MODULE Program ------------------------------
(***************************************************************************)
(* The programs a hart runs, and the addresses it jumps to by itself. An   *)
(* instruction is what it asks of the pipeline: the unit it occupies, the  *)
(* control transfer or the trap it causes; data is abstracted away.        *)
(***************************************************************************)
EXTENDS Integers, Sequences

CONSTANTS
  Size,        \* number of instructions of the (wrapping) address space
  Progs,       \* the programs a run may start with
  Boot,        \* address fetched first
  Exc, Irq, Nmi,              \* handlers: exceptions, the interrupt, the NMI
  DmHalt, DmException,        \* debug module: entry, exception in debug mode
  Breakpoint,                 \* address the trigger matches, -1 when disabled
  EbreakToDebug               \* privilege levels with dcsr.ebreakm, ebreaku set

Pc == 0..(Size - 1)
Priv == {"M", "U"}

Loads     == {"load", "badload"}         \* badload and badstore fail on the bus
Stores    == {"store", "badstore"}
MemOps    == Loads \cup Stores
Faulty    == {"badload", "badstore"}
MultDiv   == {"mul"}
(* "bit": an ALU instruction of two cycles; "use": reads what a load writes;  *)
(* "sti", "cli": csrrs and csrrc of mstatus.MIE; "step": csrrw of dcsr.step.  *)
Simple    == {"alu", "bit", "use"}
CsrOps    == {"sti", "cli", "step"}
Transfers == {"branch", "jump"}
Traps     == {"ecall", "ebreak", "illegal", "ferr", "mret", "dret", "wfi"}
Op == MemOps \cup MultDiv \cup Simple \cup CsrOps \cup Transfers \cup Traps

\* `to' is the address a jump or a branch continues at; a branch that is not
\* taken continues at the next instruction.
Instr == [op : Op, to : Pc]

ASSUME SizeAssumption    == Size \in Nat \ {0}
ASSUME ProgsAssumption   == Progs \subseteq [Pc -> Instr]
ASSUME AddressAssumption == {Boot, Exc, Irq, Nmi, DmHalt, DmException} \subseteq Pc
ASSUME DebugAssumption   == EbreakToDebug \subseteq Priv /\ Breakpoint \in Pc \cup {-1}

Mut_NextPc(pc) == pc + 1                  \* does not wrap
NextPc(pc) == (pc + 1) % Size

Causes == {"none", "ferr", "illegal", "ecall", "ebreak", "mem", "irq", "nmi"}
=============================================================================
