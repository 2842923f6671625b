-------------------------------- MODULE Hart --------------------------------
(***************************************************************************)
(* What software sees of the processor: a machine that executes one        *)
(* instruction at a time, takes each trap between two instructions with    *)
(* the registers of the interrupted program intact, enters debug mode      *)
(* between two instructions and, when it single steps, executes exactly    *)
(* one of them before it does.                                             *)
(***************************************************************************)
EXTENDS Program

VARIABLES prog,    \* the program in memory
          h        \* the architectural state, a record

vars == <<prog, h>>

Op1(s)      == prog[s.pc].op
InDebug(s)  == s.debug
\* One instruction has been executed under single step: debug mode comes next.
Halting(s)  == s.halting

-----------------------------------------------------------------------------
(* Traps. An exception in debug mode saves nothing. *)
Trap(s, cause, to) ==
  [s EXCEPT !.pc = to, !.priv = "M", !.mie = FALSE, !.mpie = s.mie, !.mpp = s.priv,
            !.mepc = s.pc, !.mcause = cause,
            !.mstack = [mpie |-> s.mpie, mpp |-> s.mpp, epc |-> s.mepc, cause |-> s.mcause]]

Exception(s, cause) ==
  IF s.debug THEN [s EXCEPT !.pc = DmException, !.priv = "M"]
  ELSE [Trap(s, cause, Exc) EXCEPT !.halting = s.step, !.sync_exc_seen = TRUE,
                                   !.double_fault_seen = @ \/ s.sync_exc_seen]

EnterDebug(s) ==
  [s EXCEPT !.pc = DmHalt, !.debug = TRUE, !.dpc = s.pc, !.dprv = s.priv,
            !.priv = "M", !.halting = FALSE]

(* Execution *)
Retire(s, to) == [s EXCEPT !.pc = to, !.halting = s.step /\ ~s.debug]

Ebreak(s) == IF s.debug THEN [s EXCEPT !.pc = DmHalt]
             ELSE IF s.priv \in EbreakToDebug THEN EnterDebug(s)
             ELSE Exception(s, "ebreak")

\* An NMI saved the state of the trap it interrupted, and mret brings it back.
Mret(s) ==
  LET r == [Retire(s, s.mepc) EXCEPT !.mie = s.mpie, !.priv = s.mpp, !.sync_exc_seen = FALSE]
  IN  IF s.nmi
      THEN [r EXCEPT !.nmi = FALSE, !.mpie = s.mstack.mpie, !.mpp = s.mstack.mpp,
                     !.mepc = s.mstack.epc, !.mcause = s.mstack.cause]
      ELSE [r EXCEPT !.mpie = TRUE, !.mpp = "U"]

Dret(s) == [s EXCEPT !.pc = s.dpc, !.debug = FALSE, !.priv = s.dprv]

IsIllegal(s) == \/ Op1(s) = "illegal"
                \/ Op1(s) = "dret" /\ ~s.debug
                \/ Op1(s) = "step" /\ ~s.debug
                \/ Op1(s) \in {"mret", "sti", "cli"} /\ s.priv # "M"

Execute(s) ==
  IF IsIllegal(s)                 THEN Exception(s, "illegal")
  ELSE IF Op1(s) \in {"ecall", "ferr"} THEN Exception(s, Op1(s))
  ELSE IF Op1(s) \in Faulty       THEN Exception(s, "mem")
  ELSE IF Op1(s) = "ebreak"       THEN Ebreak(s)
  ELSE IF Op1(s) = "mret"         THEN Mret(s)
  ELSE IF Op1(s) = "dret"         THEN Dret(s)
  ELSE IF Op1(s) \in Transfers    THEN Retire(s, prog[s.pc].to)
  ELSE IF Op1(s) = "sti"          THEN [Retire(s, NextPc(s.pc)) EXCEPT !.mie = TRUE]
  ELSE IF Op1(s) = "cli"          THEN [Retire(s, NextPc(s.pc)) EXCEPT !.mie = FALSE]
  ELSE IF Op1(s) = "step"         THEN [Retire(s, NextPc(s.pc)) EXCEPT !.step = TRUE]
  ELSE Retire(s, NextPc(s.pc))

-----------------------------------------------------------------------------
Interruptible(s) == ~s.debug /\ ~s.nmi /\ ~s.step

Step ==
  /\ ~Halting(h)
  /\ h' = Execute(h)

\* A load or store and the instruction behind it may complete at the same time.
TwoSteps ==
  /\ ~Halting(h) /\ ~Halting(Execute(h))
  /\ Op1(h) \in MemOps \ Faulty
  /\ h' = Execute(Execute(h))

Interrupt ==
  /\ Interruptible(h) /\ ~Halting(h)
  /\ \/ h.mie \/ h.priv = "U"
  /\ h' = Trap(h, "irq", Irq)

NonMaskable ==
  /\ Interruptible(h) /\ ~Halting(h)
  /\ h' = [Trap(h, "nmi", Nmi) EXCEPT !.nmi = TRUE]

Debug == ~InDebug(h) /\ h' = EnterDebug(h)

Start == [pc |-> Boot, priv |-> "M", mie |-> FALSE, mpie |-> TRUE, mpp |-> "U",
          mepc |-> 0, mcause |-> "none", sync_exc_seen |-> FALSE, double_fault_seen |-> FALSE,
          mstack |-> [mpie |-> TRUE, mpp |-> "U", epc |-> 0, cause |-> "none"],
          nmi |-> FALSE, debug |-> FALSE, step |-> FALSE, halting |-> FALSE,
          dpc |-> 0, dprv |-> "M"]

Init == prog \in Progs /\ h = Start
Next == (Step \/ TwoSteps \/ Interrupt \/ NonMaskable \/ Debug) /\ UNCHANGED prog
Spec == Init /\ [][Next]_vars
=============================================================================
