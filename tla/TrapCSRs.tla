----------------------------- MODULE TrapCSRs -----------------------------
(***************************************************************************)
(* The registers of ibex_cs_registers that traps save and restore. Each    *)
(* action is what one strobe of the controller does to all of them at a    *)
(* clock edge.                                                             *)
(***************************************************************************)
EXTENDS Program

VARIABLES
  priv_lvl_q,
  mstatus_q,       \* mie, mpie, mpp
  mepc_q, mcause_q,
  mstack_q,        \* mpie, mpp, epc, cause: the state an NMI interrupts
  depc_q,
  dcsr_q,          \* prv, step, cause
  cpuctrlsts_q     \* sync_exc_seen, double_fault_seen

csrVars == <<priv_lvl_q, mstatus_q, mepc_q, mcause_q, mstack_q, depc_q, dcsr_q, cpuctrlsts_q>>

DebugCause == {"none", "ebreak", "trigger", "haltreq", "step"}

Mstatus(mie, mpie, mpp)     == [mie |-> mie, mpie |-> mpie, mpp |-> mpp]
Mstack(mpie, mpp, epc, cse) == [mpie |-> mpie, mpp |-> mpp, epc |-> epc, cause |-> cse]
Dcsr(prv, step, cause)      == [prv |-> prv, step |-> step, cause |-> cause]
Cpuctrl(sync, double)       == [sync_exc_seen |-> sync, double_fault_seen |-> double]

CsrInit ==
  /\ priv_lvl_q = "M" /\ mstatus_q = Mstatus(FALSE, TRUE, "U")
  /\ mepc_q = 0 /\ mcause_q = "none" /\ mstack_q = Mstack(TRUE, "U", 0, "none")
  /\ depc_q = 0 /\ dcsr_q = Dcsr("M", FALSE, "none") /\ cpuctrlsts_q = Cpuctrl(FALSE, FALSE)

Hold == UNCHANGED csrVars

Asynchronous(cause) == cause \in {"irq", "nmi"}

\* csr_save_cause_i: a trap outside debug mode.
SaveTrap(pc, cause) ==
  /\ priv_lvl_q' = "M"
  /\ mstatus_q' = Mstatus(FALSE, mstatus_q.mie, priv_lvl_q)
  /\ mepc_q' = pc /\ mcause_q' = cause
  /\ mstack_q' = Mstack(mstatus_q.mpie, mstatus_q.mpp, mepc_q, mcause_q)
  /\ cpuctrlsts_q' =
       IF Asynchronous(cause) THEN cpuctrlsts_q
       ELSE Cpuctrl(TRUE, cpuctrlsts_q.double_fault_seen \/ cpuctrlsts_q.sync_exc_seen)
  /\ UNCHANGED <<depc_q, dcsr_q>>

\* csr_save_cause_i in debug mode: only the privilege level is set.
SaveNothing == priv_lvl_q' = "M" /\ UNCHANGED <<mstatus_q, mepc_q, mcause_q, mstack_q,
                                                depc_q, dcsr_q, cpuctrlsts_q>>

\* debug_csr_save_i
SaveDebug(pc, cause) ==
  /\ priv_lvl_q' = "M"
  /\ depc_q' = pc
  /\ dcsr_q' = Dcsr(priv_lvl_q, dcsr_q.step, cause)
  /\ UNCHANGED <<mstatus_q, mepc_q, mcause_q, mstack_q, cpuctrlsts_q>>

RestoreDret == priv_lvl_q' = dcsr_q.prv /\ UNCHANGED <<mstatus_q, mepc_q, mcause_q, mstack_q,
                                                       depc_q, dcsr_q, cpuctrlsts_q>>

RestoreMret(nmi_mode) ==
  /\ priv_lvl_q' = mstatus_q.mpp
  /\ mstatus_q' = IF nmi_mode THEN Mstatus(mstatus_q.mpie, mstack_q.mpie, mstack_q.mpp)
                  ELSE Mstatus(mstatus_q.mpie, TRUE, "U")
  /\ mepc_q' = IF nmi_mode THEN mstack_q.epc ELSE mepc_q
  /\ mcause_q' = IF nmi_mode THEN mstack_q.cause ELSE mcause_q
  /\ cpuctrlsts_q' = Cpuctrl(FALSE, cpuctrlsts_q.double_fault_seen)
  /\ UNCHANGED <<mstack_q, depc_q, dcsr_q>>

\* Software writes: csrrs and csrrc of mstatus.MIE, csrrw of dcsr.step.
WriteCsr(op) ==
  /\ mstatus_q' = IF op = "step" THEN mstatus_q
                  ELSE Mstatus(op = "sti", mstatus_q.mpie, mstatus_q.mpp)
  /\ dcsr_q' = IF op = "step" THEN Dcsr(dcsr_q.prv, TRUE, dcsr_q.cause) ELSE dcsr_q
  /\ UNCHANGED <<priv_lvl_q, mepc_q, mcause_q, mstack_q, depc_q, cpuctrlsts_q>>

CsrTypeOK ==
  /\ priv_lvl_q \in Priv
  /\ mstatus_q \in [mie : BOOLEAN, mpie : BOOLEAN, mpp : Priv]
  /\ mepc_q \in Pc /\ mcause_q \in Causes
  /\ mstack_q \in [mpie : BOOLEAN, mpp : Priv, epc : Pc, cause : Causes]
  /\ depc_q \in Pc /\ dcsr_q \in [prv : Priv, step : BOOLEAN, cause : DebugCause]
  /\ cpuctrlsts_q \in [sync_exc_seen : BOOLEAN, double_fault_seen : BOOLEAN]
=============================================================================
