------------------------------ MODULE Pipeline ------------------------------
(***************************************************************************)
(* The pipeline of the core with its writeback stage: the PC of the IF     *)
(* stage, the ID/EX stage and its state machine, the controller            *)
(* (ibex_controller) and the writeback stage. One step of Next is one      *)
(* clock edge, and the operators over `in', the inputs of the cycle, are   *)
(* the signals of that name in the RTL.                                    *)
(***************************************************************************)
EXTENDS TrapCSRs

CONSTANTS
  BranchTargetALU,   \* the parameter of that name
  data_ind_timing,   \* the cpuctrlsts bit: branches take the same time both ways
  Inputs,            \* what may happen in a cycle
  Steady             \* requests stay until they are taken

(* accept: IF has the next instruction and ID takes it; done: the unit that  *)
(* ID waits for finishes; rvalid: the LSU responds to writeback; irq, nmi,   *)
(* dbg: requests; exec: instr_exec_i, fetching is enabled.                   *)
InputSpace == [accept : BOOLEAN, done : BOOLEAN, rvalid : BOOLEAN,
               irq : BOOLEAN, nmi : BOOLEAN, dbg : BOOLEAN, exec : BOOLEAN]

ASSUME ConfigAssumption == /\ BranchTargetALU \in BOOLEAN /\ data_ind_timing \in BOOLEAN
                           /\ Steady \in BOOLEAN
ASSUME InputsAssumption == Inputs \subseteq InputSpace

VARIABLES
  prog,
  ctrl_fsm_cs, nmi_mode_q, debug_mode_q, do_single_step_q, enter_debug_mode_prio_q,
  mem_err_q,                      \* load_err_q or store_err_q
  exc_req_q, illegal_insn_q, debug_cause_q,
  pc_if,
  id_valid, pc_id, id_fsm_q, branch_set_raw_q, branch_taken_q, branch_jump_set_done_q,
  wb_valid, pc_wb,
  lines,                          \* the requests of the last cycle, when Steady
  exception_req                   \* pending, expect, seen: what the assertions of
                                  \* the controller keep track of

ctrlVars == <<ctrl_fsm_cs, nmi_mode_q, debug_mode_q, do_single_step_q,
              enter_debug_mode_prio_q, mem_err_q, exc_req_q, illegal_insn_q, debug_cause_q>>
idVars   == <<id_valid, pc_id, id_fsm_q, branch_set_raw_q, branch_taken_q,
              branch_jump_set_done_q>>
vars     == <<prog, ctrlVars, idVars, pc_if, wb_valid, pc_wb, lines, exception_req, csrVars>>

CtrlStates == {"RESET", "BOOT_SET", "WAIT_SLEEP", "SLEEP", "FIRST_FETCH", "DECODE",
               "FLUSH", "IRQ_TAKEN", "DBG_TAKEN_IF", "DBG_TAKEN_ID"}

id_op == prog[pc_id].op
wb_op == prog[pc_wb].op

In(state) == ctrl_fsm_cs = state

-----------------------------------------------------------------------------
(* Writeback: a load or a store stays until the LSU responds. *)
wb_waits          == wb_valid /\ wb_op \in MemOps
outstanding(in)   == wb_waits /\ ~in.rvalid
mem_err(in)       == in.rvalid /\ wb_op \in Faulty
ready_wb(in)      == ~outstanding(in)
wb_exception(in)  == mem_err_q \/ mem_err(in)

-----------------------------------------------------------------------------
(* The instruction in ID: what it asks of the controller *)
Holds(op)      == id_valid /\ id_op = op
fetch_err      == Holds("ferr")
illegal_insn   == id_valid /\ \/ id_op = "illegal"
                              \/ id_op = "dret" /\ ~debug_mode_q
                              \/ id_op = "step" /\ ~debug_mode_q
                              \/ id_op \in {"mret", "sti", "cli"} /\ priv_lvl_q # "M"
illegal_insn_d == illegal_insn /\ ~In("FLUSH")
exc_req_d      == /\ ~In("FLUSH")
                  /\ Holds("ecall") \/ Holds("ebreak") \/ illegal_insn \/ fetch_err
id_exception(in) == exc_req_d /\ ~wb_exception(in)

controller_run == In("DECODE")
\* A register that a load in writeback will write cannot be read yet.
stall_ld_hz    == wb_valid /\ wb_op \in Loads /\ id_op = "use"

instr_executing_spec == id_valid /\ ~fetch_err /\ controller_run /\ ~stall_ld_hz
instr_kill(in) == fetch_err \/ wb_exception(in) \/ id_exception(in) \/ ~controller_run
instr_executing(in) == id_valid /\ ~instr_kill(in) /\ ~stall_ld_hz /\ ~outstanding(in)

lsu_req(in)      == instr_executing(in) /\ ~outstanding(in) /\ id_op \in MemOps
lsu_req_done(in) == lsu_req(in) /\ in.done
stall_mem(in)    == id_valid /\ (outstanding(in) \/ (id_op \in MemOps /\ ~lsu_req_done(in)))

ex_valid(in)        == id_op \in MultDiv => in.done
multicycle_done(in) == IF id_op \in MemOps THEN ~stall_mem(in) ELSE ex_valid(in)

-----------------------------------------------------------------------------
(* The ID state machine. Branches and jumps redirect fetching before it is     *)
(* certain that they execute.                                                  *)
branch_decision == id_op = "branch" /\ prog[pc_id].to # NextPc(pc_id)
FirstCycle      == instr_executing_spec /\ id_fsm_q = "FIRST_CYCLE"
MultiCycle      == instr_executing_spec /\ id_fsm_q = "MULTI_CYCLE"

branch_takes_two == data_ind_timing \/ (~BranchTargetALU /\ branch_decision)

NeedsMore(in) ==        \* an instruction that FIRST_CYCLE does not finish
  \/ id_op \in MemOps /\ ~lsu_req_done(in)
  \/ id_op \in MultDiv /\ ~ex_valid(in)
  \/ id_op = "branch" /\ branch_takes_two
  \/ id_op = "jump" /\ ~BranchTargetALU
  \/ id_op = "bit"

Ends(in) == multicycle_done(in) /\ ready_wb(in)

Mut_id_fsm_en(in) == instr_executing_spec          \* moves on speculatively
id_fsm_en(in) == instr_executing(in)
id_fsm_d(in) == IF FirstCycle /\ NeedsMore(in) THEN "MULTI_CYCLE"
                ELSE IF MultiCycle /\ ~Ends(in) THEN "MULTI_CYCLE" ELSE "FIRST_CYCLE"

stall_ex(in) ==         \* stall_multdiv, stall_branch, stall_jump, stall_alu
  \/ FirstCycle /\ NeedsMore(in) /\ id_op \notin MemOps
  \/ MultiCycle /\ ~Ends(in) /\ id_op \in MultDiv \cup Transfers
stall_id(in) == stall_ld_hz \/ stall_mem(in) \/ stall_ex(in)

branch_set_raw_d == FirstCycle /\ id_op = "branch" /\ (branch_decision \/ data_ind_timing)
branch_set_raw   == IF BranchTargetALU /\ ~data_ind_timing THEN branch_set_raw_d
                    ELSE branch_set_raw_q
jump_set_raw     == FirstCycle /\ id_op = "jump"

Mut_branch_set == branch_set_raw                      \* set for as long as it stays
branch_set == branch_set_raw /\ ~branch_jump_set_done_q
jump_set   == jump_set_raw   /\ ~branch_jump_set_done_q

\* Where a branch or a jump continues. Without a branch target ALU the adder
\* still compares in the first cycle of a branch, and its result is any address.
Targets == IF jump_set_raw THEN {prog[pc_id].to}
           ELSE IF ~BranchTargetALU /\ id_fsm_q = "FIRST_CYCLE" THEN Pc
           ELSE IF data_ind_timing /\ ~branch_taken_q THEN {NextPc(pc_id)}
           ELSE {prog[pc_id].to}

-----------------------------------------------------------------------------
(* Priorities among exceptions, seen in FLUSH *)
ebrk_insn_prio == /\ ~mem_err_q /\ ~fetch_err /\ ~illegal_insn_q
                  /\ Holds("ebreak")
exc_cause == IF mem_err_q THEN "mem"
             ELSE IF fetch_err THEN "ferr"
             ELSE IF illegal_insn_q THEN "illegal"
             ELSE IF Holds("ecall") THEN "ecall" ELSE "ebreak"

ebreak_into_debug == priv_lvl_q \in EbreakToDebug
Mut_takes_exception == In("FLUSH") /\ exc_req_q      \* forgets memory errors
takes_exception   == In("FLUSH") /\ (exc_req_q \/ mem_err_q)
ebreak_to_dbg     == /\ takes_exception /\ ebrk_insn_prio
                     /\ debug_mode_q \/ ebreak_into_debug
flushes(op)       == In("FLUSH") /\ ~takes_exception /\ Holds(op)

flush_id == \/ ctrl_fsm_cs \in {"WAIT_SLEEP", "SLEEP", "DBG_TAKEN_IF", "DBG_TAKEN_ID"}
            \/ In("FLUSH") /\ ~ebreak_to_dbg

instr_done(in)     == ~stall_id(in) /\ ~flush_id /\ instr_executing(in)
stall_wb(in)       == instr_done(in) /\ ~ready_wb(in)
stall(in)          == stall_id(in) \/ stall_wb(in)
csr_op_en(in)      == id_op \in CsrOps /\ instr_done(in) /\ ready_wb(in)
csr_pipe_flush(in) == csr_op_en(in) /\ id_op = "sti"

special_req_pc_change(in) == Holds("mret") \/ Holds("dret") \/ exc_req_d \/ mem_err(in)
special_req(in) == special_req_pc_change(in) \/ Holds("wfi") \/ csr_pipe_flush(in)
Mut_id_wb_pending(in) == id_valid                     \* forgets writeback
id_wb_pending(in) == id_valid \/ ~ready_wb(in)

-----------------------------------------------------------------------------
(* Interrupts and debug requests *)
irq_enabled    == mstatus_q.mie \/ priv_lvl_q = "U"
handle_irq(in) == /\ ~debug_mode_q /\ ~dcsr_q.step /\ ~nmi_mode_q
                  /\ in.nmi \/ (in.irq /\ irq_enabled)

Mut_do_single_step_d == id_valid /\ ~debug_mode_q /\ dcsr_q.step     \* not held
do_single_step_d == IF id_valid THEN ~debug_mode_q /\ dcsr_q.step ELSE do_single_step_q
enter_debug_mode_prio(in) == (in.dbg \/ do_single_step_d) /\ ~debug_mode_q
trigger_match        == pc_if = Breakpoint
enter_debug_mode(in) == enter_debug_mode_prio(in) \/ (trigger_match /\ ~debug_mode_q)
requested(in)        == enter_debug_mode(in) \/ handle_irq(in)

Mut_debug_cause_d(in) == IF trigger_match THEN "trigger"      \* request of the last cycle
                         ELSE IF ebrk_insn_prio /\ ebreak_into_debug THEN "ebreak"
                         ELSE IF enter_debug_mode_prio_q THEN "haltreq" ELSE "none"
debug_cause_d(in) == IF trigger_match THEN "trigger"
                     ELSE IF ebrk_insn_prio /\ ebreak_into_debug THEN "ebreak"
                     ELSE IF in.dbg THEN "haltreq"
                     ELSE IF do_single_step_d THEN "step" ELSE "none"

-----------------------------------------------------------------------------
(* The controller's state machine *)
taken(in) == IF enter_debug_mode(in) THEN "DBG_TAKEN_IF" ELSE "IRQ_TAKEN"

Mut_wakes(in) == in.irq \/ in.dbg \/ debug_mode_q \/ dcsr_q.step
wakes(in) == in.nmi \/ in.irq \/ in.dbg \/ debug_mode_q \/ dcsr_q.step

Mut_halt_if(in) ==                          \* only when the request can be taken
  \/ ~in.exec
  \/ ctrl_fsm_cs \in {"WAIT_SLEEP", "SLEEP", "FLUSH"}
  \/ ctrl_fsm_cs \in {"FIRST_FETCH", "DECODE"} /\ requested(in) /\ ~id_wb_pending(in)
halt_if(in) ==
  \/ ~in.exec
  \/ ctrl_fsm_cs \in {"WAIT_SLEEP", "SLEEP", "FLUSH"}
  \/ In("FIRST_FETCH") /\ requested(in)
  \/ In("DECODE") /\ requested(in) /\ (stall(in) \/ id_wb_pending(in) \/ ~special_req(in))
retain_id(in) == In("DECODE") /\ special_req(in)

id_in_ready(in)       == ~stall(in) /\ ~halt_if(in) /\ ~retain_id(in)
instr_valid_clear(in) == ~(stall(in) \/ retain_id(in)) \/ flush_id

AfterFirstFetch(in) == IF requested(in) THEN taken(in)
                       ELSE IF id_in_ready(in) THEN "DECODE" ELSE "FIRST_FETCH"

Mut_AfterDecode(in) ==                      \* does not wait for writeback
  IF special_req(in) THEN "FLUSH"
  ELSE IF requested(in) /\ ~stall(in) /\ ~id_wb_pending(in) THEN taken(in) ELSE "DECODE"
AfterDecode(in) ==
  IF special_req(in)
  THEN IF ready_wb(in) \/ wb_exception(in) THEN "FLUSH" ELSE "DECODE"
  ELSE IF requested(in) /\ ~stall(in) /\ ~id_wb_pending(in) THEN taken(in) ELSE "DECODE"

AfterFlush == IF enter_debug_mode_prio_q /\ ~(ebrk_insn_prio /\ ebreak_into_debug)
              THEN "DBG_TAKEN_IF"
              ELSE IF ebreak_to_dbg THEN "DBG_TAKEN_ID"
              ELSE IF flushes("wfi") THEN "WAIT_SLEEP" ELSE "DECODE"

ctrl_fsm_ns(in) ==
  IF In("RESET")            THEN "BOOT_SET"
  ELSE IF In("BOOT_SET")    THEN "FIRST_FETCH"
  ELSE IF In("WAIT_SLEEP")  THEN "SLEEP"
  ELSE IF In("SLEEP")       THEN IF wakes(in) THEN "FIRST_FETCH" ELSE "SLEEP"
  ELSE IF In("FIRST_FETCH") THEN AfterFirstFetch(in)
  ELSE IF In("DECODE")      THEN AfterDecode(in)
  ELSE IF In("FLUSH")       THEN AfterFlush
  ELSE "DECODE"             \* IRQ_TAKEN, DBG_TAKEN_IF, DBG_TAKEN_ID

\* PC changes other than branches and jumps: PC_EXC, PC_ERET and PC_DRET.
exception_target(in) ==
  IF In("IRQ_TAKEN") /\ handle_irq(in) THEN (IF in.nmi THEN Nmi ELSE Irq)
  ELSE IF ctrl_fsm_cs \in {"DBG_TAKEN_IF", "DBG_TAKEN_ID"} THEN DmHalt
  ELSE IF takes_exception /\ ~ebreak_to_dbg THEN (IF debug_mode_q THEN DmException ELSE Exc)
  ELSE IF flushes("mret") THEN mepc_q
  ELSE IF flushes("dret") THEN depc_q
  ELSE -1

boots           == ctrl_fsm_cs \in {"RESET", "BOOT_SET"}
redirects       == In("DECODE") /\ (branch_set \/ jump_set)
pc_set(in)      == boots \/ redirects \/ exception_target(in) # -1

-----------------------------------------------------------------------------
(* The parts of a clock edge *)
Controller(in) ==
  /\ ctrl_fsm_cs' = ctrl_fsm_ns(in)
  /\ nmi_mode_q' = ((nmi_mode_q \/ (In("IRQ_TAKEN") /\ handle_irq(in) /\ in.nmi))
                     /\ ~flushes("mret"))
  /\ debug_mode_q' = ((debug_mode_q \/ ctrl_fsm_cs \in {"DBG_TAKEN_IF", "DBG_TAKEN_ID"})
                       /\ ~flushes("dret"))
  /\ do_single_step_q' = do_single_step_d
  /\ enter_debug_mode_prio_q' = enter_debug_mode_prio(in)
  /\ mem_err_q' = mem_err(in)
  /\ exc_req_q' = exc_req_d
  /\ illegal_insn_q' = illegal_insn_d
  /\ debug_cause_q' = debug_cause_d(in)

Fetch(in) ==
  pc_if' \in IF exception_target(in) # -1 THEN {exception_target(in)}
             ELSE IF boots THEN {Boot}
             ELSE IF redirects THEN Targets
             ELSE IF in.accept THEN {NextPc(pc_if)} ELSE {pc_if}

Decode(in) ==
  /\ id_valid' = ((in.accept /\ ~pc_set(in)) \/ (id_valid /\ ~instr_valid_clear(in)))
  /\ pc_id' = IF in.accept THEN pc_if ELSE pc_id
  /\ id_fsm_q' = IF id_fsm_en(in) THEN id_fsm_d(in) ELSE id_fsm_q
  /\ branch_set_raw_q' = branch_set_raw_d
  /\ branch_taken_q' = branch_decision
  /\ branch_jump_set_done_q' = ((branch_set_raw \/ jump_set_raw \/ branch_jump_set_done_q)
                                 /\ ~instr_valid_clear(in))

Writeback(in) ==
  /\ wb_valid' = ((instr_done(in) /\ ready_wb(in)) \/ outstanding(in))
  /\ pc_wb' = IF instr_done(in) THEN pc_id ELSE pc_wb

Registers(in) ==
  IF In("IRQ_TAKEN") /\ handle_irq(in) THEN SaveTrap(pc_if, IF in.nmi THEN "nmi" ELSE "irq")
  ELSE IF In("DBG_TAKEN_IF") THEN SaveDebug(pc_if, debug_cause_q)
  ELSE IF In("DBG_TAKEN_ID") /\ ebreak_into_debug /\ ~debug_mode_q
       THEN SaveDebug(pc_id, debug_cause_q)
  ELSE IF takes_exception /\ ~ebreak_to_dbg
       THEN IF debug_mode_q THEN SaveNothing
            ELSE SaveTrap(IF mem_err_q THEN pc_wb ELSE pc_id, exc_cause)
  ELSE IF flushes("mret") THEN RestoreMret(nmi_mode_q)
  ELSE IF flushes("dret") THEN RestoreDret
  ELSE IF csr_op_en(in) THEN WriteCsr(id_op) ELSE Hold

-----------------------------------------------------------------------------
(* What the assertions of the controller keep track of: a request for an       *)
(* exception, whether it needs a PC change and whether it got it.              *)
pc_set_seen(in) == exception_req.pending /\ exception_target(in) # -1
exception_req_done(in) ==
  exception_req.pending /\ ~In("DECODE") /\ ctrl_fsm_ns(in) = "DECODE"

Watch(in) ==
  LET q    == exception_req
      new  == special_req(in) \/ requested(in)
      open == ~exception_req_done(in)
  IN  exception_req' =
        [pending  |-> (q.pending \/ new) /\ open,
         expect   |-> (q.expect \/ requested(in) \/ special_req_pc_change(in)) /\ open,
         seen     |-> (q.seen \/ pc_set_seen(in)) /\ open]

NoRequest == [irq |-> FALSE, nmi |-> FALSE, dbg |-> FALSE]

\* Requests are level-sensitive: one stays until a handler, or debug mode, runs.
Stays(in) == /\ lines.irq => in.irq \/ ~irq_enabled
             /\ lines.nmi => in.nmi \/ nmi_mode_q
             /\ lines.dbg => in.dbg \/ debug_mode_q

Drivable(in) == /\ in.rvalid => wb_waits
                /\ in.accept => id_in_ready(in)
                /\ in.done => instr_executing(in) /\ id_op \in MemOps \cup MultDiv
                /\ Steady => Stays(in)
Possible == {in \in Inputs : Drivable(in)}

Cycle(in) ==
  /\ Controller(in) /\ Fetch(in) /\ Decode(in) /\ Writeback(in) /\ Registers(in)
  /\ Watch(in)
  /\ lines' = IF Steady THEN [irq |-> in.irq, nmi |-> in.nmi, dbg |-> in.dbg] ELSE lines
  /\ UNCHANGED prog

Init ==
  /\ prog \in Progs
  /\ ctrl_fsm_cs = "RESET" /\ nmi_mode_q = FALSE /\ debug_mode_q = FALSE
  /\ do_single_step_q = FALSE /\ enter_debug_mode_prio_q = FALSE /\ mem_err_q = FALSE
  /\ exc_req_q = FALSE /\ illegal_insn_q = FALSE /\ debug_cause_q = "none"
  /\ pc_if = Boot
  /\ id_valid = FALSE /\ pc_id = Boot /\ id_fsm_q = "FIRST_CYCLE"
  /\ branch_set_raw_q = FALSE /\ branch_taken_q = FALSE /\ branch_jump_set_done_q = FALSE
  /\ wb_valid = FALSE /\ pc_wb = Boot
  /\ lines = NoRequest
  /\ exception_req = [pending |-> FALSE, expect |-> FALSE, seen |-> FALSE]
  /\ CsrInit

Next == \E in \in Possible : Cycle(in)
Spec == Init /\ [][Next]_vars

(* The clock runs, whether or not requests change, IF keeps delivering, units     *)
(* finish and memory responds; nothing makes the environment raise a request. For *)
(* Steady, where `lines' holds the requests of the cycle before.                  *)
Calm        == \E in \in Possible :
                 [irq |-> in.irq, nmi |-> in.nmi, dbg |-> in.dbg] = lines /\ Cycle(in)
Doing(what) == \E in \in Possible : in[what] /\ Cycle(in)
FairSpec == /\ Spec /\ WF_vars(Calm)
            /\ WF_vars(Doing("accept")) /\ WF_vars(Doing("done")) /\ WF_vars(Doing("rvalid"))

-----------------------------------------------------------------------------
TypeOK ==
  /\ prog \in Progs /\ CsrTypeOK
  /\ ctrl_fsm_cs \in CtrlStates /\ nmi_mode_q \in BOOLEAN /\ debug_mode_q \in BOOLEAN
  /\ do_single_step_q \in BOOLEAN /\ enter_debug_mode_prio_q \in BOOLEAN
  /\ mem_err_q \in BOOLEAN /\ exc_req_q \in BOOLEAN /\ illegal_insn_q \in BOOLEAN
  /\ debug_cause_q \in DebugCause
  /\ pc_if \in Pc /\ pc_id \in Pc /\ pc_wb \in Pc
  /\ id_valid \in BOOLEAN /\ wb_valid \in BOOLEAN
  /\ id_fsm_q \in {"FIRST_CYCLE", "MULTI_CYCLE"}
  /\ branch_set_raw_q \in BOOLEAN /\ branch_taken_q \in BOOLEAN
  /\ branch_jump_set_done_q \in BOOLEAN
  /\ lines \in [irq : BOOLEAN, nmi : BOOLEAN, dbg : BOOLEAN]
  /\ exception_req \in [pending : BOOLEAN, expect : BOOLEAN, seen : BOOLEAN]

\* An interrupt is taken only when ID and writeback are empty, so that no load or
\* store it should come after can still fail (assertion PipeEmptyOnIrq).
PipeEmptyOnIrq == [][~In("IRQ_TAKEN") /\ ctrl_fsm_cs' = "IRQ_TAKEN" =>
                       ~id_valid /\ (wb_waits => ~wb_valid')]_vars

\* An instruction redirects fetching once, though it may stay in ID for many
\* cycles behind a load (assertions NeverDoubleBranch and NeverDoubleJump).
NeverDoubleBranch == [][(branch_set => ~branch_set') /\ (jump_set => ~jump_set')]_vars

\* The ID state machine is in MULTI_CYCLE only for the instruction that ID holds
\* and that executes: whatever flushes ID, the next instruction starts afresh.
StartsAfresh == id_fsm_q = "MULTI_CYCLE" =>
                  /\ id_valid /\ In("DECODE") /\ ~wb_waits
                  /\ id_op \in MemOps \cup MultDiv \cup Transfers \cup {"bit"}

\* While a request for an exception stands, ID takes no instruction before the
\* controller has handled it, after boot.
StandingRequest ==
  \A in \in Possible :
    id_in_ready(in) /\ exception_req.pending /\ (requested(in) \/ special_req(in)) =>
      exception_req_done(in) \/ boots

\* A request that needs a change of PC has had it when it is done (assertion
\* IbexSetExceptionPCOnSpecialReqIfExpected), but for requests that are gone by then:
\* masked, or left behind, before the core slept; dropped as they were taken, where
\* lines may drop; or overtaken by the flush of csrrs, after which DECODE takes at once
\* what is still requested.
TakesAtOnce == \A in \in Possible : requested(in) => ctrl_fsm_ns(in) = taken(in)
ExpectedUnlessGone ==
  [][exception_req.pending /\ exception_req.expect /\ ~In("DECODE") /\ In("DECODE")' =>
       \A in \in Possible : Cycle(in) =>
         \/ exception_req.seen \/ pc_set_seen(in)
         \/ In("FIRST_FETCH") /\ ~requested(in)
         \/ In("IRQ_TAKEN") /\ ~handle_irq(in) /\ ~Steady
         \/ flushes("sti") /\ TakesAtOnce']_vars

\* In debug mode software can tell why, when requests are held until they are taken.
CauseKnown == debug_mode_q => dcsr_q.cause # "none"

\* A branch or a jump continues at its target.
BranchesToTarget ==
  [][redirects /\ ~boots => pc_if' = prog[pc_id].to]_vars

\* An NMI that is held is taken, whatever the pipeline waits for when it comes, and
\* when it sleeps, unless debug mode or single stepping keeps it out.
Served == lines.nmi ~> nmi_mode_q \/ debug_mode_q \/ dcsr_q.step

(* The architectural state. The next instruction software has not seen the     *)
(* effect of is the load or store that writeback waits for or that failed,     *)
(* else the one in ID, unless it has left it, else the next one of IF.         *)
id_pending == IF In("FLUSH") THEN exc_req_q \/ Holds("mret") \/ Holds("dret")
              ELSE id_valid \/ In("DBG_TAKEN_ID")
unfinished == wb_waits \/ mem_err_q \/ id_pending

arch_pc == IF wb_waits \/ mem_err_q THEN pc_wb
           ELSE IF id_pending THEN pc_id ELSE pc_if

arch == [pc |-> arch_pc, priv |-> priv_lvl_q,
         mie |-> mstatus_q.mie, mpie |-> mstatus_q.mpie, mpp |-> mstatus_q.mpp,
         mepc |-> mepc_q, mcause |-> mcause_q, mstack |-> mstack_q,
         sync_exc_seen |-> cpuctrlsts_q.sync_exc_seen,
         double_fault_seen |-> cpuctrlsts_q.double_fault_seen,
         nmi |-> nmi_mode_q, debug |-> debug_mode_q,
         step |-> dcsr_q.step,
         halting |-> dcsr_q.step /\ ~debug_mode_q /\ do_single_step_q /\ ~unfinished,
         dpc |-> depc_q, dprv |-> dcsr_q.prv]

Software == INSTANCE Hart WITH h <- arch
\* Exceptions are precise: software sees one instruction after the other.
Precise == Software!Spec
=============================================================================
