--------------------------- MODULE PipelineProofs ---------------------------
(***************************************************************************)
(* Safety of the pipeline for every program, every placement of handlers   *)
(* and every parameter: types, interrupts only when ID and writeback are   *)
(* empty, no multi-cycle state that outlives its instruction, and requests *)
(* that nothing slips in front of and whose change of PC happens.          *)
(*                                                                         *)
(* The argument is one invariant that says where the controller can be     *)
(* while ID or writeback still hold an instruction. It needs all of its    *)
(* parts: that writeback is empty outside DECODE rests on a failed access  *)
(* being seen in FLUSH only, and that in turn on writeback being empty.    *)
(***************************************************************************)
EXTENDS Pipeline, TLAPS

\* States in which ID is empty.
EmptyStates == CtrlStates \ {"DECODE", "FLUSH"}

Quiet     == ~In("DECODE") => ~wb_waits
Empty     == ctrl_fsm_cs \in EmptyStates => ~id_valid
ErrorSeen == mem_err_q => In("FLUSH")
Outside   == In("FLUSH") /\ enter_debug_mode_prio_q => ~debug_mode_q

Inv == /\ ctrl_fsm_cs \in CtrlStates
       /\ Quiet /\ Empty /\ ErrorSeen /\ Outside /\ StartsAfresh

-----------------------------------------------------------------------------
(* What the signals say in a state of Inv *)

LEMMA PossibleInputs ==
  ASSUME NEW in \in Possible
  PROVE  /\ in \in InputSpace
         /\ in.rvalid => wb_waits
         /\ in.accept => id_in_ready(in)
BY InputsAssumption DEF Possible, Drivable

\* Outside DECODE no instruction executes, and nothing is outstanding.
LEMMA NothingExecutes ==
  ASSUME NEW in, Inv, ~In("DECODE")
  PROVE  ~instr_executing(in) /\ ~instr_done(in) /\ ~outstanding(in)
BY DEF Inv, Quiet, instr_executing, instr_kill, controller_run, instr_done, outstanding

\* An access fails in DECODE only.
LEMMA ErrorInDecode ==
  ASSUME Inv, NEW in \in Possible, mem_err(in)
  PROVE  In("DECODE")
BY PossibleInputs DEF Inv, Quiet, mem_err

\* An instruction that asks for a flush does not reach writeback as a load or store.
LEMMA FlushDone ==
  ASSUME NEW in, special_req(in), instr_done(in)
  PROVE  id_op \notin MemOps
<1>1. ~wb_exception(in) /\ ~id_exception(in)
  BY DEF instr_done, instr_executing, instr_kill
<1>2. ~mem_err(in) /\ ~exc_req_d
  BY <1>1 DEF wb_exception, id_exception
<1>3. id_op \in {"mret", "dret", "wfi"} \/ id_op = "sti"
  BY <1>2 DEF special_req, special_req_pc_change, Holds, csr_pipe_flush
<1>. QED
  BY <1>3 DEF MemOps, Loads, Stores

\* IF delivers nothing while the controller takes a request or flushes.
LEMMA NothingAccepted ==
  ASSUME NEW in \in Possible,
         \/ ctrl_fsm_cs \in {"WAIT_SLEEP", "SLEEP", "FLUSH"}
         \/ In("FIRST_FETCH") /\ requested(in)
         \/ In("DECODE") /\ requested(in) /\ ~special_req(in)
  PROVE  ~in.accept
BY PossibleInputs DEF id_in_ready, halt_if

\* Whatever FLUSH decides, ID is cleared.
LEMMA FlushClears ==
  ASSUME NEW in \in Possible, Inv, In("FLUSH")
  PROVE  instr_valid_clear(in)
<1>1. CASE flush_id
  BY <1>1 DEF instr_valid_clear
<1>2. CASE ~flush_id
  <2>1. ebreak_to_dbg
    BY <1>2 DEF flush_id, In
  <2>2. id_op = "ebreak"
    BY <2>1 DEF ebreak_to_dbg, ebrk_insn_prio, Holds
  <2>3. ~outstanding(in) /\ ~instr_done(in) /\ ~FirstCycle /\ ~MultiCycle
    BY NothingExecutes DEF In, FirstCycle, MultiCycle, instr_executing_spec, controller_run
  <2>4. ~stall_id(in)
    BY <2>2, <2>3 DEF stall_id, stall_ld_hz, stall_mem, stall_ex, MemOps, Loads, Stores
  <2>5. ~stall(in) /\ ~retain_id(in)
    BY <2>3, <2>4 DEF stall, stall_wb, retain_id, In
  <2>. QED
    BY <2>5 DEF instr_valid_clear
<1>. QED
  BY <1>1, <1>2

-----------------------------------------------------------------------------
(* Each part of Inv, one clock edge later *)

LEMMA KeepsStates ==
  ASSUME Inv, NEW in, Cycle(in)
  PROVE  ctrl_fsm_cs' \in CtrlStates
<1>1. ctrl_fsm_cs' = ctrl_fsm_ns(in)
  BY DEF Cycle, Controller
<1>2. taken(in) \in CtrlStates /\ AfterFlush \in CtrlStates
  BY DEF taken, AfterFlush, CtrlStates
<1>3. AfterFirstFetch(in) \in CtrlStates /\ AfterDecode(in) \in CtrlStates
  BY <1>2 DEF AfterFirstFetch, AfterDecode, CtrlStates
<1>. QED
  BY <1>1, <1>2, <1>3 DEF Inv, ctrl_fsm_ns, CtrlStates, In

\* The controller enters a state other than DECODE with writeback done.
LEMMA LeavesQuietly ==
  ASSUME Inv, NEW in \in Possible, Cycle(in), ctrl_fsm_cs' # "DECODE"
  PROVE  ~wb_waits'
<1>1. /\ wb_valid' = ((instr_done(in) /\ ready_wb(in)) \/ outstanding(in))
      /\ pc_wb' = IF instr_done(in) THEN pc_id ELSE pc_wb
      /\ ctrl_fsm_cs' = ctrl_fsm_ns(in) /\ prog' = prog
  BY DEF Cycle, Writeback, Controller
<1>2. CASE ~In("DECODE")
  BY <1>1, <1>2, NothingExecutes DEF wb_waits
<1>3. CASE In("DECODE") /\ special_req(in)
  <2>1. ready_wb(in) \/ wb_exception(in)
    BY <1>1, <1>3 DEF ctrl_fsm_ns, In, AfterDecode
  <2>2. ~outstanding(in)
    BY <1>3, <2>1 DEF wb_exception, Inv, ErrorSeen, In, mem_err, ready_wb, outstanding
  <2>3. CASE instr_done(in)
    <3>1. prog'[pc_wb'].op \notin MemOps
      BY <1>1, <1>3, <2>3, FlushDone DEF id_op
    <3>. QED
      BY <3>1 DEF wb_waits, wb_op
  <2>4. CASE ~instr_done(in)
    BY <1>1, <2>2, <2>4 DEF wb_waits
  <2>. QED
    BY <2>3, <2>4
<1>4. CASE In("DECODE") /\ ~special_req(in)
  <2>1. ~id_wb_pending(in)
    BY <1>1, <1>4 DEF ctrl_fsm_ns, In, AfterDecode
  <2>2. ~instr_done(in) /\ ~outstanding(in)
    BY <2>1 DEF id_wb_pending, ready_wb, instr_done, instr_executing
  <2>. QED
    BY <1>1, <2>2 DEF wb_waits
<1>. QED
  BY <1>2, <1>3, <1>4

LEMMA KeepsErrorSeen ==
  ASSUME Inv, NEW in \in Possible, Cycle(in)
  PROVE  ErrorSeen'
<1>1. mem_err_q' = mem_err(in) /\ ctrl_fsm_cs' = ctrl_fsm_ns(in)
  BY DEF Cycle, Controller
<1>2. ASSUME mem_err(in) PROVE ctrl_fsm_ns(in) = "FLUSH"
  <2>1. In("DECODE")
    BY <1>2, ErrorInDecode
  <2>2. special_req(in) /\ wb_exception(in)
    BY <1>2 DEF special_req, special_req_pc_change, wb_exception
  <2>. QED
    BY <2>1, <2>2 DEF ctrl_fsm_ns, AfterDecode, In
<1>. QED
  BY <1>1, <1>2 DEF ErrorSeen, In

LEMMA KeepsOutside ==
  ASSUME Inv, NEW in, Cycle(in)
  PROVE  Outside'
<1>1. /\ ctrl_fsm_cs' = ctrl_fsm_ns(in)
      /\ enter_debug_mode_prio_q' = enter_debug_mode_prio(in)
      /\ debug_mode_q' = ((debug_mode_q \/ ctrl_fsm_cs \in {"DBG_TAKEN_IF", "DBG_TAKEN_ID"})
                           /\ ~flushes("dret"))
  BY DEF Cycle, Controller
<1>2. ctrl_fsm_ns(in) = "FLUSH" => In("DECODE")
  BY DEF Inv, ctrl_fsm_ns, CtrlStates, In, AfterFirstFetch, AfterFlush, taken
<1>. QED
  BY <1>1, <1>2 DEF Outside, In, enter_debug_mode_prio

\* ID is empty in the states in which the controller redirects or sleeps.
LEMMA KeepsEmpty ==
  ASSUME Inv, NEW in \in Possible, Cycle(in), ctrl_fsm_cs' \in EmptyStates
  PROVE  ~id_valid'
<1>1. /\ id_valid' = ((in.accept /\ ~pc_set(in)) \/ (id_valid /\ ~instr_valid_clear(in)))
      /\ ctrl_fsm_cs' = ctrl_fsm_ns(in)
  BY DEF Cycle, Decode, Controller
<1>2. CASE boots
  BY <1>1, <1>2 DEF pc_set, boots, Inv, Empty, EmptyStates, CtrlStates
<1>3. CASE In("FLUSH")
  BY <1>1, <1>3, FlushClears, NothingAccepted DEF In
<1>4. CASE ctrl_fsm_cs \in {"WAIT_SLEEP", "SLEEP"}
  BY <1>1, <1>4, NothingAccepted DEF Inv, Empty, EmptyStates, CtrlStates
<1>5. CASE In("FIRST_FETCH")
  <2>1. requested(in) \/ ~id_in_ready(in)
    BY <1>1, <1>5 DEF ctrl_fsm_ns, In, AfterFirstFetch, EmptyStates
  <2>2. ~in.accept
    BY <1>5, <2>1, NothingAccepted, PossibleInputs
  <2>. QED
    BY <1>1, <1>5, <2>2 DEF Inv, Empty, EmptyStates, CtrlStates, In
<1>6. CASE In("DECODE")
  <2>1. ~special_req(in) /\ requested(in) /\ ~id_wb_pending(in)
    BY <1>1, <1>6 DEF ctrl_fsm_ns, In, AfterDecode, EmptyStates
  <2>. QED
    BY <1>1, <1>6, <2>1, NothingAccepted DEF id_wb_pending
<1>7. CASE ctrl_fsm_cs \in {"IRQ_TAKEN", "DBG_TAKEN_IF", "DBG_TAKEN_ID"}
  BY <1>1, <1>7 DEF ctrl_fsm_ns, In, EmptyStates
<1>. QED
  BY <1>2, <1>3, <1>4, <1>5, <1>6, <1>7 DEF Inv, CtrlStates, In, boots

\* The instructions that may be in MULTI_CYCLE ask for neither a trap nor a flush.
Ordinary == MemOps \cup MultDiv \cup Transfers \cup {"bit"}

LEMMA OrdinaryAsksNothing ==
  ASSUME NEW in, id_op \in Ordinary
  PROVE  ~exc_req_d /\ ~fetch_err /\ ~csr_pipe_flush(in)
         /\ (special_req(in) => mem_err(in))
BY DEF Ordinary, MemOps, Loads, Stores, MultDiv, Transfers, exc_req_d, fetch_err,
       illegal_insn, Holds, csr_pipe_flush, special_req, special_req_pc_change

\* An instruction in MULTI_CYCLE executes in every cycle.
LEMMA MultiCycleExecutes ==
  ASSUME Inv, NEW in \in Possible, id_fsm_q = "MULTI_CYCLE"
  PROVE  instr_executing(in)
<1>1. id_valid /\ In("DECODE") /\ ~wb_waits /\ id_op \in Ordinary
  BY DEF Inv, StartsAfresh, Ordinary
<1>2. ~fetch_err /\ ~id_exception(in)
  BY <1>1, OrdinaryAsksNothing DEF id_exception
<1>3. ~outstanding(in) /\ ~stall_ld_hz
  BY <1>1 DEF outstanding, stall_ld_hz, wb_waits, MemOps
<1>4. ~wb_exception(in)
  BY <1>1, PossibleInputs DEF wb_exception, mem_err, Inv, ErrorSeen, In
<1>. QED
  BY <1>1, <1>2, <1>3, <1>4 DEF instr_executing, instr_kill, controller_run

LEMMA KeepsStartsAfresh ==
  ASSUME Inv, NEW in \in Possible, Cycle(in), id_fsm_q' = "MULTI_CYCLE"
  PROVE  /\ id_valid' /\ In("DECODE")' /\ ~wb_waits'
         /\ id_op' \in Ordinary
<1>1. /\ id_valid' = ((in.accept /\ ~pc_set(in)) \/ (id_valid /\ ~instr_valid_clear(in)))
      /\ pc_id' = IF in.accept THEN pc_if ELSE pc_id
      /\ id_fsm_q' = IF id_fsm_en(in) THEN id_fsm_d(in) ELSE id_fsm_q
      /\ wb_valid' = ((instr_done(in) /\ ready_wb(in)) \/ outstanding(in))
      /\ ctrl_fsm_cs' = ctrl_fsm_ns(in) /\ prog' = prog
  BY DEF Cycle, Decode, Writeback, Controller
<1>2. instr_executing(in) /\ id_fsm_d(in) = "MULTI_CYCLE"
  BY <1>1, MultiCycleExecutes DEF id_fsm_en
<1>3. id_valid /\ In("DECODE") /\ ~outstanding(in) /\ ~wb_exception(in) /\ ready_wb(in)
  BY <1>2 DEF instr_executing, instr_kill, controller_run, ready_wb
<1>4. \/ FirstCycle /\ NeedsMore(in)
      \/ MultiCycle /\ ~Ends(in)
  BY <1>2 DEF id_fsm_d
<1>5. id_op \in Ordinary
  <2>1. CASE FirstCycle /\ NeedsMore(in)
    BY <2>1 DEF NeedsMore, Ordinary, Transfers
  <2>2. CASE MultiCycle
    BY <2>2 DEF MultiCycle, Inv, StartsAfresh, Ordinary
  <2>. QED
    BY <1>4, <2>1, <2>2
<1>6. stall_id(in)
  <2>1. CASE FirstCycle /\ NeedsMore(in)
    <3>1. id_op \in MemOps => ~lsu_req_done(in)
      BY <2>1 DEF NeedsMore, MemOps, Loads, Stores, MultDiv
    <3>. QED
      BY <1>3, <2>1, <3>1 DEF stall_id, stall_mem, stall_ex
  <2>2. CASE MultiCycle /\ ~Ends(in)
    <3>1. ~multicycle_done(in)
      BY <1>3, <2>2 DEF Ends
    <3>2. CASE id_op \in MemOps
      BY <3>1, <3>2 DEF multicycle_done, stall_id
    <3>3. CASE id_op \notin MemOps
      BY <2>2, <3>1, <3>3 DEF multicycle_done, ex_valid, stall_id, stall_ex
    <3>. QED
      BY <3>2, <3>3
  <2>. QED
    BY <1>4, <2>1, <2>2
<1>7. ~special_req(in)
  BY <1>3, <1>5, OrdinaryAsksNothing DEF wb_exception
<1>8. ctrl_fsm_ns(in) = "DECODE"
  BY <1>3, <1>6, <1>7 DEF ctrl_fsm_ns, AfterDecode, In, stall
<1>9. id_valid' /\ pc_id' = pc_id
  <2>1. ~instr_valid_clear(in)
    BY <1>3, <1>6 DEF instr_valid_clear, stall, flush_id, In
  <2>2. ~in.accept
    BY <1>6, PossibleInputs DEF id_in_ready, stall
  <2>. QED
    BY <1>1, <1>3, <2>1, <2>2
<1>10. ~wb_valid'
  BY <1>1, <1>3, <1>6 DEF instr_done
<1>. QED
  BY <1>1, <1>5, <1>8, <1>9, <1>10 DEF In, wb_waits, id_op

-----------------------------------------------------------------------------
LEMMA InitInv == Init => Inv
BY DEF Init, Inv, CtrlStates, Quiet, Empty, ErrorSeen, Outside, StartsAfresh, In, wb_waits

LEMMA NextInv == Inv /\ [Next]_vars => Inv'
<1>1. ASSUME Inv, NEW in \in Possible, Cycle(in) PROVE Inv'
  <2>1. ctrl_fsm_cs' \in CtrlStates
    BY <1>1, KeepsStates
  <2>2. Quiet'
    BY <1>1, LeavesQuietly DEF Quiet, In
  <2>3. Empty'
    BY <1>1, KeepsEmpty DEF Empty, EmptyStates
  <2>4. ErrorSeen' /\ Outside'
    BY <1>1, KeepsErrorSeen, KeepsOutside
  <2>5. StartsAfresh'
    BY <1>1, KeepsStartsAfresh DEF StartsAfresh, Ordinary
  <2>. QED
    BY <2>1, <2>2, <2>3, <2>4, <2>5 DEF Inv
<1>2. ASSUME Inv, UNCHANGED vars PROVE Inv'
  BY <1>2 DEF Inv, vars, ctrlVars, idVars, CtrlStates, Quiet, Empty, EmptyStates, ErrorSeen,
              Outside, StartsAfresh, In, wb_waits, wb_op, id_op
<1>. QED
  BY <1>1, <1>2 DEF Next

\* Inv is an invariant: what the theorems below rest on.
THEOREM Invariance == Spec => []Inv
BY InitInv, NextInv, PTL DEF Spec

\* Whatever flushes ID, the next instruction starts in FIRST_CYCLE.
THEOREM MultiCycleEnds == Spec => []StartsAfresh
<1>1. Inv => StartsAfresh
  BY DEF Inv
<1>. QED
  BY <1>1, Invariance, PTL

\* The interrupt is taken between instructions: the assertion PipeEmptyOnIrq of the
\* controller, for every program and every timing.
THEOREM InterruptsWait == Spec => PipeEmptyOnIrq
<1>1. ASSUME Inv, [Next]_vars
      PROVE  [~In("IRQ_TAKEN") /\ ctrl_fsm_cs' = "IRQ_TAKEN" =>
                ~id_valid /\ (wb_waits => ~wb_valid')]_vars
  <2>. SUFFICES ASSUME NEW in \in Possible, Cycle(in),
                       ~In("IRQ_TAKEN"), ctrl_fsm_cs' = "IRQ_TAKEN"
                PROVE  ~id_valid /\ (wb_waits => ~wb_valid')
    BY <1>1 DEF Next
  <2>1. /\ ctrl_fsm_ns(in) = "IRQ_TAKEN"
        /\ wb_valid' = ((instr_done(in) /\ ready_wb(in)) \/ outstanding(in))
    BY DEF Cycle, Controller, Writeback
  <2>2. In("FIRST_FETCH") \/ In("DECODE")
    BY <2>1 DEF ctrl_fsm_ns, AfterFlush
  <2>3. CASE In("FIRST_FETCH")
    BY <1>1, <2>3 DEF Inv, Quiet, Empty, EmptyStates, CtrlStates, In
  <2>4. CASE In("DECODE")
    <3>1. ~id_wb_pending(in)
      BY <2>1, <2>4 DEF ctrl_fsm_ns, AfterDecode, In
    <3>2. ~id_valid /\ ~instr_done(in) /\ ~outstanding(in)
      BY <3>1 DEF id_wb_pending, ready_wb, instr_done, instr_executing
    <3>. QED
      BY <2>1, <3>2
  <2>. QED
    BY <2>2, <2>3, <2>4
<1>. QED
  BY <1>1, Invariance, PTL DEF Spec, PipeEmptyOnIrq

\* A branch or a jump that has redirected fetching does so no second time: the
\* assertions NeverDoubleBranch and NeverDoubleJump, for both parameters. What
\* leaves ID leaves it empty; what stays has its flag set; and a branch that
\* redirects from its flop cannot leave ID in the cycle that sets the flop.
THEOREM BranchesOnce == Spec => NeverDoubleBranch
<1>1. ASSUME NEW in \in Possible, Cycle(in), branch_set PROVE ~branch_set'
  <2>1. CASE ~instr_valid_clear(in)
    BY <1>1, <2>1 DEF Cycle, Decode, branch_set
  <2>2. CASE instr_valid_clear(in) /\ BranchTargetALU /\ ~data_ind_timing
    <3>1. FirstCycle /\ branch_set_raw_d
      BY <1>1, <2>2 DEF branch_set, branch_set_raw, branch_set_raw_d
    <3>2. pc_set(in)
      BY <1>1, <3>1 DEF pc_set, redirects, FirstCycle, instr_executing_spec, controller_run
    <3>3. ~id_valid'
      BY <1>1, <2>2, <3>2 DEF Cycle, Decode
    <3>. QED
      BY <2>2, <3>3 DEF branch_set, branch_set_raw, branch_set_raw_d, FirstCycle,
                        instr_executing_spec
  <2>3. CASE instr_valid_clear(in) /\ ~(BranchTargetALU /\ ~data_ind_timing)
    <3>1. ~branch_set_raw_d
      <4>. SUFFICES ASSUME branch_set_raw_d PROVE FALSE
        OBVIOUS
      <4>1. FirstCycle /\ id_op = "branch" /\ branch_takes_two
        BY <2>3, ConfigAssumption DEF branch_set_raw_d, branch_takes_two
      <4>2. stall(in)
        BY <4>1 DEF stall, stall_id, stall_ex, NeedsMore, MemOps, Loads, Stores
      <4>3. In("DECODE")
        BY <4>1 DEF FirstCycle, instr_executing_spec, controller_run
      <4>. QED
        BY <2>3, <4>2, <4>3 DEF instr_valid_clear, flush_id, In
    <3>2. ~branch_set_raw_q'
      BY <1>1, <3>1 DEF Cycle, Decode
    <3>. QED
      BY <2>3, <3>2 DEF branch_set, branch_set_raw
  <2>. QED
    BY <2>1, <2>2, <2>3
<1>2. ASSUME NEW in \in Possible, Cycle(in), jump_set PROVE ~jump_set'
  <2>1. CASE ~instr_valid_clear(in)
    BY <1>2, <2>1 DEF Cycle, Decode, jump_set
  <2>2. CASE instr_valid_clear(in)
    <3>1. pc_set(in)
      BY <1>2 DEF pc_set, redirects, jump_set, jump_set_raw, FirstCycle, instr_executing_spec,
                  controller_run
    <3>2. ~id_valid'
      BY <1>2, <2>2, <3>1 DEF Cycle, Decode
    <3>. QED
      BY <3>2 DEF jump_set, jump_set_raw, FirstCycle, instr_executing_spec
  <2>. QED
    BY <2>1, <2>2
<1>3. [Next]_vars => [(branch_set => ~branch_set') /\ (jump_set => ~jump_set')]_vars
  BY <1>1, <1>2 DEF Next
<1>. QED
  BY <1>3, PTL DEF Spec, NeverDoubleBranch

\* While a request stands no instruction enters ID in front of it, for every
\* program and every behaviour of the lines: either IF is halted, or ID has
\* nothing to ask for and the controller is just done with the request.
THEOREM RequestsStand == Spec => []StandingRequest
<1>1. Inv => StandingRequest
  <2>. SUFFICES ASSUME Inv, NEW in \in Possible, id_in_ready(in), exception_req.pending,
                       requested(in) \/ special_req(in)
                PROVE  exception_req_done(in) \/ boots
    BY DEF StandingRequest
  <2>1. ctrl_fsm_cs \notin {"DECODE", "WAIT_SLEEP", "SLEEP", "FLUSH"}
    BY DEF id_in_ready, halt_if, retain_id, In
  <2>2. ~special_req(in)
    <3>1. ~id_valid
      BY <2>1 DEF Inv, Empty, EmptyStates
    <3>2. ~mem_err(in) /\ ~instr_done(in)
      BY <2>1, ErrorInDecode, NothingExecutes DEF In
    <3>. QED
      BY <3>1, <3>2 DEF special_req, special_req_pc_change, Holds, exc_req_d, illegal_insn,
                        fetch_err, csr_pipe_flush, csr_op_en
  <2>3. ~In("FIRST_FETCH")
    BY <2>2 DEF id_in_ready, halt_if
  <2>. QED
    BY <2>1, <2>3 DEF Inv, CtrlStates, In, boots, exception_req_done, ctrl_fsm_ns
<1>. QED
  BY <1>1, Invariance, PTL

-----------------------------------------------------------------------------
(* Types *)

LEMMA NextPcType == ASSUME NEW pc \in Pc PROVE NextPc(pc) \in Pc
BY SizeAssumption DEF Pc, NextPc

LEMMA InstrType == ASSUME TypeOK, NEW pc \in Pc PROVE prog[pc] \in Instr
BY ProgsAssumption DEF TypeOK

LEMMA TypeTargets ==
  ASSUME TypeOK, NEW in
  PROVE  Targets \subseteq Pc /\ exception_target(in) \in Pc \cup {-1}
<1>1. pc_id \in Pc /\ mepc_q \in Pc /\ depc_q \in Pc
  BY DEF TypeOK, CsrTypeOK
<1>2. prog[pc_id].to \in Pc
  BY <1>1, InstrType DEF Instr
<1>3. Targets \subseteq Pc
  BY <1>1, <1>2, NextPcType DEF Targets
<1>4. exception_target(in) \in Pc \cup {-1}
  BY <1>1, AddressAssumption DEF exception_target
<1>. QED
  BY <1>3, <1>4

LEMMA TypeController ==
  ASSUME Inv, TypeOK, NEW in \in Possible, Cycle(in)
  PROVE  /\ ctrl_fsm_cs' \in CtrlStates /\ nmi_mode_q' \in BOOLEAN /\ debug_mode_q' \in BOOLEAN
         /\ do_single_step_q' \in BOOLEAN /\ enter_debug_mode_prio_q' \in BOOLEAN
         /\ mem_err_q' \in BOOLEAN /\ exc_req_q' \in BOOLEAN /\ illegal_insn_q' \in BOOLEAN
         /\ debug_cause_q' \in DebugCause
<1>1. ctrl_fsm_cs' \in CtrlStates
  BY KeepsStates
<1>2. in \in InputSpace
  BY PossibleInputs
<1>3. do_single_step_d \in BOOLEAN
  BY DEF do_single_step_d, TypeOK, CsrTypeOK
<1>4. /\ enter_debug_mode_prio(in) \in BOOLEAN /\ mem_err(in) \in BOOLEAN
      /\ exc_req_d \in BOOLEAN /\ illegal_insn_d \in BOOLEAN
  BY DEF enter_debug_mode_prio, mem_err, exc_req_d, illegal_insn_d
<1>5. debug_cause_d(in) \in DebugCause
  BY DEF debug_cause_d, DebugCause
<1>. QED
  BY <1>1, <1>3, <1>4, <1>5 DEF Cycle, Controller

LEMMA TypeStages ==
  ASSUME TypeOK, NEW in \in Possible, Cycle(in)
  PROVE  /\ pc_if' \in Pc /\ pc_id' \in Pc /\ pc_wb' \in Pc
         /\ id_valid' \in BOOLEAN /\ wb_valid' \in BOOLEAN
         /\ id_fsm_q' \in {"FIRST_CYCLE", "MULTI_CYCLE"}
         /\ branch_set_raw_q' \in BOOLEAN /\ branch_taken_q' \in BOOLEAN
         /\ branch_jump_set_done_q' \in BOOLEAN
<1>1. pc_if' \in Pc
  BY TypeTargets, NextPcType, AddressAssumption DEF Cycle, Fetch, TypeOK
<1>2. pc_id' \in Pc /\ pc_wb' \in Pc
  BY DEF Cycle, Decode, Writeback, TypeOK
<1>3. id_valid' \in BOOLEAN /\ wb_valid' \in BOOLEAN /\ branch_jump_set_done_q' \in BOOLEAN
  BY DEF Cycle, Decode, Writeback
<1>4. id_fsm_q' \in {"FIRST_CYCLE", "MULTI_CYCLE"}
  BY DEF Cycle, Decode, id_fsm_d, TypeOK
<1>5. branch_set_raw_q' \in BOOLEAN /\ branch_taken_q' \in BOOLEAN
  BY DEF Cycle, Decode, branch_set_raw_d, branch_decision
<1>. QED
  BY <1>1, <1>2, <1>3, <1>4, <1>5

(* What each strobe of the controller leaves in the registers *)

LEMMA TypeTrap ==
  ASSUME CsrTypeOK, NEW pc \in Pc, NEW cause \in Causes, SaveTrap(pc, cause)
  PROVE  CsrTypeOK'
BY DEF CsrTypeOK, SaveTrap, Mstatus, Mstack, Cpuctrl, Priv

LEMMA TypeNothing == ASSUME CsrTypeOK, SaveNothing PROVE CsrTypeOK'
BY DEF CsrTypeOK, SaveNothing, Priv

LEMMA TypeDebug ==
  ASSUME CsrTypeOK, NEW pc \in Pc, NEW cause \in DebugCause, SaveDebug(pc, cause)
  PROVE  CsrTypeOK'
BY DEF CsrTypeOK, SaveDebug, Dcsr, Priv

LEMMA TypeDret == ASSUME CsrTypeOK, RestoreDret PROVE CsrTypeOK'
BY DEF CsrTypeOK, RestoreDret

LEMMA TypeMret ==
  ASSUME CsrTypeOK, NEW nmi \in BOOLEAN, RestoreMret(nmi)
  PROVE  CsrTypeOK'
BY DEF CsrTypeOK, RestoreMret, Mstatus, Cpuctrl, Priv

LEMMA TypeWrite ==
  ASSUME CsrTypeOK, NEW op, WriteCsr(op)
  PROVE  CsrTypeOK'
BY DEF CsrTypeOK, WriteCsr, Mstatus, Dcsr

LEMMA TypeHold == ASSUME CsrTypeOK, Hold PROVE CsrTypeOK'
BY DEF CsrTypeOK, Hold, csrVars

LEMMA TypeRegisters ==
  ASSUME TypeOK, NEW in \in Possible, Registers(in)
  PROVE  CsrTypeOK'
<1>1. /\ CsrTypeOK /\ pc_if \in Pc /\ pc_id \in Pc /\ pc_wb \in Pc
      /\ debug_cause_q \in DebugCause /\ nmi_mode_q \in BOOLEAN
  BY DEF TypeOK
<1>2. exc_cause \in Causes /\ {"irq", "nmi"} \subseteq Causes
  BY DEF exc_cause, Causes
<1>3. \/ \E pc \in Pc, cause \in Causes : SaveTrap(pc, cause)
      \/ \E pc \in Pc, cause \in DebugCause : SaveDebug(pc, cause)
      \/ SaveNothing \/ RestoreMret(nmi_mode_q) \/ RestoreDret \/ WriteCsr(id_op) \/ Hold
  BY <1>1, <1>2 DEF Registers
<1>. QED
  BY <1>1, <1>3, TypeTrap, TypeNothing, TypeDebug, TypeDret, TypeMret, TypeWrite, TypeHold

LEMMA TypeWatch ==
  ASSUME TypeOK, NEW in \in Possible, Cycle(in)
  PROVE  /\ lines' \in [irq : BOOLEAN, nmi : BOOLEAN, dbg : BOOLEAN]
         /\ exception_req' \in [pending : BOOLEAN, expect : BOOLEAN, seen : BOOLEAN]
<1>1. in \in InputSpace
  BY PossibleInputs
<1>2. lines' \in [irq : BOOLEAN, nmi : BOOLEAN, dbg : BOOLEAN]
  BY <1>1 DEF Cycle, TypeOK, InputSpace
<1>3. exception_req' \in [pending : BOOLEAN, expect : BOOLEAN, seen : BOOLEAN]
  BY DEF Cycle, Watch
<1>. QED
  BY <1>2, <1>3

LEMMA InitType == Init => TypeOK
<1>. SUFFICES ASSUME Init PROVE TypeOK
  OBVIOUS
<1>1. 0 \in Pc /\ Boot \in Pc
  BY SizeAssumption, AddressAssumption DEF Pc
<1>2. CsrTypeOK
  BY <1>1 DEF Init, CsrInit, CsrTypeOK, Mstatus, Mstack, Dcsr, Cpuctrl, Priv, Causes, DebugCause
<1>. QED
  BY <1>1, <1>2 DEF Init, TypeOK, CtrlStates, DebugCause, NoRequest

LEMMA NextType == Inv /\ TypeOK /\ [Next]_vars => TypeOK'
<1>1. ASSUME Inv, TypeOK, NEW in \in Possible, Cycle(in) PROVE TypeOK'
  <2>1. prog' \in Progs /\ CsrTypeOK'
    BY <1>1, TypeRegisters DEF Cycle, TypeOK
  <2>. QED
    BY <1>1, <2>1, TypeController, TypeStages, TypeWatch DEF TypeOK
<1>2. ASSUME TypeOK, UNCHANGED vars PROVE TypeOK'
  BY <1>2, TypeHold DEF TypeOK, vars, ctrlVars, idVars, Hold
<1>. QED
  BY <1>1, <1>2 DEF Next

\* Every register of the pipeline and of the trap CSRs keeps its type.
THEOREM TypeCorrect == Spec => []TypeOK
BY InitType, NextType, Invariance, PTL DEF Spec
-----------------------------------------------------------------------------
(* The cause of debug mode *)

\* A request for debug mode that was seen as the controller went to FLUSH is still
\* there: the line is held, or the step it comes from is still to be taken.
StillAsked == In("FLUSH") /\ enter_debug_mode_prio_q =>
                lines.dbg \/ (do_single_step_q /\ (id_valid => dcsr_q.step))

\* When the controller is about to save a cause it has one.
AboutToSave ==
  /\ In("DBG_TAKEN_IF") => debug_cause_q # "none"
  /\ In("DBG_TAKEN_ID") => debug_mode_q \/ (debug_cause_q # "none" /\ ebreak_into_debug)

CauseInv == StillAsked /\ AboutToSave /\ CauseKnown

LEMMA KeepsStillAsked ==
  ASSUME Steady, Inv, TypeOK, NEW in \in Possible, Cycle(in)
  PROVE  StillAsked'
<1>. SUFFICES ASSUME In("FLUSH")', enter_debug_mode_prio_q'
              PROVE  lines'.dbg \/ (do_single_step_q' /\ (id_valid' => dcsr_q'.step))
  BY DEF StillAsked
<1>1. /\ ctrl_fsm_ns(in) = "FLUSH" /\ enter_debug_mode_prio(in)
      /\ do_single_step_q' = do_single_step_d
      /\ lines' = [irq |-> in.irq, nmi |-> in.nmi, dbg |-> in.dbg]
      /\ id_valid' = ((in.accept /\ ~pc_set(in)) \/ (id_valid /\ ~instr_valid_clear(in)))
  BY DEF Cycle, Controller, Decode, In
<1>2. In("DECODE") /\ special_req(in)
  BY <1>1 DEF Inv, ctrl_fsm_ns, CtrlStates, In, AfterFirstFetch, AfterDecode, AfterFlush, taken
<1>3. CASE in.dbg
  BY <1>1, <1>3
<1>4. CASE ~in.dbg
  <2>1. do_single_step_d /\ ~debug_mode_q
    BY <1>1, <1>4 DEF enter_debug_mode_prio
  <2>2. ~in.accept
    BY <1>2, PossibleInputs DEF id_in_ready, retain_id
  <2>3. id_valid' => dcsr_q.step
    BY <1>1, <2>1, <2>2 DEF do_single_step_d
  <2>4. dcsr_q'.step = dcsr_q.step \/ dcsr_q'.step
    BY <1>2 DEF Cycle, Registers, In, takes_exception, flushes, WriteCsr, Hold, csrVars, Dcsr,
                TypeOK, CsrTypeOK
  <2>. QED
    BY <1>1, <2>1, <2>3, <2>4
<1>. QED
  BY <1>3, <1>4

LEMMA KeepsAboutToSave ==
  ASSUME Steady, Inv, StillAsked, NEW in \in Possible, Cycle(in)
  PROVE  AboutToSave'
<1>1. /\ ctrl_fsm_cs' = ctrl_fsm_ns(in)
      /\ debug_cause_q' = debug_cause_d(in)
      /\ debug_mode_q' = ((debug_mode_q \/ ctrl_fsm_cs \in {"DBG_TAKEN_IF", "DBG_TAKEN_ID"})
                           /\ ~flushes("dret"))
  BY DEF Cycle, Controller
<1>2. ASSUME ctrl_fsm_ns(in) = "DBG_TAKEN_IF" PROVE debug_cause_d(in) # "none"
  <2>1. enter_debug_mode(in) \/ (In("FLUSH") /\ enter_debug_mode_prio_q)
    BY <1>2 DEF ctrl_fsm_ns, In, AfterFirstFetch, AfterDecode, AfterFlush, taken
  <2>2. CASE enter_debug_mode(in)
    BY <2>2 DEF enter_debug_mode, enter_debug_mode_prio, debug_cause_d
  <2>3. CASE In("FLUSH") /\ enter_debug_mode_prio_q
    <3>1. ~debug_mode_q
      BY <2>3 DEF Inv, Outside
    <3>2. in.dbg \/ do_single_step_d
      BY <2>3, <3>1 DEF StillAsked, Possible, Drivable, Stays, do_single_step_d
    <3>. QED
      BY <3>2 DEF debug_cause_d
  <2>. QED
    BY <2>1, <2>2, <2>3
<1>3. ASSUME ctrl_fsm_ns(in) = "DBG_TAKEN_ID"
      PROVE  \/ debug_mode_q'
             \/ debug_cause_d(in) # "none" /\ ebreak_into_debug'
  <2>1. In("FLUSH") /\ ebreak_to_dbg
    BY <1>3 DEF ctrl_fsm_ns, In, AfterFirstFetch, AfterDecode, AfterFlush, taken
  <2>2. takes_exception /\ ebrk_insn_prio /\ (debug_mode_q \/ ebreak_into_debug)
    BY <2>1 DEF ebreak_to_dbg
  <2>3. CASE debug_mode_q
    BY <1>1, <2>2, <2>3 DEF flushes
  <2>4. CASE ebreak_into_debug
    <3>1. ~instr_done(in)
      BY <2>1, NothingExecutes DEF In
    <3>2. Hold
      BY <2>1, <2>2, <3>1 DEF Cycle, Registers, In, flushes, csr_op_en
    <3>3. ebreak_into_debug'
      BY <2>4, <3>2 DEF ebreak_into_debug, Hold, csrVars
    <3>4. debug_cause_d(in) # "none"
      BY <2>2, <2>4 DEF debug_cause_d
    <3>. QED
      BY <3>3, <3>4
  <2>. QED
    BY <2>2, <2>3, <2>4
<1>. QED
  BY <1>1, <1>2, <1>3 DEF AboutToSave, In

LEMMA KeepsCauseKnown ==
  ASSUME TypeOK, AboutToSave, CauseKnown, NEW in \in Possible, Cycle(in)
  PROVE  CauseKnown'
<1>. SUFFICES ASSUME debug_mode_q' PROVE dcsr_q'.cause # "none"
  BY DEF CauseKnown
<1>1. debug_mode_q \/ ctrl_fsm_cs \in {"DBG_TAKEN_IF", "DBG_TAKEN_ID"}
  BY DEF Cycle, Controller
<1>2. CASE In("DBG_TAKEN_IF")
  BY <1>2 DEF Cycle, Registers, In, AboutToSave, SaveDebug, Dcsr
<1>3. CASE In("DBG_TAKEN_ID") /\ ~debug_mode_q
  BY <1>3 DEF Cycle, Registers, In, AboutToSave, SaveDebug, Dcsr
<1>4. CASE ~In("DBG_TAKEN_IF") /\ debug_mode_q
  <2>1. dcsr_q' = dcsr_q \/ WriteCsr(id_op)
    BY <1>4 DEF Cycle, Registers, SaveTrap, SaveNothing, RestoreMret, RestoreDret, Hold, csrVars
  <2>2. dcsr_q'.cause = dcsr_q.cause
    BY <2>1 DEF WriteCsr, Dcsr
  <2>. QED
    BY <1>4, <2>2 DEF CauseKnown
<1>. QED
  BY <1>1, <1>2, <1>3, <1>4 DEF In

\* Where requests are held until they are taken, debug mode always knows why it was
\* entered, although the request, the decision and the save are of three cycles.
THEOREM KnowsCause == ASSUME Steady PROVE Spec => []CauseKnown
<1>1. Init => CauseInv
  BY DEF Init, CauseInv, StillAsked, AboutToSave, CauseKnown, In
<1>2. Inv /\ TypeOK /\ CauseInv /\ [Next]_vars => CauseInv'
  <2>1. ASSUME Inv, TypeOK, CauseInv, NEW in \in Possible, Cycle(in) PROVE CauseInv'
    BY <2>1, KeepsStillAsked, KeepsAboutToSave, KeepsCauseKnown DEF CauseInv
  <2>2. ASSUME CauseInv, UNCHANGED vars PROVE CauseInv'
    BY <2>2 DEF CauseInv, StillAsked, AboutToSave, CauseKnown, ebreak_into_debug, In, vars,
                ctrlVars, idVars, csrVars
  <2>. QED
    BY <2>1, <2>2 DEF Next
<1>3. CauseInv => CauseKnown
  BY DEF CauseInv
<1>. QED
  BY <1>1, <1>2, <1>3, Invariance, TypeCorrect, PTL DEF Spec

-----------------------------------------------------------------------------
(* What DECODE leaves for the next state *)

\* An instruction that is done had nothing in front of it and no trap to ask for.
LEMMA DoneNow ==
  ASSUME NEW in, instr_done(in)
  PROVE  /\ In("DECODE") /\ id_valid /\ ready_wb(in) /\ ~outstanding(in)
         /\ instr_executing(in) /\ ~stall(in) /\ ~stall_id(in)
         /\ ~mem_err(in) /\ ~exc_req_d /\ ~illegal_insn
<1>1. /\ In("DECODE") /\ id_valid /\ ~outstanding(in) /\ ~wb_exception(in) /\ ~id_exception(in)
      /\ instr_executing(in) /\ ~stall_id(in)
  BY DEF instr_done, instr_executing, instr_kill, controller_run
<1>2. ready_wb(in) /\ ~mem_err(in) /\ ~exc_req_d
  BY <1>1 DEF ready_wb, wb_exception, id_exception
<1>. QED
  BY <1>1, <1>2 DEF stall, stall_wb, exc_req_d, In

\* ID takes an instruction only as it gives up the one it holds.
LEMMA AcceptsClear ==
  ASSUME NEW in \in Possible, in.accept
  PROVE  /\ ~stall(in) /\ ~halt_if(in) /\ ~retain_id(in) /\ instr_valid_clear(in)
BY PossibleInputs DEF id_in_ready, instr_valid_clear

\* While ID stalls it keeps its instruction.
LEMMA StallKeeps ==
  ASSUME Inv, NEW in \in Possible, Cycle(in), In("DECODE"), id_valid, stall(in)
  PROVE  id_valid' /\ pc_id' = pc_id /\ prog' = prog /\ id_op' = id_op
<1>1. ~in.accept
  BY AcceptsClear
<1>2. ~instr_valid_clear(in)
  BY DEF instr_valid_clear, flush_id, In
<1>. QED
  BY <1>1, <1>2 DEF Cycle, Decode, id_op

\* FLUSH is entered from DECODE, with ID as it was and no register written but by
\* csrrs of mstatus.
LEMMA FromDecode ==
  ASSUME Inv, NEW in \in Possible, Cycle(in), In("FLUSH")'
  PROVE  /\ In("DECODE") /\ special_req(in) /\ ~in.accept
         /\ pc_id' = pc_id /\ id_op' = id_op /\ (id_valid' <=> id_valid)
<1>1. ctrl_fsm_ns(in) = "FLUSH"
  BY DEF Cycle, Controller, In
<1>2. In("DECODE") /\ special_req(in)
  BY <1>1 DEF Inv, ctrl_fsm_ns, CtrlStates, In, AfterFirstFetch, AfterDecode, AfterFlush, taken
<1>3. ~in.accept /\ ~instr_valid_clear(in)
  BY <1>2, AcceptsClear DEF retain_id, instr_valid_clear, flush_id, In
<1>. QED
  BY <1>2, <1>3 DEF Cycle, Decode, id_op

\* What DECODE does to the registers: a CSR instruction that is done writes, and
\* nothing changes the privilege level.
LEMMA RegistersInDecode ==
  ASSUME In("DECODE"), NEW in, Cycle(in)
  PROVE  /\ csr_op_en(in) => WriteCsr(id_op)
         /\ ~csr_op_en(in) => Hold
         /\ (debug_mode_q' <=> debug_mode_q) /\ (nmi_mode_q' <=> nmi_mode_q)
         /\ priv_lvl_q' = priv_lvl_q
<1>1. Registers(in) <=> IF csr_op_en(in) THEN WriteCsr(id_op) ELSE Hold
  BY DEF Registers, takes_exception, flushes, In
<1>2. (debug_mode_q' <=> debug_mode_q) /\ (nmi_mode_q' <=> nmi_mode_q)
  BY DEF Cycle, Controller, flushes, In
<1>. QED
  BY <1>1, <1>2 DEF Cycle, WriteCsr, Hold, csrVars

-----------------------------------------------------------------------------
(* The change of PC that a request needs *)

\* A flush has a reason: a trap or a return that changes the PC, or wfi or csrrs.
turns    == exc_req_q \/ mem_err_q \/ Holds("mret") \/ Holds("dret")
Reasoned == In("FLUSH") => turns \/ Holds("wfi") \/ Holds("sti")

\* Where requests are held, an interrupt that is being taken is still there.
irq_stands == /\ ~dcsr_q.step /\ ~nmi_mode_q
              /\ lines.nmi \/ (lines.irq /\ irq_enabled)
Handling == Steady /\ In("IRQ_TAKEN") => ~debug_mode_q /\ irq_stands

\* The controller leaves DECODE for FLUSH only with one of those in ID, or failed.
LEMMA KeepsReasoned ==
  ASSUME Inv, NEW in \in Possible, Cycle(in)
  PROVE  Reasoned'
<1>. SUFFICES ASSUME In("FLUSH")' PROVE turns' \/ Holds("wfi")' \/ Holds("sti")'
  BY DEF Reasoned
<1>1. special_req(in) /\ id_op' = id_op /\ (id_valid' <=> id_valid)
  BY FromDecode
<1>2. exc_req_q' = exc_req_d /\ mem_err_q' = mem_err(in)
  BY DEF Cycle, Controller
<1>3. csr_pipe_flush(in) => Holds("sti")
  BY DoneNow DEF csr_pipe_flush, csr_op_en, Holds
<1>. QED
  BY <1>1, <1>2, <1>3 DEF special_req, special_req_pc_change, turns, Holds

\* An interrupt is taken in the state in which it was asked for.
LEMMA KeepsHandling ==
  ASSUME Inv, NEW in \in Possible, Cycle(in)
  PROVE  Handling'
<1>. SUFFICES ASSUME Steady, ctrl_fsm_ns(in) = "IRQ_TAKEN" PROVE ~debug_mode_q' /\ irq_stands'
  BY DEF Handling, Cycle, Controller, In
<1>1. /\ ctrl_fsm_cs \in {"FIRST_FETCH", "DECODE"}
      /\ handle_irq(in)
      /\ In("DECODE") => ~id_wb_pending(in)
  BY DEF ctrl_fsm_ns, In, AfterFirstFetch, AfterDecode, AfterFlush, taken, requested
<1>2. ~instr_done(in)
  BY <1>1, DoneNow DEF id_wb_pending
<1>3. Hold /\ (debug_mode_q' <=> debug_mode_q) /\ (nmi_mode_q' <=> nmi_mode_q)
  BY <1>1, <1>2 DEF Cycle, Registers, Controller, In, takes_exception, flushes, csr_op_en
<1>4. lines'.irq = in.irq /\ lines'.nmi = in.nmi
  BY DEF Cycle
<1>. QED
  BY <1>1, <1>3, <1>4 DEF handle_irq, irq_stands, irq_enabled, Hold, csrVars

\* DECODE that holds nothing, with nothing before it, takes a request at once.
LEMMA EmptyTakes == In("DECODE") /\ ~id_valid /\ ~wb_valid => TakesAtOnce
<1>. SUFFICES ASSUME In("DECODE"), ~id_valid, ~wb_valid, NEW in \in Possible, requested(in)
              PROVE  ctrl_fsm_ns(in) = taken(in)
  BY DEF TakesAtOnce
<1>1. ~outstanding(in) /\ ready_wb(in) /\ ~mem_err(in)
  BY PossibleInputs DEF outstanding, ready_wb, wb_waits, mem_err
<1>2. ~instr_executing(in) /\ ~instr_done(in) /\ ~FirstCycle /\ ~MultiCycle
  BY DEF instr_done, instr_executing, FirstCycle, MultiCycle, instr_executing_spec
<1>3. ~stall(in) /\ ~id_wb_pending(in)
  BY <1>1, <1>2 DEF stall, stall_wb, stall_id, stall_ld_hz, stall_mem, stall_ex, id_wb_pending
<1>4. ~special_req(in)
  BY <1>1, <1>2 DEF special_req, special_req_pc_change, csr_pipe_flush, csr_op_en, Holds,
                    exc_req_d, illegal_insn, fetch_err
<1>. QED
  BY <1>3, <1>4 DEF ctrl_fsm_ns, AfterDecode, In

\* FLUSH leaves ID and writeback empty.
LEMMA FlushEmpties ==
  ASSUME Inv, NEW in \in Possible, Cycle(in), In("FLUSH")
  PROVE  ~id_valid' /\ ~wb_valid'
<1>1. ~in.accept
  BY NothingAccepted DEF In
<1>2. instr_valid_clear(in) /\ ~instr_done(in) /\ ~outstanding(in)
  BY FlushClears, NothingExecutes DEF In
<1>. QED
  BY <1>1, <1>2 DEF Cycle, Decode, Writeback

\* The controller returns to DECODE with the change of PC that was expected, or the
\* request is gone, or csrrs has flushed the pipeline, which takes it at once.
LEMMA ReturnsWithPc ==
  ASSUME Inv, TypeOK, Reasoned, Handling, NEW in \in Possible, Cycle(in),
         exception_req.pending, ~In("DECODE"), In("DECODE")'
  PROVE  \/ pc_set_seen(in)
         \/ In("FIRST_FETCH") /\ ~requested(in)
         \/ In("IRQ_TAKEN") /\ ~handle_irq(in) /\ ~Steady
         \/ flushes("sti") /\ TakesAtOnce'
<1>1. ctrl_fsm_ns(in) = "DECODE"
  BY DEF Cycle, Controller, In
<1>2. Pc \subseteq Nat /\ mepc_q \in Nat /\ depc_q \in Nat
  BY DEF TypeOK, CsrTypeOK, Pc
<1>3. CASE In("FIRST_FETCH")
  BY <1>1, <1>3 DEF ctrl_fsm_ns, AfterFirstFetch, taken, In
<1>4. CASE In("IRQ_TAKEN")
  <2>1. Steady => handle_irq(in)
    BY <1>4 DEF Handling, irq_stands, Possible, Drivable, Stays, handle_irq
  <2>2. handle_irq(in) => exception_target(in) # -1
    BY <1>2, <1>4, AddressAssumption DEF exception_target, In
  <2>. QED
    BY <1>4, <2>1, <2>2 DEF pc_set_seen
<1>5. CASE In("DBG_TAKEN_IF") \/ In("DBG_TAKEN_ID")
  BY <1>2, <1>5, AddressAssumption DEF exception_target, pc_set_seen, In
<1>6. CASE In("FLUSH")
  <2>1. ~ebreak_to_dbg /\ ~flushes("wfi")
    BY <1>1, <1>6 DEF ctrl_fsm_ns, AfterFlush, In
  <2>2. CASE takes_exception
    BY <1>2, <1>6, <2>1, <2>2, AddressAssumption DEF exception_target, pc_set_seen, In
  <2>3. CASE ~takes_exception
    <3>1. flushes("mret") \/ flushes("dret") \/ flushes("sti")
      BY <1>6, <2>1, <2>3 DEF Reasoned, turns, flushes, takes_exception
    <3>2. flushes("mret") \/ flushes("dret") => exception_target(in) # -1
      BY <1>2, <1>6, <2>3 DEF exception_target, In
    <3>3. TakesAtOnce'
      <4>1. In("DECODE")' /\ ~id_valid' /\ ~wb_valid'
        BY <1>6, FlushEmpties
      <4>2. In("DECODE")' /\ ~id_valid' /\ ~wb_valid' => TakesAtOnce'
        BY EmptyTakes, PTL
      <4>. QED
        BY <4>1, <4>2
    <3>. QED
      BY <3>1, <3>2, <3>3 DEF pc_set_seen
  <2>. QED
    BY <2>2, <2>3
<1>7. CASE ctrl_fsm_cs \in {"RESET", "BOOT_SET", "WAIT_SLEEP", "SLEEP"}
  BY <1>1, <1>7 DEF ctrl_fsm_ns, In
<1>. QED
  BY <1>3, <1>4, <1>5, <1>6, <1>7 DEF Inv, CtrlStates, In

\* For every program, with requests held or not: a change of PC that is expected has
\* been seen when the request is done, or happens as it is, unless the request is gone
\* or the flush of a csrrs came first; then DECODE takes at once what still stands.
THEOREM SetsExpectedPc == Spec => ExpectedUnlessGone
<1>1. Init => Reasoned /\ Handling
  BY DEF Init, Reasoned, Handling, In
<1>2. Inv /\ Reasoned /\ Handling /\ [Next]_vars => (Reasoned /\ Handling)'
  <2>1. ASSUME Inv, NEW in \in Possible, Cycle(in) PROVE (Reasoned /\ Handling)'
    BY <2>1, KeepsReasoned, KeepsHandling
  <2>2. ASSUME Reasoned, Handling, UNCHANGED vars PROVE (Reasoned /\ Handling)'
    BY <2>2 DEF Reasoned, Handling, turns, Holds, In, irq_stands, irq_enabled, id_op, vars,
                ctrlVars, idVars, csrVars
  <2>. QED
    BY <2>1, <2>2 DEF Next
<1>3. Inv /\ TypeOK /\ Reasoned /\ Handling /\ [Next]_vars =>
        [exception_req.pending /\ exception_req.expect /\ ~In("DECODE") /\ In("DECODE")' =>
           \A in \in Possible : Cycle(in) =>
             \/ exception_req.seen \/ pc_set_seen(in)
             \/ In("FIRST_FETCH") /\ ~requested(in)
             \/ In("IRQ_TAKEN") /\ ~handle_irq(in) /\ ~Steady
             \/ flushes("sti") /\ TakesAtOnce']_vars
  BY ReturnsWithPc
<1>. QED
  BY <1>1, <1>2, <1>3, Invariance, TypeCorrect, PTL DEF Spec, ExpectedUnlessGone
=============================================================================
