----------------------------- MODULE HartProofs -----------------------------
(***************************************************************************)
(* That the pipeline implements Hart: for every program, every placement   *)
(* of handlers, every latency and every interleaving of requests, software *)
(* sees one instruction after the other, each trap between two of them,    *)
(* and exactly one under single step.                                      *)
(*                                                                         *)
(* The argument is the invariant PreciseInv, which says how the stages and *)
(* what the controller remembers of the last cycle fit together, and one   *)
(* lemma for each kind of clock edge, which says what step of Hart it is.  *)
(***************************************************************************)
EXTENDS PipelineProofs

-----------------------------------------------------------------------------
(* Software sees one instruction after the other *)

\* Without a branch target ALU the adder compares in the cycle in which a branch is
\* first seen, and a branch that waits behind a load redirects fetching to what the
\* adder gives: programs are then free of branches.
TargetsKnown == BranchTargetALU \/ \A p \in Progs, pc \in Pc : p[pc].op # "branch"

\* The stages hold instructions that follow each other: ID the one after writeback's,
\* IF the one after ID's, or the target that a branch or a jump has redirected it to.
InOrder ==
  /\ wb_waits => (IF id_valid THEN pc_id ELSE pc_if) = NextPc(pc_wb)
  /\ In("DECODE") /\ id_valid =>
       pc_if = IF id_op \in Transfers /\ branch_jump_set_done_q THEN prog[pc_id].to
               ELSE NextPc(pc_id)
  /\ boots => pc_if = Boot

\* What the flops of a branch remember is about the branch in ID, and an instruction
\* that transfers control has redirected fetching, or is about to, when it can end.
Redirecting ==
  /\ (data_ind_timing \/ ~BranchTargetALU) /\ branch_set_raw_q =>
       id_valid /\ id_op = "branch" /\ (branch_taken_q <=> branch_decision)
  /\ id_fsm_q = "MULTI_CYCLE" /\ id_op \in Transfers =>
       branch_jump_set_done_q \/ (data_ind_timing /\ id_op = "branch" /\ branch_set_raw_q)

\* The instruction in ID asks for an exception.
asks == Holds("ecall") \/ Holds("ebreak") \/ illegal_insn \/ fetch_err

\* What FLUSH acts on was registered a cycle earlier and is still true.
Flushing ==
  /\ In("FLUSH") => (exc_req_q <=> asks) /\ (illegal_insn_q <=> illegal_insn)
  /\ mem_err_q => wb_op \in Faulty

\* So is the reason for which a trap or debug mode was decided on.
Taking ==
  /\ In("DBG_TAKEN_ID") => id_op = "ebreak" /\ (debug_mode_q \/ ebreak_into_debug)
  /\ In("DBG_TAKEN_IF") => ~debug_mode_q
  /\ In("IRQ_TAKEN") => ~dcsr_q.step

\* Under single step nothing enters ID behind the instruction that is stepped.
Stepping ==
  dcsr_q.step /\ ~debug_mode_q =>
    /\ wb_waits => do_single_step_q /\ ~id_valid
    /\ mem_err_q => do_single_step_q
    /\ In("FLUSH") /\ id_valid => do_single_step_q

PreciseInv == InOrder /\ Redirecting /\ Flushing /\ Taking /\ Stepping

-----------------------------------------------------------------------------
(* What a cycle does to IF and ID *)

\* Only a core with a branch target ALU meets a branch.
LEMMA BranchKnown ==
  ASSUME TargetsKnown, TypeOK, id_op = "branch"
  PROVE  BranchTargetALU
BY DEF TargetsKnown, TypeOK, id_op

\* What leaves ID in DECODE without a request for a flush is done.
LEMMA LeavesDone ==
  ASSUME Inv, NEW in \in Possible, In("DECODE"), id_valid, ~stall(in), ~special_req(in)
  PROVE  instr_done(in)
<1>1. ~mem_err(in) /\ ~exc_req_d
  BY DEF special_req, special_req_pc_change
<1>2. ~wb_exception(in) /\ ~id_exception(in)
  BY <1>1 DEF wb_exception, id_exception, Inv, ErrorSeen, In
<1>3. ~fetch_err
  BY <1>1 DEF exc_req_d, In
<1>4. ~stall_ld_hz /\ ~outstanding(in)
  BY DEF stall, stall_id, stall_mem
<1>5. instr_executing(in)
  BY <1>2, <1>3, <1>4 DEF instr_executing, instr_kill, controller_run
<1>. QED
  BY <1>5 DEF instr_done, stall, flush_id, In

\* A branch or a jump that redirects fetching is in ID, and so is its target.
LEMMA RedirectsTo ==
  ASSUME TargetsKnown, TypeOK, Redirecting, redirects
  PROVE  /\ In("DECODE") /\ id_valid /\ id_op \in Transfers /\ ~branch_jump_set_done_q
         /\ branch_set_raw \/ jump_set_raw
         /\ Targets = {prog[pc_id].to}
<1>1. In("DECODE") /\ ~branch_jump_set_done_q /\ (branch_set_raw \/ jump_set_raw)
  BY DEF redirects, branch_set, jump_set
<1>2. CASE jump_set_raw
  BY <1>1, <1>2 DEF jump_set_raw, FirstCycle, instr_executing_spec, Targets, Transfers
<1>3. CASE branch_set_raw /\ ~jump_set_raw
  <2>1. id_valid /\ id_op = "branch"
    BY <1>3 DEF branch_set_raw, branch_set_raw_d, FirstCycle, instr_executing_spec, Redirecting
  <2>2. BranchTargetALU
    BY <2>1, BranchKnown
  <2>3. data_ind_timing => (branch_taken_q <=> branch_decision)
    BY <1>3, <2>2 DEF branch_set_raw, Redirecting
  <2>4. data_ind_timing /\ ~branch_taken_q => NextPc(pc_id) = prog[pc_id].to
    BY <2>1, <2>3 DEF branch_decision
  <2>. QED
    BY <1>1, <1>3, <2>1, <2>2, <2>4 DEF Targets, Transfers
<1>. QED
  BY <1>1, <1>2, <1>3

\* In DECODE fetching continues at the target, at the next instruction or not at all.
LEMMA FetchInDecode ==
  ASSUME TargetsKnown, TypeOK, Redirecting, In("DECODE"), NEW in, Cycle(in)
  PROVE  /\ redirects => pc_if' = prog[pc_id].to
         /\ ~redirects => pc_if' = IF in.accept THEN NextPc(pc_if) ELSE pc_if
         /\ pc_set(in) <=> redirects
<1>1. exception_target(in) = -1 /\ ~boots
  BY DEF exception_target, takes_exception, flushes, boots, In
<1>2. pc_if' \in IF redirects THEN Targets ELSE IF in.accept THEN {NextPc(pc_if)} ELSE {pc_if}
  BY <1>1 DEF Cycle, Fetch
<1>3. redirects => pc_if' = prog[pc_id].to
  BY <1>2, RedirectsTo
<1>. QED
  BY <1>1, <1>2, <1>3 DEF pc_set

\* A branch that redirects from its flop stalls in the cycle that sets the flop.
LEMMA BranchStalls ==
  ASSUME TargetsKnown, TypeOK, NEW in,
         data_ind_timing \/ ~BranchTargetALU, branch_set_raw_d
  PROVE  In("DECODE") /\ id_valid /\ id_op = "branch" /\ stall(in) /\ data_ind_timing
<1>1. FirstCycle /\ id_op = "branch" /\ In("DECODE") /\ id_valid
  BY DEF branch_set_raw_d, FirstCycle, instr_executing_spec, controller_run
<1>2. data_ind_timing /\ branch_takes_two
  BY <1>1, BranchKnown DEF branch_takes_two
<1>. QED
  BY <1>1, <1>2 DEF stall, stall_id, stall_ex, NeedsMore, MemOps, Loads, Stores

\* What a branch remembers stays with it, for as long as it is in ID.
LEMMA KeepsRedirecting ==
  ASSUME TargetsKnown, Inv, TypeOK, Redirecting, NEW in \in Possible, Cycle(in)
  PROVE  Redirecting'
<1>1. /\ branch_set_raw_q' = branch_set_raw_d /\ branch_taken_q' = branch_decision
      /\ branch_jump_set_done_q' = ((branch_set_raw \/ jump_set_raw \/ branch_jump_set_done_q)
                                     /\ ~instr_valid_clear(in))
      /\ id_fsm_q' = IF id_fsm_en(in) THEN id_fsm_d(in) ELSE id_fsm_q
      /\ prog' = prog
  BY DEF Cycle, Decode
<1>2. ASSUME data_ind_timing \/ ~BranchTargetALU, branch_set_raw_q'
      PROVE  id_valid' /\ id_op' = "branch" /\ (branch_taken_q' <=> branch_decision')
  <2>1. branch_set_raw_d
    BY <1>1, <1>2
  <2>2. In("DECODE") /\ id_valid /\ id_op = "branch" /\ stall(in)
    BY <1>2, <2>1, BranchStalls
  <2>3. id_valid' /\ pc_id' = pc_id /\ id_op' = id_op
    BY <2>2, StallKeeps
  <2>4. branch_decision' <=> branch_decision
    BY <1>1, <2>3 DEF branch_decision
  <2>. QED
    BY <1>1, <2>2, <2>3, <2>4
<1>3. ASSUME id_fsm_q' = "MULTI_CYCLE", id_op' \in Transfers
      PROVE  \/ branch_jump_set_done_q'
             \/ data_ind_timing /\ id_op' = "branch" /\ branch_set_raw_q'
  <2>1. instr_executing(in) /\ id_fsm_d(in) = "MULTI_CYCLE"
    BY <1>1, <1>3, MultiCycleExecutes DEF id_fsm_en
  <2>2. In("DECODE") /\ id_valid /\ ready_wb(in)
    BY <2>1 DEF instr_executing, instr_kill, controller_run, ready_wb
  <2>3. \/ FirstCycle /\ NeedsMore(in)
        \/ MultiCycle /\ ~Ends(in)
    BY <2>1 DEF id_fsm_d
  <2>4. stall(in)
    <3>1. CASE FirstCycle /\ NeedsMore(in) /\ id_op \notin MemOps
      BY <3>1 DEF stall, stall_id, stall_ex
    <3>2. CASE FirstCycle /\ NeedsMore(in) /\ id_op \in MemOps
      BY <2>2, <3>2 DEF NeedsMore, stall, stall_id, stall_mem, MemOps, Loads, Stores, MultDiv
    <3>3. CASE MultiCycle /\ ~Ends(in)
      <4>1. id_op \in Ordinary /\ ~multicycle_done(in)
        BY <2>2, <3>3 DEF Inv, StartsAfresh, MultiCycle, Ordinary, Ends
      <4>2. CASE id_op \in MemOps
        BY <4>1, <4>2 DEF multicycle_done, stall, stall_id
      <4>3. CASE id_op \notin MemOps
        BY <3>3, <4>1, <4>3 DEF multicycle_done, ex_valid, stall, stall_id, stall_ex
      <4>. QED
        BY <4>2, <4>3
    <3>. QED
      BY <2>3, <3>1, <3>2, <3>3
  <2>5. id_op' = id_op /\ id_op \in Transfers
    BY <1>3, <2>2, <2>4, StallKeeps
  <2>6. FirstCycle /\ NeedsMore(in)
    BY <2>2, <2>3, <2>5 DEF Ends, multicycle_done, ex_valid, Transfers, MemOps, Loads, Stores,
                            MultDiv
  <2>7. CASE id_op = "jump"
    <3>1. ~instr_valid_clear(in)
      BY <2>2, <2>4 DEF instr_valid_clear, flush_id, In
    <3>. QED
      BY <1>1, <2>6, <2>7, <3>1 DEF jump_set_raw
  <2>8. CASE id_op = "branch"
    <3>1. BranchTargetALU
      BY <2>8, BranchKnown
    <3>2. data_ind_timing
      BY <2>6, <2>8, <3>1 DEF NeedsMore, branch_takes_two, MemOps, Loads, Stores, MultDiv
    <3>. QED
      BY <1>1, <2>5, <2>6, <2>8, <3>2 DEF branch_set_raw_d
  <2>. QED
    BY <2>5, <2>7, <2>8 DEF Transfers
<1>. QED
  BY <1>2, <1>3 DEF Redirecting

\* Only a load or a store waits in writeback, and it came from ID or was there.
LEMMA WaitsNext ==
  ASSUME NEW in, Cycle(in), wb_waits'
  PROVE  \/ instr_done(in) /\ id_op \in MemOps /\ pc_wb' = pc_id /\ wb_op' = id_op
         \/ outstanding(in) /\ ~instr_done(in) /\ pc_wb' = pc_wb /\ wb_op' = wb_op
<1>1. /\ wb_valid' = ((instr_done(in) /\ ready_wb(in)) \/ outstanding(in))
      /\ pc_wb' = IF instr_done(in) THEN pc_id ELSE pc_wb
      /\ prog' = prog
  BY DEF Cycle, Writeback
<1>2. wb_valid' /\ wb_op' \in MemOps
  BY DEF wb_waits
<1>3. CASE instr_done(in)
  BY <1>1, <1>2, <1>3 DEF wb_op, id_op
<1>4. CASE ~instr_done(in)
  BY <1>1, <1>2, <1>4 DEF wb_op, id_op
<1>. QED
  BY <1>3, <1>4

\* The stages hold instructions that follow each other after every clock edge.
LEMMA KeepsInOrder ==
  ASSUME TargetsKnown, Inv, TypeOK, InOrder, Redirecting, NEW in \in Possible, Cycle(in)
  PROVE  InOrder'
<1>1. /\ id_valid' = ((in.accept /\ ~pc_set(in)) \/ (id_valid /\ ~instr_valid_clear(in)))
      /\ pc_id' = IF in.accept THEN pc_if ELSE pc_id
      /\ branch_jump_set_done_q' = ((branch_set_raw \/ jump_set_raw \/ branch_jump_set_done_q)
                                     /\ ~instr_valid_clear(in))
      /\ prog' = prog /\ ctrl_fsm_cs' = ctrl_fsm_ns(in)
  BY DEF Cycle, Decode, Controller
<1>2. ASSUME wb_waits' PROVE (IF id_valid' THEN pc_id' ELSE pc_if') = NextPc(pc_wb')
  <2>1. In("DECODE")
    BY <1>2, WaitsNext, NothingExecutes
  <2>2. CASE instr_done(in)
    <3>1. id_op \in MemOps /\ pc_wb' = pc_id
      BY <1>2, <2>2, WaitsNext, DoneNow
    <3>2. pc_if = NextPc(pc_id) /\ ~redirects
      <4>1. id_op \notin Transfers
        BY <3>1 DEF MemOps, Loads, Stores, Transfers
      <4>. QED
        BY <2>1, <2>2, <4>1, DoneNow, RedirectsTo DEF InOrder
    <3>3. instr_valid_clear(in)
      <4>1. id_op \in Ordinary /\ ~mem_err(in) /\ ~stall(in)
        BY <2>2, <3>1, DoneNow DEF Ordinary
      <4>2. ~special_req(in)
        BY <4>1, OrdinaryAsksNothing
      <4>. QED
        BY <4>1, <4>2 DEF instr_valid_clear, retain_id
    <3>. QED
      BY <1>1, <2>1, <3>1, <3>2, <3>3, FetchInDecode
  <2>3. CASE ~instr_done(in)
    <3>1. outstanding(in) /\ pc_wb' = pc_wb /\ wb_waits
      BY <1>2, <2>3, WaitsNext DEF outstanding
    <3>2. CASE id_valid
      <4>1. stall(in)
        BY <3>1, <3>2 DEF stall, stall_id, stall_mem
      <4>. QED
        BY <2>1, <3>1, <3>2, <4>1, StallKeeps DEF InOrder
    <3>3. CASE ~id_valid
      <4>1. pc_if = NextPc(pc_wb) /\ ~redirects
        BY <3>1, <3>3, RedirectsTo DEF InOrder
      <4>. QED
        BY <1>1, <2>1, <3>1, <3>3, <4>1, FetchInDecode
    <3>. QED
      BY <3>2, <3>3
  <2>. QED
    BY <2>2, <2>3
<1>3. ASSUME In("DECODE")', id_valid'
      PROVE  pc_if' = IF id_op' \in Transfers /\ branch_jump_set_done_q' THEN prog'[pc_id'].to
                      ELSE NextPc(pc_id')
  <2>1. CASE in.accept /\ ~pc_set(in)
    <3>1. pc_if' = NextPc(pc_if)
      BY <2>1 DEF Cycle, Fetch, pc_set
    <3>2. ~branch_jump_set_done_q'
      BY <1>1, <2>1, AcceptsClear
    <3>. QED
      BY <1>1, <2>1, <3>1, <3>2
  <2>2. CASE ~(in.accept /\ ~pc_set(in))
    <3>1. id_valid /\ ~instr_valid_clear(in) /\ ~in.accept
      BY <1>1, <1>3, <2>2, AcceptsClear
    <3>2. In("DECODE")
      <4>1. ~In("FLUSH")
        BY <3>1, FlushClears
      <4>. QED
        BY <3>1, <4>1 DEF Inv, Empty, EmptyStates, CtrlStates, In
    <3>3. pc_id' = pc_id /\ id_op' = id_op
      BY <1>1, <3>1 DEF id_op
    <3>4. CASE redirects
      BY <1>1, <3>1, <3>2, <3>3, <3>4, FetchInDecode, RedirectsTo
    <3>5. CASE ~redirects
      <4>1. pc_if' = pc_if
        BY <3>1, <3>2, <3>5, FetchInDecode
      <4>2. id_op \in Transfers => (branch_jump_set_done_q' <=> branch_jump_set_done_q)
        BY <1>1, <3>1, <3>2, <3>5 DEF redirects, branch_set, jump_set
      <4>. QED
        BY <1>1, <3>1, <3>2, <3>3, <4>1, <4>2 DEF InOrder
    <3>. QED
      BY <3>4, <3>5
  <2>. QED
    BY <2>1, <2>2
<1>4. ASSUME boots' PROVE pc_if' = Boot
  <2>1. In("RESET")
    BY <1>1, <1>4 DEF boots, ctrl_fsm_ns, AfterFirstFetch, AfterDecode, AfterFlush, taken, In
  <2>2. exception_target(in) = -1 /\ boots
    BY <2>1 DEF exception_target, takes_exception, flushes, boots, In
  <2>. QED
    BY <2>2 DEF Cycle, Fetch
<1>. QED
  BY <1>2, <1>3, <1>4 DEF InOrder

\* What the controller goes to FLUSH for is still true there.
LEMMA KeepsFlushing ==
  ASSUME Inv, NEW in \in Possible, Cycle(in)
  PROVE  Flushing'
<1>1. /\ exc_req_q' = exc_req_d /\ illegal_insn_q' = illegal_insn_d
      /\ mem_err_q' = mem_err(in) /\ prog' = prog
  BY DEF Cycle, Controller
<1>2. ASSUME In("FLUSH")' PROVE (exc_req_q' <=> asks') /\ (illegal_insn_q' <=> illegal_insn')
  <2>1. /\ In("DECODE") /\ id_op' = id_op /\ (id_valid' <=> id_valid)
        /\ priv_lvl_q' = priv_lvl_q /\ (debug_mode_q' <=> debug_mode_q)
    BY <1>2, FromDecode, RegistersInDecode
  <2>2. (illegal_insn' <=> illegal_insn) /\ (asks' <=> asks)
    BY <2>1 DEF illegal_insn, asks, fetch_err, Holds
  <2>. QED
    BY <1>1, <2>1, <2>2 DEF exc_req_d, illegal_insn_d, asks, In
<1>3. ASSUME mem_err_q' PROVE wb_op' \in Faulty
  <2>1. mem_err(in) /\ wb_op \in Faulty
    BY <1>1, <1>3 DEF mem_err
  <2>2. ~instr_done(in)
    BY <2>1, DoneNow
  <2>. QED
    BY <1>1, <2>1, <2>2 DEF Cycle, Writeback, wb_op
<1>. QED
  BY <1>2, <1>3 DEF Flushing

\* Where the controller goes when it takes an interrupt or enters debug mode.
LEMMA KeepsTaking ==
  ASSUME Inv, NEW in \in Possible, Cycle(in)
  PROVE  Taking'
<1>1. /\ ctrl_fsm_cs' = ctrl_fsm_ns(in) /\ prog' = prog
      /\ (debug_mode_q' <=> ((debug_mode_q \/ ctrl_fsm_cs \in {"DBG_TAKEN_IF", "DBG_TAKEN_ID"})
                             /\ ~flushes("dret")))
  BY DEF Cycle, Controller
<1>2. ASSUME ctrl_fsm_ns(in) = "DBG_TAKEN_ID"
      PROVE  id_op' = "ebreak" /\ (debug_mode_q' \/ ebreak_into_debug')
  <2>1. In("FLUSH") /\ ebreak_to_dbg
    BY <1>2 DEF ctrl_fsm_ns, In, AfterFirstFetch, AfterDecode, AfterFlush, taken
  <2>2. takes_exception /\ id_op = "ebreak" /\ (debug_mode_q \/ ebreak_into_debug)
    BY <2>1 DEF ebreak_to_dbg, ebrk_insn_prio, Holds
  <2>3. Hold
    BY <2>1, <2>2, NothingExecutes DEF Cycle, Registers, In, flushes, csr_op_en
  <2>4. id_op' = id_op
    BY <1>1, <2>1, NothingAccepted DEF Cycle, Decode, id_op, In
  <2>. QED
    BY <1>1, <2>2, <2>3, <2>4 DEF flushes, ebreak_into_debug, Hold, csrVars
<1>3. ASSUME ctrl_fsm_ns(in) = "DBG_TAKEN_IF" PROVE ~debug_mode_q'
  <2>1. /\ ctrl_fsm_cs \in {"FIRST_FETCH", "DECODE", "FLUSH"}
        /\ enter_debug_mode(in) \/ (In("FLUSH") /\ enter_debug_mode_prio_q)
    BY <1>3 DEF ctrl_fsm_ns, In, AfterFirstFetch, AfterDecode, AfterFlush, taken
  <2>2. ~debug_mode_q
    BY <2>1 DEF enter_debug_mode, enter_debug_mode_prio, Inv, Outside
  <2>. QED
    BY <1>1, <2>1, <2>2
<1>4. ASSUME ctrl_fsm_ns(in) = "IRQ_TAKEN" PROVE ~dcsr_q'.step
  <2>1. /\ ctrl_fsm_cs \in {"FIRST_FETCH", "DECODE"}
        /\ requested(in) /\ ~enter_debug_mode(in)
        /\ In("DECODE") => ~id_wb_pending(in)
    BY <1>4 DEF ctrl_fsm_ns, In, AfterFirstFetch, AfterDecode, AfterFlush, taken
  <2>2. ~dcsr_q.step
    BY <2>1 DEF requested, handle_irq
  <2>3. ~instr_done(in)
    BY <2>1, DoneNow DEF In, id_wb_pending
  <2>4. Hold
    BY <2>1, <2>3 DEF Cycle, Registers, In, takes_exception, flushes, csr_op_en
  <2>. QED
    BY <2>2, <2>4 DEF Hold, csrVars
<1>. QED
  BY <1>1, <1>2, <1>3, <1>4 DEF Taking, In

\* dcsr.step and debug mode change in debug mode and at its ends only.
LEMMA StepSteady ==
  ASSUME Inv, TypeOK, NEW in \in Possible, Cycle(in), dcsr_q'.step, ~debug_mode_q'
  PROVE  \/ dcsr_q.step /\ ~debug_mode_q
         \/ flushes("dret")
<1>1. debug_mode_q' <=> ((debug_mode_q \/ ctrl_fsm_cs \in {"DBG_TAKEN_IF", "DBG_TAKEN_ID"})
                          /\ ~flushes("dret"))
  BY DEF Cycle, Controller
<1>2. SUFFICES ASSUME ~flushes("dret") PROVE dcsr_q.step /\ ~debug_mode_q
  OBVIOUS
<1>3. ~debug_mode_q /\ ctrl_fsm_cs \notin {"DBG_TAKEN_IF", "DBG_TAKEN_ID"}
  BY <1>1, <1>2
<1>4. dcsr_q' = dcsr_q \/ (csr_op_en(in) /\ WriteCsr(id_op))
  BY <1>2, <1>3 DEF Cycle, Registers, In, SaveTrap, SaveNothing, RestoreMret, Hold, csrVars
<1>5. csr_op_en(in) => id_op # "step"
  BY <1>3, DoneNow DEF csr_op_en, illegal_insn
<1>6. dcsr_q' = dcsr_q
  BY <1>4, <1>5 DEF WriteCsr
<1>. QED
  BY <1>3, <1>6

\* A single step that has begun is remembered until debug mode is entered.
LEMMA KeepsStepping ==
  ASSUME Inv, TypeOK, Stepping, NEW in \in Possible, Cycle(in)
  PROVE  Stepping'
<1>. SUFFICES ASSUME dcsr_q'.step, ~debug_mode_q'
              PROVE  /\ wb_waits' => do_single_step_q' /\ ~id_valid'
                     /\ mem_err_q' => do_single_step_q'
                     /\ In("FLUSH")' /\ id_valid' => do_single_step_q'
  BY DEF Stepping
<1>1. /\ do_single_step_q' = do_single_step_d /\ mem_err_q' = mem_err(in)
      /\ id_valid' = ((in.accept /\ ~pc_set(in)) \/ (id_valid /\ ~instr_valid_clear(in)))
  BY DEF Cycle, Controller, Decode
<1>2. CASE flushes("dret")
  <2>1. In("FLUSH")
    BY <1>2 DEF flushes
  <2>2. ~wb_waits' /\ ~In("FLUSH")'
    BY <2>1, WaitsNext, NothingExecutes, FromDecode DEF In
  <2>3. ~mem_err(in)
    BY <2>1, ErrorInDecode DEF In
  <2>. QED
    BY <1>1, <2>2, <2>3
<1>3. CASE dcsr_q.step /\ ~debug_mode_q
  <2>1. id_valid \/ do_single_step_q => do_single_step_d
    BY <1>3 DEF do_single_step_d
  <2>2. do_single_step_d => requested(in)
    BY <1>3 DEF requested, enter_debug_mode, enter_debug_mode_prio
  <2>3. ASSUME wb_waits' PROVE do_single_step_d /\ ~id_valid'
    <3>1. In("DECODE") /\ (instr_done(in) \/ (outstanding(in) /\ wb_waits))
      BY <2>3, WaitsNext, NothingExecutes DEF outstanding
    <3>2. do_single_step_d
      BY <1>3, <2>1, <3>1, DoneNow DEF Stepping
    <3>3. ~special_req(in)
      <4>1. CASE instr_done(in)
        <5>1. id_op \in Ordinary
          BY <2>3, <4>1, WaitsNext, DoneNow DEF Ordinary
        <5>. QED
          BY <4>1, <5>1, OrdinaryAsksNothing, DoneNow
      <4>2. CASE outstanding(in) /\ wb_waits
        <5>1. ~id_valid /\ ~instr_done(in)
          BY <1>3, <4>2, DoneNow DEF Stepping
        <5>2. ~mem_err(in)
          BY <4>2 DEF outstanding, mem_err
        <5>. QED
          BY <5>1, <5>2 DEF special_req, special_req_pc_change, Holds, exc_req_d, illegal_insn,
                            fetch_err, csr_pipe_flush, csr_op_en
      <4>. QED
        BY <3>1, <4>1, <4>2
    <3>4. ~in.accept
      BY <2>2, <3>1, <3>2, <3>3, NothingAccepted
    <3>5. ~(id_valid /\ ~instr_valid_clear(in))
      <4>1. CASE instr_done(in)
        BY <3>3, <4>1, DoneNow DEF instr_valid_clear, retain_id
      <4>2. CASE wb_waits
        BY <1>3, <4>2 DEF Stepping
      <4>. QED
        BY <3>1, <4>1, <4>2
    <3>. QED
      BY <1>1, <3>2, <3>4, <3>5
  <2>4. mem_err(in) => do_single_step_d
    BY <1>3, <2>1, PossibleInputs DEF Stepping, mem_err
  <2>5. In("FLUSH")' /\ id_valid' => do_single_step_d
    BY <2>1, FromDecode
  <2>. QED
    BY <1>1, <2>3, <2>4, <2>5
<1>. QED
  BY <1>2, <1>3, StepSteady

\* It holds out of reset.
LEMMA InitPreciseInv == Init => PreciseInv
BY DEF Init, CsrInit, Dcsr, PreciseInv, InOrder, Redirecting, Flushing, Taking, Stepping, boots, In,
       wb_waits

\* PreciseInv is inductive, with the invariants of PipelineProofs.
LEMMA NextPreciseInv ==
  ASSUME TargetsKnown
  PROVE  Inv /\ TypeOK /\ PreciseInv /\ [Next]_vars => PreciseInv'
<1>1. ASSUME Inv, TypeOK, PreciseInv, NEW in \in Possible, Cycle(in) PROVE PreciseInv'
  BY <1>1, KeepsInOrder, KeepsRedirecting, KeepsFlushing, KeepsTaking, KeepsStepping
  DEF PreciseInv
<1>2. ASSUME PreciseInv, UNCHANGED vars PROVE PreciseInv'
  BY <1>2 DEF PreciseInv, InOrder, Redirecting, Flushing, Taking, Stepping, vars, ctrlVars,
              idVars, csrVars, boots, In, wb_waits, wb_op, id_op, branch_decision, asks, Holds,
              illegal_insn, fetch_err, ebreak_into_debug
<1>. QED
  BY <1>1, <1>2 DEF Next

-----------------------------------------------------------------------------
(* What software sees, as a state of Hart *)

\* The states of Hart.
Stack == [mpie : BOOLEAN, mpp : Priv, epc : Pc, cause : Causes]
State == [pc : Pc, priv : Priv, mie : BOOLEAN, mpie : BOOLEAN, mpp : Priv,
          mepc : Pc, mcause : Causes, mstack : Stack,
          sync_exc_seen : BOOLEAN, double_fault_seen : BOOLEAN,
          nmi : BOOLEAN, debug : BOOLEAN, step : BOOLEAN, halting : BOOLEAN,
          dpc : Pc, dprv : Priv]

\* Two states with the same fields are the same state.
LEMMA SameState ==
  ASSUME NEW s \in State, NEW t \in State,
         s.pc = t.pc, s.priv = t.priv, s.mie <=> t.mie, s.mpie <=> t.mpie, s.mpp = t.mpp,
         s.mepc = t.mepc, s.mcause = t.mcause, s.mstack = t.mstack,
         s.sync_exc_seen <=> t.sync_exc_seen, s.double_fault_seen <=> t.double_fault_seen,
         s.nmi <=> t.nmi, s.debug <=> t.debug, s.step <=> t.step, s.halting <=> t.halting,
         s.dpc = t.dpc, s.dprv = t.dprv
  PROVE  s = t
<1>1. /\ s.mie = t.mie /\ s.mpie = t.mpie /\ s.sync_exc_seen = t.sync_exc_seen
      /\ s.double_fault_seen = t.double_fault_seen
      /\ s.nmi = t.nmi /\ s.debug = t.debug /\ s.step = t.step /\ s.halting = t.halting
  BY DEF State
<1>. QED
  BY <1>1 DEF State

halted == dcsr_q.step /\ ~debug_mode_q /\ do_single_step_q /\ ~unfinished

\* A state of Hart whose registers are those of the core; where it stands in the
\* program, and whether it has taken its single step, is said separately.
Registered(s) ==
  /\ s \in State
  /\ s.priv = priv_lvl_q /\ s.mpp = mstatus_q.mpp
  /\ (s.mie <=> mstatus_q.mie) /\ (s.mpie <=> mstatus_q.mpie)
  /\ s.mepc = mepc_q /\ s.mcause = mcause_q /\ s.mstack = mstack_q
  /\ (s.sync_exc_seen <=> cpuctrlsts_q.sync_exc_seen)
  /\ (s.double_fault_seen <=> cpuctrlsts_q.double_fault_seen)
  /\ (s.nmi <=> nmi_mode_q) /\ (s.debug <=> debug_mode_q) /\ (s.step <=> dcsr_q.step)
  /\ s.dpc = depc_q /\ s.dprv = dcsr_q.prv

\* The state software sees now.
LEMMA ArchFields ==
  ASSUME TypeOK
  PROVE  Registered(arch) /\ arch.pc = arch_pc /\ (arch.halting <=> halted)
<1>1. halted \in BOOLEAN
  BY DEF halted
<1>2. arch_pc \in Pc
  BY DEF TypeOK, arch_pc
<1>3. arch \in State
  BY <1>1, <1>2 DEF arch, State, TypeOK, CsrTypeOK, Stack, halted
<1>. QED
  BY <1>3 DEF arch, halted, Registered

\* What software sees after a clock edge.
LEMMA ArchNext ==
  ASSUME TypeOK', NEW s, Registered(s)', s.pc = arch_pc', s.halting <=> halted'
  PROVE  arch' = s
<1>1. halted' \in BOOLEAN
  BY DEF halted
<1>2. arch_pc' \in Pc
  BY DEF TypeOK, arch_pc
<1>3. arch' \in State
  BY <1>1, <1>2 DEF arch, State, TypeOK, CsrTypeOK, Stack, halted
<1>4. /\ arch'.pc = arch_pc' /\ arch'.priv = priv_lvl_q'
      /\ (arch'.mie <=> mstatus_q'.mie) /\ (arch'.mpie <=> mstatus_q'.mpie)
      /\ arch'.mpp = mstatus_q'.mpp
      /\ arch'.mepc = mepc_q' /\ arch'.mcause = mcause_q' /\ arch'.mstack = mstack_q'
      /\ (arch'.sync_exc_seen <=> cpuctrlsts_q'.sync_exc_seen)
      /\ (arch'.double_fault_seen <=> cpuctrlsts_q'.double_fault_seen)
      /\ (arch'.nmi <=> nmi_mode_q') /\ (arch'.debug <=> debug_mode_q')
      /\ (arch'.step <=> dcsr_q'.step) /\ (arch'.halting <=> halted')
      /\ arch'.dpc = depc_q' /\ arch'.dprv = dcsr_q'.prv
  BY DEF arch, halted
<1>. QED
  BY <1>3, <1>4, SameState DEF Registered

\* Registers that do not change are those of the same state.
LEMMA HoldRegistered ==
  ASSUME NEW s, Registered(s), Hold, debug_mode_q' <=> debug_mode_q, nmi_mode_q' <=> nmi_mode_q
  PROVE  Registered(s)'
BY DEF Registered, Hold, csrVars

\* What Hart does to its state, field by field: an instruction that causes no trap,
LEMMA RetireFields ==
  ASSUME NEW s \in State, NEW to \in Pc, NEW t, t = Software!Retire(s, to)
  PROVE  /\ t \in State
         /\ t.pc = to /\ t.priv = s.priv /\ (t.mie <=> s.mie) /\ (t.mpie <=> s.mpie)
         /\ t.mpp = s.mpp /\ t.mepc = s.mepc /\ t.mcause = s.mcause /\ t.mstack = s.mstack
         /\ (t.sync_exc_seen <=> s.sync_exc_seen)
         /\ (t.double_fault_seen <=> s.double_fault_seen)
         /\ (t.nmi <=> s.nmi) /\ (t.debug <=> s.debug) /\ (t.step <=> s.step)
         /\ (t.halting <=> s.step /\ ~s.debug) /\ t.dpc = s.dpc /\ t.dprv = s.dprv
BY DEF State, Software!Retire

\* which leaves the registers as they are,
LEMMA RetireRegistered ==
  ASSUME NEW s, Registered(s), NEW to \in Pc, NEW t, t = Software!Retire(s, to)
  PROVE  Registered(t) /\ t.pc = to /\ (t.halting <=> dcsr_q.step /\ ~debug_mode_q)
BY RetireFields DEF Registered

\* a trap,
LEMMA TrapFields ==
  ASSUME NEW s \in State, NEW to \in Pc, NEW cause \in Causes,
         NEW t, t = Software!Trap(s, cause, to)
  PROVE  /\ t \in State
         /\ t.pc = to /\ t.priv = "M" /\ (t.mie <=> FALSE) /\ (t.mpie <=> s.mie) /\ t.mpp = s.priv
         /\ t.mepc = s.pc /\ t.mcause = cause
         /\ t.mstack = Mstack(s.mpie, s.mpp, s.mepc, s.mcause)
         /\ (t.sync_exc_seen <=> s.sync_exc_seen) /\ (t.double_fault_seen <=> s.double_fault_seen)
         /\ (t.nmi <=> s.nmi) /\ (t.debug <=> s.debug) /\ (t.step <=> s.step)
         /\ (t.halting <=> s.halting) /\ t.dpc = s.dpc /\ t.dprv = s.dprv
BY ZenonT(40) DEF State, Stack, Software!Trap, Mstack, Priv

\* an exception,
LEMMA ExceptionFields ==
  ASSUME NEW s \in State, NEW cause \in Causes, ~s.debug,
         NEW t, t = Software!Exception(s, cause)
  PROVE  /\ t \in State
         /\ t.pc = Exc /\ t.priv = "M" /\ (t.mie <=> FALSE) /\ (t.mpie <=> s.mie) /\ t.mpp = s.priv
         /\ t.mepc = s.pc /\ t.mcause = cause
         /\ t.mstack = Mstack(s.mpie, s.mpp, s.mepc, s.mcause)
         /\ t.sync_exc_seen <=> TRUE
         /\ t.double_fault_seen <=> (s.double_fault_seen \/ s.sync_exc_seen)
         /\ (t.nmi <=> s.nmi) /\ (t.debug <=> s.debug) /\ (t.step <=> s.step)
         /\ (t.halting <=> s.step) /\ t.dpc = s.dpc /\ t.dprv = s.dprv
<1>1. Exc \in Pc /\ s.step \in BOOLEAN /\ s.double_fault_seen \in BOOLEAN
      /\ s.sync_exc_seen \in BOOLEAN
  BY AddressAssumption DEF State
<1>2. PICK u : u = Software!Trap(s, cause, Exc)
  OBVIOUS
<1>3. /\ u \in State
      /\ u.pc = Exc /\ u.priv = "M" /\ (u.mie <=> FALSE) /\ (u.mpie <=> s.mie) /\ u.mpp = s.priv
      /\ u.mepc = s.pc /\ u.mcause = cause
      /\ u.mstack = Mstack(s.mpie, s.mpp, s.mepc, s.mcause)
      /\ u.double_fault_seen <=> s.double_fault_seen
      /\ (u.nmi <=> s.nmi) /\ (u.debug <=> s.debug) /\ (u.step <=> s.step)
      /\ u.dpc = s.dpc /\ u.dprv = s.dprv
  BY <1>1, <1>2, TrapFields
<1>4. t = [u EXCEPT !.halting = s.step, !.sync_exc_seen = TRUE,
                    !.double_fault_seen = u.double_fault_seen \/ s.sync_exc_seen]
  BY <1>2 DEF Software!Exception
<1>5. PICK double \in BOOLEAN : double = (s.double_fault_seen \/ s.sync_exc_seen)
  OBVIOUS
<1>6. t = [u EXCEPT !.halting = s.step, !.sync_exc_seen = TRUE, !.double_fault_seen = double]
  BY <1>3, <1>4, <1>5
<1>7. /\ t \in State
      /\ t.pc = u.pc /\ t.priv = u.priv /\ (t.mie <=> u.mie) /\ (t.mpie <=> u.mpie) /\ t.mpp = u.mpp
      /\ t.mepc = u.mepc /\ t.mcause = u.mcause /\ t.mstack = u.mstack
      /\ (t.sync_exc_seen <=> TRUE) /\ (t.double_fault_seen <=> double)
      /\ (t.nmi <=> u.nmi) /\ (t.debug <=> u.debug) /\ (t.step <=> u.step)
      /\ (t.halting <=> s.step) /\ t.dpc = u.dpc /\ t.dprv = u.dprv
  BY <1>1, <1>3, <1>6, ZenonT(40) DEF State
<1>. QED
  BY <1>3, <1>5, <1>7

\* one in debug mode, which saves nothing,
LEMMA DebugExceptionFields ==
  ASSUME NEW s \in State, NEW cause, s.debug, NEW t, t = Software!Exception(s, cause)
  PROVE  /\ t \in State
         /\ t.pc = DmException /\ t.priv = "M" /\ (t.mie <=> s.mie) /\ (t.mpie <=> s.mpie)
         /\ t.mpp = s.mpp /\ t.mepc = s.mepc /\ t.mcause = s.mcause /\ t.mstack = s.mstack
         /\ (t.sync_exc_seen <=> s.sync_exc_seen) /\ (t.double_fault_seen <=> s.double_fault_seen)
         /\ (t.nmi <=> s.nmi) /\ (t.debug <=> s.debug) /\ (t.step <=> s.step)
         /\ (t.halting <=> s.halting) /\ t.dpc = s.dpc /\ t.dprv = s.dprv
BY AddressAssumption DEF State, Software!Exception, Priv

\* the entry of debug mode,
LEMMA EnterDebugFields ==
  ASSUME NEW s \in State, NEW t, t = Software!EnterDebug(s)
  PROVE  /\ t \in State
         /\ t.pc = DmHalt /\ t.priv = "M" /\ (t.mie <=> s.mie) /\ (t.mpie <=> s.mpie)
         /\ t.mpp = s.mpp /\ t.mepc = s.mepc /\ t.mcause = s.mcause /\ t.mstack = s.mstack
         /\ (t.sync_exc_seen <=> s.sync_exc_seen) /\ (t.double_fault_seen <=> s.double_fault_seen)
         /\ (t.nmi <=> s.nmi) /\ (t.debug <=> TRUE) /\ (t.step <=> s.step)
         /\ (t.halting <=> FALSE) /\ t.dpc = s.pc /\ t.dprv = s.priv
BY AddressAssumption DEF State, Software!EnterDebug, Priv

\* and the returns from debug mode
LEMMA DretFields ==
  ASSUME NEW s \in State, NEW t, t = Software!Dret(s)
  PROVE  /\ t \in State
         /\ t.pc = s.dpc /\ t.priv = s.dprv /\ (t.mie <=> s.mie) /\ (t.mpie <=> s.mpie)
         /\ t.mpp = s.mpp /\ t.mepc = s.mepc /\ t.mcause = s.mcause /\ t.mstack = s.mstack
         /\ (t.sync_exc_seen <=> s.sync_exc_seen) /\ (t.double_fault_seen <=> s.double_fault_seen)
         /\ (t.nmi <=> s.nmi) /\ (t.debug <=> FALSE) /\ (t.step <=> s.step)
         /\ (t.halting <=> s.halting) /\ t.dpc = s.dpc /\ t.dprv = s.dprv
BY DEF State, Software!Dret

\* and from a trap.
LEMMA MretFields ==
  ASSUME NEW s \in State, NEW t, t = Software!Mret(s)
  PROVE  /\ t \in State
         /\ t.pc = s.mepc /\ t.priv = s.mpp /\ (t.mie <=> s.mpie)
         /\ t.mpie <=> (IF s.nmi THEN s.mstack.mpie ELSE TRUE)
         /\ t.mpp = (IF s.nmi THEN s.mstack.mpp ELSE "U")
         /\ t.mepc = (IF s.nmi THEN s.mstack.epc ELSE s.mepc)
         /\ t.mcause = (IF s.nmi THEN s.mstack.cause ELSE s.mcause)
         /\ t.mstack = s.mstack
         /\ (t.sync_exc_seen <=> FALSE) /\ (t.double_fault_seen <=> s.double_fault_seen)
         /\ (t.nmi <=> FALSE) /\ (t.debug <=> s.debug) /\ (t.step <=> s.step)
         /\ (t.halting <=> (s.step /\ ~s.debug)) /\ t.dpc = s.dpc /\ t.dprv = s.dprv
<1>1. /\ s.mepc \in Pc /\ s.mpie \in BOOLEAN /\ s.mpp \in Priv /\ s.nmi \in BOOLEAN
      /\ s.mstack \in Stack
  BY DEF State
<1>2. PICK u : u = Software!Retire(s, s.mepc)
  OBVIOUS
<1>3. /\ u \in State
      /\ u.pc = s.mepc /\ (u.mpie <=> s.mpie) /\ u.mpp = s.mpp
      /\ u.mepc = s.mepc /\ u.mcause = s.mcause /\ u.mstack = s.mstack
      /\ u.double_fault_seen <=> s.double_fault_seen
      /\ (u.nmi <=> s.nmi) /\ (u.debug <=> s.debug) /\ (u.step <=> s.step)
      /\ (u.halting <=> (s.step /\ ~s.debug)) /\ u.dpc = s.dpc /\ u.dprv = s.dprv
  BY <1>1, <1>2, RetireFields
<1>. DEFINE r == [u EXCEPT !.mie = s.mpie, !.priv = s.mpp, !.sync_exc_seen = FALSE]
<1>4. t = IF s.nmi
          THEN [r EXCEPT !.nmi = FALSE, !.mpie = s.mstack.mpie, !.mpp = s.mstack.mpp,
                         !.mepc = s.mstack.epc, !.mcause = s.mstack.cause]
          ELSE [r EXCEPT !.mpie = TRUE, !.mpp = "U"]
  BY <1>2 DEF Software!Mret
<1>5. /\ r \in State
      /\ r.pc = s.mepc /\ r.priv = s.mpp /\ (r.mie <=> s.mpie) /\ (r.sync_exc_seen <=> FALSE)
      /\ (r.mpie <=> s.mpie) /\ r.mpp = s.mpp
      /\ r.mepc = s.mepc /\ r.mcause = s.mcause /\ r.mstack = s.mstack
      /\ r.double_fault_seen <=> s.double_fault_seen
      /\ (r.nmi <=> s.nmi) /\ (r.debug <=> s.debug) /\ (r.step <=> s.step)
      /\ (r.halting <=> (s.step /\ ~s.debug)) /\ r.dpc = s.dpc /\ r.dprv = s.dprv
  BY <1>1, <1>3 DEF State
<1>. HIDE DEF r
<1>6. CASE s.nmi
  <2>1. t = [r EXCEPT !.nmi = FALSE, !.mpie = s.mstack.mpie, !.mpp = s.mstack.mpp,
                      !.mepc = s.mstack.epc, !.mcause = s.mstack.cause]
    BY <1>4, <1>6
  <2>2. /\ s.mstack.mpie \in BOOLEAN /\ s.mstack.mpp \in Priv /\ s.mstack.epc \in Pc
        /\ s.mstack.cause \in Causes
    BY <1>1 DEF Stack
  <2>3. t \in State
    BY <1>5, <2>1, <2>2 DEF State
  <2>. QED
    BY <1>5, <1>6, <2>1, <2>3 DEF State
<1>7. CASE ~s.nmi
  <2>1. t = [r EXCEPT !.mpie = TRUE, !.mpp = "U"]
    BY <1>4, <1>7
  <2>2. t \in State
    BY <1>5, <2>1 DEF State, Priv
  <2>. QED
    BY <1>1, <1>5, <1>7, <2>1, <2>2 DEF State
<1>. QED
  BY <1>6, <1>7

-----------------------------------------------------------------------------
(* What Hart executes *)

\* Hart reads the program as the pipeline does.
LEMMA SameProgram ==
  /\ \A pc : Software!NextPc(pc) = NextPc(pc)
  /\ \A s : Software!Op1(s) = prog[s.pc].op
  /\ \A s : Software!Halting(s) <=> s.halting
  /\ Software!Faulty = Faulty /\ Software!MemOps = MemOps /\ Software!Transfers = Transfers
BY DEF Software!NextPc, NextPc, Software!Op1, Software!Halting, Software!Faulty, Faulty,
       Software!MemOps, MemOps, Software!Loads, Loads, Software!Stores, Stores,
       Software!Transfers, Transfers

\* An instruction that causes no trap moves on to the next one.
LEMMA ExecuteStraight ==
  ASSUME NEW s, prog[s.pc].op \in {"load", "store", "mul", "alu", "bit", "use", "wfi"}
  PROVE  Software!Execute(s) = Software!Retire(s, NextPc(s.pc))
<1>1. ~Software!IsIllegal(s)
  BY SameProgram DEF Software!IsIllegal
<1>. QED
  BY <1>1, SameProgram DEF Software!Execute, Faulty, Transfers

\* A branch or a jump moves on to its target.
LEMMA ExecuteTransfer ==
  ASSUME NEW s, prog[s.pc].op \in Transfers
  PROVE  Software!Execute(s) = Software!Retire(s, prog[s.pc].to)
<1>1. prog[s.pc].op \in {"branch", "jump"}
  BY DEF Transfers
<1>2. ~Software!IsIllegal(s)
  BY <1>1, SameProgram DEF Software!IsIllegal
<1>. QED
  BY <1>1, <1>2, SameProgram DEF Software!Execute, Faulty

\* A CSR instruction where it is legal writes its bit,
LEMMA ExecuteCsr ==
  ASSUME NEW s, prog[s.pc].op \in CsrOps,
         prog[s.pc].op = "step" => s.debug, prog[s.pc].op # "step" => s.priv = "M"
  PROVE  LET r == Software!Retire(s, NextPc(s.pc))
         IN  Software!Execute(s) = IF prog[s.pc].op = "sti" THEN [r EXCEPT !.mie = TRUE]
                                   ELSE IF prog[s.pc].op = "cli" THEN [r EXCEPT !.mie = FALSE]
                                   ELSE [r EXCEPT !.step = TRUE]
<1>1. prog[s.pc].op \in {"sti", "cli", "step"}
  BY DEF CsrOps
<1>2. ~Software!IsIllegal(s)
  BY <1>1, SameProgram DEF Software!IsIllegal
<1>. QED
  BY <1>1, <1>2, SameProgram DEF Software!Execute, Faulty, Transfers

\* mret in machine mode and
LEMMA ExecuteMret ==
  ASSUME NEW s, prog[s.pc].op = "mret", s.priv = "M"
  PROVE  Software!Execute(s) = Software!Mret(s)
<1>1. ~Software!IsIllegal(s)
  BY SameProgram DEF Software!IsIllegal
<1>. QED
  BY <1>1, SameProgram DEF Software!Execute, Faulty

\* dret in debug mode return, and
LEMMA ExecuteDret ==
  ASSUME NEW s, prog[s.pc].op = "dret", s.debug
  PROVE  Software!Execute(s) = Software!Dret(s)
<1>1. ~Software!IsIllegal(s)
  BY SameProgram DEF Software!IsIllegal
<1>. QED
  BY <1>1, SameProgram DEF Software!Execute, Faulty

\* ebreak enters debug mode, again if need be, or causes an exception.
LEMMA ExecuteEbreak ==
  ASSUME NEW s, prog[s.pc].op = "ebreak"
  PROVE  Software!Execute(s) = IF s.debug THEN [s EXCEPT !.pc = DmHalt]
                               ELSE IF s.priv \in EbreakToDebug THEN Software!EnterDebug(s)
                               ELSE Software!Exception(s, "ebreak")
<1>1. ~Software!IsIllegal(s)
  BY SameProgram DEF Software!IsIllegal
<1>. QED
  BY <1>1, SameProgram DEF Software!Execute, Faulty, Software!Ebreak

\* An instruction that is illegal where it stands.
IllegalAt(s) ==
  \/ prog[s.pc].op = "illegal"
  \/ prog[s.pc].op \in {"dret", "step"} /\ ~s.debug
  \/ prog[s.pc].op \in {"mret", "sti", "cli"} /\ s.priv # "M"

\* What an instruction asks for, or runs into, is the exception it causes.
LEMMA ExecuteException ==
  ASSUME NEW s, NEW cause,
         \/ cause = "illegal" /\ IllegalAt(s)
         \/ cause \in {"ecall", "ferr"} /\ prog[s.pc].op = cause
         \/ cause = "mem" /\ prog[s.pc].op \in Faulty
  PROVE  Software!Execute(s) = Software!Exception(s, cause)
<1>1. CASE cause = "illegal" /\ IllegalAt(s)
  <2>1. Software!IsIllegal(s)
    BY <1>1, SameProgram DEF Software!IsIllegal, IllegalAt
  <2>. QED
    BY <1>1, <2>1 DEF Software!Execute
<1>2. CASE cause \in {"ecall", "ferr"} /\ prog[s.pc].op = cause
  <2>1. ~Software!IsIllegal(s)
    BY <1>2, SameProgram DEF Software!IsIllegal
  <2>. QED
    BY <1>2, <2>1, SameProgram DEF Software!Execute
<1>3. CASE cause = "mem" /\ prog[s.pc].op \in Faulty
  <2>1. ~Software!IsIllegal(s)
    BY <1>3, SameProgram DEF Software!IsIllegal, Faulty
  <2>. QED
    BY <1>3, <2>1, SameProgram DEF Software!Execute, Faulty
<1>. QED
  BY <1>1, <1>2, <1>3

\* What a CSR instruction writes.
LEMMA CsrFields ==
  ASSUME NEW s \in State, NEW op \in CsrOps,
         NEW t, t = IF op = "sti" THEN [s EXCEPT !.mie = TRUE]
                    ELSE IF op = "cli" THEN [s EXCEPT !.mie = FALSE]
                    ELSE [s EXCEPT !.step = TRUE]
  PROVE  /\ t \in State
         /\ t.pc = s.pc /\ t.priv = s.priv /\ t.mpp = s.mpp /\ (t.mpie <=> s.mpie)
         /\ (t.mie <=> IF op = "step" THEN s.mie ELSE op = "sti")
         /\ t.mepc = s.mepc /\ t.mcause = s.mcause /\ t.mstack = s.mstack
         /\ (t.sync_exc_seen <=> s.sync_exc_seen)
         /\ (t.double_fault_seen <=> s.double_fault_seen)
         /\ (t.nmi <=> s.nmi) /\ (t.debug <=> s.debug)
         /\ (t.step <=> (op = "step" \/ s.step))
         /\ (t.halting <=> s.halting) /\ t.dpc = s.dpc /\ t.dprv = s.dprv
<1>1. CASE op = "sti"
  <2>1. t = [s EXCEPT !.mie = TRUE]
    BY <1>1
  <2>. QED
    BY <1>1, <2>1 DEF State
<1>2. CASE op = "cli"
  <2>1. t = [s EXCEPT !.mie = FALSE]
    BY <1>2
  <2>. QED
    BY <1>2, <2>1, ZenonT(40) DEF State
<1>3. CASE op = "step"
  <2>1. t = [s EXCEPT !.step = TRUE]
    BY <1>3
  <2>. QED
    BY <1>3, <2>1 DEF State
<1>. QED
  BY <1>1, <1>2, <1>3 DEF CsrOps

\* What the lemmas on a clock edge assume.
Edge(in) ==
  /\ Inv /\ TypeOK /\ PreciseInv /\ TypeOK'
  /\ in \in Possible /\ Cycle(in)

-----------------------------------------------------------------------------
(* The edges on which software sees nothing, and those outside DECODE *)

\* Where no register changes, and the PC does not, software sees nothing.
LEMMA Stutters ==
  ASSUME TypeOK, TypeOK', Hold, debug_mode_q' <=> debug_mode_q, nmi_mode_q' <=> nmi_mode_q,
         arch_pc' = arch_pc, halted' <=> halted
  PROVE  arch' = arch
<1>1. PICK s : s = arch
  OBVIOUS
<1>2. Registered(s) /\ s.pc = arch_pc /\ (s.halting <=> halted)
  BY <1>1, ArchFields
<1>3. Registered(s)'
  BY <1>2, HoldRegistered
<1>. QED
  BY <1>1, <1>2, <1>3, ArchNext

\* While ID is empty, IF holds the next instruction, or ID once it has taken it.
LEMMA EmptyEdge ==
  ASSUME NEW in, Edge(in), ctrl_fsm_cs \in EmptyStates
  PROVE  /\ ~id_valid /\ arch_pc = IF In("DBG_TAKEN_ID") THEN pc_id ELSE pc_if
         /\ unfinished <=> In("DBG_TAKEN_ID")
         /\ arch_pc' = IF id_valid' THEN pc_id' ELSE pc_if'
         /\ unfinished' <=> id_valid'
         /\ do_single_step_q' <=> do_single_step_q
<1>1. ~In("DECODE") /\ ~In("FLUSH") /\ ~id_valid /\ ~wb_waits /\ ~mem_err_q
  BY DEF Edge, Inv, Empty, Quiet, ErrorSeen, EmptyStates, In
<1>2. ~wb_waits'
  BY <1>1, WaitsNext, NothingExecutes DEF Edge
<1>3. ~mem_err_q'
  BY <1>1, ErrorInDecode DEF Edge, Cycle, Controller
<1>4. ~In("FLUSH")' /\ ~In("DBG_TAKEN_ID")'
  BY <1>1, FromDecode DEF Edge, Cycle, Controller, ctrl_fsm_ns, AfterFirstFetch, taken, In
<1>5. do_single_step_q' <=> do_single_step_q
  BY <1>1 DEF Edge, Cycle, Controller, do_single_step_d
<1>. QED
  BY <1>1, <1>2, <1>3, <1>4, <1>5 DEF arch_pc, unfinished, id_pending

\* Where fetching goes when the controller sets the PC.
LEMMA SetsPc ==
  ASSUME NEW in, Edge(in), ctrl_fsm_cs \in EmptyStates, pc_set(in)
  PROVE  /\ arch_pc' = IF boots THEN Boot ELSE exception_target(in)
         /\ ~unfinished'
<1>1. ~redirects
  BY DEF redirects, In, EmptyStates
<1>2. boots => exception_target(in) = -1
  BY DEF boots, exception_target, takes_exception, flushes, In
<1>3. pc_if' = IF boots THEN Boot ELSE exception_target(in)
  BY <1>1, <1>2 DEF Edge, Cycle, Fetch, pc_set
<1>4. ~id_valid'
  BY EmptyEdge DEF Edge, Cycle, Decode
<1>. QED
  BY <1>3, <1>4, EmptyEdge

\* And when it does not: what IF held is next, whether ID has taken it or not.
LEMMA LeavesPc ==
  ASSUME NEW in, Edge(in), ctrl_fsm_cs \in EmptyStates, ~pc_set(in)
  PROVE  /\ arch_pc' = pc_if
         /\ unfinished' <=> in.accept
<1>1. /\ pc_if' = IF in.accept THEN NextPc(pc_if) ELSE pc_if
      /\ pc_id' = IF in.accept THEN pc_if ELSE pc_id
      /\ id_valid' <=> in.accept
  BY EmptyEdge DEF Edge, Cycle, Fetch, Decode, pc_set
<1>. QED
  BY <1>1, EmptyEdge

\* No register changes in these states.
LEMMA HoldsRegisters ==
  ASSUME NEW in, Edge(in), ctrl_fsm_cs \in EmptyStates \ {"DBG_TAKEN_IF", "DBG_TAKEN_ID"},
         ~(In("IRQ_TAKEN") /\ handle_irq(in))
  PROVE  Hold /\ (debug_mode_q' <=> debug_mode_q) /\ (nmi_mode_q' <=> nmi_mode_q)
<1>1. ~In("DECODE") /\ ~In("FLUSH")
  BY DEF In, EmptyStates
<1>2. ~csr_op_en(in)
  BY <1>1, NothingExecutes DEF csr_op_en, Edge
<1>. QED
  BY <1>1, <1>2 DEF Edge, Cycle, Registers, Controller, In, takes_exception, flushes

\* The core boots, sleeps, or waits for the first instruction; or an interrupt that
\* was taken is no longer there.
LEMMA IdleEdge ==
  ASSUME NEW in, Edge(in), ctrl_fsm_cs \in EmptyStates \ {"DBG_TAKEN_IF", "DBG_TAKEN_ID"},
         ~(In("IRQ_TAKEN") /\ handle_irq(in))
  PROVE  arch' = arch
<1>1. Hold /\ (debug_mode_q' <=> debug_mode_q) /\ (nmi_mode_q' <=> nmi_mode_q)
  BY HoldsRegisters
<1>2. exception_target(in) = -1
  BY DEF exception_target, takes_exception, flushes, In, EmptyStates
<1>3. ~redirects /\ ~In("DBG_TAKEN_ID")
  BY DEF redirects, In, EmptyStates
<1>4. arch_pc' = arch_pc
  <2>1. CASE boots
    BY <1>2, <1>3, <2>1, EmptyEdge, SetsPc DEF pc_set, Edge, PreciseInv, InOrder
  <2>2. CASE ~boots
    BY <1>2, <1>3, <2>2, EmptyEdge, LeavesPc DEF pc_set
  <2>. QED
    BY <2>1, <2>2
<1>5. dcsr_q' = dcsr_q
  BY <1>1 DEF Hold, csrVars
<1>6. halted' <=> halted
  <2>. SUFFICES ASSUME dcsr_q.step, ~debug_mode_q, do_single_step_q PROVE ~unfinished'
    BY <1>1, <1>3, <1>5, EmptyEdge DEF halted
  <2>1. requested(in)
    BY EmptyEdge DEF requested, enter_debug_mode, enter_debug_mode_prio, do_single_step_d
  <2>2. ~In("IRQ_TAKEN")
    BY DEF Edge, PreciseInv, Taking
  <2>3. CASE boots
    BY <2>3, SetsPc DEF pc_set
  <2>4. CASE ~boots
    <3>1. ~in.accept
      BY <2>1, <2>2, <2>4, NothingAccepted DEF Edge, boots, In, EmptyStates, CtrlStates
    <3>. QED
      BY <1>2, <1>3, <2>4, <3>1, LeavesPc DEF pc_set
  <2>. QED
    BY <2>3, <2>4
<1>. QED
  BY <1>1, <1>4, <1>6, Stutters DEF Edge

\* What a trap puts aside is the same in both.
LEMMA SameStack ==
  ASSUME TypeOK, NEW s, Registered(s)
  PROVE  Mstack(s.mpie, s.mpp, s.mepc, s.mcause)
           = Mstack(mstatus_q.mpie, mstatus_q.mpp, mepc_q, mcause_q)
<1>1. s.mpie = mstatus_q.mpie
  BY DEF Registered, State, TypeOK, CsrTypeOK
<1>. QED
  BY <1>1 DEF Registered

\* An interrupt is taken between two instructions.
LEMMA InterruptEdge ==
  ASSUME NEW in, Edge(in), In("IRQ_TAKEN"), handle_irq(in)
  PROVE  Software!Interrupt \/ Software!NonMaskable
<1>. DEFINE cause == IF in.nmi THEN "nmi" ELSE "irq"
            to    == IF in.nmi THEN Nmi ELSE Irq
<1>1. ctrl_fsm_cs \in EmptyStates /\ ~boots /\ ~In("DBG_TAKEN_ID")
  BY DEF In, EmptyStates, CtrlStates, boots
<1>2. exception_target(in) = to /\ to \in Pc /\ to # -1 /\ cause \in Causes
  BY AddressAssumption, SizeAssumption DEF exception_target, In, Causes, Pc
<1>3. PICK s : s = arch
  OBVIOUS
<1>4. Registered(s) /\ s.pc = pc_if /\ ~s.debug /\ ~s.nmi /\ ~s.step /\ ~s.halting
  BY <1>1, <1>3, ArchFields, EmptyEdge DEF Edge, handle_irq, Registered, halted
<1>5. PICK t : t = IF in.nmi THEN [Software!Trap(s, "nmi", Nmi) EXCEPT !.nmi = TRUE]
                   ELSE Software!Trap(s, "irq", Irq)
  OBVIOUS
<1>6. /\ t \in State /\ t.pc = to /\ t.priv = "M" /\ ~t.mie /\ (t.mpie <=> s.mie)
      /\ t.mpp = s.priv /\ t.mepc = s.pc /\ t.mcause = cause
      /\ t.mstack = Mstack(s.mpie, s.mpp, s.mepc, s.mcause)
      /\ (t.sync_exc_seen <=> s.sync_exc_seen)
      /\ (t.double_fault_seen <=> s.double_fault_seen)
      /\ (t.nmi <=> in.nmi) /\ (t.debug <=> s.debug) /\ (t.step <=> s.step)
      /\ (t.halting <=> s.halting) /\ t.dpc = s.dpc /\ t.dprv = s.dprv
  <2>1. s \in State /\ Nmi \in Pc /\ Irq \in Pc /\ "nmi" \in Causes /\ "irq" \in Causes
    BY <1>4, AddressAssumption DEF Registered, Causes
  <2>2. CASE in.nmi
    <3>1. PICK u : u = Software!Trap(s, "nmi", Nmi)
      OBVIOUS
    <3>2. t = [u EXCEPT !.nmi = TRUE]
      BY <1>5, <2>2, <3>1
    <3>3. /\ u \in State /\ u.pc = Nmi /\ u.priv = "M" /\ ~u.mie /\ (u.mpie <=> s.mie)
          /\ u.mpp = s.priv /\ u.mepc = s.pc /\ u.mcause = "nmi"
          /\ u.mstack = Mstack(s.mpie, s.mpp, s.mepc, s.mcause)
          /\ (u.sync_exc_seen <=> s.sync_exc_seen)
          /\ (u.double_fault_seen <=> s.double_fault_seen)
          /\ (u.debug <=> s.debug) /\ (u.step <=> s.step)
          /\ (u.halting <=> s.halting) /\ u.dpc = s.dpc /\ u.dprv = s.dprv
      BY <2>1, <3>1, TrapFields
    <3>. QED
      BY <2>2, <3>2, <3>3 DEF State
  <2>3. CASE ~in.nmi
    BY <1>4, <1>5, <2>1, <2>3, TrapFields
  <2>. QED
    BY <2>2, <2>3
<1>7. /\ SaveTrap(pc_if, cause) /\ nmi_mode_q' = in.nmi /\ (debug_mode_q' <=> debug_mode_q)
  <2>1. ~flushes("mret") /\ ~flushes("dret")
    BY DEF flushes, In
  <2>. QED
    BY <2>1, PossibleInputs DEF Edge, Cycle, Registers, Controller, In, handle_irq, InputSpace
<1>8. Registered(t)'
  <2>1. /\ mstatus_q' = Mstatus(FALSE, mstatus_q.mie, priv_lvl_q) /\ cpuctrlsts_q' = cpuctrlsts_q
        /\ priv_lvl_q' = "M" /\ mepc_q' = pc_if /\ mcause_q' = cause
        /\ mstack_q' = Mstack(mstatus_q.mpie, mstatus_q.mpp, mepc_q, mcause_q)
        /\ depc_q' = depc_q /\ dcsr_q' = dcsr_q
    BY <1>7 DEF SaveTrap, Asynchronous
  <2>2. ~mstatus_q'.mie /\ (mstatus_q'.mpie <=> mstatus_q.mie) /\ mstatus_q'.mpp = priv_lvl_q
    BY <2>1 DEF Mstatus
  <2>3. t.mstack = mstack_q'
    BY <1>4, <1>6, <2>1, SameStack DEF Edge
  <2>. QED
    BY <1>4, <1>6, <1>7, <2>1, <2>2, <2>3 DEF Registered
<1>9. arch_pc' = to /\ ~halted'
  <2>1. pc_set(in)
    BY <1>2 DEF pc_set
  <2>2. ~dcsr_q'.step
    BY <1>4, <1>7 DEF SaveTrap, Registered
  <2>. QED
    BY <1>1, <1>2, <2>1, <2>2, SetsPc DEF halted
<1>10. arch' = t
  BY <1>4, <1>6, <1>8, <1>9, ArchNext DEF Edge
<1>11. Software!Interruptible(s) /\ ~Software!Halting(s)
  BY <1>4 DEF Software!Interruptible, Software!Halting
<1>12. CASE in.nmi
  BY <1>3, <1>5, <1>10, <1>11, <1>12 DEF Software!NonMaskable
<1>13. CASE ~in.nmi
  <2>1. s.mie \/ s.priv = "U"
    BY <1>4, <1>13 DEF handle_irq, irq_enabled, Registered
  <2>. QED
    BY <1>3, <1>5, <1>10, <1>11, <1>13, <2>1 DEF Software!Interrupt
<1>. QED
  BY <1>12, <1>13

\* The registers after debug mode has been entered: the PC, the privilege level and
\* the cause are put aside.
LEMMA DebugRegistered ==
  ASSUME NEW s, Registered(s), NEW pc, s.pc = pc, NEW cause, SaveDebug(pc, cause),
         debug_mode_q', nmi_mode_q' <=> nmi_mode_q,
         NEW t, t = Software!EnterDebug(s)
  PROVE  Registered(t)' /\ t.pc = DmHalt /\ ~t.halting
<1>1. s \in State
  BY DEF Registered
<1>2. /\ t \in State
      /\ t.pc = DmHalt /\ t.priv = "M" /\ (t.mie <=> s.mie) /\ (t.mpie <=> s.mpie)
      /\ t.mpp = s.mpp /\ t.mepc = s.mepc /\ t.mcause = s.mcause /\ t.mstack = s.mstack
      /\ (t.sync_exc_seen <=> s.sync_exc_seen)
      /\ (t.double_fault_seen <=> s.double_fault_seen)
      /\ (t.nmi <=> s.nmi) /\ t.debug /\ (t.step <=> s.step)
      /\ ~t.halting /\ t.dpc = s.pc /\ t.dprv = s.priv
  BY <1>1, EnterDebugFields
<1>3. /\ priv_lvl_q' = "M" /\ depc_q' = pc
      /\ dcsr_q'.prv = priv_lvl_q /\ dcsr_q'.step = dcsr_q.step
      /\ mstatus_q' = mstatus_q /\ mepc_q' = mepc_q /\ mcause_q' = mcause_q
      /\ mstack_q' = mstack_q /\ cpuctrlsts_q' = cpuctrlsts_q
  BY DEF SaveDebug, Dcsr
<1>. QED
  BY <1>2, <1>3 DEF Registered

\* Debug mode starts in the debug module.
LEMMA TakenTarget ==
  ASSUME NEW in, Edge(in), ctrl_fsm_cs \in {"DBG_TAKEN_IF", "DBG_TAKEN_ID"}
  PROVE  /\ ctrl_fsm_cs \in EmptyStates
         /\ arch_pc' = DmHalt /\ debug_mode_q' /\ (nmi_mode_q' <=> nmi_mode_q)
<1>1. exception_target(in) = DmHalt /\ DmHalt # -1
  BY AddressAssumption DEF exception_target, In, Pc
<1>2. ctrl_fsm_cs \in EmptyStates /\ ~boots
  BY DEF EmptyStates, CtrlStates, boots
<1>3. debug_mode_q' /\ (nmi_mode_q' <=> nmi_mode_q)
  BY DEF Edge, Cycle, Controller, flushes, In
<1>. QED
  BY <1>1, <1>2, <1>3, SetsPc DEF pc_set

\* Debug mode is entered between two instructions,
LEMMA DebugEdge ==
  ASSUME NEW in, Edge(in), In("DBG_TAKEN_IF")
  PROVE  Software!Debug
<1>1. PICK s : s = arch
  OBVIOUS
<1>2. ctrl_fsm_cs \in EmptyStates /\ arch_pc' = DmHalt /\ debug_mode_q'
      /\ (nmi_mode_q' <=> nmi_mode_q)
  BY TakenTarget DEF In
<1>3. Registered(s) /\ s.pc = pc_if /\ ~s.debug
  BY <1>1, <1>2, ArchFields, EmptyEdge DEF Edge, PreciseInv, Taking, Registered, In
<1>4. SaveDebug(pc_if, debug_cause_q)
  BY DEF Edge, Cycle, Registers, In
<1>5. PICK t : t = Software!EnterDebug(s)
  OBVIOUS
<1>6. Registered(t)' /\ t.pc = DmHalt /\ ~t.halting
  BY <1>2, <1>3, <1>4, <1>5, DebugRegistered
<1>7. arch' = t
  BY <1>2, <1>6, ArchNext DEF Edge, halted
<1>. QED
  BY <1>1, <1>3, <1>5, <1>7 DEF Software!Debug, Software!InDebug

\* or by an ebreak that is there for it; in debug mode ebreak starts over.
LEMMA EbreakEdge ==
  ASSUME NEW in, Edge(in), In("DBG_TAKEN_ID")
  PROVE  Software!Step
<1>1. PICK s : s = arch
  OBVIOUS
<1>2. ctrl_fsm_cs \in EmptyStates /\ arch_pc' = DmHalt /\ debug_mode_q'
      /\ (nmi_mode_q' <=> nmi_mode_q)
  BY TakenTarget DEF In
<1>3. Registered(s) /\ s.pc = pc_id /\ ~s.halting
  BY <1>1, <1>2, ArchFields, EmptyEdge DEF Edge, halted
<1>4. prog[s.pc].op = "ebreak" /\ (s.debug \/ s.priv \in EbreakToDebug)
  BY <1>3 DEF Edge, PreciseInv, Taking, Registered, id_op, ebreak_into_debug
<1>5. PICK t : t = Software!Execute(s)
  OBVIOUS
<1>6. arch' = t
  <2>1. CASE s.debug
    <3>1. t = [s EXCEPT !.pc = DmHalt] /\ DmHalt \in Pc
      BY <1>4, <1>5, <2>1, ExecuteEbreak, AddressAssumption
    <3>2. Hold
      <4>1. ~csr_op_en(in)
        BY NothingExecutes DEF csr_op_en, Edge, In
      <4>2. ~takes_exception /\ ~flushes("mret") /\ ~flushes("dret")
        BY DEF takes_exception, flushes, In
      <4>3. debug_mode_q
        BY <1>3, <2>1 DEF Registered
      <4>. QED
        BY <4>1, <4>2, <4>3 DEF Edge, Cycle, Registers, In
    <3>3. Registered(s)'
      BY <1>2, <1>3, <2>1, <3>2 DEF Registered, Hold, csrVars
    <3>4. Registered(t)' /\ t.pc = DmHalt /\ ~t.halting
      BY <1>3, <3>1, <3>3 DEF Registered, State
    <3>. QED
      BY <1>2, <3>4, ArchNext DEF Edge, halted
  <2>2. CASE ~s.debug
    <3>1. t = Software!EnterDebug(s)
      BY <1>4, <1>5, <2>2, ExecuteEbreak
    <3>2. SaveDebug(pc_id, debug_cause_q)
      BY <1>3, <1>4, <2>2 DEF Edge, Cycle, Registers, In, Registered, ebreak_into_debug
    <3>3. Registered(t)' /\ t.pc = DmHalt /\ ~t.halting
      BY <1>2, <1>3, <3>1, <3>2, DebugRegistered
    <3>. QED
      BY <1>2, <3>3, ArchNext DEF Edge, halted
  <2>. QED
    BY <2>1, <2>2
<1>. QED
  BY <1>1, <1>3, <1>5, <1>6, SameProgram DEF Software!Step

-----------------------------------------------------------------------------
(* FLUSH *)

\* Whatever FLUSH does, it leaves ID and writeback empty, but for an ebreak into debug mode.
LEMMA FlushEdge ==
  ASSUME NEW in, Edge(in), In("FLUSH")
  PROVE  /\ ~wb_waits /\ ~redirects /\ ~boots /\ ~csr_op_en(in)
         /\ arch_pc' = IF ebreak_to_dbg THEN pc_id
                       ELSE IF exception_target(in) # -1 THEN exception_target(in) ELSE pc_if
         /\ unfinished' <=> ebreak_to_dbg
<1>1. ~In("DECODE") /\ ~wb_waits /\ ~redirects /\ ~boots /\ ~csr_op_en(in)
  BY NothingExecutes DEF Edge, In, Inv, Quiet, redirects, boots, csr_op_en
<1>2. ~in.accept /\ instr_valid_clear(in)
  BY NothingAccepted, FlushClears DEF Edge, In
<1>3. ~id_valid' /\ pc_id' = pc_id
      /\ pc_if' = IF exception_target(in) # -1 THEN exception_target(in) ELSE pc_if
  BY <1>1, <1>2 DEF Edge, Cycle, Decode, Fetch
<1>4. ~wb_waits' /\ ~In("FLUSH")'
  BY <1>1, WaitsNext, NothingExecutes, FromDecode DEF Edge
<1>5. ~mem_err_q'
  BY <1>1, ErrorInDecode DEF Edge, Cycle, Controller
<1>6. In("DBG_TAKEN_ID")' <=> ebreak_to_dbg
  <2>1. ctrl_fsm_cs' = AfterFlush
    BY DEF Edge, Cycle, Controller, ctrl_fsm_ns, In
  <2>2. ebreak_to_dbg /\ enter_debug_mode_prio_q => ebrk_insn_prio /\ ebreak_into_debug
    BY DEF ebreak_to_dbg, Edge, Inv, Outside
  <2>. QED
    BY <2>1, <2>2 DEF AfterFlush, In
<1>. QED
  BY <1>1, <1>3, <1>4, <1>5, <1>6 DEF arch_pc, unfinished, id_pending

\* A single step that ends in FLUSH is remembered.
LEMMA SteppedInFlush ==
  ASSUME NEW in, Edge(in), In("FLUSH"), dcsr_q.step, ~debug_mode_q, id_valid \/ mem_err_q
  PROVE  do_single_step_q /\ do_single_step_q'
BY DEF Edge, PreciseInv, Stepping, Cycle, Controller, do_single_step_d

\* FLUSH hands an ebreak for debug mode over; it ends wfi and a write of mstatus,
\* whose effect software has seen.
LEMMA FlushStutters ==
  ASSUME NEW in, Edge(in), In("FLUSH"),
         \/ ebreak_to_dbg
         \/ ~takes_exception /\ ~flushes("mret") /\ ~flushes("dret")
  PROVE  arch' = arch
<1>1. ~flushes("mret") /\ ~flushes("dret")
  BY DEF flushes, ebreak_to_dbg
<1>2. Hold /\ (debug_mode_q' <=> debug_mode_q) /\ (nmi_mode_q' <=> nmi_mode_q)
  BY <1>1, FlushEdge DEF Edge, Cycle, Registers, Controller, In
<1>3. CASE ebreak_to_dbg
  <2>1. ~mem_err_q /\ exc_req_q
    BY <1>3 DEF ebreak_to_dbg, takes_exception, ebrk_insn_prio
  <2>2. arch_pc = pc_id /\ unfinished
    BY <2>1, FlushEdge DEF arch_pc, unfinished, id_pending
  <2>. QED
    BY <1>2, <1>3, <2>2, FlushEdge, Stutters DEF Edge, halted
<1>4. CASE ~ebreak_to_dbg
  <2>1. ~takes_exception
    BY <1>4
  <2>2. ~mem_err_q /\ ~exc_req_q
    BY <2>1 DEF takes_exception
  <2>3. ~id_pending
    BY <1>1, <2>1, <2>2 DEF id_pending, flushes
  <2>4. arch_pc = pc_if /\ ~unfinished
    BY <2>2, <2>3, FlushEdge DEF arch_pc, unfinished
  <2>5. exception_target(in) = -1
    BY <1>1, <2>1 DEF exception_target, In
  <2>6. arch_pc' = pc_if /\ ~unfinished'
    BY <1>4, <2>5, FlushEdge
  <2>7. halted' <=> halted
    <3>1. dcsr_q' = dcsr_q
      BY <1>2 DEF Hold, csrVars
    <3>2. dcsr_q.step /\ ~debug_mode_q => (do_single_step_q' <=> do_single_step_q)
      <4>1. CASE id_valid
        BY <4>1, SteppedInFlush
      <4>2. CASE ~id_valid
        BY <4>2 DEF Edge, Cycle, Controller, do_single_step_d
      <4>. QED
        BY <4>1, <4>2
    <3>. QED
      BY <1>2, <2>4, <2>6, <3>1, <3>2 DEF halted
  <2>. QED
    BY <1>2, <2>4, <2>6, <2>7, Stutters DEF Edge
<1>. QED
  BY <1>3, <1>4

\* The exception that FLUSH takes is the one the oldest instruction causes.
LEMMA FlushCause ==
  ASSUME NEW in, Edge(in), In("FLUSH"), takes_exception, ~ebreak_to_dbg,
         NEW s, Registered(s), s.pc = arch_pc
  PROVE  /\ arch_pc = IF mem_err_q THEN pc_wb ELSE pc_id
         /\ id_valid \/ mem_err_q
         /\ unfinished
         /\ Software!Execute(s) = Software!Exception(s, exc_cause) /\ exc_cause \in Causes
<1>1. /\ mem_err_q => wb_op \in Faulty
      /\ (exc_req_q <=> asks) /\ (illegal_insn_q <=> illegal_insn)
  BY DEF Edge, PreciseInv, Flushing
<1>2. ~mem_err_q => exc_req_q /\ asks /\ id_valid
  BY <1>1 DEF takes_exception, asks, Holds, illegal_insn, fetch_err
<1>3. arch_pc = IF mem_err_q THEN pc_wb ELSE pc_id
  BY <1>2, FlushEdge DEF arch_pc, id_pending
<1>4. unfinished
  BY <1>2 DEF unfinished, id_pending
<1>5. CASE mem_err_q
  <2>1. exc_cause = "mem" /\ prog[s.pc].op \in Faulty
    BY <1>1, <1>3, <1>5 DEF exc_cause, wb_op
  <2>. QED
    BY <1>3, <1>4, <1>5, <2>1, ExecuteException DEF Causes
<1>6. CASE ~mem_err_q /\ (fetch_err \/ illegal_insn \/ Holds("ecall"))
  <2>1. s.pc = pc_id /\ id_valid
    BY <1>2, <1>3, <1>6
  <2>2. CASE fetch_err
    <3>1. exc_cause = "ferr" /\ prog[s.pc].op = "ferr"
      BY <1>6, <2>1, <2>2 DEF exc_cause, fetch_err, Holds, id_op
    <3>. QED
      BY <1>3, <1>4, <2>1, <3>1, ExecuteException DEF Causes
  <2>3. CASE ~fetch_err /\ illegal_insn
    <3>1. exc_cause = "illegal"
      BY <1>1, <1>6, <2>3 DEF exc_cause
    <3>2. IllegalAt(s)
      BY <2>1, <2>3 DEF illegal_insn, IllegalAt, Registered, id_op
    <3>. QED
      BY <1>3, <1>4, <2>1, <3>1, <3>2, ExecuteException DEF Causes
  <2>4. CASE ~fetch_err /\ ~illegal_insn /\ Holds("ecall")
    <3>1. exc_cause = "ecall" /\ prog[s.pc].op = "ecall"
      BY <1>1, <1>6, <2>1, <2>4 DEF exc_cause, Holds, id_op
    <3>. QED
      BY <1>3, <1>4, <2>1, <3>1, ExecuteException DEF Causes
  <2>. QED
    BY <1>6, <2>2, <2>3, <2>4
<1>7. CASE ~mem_err_q /\ ~fetch_err /\ ~illegal_insn /\ ~Holds("ecall")
  <2>1. Holds("ebreak")
    BY <1>2, <1>7 DEF asks
  <2>2. exc_cause = "ebreak" /\ ebrk_insn_prio
    BY <1>1, <1>7, <2>1 DEF exc_cause, ebrk_insn_prio
  <2>3. ~debug_mode_q /\ priv_lvl_q \notin EbreakToDebug
    BY <2>2 DEF ebreak_to_dbg, ebreak_into_debug
  <2>4. prog[s.pc].op = "ebreak" /\ ~s.debug /\ s.priv \notin EbreakToDebug
    BY <1>3, <1>7, <2>1, <2>3 DEF Registered, Holds, id_op
  <2>5. Software!Execute(s) = Software!Exception(s, "ebreak")
    BY <2>4, ExecuteEbreak
  <2>. QED
    BY <1>2, <1>3, <1>4, <1>7, <2>2, <2>5 DEF Causes
<1>. QED
  BY <1>5, <1>6, <1>7

\* An exception outside debug mode: the registers of the interrupted program.
LEMMA ExceptionRegistered ==
  ASSUME TypeOK, NEW s, Registered(s), NEW cause \in Causes, ~Asynchronous(cause), ~debug_mode_q,
         SaveTrap(s.pc, cause), debug_mode_q' <=> debug_mode_q, nmi_mode_q' <=> nmi_mode_q,
         NEW t, t = Software!Exception(s, cause)
  PROVE  /\ Registered(t)' /\ t.pc = Exc
         /\ (t.halting <=> dcsr_q'.step)
<1>1. s \in State /\ ~s.debug
  BY DEF Registered
<1>2. /\ t \in State
      /\ t.pc = Exc /\ t.priv = "M" /\ ~t.mie /\ (t.mpie <=> s.mie) /\ t.mpp = s.priv
      /\ t.mepc = s.pc /\ t.mcause = cause
      /\ t.mstack = Mstack(s.mpie, s.mpp, s.mepc, s.mcause)
      /\ t.sync_exc_seen
      /\ (t.double_fault_seen <=> (s.double_fault_seen \/ s.sync_exc_seen))
      /\ (t.nmi <=> s.nmi) /\ (t.debug <=> s.debug) /\ (t.step <=> s.step)
      /\ (t.halting <=> s.step) /\ t.dpc = s.dpc /\ t.dprv = s.dprv
  BY <1>1, ExceptionFields
<1>3. /\ mstatus_q' = Mstatus(FALSE, mstatus_q.mie, priv_lvl_q)
      /\ cpuctrlsts_q' = Cpuctrl(TRUE, cpuctrlsts_q.double_fault_seen \/ cpuctrlsts_q.sync_exc_seen)
      /\ priv_lvl_q' = "M" /\ mepc_q' = s.pc /\ mcause_q' = cause
      /\ mstack_q' = Mstack(mstatus_q.mpie, mstatus_q.mpp, mepc_q, mcause_q)
      /\ depc_q' = depc_q /\ dcsr_q' = dcsr_q
  BY DEF SaveTrap
<1>4. ~mstatus_q'.mie /\ (mstatus_q'.mpie <=> mstatus_q.mie) /\ mstatus_q'.mpp = priv_lvl_q
  BY <1>3 DEF Mstatus
<1>5. /\ cpuctrlsts_q'.sync_exc_seen
      /\ cpuctrlsts_q'.double_fault_seen <=>
           (cpuctrlsts_q.double_fault_seen \/ cpuctrlsts_q.sync_exc_seen)
  BY <1>3 DEF Cpuctrl
<1>6. t.mstack = mstack_q'
  BY <1>2, <1>3, SameStack
<1>. QED
  BY <1>2, <1>3, <1>4, <1>5, <1>6 DEF Registered

\* FLUSH takes an exception.
LEMMA ExceptionEdge ==
  ASSUME NEW in, Edge(in), In("FLUSH"), takes_exception, ~ebreak_to_dbg
  PROVE  Software!Step
<1>1. PICK s : s = arch
  OBVIOUS
<1>2. Registered(s) /\ s.pc = arch_pc /\ (s.halting <=> halted)
  BY <1>1, ArchFields DEF Edge
<1>3. PICK t : t = Software!Execute(s)
  OBVIOUS
<1>4. /\ s.pc = IF mem_err_q THEN pc_wb ELSE pc_id
      /\ id_valid \/ mem_err_q
      /\ ~s.halting /\ t = Software!Exception(s, exc_cause) /\ exc_cause \in Causes
  BY <1>2, <1>3, FlushCause DEF halted
<1>5. /\ ~flushes("mret") /\ ~flushes("dret")
      /\ (debug_mode_q' <=> debug_mode_q) /\ (nmi_mode_q' <=> nmi_mode_q)
  BY DEF Edge, Cycle, Controller, flushes, In
<1>6. /\ debug_mode_q => SaveNothing
      /\ ~debug_mode_q => SaveTrap(s.pc, exc_cause)
  BY <1>4 DEF Edge, Cycle, Registers, In
<1>7. arch_pc' = (IF debug_mode_q THEN DmException ELSE Exc) /\ ~unfinished'
  <2>1. exception_target(in) = IF debug_mode_q THEN DmException ELSE Exc
    BY DEF exception_target, In
  <2>2. exception_target(in) # -1
    BY <2>1, AddressAssumption DEF Pc
  <2>. QED
    BY <2>1, <2>2, FlushEdge
<1>8. arch' = t
  <2>1. CASE debug_mode_q
    <3>1. s \in State /\ s.debug
      BY <1>2, <2>1 DEF Registered
    <3>2. /\ t \in State
          /\ t.pc = DmException /\ t.priv = "M" /\ (t.mie <=> s.mie) /\ (t.mpie <=> s.mpie)
          /\ t.mpp = s.mpp /\ t.mepc = s.mepc /\ t.mcause = s.mcause /\ t.mstack = s.mstack
          /\ (t.sync_exc_seen <=> s.sync_exc_seen)
          /\ (t.double_fault_seen <=> s.double_fault_seen)
          /\ (t.nmi <=> s.nmi) /\ (t.debug <=> s.debug) /\ (t.step <=> s.step)
          /\ (t.halting <=> s.halting) /\ t.dpc = s.dpc /\ t.dprv = s.dprv
      BY <1>4, <3>1, DebugExceptionFields
    <3>3. Registered(t)'
      BY <1>2, <1>5, <1>6, <2>1, <3>2 DEF Registered, SaveNothing
    <3>. QED
      BY <1>4, <1>5, <1>7, <2>1, <3>2, <3>3, ArchNext DEF Edge, halted
  <2>2. CASE ~debug_mode_q
    <3>1. ~Asynchronous(exc_cause)
      BY DEF exc_cause, Asynchronous
    <3>2. Registered(t)' /\ t.pc = Exc /\ (t.halting <=> dcsr_q'.step)
      BY <1>2, <1>4, <1>5, <1>6, <2>2, <3>1, ExceptionRegistered DEF Edge
    <3>3. dcsr_q' = dcsr_q
      BY <1>6, <2>2 DEF SaveTrap
    <3>4. halted' <=> dcsr_q'.step
      BY <1>4, <1>5, <1>7, <2>2, <3>3, SteppedInFlush DEF halted
    <3>. QED
      BY <1>7, <2>2, <3>2, <3>4, ArchNext DEF Edge
  <2>. QED
    BY <2>1, <2>2
<1>. QED
  BY <1>1, <1>3, <1>4, <1>8, SameProgram DEF Software!Step

\* FLUSH returns from a trap.
LEMMA MretEdge ==
  ASSUME NEW in, Edge(in), In("FLUSH"), flushes("mret")
  PROVE  Software!Step
<1>1. PICK s : s = arch
  OBVIOUS
<1>2. Registered(s) /\ s.pc = arch_pc /\ (s.halting <=> halted)
  BY <1>1, ArchFields DEF Edge
<1>3. /\ ~takes_exception /\ ~ebreak_to_dbg /\ id_valid /\ id_op = "mret" /\ ~flushes("dret")
      /\ ~mem_err_q /\ ~exc_req_q /\ id_pending
  BY DEF flushes, ebreak_to_dbg, takes_exception, Holds, id_pending
<1>4. priv_lvl_q = "M"
  BY <1>3 DEF Edge, PreciseInv, Flushing, asks, illegal_insn
<1>5. s.pc = pc_id /\ ~s.halting
  BY <1>2, <1>3, FlushEdge DEF arch_pc, unfinished, halted
<1>6. PICK t : t = Software!Execute(s)
  OBVIOUS
<1>7. t = Software!Mret(s)
  BY <1>2, <1>3, <1>4, <1>5, <1>6, ExecuteMret DEF Registered, id_op
<1>8. /\ t \in State
      /\ t.pc = s.mepc /\ t.priv = s.mpp /\ (t.mie <=> s.mpie)
      /\ (t.mpie <=> (IF s.nmi THEN s.mstack.mpie ELSE TRUE))
      /\ t.mpp = (IF s.nmi THEN s.mstack.mpp ELSE "U")
      /\ t.mepc = (IF s.nmi THEN s.mstack.epc ELSE s.mepc)
      /\ t.mcause = (IF s.nmi THEN s.mstack.cause ELSE s.mcause)
      /\ t.mstack = s.mstack
      /\ ~t.sync_exc_seen /\ (t.double_fault_seen <=> s.double_fault_seen)
      /\ ~t.nmi /\ (t.debug <=> s.debug) /\ (t.step <=> s.step)
      /\ (t.halting <=> s.step /\ ~s.debug) /\ t.dpc = s.dpc /\ t.dprv = s.dprv
  BY <1>2, <1>7, MretFields DEF Registered
<1>9. RestoreMret(nmi_mode_q) /\ ~nmi_mode_q' /\ (debug_mode_q' <=> debug_mode_q)
  BY <1>3 DEF Edge, Cycle, Registers, Controller, In
<1>10. /\ priv_lvl_q' = mstatus_q.mpp
       /\ (mstatus_q'.mie <=> mstatus_q.mpie)
       /\ (mstatus_q'.mpie <=> IF nmi_mode_q THEN mstack_q.mpie ELSE TRUE)
       /\ mstatus_q'.mpp = IF nmi_mode_q THEN mstack_q.mpp ELSE "U"
       /\ mepc_q' = IF nmi_mode_q THEN mstack_q.epc ELSE mepc_q
       /\ mcause_q' = IF nmi_mode_q THEN mstack_q.cause ELSE mcause_q
       /\ ~cpuctrlsts_q'.sync_exc_seen
       /\ (cpuctrlsts_q'.double_fault_seen <=> cpuctrlsts_q.double_fault_seen)
       /\ mstack_q' = mstack_q /\ depc_q' = depc_q /\ dcsr_q' = dcsr_q
  BY <1>9 DEF RestoreMret, Mstatus, Cpuctrl
<1>11. Registered(t)'
  BY <1>2, <1>8, <1>9, <1>10 DEF Registered
<1>12. arch_pc' = mepc_q /\ ~unfinished'
  <2>1. exception_target(in) = mepc_q
    BY <1>3 DEF exception_target, In
  <2>2. mepc_q # -1
    BY DEF Edge, TypeOK, CsrTypeOK, Pc
  <2>. QED
    BY <1>3, <2>1, <2>2, FlushEdge
<1>13. halted' <=> dcsr_q.step /\ ~debug_mode_q
  BY <1>3, <1>9, <1>10, <1>12, SteppedInFlush DEF halted
<1>14. arch' = t
  BY <1>2, <1>8, <1>11, <1>12, <1>13, ArchNext DEF Edge, Registered
<1>. QED
  BY <1>1, <1>5, <1>6, <1>14, SameProgram DEF Software!Step

\* FLUSH returns from debug mode.
LEMMA DretEdge ==
  ASSUME NEW in, Edge(in), In("FLUSH"), flushes("dret")
  PROVE  Software!Step
<1>1. PICK s : s = arch
  OBVIOUS
<1>2. Registered(s) /\ s.pc = arch_pc /\ (s.halting <=> halted)
  BY <1>1, ArchFields DEF Edge
<1>3. /\ ~takes_exception /\ ~ebreak_to_dbg /\ id_valid /\ id_op = "dret" /\ ~flushes("mret")
      /\ ~mem_err_q /\ ~exc_req_q /\ id_pending
  BY DEF flushes, ebreak_to_dbg, takes_exception, Holds, id_pending
<1>4. debug_mode_q
  BY <1>3 DEF Edge, PreciseInv, Flushing, asks, illegal_insn
<1>5. s.pc = pc_id /\ ~s.halting
  BY <1>2, <1>3, FlushEdge DEF arch_pc, unfinished, halted
<1>6. PICK t : t = Software!Execute(s)
  OBVIOUS
<1>7. t = Software!Dret(s)
  BY <1>2, <1>3, <1>4, <1>5, <1>6, ExecuteDret DEF Registered, id_op
<1>8. /\ t \in State
      /\ t.pc = s.dpc /\ t.priv = s.dprv /\ (t.mie <=> s.mie) /\ (t.mpie <=> s.mpie)
      /\ t.mpp = s.mpp /\ t.mepc = s.mepc /\ t.mcause = s.mcause /\ t.mstack = s.mstack
      /\ (t.sync_exc_seen <=> s.sync_exc_seen)
      /\ (t.double_fault_seen <=> s.double_fault_seen)
      /\ (t.nmi <=> s.nmi) /\ ~t.debug /\ (t.step <=> s.step)
      /\ (t.halting <=> s.halting) /\ t.dpc = s.dpc /\ t.dprv = s.dprv
  BY <1>2, <1>7, DretFields DEF Registered
<1>9. RestoreDret /\ (nmi_mode_q' <=> nmi_mode_q) /\ ~debug_mode_q'
  BY <1>3 DEF Edge, Cycle, Registers, Controller, In
<1>10. Registered(t)'
  BY <1>2, <1>8, <1>9 DEF Registered, RestoreDret
<1>11. arch_pc' = depc_q /\ ~unfinished'
  <2>1. exception_target(in) = depc_q
    BY <1>3 DEF exception_target, In
  <2>2. depc_q # -1
    BY DEF Edge, TypeOK, CsrTypeOK, Pc
  <2>. QED
    BY <1>3, <2>1, <2>2, FlushEdge
<1>12. ~halted'
  BY <1>3, <1>4 DEF halted, Edge, Cycle, Controller, do_single_step_d
<1>13. arch' = t
  BY <1>2, <1>5, <1>8, <1>10, <1>11, <1>12, ArchNext DEF Edge, Registered
<1>. QED
  BY <1>1, <1>5, <1>6, <1>13, SameProgram DEF Software!Step

-----------------------------------------------------------------------------
(* DECODE *)

\* What software sees in DECODE: the instruction in writeback if it waits, then ID, then IF.
LEMMA DecodeNow ==
  ASSUME NEW in, Edge(in), In("DECODE")
  PROVE  /\ ~mem_err_q
         /\ arch_pc = IF wb_waits THEN pc_wb ELSE IF id_valid THEN pc_id ELSE pc_if
         /\ unfinished <=> (wb_waits \/ id_valid)
<1>1. ~mem_err_q
  BY DEF Edge, Inv, ErrorSeen, In
<1>. QED
  BY <1>1 DEF arch_pc, unfinished, id_pending, In

\* A load or a store fails: nothing changes but that FLUSH comes for it.
LEMMA ErrorEdge ==
  ASSUME NEW in, Edge(in), In("DECODE"), mem_err(in)
  PROVE  arch' = arch
<1>1. wb_waits /\ ~instr_done(in) /\ mem_err_q'
  BY PossibleInputs, DoneNow DEF Edge, mem_err, Cycle, Controller
<1>2. pc_wb' = pc_wb
  BY <1>1 DEF Edge, Cycle, Writeback
<1>3. Hold /\ (debug_mode_q' <=> debug_mode_q) /\ (nmi_mode_q' <=> nmi_mode_q)
  BY <1>1, RegistersInDecode DEF Edge, csr_op_en
<1>. QED
  BY <1>1, <1>2, <1>3, Stutters DEF Edge, arch_pc, halted, unfinished

\* While a load or a store waits nothing behind it is done.
LEMMA WaitEdge ==
  ASSUME NEW in, Edge(in), In("DECODE"), outstanding(in)
  PROVE  arch' = arch
<1>1. wb_waits /\ ~instr_done(in)
  BY DoneNow DEF outstanding
<1>2. pc_wb' = pc_wb /\ wb_waits'
  BY <1>1 DEF Edge, Cycle, Writeback, wb_waits, wb_op
<1>3. Hold /\ (debug_mode_q' <=> debug_mode_q) /\ (nmi_mode_q' <=> nmi_mode_q)
  BY <1>1, RegistersInDecode DEF Edge, csr_op_en
<1>. QED
  BY <1>1, <1>2, <1>3, Stutters DEF Edge, arch_pc, halted, unfinished

\* s is what software sees once writeback is done with the instruction it holds.
Completed(s) ==
  /\ s = IF wb_waits THEN Software!Execute(arch) ELSE arch
  /\ Registered(s) /\ s.pc = IF id_valid THEN pc_id ELSE pc_if
  /\ (s.halting <=> dcsr_q.step /\ ~debug_mode_q /\ do_single_step_q /\ ~id_valid)
  /\ wb_waits => ~Software!Halting(arch) /\ Software!Op1(arch) \in Software!MemOps \ Software!Faulty

\* It is Registered and stands where ID, or IF, does.
LEMMA Completes ==
  ASSUME NEW in, Edge(in), In("DECODE"), ~mem_err(in), ~outstanding(in),
         NEW s, s = IF wb_waits THEN Software!Execute(arch) ELSE arch
  PROVE  Completed(s)
<1>1. PICK a : a = arch
  OBVIOUS
<1>2. Registered(a) /\ a.pc = arch_pc /\ (a.halting <=> halted)
  BY <1>1, ArchFields DEF Edge
<1>3. CASE wb_waits
  <2>1. wb_op \in MemOps \ Faulty /\ a.pc = pc_wb /\ ~a.halting
    BY <1>2, <1>3, DecodeNow DEF halted, wb_waits, outstanding, mem_err
  <2>2. prog[a.pc].op \in MemOps \ Faulty
    BY <2>1 DEF wb_op
  <2>3. prog[a.pc].op \in {"load", "store"}
    BY <2>2 DEF MemOps, Loads, Stores, Faulty
  <2>4. s = Software!Retire(a, NextPc(a.pc))
    BY <1>1, <1>3, <2>3, ExecuteStraight
  <2>5. NextPc(a.pc) \in Pc
    BY <2>1, NextPcType DEF Edge, TypeOK
  <2>6. Registered(s) /\ s.pc = NextPc(a.pc) /\ (s.halting <=> dcsr_q.step /\ ~debug_mode_q)
    BY <1>2, <2>4, <2>5, RetireRegistered
  <2>7. s.pc = IF id_valid THEN pc_id ELSE pc_if
    BY <1>3, <2>1, <2>6 DEF Edge, PreciseInv, InOrder
  <2>8. dcsr_q.step /\ ~debug_mode_q => do_single_step_q /\ ~id_valid
    BY <1>3 DEF Edge, PreciseInv, Stepping
  <2>9. ~Software!Halting(a) /\ Software!Op1(a) \in Software!MemOps \ Software!Faulty
    BY <2>1, <2>2, SameProgram
  <2>. QED
    BY <1>1, <1>3, <2>6, <2>7, <2>8, <2>9 DEF Completed
<1>4. CASE ~wb_waits
  <2>1. s = a
    BY <1>1, <1>4
  <2>. QED
    BY <1>2, <1>4, <2>1, DecodeNow DEF Completed, halted
<1>. QED
  BY <1>3, <1>4

\* When nothing else is done, that is one instruction or none.
LEMMA OneStep ==
  ASSUME NEW s, Completed(s), arch' = s
  PROVE  Software!Step \/ arch' = arch
BY DEF Completed, Software!Step

\* When ID is done in the same cycle, that is one instruction or two.
LEMMA OneOrTwoSteps ==
  ASSUME NEW s, Completed(s), ~s.halting, arch' = Software!Execute(s)
  PROVE  Software!Step \/ Software!TwoSteps
<1>1. ~Software!Halting(s)
  BY SameProgram
<1>. QED
  BY <1>1 DEF Completed, Software!Step, Software!TwoSteps

-----------------------------------------------------------------------------
\* What DECODE leaves pending when no load or store holds it up.
LEMMA PendsNext ==
  ASSUME NEW in, Edge(in), In("DECODE"), ~mem_err(in), ~outstanding(in)
  PROVE  /\ ~mem_err_q'
         /\ wb_waits' <=> (instr_done(in) /\ id_op \in MemOps)
         /\ In("FLUSH")' <=> special_req(in)
         /\ id_pending' <=> IF special_req(in)
                            THEN exc_req_d \/ Holds("mret") \/ Holds("dret") ELSE id_valid'
<1>1. ~mem_err_q' /\ exc_req_q' = exc_req_d /\ ctrl_fsm_cs' = AfterDecode(in)
  BY DEF Edge, Cycle, Controller, ctrl_fsm_ns, In
<1>2. wb_waits' <=> (instr_done(in) /\ id_op \in MemOps)
  BY DEF Edge, Cycle, Writeback, wb_waits, wb_op, id_op, ready_wb
<1>3. (In("FLUSH")' <=> special_req(in)) /\ ~In("DBG_TAKEN_ID")'
  BY <1>1 DEF AfterDecode, taken, In, ready_wb
<1>4. special_req(in) => id_op' = id_op /\ (id_valid' <=> id_valid)
  BY <1>3, FromDecode DEF Edge
<1>. QED
  BY <1>1, <1>2, <1>3, <1>4 DEF id_pending, Holds

\* ID is empty.
LEMMA BubbleEdge ==
  ASSUME TargetsKnown, NEW in, Edge(in), In("DECODE"), ~mem_err(in), ~outstanding(in), ~id_valid
  PROVE  Software!Step \/ arch' = arch
<1>1. PICK s : s = IF wb_waits THEN Software!Execute(arch) ELSE arch
  OBVIOUS
<1>2. Completed(s)
  BY <1>1, Completes
<1>3. ~instr_done(in) /\ ~special_req(in)
  BY DoneNow DEF special_req, special_req_pc_change, Holds, exc_req_d, illegal_insn, fetch_err,
                 csr_pipe_flush, csr_op_en
<1>4. Hold /\ (debug_mode_q' <=> debug_mode_q) /\ (nmi_mode_q' <=> nmi_mode_q)
  BY <1>3, RegistersInDecode DEF Edge, csr_op_en
<1>5. /\ pc_if' = IF in.accept THEN NextPc(pc_if) ELSE pc_if
      /\ pc_id' = IF in.accept THEN pc_if ELSE pc_id
      /\ id_valid' <=> in.accept
      /\ do_single_step_q' <=> do_single_step_q
  <2>1. ~redirects
    BY RedirectsTo DEF Edge, PreciseInv
  <2>2. ~pc_set(in) /\ pc_if' = IF in.accept THEN NextPc(pc_if) ELSE pc_if
    BY <2>1, FetchInDecode DEF Edge, PreciseInv
  <2>. QED
    BY <2>2 DEF Edge, Cycle, Decode, Controller, do_single_step_d
<1>6. arch_pc' = pc_if /\ (unfinished' <=> in.accept)
  BY <1>3, <1>5, PendsNext DEF arch_pc, unfinished
<1>7. dcsr_q.step /\ ~debug_mode_q /\ do_single_step_q => ~in.accept
  <2>. SUFFICES ASSUME dcsr_q.step, ~debug_mode_q, do_single_step_q PROVE ~in.accept
    OBVIOUS
  <2>1. requested(in)
    BY DEF requested, enter_debug_mode, enter_debug_mode_prio, do_single_step_d
  <2>. QED
    BY <1>3, <2>1, NothingAccepted DEF Edge
<1>8. halted' <=> s.halting
  <2>1. dcsr_q' = dcsr_q
    BY <1>4 DEF Hold, csrVars
  <2>. QED
    BY <1>2, <1>4, <1>5, <1>6, <1>7, <2>1 DEF halted, Completed
<1>9. arch' = s
  BY <1>2, <1>4, <1>6, <1>8, HoldRegistered, ArchNext DEF Edge, Completed
<1>. QED
  BY <1>2, <1>9, OneStep

\* wfi is done in the cycle in which it asks for FLUSH.
LEMMA WfiDone ==
  ASSUME Inv, NEW in \in Possible, In("DECODE"), Holds("wfi"),
         ~mem_err(in), ~outstanding(in), ~exc_req_d
  PROVE  instr_done(in)
<1>1. id_valid /\ id_op = "wfi" /\ ~fetch_err /\ ~mem_err_q
  BY DEF Holds, fetch_err, Inv, ErrorSeen, In
<1>2. instr_executing(in)
  BY <1>1 DEF instr_executing, instr_kill, wb_exception, id_exception, controller_run,
              stall_ld_hz
<1>3. ~stall_id(in)
  BY <1>1 DEF stall_id, stall_ld_hz, stall_mem, stall_ex, NeedsMore, MemOps, Loads, Stores, MultDiv,
              Transfers
<1>. QED
  BY <1>2, <1>3 DEF instr_done, flush_id, In

\* ID keeps its instruction: it is not done, it moves to writeback, or it waits for
\* FLUSH.
Remains(in) == ~instr_done(in) \/ id_op \in MemOps \cup {"mret", "dret"}

\* Then software sees at most what writeback is done with.
LEMMA KeepsEdge ==
  ASSUME NEW in, Edge(in), In("DECODE"), ~mem_err(in), ~outstanding(in), id_valid,
         Remains(in)
  PROVE  Software!Step \/ arch' = arch
<1>1. PICK s : s = IF wb_waits THEN Software!Execute(arch) ELSE arch
  OBVIOUS
<1>2. Completed(s)
  BY <1>1, Completes
<1>3. ~csr_op_en(in)
  BY DEF Remains, csr_op_en, CsrOps, MemOps, Loads, Stores
<1>4. Hold /\ (debug_mode_q' <=> debug_mode_q) /\ (nmi_mode_q' <=> nmi_mode_q)
  BY <1>3, RegistersInDecode DEF Edge
<1>5. arch_pc' = pc_id /\ unfinished'
  <2>1. CASE instr_done(in) /\ id_op \in MemOps
    <3>1. pc_wb' = pc_id
      BY <2>1 DEF Edge, Cycle, Writeback
    <3>. QED
      BY <2>1, <3>1, PendsNext DEF arch_pc, unfinished
  <2>2. CASE ~(instr_done(in) /\ id_op \in MemOps) /\ special_req(in)
    <3>1. exc_req_d \/ Holds("mret") \/ Holds("dret")
      <4>1. CASE instr_done(in)
        BY <2>2, <4>1 DEF Remains, Holds
      <4>2. CASE ~instr_done(in)
        <5>1. ~csr_pipe_flush(in)
          BY <4>2 DEF csr_pipe_flush, csr_op_en
        <5>2. Holds("wfi") => exc_req_d
          BY <4>2, WfiDone DEF Edge
        <5>. QED
          BY <2>2, <5>1, <5>2 DEF special_req, special_req_pc_change
      <4>. QED
        BY <4>1, <4>2
    <3>2. id_pending' /\ ~wb_waits' /\ ~mem_err_q' /\ pc_id' = pc_id
      BY <2>2, <3>1, PendsNext, FromDecode DEF Edge
    <3>. QED
      BY <3>2 DEF arch_pc, unfinished
  <2>3. CASE ~(instr_done(in) /\ id_op \in MemOps) /\ ~special_req(in)
    <3>1. ~instr_done(in)
      BY <2>3 DEF Remains, special_req, special_req_pc_change, Holds
    <3>2. stall(in)
      BY <2>3, <3>1, LeavesDone DEF Edge
    <3>3. id_pending' /\ ~wb_waits' /\ ~mem_err_q' /\ pc_id' = pc_id
      BY <2>3, <3>2, PendsNext, StallKeeps DEF Edge
    <3>. QED
      BY <3>3 DEF arch_pc, unfinished
  <2>. QED
    BY <2>1, <2>2, <2>3
<1>6. arch' = s
  BY <1>2, <1>4, <1>5, HoldRegistered, ArchNext DEF Edge, Completed, halted
<1>. QED
  BY <1>2, <1>6, OneStep

-----------------------------------------------------------------------------
\* A transfer that is done has redirected fetching, or does so now, unless it is a
\* branch that is not taken.
LEMMA TransferDone ==
  ASSUME TargetsKnown, NEW in, Edge(in), instr_done(in), id_op \in Transfers, ~redirects
  PROVE  branch_jump_set_done_q \/ prog[pc_id].to = NextPc(pc_id)
<1>1. In("DECODE") /\ id_valid /\ instr_executing(in) /\ ~stall_id(in) /\ instr_executing_spec
  BY DoneNow DEF instr_executing, instr_kill, controller_run, instr_executing_spec
<1>2. SUFFICES ASSUME ~branch_jump_set_done_q PROVE prog[pc_id].to = NextPc(pc_id)
  OBVIOUS
<1>3. ~branch_set_raw /\ ~jump_set_raw
  BY <1>1, <1>2 DEF redirects, branch_set, jump_set
<1>4. id_fsm_q = "FIRST_CYCLE"
  <2>. SUFFICES ASSUME id_fsm_q = "MULTI_CYCLE" PROVE FALSE
    BY DEF Edge, TypeOK
  <2>1. data_ind_timing /\ branch_set_raw_q
    BY <1>2 DEF Edge, PreciseInv, Redirecting
  <2>. QED
    BY <1>3, <2>1 DEF branch_set_raw
<1>5. FirstCycle
  BY <1>1, <1>4 DEF FirstCycle
<1>6. id_op = "branch"
  BY <1>3, <1>5 DEF jump_set_raw, Transfers
<1>7. BranchTargetALU
  BY <1>6, BranchKnown DEF Edge
<1>8. ~NeedsMore(in)
  BY <1>1, <1>5, <1>6 DEF stall_id, stall_ex, MemOps, Loads, Stores
<1>9. ~data_ind_timing
  BY <1>6, <1>8 DEF NeedsMore, branch_takes_two
<1>10. ~branch_decision
  BY <1>3, <1>5, <1>6, <1>7, <1>9 DEF branch_set_raw, branch_set_raw_d
<1>. QED
  BY <1>6, <1>10 DEF branch_decision

\* What a done instruction leaves: fetching goes on at its successor, which ID may
\* take unless a request or a single step comes first.
Successor == IF id_op \in Transfers THEN prog[pc_id].to ELSE NextPc(pc_id)

LEMMA MovesOn ==
  ASSUME TargetsKnown, NEW in, Edge(in), In("DECODE"), instr_done(in),
         id_op \notin MemOps \cup {"mret", "dret"}
  PROVE  arch_pc' = Successor /\ (dcsr_q.step /\ ~debug_mode_q => ~unfinished')
<1>1. id_valid /\ ~outstanding(in) /\ ~mem_err(in) /\ ~exc_req_d /\ ~stall(in)
  BY DoneNow
<1>2. ~Holds("mret") /\ ~Holds("dret")
  BY DEF Holds
<1>3. /\ redirects => pc_if' = prog[pc_id].to /\ id_op \in Transfers
      /\ ~redirects => pc_if' = IF in.accept THEN NextPc(pc_if) ELSE pc_if
      /\ pc_set(in) <=> redirects
  BY FetchInDecode, RedirectsTo DEF Edge, PreciseInv
<1>4. ~redirects => pc_if = Successor
  <2>. SUFFICES ASSUME ~redirects PROVE pc_if = Successor
    OBVIOUS
  <2>1. pc_if = IF id_op \in Transfers /\ branch_jump_set_done_q THEN prog[pc_id].to
                ELSE NextPc(pc_id)
    BY <1>1 DEF Edge, PreciseInv, InOrder
  <2>. QED
    BY <2>1, TransferDone DEF Successor
<1>5. CASE special_req(in)
  <2>1. ~id_pending' /\ ~wb_waits' /\ ~mem_err_q'
    BY <1>1, <1>2, <1>5, PendsNext
  <2>2. arch_pc' = pc_if' /\ ~unfinished'
    BY <2>1 DEF arch_pc, unfinished
  <2>3. ~in.accept
    BY <1>5, AcceptsClear DEF Edge, retain_id
  <2>. QED
    BY <1>3, <1>4, <2>2, <2>3 DEF Successor
<1>6. CASE ~special_req(in)
  <2>1. instr_valid_clear(in)
    BY <1>1, <1>6 DEF instr_valid_clear, retain_id
  <2>2. /\ id_valid' <=> (in.accept /\ ~redirects)
        /\ pc_id' = IF in.accept THEN pc_if ELSE pc_id
    BY <1>3, <2>1 DEF Edge, Cycle, Decode
  <2>3. /\ unfinished' <=> (in.accept /\ ~redirects)
        /\ arch_pc' = IF in.accept /\ ~redirects THEN pc_if ELSE pc_if'
    BY <1>1, <1>6, <2>2, PendsNext DEF arch_pc, unfinished
  <2>4. dcsr_q.step /\ ~debug_mode_q => ~in.accept
    <3>. SUFFICES ASSUME dcsr_q.step, ~debug_mode_q PROVE ~in.accept
      OBVIOUS
    <3>1. requested(in)
      BY <1>1 DEF requested, enter_debug_mode, enter_debug_mode_prio, do_single_step_d
    <3>. QED
      BY <1>6, <3>1, NothingAccepted DEF Edge
  <2>. QED
    BY <1>3, <1>4, <2>3, <2>4 DEF Successor
<1>. QED
  BY <1>5, <1>6

\* Its effect on the registers.
LEMMA RegistersDone ==
  ASSUME NEW in, Edge(in), In("DECODE"), instr_done(in), id_op \notin MemOps \cup {"mret", "dret"},
         NEW s, Registered(s), s.pc = pc_id, NEW t, t = Software!Execute(s)
  PROVE  /\ Registered(t)' /\ t.pc = Successor
         /\ (t.halting <=> dcsr_q.step /\ ~debug_mode_q)
         /\ ~debug_mode_q => (dcsr_q'.step <=> dcsr_q.step)
         /\ (debug_mode_q' <=> debug_mode_q)
<1>1. id_valid /\ ~exc_req_d /\ ~illegal_insn /\ ready_wb(in)
  BY DoneNow
<1>2. id_op \in Op /\ NextPc(pc_id) \in Pc /\ prog[pc_id].to \in Pc
  BY InstrType, NextPcType DEF Edge, TypeOK, id_op, Instr
<1>3. (debug_mode_q' <=> debug_mode_q) /\ (nmi_mode_q' <=> nmi_mode_q)
  BY RegistersInDecode DEF Edge
<1>4. Successor \in Pc
  BY <1>2 DEF Successor
<1>5. CASE id_op \in CsrOps
  <2>1. id_op \in {"sti", "cli", "step"}
    BY <1>5 DEF CsrOps
  <2>2. WriteCsr(id_op)
    BY <1>1, <1>5, RegistersInDecode DEF Edge, csr_op_en
  <2>3. (id_op = "step" => debug_mode_q) /\ (id_op # "step" => priv_lvl_q = "M")
    BY <1>1, <2>1 DEF illegal_insn
  <2>4. PICK r : r = Software!Retire(s, NextPc(pc_id))
    OBVIOUS
  <2>5. Registered(r) /\ r.pc = NextPc(pc_id) /\ (r.halting <=> dcsr_q.step /\ ~debug_mode_q)
    BY <1>2, <2>4, RetireRegistered
  <2>6. prog[s.pc].op = id_op /\ (id_op = "step" => s.debug) /\ (id_op # "step" => s.priv = "M")
    BY <2>3 DEF Registered, id_op
  <2>7. t = IF id_op = "sti" THEN [r EXCEPT !.mie = TRUE]
            ELSE IF id_op = "cli" THEN [r EXCEPT !.mie = FALSE]
            ELSE [r EXCEPT !.step = TRUE]
    BY <1>5, <2>4, <2>6, ExecuteCsr
  <2>8. /\ t \in State
        /\ t.pc = r.pc /\ t.priv = r.priv /\ t.mpp = r.mpp /\ (t.mpie <=> r.mpie)
        /\ (t.mie <=> IF id_op = "step" THEN r.mie ELSE id_op = "sti")
        /\ t.mepc = r.mepc /\ t.mcause = r.mcause /\ t.mstack = r.mstack
        /\ (t.sync_exc_seen <=> r.sync_exc_seen)
        /\ (t.double_fault_seen <=> r.double_fault_seen)
        /\ (t.nmi <=> r.nmi) /\ (t.debug <=> r.debug)
        /\ (t.step <=> (id_op = "step" \/ r.step))
        /\ (t.halting <=> r.halting) /\ t.dpc = r.dpc /\ t.dprv = r.dprv
    BY <1>5, <2>5, <2>7, CsrFields, ZenonT(40) DEF Registered
  <2>9. /\ (mstatus_q'.mie <=> IF id_op = "step" THEN mstatus_q.mie ELSE id_op = "sti")
        /\ (mstatus_q'.mpie <=> mstatus_q.mpie) /\ mstatus_q'.mpp = mstatus_q.mpp
        /\ (dcsr_q'.step <=> (id_op = "step" \/ dcsr_q.step)) /\ dcsr_q'.prv = dcsr_q.prv
        /\ UNCHANGED <<priv_lvl_q, mepc_q, mcause_q, mstack_q, depc_q, cpuctrlsts_q>>
    <3>1. CASE id_op = "step"
      BY <2>2, <3>1 DEF WriteCsr, Dcsr
    <3>2. CASE id_op # "step"
      BY <2>2, <3>2 DEF WriteCsr, Mstatus
    <3>. QED
      BY <3>1, <3>2
  <2>10. Registered(t)'
    BY <1>3, <2>5, <2>8, <2>9 DEF Registered
  <2>. QED
    BY <1>3, <1>5, <2>3, <2>5, <2>8, <2>9, <2>10 DEF Successor, CsrOps, Transfers
<1>6. CASE id_op \notin CsrOps
  <2>1. Hold
    BY <1>6, RegistersInDecode DEF Edge, csr_op_en
  <2>2. t = Software!Retire(s, Successor)
    <3>1. CASE id_op \in Transfers
      BY <3>1, ExecuteTransfer DEF Successor, id_op
    <3>2. CASE id_op \notin Transfers
      <4>1. id_op \notin {"ecall", "ebreak", "illegal", "ferr"}
        BY <1>1 DEF exc_req_d, Holds, fetch_err, illegal_insn, In
      <4>2. id_op \in {"mul", "alu", "bit", "use", "wfi"}
        BY <1>2, <1>6, <3>2, <4>1 DEF Op, MultDiv, Simple, Traps
      <4>. QED
        BY <3>2, <4>2, ExecuteStraight DEF Successor, id_op
    <3>. QED
      BY <3>1, <3>2
  <2>3. Registered(t) /\ t.pc = Successor /\ (t.halting <=> dcsr_q.step /\ ~debug_mode_q)
    BY <1>4, <2>2, RetireRegistered
  <2>. QED
    BY <1>3, <2>1, <2>3, HoldRegistered DEF Hold, csrVars
<1>. QED
  BY <1>5, <1>6

\* The instruction in ID is executed, and with it the one in writeback that is done.
LEMMA DoneEdge ==
  ASSUME TargetsKnown, NEW in, Edge(in), In("DECODE"), instr_done(in),
         id_op \notin MemOps \cup {"mret", "dret"}
  PROVE  Software!Step \/ Software!TwoSteps
<1>1. id_valid /\ ~outstanding(in) /\ ~mem_err(in)
  BY DoneNow
<1>2. PICK s : s = IF wb_waits THEN Software!Execute(arch) ELSE arch
  OBVIOUS
<1>3. Completed(s) /\ Registered(s) /\ s.pc = pc_id /\ ~s.halting
  BY <1>1, <1>2, Completes DEF Completed
<1>4. PICK t : t = Software!Execute(s)
  OBVIOUS
<1>5. /\ Registered(t)' /\ t.pc = Successor
      /\ (t.halting <=> dcsr_q.step /\ ~debug_mode_q)
      /\ ~debug_mode_q => (dcsr_q'.step <=> dcsr_q.step)
      /\ (debug_mode_q' <=> debug_mode_q)
  BY <1>3, <1>4, RegistersDone
<1>6. arch_pc' = Successor /\ (dcsr_q.step /\ ~debug_mode_q => ~unfinished')
  BY MovesOn
<1>7. do_single_step_q' <=> dcsr_q.step /\ ~debug_mode_q
  BY <1>1 DEF Edge, Cycle, Controller, do_single_step_d
<1>8. t.halting <=> halted'
  BY <1>5, <1>6, <1>7 DEF halted
<1>9. arch' = t
  BY <1>5, <1>6, <1>8, ArchNext DEF Edge
<1>. QED
  BY <1>3, <1>4, <1>9, OneOrTwoSteps

-----------------------------------------------------------------------------
(* Every clock edge is a step of Hart or none *)

\* One case for each state of the controller, and in DECODE for what ID does.
LEMMA StepsPrecise ==
  ASSUME TargetsKnown, NEW in, Edge(in)
  PROVE  \/ Software!Step \/ Software!TwoSteps \/ Software!Interrupt \/ Software!NonMaskable
         \/ Software!Debug
         \/ arch' = arch
<1>1. CASE In("DECODE")
  <2>1. CASE mem_err(in) \/ outstanding(in)
    BY <1>1, <2>1, ErrorEdge, WaitEdge
  <2>2. CASE ~mem_err(in) /\ ~outstanding(in) /\ ~id_valid
    BY <1>1, <2>2, BubbleEdge
  <2>3. CASE ~mem_err(in) /\ ~outstanding(in) /\ id_valid
    <3>1. CASE Remains(in)
      BY <1>1, <2>3, <3>1, KeepsEdge
    <3>2. CASE ~Remains(in)
      BY <1>1, <2>3, <3>2, DoneEdge DEF Remains
    <3>. QED
      BY <3>1, <3>2
  <2>. QED
    BY <2>1, <2>2, <2>3
<1>2. CASE In("FLUSH")
  <2>1. CASE takes_exception /\ ~ebreak_to_dbg
    BY <1>2, <2>1, ExceptionEdge
  <2>2. CASE flushes("mret")
    BY <1>2, <2>2, MretEdge
  <2>3. CASE flushes("dret")
    BY <1>2, <2>3, DretEdge
  <2>4. CASE ebreak_to_dbg \/ (~takes_exception /\ ~flushes("mret") /\ ~flushes("dret"))
    BY <1>2, <2>4, FlushStutters
  <2>. QED
    BY <2>1, <2>2, <2>3, <2>4
<1>3. CASE ctrl_fsm_cs \in EmptyStates
  <2>1. CASE In("IRQ_TAKEN") /\ handle_irq(in)
    BY <2>1, InterruptEdge
  <2>2. CASE In("DBG_TAKEN_IF") \/ In("DBG_TAKEN_ID")
    BY <2>2, DebugEdge, EbreakEdge
  <2>3. CASE /\ ~(In("IRQ_TAKEN") /\ handle_irq(in))
             /\ ~In("DBG_TAKEN_IF") /\ ~In("DBG_TAKEN_ID")
    BY <1>3, <2>3, IdleEdge DEF In
  <2>. QED
    BY <2>1, <2>2, <2>3
<1>. QED
  BY <1>1, <1>2, <1>3 DEF Edge, Inv, EmptyStates, In

\* Out of reset software sees the state that Hart starts in.
LEMMA InitPrecise == Init => Software!Init
<1>. SUFFICES ASSUME Init PROVE Software!Init
  OBVIOUS
<1>1. /\ prog \in Progs /\ ~nmi_mode_q /\ ~debug_mode_q /\ ~do_single_step_q /\ ~mem_err_q
      /\ nmi_mode_q = FALSE /\ debug_mode_q = FALSE
      /\ pc_if = Boot /\ ~id_valid /\ ~wb_valid /\ In("RESET")
      /\ priv_lvl_q = "M" /\ mstatus_q = Mstatus(FALSE, TRUE, "U")
      /\ mepc_q = 0 /\ mcause_q = "none" /\ mstack_q = Mstack(TRUE, "U", 0, "none")
      /\ depc_q = 0 /\ dcsr_q = Dcsr("M", FALSE, "none") /\ cpuctrlsts_q = Cpuctrl(FALSE, FALSE)
  BY DEF Init, CsrInit, In
<1>2. arch_pc = Boot
  BY <1>1 DEF arch_pc, wb_waits, id_pending, In
<1>3. arch = Software!Start
  BY <1>1, <1>2 DEF arch, Software!Start, Mstatus, Mstack, Dcsr, Cpuctrl
<1>. QED
  BY <1>1, <1>3 DEF Software!Init

\* No step of the pipeline is anything but a step of Hart or a stutter.
LEMMA NextPrecise ==
  ASSUME TargetsKnown
  PROVE  Inv /\ TypeOK /\ PreciseInv /\ [Next]_vars => [Software!Next]_(Software!vars)
<1>1. ASSUME Inv, TypeOK, PreciseInv, NEW in \in Possible, Cycle(in)
      PROVE  [Software!Next]_(Software!vars)
  <2>1. TypeOK'
    BY <1>1, NextType DEF Next
  <2>2. prog' = prog
    BY <1>1 DEF Cycle
  <2>. QED
    BY <1>1, <2>1, <2>2, StepsPrecise DEF Edge, Software!Next, Software!vars
<1>2. ASSUME UNCHANGED vars PROVE UNCHANGED Software!vars
  BY <1>2 DEF vars, ctrlVars, idVars, csrVars, Software!vars, arch, arch_pc, unfinished, id_pending,
              wb_waits, wb_op, id_op, Holds, In
<1>. QED
  BY <1>1, <1>2 DEF Next

\* The stages hold instructions in program order, and what the controller has
\* registered for them is about them, in every state the pipeline can reach.
THEOREM StagesInOrder == ASSUME TargetsKnown PROVE Spec => []PreciseInv
<1>1. Init => PreciseInv
  BY InitPreciseInv
<1>2. Inv /\ TypeOK /\ PreciseInv /\ [Next]_vars => PreciseInv'
  BY NextPreciseInv
<1>. QED
  BY <1>1, <1>2, Invariance, TypeCorrect, PTL DEF Spec

\* Exceptions are precise: the pipeline implements a machine that executes one
\* instruction at a time, whatever the latencies and the requests are.
THEOREM ImplementsHart == ASSUME TargetsKnown PROVE Spec => Precise
<1>1. Init => Software!Init
  BY InitPrecise
<1>2. Inv /\ TypeOK /\ PreciseInv /\ [Next]_vars => [Software!Next]_(Software!vars)
  BY NextPrecise
<1>3. Spec => []PreciseInv
  BY StagesInOrder
<1>. QED
  BY <1>1, <1>2, <1>3, Invariance, TypeCorrect, PTL DEF Spec, Precise, Software!Spec
=============================================================================
