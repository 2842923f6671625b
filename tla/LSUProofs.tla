----------------------------- MODULE LSUProofs -----------------------------
(***************************************************************************)
(* Proofs about the load-store unit, for every memory, every set of        *)
(* accesses and every address space: its invariants, and that it           *)
(* implements DataAccess, in that an access completes as a whole however   *)
(* many transfers it took and whichever of them failed.                    *)
(***************************************************************************)
EXTENDS LSU, SequenceTheorems, TLAPS

-----------------------------------------------------------------------------
(* The inductive invariant *)

\* Outside IDLE the unit serves the access in ID, and writeback waits for none.
Serves == ~Idle => id # NoAccess /\ wb = NoAccess

\* The second half is what WAIT_RVALID_MIS, and WAIT_GNT after it, ask for.
SecondHalf == /\ handle_misaligned_q => ls_fsm_cs \in {"WAIT_RVALID_MIS", "WAIT_GNT"}
              /\ ls_fsm_cs = "WAIT_RVALID_MIS" => handle_misaligned_q

\* While a grant is awaited, pmp_err_q tells whether the request was driven at all.
KnowsDenial == ls_fsm_cs \in {"WAIT_GNT", "WAIT_GNT_MIS"} => (pmp_err_q <=> pmp_err)

Inv == /\ TypeOK /\ Serves /\ SecondHalf /\ KnowsDenial
       /\ InStep /\ OnlyPending /\ HoldsTransfer

-----------------------------------------------------------------------------
(* Addresses *)
LEMMA AddressTypes ==
  ASSUME NEW a \in Byte
  PROVE  /\ Plus(a, 4) \in Byte
         /\ WordOf(a) \in Word
         /\ Offset(a) \in 0..3
         /\ Aligned(a) \in Byte
         /\ \A lane \in 0..3 : Aligned(a) + lane \in Byte
<1>1. Words \in Nat \ {0} BY WordsAssumption
<1>2. Plus(a, 4) \in Byte BY <1>1, SMT DEF Plus, Byte
<1>3. /\ WordOf(a) \in Word /\ Offset(a) \in 0..3 /\ Aligned(a) \in Byte
      /\ \A lane \in 0..3 : Aligned(a) + lane \in Byte
  BY <1>1, SMT DEF WordOf, Offset, Aligned, Word, Byte
<1> QED BY <1>2, <1>3

LEMMA AccessTypes ==
  ASSUME TypeOK, id # NoAccess
  PROVE  id \in Accesses /\ id.addr \in Byte /\ id.size \in {1, 2, 4}
         /\ id.signed \in BOOLEAN /\ id.we \in BOOLEAN
  BY AccessesAssumption DEF TypeOK, Access

\* What the address phase drives when ID holds an access.
LEMMA DrivenTypes ==
  ASSUME TypeOK, id # NoAccess
  PROVE  /\ data_addr \in Byte
         /\ data_be \in SUBSET (0..3)
         /\ \A lane \in 0..3 : data_wdata(lane) \in 0..3
         /\ Transfer \in [word : Word, we : BOOLEAN, be : SUBSET (0..3)]
         /\ \A in : Stored(in) \subseteq Byte \X (0..3)
<1>1. id.addr \in Byte /\ id.we \in BOOLEAN BY AccessTypes
<1>2. data_addr \in Byte BY <1>1, AddressTypes DEF data_addr, TypeOK
<1>3. data_be \in SUBSET (0..3) BY DEF data_be
<1>4. \A lane \in 0..3 : data_wdata(lane) \in 0..3
  <2>1. Offset(data_addr) \in 0..3 BY <1>2, AddressTypes
  <2> QED BY <2>1, SMT DEF data_wdata
<1>5. Transfer \in [word : Word, we : BOOLEAN, be : SUBSET (0..3)]
  BY <1>1, <1>2, <1>3, AddressTypes DEF Transfer
<1>6. \A in : Stored(in) \subseteq Byte \X (0..3)
  <2>1. \A lane \in data_be :
           <<Aligned(data_addr) + lane, data_wdata(lane)>> \in Byte \X (0..3)
    BY <1>2, <1>3, <1>4, AddressTypes
  <2> QED BY <2>1 DEF Stored
<1> QED BY <1>2, <1>3, <1>4, <1>5, <1>6

-----------------------------------------------------------------------------
(* The bus: answers leave at the head, granted transfers enter at the end. *)
LEMMA Flights ==
  ASSUME TypeOK, NEW in \in Inputs, Drivable(in), Bus(in), Granted(in) => id # NoAccess
  PROVE  /\ flight' \in Seq(Word)
         /\ Len(flight') = Len(flight) - (IF in.rvalid THEN 1 ELSE 0)
                                       + (IF Granted(in) THEN 1 ELSE 0)
         /\ in.rvalid => Len(flight) > 0
         /\ in.rvalid => Head(flight) \in Word
<1>1. flight \in Seq(Word) BY DEF TypeOK
<1>2. in.rvalid => flight # <<>> BY DEF Drivable
<1> DEFINE left == IF in.rvalid THEN Tail(flight) ELSE flight
<1>3. /\ left \in Seq(Word)
      /\ Len(left) = Len(flight) - (IF in.rvalid THEN 1 ELSE 0)
      /\ in.rvalid => Len(flight) > 0 /\ Head(flight) \in Word
  BY <1>1, <1>2
<1>4. flight' = IF Granted(in) THEN Append(left, WordOf(data_addr)) ELSE left
  BY DEF Bus
<1>5. Granted(in) => WordOf(data_addr) \in Word
  BY DrivenTypes, AddressTypes
<1> HIDE DEF left
<1>6. CASE Granted(in) BY <1>6, <1>3, <1>4, <1>5
<1>7. CASE ~Granted(in) BY <1>7, <1>3, <1>4
<1> QED BY <1>3, <1>6, <1>7

-----------------------------------------------------------------------------
(* The state machine. Moves says where it goes, and that addr_last_q stays. *)
Moves(ns, mis, pmp) == /\ ls_fsm_cs' = ns
                       /\ handle_misaligned_q' <=> mis
                       /\ pmp_err_q' <=> pmp
Keeps == id' = id /\ mem' = mem /\ wb' = NoAccess

\* A request is made only when nothing is left to answer after this edge.
LEMMA RequestsInOrder ==
  ASSUME Inv, NEW in \in Inputs, Drivable(in), Idle, lsu_req(in)
  PROVE  /\ id # NoAccess /\ ~resp_err(in) /\ ~pmp_err_q /\ ~handle_misaligned_q
         /\ Len(flight) = (IF in.rvalid THEN 1 ELSE 0)
         /\ wb # NoAccess => lsu_resp_valid(in)
<1>1. flight \in Seq(Word) /\ pmp_err_q \in BOOLEAN BY DEF Inv, TypeOK
<1>2. id # NoAccess /\ (wb = NoAccess \/ (lsu_resp_valid(in) /\ ~resp_err(in)))
  BY DEF lsu_req
<1>3. ~handle_misaligned_q BY DEF Inv, SecondHalf, Idle
<1>4. CASE wb = NoAccess
  <2>1. flight = <<>> /\ ~pmp_err_q BY <1>4 DEF Inv, OnlyPending
  <2>2. ~in.rvalid BY <2>1 DEF Drivable
  <2>3. ~lsu_resp_valid(in) BY <2>1, <2>2 DEF lsu_resp_valid
  <2> QED BY <1>2, <1>3, <1>4, <2>1, <2>2, <2>3 DEF resp_err
<1>5. CASE wb # NoAccess
  <2>1. lsu_resp_valid(in) /\ ~resp_err(in) BY <1>2, <1>5
  <2>2. ~pmp_err_q BY <2>1 DEF resp_err, data_or_pmp_err
  <2>3. in.rvalid BY <2>1, <2>2 DEF lsu_resp_valid
  <2>4. Len(flight) = 1 BY <1>5, <2>2 DEF Inv, InStep
  <2> QED BY <1>2, <1>3, <2>1, <2>2, <2>3, <2>4
<1> QED BY <1>4, <1>5

LEMMA IdleMoves ==
  ASSUME Inv, NEW in \in Inputs, Cycle(in), Idle
  PROVE  /\ ~lsu_req(in) => /\ Moves("IDLE", FALSE, FALSE)
                            /\ wb' = IF lsu_resp_valid(in) THEN NoAccess ELSE wb
         /\ lsu_req(in) /\ in.gnt /\ ~split_misaligned_access =>
              Moves("IDLE", FALSE, pmp_err) /\ wb' = id
         /\ lsu_req(in) /\ in.gnt /\ split_misaligned_access =>
              Moves("WAIT_RVALID_MIS", TRUE, pmp_err) /\ Keeps
         /\ lsu_req(in) /\ ~in.gnt =>
              /\ Moves(IF split_misaligned_access THEN "WAIT_GNT_MIS" ELSE "WAIT_GNT",
                       FALSE, pmp_err)
              /\ Keeps
<1>1. S(in) = StartAccess(in) BY DEF S
<1>2. ~handle_misaligned_q BY DEF Inv, SecondHalf, Idle
<1>3. /\ ls_fsm_cs' = S(in).ns /\ handle_misaligned_q' = S(in).mis
      /\ pmp_err_q' = S(in).pmp /\ mem' = mem
  BY DEF Cycle, Unit
<1>4. Drivable(in) /\ Pipeline(in) BY DEF Cycle
<1>5. CASE ~lsu_req(in)
  <2>1. S(in) = Go("IDLE", handle_misaligned_q, FALSE, lsu_err_q, {})
    BY <1>1, <1>5 DEF StartAccess
  <2>2. ~lsu_req_done(in) BY <1>5 DEF lsu_req_done
  <2> QED BY <1>2, <1>3, <1>4, <1>5, <2>1, <2>2 DEF Go, Moves, Pipeline
<1>6. CASE lsu_req(in)
  <2>1. id # NoAccess /\ ~resp_err(in) /\ (wb # NoAccess => lsu_resp_valid(in))
    BY <1>4, <1>6, RequestsInOrder
  <2>2. CASE in.gnt /\ ~split_misaligned_access
    <3>1. S(in) = Go("IDLE", split_misaligned_access, pmp_err, FALSE, {"ctrl", "addr"})
      BY <1>1, <1>6, <2>2 DEF StartAccess
    <3>2. lsu_req_done(in) BY <1>6, <3>1 DEF lsu_req_done, Go
    <3> QED BY <1>3, <1>4, <1>6, <2>2, <3>1, <3>2 DEF Go, Moves, Pipeline
  <2>3. CASE in.gnt /\ split_misaligned_access
    <3>1. S(in) = Go("WAIT_RVALID_MIS", TRUE, pmp_err, FALSE, {"ctrl", "addr"})
      BY <1>1, <1>6, <2>3 DEF StartAccess
    <3>2. ~lsu_req_done(in) BY <3>1 DEF lsu_req_done, Go
    <3> QED BY <1>3, <1>4, <1>6, <2>1, <2>3, <3>1, <3>2 DEF Go, Moves, Keeps, Pipeline
  <2>4. CASE ~in.gnt
    <3>1. S(in) = Go(IF split_misaligned_access THEN "WAIT_GNT_MIS" ELSE "WAIT_GNT",
                     handle_misaligned_q, pmp_err, FALSE, {})
      BY <1>1, <1>6, <2>4 DEF StartAccess
    <3>2. ~lsu_req_done(in) BY <3>1 DEF lsu_req_done, Go
    <3> QED BY <1>2, <1>3, <1>4, <1>6, <2>1, <2>4, <3>1, <3>2 DEF Go, Moves, Keeps, Pipeline
  <2> QED BY <2>2, <2>3, <2>4
<1> QED BY <1>5, <1>6

\* In every other state ID keeps the access until the machine is back in IDLE.
LEMMA BusyKeeps ==
  ASSUME Inv, NEW in \in Inputs, Cycle(in), ~Idle
  PROVE  /\ id # NoAccess /\ mem' = mem
         /\ ls_fsm_cs' # "IDLE" => Keeps
         /\ ls_fsm_cs' = "IDLE" => wb' = id
<1>1. id # NoAccess /\ wb = NoAccess BY DEF Inv, Serves
<1>2. ~lsu_resp_valid(in) /\ ~resp_err(in) BY DEF lsu_resp_valid, resp_err
<1>3. lsu_req_done(in) <=> ls_fsm_cs' = "IDLE" BY DEF lsu_req_done, Cycle, Unit
<1> QED BY <1>1, <1>2, <1>3 DEF Cycle, Pipeline, Keeps

LEMMA WaitGntMisMoves ==
  ASSUME Inv, NEW in \in Inputs, Cycle(in), ls_fsm_cs = "WAIT_GNT_MIS"
  PROVE  /\ in.gnt \/ pmp_err_q => Moves("WAIT_RVALID_MIS", TRUE, pmp_err_q)
         /\ ~(in.gnt \/ pmp_err_q) => Moves("WAIT_GNT_MIS", FALSE, pmp_err_q)
<1>1. ~handle_misaligned_q BY DEF Inv, SecondHalf
<1>2. S(in) = WaitGntMis(in) BY DEF S, Idle
<1> QED BY <1>1, <1>2 DEF WaitGntMis, Stay, Go, Moves, Cycle, Unit

LEMMA WaitRvalidMisMoves ==
  ASSUME Inv, NEW in \in Inputs, Cycle(in), ls_fsm_cs = "WAIT_RVALID_MIS"
  PROVE  /\ (in.rvalid \/ pmp_err_q) /\ in.gnt => Moves("IDLE", FALSE, pmp_err)
         /\ (in.rvalid \/ pmp_err_q) /\ ~in.gnt =>
              Moves("WAIT_GNT", TRUE, pmp_err) /\ addr_last_q' = addr_last_q
         /\ ~(in.rvalid \/ pmp_err_q) /\ in.gnt =>
              /\ Moves("WAIT_RVALID_MIS_GNTS_DONE", FALSE, pmp_err_q)
              /\ addr_last_q' = addr_last_q
         /\ ~(in.rvalid \/ pmp_err_q) /\ ~in.gnt =>
              Moves("WAIT_RVALID_MIS", TRUE, pmp_err_q) /\ addr_last_q' = addr_last_q
<1>1. handle_misaligned_q BY DEF Inv, SecondHalf
<1>2. S(in) = WaitRvalidMis(in) BY DEF S, Idle
<1>3. /\ ls_fsm_cs' = S(in).ns /\ handle_misaligned_q' = S(in).mis /\ pmp_err_q' = S(in).pmp
      /\ "addr" \notin S(in).upd => addr_last_q' = addr_last_q
  BY DEF Cycle, Unit
<1>4. CASE in.rvalid \/ pmp_err_q
  <2> DEFINE err == bus_err(in) \/ pmp_err_q
             upd == (IF ctrl_q.we THEN {} ELSE {"rdata"}) \cup
                    (IF in.gnt /\ ~err THEN {"addr"} ELSE {})
  <2>0. S(in) = Go(IF in.gnt THEN "IDLE" ELSE "WAIT_GNT", ~in.gnt, pmp_err, err, upd)
    BY <1>2, <1>4 DEF WaitRvalidMis
  <2> HIDE DEF err, upd
  <2>1. /\ S(in).ns = IF in.gnt THEN "IDLE" ELSE "WAIT_GNT"
        /\ S(in).mis = ~in.gnt /\ S(in).pmp = pmp_err
    BY <2>0 DEF Go
  <2>2. ~in.gnt => "addr" \notin S(in).upd BY <1>2, <1>4 DEF WaitRvalidMis, Go
  <2> QED BY <1>3, <1>4, <2>1, <2>2 DEF Moves
<1>5. CASE ~(in.rvalid \/ pmp_err_q)
  BY <1>1, <1>2, <1>3, <1>5 DEF WaitRvalidMis, Stay, Go, Moves
<1> QED BY <1>4, <1>5

LEMMA WaitGntMoves ==
  ASSUME Inv, NEW in \in Inputs, Cycle(in), ls_fsm_cs = "WAIT_GNT"
  PROVE  /\ in.gnt \/ pmp_err_q => Moves("IDLE", FALSE, pmp_err_q)
         /\ ~(in.gnt \/ pmp_err_q) =>
              /\ Moves("WAIT_GNT", handle_misaligned_q, pmp_err_q)
              /\ addr_last_q' = addr_last_q
<1>1. S(in) = WaitGnt(in) BY DEF S, Idle
<1> QED BY <1>1 DEF WaitGnt, Stay, Go, Moves, Cycle, Unit

LEMMA GntsDoneMoves ==
  ASSUME Inv, NEW in \in Inputs, Cycle(in), ls_fsm_cs = "WAIT_RVALID_MIS_GNTS_DONE"
  PROVE  /\ in.rvalid => Moves("IDLE", FALSE, pmp_err)
         /\ ~in.rvalid => /\ Moves("WAIT_RVALID_MIS_GNTS_DONE", FALSE, pmp_err_q)
                          /\ addr_last_q' = addr_last_q
<1>1. ~handle_misaligned_q BY DEF Inv, SecondHalf
<1>2. S(in) = WaitRvalidMisGntsDone(in) BY DEF S, Idle
<1> QED BY <1>1, <1>2 DEF WaitRvalidMisGntsDone, Stay, Go, Moves, Cycle, Unit

-----------------------------------------------------------------------------
(* One clock edge *)
LEMMA ServesStep ==
  ASSUME Inv, NEW in \in Inputs, Cycle(in)
  PROVE  Serves' /\ SecondHalf'
<1>1. CASE Idle
  <2>1. lsu_req(in) => id # NoAccess BY DEF lsu_req
  <2> QED BY <1>1, <2>1, IdleMoves DEF Moves, Keeps, Serves, SecondHalf, Idle
<1>2. CASE ~Idle
  <2>1. Serves' BY <1>2, BusyKeeps DEF Keeps, Serves, Idle
  <2>2. SecondHalf'
    <3>1. ls_fsm_cs \in States BY DEF Inv, TypeOK
    <3> QED BY <1>2, <3>1, WaitGntMisMoves, WaitRvalidMisMoves, WaitGntMoves, GntsDoneMoves
            DEF States, Moves, Idle, SecondHalf, Inv
  <2> QED BY <2>1, <2>2
<1> QED BY <1>1, <1>2

\* The request that waits stays the same one, so PMP gives the same answer.
LEMMA SameRequest ==
  ASSUME Inv, NEW in \in Inputs, Cycle(in), id # NoAccess, ls_fsm_cs' # "IDLE",
         \/ /\ ls_fsm_cs \in {"IDLE", "WAIT_GNT_MIS"}
            /\ ls_fsm_cs' \in {"WAIT_GNT", "WAIT_GNT_MIS"} /\ ~handle_misaligned_q'
         \/ /\ ls_fsm_cs \in {"WAIT_RVALID_MIS", "WAIT_RVALID_MIS_GNTS_DONE"}
            /\ \/ ls_fsm_cs' \in {"WAIT_RVALID_MIS", "WAIT_RVALID_MIS_GNTS_DONE"}
               \/ ls_fsm_cs' = "WAIT_GNT" /\ handle_misaligned_q'
            /\ addr_last_q' = addr_last_q
         \/ /\ ls_fsm_cs = "WAIT_GNT" /\ ls_fsm_cs' = "WAIT_GNT"
            /\ (handle_misaligned_q' <=> handle_misaligned_q) /\ addr_last_q' = addr_last_q,
         Keeps
  PROVE  data_addr' = data_addr /\ (pmp_err' <=> pmp_err)
<1>1. Idle => ~handle_misaligned_q BY DEF Inv, SecondHalf, Idle
<1>2. ls_fsm_cs = "WAIT_GNT_MIS" => ~handle_misaligned_q BY DEF Inv, SecondHalf
<1>3. data_addr' = data_addr BY <1>1, <1>2 DEF data_addr, addr_incr_req, Keeps, Idle
<1> QED BY <1>3 DEF pmp_err, Keeps

LEMMA KnowsDenialStep ==
  ASSUME Inv, NEW in \in Inputs, Cycle(in)
  PROVE  KnowsDenial'
<1> SUFFICES ASSUME ls_fsm_cs' \in {"WAIT_GNT", "WAIT_GNT_MIS"}
             PROVE  pmp_err_q' <=> pmp_err'
  BY DEF KnowsDenial
<1>1. ls_fsm_cs \in States BY DEF Inv, TypeOK
<1>2. CASE Idle
  <2>1. lsu_req(in) /\ id # NoAccess BY <1>2, IdleMoves DEF Moves, lsu_req
  <2>2. ~in.gnt BY <1>2, <2>1, IdleMoves DEF Moves
  <2>3. (pmp_err_q' <=> pmp_err) /\ ~handle_misaligned_q' /\ Keeps
    BY <1>2, <2>1, <2>2, IdleMoves DEF Moves
  <2> QED BY <1>2, <2>1, <2>3, SameRequest DEF Idle
<1>3. CASE ls_fsm_cs = "WAIT_GNT_MIS"
  <2>1. /\ ls_fsm_cs' = "WAIT_GNT_MIS" /\ ~handle_misaligned_q'
        /\ pmp_err_q' <=> pmp_err_q
    BY <1>3, WaitGntMisMoves DEF Moves
  <2>2. (pmp_err_q <=> pmp_err) /\ ~Idle BY <1>3 DEF Inv, KnowsDenial, Idle
  <2> QED BY <1>3, <2>1, <2>2, BusyKeeps, SameRequest
<1>4. CASE ls_fsm_cs = "WAIT_RVALID_MIS"
  <2>1. /\ ls_fsm_cs' = "WAIT_GNT" /\ handle_misaligned_q'
        /\ (pmp_err_q' <=> pmp_err) /\ addr_last_q' = addr_last_q
    BY <1>4, WaitRvalidMisMoves DEF Moves
  <2>2. ~Idle BY <1>4 DEF Idle
  <2> QED BY <1>4, <2>1, <2>2, BusyKeeps, SameRequest
<1>5. CASE ls_fsm_cs = "WAIT_GNT"
  <2>1. /\ ls_fsm_cs' = "WAIT_GNT" /\ (handle_misaligned_q' <=> handle_misaligned_q)
        /\ (pmp_err_q' <=> pmp_err_q) /\ addr_last_q' = addr_last_q
    BY <1>5, WaitGntMoves DEF Moves
  <2>2. (pmp_err_q <=> pmp_err) /\ ~Idle BY <1>5 DEF Inv, KnowsDenial, Idle
  <2> QED BY <1>5, <2>1, <2>2, BusyKeeps, SameRequest
<1>6. CASE ls_fsm_cs = "WAIT_RVALID_MIS_GNTS_DONE"
  BY <1>6, GntsDoneMoves DEF Moves
<1> QED BY <1>1, <1>2, <1>3, <1>4, <1>5, <1>6 DEF States, Idle

\* How many answers are outstanding after each move.
LEMMA InStepStep ==
  ASSUME Inv, NEW in \in Inputs, Cycle(in)
  PROVE  InStep'
<1>1. ls_fsm_cs \in States /\ TypeOK /\ Drivable(in) /\ Bus(in)
  BY DEF Inv, TypeOK, Cycle
<1>2. Granted(in) => id # NoAccess
  BY <1>1, BusyKeeps DEF Granted, data_req, Requesting, lsu_req
<1>3. /\ flight' \in Seq(Word) /\ Len(flight) \in Nat
      /\ Len(flight') = Len(flight) - (IF in.rvalid THEN 1 ELSE 0)
                                    + (IF Granted(in) THEN 1 ELSE 0)
      /\ in.rvalid => Len(flight) > 0
  BY <1>1, <1>2, Flights DEF TypeOK
<1>4. Granted(in) <=> Requesting(in) /\ ~pmp_err /\ in.gnt BY DEF Granted, data_req
<1>5. CASE Idle /\ ~lsu_req(in)
  <2>1. /\ Moves("IDLE", FALSE, FALSE)
        /\ wb' = IF lsu_resp_valid(in) THEN NoAccess ELSE wb
    BY <1>5, IdleMoves
  <2>2. ~Granted(in) BY <1>4, <1>5 DEF Requesting
  <2>3. Len(flight) = IF wb # NoAccess /\ ~pmp_err_q THEN 1 ELSE 0
    BY <1>5 DEF Inv, InStep
  <2>4. lsu_resp_valid(in) <=> in.rvalid \/ pmp_err_q BY <1>5 DEF lsu_resp_valid
  <2>5. Len(flight') = IF wb' # NoAccess THEN 1 ELSE 0
    BY <1>3, <2>1, <2>2, <2>3, <2>4
  <2> QED BY <2>1, <2>5 DEF InStep, Moves, Idle
<1>6. CASE Idle /\ lsu_req(in)
  <2>1. Len(flight) = (IF in.rvalid THEN 1 ELSE 0) /\ id # NoAccess
    BY <1>1, <1>6, RequestsInOrder
  <2>2. Len(flight') = IF ~pmp_err /\ in.gnt THEN 1 ELSE 0
    BY <1>3, <1>4, <1>6, <2>1 DEF Requesting
  <2>3. CASE in.gnt /\ ~split_misaligned_access
    BY <1>6, <2>1, <2>2, <2>3, IdleMoves DEF Moves, InStep, Idle
  <2>4. CASE in.gnt /\ split_misaligned_access
    BY <1>6, <2>2, <2>4, IdleMoves DEF Moves, InStep, Idle
  <2>5. CASE ~in.gnt
    BY <1>6, <2>2, <2>5, IdleMoves DEF Moves, InStep, Idle
  <2> QED BY <2>3, <2>4, <2>5
<1>7. CASE ls_fsm_cs \in {"WAIT_GNT", "WAIT_GNT_MIS"}
  <2>1. Len(flight) = 0 /\ (pmp_err_q <=> pmp_err)
    BY <1>7 DEF Inv, InStep, KnowsDenial, Idle
  <2>2. Len(flight') = IF ~pmp_err_q /\ in.gnt THEN 1 ELSE 0
    BY <1>3, <1>4, <1>7, <2>1 DEF Requesting, Idle
  <2>3. id # NoAccess /\ (ls_fsm_cs' = "IDLE" => wb' = id)
    BY <1>7, BusyKeeps DEF Idle
  <2>4. CASE ls_fsm_cs = "WAIT_GNT"
    BY <2>2, <2>3, <2>4, WaitGntMoves DEF Moves, InStep, Idle
  <2>5. CASE ls_fsm_cs = "WAIT_GNT_MIS"
    BY <2>2, <2>3, <2>5, WaitGntMisMoves DEF Moves, InStep, Idle
  <2> QED BY <1>7, <2>4, <2>5
<1>8. CASE ls_fsm_cs = "WAIT_RVALID_MIS"
  <2>1. Len(flight) = (IF pmp_err_q THEN 0 ELSE 1) BY <1>8 DEF Inv, InStep, Idle
  <2>2. id # NoAccess /\ (ls_fsm_cs' = "IDLE" => wb' = id) /\ (ls_fsm_cs' # "IDLE" => Keeps)
    BY <1>8, BusyKeeps DEF Idle
  <2>3. CASE in.rvalid \/ pmp_err_q
    <3>1. Len(flight') = IF ~pmp_err /\ in.gnt THEN 1 ELSE 0
      BY <1>3, <1>4, <1>8, <2>1, <2>3 DEF Requesting, Idle
    <3> QED BY <1>8, <2>2, <2>3, <3>1, WaitRvalidMisMoves DEF Moves, InStep, Idle
  <2>4. CASE ~(in.rvalid \/ pmp_err_q) /\ in.gnt
    <3>1. Len(flight') = IF pmp_err THEN 1 ELSE 2
      BY <1>3, <1>4, <1>8, <2>1, <2>4 DEF Requesting, Idle
    <3>2. ls_fsm_cs' = "WAIT_RVALID_MIS_GNTS_DONE" /\ addr_last_q' = addr_last_q
      BY <1>8, <2>4, WaitRvalidMisMoves DEF Moves
    <3>3. pmp_err' <=> pmp_err BY <1>8, <2>2, <3>2, SameRequest
    <3> QED BY <3>1, <3>2, <3>3 DEF InStep, Idle
  <2>5. CASE ~(in.rvalid \/ pmp_err_q) /\ ~in.gnt
    <3>1. Len(flight') = 1 BY <1>3, <1>4, <2>1, <2>5
    <3> QED BY <1>8, <2>5, <3>1, WaitRvalidMisMoves DEF Moves, InStep, Idle
  <2> QED BY <2>3, <2>4, <2>5
<1>9. CASE ls_fsm_cs = "WAIT_RVALID_MIS_GNTS_DONE"
  <2>1. Len(flight) = (IF pmp_err THEN 1 ELSE 2) BY <1>9 DEF Inv, InStep, Idle
  <2>2. id # NoAccess /\ (ls_fsm_cs' = "IDLE" => wb' = id) /\ (ls_fsm_cs' # "IDLE" => Keeps)
    BY <1>9, BusyKeeps DEF Idle
  <2>3. Len(flight') = Len(flight) - (IF in.rvalid THEN 1 ELSE 0)
    BY <1>3, <1>4, <1>9 DEF Requesting, Idle
  <2>4. CASE in.rvalid
    BY <1>9, <2>1, <2>2, <2>3, <2>4, GntsDoneMoves DEF Moves, InStep, Idle
  <2>5. CASE ~in.rvalid
    <3>1. ls_fsm_cs' = "WAIT_RVALID_MIS_GNTS_DONE" /\ addr_last_q' = addr_last_q
      BY <1>9, <2>5, GntsDoneMoves DEF Moves
    <3>2. pmp_err' <=> pmp_err BY <1>9, <2>2, <3>1, SameRequest
    <3> QED BY <2>1, <2>3, <2>5, <3>1, <3>2 DEF InStep, Idle
  <2> QED BY <2>4, <2>5
<1> QED BY <1>1, <1>5, <1>6, <1>7, <1>8, <1>9 DEF States, Idle

LEMMA OnlyPendingStep ==
  ASSUME Inv, NEW in \in Inputs, Cycle(in), InStep'
  PROVE  OnlyPending'
<1> SUFFICES ASSUME Idle', flight' # <<>> \/ pmp_err_q', wb' = NoAccess PROVE FALSE
  BY DEF OnlyPending
<1>1. ls_fsm_cs' = "IDLE" BY DEF Idle
<1>2. ~Idle => FALSE
  <2>1. ~Idle => id # NoAccess /\ wb' = id BY <1>1, BusyKeeps
  <2> QED BY <2>1
<1>3. Idle /\ lsu_req(in) => FALSE
  <2>1. lsu_req(in) => id # NoAccess BY DEF lsu_req
  <2> QED BY <1>1, <2>1, IdleMoves DEF Moves
<1>4. Idle /\ ~lsu_req(in) => FALSE
  <2> SUFFICES ASSUME Idle, ~lsu_req(in) PROVE FALSE OBVIOUS
  <2>1. ~pmp_err_q' BY IdleMoves DEF Moves
  <2>2. Len(flight') = 0 BY DEF InStep
  <2>3. TypeOK /\ Drivable(in) /\ Bus(in) /\ ~Granted(in)
    BY DEF Inv, Cycle, Granted, data_req, Requesting
  <2>4. flight' \in Seq(Word) BY <2>3, Flights
  <2> QED BY <2>1, <2>2, <2>4
<1> QED BY <1>2, <1>3, <1>4

\* A transfer that is not granted is what the next state drives again.
LEMMA HoldsTransferStep ==
  ASSUME Inv, NEW in \in Inputs, Cycle(in)
  PROVE  HoldsTransfer'
<1> SUFFICES ASSUME held' # NoTransfer
             PROVE  /\ ls_fsm_cs' \notin {"IDLE", "WAIT_RVALID_MIS_GNTS_DONE"}
                    /\ Transfer' = held' /\ ~pmp_err'
  BY DEF HoldsTransfer
<1>1. Requesting(in) /\ ~pmp_err /\ ~in.gnt /\ held' = Transfer
  BY DEF Cycle, Bus, data_req
<1>2. ls_fsm_cs \in States BY DEF Inv, TypeOK
<1>3. id # NoAccess BY <1>1, BusyKeeps DEF Requesting, lsu_req
<1> DEFINE Waiting == ls_fsm_cs' \notin {"IDLE", "WAIT_RVALID_MIS_GNTS_DONE"}
           Same == data_addr' = data_addr /\ (pmp_err' <=> pmp_err)
                   /\ (handle_misaligned_q' <=> handle_misaligned_q) /\ id' = id
<1>4. SUFFICES Waiting /\ Same
  <2>1. ASSUME Same PROVE Transfer' = Transfer
    <3>1. data_be' = data_be BY <2>1 DEF data_be
    <3> QED BY <2>1, <3>1 DEF Transfer
  <2> QED BY <1>1, <2>1
<1>5. CASE Idle
  <2>1. lsu_req(in) BY <1>1, <1>5 DEF Requesting
  <2>2. /\ ls_fsm_cs' \in {"WAIT_GNT", "WAIT_GNT_MIS"} /\ ~handle_misaligned_q' /\ Keeps
    BY <1>1, <1>5, <2>1, IdleMoves DEF Moves
  <2>3. ~handle_misaligned_q BY <1>5 DEF Inv, SecondHalf, Idle
  <2> QED BY <1>3, <1>5, <2>2, <2>3, SameRequest DEF Idle, Keeps
<1>6. CASE ls_fsm_cs = "WAIT_GNT_MIS"
  <2>1. ~pmp_err_q /\ ~handle_misaligned_q /\ ~Idle
    BY <1>1, <1>6 DEF Inv, KnowsDenial, SecondHalf, Idle
  <2>2. ls_fsm_cs' = "WAIT_GNT_MIS" /\ ~handle_misaligned_q'
    BY <1>1, <1>6, <2>1, WaitGntMisMoves DEF Moves
  <2> QED BY <1>3, <1>6, <2>1, <2>2, BusyKeeps, SameRequest DEF Keeps
<1>7. CASE ls_fsm_cs = "WAIT_RVALID_MIS"
  <2>1. handle_misaligned_q /\ ~Idle BY <1>7 DEF Inv, SecondHalf, Idle
  <2>2. /\ ls_fsm_cs' \in {"WAIT_GNT", "WAIT_RVALID_MIS"}
        /\ handle_misaligned_q' /\ addr_last_q' = addr_last_q
    BY <1>1, <1>7, WaitRvalidMisMoves DEF Moves
  <2> QED BY <1>3, <1>7, <2>1, <2>2, BusyKeeps, SameRequest DEF Keeps
<1>8. CASE ls_fsm_cs = "WAIT_GNT"
  <2>1. ~pmp_err_q /\ ~Idle BY <1>1, <1>8 DEF Inv, KnowsDenial, Idle
  <2>2. /\ ls_fsm_cs' = "WAIT_GNT" /\ (handle_misaligned_q' <=> handle_misaligned_q)
        /\ addr_last_q' = addr_last_q
    BY <1>1, <1>8, <2>1, WaitGntMoves DEF Moves
  <2> QED BY <1>3, <1>8, <2>1, <2>2, BusyKeeps, SameRequest DEF Keeps
<1>9. ls_fsm_cs # "WAIT_RVALID_MIS_GNTS_DONE" BY <1>1 DEF Requesting, Idle
<1> QED BY <1>2, <1>5, <1>6, <1>7, <1>8, <1>9 DEF States, Idle

-----------------------------------------------------------------------------
LEMMA GoTypes ==
  ASSUME NEW g, NEW ns \in States, NEW mis \in BOOLEAN, NEW pmp \in BOOLEAN,
         NEW err \in BOOLEAN, NEW upd, g = Go(ns, mis, pmp, err, upd)
  PROVE  g.ns \in States /\ g.mis \in BOOLEAN /\ g.pmp \in BOOLEAN /\ g.err \in BOOLEAN
<1>1. g.ns = ns /\ g.mis = mis /\ g.pmp = pmp /\ g.err = err BY DEF Go
<1> QED BY <1>1

\* The state machine's outputs are of their types, and it touches no register
\* when ID holds no access.
LEMMA MoveTypes ==
  ASSUME Inv, NEW in \in Inputs
  PROVE  /\ S(in).ns \in States /\ S(in).mis \in BOOLEAN
         /\ S(in).pmp \in BOOLEAN /\ S(in).err \in BOOLEAN
         /\ id = NoAccess => S(in).upd = {}
<1> DEFINE Good(g) == /\ g.ns \in States /\ g.mis \in BOOLEAN
                      /\ g.pmp \in BOOLEAN /\ g.err \in BOOLEAN
<1>1. /\ ls_fsm_cs \in States /\ handle_misaligned_q \in BOOLEAN
      /\ pmp_err_q \in BOOLEAN /\ lsu_err_q \in BOOLEAN
  BY DEF Inv, TypeOK
<1>2. /\ pmp_err \in BOOLEAN /\ bus_err(in) \in BOOLEAN /\ split_misaligned_access \in BOOLEAN
      /\ (~in.gnt) \in BOOLEAN /\ (bus_err(in) \/ pmp_err_q) \in BOOLEAN
      /\ TRUE \in BOOLEAN /\ FALSE \in BOOLEAN
  <2>1. pmp_err \in BOOLEAN BY DEF pmp_err
  <2>2. bus_err(in) \in BOOLEAN BY Zenon DEF bus_err
  <2>3. split_misaligned_access \in BOOLEAN BY DEF split_misaligned_access, Splits
  <2>4. (~in.gnt) \in BOOLEAN BY Zenon
  <2>5. (bus_err(in) \/ pmp_err_q) \in BOOLEAN BY Zenon
  <2> QED BY <2>1, <2>2, <2>3, <2>4, <2>5
<1>3. /\ "IDLE" \in States /\ "WAIT_GNT_MIS" \in States /\ "WAIT_RVALID_MIS" \in States
      /\ "WAIT_GNT" \in States /\ "WAIT_RVALID_MIS_GNTS_DONE" \in States
  BY DEF States
<1>4. \A g, ns, mis, pmp, err, upd :
         /\ ns \in States /\ mis \in BOOLEAN /\ pmp \in BOOLEAN /\ err \in BOOLEAN
         /\ g = Go(ns, mis, pmp, err, upd)
         => Good(g)
  <2> TAKE g, ns, mis, pmp, err, upd
  <2> HAVE /\ ns \in States /\ mis \in BOOLEAN /\ pmp \in BOOLEAN /\ err \in BOOLEAN
           /\ g = Go(ns, mis, pmp, err, upd)
  <2> QED BY GoTypes
<1> HIDE DEF Good
<1>5. Good(Stay) BY <1>1, <1>4, Zenon DEF Stay
<1>6. CASE Idle
  <2>1. S(in) = StartAccess(in) BY <1>6 DEF S
  <2> DEFINE next == IF split_misaligned_access THEN "WAIT_RVALID_MIS" ELSE "IDLE"
             wait == IF split_misaligned_access THEN "WAIT_GNT_MIS" ELSE "WAIT_GNT"
  <2>2. CASE ~lsu_req(in)
    <3>1. S(in) = Go("IDLE", handle_misaligned_q, FALSE, lsu_err_q, {})
      BY <2>1, <2>2, Zenon DEF StartAccess
    <3>2. S(in).upd = {} BY <3>1 DEF Go
    <3>3. Good(S(in)) BY <1>1, <1>2, <1>3, <1>4, <3>1, Zenon
    <3> QED BY <3>2, <3>3 DEF Good
  <2>3. CASE lsu_req(in) /\ in.gnt
    <3>1. S(in) = Go(next, split_misaligned_access, pmp_err, FALSE, {"ctrl", "addr"})
      BY <2>1, <2>3, Zenon DEF StartAccess
    <3>2. next \in States BY <1>3
    <3>3. Good(S(in)) BY <1>2, <1>4, <3>1, <3>2, Zenon
    <3> QED BY <2>3, <3>3 DEF Good, lsu_req
  <2>4. CASE lsu_req(in) /\ ~in.gnt
    <3>1. S(in) = Go(wait, handle_misaligned_q, pmp_err, FALSE, {})
      BY <2>1, <2>4, Zenon DEF StartAccess
    <3>2. wait \in States BY <1>3
    <3>3. Good(S(in)) BY <1>1, <1>2, <1>4, <3>1, <3>2, Zenon
    <3> QED BY <2>4, <3>3 DEF Good, lsu_req
  <2> QED BY <2>2, <2>3, <2>4
<1>7. CASE ~Idle
  <2>1. id # NoAccess BY <1>7 DEF Inv, Serves
  <2> SUFFICES Good(S(in)) BY <2>1 DEF Good
  <2>2. CASE ls_fsm_cs = "WAIT_GNT_MIS"
    <3>1. S(in) = WaitGntMis(in) BY <1>7, <2>2 DEF S
    <3>2. CASE in.gnt \/ pmp_err_q
      <4>1. S(in) = Go("WAIT_RVALID_MIS", TRUE, pmp_err_q, lsu_err_q, {"ctrl", "addr"})
        BY <3>1, <3>2, Zenon DEF WaitGntMis
      <4> QED BY <1>1, <1>2, <1>3, <1>4, <4>1, ZenonT(30)
    <3>3. CASE ~(in.gnt \/ pmp_err_q)
      <4>1. S(in) = Stay BY <3>1, <3>3, Zenon DEF WaitGntMis
      <4> QED BY <1>5, <4>1
    <3> QED BY <3>2, <3>3
  <2>3. CASE ls_fsm_cs = "WAIT_RVALID_MIS"
    <3>1. S(in) = WaitRvalidMis(in) BY <1>7, <2>3 DEF S
    <3> DEFINE next == IF in.gnt THEN "IDLE" ELSE "WAIT_GNT"
               err == bus_err(in) \/ pmp_err_q
    <3>2. next \in States BY <1>3
    <3>3. CASE in.rvalid \/ pmp_err_q
      <4>1. PICK upd : S(in) = Go(next, ~in.gnt, pmp_err, err, upd)
        BY <3>1, <3>3, Zenon DEF WaitRvalidMis
      <4>2. err \in BOOLEAN BY <1>2
      <4> HIDE DEF next, err
      <4> QED BY <1>2, <1>4, <3>2, <4>1, <4>2, Zenon
    <3>4. CASE ~(in.rvalid \/ pmp_err_q)
      <4>1. CASE in.gnt
        <5>1. S(in) = Go("WAIT_RVALID_MIS_GNTS_DONE", FALSE, pmp_err_q, lsu_err_q, {})
          BY <3>1, <3>4, <4>1, Zenon DEF WaitRvalidMis
        <5> QED BY <1>1, <1>2, <1>3, <1>4, <5>1, Zenon
      <4>2. CASE ~in.gnt
        <5>1. S(in) = Stay BY <3>1, <3>4, <4>2, Zenon DEF WaitRvalidMis
        <5> QED BY <1>5, <5>1
      <4> QED BY <4>1, <4>2
    <3> QED BY <3>3, <3>4
  <2>4. CASE ls_fsm_cs = "WAIT_GNT"
    <3>1. S(in) = WaitGnt(in) BY <1>7, <2>4 DEF S
    <3>2. CASE in.gnt \/ pmp_err_q
      <4>1. PICK upd : S(in) = Go("IDLE", FALSE, pmp_err_q, lsu_err_q, upd)
        BY <3>1, <3>2, Zenon DEF WaitGnt
      <4> QED BY <1>1, <1>2, <1>3, <1>4, <4>1, Zenon
    <3>3. CASE ~(in.gnt \/ pmp_err_q)
      <4>1. S(in) = Stay BY <3>1, <3>3, Zenon DEF WaitGnt
      <4> QED BY <1>5, <4>1
    <3> QED BY <3>2, <3>3
  <2>5. CASE ls_fsm_cs = "WAIT_RVALID_MIS_GNTS_DONE"
    <3>1. S(in) = WaitRvalidMisGntsDone(in) BY <1>7, <2>5 DEF S
    <3>2. CASE in.rvalid
      <4>1. PICK upd : S(in) = Go("IDLE", handle_misaligned_q, pmp_err, bus_err(in), upd)
        BY <3>1, <3>2, Zenon DEF WaitRvalidMisGntsDone
      <4> QED BY <1>1, <1>2, <1>3, <1>4, <4>1, Zenon
    <3>3. CASE ~in.rvalid
      <4>1. S(in) = Stay BY <3>1, <3>3, Zenon DEF WaitRvalidMisGntsDone
      <4> QED BY <1>5, <4>1
    <3> QED BY <3>2, <3>3
  <2>6. ls_fsm_cs \in {"WAIT_GNT_MIS", "WAIT_RVALID_MIS", "WAIT_GNT",
                       "WAIT_RVALID_MIS_GNTS_DONE"}
    BY <1>1, <1>7 DEF States, Idle
  <2> QED BY <2>2, <2>3, <2>4, <2>5, <2>6, Zenon
<1> QED BY <1>6, <1>7

LEMMA TypeStep ==
  ASSUME Inv, NEW in \in Inputs, Cycle(in)
  PROVE  TypeOK'
<1>1. TypeOK /\ mem' = mem /\ Drivable(in) /\ Unit(in) /\ Bus(in) /\ Pipeline(in)
  BY DEF Inv, Cycle
<1>2. id = NoAccess => ~Granted(in) /\ ~data_req(in) /\ ~lsu_req_done(in)
  BY DEF Inv, Serves, lsu_req, Granted, data_req, Requesting, lsu_req_done
<1>3. in.next \in Accesses \cup {NoAccess} BY DEF Inputs
<1>4. /\ ls_fsm_cs' \in States /\ handle_misaligned_q' \in BOOLEAN
      /\ pmp_err_q' \in BOOLEAN /\ lsu_err_q' \in BOOLEAN
  BY <1>1, MoveTypes DEF Unit
<1>5. /\ flight' \in Seq(Word)
      /\ in.rvalid => Head(flight) \in Word
  BY <1>1, <1>2, Flights
<1>6. rdata_q' \in Word BY <1>1, <1>5 DEF Unit, TypeOK
<1>7. /\ ctrl_q' \in [offset : 0..3, size : {1, 2, 4}, signed : BOOLEAN, we : BOOLEAN]
      /\ addr_last_q' \in Byte
  <2>1. CASE id = NoAccess
    <3>1. S(in).upd = {} BY <2>1, MoveTypes
    <3> QED BY <1>1, <3>1 DEF Unit, TypeOK
  <2>2. CASE id # NoAccess
    <3>1. data_addr \in Byte BY <1>1, <2>2, DrivenTypes
    <3>2. Offset(data_addr) \in 0..3 /\ Aligned(data_addr) \in Byte BY <3>1, AddressTypes
    <3>3. id.size \in {1, 2, 4} /\ id.signed \in BOOLEAN /\ id.we \in BOOLEAN
      BY <1>1, <2>2, AccessTypes
    <3>4. [offset |-> Offset(data_addr), size |-> id.size, signed |-> id.signed, we |-> id.we]
            \in [offset : 0..3, size : {1, 2, 4}, signed : BOOLEAN, we : BOOLEAN]
      BY <3>2, <3>3
    <3>5. addr_last_q' \in Byte BY <1>1, <3>1, <3>2 DEF Unit, TypeOK
    <3>6. ctrl_q' \in [offset : 0..3, size : {1, 2, 4}, signed : BOOLEAN, we : BOOLEAN]
      BY <1>1, <3>4 DEF Unit, TypeOK
    <3> QED BY <3>5, <3>6
  <2> QED BY <2>1, <2>2
<1>8. id' \in Accesses \cup {NoAccess} /\ wb' \in Accesses \cup {NoAccess}
  BY <1>1, <1>3 DEF Pipeline, TypeOK
<1>9. held' \in {NoTransfer} \cup [word : Word, we : BOOLEAN, be : SUBSET (0..3)]
  BY <1>1, <1>2, DrivenTypes DEF Bus
<1>10. written' \subseteq (Byte \X (0..3))
  <2>1. Stored(in) \subseteq Byte \X (0..3)
    <3>1. CASE id = NoAccess BY <1>2, <3>1 DEF Stored
    <3>2. CASE id # NoAccess BY <1>1, <3>2, DrivenTypes
    <3> QED BY <3>1, <3>2
  <2>2. written' \subseteq written \cup Stored(in) BY <1>1 DEF Bus
  <2> QED BY <1>1, <2>1, <2>2 DEF TypeOK
<1>11. turn' \in {0, 1} BY <1>1 DEF Pipeline, TypeOK
<1> QED BY <1>1, <1>4, <1>5, <1>6, <1>7, <1>8, <1>9, <1>10, <1>11 DEF TypeOK

-----------------------------------------------------------------------------
LEMMA InitInv == Init => Inv
<1> SUFFICES ASSUME Init PROVE Inv OBVIOUS
<1>1. Words \in Nat \ {0} BY WordsAssumption
<1>2. TypeOK
  <2>1. /\ ls_fsm_cs \in States /\ handle_misaligned_q \in BOOLEAN
        /\ pmp_err_q \in BOOLEAN /\ lsu_err_q \in BOOLEAN
    BY DEF Init, States
  <2>2. ctrl_q \in [offset : 0..3, size : {1, 2, 4}, signed : BOOLEAN, we : BOOLEAN]
    BY DEF Init
  <2>3. rdata_q \in Word /\ addr_last_q \in Byte /\ flight \in Seq(Word)
    BY <1>1 DEF Init, Word, Byte
  <2>4. /\ mem \in Mems
        /\ id \in Accesses \cup {NoAccess} /\ wb \in Accesses \cup {NoAccess}
        /\ held \in {NoTransfer} \cup [word : Word, we : BOOLEAN, be : SUBSET (0..3)]
        /\ written \subseteq (Byte \X (0..3)) /\ turn \in {0, 1}
    BY DEF Init
  <2> QED BY <2>1, <2>2, <2>3, <2>4 DEF TypeOK
<1>3. Serves /\ SecondHalf /\ KnowsDenial /\ InStep /\ OnlyPending /\ HoldsTransfer
  BY DEF Init, Serves, SecondHalf, KnowsDenial, InStep, OnlyPending, HoldsTransfer, Idle
<1> QED BY <1>2, <1>3 DEF Inv

LEMMA StutterInv == Inv /\ UNCHANGED vars => Inv'
<1> SUFFICES ASSUME Inv, UNCHANGED vars PROVE Inv' OBVIOUS
<1> USE DEF vars, fsmVars, regVars
<1>1. TypeOK' BY DEF Inv, TypeOK
<1>2. data_addr' = data_addr /\ (pmp_err' <=> pmp_err) /\ Transfer' = Transfer
  BY DEF data_addr, addr_incr_req, pmp_err, Transfer, data_be
<1>3. Serves' /\ SecondHalf' /\ OnlyPending' BY DEF Inv, Serves, SecondHalf, OnlyPending, Idle
<1>4. KnowsDenial' /\ InStep' /\ HoldsTransfer'
  BY <1>2 DEF Inv, KnowsDenial, InStep, HoldsTransfer, Idle
<1> QED BY <1>1, <1>3, <1>4 DEF Inv

\* The invariant the other theorems follow from.
THEOREM Invariance == Spec => []Inv
<1>1. Init => Inv BY InitInv
<1>2. Inv /\ [Next]_vars => Inv'
  <2> SUFFICES ASSUME Inv, [Next]_vars PROVE Inv' OBVIOUS
  <2>1. ASSUME NEW in \in Inputs, Cycle(in) PROVE Inv'
    BY <2>1, TypeStep, ServesStep, KnowsDenialStep, InStepStep, OnlyPendingStep,
       HoldsTransferStep DEF Inv
  <2>2. CASE UNCHANGED vars BY <2>2, StutterInv
  <2> QED BY <2>1, <2>2 DEF Next
<1> QED BY <1>1, <1>2, PTL DEF Spec

\* Type correctness of the unit, the bus and the handshake with the pipeline.
THEOREM TypeCorrect == Spec => []TypeOK
<1>1. Inv => TypeOK BY DEF Inv
<1> QED BY <1>1, Invariance, PTL

\* The unit and the bus never disagree on how many answers are still to come.
THEOREM CountsAnswers == Spec => []InStep
<1>1. Inv => InStep BY DEF Inv
<1> QED BY <1>1, Invariance, PTL

\* A response always has an access that waits for it.
THEOREM NoStrayResponse == Spec => []OnlyPending
<1>1. Inv => OnlyPending BY DEF Inv
<1> QED BY <1>1, Invariance, PTL

\* Whatever the access and the state, a transfer on the bus stays until granted.
THEOREM KeepsTransfer == Spec => []HoldsTransfer
<1>1. Inv => HoldsTransfer BY DEF Inv
<1> QED BY <1>1, Invariance, PTL

-----------------------------------------------------------------------------
(* That the unit implements DataAccess *)

(* The inductive invariant: what each state of the unit knows of its access. *)

\* What the unit keeps of an access from its first grant on.
Control(a) == [offset |-> Offset(a.addr), size |-> a.size, signed |-> a.signed, we |-> a.we]

\* The bytes of an access in the word of its address, and those in the next word.
InFirst(a)  == {k \in 0..(a.size - 1) : Offset(a.addr) + k <= 3}
InSecond(a) == {k \in 0..(a.size - 1) : Offset(a.addr) + k > 3}

\* What a store leaves in either word, if that accepts it.
StoredFirst(m, a)  == {<<ByteOf(a, k), k>> : k \in IF a.we /\ ~Bad(m, a.addr)
                                                  THEN InFirst(a) ELSE {}}
StoredSecond(m, a) == {<<ByteOf(a, k), k>> : k \in IF a.we /\ ~Bad(m, Second(a))
                                                  THEN InSecond(a) ELSE {}}

Denied1(m, a) == WordOf(a.addr) \in m.denied
Denied2(m, a) == WordOf(Second(a)) \in m.denied

\* Before the first grant nothing of the access is done.
Untouched == \/ ls_fsm_cs = "WAIT_GNT_MIS"
             \/ ls_fsm_cs = "WAIT_GNT" /\ ~handle_misaligned_q
             => /\ Splits(id) <=> ls_fsm_cs = "WAIT_GNT_MIS"
                /\ written = {} /\ ~lsu_err_q

\* While the second half is asked for, the first is on the bus or denied, ...
HalfAsked == ls_fsm_cs = "WAIT_RVALID_MIS" =>
  /\ Splits(id) /\ ctrl_q = Control(id) /\ addr_last_q = id.addr /\ ~lsu_err_q
  /\ pmp_err_q <=> Denied1(mem, id)
  /\ ~pmp_err_q => flight = <<WordOf(id.addr)>>
  /\ written = StoredFirst(mem, id)

\* ... or it is answered and its word and its failure are kept, ...
HalfDone == ls_fsm_cs = "WAIT_GNT" /\ handle_misaligned_q =>
  /\ Splits(id) /\ ctrl_q = Control(id) /\ addr_last_q = id.addr
  /\ lsu_err_q <=> Bad(mem, id.addr)
  /\ ~id.we /\ ~lsu_err_q => rdata_q = WordOf(id.addr)
  /\ written = StoredFirst(mem, id)

\* ... or both halves have left.
BothAsked == ls_fsm_cs = "WAIT_RVALID_MIS_GNTS_DONE" =>
  /\ Splits(id) /\ ctrl_q = Control(id) /\ addr_last_q = id.addr
  /\ ~lsu_err_q /\ ~pmp_err_q /\ ~Denied1(mem, id)
  /\ flight = IF Denied2(mem, id) THEN <<WordOf(id.addr)>>
              ELSE <<WordOf(id.addr), WordOf(Second(id))>>
  /\ written = StoredFirst(mem, id) \cup StoredSecond(mem, id)

\* An access that writeback waits for is done but for the last answer to it.
LastWord(a) == IF Splits(a) THEN WordOf(Second(a)) ELSE WordOf(a.addr)
Left(a) ==
  /\ ctrl_q = Control(a)
  /\ pmp_err_q <=> LastWord(a) \in mem.denied
  /\ ~pmp_err_q => flight = <<LastWord(a)>>
  /\ lsu_err_q <=> Splits(a) /\ Bad(mem, a.addr)
  /\ addr_last_q = IF Splits(a) /\ ~lsu_err_q THEN Second(a) ELSE a.addr
  /\ Splits(a) /\ ~a.we /\ ~lsu_err_q => rdata_q = WordOf(a.addr)
  /\ written = StoredFirst(mem, a) \cup StoredSecond(mem, a)
AllButAnswer == Idle /\ wb # NoAccess => Left(wb)

AInv == Inv /\ Untouched /\ HalfAsked /\ HalfDone /\ BothAsked /\ AllButAnswer

-----------------------------------------------------------------------------
(* Addresses *)
LEMMA Around ==
  ASSUME NEW n \in Nat \ {0}, NEW x \in 0..(2 * n - 1)
  PROVE  x % n = IF x < n THEN x ELSE x - n
<1> DEFINE q == x \div n
           r == x % n
<1>1. x = q * n + r /\ q \in Int /\ r \in 0..(n - 1) OBVIOUS
<1> HIDE DEF q, r
<1>2. CASE q = 0 BY <1>1, <1>2 DEF r
<1>3. CASE q = 1 BY <1>1, <1>3 DEF r
<1>4. CASE q > 1
  <2>1. q * n >= 2 * n BY <1>1, <1>4
  <2> QED BY <1>1, <2>1
<1>5. CASE q < 0
  <2>1. q * n <= -n BY <1>1, <1>5
  <2> QED BY <1>1, <2>1
<1> QED BY <1>1, <1>2, <1>3, <1>4, <1>5

LEMMA Adds ==
  ASSUME NEW a \in Byte, NEW k \in 0..4
  PROVE  Plus(a, k) = IF a + k < 4 * Words THEN a + k ELSE a + k - 4 * Words
<1>1. Words \in Nat \ {0} BY WordsAssumption
<1>2. PICK n \in Nat \ {0} : n = 4 * Words /\ n >= 4 BY <1>1
<1>3. a \in 0..(n - 1) BY <1>1, <1>2 DEF Byte
<1>4. PICK x \in 0..(2 * n - 1) : x = a + k BY <1>2, <1>3
<1>5. x % n = IF x < n THEN x ELSE x - n BY Around
<1>6. Plus(a, k) = x % n BY <1>2, <1>4, Zenon DEF Plus
<1>7. x \in Int /\ n \in Int /\ a \in Int /\ k \in Int /\ Words \in Int
  BY <1>1 DEF Byte
<1> QED BY <1>2, <1>4, <1>5, <1>6, <1>7

LEMMA WordStarts ==
  ASSUME NEW a \in Byte
  PROVE  /\ Aligned(a) = 4 * WordOf(a) /\ a = 4 * WordOf(a) + Offset(a)
         /\ WordOf(a) \in Word /\ Offset(a) \in 0..3
         /\ \A j \in 0..3 : WordOf(4 * WordOf(a) + j) = WordOf(a)
<1>1. Words \in Nat \ {0} BY WordsAssumption
<1> QED BY <1>1, SMT DEF Byte, Word, WordOf, Offset, Aligned

LEMMA WordUnique ==
  ASSUME NEW x, NEW w \in Int, NEW j \in 0..3, x = 4 * w + j
  PROVE  WordOf(x) = w /\ Offset(x) = j
  BY SMT DEF WordOf, Offset

\* Four bytes further is the next word, or the first one, at the same offset.
LEMMA NextWord ==
  ASSUME NEW a \in Byte
  PROVE  /\ Plus(a, 4) \in Byte /\ Offset(Plus(a, 4)) = Offset(a)
         /\ WordOf(Plus(a, 4)) = IF WordOf(a) + 1 < Words THEN WordOf(a) + 1 ELSE 0
<1>1. Words \in Nat \ {0} BY WordsAssumption
<1> DEFINE w == WordOf(a)
           o == Offset(a)
<1>2. a = 4 * w + o /\ w \in 0..(Words - 1) /\ o \in 0..3 BY WordStarts DEF Word
<1>3. Plus(a, 4) = IF a + 4 < 4 * Words THEN a + 4 ELSE a + 4 - 4 * Words BY Adds
<1> HIDE DEF w, o
<1>4. CASE w + 1 < Words
  <2>1. Plus(a, 4) = 4 * (w + 1) + o /\ w + 1 \in Int BY <1>1, <1>2, <1>3, <1>4
  <2>2. Plus(a, 4) \in Byte BY <1>1, <1>2, <1>4, <2>1 DEF Byte
  <2> QED BY <1>2, <1>4, <2>1, <2>2, WordUnique DEF w, o
<1>5. CASE ~(w + 1 < Words)
  <2>1. w = Words - 1 BY <1>1, <1>2, <1>5
  <2>2. Plus(a, 4) = 4 * 0 + o /\ 0 \in Int BY <1>1, <1>2, <1>3, <2>1
  <2>3. Plus(a, 4) \in Byte BY <1>1, <1>2, <2>2 DEF Byte
  <2> QED BY <1>2, <1>5, <2>2, <2>3, WordUnique DEF w, o
<1> QED BY <1>4, <1>5

LEMMA SecondWord ==
  ASSUME NEW acc \in Access
  PROVE  /\ acc.addr \in Byte /\ Second(acc) \in Byte
         /\ Second(acc) = 4 * WordOf(Plus(acc.addr, 4))
         /\ WordOf(Second(acc)) = WordOf(Plus(acc.addr, 4))
         /\ WordOf(acc.addr) \in Word /\ WordOf(Second(acc)) \in Word
<1>1. acc.addr \in Byte BY DEF Access
<1>2. Plus(acc.addr, 4) \in Byte BY <1>1, NextWord
<1>3. Second(acc) = 4 * WordOf(Plus(acc.addr, 4)) BY <1>2, WordStarts DEF Second
<1>4. WordOf(Plus(acc.addr, 4)) \in Word BY <1>2, WordStarts
<1>5. WordOf(Second(acc)) = WordOf(Plus(acc.addr, 4))
  BY <1>3, <1>4, WordUnique DEF Word
<1>6. Second(acc) \in Byte BY <1>2, AddressTypes DEF Second
<1> QED BY <1>1, <1>3, <1>4, <1>5, <1>6, WordStarts

\* Where each byte of an access lies.
LEMMA BytePlaces ==
  ASSUME NEW acc \in Access, NEW k \in 0..(acc.size - 1)
  PROVE  /\ Offset(acc.addr) + k <= 3 =>
              /\ ByteOf(acc, k) = 4 * WordOf(acc.addr) + Offset(acc.addr) + k
              /\ WordOf(ByteOf(acc, k)) = WordOf(acc.addr)
         /\ Offset(acc.addr) + k > 3 =>
              /\ Splits(acc)
              /\ ByteOf(acc, k) = Second(acc) + (Offset(acc.addr) + k - 4)
              /\ WordOf(ByteOf(acc, k)) = WordOf(Second(acc))
<1>1. Words \in Nat \ {0} BY WordsAssumption
<1>2. acc.addr \in Byte /\ acc.size \in {1, 2, 4} BY DEF Access
<1> DEFINE a == acc.addr
           w == WordOf(a)
           o == Offset(a)
           v == WordOf(Plus(a, 4))
<1>3. a = 4 * w + o /\ w \in 0..(Words - 1) /\ o \in 0..3 BY <1>2, WordStarts DEF Word
<1>4. k \in 0..4 /\ k <= 3 BY <1>2
<1>5. Plus(a, k) = IF a + k < 4 * Words THEN a + k ELSE a + k - 4 * Words
  BY <1>2, <1>4, Adds
<1>6. v = IF w + 1 < Words THEN w + 1 ELSE 0 BY <1>2, NextWord
<1>7. Second(acc) = 4 * v /\ WordOf(Second(acc)) = v BY SecondWord
<1>8. ByteOf(acc, k) = Plus(a, k) BY DEF ByteOf
<1> HIDE DEF w, o, v
<1>9. CASE o + k <= 3
  <2>1. Plus(a, k) = 4 * w + (o + k) /\ o + k \in 0..3 BY <1>1, <1>3, <1>4, <1>5, <1>9
  <2>2. w \in Int BY <1>3
  <2>3. WordOf(Plus(a, k)) = w BY <2>1, <2>2, WordUnique
  <2> QED BY <1>3, <1>4, <1>8, <1>9, <2>1, <2>3 DEF w, o
<1>10. CASE o + k > 3
  <2>1. o + k - 4 \in 0..3 BY <1>3, <1>4, <1>10
  <2>2. v \in Int BY <1>1, <1>3, <1>6
  <2>3. Plus(a, k) = 4 * v + (o + k - 4)
    <3>1. CASE w + 1 < Words BY <1>1, <1>3, <1>4, <1>5, <1>6, <2>1, <3>1
    <3>2. CASE ~(w + 1 < Words)
      <4>1. w = Words - 1 /\ v = 0 BY <1>1, <1>3, <1>6, <3>2
      <4> QED BY <1>1, <1>3, <1>4, <1>5, <2>1, <4>1
    <3> QED BY <3>1, <3>2
  <2>4. WordOf(Plus(a, k)) = v BY <2>1, <2>2, <2>3, WordUnique
  <2>5. Splits(acc) BY <1>2, <1>3, <1>4, <1>10 DEF Splits, o
  <2> QED BY <1>3, <1>4, <1>7, <1>8, <1>10, <2>3, <2>4, <2>5 DEF o
<1> QED BY <1>3, <1>4, <1>9, <1>10 DEF o

-----------------------------------------------------------------------------
(* Stores *)

LEMMA FirstStore ==
  ASSUME TypeOK, id # NoAccess, ~handle_misaligned_q, data_addr = id.addr,
         NEW in \in Inputs, Requesting(in), in.gnt
  PROVE  Stored(in) = StoredFirst(mem, id)
<1>1. id \in Access BY AccessTypes, AccessesAssumption
<1> DEFINE off == Offset(id.addr)
           lanes == {lane \in 0..3 : lane \in off..(off + id.size - 1)}
<1>2. id.addr \in Byte /\ id.size \in {1, 2, 4} BY <1>1 DEF Access
<1>3. off \in 0..3 /\ Aligned(id.addr) = 4 * WordOf(id.addr) /\ WordOf(id.addr) \in Int
  BY <1>2, WordStarts DEF Word
<1>4. data_be = lanes BY DEF data_be
<1>5. Stored(in) = IF ~Bad(mem, id.addr) /\ id.we
                   THEN {<<Aligned(id.addr) + lane, (lane - off) % 4>> : lane \in lanes}
                   ELSE {}
  <2>1. Granted(in) <=> WordOf(id.addr) \notin mem.denied
    BY DEF Granted, data_req, pmp_err
  <2>2. (WordOf(id.addr) \notin mem.denied /\ WordOf(id.addr) \notin mem.faulty)
           <=> ~Bad(mem, id.addr)
    BY DEF Bad
  <2> QED BY <1>4, <2>1, <2>2 DEF Stored, data_wdata
<1>6. {<<Aligned(id.addr) + lane, (lane - off) % 4>> : lane \in lanes}
         = {<<ByteOf(id, k), k>> : k \in InFirst(id)}
  <2> DEFINE base == Aligned(id.addr)
             Ks == InFirst(id)
             shift == -off
  <2>1. \A k \in Ks : k \in Int /\ ByteOf(id, k) = base + (k - shift)
    BY <1>1, <1>2, <1>3, BytePlaces DEF InFirst
  <2> HIDE DEF off
  <2>2. \A lane \in lanes : lane + shift \in Ks BY <1>2, <1>3 DEF InFirst, off
  <2>3. \A k \in Ks : k - shift \in lanes BY <1>2, <1>3 DEF InFirst, off
  <2>4. \A lane \in lanes : (lane - off) % 4 = lane + shift BY <1>2, <1>3, SMT
  <2>5. lanes \in SUBSET (0..3) /\ shift \in Int BY <1>3
  <2> HIDE DEF lanes, Ks, base, shift
  <2>6. ASSUME NEW lane \in lanes
        PROVE  \E k \in Ks : <<base + lane, (lane - off) % 4>> = <<ByteOf(id, k), k>>
    <3>1. PICK k \in Ks : k = lane + shift BY <2>2
    <3>2. (lane - off) % 4 = k BY <2>4, <3>1
    <3>3. k - shift = lane BY <2>5, <3>1
    <3>4. ByteOf(id, k) = base + lane BY <2>1, <3>3
    <3> QED BY <3>2, <3>4
  <2>7. ASSUME NEW k \in Ks
        PROVE  \E lane \in lanes : <<base + lane, (lane - off) % 4>> = <<ByteOf(id, k), k>>
    <3>1. PICK lane \in lanes : lane = k - shift BY <2>3
    <3>2. lane + shift = k BY <2>1, <2>5, <3>1
    <3>3. (lane - off) % 4 = k BY <2>4, <3>2
    <3>4. ByteOf(id, k) = base + lane BY <2>1, <3>1
    <3> QED BY <3>3, <3>4
  <2>8. {<<base + lane, (lane - off) % 4>> : lane \in lanes}
          = {<<ByteOf(id, k), k>> : k \in Ks}
    BY <2>6, <2>7
  <2> QED BY <2>8 DEF base, Ks
<1> QED BY <1>5, <1>6 DEF StoredFirst

LEMMA SecondStore ==
  ASSUME TypeOK, id # NoAccess, handle_misaligned_q, data_addr = Plus(id.addr, 4),
         Splits(id), NEW in \in Inputs, Requesting(in), in.gnt
  PROVE  Stored(in) = StoredSecond(mem, id)
<1>1. id \in Access BY AccessTypes, AccessesAssumption
<1> DEFINE off == Offset(id.addr)
           lanes == {lane \in 0..3 : lane < IF id.size = 4 THEN off ELSE 1}
<1>2. id.addr \in Byte /\ id.size \in {1, 2, 4} /\ off + id.size > 4
  BY <1>1 DEF Access, Splits
<1>3. off \in 0..3 BY <1>2, WordStarts
<1>4. Plus(id.addr, 4) \in Byte /\ Offset(data_addr) = off BY <1>2, NextWord
<1>5. data_be = lanes BY <1>4 DEF data_be
<1>6. Aligned(data_addr) = Second(id) /\ Second(id) \in Byte
      /\ WordOf(data_addr) = WordOf(Second(id))
  BY <1>1, SecondWord DEF Second
<1>7. Stored(in) = IF ~Bad(mem, Second(id)) /\ id.we
                   THEN {<<Second(id) + lane, (lane - off) % 4>> : lane \in lanes}
                   ELSE {}
  <2>1. Granted(in) <=> WordOf(Second(id)) \notin mem.denied
    BY <1>6 DEF Granted, data_req, pmp_err
  <2>2. (WordOf(Second(id)) \notin mem.denied /\ WordOf(Second(id)) \notin mem.faulty)
           <=> ~Bad(mem, Second(id))
    BY DEF Bad
  <2> QED BY <1>4, <1>5, <1>6, <2>1, <2>2 DEF Stored, data_wdata
<1>8. {<<Second(id) + lane, (lane - off) % 4>> : lane \in lanes}
         = {<<ByteOf(id, k), k>> : k \in InSecond(id)}
  <2> DEFINE base == Second(id)
             Ks == InSecond(id)
             shift == 4 - off
  <2>1. \A k \in Ks : k \in Int /\ ByteOf(id, k) = base + (k - shift)
    <3> SUFFICES ASSUME NEW k \in Ks PROVE k \in Int /\ ByteOf(id, k) = base + (k - shift)
      OBVIOUS
    <3>1. k \in 0..(id.size - 1) /\ off + k > 3 BY DEF InSecond
    <3>2. ByteOf(id, k) = base + (off + k - 4) BY <1>1, <3>1, BytePlaces
    <3>3. off + k - 4 = k - shift BY <1>2, <1>3, <3>1
    <3> QED BY <3>1, <3>2, <3>3
  <2> HIDE DEF off
  <2>2. \A lane \in lanes : lane + shift \in Ks BY <1>2, <1>3 DEF InSecond, off
  <2>3. \A k \in Ks : k - shift \in lanes BY <1>2, <1>3 DEF InSecond, off
  <2>4. \A lane \in lanes : (lane - off) % 4 = lane + shift BY <1>2, <1>3, SMT
  <2>5. lanes \in SUBSET (0..3) /\ shift \in Int BY <1>3
  <2> HIDE DEF lanes, Ks, base, shift
  <2>6. ASSUME NEW lane \in lanes
        PROVE  \E k \in Ks : <<base + lane, (lane - off) % 4>> = <<ByteOf(id, k), k>>
    <3>1. PICK k \in Ks : k = lane + shift BY <2>2
    <3>2. (lane - off) % 4 = k BY <2>4, <3>1
    <3>3. k - shift = lane BY <2>5, <3>1
    <3>4. ByteOf(id, k) = base + lane BY <2>1, <3>3
    <3> QED BY <3>2, <3>4
  <2>7. ASSUME NEW k \in Ks
        PROVE  \E lane \in lanes : <<base + lane, (lane - off) % 4>> = <<ByteOf(id, k), k>>
    <3>1. PICK lane \in lanes : lane = k - shift BY <2>3
    <3>2. lane + shift = k BY <2>1, <2>5, <3>1
    <3>3. (lane - off) % 4 = k BY <2>4, <3>2
    <3>4. ByteOf(id, k) = base + lane BY <2>1, <3>1
    <3> QED BY <3>3, <3>4
  <2>8. {<<base + lane, (lane - off) % 4>> : lane \in lanes}
          = {<<ByteOf(id, k), k>> : k \in Ks}
    BY <2>6, <2>7
  <2> QED BY <2>8 DEF base, Ks
<1> QED BY <1>7, <1>8 DEF StoredSecond

-----------------------------------------------------------------------------
(* The response *)
LEMMA Untaken ==
  ASSUME NEW acc \in Access, ~Splits(acc)
  PROVE  InSecond(acc) = {}
<1>1. acc.addr \in Byte /\ acc.size \in {1, 2, 4} BY DEF Access
<1>2. Offset(acc.addr) \in 0..3 BY <1>1, WordStarts
<1> QED BY <1>1, <1>2 DEF InSecond, Splits

\* An access fails at its first address, or else at the start of its second word.
LEMMA Faults ==
  ASSUME NEW m, NEW acc \in Access
  PROVE  /\ (FaultOf(m, acc) # -1) <=> (Bad(m, acc.addr) \/ (Splits(acc) /\ Bad(m, Second(acc))))
         /\ Bad(m, acc.addr) => FaultOf(m, acc) = acc.addr
         /\ ~Bad(m, acc.addr) /\ Splits(acc) /\ Bad(m, Second(acc)) =>
               FaultOf(m, acc) = Second(acc)
         /\ ~Bad(m, acc.addr) /\ ~(Splits(acc) /\ Bad(m, Second(acc))) =>
               FaultOf(m, acc) = -1
<1>1. acc.addr # -1 /\ Second(acc) # -1 BY SecondWord DEF Byte
<1> QED BY <1>1 DEF FaultOf

\* All bytes of a store are those of its two halves.
LEMMA WrittenWhole ==
  ASSUME NEW m, NEW acc \in Access
  PROVE  ResultOf(m, acc).written = StoredFirst(m, acc) \cup StoredSecond(m, acc)
<1> DEFINE F == IF acc.we /\ ~Bad(m, acc.addr) THEN InFirst(acc) ELSE {}
           G == IF acc.we /\ ~Bad(m, Second(acc)) THEN InSecond(acc) ELSE {}
           K == {j \in 0..(acc.size - 1) : ~Bad(m, ByteOf(acc, j))}
<1>1. acc.addr \in Byte /\ acc.size \in {1, 2, 4} /\ Offset(acc.addr) \in 0..3
  BY WordStarts DEF Access
<1>2. CASE ~acc.we
  <2>1. F = {} /\ G = {} BY <1>2
  <2>2. ResultOf(m, acc).written = {} BY <1>2 DEF ResultOf
  <2> QED BY <2>1, <2>2 DEF StoredFirst, StoredSecond
<1>3. CASE acc.we
  <2>1. ASSUME NEW j \in 0..(acc.size - 1)
        PROVE  j \in K <=> j \in F \cup G
    <3>1. CASE Offset(acc.addr) + j <= 3
      <4>1. Bad(m, ByteOf(acc, j)) <=> Bad(m, acc.addr) BY <3>1, BytePlaces DEF Bad
      <4>2. j \notin InSecond(acc) /\ j \in InFirst(acc)
        BY <1>1, <3>1 DEF InFirst, InSecond
      <4> QED BY <1>3, <4>1, <4>2
    <3>2. CASE Offset(acc.addr) + j > 3
      <4>1. Bad(m, ByteOf(acc, j)) <=> Bad(m, Second(acc)) BY <3>2, BytePlaces DEF Bad
      <4>2. j \in InSecond(acc) /\ j \notin InFirst(acc)
        BY <1>1, <3>2 DEF InFirst, InSecond
      <4> QED BY <1>3, <4>1, <4>2
    <3> QED BY <1>1, <3>1, <3>2
  <2>2. F \cup G \subseteq 0..(acc.size - 1) BY DEF InFirst, InSecond
  <2>3. K = F \cup G BY <2>1, <2>2
  <2>4. ResultOf(m, acc).written = {<<ByteOf(acc, k), k>> : k \in K} BY <1>3 DEF ResultOf
  <2>5. /\ StoredFirst(m, acc) = {<<ByteOf(acc, k), k>> : k \in F}
        /\ StoredSecond(m, acc) = {<<ByteOf(acc, k), k>> : k \in G}
    BY DEF StoredFirst, StoredSecond
  <2> HIDE DEF F, G, K
  <2>6. {<<ByteOf(acc, k), k>> : k \in F \cup G}
          = {<<ByteOf(acc, k), k>> : k \in F} \cup {<<ByteOf(acc, k), k>> : k \in G}
    OBVIOUS
  <2> QED BY <2>3, <2>4, <2>5, <2>6
<1> QED BY <1>2, <1>3

\* The bytes a load returns, from the word read now and the one read before.
LEMMA DataWhole ==
  ASSUME NEW acc \in Access, ctrl_q = Control(acc),
         Head(flight) = LastWord(acc), Splits(acc) => rdata_q = WordOf(acc.addr)
  PROVE  rdata_ext = [k \in 1..acc.size |-> ByteOf(acc, k - 1)]
<1> DEFINE off == Offset(acc.addr)
<1>1. acc.addr \in Byte /\ acc.size \in {1, 2, 4} /\ off \in 0..3
  BY WordStarts DEF Access
<1>2. ctrl_q.offset = off /\ ctrl_q.size = acc.size BY DEF Control
<1>3. Second(acc) = 4 * WordOf(Second(acc)) /\ WordOf(Second(acc)) \in Int
      /\ WordOf(acc.addr) \in Int
  BY SecondWord DEF Word
<1> HIDE DEF off
<1>4. Splits(acc) <=> off + acc.size > 4 BY DEF Splits, off
<1> DEFINE value(k) == LET lane == off + k - 1
                       IN  IF lane > 3 THEN 4 * Head(flight) + lane - 4
                           ELSE IF off + acc.size > 4 THEN 4 * rdata_q + lane
                           ELSE 4 * Head(flight) + lane
<1>5. rdata_ext = [k \in 1..acc.size |-> value(k)] BY <1>2 DEF rdata_ext
<1>6. ASSUME NEW k \in 1..acc.size
      PROVE  value(k) = ByteOf(acc, k - 1)
  <2>1. k - 1 \in 0..(acc.size - 1) /\ k \in Int BY <1>1
  <2>2. CASE off + k - 1 > 3
    <3>1. off + (k - 1) > 3 BY <1>1, <2>1, <2>2
    <3>2. Splits(acc) /\ ByteOf(acc, k - 1) = Second(acc) + (off + (k - 1) - 4)
      BY <2>1, <3>1, BytePlaces DEF off
    <3>3. Head(flight) = WordOf(Second(acc)) BY <3>2 DEF LastWord
    <3>4. value(k) = 4 * Head(flight) + (off + k - 1) - 4 BY <2>2
    <3> QED BY <1>1, <1>3, <2>1, <3>2, <3>3, <3>4
  <2>3. CASE ~(off + k - 1 > 3)
    <3>1. off + (k - 1) <= 3 BY <1>1, <2>1, <2>3
    <3>2. ByteOf(acc, k - 1) = 4 * WordOf(acc.addr) + off + (k - 1)
      BY <2>1, <3>1, BytePlaces DEF off
    <3>3. value(k) = 4 * WordOf(acc.addr) + (off + k - 1)
      <4>1. CASE Splits(acc) BY <1>4, <2>3, <4>1
      <4>2. CASE ~Splits(acc)
        <5>1. Head(flight) = WordOf(acc.addr) BY <4>2 DEF LastWord
        <5> QED BY <1>4, <2>3, <4>2, <5>1
      <4> QED BY <4>1, <4>2
    <3> QED BY <1>1, <1>3, <2>1, <3>2, <3>3
  <2> QED BY <2>2, <2>3
<1> HIDE DEF value
<1> QED BY <1>5, <1>6

LEMMA PendingTypes ==
  ASSUME TypeOK, wb # NoAccess
  PROVE  wb \in Access /\ wb \in Accesses
  BY AccessesAssumption DEF TypeOK

\* What is answered at last is the whole access.
LEMMA Answers ==
  ASSUME AInv, NEW in \in Inputs, Drivable(in), lsu_resp_valid(in)
  PROVE  /\ wb \in Access
         /\ resp_err(in) <=> FaultOf(mem, wb) # -1
         /\ Response(in) = ResultOf(mem, wb)
<1>1. Idle /\ (in.rvalid \/ pmp_err_q) BY DEF lsu_resp_valid
<1>2. flight \in Seq(Word) /\ TypeOK BY DEF AInv, Inv, TypeOK
<1>3. in.rvalid => flight # <<>> BY DEF Drivable
<1>4. wb # NoAccess BY <1>1, <1>3 DEF AInv, Inv, OnlyPending
<1>5. wb \in Access /\ Left(wb) BY <1>1, <1>2, <1>4, PendingTypes DEF AInv, AllButAnswer
<1>6. pmp_err_q => ~in.rvalid
  <2>1. pmp_err_q => Len(flight) = 0 BY <1>1 DEF AInv, Inv, InStep
  <2> QED BY <1>2, <1>3, <2>1
<1>7. in.rvalid => Head(flight) = LastWord(wb) BY <1>5, <1>6 DEF Left
<1>8. data_or_pmp_err(in) <=> lsu_err_q \/ LastWord(wb) \in mem.faulty \cup mem.denied
  BY <1>1, <1>5, <1>6, <1>7 DEF data_or_pmp_err, bus_err, Left
<1>9. LastWord(wb) \in mem.faulty \cup mem.denied <=>
         IF Splits(wb) THEN Bad(mem, Second(wb)) ELSE Bad(mem, wb.addr)
  BY DEF LastWord, Bad
<1>10. resp_err(in) <=> data_or_pmp_err(in) BY DEF resp_err
<1>11. lsu_err_q <=> Splits(wb) /\ Bad(mem, wb.addr) BY <1>5 DEF Left
<1>12. resp_err(in) <=> FaultOf(mem, wb) # -1 BY <1>5, <1>8, <1>9, <1>10, <1>11, Faults
<1>13. (IF resp_err(in) THEN addr_last_q ELSE -1) = FaultOf(mem, wb)
  <2>1. addr_last_q = IF Splits(wb) /\ ~lsu_err_q THEN Second(wb) ELSE wb.addr
    BY <1>5 DEF Left
  <2>2. CASE ~resp_err(in) BY <1>12, <2>2
  <2>3. CASE resp_err(in) BY <1>5, <1>8, <1>9, <1>10, <1>11, <2>1, <2>3, Faults
  <2> QED BY <2>2, <2>3
<1>14. ctrl_q = Control(wb) /\ written = StoredFirst(mem, wb) \cup StoredSecond(mem, wb)
  BY <1>5 DEF Left
<1>15. [addr |-> wb.addr, size |-> ctrl_q.size, signed |-> ctrl_q.signed, we |-> ctrl_q.we] = wb
  BY <1>5, <1>14 DEF Control, Access
<1>16. (IF lsu_rdata_valid(in) THEN rdata_ext ELSE <<>>)
          = IF wb.we \/ FaultOf(mem, wb) # -1 THEN <<>>
            ELSE [k \in 1..wb.size |-> ByteOf(wb, k - 1)]
  <2>1. ctrl_q.we = wb.we BY <1>14 DEF Control
  <2>2. CASE wb.we \/ FaultOf(mem, wb) # -1
    BY <1>10, <1>12, <2>1, <2>2 DEF lsu_rdata_valid
  <2>3. CASE ~(wb.we \/ FaultOf(mem, wb) # -1)
    <3>1. ~data_or_pmp_err(in) /\ ~lsu_err_q BY <1>8, <1>10, <1>12, <2>3
    <3>2. in.rvalid BY <1>1, <3>1 DEF data_or_pmp_err
    <3>3. Splits(wb) => rdata_q = WordOf(wb.addr) BY <1>5, <2>3, <3>1 DEF Left
    <3>4. rdata_ext = [k \in 1..wb.size |-> ByteOf(wb, k - 1)]
      BY <1>5, <1>7, <1>14, <3>2, <3>3, DataWhole
    <3>5. lsu_rdata_valid(in) BY <1>1, <2>1, <2>3, <3>1, <3>2 DEF lsu_rdata_valid
    <3> QED BY <2>3, <3>4, <3>5
  <2> QED BY <2>2, <2>3
<1>17. ResultOf(mem, wb).written = written BY <1>5, <1>14, WrittenWhole
<1>18. Response(in) = ResultOf(mem, wb)
  BY <1>13, <1>15, <1>16, <1>17 DEF Response, ResultOf
<1> QED BY <1>5, <1>12, <1>18

-----------------------------------------------------------------------------
(* What the address phase drives for either half. *)
LEMMA FirstDriven ==
  ASSUME TypeOK, id # NoAccess, ~addr_incr_req
  PROVE  /\ id \in Access /\ data_addr = id.addr
         /\ pmp_err <=> Denied1(mem, id)
         /\ [offset |-> Offset(data_addr), size |-> id.size, signed |-> id.signed,
             we |-> id.we] = Control(id)
  BY AccessTypes, AccessesAssumption DEF data_addr, pmp_err, Denied1, Control

LEMMA SecondDriven ==
  ASSUME TypeOK, id # NoAccess, addr_incr_req, addr_last_q = id.addr
  PROVE  /\ id \in Access /\ data_addr = Plus(id.addr, 4)
         /\ Aligned(data_addr) = Second(id) /\ WordOf(data_addr) = WordOf(Second(id))
         /\ pmp_err <=> Denied2(mem, id)
         /\ [offset |-> Offset(data_addr), size |-> id.size, signed |-> id.signed,
             we |-> id.we] = Control(id)
<1>1. id \in Access BY AccessTypes, AccessesAssumption
<1>2. data_addr = Plus(id.addr, 4) BY DEF data_addr
<1>3. id.addr \in Byte BY <1>1, SecondWord
<1>4. Offset(data_addr) = Offset(id.addr) BY <1>2, <1>3, NextWord
<1>5. WordOf(data_addr) = WordOf(Second(id)) BY <1>1, <1>2, SecondWord
<1> QED BY <1>1, <1>2, <1>4, <1>5 DEF Second, pmp_err, Denied2, Control

-----------------------------------------------------------------------------
(* The invariant of the next state, spelled out *)
Known == Untouched /\ HalfAsked /\ HalfDone /\ BothAsked /\ AllButAnswer

LEMMA Released ==
  ASSUME ls_fsm_cs' = "IDLE", wb' = NoAccess
  PROVE  Known'
  BY DEF Known, Untouched, HalfAsked, HalfDone, BothAsked, AllButAnswer

LEMMA LeftNext ==
  ASSUME NEW a, ls_fsm_cs' = "IDLE", wb' = a, mem' = mem,
         ctrl_q' = Control(a),
         pmp_err_q' <=> LastWord(a) \in mem.denied,
         ~pmp_err_q' => flight' = <<LastWord(a)>>,
         lsu_err_q' <=> Splits(a) /\ Bad(mem, a.addr),
         addr_last_q' = IF Splits(a) /\ ~lsu_err_q' THEN Second(a) ELSE a.addr,
         Splits(a) /\ ~a.we /\ ~lsu_err_q' => rdata_q' = WordOf(a.addr),
         written' = StoredFirst(mem, a) \cup StoredSecond(mem, a)
  PROVE  Known'
<1>1. Left(wb)' BY DEF Left
<1> QED BY <1>1 DEF Known, Untouched, HalfAsked, HalfDone, BothAsked, AllButAnswer

LEMMA UntouchedNext ==
  ASSUME ls_fsm_cs' = IF Splits(id) THEN "WAIT_GNT_MIS" ELSE "WAIT_GNT",
         ~handle_misaligned_q', id' = id, written' = {}, ~lsu_err_q'
  PROVE  Known'
  BY DEF Known, Untouched, HalfAsked, HalfDone, BothAsked, AllButAnswer, Idle

LEMMA HalfAskedNext ==
  ASSUME ls_fsm_cs' = "WAIT_RVALID_MIS", id' = id, mem' = mem, Splits(id),
         ctrl_q' = Control(id), addr_last_q' = id.addr, ~lsu_err_q',
         pmp_err_q' <=> Denied1(mem, id),
         ~pmp_err_q' => flight' = <<WordOf(id.addr)>>,
         written' = StoredFirst(mem, id)
  PROVE  Known'
<1>1. HalfAsked' BY DEF HalfAsked
<1> QED BY <1>1 DEF Known, Untouched, HalfDone, BothAsked, AllButAnswer, Idle

LEMMA HalfDoneNext ==
  ASSUME ls_fsm_cs' = "WAIT_GNT", handle_misaligned_q', id' = id, mem' = mem, Splits(id),
         ctrl_q' = Control(id), addr_last_q' = id.addr,
         lsu_err_q' <=> Bad(mem, id.addr),
         ~id.we /\ ~lsu_err_q' => rdata_q' = WordOf(id.addr),
         written' = StoredFirst(mem, id)
  PROVE  Known'
<1>1. HalfDone' BY DEF HalfDone
<1> QED BY <1>1 DEF Known, Untouched, HalfAsked, BothAsked, AllButAnswer, Idle

LEMMA BothAskedNext ==
  ASSUME ls_fsm_cs' = "WAIT_RVALID_MIS_GNTS_DONE", id' = id, mem' = mem, Splits(id),
         ctrl_q' = Control(id), addr_last_q' = id.addr,
         ~lsu_err_q', ~pmp_err_q', ~Denied1(mem, id),
         flight' = IF Denied2(mem, id) THEN <<WordOf(id.addr)>>
                   ELSE <<WordOf(id.addr), WordOf(Second(id))>>,
         written' = StoredFirst(mem, id) \cup StoredSecond(mem, id)
  PROVE  Known'
<1>1. BothAsked' BY DEF BothAsked
<1> QED BY <1>1 DEF Known, Untouched, HalfAsked, HalfDone, AllButAnswer, Idle

-----------------------------------------------------------------------------
(* One clock edge *)

\* The registers and the bus after the edge, by the parts of S.
LEMMA Edge ==
  ASSUME NEW in \in Inputs, Cycle(in)
  PROVE  /\ mem' = mem /\ Drivable(in)
         /\ ls_fsm_cs' = S(in).ns /\ handle_misaligned_q' = S(in).mis
         /\ pmp_err_q' = S(in).pmp /\ lsu_err_q' = S(in).err
         /\ "ctrl" \in S(in).upd =>
              ctrl_q' = [offset |-> Offset(data_addr), size |-> id.size,
                         signed |-> id.signed, we |-> id.we]
         /\ "ctrl" \notin S(in).upd => ctrl_q' = ctrl_q
         /\ "addr" \in S(in).upd =>
              addr_last_q' = IF addr_incr_req THEN Aligned(data_addr) ELSE data_addr
         /\ "addr" \notin S(in).upd => addr_last_q' = addr_last_q
         /\ "rdata" \in S(in).upd /\ in.rvalid => rdata_q' = Head(flight)
         /\ ~("rdata" \in S(in).upd /\ in.rvalid) => rdata_q' = rdata_q
         /\ flight' = IF Granted(in)
                      THEN Append(IF in.rvalid THEN Tail(flight) ELSE flight,
                                  WordOf(data_addr))
                      ELSE IF in.rvalid THEN Tail(flight) ELSE flight
         /\ written' = (IF Idle /\ (lsu_req(in) \/ lsu_resp_valid(in)) THEN {} ELSE written)
                         \cup Stored(in)
  BY DEF Cycle, Unit, Bus

LEMMA GoParts ==
  ASSUME NEW g, NEW ns, NEW mis, NEW pmp, NEW err, NEW upd,
         g = Go(ns, mis, pmp, err, upd)
  PROVE  g.ns = ns /\ g.mis = mis /\ g.pmp = pmp /\ g.err = err /\ g.upd = upd
  BY DEF Go

\* The bus has at most two transfers in flight.
LEMMA OneLeft ==
  ASSUME NEW f \in Seq(Word), Len(f) = 1
  PROVE  Tail(f) = <<>>
<1>1. f # <<>> BY EmptySeq
<1>2. Tail(f) \in Seq(Word) /\ Len(Tail(f)) = 0 BY <1>1
<1> QED BY <1>2, EmptySeq

LEMMA Pair ==
  ASSUME NEW x \in Word, NEW y \in Word
  PROVE  Append(<<x>>, y) = <<x, y>>
<1> DEFINE s == Append(<<x>>, y)
           t == <<x, y>>
<1>1. s \in Seq(Word) /\ t \in Seq(Word) OBVIOUS
<1>2. Len(s) = 2 /\ Len(t) = 2 OBVIOUS
<1>3. s[1] = x /\ s[2] = y /\ t[1] = x /\ t[2] = y OBVIOUS
<1> HIDE DEF s, t
<1>4. \A i \in 1..Len(s) : s[i] = t[i] BY <1>2, <1>3
<1>5. s = t BY <1>1, <1>2, <1>4, SeqEqual
<1> QED BY <1>5 DEF s, t

LEMMA NotGranted ==
  ASSUME NEW in, ~Requesting(in) \/ ~in.gnt \/ pmp_err
  PROVE  ~Granted(in) /\ Stored(in) = {}
<1>1. ~Granted(in) BY DEF Granted, data_req
<1> QED BY <1>1 DEF Stored

LEMMA DeniedStores ==
  ASSUME NEW m, NEW a
  PROVE  /\ Denied1(m, a) => StoredFirst(m, a) = {}
         /\ Denied2(m, a) => StoredSecond(m, a) = {}
  BY DEF Denied1, Denied2, StoredFirst, StoredSecond, Bad

LEMMA IdleKnown ==
  ASSUME AInv, NEW in \in Inputs, Cycle(in), Idle
  PROVE  Known'
<1>0. Inv /\ TypeOK /\ AllButAnswer /\ Drivable(in) BY DEF AInv, Inv, Cycle
<1>1. ls_fsm_cs = "IDLE" /\ S(in) = StartAccess(in) BY DEF S, Idle
<1>2. CASE ~lsu_req(in)
  <2>1. S(in) = Go("IDLE", handle_misaligned_q, FALSE, lsu_err_q, {})
    BY <1>1, <1>2 DEF StartAccess
  <2>2. /\ ls_fsm_cs' = "IDLE" /\ ~pmp_err_q' /\ lsu_err_q' = lsu_err_q /\ mem' = mem
        /\ ctrl_q' = ctrl_q /\ addr_last_q' = addr_last_q /\ rdata_q' = rdata_q
    BY <2>1, Edge DEF Go
  <2>3. wb' = IF lsu_resp_valid(in) THEN NoAccess ELSE wb BY <1>0, <1>2, IdleMoves
  <2>4. CASE lsu_resp_valid(in) \/ wb = NoAccess BY <2>2, <2>3, <2>4, Released
  <2>5. CASE ~(lsu_resp_valid(in) \/ wb = NoAccess)
    <3>1. ~in.rvalid /\ ~pmp_err_q /\ wb' = wb BY <2>3, <2>5 DEF lsu_resp_valid
    <3>2. Left(wb) BY <1>0, <2>5 DEF AllButAnswer
    <3>3. ~Granted(in) /\ Stored(in) = {}
      <4>1. ~Requesting(in) BY <1>2 DEF Requesting
      <4> QED BY <4>1, NotGranted
    <3>4. flight' = flight /\ written' = written BY <1>2, <2>5, <3>1, <3>3, Edge
    <3>5. LastWord(wb) \notin mem.denied BY <3>1, <3>2 DEF Left
    <3> QED BY <2>2, <3>1, <3>2, <3>4, <3>5, LeftNext DEF Left
  <2> QED BY <2>4, <2>5
<1>3. CASE lsu_req(in)
  <2>1. /\ id # NoAccess /\ ~resp_err(in) /\ ~pmp_err_q /\ ~handle_misaligned_q
        /\ Len(flight) = (IF in.rvalid THEN 1 ELSE 0)
    BY <1>0, <1>3, RequestsInOrder
  <2>2. ~addr_incr_req BY <1>1, <2>1 DEF addr_incr_req
  <2>3. /\ id \in Access /\ data_addr = id.addr
        /\ pmp_err <=> Denied1(mem, id)
        /\ [offset |-> Offset(data_addr), size |-> id.size, signed |-> id.signed,
            we |-> id.we] = Control(id)
    BY <1>0, <2>1, <2>2, FirstDriven
  <2>4. Requesting(in) BY <1>3 DEF Requesting
  <2>5. written' = Stored(in) BY <1>3, Edge
  <2>6. (IF in.rvalid THEN Tail(flight) ELSE flight) = <<>>
    <3>1. flight \in Seq(Word) BY <1>0 DEF TypeOK
    <3>2. CASE in.rvalid
      <4>1. Len(flight) = 1 BY <2>1, <3>2
      <4>2. Tail(flight) = <<>> BY <3>1, <4>1, OneLeft
      <4> QED BY <3>2, <4>2
    <3>3. CASE ~in.rvalid BY <2>1, <3>1, <3>3
    <3> QED BY <3>2, <3>3
  <2>7. ~pmp_err /\ in.gnt => flight' = <<WordOf(id.addr)>>
    <3>1. ~pmp_err /\ in.gnt => Granted(in) BY <2>4 DEF Granted, data_req
    <3>2. ~pmp_err /\ in.gnt => flight' = Append(<<>>, WordOf(id.addr))
      BY <2>3, <2>6, <3>1, Edge
    <3> QED BY <3>2
  <2>8. in.gnt => Stored(in) = StoredFirst(mem, id)
    BY <1>0, <2>1, <2>3, <2>4, FirstStore
  <2>9. CASE ~in.gnt
    <3>1. S(in) = Go(IF split_misaligned_access THEN "WAIT_GNT_MIS" ELSE "WAIT_GNT",
                     handle_misaligned_q, pmp_err, FALSE, {})
      BY <1>1, <1>3, <2>9 DEF StartAccess
    <3>2. /\ ls_fsm_cs' = IF Splits(id) THEN "WAIT_GNT_MIS" ELSE "WAIT_GNT"
          /\ ~handle_misaligned_q' /\ ~lsu_err_q'
      BY <2>1, <3>1, Edge DEF Go, split_misaligned_access
    <3>3. id' = id BY <1>0, <1>3, <2>9, IdleMoves DEF Keeps
    <3>4. written' = {} BY <2>5, <2>9, NotGranted
    <3> QED BY <3>2, <3>3, <3>4, UntouchedNext
  <2>10. CASE in.gnt /\ Splits(id)
    <3>1. S(in) = Go("WAIT_RVALID_MIS", TRUE, pmp_err, FALSE, {"ctrl", "addr"})
      BY <1>1, <1>3, <2>10 DEF StartAccess, split_misaligned_access
    <3>2. /\ ls_fsm_cs' = "WAIT_RVALID_MIS" /\ (pmp_err_q' <=> pmp_err) /\ ~lsu_err_q'
          /\ ctrl_q' = Control(id) /\ addr_last_q' = id.addr /\ mem' = mem
      BY <2>2, <2>3, <3>1, Edge DEF Go
    <3>3. id' = id BY <1>0, <1>3, <2>10, IdleMoves DEF Keeps, split_misaligned_access
    <3> QED BY <2>3, <2>5, <2>7, <2>8, <2>10, <3>2, <3>3, HalfAskedNext
  <2>11. CASE in.gnt /\ ~Splits(id)
    <3>1. S(in) = Go("IDLE", split_misaligned_access, pmp_err, FALSE, {"ctrl", "addr"})
      BY <1>1, <1>3, <2>11 DEF StartAccess, split_misaligned_access
    <3>2. /\ ls_fsm_cs' = "IDLE" /\ (pmp_err_q' <=> pmp_err) /\ ~lsu_err_q'
          /\ ctrl_q' = Control(id) /\ addr_last_q' = id.addr /\ mem' = mem
      BY <2>2, <2>3, <3>1, Edge DEF Go
    <3>3. wb' = id BY <1>0, <1>3, <2>11, IdleMoves DEF split_misaligned_access
    <3>4. LastWord(id) = WordOf(id.addr) BY <2>11 DEF LastWord
    <3>5. StoredSecond(mem, id) = {} BY <2>3, <2>11, Untaken DEF StoredSecond
    <3>6. written' = StoredFirst(mem, id) \cup StoredSecond(mem, id)
      BY <2>5, <2>8, <2>11, <3>5
    <3>7. pmp_err_q' <=> LastWord(id) \in mem.denied BY <2>3, <3>2, <3>4 DEF Denied1
    <3> QED BY <2>7, <2>11, <3>2, <3>3, <3>4, <3>6, <3>7, LeftNext
  <2> QED BY <2>9, <2>10, <2>11
<1> QED BY <1>2, <1>3

LEMMA WaitGntMisKnown ==
  ASSUME AInv, NEW in \in Inputs, Cycle(in), ls_fsm_cs = "WAIT_GNT_MIS"
  PROVE  Known'
<1>0. Inv /\ TypeOK /\ ~Idle /\ Drivable(in) BY DEF AInv, Inv, Cycle, Idle
<1>1. id # NoAccess /\ ~handle_misaligned_q /\ (pmp_err_q <=> pmp_err)
  BY <1>0 DEF Inv, Serves, SecondHalf, KnowsDenial
<1>2. Splits(id) /\ written = {} /\ ~lsu_err_q BY DEF AInv, Untouched
<1>3. ~addr_incr_req BY <1>1 DEF addr_incr_req
<1>4. /\ id \in Access /\ data_addr = id.addr
      /\ pmp_err <=> Denied1(mem, id)
      /\ [offset |-> Offset(data_addr), size |-> id.size, signed |-> id.signed,
          we |-> id.we] = Control(id)
  BY <1>0, <1>1, <1>3, FirstDriven
<1>5. flight = <<>> /\ ~in.rvalid
  <2>1. Len(flight) = 0 /\ flight \in Seq(Word) BY <1>0 DEF Inv, InStep, TypeOK, Idle
  <2>2. flight = <<>> BY <2>1
  <2> QED BY <1>0, <2>2 DEF Drivable
<1>6. Requesting(in) BY <1>0 DEF Requesting
<1>7. S(in) = WaitGntMis(in) BY <1>0 DEF S
<1>8. written' = Stored(in) BY <1>0, <1>2, Edge
<1>9. CASE in.gnt \/ pmp_err_q
  <2>1. S(in) = Go("WAIT_RVALID_MIS", TRUE, pmp_err_q, lsu_err_q, {"ctrl", "addr"})
    BY <1>7, <1>9 DEF WaitGntMis
  <2>2. /\ ls_fsm_cs' = "WAIT_RVALID_MIS" /\ (pmp_err_q' <=> pmp_err_q) /\ ~lsu_err_q'
        /\ ctrl_q' = Control(id) /\ addr_last_q' = id.addr /\ mem' = mem
    BY <1>2, <1>3, <1>4, <2>1, Edge DEF Go
  <2>3. id' = id BY <1>0, <2>2, BusyKeeps DEF Keeps
  <2>4. ~pmp_err_q' => flight' = <<WordOf(id.addr)>>
    <3> SUFFICES ASSUME ~pmp_err_q' PROVE flight' = <<WordOf(id.addr)>> OBVIOUS
    <3>1. Granted(in) BY <1>1, <1>6, <1>9, <2>2 DEF Granted, data_req
    <3>2. flight' = Append(<<>>, WordOf(id.addr)) BY <1>4, <1>5, <3>1, Edge
    <3> QED BY <3>2
  <2>5. Stored(in) = StoredFirst(mem, id)
    <3>1. CASE in.gnt BY <1>0, <1>1, <1>4, <1>6, <3>1, FirstStore
    <3>2. CASE ~in.gnt BY <1>1, <1>4, <1>9, <3>2, NotGranted, DeniedStores
    <3> QED BY <3>1, <3>2
  <2> QED BY <1>1, <1>2, <1>4, <1>8, <2>2, <2>3, <2>4, <2>5, HalfAskedNext
<1>10. CASE ~(in.gnt \/ pmp_err_q)
  <2>1. S(in) = Stay BY <1>7, <1>10 DEF WaitGntMis
  <2>2. ls_fsm_cs' = "WAIT_GNT_MIS" /\ ~handle_misaligned_q' /\ ~lsu_err_q'
    BY <1>1, <1>2, <2>1, Edge DEF Stay, Go
  <2>3. id' = id BY <1>0, <2>2, BusyKeeps DEF Keeps
  <2>4. written' = {} BY <1>8, <1>10, NotGranted
  <2> QED BY <1>2, <2>2, <2>3, <2>4, UntouchedNext
<1> QED BY <1>9, <1>10

LEMMA WaitRvalidMisKnown ==
  ASSUME AInv, NEW in \in Inputs, Cycle(in), ls_fsm_cs = "WAIT_RVALID_MIS"
  PROVE  Known'
<1>0. Inv /\ TypeOK /\ ~Idle /\ Drivable(in) BY DEF AInv, Inv, Cycle, Idle
<1>1. id # NoAccess /\ handle_misaligned_q BY <1>0 DEF Inv, Serves, SecondHalf
<1>2. /\ Splits(id) /\ ctrl_q = Control(id) /\ addr_last_q = id.addr /\ ~lsu_err_q
      /\ pmp_err_q <=> Denied1(mem, id)
      /\ ~pmp_err_q => flight = <<WordOf(id.addr)>>
      /\ written = StoredFirst(mem, id)
  BY DEF AInv, HalfAsked
<1>3. addr_incr_req BY DEF addr_incr_req
<1>4. /\ id \in Access /\ data_addr = Plus(id.addr, 4)
      /\ Aligned(data_addr) = Second(id) /\ WordOf(data_addr) = WordOf(Second(id))
      /\ pmp_err <=> Denied2(mem, id)
  BY <1>0, <1>1, <1>2, <1>3, SecondDriven
<1>5. pmp_err_q => flight = <<>> /\ ~in.rvalid
  <2>1. pmp_err_q => Len(flight) = 0 BY <1>0 DEF Inv, InStep, Idle
  <2>2. pmp_err_q => flight = <<>> BY <1>0, <2>1 DEF TypeOK
  <2> QED BY <1>0, <2>2 DEF Drivable
<1>6. Requesting(in) BY <1>0 DEF Requesting
<1>7. S(in) = WaitRvalidMis(in) BY <1>0 DEF S
<1>8. written' = StoredFirst(mem, id) \cup Stored(in) BY <1>0, <1>2, Edge
<1>9. in.gnt => Stored(in) = StoredSecond(mem, id)
  BY <1>0, <1>1, <1>2, <1>4, <1>6, SecondStore
<1>10. Granted(in) <=> in.gnt /\ ~Denied2(mem, id)
  BY <1>4, <1>6 DEF Granted, data_req
<1>11. ctrl_q.we <=> id.we BY <1>2 DEF Control
<1>12. CASE in.rvalid \/ pmp_err_q
  <2> DEFINE err == bus_err(in) \/ pmp_err_q
             upd == (IF ctrl_q.we THEN {} ELSE {"rdata"}) \cup
                    (IF in.gnt /\ ~err THEN {"addr"} ELSE {})
             ns == IF in.gnt THEN "IDLE" ELSE "WAIT_GNT"
             mis == ~in.gnt
  <2>1. S(in) = Go(ns, mis, pmp_err, err, upd)
    BY <1>7, <1>12 DEF WaitRvalidMis
  <2>2. in.rvalid => Head(flight) = WordOf(id.addr) /\ Tail(flight) = <<>>
    <3> SUFFICES ASSUME in.rvalid
                 PROVE  Head(flight) = WordOf(id.addr) /\ Tail(flight) = <<>>
      OBVIOUS
    <3>1. flight = <<WordOf(id.addr)>> BY <1>2, <1>5
    <3> QED BY <3>1
  <2>3. err <=> Bad(mem, id.addr)
    <3>1. CASE pmp_err_q BY <1>2, <3>1 DEF Bad, Denied1
    <3>2. CASE ~pmp_err_q BY <1>2, <1>12, <2>2, <3>2 DEF Bad, Denied1, bus_err
    <3> QED BY <3>1, <3>2
  <2>4. ~id.we /\ ~err => "rdata" \in upd /\ in.rvalid BY <1>11, <1>12
  <2>5. "ctrl" \notin upd /\ ("addr" \in upd <=> in.gnt /\ ~err) OBVIOUS
  <2> HIDE DEF err, upd
  <2>6. /\ ls_fsm_cs' = (IF in.gnt THEN "IDLE" ELSE "WAIT_GNT")
        /\ (handle_misaligned_q' <=> ~in.gnt) /\ (pmp_err_q' <=> pmp_err)
        /\ (lsu_err_q' <=> err) /\ ctrl_q' = ctrl_q /\ mem' = mem
        /\ (in.gnt /\ ~err) => addr_last_q' = Second(id)
        /\ ~(in.gnt /\ ~err) => addr_last_q' = addr_last_q
        /\ ~id.we /\ ~err => rdata_q' = Head(flight)
    <3>1. /\ S(in).ns = ns /\ S(in).mis = mis /\ S(in).pmp = pmp_err /\ S(in).err = err
          /\ S(in).upd = upd
      <4> HIDE DEF ns, mis
      <4> QED BY <2>1, GoParts
    <3>2. /\ ls_fsm_cs' = ns /\ (handle_misaligned_q' <=> mis)
          /\ (pmp_err_q' <=> pmp_err) /\ (lsu_err_q' <=> err)
      BY <3>1, Edge
    <3>3. /\ ctrl_q' = ctrl_q /\ mem' = mem
          /\ (in.gnt /\ ~err) => addr_last_q' = Second(id)
          /\ ~(in.gnt /\ ~err) => addr_last_q' = addr_last_q
          /\ ~id.we /\ ~err => rdata_q' = Head(flight)
      BY <1>3, <1>4, <2>4, <2>5, <3>1, Edge
    <3> QED BY <3>1, <3>2, <3>3
  <2>7. ~id.we /\ ~err => rdata_q' = WordOf(id.addr) BY <2>2, <2>4, <2>6
  <2>8. CASE in.gnt
    <3>1. wb' = id BY <1>0, <2>6, <2>8, BusyKeeps
    <3>2. LastWord(id) = WordOf(Second(id)) BY <1>2 DEF LastWord
    <3>3. pmp_err_q' <=> LastWord(id) \in mem.denied BY <1>4, <2>6, <3>2 DEF Denied2
    <3>4. ~pmp_err_q' => flight' = <<LastWord(id)>>
      <4> SUFFICES ASSUME ~pmp_err_q' PROVE flight' = <<LastWord(id)>> OBVIOUS
      <4>1. Granted(in) BY <1>4, <1>10, <2>6, <2>8
      <4>2. (IF in.rvalid THEN Tail(flight) ELSE flight) = <<>> BY <1>5, <1>12, <2>2
      <4>3. flight' = Append(<<>>, WordOf(Second(id))) BY <1>4, <4>1, <4>2, Edge
      <4> QED BY <3>2, <4>3
    <3>5. written' = StoredFirst(mem, id) \cup StoredSecond(mem, id) BY <1>8, <1>9, <2>8
    <3>6. addr_last_q' = IF Splits(id) /\ ~lsu_err_q' THEN Second(id) ELSE id.addr
      BY <1>2, <2>6, <2>8
    <3> QED BY <1>2, <2>3, <2>6, <2>7, <2>8, <3>1, <3>3, <3>4, <3>5, <3>6, LeftNext
  <2>9. CASE ~in.gnt
    <3>1. id' = id BY <1>0, <2>6, <2>9, BusyKeeps DEF Keeps
    <3>2. written' = StoredFirst(mem, id) BY <1>8, <2>9, NotGranted
    <3> QED BY <1>2, <2>3, <2>6, <2>7, <2>9, <3>1, <3>2, HalfDoneNext
  <2> QED BY <2>8, <2>9
<1>13. CASE ~(in.rvalid \/ pmp_err_q) /\ in.gnt
  <2>1. S(in) = Go("WAIT_RVALID_MIS_GNTS_DONE", FALSE, pmp_err_q, lsu_err_q, {})
    BY <1>7, <1>13 DEF WaitRvalidMis
  <2>2. /\ ls_fsm_cs' = "WAIT_RVALID_MIS_GNTS_DONE" /\ ~pmp_err_q' /\ ~lsu_err_q'
        /\ ctrl_q' = ctrl_q /\ addr_last_q' = addr_last_q /\ mem' = mem
    BY <1>2, <1>13, <2>1, Edge DEF Go
  <2>3. id' = id BY <1>0, <2>2, BusyKeeps DEF Keeps
  <2>4. flight = <<WordOf(id.addr)>> BY <1>2, <1>13
  <2>5. flight' = IF Denied2(mem, id) THEN flight ELSE Append(flight, WordOf(Second(id)))
    BY <1>4, <1>10, <1>13, Edge
  <2>6. flight' = IF Denied2(mem, id) THEN <<WordOf(id.addr)>>
                  ELSE <<WordOf(id.addr), WordOf(Second(id))>>
    <3>1. Append(<<WordOf(id.addr)>>, WordOf(Second(id)))
            = <<WordOf(id.addr), WordOf(Second(id))>>
      BY <1>4, SecondWord, Pair
    <3> QED BY <2>4, <2>5, <3>1
  <2>7. written' = StoredFirst(mem, id) \cup StoredSecond(mem, id) BY <1>8, <1>9, <1>13
  <2> QED BY <1>2, <1>13, <2>2, <2>3, <2>6, <2>7, BothAskedNext
<1>14. CASE ~(in.rvalid \/ pmp_err_q) /\ ~in.gnt
  <2>1. S(in) = Stay BY <1>7, <1>14 DEF WaitRvalidMis
  <2>2. /\ ls_fsm_cs' = "WAIT_RVALID_MIS" /\ (pmp_err_q' <=> pmp_err_q) /\ ~lsu_err_q'
        /\ ctrl_q' = ctrl_q /\ addr_last_q' = addr_last_q /\ mem' = mem
    BY <1>2, <2>1, Edge DEF Stay, Go
  <2>3. id' = id BY <1>0, <2>2, BusyKeeps DEF Keeps
  <2>4. ~Granted(in) /\ Stored(in) = {} BY <1>14, NotGranted
  <2>5. flight' = flight BY <1>14, <2>4, Edge
  <2>6. written' = StoredFirst(mem, id) BY <1>8, <2>4
  <2> QED BY <1>2, <1>14, <2>2, <2>3, <2>5, <2>6, HalfAskedNext
<1> QED BY <1>12, <1>13, <1>14

LEMMA WaitGntKnown ==
  ASSUME AInv, NEW in \in Inputs, Cycle(in), ls_fsm_cs = "WAIT_GNT"
  PROVE  Known'
<1>0. Inv /\ TypeOK /\ ~Idle /\ Drivable(in) BY DEF AInv, Inv, Cycle, Idle
<1>1. id # NoAccess /\ (pmp_err_q <=> pmp_err) BY <1>0 DEF Inv, Serves, KnowsDenial
<1>2. flight = <<>> /\ ~in.rvalid
  <2>1. Len(flight) = 0 /\ flight \in Seq(Word) BY <1>0 DEF Inv, InStep, TypeOK, Idle
  <2>2. flight = <<>> BY <2>1
  <2> QED BY <1>0, <2>2 DEF Drivable
<1>3. Requesting(in) BY <1>0 DEF Requesting
<1>4. S(in) = WaitGnt(in) BY <1>0 DEF S
<1>5. written' = written \cup Stored(in) BY <1>0, Edge
<1>6. CASE ~(in.gnt \/ pmp_err_q)
  <2>1. S(in) = Stay BY <1>4, <1>6 DEF WaitGnt
  <2>2. /\ ls_fsm_cs' = "WAIT_GNT" /\ (handle_misaligned_q' <=> handle_misaligned_q)
        /\ (lsu_err_q' <=> lsu_err_q) /\ mem' = mem /\ rdata_q' = rdata_q
        /\ ctrl_q' = ctrl_q /\ addr_last_q' = addr_last_q
    BY <2>1, Edge DEF Stay, Go
  <2>3. id' = id BY <1>0, <2>2, BusyKeeps DEF Keeps
  <2>4. written' = written BY <1>5, <1>6, NotGranted
  <2>5. CASE handle_misaligned_q
    <3>1. HalfDone BY DEF AInv
    <3> QED BY <2>2, <2>3, <2>4, <2>5, <3>1, HalfDoneNext DEF HalfDone
  <2>6. CASE ~handle_misaligned_q
    <3>1. Untouched BY DEF AInv
    <3> QED BY <2>2, <2>3, <2>4, <2>6, <3>1, UntouchedNext DEF Untouched
  <2> QED BY <2>5, <2>6
<1>7. CASE in.gnt \/ pmp_err_q
  <2> DEFINE upd == {"ctrl"} \cup (IF lsu_err_q THEN {} ELSE {"addr"})
  <2>1. S(in) = Go("IDLE", FALSE, pmp_err_q, lsu_err_q, upd) BY <1>4, <1>7 DEF WaitGnt
  <2>2. "ctrl" \in upd /\ "rdata" \notin upd /\ ("addr" \in upd <=> ~lsu_err_q) OBVIOUS
  <2> HIDE DEF upd
  <2>3. /\ ls_fsm_cs' = "IDLE" /\ (pmp_err_q' <=> pmp_err_q) /\ (lsu_err_q' <=> lsu_err_q)
        /\ mem' = mem /\ rdata_q' = rdata_q
        /\ ctrl_q' = [offset |-> Offset(data_addr), size |-> id.size,
                      signed |-> id.signed, we |-> id.we]
        /\ lsu_err_q => addr_last_q' = addr_last_q
        /\ ~lsu_err_q =>
             addr_last_q' = IF addr_incr_req THEN Aligned(data_addr) ELSE data_addr
    BY <2>1, <2>2, Edge DEF Go
  <2>4. wb' = id BY <1>0, <2>3, BusyKeeps
  <2>5. ~pmp_err_q' => flight' = <<WordOf(data_addr)>>
    <3> SUFFICES ASSUME ~pmp_err_q' PROVE flight' = <<WordOf(data_addr)>> OBVIOUS
    <3>1. Granted(in) BY <1>1, <1>3, <1>7, <2>3 DEF Granted, data_req
    <3>2. flight' = Append(<<>>, WordOf(data_addr)) BY <1>2, <3>1, Edge
    <3> QED BY <3>2
  <2>6. CASE handle_misaligned_q
    <3>1. /\ Splits(id) /\ ctrl_q = Control(id) /\ addr_last_q = id.addr
          /\ lsu_err_q <=> Bad(mem, id.addr)
          /\ ~id.we /\ ~lsu_err_q => rdata_q = WordOf(id.addr)
          /\ written = StoredFirst(mem, id)
      BY <2>6 DEF AInv, HalfDone
    <3>2. addr_incr_req BY <2>6 DEF addr_incr_req
    <3>3. /\ id \in Access /\ data_addr = Plus(id.addr, 4)
          /\ Aligned(data_addr) = Second(id) /\ WordOf(data_addr) = WordOf(Second(id))
          /\ pmp_err <=> Denied2(mem, id)
          /\ [offset |-> Offset(data_addr), size |-> id.size, signed |-> id.signed,
              we |-> id.we] = Control(id)
      BY <1>0, <1>1, <3>1, <3>2, SecondDriven
    <3>4. LastWord(id) = WordOf(Second(id)) BY <3>1 DEF LastWord
    <3>5. pmp_err_q' <=> LastWord(id) \in mem.denied
      BY <1>1, <2>3, <3>3, <3>4 DEF Denied2
    <3>6. Stored(in) = StoredSecond(mem, id)
      <4>1. CASE in.gnt BY <1>0, <1>1, <1>3, <2>6, <3>1, <3>3, <4>1, SecondStore
      <4>2. CASE ~in.gnt BY <1>1, <1>7, <3>3, <4>2, NotGranted, DeniedStores
      <4> QED BY <4>1, <4>2
    <3>7. written' = StoredFirst(mem, id) \cup StoredSecond(mem, id)
      BY <1>5, <3>1, <3>6
    <3>8. addr_last_q' = IF Splits(id) /\ ~lsu_err_q' THEN Second(id) ELSE id.addr
      BY <2>3, <3>1, <3>2, <3>3
    <3>9. ctrl_q' = Control(id) BY <2>3, <3>3
    <3>10. ~pmp_err_q' => flight' = <<LastWord(id)>> BY <2>5, <3>3, <3>4
    <3>11. lsu_err_q' <=> Splits(id) /\ Bad(mem, id.addr) BY <2>3, <3>1
    <3>12. Splits(id) /\ ~id.we /\ ~lsu_err_q' => rdata_q' = WordOf(id.addr)
      BY <2>3, <3>1
    <3> QED BY <2>3, <2>4, <3>5, <3>7, <3>8, <3>9, <3>10, <3>11, <3>12, LeftNext
  <2>7. CASE ~handle_misaligned_q
    <3>1. ~Splits(id) /\ written = {} /\ ~lsu_err_q BY <2>7 DEF AInv, Untouched
    <3>2. ~addr_incr_req BY <2>7 DEF addr_incr_req
    <3>3. /\ id \in Access /\ data_addr = id.addr
          /\ pmp_err <=> Denied1(mem, id)
          /\ [offset |-> Offset(data_addr), size |-> id.size, signed |-> id.signed,
              we |-> id.we] = Control(id)
      BY <1>0, <1>1, <3>2, FirstDriven
    <3>4. LastWord(id) = WordOf(id.addr) BY <3>1 DEF LastWord
    <3>5. pmp_err_q' <=> LastWord(id) \in mem.denied
      BY <1>1, <2>3, <3>3, <3>4 DEF Denied1
    <3>6. Stored(in) = StoredFirst(mem, id)
      <4>1. CASE in.gnt BY <1>0, <1>1, <1>3, <2>7, <3>3, <4>1, FirstStore
      <4>2. CASE ~in.gnt BY <1>1, <1>7, <3>3, <4>2, NotGranted, DeniedStores
      <4> QED BY <4>1, <4>2
    <3>7. StoredSecond(mem, id) = {} BY <3>1, <3>3, Untaken DEF StoredSecond
    <3>8. written' = StoredFirst(mem, id) \cup StoredSecond(mem, id)
      BY <1>5, <3>1, <3>6, <3>7
    <3>9. addr_last_q' = IF Splits(id) /\ ~lsu_err_q' THEN Second(id) ELSE id.addr
      BY <2>3, <3>1, <3>2, <3>3
    <3>10. ctrl_q' = Control(id) BY <2>3, <3>3
    <3>11. ~pmp_err_q' => flight' = <<LastWord(id)>> BY <2>5, <3>3, <3>4
    <3>12. lsu_err_q' <=> Splits(id) /\ Bad(mem, id.addr) BY <2>3, <3>1
    <3> QED BY <2>3, <2>4, <3>1, <3>5, <3>8, <3>9, <3>10, <3>11, <3>12, LeftNext
  <2> QED BY <2>6, <2>7
<1> QED BY <1>6, <1>7

LEMMA GntsDoneKnown ==
  ASSUME AInv, NEW in \in Inputs, Cycle(in), ls_fsm_cs = "WAIT_RVALID_MIS_GNTS_DONE"
  PROVE  Known'
<1>0. Inv /\ TypeOK /\ ~Idle /\ Drivable(in) BY DEF AInv, Inv, Cycle, Idle
<1>1. id # NoAccess BY <1>0 DEF Inv, Serves
<1>2. /\ Splits(id) /\ ctrl_q = Control(id) /\ addr_last_q = id.addr
      /\ ~lsu_err_q /\ ~pmp_err_q /\ ~Denied1(mem, id)
      /\ flight = IF Denied2(mem, id) THEN <<WordOf(id.addr)>>
                  ELSE <<WordOf(id.addr), WordOf(Second(id))>>
      /\ written = StoredFirst(mem, id) \cup StoredSecond(mem, id)
  BY DEF AInv, BothAsked
<1>3. addr_incr_req BY DEF addr_incr_req
<1>4. /\ Aligned(data_addr) = Second(id) /\ (pmp_err <=> Denied2(mem, id))
  BY <1>0, <1>1, <1>2, <1>3, SecondDriven
<1>5. S(in) = WaitRvalidMisGntsDone(in) BY <1>0 DEF S
<1>6. ~Granted(in) /\ Stored(in) = {}
  <2>1. ~Requesting(in) BY <1>0 DEF Requesting
  <2> QED BY <2>1, NotGranted
<1>7. written' = written BY <1>0, <1>6, Edge
<1>8. ctrl_q.we <=> id.we BY <1>2 DEF Control
<1>9. CASE in.rvalid
  <2> DEFINE upd == (IF ctrl_q.we THEN {} ELSE {"rdata"}) \cup
                    (IF bus_err(in) THEN {} ELSE {"addr"})
  <2>1. S(in) = Go("IDLE", handle_misaligned_q, pmp_err, bus_err(in), upd)
    BY <1>5, <1>9 DEF WaitRvalidMisGntsDone
  <2>2. "ctrl" \notin upd /\ ("addr" \in upd <=> ~bus_err(in)) /\ (~id.we => "rdata" \in upd)
    BY <1>8
  <2> HIDE DEF upd
  <2>3. /\ ls_fsm_cs' = "IDLE" /\ (pmp_err_q' <=> pmp_err) /\ (lsu_err_q' <=> bus_err(in))
        /\ mem' = mem /\ ctrl_q' = ctrl_q
        /\ bus_err(in) => addr_last_q' = addr_last_q
        /\ ~bus_err(in) => addr_last_q' = Second(id)
        /\ ~id.we => rdata_q' = Head(flight)
    BY <1>3, <1>4, <1>9, <2>1, <2>2, Edge DEF Go
  <2>4. wb' = id BY <1>0, <2>3, BusyKeeps
  <2>5. Head(flight) = WordOf(id.addr) BY <1>2
  <2>6. bus_err(in) <=> Bad(mem, id.addr) BY <1>2, <1>9, <2>5 DEF bus_err, Bad, Denied1
  <2>7. LastWord(id) = WordOf(Second(id)) BY <1>2 DEF LastWord
  <2>8. pmp_err_q' <=> LastWord(id) \in mem.denied BY <1>4, <2>3, <2>7 DEF Denied2
  <2>9. ~pmp_err_q' => flight' = <<LastWord(id)>>
    <3> SUFFICES ASSUME ~pmp_err_q' PROVE flight' = <<LastWord(id)>> OBVIOUS
    <3>1. flight = <<WordOf(id.addr), WordOf(Second(id))>> BY <1>2, <1>4, <2>3
    <3>2. flight' = Tail(flight) BY <1>6, <1>9, Edge
    <3> QED BY <2>7, <3>1, <3>2
  <2>10. addr_last_q' = IF Splits(id) /\ ~lsu_err_q' THEN Second(id) ELSE id.addr
    BY <1>2, <2>3
  <2>11. Splits(id) /\ ~id.we /\ ~lsu_err_q' => rdata_q' = WordOf(id.addr) BY <2>3, <2>5
  <2>12. lsu_err_q' <=> Splits(id) /\ Bad(mem, id.addr) BY <1>2, <2>3, <2>6
  <2> QED BY <1>2, <1>7, <2>3, <2>4, <2>8, <2>9, <2>10, <2>11, <2>12, LeftNext
<1>10. CASE ~in.rvalid
  <2>1. S(in) = Stay BY <1>5, <1>10 DEF WaitRvalidMisGntsDone
  <2>2. /\ ls_fsm_cs' = "WAIT_RVALID_MIS_GNTS_DONE" /\ ~pmp_err_q' /\ ~lsu_err_q'
        /\ ctrl_q' = ctrl_q /\ addr_last_q' = addr_last_q /\ mem' = mem
    BY <1>2, <2>1, Edge DEF Stay, Go
  <2>3. id' = id BY <1>0, <2>2, BusyKeeps DEF Keeps
  <2>4. flight' = flight BY <1>6, <1>10, Edge
  <2> QED BY <1>2, <1>7, <2>2, <2>3, <2>4, BothAskedNext
<1> QED BY <1>9, <1>10

-----------------------------------------------------------------------------
LEMMA InitKnown == Init => AInv
<1> SUFFICES ASSUME Init PROVE AInv OBVIOUS
<1>1. Inv BY InitInv
<1>2. ls_fsm_cs = "IDLE" /\ wb = NoAccess BY DEF Init
<1> QED BY <1>1, <1>2 DEF AInv, Untouched, HalfAsked, HalfDone, BothAsked, AllButAnswer

LEMMA KnownStutter ==
  ASSUME AInv, UNCHANGED vars
  PROVE  Known'
<1> USE DEF vars, fsmVars, regVars
<1>1. Untouched' /\ HalfAsked' /\ HalfDone' BY DEF AInv, Untouched, HalfAsked, HalfDone
<1>2. BothAsked' BY DEF AInv, BothAsked
<1>3. AllButAnswer' BY DEF AInv, AllButAnswer, Left, Idle
<1> QED BY <1>1, <1>2, <1>3 DEF Known

LEMMA AInvariance == Spec => []AInv
<1>1. AInv /\ Inv' /\ [Next]_vars => AInv'
  <2> SUFFICES ASSUME AInv, Inv', [Next]_vars PROVE Known' BY DEF AInv, Known
  <2>1. ASSUME NEW in \in Inputs, Cycle(in) PROVE Known'
    <3>1. ls_fsm_cs \in States BY DEF AInv, Inv, TypeOK
    <3> QED BY <2>1, <3>1, IdleKnown, WaitGntMisKnown, WaitRvalidMisKnown, WaitGntKnown,
               GntsDoneKnown DEF States, Idle
  <2>2. CASE UNCHANGED vars BY <2>2, KnownStutter
  <2> QED BY <2>1, <2>2 DEF Next
<1> QED BY <1>1, InitKnown, Invariance, PTL DEF Spec

\* The abstract specification means the same by an access and its result.
LEMMA SameMeaning ==
  /\ Atomic!NoAccess = NoAccess /\ Atomic!NoResult = NoResult
  /\ \A m, acc : /\ Atomic!FaultOf(m, acc) = FaultOf(m, acc)
                 /\ Atomic!ResultOf(m, acc) = ResultOf(m, acc)
<1>1. Atomic!NoAccess = NoAccess BY DEF Atomic!NoAccess, NoAccess
<1>2. Atomic!NoResult = NoResult BY <1>1 DEF Atomic!NoResult, NoResult
<1>3. \A a, n : Atomic!Plus(a, n) = Plus(a, n) BY DEF Atomic!Plus, Plus
<1>4. \A m, a : Atomic!Bad(m, a) <=> Bad(m, a)
  BY DEF Atomic!Bad, Bad, Atomic!WordOf, WordOf
<1>5. \A acc : Atomic!Second(acc) = Second(acc)
  BY <1>3 DEF Atomic!Second, Second, Atomic!Aligned, Aligned, Atomic!Offset, Offset
<1>6. \A acc : Atomic!Splits(acc) <=> Splits(acc)
  BY DEF Atomic!Splits, Splits, Atomic!Offset, Offset
<1>7. \A acc, k : Atomic!ByteOf(acc, k) = ByteOf(acc, k) BY <1>3 DEF Atomic!ByteOf, ByteOf
<1>8. \A m, acc : Atomic!FaultOf(m, acc) = FaultOf(m, acc)
  BY <1>4, <1>5, <1>6 DEF Atomic!FaultOf, FaultOf
<1>9. \A m, acc : Atomic!ResultOf(m, acc) = ResultOf(m, acc)
  BY <1>4, <1>7, <1>8 DEF Atomic!ResultOf, ResultOf
<1> QED BY <1>1, <1>2, <1>8, <1>9

\* Every clock edge commits an access, completes one, does both or neither.
LEMMA AccessStep ==
  ASSUME AInv, NEW in \in Inputs, Cycle(in)
  PROVE  Atomic!Next
<1>1. Pipeline(in) /\ Drivable(in) /\ mem' = mem BY DEF Cycle
<1>2. lsu_req_done(in) => id \in Accesses /\ wb' = id
  <2>1. lsu_req_done(in) => id # NoAccess
    BY DEF lsu_req_done, lsu_req, AInv, Inv, Serves
  <2> QED BY <1>1, <2>1, AccessTypes DEF Pipeline, AInv, Inv
<1>3. CASE lsu_resp_valid(in)
  <2>1. Idle /\ wb # NoAccess
    <3>1. Idle /\ (in.rvalid \/ pmp_err_q) BY <1>3 DEF lsu_resp_valid
    <3>2. flight # <<>> \/ pmp_err_q BY <1>1, <3>1 DEF Drivable
    <3> QED BY <3>1, <3>2 DEF AInv, Inv, OnlyPending
  <2>2. resp' = ResultOf(mem, wb) /\ (resp_err(in) <=> FaultOf(mem, wb) # -1)
    <3>1. Response(in) = ResultOf(mem, wb) /\ (resp_err(in) <=> FaultOf(mem, wb) # -1)
      BY <1>1, <1>3, Answers
    <3> QED BY <1>1, <1>3, <3>1 DEF Pipeline
  <2>3. CASE lsu_req_done(in)
    <3>1. lsu_req(in) BY <2>1, <2>3 DEF lsu_req_done
    <3>2. FaultOf(mem, wb) = -1 BY <2>1, <2>2, <3>1 DEF lsu_req
    <3>3. Atomic!CompleteAndCommit(id)
      BY <1>1, <1>2, <2>1, <2>2, <2>3, <3>2, SameMeaning DEF Atomic!CompleteAndCommit
    <3> QED BY <1>2, <2>3, <3>3 DEF Atomic!Next
  <2>4. CASE ~lsu_req_done(in)
    <3>1. wb' = NoAccess BY <1>1, <1>3, <2>4 DEF Pipeline
    <3>2. Atomic!Complete BY <1>1, <2>1, <2>2, <3>1, SameMeaning DEF Atomic!Complete
    <3> QED BY <3>2 DEF Atomic!Next
  <2> QED BY <2>3, <2>4
<1>4. CASE ~lsu_resp_valid(in)
  <2>1. resp' = NoResult BY <1>1, <1>4 DEF Pipeline
  <2>2. CASE lsu_req_done(in)
    <3>1. wb = NoAccess BY <1>4, <2>2 DEF lsu_req_done, lsu_req, AInv, Inv, Serves
    <3>2. Atomic!Commit(id) BY <1>1, <1>2, <2>1, <2>2, <3>1, SameMeaning DEF Atomic!Commit
    <3> QED BY <1>2, <2>2, <3>2 DEF Atomic!Next
  <2>3. CASE ~lsu_req_done(in)
    <3>1. wb' = wb BY <1>1, <1>4, <2>3 DEF Pipeline
    <3>2. Atomic!Forget BY <1>1, <2>1, <3>1, SameMeaning DEF Atomic!Forget
    <3> QED BY <3>2 DEF Atomic!Next
  <2> QED BY <2>2, <2>3
<1> QED BY <1>3, <1>4

\* Accesses are atomic to the program: whatever the memory, the access and the
\* answers of the bus, each one completes once, in order and as a whole, and none
\* is committed past one that fails.
THEOREM ImplementsAccess == Spec => AtomicAccess
<1>1. Init => Atomic!Init BY SameMeaning DEF Init, Atomic!Init
<1>2. AInv /\ [Next]_vars => [Atomic!Next]_(Atomic!vars)
  <2> SUFFICES ASSUME AInv, [Next]_vars PROVE [Atomic!Next]_(Atomic!vars) OBVIOUS
  <2>1. ASSUME NEW in \in Inputs, Cycle(in) PROVE Atomic!Next BY <2>1, AccessStep
  <2>2. CASE UNCHANGED vars BY <2>2 DEF vars, Atomic!vars
  <2> QED BY <2>1, <2>2 DEF Next
<1> QED BY <1>1, <1>2, AInvariance, PTL DEF Spec, AtomicAccess, Atomic!Spec
=============================================================================
