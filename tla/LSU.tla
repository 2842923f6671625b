-------------------------------- MODULE LSU --------------------------------
(***************************************************************************)
(* The load-store unit (ibex_load_store_unit), the data bus it is a master *)
(* of, physical memory protection in front of the bus (ibex_core), and the *)
(* ID and writeback stages that start accesses and wait for responses.     *)
(*                                                                         *)
(* One step of Next is one clock edge. The operators over `in', the inputs *)
(* of the cycle, are the signals of that name in the RTL; `S' is the state *)
(* machine's next state and strobes as one record.                         *)
(***************************************************************************)
EXTENDS DataMemory

VARIABLES
  mem,                                          \* the memory behind the bus
  ls_fsm_cs, handle_misaligned_q, pmp_err_q, lsu_err_q,
  ctrl_q,          \* rdata_offset_q, data_type_q, data_sign_ext_q, data_we_q
  rdata_q,                                      \* word of the first half read
  addr_last_q,
  id,              \* the access the ID stage holds, NoAccess when it has none
  wb,              \* the access the writeback stage waits for
  flight,          \* the bus: words granted and not answered, oldest first
  held,            \* the bus: the transfer driven and not granted
  written,         \* bytes the access that drives the bus has stored so far
  resp,            \* the response given to the writeback stage at the last edge
  turn             \* parity of the number of responses given

fsmVars == <<ls_fsm_cs, handle_misaligned_q, pmp_err_q, lsu_err_q>>
regVars == <<ctrl_q, rdata_q, addr_last_q>>
vars    == <<fsmVars, regVars, mem, id, wb, flight, held, written, resp, turn>>

States == {"IDLE", "WAIT_GNT_MIS", "WAIT_RVALID_MIS", "WAIT_GNT",
           "WAIT_RVALID_MIS_GNTS_DONE"}

\* `next': the access that ID holds after this edge, if it may take one.
Inputs == [gnt : BOOLEAN, rvalid : BOOLEAN, next : Accesses \cup {NoAccess}]

NoTransfer == [word |-> -1, we |-> FALSE, be |-> {}]
Idle       == ls_fsm_cs = "IDLE"

-----------------------------------------------------------------------------
(* Responses: data_bus_err_i, data_or_pmp_err, lsu_resp_valid_o, load/store_err_o *)
bus_err(in)         == in.rvalid /\ Head(flight) \in mem.faulty
data_or_pmp_err(in) == lsu_err_q \/ bus_err(in) \/ pmp_err_q
lsu_resp_valid(in)  == (in.rvalid \/ pmp_err_q) /\ Idle
resp_err(in)        == data_or_pmp_err(in) /\ lsu_resp_valid(in)
lsu_rdata_valid(in) == Idle /\ in.rvalid /\ ~data_or_pmp_err(in) /\ ~ctrl_q.we

\* The ID stage asks for an access once the one before it has its response, and
\* not in the cycle that response is an error (data_req_allowed, wb_exception).
lsu_req(in) == /\ id # NoAccess
               /\ wb = NoAccess \/ (lsu_resp_valid(in) /\ ~resp_err(in))

-----------------------------------------------------------------------------
(* The address phase *)
addr_incr_req == \/ ls_fsm_cs \in {"WAIT_RVALID_MIS", "WAIT_RVALID_MIS_GNTS_DONE"}
                 \/ ls_fsm_cs = "WAIT_GNT" /\ handle_misaligned_q

Mut_data_addr == IF addr_incr_req THEN addr_last_q + 4 ELSE id.addr   \* no wrap
\* The ID stage feeds the adder with addr_last_q + 4 for the second half.
data_addr == IF addr_incr_req THEN Plus(addr_last_q, 4) ELSE id.addr

split_misaligned_access == Splits(id)
pmp_err == WordOf(data_addr) \in mem.denied

data_be ==
  LET off == Offset(data_addr)
  IN  {lane \in 0..3 :
         IF handle_misaligned_q
         THEN lane < (IF id.size = 4 THEN off ELSE 1)
         ELSE lane \in off..(off + id.size - 1)}

\* Byte of the register that is driven on a lane.
data_wdata(lane) == (lane - Offset(data_addr)) % 4

Requesting(in) == IF Idle THEN lsu_req(in)
                  ELSE ls_fsm_cs # "WAIT_RVALID_MIS_GNTS_DONE"

\* What leaves the core: a request PMP denies is not driven. The bus may keep gnt
\* high without a request, and the state machine does not tell the difference.
data_req(in) == Requesting(in) /\ ~pmp_err
Granted(in)  == data_req(in) /\ in.gnt

-----------------------------------------------------------------------------
(* The state machine: next state, next flags and registers to update. *)
Go(ns, mis, pmp, err, upd) ==
  [ns |-> ns, mis |-> mis, pmp |-> pmp, err |-> err, upd |-> upd]
Stay == Go(ls_fsm_cs, handle_misaligned_q, pmp_err_q, lsu_err_q, {})

Mut_StartAccess(in) ==        \* a denied access is answered until the next request
  IF ~lsu_req(in) THEN Stay
  ELSE Go(IF in.gnt THEN "IDLE" ELSE "WAIT_GNT", FALSE, pmp_err, FALSE, {"ctrl", "addr"})
StartAccess(in) ==
  LET split == split_misaligned_access
  IN  IF ~lsu_req(in) THEN Go("IDLE", handle_misaligned_q, FALSE, lsu_err_q, {})
      ELSE IF in.gnt
      THEN Go(IF split THEN "WAIT_RVALID_MIS" ELSE "IDLE", split, pmp_err, FALSE,
              {"ctrl", "addr"})
      ELSE Go(IF split THEN "WAIT_GNT_MIS" ELSE "WAIT_GNT", handle_misaligned_q, pmp_err,
              FALSE, {})

Mut_WaitGntMis(in) ==         \* the error of the first half is dropped with its request
  IF in.gnt \/ pmp_err_q
  THEN Go("WAIT_RVALID_MIS", TRUE, FALSE, lsu_err_q, {"ctrl", "addr"})
  ELSE Stay
WaitGntMis(in) ==
  IF in.gnt \/ pmp_err_q
  THEN Go("WAIT_RVALID_MIS", TRUE, pmp_err_q, lsu_err_q, {"ctrl", "addr"})
  ELSE Stay

Mut_WaitRvalidMis(in) ==      \* the second address is captured while it may still wait
  LET err == bus_err(in) \/ pmp_err_q
      upd == (IF ctrl_q.we THEN {} ELSE {"rdata"}) \cup (IF err THEN {} ELSE {"addr"})
  IN  IF in.rvalid \/ pmp_err_q
      THEN Go(IF in.gnt THEN "IDLE" ELSE "WAIT_GNT", ~in.gnt, pmp_err, err, upd)
      ELSE IF in.gnt
      THEN Go("WAIT_RVALID_MIS_GNTS_DONE", FALSE, pmp_err_q, lsu_err_q, {})
      ELSE Stay
\* The first half is answered or was denied, and the second may be granted at once.
WaitRvalidMis(in) ==
  LET err == bus_err(in) \/ pmp_err_q
      upd == (IF ctrl_q.we THEN {} ELSE {"rdata"}) \cup
             (IF in.gnt /\ ~err THEN {"addr"} ELSE {})
  IN  IF in.rvalid \/ pmp_err_q
      THEN Go(IF in.gnt THEN "IDLE" ELSE "WAIT_GNT", ~in.gnt, pmp_err, err, upd)
      ELSE IF in.gnt
      THEN Go("WAIT_RVALID_MIS_GNTS_DONE", FALSE, pmp_err_q, lsu_err_q, {})
      ELSE Stay

Mut_WaitGnt(in) ==            \* mtval gets the second address whatever failed first
  IF in.gnt \/ pmp_err_q
  THEN Go("IDLE", FALSE, pmp_err_q, lsu_err_q, {"ctrl", "addr"})
  ELSE Stay
Mut2_WaitGnt(in) ==           \* waits for a grant that a denied request never gets
  IF in.gnt THEN Go("IDLE", FALSE, pmp_err_q, lsu_err_q, {"ctrl", "addr"}) ELSE Stay
WaitGnt(in) ==
  IF in.gnt \/ pmp_err_q
  THEN Go("IDLE", FALSE, pmp_err_q, lsu_err_q,
          {"ctrl"} \cup (IF lsu_err_q THEN {} ELSE {"addr"}))
  ELSE Stay

WaitRvalidMisGntsDone(in) ==
  IF in.rvalid
  THEN Go("IDLE", handle_misaligned_q, pmp_err, bus_err(in),
          (IF ctrl_q.we THEN {} ELSE {"rdata"}) \cup (IF bus_err(in) THEN {} ELSE {"addr"}))
  ELSE Stay

S(in) == IF Idle THEN StartAccess(in)
         ELSE IF ls_fsm_cs = "WAIT_GNT_MIS"    THEN WaitGntMis(in)
         ELSE IF ls_fsm_cs = "WAIT_RVALID_MIS" THEN WaitRvalidMis(in)
         ELSE IF ls_fsm_cs = "WAIT_GNT"        THEN WaitGnt(in)
         ELSE WaitRvalidMisGntsDone(in)

lsu_req_done(in) == (lsu_req(in) \/ ~Idle) /\ S(in).ns = "IDLE"

-----------------------------------------------------------------------------
(* The value a load returns: each byte from the word read now or, for the low *)
(* bytes of a split access, from the word read first.                         *)
rdata_ext ==
  [k \in 1..ctrl_q.size |->
     LET lane == ctrl_q.offset + k - 1
     IN  IF lane > 3 THEN 4 * Head(flight) + lane - 4
         ELSE IF ctrl_q.offset + ctrl_q.size > 4 THEN 4 * rdata_q + lane
         ELSE 4 * Head(flight) + lane]

Response(in) ==
  [access  |-> [addr |-> wb.addr, size |-> ctrl_q.size, signed |-> ctrl_q.signed,
                we |-> ctrl_q.we],
   fault   |-> IF resp_err(in) THEN addr_last_q ELSE -1,
   data    |-> IF lsu_rdata_valid(in) THEN rdata_ext ELSE <<>>,
   written |-> written]

-----------------------------------------------------------------------------
(* The parts of a clock edge *)
Unit(in) ==
  /\ ls_fsm_cs' = S(in).ns
  /\ handle_misaligned_q' = S(in).mis
  /\ pmp_err_q' = S(in).pmp
  /\ lsu_err_q' = S(in).err
  /\ ctrl_q' = IF "ctrl" \in S(in).upd
               THEN [offset |-> Offset(data_addr), size |-> id.size,
                     signed |-> id.signed, we |-> id.we]
               ELSE ctrl_q
  /\ rdata_q' = IF "rdata" \in S(in).upd /\ in.rvalid THEN Head(flight) ELSE rdata_q
  /\ addr_last_q' = IF "addr" \in S(in).upd
                    THEN IF addr_incr_req THEN Aligned(data_addr) ELSE data_addr
                    ELSE addr_last_q

(* The bus takes a granted transfer at once, answers transfers in order, and *)
(* a store takes effect when its word is not faulty.                         *)
Transfer == [word |-> WordOf(data_addr), we |-> id.we, be |-> data_be]

Stored(in) == IF Granted(in) /\ id.we /\ WordOf(data_addr) \notin mem.faulty
              THEN {<<Aligned(data_addr) + lane, data_wdata(lane)>> : lane \in data_be}
              ELSE {}

Bus(in) ==
  LET left == IF in.rvalid THEN Tail(flight) ELSE flight
  IN  /\ flight' = IF Granted(in) THEN Append(left, WordOf(data_addr)) ELSE left
      /\ held' = IF data_req(in) /\ ~in.gnt THEN Transfer ELSE NoTransfer
      /\ written' = (IF Idle /\ (lsu_req(in) \/ lsu_resp_valid(in)) THEN {} ELSE written) \cup Stored(in)

(* The ID stage hands the access over when the last transfer of it is accepted; *)
(* an access held there while the one before it fails is flushed.               *)
Pipeline(in) ==
  /\ wb' = IF lsu_req_done(in) THEN id
           ELSE IF lsu_resp_valid(in) THEN NoAccess ELSE wb
  /\ IF id = NoAccess \/ lsu_req_done(in) \/ resp_err(in)
     THEN id' = in.next
     ELSE in.next = NoAccess /\ id' = id
  /\ resp' = IF lsu_resp_valid(in) THEN Response(in) ELSE NoResult
  /\ turn' = IF lsu_resp_valid(in) THEN 1 - turn ELSE turn

Drivable(in) == in.rvalid => flight # <<>>

Cycle(in) == /\ Drivable(in)
             /\ Unit(in)
             /\ Bus(in)
             /\ Pipeline(in)
             /\ UNCHANGED mem

Init ==
  /\ mem \in Mems
  /\ ls_fsm_cs = "IDLE" /\ handle_misaligned_q = FALSE
  /\ pmp_err_q = FALSE /\ lsu_err_q = FALSE
  /\ ctrl_q = [offset |-> 0, size |-> 4, signed |-> FALSE, we |-> FALSE]
  /\ rdata_q = 0 /\ addr_last_q = 0
  /\ id = NoAccess /\ wb = NoAccess
  /\ flight = <<>> /\ held = NoTransfer
  /\ written = {} /\ resp = NoResult /\ turn = 0

Next == \E in \in Inputs : Cycle(in)

Spec == Init /\ [][Next]_vars

(* The bus grants a transfer that stays and answers one it granted; the clock   *)
(* runs, so that what PMP denied, and the bus never sees, moves on without it.  *)
Granting  == \E in \in Inputs : Drivable(in) /\ Granted(in) /\ Cycle(in)
Answering == \E in \in Inputs : in.rvalid /\ Cycle(in)
Denied    == pmp_err_q /\ \E in \in Inputs : ~in.gnt /\ Cycle(in)

FairSpec == Spec /\ WF_vars(Denied) /\ WF_vars(Granting) /\ WF_vars(Answering)

-----------------------------------------------------------------------------
TypeOK ==
  /\ mem \in Mems
  /\ ls_fsm_cs \in States /\ handle_misaligned_q \in BOOLEAN
  /\ pmp_err_q \in BOOLEAN /\ lsu_err_q \in BOOLEAN
  /\ ctrl_q \in [offset : 0..3, size : {1, 2, 4}, signed : BOOLEAN, we : BOOLEAN]
  /\ rdata_q \in Word /\ addr_last_q \in Byte
  /\ id \in Accesses \cup {NoAccess} /\ wb \in Accesses \cup {NoAccess}
  /\ flight \in Seq(Word)
  /\ held \in {NoTransfer} \cup [word : Word, we : BOOLEAN, be : SUBSET (0..3)]
  /\ written \subseteq (Byte \X (0..3))
  /\ turn \in {0, 1}

\* A transfer that was not granted is driven again, unchanged: address, direction
\* and byte enables, across every state the unit waits in.
HoldsTransfer ==
  held # NoTransfer => /\ ls_fsm_cs \notin {"IDLE", "WAIT_RVALID_MIS_GNTS_DONE"}
                       /\ Transfer = held /\ ~pmp_err

\* The state machine and the bus agree on how many answers are still to come, so
\* that no answer is taken for the half, or the access, it does not belong to.
InStep ==
  Len(flight) = IF Idle THEN IF wb # NoAccess /\ ~pmp_err_q THEN 1 ELSE 0
                ELSE IF ls_fsm_cs = "WAIT_RVALID_MIS" THEN IF pmp_err_q THEN 0 ELSE 1
                ELSE IF ls_fsm_cs = "WAIT_RVALID_MIS_GNTS_DONE" THEN IF pmp_err THEN 1 ELSE 2
                ELSE 0

\* A response is given only to an access that waits for one
\* (assertion NoMemResponseWithoutPendingAccess of ibex_core).
OnlyPending == Idle /\ (flight # <<>> \/ pmp_err_q) => wb # NoAccess

\* Accesses are atomic to the program: bytes, order, and the first failing address,
\* with every word that accepts it written even when the other half fails.
Atomic == INSTANCE DataAccess
AtomicAccess == Atomic!Spec

\* Every access that reached the bus gets its response, also when one or both of
\* its halves are denied and never reach it.
Completes == \A t \in {0, 1} :
               ((wb # NoAccess \/ ~Idle) /\ turn = t) ~> (turn # t)
=============================================================================
