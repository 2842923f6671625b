------------------------------ MODULE Prefetch ------------------------------
(***************************************************************************)
(* The instruction prefetch buffer (ibex_prefetch_buffer) with the fetch   *)
(* FIFO it contains (ibex_fetch_fifo), the instruction bus it is a master  *)
(* of, and the IF stage that redirects and drains it.                      *)
(*                                                                         *)
(* One step of Next is one clock edge: `in' holds the inputs of the cycle, *)
(* the operators over `in' are the combinational signals under their names *)
(* in the RTL, and Cycle(in) is what the registers load at the edge.       *)
(*                                                                         *)
(* The one-bit-per-entry vectors valid_q and rdata_outstanding_q are kept  *)
(* as sequences whose length is the number of bits set: both are filled    *)
(* from the lowest free bit and shifted down, so the bits set are always   *)
(* the lowest ones. A write that finds no free bit is lost, as in the RTL. *)
(***************************************************************************)
EXTENDS InstrMemory

CONSTANT NumReqs     \* NUM_REQS: requests that may be outstanding on the bus

ASSUME NumReqsAssumption == NumReqs \in Nat \ {0}

DEPTH == NumReqs + 1 \* entries of the fetch FIFO
NoWord == -1         \* no request is waiting on the bus
NoHeld == [word |-> NoWord, fresh |-> TRUE]

VARIABLES
  mem,                            \* the memory behind the bus
  last,                           \* the instruction the IF stage took last
  valid_req_q, discard_req_q,     \* a request waits for its grant; it is cancelled
  stored_addr_q, fetch_addr_q,    \* address of that request; next address to fetch
  outstanding,                    \* granted requests, oldest first: branch_discard_q
  fifo, instr_addr_q,             \* fetch FIFO entries; address of its head
  epoch,                          \* parity of the number of redirects so far
  booted,                         \* the core has made its first redirect
  flight, held                    \* the bus: granted and unanswered; ungranted

pfVars  == <<valid_req_q, discard_req_q, stored_addr_q, fetch_addr_q,
             outstanding, fifo, instr_addr_q>>
busVars == <<flight, held>>
vars    == <<pfVars, busVars, mem, last, epoch, booted>>

Inputs == [req : BOOLEAN, branch : BOOLEAN, addr : Half, ready : BOOLEAN,
           gnt : BOOLEAN, rvalid : BOOLEAN]

-----------------------------------------------------------------------------
(* The bus answers the oldest granted request. *)
Response == [word  |-> Head(flight).word,
             err   |-> Head(flight).word \in mem.faulty,
             fresh |-> Head(flight).fresh]

(* Requests *)
Mut_fifo_ready == Len(fifo) < DEPTH         \* no space kept for answers to come
fifo_ready == Len(fifo) + Len(outstanding) < DEPTH

Mut_valid_new_req(in) == in.req /\ (fifo_ready \/ in.branch)   \* unbounded requests
valid_new_req(in) == /\ in.req
                     /\ fifo_ready \/ in.branch
                     /\ Len(outstanding) < NumReqs

valid_req(in)     == valid_req_q \/ valid_new_req(in)
issue(in)         == valid_new_req(in) /\ ~valid_req_q
Mut_discard_req_d(in) == valid_req_q /\ in.branch      \* forgets an earlier redirect
discard_req_d(in) == valid_req_q /\ (in.branch \/ discard_req_q)

\* a redirect changes the address of the request that waits
Mut_instr_addr(in) == IF in.branch THEN in.addr
                      ELSE IF valid_req_q THEN stored_addr_q ELSE fetch_addr_q
instr_addr(in) == IF valid_req_q   THEN stored_addr_q
                  ELSE IF in.branch THEN in.addr
                  ELSE fetch_addr_q

Mut_fetch_addr_d(in) ==                          \* an adder one bit wider
  LET base == IF in.branch THEN in.addr ELSE fetch_addr_q - (fetch_addr_q % 2)
  IN  IF issue(in) THEN base + 2 ELSE base
fetch_addr_d(in) ==
  LET base == IF in.branch THEN in.addr ELSE fetch_addr_q - (fetch_addr_q % 2)
  IN  IF issue(in) THEN Plus(base, 2) ELSE base

(* Outstanding requests: add the one granted, mark on a branch, shift on an answer *)
outstanding_n(in) ==
  LET marked == [i \in 1..Len(outstanding) |-> in.branch \/ outstanding[i]]
  IN  IF valid_req(in) /\ in.gnt /\ Len(outstanding) < NumReqs
      THEN Append(marked, discard_req_d(in)) ELSE marked

Mut_outstanding_s(in) ==                         \* a discarded answer is not counted
  IF in.rvalid /\ outstanding_n(in) # <<>> /\ ~outstanding[1]
  THEN Tail(outstanding_n(in)) ELSE outstanding_n(in)
outstanding_s(in) ==
  IF in.rvalid /\ outstanding_n(in) # <<>> THEN Tail(outstanding_n(in))
                                           ELSE outstanding_n(in)

fifo_valid(in) == in.rvalid /\ ~(outstanding # <<>> /\ outstanding[1])

-----------------------------------------------------------------------------
(* The fetch FIFO: out_* are its outputs, given this cycle's answer if any *)
out_addr == instr_addr_q

head(in)   == IF fifo # <<>> THEN fifo[1] ELSE Response
second(in) == IF Len(fifo) > 1 THEN fifo[2] ELSE Response
valid(in)  == fifo # <<>> \/ fifo_valid(in)

\* {un,}aligned_is_compressed: what the half-word at the head of the FIFO says
is_compressed(in) ==
  ~head(in).err /\ 2 * head(in).word + (out_addr % 2) \in mem.compressed

out_valid(in) ==
  IF Odd(out_addr) /\ ~(valid(in) /\ is_compressed(in))
  THEN Len(fifo) > 1 \/ (Len(fifo) = 1 /\ fifo_valid(in))
  ELSE valid(in)

\* The two words an instruction at an odd half-word is made of
straddles(in) == Odd(out_addr) /\ ~is_compressed(in)

\* an error in the next word, though the instruction ends before it
Mut_out_err(in) == head(in).err \/ (Odd(out_addr) /\ Len(fifo) > 1 /\ second(in).err)
out_err(in)   == head(in).err \/ (straddles(in) /\ second(in).err)
out_plus2(in) == straddles(in) /\ second(in).err /\ ~head(in).err

out_rdata(in) ==
  LET half(e, i) == 2 * e.word + i
  IN  IF straddles(in)          THEN <<half(head(in), 1), half(second(in), 0)>>
      ELSE IF is_compressed(in) THEN <<half(head(in), out_addr % 2)>>
      ELSE <<half(head(in), 0), half(head(in), 1)>>

taken(in)   == in.ready /\ out_valid(in)
pop_fifo(in) == taken(in) /\ (~is_compressed(in) \/ Odd(out_addr))

instr_addr_d(in) ==
  IF in.branch THEN in.addr
  ELSE IF taken(in) THEN Plus(out_addr, IF is_compressed(in) THEN 1 ELSE 2)
  ELSE instr_addr_q

fifo_d(in) ==
  LET pushed == IF fifo_valid(in) /\ Len(fifo) < DEPTH
                THEN Append(fifo, Response) ELSE fifo
  IN  IF in.branch THEN <<>>
      ELSE IF pop_fifo(in) THEN Tail(pushed)
      ELSE pushed

-----------------------------------------------------------------------------
(* The parts of a clock edge *)
Buffer(in) ==
  /\ valid_req_q'   = (valid_req(in) /\ ~in.gnt)
  /\ discard_req_q' = discard_req_d(in)
  /\ stored_addr_q' = IF issue(in) /\ ~in.gnt THEN instr_addr(in) ELSE stored_addr_q
  /\ fetch_addr_q'  = IF in.branch \/ issue(in) THEN fetch_addr_d(in) ELSE fetch_addr_q
  /\ outstanding'   = outstanding_s(in)
  /\ fifo'          = fifo_d(in)
  /\ instr_addr_q'  = instr_addr_d(in)

(* The bus keeps what the master asked for in order. A request is fresh when *)
(* it was first driven in the cycle of the last redirect or after it.        *)
Presented(in) == [word  |-> WordOf(instr_addr(in)),
                  fresh |-> IF valid_req_q THEN held.fresh /\ ~in.branch ELSE TRUE]

Bus(in) ==
  LET aged  == [i \in 1..Len(flight) |->
                  [word |-> flight[i].word, fresh |-> flight[i].fresh /\ ~in.branch]]
      asked == IF valid_req(in) /\ in.gnt THEN Append(aged, Presented(in)) ELSE aged
  IN  /\ flight' = IF in.rvalid THEN Tail(asked) ELSE asked
      /\ held'   = IF valid_req(in) /\ ~in.gnt THEN Presented(in)
                   ELSE NoHeld

(* The IF stage: it redirects before it fetches, keeps the request input low *)
(* until then, and takes an instruction unless it is redirecting.            *)
IfStage(in) ==
  /\ booted' = (booted \/ in.branch)
  /\ epoch'  = IF in.branch THEN 1 - epoch ELSE epoch
  /\ last'   = IF in.branch THEN NoInstr
               ELSE IF taken(in)
               THEN [addr |-> out_addr, err |-> out_err(in), plus2 |-> out_plus2(in),
                     data |-> IF out_err(in) THEN <<>> ELSE out_rdata(in)]
               ELSE last

\* What the environment may drive: no answer without a granted request, and no
\* fetch before the first redirect (the addresses are not reset).
Drivable(in) == /\ in.rvalid => flight # <<>>
                /\ in.req => booted \/ in.branch

Cycle(in) == /\ Drivable(in)
             /\ Buffer(in)
             /\ Bus(in)
             /\ IfStage(in)
             /\ UNCHANGED mem

Init ==
  /\ mem \in Mems
  /\ last = NoInstr
  /\ valid_req_q = FALSE /\ discard_req_q = FALSE
  /\ stored_addr_q \in Half /\ fetch_addr_q \in Half /\ instr_addr_q \in Half
  /\ outstanding = <<>> /\ fifo = <<>>
  /\ epoch = 0 /\ booted = FALSE
  /\ flight = <<>> /\ held = NoHeld

Next == \E in \in Inputs : Cycle(in)

Spec == Init /\ [][Next]_vars

-----------------------------------------------------------------------------
(* Fairness of the parties around the buffer, each on its own: a request that *)
(* stays is granted, a granted one is answered, and the core, which is not    *)
(* redirecting for ever, asks for and takes instructions.                     *)
Granting   == \E in \in Inputs : /\ in.req /\ ~in.branch /\ in.gnt
                                /\ valid_req(in) /\ Cycle(in)
Answering  == \E in \in Inputs : in.rvalid /\ ~in.branch /\ Cycle(in)
Taking     == \E in \in Inputs : /\ in.rvalid => flight # <<>>
                                /\ in.req /\ ~in.branch /\ taken(in) /\ Cycle(in)

FairSpec == Spec /\ WF_vars(Granting) /\ WF_vars(Answering) /\ WF_vars(Taking)
-----------------------------------------------------------------------------
TypeOK ==
  /\ mem \in Mems
  /\ valid_req_q \in BOOLEAN /\ discard_req_q \in BOOLEAN
  /\ stored_addr_q \in Half /\ fetch_addr_q \in Half /\ instr_addr_q \in Half
  /\ outstanding \in Seq(BOOLEAN) /\ Len(outstanding) <= NumReqs
  /\ fifo \in Seq([word : Word, err : BOOLEAN, fresh : BOOLEAN])
  /\ Len(fifo) <= DEPTH
  /\ flight \in Seq([word : Word, fresh : BOOLEAN])
  /\ held \in [word : Word \cup {NoWord}, fresh : BOOLEAN]
  /\ epoch \in {0, 1} /\ booted \in BOOLEAN

\* An answer that is not to be discarded always finds room in the fetch FIFO
\* (assertions IbexFetchFifoPushPopFull and IbexFetchFifoPushFull).
Fits == flight # <<>> /\ fifo_valid([rvalid |-> TRUE]) => Len(fifo) < DEPTH

\* The buffer counts exactly the requests the bus has granted and not answered:
\* none is dropped when both are full, and none answered twice.
TracksBus == Len(outstanding) = Len(flight)

\* A request that was not granted is driven again with the same address, also
\* when a redirect arrives while it waits.
HoldsRequest == IF held = NoHeld THEN ~valid_req_q
                ELSE valid_req_q /\ WordOf(stored_addr_q) = held.word

\* Nothing asked for before the last redirect is ever delivered, even where the
\* redirect goes to the same address: FENCE.I relies on this.
FreshOnly == /\ \A i \in 1..Len(fifo) : fifo[i].fresh
             /\ \A i \in 1..Len(outstanding) : ~outstanding[i] => flight[i].fresh
             /\ valid_req_q /\ ~discard_req_q => held.fresh

\* A request is issued only while the entries filled and the requests granted
\* leave room for it, and it stays counted while it waits for its grant.
waiting == IF valid_req_q THEN 1 ELSE 0
Room == /\ Len(outstanding) + waiting <= NumReqs
        /\ Len(fifo) + Len(outstanding) + waiting <= DEPTH

\* The instructions delivered are those memory holds from the redirect on.
Stream == INSTANCE InstrStream WITH pc <- instr_addr_q
StreamSpec == Stream!Spec

\* Once the redirects stop, instructions keep being delivered: no combination of
\* cancelled requests, full FIFO and half-arrived instructions wedges the buffer.
Delivers == <>[][epoch' = epoch]_vars =>
              []~booted \/ []<><<instr_addr_q' # instr_addr_q>>_vars
=============================================================================
