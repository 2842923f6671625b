--------------------------- MODULE PrefetchProofs ---------------------------
(***************************************************************************)
(* Proofs about the prefetch buffer, for every memory, address space and   *)
(* number of outstanding requests: its invariants, and that it implements  *)
(* InstrStream, for the instructions it delivers are those memory holds    *)
(* from the last redirect on.                                              *)
(***************************************************************************)
EXTENDS Prefetch, TLAPS

\* Addition wraps into the address space.
LEMMA PlusType == \A a, n \in Int : Plus(a, n) \in Half
  BY WordsAssumption, SMT DEF Plus, Half

\* The word of an address.
LEMMA WordOfType == \A a \in Half : WordOf(a) \in Word
  BY WordsAssumption, SMT DEF WordOf, Half, Word

LEMMA ElementOf ==
  ASSUME NEW S, NEW s \in Seq(S), NEW i \in 1..Len(s)
  PROVE  s[i] \in S
  OBVIOUS

LEMMA AppendFacts ==
  ASSUME NEW S, NEW s \in Seq(S), NEW e \in S
  PROVE  /\ Append(s, e) \in Seq(S)
         /\ Len(Append(s, e)) = Len(s) + 1
         /\ Append(s, e) # <<>>
         /\ \A i \in 1..Len(s) : Append(s, e)[i] = s[i]
         /\ Append(s, e)[Len(s) + 1] = e
  OBVIOUS

LEMMA TailFacts ==
  ASSUME NEW S, NEW s \in Seq(S), s # <<>>
  PROVE  /\ Tail(s) \in Seq(S)
         /\ Len(s) \in Nat \ {0}
         /\ Len(Tail(s)) = Len(s) - 1
         /\ \A i \in 1..Len(Tail(s)) : Tail(s)[i] = s[i + 1]
         /\ Head(s) \in S
         /\ Head(s) = s[1]
  OBVIOUS

-----------------------------------------------------------------------------
\* What is inductive: the type invariant, that the buffer and the bus agree on
\* the requests in flight, and that every one of them has a place to land.
IInv == TypeOK /\ TracksBus /\ Room /\ HoldsRequest /\ FreshOnly

FifoEntry   == [word : Word, err : BOOLEAN, fresh : BOOLEAN]
FlightEntry == [word : Word, fresh : BOOLEAN]

LEMMA ResponseType ==
  ASSUME TypeOK, flight # <<>>
  PROVE  /\ Response \in FifoEntry
         /\ Response.word = flight[1].word
         /\ Response.fresh = flight[1].fresh
<1>1. Head(flight) \in FlightEntry /\ Head(flight) = flight[1]
  BY TailFacts DEF TypeOK, FlightEntry
<1> QED BY <1>1 DEF Response, FifoEntry, FlightEntry

\* The request driven on the bus: one is granted only if there is room to track it.
LEMMA DrivenRequest ==
  ASSUME IInv, NEW in \in Inputs
  PROVE  /\ instr_addr(in) \in Half
         /\ Presented(in) \in FlightEntry
         /\ valid_req(in) => Len(outstanding) < NumReqs
         /\ valid_new_req(in) /\ ~in.branch => Len(fifo) + Len(outstanding) < DEPTH
<1>1. instr_addr(in) \in Half
  BY DEF IInv, TypeOK, instr_addr, Inputs
<1>2. Presented(in) \in FlightEntry
  BY <1>1, WordOfType DEF IInv, TypeOK, HoldsRequest, Presented, FlightEntry, Inputs
<1>3. /\ valid_req(in) => Len(outstanding) < NumReqs
      /\ valid_new_req(in) /\ ~in.branch => Len(fifo) + Len(outstanding) < DEPTH
  BY NumReqsAssumption
     DEF IInv, TypeOK, Room, waiting, valid_req, valid_new_req, fifo_ready, Inputs
<1> QED BY <1>1, <1>2, <1>3

\* The queue of outstanding requests before it is shifted.
LEMMA OutstandingN ==
  ASSUME IInv, NEW in \in Inputs
  PROVE  /\ outstanding_n(in) \in Seq(BOOLEAN)
         /\ Len(outstanding_n(in)) = Len(outstanding) +
                                     (IF valid_req(in) /\ in.gnt THEN 1 ELSE 0)
         /\ \A i \in 1..Len(outstanding) :
               outstanding_n(in)[i] = (in.branch \/ outstanding[i])
         /\ valid_req(in) /\ in.gnt =>
               outstanding_n(in)[Len(outstanding) + 1] = discard_req_d(in)
<1> DEFINE marked == [i \in 1..Len(outstanding) |-> in.branch \/ outstanding[i]]
<1>1. /\ marked \in Seq(BOOLEAN)
      /\ Len(marked) = Len(outstanding)
      /\ \A i \in 1..Len(outstanding) : marked[i] = (in.branch \/ outstanding[i])
  BY DEF IInv, TypeOK, Inputs
<1>2. discard_req_d(in) \in BOOLEAN
  BY DEF discard_req_d
<1>3. outstanding_n(in) = IF valid_req(in) /\ in.gnt
                          THEN Append(marked, discard_req_d(in)) ELSE marked
  BY DrivenRequest DEF outstanding_n
<1> HIDE DEF marked
<1>4. CASE valid_req(in) /\ in.gnt
  <2>1. outstanding_n(in) = Append(marked, discard_req_d(in))
    BY <1>3, <1>4
  <2> QED BY <1>1, <1>2, <1>4, <2>1, AppendFacts
<1>5. CASE ~(valid_req(in) /\ in.gnt)
  BY <1>1, <1>3, <1>5 DEF IInv, TypeOK
<1> QED BY <1>4, <1>5

\* The queue of outstanding requests after the answer, if any, is taken off.
LEMMA OutstandingS ==
  ASSUME IInv, NEW in \in Inputs, Drivable(in)
  PROVE  LET n == Len(outstanding_n(in))
         IN  /\ outstanding_s(in) \in Seq(BOOLEAN)
             /\ Len(outstanding_s(in)) = IF in.rvalid THEN n - 1 ELSE n
             /\ \A i \in 1..Len(outstanding_s(in)) :
                   outstanding_s(in)[i] = outstanding_n(in)[IF in.rvalid THEN i + 1 ELSE i]
<1>1. in.rvalid => Len(outstanding) > 0
  BY DEF IInv, TracksBus, Drivable, TypeOK
<1>2. in.rvalid => outstanding_n(in) # <<>>
  BY <1>1, OutstandingN DEF IInv, TypeOK
<1>3. CASE in.rvalid
  <2>1. outstanding_s(in) = Tail(outstanding_n(in))
    BY <1>2, <1>3 DEF outstanding_s
  <2> QED BY <1>2, <1>3, <2>1, OutstandingN, TailFacts
<1>4. CASE ~in.rvalid
  BY <1>4, OutstandingN DEF outstanding_s
<1> QED BY <1>3, <1>4

\* What the bus has in flight after the edge: the words asked for, and how fresh.
asked(in) == IF valid_req(in) /\ in.gnt THEN 1 ELSE 0

LEMMA FlightStep ==
  ASSUME IInv, NEW in \in Inputs, Drivable(in), Bus(in)
  PROVE  LET n == Len(flight) + asked(in)
             k(i) == IF in.rvalid THEN i + 1 ELSE i
         IN  /\ flight' \in Seq(FlightEntry)
             /\ Len(flight') = IF in.rvalid THEN n - 1 ELSE n
             /\ \A i \in 1..Len(flight') :
                  /\ flight'[i].fresh = IF k(i) <= Len(flight)
                                        THEN flight[k(i)].fresh /\ ~in.branch
                                        ELSE Presented(in).fresh
                  /\ flight'[i].word = IF k(i) <= Len(flight) THEN flight[k(i)].word
                                                              ELSE Presented(in).word
<1> DEFINE aged == [i \in 1..Len(flight) |->
                     [word |-> flight[i].word, fresh |-> flight[i].fresh /\ ~in.branch]]
           sent == IF valid_req(in) /\ in.gnt THEN Append(aged, Presented(in)) ELSE aged
<1>1. /\ aged \in Seq(FlightEntry)
      /\ Len(aged) = Len(flight)
      /\ \A i \in 1..Len(flight) : /\ aged[i].fresh = (flight[i].fresh /\ ~in.branch)
                                    /\ aged[i].word = flight[i].word
  <2>1. \A i \in 1..Len(flight) : flight[i] \in FlightEntry
    <3>1. flight \in Seq(FlightEntry)
      BY DEF IInv, TypeOK, FlightEntry
    <3> QED BY <3>1, ElementOf
  <2>2. \A i \in 1..Len(flight) :
          /\ [word |-> flight[i].word, fresh |-> flight[i].fresh /\ ~in.branch] \in FlightEntry
          /\ [word |-> flight[i].word, fresh |-> flight[i].fresh /\ ~in.branch].fresh = (flight[i].fresh /\ ~in.branch)
    BY <2>1 DEF FlightEntry, Inputs
  <2>3. Len(flight) \in Nat
    BY DEF IInv, TypeOK
  <2> QED BY <2>2, <2>3
<1> HIDE DEF aged
<1>2. Presented(in) \in FlightEntry
  BY DrivenRequest
<1>3. /\ sent \in Seq(FlightEntry)
      /\ Len(sent) = Len(flight) + asked(in)
      /\ \A i \in 1..Len(sent) :
            /\ sent[i].fresh = IF i <= Len(flight) THEN flight[i].fresh /\ ~in.branch
                                                   ELSE Presented(in).fresh
            /\ sent[i].word = IF i <= Len(flight) THEN flight[i].word
                                                  ELSE Presented(in).word
  <2>1. CASE valid_req(in) /\ in.gnt
    <3>1. sent = Append(aged, Presented(in))
      BY <2>1
    <3> HIDE DEF sent
    <3>2. /\ sent \in Seq(FlightEntry) /\ Len(sent) = Len(flight) + 1 /\ Len(flight) \in Nat
          /\ \A i \in 1..Len(flight) : sent[i] = aged[i]
          /\ sent[Len(flight) + 1] = Presented(in)
      BY <1>1, <1>2, <3>1, AppendFacts DEF IInv, TypeOK
    <3>3. asked(in) = 1 BY <2>1 DEF asked
    <3> QED BY <1>1, <3>2, <3>3
  <2>2. CASE ~(valid_req(in) /\ in.gnt)
    <3>1. sent = aged
      BY <2>2
    <3> QED BY <1>1, <2>2, <3>1 DEF asked, IInv, TypeOK
  <2> QED BY <2>1, <2>2
<1>4. flight' = IF in.rvalid THEN Tail(sent) ELSE sent
  BY DEF Bus, aged
<1> HIDE DEF sent
<1>5. CASE in.rvalid
  <2>1. Len(flight) > 0
    BY <1>5 DEF Drivable, IInv, TypeOK
  <2>2. sent # <<>>
    BY <1>3, <2>1 DEF asked, IInv, TypeOK
  <2>3. flight' = Tail(sent)
    BY <1>4, <1>5
  <2> QED BY <1>3, <1>5, <2>2, <2>3, TailFacts
<1>6. CASE ~in.rvalid
  BY <1>3, <1>4, <1>6
<1> QED BY <1>5, <1>6

\* The fetch FIFO after the edge: what is in it was in it before, or is the answer.
LEMMA FifoStep ==
  ASSUME IInv, NEW in \in Inputs, Drivable(in)
  PROVE  /\ fifo_d(in) \in Seq(FifoEntry)
         /\ Len(fifo_d(in)) <= Len(fifo) + (IF fifo_valid(in) THEN 1 ELSE 0)
         /\ in.branch => fifo_d(in) = <<>>
         /\ \A i \in 1..Len(fifo_d(in)) : fifo_d(in)[i].fresh
<1> DEFINE pushed == IF fifo_valid(in) /\ Len(fifo) < DEPTH
                     THEN Append(fifo, Response) ELSE fifo
<1>1. fifo_valid(in) => /\ Response \in FifoEntry
                        /\ Response.fresh
  <2> SUFFICES ASSUME fifo_valid(in)
               PROVE  Response \in FifoEntry /\ Response.fresh
    OBVIOUS
  <2>1. flight # <<>> /\ Len(outstanding) >= 1 /\ outstanding # <<>> /\ ~outstanding[1]
    BY DEF fifo_valid, Drivable, IInv, TracksBus, TypeOK
  <2>2. flight[1].fresh
    BY <2>1 DEF IInv, FreshOnly, TypeOK
  <2> QED BY <2>1, <2>2, ResponseType DEF IInv
<1>2. /\ pushed \in Seq(FifoEntry)
      /\ Len(pushed) <= Len(fifo) + (IF fifo_valid(in) THEN 1 ELSE 0)
      /\ fifo_valid(in) \/ fifo # <<>> => pushed # <<>> \/ Len(fifo) >= DEPTH
      /\ \A i \in 1..Len(pushed) : pushed[i].fresh
  <2>1. fifo \in Seq(FifoEntry) /\ Len(fifo) \in Nat /\ \A i \in 1..Len(fifo) : fifo[i].fresh
    BY DEF IInv, TypeOK, FreshOnly, FifoEntry
  <2>2. CASE fifo_valid(in) /\ Len(fifo) < DEPTH
    <3>1. pushed = Append(fifo, Response)
      BY <2>2
    <3> HIDE DEF pushed
    <3> QED BY <1>1, <2>1, <2>2, <3>1, AppendFacts
  <2>3. CASE ~(fifo_valid(in) /\ Len(fifo) < DEPTH)
    BY <2>1, <2>3, NumReqsAssumption DEF DEPTH
  <2> QED BY <2>2, <2>3
<1>3. pop_fifo(in) => pushed # <<>>
  <2>1. pop_fifo(in) => fifo_valid(in) \/ fifo # <<>>
    BY DEF pop_fifo, taken, out_valid, valid, IInv, TypeOK
  <2> QED BY <1>2, <2>1, NumReqsAssumption DEF DEPTH, IInv, TypeOK
<1>4. fifo_d(in) = IF in.branch THEN <<>> ELSE IF pop_fifo(in) THEN Tail(pushed) ELSE pushed
  BY DEF fifo_d, Inputs
<1> HIDE DEF pushed
<1>5. CASE in.branch
  BY <1>4, <1>5 DEF IInv, TypeOK
<1>6. CASE ~in.branch /\ pop_fifo(in)
  <2>1. fifo_d(in) = Tail(pushed)
    BY <1>4, <1>6
  <2> QED BY <1>2, <1>3, <1>6, <2>1, TailFacts DEF IInv, TypeOK
<1>7. CASE ~in.branch /\ ~pop_fifo(in)
  BY <1>2, <1>4, <1>7
<1> QED BY <1>5, <1>6, <1>7
-----------------------------------------------------------------------------
LEMMA InitEstablishes == Init => IInv
<1> SUFFICES ASSUME Init PROVE IInv
  OBVIOUS
<1>1. /\ outstanding \in Seq(BOOLEAN) /\ Len(outstanding) = 0
      /\ fifo \in Seq(FifoEntry) /\ Len(fifo) = 0
      /\ flight \in Seq(FlightEntry) /\ Len(flight) = 0
  BY DEF Init
<1>2. held \in [word : Word \cup {NoWord}, fresh : BOOLEAN]
  BY DEF Init, NoHeld
<1>3. TypeOK
  <2>1. Len(outstanding) <= NumReqs /\ Len(fifo) <= DEPTH
    BY <1>1, NumReqsAssumption DEF DEPTH
  <2>2. /\ mem \in Mems /\ valid_req_q \in BOOLEAN /\ discard_req_q \in BOOLEAN
        /\ stored_addr_q \in Half /\ fetch_addr_q \in Half /\ instr_addr_q \in Half
        /\ epoch \in {0, 1} /\ booted \in BOOLEAN
    BY DEF Init
  <2> QED BY <1>1, <1>2, <2>1, <2>2 DEF TypeOK, FifoEntry, FlightEntry
<1>4. TracksBus /\ Room /\ HoldsRequest /\ FreshOnly
  BY <1>1, NumReqsAssumption
     DEF Init, TracksBus, Room, waiting, HoldsRequest, FreshOnly, DEPTH
<1> QED BY <1>3, <1>4 DEF IInv

LEMMA CyclePreserves ==
  ASSUME IInv, NEW in \in Inputs, Cycle(in)
  PROVE  IInv'
<1> USE NumReqsAssumption
<1>0. Drivable(in) /\ Buffer(in) /\ Bus(in) /\ IfStage(in) /\ mem' = mem
  BY DEF Cycle
<1> DEFINE n == Len(outstanding)
<1>1. /\ n \in Nat /\ Len(fifo) \in Nat /\ Len(flight) = n
      /\ n + waiting <= NumReqs /\ Len(fifo) + n + waiting <= DEPTH
      /\ waiting = (IF valid_req_q THEN 1 ELSE 0)
  BY DEF IInv, TypeOK, TracksBus, Room, waiting
<1>2. /\ outstanding' \in Seq(BOOLEAN)
      /\ Len(outstanding') = n + asked(in) - (IF in.rvalid THEN 1 ELSE 0)
  BY <1>0, <1>1, OutstandingN, OutstandingS DEF Buffer, asked
<1>3. /\ flight' \in Seq(FlightEntry)
      /\ Len(flight') = n + asked(in) - (IF in.rvalid THEN 1 ELSE 0)
  BY <1>0, <1>1, FlightStep DEF asked
<1>4. /\ fifo' \in Seq(FifoEntry)
      /\ Len(fifo') <= Len(fifo) + (IF in.rvalid THEN 1 ELSE 0)
      /\ in.branch => Len(fifo') = 0
      /\ \A i \in 1..Len(fifo') : fifo'[i].fresh
  BY <1>0, <1>1, FifoStep DEF Buffer, fifo_valid
<1>5. /\ valid_req_q' <=> valid_req(in) /\ ~in.gnt
      /\ valid_req_q' \in BOOLEAN
  BY <1>0 DEF Buffer
<1>6. /\ valid_req(in) => n < NumReqs
      /\ valid_new_req(in) /\ ~in.branch => Len(fifo) + n < DEPTH
  BY DrivenRequest
<1>7. TracksBus'
  BY <1>2, <1>3 DEF TracksBus
<1>8. Room'
  <2>1. waiting' + asked(in) = IF valid_req(in) THEN 1 ELSE 0
    <3>1. waiting' = IF valid_req(in) /\ ~in.gnt THEN 1 ELSE 0
      BY <1>5 DEF waiting
    <3> QED BY <3>1 DEF asked
  <2>2. waiting' \in Nat /\ asked(in) \in Nat /\ Len(outstanding') \in Nat /\ Len(fifo') \in Nat
    BY <1>2, <1>4 DEF waiting, asked
  <2>3. Len(outstanding') + waiting' <= NumReqs
    BY <1>1, <1>2, <1>6, <2>1, <2>2
  <2>4. /\ valid_req_q => waiting = 1
        /\ waiting \in Nat
        /\ asked(in) <= waiting' + asked(in)
    BY <2>2 DEF waiting
  <2>5. Len(fifo') + Len(outstanding') + waiting' <= DEPTH
    <3>1. CASE in.branch
      BY <1>4, <2>2, <2>3, <3>1 DEF DEPTH
    <3>2. CASE ~in.branch
      <4>1. Len(fifo) + n + waiting' + asked(in) <= DEPTH
        <5>1. CASE valid_req_q
          BY <1>1, <2>1, <2>2, <2>4, <5>1 DEF valid_req, DEPTH
        <5>2. CASE ~valid_req_q /\ valid_new_req(in)
          BY <1>1, <1>6, <2>1, <2>2, <3>2, <5>2 DEF valid_req, DEPTH
        <5>3. CASE ~valid_req_q /\ ~valid_new_req(in)
          BY <1>1, <2>1, <2>2, <2>4, <5>3 DEF valid_req, DEPTH
        <5> QED BY <5>1, <5>2, <5>3
      <4>2. Len(fifo') + Len(outstanding') <= Len(fifo) + n + asked(in)
        <5> DEFINE answered == IF in.rvalid THEN 1 ELSE 0
        <5>1. /\ Len(outstanding') = n + asked(in) - answered
              /\ Len(fifo') <= Len(fifo) + answered
              /\ answered \in Nat
          BY <1>2, <1>4
        <5> HIDE DEF answered
        <5> QED BY <1>1, <2>2, <5>1
      <4>3. DEPTH \in Nat
        BY DEF DEPTH
      <4> QED BY <1>1, <2>2, <4>1, <4>2, <4>3
    <3> QED BY <3>1, <3>2
  <2> QED BY <2>3, <2>5 DEF Room
<1>9. TypeOK'
  <2>1. instr_addr(in) \in Half /\ Presented(in) \in FlightEntry
    BY DrivenRequest
  <2>2. stored_addr_q' \in Half
    BY <1>0, <2>1 DEF Buffer, IInv, TypeOK
  <2>3. fetch_addr_q' \in Half
    <3>1. fetch_addr_q \in Half /\ in.addr \in Half
      BY DEF IInv, TypeOK, Inputs
    <3>2. fetch_addr_q - (fetch_addr_q % 2) \in Half
      BY <3>1, WordsAssumption DEF Half
    <3>3. \A a \in Half : Plus(a, 2) \in Half
      BY PlusType DEF Half
    <3>4. fetch_addr_d(in) \in Half
      BY <3>1, <3>2, <3>3 DEF fetch_addr_d
    <3> QED BY <1>0, <3>1, <3>4 DEF Buffer
  <2>4. instr_addr_q' \in Half
    <3>1. instr_addr_q \in Half /\ in.addr \in Half
      BY DEF IInv, TypeOK, Inputs
    <3>2. \A a \in Half : Plus(a, 1) \in Half /\ Plus(a, 2) \in Half
      BY PlusType DEF Half
    <3> QED BY <1>0, <3>1, <3>2 DEF Buffer, instr_addr_d, out_addr
  <2>5. held' \in [word : Word \cup {NoWord}, fresh : BOOLEAN]
    BY <1>0, <2>1 DEF Bus, NoHeld, FlightEntry
  <2>6. Len(outstanding') <= NumReqs /\ Len(fifo') <= DEPTH
    <3>1. /\ Len(outstanding') \in Nat /\ Len(fifo') \in Nat
          /\ waiting' \in Nat /\ NumReqs \in Nat /\ DEPTH \in Nat
      BY <1>2, <1>4 DEF waiting, DEPTH
    <3> QED BY <1>8, <3>1 DEF Room
  <2>7. /\ valid_req_q' \in BOOLEAN /\ discard_req_q' \in BOOLEAN
        /\ epoch' \in {0, 1} /\ booted' \in BOOLEAN /\ mem' \in Mems
    BY <1>0, <1>5 DEF Buffer, IfStage, discard_req_d, IInv, TypeOK
  <2> QED
    BY <1>2, <1>3, <1>4, <2>2, <2>3, <2>4, <2>5, <2>6, <2>7
       DEF TypeOK, FifoEntry, FlightEntry
<1>10. HoldsRequest'
  <2>1. Presented(in) \in FlightEntry
    BY DrivenRequest
  <2>2. CASE valid_req(in) /\ ~in.gnt
    <3>1. held' = Presented(in) /\ valid_req_q'
      BY <1>0, <1>5, <2>2 DEF Bus
    <3>2. held' # NoHeld
      BY <2>1, <3>1 DEF NoHeld, NoWord, FlightEntry, Word
    <3>3. stored_addr_q' = instr_addr(in)
      BY <1>0, <2>2 DEF Buffer, issue, valid_req, instr_addr
    <3> QED BY <3>1, <3>2, <3>3 DEF HoldsRequest, Presented, WordOf
  <2>3. CASE ~(valid_req(in) /\ ~in.gnt)
    BY <1>0, <1>5, <2>3 DEF Bus, HoldsRequest
  <2> QED BY <2>2, <2>3
<1>11. FreshOnly'
  <2>1. valid_req_q' /\ ~discard_req_q' => held'.fresh
    BY <1>0, <1>5 DEF Buffer, Bus, discard_req_d, Presented, IInv, FreshOnly
  <2>2. ASSUME NEW i \in 1..Len(outstanding'), ~outstanding'[i]
        PROVE  flight'[i].fresh
    <3> DEFINE k == IF in.rvalid THEN i + 1 ELSE i
    <3>1. k \in 1..(n + asked(in)) /\ i \in 1..Len(flight')
      BY <1>1, <1>2, <1>3, <2>2 DEF asked
    <3>2. ~outstanding_n(in)[k]
      BY <1>0, <2>2, OutstandingS DEF Buffer
    <3>3. flight'[i].fresh = IF k <= n THEN flight[k].fresh /\ ~in.branch
                                       ELSE Presented(in).fresh
      BY <1>0, <1>1, <3>1, FlightStep
    <3>4. CASE k <= n
      <4>1. k \in 1..n
        BY <3>1, <3>4, <1>1
      <4>2. ~in.branch /\ ~outstanding[k]
        BY <3>2, <4>1, OutstandingN
      <4> QED BY <3>3, <3>4, <4>1, <4>2 DEF IInv, FreshOnly
    <3>5. CASE ~(k <= n)
      <4>1. k = n + 1 /\ valid_req(in) /\ in.gnt
        BY <1>1, <3>1, <3>5 DEF asked
      <4>2. ~discard_req_d(in)
        BY <3>2, <4>1, OutstandingN
      <4>3. Presented(in).fresh
        BY <4>2 DEF Presented, discard_req_d, IInv, FreshOnly
      <4> QED BY <3>3, <3>5, <4>3
    <3> QED BY <3>4, <3>5
  <2> QED BY <1>4, <2>1, <2>2 DEF FreshOnly
<1> QED BY <1>7, <1>8, <1>9, <1>10, <1>11 DEF IInv

THEOREM Invariance == Spec => []IInv
<1>1. Init => IInv
  BY InitEstablishes
<1>2. IInv /\ [Next]_vars => IInv'
  <2> SUFFICES ASSUME IInv, [Next]_vars PROVE IInv'
    OBVIOUS
  <2>1. ASSUME NEW in \in Inputs, Cycle(in) PROVE IInv'
    BY <2>1, CyclePreserves
  <2>2. CASE UNCHANGED vars
    BY <2>2 DEF vars, pfVars, busVars, IInv, TypeOK, TracksBus, Room, waiting,
                HoldsRequest, FreshOnly
  <2> QED BY <2>1, <2>2 DEF Next
<1> QED BY <1>1, <1>2, PTL DEF Spec

\* The fetch FIFO never meets an answer it has no room for, whatever the bus, the
\* redirects and the pace of the core (assertion IbexFetchFifoPushFull).
THEOREM NeverOverflows == Spec => []Fits
<1>1. IInv => Fits
  BY NumReqsAssumption DEF IInv, TypeOK, TracksBus, Room, waiting, Fits, DEPTH
<1> QED BY <1>1, Invariance, PTL

\* No instruction asked for before a redirect is delivered after it.
THEOREM NothingStale == Spec => []FreshOnly
<1>1. IInv => FreshOnly
  BY DEF IInv
<1> QED BY <1>1, Invariance, PTL

\* The buffer counts right: it believes as many requests outstanding as the bus will
\* answer.
THEOREM KeepsBusProtocol == Spec => []TracksBus
<1>1. IInv => TracksBus
  BY DEF IInv
<1> QED BY <1>1, Invariance, PTL

\* A request that waits for its grant is held, with its address, over redirects.
THEOREM RequestHeld == Spec => []HoldsRequest
<1>1. IInv => HoldsRequest
  BY DEF IInv
<1> QED BY <1>1, Invariance, PTL

\* Type correctness.
THEOREM TypeCorrect == Spec => []TypeOK
<1>1. IInv => TypeOK
  BY DEF IInv
<1> QED BY <1>1, Invariance, PTL

-----------------------------------------------------------------------------
(* Addresses *)

\* Dividing is unambiguous.
LEMMA Unique ==
  ASSUME NEW n \in Nat \ {0}, NEW q \in Int, NEW p \in Int, NEW r \in 0..(n - 1),
         NEW s \in 0..(n - 1), q * n + r = p * n + s
  PROVE  r = s
<1>1. (q - p) * n = s - r OBVIOUS
<1>2. CASE q = p BY <1>2
<1>3. CASE q > p
  <2>1. (q - p) * n >= n BY <1>3
  <2> QED BY <1>1, <2>1
<1>4. CASE q < p
  <2>1. (p - q) * n >= n BY <1>4
  <2> QED BY <1>1, <2>1
<1> QED BY <1>2, <1>3, <1>4

LEMMA Modulo ==
  ASSUME NEW n \in Nat \ {0}, NEW q \in Int, NEW r \in 0..(n - 1)
  PROVE  (q * n + r) % n = r
<1> DEFINE x == q * n + r
<1>1. x \in Int OBVIOUS
<1>2. x = (x \div n) * n + (x % n) /\ x % n \in 0..(n - 1) /\ x \div n \in Int BY <1>1
<1> HIDE DEF x
<1>3. x = q * n + r BY DEF x
<1>4. x % n = r BY <1>2, <1>3, Unique
<1> QED BY <1>4 DEF x

LEMMA Wraps ==
  ASSUME NEW n \in Nat \ {0}, NEW x \in 0..(2 * n - 1)
  PROVE  x % n = IF x < n THEN x ELSE x - n
<1>1. CASE x < n
  <2>1. x = 0 * n + x OBVIOUS
  <2> QED BY <1>1, <2>1, Modulo
<1>2. CASE ~(x < n)
  <2>1. x = 1 * n + (x - n) /\ x - n \in 0..(n - 1) BY <1>2
  <2> QED BY <1>2, <2>1, Modulo
<1> QED BY <1>1, <1>2

\* Adding modulo n may be done one summand at a time.
LEMMA AddModulo ==
  ASSUME NEW n \in Nat \ {0}, NEW a \in Nat, NEW k \in Nat
  PROVE  ((a % n) + k) % n = (a + k) % n
<1> DEFINE q == a \div n
           x == (a % n) + k
           p == x \div n
           r == x % n
<1>1. a = q * n + (a % n) /\ q \in Int /\ a % n \in 0..(n - 1) OBVIOUS
<1>2. x \in Int BY <1>1
<1>3. x = p * n + r /\ p \in Int /\ r \in 0..(n - 1) BY <1>2
<1>4. a + k = (q + p) * n + r
  <2>1. a + k = q * n + x BY <1>1
  <2> HIDE DEF q, x, p, r
  <2> QED BY <1>1, <1>2, <1>3, <2>1
<1> HIDE DEF q, x, p, r
<1>5. q + p \in Int BY <1>1, <1>3
<1>6. ((q + p) * n + r) % n = r BY <1>3, <1>5, Modulo
<1> QED BY <1>4, <1>6 DEF x, r

\* The words of an address and of those up to two half-words behind it.
LEMMA Addresses ==
  ASSUME NEW a \in Half
  PROVE  /\ a = 2 * WordOf(a) + (a % 2) /\ a % 2 \in {0, 1} /\ WordOf(a) \in Word
         /\ Plus(a, 0) = a
         /\ ~Odd(a) => Plus(a, 1) = a + 1
         /\ ~Odd(a) => WordOf(Plus(a, 1)) = WordOf(a)
         /\ Odd(a) => Plus(a, 1) = 2 * ((WordOf(a) + 1) % Words)
         /\ Odd(a) => WordOf(Plus(a, 1)) = (WordOf(a) + 1) % Words
         /\ WordOf(Plus(a, 2)) = (WordOf(a) + 1) % Words
         /\ WordOf(a - (a % 2)) = WordOf(a) /\ a - (a % 2) \in Half
<1> USE WordsAssumption
<1> DEFINE w == a \div 2
           b == a % 2
<1>1. a = 2 * w + b /\ b \in {0, 1} /\ w \in 0..(Words - 1) BY DEF Half
<1>2. (w + 1) % Words = IF w = Words - 1 THEN 0 ELSE w + 1
  <2>1. w + 1 \in 0..(2 * Words - 1) /\ Words \in Nat \ {0} BY <1>1
  <2>2. (w + 1) % Words = IF w + 1 < Words THEN w + 1 ELSE (w + 1) - Words
    BY <2>1, Wraps
  <2> HIDE DEF w
  <2> QED BY <1>1, <2>2
<1>3. \A n \in 0..2 : Plus(a, n) = IF a + n < 2 * Words THEN a + n ELSE (a + n) - 2 * Words
  <2> SUFFICES ASSUME NEW n \in 0..2
               PROVE  Plus(a, n) = IF a + n < 2 * Words THEN a + n ELSE (a + n) - 2 * Words
    OBVIOUS
  <2> DEFINE m == 2 * Words
             x == a + n
  <2>1. m \in Nat \ {0} /\ x \in 0..(2 * m - 1) BY DEF Half
  <2>2. Plus(a, n) = x % m BY DEF Plus
  <2>3. x % m = IF x < m THEN x ELSE x - m
    <3> HIDE DEF m, x
    <3> QED BY <2>1, Wraps
  <2> QED BY <2>2, <2>3, Zenon
<1>4. Plus(a, 0) = a BY <1>3 DEF Half
<1>5. Plus(a, 1) = IF b = 0 THEN a + 1 ELSE 2 * ((w + 1) % Words)
  <2> HIDE DEF w, b
  <2> QED BY <1>1, <1>2, <1>3
<1>6. WordOf(Plus(a, 1)) = IF b = 0 THEN w ELSE (w + 1) % Words
  <2>1. (w + 1) % Words \in Nat BY <1>1
  <2> HIDE DEF w, b
  <2> QED BY <1>1, <1>5, <2>1 DEF WordOf
<1>7. WordOf(Plus(a, 2)) = (w + 1) % Words
  <2>1. (w + 1) % Words \in Nat BY <1>1
  <2>2. Plus(a, 2) = 2 * ((w + 1) % Words) + b
    <3> HIDE DEF w, b
    <3> QED BY <1>1, <1>2, <1>3
  <2> HIDE DEF w, b
  <2> QED BY <1>1, <2>1, <2>2 DEF WordOf
<1>8. WordOf(a - b) = w /\ a - b \in Half
  <2> HIDE DEF w, b
  <2> QED BY <1>1 DEF WordOf, Half
<1> QED BY <1>1, <1>4, <1>5, <1>6, <1>7, <1>8 DEF WordOf, Odd, Word

-----------------------------------------------------------------------------
(* The invariant: behind the address of the next instruction lie, in order and *)
(* without a gap, the words of the FIFO, those to come of requests that are not *)
(* to be discarded, and the one a request waits for; there fetching goes on.    *)
At(k) == (WordOf(instr_addr_q) + k) % Words
live  == IF valid_req_q /\ ~discard_req_q THEN 1 ELSE 0

\* With the first d answers to be discarded.
Chain(d) ==
  /\ \A i \in 1..Len(outstanding) : outstanding[i] <=> i <= d
  /\ \A i \in 1..Len(fifo) : /\ fifo[i].word = At(i - 1)
                             /\ fifo[i].err <=> fifo[i].word \in mem.faulty
  /\ \A i \in (d + 1)..Len(outstanding) : flight[i].word = At(Len(fifo) + i - (d + 1))
  /\ valid_req_q => IF discard_req_q THEN d = Len(outstanding)
                    ELSE held.word = At(Len(fifo) + Len(outstanding) - d)
  /\ booted => WordOf(fetch_addr_q) = At(Len(fifo) + Len(outstanding) - d + live)
  /\ ~booted => fifo = <<>> /\ outstanding = <<>> /\ ~valid_req_q

InOrder == \E d \in 0..Len(outstanding) : Chain(d)

\* The same after a step: the words the chain is made of then.
AtNext(k) == (WordOf(instr_addr_q') + k) % Words

LEMMA ChainNext ==
  ASSUME NEW d \in 0..Len(outstanding'),
         \A i \in 1..Len(outstanding') : outstanding'[i] <=> i <= d,
         \A i \in 1..Len(fifo') : /\ fifo'[i].word = AtNext(i - 1)
                                  /\ fifo'[i].err <=> fifo'[i].word \in mem'.faulty,
         \A i \in (d + 1)..Len(outstanding') :
               flight'[i].word = AtNext(Len(fifo') + i - (d + 1)),
         valid_req_q' /\ discard_req_q' => d = Len(outstanding'),
         valid_req_q' /\ ~discard_req_q' =>
               held'.word = AtNext(Len(fifo') + Len(outstanding') - d),
         booted' => WordOf(fetch_addr_q') = AtNext(Len(fifo') + Len(outstanding') - d + live'),
         ~booted' => fifo' = <<>> /\ outstanding' = <<>> /\ ~valid_req_q'
  PROVE  InOrder'
<1>1. Chain(d)' BY Zenon DEF Chain, At, AtNext
<1> QED BY <1>1 DEF InOrder

LEMMA NoOffset ==
  ASSUME NEW w \in Word
  PROVE  (w + 0) % Words = w
<1>1. w \in 0..(2 * Words - 1) /\ w < Words /\ w + 0 = w BY WordsAssumption DEF Word
<1> QED BY <1>1, WordsAssumption, Wraps

LEMMA AtFacts ==
  ASSUME TypeOK
  PROVE  /\ At(0) = WordOf(instr_addr_q)
         /\ \A k \in Nat : At(k) \in Word /\ (At(1) + k) % Words = At(k + 1)
<1> USE WordsAssumption
<1> DEFINE w == WordOf(instr_addr_q)
<1>1. w \in 0..(Words - 1) BY WordOfType DEF TypeOK, Word
<1>3. At(0) = w BY WordOfType, NoOffset DEF TypeOK, At
<1>4. ASSUME NEW k \in Nat PROVE At(k) \in Word /\ (At(1) + k) % Words = At(k + 1)
  <2> DEFINE a == w + 1
  <2>1. At(k) \in Word
    <3> HIDE DEF w
    <3>1. (w + k) % Words \in Word BY <1>1 DEF Word
    <3> QED BY <3>1 DEF At, w
  <2>2. a \in Nat /\ a + k = w + (k + 1) BY <1>1
  <2>3. ((a % Words) + k) % Words = (a + k) % Words
    <3> HIDE DEF a
    <3> QED BY <2>2, AddModulo
  <2>4. (At(1) + k) % Words = (w + (k + 1)) % Words
    BY <2>2, <2>3 DEF At
  <2> QED BY <2>1, <2>4 DEF At
<1> QED BY <1>3, <1>4

-----------------------------------------------------------------------------
(* What is delivered *)

\* An answer that is kept is the next word of the stream.
LEMMA AnswerInOrder ==
  ASSUME IInv, NEW d \in 0..Len(outstanding), Chain(d), NEW in \in Inputs, Drivable(in),
         fifo_valid(in)
  PROVE  /\ d = 0 /\ Response.word = At(Len(fifo))
         /\ Response.err <=> Response.word \in mem.faulty
<1>1. flight # <<>> /\ Len(outstanding) >= 1 /\ ~outstanding[1] /\ outstanding # <<>>
  BY DEF fifo_valid, Drivable, IInv, TracksBus, TypeOK
<1>2. Len(outstanding) \in Nat /\ Len(fifo) \in Nat BY DEF IInv, TypeOK
<1>3. d = 0 BY <1>1, <1>2 DEF Chain
<1>4. flight[1].word = At(Len(fifo) + 1 - (d + 1)) BY <1>1, <1>2, <1>3 DEF Chain
<1>5. Len(fifo) + 1 - (d + 1) = Len(fifo) BY <1>2, <1>3
<1>6. Response.word = flight[1].word BY <1>1, ResponseType DEF IInv
<1>7. Response.err <=> Response.word \in mem.faulty BY DEF Response
<1> QED BY <1>3, <1>4, <1>5, <1>6, <1>7

\* The words at the outputs of the FIFO.
LEMMA Outputs ==
  ASSUME IInv, InOrder, NEW in \in Inputs, Drivable(in), out_valid(in)
  PROVE  /\ head(in).word = At(0) /\ (head(in).err <=> At(0) \in mem.faulty)
         /\ straddles(in) => /\ second(in).word = At(1)
                             /\ second(in).err <=> At(1) \in mem.faulty
<1>1. PICK d \in 0..Len(outstanding) : Chain(d) BY DEF InOrder
<1>2. Len(fifo) \in Nat /\ (fifo # <<>> <=> Len(fifo) > 0) BY DEF IInv, TypeOK
<1>3. fifo_valid(in) => /\ Response.word = At(Len(fifo))
                        /\ Response.err <=> Response.word \in mem.faulty
  BY <1>1, AnswerInOrder
<1>4. \A i \in 1..Len(fifo) : /\ fifo[i].word = At(i - 1)
                              /\ fifo[i].err <=> fifo[i].word \in mem.faulty
  BY <1>1 DEF Chain
<1>5. valid(in) /\ (straddles(in) => Len(fifo) > 1 \/ (Len(fifo) = 1 /\ fifo_valid(in)))
  BY <1>2 DEF out_valid, straddles, valid
<1>6. head(in).word = At(0) /\ (head(in).err <=> At(0) \in mem.faulty)
  BY <1>2, <1>3, <1>4, <1>5 DEF head, valid
<1>7. ASSUME straddles(in)
      PROVE  second(in).word = At(1) /\ (second(in).err <=> At(1) \in mem.faulty)
  BY <1>2, <1>3, <1>4, <1>5, <1>7, SMTT(30) DEF second
<1> QED BY <1>6, <1>7

\* What is taken is the instruction in memory, and its size is added to the address.
LEMMA TakesInstr ==
  ASSUME IInv, InOrder, NEW in \in Inputs, Drivable(in), out_valid(in)
  PROVE  /\ [addr |-> out_addr, err |-> out_err(in), plus2 |-> out_plus2(in),
             data |-> IF out_err(in) THEN <<>> ELSE out_rdata(in)] = InstrAt(mem, instr_addr_q)
         /\ SizeAt(mem, instr_addr_q) = IF is_compressed(in) THEN 1 ELSE 2
<1> DEFINE a == instr_addr_q
           w == WordOf(a)
           n == (w + 1) % Words
<1>0. a \in Half BY DEF IInv, TypeOK
<1>1. /\ a = 2 * w + (a % 2) /\ a % 2 \in {0, 1} /\ w \in Nat /\ n \in Nat
      /\ Odd(a) <=> a % 2 = 1
      /\ Plus(a, 0) = a
      /\ ~Odd(a) => Plus(a, 1) = a + 1 /\ WordOf(Plus(a, 1)) = w
      /\ Odd(a) => Plus(a, 1) = 2 * n /\ WordOf(Plus(a, 1)) = n
  BY <1>0, Addresses, WordsAssumption DEF Odd, Word
<1>2. At(0) = w /\ At(1) = n BY AtFacts DEF IInv, At
<1>3. /\ head(in).word = w /\ (head(in).err <=> w \in mem.faulty)
      /\ straddles(in) => second(in).word = n /\ (second(in).err <=> n \in mem.faulty)
  BY <1>2, Outputs
<1> HIDE DEF a, w, n
<1>4. is_compressed(in) <=> a \in mem.compressed /\ w \notin mem.faulty
  BY <1>1, <1>3 DEF is_compressed, out_addr, a
<1>5. SizeAt(mem, a) = IF is_compressed(in) THEN 1 ELSE 2
  BY <1>4 DEF SizeAt, w
<1>6. straddles(in) <=> Odd(a) /\ ~is_compressed(in) BY DEF straddles, out_addr, a
<1>7. WordOf(Plus(a, SizeAt(mem, a) - 1)) = IF straddles(in) THEN n ELSE w
  BY <1>1, <1>5, <1>6 DEF w
<1>8. out_err(in) <=> \/ w \in mem.faulty
                      \/ WordOf(Plus(a, SizeAt(mem, a) - 1)) \in mem.faulty
  BY <1>3, <1>7 DEF out_err
<1>9. out_plus2(in) <=> /\ WordOf(Plus(a, SizeAt(mem, a) - 1)) \in mem.faulty
                        /\ w \notin mem.faulty
  BY <1>3, <1>7 DEF out_plus2
<1>10. ~out_err(in) => out_rdata(in) = [i \in 1..SizeAt(mem, a) |-> Plus(a, i - 1)]
  <2>1. CASE straddles(in)
    <3>1. out_rdata(in) = <<2 * w + 1, 2 * n + 0>> BY <1>3, <2>1 DEF out_rdata
    <3>2. SizeAt(mem, a) = 2 /\ 2 * w + 1 = Plus(a, 0) /\ 2 * n + 0 = Plus(a, 1)
      BY <1>1, <1>5, <1>6, <2>1
    <3> QED BY <3>1, <3>2
  <2>2. CASE is_compressed(in)
    <3>1. out_rdata(in) = <<2 * w + (a % 2)>>
      BY <1>3, <1>6, <2>2 DEF out_rdata, out_addr, a
    <3>2. SizeAt(mem, a) = 1 /\ 2 * w + (a % 2) = Plus(a, 0) BY <1>1, <1>5, <2>2
    <3> QED BY <3>1, <3>2
  <2>3. CASE ~straddles(in) /\ ~is_compressed(in)
    <3>1. out_rdata(in) = <<2 * w + 0, 2 * w + 1>> BY <1>3, <2>3 DEF out_rdata
    <3>2. SizeAt(mem, a) = 2 /\ 2 * w + 0 = Plus(a, 0) /\ 2 * w + 1 = Plus(a, 1)
      BY <1>1, <1>5, <1>6, <2>3
    <3> QED BY <3>1, <3>2
  <2> QED BY <2>1, <2>2, <2>3
<1>11. [addr |-> a, err |-> out_err(in), plus2 |-> out_plus2(in),
        data |-> IF out_err(in) THEN <<>> ELSE out_rdata(in)] = InstrAt(mem, a)
  <2> DEFINE f == w \in mem.faulty
             s == WordOf(Plus(a, SizeAt(mem, a) - 1)) \in mem.faulty
             cut == [i \in 1..SizeAt(mem, a) |-> Plus(a, i - 1)]
  <2>1. InstrAt(mem, a) = [addr |-> a, err |-> f \/ s, plus2 |-> s /\ ~f,
                           data |-> IF f \/ s THEN <<>> ELSE cut]
    BY Zenon DEF InstrAt, w
  <2>2. out_err(in) \in BOOLEAN /\ out_plus2(in) \in BOOLEAN
    BY <1>3 DEF out_err, out_plus2
  <2>3. out_err(in) = (f \/ s) /\ out_plus2(in) = (s /\ ~f) BY <1>8, <1>9, <2>2
  <2>4. (IF out_err(in) THEN <<>> ELSE out_rdata(in)) = IF f \/ s THEN <<>> ELSE cut
    BY <1>10, <2>3
  <2> HIDE DEF f, s, cut
  <2> QED BY <2>1, <2>3, <2>4, Zenon
<1> QED BY <1>5, <1>11 DEF a, out_addr

-----------------------------------------------------------------------------
(* One clock edge *)
push(in) == IF fifo_valid(in) THEN 1 ELSE 0
pop(in)  == IF pop_fifo(in) THEN 1 ELSE 0

\* Without a redirect the FIFO loses its first entry, or gets the answer, or both.
LEMMA FifoContents ==
  ASSUME IInv, NEW in \in Inputs, Drivable(in), ~in.branch
  PROVE  /\ Len(fifo_d(in)) = Len(fifo) + push(in) - pop(in)
         /\ \A i \in 1..Len(fifo_d(in)) :
               /\ i + pop(in) <= Len(fifo) => fifo_d(in)[i] = fifo[i + pop(in)]
               /\ ~(i + pop(in) <= Len(fifo)) =>
                    fifo_valid(in) /\ fifo_d(in)[i] = Response /\ i + pop(in) = Len(fifo) + 1
<1> DEFINE pushed == IF fifo_valid(in) /\ Len(fifo) < DEPTH
                     THEN Append(fifo, Response) ELSE fifo
<1>1. /\ fifo \in Seq(FifoEntry) /\ Len(fifo) \in Nat /\ (fifo # <<>> <=> Len(fifo) > 0)
      /\ push(in) \in {0, 1} /\ pop(in) \in {0, 1}
      /\ fifo_valid(in) <=> push(in) = 1
  BY DEF IInv, TypeOK, FifoEntry, push, pop
<1>2. fifo_valid(in) => flight # <<>> /\ Len(fifo) < DEPTH /\ Response \in FifoEntry
  <2>1. fifo_valid(in) => flight # <<>> BY DEF fifo_valid, Drivable
  <2>2. flight # <<>> => Len(fifo) < DEPTH
    BY NumReqsAssumption DEF IInv, TypeOK, TracksBus, Room, waiting, DEPTH
  <2> QED BY <2>1, <2>2, ResponseType DEF IInv
<1>3. /\ pushed \in Seq(FifoEntry) /\ Len(pushed) = Len(fifo) + push(in)
      /\ \A i \in 1..Len(pushed) : pushed[i] = IF i <= Len(fifo) THEN fifo[i] ELSE Response
  <2>1. CASE fifo_valid(in)
    <3>1. pushed = Append(fifo, Response) BY <1>2, <2>1
    <3> HIDE DEF pushed
    <3>2. /\ pushed \in Seq(FifoEntry) /\ Len(pushed) = Len(fifo) + 1
          /\ \A i \in 1..Len(fifo) : pushed[i] = fifo[i]
          /\ pushed[Len(fifo) + 1] = Response
      BY <1>1, <1>2, <2>1, <3>1, AppendFacts
    <3> QED BY <1>1, <2>1, <3>2
  <2>2. CASE ~fifo_valid(in)
    <3>1. pushed = fifo BY <2>2
    <3> QED BY <1>1, <2>2, <3>1
  <2> QED BY <2>1, <2>2
<1>4. pop_fifo(in) => pushed # <<>>
  <2>1. pop_fifo(in) => fifo_valid(in) \/ fifo # <<>>
    BY <1>1 DEF pop_fifo, taken, out_valid, valid
  <2> QED BY <1>1, <1>3, <2>1
<1>5. fifo_d(in) = IF pop_fifo(in) THEN Tail(pushed) ELSE pushed BY DEF fifo_d
<1> HIDE DEF pushed
<1>6. CASE pop_fifo(in)
  <2>1. /\ fifo_d(in) = Tail(pushed) /\ pop(in) = 1
        /\ Len(fifo_d(in)) = Len(pushed) - 1
        /\ \A i \in 1..Len(fifo_d(in)) : fifo_d(in)[i] = pushed[i + 1]
    BY <1>3, <1>4, <1>5, <1>6, TailFacts DEF pop
  <2> QED BY <1>1, <1>3, <2>1
<1>7. CASE ~pop_fifo(in)
  <2>1. fifo_d(in) = pushed /\ pop(in) = 0 BY <1>5, <1>7 DEF pop
  <2> QED BY <1>1, <1>3, <2>1
<1> QED BY <1>6, <1>7

\* The stream moves on with the entries that are taken.
LEMMA AddressMoves ==
  ASSUME IInv, InOrder, NEW in \in Inputs, Cycle(in), ~in.branch
  PROVE  \A k \in Nat : AtNext(k) = At(k + pop(in))
<1> USE WordsAssumption
<1>1. Drivable(in) /\ instr_addr_q' = instr_addr_d(in) BY DEF Cycle, Buffer
<1>2. instr_addr_q \in Half /\ TypeOK BY DEF IInv, TypeOK
<1>3. At(0) = WordOf(instr_addr_q) /\ At(1) = (WordOf(instr_addr_q) + 1) % Words
  BY <1>2, AtFacts DEF At
<1>4. WordOf(instr_addr_q') = At(pop(in))
  <2>1. CASE ~taken(in)
    BY <1>1, <1>3, <2>1 DEF instr_addr_d, pop, pop_fifo
  <2>2. CASE taken(in) /\ ~is_compressed(in)
    <3>1. instr_addr_q' = Plus(instr_addr_q, 2) /\ pop(in) = 1
      BY <1>1, <2>2 DEF instr_addr_d, pop, pop_fifo, out_addr
    <3> QED BY <1>2, <1>3, <3>1, Addresses
  <2>3. CASE taken(in) /\ is_compressed(in)
    <3>1. /\ instr_addr_q' = Plus(instr_addr_q, 1)
          /\ pop(in) = IF Odd(instr_addr_q) THEN 1 ELSE 0
      BY <1>1, <2>3 DEF instr_addr_d, pop, pop_fifo, out_addr
    <3> QED BY <1>2, <1>3, <3>1, Addresses
  <2> QED BY <2>1, <2>2, <2>3
<1>5. ASSUME NEW k \in Nat PROVE AtNext(k) = At(k + pop(in))
  <2>1. AtNext(k) = (At(pop(in)) + k) % Words BY <1>4 DEF AtNext
  <2>2. CASE pop(in) = 1
    <3>1. (At(1) + k) % Words = At(k + 1) BY <1>2, AtFacts
    <3> QED BY <2>1, <2>2, <3>1
  <2>3. CASE pop(in) = 0
    <3>1. AtNext(k) = (WordOf(instr_addr_q) + k) % Words BY <1>3, <2>1, <2>3
    <3> QED BY <2>3, <3>1 DEF At
  <2> QED BY <2>2, <2>3 DEF pop
<1> QED BY <1>5

\* The word at which fetching goes on.
LEMMA FetchMoves ==
  ASSUME IInv, NEW in \in Inputs, Cycle(in)
  PROVE  LET from == IF in.branch THEN in.addr ELSE fetch_addr_q
         IN  WordOf(fetch_addr_q') = IF issue(in) THEN (WordOf(from) + 1) % Words
                                                  ELSE WordOf(from)
<1> DEFINE from == IF in.branch THEN in.addr ELSE fetch_addr_q
           base == IF in.branch THEN in.addr ELSE fetch_addr_q - (fetch_addr_q % 2)
<1>1. fetch_addr_q \in Half /\ in.addr \in Half BY DEF IInv, TypeOK, Inputs
<1>2. base \in Half /\ WordOf(base) = WordOf(from) BY <1>1, Addresses
<1>3. fetch_addr_q' = IF in.branch \/ issue(in) THEN fetch_addr_d(in) ELSE fetch_addr_q
  BY DEF Cycle, Buffer
<1>4. fetch_addr_d(in) = IF issue(in) THEN Plus(base, 2) ELSE base BY DEF fetch_addr_d
<1>5. CASE issue(in)
  <2>1. fetch_addr_q' = Plus(base, 2) BY <1>3, <1>4, <1>5
  <2> HIDE DEF from, base
  <2>2. WordOf(Plus(base, 2)) = (WordOf(base) + 1) % Words BY <1>2, Addresses
  <2>3. WordOf(fetch_addr_q') = (WordOf(from) + 1) % Words BY <1>2, <2>1, <2>2
  <2> QED BY <1>5, <2>3 DEF from
<1>6. CASE ~issue(in)
  <2>1. fetch_addr_q' = from BY <1>3, <1>4, <1>6
  <2> QED BY <1>6, <2>1
<1> QED BY <1>5, <1>6

\* The requests after the edge: the oldest one is answered, a new one is granted.
answered(in) == IF in.rvalid THEN 1 ELSE 0

LEMMA RequestsMove ==
  ASSUME IInv, NEW in \in Inputs, Cycle(in)
  PROVE  /\ Len(outstanding) \in Nat /\ answered(in) \in {0, 1} /\ asked(in) \in {0, 1}
         /\ answered(in) <= Len(outstanding)
         /\ Len(outstanding') = Len(outstanding) + asked(in) - answered(in)
         /\ \A i \in 1..Len(outstanding') : LET k == i + answered(in) IN
              /\ k <= Len(outstanding) =>
                   /\ outstanding'[i] <=> in.branch \/ outstanding[k]
                   /\ flight'[i].word = flight[k].word
              /\ ~(k <= Len(outstanding)) =>
                   /\ k = Len(outstanding) + 1 /\ asked(in) = 1
                   /\ outstanding'[i] <=> discard_req_d(in)
                   /\ flight'[i].word = WordOf(instr_addr(in))
<1> DEFINE n == Len(outstanding)
<1>1. Drivable(in) /\ Bus(in) /\ outstanding' = outstanding_s(in) BY DEF Cycle, Buffer
<1>2. /\ n \in Nat /\ Len(flight) = n /\ answered(in) \in {0, 1} /\ asked(in) \in {0, 1}
      /\ answered(in) = 1 <=> in.rvalid
      /\ asked(in) = 1 <=> valid_req(in) /\ in.gnt
  BY DEF IInv, TypeOK, TracksBus, answered, asked
<1>3. answered(in) <= n BY <1>1, <1>2 DEF Drivable, IInv, TypeOK
<1>4. Len(outstanding_n(in)) = n + asked(in) BY <1>2, OutstandingN
<1>5. /\ Len(outstanding') = n + asked(in) - answered(in)
      /\ \A i \in 1..Len(outstanding') : outstanding'[i] = outstanding_n(in)[i + answered(in)]
  <2>1. CASE in.rvalid
    <3>1. answered(in) = 1 BY <2>1 DEF answered
    <3> QED BY <1>1, <1>2, <1>4, <2>1, <3>1, OutstandingS, SMTT(30)
  <2>2. CASE ~in.rvalid
    <3>1. answered(in) = 0 BY <2>2 DEF answered
    <3> QED BY <1>1, <1>2, <1>4, <2>2, <3>1, OutstandingS
  <2> QED BY <2>1, <2>2
<1>6. ASSUME NEW i \in 1..Len(outstanding')
      PROVE  LET k == i + answered(in) IN
              /\ k <= n => /\ outstanding'[i] <=> in.branch \/ outstanding[k]
                           /\ flight'[i].word = flight[k].word
              /\ ~(k <= n) => /\ k = n + 1 /\ asked(in) = 1
                              /\ outstanding'[i] <=> discard_req_d(in)
                              /\ flight'[i].word = WordOf(instr_addr(in))
  <2> DEFINE k == i + answered(in)
  <2>1. k \in 1..(n + asked(in)) /\ (in.rvalid => k = i + 1) /\ (~in.rvalid => k = i)
    BY <1>2, <1>5
  <2>2. Len(flight') = Len(outstanding')
    BY <1>1, <1>2, <1>5, FlightStep
  <2>3. flight'[i].word = IF k <= n THEN flight[k].word ELSE Presented(in).word
    BY <1>1, <1>2, <2>1, <2>2, FlightStep
  <2>4. outstanding'[i] = outstanding_n(in)[k] BY <1>5
  <2> HIDE DEF k
  <2>5. CASE k <= n
    <3>1. k \in 1..n BY <1>2, <2>1, <2>5
    <3> QED BY <2>3, <2>4, <2>5, <3>1, OutstandingN DEF k
  <2>6. CASE ~(k <= n)
    <3>1. k = n + 1 /\ asked(in) = 1 BY <1>2, <2>1, <2>6
    <3>2. outstanding_n(in)[n + 1] = discard_req_d(in) BY <1>2, <3>1, OutstandingN
    <3>3. Presented(in).word = WordOf(instr_addr(in)) BY DEF Presented
    <3> QED BY <2>3, <2>4, <2>6, <3>1, <3>2, <3>3 DEF k
  <2> QED BY <2>5, <2>6 DEF k
<1> QED BY <1>2, <1>3, <1>5, <1>6

\* The request that waits after the edge.
LEMMA WaitingMoves ==
  ASSUME IInv, NEW in \in Inputs, Cycle(in)
  PROVE  /\ valid_req_q' <=> valid_req(in) /\ ~in.gnt
         /\ discard_req_q' <=> discard_req_d(in)
         /\ valid_req_q' => held'.word = WordOf(instr_addr(in)) /\ asked(in) = 0
         /\ live' = IF valid_req_q' /\ ~discard_req_q' THEN 1 ELSE 0
         /\ booted' <=> booted \/ in.branch
  BY DEF Cycle, Buffer, Bus, IfStage, Presented, asked, live

\* A redirect discards every request there is, and starts the stream afresh.
LEMMA RedirectInOrder ==
  ASSUME IInv, InOrder, NEW in \in Inputs, Cycle(in), in.branch
  PROVE  InOrder'
<1> DEFINE n == Len(outstanding)
           old == IF asked(in) = 1 /\ valid_req_q THEN 1 ELSE 0
<1>1. fifo' = <<>> /\ instr_addr_q' = in.addr /\ Len(fifo') = 0
  BY DEF Cycle, Buffer, fifo_d, instr_addr_d
<1>2. AtNext(0) = WordOf(in.addr) /\ AtNext(1) = (WordOf(in.addr) + 1) % Words
  <2>1. WordOf(in.addr) \in Word BY WordOfType DEF Inputs
  <2> QED BY <1>1, <2>1, NoOffset DEF AtNext
<1>3. discard_req_d(in) <=> valid_req_q BY DEF discard_req_d
<1>4. asked(in) = 1 <=> valid_req(in) /\ in.gnt BY DEF asked
<1>5. ~valid_req_q => instr_addr(in) = in.addr BY DEF instr_addr
<1>6. (issue(in) <=> valid_req(in) /\ ~valid_req_q) /\ (valid_req_q => valid_req(in))
  BY DEF issue, valid_req
<1>7. WordOf(fetch_addr_q') = IF issue(in) THEN AtNext(1) ELSE AtNext(0)
  BY <1>2, FetchMoves
<1>8. /\ n \in Nat /\ answered(in) \in {0, 1} /\ answered(in) <= n /\ asked(in) \in {0, 1}
      /\ Len(outstanding') = n + asked(in) - answered(in)
      /\ old \in {0, 1} /\ (old = 1 <=> asked(in) = 1 /\ valid_req_q)
  BY RequestsMove
<1> HIDE DEF old
<1>9. PICK d \in Nat : d = (n - answered(in)) + old BY <1>8
<1>10. d \in 0..Len(outstanding') /\ Len(outstanding') - d = asked(in) - old
  BY <1>8, <1>9
<1>11. \A i \in 1..Len(outstanding') : outstanding'[i] <=> i <= d
  <2> SUFFICES ASSUME NEW i \in 1..Len(outstanding') PROVE outstanding'[i] <=> i <= d
    OBVIOUS
  <2>1. CASE i + answered(in) <= n
    <3>1. outstanding'[i] BY <2>1, RequestsMove
    <3> QED BY <1>8, <1>9, <2>1, <3>1
  <2>2. CASE ~(i + answered(in) <= n)
    <3>1. i + answered(in) = n + 1 /\ asked(in) = 1 /\ (outstanding'[i] <=> valid_req_q)
      BY <1>3, <2>2, RequestsMove
    <3>2. i <= d <=> old = 1 BY <1>8, <1>9, <3>1
    <3> QED BY <1>8, <3>1, <3>2
  <2> QED BY <2>1, <2>2
<1>12. \A i \in (d + 1)..Len(outstanding') : flight'[i].word = AtNext(Len(fifo') + i - (d + 1))
  <2> SUFFICES ASSUME NEW i \in (d + 1)..Len(outstanding')
               PROVE  flight'[i].word = AtNext(Len(fifo') + i - (d + 1))
    OBVIOUS
  <2>1. old = 0 /\ asked(in) = 1 /\ i = d + 1 /\ i \in 1..Len(outstanding')
    BY <1>8, <1>9, <1>10
  <2>2. ~(i + answered(in) <= n) BY <1>8, <1>9, <2>1
  <2>3. flight'[i].word = WordOf(instr_addr(in)) BY <2>1, <2>2, RequestsMove
  <2>4. ~valid_req_q BY <1>8, <2>1
  <2>5. Len(fifo') + i - (d + 1) = 0 BY <1>1, <2>1
  <2> QED BY <1>2, <1>5, <2>3, <2>4, <2>5
<1>13. /\ valid_req_q' /\ discard_req_q' => d = Len(outstanding')
       /\ valid_req_q' /\ ~discard_req_q' =>
            held'.word = AtNext(Len(fifo') + Len(outstanding') - d)
  <2> SUFFICES ASSUME valid_req_q'
               PROVE  /\ d = Len(outstanding')
                      /\ ~discard_req_q' => held'.word = AtNext(Len(fifo') + Len(outstanding') - d)
    OBVIOUS
  <2>1. asked(in) = 0 /\ held'.word = WordOf(instr_addr(in)) BY WaitingMoves
  <2>2. d = Len(outstanding') BY <1>8, <1>10, <2>1
  <2>3. Len(fifo') + Len(outstanding') - d = 0 BY <1>1, <1>8, <2>2
  <2>4. ~discard_req_q' => ~valid_req_q BY <1>3, WaitingMoves
  <2> QED BY <1>2, <1>5, <2>1, <2>2, <2>3, <2>4
<1>14. WordOf(fetch_addr_q') = AtNext(Len(fifo') + Len(outstanding') - d + live')
  <2>1. live' = IF valid_req(in) /\ ~in.gnt /\ ~valid_req_q THEN 1 ELSE 0
    BY <1>3, WaitingMoves
  <2>2. (asked(in) - old) + live' = IF issue(in) THEN 1 ELSE 0
    <3>1. CASE valid_req_q
      BY <1>4, <1>6, <1>8, <2>1, <3>1
    <3>2. CASE ~valid_req_q /\ valid_req(in)
      BY <1>4, <1>6, <1>8, <2>1, <3>2
    <3>3. CASE ~valid_req(in)
      BY <1>4, <1>6, <1>8, <2>1, <3>3
    <3> QED BY <3>1, <3>2, <3>3
  <2>3. live' \in {0, 1} BY <2>1
  <2>4. Len(fifo') + Len(outstanding') - d + live' = IF issue(in) THEN 1 ELSE 0
    BY <1>1, <1>8, <1>10, <2>2, <2>3
  <2> QED BY <1>7, <2>4
<1>15. booted' BY WaitingMoves
<1>16. Len(fifo') = 0 => \A i \in 1..Len(fifo') : FALSE OBVIOUS
<1> QED BY <1>1, <1>10, <1>11, <1>12, <1>13, <1>14, <1>15, <1>16, ChainNext

\* What is asked for next, if it is not to be discarded, is the next word.
LEMMA AsksInOrder ==
  ASSUME IInv, NEW d \in 0..Len(outstanding), Chain(d), NEW in \in Inputs, Cycle(in),
         ~in.branch, valid_req(in), ~(valid_req_q /\ discard_req_q)
  PROVE  WordOf(instr_addr(in)) = At(Len(fifo) + Len(outstanding) - d)
<1>1. CASE valid_req_q
  <2>1. held.word = At(Len(fifo) + Len(outstanding) - d) BY <1>1 DEF Chain
  <2>2. instr_addr(in) = stored_addr_q BY <1>1 DEF instr_addr
  <2> QED BY <1>1, <2>1, <2>2 DEF IInv, HoldsRequest
<1>2. CASE ~valid_req_q
  <2>1. booted BY <1>2 DEF valid_req, valid_new_req, Cycle, Drivable
  <2>2. live = 0 /\ instr_addr(in) = fetch_addr_q BY <1>2 DEF live, instr_addr
  <2>3. WordOf(fetch_addr_q) = At(Len(fifo) + Len(outstanding) - d + live)
    BY <2>1 DEF Chain
  <2>4. Len(fifo) + Len(outstanding) - d + live = Len(fifo) + Len(outstanding) - d
    BY <2>2 DEF IInv, TypeOK
  <2> QED BY <2>2, <2>3, <2>4
<1> QED BY <1>1, <1>2

LEMMA NextWord ==
  ASSUME TypeOK, NEW k \in Nat
  PROVE  (At(k) + 1) % Words = At(k + 1)
<1> DEFINE a == WordOf(instr_addr_q) + k
<1>1. a \in Nat /\ a + 1 = WordOf(instr_addr_q) + (k + 1)
  BY WordOfType, WordsAssumption DEF TypeOK, Word
<1>2. ((a % Words) + 1) % Words = (a + 1) % Words
  <2> HIDE DEF a
  <2> QED BY <1>1, WordsAssumption, AddModulo
<1> QED BY <1>1, <1>2 DEF At

\* Without a redirect the chain loses what is taken and gets what is asked for.
LEMMA GoesOnInOrder ==
  ASSUME IInv, InOrder, NEW in \in Inputs, Cycle(in), ~in.branch
  PROVE  InOrder'
<1>1. PICK d \in Nat : d <= Len(outstanding) /\ Chain(d)
  BY DEF InOrder, IInv, TypeOK
<1>2. Drivable(in) /\ fifo' = fifo_d(in) /\ mem' = mem /\ TypeOK /\ d \in 0..Len(outstanding)
  BY <1>1 DEF Cycle, Buffer, IInv, TypeOK
<1>3. PICK n \in Nat, ans \in Nat, ask \in Nat, m \in Nat :
        /\ n = Len(outstanding) /\ ans = answered(in) /\ ask = asked(in)
        /\ m = Len(outstanding') /\ m = (n + ask) - ans
        /\ ans <= 1 /\ ask <= 1 /\ ans <= n
  <2>1. /\ Len(outstanding) \in Nat /\ answered(in) \in {0, 1} /\ asked(in) \in {0, 1}
        /\ answered(in) <= Len(outstanding)
        /\ Len(outstanding') = Len(outstanding) + asked(in) - answered(in)
    BY RequestsMove
  <2>2. Len(outstanding') \in Nat BY <2>1
  <2> QED BY <2>1, <2>2
<1>4. \A k \in Nat : AtNext(k) = At(k + pop(in)) BY AddressMoves
<1>5. PICK f \in Nat, up \in Nat, down \in Nat, g \in Nat :
        /\ f = Len(fifo) /\ up = push(in) /\ down = pop(in) /\ up <= 1 /\ down <= 1
        /\ g = Len(fifo') /\ g = (f + up) - down
  <2>1. fifo' \in Seq(FifoEntry) BY <1>2, FifoStep
  <2>2. Len(fifo') = Len(fifo) + push(in) - pop(in) BY <1>2, FifoContents
  <2>3. Len(fifo) \in Nat /\ Len(fifo') \in Nat /\ push(in) \in {0, 1} /\ pop(in) \in {0, 1}
    BY <2>1 DEF IInv, TypeOK, push, pop
  <2> QED BY <2>2, <2>3
\* The answer, if there is one, is kept or discarded.
<1>6. PICK drop \in Nat : up + drop = ans /\ (drop = 1 => d > 0) /\ (up = 1 => d = 0)
  <2>1. CASE ~in.rvalid
    <3>1. up = 0 /\ ans = 0 BY <1>3, <1>5, <2>1 DEF push, fifo_valid, answered
    <3> QED BY <3>1
  <2>2. CASE in.rvalid
    <3>1. ans = 1 /\ n > 0 BY <1>3, <2>2 DEF answered
    <3>2. outstanding # <<>> /\ (outstanding[1] <=> 1 <= d)
      BY <1>1, <1>3, <3>1 DEF Chain, IInv, TypeOK
    <3>3. up = IF 1 <= d THEN 0 ELSE 1 BY <1>5, <2>2, <3>2 DEF push, fifo_valid
    <3>4. CASE 1 <= d
      <4>1. up + 1 = ans /\ d > 0 /\ up = 0 BY <3>1, <3>3, <3>4
      <4> QED BY <4>1
    <3>5. CASE ~(1 <= d)
      <4>1. up + 0 = ans /\ d = 0 /\ up = 1 BY <3>1, <3>3, <3>5
      <4> QED BY <4>1
    <3> QED BY <3>4, <3>5
  <2> QED BY <2>1, <2>2
\* The request granted, if there is one, is one that waited and is discarded, or not.
<1>7. discard_req_d(in) <=> valid_req_q /\ discard_req_q BY DEF discard_req_d
<1>8. PICK new \in Nat : /\ new <= 1 /\ new <= ask /\ (new = 1 <=> ask = 1 /\ discard_req_d(in))
                         /\ new = 1 => d = n
  <2>1. discard_req_d(in) => d = n BY <1>1, <1>3, <1>7 DEF Chain
  <2>2. CASE ask = 1 /\ discard_req_d(in) BY <2>1, <2>2
  <2>3. CASE ~(ask = 1 /\ discard_req_d(in)) BY <2>3
  <2> QED BY <2>2, <2>3
<1>9. PICK e \in Nat : e = (d - drop) + new BY <1>3, <1>6
\* All of these counts at once.
<1>0. /\ m = (n + ask) - ans /\ g = (f + up) - down /\ e = (d - drop) + new
      /\ up + drop = ans /\ ans <= 1 /\ ask <= 1 /\ ans <= n /\ d <= n /\ new <= ask
      /\ drop = 1 => d > 0
      /\ up = 1 => d = 0
      /\ new = 1 => d = n
  <2>1. d <= n BY <1>1, <1>3
  <2>2. m = (n + ask) - ans /\ ans <= 1 /\ ask <= 1 /\ ans <= n BY <1>3
  <2>3. g = (f + up) - down BY <1>5
  <2>4. new <= ask /\ (new = 1 => d = n) BY <1>8
  <2> QED BY <1>6, <1>9, <2>1, <2>2, <2>3, <2>4
<1>10. e <= m /\ new <= 1 BY <1>0
<1>11. \A i \in 1..m : outstanding'[i] <=> i <= e
  <2> SUFFICES ASSUME NEW i \in 1..m PROVE outstanding'[i] <=> i <= e
    OBVIOUS
  <2>1. CASE i + ans <= n
    <3>1. i + ans \in 1..n /\ (i + ans <= d <=> i <= e) BY <1>0, <2>1
    <3>2. outstanding'[i] <=> outstanding[i + ans] BY <1>3, <2>1, RequestsMove
    <3>3. outstanding[i + ans] <=> i + ans <= d BY <1>1, <1>3, <3>1 DEF Chain
    <3> QED BY <3>1, <3>2, <3>3
  <2>2. CASE ~(i + ans <= n)
    <3>1. i + ans = n + 1 /\ ask = 1 /\ (outstanding'[i] <=> discard_req_d(in))
      BY <1>3, <2>2, RequestsMove
    <3>2. i <= e <=> new = 1 BY <1>0, <3>1
    <3> QED BY <1>8, <3>1, <3>2
  <2> QED BY <2>1, <2>2
<1>12. \A i \in 1..g : /\ fifo'[i].word = AtNext(i - 1)
                       /\ fifo'[i].err <=> fifo'[i].word \in mem'.faulty
  <2> SUFFICES ASSUME NEW i \in 1..g
               PROVE  /\ fifo'[i].word = AtNext(i - 1)
                      /\ fifo'[i].err <=> fifo'[i].word \in mem'.faulty
    OBVIOUS
  <2>1. AtNext(i - 1) = At((i + down) - 1)
    <3>1. i - 1 \in Nat /\ (i - 1) + down = (i + down) - 1 OBVIOUS
    <3> QED BY <1>4, <1>5, <3>1
  <2>2. CASE i + down <= f
    <3>1. i + down \in 1..f BY <2>2
    <3>2. fifo'[i] = fifo[i + down] BY <1>2, <1>5, <2>2, FifoContents
    <3>3. /\ fifo[i + down].word = At((i + down) - 1)
          /\ fifo[i + down].err <=> fifo[i + down].word \in mem.faulty
      BY <1>1, <1>5, <3>1 DEF Chain
    <3> QED BY <1>2, <2>1, <3>2, <3>3
  <2>3. CASE ~(i + down <= f)
    <3>1. fifo_valid(in) /\ fifo'[i] = Response /\ i + down = f + 1
      BY <1>2, <1>5, <2>3, FifoContents
    <3>2. Response.word = At(f) /\ (Response.err <=> Response.word \in mem.faulty)
      BY <1>1, <1>2, <1>5, <3>1, AnswerInOrder
    <3>3. (i + down) - 1 = f BY <3>1
    <3> QED BY <1>2, <2>1, <3>1, <3>2, <3>3
  <2> QED BY <2>2, <2>3
<1>13. \A i \in (e + 1)..m : flight'[i].word = AtNext(g + i - (e + 1))
  <2> SUFFICES ASSUME NEW i \in Nat, e + 1 <= i, i <= m
               PROVE  flight'[i].word = AtNext(g + i - (e + 1))
    OBVIOUS
  <2>1. i \in 1..m OBVIOUS
  <2>2. AtNext(g + i - (e + 1)) = At(f + up + i - (e + 1))
    <3>1. g + i - (e + 1) \in Nat OBVIOUS
    <3>2. (g + i - (e + 1)) + down = f + up + i - (e + 1) BY <1>0
    <3> QED BY <1>4, <1>5, <3>1, <3>2
  <2>3. CASE i + ans <= n
    <3>1. new = 0 BY <1>0, <2>3, <1>10
    <3>2. i + ans \in (d + 1)..n BY <1>0, <2>3, <3>1
    <3>3. flight'[i].word = flight[i + ans].word BY <1>3, <2>1, <2>3, RequestsMove
    <3>4. flight[i + ans].word = At(f + (i + ans) - (d + 1))
      BY <1>1, <1>3, <1>5, <3>2 DEF Chain
    <3>5. f + (i + ans) - (d + 1) = f + up + i - (e + 1) BY <1>0, <3>1
    <3> QED BY <2>2, <3>3, <3>4, <3>5
  <2>4. CASE ~(i + ans <= n)
    <3>1. i + ans = n + 1 /\ ask = 1 /\ flight'[i].word = WordOf(instr_addr(in))
      BY <1>3, <2>1, <2>4, RequestsMove
    <3>2. new = 0 BY <1>0, <1>10, <3>1
    <3>3. valid_req(in) /\ ~(valid_req_q /\ discard_req_q)
      BY <1>3, <1>7, <1>8, <3>1, <3>2 DEF asked
    <3>4. WordOf(instr_addr(in)) = At(f + n - d)
      BY <1>1, <1>2, <1>3, <1>5, <3>3, AsksInOrder
    <3>5. f + n - d = f + up + i - (e + 1) BY <1>0, <3>1, <3>2
    <3> QED BY <2>2, <3>1, <3>4, <3>5
  <2> QED BY <2>3, <2>4
<1>14. /\ valid_req_q' /\ discard_req_q' => e = m
       /\ valid_req_q' /\ ~discard_req_q' => held'.word = AtNext(g + m - e)
  <2> SUFFICES ASSUME valid_req_q'
               PROVE  /\ discard_req_q' => e = m
                      /\ ~discard_req_q' => held'.word = AtNext(g + m - e)
    OBVIOUS
  <2>1. /\ valid_req(in) /\ ask = 0 /\ held'.word = WordOf(instr_addr(in))
        /\ discard_req_q' <=> valid_req_q /\ discard_req_q
    BY <1>3, <1>7, WaitingMoves
  <2>2. new = 0 BY <1>0, <2>1
  <2>3. ASSUME discard_req_q' PROVE e = m
    <3>1. d = n BY <1>1, <1>3, <2>1, <2>3 DEF Chain
    <3> QED BY <1>0, <2>1, <2>2, <3>1
  <2>4. ASSUME ~discard_req_q' PROVE held'.word = AtNext(g + m - e)
    <3>1. WordOf(instr_addr(in)) = At(f + n - d)
      BY <1>1, <1>2, <1>3, <1>5, <2>1, <2>4, AsksInOrder
    <3>2. g + m - e \in Nat BY <1>10
    <3>3. (g + m - e) + down = f + n - d BY <1>0, <2>1, <2>2
    <3> QED BY <1>4, <1>5, <2>1, <3>1, <3>2, <3>3
  <2> QED BY <2>3, <2>4
<1>15. booted' => WordOf(fetch_addr_q') = AtNext(g + m - e + live')
  <2> SUFFICES ASSUME booted' PROVE WordOf(fetch_addr_q') = AtNext(g + m - e + live')
    OBVIOUS
  <2>1. booted BY WaitingMoves
  <2>2. PICK l \in Nat, ll \in Nat, more \in Nat :
          l = live /\ ll = live' /\ more = IF issue(in) THEN 1 ELSE 0
    <3>1. live \in Nat /\ live' \in Nat BY DEF live
    <3> QED BY <3>1
  <2>3. WordOf(fetch_addr_q) = At(f + n - d + l) BY <1>1, <1>3, <1>5, <2>1, <2>2 DEF Chain
  <2>4. PICK x \in Nat : x = f + n - d + l BY <1>0
  <2>5. WordOf(fetch_addr_q') = At(x + more)
    <3>1. (At(x) + 1) % Words = At(x + 1) BY <1>2, NextWord
    <3> QED BY <2>2, <2>3, <2>4, <3>1, FetchMoves
  <2>6. (ask - new) + ll = l + more
    <3>1. ll = IF valid_req(in) /\ ~in.gnt /\ ~(valid_req_q /\ discard_req_q) THEN 1 ELSE 0
      BY <1>7, <2>2, WaitingMoves
    <3>2. ask = IF valid_req(in) /\ in.gnt THEN 1 ELSE 0 BY <1>3 DEF asked
    <3>3. l = IF valid_req_q /\ ~discard_req_q THEN 1 ELSE 0 BY <2>2 DEF live
    <3>4. (issue(in) <=> valid_req(in) /\ ~valid_req_q) /\ (valid_req_q => valid_req(in))
      BY DEF issue, valid_req
    <3>5. CASE valid_req_q /\ discard_req_q
      BY <1>7, <1>8, <1>10, <2>2, <3>1, <3>2, <3>3, <3>4, <3>5
    <3>6. CASE ~(valid_req_q /\ discard_req_q)
      BY <1>7, <1>8, <1>10, <2>2, <3>1, <3>2, <3>3, <3>4, <3>6
    <3> QED BY <3>5, <3>6
  <2>7. g + m - e + ll \in Nat BY <1>10
  <2>8. (g + m - e + ll) + down = x + more BY <1>0, <2>4, <2>6
  <2> QED BY <1>4, <1>5, <2>2, <2>5, <2>7, <2>8
<1>16. ~booted' => fifo' = <<>> /\ outstanding' = <<>> /\ ~valid_req_q'
  <2> SUFFICES ASSUME ~booted' PROVE fifo' = <<>> /\ outstanding' = <<>> /\ ~valid_req_q'
    OBVIOUS
  <2>1. ~booted /\ fifo = <<>> /\ outstanding = <<>> /\ ~valid_req_q
    BY <1>1, WaitingMoves DEF Chain
  <2>2. ~valid_req(in) BY <1>2, <2>1 DEF Drivable, valid_req, valid_new_req
  <2>3. ask = 0 /\ n = 0 /\ f = 0 BY <1>3, <1>5, <2>1, <2>2 DEF asked
  <2>4. g = 0 /\ m = 0 BY <1>0, <2>3
  <2>5. outstanding' \in Seq(BOOLEAN) /\ fifo' \in Seq(FifoEntry)
    BY <1>2, OutstandingS, FifoStep DEF Cycle, Buffer
  <2>6. Len(fifo') = 0 /\ Len(outstanding') = 0 BY <1>3, <1>5, <2>4
  <2>7. fifo' = <<>> /\ outstanding' = <<>> BY <2>5, <2>6
  <2> QED BY <2>2, <2>7, WaitingMoves
<1>17. /\ e \in 0..Len(outstanding')
       /\ \A i \in (e + 1)..Len(outstanding') :
             flight'[i].word = AtNext(Len(fifo') + i - (e + 1))
  BY <1>3, <1>5, <1>10, <1>13
<1> QED BY <1>3, <1>5, <1>11, <1>12, <1>14, <1>15, <1>16, <1>17, ChainNext

-----------------------------------------------------------------------------
LEMMA InitInOrder == Init => InOrder
<1> SUFFICES ASSUME Init PROVE InOrder
  OBVIOUS
<1>1. Len(outstanding) = 0 /\ Len(fifo) = 0 BY DEF Init
<1>2. Chain(0) BY <1>1 DEF Init, Chain
<1> QED BY <1>1, <1>2 DEF InOrder

\* The order of the words behind the next instruction is kept by every clock edge.
THEOREM KeepsOrder == Spec => []InOrder
<1>1. IInv /\ InOrder /\ [Next]_vars => InOrder'
  <2> SUFFICES ASSUME IInv, InOrder, [Next]_vars PROVE InOrder'
    OBVIOUS
  <2>1. ASSUME NEW in \in Inputs, Cycle(in) PROVE InOrder'
    BY <2>1, RedirectInOrder, GoesOnInOrder
  <2>2. CASE UNCHANGED vars
    BY <2>2 DEF vars, pfVars, busVars, InOrder, Chain, At, live
  <2> QED BY <2>1, <2>2 DEF Next
<1> QED BY <1>1, InitInOrder, Invariance, PTL DEF Spec

\* InstrStream speaks of the same memories.
LEMMA SameMemory ==
  /\ Stream!Half = Half /\ Stream!NoInstr = NoInstr
  /\ \A m, a : Stream!SizeAt(m, a) = SizeAt(m, a) /\ Stream!InstrAt(m, a) = InstrAt(m, a)
  /\ \A a, n : Stream!Plus(a, n) = Plus(a, n)
<1>1. Stream!Half = Half /\ Stream!NoInstr = NoInstr
  BY Zenon DEF Stream!Half, Half, Stream!NoInstr, NoInstr
<1>2. \A a, n : Stream!Plus(a, n) = Plus(a, n)
  BY Zenon DEF Stream!Plus, Plus
<1>3. \A m, a : Stream!SizeAt(m, a) = SizeAt(m, a)
  BY Zenon DEF Stream!SizeAt, SizeAt, Stream!WordOf, WordOf
<1>4. \A m, a : Stream!InstrAt(m, a) = InstrAt(m, a)
  BY <1>2, <1>3, Zenon DEF Stream!InstrAt, InstrAt, Stream!WordOf, WordOf, Stream!Plus, Plus,
     Stream!SizeAt, SizeAt
<1> QED BY <1>1, <1>2, <1>3, <1>4

\* A clock edge redirects the stream, delivers its next instruction, or is not seen.
LEMMA EdgeRefines ==
  ASSUME IInv, InOrder, NEW in \in Inputs, Cycle(in)
  PROVE  [Stream!Next]_(Stream!vars)
<1>1. /\ Drivable(in) /\ mem' = mem /\ instr_addr_q' = instr_addr_d(in)
      /\ last' = IF in.branch THEN NoInstr
                 ELSE IF taken(in)
                 THEN [addr |-> out_addr, err |-> out_err(in), plus2 |-> out_plus2(in),
                       data |-> IF out_err(in) THEN <<>> ELSE out_rdata(in)]
                 ELSE last
  BY DEF Cycle, Buffer, IfStage
<1>2. CASE in.branch
  <2>1. instr_addr_q' = in.addr /\ last' = NoInstr /\ in.addr \in Half
    BY <1>1, <1>2 DEF instr_addr_d, Inputs
  <2>2. Stream!Redirect(in.addr) BY <1>1, <2>1, SameMemory DEF Stream!Redirect
  <2> QED BY <2>1, <2>2, SameMemory DEF Stream!Next
<1>3. CASE ~in.branch /\ taken(in)
  <2>1. out_valid(in) BY <1>3 DEF taken
  <2>2. last' = InstrAt(mem, instr_addr_q) BY <1>1, <1>3, <2>1, TakesInstr
  <2>3. instr_addr_q' = Plus(instr_addr_q, SizeAt(mem, instr_addr_q))
    BY <1>1, <1>3, <2>1, TakesInstr DEF instr_addr_d, out_addr
  <2>4. Stream!Deliver BY <1>1, <2>2, <2>3, SameMemory DEF Stream!Deliver
  <2> QED BY <2>4 DEF Stream!Next
<1>4. CASE ~in.branch /\ ~taken(in)
  BY <1>1, <1>4 DEF instr_addr_d, Stream!vars
<1> QED BY <1>2, <1>3, <1>4

\* The prefetch buffer implements the stream of instructions: what the IF stage takes
\* is what memory holds, in program order, from the last redirect on.
THEOREM ImplementsStream == Spec => StreamSpec
<1>1. Init => Stream!Init
  BY SameMemory DEF Init, Stream!Init
<1>2. IInv /\ InOrder /\ [Next]_vars => [Stream!Next]_(Stream!vars)
  <2> SUFFICES ASSUME IInv, InOrder, [Next]_vars PROVE [Stream!Next]_(Stream!vars)
    OBVIOUS
  <2>1. CASE UNCHANGED vars BY <2>1 DEF vars, pfVars, Stream!vars
  <2> QED BY <2>1, EdgeRefines DEF Next
<1> QED BY <1>1, <1>2, Invariance, KeepsOrder, PTL DEF Spec, StreamSpec, Stream!Spec
=============================================================================
