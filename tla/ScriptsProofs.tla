---------------------------- MODULE ScriptsProofs ----------------------------
(***************************************************************************)
(* Proofs about the scripts, for inputs of any size and any number: that   *)
(* each of those that compute returns what its docstring asks for, and     *)
(* that sv2v_in_place converts sources only.                               *)
(*                                                                         *)
(* What holds of a script that has ended is that it has returned the value *)
(* of its function (Computed); the theorems are then about the functions,  *)
(* by induction over the length of their input.                            *)
(***************************************************************************)
EXTENDS Scripts, LoopProofs, FiniteSetTheorems

-----------------------------------------------------------------------------
(* One script runs on one input *)

\* A script that has ended has returned what its function computes from its input.
Computed ==
    /\ script \in DOMAIN Inputs_of /\ in \in Inputs_of[script]
    /\ Done("check_ibex_uvm_log") => out = check_ibex_uvm_log(in.log)
    /\ Done("tds") => out = test_seeds
    /\ Done("get_tool_cmds") =>
           out = get_tool_cmd(in.cmd, in.entry, in.enables, in.user, in.env)
    /\ Done("check_tool_requirements") => out = all_good(in.reqs, in.named, in.installed)
    /\ Done("get_x_opts") => out = compile_and_sim

LEMMA InitComputed == Init => Computed
BY DEF Init, Computed, Done

\* No step changes the script or its input, and one that ends it computes its result.
LEMMA NextComputed == Computed /\ [Next]_vars => Computed'
<1>. SUFFICES ASSUME Computed, [Next]_vars PROVE Computed'
  OBVIOUS
<1>0. script' = script /\ in' = in
  BY DEF Next, Runs, vars
<1>i. (script \in DOMAIN Inputs_of /\ in \in Inputs_of[script])'
  BY <1>0 DEF Computed, Inputs_of
<1>s. test_seeds' = test_seeds /\ compile_and_sim' = compile_and_sim
  BY <1>0 DEF test_seeds, compile_and_sim
<1>1. CASE Runs("check_ibex_uvm_log", check_ibex_uvm_log(in.log))
  BY <1>0, <1>i, <1>1 DEF Runs, Computed, Done
<1>2. CASE Runs("tds", test_seeds)
  BY <1>0, <1>i, <1>s, <1>2 DEF Runs, Computed, Done
<1>3. CASE Runs("get_tool_cmds", get_tool_cmd(in.cmd, in.entry, in.enables, in.user, in.env))
  BY <1>0, <1>i, <1>3 DEF Runs, Computed, Done
<1>4. CASE Runs("check_tool_requirements", all_good(in.reqs, in.named, in.installed))
  BY <1>0, <1>i, <1>4 DEF Runs, Computed, Done
<1>5. CASE Runs("get_x_opts", compile_and_sim)
  BY <1>0, <1>i, <1>s, <1>5 DEF Runs, Computed, Done
<1>6. CASE UNCHANGED <<script, in, out, done>>
  BY <1>0, <1>i, <1>s, <1>6 DEF Computed, Done
<1>. QED BY <1>1, <1>2, <1>3, <1>4, <1>5, <1>6 DEF Next, vars

LEMMA AlwaysComputed == Spec => []Computed
BY InitComputed, NextComputed, PTL DEF Spec

-----------------------------------------------------------------------------
(* The verdict on a log *)

\* One line of the log.
ScanLine(s, line) ==
    IF s.end THEN s ELSE ScanFailed(ScanPassed(ScanError(s, line), line), line)

ScanState == [passed : BOOLEAN, failed : BOOLEAN, error_line : LogLine,
              error_seen : BOOLEAN, test_result_seen : BOOLEAN, end : BOOLEAN]

\* A line leaves a state of the scan.
LEMMA ScanLineType ==
    ASSUME NEW s \in ScanState, NEW line \in LogLine
    PROVE  ScanLine(s, line) \in ScanState
BY DEF ScanState, ScanLine, ScanError, ScanPassed, ScanFailed

\* The loop over the lines, line by line.
LEMMA ScanSteps ==
    ASSUME NEW log \in Seq(LogLine)
    PROVE  \E r : /\ r[0] = ScanStart
                  /\ \A k \in 1..Len(log) : r[k] = ScanLine(r[k - 1], log[k])
                  /\ Scan(log) = r[Len(log)]
<1>. DEFINE n == Len(log)
            Is(f) == f = [D \in SUBSET (1..n) |-> IF D = {} THEN ScanStart
                            ELSE ScanLine(f[D \ {Max(D)}], log[Max(D)])]
            G == [p \in ScanState \X (1..n) |-> ScanLine(p[1], log[p[2]])]
            c == CHOOSE f : Is(f)
<1>1. n \in Nat /\ DOMAIN log = 1..n /\ \A k \in 1..n : log[k] \in LogLine
  BY LenProperties, ElementOfSeq
<1>2. G \in [ScanState \X (1..n) -> ScanState]
  BY <1>1, ScanLineType
<1>3. ScanStart \in ScanState
  BY DEF ScanStart, ScanState, LogLine
<1>4. PICK f : Iterates(f, ScanState, ScanStart, n, G)
  <2>. HIDE DEF G, n
  <2>. QED BY <1>1, <1>2, <1>3, IterExists
<1>5. ASSUME NEW D \in SUBSET (1..n)
      PROVE  f[D] = IF D = {} THEN ScanStart ELSE ScanLine(f[D \ {Max(D)}], log[Max(D)])
  <2>1. CASE D = {}
    BY <1>4, <2>1 DEF Iterates
  <2>2. CASE D # {}
    <3>1. Max(D) \in 1..n /\ D \ {Max(D)} \in SUBSET (1..n)
      <4>. HIDE DEF n
      <4>. QED BY <1>1, <2>2, MaxIn
    <3>2. f[D \ {Max(D)}] \in ScanState
      BY <1>4, <3>1 DEF Iterates
    <3>3. f[D] = G[<<f[D \ {Max(D)}], Max(D)>>]
      BY <1>4, <2>2 DEF Iterates
    <3>. QED BY <2>2, <3>1, <3>2, <3>3
  <2>. QED BY <2>1, <2>2
<1>6. Is(f)
  <2>1. f = [D \in SUBSET (1..n) |-> f[D]]
    BY <1>4 DEF Iterates
  <2>. QED BY <1>5, <2>1
<1>7. Is(c)
  <2>. HIDE DEF Is
  <2>. QED BY <1>6
<1>8. Scan(log) = c[1..n]
  BY <1>1 DEF Scan, FoldLeft, MapThenFoldSet, ScanLine
<1>9. c[1..0] = ScanStart /\ \A k \in 1..n : c[1..k] = ScanLine(c[1..(k - 1)], log[k])
  <2>. HIDE DEF c
  <2>1. \A D \in SUBSET (1..n) :
           c[D] = IF D = {} THEN ScanStart ELSE ScanLine(c[D \ {Max(D)}], log[Max(D)])
    BY <1>7
  <2>2. 1..0 = {}
    OBVIOUS
  <2>3. ASSUME NEW k \in 1..n PROVE c[1..k] = ScanLine(c[1..(k - 1)], log[k])
    <3>1. Max(1..k) = k /\ (1..k) \ {k} = 1..(k - 1)
      BY <1>1, MaxOfRange
    <3>2. 1..k \in SUBSET (1..n) /\ 1..k # {}
      <4>. HIDE DEF n
      <4>. QED BY <1>1
    <3>. QED BY <2>1, <3>1, <3>2
  <2>. QED BY <2>1, <2>2, <2>3
<1>. DEFINE r == [k \in 0..n |-> c[1..k]]
<1>10. r[0] = ScanStart /\ (\A k \in 1..n : r[k] = ScanLine(r[k - 1], log[k])) /\ Scan(log) = r[n]
  <2>. HIDE DEF c
  <2>1. \A k \in 0..n : r[k] = c[1..k]
    OBVIOUS
  <2>2. \A k \in 1..n : k \in 0..n /\ k - 1 \in 0..n
    BY <1>1
  <2>3. 0 \in 0..n /\ n \in 0..n
    BY <1>1
  <2>. HIDE DEF r
  <2>. QED BY <1>8, <1>9, <2>1, <2>2, <2>3
<1>. HIDE DEF r
<1>. QED BY <1>10

\* What has been seen in the first k lines.
Result(log, i) == Says(log, i, "PASSED") \/ Says(log, i, "FAILED")

Error(log, i) == Says(log, i, "error") /\ ~\E j \in 1..(i - 1) : Result(log, j)

Seen(log, k, s) ==
    /\ s \in ScanState
    /\ s.end <=> \E i \in 1..k : Says(log, i, "FAILED")
    /\ s.end => s.failed
    /\ ~s.end =>
          /\ s.passed <=> \E i \in 1..k : Says(log, i, "PASSED")
          /\ s.test_result_seen <=> \E i \in 1..k : Result(log, i)
          /\ s.failed <=> \E i \in 1..k : Error(log, i)

\* One more line.
LEMMA SeenNext ==
    ASSUME NEW log \in Seq(LogLine), NEW k \in 1..Len(log), NEW s, Seen(log, k - 1, s)
    PROVE  Seen(log, k, ScanLine(s, log[k]))
<1>. DEFINE t == ScanLine(s, log[k])
<1>1. k \in Nat /\ log[k] \in LogLine /\ s \in ScanState
  BY LenProperties, ElementOfSeq DEF Seen
<1>2. t \in ScanState
  BY <1>1, ScanLineType
<1>3. \A i \in 1..k : i \in 1..(k - 1) \/ i = k
  BY <1>1
<1>4. \A i \in 1..(k - 1) : i \in 1..k
  BY <1>1
<1>5. k \in 1..k
  BY <1>1
<1>6. CASE s.end
  <2>1. t = s
    BY <1>6 DEF ScanLine
  <2>. QED BY <1>2, <1>3, <1>4, <1>5, <1>6, <2>1 DEF Seen
<1>7. CASE ~s.end
  <2>1. /\ t.end <=> "FAILED" \in log[k]
        /\ t.passed <=> s.passed \/ "PASSED" \in log[k]
        /\ t.test_result_seen <=> s.test_result_seen \/ "PASSED" \in log[k] \/ "FAILED" \in log[k]
        /\ t.failed <=> \/ s.failed \/ "FAILED" \in log[k]
                        \/ "error" \in log[k] /\ ~s.test_result_seen
    BY <1>1, <1>7 DEF ScanLine, ScanError, ScanPassed, ScanFailed, ScanState
  <2>2. /\ ~\E i \in 1..(k - 1) : Says(log, i, "FAILED")
        /\ s.passed <=> \E i \in 1..(k - 1) : Says(log, i, "PASSED")
        /\ s.test_result_seen <=> \E i \in 1..(k - 1) : Result(log, i)
        /\ s.failed <=> \E i \in 1..(k - 1) : Error(log, i)
    BY <1>7 DEF Seen
  <2>. HIDE DEF t
  <2>3. t.end <=> \E i \in 1..k : Says(log, i, "FAILED")
    BY <1>3, <1>4, <1>5, <2>1, <2>2 DEF Says
  <2>4. t.passed <=> \E i \in 1..k : Says(log, i, "PASSED")
    BY <1>3, <1>4, <1>5, <2>1, <2>2 DEF Says
  <2>5. t.test_result_seen <=> \E i \in 1..k : Result(log, i)
    <3>1. Result(log, k) <=> "PASSED" \in log[k] \/ "FAILED" \in log[k]
      BY DEF Result, Says
    <3>. QED BY <1>3, <1>4, <1>5, <2>1, <2>2, <3>1
  <2>6. ~t.end => (t.failed <=> \E i \in 1..k : Error(log, i))
    <3>1. Error(log, k) <=> "error" \in log[k] /\ ~s.test_result_seen
      BY <2>2 DEF Error, Says
    <3>. QED BY <1>3, <1>4, <1>5, <2>1, <2>2, <3>1
  <2>7. t.end => t.failed
    BY <2>1
  <2>8. Seen(log, k, t)
    <3>. HIDE DEF Seen
    <3>. SUFFICES /\ t \in ScanState
                  /\ t.end <=> \E i \in 1..k : Says(log, i, "FAILED")
                  /\ t.end => t.failed
                  /\ ~t.end => (t.passed <=> \E i \in 1..k : Says(log, i, "PASSED"))
                  /\ ~t.end => (t.test_result_seen <=> \E i \in 1..k : Result(log, i))
                  /\ ~t.end => (t.failed <=> \E i \in 1..k : Error(log, i))
      BY DEF Seen
    <3>. QED BY <1>2, <2>3, <2>4, <2>5, <2>6, <2>7
  <2>. QED BY <2>8 DEF t
<1>. QED BY <1>6, <1>7

\* All lines.
LEMMA SeenAll ==
    ASSUME NEW log \in Seq(LogLine)
    PROVE  Seen(log, Len(log), Scan(log))
<1>1. PICK r : /\ r[0] = ScanStart
               /\ \A k \in 1..Len(log) : r[k] = ScanLine(r[k - 1], log[k])
               /\ Scan(log) = r[Len(log)]
  BY ScanSteps
<1>. DEFINE T == {k \in Nat : k <= Len(log) => Seen(log, k, r[k])}
<1>2. 0 \in T
  <2>1. Seen(log, 0, ScanStart)
    BY DEF Seen, ScanStart, ScanState, LogLine
  <2>. QED BY <1>1, <2>1
<1>3. ASSUME NEW k \in Nat, k \in T PROVE k + 1 \in T
  <2>. SUFFICES ASSUME k + 1 <= Len(log) PROVE Seen(log, k + 1, r[k + 1])
    OBVIOUS
  <2>1. k + 1 \in 1..Len(log) /\ (k + 1) - 1 = k /\ Seen(log, k, r[k])
    BY <1>3, LenProperties
  <2>2. r[k + 1] = ScanLine(r[k], log[k + 1])
    BY <1>1, <2>1
  <2>3. Seen(log, k + 1, ScanLine(r[k], log[k + 1]))
    BY <2>1, SeenNext
  <2>. QED BY <2>2, <2>3
<1>. HIDE DEF T
<1>4. Len(log) \in T
  BY <1>2, <1>3, NatSet, LenProperties
<1>. QED BY <1>1, <1>4, LenProperties DEF T

\* A log of any length passes exactly when its docstring says so.
THEOREM VerdictOnLog ==
    ASSUME NEW log \in Seq(LogLine)
    PROVE  check_ibex_uvm_log(log) = "passed" <=> Passes(log)
<1>1. Seen(log, Len(log), Scan(log))
  BY SeenAll
<1>2. DOMAIN log = 1..Len(log)
  BY LenProperties
<1>3. check_ibex_uvm_log(log) = "passed" <=> ~Scan(log).failed /\ Scan(log).passed
  BY DEF check_ibex_uvm_log
<1>4. ~Scan(log).failed => ~Scan(log).end
  BY <1>1 DEF Seen
<1>5. CleanUpToResult(log) <=> ~\E i \in 1..Len(log) : Error(log, i)
  BY <1>2 DEF CleanUpToResult, Error, Result
<1>. QED BY <1>1, <1>2, <1>3, <1>4, <1>5 DEF Seen, Passes

\* A log is judged as passed exactly when it reports that the test has passed, no
\* failure, and no error before that report.
THEOREM VerdictOnLogs == Spec => []LogVerdict
<1>1. Computed => LogVerdict
  <2>. SUFFICES ASSUME Computed, Done("check_ibex_uvm_log")
                PROVE  out = "passed" <=> Passes(in.log)
    BY DEF LogVerdict
  <2>1. out = check_ibex_uvm_log(in.log) /\ in \in LogInputs
    BY DEF Computed, Done, Inputs_of
  <2>2. in.log \in Seq(LogLine)
    BY <2>1, LogAssumption
  <2>. QED BY <2>1, <2>2, VerdictOnLog
<1>. QED BY <1>1, AlwaysComputed, PTL

-----------------------------------------------------------------------------
(* The order of versions *)

\* The order of the first two, three and four numbers.
Lex2(a, b) == a[1] < b[1] \/ (a[1] = b[1] /\ a[2] < b[2])

Lex3(a, b) == Lex2(a, b) \/ (a[1] = b[1] /\ a[2] = b[2] /\ a[3] < b[3])

Lex4(a, b) == Lex3(a, b) \/ (a[1] = b[1] /\ a[2] = b[2] /\ a[3] = b[3] /\ a[4] < b[4])

\* Less, for three numbers.
LEMMA LessOfThree ==
    ASSUME NEW a, NEW b, DOMAIN a = 1..3
    PROVE  Less(a, b) <=> Lex3(a, b)
<1>1. \A i : i \in 1..3 <=> i = 1 \/ i = 2 \/ i = 3
  OBVIOUS
<1>2. /\ \A j : j \in 1..(1 - 1) <=> FALSE
      /\ \A j : j \in 1..(2 - 1) <=> j = 1
      /\ \A j : j \in 1..(3 - 1) <=> j = 1 \/ j = 2
  OBVIOUS
<1>. QED BY <1>1, <1>2, SMTT(30) DEF Less, Lex3, Lex2

\* Less, for four numbers.
LEMMA LessOfFour ==
    ASSUME NEW a, NEW b, DOMAIN a = 1..4
    PROVE  Less(a, b) <=> Lex4(a, b)
<1>1. \A i : i \in 1..4 <=> i = 1 \/ i = 2 \/ i = 3 \/ i = 4
  OBVIOUS
<1>2. /\ \A j : j \in 1..(1 - 1) <=> FALSE
      /\ \A j : j \in 1..(2 - 1) <=> j = 1
      /\ \A j : j \in 1..(3 - 1) <=> j = 1 \/ j = 2
      /\ \A j : j \in 1..(4 - 1) <=> j = 1 \/ j = 2 \/ j = 3
  OBVIOUS
<1>. QED BY <1>1, <1>2, SMTT(30) DEF Less, Lex4, Lex3, Lex2

\* The numbers of a version, filled up with zeros.
LEMMA FilledFacts ==
    ASSUME NEW n, NEW k \in Nat
    PROVE  /\ DOMAIN Filled(n, k) = 1..k
           /\ \A i \in 1..k : Filled(n, k)[i] = IF i \in DOMAIN n THEN n[i] ELSE 0
BY DEF Filled

\* StrictVersion orders versions of two or three numbers as their numbers are.
LEMMA PlainOrder ==
    ASSUME NEW a \in [1..2 -> Nat] \cup [1..3 -> Nat],
           NEW b \in [1..2 -> Nat] \cup [1..3 -> Nat]
    PROVE  /\ IsStrict(Plain(a))
           /\ Less(Triple(Plain(a)), Triple(Plain(b))) <=> Less(Filled(a, 4), Filled(b, 4))
<1>1. ASSUME NEW n \in [1..2 -> Nat] \cup [1..3 -> Nat]
      PROVE  /\ Len(n) \in {2, 3}
             /\ DOMAIN Filled(n, 3) = 1..3 /\ DOMAIN Filled(n, 4) = 1..4
             /\ Filled(n, 3)[1] = n[1] /\ Filled(n, 4)[1] = n[1] /\ n[1] \in Nat
             /\ Filled(n, 3)[2] = n[2] /\ Filled(n, 4)[2] = n[2] /\ n[2] \in Nat
             /\ Filled(n, 3)[3] = Filled(n, 4)[3] /\ Filled(n, 4)[3] \in Nat
             /\ Filled(n, 4)[4] = 0
  <2>0. DOMAIN n = 1..2 \/ DOMAIN n = 1..3
    OBVIOUS
  <2>1. \A i \in DOMAIN n : n[i] \in Nat
    OBVIOUS
  <2>2. Len(n) \in {2, 3}
    BY LenOf
  <2>. QED BY <2>0, <2>1, <2>2 DEF Filled
<1>2. Less(Triple(Plain(a)), Triple(Plain(b))) <=> Lex3(Filled(a, 3), Filled(b, 3))
  BY <1>1, LessOfThree DEF Triple, Plain
<1>3. Less(Filled(a, 4), Filled(b, 4)) <=> Lex4(Filled(a, 4), Filled(b, 4))
  BY <1>1, LessOfFour
<1>4. IsStrict(Plain(a))
  BY <1>1 DEF IsStrict, Plain
<1>. QED
  BY <1>1, <1>2, <1>3, <1>4 DEF Lex4, Lex3, Lex2

\* The digits of a service pack and a patch.
DigitsOf(n) == Digits(comb(n[3], n[4]))

\* The number that is made of a month, a service pack and a patch: the month in front
\* of the digits of the other two.
MinorIs(a, m, p, q, d, c) ==
    /\ m = a[2] /\ p = a[3] /\ q = a[4] /\ d = DigitsOf(a) /\ c = p * 100 + q
    /\ m >= 1 /\ p <= 99 /\ q <= 99 /\ c < d
    /\ d > 10 => c >= 10
    /\ d > 100 => c >= 100
    /\ d > 1000 => c >= 1000
    /\ VcsMinor(a) = m * d + c

LEMMA MinorFacts ==
    ASSUME NEW a \in VcsNumbers
    PROVE  \E m \in Nat, p \in Nat, q \in Nat, d \in {10, 100, 1000, 10000}, c \in Nat :
               MinorIs(a, m, p, q, d, c)
<1>1. PICK m \in Nat, p \in Nat, q \in Nat :
          m = a[2] /\ p = a[3] /\ q = a[4] /\ m >= 1 /\ p <= 99 /\ q <= 99
  <2>1. a[2] \in 1..12 /\ a[3] \in Nat /\ a[3] < 100 /\ a[4] \in Nat /\ a[4] < 100
    BY DEF VcsNumbers
  <2>2. a[2] \in Nat /\ a[2] >= 1 /\ a[3] <= 99 /\ a[4] <= 99
    BY <2>1
  <2>. QED BY <2>1, <2>2, Zenon
<1>2. PICK c \in Nat : c = p * 100 + q /\ c <= 9999
  <2>1. p * 100 + q \in Nat /\ p * 100 + q <= 9999
    BY <1>1
  <2>. QED BY <2>1
<1>3. comb(a[3], a[4]) = c
  BY <1>1, <1>2 DEF comb
<1>4. PICK d \in {10, 100, 1000, 10000} :
          /\ d = Digits(c) /\ c < d
          /\ (d > 10 => c >= 10) /\ (d > 100 => c >= 100) /\ (d > 1000 => c >= 1000)
  BY <1>2 DEF Digits
<1>5. d = DigitsOf(a)
  BY <1>3, <1>4 DEF DigitsOf
<1>6. VcsMinor(a) = m * d + c
  <2>1. VcsMinor(a) = a[2] * Digits(c) + c
    BY <1>3 DEF VcsMinor
  <2>. QED BY <2>1, <1>1, <1>4
<1>7. MinorIs(a, m, p, q, d, c)
  <2>1. /\ m = a[2] /\ p = a[3] /\ q = a[4] /\ m >= 1 /\ p <= 99 /\ q <= 99
    BY <1>1
  <2>2. c = p * 100 + q
    BY <1>2
  <2>3. c < d /\ (d > 10 => c >= 10) /\ (d > 100 => c >= 100) /\ (d > 1000 => c >= 1000)
    BY <1>4
  <2>. QED BY <2>1, <2>2, <2>3, <1>5, <1>6 DEF MinorIs
<1>. QED BY <1>7

\* It grows with the month, unless the later month has fewer digits behind it, and with
\* the service pack and the patch.
LEMMA MinorOrder ==
    ASSUME NEW a \in VcsNumbers, NEW b \in VcsNumbers,
           a[2] < b[2] => DigitsOf(a) <= DigitsOf(b),
           b[2] < a[2] => DigitsOf(b) <= DigitsOf(a)
    PROVE  /\ VcsMinor(a) < VcsMinor(b) <=>
                  \/ a[2] < b[2]
                  \/ a[2] = b[2] /\ (a[3] < b[3] \/ (a[3] = b[3] /\ a[4] < b[4]))
           /\ VcsMinor(a) = VcsMinor(b) <=> a[2] = b[2] /\ a[3] = b[3] /\ a[4] = b[4]
<1>a. PICK m \in Nat, p \in Nat, q \in Nat, e \in {10, 100, 1000, 10000}, c \in Nat :
          MinorIs(a, m, p, q, e, c)
  BY MinorFacts
<1>b. PICK k \in Nat, u \in Nat, w \in Nat, f \in {10, 100, 1000, 10000}, d \in Nat :
          MinorIs(b, k, u, w, f, d)
  BY MinorFacts
<1>1. /\ m = a[2] /\ p = a[3] /\ q = a[4] /\ e = DigitsOf(a)
      /\ m >= 1 /\ p <= 99 /\ q <= 99 /\ c < e
      /\ (e > 10 => c >= 10) /\ (e > 100 => c >= 100) /\ (e > 1000 => c >= 1000)
      /\ VcsMinor(a) = m * e + c
  BY <1>a DEF MinorIs
<1>2. /\ k = b[2] /\ u = b[3] /\ w = b[4] /\ f = DigitsOf(b)
      /\ k >= 1 /\ u <= 99 /\ w <= 99 /\ d < f
      /\ (f > 10 => d >= 10) /\ (f > 100 => d >= 100) /\ (f > 1000 => d >= 1000)
      /\ VcsMinor(b) = k * f + d
  BY <1>b DEF MinorIs
<1>3. c = p * 100 + q /\ d = u * 100 + w
  BY <1>a, <1>b DEF MinorIs
<1>4. /\ c < d <=> p < u \/ (p = u /\ q < w)
      /\ c = d <=> p = u /\ q = w
  BY <1>1, <1>2, <1>3
<1>5. CASE m < k
  <2>1. e <= f
    BY <1>1, <1>2, <1>5
  <2>2. m * e + c < k * f + d
    <3>1. m * e + e <= k * f
      BY <1>5, <2>1
    <3>2. m * e \in Nat /\ k * f \in Nat /\ e \in Nat
      OBVIOUS
    <3>. QED BY <1>1, <1>3, <3>1, <3>2
  <2>. QED BY <1>1, <1>2, <1>3, <1>5, <2>2
<1>6. CASE k < m
  <2>1. f <= e
    BY <1>1, <1>2, <1>6
  <2>2. k * f + d < m * e + c
    <3>1. k * f + f <= m * e
      BY <1>6, <2>1
    <3>2. m * e \in Nat /\ k * f \in Nat /\ f \in Nat
      OBVIOUS
    <3>. QED BY <1>2, <1>3, <3>1, <3>2
  <2>. QED BY <1>1, <1>2, <1>3, <1>6, <2>2
<1>7. CASE m = k
  <2>1. (c < d => e <= f) /\ (d < c => f <= e) /\ (c = d => e = f)
    BY <1>1, <1>2, <1>3
  <2>2. /\ m * e + c < k * f + d <=> c < d
        /\ m * e + c = k * f + d <=> c = d
    <3>1. (e <= f => m * e <= k * f) /\ (f <= e => k * f <= m * e) /\ (e = f => m * e = k * f)
      BY <1>7
    <3>2. m * e \in Nat /\ k * f \in Nat
      OBVIOUS
    <3>. QED BY <2>1, <3>1, <3>2
  <2>. QED BY <1>1, <1>2, <1>3, <1>4, <1>7, <2>2
<1>. QED BY <1>5, <1>6, <1>7

\* The numbers of a version with a year and one other number.
LEMMA YearFirst ==
    ASSUME NEW a \in VcsNumbers
    PROVE  LET t == Triple(Plain(<<a[1], VcsMinor(a)>>))
           IN  /\ DOMAIN t = 1..3 /\ t[1] = a[1] /\ t[2] = VcsMinor(a) /\ t[3] = 0
               /\ a[1] \in Nat /\ VcsMinor(a) \in Nat
<1>1. a[1] \in Nat
  BY DEF VcsNumbers
<1>2. VcsMinor(a) \in Nat
  <2>1. PICK m \in Nat, p \in Nat, q \in Nat, d \in {10, 100, 1000, 10000}, c \in Nat :
            MinorIs(a, m, p, q, d, c)
    BY MinorFacts
  <2>2. VcsMinor(a) = m * d + c
    BY <2>1 DEF MinorIs
  <2>3. m * d + c \in Nat
    OBVIOUS
  <2>. QED BY <2>2, <2>3
<1>3. DOMAIN <<a[1], VcsMinor(a)>> = 1..2 /\ <<a[1], VcsMinor(a)>>[1] = a[1]
      /\ <<a[1], VcsMinor(a)>>[2] = VcsMinor(a)
  OBVIOUS
<1>. QED BY <1>1, <1>2, <1>3 DEF Triple, Plain, Filled

\* Versions of VCS are ordered as they are when made plain, unless the later month of a
\* year has fewer digits behind it.
LEMMA VcsOrder ==
    ASSUME NEW a \in VcsNumbers, NEW b \in VcsNumbers, SameOrder(a, b)
    PROVE  Less(Triple(Plain(<<a[1], VcsMinor(a)>>)), Triple(Plain(<<b[1], VcsMinor(b)>>)))
               <=> Less(Filled(a, 4), Filled(b, 4))
<1>1. /\ a[1] \in Nat /\ a[2] \in Nat /\ a[3] \in Nat /\ a[4] \in Nat /\ DOMAIN a = 1..4
      /\ b[1] \in Nat /\ b[2] \in Nat /\ b[3] \in Nat /\ b[4] \in Nat /\ DOMAIN b = 1..4
  BY DEF VcsNumbers
<1>2. VcsMinor(a) \in Nat /\ VcsMinor(b) \in Nat
  BY YearFirst
<1>4. Filled(a, 4) = a /\ Filled(b, 4) = b
  BY DEF Filled, VcsNumbers
<1>5. Less(Filled(a, 4), Filled(b, 4)) <=> Lex4(a, b)
  BY <1>1, <1>4, LessOfFour
<1>. DEFINE s == Triple(Plain(<<a[1], VcsMinor(a)>>))
            t == Triple(Plain(<<b[1], VcsMinor(b)>>))
<1>6. /\ DOMAIN s = 1..3 /\ s[1] = a[1] /\ s[2] = VcsMinor(a) /\ s[3] = 0
      /\ t[1] = b[1] /\ t[2] = VcsMinor(b) /\ t[3] = 0
  BY YearFirst
<1>. HIDE DEF s, t
<1>7. Less(s, t) <=> Lex3(s, t)
  BY <1>6, LessOfThree
<1>8. Lex3(s, t) <=> Lex4(a, b)
  <2>1. CASE a[1] # b[1]
    BY <1>1, <1>6, <2>1 DEF Lex4, Lex3, Lex2
  <2>2. CASE a[1] = b[1]
    <3>1. /\ a[2] < b[2] => DigitsOf(a) <= DigitsOf(b)
          /\ b[2] < a[2] => DigitsOf(b) <= DigitsOf(a)
      BY <2>2 DEF SameOrder, DigitsOf
    <3>2. /\ VcsMinor(a) < VcsMinor(b) <=>
                  \/ a[2] < b[2]
                  \/ a[2] = b[2] /\ (a[3] < b[3] \/ (a[3] = b[3] /\ a[4] < b[4]))
          /\ VcsMinor(a) = VcsMinor(b) <=> a[2] = b[2] /\ a[3] = b[3] /\ a[4] = b[4]
      BY <3>1, MinorOrder
    <3>. QED BY <1>1, <1>2, <1>6, <2>2, <3>2 DEF Lex4, Lex3, Lex2
  <2>. QED BY <2>1, <2>2
<1>. QED BY <1>5, <1>7, <1>8 DEF s, t

\* A release without service pack and patch comes before one of its year that has a
\* service pack when they are made plain, and after it when it is of a later month.
LEMMA BaseRelease ==
    ASSUME NEW a \in VcsNumbers, NEW b \in VcsNumbers,
           a[1] = b[1], a[3] = 0, a[4] = 0, b[3] > 0
    PROVE  /\ Less(Triple(Plain(<<a[1], VcsMinor(a)>>)), Triple(Plain(<<b[1], VcsMinor(b)>>)))
           /\ b[2] < a[2] => ~Less(Filled(a, 4), Filled(b, 4))
<1>. DEFINE s == Triple(Plain(<<a[1], VcsMinor(a)>>))
            t == Triple(Plain(<<b[1], VcsMinor(b)>>))
<1>1. VcsMinor(a) < VcsMinor(b)
  <2>a. PICK m \in Nat, p \in Nat, q \in Nat, e \in {10, 100, 1000, 10000}, c \in Nat :
            MinorIs(a, m, p, q, e, c)
    BY MinorFacts
  <2>b. PICK k \in Nat, u \in Nat, w \in Nat, f \in {10, 100, 1000, 10000}, d \in Nat :
            MinorIs(b, k, u, w, f, d)
    BY MinorFacts
  <2>1. /\ m = a[2] /\ p = a[3] /\ q = a[4] /\ c = p * 100 + q
        /\ (e > 10 => c >= 10) /\ (e > 100 => c >= 100) /\ (e > 1000 => c >= 1000)
        /\ VcsMinor(a) = m * e + c
    BY <2>a DEF MinorIs
  <2>2. /\ u = b[3] /\ d = u * 100 + w /\ k >= 1 /\ d < f
        /\ VcsMinor(b) = k * f + d
    BY <2>b DEF MinorIs
  <2>3. m <= 12 /\ c = 0 /\ u >= 1
    <3>1. a[2] \in 1..12
      BY DEF VcsNumbers
    <3>2. m <= 12
      BY <2>1, <3>1
    <3>. QED BY <2>1, <2>2, <3>2
  <2>4. VcsMinor(a) <= 120
    BY <2>1, <2>3
  <2>5. f >= 1000
    BY <2>2, <2>3
  <2>6. VcsMinor(b) >= 1000
    BY <2>2, <2>5
  <2>7. VcsMinor(a) \in Nat /\ VcsMinor(b) \in Nat
    <3>1. m * e + c \in Nat /\ k * f + d \in Nat
      OBVIOUS
    <3>. QED BY <2>1, <2>2, <3>1
  <2>. QED BY <2>4, <2>6, <2>7
<1>2. Less(s, t)
  <2>1. /\ DOMAIN s = 1..3 /\ s[1] = a[1] /\ s[2] = VcsMinor(a) /\ s[3] = 0
        /\ t[1] = b[1] /\ t[2] = VcsMinor(b) /\ t[3] = 0
    <3>1. DOMAIN s = 1..3 /\ s[1] = a[1] /\ s[2] = VcsMinor(a) /\ s[3] = 0
      BY YearFirst
    <3>2. t[1] = b[1] /\ t[2] = VcsMinor(b) /\ t[3] = 0
      BY YearFirst
    <3>. QED BY <3>1, <3>2
  <2>. HIDE DEF s, t
  <2>2. Lex3(s, t)
    BY <1>1, <2>1 DEF Lex3, Lex2
  <2>. QED BY <2>1, <2>2, LessOfThree
<1>3. ASSUME b[2] < a[2] PROVE ~Less(Filled(a, 4), Filled(b, 4))
  <2>1. /\ a[1] \in Nat /\ a[2] \in Nat /\ DOMAIN a = 1..4
        /\ b[1] \in Nat /\ b[2] \in Nat /\ DOMAIN b = 1..4
    BY DEF VcsNumbers
  <2>2. Filled(a, 4) = a /\ Filled(b, 4) = b
    BY DEF Filled, VcsNumbers
  <2>3. Less(a, b) <=> Lex4(a, b)
    BY <2>1, LessOfFour
  <2>4. ~Lex4(a, b)
    BY <1>3, <2>1 DEF Lex4, Lex3, Lex2
  <2>. QED BY <2>2, <2>3, <2>4
<1>. QED BY <1>2, <1>3

\* What the numbers side by side do to a release without service pack and patch: it is
\* refused when a release of its year with a service pack is required, also one of an
\* earlier month (check_tool_requirements.py:260).  2020.12 is not good enough for
\* 2020.03-SP2.
THEOREM LaterRefused ==
    ASSUME NEW min \in VcsNumbers, NEW n \in VcsNumbers,
           n[1] = min[1], n[3] = 0, n[4] = 0, min[3] > 0,
           NEW r, r.tool = "vcs", r.min_version = [form |-> "vcs", n |-> min],
           NEW v, v = [form |-> "vcs", n |-> n]
    PROVE  /\ ~check(r, v)
           /\ min[2] < n[2] => AtLeast(v, r.min_version)
<1>1. /\ Less(Triple(Plain(<<n[1], VcsMinor(n)>>)), Triple(Plain(<<min[1], VcsMinor(min)>>)))
      /\ min[2] < n[2] => ~Less(Filled(n, 4), Filled(min, 4))
  BY BaseRelease
<1>2. /\ to_semver("vcs", r.min_version, TRUE) = Plain(<<min[1], VcsMinor(min)>>)
      /\ to_semver("vcs", v, FALSE) = Plain(<<n[1], VcsMinor(n)>>)
  BY DEF to_semver, ClassOf
<1>3. v.n = n /\ r.min_version.n = min
  OBVIOUS
<1>. QED BY <1>1, <1>2, <1>3, Zenon DEF check, AtLeast

\* What check decides of one requirement.
LEMMA CheckDecides ==
    ASSUME NEW r, NEW v \in Version, r.min_version \in Version,
           r.min_version.form = FormOf(r.tool),
           r.tool = "vcs" /\ v.form \in {"vcs", "cruft"} => SameOrder(v.n, r.min_version.n)
    PROVE  check(r, v) <=> /\ v.form \in {r.min_version.form}
                                   \cup (IF r.tool = "vcs" THEN {"cruft"} ELSE {})
                           /\ AtLeast(v, r.min_version)
<1>. DEFINE m == r.min_version
<1>0. /\ v.form \in {"none", "plain", "verible", "vcs", "cruft"}
      /\ \A w \in Version : /\ w.form = "plain" => w.n \in [1..2 -> Nat] \cup [1..3 -> Nat] /\ w = Plain(w.n)
                            /\ w.form = "verible" => w.n \in [1..3 -> Nat]
                            /\ w.form \in {"vcs", "cruft"} => w.n \in VcsNumbers
  BY DEF Version, NoVersion, Plain
<1>n. ~IsStrict(NoVersion)
  BY DEF IsStrict, NoVersion
<1>1. CASE r.tool = "vcs"
  <2>1. m.form = "vcs" /\ m.n \in VcsNumbers
    BY <1>0, <1>1 DEF FormOf
  <2>2. to_semver("vcs", m, TRUE) = Plain(<<m.n[1], VcsMinor(m.n)>>)
    BY <2>1 DEF to_semver, ClassOf
  <2>3. CASE v.form \in {"vcs", "cruft"}
    <3>1. v.n \in VcsNumbers /\ SameOrder(v.n, m.n)
      BY <1>0, <1>1, <2>3
    <3>2. to_semver("vcs", v, FALSE) = Plain(<<v.n[1], VcsMinor(v.n)>>)
      BY <2>3 DEF to_semver, ClassOf
    <3>3. /\ Less(Triple(Plain(<<v.n[1], VcsMinor(v.n)>>)), Triple(Plain(<<m.n[1], VcsMinor(m.n)>>)))
                <=> Less(Filled(v.n, 4), Filled(m.n, 4))
      BY <2>1, <3>1, VcsOrder
    <3>4. ASSUME NEW x, NEW y PROVE IsStrict(Plain(<<x, y>>))
      BY DEF IsStrict, Plain
    <3>. QED BY <1>1, <2>1, <2>2, <2>3, <3>2, <3>3, <3>4 DEF check, AtLeast
  <2>4. CASE v.form \notin {"vcs", "cruft"}
    <3>1. to_semver("vcs", v, FALSE) = NoVersion
      BY <2>4 DEF to_semver, ClassOf
    <3>. QED BY <1>n, <1>1, <2>1, <2>4, <3>1 DEF check
  <2>. QED BY <2>3, <2>4
<1>2. CASE r.tool = "verible"
  <2>1. m.form = "verible" /\ m.n \in [1..3 -> Nat]
    BY <1>0, <1>2 DEF FormOf
  <2>2. to_semver("verible", m, TRUE) = Plain(m.n)
    BY <2>1 DEF to_semver, ClassOf
  <2>3. CASE v.form = "verible"
    <3>1. v.n \in [1..3 -> Nat]
      BY <1>0, <2>3
    <3>2. to_semver("verible", v, FALSE) = Plain(v.n)
      BY <2>3 DEF to_semver, ClassOf
    <3>. QED BY <1>2, <2>1, <2>2, <2>3, <3>1, <3>2, PlainOrder DEF check, AtLeast
  <2>4. CASE v.form # "verible"
    <3>1. to_semver("verible", v, FALSE) = NoVersion
      BY <2>4 DEF to_semver, ClassOf
    <3>. QED BY <1>n, <1>2, <2>1, <2>4, <3>1 DEF check
  <2>. QED BY <2>3, <2>4
<1>3. CASE r.tool \notin {"vcs", "verible"}
  <2>1. m.form = "plain" /\ m.n \in [1..2 -> Nat] \cup [1..3 -> Nat] /\ m = Plain(m.n)
    BY <1>0, <1>3 DEF FormOf
  <2>2. to_semver(r.tool, m, TRUE) = m /\ to_semver(r.tool, v, FALSE) = v
    BY <1>3 DEF to_semver, ClassOf
  <2>3. CASE v.form = "plain"
    <3>1. v.n \in [1..2 -> Nat] \cup [1..3 -> Nat] /\ v = Plain(v.n)
      BY <1>0, <2>3
    <3>2. IsStrict(m) /\ IsStrict(v) /\ (Less(Triple(v), Triple(m)) <=> Less(Filled(v.n, 4), Filled(m.n, 4)))
      BY <2>1, <3>1, PlainOrder
    <3>. QED BY <1>3, <2>1, <2>2, <2>3, <3>2 DEF check, AtLeast
  <2>4. CASE v.form # "plain"
    BY <1>3, <2>1, <2>2, <2>4 DEF check, IsStrict
  <2>. QED BY <2>3, <2>4
<1>. QED BY <1>1, <1>2, <1>3

\* Whatever the tools report, they are good exactly when each one that is required, or
\* asked for, is there in at least the version required, and nothing unknown is asked
\* for; for VCS unless the later month of a year has fewer digits behind it.
THEOREM ToolsMeetMinimum == Spec => []MeetsMinimum
<1>1. Computed => MeetsMinimum
  <2>. DEFINE Recent(r) == LET v == in.installed[r.tool]
                           IN  /\ v.form \in {r.min_version.form}
                                      \cup (IF r.tool = "vcs" THEN {"cruft"} ELSE {})
                               /\ AtLeast(v, r.min_version)
              Ordered(r) == r.tool = "vcs" /\ in.installed[r.tool].form \in {"vcs", "cruft"} =>
                                SameOrder(in.installed[r.tool].n, r.min_version.n)
              W == Wanted(in.reqs, in.named)
  <2>. SUFFICES ASSUME Computed, Done("check_tool_requirements"), \A r \in W : Ordered(r)
                PROVE  out <=> /\ in.named \subseteq {r.tool : r \in in.reqs}
                               /\ \A r \in in.reqs : ~r.as_needed \/ r.tool \in in.named => Recent(r)
    BY DEF MeetsMinimum
  <2>1. out = all_good(in.reqs, in.named, in.installed) /\ in \in ReqInputs
    BY DEF Computed, Done, Inputs_of
  <2>0. W = {r \in in.reqs : ~r.as_needed \/ r.tool \in in.named}
    BY DEF Wanted
  <2>2. ASSUME NEW r \in W PROVE check(r, in.installed[r.tool]) <=> Recent(r)
    <3>1. r \in in.reqs /\ Ordered(r)
      BY <2>0
    <3>. HIDE DEF W
    <3>. QED BY <2>1, <3>1, ReqAssumption, CheckDecides
  <2>. HIDE DEF Recent, Ordered, W
  <2>3. missing_tools(in.reqs, in.named, in.installed) = {}
            <=> \A r \in in.reqs : ~r.as_needed \/ r.tool \in in.named => Recent(r)
    <3>1. missing_tools(in.reqs, in.named, in.installed) = {}
              <=> \A r \in W : check(r, in.installed[r.tool])
      BY DEF missing_tools, W
    <3>. QED BY <2>0, <2>2, <3>1
  <2>4. pending_tools(in.reqs, in.named) = {} <=> in.named \subseteq {r.tool : r \in in.reqs}
    BY DEF pending_tools
  <2>. QED BY <2>1, <2>3, <2>4 DEF all_good
<1>. QED BY <1>1, AlwaysComputed, PTL

-----------------------------------------------------------------------------
(* The options of a simulator *)

\* A configuration: fields of different names.
Fields(config) ==
    /\ config \in Seq(ToSet(config))
    /\ \A j, k \in DOMAIN config : config[j].name = config[k].name => j = k

\* How often a field is among the options of a stage.
Times(opts, f) == Cardinality({j \in DOMAIN opts : opts[j][1] = f.name})

\* A stage without options has none of it.
LEMMA TimesNone == ASSUME NEW f PROVE Times(<<>>, f) = 0
<1>1. {j \in DOMAIN <<>> : <<>>[j][1] = f.name} = {}
  OBVIOUS
<1>. QED BY <1>1, FS_EmptySet DEF Times

\* A field is an option of a stage once, or not at all when the stage has none for it.
LEMMA TimesGiven ==
    ASSUME NEW config, Fields(config), NEW K, NEW i \in DOMAIN config
    PROVE  LET given == Kept(config, K)
           IN  Times([j \in DOMAIN given |-> <<given[j].name, given[j].value.of>>], config[i])
                   = IF config[i] \in K THEN 1 ELSE 0
<1>. DEFINE given == Kept(config, K)
            opts == [j \in DOMAIN given |-> <<given[j].name, given[j].value.of>>]
            J == {j \in DOMAIN opts : opts[j][1] = config[i].name}
<1>1. /\ \A j \in DOMAIN given : \E k \in DOMAIN config : given[j] = config[k] /\ config[k] \in K
      /\ \A k \in DOMAIN config : config[k] \in K => \E j \in DOMAIN given : given[j] = config[k]
      /\ IsInjective(config) => IsInjective(given)
  BY KeptFacts DEF Fields
<1>. HIDE DEF given
<1>2. IsInjective(config)
  BY DEF IsInjective, Fields
<1>3. J = {j \in DOMAIN given : given[j].name = config[i].name}
  OBVIOUS
<1>4. ASSUME NEW j \in J PROVE given[j] = config[i] /\ config[i] \in K /\ j \in DOMAIN given
  BY <1>1, <1>3 DEF Fields
<1>5. CASE config[i] \in K
  <2>1. PICK j \in DOMAIN given : given[j] = config[i]
    BY <1>1, <1>5
  <2>2. j \in J
    BY <1>3, <2>1
  <2>3. ASSUME NEW l \in J PROVE l = j
    BY <1>1, <1>2, <1>4, <2>1 DEF IsInjective
  <2>4. J = {j}
    BY <2>2, <2>3
  <2>5. Cardinality(J) = 1
    <3>. HIDE DEF J
    <3>. QED BY <2>4, FS_Singleton
  <2>. QED BY <1>5, <2>5 DEF Times, given
<1>6. CASE config[i] \notin K
  <2>1. J = {}
    BY <1>4, <1>6
  <2>2. Cardinality(J) = 0
    <3>. HIDE DEF J
    <3>. QED BY <2>1, FS_EmptySet
  <2>. QED BY <1>6, <2>2 DEF Times, given
<1>. QED BY <1>5, <1>6

\* The same of what ibex_config prints for a stage.
LEMMA TimesOutput ==
    ASSUME NEW config, Fields(config), NEW sim, NEW stage, NEW i \in DOMAIN config
    PROVE  Times(output(config, sim, stage), config[i])
               = IF (IF config[i].typ = "str" THEN stage \in Outputters[sim].defines
                                              ELSE stage \in Outputters[sim].params)
                 THEN 1 ELSE 0
<1>. DEFINE K == {f \in ToSet(config) : IF f.typ = "str" THEN stage \in Outputters[sim].defines
                                                        ELSE stage \in Outputters[sim].params}
            given == Kept(config, K)
<1>1. output(config, sim, stage) = [j \in DOMAIN given |-> <<given[j].name, given[j].value.of>>]
  BY DEF output
<1>2. config[i] \in K <=> IF config[i].typ = "str" THEN stage \in Outputters[sim].defines
                                                  ELSE stage \in Outputters[sim].params
  BY DEF ToSet
<1>. HIDE DEF K
<1>3. Times([j \in DOMAIN given |-> <<given[j].name, given[j].value.of>>], config[i])
          = IF config[i] \in K THEN 1 ELSE 0
  BY TimesGiven
<1>. QED BY <1>1, <1>2, <1>3

\* The fields of a record of the outputters.
LEMMA FieldsOfType ==
    ASSUME NEW a, NEW b, NEW c, NEW o, o = [stage |-> a, params |-> b, defines |-> c]
    PROVE  o.stage = a /\ o.params = b /\ o.defines = c
  OBVIOUS

\* The fields of a result.
LEMMA FieldsOfResult ==
    ASSUME NEW a, NEW b, NEW o, o = [raised |-> a, opts |-> b]
    PROVE  o.raised = a /\ o.opts = b
  OBVIOUS

\* The simulators that need one stage, and those that need both.
LEMMA StagesOf ==
    /\ DOMAIN SIM_CFGS = {"vcs", "riviera", "questa", "xlm", "dsim"}
    /\ \A sim \in {"vcs", "xlm"} :
           /\ SIM_CFGS[sim] = {"compile"} /\ output_stage(sim, "compile") = ""
           /\ Outputters[sim].stage = {""}
           /\ Outputters[sim].params = {""} /\ Outputters[sim].defines = {""}
    /\ \A sim : sim = "dsim" =>
           /\ SIM_CFGS[sim] = {"compile"} /\ output_stage(sim, "compile") = ""
           /\ Outputters[sim].stage = {"compile"}
    /\ \A sim \in {"riviera", "questa"} :
           /\ SIM_CFGS[sim] = {"compile", "sim"}
           /\ output_stage(sim, "compile") = "compile" /\ output_stage(sim, "sim") = "sim"
           /\ Outputters[sim].stage = {"compile", "sim"}
           /\ Outputters[sim].params = {"sim"} /\ Outputters[sim].defines = {"compile"}
<1>1. /\ DOMAIN SIM_CFGS = {"vcs", "riviera", "questa", "xlm", "dsim"}
      /\ SIM_CFGS["vcs"] = {"compile"} /\ SIM_CFGS["xlm"] = {"compile"} /\ SIM_CFGS["dsim"] = {"compile"}
      /\ SIM_CFGS["riviera"] = {"compile", "sim"} /\ SIM_CFGS["questa"] = {"compile", "sim"}
  BY DEF SIM_CFGS
<1>2. {"compile"} # {"compile", "sim"}
  <2>1. "sim" \notin {"compile"} /\ "sim" \in {"compile", "sim"}
    OBVIOUS
  <2>. QED BY <2>1
<1>3. /\ Outputters["vcs"] = [stage |-> {""}, params |-> {""}, defines |-> {""}]
      /\ Outputters["xlm"] = [stage |-> {""}, params |-> {""}, defines |-> {""}]
      /\ Outputters["dsim"] = [stage |-> {"compile"}, params |-> {"compile"}, defines |-> {}]
      /\ Outputters["riviera"] = [stage |-> {"compile", "sim"}, params |-> {"sim"}, defines |-> {"compile"}]
      /\ Outputters["questa"] = [stage |-> {"compile", "sim"}, params |-> {"sim"}, defines |-> {"compile"}]
  BY DEF Outputters
<1>4. /\ \A sim \in {"vcs", "xlm", "dsim"} : output_stage(sim, "compile") = ""
      /\ \A sim \in {"riviera", "questa"} :
            output_stage(sim, "compile") = "compile" /\ output_stage(sim, "sim") = "sim"
  BY <1>1, <1>2 DEF output_stage
<1>5. ASSUME NEW sim \in {"vcs", "xlm"}
      PROVE  /\ SIM_CFGS[sim] = {"compile"} /\ output_stage(sim, "compile") = ""
             /\ Outputters[sim].stage = {""}
             /\ Outputters[sim].params = {""} /\ Outputters[sim].defines = {""}
  <2>1. sim = "vcs" \/ sim = "xlm"
    OBVIOUS
  <2>0. PICK a, b, c : a = {""} /\ b = {""} /\ c = {""}
    OBVIOUS
  <2>2. Outputters[sim] = [stage |-> a, params |-> b, defines |-> c]
    BY <1>3, <2>0, <2>1
  <2>3. /\ Outputters[sim].stage = {""}
        /\ Outputters[sim].params = {""} /\ Outputters[sim].defines = {""}
    <3>1. Outputters[sim].stage = a /\ Outputters[sim].params = b /\ Outputters[sim].defines = c
      BY <2>2, FieldsOfType
    <3>. QED BY <2>0, <3>1
  <2>4. SIM_CFGS[sim] = {"compile"} /\ output_stage(sim, "compile") = ""
    BY <1>1, <1>4, <2>1
  <2>. QED BY <2>3, <2>4
<1>6. ASSUME NEW sim \in {"riviera", "questa"}
      PROVE  /\ SIM_CFGS[sim] = {"compile", "sim"}
             /\ output_stage(sim, "compile") = "compile" /\ output_stage(sim, "sim") = "sim"
             /\ Outputters[sim].stage = {"compile", "sim"}
             /\ Outputters[sim].params = {"sim"} /\ Outputters[sim].defines = {"compile"}
  <2>1. sim = "riviera" \/ sim = "questa"
    OBVIOUS
  <2>2. Outputters[sim] = [stage |-> {"compile", "sim"}, params |-> {"sim"}, defines |-> {"compile"}]
    BY <1>3, <2>1
  <2>3. /\ Outputters[sim].stage = {"compile", "sim"}
        /\ Outputters[sim].params = {"sim"} /\ Outputters[sim].defines = {"compile"}
    BY <2>2, FieldsOfType
  <2>4. /\ SIM_CFGS[sim] = {"compile", "sim"}
        /\ output_stage(sim, "compile") = "compile" /\ output_stage(sim, "sim") = "sim"
    BY <1>1, <1>4, <2>1
  <2>. QED BY <2>3, <2>4
<1>7. ASSUME NEW sim, sim = "dsim"
      PROVE  SIM_CFGS[sim] = {"compile"} /\ output_stage(sim, "compile") = "" /\ Outputters[sim].stage = {"compile"}
  <2>1. Outputters[sim] = [stage |-> {"compile"}, params |-> {"compile"}, defines |-> {}]
    BY <1>3, <1>7
  <2>2. Outputters[sim].stage = {"compile"}
    BY <2>1, FieldsOfType
  <2>. QED BY <1>1, <1>4, <1>7, <2>2
<1>. QED BY <1>1, <1>4, <1>5, <1>6, <1>7, Zenon

\* Both stages together have each field once, for each of the simulators.
LEMMA OptionsOf ==
    ASSUME NEW config, Fields(config), NEW sim, NEW compile, NEW run,
           compile = _get_x_opts(config, sim, "compile"), run = _get_x_opts(config, sim, "sim")
    PROVE  IF compile.raised \/ run.raised
           THEN ~parse_config(config) \/ sim \notin DOMAIN SIM_CFGS \ {"dsim"}
           ELSE \A i \in DOMAIN config :
                    Times(compile.opts, config[i]) + Times(run.opts, config[i]) = 1
<1>2. CASE sim \notin DOMAIN SIM_CFGS
  BY <1>2 DEF _get_x_opts
<1>3. CASE sim = "dsim"
  <2>1. compile = _run_ibex_config(config, sim, "")
    BY <1>3, StagesOf DEF _get_x_opts
  <2>2. "" \notin Outputters[sim].stage
    BY <1>3, StagesOf
  <2>3. compile = [raised |-> "" \notin Outputters[sim].stage \/ ~parse_config(config),
                   opts |-> output(config, sim, "")]
    BY <2>1 DEF _run_ibex_config
  <2>4. compile.raised
    BY <2>2, <2>3, FieldsOfResult
  <2>. QED BY <1>3, <2>4
<1>4. CASE sim \in {"vcs", "xlm"}
  <2>1. compile = [raised |-> ~parse_config(config), opts |-> output(config, sim, "")]
    BY <1>4, StagesOf DEF _get_x_opts, _run_ibex_config
  <2>2. run = [raised |-> FALSE, opts |-> <<>>]
    BY <1>4, StagesOf DEF _get_x_opts
  <2>3. ASSUME NEW i \in DOMAIN config
        PROVE  Times(compile.opts, config[i]) + Times(run.opts, config[i]) = 1
    <3>1. "" \in Outputters[sim].defines /\ "" \in Outputters[sim].params
      BY <1>4, StagesOf
    <3>2. Times(output(config, sim, ""), config[i]) = 1
      <4>1. Times(output(config, sim, ""), config[i])
                = IF (IF config[i].typ = "str" THEN "" \in Outputters[sim].defines
                                               ELSE "" \in Outputters[sim].params)
                  THEN 1 ELSE 0
        BY TimesOutput
      <4>. QED BY <3>1, <4>1
    <3>3. Times(<<>>, config[i]) = 0
      BY TimesNone
    <3>4. compile.opts = output(config, sim, "") /\ run.opts = <<>>
      BY <2>1, <2>2, FieldsOfResult
    <3>5. Times(compile.opts, config[i]) = 1 /\ Times(run.opts, config[i]) = 0
      BY <3>2, <3>3, <3>4, Zenon
    <3>. QED BY <3>5
  <2>4. (compile.raised <=> ~parse_config(config)) /\ ~run.raised
    BY <2>1, <2>2, FieldsOfResult
  <2>. QED BY <2>3, <2>4
<1>5. CASE sim \in {"riviera", "questa"}
  <2>1. compile = [raised |-> ~parse_config(config), opts |-> output(config, sim, "compile")]
    BY <1>5, StagesOf DEF _get_x_opts, _run_ibex_config
  <2>2. run = [raised |-> ~parse_config(config), opts |-> output(config, sim, "sim")]
    BY <1>5, StagesOf DEF _get_x_opts, _run_ibex_config
  <2>3. ASSUME NEW i \in DOMAIN config
        PROVE  Times(compile.opts, config[i]) + Times(run.opts, config[i]) = 1
    <3>1. Outputters[sim].defines = {"compile"} /\ Outputters[sim].params = {"sim"}
      BY <1>5, StagesOf
    <3>2. Times(output(config, sim, "compile"), config[i]) = IF config[i].typ = "str" THEN 1 ELSE 0
      <4>1. Times(output(config, sim, "compile"), config[i])
                = IF (IF config[i].typ = "str" THEN "compile" \in Outputters[sim].defines
                                               ELSE "compile" \in Outputters[sim].params)
                  THEN 1 ELSE 0
        BY TimesOutput
      <4>. QED BY <3>1, <4>1
    <3>3. Times(output(config, sim, "sim"), config[i]) = IF config[i].typ = "str" THEN 0 ELSE 1
      <4>1. Times(output(config, sim, "sim"), config[i])
                = IF (IF config[i].typ = "str" THEN "sim" \in Outputters[sim].defines
                                               ELSE "sim" \in Outputters[sim].params)
                  THEN 1 ELSE 0
        BY TimesOutput
      <4>. QED BY <3>1, <4>1
    <3>4. compile.opts = output(config, sim, "compile") /\ run.opts = output(config, sim, "sim")
      BY <2>1, <2>2
    <3>. QED BY <3>2, <3>3, <3>4
  <2>4. (compile.raised <=> ~parse_config(config)) /\ (run.raised <=> ~parse_config(config))
    BY <2>1, <2>2, FieldsOfResult
  <2>. QED BY <2>3, <2>4
<1>. QED BY <1>2, <1>3, <1>4, <1>5, StagesOf

\* Every field of a configuration that can be read reaches a simulator once, as an
\* option of one of the two stages, or the simulator is refused.
THEOREM FieldsReachOnce == Spec => []FieldsOnce
<1>1. Computed => FieldsOnce
  <2>. SUFFICES ASSUME Computed, Done("get_x_opts")
                PROVE  FieldsOnce
    BY DEF FieldsOnce
  <2>1. out = compile_and_sim /\ in \in OptInputs
    BY DEF Computed, Done, Inputs_of
  <2>2. Fields(in.config)
    BY <2>1, OptAssumption DEF Fields
  <2>3. /\ out.compile = _get_x_opts(in.config, in.sim, "compile")
        /\ out.sim = _get_x_opts(in.config, in.sim, "sim")
    BY <2>1 DEF compile_and_sim
  <2>4. IF out.compile.raised \/ out.sim.raised
        THEN ~parse_config(in.config) \/ in.sim \notin DOMAIN SIM_CFGS \ {"dsim"}
        ELSE \A i \in DOMAIN in.config :
                 Times(out.compile.opts, in.config[i]) + Times(out.sim.opts, in.config[i]) = 1
    BY <2>2, <2>3, OptionsOf
  <2>. QED BY <2>4 DEF FieldsOnce, Times
<1>. QED BY <1>1, AlwaysComputed, PTL

-----------------------------------------------------------------------------
(* The tests of a regression *)

\* Tests have different names.
Named(list) == \A j, k \in DOMAIN list : list[j].test = list[k].test => j = k

\* The loop over the requirements of a test.
RequiredState == [copies : Nat, raised : BOOLEAN, left : BOOLEAN]

RequiredStart == [copies |-> 0, raised |-> FALSE, left |-> FALSE]

RequireParam(cfg, s, r) ==
    IF s.left THEN s
    ELSE IF r.param \notin DOMAIN cfg THEN [s EXCEPT !.raised = TRUE, !.left = TRUE]
    ELSE IF Rejects(cfg, r) THEN [s EXCEPT !.left = TRUE]
    ELSE [s EXCEPT !.copies = @ + 1]

\* That loop, requirement by requirement.
LEMMA RequiredSteps ==
    ASSUME NEW cfg, NEW test, NEW R, NEW list \in Seq(R), test.rtl_params = list
    PROVE  \E r : /\ r[0] = RequiredStart
                  /\ \A k \in 1..Len(list) : r[k] = RequireParam(cfg, r[k - 1], list[k])
                  /\ Required(cfg, test) = r[Len(list)]
<1>. DEFINE n == Len(list)
            Is(f) == f = [D \in SUBSET (1..n) |-> IF D = {} THEN RequiredStart
                            ELSE RequireParam(cfg, f[D \ {Max(D)}], list[Max(D)])]
            G == [p \in RequiredState \X (1..n) |-> RequireParam(cfg, p[1], list[p[2]])]
            c == CHOOSE f : Is(f)
<1>1. n \in Nat /\ DOMAIN list = 1..n /\ \A k \in 1..n : list[k] \in R
  BY LenProperties, ElementOfSeq
<1>2. G \in [RequiredState \X (1..n) -> RequiredState]
  <2>1. ASSUME NEW s \in RequiredState, NEW e \in R PROVE RequireParam(cfg, s, e) \in RequiredState
    <3>1. /\ [s EXCEPT !.raised = TRUE, !.left = TRUE] \in RequiredState
          /\ [s EXCEPT !.left = TRUE] \in RequiredState
      BY DEF RequiredState
    <3>2. [s EXCEPT !.copies = @ + 1] \in RequiredState
      BY DEF RequiredState
    <3>. QED BY <3>1, <3>2 DEF RequireParam
  <2>. QED BY <1>1, <2>1
<1>3. RequiredStart \in RequiredState
  BY DEF RequiredStart, RequiredState
<1>4. PICK f : Iterates(f, RequiredState, RequiredStart, n, G)
  <2>. HIDE DEF G, n
  <2>. QED BY <1>1, <1>2, <1>3, IterExists
<1>5. ASSUME NEW D \in SUBSET (1..n)
      PROVE  f[D] = IF D = {} THEN RequiredStart ELSE RequireParam(cfg, f[D \ {Max(D)}], list[Max(D)])
  <2>1. CASE D = {}
    BY <1>4, <2>1 DEF Iterates
  <2>2. CASE D # {}
    <3>1. Max(D) \in 1..n /\ D \ {Max(D)} \in SUBSET (1..n)
      <4>. HIDE DEF n
      <4>. QED BY <1>1, <2>2, MaxIn
    <3>2. f[D \ {Max(D)}] \in RequiredState
      BY <1>4, <3>1 DEF Iterates
    <3>3. f[D] = G[<<f[D \ {Max(D)}], Max(D)>>]
      BY <1>4, <2>2 DEF Iterates
    <3>. QED BY <2>2, <3>1, <3>2, <3>3
  <2>. QED BY <2>1, <2>2
<1>6. Is(f)
  <2>1. f = [D \in SUBSET (1..n) |-> f[D]]
    BY <1>4 DEF Iterates
  <2>. QED BY <1>5, <2>1
<1>7. Is(c)
  <2>. HIDE DEF Is
  <2>. QED BY <1>6
<1>8. Required(cfg, test) = c[1..n]
  BY <1>1 DEF Required, FoldLeft, MapThenFoldSet, RequireParam, RequiredStart
<1>9. c[1..0] = RequiredStart /\ \A k \in 1..n : c[1..k] = RequireParam(cfg, c[1..(k - 1)], list[k])
  <2>. HIDE DEF c
  <2>1. \A D \in SUBSET (1..n) :
           c[D] = IF D = {} THEN RequiredStart ELSE RequireParam(cfg, c[D \ {Max(D)}], list[Max(D)])
    BY <1>7
  <2>2. 1..0 = {}
    OBVIOUS
  <2>3. ASSUME NEW k \in 1..n PROVE c[1..k] = RequireParam(cfg, c[1..(k - 1)], list[k])
    <3>1. Max(1..k) = k /\ (1..k) \ {k} = 1..(k - 1)
      BY <1>1, MaxOfRange
    <3>2. 1..k \in SUBSET (1..n) /\ 1..k # {}
      <4>. HIDE DEF n
      <4>. QED BY <1>1, PrefixIn
    <3>. QED BY <2>1, <3>1, <3>2
  <2>. QED BY <2>1, <2>2, <2>3
<1>. DEFINE r == [k \in 0..n |-> c[1..k]]
<1>10. r[0] = RequiredStart /\ (\A k \in 1..n : r[k] = RequireParam(cfg, r[k - 1], list[k])) /\ Required(cfg, test) = r[n]
  <2>. HIDE DEF c
  <2>1. \A k \in 0..n : r[k] = c[1..k]
    OBVIOUS
  <2>2. \A k \in 1..n : k \in 0..n /\ k - 1 \in 0..n
    BY <1>1
  <2>3. 0 \in 0..n /\ n \in 0..n
    BY <1>1
  <2>. HIDE DEF r
  <2>. QED BY <1>8, <1>9, <2>1, <2>2, <2>3
<1>. HIDE DEF r
<1>. QED BY <1>10

\* A requirement adds a copy, or nothing once the loop is left.
LEMMA RequireStep ==
    ASSUME NEW cfg, NEW s \in RequiredState, NEW r
    PROVE  LET t == RequireParam(cfg, s, r)
           IN  t \in RequiredState /\ (s.left => t = s) /\ s.copies <= t.copies
<1>1. s.copies \in Nat /\ s.copies <= s.copies /\ s.copies <= s.copies + 1
  BY DEF RequiredState
<1>2. /\ [s EXCEPT !.raised = TRUE, !.left = TRUE] \in RequiredState
      /\ [s EXCEPT !.left = TRUE] \in RequiredState
      /\ [s EXCEPT !.raised = TRUE, !.left = TRUE].copies = s.copies
      /\ [s EXCEPT !.left = TRUE].copies = s.copies
  BY DEF RequiredState
<1>3. [s EXCEPT !.copies = @ + 1] \in RequiredState /\ [s EXCEPT !.copies = @ + 1].copies = s.copies + 1
  BY DEF RequiredState
<1>. QED BY <1>1, <1>2, <1>3 DEF RequireParam

\* What the first requirement decides.
LEMMA FirstDecides ==
    ASSUME NEW cfg, NEW r, NEW f, f = RequireParam(cfg, RequiredStart, r)
    PROVE  /\ f \in RequiredState
           /\ f.raised <=> r.param \notin DOMAIN cfg
           /\ f.left <=> r.param \notin DOMAIN cfg \/ Rejects(cfg, r)
           /\ f.copies = IF f.left THEN 0 ELSE 1
<1>1. RequiredStart \in RequiredState
  BY DEF RequiredStart, RequiredState
<1>2. f \in RequiredState
  BY <1>1, RequireStep
<1>. QED BY <1>2 DEF RequireParam, RequiredStart

\* When the first requirement has left the loop, the others change nothing, and
\* otherwise they take no copy away.
LEMMA RequiredFirst ==
    ASSUME NEW cfg, NEW test, NEW R, NEW list \in Seq(R), test.rtl_params = list, list # <<>>,
           NEW f, f = RequireParam(cfg, RequiredStart, list[1])
    PROVE  LET s == Required(cfg, test)
           IN  /\ s \in RequiredState
               /\ f.left => s = f
               /\ f.copies <= s.copies
               /\ Len(list) <= 1 => s = f
<1>1. PICK n \in Nat : n = Len(list) /\ n >= 1
  BY LenProperties, EmptySeq
<1>2. PICK r : /\ r[0] = RequiredStart
               /\ \A k \in 1..n : r[k] = RequireParam(cfg, r[k - 1], list[k])
               /\ Required(cfg, test) = r[n]
  BY <1>1, RequiredSteps
<1>3. r[1] = f
  <2>1. 1 \in 1..n /\ 1 - 1 = 0
    BY <1>1
  <2>. QED BY <1>2, <2>1
<1>4. f \in RequiredState
  BY FirstDecides
<1>. DEFINE Keeps(k) == r[k] \in RequiredState /\ (f.left => r[k] = f) /\ f.copies <= r[k].copies
            T == {k \in Nat : k \in 1..n => Keeps(k)}
<1>5. f.copies <= f.copies
  BY <1>4 DEF RequiredState
<1>6. 0 \in T
  OBVIOUS
<1>7. ASSUME NEW k \in Nat, k \in T PROVE k + 1 \in T
  <2>. SUFFICES ASSUME k + 1 \in 1..n PROVE Keeps(k + 1)
    OBVIOUS
  <2>1. CASE k = 0
    BY <1>3, <1>4, <1>5, <2>1
  <2>2. CASE k # 0
    <3>1. k \in 1..n /\ (k + 1) - 1 = k
      BY <2>2
    <3>2. Keeps(k)
      BY <1>7, <3>1
    <3>3. r[k + 1] = RequireParam(cfg, r[k], list[k + 1])
      BY <1>2, <3>1
    <3>4. r[k + 1] \in RequiredState /\ (r[k].left => r[k + 1] = r[k]) /\ r[k].copies <= r[k + 1].copies
      BY <3>2, <3>3, RequireStep
    <3>5. f.copies \in Nat /\ r[k].copies \in Nat /\ r[k + 1].copies \in Nat
      BY <1>4, <3>2, <3>4 DEF RequiredState
    <3>6. f.copies <= r[k + 1].copies
      BY <3>2, <3>4, <3>5
    <3>. QED BY <3>2, <3>4, <3>6
  <2>. QED BY <2>1, <2>2
<1>8. Nat \subseteq T
  <2>. HIDE DEF T
  <2>. QED BY <1>6, <1>7, NatSet
<1>9. Keeps(n)
  <2>1. n \in 1..n /\ n \in T
    BY <1>1, <1>8
  <2>. QED BY <2>1
<1>10. Len(list) <= 1 => r[n] = f
  BY <1>1, <1>3
<1>. QED BY <1>2, <1>9, <1>10

\* What a test adds to the list of a filter that raises nothing: nothing but itself, and
\* itself when the configuration meets what is under its key; nothing when the first
\* requirement is refused; itself once when it has at most one.
LEMMA AcceptedFacts ==
    ASSUME NEW cfg, NEW test \in Entry, test.has_rtl_params \/ test.rtl_params = <<>>,
           ~Required(cfg, test).raised
    PROVE  LET added == Accepted(cfg, test)
           IN  /\ added \in Seq(Entry) /\ ToSet(added) \subseteq {test}
               /\ Compatible(cfg, test) /\ (test.has_rtl_params => test.rtl_params # <<>>) =>
                      test \in ToSet(added)
               /\ test.rtl_params # <<>> /\ Refuses(cfg, test.rtl_params[1]) => ToSet(added) = {}
               /\ Len(test.rtl_params) <= 1 => Once(added, test)
<1>. DEFINE Requirement == [param : STRING, form : {"str", "list", "int"}, values : SUBSET STRING]
<1>1. PICK list \in Seq(Requirement) : list = test.rtl_params
  BY DEF Entry
<1>. HIDE DEF Requirement
<1>2. PICK s : s = Required(cfg, test)
  OBVIOUS
<1>3. ASSUME NEW n \in Nat, NEW added, added = [i \in 1..n |-> test]
      PROVE  /\ added \in Seq(Entry) /\ ToSet(added) \subseteq {test}
             /\ n > 0 => test \in ToSet(added)
             /\ n = 0 => ToSet(added) = {}
             /\ n <= 1 => Once(added, test)
  <2>1. added \in [1..n -> Entry]
    BY <1>3
  <2>2. added \in Seq(Entry)
    BY <2>1, LenOf
  <2>3. DOMAIN added = 1..n /\ \A i \in 1..n : added[i] = test
    BY <1>3
  <2>4. n > 0 => 1 \in 1..n
    OBVIOUS
  <2>5. n = 0 => 1..n = {}
    OBVIOUS
  <2>6. n <= 1 => \A i, j \in 1..n : i = j
    OBVIOUS
  <2>. QED BY <2>2, <2>3, <2>4, <2>5, <2>6 DEF ToSet, Once
<1>4. CASE ~test.has_rtl_params
  <2>1. PICK n \in Nat : n = 1 /\ n > 0 /\ n <= 1
    OBVIOUS
  <2>2. Accepted(cfg, test) = [i \in 1..n |-> test]
    BY <1>4, <2>1 DEF Accepted
  <2>3. test.rtl_params = <<>>
    BY <1>4
  <2>. QED BY <1>3, <2>1, <2>2, <2>3
<1>5. CASE test.has_rtl_params /\ list = <<>>
  <2>1. PICK r : r[0] = RequiredStart /\ Required(cfg, test) = r[Len(list)]
    BY <1>1, RequiredSteps
  <2>2. s = RequiredStart
    BY <1>2, <1>5, <2>1, EmptySeq
  <2>3. PICK n \in Nat : n = 0 /\ n <= 1
    OBVIOUS
  <2>4. Accepted(cfg, test) = [i \in 1..n |-> test]
    BY <1>2, <1>5, <2>2, <2>3 DEF Accepted, RequiredStart
  <2>. QED BY <1>1, <1>3, <1>5, <2>3, <2>4
<1>6. CASE test.has_rtl_params /\ list # <<>>
  <2>1. PICK f : f = RequireParam(cfg, RequiredStart, list[1])
    OBVIOUS
  <2>2. /\ f \in RequiredState
        /\ f.raised <=> list[1].param \notin DOMAIN cfg
        /\ f.left <=> list[1].param \notin DOMAIN cfg \/ Rejects(cfg, list[1])
        /\ f.copies = IF f.left THEN 0 ELSE 1
    BY <2>1, FirstDecides
  <2>3. /\ s \in RequiredState /\ (f.left => s = f) /\ f.copies <= s.copies
        /\ Len(list) <= 1 => s = f
    BY <1>1, <1>2, <1>6, <2>1, RequiredFirst
  <2>4. ~s.raised
    BY <1>2
  <2>5. 1 \in DOMAIN list /\ list[1] \in Requirement
    <3>1. 1 \in 1..Len(list)
      BY <1>6, LenProperties, EmptySeq
    <3>. QED BY <3>1, LenProperties, ElementOfSeq
  <2>6. PICK n \in Nat : n = s.copies /\ f.copies <= n
    BY <2>3 DEF RequiredState
  <2>7. Accepted(cfg, test) = [i \in 1..n |-> test]
    BY <1>2, <1>6, <2>6 DEF Accepted
  <2>8. ASSUME Compatible(cfg, test) PROVE n > 0
    <3>1. ~Rejects(cfg, list[1])
      BY <1>1, <2>5, <2>8 DEF Compatible, Rejects
    <3>2. ~f.left
      BY <2>2, <2>3, <2>4, <3>1
    <3>3. f.copies = 1
      BY <2>2, <3>2
    <3>. QED BY <2>6, <3>3
  <2>9. ASSUME Refuses(cfg, list[1]) PROVE n = 0
    <3>1. Rejects(cfg, list[1])
      BY <2>5, <2>9 DEF Refuses, Rejects, Requirement
    <3>. QED BY <2>2, <2>3, <2>6, <3>1
  <2>10. ASSUME Len(list) <= 1 PROVE n <= 1
    BY <2>2, <2>3, <2>6, <2>10
  <2>. QED BY <1>1, <1>3, <1>6, <2>7, <2>8, <2>9, <2>10
<1>. QED BY <1>1, <1>4, <1>5, <1>6

\* The tests that are asked for are entries of the list, with iterations, each once.
LEMMA AskedFacts ==
    ASSUME NEW list \in Seq(Entry), Named(list), NEW wanted, NEW iterations \in Nat,
           NEW asked, asked = process_regression_list(list, wanted, iterations)
    PROVE  /\ asked \in Seq(Entry) /\ Named(asked)
           /\ \A i \in DOMAIN asked : \E k \in DOMAIN list :
                  /\ asked[i].test = list[k].test /\ asked[i].rtl_params = list[k].rtl_params
                  /\ asked[i].has_rtl_params = list[k].has_rtl_params
                  /\ list[k].iterations > 0
           /\ \A k \in DOMAIN list :
                  list[k].iterations > 0 /\ (wanted = {} \/ list[k].test \in wanted) =>
                      \E i \in DOMAIN asked : asked[i].test = list[k].test
<1>. DEFINE K == {t \in ToSet(list) : t.iterations > 0 /\ (wanted = {} \/ t.test \in wanted)}
            matched == Kept(list, K)
<1>1. /\ matched \in Seq(Entry)
      /\ \A j \in DOMAIN matched : \E i \in DOMAIN list : matched[j] = list[i] /\ list[i] \in K
      /\ \A i \in DOMAIN list : list[i] \in K => \E j \in DOMAIN matched : matched[j] = list[i]
      /\ IsInjective(list) => IsInjective(matched)
  <2>. HIDE DEF K
  <2>. QED BY KeptFacts
<1>2. \A i \in DOMAIN list : list[i] \in K <=>
          list[i].iterations > 0 /\ (wanted = {} \/ list[i].test \in wanted)
  BY DEF ToSet
<1>. DEFINE Scaled(t) == IF iterations > 0 THEN [t EXCEPT !.iterations = iterations] ELSE t
<1>3. asked = [i \in DOMAIN matched |-> Scaled(matched[i])]
  BY DEF process_regression_list
<1>. HIDE DEF K, matched
<1>4. ASSUME NEW i \in DOMAIN matched
      PROVE  /\ asked[i] \in Entry /\ asked[i].test = matched[i].test
             /\ asked[i].rtl_params = matched[i].rtl_params
             /\ asked[i].has_rtl_params = matched[i].has_rtl_params
  <2>1. matched[i] \in Entry
    BY <1>1, ElementOfSeq, LenProperties
  <2>2. asked[i] = Scaled(matched[i])
    BY <1>3
  <2>. QED BY <2>1, <2>2 DEF Entry
<1>5. asked \in Seq(Entry) /\ DOMAIN asked = DOMAIN matched
  <2>1. asked = [i \in DOMAIN matched |-> asked[i]]
    BY <1>3
  <2>. QED BY <1>1, <1>4, <2>1, SeqOver
<1>6. Named(asked)
  <2>1. IsInjective(list)
    BY DEF IsInjective, Named
  <2>2. ASSUME NEW i \in DOMAIN matched, NEW j \in DOMAIN matched, matched[i].test = matched[j].test
        PROVE  matched[i] = matched[j]
    <3>1. PICK a \in DOMAIN list, b \in DOMAIN list : matched[i] = list[a] /\ matched[j] = list[b]
      BY <1>1
    <3>2. list[a].test = list[b].test
      BY <2>2, <3>1
    <3>3. a = b
      BY <3>2 DEF Named
    <3>. QED BY <3>1, <3>3
  <2>. QED BY <1>1, <1>4, <1>5, <2>1, <2>2 DEF Named, IsInjective
<1>7. ASSUME NEW i \in DOMAIN asked
      PROVE  \E k \in DOMAIN list :
                 /\ asked[i].test = list[k].test /\ asked[i].rtl_params = list[k].rtl_params
                 /\ asked[i].has_rtl_params = list[k].has_rtl_params
                 /\ list[k].iterations > 0
  <2>1. PICK k \in DOMAIN list : matched[i] = list[k] /\ list[k] \in K
    BY <1>1, <1>5
  <2>2. /\ asked[i].test = list[k].test /\ asked[i].rtl_params = list[k].rtl_params
        /\ asked[i].has_rtl_params = list[k].has_rtl_params
    BY <1>4, <1>5, <2>1
  <2>. QED BY <1>2, <2>1, <2>2
<1>8. ASSUME NEW k \in DOMAIN list, list[k].iterations > 0,
             wanted = {} \/ list[k].test \in wanted
      PROVE  \E i \in DOMAIN asked : asked[i].test = list[k].test
  BY <1>1, <1>2, <1>4, <1>5, <1>8
<1>. QED BY <1>5, <1>6, <1>7, <1>8

\* The scripts of a test find its entry.
LEMMA EntryFound ==
    ASSUME NEW list \in Seq(Entry), Named(list), NEW k \in DOMAIN list, list[k].iterations > 0
    PROVE  Len(get_test_entry(list, list[k].test)) = 1
<1>. DEFINE name == list[k].test
            all == process_regression_list(list, {}, 0)
            K == {t \in ToSet(all) : t.test = name}
            found == Kept(all, K)
<1>1. /\ all \in Seq(Entry) /\ Named(all)
      /\ \E i \in DOMAIN all : all[i].test = name
  <2>1. ASSUME NEW asked, asked = process_regression_list(list, {}, 0)
        PROVE  /\ asked \in Seq(Entry) /\ Named(asked)
               /\ \A l \in DOMAIN list :
                      list[l].iterations > 0 => \E i \in DOMAIN asked : asked[i].test = list[l].test
    BY <2>1, AskedFacts
  <2>. QED BY <2>1
<1>2. get_test_entry(list, name) = found
  BY DEF get_test_entry
<1>3. \A i \in DOMAIN all : all[i] \in K <=> all[i].test = name
  BY DEF ToSet
<1>4. IsInjective(all)
  <2>. HIDE DEF all
  <2>. QED BY <1>1 DEF Named, IsInjective
<1>. HIDE DEF all, K, name
<1>5. /\ found \in Seq(Entry) /\ IsInjective(found)
      /\ \A j \in DOMAIN found : \E i \in DOMAIN all : found[j] = all[i] /\ all[i] \in K
      /\ \A i \in DOMAIN all : all[i] \in K => \E j \in DOMAIN found : found[j] = all[i]
  BY <1>1, <1>4, KeptFacts, SMTT(30)
<1>. HIDE DEF found
<1>6. PICK j \in DOMAIN found : TRUE
  BY <1>1, <1>3, <1>5
<1>7. \A l \in DOMAIN found : l = j
  BY <1>1, <1>3, <1>5, <1>6 DEF Named, IsInjective
<1>8. PICK n \in Nat : n = Len(found) /\ DOMAIN found = 1..n
  BY <1>5, LenProperties
<1>9. n = 1
  <2>1. j \in 1..n /\ (\A l \in 1..n : l = j)
    BY <1>6, <1>7, <1>8
  <2>2. 1 \in 1..n /\ n \in 1..n
    BY <1>8, <2>1
  <2>. QED BY <2>1, <2>2
<1>. QED BY <1>2, <1>8, <1>9 DEF name

\* What the filter leaves are tests it was given; those the configuration meets, unless
\* nothing is under their key, and none whose first requirement it refuses; each of at
\* most one requirement once.
LEMMA FilteredFacts ==
    ASSUME NEW cfg, NEW asked \in Seq(Entry), Named(asked),
           \A i \in DOMAIN asked : asked[i].has_rtl_params \/ asked[i].rtl_params = <<>>,
           ~filter_tests_by_config(cfg, asked).raised
    PROVE  LET tests == filter_tests_by_config(cfg, asked).tests
           IN  /\ tests \in Seq(Entry) /\ ToSet(tests) \subseteq ToSet(asked)
               /\ \A t \in ToSet(asked) :
                      /\ Compatible(cfg, t) /\ (t.has_rtl_params => t.rtl_params # <<>>) =>
                             t \in ToSet(tests)
                      /\ t.rtl_params # <<>> /\ Refuses(cfg, t.rtl_params[1]) => t \notin ToSet(tests)
                      /\ Len(t.rtl_params) <= 1 => Once(tests, t)
<1>. DEFINE seqs == [i \in DOMAIN asked |-> Accepted(cfg, asked[i])]
            tests == FlattenSeq(seqs)
<1>1. filter_tests_by_config(cfg, asked).tests = tests
  BY DEF filter_tests_by_config
<1>2. \A i \in DOMAIN asked : ~Required(cfg, asked[i]).raised
  BY DEF filter_tests_by_config
<1>3. \A i \in DOMAIN asked : asked[i] \in Entry
  BY ElementOfSeq, LenProperties
<1>4. ASSUME NEW i \in DOMAIN asked
      PROVE  /\ seqs[i] \in Seq(Entry) /\ ToSet(seqs[i]) \subseteq {asked[i]}
             /\ Compatible(cfg, asked[i]) /\ (asked[i].has_rtl_params => asked[i].rtl_params # <<>>) =>
                    asked[i] \in ToSet(seqs[i])
             /\ asked[i].rtl_params # <<>> /\ Refuses(cfg, asked[i].rtl_params[1]) => ToSet(seqs[i]) = {}
             /\ Len(asked[i].rtl_params) <= 1 => Once(seqs[i], asked[i])
  <2>1. PICK t \in Entry : t = asked[i]
    BY <1>3
  <2>2. /\ t.has_rtl_params \/ t.rtl_params = <<>>
        /\ ~Required(cfg, t).raised
    BY <1>2, <2>1
  <2>3. seqs[i] = Accepted(cfg, t)
    BY <2>1
  <2>. HIDE DEF seqs, tests
  <2>4. LET added == Accepted(cfg, t)
        IN  /\ added \in Seq(Entry) /\ ToSet(added) \subseteq {t}
            /\ Compatible(cfg, t) /\ (t.has_rtl_params => t.rtl_params # <<>>) => t \in ToSet(added)
            /\ t.rtl_params # <<>> /\ Refuses(cfg, t.rtl_params[1]) => ToSet(added) = {}
            /\ Len(t.rtl_params) <= 1 => Once(added, t)
    BY <2>2, AcceptedFacts
  <2>. QED BY <2>1, <2>3, <2>4
<1>5. DOMAIN seqs = DOMAIN asked /\ seqs = [i \in DOMAIN asked |-> seqs[i]]
  OBVIOUS
<1>. HIDE DEF seqs, tests
<1>6. seqs \in Seq(Seq(Entry))
  BY <1>4, <1>5, SeqOver
<1>7. /\ tests \in Seq(Entry)
      /\ ToSet(tests) = UNION {ToSet(seqs[i]) : i \in DOMAIN seqs}
      /\ \A e : OnceInAll(seqs, e) => Once(tests, e)
  BY <1>6, FlattenFacts DEF tests
<1>8. ToSet(tests) \subseteq ToSet(asked)
  <2>1. \A i \in DOMAIN asked : asked[i] \in ToSet(asked)
    BY DEF ToSet
  <2>. QED BY <1>4, <1>5, <1>7, <2>1
<1>9. ASSUME NEW i \in DOMAIN asked
      PROVE  /\ \A e : e = asked[i] => (e \in ToSet(tests) <=> e \in ToSet(seqs[i]))
             /\ Once(seqs[i], asked[i]) => OnceInAll(seqs, asked[i])
  <2>1. \A j \in DOMAIN asked : j # i => asked[i] \notin ToSet(seqs[j])
    BY <1>4 DEF Named
  <2>2. asked[i] \in ToSet(tests) <=> asked[i] \in ToSet(seqs[i])
    BY <1>5, <1>7, <2>1
  <2>3. \A j \in DOMAIN asked : j # i => Once(seqs[j], asked[i])
    BY <2>1 DEF Once, ToSet
  <2>. QED BY <1>5, <2>1, <2>2, <2>3 DEF OnceInAll
<1>10. ASSUME NEW t \in ToSet(asked)
       PROVE  /\ Compatible(cfg, t) /\ (t.has_rtl_params => t.rtl_params # <<>>) => t \in ToSet(tests)
              /\ t.rtl_params # <<>> /\ Refuses(cfg, t.rtl_params[1]) => t \notin ToSet(tests)
              /\ Len(t.rtl_params) <= 1 => Once(tests, t)
  <2>1. PICK i \in DOMAIN asked : asked[i] = t
    BY DEF ToSet
  <2>. QED BY <1>4, <1>7, <1>9, <2>1
<1>. QED BY <1>1, <1>7, <1>8, <1>10

\* What get_tests_and_counts hands over of each test.
Counts(tests) == [i \in DOMAIN tests |-> <<tests[i].test, tests[i].iterations>>]

\* Every one of these tests comes with each of its seeds and nothing else does; and the
\* seeds of one that is there once come once.
Seeded(all, tests, seed) ==
    /\ \A r : r \in ToSet(all) <=> \E i \in DOMAIN tests : r \in SeedsOf(tests[i], seed)
    /\ \A t \in Entry : (\A i, j \in DOMAIN tests : tests[i].test = t.test /\ tests[j].test = t.test => i = j)
           => \A r \in SeedsOf(t, seed) : Once(all, r)

LEMMA SeedFacts ==
    ASSUME NEW tests \in Seq(Entry), NEW seed \in Nat
    PROVE  Seeded(tds(Counts(tests), seed), tests, seed)
<1>. DEFINE counts == [i \in DOMAIN tests |-> <<tests[i].test, tests[i].iterations>>]
            seqs == [i \in DOMAIN tests |->
                        [k \in 1..tests[i].iterations |-> <<tests[i].test, seed + k - 1>>]]
            all == FlattenSeq(seqs)
<1>1. tds(Counts(tests), seed) = all
  <2>1. DOMAIN counts = DOMAIN tests
    OBVIOUS
  <2>2. \A i \in DOMAIN tests : counts[i][1] = tests[i].test /\ counts[i][2] = tests[i].iterations
    OBVIOUS
  <2>3. seqs = [i \in DOMAIN counts |-> [k \in 1..counts[i][2] |-> <<counts[i][1], seed + k - 1>>]]
    BY <2>1, <2>2
  <2>4. Counts(tests) = counts
    BY DEF Counts
  <2>. HIDE DEF counts, seqs
  <2>. QED BY <2>3, <2>4 DEF tds
<1>2. \A i \in DOMAIN tests : tests[i] \in Entry
  BY ElementOfSeq, LenProperties
<1>3. ASSUME NEW i \in DOMAIN tests
      PROVE  /\ seqs[i] \in Seq(STRING \X Int) /\ \A r : Once(seqs[i], r)
             /\ ToSet(seqs[i]) = SeedsOf(tests[i], seed)
  <2>. DEFINE n == tests[i].iterations
              s == [k \in 1..n |-> <<tests[i].test, seed + k - 1>>]
  <2>1. n \in Nat /\ tests[i].test \in STRING /\ seqs[i] = s
    BY <1>2 DEF Entry
  <2>. HIDE DEF n
  <2>2. s \in [1..n -> STRING \X Int]
    BY <2>1
  <2>3. s \in Seq(STRING \X Int)
    <3>. HIDE DEF s
    <3>. QED BY <2>1, <2>2, LenOf
  <2>4. ASSUME NEW k \in 1..n, NEW l \in 1..n, s[k] = s[l] PROVE k = l
    <3>1. seed + k - 1 = seed + l - 1
      BY <2>4
    <3>. QED BY <2>1, <3>1
  <2>5. DOMAIN s = 1..n /\ \A k \in 1..n : s[k] = <<tests[i].test, seed + k - 1>>
    OBVIOUS
  <2>. HIDE DEF s
  <2>6. \A r : Once(s, r)
    BY <2>4, <2>5 DEF Once
  <2>7. ToSet(s) = SeedsOf(tests[i], seed)
    BY <2>5 DEF ToSet, SeedsOf, n
  <2>. HIDE DEF seqs
  <2>. QED BY <2>1, <2>3, <2>6, <2>7
<1>4. DOMAIN seqs = DOMAIN tests /\ seqs = [i \in DOMAIN tests |-> seqs[i]]
  OBVIOUS
<1>. HIDE DEF seqs
<1>5. seqs \in Seq(Seq(STRING \X Int))
  BY <1>3, <1>4, SeqOver
<1>6. /\ ToSet(all) = UNION {ToSet(seqs[i]) : i \in DOMAIN seqs}
      /\ \A r : OnceInAll(seqs, r) => Once(all, r)
  BY <1>5, FlattenFacts
<1>. HIDE DEF all
<1>7. \A r : r \in ToSet(all) <=> \E i \in DOMAIN tests : r \in SeedsOf(tests[i], seed)
  BY <1>3, <1>4, <1>6
<1>8. ASSUME NEW t \in Entry, NEW r \in SeedsOf(t, seed),
             \A i, j \in DOMAIN tests : tests[i].test = t.test /\ tests[j].test = t.test => i = j
      PROVE  Once(all, r)
  <2>1. \A u : r \in SeedsOf(u, seed) => u.test = t.test
    BY DEF SeedsOf
  <2>2. \A i, j \in DOMAIN seqs : r \in ToSet(seqs[i]) /\ r \in ToSet(seqs[j]) => i = j
    BY <1>3, <1>4, <1>8, <2>1
  <2>3. \A i \in DOMAIN seqs : Once(seqs[i], r)
    BY <1>3, <1>4
  <2>. QED BY <1>6, <2>2, <2>3 DEF OnceInAll
<1>9. Seeded(all, tests, seed)
  BY <1>7, <1>8 DEF Seeded
<1>. QED BY <1>1, <1>9

\* RunsAsked of what is asked for and what is run.
RunsThose(cfg, list, asked, all, seed) ==
    /\ \A i \in DOMAIN asked :
           LET t == asked[i]
           IN  /\ Compatible(cfg, t) /\ (t.has_rtl_params => t.rtl_params # <<>>) =>
                      SeedsOf(t, seed) \subseteq ToSet(all)
               /\ t.rtl_params # <<>> /\ Refuses(cfg, t.rtl_params[1]) =>
                      SeedsOf(t, seed) \cap ToSet(all) = {}
               /\ Len(t.rtl_params) <= 1 => \A r \in SeedsOf(t, seed) : Once(all, r)
    /\ \A r \in ToSet(all) :
           /\ \E i \in DOMAIN asked : r \in SeedsOf(asked[i], seed)
           /\ Len(get_test_entry(list, r[1])) = 1

\* The whole chain, from the list of tests to the seeds.
LEMMA AskedAndSeeded ==
    ASSUME NEW cfg, NEW list \in Seq(Entry), Named(list),
           \A k \in DOMAIN list : list[k].has_rtl_params \/ list[k].rtl_params = <<>>,
           NEW wanted, NEW iterations \in Nat, NEW seed \in Nat,
           NEW asked, asked = process_regression_list(list, wanted, iterations),
           ~filter_tests_by_config(cfg, asked).raised,
           NEW F, F = filter_tests_by_config(cfg, asked).tests,
           NEW all, all = tds(Counts(F), seed)
    PROVE  RunsThose(cfg, list, asked, all, seed)
<1>1. asked \in Seq(Entry) /\ Named(asked)
  BY AskedFacts
<1>2. \A i \in DOMAIN asked : \E k \in DOMAIN list :
          /\ asked[i].test = list[k].test /\ asked[i].rtl_params = list[k].rtl_params
          /\ asked[i].has_rtl_params = list[k].has_rtl_params
          /\ list[k].iterations > 0
  BY AskedFacts
<1>3. \A i \in DOMAIN asked : asked[i].has_rtl_params \/ asked[i].rtl_params = <<>>
  BY <1>2
<1>4. /\ F \in Seq(Entry) /\ ToSet(F) \subseteq ToSet(asked)
      /\ \A t \in ToSet(asked) :
             /\ Compatible(cfg, t) /\ (t.has_rtl_params => t.rtl_params # <<>>) => t \in ToSet(F)
             /\ t.rtl_params # <<>> /\ Refuses(cfg, t.rtl_params[1]) => t \notin ToSet(F)
             /\ Len(t.rtl_params) <= 1 => Once(F, t)
  BY <1>1, <1>3, FilteredFacts
<1>5. /\ \A r : r \in ToSet(all) <=> \E i \in DOMAIN F : r \in SeedsOf(F[i], seed)
      /\ \A t \in Entry : (\A i, j \in DOMAIN F : F[i].test = t.test /\ F[j].test = t.test => i = j)
             => \A r \in SeedsOf(t, seed) : Once(all, r)
  BY <1>4, SeedFacts DEF Seeded
<1>6. \A i \in DOMAIN asked : asked[i] \in Entry /\ asked[i] \in ToSet(asked)
  BY <1>1, ElementOfSeq, LenProperties DEF ToSet
<1>7. \A j \in DOMAIN F : F[j] \in ToSet(F) /\ \E i \in DOMAIN asked : F[j] = asked[i]
  <2>1. \A j \in DOMAIN F : F[j] \in ToSet(F)
    BY DEF ToSet
  <2>2. \A t \in ToSet(asked) : \E i \in DOMAIN asked : t = asked[i]
    BY DEF ToSet
  <2>. QED BY <1>4, <2>1, <2>2
<1>8. \A t, u, r : r \in SeedsOf(t, seed) /\ r \in SeedsOf(u, seed) => t.test = u.test
  BY DEF SeedsOf
<1>9. ASSUME NEW i \in DOMAIN asked, NEW j \in DOMAIN F, F[j].test = asked[i].test
      PROVE  F[j] = asked[i]
  <2>1. PICK k \in DOMAIN asked : F[j] = asked[k]
    BY <1>7
  <2>. QED BY <1>1, <1>9, <2>1 DEF Named
<1>10. ASSUME NEW i \in DOMAIN asked
       PROVE  LET t == asked[i]
              IN  /\ Compatible(cfg, t) /\ (t.has_rtl_params => t.rtl_params # <<>>) =>
                         SeedsOf(t, seed) \subseteq ToSet(all)
                  /\ t.rtl_params # <<>> /\ Refuses(cfg, t.rtl_params[1]) =>
                         SeedsOf(t, seed) \cap ToSet(all) = {}
                  /\ Len(t.rtl_params) <= 1 => \A r \in SeedsOf(t, seed) : Once(all, r)
  <2>1. PICK t \in Entry : t = asked[i] /\ t \in ToSet(asked)
    BY <1>6
  <2>2. t \in ToSet(F) => SeedsOf(t, seed) \subseteq ToSet(all)
    BY <1>5 DEF ToSet
  <2>3. ASSUME NEW r \in SeedsOf(t, seed), r \in ToSet(all) PROVE t \in ToSet(F)
    <3>1. PICK j \in DOMAIN F : r \in SeedsOf(F[j], seed)
      BY <1>5, <2>3
    <3>2. F[j] = t
      BY <1>8, <1>9, <2>1, <2>3, <3>1
    <3>. QED BY <1>7, <3>2
  <2>4. ASSUME Once(F, t) PROVE \A r \in SeedsOf(t, seed) : Once(all, r)
    <3>1. \A j, k \in DOMAIN F : F[j].test = t.test /\ F[k].test = t.test => j = k
      BY <1>9, <2>1, <2>4 DEF Once
    <3>. QED BY <1>5, <3>1
  <2>. QED BY <1>4, <2>1, <2>2, <2>3, <2>4
<1>11. ASSUME NEW r \in ToSet(all)
       PROVE  /\ \E i \in DOMAIN asked : r \in SeedsOf(asked[i], seed)
              /\ Len(get_test_entry(list, r[1])) = 1
  <2>1. PICK j \in DOMAIN F : r \in SeedsOf(F[j], seed)
    BY <1>5
  <2>2. PICK i \in DOMAIN asked : F[j] = asked[i]
    BY <1>7
  <2>3. PICK l \in DOMAIN list : asked[i].test = list[l].test /\ list[l].iterations > 0
    BY <1>2
  <2>4. Len(get_test_entry(list, list[l].test)) = 1
    BY <2>3, EntryFound
  <2>5. r[1] = list[l].test
    BY <2>1, <2>2, <2>3 DEF SeedsOf
  <2>. QED BY <2>1, <2>2, <2>4, <2>5
<1>. QED BY <1>10, <1>11 DEF RunsThose

\* For every list of tests and every configuration, with any number of requirements: a
\* test that is asked for and allowed is run with each of its seeds, unless nothing is
\* under its key rtl_params; one whose first requirement is written as a string or a list
\* and is not met is not run; one of at most one requirement is not run twice with a
\* seed; and only what was asked for is run.  That all of it is allowed is not so.
THEOREM RunsWhatIsAsked == Spec => []RunsAsked
<1>1. Computed => RunsAsked
  <2>. SUFFICES ASSUME Computed, Done("tds"), ~out.raised
                PROVE  RunsAsked
    BY DEF RunsAsked
  <2>. DEFINE asked == process_regression_list(in.list, in.wanted, in.iterations)
              filtered == filter_tests_by_config(in.cfg, asked)
              F == filtered.tests
  <2>1. out = test_seeds /\ in \in TestInputs
    BY DEF Computed, Done, Inputs_of
  <2>2. /\ in.list \in Seq(Entry) /\ Named(in.list)
        /\ \A k \in DOMAIN in.list : in.list[k].has_rtl_params \/ in.list[k].rtl_params = <<>>
        /\ in.iterations \in Nat /\ in.seed \in Nat
    BY <2>1, TestAssumption DEF Named
  <2>3. ~filtered.raised /\ out.tds = tds(Counts(F), in.seed)
    <3>1. PICK tc : tc = get_tests_and_counts(in.cfg, in.list, in.wanted, in.iterations)
      OBVIOUS
    <3>2. ~tc.raised /\ out.tds = tds(tc.tests, in.seed)
      BY <2>1, <3>1 DEF test_seeds
    <3>3. PICK fl : fl = filtered
      OBVIOUS
    <3>4. tc = [raised |-> asked = <<>> \/ fl.raised,
                tests |-> [i \in DOMAIN fl.tests |-> <<fl.tests[i].test, fl.tests[i].iterations>>]]
      BY <3>1, <3>3 DEF get_tests_and_counts
    <3>. HIDE DEF filtered
    <3>. QED BY <3>2, <3>3, <3>4 DEF Counts
  <2>4. RunsThose(in.cfg, in.list, asked, out.tds, in.seed)
    <3>. HIDE DEF F, filtered, asked
    <3>. QED BY <2>2, <2>3, AskedAndSeeded DEF F, filtered, asked
  <2>. QED BY <2>4 DEF RunsAsked, RunsThose
<1>. QED BY <1>1, AlwaysComputed, PTL

-----------------------------------------------------------------------------
(* The words of a command *)

\* What each word is replaced by.
WordMap == [Word -> Seq(Word)]

\* One option, and those before the k-th of a dictionary, as a map of words.
One(name, value) == [w \in Word |-> IF w = Param(name) THEN value ELSE <<w>>]

First(dict, k) ==
    [w \in Word |-> IF w.is = "param" /\ \E i \in 1..k : dict[i].name = w.of
                    THEN dict[CHOOSE i \in 1..k : dict[i].name = w.of].value
                    ELSE <<w>>]

Whole(dict) == [w \in Word |-> IF w.is = "param" /\ Given(dict, w.of) THEN Value(dict, w.of) ELSE <<w>>]

\* A dictionary whose words do not name its own options, and one value for a name.
Plainly(dict) ==
    /\ dict \in Seq([name : STRING, value : Seq(Word)])
    /\ \A i, j \in DOMAIN dict : dict[i].name = dict[j].name => dict[i].value = dict[j].value
    /\ ~Refers(dict, dict)

\* What a word may be.
LEMMA WordFacts ==
    ASSUME NEW w \in Word
    PROVE  /\ w.is = "text" \/ w.is = "param"
           /\ w.of \in STRING
           /\ \A n : w = Param(n) <=> w.is = "param" /\ w.of = n
BY DEF Word, Param

\* An option replaces words.
LEMMA OneFacts ==
    ASSUME NEW name, NEW value \in Seq(Word), NEW cmd \in Seq(Word)
    PROVE  One(name, value) \in WordMap /\ subst_opt(cmd, name, value) = Expand(cmd, One(name, value))
<1>1. \A w \in Word : <<w>> \in Seq(Word)
  OBVIOUS
<1>2. One(name, value) \in WordMap
  BY <1>1 DEF One, WordMap
<1>3. \A i \in DOMAIN cmd : cmd[i] \in Word
  BY ElementOfSeq, LenProperties
<1>4. \A i \in DOMAIN cmd :
          One(name, value)[cmd[i]] = IF cmd[i] = Param(name) THEN value ELSE <<cmd[i]>>
  BY <1>3 DEF One
<1>5. [i \in DOMAIN cmd |-> One(name, value)[cmd[i]]] =
      [i \in DOMAIN cmd |-> IF cmd[i] = Param(name) THEN value ELSE <<cmd[i]>>]
  BY <1>4
<1>. QED BY <1>2, <1>5 DEF subst_opt, Expand

\* The loop of subst_dict.
LEMMA SubstSteps ==
    ASSUME NEW cmd \in Seq(Word), NEW dict \in Seq([name : STRING, value : Seq(Word)])
    PROVE  \E r : /\ r[0] = cmd
                  /\ \A k \in 1..Len(dict) : r[k] = subst_opt(r[k - 1], dict[k].name, dict[k].value)
                  /\ subst_dict(cmd, dict) = r[Len(dict)]
<1>. DEFINE n == Len(dict)
            St == Seq(Word)
            Step(s, d) == subst_opt(s, d.name, d.value)
            Is(f) == f = [D \in SUBSET (1..n) |-> IF D = {} THEN cmd
                            ELSE Step(f[D \ {Max(D)}], dict[Max(D)])]
            G == [p \in St \X (1..n) |-> Step(p[1], dict[p[2]])]
            c == CHOOSE f : Is(f)
<1>1. n \in Nat /\ DOMAIN dict = 1..n /\ \A k \in 1..n : dict[k] \in [name : STRING, value : Seq(Word)]
  BY LenProperties, ElementOfSeq
<1>2. G \in [St \X (1..n) -> St]
  <2>1. ASSUME NEW s \in St, NEW d \in [name : STRING, value : Seq(Word)] PROVE Step(s, d) \in St
    <3>1. d.value \in Seq(Word)
      OBVIOUS
    <3>2. One(d.name, d.value) \in WordMap /\ Step(s, d) = Expand(s, One(d.name, d.value))
      BY <3>1, OneFacts
    <3>3. PICK h \in [Word -> Seq(Word)] : h = One(d.name, d.value)
      BY <3>2 DEF WordMap
    <3>4. Expand(s, h) \in Seq(Word)
      BY ExpandType
    <3>. QED BY <3>2, <3>3, <3>4
  <2>. HIDE DEF Step, St, n
  <2>. QED BY <1>1, <2>1
<1>. HIDE DEF Step
<1>4. PICK f : Iterates(f, St, cmd, n, G)
  <2>. HIDE DEF G, n
  <2>. QED BY <1>1, <1>2, IterExists
<1>5. ASSUME NEW D \in SUBSET (1..n)
      PROVE  f[D] = IF D = {} THEN cmd ELSE Step(f[D \ {Max(D)}], dict[Max(D)])
  <2>1. CASE D = {}
    BY <1>4, <2>1 DEF Iterates
  <2>2. CASE D # {}
    <3>1. Max(D) \in 1..n /\ D \ {Max(D)} \in SUBSET (1..n)
      <4>. HIDE DEF n
      <4>. QED BY <1>1, <2>2, MaxIn
    <3>2. f[D \ {Max(D)}] \in St
      BY <1>4, <3>1 DEF Iterates
    <3>3. f[D] = G[<<f[D \ {Max(D)}], Max(D)>>]
      BY <1>4, <2>2 DEF Iterates
    <3>. QED BY <2>2, <3>1, <3>2, <3>3
  <2>. QED BY <2>1, <2>2
<1>6. Is(f)
  <2>1. f = [D \in SUBSET (1..n) |-> f[D]]
    BY <1>4 DEF Iterates
  <2>. QED BY <1>5, <2>1
<1>7. Is(c)
  <2>. HIDE DEF Is
  <2>. QED BY <1>6
<1>8. subst_dict(cmd, dict) = c[1..n]
  BY <1>1 DEF subst_dict, FoldLeft, MapThenFoldSet, Step
<1>9. c[1..0] = cmd /\ \A k \in 1..n : c[1..k] = Step(c[1..(k - 1)], dict[k])
  <2>. HIDE DEF c
  <2>1. \A D \in SUBSET (1..n) :
           c[D] = IF D = {} THEN cmd ELSE Step(c[D \ {Max(D)}], dict[Max(D)])
    BY <1>7
  <2>2. 1..0 = {}
    OBVIOUS
  <2>3. ASSUME NEW k \in 1..n PROVE c[1..k] = Step(c[1..(k - 1)], dict[k])
    <3>1. Max(1..k) = k /\ (1..k) \ {k} = 1..(k - 1)
      BY <1>1, MaxOfRange
    <3>2. 1..k \in SUBSET (1..n) /\ 1..k # {}
      <4>. HIDE DEF n
      <4>. QED BY <1>1, PrefixIn
    <3>. QED BY <2>1, <3>1, <3>2
  <2>. QED BY <2>1, <2>2, <2>3
<1>. DEFINE r == [k \in 0..n |-> c[1..k]]
<1>10. r[0] = cmd /\ (\A k \in 1..n : r[k] = Step(r[k - 1], dict[k])) /\ subst_dict(cmd, dict) = r[n]
  <2>. HIDE DEF c
  <2>1. \A k \in 0..n : r[k] = c[1..k]
    OBVIOUS
  <2>2. \A k \in 1..n : k \in 0..n /\ k - 1 \in 0..n
    BY <1>1
  <2>3. 0 \in 0..n /\ n \in 0..n
    BY <1>1
  <2>. HIDE DEF r
  <2>. QED BY <1>8, <1>9, <2>1, <2>2, <2>3
<1>. HIDE DEF r
<1>. QED BY <1>10 DEF Step

\* The first k options give sequences of words.
LEMMA FirstType ==
    ASSUME NEW dict \in Seq([name : STRING, value : Seq(Word)]), NEW k \in 0..Len(dict)
    PROVE  First(dict, k) \in WordMap
<1>1. ASSUME NEW i \in 1..k PROVE dict[i].value \in Seq(Word)
  <2>1. i \in 1..Len(dict)
    BY LenProperties
  <2>2. dict[i] \in [name : STRING, value : Seq(Word)]
    BY <2>1, ElementOfSeq
  <2>. QED BY <2>2
<1>2. ASSUME NEW w \in Word
      PROVE  (IF w.is = "param" /\ \E i \in 1..k : dict[i].name = w.of
              THEN dict[CHOOSE i \in 1..k : dict[i].name = w.of].value
              ELSE <<w>>) \in Seq(Word)
  <2>1. <<w>> \in Seq(Word)
    OBVIOUS
  <2>. QED BY <1>1, <2>1
<1>. QED BY <1>2 DEF First, WordMap

\* One value for a name: whichever entry has it.
LEMMA FirstValue ==
    ASSUME NEW dict, Plainly(dict), NEW k \in 0..Len(dict), NEW w \in Word
    PROVE  /\ \A i \in 1..k : w.is = "param" /\ dict[i].name = w.of => First(dict, k)[w] = dict[i].value
           /\ ~(w.is = "param" /\ \E i \in 1..k : dict[i].name = w.of) => First(dict, k)[w] = <<w>>
<1>1. DOMAIN dict = 1..Len(dict) /\ Len(dict) \in Nat
  BY LenProperties DEF Plainly
<1>2. ASSUME NEW i \in 1..k, w.is = "param", dict[i].name = w.of
      PROVE  First(dict, k)[w] = dict[i].value
  <2>. DEFINE j == CHOOSE j \in 1..k : dict[j].name = w.of
  <2>1. j \in 1..k /\ dict[j].name = w.of
    BY <1>2
  <2>2. First(dict, k)[w] = dict[j].value
    BY <1>2 DEF First
  <2>. HIDE DEF j
  <2>3. i \in DOMAIN dict /\ j \in DOMAIN dict
    BY <1>1, <2>1
  <2>. QED BY <1>2, <2>1, <2>2, <2>3 DEF Plainly
<1>3. ~(w.is = "param" /\ \E i \in 1..k : dict[i].name = w.of) => First(dict, k)[w] = <<w>>
  BY DEF First
<1>. QED BY <1>2, <1>3

\* An option that its dictionary does not name leaves the values of the others alone.
LEMMA ValueStays ==
    ASSUME NEW dict, Plainly(dict), NEW i \in DOMAIN dict, NEW k \in DOMAIN dict
    PROVE  Expand(dict[i].value, One(dict[k].name, dict[k].value)) = dict[i].value
<1>. DEFINE h == One(dict[k].name, dict[k].value)
            v == dict[i].value
<1>1. v \in Seq(Word) /\ dict[k].value \in Seq(Word)
  <2>1. dict[i] \in [name : STRING, value : Seq(Word)] /\ dict[k] \in [name : STRING, value : Seq(Word)]
    <3>1. dict \in Seq([name : STRING, value : Seq(Word)])
      BY DEF Plainly
    <3>2. \A j \in DOMAIN dict : dict[j] \in [name : STRING, value : Seq(Word)]
      BY <3>1, ElementOfSeq, LenProperties
    <3>. QED BY <3>2
  <2>. QED BY <2>1
<1>2. h \in [Word -> Seq(Word)]
  BY <1>1, OneFacts, EmptySeq DEF WordMap
<1>3. ASSUME NEW l \in DOMAIN v PROVE h[v[l]] = <<v[l]>>
  <2>1. v[l] \in Word
    BY <1>1, ElementOfSeq, LenProperties
  <2>2. v[l] # Param(dict[k].name)
    <3>1. ~(v[l].is = "param" /\ v[l].of = dict[k].name)
      <4>1. ~Refers(dict, dict)
        BY DEF Plainly
      <4>. QED BY <4>1 DEF Refers, Given
    <3>. QED BY <2>1, <3>1, WordFacts
  <2>. HIDE DEF v
  <2>. QED BY <2>1, <2>2 DEF One
<1>. HIDE DEF h, v
<1>4. Expand(v, h) = v
  BY <1>1, <1>2, <1>3, ExpandSame
<1>. QED BY <1>4 DEF h, v

\* One option more.
LEMMA FirstNext ==
    ASSUME NEW dict, Plainly(dict), NEW k \in Nat, k + 1 \in 1..Len(dict), NEW w \in Word
    PROVE  Expand(First(dict, k)[w], One(dict[k + 1].name, dict[k + 1].value)) = First(dict, k + 1)[w]
<1>. DEFINE d == dict[k + 1]
            h == One(d.name, d.value)
<1>1. /\ DOMAIN dict = 1..Len(dict) /\ k \in 0..Len(dict) /\ k + 1 \in 0..Len(dict) /\ k + 1 \in DOMAIN dict
      /\ \A i \in 1..(k + 1) : i = k + 1 \/ i \in 1..k
      /\ \A i \in 1..k : i \in 1..(k + 1) /\ i \in DOMAIN dict
      /\ k + 1 \in 1..(k + 1)
  BY LenProperties DEF Plainly
<1>2. CASE w.is = "param" /\ \E i \in 1..k : dict[i].name = w.of
  <2>1. PICK i \in 1..k : dict[i].name = w.of
    BY <1>2
  <2>2. First(dict, k)[w] = dict[i].value /\ First(dict, k + 1)[w] = dict[i].value
    BY <1>1, <1>2, <2>1, FirstValue
  <2>. QED BY <1>1, <2>2, ValueStays
<1>3. CASE ~(w.is = "param" /\ \E i \in 1..k : dict[i].name = w.of)
  <2>1. First(dict, k)[w] = <<w>>
    BY <1>1, <1>3, FirstValue
  <2>2. d.value \in Seq(Word)
    <3>1. d \in [name : STRING, value : Seq(Word)]
      BY <1>1, ElementOfSeq DEF Plainly
    <3>. QED BY <3>1
  <2>. HIDE DEF d
  <2>3. h \in [Word -> Seq(Word)]
    BY <2>2, OneFacts, EmptySeq DEF WordMap
  <2>4. h[w] = IF w = Param(d.name) THEN d.value ELSE <<w>>
    BY DEF One
  <2>. HIDE DEF h
  <2>5. Expand(<<w>>, h) = h[w]
    BY <2>3, ExpandOne
  <2>6. w = Param(d.name) <=> w.is = "param" /\ w.of = d.name
    BY WordFacts
  <2>7. CASE w.is = "param" /\ w.of = d.name
    <3>1. First(dict, k + 1)[w] = d.value
      BY <1>1, <2>7, FirstValue DEF d
    <3>. QED BY <2>1, <2>4, <2>5, <2>6, <2>7, <3>1 DEF d, h
  <2>8. CASE ~(w.is = "param" /\ w.of = d.name)
    <3>1. ~(w.is = "param" /\ \E i \in 1..(k + 1) : dict[i].name = w.of)
      BY <1>1, <1>3, <2>8 DEF d
    <3>2. First(dict, k + 1)[w] = <<w>>
      BY <1>1, <3>1, FirstValue
    <3>. QED BY <2>1, <2>4, <2>5, <2>6, <2>8, <3>2 DEF d, h
  <2>. QED BY <2>7, <2>8
<1>. QED BY <1>2, <1>3

\* subst_dict replaces every word by what the dictionary has for it.
LEMMA SubstFacts ==
    ASSUME NEW cmd \in Seq(Word), NEW dict, Plainly(dict)
    PROVE  /\ Whole(dict) \in WordMap
           /\ subst_dict(cmd, dict) = Expand(cmd, Whole(dict))
<1>. DEFINE n == Len(dict)
<1>0. dict \in Seq([name : STRING, value : Seq(Word)])
  BY DEF Plainly
<1>1. n \in Nat /\ DOMAIN dict = 1..n /\ \A k \in 1..n : dict[k] \in [name : STRING, value : Seq(Word)]
  BY <1>0, LenProperties, ElementOfSeq
<1>2. PICK r : /\ r[0] = cmd
               /\ \A k \in 1..n : r[k] = subst_opt(r[k - 1], dict[k].name, dict[k].value)
               /\ subst_dict(cmd, dict) = r[n]
  BY <1>0, SubstSteps
<1>. DEFINE T == {k \in Nat : k <= n => r[k] = Expand(cmd, First(dict, k))}
<1>r. \A k \in Nat : k <= n => k \in 0..n
  BY <1>1
<1>t. \A k \in 0..n : First(dict, k) \in [Word -> Seq(Word)]
  BY <1>0, FirstType DEF WordMap
<1>3. 0 \in T
  <2>1. PICK first \in [Word -> Seq(Word)] : first = First(dict, 0)
    BY <1>1, <1>t
  <2>2. ASSUME NEW i \in DOMAIN cmd PROVE First(dict, 0)[cmd[i]] = <<cmd[i]>>
    <3>1. cmd[i] \in Word
      BY ElementOfSeq, LenProperties
    <3>2. ~\E j \in 1..0 : dict[j].name = cmd[i].of
      OBVIOUS
    <3>. QED BY <3>1, <3>2 DEF First
  <2>3. Expand(cmd, first) = cmd
    BY <2>1, <2>2, ExpandSame
  <2>. QED BY <1>2, <2>1, <2>3
<1>4. ASSUME NEW k \in Nat, k \in T PROVE k + 1 \in T
  <2>. SUFFICES ASSUME k + 1 <= n PROVE r[k + 1] = Expand(cmd, First(dict, k + 1))
    OBVIOUS
  <2>. DEFINE g == First(dict, k)
              h == One(dict[k + 1].name, dict[k + 1].value)
  <2>1. k + 1 \in 1..n /\ (k + 1) - 1 = k /\ k \in 0..n /\ k + 1 \in 0..n /\ k <= n
    BY <1>1
  <2>2. dict[k + 1].value \in Seq(Word)
    <3>1. dict[k + 1] \in [name : STRING, value : Seq(Word)]
      BY <1>1, <2>1
    <3>. QED BY <3>1
  <2>3. g \in [Word -> Seq(Word)] /\ h \in [Word -> Seq(Word)]
    BY <1>t, <2>1, <2>2, OneFacts, EmptySeq DEF WordMap
  <2>4. r[k] = Expand(cmd, g)
    BY <1>4, <2>1
  <2>5. r[k + 1] = subst_opt(r[k], dict[k + 1].name, dict[k + 1].value)
    BY <1>2, <2>1
  <2>6. Expand(cmd, g) \in Seq(Word)
    <3>. HIDE DEF g
    <3>. QED BY <2>3, ExpandType
  <2>7. r[k + 1] = Expand(Expand(cmd, g), h)
    BY <2>2, <2>4, <2>5, <2>6, OneFacts
  <2>8. Expand(Expand(cmd, g), h) = Expand(cmd, Then(Word, g, h))
    <3>. HIDE DEF g, h
    <3>. QED BY <2>3, ExpandTwice
  <2>9. Then(Word, g, h) = First(dict, k + 1)
    <3>1. \A w \in Word : Expand(g[w], h) = First(dict, k + 1)[w]
      BY <2>1, FirstNext
    <3>2. First(dict, k + 1) = [w \in Word |-> First(dict, k + 1)[w]]
      BY DEF First
    <3>. HIDE DEF g, h
    <3>. QED BY <3>1, <3>2 DEF Then
  <2>. QED BY <2>7, <2>8, <2>9
<1>. HIDE DEF T
<1>5. n \in T
  BY <1>1, <1>3, <1>4, NatSet
<1>6. subst_dict(cmd, dict) = Expand(cmd, First(dict, n))
  BY <1>1, <1>2, <1>5 DEF T
<1>7. First(dict, n) = Whole(dict)
  BY <1>1 DEF First, Whole, Given, Value
<1>8. First(dict, n) \in WordMap
  BY <1>1, <1>t DEF WordMap
<1>. QED BY <1>6, <1>7, <1>8

\* What the entry of a simulator and its user give, as a command may use it.
LEMMA PlainDict ==
    ASSUME NEW dict \in Dict, ~Refers(dict, dict)
    PROVE  Plainly(dict)
BY DEF Dict, Plainly

\* The options of the simulator, as far as they are enabled.
LEMMA OptsFacts ==
    ASSUME NEW opts \in Dict, ~Refers(opts, opts), NEW enables
    PROVE  /\ Plainly(cmd_opts_dict(opts, enables))
           /\ \A n : Given(cmd_opts_dict(opts, enables), n) <=> Given(opts, n)
<1>. DEFINE d == cmd_opts_dict(opts, enables)
            Opt == [name : STRING, value : Seq(Word)]
<1>1. opts \in Seq(Opt) /\ \A i, j \in DOMAIN opts : opts[i].name = opts[j].name => i = j
  BY DEF Dict
<1>2. \A i \in DOMAIN opts : opts[i] \in Opt
  <2>. HIDE DEF Opt
  <2>. QED BY <1>1, ElementOfSeq, LenProperties
<1>3. ASSUME NEW i \in DOMAIN opts
      PROVE  /\ d[i] \in Opt /\ d[i].name = opts[i].name
             /\ d[i].value = IF opts[i].name \in enables THEN opts[i].value ELSE <<>>
  <2>1. d[i] = [name |-> opts[i].name,
                value |-> IF opts[i].name \in enables THEN opts[i].value ELSE <<>>]
    BY DEF cmd_opts_dict
  <2>2. opts[i].name \in STRING /\ opts[i].value \in Seq(Word) /\ <<>> \in Seq(Word)
    BY <1>2
  <2>. DEFINE v == IF opts[i].name \in enables THEN opts[i].value ELSE <<>>
  <2>3. v \in Seq(Word)
    BY <2>2
  <2>. HIDE DEF d, v
  <2>4. d[i] = [name |-> opts[i].name, value |-> v]
    BY <2>1 DEF v
  <2>5. d[i] \in Opt /\ d[i].name = opts[i].name /\ d[i].value = v
    BY <2>2, <2>3, <2>4
  <2>. QED BY <2>5 DEF v
<1>4. DOMAIN d = DOMAIN opts /\ d = [i \in DOMAIN opts |-> d[i]]
  BY DEF cmd_opts_dict
<1>. HIDE DEF d
<1>5. d \in Seq(Opt)
  <2>. HIDE DEF Opt
  <2>. QED BY <1>1, <1>3, <1>4, SeqOver
<1>6. \A n : Given(d, n) <=> Given(opts, n)
  BY <1>3, <1>4 DEF Given
<1>7. ~Refers(d, d)
  <2>. SUFFICES ASSUME NEW i \in DOMAIN opts, NEW k \in DOMAIN d[i].value,
                       d[i].value[k].is = "param", Given(d, d[i].value[k].of)
                PROVE  FALSE
    BY <1>4 DEF Refers
  <2>1. d[i].value = opts[i].value
    <3>1. DOMAIN <<>> = {}
      OBVIOUS
    <3>. QED BY <1>3, <3>1
  <2>2. Given(opts, opts[i].value[k].of)
    BY <1>6, <2>1
  <2>. QED BY <2>1, <2>2 DEF Refers
<1>8. \A i, j \in DOMAIN d : d[i].name = d[j].name => d[i].value = d[j].value
  BY <1>1, <1>3, <1>4
<1>. QED BY <1>5, <1>6, <1>7, <1>8 DEF Plainly, d

\* The environment.
LEMMA EnvFacts ==
    ASSUME NEW vars_ \in Seq(STRING)
    PROVE  /\ Plainly(env_dict(vars_))
           /\ \A n : Given(env_dict(vars_), n) <=> n \in ToSet(vars_)
           /\ \A n \in ToSet(vars_) : Value(env_dict(vars_), n) = <<Text(n)>>
<1>. DEFINE d == env_dict(vars_)
            Opt == [name : STRING, value : Seq(Word)]
<1>1. \A i \in DOMAIN vars_ : vars_[i] \in STRING
  BY ElementOfSeq, LenProperties
<1>2. ASSUME NEW i \in DOMAIN vars_
      PROVE  /\ d[i] \in Opt /\ d[i].name = vars_[i]
             /\ d[i].value = <<Text(vars_[i])>>
  <2>1. d[i] = [name |-> vars_[i], value |-> <<Text(vars_[i])>>]
    BY DEF env_dict
  <2>2. vars_[i] \in STRING /\ Text(vars_[i]) \in Word
    BY <1>1 DEF Text, Word
  <2>3. <<Text(vars_[i])>> \in Seq(Word)
    BY <2>2
  <2>. HIDE DEF d
  <2>. QED BY <2>1, <2>2, <2>3
<1>3. DOMAIN d = DOMAIN vars_ /\ d = [i \in DOMAIN vars_ |-> d[i]]
  BY DEF env_dict
<1>. HIDE DEF d
<1>4. d \in Seq(Opt)
  <2>. HIDE DEF Opt
  <2>. QED BY <1>2, <1>3, SeqOver
<1>5. ~Refers(d, d)
  <2>. SUFFICES ASSUME NEW i \in DOMAIN vars_, NEW k \in DOMAIN d[i].value, d[i].value[k].is = "param"
                PROVE  FALSE
    BY <1>3 DEF Refers
  <2>1. d[i].value = <<Text(vars_[i])>>
    BY <1>2
  <2>2. k = 1
    BY <2>1
  <2>3. d[i].value[k] = Text(vars_[i])
    BY <2>1, <2>2
  <2>. QED BY <2>3 DEF Text
<1>6. \A n : Given(d, n) <=> n \in ToSet(vars_)
  BY <1>2, <1>3 DEF Given, ToSet
<1>7. ASSUME NEW n \in ToSet(vars_) PROVE Value(d, n) = <<Text(n)>>
  <2>. DEFINE i == CHOOSE i \in DOMAIN d : d[i].name = n
  <2>1. \E j \in DOMAIN d : d[j].name = n
    BY <1>6, <1>7 DEF Given
  <2>2. i \in DOMAIN d /\ d[i].name = n
    BY <2>1
  <2>3. Value(d, n) = d[i].value
    BY DEF Value
  <2>. HIDE DEF i
  <2>. QED BY <1>2, <1>3, <2>2, <2>3
<1>8. \A i, j \in DOMAIN d : d[i].name = d[j].name => d[i].value = d[j].value
  BY <1>2, <1>3
<1>. QED BY <1>4, <1>5, <1>6, <1>7, <1>8 DEF Plainly, d

\* A value is a sequence of words.
LEMMA ValueOf ==
    ASSUME NEW dict, Plainly(dict), NEW n, Given(dict, n)
    PROVE  \E i \in DOMAIN dict : Value(dict, n) = dict[i].value /\ Value(dict, n) \in Seq(Word)
<1>1. dict \in Seq([name : STRING, value : Seq(Word)])
  BY DEF Plainly
<1>2. \A j \in DOMAIN dict : dict[j] \in [name : STRING, value : Seq(Word)]
  BY <1>1, ElementOfSeq, LenProperties
<1>. DEFINE i == CHOOSE i \in DOMAIN dict : dict[i].name = n
<1>3. i \in DOMAIN dict
  BY DEF Given
<1>4. Value(dict, n) = dict[i].value
  BY DEF Value
<1>. HIDE DEF i
<1>. QED BY <1>2, <1>3, <1>4

\* After the options: what the user gives, and then the environment.
LEMMA OutsideFacts ==
    ASSUME NEW entry, NEW user, Plainly(user), entry.env_var \in Seq(STRING),
           ~Refers(user, env_dict(entry.env_var)), NEW w \in Word
    PROVE  Expand(Whole(user)[w], Whole(env_dict(entry.env_var))) = MeansOutside(w, entry, user)
<1>. DEFINE env == env_dict(entry.env_var)
            E == Whole(env)
<1>1. /\ Plainly(env)
      /\ \A n : Given(env, n) <=> n \in ToSet(entry.env_var)
      /\ \A n \in ToSet(entry.env_var) : Value(env, n) = <<Text(n)>>
  BY EnvFacts
<1>2. E \in [Word -> Seq(Word)]
  BY <1>1, SubstFacts, EmptySeq DEF WordMap
<1>. HIDE DEF env
<1>3. \A x \in Word : E[x] = IF x.is = "param" /\ Given(env, x.of) THEN Value(env, x.of) ELSE <<x>>
  BY DEF Whole
<1>4. Whole(user)[w] = IF w.is = "param" /\ Given(user, w.of) THEN Value(user, w.of) ELSE <<w>>
  BY DEF Whole
<1>. HIDE DEF E
<1>5. CASE w.is = "param" /\ Given(user, w.of)
  <2>1. PICK i \in DOMAIN user : Value(user, w.of) = user[i].value /\ Value(user, w.of) \in Seq(Word)
    BY <1>5, ValueOf
  <2>2. PICK v \in Seq(Word) : v = Value(user, w.of)
    BY <2>1
  <2>3. ASSUME NEW k \in DOMAIN v PROVE E[v[k]] = <<v[k]>>
    <3>1. v[k] \in Word
      BY ElementOfSeq, LenProperties
    <3>2. ~(v[k].is = "param" /\ Given(env, v[k].of))
      BY <2>1, <2>2 DEF Refers, env
    <3>. QED BY <1>3, <3>1, <3>2
  <2>4. Expand(v, E) = v
    <3>1. \A k \in DOMAIN v : E[v[k]] = <<v[k]>>
      BY <2>3
    <3>2. \A s \in Seq(Word) : (\A k \in DOMAIN s : E[s[k]] = <<s[k]>>) => Expand(s, E) = s
      BY <1>2, ExpandSame
    <3>. QED BY <3>1, <3>2
  <2>5. MeansOutside(w, entry, user) = v
    BY <1>5, <2>2 DEF MeansOutside
  <2>. QED BY <1>4, <1>5, <2>2, <2>4, <2>5 DEF E, env
<1>6. CASE ~(w.is = "param" /\ Given(user, w.of))
  <2>1. Expand(<<w>>, E) = E[w]
    BY <1>2, ExpandOne
  <2>2. E[w] = MeansOutside(w, entry, user)
    BY <1>1, <1>3, <1>6, WordFacts DEF MeansOutside
  <2>. QED BY <1>4, <1>6, <2>1, <2>2 DEF E, env
<1>. QED BY <1>5, <1>6

\* A word of the command, replaced by the three one after the other, is what it means.
LEMMA MeaningOf ==
    ASSUME NEW entry, NEW enables, NEW user,
           entry.opts \in Dict, ~Refers(entry.opts, entry.opts), entry.env_var \in Seq(STRING),
           Plainly(user), ~Refers(user, env_dict(entry.env_var)), NEW w \in Word
    PROVE  Expand(Expand(Whole(cmd_opts_dict(entry.opts, enables))[w], Whole(user)),
                  Whole(env_dict(entry.env_var))) = Means(w, entry, enables, user)
<1>. DEFINE opts == cmd_opts_dict(entry.opts, enables)
            U == Whole(user)
            E == Whole(env_dict(entry.env_var))
            M == [x \in Word |-> MeansOutside(x, entry, user)]
<1>1. Plainly(opts) /\ \A n : Given(opts, n) <=> Given(entry.opts, n)
  BY OptsFacts
<1>2. U \in [Word -> Seq(Word)] /\ E \in [Word -> Seq(Word)]
  BY EnvFacts, SubstFacts, EmptySeq DEF WordMap
<1>3. Then(Word, U, E) = M
  BY OutsideFacts DEF Then
<1>4. M \in [Word -> Seq(Word)]
  <2>. HIDE DEF U, E, M
  <2>1. \A x \in Word : U[x] \in Seq(Word)
    BY <1>2
  <2>2. \A x \in Word : Expand(U[x], E) \in Seq(Word)
    BY <1>2, <2>1, ExpandType
  <2>. QED BY <1>3, <2>2 DEF Then
<1>5. \A x \in Word : M[x] = MeansOutside(x, entry, user)
  OBVIOUS
<1>6. Whole(opts)[w] = IF w.is = "param" /\ Given(opts, w.of) THEN Value(opts, w.of) ELSE <<w>>
  BY DEF Whole
<1>. HIDE DEF U, E, M
<1>7. \A v \in Seq(Word) : Expand(Expand(v, U), E) = Expand(v, M)
  BY <1>2, <1>3, ExpandTwice
<1>8. CASE w.is = "param" /\ Given(entry.opts, w.of)
  <2>1. PICK v \in Seq(Word) : v = Value(opts, w.of)
    BY <1>1, <1>8, ValueOf
  <2>2. Expand(Expand(v, U), E) = Expand(v, M)
    BY <1>7
  <2>3. \A i \in DOMAIN v : v[i] \in Word
    BY ElementOfSeq, LenProperties
  <2>4. [i \in DOMAIN v |-> M[v[i]]] = [i \in DOMAIN v |-> MeansOutside(v[i], entry, user)]
    BY <1>5, <2>3
  <2>5. Expand(v, M) = FlattenSeq([i \in DOMAIN v |-> MeansOutside(v[i], entry, user)])
    BY <2>4 DEF Expand
  <2>6. Means(w, entry, enables, user) = FlattenSeq([i \in DOMAIN v |-> MeansOutside(v[i], entry, user)])
    BY <1>8, <2>1 DEF Means, opts
  <2>7. Whole(opts)[w] = v
    BY <1>1, <1>6, <1>8, <2>1
  <2>. QED BY <2>2, <2>5, <2>6, <2>7 DEF opts, U, E
<1>9. CASE ~(w.is = "param" /\ Given(entry.opts, w.of))
  <2>1. Whole(opts)[w] = <<w>> /\ <<w>> \in Seq(Word)
    BY <1>1, <1>6, <1>9
  <2>2. Expand(Expand(<<w>>, U), E) = Expand(<<w>>, M)
    BY <1>7, <2>1
  <2>3. Expand(<<w>>, M) = M[w]
    BY <1>4, ExpandOne
  <2>4. Means(w, entry, enables, user) = MeansOutside(w, entry, user)
    BY <1>9 DEF Means
  <2>. QED BY <1>5, <2>1, <2>2, <2>3, <2>4 DEF opts, U, E
<1>. QED BY <1>8, <1>9

\* A command says, word by word, what its words mean.
LEMMA FormattedMeans ==
    ASSUME NEW cmd \in Seq(Word), NEW entry, NEW enables, NEW user,
           entry.opts \in Dict, ~Refers(entry.opts, entry.opts), entry.env_var \in Seq(STRING),
           user \in Dict, ~Refers(user, user), ~Refers(user, env_dict(entry.env_var))
    PROVE  Formatted(cmd, entry, enables, user)
              = FlattenSeq([i \in DOMAIN cmd |-> Means(cmd[i], entry, enables, user)])
<1>. DEFINE opts == cmd_opts_dict(entry.opts, enables)
            env == env_dict(entry.env_var)
            O == Whole(opts)
            U == Whole(user)
            E == Whole(env)
            OU == Then(Word, O, U)
<1>1. Plainly(opts) /\ Plainly(user) /\ Plainly(env)
  BY OptsFacts, PlainDict, EnvFacts
<1>. HIDE DEF opts, env
<1>2. /\ O \in [Word -> Seq(Word)] /\ U \in [Word -> Seq(Word)] /\ E \in [Word -> Seq(Word)]
      /\ \A s \in Seq(Word) : /\ subst_dict(s, opts) = Expand(s, O)
                              /\ subst_dict(s, user) = Expand(s, U)
                              /\ subst_dict(s, env) = Expand(s, E)
  BY <1>1, SubstFacts, EmptySeq DEF WordMap
<1>3. ASSUME NEW w \in Word PROVE Expand(Expand(O[w], U), E) = Means(w, entry, enables, user)
  BY <1>1, MeaningOf DEF opts, env
<1>. HIDE DEF O, U, E
<1>4. \A s \in Seq(Word) : Expand(s, O) \in Seq(Word) /\ Expand(s, U) \in Seq(Word)
  BY <1>2, ExpandType
<1>5. Formatted(cmd, entry, enables, user) = Expand(Expand(Expand(cmd, O), U), E)
  <2>1. subst_dict(cmd, opts) = Expand(cmd, O)
    BY <1>2
  <2>2. subst_dict(Expand(cmd, O), user) = Expand(Expand(cmd, O), U)
    BY <1>2, <1>4
  <2>3. subst_dict(Expand(Expand(cmd, O), U), env) = Expand(Expand(Expand(cmd, O), U), E)
    BY <1>2, <1>4
  <2>. QED BY <2>1, <2>2, <2>3 DEF Formatted, subst_env_vars, opts, env
<1>6. Expand(Expand(cmd, O), U) = Expand(cmd, OU)
  BY <1>2, ExpandTwice
<1>7. OU \in [Word -> Seq(Word)] /\ \A w \in Word : OU[w] = Expand(O[w], U)
  BY <1>2, <1>4 DEF Then
<1>. HIDE DEF OU
<1>8. Expand(Expand(cmd, OU), E) = Expand(cmd, Then(Word, OU, E))
  BY <1>2, <1>7, ExpandTwice
<1>9. \A w \in Word : Then(Word, OU, E)[w] = Means(w, entry, enables, user)
  BY <1>3, <1>7 DEF Then
<1>10. \A i \in DOMAIN cmd : cmd[i] \in Word
  BY ElementOfSeq, LenProperties
<1>11. [i \in DOMAIN cmd |-> Then(Word, OU, E)[cmd[i]]]
          = [i \in DOMAIN cmd |-> Means(cmd[i], entry, enables, user)]
  BY <1>9, <1>10
<1>12. Expand(cmd, Then(Word, OU, E))
          = FlattenSeq([i \in DOMAIN cmd |-> Means(cmd[i], entry, enables, user)])
  BY <1>11 DEF Expand
<1>. QED BY <1>5, <1>6, <1>8, <1>12

\* What a word means outside of the options is a sequence of words, and a parameter that
\* is left when the simulator lists no variables is left when it lists others.
LEMMA OutsideLeft ==
    ASSUME NEW entry, NEW bare, bare.env_var = <<>>, NEW user, Plainly(user), NEW w \in Word
    PROVE  /\ MeansOutside(w, entry, user) \in Seq(Word) /\ MeansOutside(w, bare, user) \in Seq(Word)
           /\ \A v \in ToSet(MeansOutside(w, bare, user)) :
                  v.is = "param" /\ v.of \notin ToSet(entry.env_var) =>
                      v \in ToSet(MeansOutside(w, entry, user))
<1>1. /\ w.is = "text" \/ w.is = "param"
      /\ w.of \in STRING
  BY WordFacts
<1>2. Text(w.of) \in Word
  BY <1>1 DEF Text, Word
<1>3. <<Text(w.of)>> \in Seq(Word) /\ <<w>> \in Seq(Word)
  BY <1>2
<1>4. ToSet(bare.env_var) = {}
  BY DEF ToSet
<1>5. CASE w.is # "text" /\ Given(user, w.of)
  <2>1. Value(user, w.of) \in Seq(Word)
    BY <1>5, ValueOf
  <2>2. /\ MeansOutside(w, entry, user) = Value(user, w.of)
        /\ MeansOutside(w, bare, user) = Value(user, w.of)
    BY <1>5 DEF MeansOutside
  <2>. QED BY <2>1, <2>2
<1>6. CASE ~(w.is # "text" /\ Given(user, w.of))
  <2>1. MeansOutside(w, bare, user) = <<w>>
    BY <1>4, <1>6 DEF MeansOutside
  <2>2. \/ MeansOutside(w, entry, user) = <<w>>
        \/ w.of \in ToSet(entry.env_var) /\ MeansOutside(w, entry, user) = <<Text(w.of)>>
    BY <1>6 DEF MeansOutside
  <2>3. \A v : v \in ToSet(<<w>>) <=> v = w
    BY DEF ToSet
  <2>. QED BY <1>3, <2>1, <2>2, <2>3
<1>. QED BY <1>5, <1>6

\* What the words of a sequence mean one after the other is a sequence of words, and one
\* that is left of it without variables is left with them.
LEMMA FlatLeft ==
    ASSUME NEW cmd \in Seq(Word), NEW F, NEW B, F = [i \in DOMAIN cmd |-> F[i]], B = [i \in DOMAIN cmd |-> B[i]],
           NEW P, \A i \in DOMAIN cmd : /\ F[i] \in Seq(Word) /\ B[i] \in Seq(Word)
                                        /\ \A v \in ToSet(B[i]) : v \in P => v \in ToSet(F[i])
    PROVE  /\ FlattenSeq(F) \in Seq(Word) /\ FlattenSeq(B) \in Seq(Word)
           /\ \A v \in ToSet(FlattenSeq(B)) : v \in P => v \in ToSet(FlattenSeq(F))
<1>1. F \in Seq(Seq(Word)) /\ B \in Seq(Seq(Word)) /\ DOMAIN F = DOMAIN cmd /\ DOMAIN B = DOMAIN cmd
  BY SeqOver
<1>2. /\ FlattenSeq(F) \in Seq(Word) /\ ToSet(FlattenSeq(F)) = UNION {ToSet(F[i]) : i \in DOMAIN F}
      /\ FlattenSeq(B) \in Seq(Word) /\ ToSet(FlattenSeq(B)) = UNION {ToSet(B[i]) : i \in DOMAIN B}
  BY <1>1, FlattenFacts
<1>3. ASSUME NEW v \in ToSet(FlattenSeq(B)), v \in P PROVE v \in ToSet(FlattenSeq(F))
  <2>1. PICK i \in DOMAIN cmd : v \in ToSet(B[i])
    BY <1>1, <1>2
  <2>2. v \in ToSet(F[i]) /\ i \in DOMAIN F
    BY <1>1, <1>3, <2>1
  <2>3. v \in UNION {ToSet(F[j]) : j \in DOMAIN F}
    BY <2>2, Zenon
  <2>. QED BY <1>2, <2>3, Zenon
<1>. QED BY <1>2, <1>3

\* The parameters a command is left with when the simulator lists no variables.
LEMMA MeansLeft ==
    ASSUME NEW cmd \in Seq(Word), NEW entry, NEW enables, NEW user,
           entry.opts \in Dict, ~Refers(entry.opts, entry.opts), Plainly(user),
           NEW bare, bare.env_var = <<>>, bare.opts = entry.opts
    PROVE  \A v \in ToSet(Meant(cmd, bare, enables, user)) :
               v.is = "param" /\ v.of \notin ToSet(entry.env_var) =>
                   v \in ToSet(Meant(cmd, entry, enables, user))
<1>. DEFINE opts == cmd_opts_dict(entry.opts, enables)
            P == {v \in Word : v.is = "param" /\ v.of \notin ToSet(entry.env_var)}
<1>1. Plainly(opts) /\ \A n : Given(opts, n) <=> Given(entry.opts, n)
  BY OptsFacts
<1>2. \A w \in Word : /\ MeansOutside(w, entry, user) \in Seq(Word)
                      /\ MeansOutside(w, bare, user) \in Seq(Word)
                      /\ \A v \in ToSet(MeansOutside(w, bare, user)) :
                             v \in P => v \in ToSet(MeansOutside(w, entry, user))
  BY OutsideLeft
<1>3. ASSUME NEW w \in Word
      PROVE  /\ Means(w, entry, enables, user) \in Seq(Word) /\ Means(w, bare, enables, user) \in Seq(Word)
             /\ \A v \in ToSet(Means(w, bare, enables, user)) :
                    v \in P => v \in ToSet(Means(w, entry, enables, user))
  <2>. HIDE DEF opts, P
  <2>1. CASE w.is = "param" /\ Given(entry.opts, w.of)
    <3>1. PICK s \in Seq(Word) : s = Value(opts, w.of)
      BY <1>1, <2>1, ValueOf
    <3>. DEFINE F == [i \in DOMAIN s |-> MeansOutside(s[i], entry, user)]
                B == [i \in DOMAIN s |-> MeansOutside(s[i], bare, user)]
    <3>2. \A i \in DOMAIN s : s[i] \in Word
      BY ElementOfSeq, LenProperties
    <3>3. \A i \in DOMAIN s : /\ F[i] \in Seq(Word) /\ B[i] \in Seq(Word)
                              /\ \A v \in ToSet(B[i]) : v \in P => v \in ToSet(F[i])
      BY <1>2, <3>2
    <3>4. F = [i \in DOMAIN s |-> F[i]] /\ B = [i \in DOMAIN s |-> B[i]]
      OBVIOUS
    <3>5. Means(w, entry, enables, user) = FlattenSeq(F) /\ Means(w, bare, enables, user) = FlattenSeq(B)
      BY <2>1, <3>1 DEF Means, opts
    <3>. HIDE DEF F, B
    <3>. QED BY <3>3, <3>4, <3>5, FlatLeft
  <2>2. CASE ~(w.is = "param" /\ Given(entry.opts, w.of))
    BY <1>2, <2>2 DEF Means
  <2>. QED BY <2>1, <2>2
<1>. DEFINE F == [i \in DOMAIN cmd |-> Means(cmd[i], entry, enables, user)]
            B == [i \in DOMAIN cmd |-> Means(cmd[i], bare, enables, user)]
<1>4. F = [i \in DOMAIN cmd |-> F[i]] /\ B = [i \in DOMAIN cmd |-> B[i]]
  OBVIOUS
<1>5. \A i \in DOMAIN cmd : cmd[i] \in Word
  BY ElementOfSeq, LenProperties
<1>. HIDE DEF P
<1>6. \A i \in DOMAIN cmd : /\ F[i] \in Seq(Word) /\ B[i] \in Seq(Word)
                            /\ \A v \in ToSet(B[i]) : v \in P => v \in ToSet(F[i])
  BY <1>3, <1>5
<1>7. Meant(cmd, entry, enables, user) = FlattenSeq(F) /\ Meant(cmd, bare, enables, user) = FlattenSeq(B)
  BY DEF Meant
<1>. HIDE DEF F, B
<1>8. /\ FlattenSeq(B) \in Seq(Word)
      /\ \A v \in ToSet(FlattenSeq(B)) : v \in P => v \in ToSet(FlattenSeq(F))
  BY <1>4, <1>6, FlatLeft
<1>9. \A v \in ToSet(FlattenSeq(B)) : v \in Word
  <2>1. PICK s \in Seq(Word) : s = FlattenSeq(B)
    BY <1>8
  <2>2. \A i \in DOMAIN s : s[i] \in Word
    BY ElementOfSeq, LenProperties
  <2>. QED BY <2>1, <2>2 DEF ToSet
<1>. QED BY <1>7, <1>8, <1>9 DEF P

\* For every command, dictionary of options and user: a command that is run says what
\* its parameters mean, and it is not run when one of them means nothing or is a variable
\* that is not set.  That it is refused for nothing else is not so.
THEOREM CommandsSayWhatIsMeant == Spec => []MeansWhatItSays
<1>1. Computed => MeansWhatItSays
  <2>. SUFFICES ASSUME Computed, Done("get_tool_cmds")
                PROVE  MeansWhatItSays
    BY DEF MeansWhatItSays
  <2>. DEFINE words == Formatted(in.cmd, in.entry, in.enables, in.user)
              bare == [opts |-> in.entry.opts, env_var |-> <<>>]
              left == Meant(in.cmd, bare, in.enables, in.user)
  <2>1. out = get_tool_cmd(in.cmd, in.entry, in.enables, in.user, in.env) /\ in \in CmdInputs
    BY DEF Computed, Done, Inputs_of
  <2>2. /\ in.cmd \in Seq(Word) /\ in.entry.env_var \in Seq(STRING)
        /\ in.entry.opts \in Dict /\ ~Refers(in.entry.opts, in.entry.opts)
        /\ in.user \in Dict /\ ~Refers(in.user, in.user) /\ ~Refers(in.user, env_dict(in.entry.env_var))
    BY <2>1, CmdAssumption
  <2>3. words = Meant(in.cmd, in.entry, in.enables, in.user)
    BY <2>2, FormattedMeans DEF Meant
  <2>4. /\ out.raised <=> \/ Unset(in.entry.env_var, in.env)
                          \/ \E i \in DOMAIN words : words[i].is = "param"
        /\ out.words = words
    <3>. HIDE DEF words
    <3>. QED BY <2>1 DEF get_tool_cmd, words
  <2>. HIDE DEF words
  <2>5. \A v \in ToSet(left) : v.is = "param" /\ v.of \notin ToSet(in.entry.env_var) => v \in ToSet(words)
    <3>1. Plainly(in.user)
      BY <2>2, PlainDict
    <3>2. bare.env_var = <<>> /\ bare.opts = in.entry.opts
      OBVIOUS
    <3>. HIDE DEF bare
    <3>. QED BY <2>2, <2>3, <3>1, <3>2, MeansLeft
  <2>6. ASSUME Unmeant(in.cmd, in.entry, in.enables, in.user, in.env) PROVE out.raised
    <3>1. PICK i \in DOMAIN left :
              left[i].is = "param" /\ left[i].of \notin ToSet(in.entry.env_var) \cap in.env
      BY <2>6 DEF Unmeant
    <3>2. CASE left[i].of \in ToSet(in.entry.env_var)
      BY <2>4, <3>1, <3>2 DEF Unset
    <3>3. CASE left[i].of \notin ToSet(in.entry.env_var)
      <4>. HIDE DEF left
      <4>1. left[i] \in ToSet(words)
        <5>1. left[i] \in ToSet(left)
          BY DEF ToSet
        <5>. QED BY <2>5, <3>1, <3>3, <5>1
      <4>2. PICK j \in DOMAIN words : words[j] = left[i]
        BY <4>1 DEF ToSet
      <4>. QED BY <2>4, <3>1, <4>2
    <3>. QED BY <3>2, <3>3
  <2>. QED BY <2>3, <2>4, <2>6 DEF MeansWhatItSays
<1>. QED BY <1>1, AlwaysComputed, PTL

-----------------------------------------------------------------------------
(* The conversion of sources in place *)

\* What a file may hold.
Texts == {"source", "converted", "part", "empty"}

\* Sequences of one element.
LEMMA AppendSame ==
    ASSUME NEW S, NEW s \in Seq(S), NEW e \in S, \A i \in DOMAIN s : s[i] = e
    PROVE  /\ Append(s, e) \in Seq(S)
           /\ \A i \in DOMAIN Append(s, e) : Append(s, e)[i] = e
  OBVIOUS

LEMMA NoFiles ==
    ASSUME NEW S, NEW e
    PROVE  <<>> \in Seq(S) /\ \A i \in DOMAIN <<>> : <<>>[i] = e
  OBVIOUS

\* The files in front of the next one.
LEMMA Below == \A n \in Nat \ {0} : \A i \in 1..n : i # n => i \in 1..(n - 1)
  OBVIOUS

LEMMA Through ==
    ASSUME NEW S, NEW s \in Seq(S), NEW n \in Nat, n > Len(s)
    PROVE  \A i \in DOMAIN s : i \in 1..(n - 1)
  OBVIOUS

\* The packages are among the files, which keep their text while they are
\* converted.  The files in front of idx are done, and no header is touched before
\* all files are.
Progress ==
    /\ phase \in {"convert", "copy", "splat", "returned 0", "returned 1", "raised"}
    /\ idx \in Nat \ {0}
    /\ text \in [All -> Texts]
    /\ tmp \in Seq(SUBSET Texts)
    /\ \A i \in DOMAIN tmp : tmp[i] = {"source"}
    /\ phase \in {"convert", "returned 1"} => \A f \in All : text[f] = "source"
    /\ phase = "copy" =>
           /\ \A i \in 1..(idx - 1) : i \in DOMAIN sv_paths => text[sv_paths[i]] = "converted"
           /\ \A h \in Files(svh_paths) : text[h] = "source"
    /\ phase \in {"splat", "returned 0"} => \A f \in Files(sv_paths) : text[f] = "converted"
    /\ phase = "splat" =>
           \A i \in 1..(idx - 1) : i \in DOMAIN svh_paths => text[svh_paths[i]] = "empty"
    /\ phase = "returned 0" => \A h \in Files(svh_paths) : text[h] = "empty"
    /\ \A h \in Files(svh_paths) : text[h] # "source" =>
           \A f \in Files(sv_paths) : text[f] = "converted"

\* What is promised follows.
LEMMA ProgressImplies == Progress => FromSources
  BY DEF Progress, FromSources

LEMMA InitProgress == Sv2vInit => Progress
<1>. SUFFICES ASSUME Sv2vInit PROVE Progress
  OBVIOUS
<1>1. tmp \in Seq(SUBSET Texts) /\ \A i \in DOMAIN tmp : tmp[i] = {"source"}
  BY NoFiles DEF Sv2vInit
<1>2. text \in [All -> Texts] /\ \A f \in All : text[f] = "source"
  BY DEF Sv2vInit, Texts
<1>3. phase = "convert" /\ idx = 1
  BY DEF Sv2vInit
<1>. QED BY <1>1, <1>2, <1>3 DEF Progress, All

\* What a conversion reads are the texts of sources.
LEMMA ReadsSource ==
    ASSUME \A f \in All : text[f] = "source", NEW i \in DOMAIN sv_paths
    PROVE  {text[f] : f \in Inputs(sv_paths[i])} = {"source"}
<1>1. sv_paths[i] \in Inputs(sv_paths[i])
  BY DEF Inputs
<1>2. Inputs(sv_paths[i]) \subseteq All
  <2>1. sv_paths[i] \in Files(sv_paths)
    BY DEF Files
  <2>. QED BY <2>1, PathsAssumption DEF Inputs, All
<1>. QED BY <1>1, <1>2

LEMMA NextProgress == Progress /\ [Sv2vNext]_sv2v_vars => Progress'
<1>. SUFFICES ASSUME Progress, [Sv2vNext]_sv2v_vars PROVE Progress'
  OBVIOUS
<1>. USE DEF Progress
<1>0. CASE UNCHANGED sv2v_vars
  BY <1>0 DEF sv2v_vars
<1>1. CASE transform_one
  <2>1. idx \in DOMAIN sv_paths
    BY <1>1, PathsAssumption DEF transform_one
  <2>2. {text[f] : f \in Inputs(sv_paths[idx])} = {"source"}
    BY <1>1, <2>1, ReadsSource DEF transform_one
  <2>3. tmp' = Append(tmp, {"source"}) /\ {"source"} \in SUBSET Texts
    BY <1>1, <2>2 DEF transform_one, Texts
  <2>4. tmp' \in Seq(SUBSET Texts) /\ \A i \in DOMAIN tmp' : tmp'[i] = {"source"}
    <3>1. tmp \in Seq(SUBSET Texts) /\ \A i \in DOMAIN tmp : tmp[i] = {"source"}
      OBVIOUS
    <3>. HIDE DEF Progress
    <3>. QED BY <2>3, <3>1, AppendSame
  <2>5. phase' = "convert" /\ idx' \in Nat \ {0} /\ text' = text /\ phase = "convert"
    BY <1>1 DEF transform_one
  <2>. QED BY <2>4, <2>5
<1>2. CASE transform_fails
  <2>1. tmp' \in Seq(SUBSET Texts) /\ \A i \in DOMAIN tmp' : tmp'[i] = {"source"}
    BY <1>2, NoFiles DEF transform_fails
  <2>2. phase' = "returned 1" /\ phase = "convert" /\ UNCHANGED <<idx, text>>
    BY <1>2 DEF transform_fails
  <2>. QED BY <2>1, <2>2
<1>3. CASE transformed
  BY <1>3 DEF transformed, All
<1>4. CASE copy_back
  <2>1. idx \in DOMAIN sv_paths /\ sv_paths[idx] \in All
    BY <1>4, PathsAssumption DEF copy_back, All, Files
  <2>2. text' = [text EXCEPT ![sv_paths[idx]] = "converted"]
    BY <1>4 DEF copy_back
  <2>3. \A h \in Files(svh_paths) : h \in All /\ h # sv_paths[idx]
    <3>1. sv_paths[idx] \in Files(sv_paths)
      BY <2>1 DEF Files
    <3>. QED BY <3>1, PathsAssumption DEF All
  <2>4. \A h \in Files(svh_paths) : text'[h] = "source"
    BY <1>4, <2>2, <2>3 DEF copy_back
  <2>5. ASSUME NEW i \in 1..idx, i \in DOMAIN sv_paths
        PROVE  text'[sv_paths[i]] = "converted"
    <3>1. sv_paths[i] \in All
      BY <2>5 DEF All, Files
    <3>2. CASE i = idx
      BY <3>2, <2>1, <2>2
    <3>3. CASE i # idx
      <4>1. i \in 1..(idx - 1)
        BY <2>5, <3>3, Below
      <4>. QED BY <1>4, <4>1, <2>5, <2>2, <3>1 DEF copy_back
    <3>. QED BY <3>2, <3>3
  <2>6. text' \in [All -> Texts]
    BY <2>2 DEF Texts
  <2>. QED BY <1>4, <2>4, <2>5, <2>6 DEF copy_back
<1>5. CASE copied
  <2>1. \A i \in DOMAIN sv_paths : i \in 1..(idx - 1)
    BY <1>5, PathsAssumption, Through DEF copied
  <2>2. \A f \in Files(sv_paths) : text[f] = "converted"
    <3>1. \A i \in DOMAIN sv_paths : text[sv_paths[i]] = "converted"
      BY <1>5, <2>1 DEF copied
    <3>. HIDE DEF Progress
    <3>. QED BY <3>1 DEF Files
  <2>. QED BY <1>5, <2>2 DEF copied
<1>6. CASE splat
  <2>1. idx \in DOMAIN svh_paths /\ svh_paths[idx] \in All
    BY <1>6, PathsAssumption DEF splat, All, Files
  <2>2. text' = [text EXCEPT ![svh_paths[idx]] = "empty"]
    BY <1>6 DEF splat
  <2>3. \A f \in Files(sv_paths) : f \in All /\ f # svh_paths[idx]
    <3>1. svh_paths[idx] \in Files(svh_paths)
      BY <2>1 DEF Files
    <3>. QED BY <3>1, PathsAssumption DEF All
  <2>4. \A f \in Files(sv_paths) : text'[f] = "converted"
    BY <1>6, <2>2, <2>3 DEF splat
  <2>5. ASSUME NEW i \in 1..idx, i \in DOMAIN svh_paths
        PROVE  text'[svh_paths[i]] = "empty"
    <3>1. svh_paths[i] \in All
      BY <2>5 DEF All, Files
    <3>2. CASE i = idx
      BY <3>2, <2>1, <2>2
    <3>3. CASE i # idx
      <4>1. i \in 1..(idx - 1)
        BY <2>5, <3>3, Below
      <4>. QED BY <1>6, <4>1, <2>5, <2>2, <3>1 DEF splat
    <3>. QED BY <3>2, <3>3
  <2>6. text' \in [All -> Texts]
    BY <2>2 DEF Texts
  <2>. QED BY <1>6, <2>4, <2>5, <2>6 DEF splat
<1>7. CASE splatted
  <2>1. \A i \in DOMAIN svh_paths : i \in 1..(idx - 1)
    BY <1>7, PathsAssumption, Through DEF splatted
  <2>2. \A h \in Files(svh_paths) : text[h] = "empty"
    <3>1. \A i \in DOMAIN svh_paths : text[svh_paths[i]] = "empty"
      BY <1>7, <2>1 DEF splatted
    <3>. HIDE DEF Progress
    <3>. QED BY <3>1 DEF Files
  <2>. QED BY <1>7, <2>2 DEF splatted
<1>8. CASE raises
  <2>1. /\ phase' = "raised" /\ idx' = idx
        /\ tmp' \in Seq(SUBSET Texts) /\ \A i \in DOMAIN tmp' : tmp'[i] = {"source"}
    BY <1>8, NoFiles DEF raises
  <2>2. CASE UNCHANGED text
    BY <2>1, <2>2
  <2>3. CASE /\ phase = "copy" /\ idx <= Len(sv_paths)
             /\ text' = [text EXCEPT ![sv_paths[idx]] = "part"]
    <3>1. sv_paths[idx] \in Files(sv_paths)
      BY <2>3, PathsAssumption DEF Files
    <3>2. \A h \in Files(svh_paths) : h \in All /\ h # sv_paths[idx]
      BY <3>1, PathsAssumption DEF All
    <3>3. \A h \in Files(svh_paths) : text'[h] = "source"
      BY <2>3, <3>2
    <3>4. text' \in [All -> Texts]
      BY <2>3 DEF Texts
    <3>. QED BY <2>1, <3>3, <3>4
  <2>. QED BY <1>8, <2>2, <2>3 DEF raises
<1>. QED BY <1>0, <1>1, <1>2, <1>3, <1>4, <1>5, <1>6, <1>7, <1>8 DEF Sv2vNext

\* The steps of the script are the only ones that change its files.
LEMMA OnlySv2v == Spec => Sv2vSpec
<1>1. Init => Sv2vInit
  BY DEF Init
<1>2. [Next]_vars => [Sv2vNext]_sv2v_vars
  BY DEF Next, Runs, vars, sv2v_vars
<1>. QED BY <1>1, <1>2, PTL DEF Spec, Sv2vSpec

\* However sv2v_in_place ends, what it wrote was made from sources, an error of
\* sv2v has changed nothing and success has converted all files.
THEOREM ConvertsSources == Spec => []FromSources
  BY ProgressImplies, InitProgress, NextProgress, OnlySv2v, PTL DEF Sv2vSpec
=============================================================================
