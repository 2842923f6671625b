-------------------------- MODULE RegressionProofs --------------------------
(***************************************************************************)
(* Proofs about the tests of a regression, for any number of tests and any *)
(* logs a simulation may leave behind: type correctness, that a script     *)
(* records the path of its file before it makes the file, except for       *)
(* test.S, and that the first verdict on a test can be relied on.          *)
(***************************************************************************)
EXTENDS Regression, TLAPS

LEMMA AfterType == \A s \in Stage : After[s] \in Stage \cup {"end"}
  BY DEF Stage, After

\* Stages can be made stale for some of the tests, and logs can be deleted.
LEMMA StaleGrows ==
    ASSUME NEW f \in [Tests -> SUBSET Stage], NEW S \in SUBSET Tests, NEW s \in Stage
    PROVE  [t \in Tests |-> IF t \in S THEN f[t] \cup {s} ELSE f[t]]
               \in [Tests -> SUBSET Stage]
  OBVIOUS

LEMMA AllStale ==
    ASSUME NEW f \in [Tests -> SUBSET Stage], NEW s \in Stage
    PROVE  [t \in Tests |-> f[t] \cup {s}] \in [Tests -> SUBSET Stage]
  OBVIOUS

LEMMA LogsGone ==
    ASSUME NEW f \in [Tests -> Logs \cup {NoLog}], NEW S \in SUBSET Tests
    PROVE  [t \in Tests |-> IF t \in S THEN NoLog ELSE f[t]]
               \in [Tests -> Logs \cup {NoLog}]
<1>1. \A t \in Tests : (IF t \in S THEN NoLog ELSE f[t]) \in Logs \cup {NoLog}
  OBVIOUS
<1>. QED BY <1>1, Zenon

LEMMA InitType == Init => TypeOK
<1>. SUFFICES ASSUME Init PROVE TypeOK
  OBVIOUS
<1>1. stale \in [Tests -> SUBSET Stage] /\ fields \in [Tests -> SUBSET {"assembly", "binary", "rtl_log"}]
  BY DEF Init, Stage
<1>2. built \in SUBSET {"instr_gen", "tb"} /\ disturbed \in BOOLEAN
  BY DEF Init
<1>3. log \in [Tests -> Logs \cup {NoLog}]
  BY DEF Init
<1>. QED BY <1>1, <1>2, <1>3 DEF Init, TypeOK, At, Stage

LEMMA NextType == TypeOK /\ [Next]_vars => TypeOK'
<1>. SUFFICES ASSUME TypeOK, [Next]_vars PROVE TypeOK'
  OBVIOUS
<1>. USE LogsAssumption DEF TypeOK, At, Stage, After, files, trr, hist
<1>1. CASE UNCHANGED vars
  BY <1>1 DEF vars
<1>2. CASE StartMake
  BY <1>2 DEF StartMake
<1>3. CASE Collect
  BY <1>3 DEF Collect, MakeEnds
<1>4. CASE Stop
  BY <1>4 DEF Stop, MakeEnds
<1>5. CASE Interrupt
  <2>1. torn' \in SUBSET Tests
    BY <1>5 DEF Interrupt, Running
  <2>2. PICK gone \in SUBSET Running :
           /\ log' = [t \in Tests |-> IF t \in gone THEN NoLog ELSE log[t]]
           /\ stale' = [t \in Tests |-> IF t \in gone THEN stale[t] \cup {"sim"}
                                                     ELSE stale[t]]
    BY <1>5, ZenonT(40) DEF Interrupt
  <2>3. gone \in SUBSET Tests /\ "sim" \in Stage
    BY DEF Running
  <2>4. /\ log' \in [Tests -> Logs \cup {NoLog}]
        /\ stale' \in [Tests -> SUBSET Stage]
    BY <2>2, <2>3, StaleGrows, LogsGone
  <2>. QED BY <1>5, <2>1, <2>4 DEF Interrupt, MakeEnds
<1>6. ASSUME NEW b \in {"instr_gen", "tb"}, Edit(b) PROVE TypeOK'
  BY <1>6 DEF Edit
<1>7. ASSUME NEW b \in {"instr_gen", "tb"}, Build(b) PROVE TypeOK'
  <2>1. StageOf(b) \in Stage
    BY DEF StageOf
  <2>2. stale' \in [Tests -> SUBSET Stage]
    <3>1. [t \in Tests |-> stale[t] \cup {StageOf(b)}] \in [Tests -> SUBSET Stage]
      BY <2>1, AllStale
    <3>2. stale' = [t \in Tests |-> stale[t] \cup {StageOf(b)}] \/ stale' = stale
      BY <1>7 DEF Build
    <3>. QED BY <3>1, <3>2
  <2>3. built' \in SUBSET {"instr_gen", "tb"}
    BY <1>7, ZenonT(40) DEF Build
  <2>. QED BY <1>7, <2>2, <2>3 DEF Build
<1>9. ASSUME NEW t \in Tests, TestStep(t) PROVE TypeOK'
  <2>. USE DEF Starts, Reached, Ends, Goes, Fails, Wrote, Export, SimWrites
  <2>1. CASE GenFails(t)
    BY <2>1 DEF GenFails
  <2>2. CASE GenCopies(t)
    BY <2>2 DEF GenCopies
  <2>3. CASE GenExports(t)
    BY <2>3 DEF GenExports
  <2>4. CASE GenCommandFails(t)
    BY <2>4 DEF GenCommandFails
  <2>5. CASE CompileFails(t)
    BY <2>5 DEF CompileFails
  <2>6. CASE CompileExports(t)
    BY <2>6 DEF CompileExports
  <2>7. CASE CompileRuns(t)
    BY <2>7 DEF CompileRuns
  <2>8. CASE SimFails(t)
    BY <2>8 DEF SimFails
  <2>9. CASE SimExports(t)
    BY <2>9 DEF SimExports
  <2>10. CASE Simulates(t)
    <3>1. PICK l \in Logs : SimWrites(t, l, "ended")
      BY <2>10 DEF Simulates
    <3>2. log' \in [Tests -> Logs \cup {NoLog}]
      BY <3>1
    <3>3. stale' \in [Tests -> SUBSET Stage]
      BY <3>1
    <3>. QED BY <3>1, <3>2, <3>3
  <2>11. CASE SimDoesNotStart(t)
    BY <2>11 DEF SimDoesNotStart
  <2>12. CASE SimTimesOut(t)
    <3>1. PICK l \in Logs : SimWrites(t, l, "timedout")
      BY <2>12 DEF SimTimesOut
    <3>2. log' \in [Tests -> Logs \cup {NoLog}]
      BY <3>1
    <3>3. stale' \in [Tests -> SUBSET Stage]
      BY <3>1
    <3>. QED BY <3>1, <3>2, <3>3
  <2>13. CASE SimEnds(t)
    BY <2>13 DEF SimEnds
  <2>14. CASE CheckFails(t)
    BY <2>14 DEF CheckFails
  <2>15. CASE Check(t)
    <3>1. compare_passed(t) \in {"unset", "yes", "no"}
      BY DEF compare_passed
    <3>2. log[t] \in Logs => Verdict[log[t]] \in Verdicts
      OBVIOUS
    <3>3. ~FileError(t) => log[t] \in Logs /\ Verdict[log[t]] # "FILE_ERROR"
      BY DEF FileError
    <3>4. compare_mode(t) \in {"unset", "NONE", "TIMEOUT", "FILE_ERROR", "LOG_ERROR"}
      BY <2>15, <3>2, <3>3 DEF Check, Crashes, compare_mode, Verdicts
    <3>. QED BY <2>15, <3>1, <3>4 DEF Check
  <2>16. ASSUME NEW s \in Stage, Skip(t, s) PROVE TypeOK'
    BY <2>16, AfterType DEF Skip
  <2>17. ASSUME NEW s \in Stage, Unreadable(t, s) PROVE TypeOK'
    BY <2>17 DEF Unreadable
  <2>. QED BY <1>9, <2>1, <2>2, <2>3, <2>4, <2>5, <2>6, <2>7, <2>8, <2>9, <2>10, <2>11, <2>12, <2>13, <2>14, <2>15, <2>16, <2>17
           DEF TestStep, GenStep, CompileStep, SimStep, CheckStep, Pass
<1>. QED BY <1>1, <1>2, <1>3, <1>4, <1>5, <1>6, <1>7, <1>9 DEF Next

\* Type correctness of Make, the files and the results of the tests.
THEOREM TypeCorrect == Spec => []TypeOK
  BY InitType, NextType, PTL DEF Spec

(* What is recorded, and when *)

\* A script has recorded its paths while it makes its file.
Recording ==
    \A t \in Tests :
        /\ t \in bin => "binary" \in fields[t]
        /\ log[t] # NoLog => {"binary", "rtl_log"} \subseteq fields[t]
        /\ t \in asm => "assembly" \in fields[t] \/ at[t] = "copied" \/ t \in halfway
        /\ at[t] = "compiling" => "binary" \in fields[t]
        /\ at[t] = "simulating" => {"binary", "rtl_log"} \subseteq fields[t]

LEMMA NextRecording == TypeOK /\ Recording /\ [Next]_vars => Recording'
<1>. SUFFICES ASSUME TypeOK, Recording, [Next]_vars PROVE Recording'
  OBVIOUS
<1>. USE DEF TypeOK, Recording, files, trr, hist
<1>1. CASE UNCHANGED vars
  BY <1>1 DEF vars
<1>2. CASE StartMake \/ Stop
  <2>1. UNCHANGED <<asm, bin, log, fields, at, halfway>>
    BY <1>2 DEF StartMake, Stop
  <2>. QED BY <2>1
<1>3. CASE Collect
  <2>1. UNCHANGED <<asm, bin, log, fields, at, halfway>>
    BY <1>3 DEF Collect
  <2>. QED BY <2>1
<1>4. CASE Interrupt
  <2>1. PICK gone \in SUBSET {u \in Running : at[u] \in {"simulating", "ended", "timedout"}} :
           log' = [u \in Tests |-> IF u \in gone THEN NoLog ELSE log[u]]
    BY <1>4 DEF Interrupt
  <2>2. \A u \in Tests : log'[u] = NoLog \/ log'[u] = log[u]
    BY <2>1
  <2>3. /\ at' = [u \in Tests |-> "rest"] /\ UNCHANGED <<asm, bin, fields>>
        /\ halfway' = halfway \cup {u \in Tests : at[u] = "copied"}
    BY <1>4 DEF Interrupt
  <2>. QED BY <2>2, <2>3
<1>5. ASSUME NEW b \in {"instr_gen", "tb"}, Edit(b) PROVE Recording'
  BY <1>5 DEF Edit
<1>6. ASSUME NEW b \in {"instr_gen", "tb"}, Build(b) PROVE Recording'
  BY <1>6 DEF Build
<1>7. ASSUME NEW t \in Tests, TestStep(t) PROVE Recording'
  <2>. USE DEF Starts, Reached, Ends, Goes, Fails, Wrote, Export, SimWrites
  <2>1. CASE GenFails(t)
    BY <2>1 DEF GenFails
  <2>2. CASE GenCopies(t)
    BY <2>2 DEF GenCopies
  <2>3. CASE GenExports(t)
    BY <2>3 DEF GenExports
  <2>4. CASE GenCommandFails(t)
    BY <2>4 DEF GenCommandFails
  <2>5. CASE CompileFails(t)
    BY <2>5 DEF CompileFails
  <2>6. CASE CompileExports(t)
    BY <2>6 DEF CompileExports
  <2>7. CASE CompileRuns(t)
    BY <2>7 DEF CompileRuns
  <2>8. CASE SimFails(t)
    BY <2>8 DEF SimFails
  <2>9. CASE SimExports(t)
    BY <2>9 DEF SimExports
  <2>10. CASE Simulates(t)
    <3>1. PICK l \in Logs : SimWrites(t, l, "ended")
      BY <2>10 DEF Simulates
    <3>. QED BY <3>1
  <2>11. CASE SimDoesNotStart(t)
    BY <2>11 DEF SimDoesNotStart
  <2>12. CASE SimTimesOut(t)
    <3>1. PICK l \in Logs : SimWrites(t, l, "timedout")
      BY <2>12 DEF SimTimesOut
    <3>. QED BY <3>1
  <2>13. CASE SimEnds(t)
    BY <2>13 DEF SimEnds
  <2>14. CASE CheckFails(t)
    BY <2>14 DEF CheckFails
  <2>15. CASE Check(t)
    BY <2>15 DEF Check
  <2>16. ASSUME NEW s \in Stage, Skip(t, s) PROVE Recording'
    BY <2>16 DEF Skip
  <2>17. ASSUME NEW s \in Stage, Unreadable(t, s) PROVE Recording'
    BY <2>17 DEF Unreadable
  <2>. QED BY <1>7, <2>1, <2>2, <2>3, <2>4, <2>5, <2>6, <2>7, <2>8, <2>9, <2>10, <2>11, <2>12, <2>13, <2>14, <2>15, <2>16, <2>17
           DEF TestStep, GenStep, CompileStep, SimStep, CheckStep, Pass
<1>. QED BY <1>1, <1>2, <1>3, <1>4, <1>5, <1>6, <1>7 DEF Next

\* Whatever fails or is interrupted, the binary and the log of a test are only there
\* when their paths are in its pickle, and test.S is only there without its path when
\* run_instr_gen is, or was killed, between the copy and the export.
THEOREM RecordedBefore == Spec => []RecordedFirst
<1>1. Init => Recording
  <2>. SUFFICES ASSUME Init, NEW t \in Tests
       PROVE  t \notin asm /\ t \notin bin /\ log[t] = NoLog /\ at[t] = "rest"
    BY DEF Recording
  <2>. QED BY DEF Init
<1>2. Recording => RecordedFirst
  BY DEF Recording, RecordedFirst
<1>. QED BY <1>1, <1>2, NextRecording, TypeCorrect, PTL DEF Spec

(* The first verdict *)

Simulating == {"simulating", "ended", "timedout"}

\* Before its first simulation a test has not passed, during it nothing is
\* judged, and after it the log is the one that was judged.
First ==
    \A t \in Tests :
        /\ "rtl_log" \in fields[t] => sims[t] # "never"
        /\ sims[t] = "never" => passed[t] # "yes" /\ report[t] # "PASS"
        /\ sims[t] = "once" /\ at[t] \in Simulating =>
               passed[t] # "yes" /\ report[t] # "PASS"
        /\ sims[t] = "once" /\ (passed[t] = "yes" \/ report[t] = "PASS") =>
               LogPasses(t)

\* A step that judges nothing, simulates nothing and reports nothing.
LEMMA KeepsFirst ==
    ASSUME First, UNCHANGED <<log, passed, sims, report>>,
           \A t \in Tests : /\ "rtl_log" \in fields'[t] => "rtl_log" \in fields[t]
                            /\ at'[t] \in Simulating => at[t] \in Simulating
    PROVE  First'
  BY DEF First, LogPasses

LEMMA CollectFirst == First /\ Collect => First'
<1>. SUFFICES ASSUME First, Collect PROVE First'
  OBVIOUS
<1>1. ASSUME NEW u \in Tests, report'[u] = "PASS"
      PROVE  report[u] = "PASS" \/ passed[u] = "yes"
  <2>1. CASE report' = report
    BY <1>1, <2>1
  <2>2. CASE report' = [t \in Tests |->
                IF passed[t] = "yes" THEN "PASS"
                ELSE IF mode[t] = "TIMEOUT" THEN "FAILED_T" ELSE "FAILED"]
    <3>1. report'[u] = IF passed[u] = "yes" THEN "PASS"
                       ELSE IF mode[u] = "TIMEOUT" THEN "FAILED_T" ELSE "FAILED"
      BY <2>2
    <3>. QED BY <1>1, <3>1
  <2>. QED BY <2>1, <2>2 DEF Collect
<1>2. \A u \in Tests : at[u] = "rest"
  BY DEF Collect, AllThrough
<1>3. UNCHANGED <<at, log, passed, fields, sims>>
  BY DEF Collect, files, trr, hist
<1>. QED BY <1>1, <1>2, <1>3 DEF First, LogPasses, Simulating

\* Only the log of a test that is being simulated is deleted.
LEMMA InterruptFirst == First /\ Interrupt => First'
<1>. SUFFICES ASSUME First, Interrupt PROVE First'
  OBVIOUS
<1>1. PICK gone \in SUBSET {u \in Running : at[u] \in Simulating} :
         log' = [u \in Tests |-> IF u \in gone THEN NoLog ELSE log[u]]
  BY DEF Interrupt, Simulating
<1>2. \A u \in Tests : log'[u] = log[u] \/ at[u] \in Simulating
  BY <1>1
<1>3. \A u \in Tests : at'[u] \notin Simulating
  BY DEF Interrupt, Simulating
<1>4. UNCHANGED <<passed, fields, sims, report>>
  BY DEF Interrupt
<1>. QED BY <1>2, <1>3, <1>4 DEF First, LogPasses

LEMMA SimExportsFirst ==
    ASSUME TypeOK, First, NEW t \in Tests, SimExports(t) PROVE First'
<1>1. UNCHANGED <<log, passed, report>>
  BY DEF SimExports, Goes
<1>2. /\ sims'[t] = IF sims[t] = "never" THEN "once" ELSE "again"
      /\ \A u \in Tests \ {t} : sims'[u] = sims[u]
  BY DEF SimExports, TypeOK
<1>3. \A u \in Tests \ {t} : fields'[u] = fields[u] /\ at'[u] = at[u]
  BY DEF SimExports, Goes, TypeOK
<1>. QED BY <1>1, <1>2, <1>3 DEF First, LogPasses

LEMMA SimWritesFirst ==
    ASSUME TypeOK, First, NEW t \in Tests, NEW l \in Logs,
           NEW to \in {"ended", "timedout"}, SimWrites(t, l, to)
    PROVE  First'
<1>1. at[t] = "simulating" /\ UNCHANGED <<passed, fields, sims, report>>
  BY DEF SimWrites, trr
<1>2. \A u \in Tests \ {t} : log'[u] = log[u] /\ at'[u] = at[u]
  BY DEF SimWrites, TypeOK
<1>. QED BY <1>1, <1>2 DEF First, LogPasses, Simulating

LEMMA CheckFirst ==
    ASSUME TypeOK, First, NEW t \in Tests, Check(t) PROVE First'
<1>1. UNCHANGED <<log, fields, sims, report>>
  BY DEF Check, Ends
<1>2. \A u \in Tests \ {t} : passed'[u] = passed[u] /\ at'[u] = at[u]
  BY DEF Check, Ends, TypeOK
<1>3. at'[t] = "rest" /\ "rtl_log" \in fields[t]
  BY DEF Check, Ends, TypeOK
<1>4. passed'[t] = "yes" => passed[t] = "yes" \/ LogPasses(t)
  BY DEF Check, compare_passed, FileError, LogPasses, TypeOK
<1>. QED BY <1>1, <1>2, <1>3, <1>4 DEF First, LogPasses, Simulating

LEMMA NextFirst == TypeOK /\ First /\ [Next]_vars => First'
<1>. SUFFICES ASSUME TypeOK, First, [Next]_vars PROVE First'
  OBVIOUS
<1>. USE DEF files, trr, hist
<1>1. CASE UNCHANGED vars
  BY <1>1, KeepsFirst DEF vars
<1>2. CASE StartMake \/ Stop
  BY <1>2, KeepsFirst DEF StartMake, Stop
<1>3. CASE Collect \/ Interrupt
  BY <1>3, CollectFirst, InterruptFirst
<1>4. ASSUME NEW b \in {"instr_gen", "tb"}, Edit(b) \/ Build(b) PROVE First'
  BY <1>4, KeepsFirst DEF Edit, Build
<1>5. ASSUME NEW t \in Tests, TestStep(t) PROVE First'
  <2>1. ASSUME Fails(t) PROVE First'
    BY <2>1, KeepsFirst DEF Fails, TypeOK, Simulating
  <2>2. CASE GenFails(t) \/ CompileFails(t) \/ SimFails(t) \/ CheckFails(t)
    BY <2>1, <2>2 DEF GenFails, CompileFails, SimFails, CheckFails
  <2>3. CASE \E s \in Stage : Unreadable(t, s)
    BY <2>1, <2>3 DEF Unreadable
  <2>4. CASE \E s \in Stage : Skip(t, s)
    BY <2>4, KeepsFirst DEF Skip
  <2>5. ASSUME GenCopies(t) \/ GenExports(t) \/ GenCommandFails(t)
                  \/ CompileExports(t) \/ CompileRuns(t) \/ SimEnds(t)
        PROVE  First'
    <3>1. UNCHANGED <<log, passed, sims, report>>
      BY <2>5 DEF GenCopies, GenExports, GenCommandFails, CompileExports, CompileRuns,
                  SimEnds, Goes, Ends
    <3>2. at'[t] \in {"copied", "compiling", "rest"} /\ \A u \in Tests \ {t} : at'[u] = at[u]
      BY <2>5 DEF GenCopies, GenExports, GenCommandFails, CompileExports, CompileRuns,
                  SimEnds, Goes, Ends, TypeOK
    <3>3. \A u \in Tests : "rtl_log" \in fields'[u] => "rtl_log" \in fields[u]
      <4>1. CASE UNCHANGED fields
        BY <4>1
      <4>2. CASE \E f \in {"assembly", "binary"} : fields' = [fields EXCEPT ![t] = @ \cup {f}]
        <5>1. PICK f \in {"assembly", "binary"} : fields' = [fields EXCEPT ![t] = @ \cup {f}]
          BY <4>2
        <5>2. fields'[t] = fields[t] \cup {f}
              /\ \A u \in Tests \ {t} : fields'[u] = fields[u]
          BY <5>1 DEF TypeOK
        <5>. QED BY <5>2
      <4>. QED BY <2>5, <4>1, <4>2
               DEF GenCopies, GenExports, GenCommandFails, CompileExports, CompileRuns, SimEnds
    <3>. QED BY <3>1, <3>2, <3>3, KeepsFirst DEF Simulating
  <2>6. CASE SimExports(t)
    BY <2>6, SimExportsFirst
  <2>7. CASE Simulates(t)
    BY <2>7, SimWritesFirst DEF Simulates
  <2>8. CASE SimTimesOut(t)
    BY <2>8, SimWritesFirst DEF SimTimesOut
  <2>9. CASE SimDoesNotStart(t)
    BY <2>9, KeepsFirst DEF SimDoesNotStart, TypeOK, Simulating
  <2>10. CASE Check(t)
    BY <2>10, CheckFirst
  <2>. QED BY <1>5, <2>2, <2>3, <2>4, <2>5, <2>6, <2>7, <2>8, <2>9, <2>10
           DEF TestStep, GenStep, CompileStep, SimStep, CheckStep, Pass
<1>. QED BY <1>1, <1>2, <1>3, <1>4, <1>5 DEF Next

\* A test that was simulated once is reported as passed only if the log of that
\* simulation passes, for any interruptions, failures and repetitions of Make.
THEOREM FirstVerdictHolds == Spec => FirstVerdict
<1>1. Init => First
  BY DEF Init, First
<1>2. First /\ First' /\ [Next]_vars =>
          [Collect => \A t \in Tests :
              sims[t] = "once" /\ report'[t] = "PASS" => LogPasses(t)]_vars
  <2>. SUFFICES ASSUME First', Collect, NEW t \in Tests,
                       sims[t] = "once", report'[t] = "PASS"
       PROVE  LogPasses(t)
    OBVIOUS
  <2>1. UNCHANGED <<sims, log>>
    BY DEF Collect, files, hist
  <2>. QED BY <2>1 DEF First, LogPasses
<1>. QED BY <1>1, <1>2, NextFirst, TypeCorrect, PTL DEF Spec, FirstVerdict

(* No log goes unjudged *)

\* The stage a script belongs to is the one Make waits for.
InStage(t) ==
    /\ at[t] = "copied" => next[t] = "gen"
    /\ at[t] = "compiling" => next[t] = "compile"
    /\ at[t] \in Simulating => next[t] = "sim"

\* A test has been judged; or it has no log yet, and Make is going to have it
\* simulated; or its log is new, and Make knows that the file has changed.
Followed(t) ==
    \/ t \in judged
    \/ /\ log[t] = NoLog /\ "sim" \in stale[t]
       /\ next[t] \in {"gen", "compile", "sim"}
       /\ at[t] \notin {"ended", "timedout"}
    \/ t \in changed /\ at[t] \in {"ended", "timedout"}
    \/ t \in changed /\ at[t] = "rest" /\ next[t] = "check"

\* As long as nothing fails and nobody interrupts.
Following == disturbed \/ (mk # "stopping" /\ \A t \in Tests : InStage(t) /\ Followed(t))

\* A step of test t.
LEMMA OneTest ==
    ASSUME Following, ~disturbed, NEW t \in Tests, mk' = mk,
           changed' \ {t} = changed \ {t}, judged' \ {t} = judged \ {t},
           \A u \in Tests \ {t} : /\ at'[u] = at[u] /\ next'[u] = next[u]
                                  /\ log'[u] = log[u] /\ stale'[u] = stale[u],
           InStage(t)', Followed(t)'
    PROVE  Following'
<1>1. ASSUME NEW u \in Tests \ {t} PROVE InStage(u)' /\ Followed(u)'
  <2>1. u \in changed' <=> u \in changed
    OBVIOUS
  <2>2. u \in judged' <=> u \in judged
    OBVIOUS
  <2>. QED BY <1>1, <2>1, <2>2 DEF Following, InStage, Followed
<1>. QED BY <1>1 DEF Following

LEMMA SkipFollows ==
    ASSUME TypeOK, Following, ~disturbed, NEW t \in Tests, NEW s \in Stage, Skip(t, s)
    PROVE  Following'
<1>1. /\ at[t] = "rest" /\ next[t] = s /\ s \notin stale[t] /\ t \notin changed
      /\ next'[t] = After[s] /\ changed' = changed \ {t}
      /\ \A u \in Tests \ {t} : next'[u] = next[u]
      /\ UNCHANGED <<mk, at, stale, log, judged>>
  <2>1. /\ at[t] = "rest" /\ next[t] = s /\ s \notin stale[t] /\ t \notin changed
        /\ changed' = changed \ {t}
    BY Zenon DEF Skip, Reached, Outdated
  <2>2. UNCHANGED <<mk, at, stale, log, judged>>
    BY Zenon DEF Skip, files, hist
  <2>3. next \in [Tests -> Stage \cup {"end"}] /\ next' = [next EXCEPT ![t] = After[s]]
    BY DEF Skip, TypeOK
  <2>4. next'[t] = After[s] /\ \A u \in Tests \ {t} : next'[u] = next[u]
    BY <2>3, Zenon
  <2>. QED BY <2>1, <2>2, <2>4
<1>2. InStage(t)'
  BY <1>1 DEF InStage, Simulating
<1>3. Followed(t)'
  BY <1>1 DEF Following, InStage, Followed, Simulating, After, Stage
<1>. QED BY <1>1, <1>2, <1>3, OneTest

LEMMA GenCompileFollows ==
    ASSUME TypeOK, Following, ~disturbed, NEW t \in Tests,
           \/ GenCopies(t) \/ GenExports(t) \/ GenCommandFails(t)
           \/ CompileExports(t) \/ CompileRuns(t)
    PROVE  Following'
<1>1. /\ UNCHANGED <<mk, log, judged>>
      /\ at[t] \in {"rest", "copied", "compiling"} /\ next[t] \in {"gen", "compile"}
      /\ changed' \ {t} = changed \ {t}
  BY DEF GenCopies, GenExports, GenCommandFails, CompileExports, CompileRuns, Starts, Reached,
         Goes, Ends, hist, Following, InStage
<1>2. \A u \in Tests \ {t} : at'[u] = at[u] /\ next'[u] = next[u] /\ stale'[u] = stale[u]
  <2>1. \/ at' = [at EXCEPT ![t] = "rest"] \/ at' = [at EXCEPT ![t] = "copied"]
        \/ at' = [at EXCEPT ![t] = "compiling"]
    BY Zenon DEF GenCopies, GenExports, GenCommandFails, CompileExports, CompileRuns, Goes, Ends
  <2>2. \/ next' = next \/ next' = [next EXCEPT ![t] = After["gen"]]
        \/ next' = [next EXCEPT ![t] = After["compile"]]
    BY Zenon DEF GenCopies, GenExports, GenCommandFails, CompileExports, CompileRuns, Goes, Ends
  <2>3. Wrote(t, "gen", "compile") \/ Wrote(t, "compile", "sim") \/ Export(t)
    BY Zenon DEF GenCopies, GenExports, GenCommandFails, CompileExports, CompileRuns
  <2>4. DOMAIN at = Tests /\ DOMAIN next = Tests /\ DOMAIN stale = Tests
    BY DEF TypeOK
  <2>5. \A u \in Tests \ {t} : at'[u] = at[u]
    BY <2>1, <2>4
  <2>6. \A u \in Tests \ {t} : next'[u] = next[u]
    BY <2>2, <2>4
  <2>7. \A u \in Tests \ {t} : stale'[u] = stale[u]
    BY <2>3, <2>4 DEF Wrote, Export
  <2>. QED BY <2>5, <2>6, <2>7
<1>3. \/ at'[t] = "rest" /\ next'[t] \in {"compile", "sim"}
      \/ at'[t] = "copied" /\ next'[t] = "gen"
      \/ at'[t] = "compiling" /\ next'[t] = "compile"
  BY DEF GenCopies, GenExports, GenCommandFails, CompileExports, CompileRuns, Starts, Reached,
         Goes, Ends, After, TypeOK, Following, InStage
<1>4. "sim" \in stale[t] => "sim" \in stale'[t]
  <2>1. \/ stale'[t] = (stale[t] \ {"gen"}) \cup {"compile"}
        \/ stale'[t] = (stale[t] \ {"compile"}) \cup {"sim"}
        \/ stale'[t] = stale[t] \ {"check"}
    <3>1. t \in DOMAIN stale
      BY DEF TypeOK
    <3>2. Wrote(t, "gen", "compile") \/ Wrote(t, "compile", "sim") \/ Export(t)
      BY DEF GenCopies, GenExports, GenCommandFails, CompileExports, CompileRuns
    <3>. QED BY <3>1, <3>2 DEF Wrote, Export
  <2>. QED BY <2>1
<1>5. InStage(t)'
  BY <1>3 DEF InStage, Simulating
<1>6. Followed(t)'
  BY <1>1, <1>3, <1>4 DEF Following, Followed
<1>. QED BY <1>1, <1>2, <1>5, <1>6, OneTest

LEMMA SimFollows ==
    ASSUME TypeOK, Following, ~disturbed, NEW t \in Tests,
           SimExports(t) \/ Simulates(t) \/ SimTimesOut(t) \/ SimDoesNotStart(t) \/ SimEnds(t)
    PROVE  Following'
<1>1. CASE SimExports(t)
  <2>1. /\ at[t] = "rest" /\ next[t] = "sim" /\ at'[t] = "simulating"
        /\ UNCHANGED <<mk, next, changed, log, judged>>
        /\ "sim" \in stale[t] => "sim" \in stale'[t]
        /\ \A u \in Tests \ {t} : at'[u] = at[u] /\ stale'[u] = stale[u]
    BY <1>1 DEF SimExports, Starts, Reached, Goes, Export, TypeOK
  <2>2. InStage(t)' /\ Followed(t)'
    BY <2>1 DEF Following, InStage, Followed
  <2>. QED BY <2>1, <2>2, OneTest
<1>2. CASE \E l \in Logs, to \in {"ended", "timedout"} : SimWrites(t, l, to)
  <2>1. PICK l \in Logs, to \in {"ended", "timedout"} : SimWrites(t, l, to)
    BY <1>2
  <2>2. /\ at[t] = "simulating" /\ at'[t] = to /\ changed' = changed \cup {t}
        /\ judged' = judged \ {t} /\ UNCHANGED <<mk, next>>
        /\ \A u \in Tests \ {t} : /\ at'[u] = at[u] /\ log'[u] = log[u]
                                  /\ stale'[u] = stale[u]
    BY <2>1 DEF SimWrites, TypeOK
  <2>3. InStage(t)' /\ Followed(t)'
    BY <2>2 DEF Following, InStage, Followed, Simulating
  <2>4. changed' \ {t} = changed \ {t} /\ judged' \ {t} = judged \ {t}
    BY <2>2
  <2>. QED BY <2>2, <2>3, <2>4, OneTest
<1>3. CASE SimDoesNotStart(t)
  <2>1. /\ at[t] = "simulating" /\ at'[t] = "ended"
        /\ changed' = IF log[t] = NoLog THEN changed \cup {t} ELSE changed \ {t}
        /\ UNCHANGED <<mk, next, stale, log, judged>>
        /\ \A u \in Tests \ {t} : at'[u] = at[u]
    BY <1>3 DEF SimDoesNotStart, files, hist, TypeOK
  <2>2. InStage(t)' /\ Followed(t)'
    BY <2>1 DEF Following, InStage, Followed, Simulating
  <2>3. changed' \ {t} = changed \ {t}
    BY <2>1
  <2>. QED BY <2>1, <2>2, <2>3, OneTest
<1>4. CASE SimEnds(t)
  <2>1. /\ at[t] \in {"ended", "timedout"} /\ at'[t] = "rest"
        /\ next'[t] = "check"
        /\ changed' = IF t \in changed THEN changed \cup {t} ELSE changed \ {t}
        /\ UNCHANGED <<mk, log, judged>>
        /\ \A u \in Tests \ {t} : /\ at'[u] = at[u] /\ next'[u] = next[u]
                                  /\ stale'[u] = stale[u]
    BY <1>4 DEF SimEnds, Ends, Export, After, hist, TypeOK
  <2>2. InStage(t)' /\ Followed(t)'
    BY <2>1 DEF Following, InStage, Followed, Simulating
  <2>3. changed' \ {t} = changed \ {t}
    BY <2>1
  <2>. QED BY <2>1, <2>2, <2>3, OneTest
<1>. QED BY <1>1, <1>2, <1>3, <1>4 DEF Simulates, SimTimesOut

LEMMA CheckFollows ==
    ASSUME TypeOK, Following, ~disturbed, NEW t \in Tests, Check(t) PROVE Following'
<1>1. /\ at'[t] = "rest" /\ next'[t] = "end"
      /\ judged' = judged \cup {t} /\ changed' = changed \cup {t}
      /\ UNCHANGED <<mk, log>>
      /\ \A u \in Tests \ {t} : /\ at'[u] = at[u] /\ next'[u] = next[u]
                                /\ stale'[u] = stale[u]
  BY DEF Check, Ends, Export, After, TypeOK
<1>2. InStage(t)' /\ Followed(t)'
  BY <1>1 DEF InStage, Followed, Simulating
<1>3. changed' \ {t} = changed \ {t} /\ judged' \ {t} = judged \ {t}
  BY <1>1
<1>. QED BY <1>1, <1>2, <1>3, OneTest

LEMMA CollectFollows == Following /\ ~disturbed /\ Collect => Following'
<1>. SUFFICES ASSUME Following, ~disturbed, Collect PROVE Following'
  OBVIOUS
<1>1. /\ mk' = "idle" /\ next' = [t \in Tests |-> "gen"] /\ UNCHANGED <<at, judged>>
      /\ \A t \in Tests : at[t] = "rest" /\ next[t] = "end"
  BY DEF Collect, MakeEnds, AllThrough, hist
<1>2. ASSUME NEW t \in Tests PROVE InStage(t)' /\ t \in judged'
  BY <1>1 DEF Following, InStage, Followed, Simulating
<1>. QED BY <1>1, <1>2 DEF Following, Followed

LEMMA NextFollows == TypeOK /\ Following /\ [Next]_vars => Following'
<1>. SUFFICES ASSUME TypeOK, Following, [Next]_vars PROVE Following'
  OBVIOUS
<1>1. CASE disturbed
  <2>1. disturbed'
    BY <1>1 DEF Next, vars, hist, StartMake, Collect, Stop, Interrupt, Edit, Build, TestStep,
                GenStep, GenFails, GenCopies, GenExports, GenCommandFails, CompileStep,
                CompileFails, CompileExports, CompileRuns, SimStep, SimFails, SimExports,
                Simulates, SimTimesOut, SimWrites, SimDoesNotStart, SimEnds, CheckStep,
                CheckFails, Check, Pass, Skip, Unreadable, Fails
  <2>. QED BY <2>1 DEF Following
<1>2. CASE ~disturbed
  <2>1. CASE UNCHANGED vars
    BY <1>2, <2>1 DEF vars, files, hist, Following, InStage, Followed
  <2>2. CASE StartMake
    BY <1>2, <2>2 DEF StartMake, files, hist, Following, InStage, Followed
  <2>3. CASE Collect
    BY <1>2, <2>3, CollectFollows
  <2>4. CASE Stop
    BY <1>2, <2>4 DEF Stop, Following
  <2>5. CASE Interrupt
    BY <2>5 DEF Interrupt, Following
  <2>6. ASSUME NEW b \in {"instr_gen", "tb"}, Edit(b) PROVE Following'
    BY <1>2, <2>6 DEF Edit, files, hist, Following, InStage, Followed
  <2>7. ASSUME NEW b \in {"instr_gen", "tb"}, Build(b) PROVE Following'
    <3>1. CASE disturbed'
      BY <3>1 DEF Following
    <3>2. CASE ~disturbed'
      <4>1. /\ UNCHANGED <<mk, at, next, changed, log, judged>>
            /\ stale' = [t \in Tests |-> stale[t] \cup {StageOf(b)}]
        BY <1>2, <2>7, <3>2 DEF Build
      <4>2. \A t \in Tests : "sim" \in stale[t] => "sim" \in stale'[t]
        BY <4>1
      <4>. QED BY <1>2, <4>1, <4>2 DEF Following, InStage, Followed
    <3>. QED BY <3>1, <3>2
  <2>8. ASSUME NEW t \in Tests, TestStep(t) PROVE Following'
    <3>1. ASSUME Fails(t) PROVE Following'
      BY <3>1 DEF Fails, Following
    <3>2. CASE \/ GenFails(t) \/ CompileFails(t) \/ SimFails(t) \/ CheckFails(t)
               \/ \E s \in Stage : Unreadable(t, s)
      BY <3>1, <3>2 DEF GenFails, CompileFails, SimFails, CheckFails, Unreadable
    <3>3. CASE \E s \in Stage : Skip(t, s)
      BY <1>2, <3>3, SkipFollows
    <3>4. CASE GenCopies(t) \/ GenExports(t) \/ GenCommandFails(t)
                  \/ CompileExports(t) \/ CompileRuns(t)
      BY <1>2, <3>4, GenCompileFollows
    <3>5. CASE SimExports(t) \/ Simulates(t) \/ SimTimesOut(t) \/ SimDoesNotStart(t)
                  \/ SimEnds(t)
      BY <1>2, <3>5, SimFollows
    <3>6. CASE Check(t)
      BY <1>2, <3>6, CheckFollows
    <3>. QED BY <2>8, <3>2, <3>3, <3>4, <3>5, <3>6
             DEF TestStep, GenStep, CompileStep, SimStep, CheckStep, Pass
  <2>. QED BY <2>1, <2>2, <2>3, <2>4, <2>5, <2>6, <2>7, <2>8 DEF Next
<1>. QED BY <1>1, <1>2

\* When nothing fails and nobody interrupts, a report is made from judged logs only,
\* for any number of tests, although every export makes the file of check_logs newer
\* than the log it has to check.
THEOREM ReportsJudged == Spec => []AllJudged
<1>1. Init => Following
  BY DEF Init, Following, InStage, Followed, Simulating
<1>2. TypeOK /\ Following => AllJudged
  BY DEF TypeOK, Following, Followed, AllJudged, AllThrough
<1>. QED BY <1>1, <1>2, NextFollows, TypeCorrect, PTL DEF Spec
=============================================================================
