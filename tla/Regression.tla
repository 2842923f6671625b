----------------------------- MODULE Regression -----------------------------
(***************************************************************************)
(* The tests of a regression, from the generation of a program to the      *)
(* report.  Make builds the instruction generator and the test bench and   *)
(* runs four scripts for each test, each of which makes a file:            *)
(*                                                                         *)
(*     run_instr_gen           test.S                                      *)
(*     compile_generated_test  test.bin                                    *)
(*     run_rtl                 rtl_sim.log                                 *)
(*     check_logs              trr.yaml                                    *)
(*                                                                         *)
(* The scripts of a test hand its TestRunResult on in a pickle, and each   *)
(* export of the pickle writes trr.yaml too.  At the end collect_results   *)
(* reads all pickles.  Tests run in parallel, any command may fail, and    *)
(* Make may be interrupted and run again, with sources edited in between.  *)
(***************************************************************************)
CONSTANTS
    Tests,     \* the TEST.SEEDs
    Logs,      \* what a simulation may leave behind: its log and its trace
    NoLog,
    Verdict    \* what check_logs finds in each of them

Verdicts == {"passed", "LOG_ERROR", "TIMEOUT", "NONE", "FILE_ERROR", "crash"}

ASSUME LogsAssumption ==
    /\ NoLog \notin Logs
    /\ Verdict \in [Logs -> Verdicts]

VARIABLES
    mk,        \* Make: "idle", "running", or "stopping" after a failure
    built,     \* the builds that are up to date: "instr_gen", "tb"
    next,      \* for each test the stage Make looks at
    at,        \* what the script of a test is doing
    changed,   \* the tests whose file of the stage before this Make has changed
    stale,     \* the stages whose file is missing or older than a prerequisite
    asm, bin,  \* the tests that have a test.S, a test.bin
    log,       \* the rtl_sim.log (and the trace) of each test
    passed, mode, fields,  \* the TestRunResult in the pickle of each test
    torn,      \* the tests whose pickle was cut short
    report,    \* what regr.log says of each test
    \* history:
    sims,      \* how often each test was simulated: "never", "once", "again"
    judged,    \* the tests whose log was judged after it was written
    disturbed, \* a script has failed or been interrupted
    halfway    \* the tests whose generation was killed between copy and export

files == <<stale, asm, bin, log>>
trr   == <<passed, mode, fields, torn>>
hist  == <<sims, judged, disturbed, halfway>>
vars  == <<mk, built, next, at, changed, files, trr, report, hist>>

Stage == {"gen", "compile", "sim", "check"}
After == [gen |-> "compile", compile |-> "sim", sim |-> "check", check |-> "end"]
At == {"rest", "copied", "compiling", "simulating", "ended", "timedout"}

TypeOK ==
    /\ mk \in {"idle", "running", "stopping"}
    /\ built \in SUBSET {"instr_gen", "tb"}
    /\ next \in [Tests -> Stage \cup {"end"}]
    /\ at \in [Tests -> At]
    /\ changed \in SUBSET Tests
    /\ stale \in [Tests -> SUBSET Stage]
    /\ asm \in SUBSET Tests
    /\ bin \in SUBSET Tests
    /\ log \in [Tests -> Logs \cup {NoLog}]
    /\ passed \in [Tests -> {"unset", "yes", "no"}]
    /\ mode \in [Tests -> {"unset", "NONE", "TIMEOUT", "FILE_ERROR", "LOG_ERROR"}]
    /\ fields \in [Tests -> SUBSET {"assembly", "binary", "rtl_log"}]
    /\ torn \in SUBSET Tests
    /\ report \in [Tests -> {"none", "PASS", "FAILED", "FAILED_T"}]   \* FAILED {T}: timed out
    /\ sims \in [Tests -> {"never", "once", "again"}]
    /\ judged \in SUBSET Tests
    /\ disturbed \in BOOLEAN
    /\ halfway \in SUBSET Tests

\* What metadata.py --op create_metadata leaves behind.
Init ==
    /\ mk = "idle"
    /\ built = {}
    /\ next = [t \in Tests |-> "gen"]
    /\ at = [t \in Tests |-> "rest"]
    /\ changed = {}
    /\ stale = [t \in Tests |-> {"gen", "compile", "sim"}]
    /\ asm = {} /\ bin = {}
    /\ log = [t \in Tests |-> NoLog]
    /\ passed = [t \in Tests |-> "unset"]
    /\ mode = [t \in Tests |-> "unset"]
    /\ fields = [t \in Tests |-> {}]
    /\ torn = {}
    /\ report = [t \in Tests |-> "none"]
    /\ sims = [t \in Tests |-> "never"]
    /\ judged = {}
    /\ disturbed = FALSE
    /\ halfway = {}

-----------------------------------------------------------------------------
(* Make *)

StartMake ==
    /\ mk = "idle"
    /\ mk' = "running"
    /\ UNCHANGED <<built, next, at, changed, files, trr, report, hist>>

\* Make ends, and forgets where it was.
MakeEnds ==
    /\ mk' = "idle"
    /\ next' = [t \in Tests |-> "gen"]
    /\ changed' = {}

\* The source of the generator or of the test bench is edited.
Edit(b) ==
    /\ mk = "idle"
    /\ b \in built
    /\ built' = built \ {b}
    /\ UNCHANGED <<mk, next, at, changed, files, trr, report, hist>>

StageOf(b) == IF b = "tb" THEN "sim" ELSE "gen"

\* build_instr_gen or compile_tb, and the touch of its stamp.
Build(b) ==
    /\ mk = "running"
    /\ b \notin built
    /\ \/ /\ built' = built \cup {b}
          /\ stale' = [t \in Tests |-> stale[t] \cup {StageOf(b)}]
          /\ UNCHANGED <<mk, disturbed>>
       \/ /\ mk' = "stopping"
          /\ disturbed' = TRUE
          /\ UNCHANGED <<built, stale>>
    /\ UNCHANGED <<next, at, changed, asm, bin, log, trr, report, sims, judged, halfway>>

\* Mutant: Make only compares times.
Mut_Outdated(t, s) == s \in stale[t]
Outdated(t, s) == s \in stale[t] \/ t \in changed

Needs(s) == IF s = "gen" THEN {"instr_gen"} ELSE IF s = "sim" THEN {"tb"} ELSE {}

\* Make has got to stage s of test t.
Reached(t, s) ==
    /\ mk = "running"
    /\ at[t] = "rest"
    /\ next[t] = s
    /\ Needs(s) \subseteq built

Skip(t, s) ==
    /\ Reached(t, s)
    /\ ~Outdated(t, s)
    /\ next' = [next EXCEPT ![t] = After[s]]
    /\ changed' = changed \ {t}
    /\ UNCHANGED <<mk, built, at, files, trr, report, hist>>

Starts(t, s) == Reached(t, s) /\ Outdated(t, s) /\ t \notin torn

\* The script of stage s ends, and its file has changed or not.
Ends(t, s, change) ==
    /\ at' = [at EXCEPT ![t] = "rest"]
    /\ next' = [next EXCEPT ![t] = After[s]]
    /\ changed' = IF change THEN changed \cup {t} ELSE changed \ {t}
    /\ UNCHANGED <<mk, built, report>>

\* The script of test t goes on.
Goes(t, to) ==
    /\ at' = [at EXCEPT ![t] = to]
    /\ UNCHANGED <<mk, built, next, changed, report>>

\* The script of test t ends with a failure: Make starts nothing more.
Fails(t) ==
    /\ at' = [at EXCEPT ![t] = "rest"]
    /\ mk' = "stopping"
    /\ disturbed' = TRUE
    /\ UNCHANGED <<built, next, changed, files, trr, report, sims, judged, halfway>>

\* A script that cannot load the pickle.
Unreadable(t, s) ==
    /\ Reached(t, s)
    /\ Outdated(t, s)
    /\ t \in torn
    /\ Fails(t)

\* The file of a stage was written: that stage is up to date, the one after it
\* is not.  An export writes trr.yaml, the file of the last one.
Wrote(t, s, after) == stale' = [stale EXCEPT ![t] = (@ \ {s}) \cup {after}]
Export(t) == stale' = [stale EXCEPT ![t] = @ \ {"check"}]

-----------------------------------------------------------------------------
(* run_instr_gen *)

\* riscv-dv fails, a word cannot be relocated, or nothing was generated.
GenFails(t) == Starts(t, "gen") /\ Fails(t)

\* The generator ran and its program is copied to test.S.
GenCopies(t) ==
    /\ Starts(t, "gen")
    /\ asm' = asm \cup {t}
    /\ Wrote(t, "gen", "compile")
    /\ Goes(t, "copied")
    /\ UNCHANGED <<bin, log, trr, hist>>

GenExports(t) ==
    /\ at[t] = "copied"
    /\ fields' = [fields EXCEPT ![t] = @ \cup {"assembly"}]
    /\ Export(t)
    /\ Ends(t, "gen", TRUE)
    /\ UNCHANGED <<asm, bin, log, passed, mode, torn, hist>>

\* A command of the generator fails: nothing is copied, and the script succeeds.
GenCommandFails(t) ==
    /\ Starts(t, "gen")
    /\ fields' = [fields EXCEPT ![t] = @ \cup {"assembly"}]
    /\ Export(t)
    /\ Ends(t, "gen", t \notin asm)
    /\ UNCHANGED <<asm, bin, log, passed, mode, torn, hist>>

-----------------------------------------------------------------------------
(* compile_generated_test *)

CompileFails(t) ==
    /\ Starts(t, "compile") \/ at[t] = "compiling"
    /\ Fails(t)

\* Mutant: the result is exported when the commands have run.
Mut_CompileExports(t) ==
    /\ Starts(t, "compile")
    /\ Goes(t, "compiling")
    /\ UNCHANGED <<files, trr, hist>>

CompileExports(t) ==
    /\ Starts(t, "compile")
    /\ fields' = [fields EXCEPT ![t] = @ \cup {"binary"}]
    /\ Export(t)
    /\ Goes(t, "compiling")
    /\ UNCHANGED <<asm, bin, log, passed, mode, torn, hist>>

CompileRuns(t) ==
    /\ at[t] = "compiling"
    /\ t \in asm /\ "assembly" \in fields[t]
    /\ bin' = bin \cup {t}
    /\ Wrote(t, "compile", "sim")
    /\ Ends(t, "compile", TRUE)
    /\ UNCHANGED <<asm, log, trr, hist>>

-----------------------------------------------------------------------------
(* run_rtl *)

\* There is no binary, or no command for it.
SimFails(t) == Starts(t, "sim") /\ Fails(t)

SimExports(t) ==
    /\ Starts(t, "sim")
    /\ t \in bin /\ "binary" \in fields[t]
    /\ fields' = [fields EXCEPT ![t] = @ \cup {"rtl_log"}]
    /\ sims' = [sims EXCEPT ![t] = IF @ = "never" THEN "once" ELSE "again"]
    /\ Export(t)
    /\ Goes(t, "simulating")
    /\ UNCHANGED <<asm, bin, log, passed, mode, torn, judged, disturbed, halfway>>

\* What a simulation leaves behind, however it ended.
SimWrites(t, l, to) ==
    /\ at[t] = "simulating"
    /\ log' = [log EXCEPT ![t] = l]
    /\ stale' = [stale EXCEPT ![t] = (@ \ {"sim"}) \cup {"check"}]
    /\ changed' = changed \cup {t}
    /\ at' = [at EXCEPT ![t] = to]
    /\ judged' = judged \ {t}
    /\ UNCHANGED <<mk, built, next, asm, bin, trr, report, sims, disturbed, halfway>>

Simulates(t) == \E l \in Logs : SimWrites(t, l, "ended")

\* The simulator cannot be started: its exit status is not looked at.
SimDoesNotStart(t) ==
    /\ at[t] = "simulating"
    /\ changed' = IF log[t] = NoLog THEN changed \cup {t} ELSE changed \ {t}
    /\ at' = [at EXCEPT ![t] = "ended"]
    /\ UNCHANGED <<mk, built, next, files, trr, report, hist>>

\* Mutant: the commands of run_rtl have no timeout.
Mut_SimTimesOut(t) ==
    /\ at[t] = "ended"
    /\ Goes(t, "timedout")
    /\ UNCHANGED <<files, trr, hist>>

\* The simulation is killed with the timeout of the process.
SimTimesOut(t) == \E l \in Logs : SimWrites(t, l, "timedout")

SimEnds(t) ==
    /\ at[t] \in {"ended", "timedout"}
    /\ mode' = [mode EXCEPT ![t] = IF at[t] = "timedout" THEN "TIMEOUT" ELSE @]
    /\ Export(t)
    /\ Ends(t, "sim", t \in changed)
    /\ UNCHANGED <<asm, bin, log, passed, fields, torn, hist>>

-----------------------------------------------------------------------------
(* check_logs *)

FileError(t) == log[t] = NoLog \/ Verdict[log[t]] = "FILE_ERROR"

\* check_ibex_uvm_log raises a TypeError.
Crashes(t) ==
    /\ mode[t] # "TIMEOUT"
    /\ ~FileError(t)
    /\ Verdict[log[t]] = "crash"

CheckFails(t) ==
    /\ Starts(t, "check")
    /\ Crashes(t) \/ "rtl_log" \notin fields[t]
    /\ Fails(t)

\* Mutant: a log that fails falls through to the end.
Mut_compare_passed(t) ==
    IF mode[t] = "TIMEOUT" \/ FileError(t) THEN "no" ELSE "yes"

\* compare_test_run.  A test that was killed stays failed, a log that passes
\* leaves the mode alone and one that does not leaves passed alone.
compare_passed(t) ==
    IF mode[t] = "TIMEOUT" \/ FileError(t) THEN "no"
    ELSE IF Verdict[log[t]] = "passed" THEN "yes"
    ELSE passed[t]

\* Mutant: the mode is set before it is known whether the log passes.
Mut_compare_mode(t) ==
    IF mode[t] = "TIMEOUT" THEN "TIMEOUT"
    ELSE IF FileError(t) THEN "FILE_ERROR"
    ELSE Verdict[log[t]]

compare_mode(t) ==
    IF mode[t] = "TIMEOUT" THEN "TIMEOUT"
    ELSE IF FileError(t) THEN "FILE_ERROR"
    ELSE IF Verdict[log[t]] = "passed" THEN mode[t]
    ELSE Verdict[log[t]]

Check(t) ==
    /\ Starts(t, "check")
    /\ ~Crashes(t) /\ "rtl_log" \in fields[t]
    /\ passed' = [passed EXCEPT ![t] = compare_passed(t)]
    /\ mode' = [mode EXCEPT ![t] = compare_mode(t)]
    /\ judged' = judged \cup {t}
    /\ Export(t)
    /\ Ends(t, "check", TRUE)
    /\ UNCHANGED <<asm, bin, log, fields, torn, sims, disturbed, halfway>>

-----------------------------------------------------------------------------
(* collect_results, and the end of Make *)

AllThrough == mk = "running" /\ \A t \in Tests : at[t] = "rest" /\ next[t] = "end"

\* The pickle can be read and has the paths the report prints.
Readable(t) == t \notin torn /\ {"binary", "rtl_log"} \subseteq fields[t]

Collect ==
    /\ AllThrough
    /\ MakeEnds
    /\ IF \A t \in Tests : Readable(t)
       THEN report' = [t \in Tests |->
                IF passed[t] = "yes" THEN "PASS"
                ELSE IF mode[t] = "TIMEOUT" THEN "FAILED_T" ELSE "FAILED"]
       ELSE UNCHANGED report
    /\ UNCHANGED <<built, at, files, trr, hist>>

Stop ==
    /\ mk = "stopping"
    /\ \A t \in Tests : at[t] = "rest"
    /\ MakeEnds
    /\ UNCHANGED <<built, at, files, trr, report, hist>>

Running == {t \in Tests : at[t] # "rest"}

\* Everything is killed, or the next target is not reached because another one
\* has failed.  A script that was about to write the pickle may leave
\* a part of it, and Make may delete the log that was being written.
Interrupt ==
    /\ mk \in {"running", "stopping"}
    /\ MakeEnds
    /\ at' = [t \in Tests |-> "rest"]
    /\ \E cut \in SUBSET Running : torn' = torn \cup cut
    /\ \E gone \in SUBSET {t \in Running : at[t] \in {"simulating", "ended", "timedout"}} :
        /\ log' = [t \in Tests |-> IF t \in gone THEN NoLog ELSE log[t]]
        /\ stale' = [t \in Tests |-> IF t \in gone THEN stale[t] \cup {"sim"}
                                                   ELSE stale[t]]
    /\ disturbed' = TRUE
    /\ halfway' = halfway \cup {t \in Tests : at[t] = "copied"}
    /\ UNCHANGED <<built, asm, bin, passed, mode, fields, report,
                   sims, judged>>

-----------------------------------------------------------------------------

GenStep(t) == GenFails(t) \/ GenCopies(t) \/ GenExports(t) \/ GenCommandFails(t)
CompileStep(t) == CompileFails(t) \/ CompileExports(t) \/ CompileRuns(t)
SimStep(t) ==
    \/ SimFails(t) \/ SimExports(t) \/ Simulates(t) \/ SimDoesNotStart(t)
    \/ SimTimesOut(t) \/ SimEnds(t)
CheckStep(t) == CheckFails(t) \/ Check(t)
Pass(t) == \E s \in Stage : Skip(t, s) \/ Unreadable(t, s)

TestStep(t) == GenStep(t) \/ CompileStep(t) \/ SimStep(t) \/ CheckStep(t) \/ Pass(t)

Next ==
    \/ StartMake \/ Collect \/ Stop \/ Interrupt
    \/ \E b \in {"instr_gen", "tb"} : Edit(b) \/ Build(b)
    \/ \E t \in Tests : TestStep(t)

Spec == Init /\ [][Next]_vars

\* Make, the scripts and the tools they call go on and end, except for the
\* simulations: those are killed.
FairSpec ==
    /\ Spec
    /\ WF_vars(Collect) /\ WF_vars(Stop)
    /\ \A b \in {"instr_gen", "tb"} : WF_vars(Build(b))
    /\ \A t \in Tests :
        /\ WF_vars(GenStep(t))
        /\ WF_vars(CompileStep(t))
        /\ WF_vars(SimFails(t) \/ SimExports(t) \/ SimEnds(t))
        /\ WF_vars(SimTimesOut(t))
        /\ WF_vars(CheckStep(t))
        /\ WF_vars(Pass(t))

-----------------------------------------------------------------------------
(* What must be true. *)

LogPasses(t) == log[t] # NoLog /\ Verdict[log[t]] = "passed"

\* The paths of the binary and of the log are in the pickle before the files exist,
\* whenever the scripts are interrupted.  test.S is copied first (run_instr_gen.py:237,
\* 239): it lacks its record while the script is between the two, and after a kill
\* right there, but for no other reason.  compile_generated_test reads that record,
\* and Make generates the test again only when the generator has changed.
RecordedFirst ==
    \A t \in Tests :
        /\ t \in asm => "assembly" \in fields[t] \/ at[t] = "copied" \/ t \in halfway
        /\ t \in bin => "binary" \in fields[t]
        /\ log[t] # NoLog => {"binary", "rtl_log"} \subseteq fields[t]

\* A test that has been simulated once is only reported as passed when its log
\* passes: the results of a regression from scratch can be relied on, also when
\* it was interrupted and resumed.
FirstVerdict ==
    [][Collect => \A t \in Tests :
           sims[t] = "once" /\ report'[t] = "PASS" => LogPasses(t)]_vars

\* When nothing fails and nobody interrupts, every report is made from logs that
\* have been judged since they were written, whatever was edited and run again.
AllJudged ==
    ~disturbed /\ AllThrough => judged = Tests

\* Make comes to an end although simulations may hang.
Finishes == mk = "running" ~> mk = "idle"

\* A test that is reported as passed has a log that passes.
ReportsLog ==
    [][Collect => \A t \in Tests : report'[t] = "PASS" => LogPasses(t)]_vars
=============================================================================
