------------------------------- MODULE UvmLog -------------------------------
(***************************************************************************)
(* How check_logs.py judges a simulation (ibex_log_to_trace_csv.py).  A    *)
(* line of a log is the set of the things looked for in it; a log is a     *)
(* sequence of lines.                                                      *)
(***************************************************************************)
EXTENDS Naturals, SequencesExt

(* The trace of instructions *)

TraceLine == SUBSET {"ecall", "instr"}

\* Instructions in front of the first ecall.
InstrCount(trace) ==
    LET Line(s, line) ==
            [end   |-> s.end \/ "ecall" \in line,
             count |-> IF ~s.end /\ "ecall" \notin line /\ "instr" \in line
                       THEN s.count + 1 ELSE s.count]
    IN  FoldLeft(Line, [end |-> FALSE, count |-> 0], trace).count

\* process_ibex_sim_log raises no RuntimeError.
TraceProcessed(trace) == InstrCount(trace) # 0

-----------------------------------------------------------------------------
(* The log of the simulation *)

\* "error" is UVM_ERROR, UVM_FATAL or Error, "timeout" the message of the
\* wall-clock timeout, and the others the two results of a test.
LogLine == SUBSET {"error", "timeout", "PASSED", "FAILED"}

ScanStart == [passed |-> FALSE, failed |-> FALSE, error_line |-> {},
              error_seen |-> FALSE, test_result_seen |-> FALSE, end |-> FALSE]

\* Mutant: an error counts after the result as well.
Mut_ScanError(s, line) ==
    IF "error" \in line
    THEN [s EXCEPT !.error_line = line, !.error_seen = TRUE, !.failed = TRUE]
    ELSE s

ScanError(s, line) ==
    IF "error" \in line /\ ~s.test_result_seen
    THEN [s EXCEPT !.error_line = line, !.error_seen = TRUE, !.failed = TRUE]
    ELSE s

ScanPassed(s, line) ==
    IF "PASSED" \in line
    THEN [s EXCEPT !.test_result_seen = TRUE, !.passed = TRUE] ELSE s

ScanFailed(s, line) ==
    IF "FAILED" \in line
    THEN [s EXCEPT !.test_result_seen = TRUE, !.failed = TRUE, !.end = TRUE]
    ELSE s

Scan(log) ==
    LET Line(s, line) ==
            IF s.end THEN s
            ELSE ScanFailed(ScanPassed(ScanError(s, line), line), line)
    IN  FoldLeft(Line, ScanStart, log)

\* What check_ibex_uvm_log returns.  It looks for the timeout in the line of
\* the error, and raises a TypeError when a test has failed without one.
check_ibex_uvm_log(log) ==
    LET s == Scan(log) IN
    IF s.failed /\ ~s.error_seen THEN "crash"
    ELSE IF s.failed THEN IF "timeout" \in s.error_line THEN "TIMEOUT"
                                                        ELSE "LOG_ERROR"
    ELSE IF s.passed THEN "passed"
    ELSE "NONE"

-----------------------------------------------------------------------------
(* What the docstring of check_ibex_uvm_log asks for, said of a whole log. *)

Says(log, i, what) == what \in log[i]

\* No line up to the one with the first result, itself included, has an error.
CleanUpToResult(log) ==
    \A i \in DOMAIN log :
        Says(log, i, "error") =>
            \E j \in 1..(i - 1) : Says(log, j, "PASSED") \/ Says(log, j, "FAILED")

Passes(log) ==
    /\ \E i \in DOMAIN log : Says(log, i, "PASSED")
    /\ ~\E i \in DOMAIN log : Says(log, i, "FAILED")
    /\ CleanUpToResult(log)
=============================================================================
