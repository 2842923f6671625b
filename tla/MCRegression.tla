---------------------------- MODULE MCRegression ----------------------------
(***************************************************************************)
(* A regression of a few tests.  A simulation leaves a log that passes,    *)
(* one with an error, one that ended with the wall-clock timeout, an       *)
(* unfinished one, one that only says that the test failed, or no trace.   *)
(***************************************************************************)
EXTENDS Regression

U == INSTANCE UvmLog

\* Logs and the lines in them.
Lines ==
    [ok      |-> <<{}, {"PASSED"}, {"error"}>>,
     error   |-> <<{"error"}, {"FAILED"}>>,
     timeout |-> <<{"error", "timeout"}, {"FAILED"}>>,
     cut     |-> <<{}>>,
     failed  |-> <<{"FAILED"}>>,
     empty   |-> <<{"PASSED"}>>]

MCLogs == DOMAIN Lines

Trace(l) == IF l = "empty" THEN <<{}, {"ecall"}, {"instr"}>> ELSE <<{"instr"}>>

MCVerdict ==
    [l \in MCLogs |-> IF U!TraceProcessed(Trace(l))
                      THEN U!check_ibex_uvm_log(Lines[l]) ELSE "FILE_ERROR"]
=============================================================================
