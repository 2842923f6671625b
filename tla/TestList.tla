------------------------------ MODULE TestList ------------------------------
(***************************************************************************)
(* Which tests a regression runs (metadata.py, ibex_cmd.py): those of      *)
(* testlist.yaml that are asked for and fit the configuration of the core, *)
(* each with as many seeds as it has iterations.                           *)
(*                                                                         *)
(* A test is a record of its name, its iterations, whether it has the key  *)
(* rtl_params, and the requirements under that key.  A requirement has the *)
(* parameter, the values that will do, and how yaml writes them: a string, *)
(* a list or an integer.                                                   *)
(***************************************************************************)
EXTENDS Naturals, SequencesExt, Loops

Entry == [test : STRING, iterations : Nat, has_rtl_params : BOOLEAN,
          rtl_params : Seq([param : STRING, form : {"str", "list", "int"},
                           values : SUBSET STRING])]

\* riscv-dv's process_regression_list: zero iterations leave the list's own.
process_regression_list(list, wanted, iterations) ==
    LET Matches(t) == t.iterations > 0 /\ (wanted = {} \/ t.test \in wanted)
        Scaled(t)  == IF iterations > 0 THEN [t EXCEPT !.iterations = iterations] ELSE t
        matched    == Kept(list, {t \in ToSet(list) : Matches(t)})
    IN  [i \in DOMAIN matched |-> Scaled(matched[i])]

\* A parameter is compared with a string or a list only.
Rejects(cfg, r) == r.form \in {"str", "list"} /\ cfg[r.param] \notin r.values

\* The requirements of a test are gone through up to one the configuration does
\* not meet or does not know.  Each one that is met adds the test to the list.
Required(cfg, test) ==
    LET Param(s, r) ==
            IF s.left THEN s
            ELSE IF r.param \notin DOMAIN cfg THEN [s EXCEPT !.raised = TRUE, !.left = TRUE]
            ELSE IF Rejects(cfg, r) THEN [s EXCEPT !.left = TRUE]
            ELSE [s EXCEPT !.copies = @ + 1]
    IN  FoldLeft(Param, [copies |-> 0, raised |-> FALSE, left |-> FALSE], test.rtl_params)

\* Mutant: a test without requirements falls through the loop.
Mut_Accepted(cfg, test) == [i \in 1..Required(cfg, test).copies |-> test]

\* What a test adds to the filtered list: without the key itself once, with the key
\* and nothing under it nothing.
Accepted(cfg, test) ==
    IF ~test.has_rtl_params THEN <<test>>
    ELSE [i \in 1..Required(cfg, test).copies |-> test]

filter_tests_by_config(cfg, tests) ==
    [raised |-> \E i \in DOMAIN tests : Required(cfg, tests[i]).raised,
     tests  |-> FlattenSeq([i \in DOMAIN tests |-> Accepted(cfg, tests[i])])]

\* Raises when no test matches, whether or not one is left by the filter.
get_tests_and_counts(cfg, list, wanted, iterations) ==
    LET matched  == process_regression_list(list, wanted, iterations)
        filtered == filter_tests_by_config(cfg, matched)
    IN  [raised |-> matched = <<>> \/ filtered.raised,
         tests  |-> [i \in DOMAIN filtered.tests |->
                        <<filtered.tests[i].test, filtered.tests[i].iterations>>]]

\* The TEST.SEEDs; there have to be some.
tds(tests_and_counts, seed) ==
    LET Seeds(t) == [i \in 1..t[2] |-> <<t[1], seed + i - 1>>]
    IN  FlattenSeq([i \in DOMAIN tests_and_counts |-> Seeds(tests_and_counts[i])])

\* What a script of one TEST.SEED looks up.
get_test_entry(list, name) ==
    LET all == process_regression_list(list, {}, 0)
    IN  Kept(all, {t \in ToSet(all) : t.test = name})

-----------------------------------------------------------------------------
(* What the docstring of filter_tests_by_config asks for. *)

\* The configuration does not meet a requirement that can be compared with it.
Refuses(cfg, r) == r.form # "int" /\ cfg[r.param] \notin r.values

\* The configuration has one of the values of each requirement.
Compatible(cfg, test) ==
    \A i \in DOMAIN test.rtl_params :
        LET r == test.rtl_params[i] IN cfg[r.param] \in r.values
=============================================================================
