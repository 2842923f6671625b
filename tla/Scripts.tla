------------------------------- MODULE Scripts -------------------------------
(***************************************************************************)
(* The scripts that compute something from their input, and the one that   *)
(* converts sources in place.  One of them runs, on one of its inputs.     *)
(***************************************************************************)
EXTENDS UvmLog, TestList, ToolCmds, ToolReqs, SimOptions, Sv2v

CONSTANTS
    LogInputs,    \* [log]
    TestInputs,   \* [cfg, list, wanted, iterations, seed]
    CmdInputs,    \* [cmd, entry, enables, user, env]
    ReqInputs,    \* [reqs, named, installed]
    OptInputs     \* [config, sim]

ASSUME LogAssumption == \A i \in LogInputs : i.log \in Seq(LogLine)

\* Tests have different names, and only those with the key rtl_params have requirements.
ASSUME TestAssumption ==
    \A i \in TestInputs :
        /\ i.list \in Seq(Entry)
        /\ \A j, k \in DOMAIN i.list : i.list[j].test = i.list[k].test => j = k
        /\ \A k \in DOMAIN i.list : i.list[k].has_rtl_params \/ i.list[k].rtl_params = <<>>
        /\ i.iterations \in Nat /\ i.seed \in Nat

\* Options, and what the user gives, have different names. An option may use what the
\* user gives and the environment, but no other option; what the user gives uses none.
ASSUME CmdAssumption ==
    \A i \in CmdInputs :
        /\ i.cmd \in Seq(Word) /\ i.entry.env_var \in Seq(STRING)
        /\ i.entry.opts \in Dict /\ ~Refers(i.entry.opts, i.entry.opts)
        /\ i.user \in Dict /\ ~Refers(i.user, i.user) /\ ~Refers(i.user, env_dict(i.entry.env_var))

\* A requirement is written as the versions of its tool are.
ASSUME ReqAssumption ==
    \A i \in ReqInputs : \A r \in i.reqs :
        /\ r.min_version \in Version /\ r.min_version.form = FormOf(r.tool)
        /\ i.installed[r.tool] \in Version

ASSUME OptAssumption ==
    \A i \in OptInputs :
        /\ i.config \in Seq(ToSet(i.config))
        /\ \A j, k \in DOMAIN i.config : i.config[j].name = i.config[k].name => j = k

VARIABLES
    script,   \* which one
    in,       \* its input
    out,      \* its output
    done

vars == <<script, in, out, done, sv2v_vars>>

Inputs_of ==
    [check_ibex_uvm_log |-> LogInputs, tds |-> TestInputs, get_tool_cmds |-> CmdInputs,
     check_tool_requirements |-> ReqInputs, get_x_opts |-> OptInputs, sv2v |-> {<<>>}]

-----------------------------------------------------------------------------

Init ==
    /\ script \in DOMAIN Inputs_of
    /\ in \in Inputs_of[script]
    /\ out = <<>>
    /\ done = FALSE
    /\ Sv2vInit

Runs(s, result) ==
    /\ script = s /\ ~done
    /\ out' = result
    /\ done' = TRUE
    /\ UNCHANGED <<script, in, sv2v_vars>>

test_seeds ==
    LET tc == get_tests_and_counts(in.cfg, in.list, in.wanted, in.iterations)
    IN  [raised |-> tc.raised \/ tc.tests = <<>>,
         tests |-> tc.tests, tds |-> tds(tc.tests, in.seed)]

compile_and_sim == [compile |-> _get_x_opts(in.config, in.sim, "compile"),
                    sim |-> _get_x_opts(in.config, in.sim, "sim")]

Next ==
    \/ Runs("check_ibex_uvm_log", check_ibex_uvm_log(in.log))
    \/ Runs("tds", test_seeds)
    \/ Runs("get_tool_cmds", get_tool_cmd(in.cmd, in.entry, in.enables, in.user, in.env))
    \/ Runs("check_tool_requirements", all_good(in.reqs, in.named, in.installed))
    \/ Runs("get_x_opts", compile_and_sim)
    \/ script = "sv2v" /\ Sv2vNext /\ UNCHANGED <<script, in, out, done>>

Spec == Init /\ [][Next]_vars

-----------------------------------------------------------------------------

Done(s) == done /\ script = s

\* A log is judged as passed exactly when it reports that the test has passed, no
\* failure, and no error before that report; nothing else makes a test pass.
LogVerdict == Done("check_ibex_uvm_log") => (out = "passed" <=> Passes(in.log))

\* The TEST.SEEDs of a test: one for each of its iterations, from the first seed on.
SeedsOf(test, seed) == {<<test.test, seed + k - 1>> : k \in 1..test.iterations}

\* A test that is asked for and allowed is run with each of its seeds, unless the key
\* rtl_params is there with nothing under it; one whose first requirement is written as
\* a string or a list and is not met is not run; and a TEST.SEED of a test with at most
\* one requirement comes once (ibex_cmd.py:182 appends a test for each requirement that
\* is met).  Nothing is run that was not asked for, and the scripts of every TEST.SEED
\* find its entry.
RunsAsked ==
    Done("tds") /\ ~out.raised =>
        LET asked == process_regression_list(in.list, in.wanted, in.iterations)
        IN  /\ \A i \in DOMAIN asked :
                   LET t == asked[i]
                   IN  /\ Compatible(in.cfg, t) /\ (t.has_rtl_params => t.rtl_params # <<>>) =>
                              SeedsOf(t, in.seed) \subseteq ToSet(out.tds)
                       /\ t.rtl_params # <<>> /\ Refuses(in.cfg, t.rtl_params[1]) =>
                              SeedsOf(t, in.seed) \cap ToSet(out.tds) = {}
                       /\ Len(t.rtl_params) <= 1 =>
                              \A r \in SeedsOf(t, in.seed) : Once(out.tds, r)
            /\ \A r \in ToSet(out.tds) :
                   /\ \E i \in DOMAIN asked : r \in SeedsOf(asked[i], in.seed)
                   /\ Len(get_test_entry(in.list, r[1])) = 1


\* A command that is run says, word by word, what its parameters mean, in any
\* order the yaml gives the options; and it is not run when a parameter means
\* nothing or is a variable that is not set.
MeansWhatItSays ==
    Done("get_tool_cmds") =>
        /\ Unmeant(in.cmd, in.entry, in.enables, in.user, in.env) => out.raised
        /\ ~out.raised => out.words = Meant(in.cmd, in.entry, in.enables, in.user)

\* A command is refused only when a parameter means nothing, or is a variable that
\* occurs in it and is not set.
RefusesUnmeant ==
    Done("get_tool_cmds") =>
        (out.raised => Unmeant(in.cmd, in.entry, in.enables, in.user, in.env))

\* Whatever the tools report, they are good exactly when each one that is required,
\* or asked for, is there in at least the version required, and nothing unknown is
\* asked for; for VCS unless one of the two releases is of a later month of the same
\* year and its SP and patch make a number of fewer digits.
MeetsMinimum ==
    Done("check_tool_requirements") =>
        LET Version_of(r) == in.installed[r.tool]
            Recent(r) == /\ Version_of(r).form \in {r.min_version.form}
                                \cup (IF r.tool = "vcs" THEN {"cruft"} ELSE {})
                         /\ AtLeast(Version_of(r), r.min_version)
        IN  (\A r \in Wanted(in.reqs, in.named) :
                 r.tool = "vcs" /\ Version_of(r).form \in {"vcs", "cruft"} =>
                     SameOrder(Version_of(r).n, r.min_version.n)) =>
            (out <=> /\ in.named \subseteq {r.tool : r \in in.reqs}
                     /\ \A r \in in.reqs : ~r.as_needed \/ r.tool \in in.named => Recent(r))

\* Every field of a configuration that can be read reaches a simulator once, as
\* an option of one of the two stages, or the simulator is refused: dsim, whose
\* output type _get_x_opts does not ask for, and those it does not know.
FieldsOnce ==
    Done("get_x_opts") =>
        LET Times(opts, f) == Cardinality({j \in DOMAIN opts : opts[j][1] = f.name})
        IN  IF out.compile.raised \/ out.sim.raised
            THEN ~parse_config(in.config) \/ in.sim \notin DOMAIN SIM_CFGS \ {"dsim"}
            ELSE \A i \in DOMAIN in.config :
                     Times(out.compile.opts, in.config[i]) + Times(out.sim.opts, in.config[i]) = 1
=============================================================================
