----------------------------- MODULE SimOptions -----------------------------
(***************************************************************************)
(* How the configuration of the core reaches a simulator (ibex_config.py,  *)
(* ibex_cmd.py): its parameters and its strings, the latter as             *)
(* preprocessor defines, are options of the compilation or the simulation. *)
(***************************************************************************)
EXTENDS Naturals, SequencesExt, Loops

\* (needs_compile_opts, needs_sim_opts)
SIM_CFGS ==
    [vcs     |-> {"compile"},
     riviera |-> {"compile", "sim"},
     questa  |-> {"compile", "sim"},
     xlm     |-> {"compile"},
     dsim    |-> {"compile"}]

\* The output types of ibex_config.py, by simulator and stage, "" where the type
\* names no stage; and which fields they give options for.
Outputters ==
    [vcs     |-> [stage |-> {""},               params |-> {""},        defines |-> {""}],
     riviera |-> [stage |-> {"compile", "sim"}, params |-> {"sim"},     defines |-> {"compile"}],
     questa  |-> [stage |-> {"compile", "sim"}, params |-> {"sim"},     defines |-> {"compile"}],
     xlm     |-> [stage |-> {""},               params |-> {""},        defines |-> {""}],
     dsim    |-> [stage |-> {"compile"},        params |-> {"compile"}, defines |-> {}]]

\* A field is [name, typ, value], and a value [is, of].
\* Config.read_bool, read_int and read_str.
Readable(field) ==
    IF field.typ = "bool"
    THEN field.value.is = "bool" \/ (field.value.is = "int" /\ field.value.of \in 0..1)
    ELSE IF field.typ = "int" THEN field.value.is \in {"bool", "int"}
    ELSE field.value.is = "str"

\* SimOpts.output, for an output type that exists.
output(config, sim, stage) ==
    LET Gives(f) == IF f.typ = "str" THEN stage \in Outputters[sim].defines
                                     ELSE stage \in Outputters[sim].params
        given == Kept(config, {f \in ToSet(config) : Gives(f)})
    IN  [i \in DOMAIN given |-> <<given[i].name, given[i].value.of>>]

parse_config(config) == \A i \in DOMAIN config : Readable(config[i])

\* The output type names the stage only for a simulator that needs both.
Mut_output_stage(sim, stage) == stage
output_stage(sim, stage) == IF SIM_CFGS[sim] = {"compile", "sim"} THEN stage ELSE ""

_run_ibex_config(config, sim, stage) ==
    [raised |-> stage \notin Outputters[sim].stage \/ ~parse_config(config),
     opts   |-> output(config, sim, stage)]

_get_x_opts(config, sim, stage) ==
    IF sim \notin DOMAIN SIM_CFGS THEN [raised |-> TRUE, opts |-> <<>>]
    ELSE IF stage \notin SIM_CFGS[sim] THEN [raised |-> FALSE, opts |-> <<>>]
    ELSE _run_ibex_config(config, sim, output_stage(sim, stage))
=============================================================================
