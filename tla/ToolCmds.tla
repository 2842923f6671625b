------------------------------ MODULE ToolCmds ------------------------------
(***************************************************************************)
(* How the command of a simulator is made from rtl_simulation.yaml         *)
(* (riscvdv_interface.py, scripts_lib.py).  A command is a sequence of     *)
(* words, and a word is a parameter <n> or some text.  The entry of a      *)
(* simulator has the commands, the options, each a name and the words it   *)
(* stands for, in their order, and the environment variables.              *)
(***************************************************************************)
EXTENDS Naturals, SequencesExt

Text(x)  == [is |-> "text", of |-> x]
Param(n) == [is |-> "param", of |-> n]
Word     == [is : {"text", "param"}, of : STRING]
Dict     == {d \in Seq([name : STRING, value : Seq(Word)]) :
                \A i, j \in DOMAIN d : d[i].name = d[j].name => i = j}

\* A replacement is not searched again.
subst_opt(cmd, name, replacement) ==
    FlattenSeq([i \in DOMAIN cmd |->
                  IF cmd[i] = Param(name) THEN replacement ELSE <<cmd[i]>>])

\* One name after the other, so that a later one may replace what an earlier one
\* has brought in.
subst_dict(cmd, dict) ==
    FoldLeft(LAMBDA c, d : subst_opt(c, d.name, d.value), cmd, dict)

\* Every variable of the list has to be set, used or not.
Unset(env_vars, env) == \E v \in ToSet(env_vars) : v \notin env
env_dict(env_vars) == [i \in DOMAIN env_vars |->
                         [name |-> env_vars[i], value |-> <<Text(env_vars[i])>>]]
subst_env_vars(cmd, env_vars) == subst_dict(cmd, env_dict(env_vars))

cmd_opts_dict(opts, user_enables) ==
    [i \in DOMAIN opts |->
        [name |-> opts[i].name,
         value |-> IF opts[i].name \in user_enables THEN opts[i].value ELSE <<>>]]

\* Mutant: the user's options first.
Mut_Formatted(cmd, entry, user_enables, user_subst_options) ==
    subst_env_vars(subst_dict(subst_dict(cmd, user_subst_options),
                              cmd_opts_dict(entry.opts, user_enables)), entry.env_var)

Formatted(cmd, entry, user_enables, user_subst_options) ==
    subst_env_vars(subst_dict(subst_dict(cmd, cmd_opts_dict(entry.opts, user_enables)),
                              user_subst_options), entry.env_var)

\* One of the commands, for an entry of the simulator.
get_tool_cmd(cmd, entry, user_enables, user_subst_options, env) ==
    LET words == Formatted(cmd, entry, user_enables, user_subst_options)
    IN  [raised |-> \/ Unset(entry.env_var, env)
                    \/ \E i \in DOMAIN words : words[i].is = "param",
         words  |-> words]

-----------------------------------------------------------------------------
(* What the docstring of get_tool_cmds asks for, word by word: a parameter   *)
(* means the option of its name, or else what the user gives for it, or else *)
(* the environment variable; and the words of an option the same again.      *)

Given(dict, n) == \E i \in DOMAIN dict : dict[i].name = n
Refers(dict, to) ==
    \E i \in DOMAIN dict : \E k \in DOMAIN dict[i].value :
        LET w == dict[i].value[k] IN w.is = "param" /\ Given(to, w.of)
Value(dict, n) == dict[CHOOSE i \in DOMAIN dict : dict[i].name = n].value

MeansOutside(word, entry, user_subst_options) ==
    IF word.is = "text" THEN <<word>>
    ELSE IF Given(user_subst_options, word.of) THEN Value(user_subst_options, word.of)
    ELSE IF word.of \in ToSet(entry.env_var) THEN <<Text(word.of)>>
    ELSE <<word>>

Means(word, entry, user_enables, user_subst_options) ==
    IF word.is = "param" /\ Given(entry.opts, word.of)
    THEN LET v == Value(cmd_opts_dict(entry.opts, user_enables), word.of)
         IN  FlattenSeq([i \in DOMAIN v |-> MeansOutside(v[i], entry, user_subst_options)])
    ELSE MeansOutside(word, entry, user_subst_options)

Meant(cmd, entry, user_enables, user_subst_options) ==
    FlattenSeq([i \in DOMAIN cmd |-> Means(cmd[i], entry, user_enables, user_subst_options)])

\* A parameter that is left for the environment has no variable there, be it that the
\* simulator lists none or that it is not set.
Unmeant(cmd, entry, user_enables, user_subst_options, env) ==
    LET bare == [opts |-> entry.opts, env_var |-> <<>>]
        left == Meant(cmd, bare, user_enables, user_subst_options)
    IN  \E i \in DOMAIN left :
            left[i].is = "param" /\ left[i].of \notin ToSet(entry.env_var) \cap env
=============================================================================
