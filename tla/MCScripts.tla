------------------------------ MODULE MCScripts ------------------------------
(* Small inputs for each of the scripts. *)
EXTENDS Scripts

\* The files that sv2v_in_place converts.
MCSv  == <<"b", "a_pkg", "c">>
MCSvh == <<"h", "i">>
MCPkg == <<"a_pkg">>

\* Logs of up to three lines.
Logs == UNION {[1..n -> LogLine] : n \in 0..3}
MCLogs == [log : Logs]

\* Several configurations and two tests: without the key rtl_params, with none, one or
\* two requirements under it, which yaml writes in one of three ways.
Configs == {[PMPEnable |-> p, RV32B |-> b] : p \in {"0", "1"}, b \in {"None", "Balanced", "Full"}}
Requirements ==
    {[param |-> "PMPEnable", form |-> "int", values |-> {"1"}]} \cup
    [param : {"RV32B"}, form : {"str"}, values : {{"Full"}, {"Balanced"}}] \cup
    {[param |-> "RV32B", form |-> "list", values |-> {"Balanced", "Full"}]} \cup
    {[param |-> "RV64", form |-> "str", values |-> {"Full"}]}
Pairs == {<<q, r>> : q \in {p \in Requirements : p.param = "PMPEnable"},
                     r \in {p \in Requirements : p.param = "RV32B"}}
TestEntry(name) ==
    [test : {name}, iterations : 0..2, has_rtl_params : {FALSE}, rtl_params : {<<>>}] \cup
    [test : {name}, iterations : 0..2, has_rtl_params : {TRUE},
     rtl_params : {<<>>} \cup {<<r>> : r \in Requirements} \cup Pairs]
MCTests ==
    [cfg : Configs, list : {<<a, b>> : a \in TestEntry("a"), b \in TestEntry("b")},
     wanted : {{}, {"b"}, {"c"}}, iterations : {0, 3}, seed : {7}]

\* Commands of two words, two options in either order that may use what the user
\* gives and the environment, but not each other.
Words == {Text("x"), Param("o"), Param("p"), Param("u"), Param("E")}
Values == {<<>>} \cup {<<w>> : w \in {Text("y"), Param("u"), Param("E"), Param("z")}}
             \cup {<<Param("u"), Param("E")>>}
Options == {<<>>} \cup
    {<<[name |-> "o", value |-> v], [name |-> "p", value |-> w]>> : v \in Values, w \in Values} \cup
    {<<[name |-> "p", value |-> v], [name |-> "o", value |-> w]>> : v \in Values, w \in Values}
MCCmds ==
    [cmd : {<<a, b>> : a \in Words, b \in Words},
     entry : [opts : Options, env_var : {<<>>, <<"E">>}],
     enables : {{"o"}, {"o", "p"}},
     user : {<<>>, <<[name |-> "u", value |-> <<Text("v")>>]>>,
             <<[name |-> "u", value |-> <<Text("v")>>], [name |-> "p", value |-> <<Text("w")>>]>>},
     env : {{}, {"E"}}]

\* Versions of the tools around the required ones, VCS of several months.
VcsVersions ==
    {[form |-> f, n |-> <<y, m, sp, patch>>] :
        f \in {"vcs", "cruft"}, y \in {2019, 2020, 2021}, m \in {2, 3, 12}, sp \in {0, 1, 2, 10},
        patch \in {0, 1, 9, 10, 99}}
PlainVersions == {Plain(n) : n \in {<<4>>, <<4, 28>>, <<4, 28, 0>>, <<4, 27, 9>>, <<4, 100>>, <<5, 0>>}}
VeribleVersions == {[form |-> "verible", n |-> <<0, 0, k>>] : k \in {99, 808, 1000}}
Req(tool, v, n) == [tool |-> tool, min_version |-> v, as_needed |-> n]
MCReqs ==
    [reqs : {{Req("verilator", Plain(<<4, 28>>), FALSE),
              Req("vcs", [form |-> "vcs", n |-> <<2020, 3, sp, patch>>], TRUE),
              Req("verible", [form |-> "verible", n |-> <<0, 0, 808>>], TRUE)} :
                 sp \in 0..2, patch \in {0, 2}},
     named : {{}, {"vcs"}, {"verible", "vcs"}, {"vivado"}},
     installed : {[verilator |-> p, vcs |-> v, verible |-> b] :
                     p \in {NoVersion, Plain(<<4, 27, 9>>), Plain(<<4, 28>>), Plain(<<4, 100>>)},
                     v \in {NoVersion} \cup VcsVersions,
                     b \in VeribleVersions \cup {Plain(<<1, 0>>)}}]

\* Every kind of field, with values yaml may give it.
Val(is, of) == [is |-> is, of |-> of]
Field(name, typ, vals) == [name : {name}, typ : {typ}, value : vals]
MCOpts ==
    [config : {<<a, b, c, d>> :
        a \in Field("RV32E", "bool", {Val("bool", 1), Val("int", 0), Val("int", 2), Val("str", "1")}),
        b \in Field("RV32B", "str", {Val("str", "Full"), Val("int", 1)}),
        c \in Field("PMPNumRegions", "int", {Val("int", 4), Val("bool", 0), Val("str", "4")}),
        d \in Field("RegFile", "str", {Val("str", "FF")})},
     sim : DOMAIN SIM_CFGS \cup {"qrun"}]
=============================================================================
