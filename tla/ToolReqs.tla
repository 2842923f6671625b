------------------------------ MODULE ToolReqs ------------------------------
(***************************************************************************)
(* Whether the tools are recent enough (check_tool_requirements.py).  A    *)
(* version is a form and its numbers:                                      *)
(*                                                                         *)
(*     "plain"    4.028              <<4, 28>>                             *)
(*     "verible"  v0.0-808-g1e17daa  <<0, 0, 808>>                         *)
(*     "vcs"      2020.03-SP2-1      <<2020, 3, 2, 1>>                     *)
(*     "cruft"    a VCS version with a word behind it                      *)
(*                                                                         *)
(* and NoVersion is what a tool that cannot be run, or says something      *)
(* else, has.                                                              *)
(***************************************************************************)
EXTENDS Integers, SequencesExt, FiniteSetsExt

NoVersion == [form |-> "none", n |-> <<>>]
Plain(n)  == [form |-> "plain", n |-> n]

VcsNumbers == {n \in [1..4 -> Nat] : n[2] \in 1..12 /\ n[3] < 100 /\ n[4] < 100}
Version == {NoVersion} \cup [form : {"plain"}, n : [1..2 -> Nat] \cup [1..3 -> Nat]]
                       \cup [form : {"verible"}, n : [1..3 -> Nat]]
                       \cup [form : {"vcs", "cruft"}, n : VcsNumbers]
FormOf(tool) == IF tool \in {"vcs", "verible"} THEN tool ELSE "plain"

\* dict_to_tool_req: some tools have a class of their own.
ClassOf(tool) ==
    IF tool = "vcs" THEN "VcsToolReq"
    ELSE IF tool = "verible" THEN "VeribleToolReq"
    ELSE "ToolReq"

Digits(n) == IF n < 10 THEN 10 ELSE IF n < 100 THEN 100 ELSE IF n < 1000 THEN 1000 ELSE 10000

\* Mutant: ten patches for each SP.
Mut_comb(sp, patch) == sp * 10 + patch
comb(sp, patch) == sp * 100 + patch

\* The minor number is the digits of the month and those of comb.
VcsMinor(n) == LET c == comb(n[3], n[4]) IN n[2] * Digits(c) + c

\* NoVersion stands for the ValueError.
to_semver(tool, version, from_req) ==
    IF ClassOf(tool) = "VcsToolReq"
    THEN IF version.form = "vcs" \/ (version.form = "cruft" /\ ~from_req)
         THEN Plain(<<version.n[1], VcsMinor(version.n)>>) ELSE NoVersion
    ELSE IF ClassOf(tool) = "VeribleToolReq"
    THEN IF version.form = "verible" THEN Plain(version.n) ELSE NoVersion
    ELSE version

\* StrictVersion takes two or three numbers and fills up with a zero.
IsStrict(version) == version.form = "plain" /\ Len(version.n) \in {2, 3}
Filled(n, k) == [i \in 1..k |-> IF i \in DOMAIN n THEN n[i] ELSE 0]
Triple(version) == Filled(version.n, 3)

Less(a, b) ==
    \E i \in DOMAIN a : a[i] < b[i] /\ \A j \in 1..(i - 1) : a[j] = b[j]

\* Whether the requirement, and the version of the tool, can be read, and the
\* version is not too old.
check(req, installed) ==
    LET min    == to_semver(req.tool, req.min_version, TRUE)
        actual == to_semver(req.tool, installed, FALSE)
    IN  IsStrict(min) /\ IsStrict(actual) /\ ~Less(Triple(actual), Triple(min))

\* main: the tools that are required always, and those that are named.
Wanted(reqs, named) == {req \in reqs : ~req.as_needed \/ req.tool \in named}
pending_tools(reqs, named) == named \ {req.tool : req \in reqs}
missing_tools(reqs, named, installed) ==
    {req.tool : req \in {r \in Wanted(reqs, named) : ~check(r, installed[r.tool])}}

all_good(reqs, named, installed) ==
    missing_tools(reqs, named, installed) = {} /\ pending_tools(reqs, named) = {}

-----------------------------------------------------------------------------
(* The order of the versions themselves. *)

AtLeast(version, min) == ~Less(Filled(version.n, 4), Filled(min.n, 4))

\* The later of two months of a year does not come with fewer digits behind it.
SameOrder(a, b) ==
    LET D(n) == Digits(comb(n[3], n[4]))
    IN  \/ a[1] # b[1]
        \/ (a[2] < b[2] => D(a) <= D(b)) /\ (b[2] < a[2] => D(b) <= D(a))
=============================================================================
