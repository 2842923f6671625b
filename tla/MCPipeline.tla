----------------------------- MODULE MCPipeline -----------------------------
(* Small instances of Pipeline: programs of a few instructions and handlers, *)
(* under every timing of memory, execution and requests.                     *)
EXTENDS Pipeline

I(op)     == [op |-> op, to |-> 0]
J(op, to) == [op |-> op, to |-> to]
P(s)      == [pc \in Pc |-> s[pc + 1]]
NoBreakpoint == -1

\* Two instructions, any of these, in a loop that enables interrupts first, and
\* handlers that return: of exceptions at 4, of the interrupt and the NMI at 5.
Body == {I(op) : op \in {"load", "badload", "badstore", "use", "mul", "sti", "cli",
                         "ecall", "illegal", "ferr", "mret", "wfi"}}
        \cup {J("branch", 0), J("jump", 3)}
MCProgs == {P(<<I("sti"), a, b, J("jump", 1), I("mret"), I("mret")>>) : a \in Body, b \in Body}
MCInputs == {in \in InputSpace : in.exec /\ ~in.dbg}

\* Three instructions in a loop, the exception handler at 3, and at 4 the debug
\* handler: it asks for single step and resumes. There is a breakpoint at 2.
DbgBody == {I(op) : op \in {"load", "badload", "alu", "bit", "ecall", "ebreak", "wfi", "mret",
                            "dret"}} \cup {J("branch", 0)}
DbgProgs  == {P(<<a, b, J("jump", 0), I("mret"), I("step"), I("dret")>>) :
                a \in DbgBody, b \in DbgBody}
DbgInputs == {in \in InputSpace : ~in.nmi}

\* And branches, taken and not, and jumps behind loads and other slow instructions.
TimingProgs == {P(<<a, b, c, I("mret"), I("step"), I("dret")>>) :
                  a \in {I("load"), I("badload"), J("branch", 2)},
                  b \in {I("load"), I("use"), I("mul"), J("branch", 2), J("jump", 3)},
                  c \in {J("branch", 0), J("branch", 3), J("branch", 2), J("jump", 1)}}
DbgTimingProgs == DbgProgs \cup TimingProgs

\* A user program, entered with mret at boot, with an NMI handler that returns at once (mret
\* at 4 and 5); debug mode is left at once, too (dret at 3).
ReqProgs  == {P(<<I("load"), a, J("branch", 0), I("dret"), I("mret"), I("mret")>>) :
                a \in {I("mul"), I("wfi"), I("badload"), I("use"), I("illegal"), I("ferr"), I("sti")}}
ReqInputs == {in \in InputSpace : in.exec /\ ~in.irq}

\* Branches behind loads
BranchProgs == {P(<<I("load"), a, J("branch", 0), J("branch", 3), I("mret"), I("alu")>>) :
                  a \in {I("mul"), I("badload"), I("use")}}
=============================================================================
