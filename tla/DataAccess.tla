----------------------------- MODULE DataAccess -----------------------------
(***************************************************************************)
(* What the load-store unit promises: accesses are atomic to the program.  *)
(* Each one that is committed completes exactly once, in order, with the   *)
(* result of the whole access, however many bus transfers it took; and     *)
(* none is committed past one that fails.                                  *)
(***************************************************************************)
EXTENDS DataMemory

VARIABLES mem,     \* the memory
          wb,      \* the access committed and not completed
          resp     \* the result of the access that has just completed

vars == <<mem, wb, resp>>

Init == mem \in Mems /\ wb = NoAccess /\ resp = NoResult

Commit(a) == /\ wb = NoAccess
             /\ wb' = a
             /\ resp' = NoResult
             /\ UNCHANGED mem

Complete == /\ wb # NoAccess
            /\ resp' = ResultOf(mem, wb)
            /\ wb' = NoAccess
            /\ UNCHANGED mem

\* The next access may be committed as the one before it completes well.
CompleteAndCommit(a) == /\ wb # NoAccess
                        /\ FaultOf(mem, wb) = -1
                        /\ resp' = ResultOf(mem, wb)
                        /\ wb' = a
                        /\ UNCHANGED mem

\* Results are not kept: the next access may already be committed.
Forget == /\ resp' = NoResult
          /\ UNCHANGED <<mem, wb>>

Next == \/ Complete \/ Forget
        \/ \E a \in Accesses : Commit(a) \/ CompleteAndCommit(a)

Spec == Init /\ [][Next]_vars
=============================================================================
