------------------------------- MODULE MCLSU -------------------------------
(* Small instances of LSU: every size and alignment of access against        *)
(* memories in which the first, the second, both or no word of it fails, by  *)
(* a bus error or by protection.                                             *)
EXTENDS LSU

MCMems == {m \in Memory : m.faulty \cap m.denied = {}}

Load(a, n, s) == [addr |-> a, size |-> n, signed |-> s, we |-> FALSE]
Store(a, n)   == [addr |-> a, size |-> n, signed |-> FALSE, we |-> TRUE]

\* Aligned and split accesses of every size; the last ones wrap around.
MCAccesses == {Load(0, 4, FALSE), Load(1, 4, FALSE), Load(3, 2, TRUE), Load(1, 2, FALSE),
               Load(6, 4, FALSE), Store(3, 4), Store(2, 2), Store(7, 2), Store(5, 1)}
=============================================================================
