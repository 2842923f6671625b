---------------------------- MODULE InstrMemory ----------------------------
(***************************************************************************)
(* The memory instructions are fetched from, and how instructions lie in   *)
(* it. Addresses are half-word addresses (bits [31:1] of a byte address);  *)
(* a memory says which half-words start a compressed instruction and which *)
(* words answer a fetch with a bus error.                                  *)
(***************************************************************************)
EXTENDS Integers, Sequences

CONSTANTS Words,     \* number of 32-bit words of the (wrapping) address space
          Mems       \* the memories a run may start with

Word == 0..(Words - 1)
Half == 0..(2 * Words - 1)

\* Address arithmetic wraps, as the 31-bit adders of the fetch path do.
Plus(a, n) == (a + n) % (2 * Words)
WordOf(a)  == a \div 2
Odd(a)     == a % 2 = 1

Memory == [compressed : SUBSET Half, faulty : SUBSET Word]

ASSUME WordsAssumption == Words \in Nat \ {0}
ASSUME MemsAssumption  == Mems \subseteq Memory

\* The instruction memory holds at address a. A word that answers with an error
\* has no readable content: the instruction is taken to be 32 bits wide.
SizeAt(m, a) == IF a \in m.compressed /\ WordOf(a) \notin m.faulty THEN 1 ELSE 2

InstrAt(m, a) ==
  LET first  == WordOf(a) \in m.faulty
      second == WordOf(Plus(a, SizeAt(m, a) - 1)) \in m.faulty
  IN  [addr  |-> a,
       err   |-> first \/ second,
       plus2 |-> second /\ ~first,
       data  |-> IF first \/ second THEN <<>>
                 ELSE [i \in 1..SizeAt(m, a) |-> Plus(a, i - 1)]]

NoInstr == [addr |-> -1, err |-> FALSE, plus2 |-> FALSE, data |-> <<>>]
=============================================================================
