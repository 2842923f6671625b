----------------------------- MODULE DataMemory -----------------------------
(***************************************************************************)
(* The memory behind the data bus and what one access to it means.         *)
(* Addresses are byte addresses; a byte of memory stands for its address,  *)
(* and a byte of the value to store for its index in the register.         *)
(***************************************************************************)
EXTENDS Integers, Sequences

CONSTANTS Words,     \* number of 32-bit words of the (wrapping) address space
          Mems,      \* the memories a run may start with
          Accesses   \* the loads and stores the program may make

Word == 0..(Words - 1)
Byte == 0..(4 * Words - 1)

\* A word may answer with a bus error, or be denied by physical memory protection.
Memory == [faulty : SUBSET Word, denied : SUBSET Word]
Access == [addr : Byte, size : {1, 2, 4}, signed : BOOLEAN, we : BOOLEAN]

ASSUME WordsAssumption    == Words \in Nat \ {0}
ASSUME MemsAssumption     == Mems \subseteq Memory
ASSUME AccessesAssumption == Accesses \subseteq Access

Plus(a, n) == (a + n) % (4 * Words)
WordOf(a)  == a \div 4
Offset(a)  == a % 4
Aligned(a) == a - Offset(a)

NoAccess == [addr |-> -1, size |-> 0, signed |-> FALSE, we |-> FALSE]

(* What an access must do: a load returns its bytes in order, a store writes  *)
(* its bytes to the words that accept them, and an access that touches a word *)
(* which does not accept it fails at the first such address.                  *)
Bad(m, a) == WordOf(a) \in m.faulty \cup m.denied

Second(acc) == Aligned(Plus(acc.addr, 4))        \* where the other word starts
Splits(acc) == Offset(acc.addr) + acc.size > 4

FaultOf(m, acc) == IF Bad(m, acc.addr) THEN acc.addr
                   ELSE IF Splits(acc) /\ Bad(m, Second(acc)) THEN Second(acc)
                   ELSE -1

ByteOf(acc, k) == Plus(acc.addr, k)

ResultOf(m, acc) ==
  [access  |-> acc,
   fault   |-> FaultOf(m, acc),
   data    |-> IF acc.we \/ FaultOf(m, acc) # -1 THEN <<>>
               ELSE [k \in 1..acc.size |-> ByteOf(acc, k - 1)],
   written |-> IF acc.we
               THEN {<<ByteOf(acc, k), k>> : k \in {j \in 0..(acc.size - 1) : ~Bad(m, ByteOf(acc, j))}}
               ELSE {}]

NoResult == [access |-> NoAccess, fault |-> -1, data |-> <<>>, written |-> {}]
=============================================================================
