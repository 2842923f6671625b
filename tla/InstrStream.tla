---------------------------- MODULE InstrStream ----------------------------
(***************************************************************************)
(* What instruction fetch promises to the rest of the core: a stream of    *)
(* instructions in program order from the last redirect, each one cut out  *)
(* of memory at its own address, whatever the bus and the buffers did.     *)
(***************************************************************************)
EXTENDS InstrMemory

VARIABLES mem,       \* the memory being fetched from
          pc,        \* address of the next instruction to deliver
          last       \* the last instruction delivered since the last redirect

vars == <<mem, pc, last>>

Init == /\ mem \in Mems
        /\ pc \in Half
        /\ last = NoInstr

Redirect(target) == /\ pc' = target
                    /\ last' = NoInstr
                    /\ UNCHANGED mem

Deliver == /\ last' = InstrAt(mem, pc)
           /\ pc' = Plus(pc, SizeAt(mem, pc))
           /\ UNCHANGED mem

Next == Deliver \/ \E target \in Half : Redirect(target)

Spec == Init /\ [][Next]_vars
=============================================================================
