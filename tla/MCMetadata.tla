----------------------------- MODULE MCMetadata -----------------------------
(***************************************************************************)
(* The metadata of a regression with two tests: the generator and the      *)
(* test bench are built in parallel, a test is generated without the lock, *)
(* and the results are collected while coverage is merged.                 *)
(***************************************************************************)
EXTENDS Metadata

MCPrereqs ==
    [build_instr_gen |-> {}, compile_tb |-> {},
     run_instr_gen |-> {"build_instr_gen"},
     collect_results |-> {"run_instr_gen", "compile_tb"},
     get_fcov |-> {"run_instr_gen", "compile_tb"}]
=============================================================================
