----------------------------- MODULE MCPrefetch -----------------------------
(* Small instances of Prefetch: the memories mix compressed instructions at  *)
(* even and odd half-words with words that answer with an error.             *)
EXTENDS Prefetch

MCMems == {[compressed |-> {1, 4}, faulty |-> {1}],
           [compressed |-> {0, 1, 2, 5}, faulty |-> {0, 2}]}
=============================================================================
