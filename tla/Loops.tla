-------------------------------- MODULE Loops --------------------------------
(* A loop over a list that appends to another what it keeps. *)
EXTENDS SequencesExt

\* The elements of list that are in K.
Kept(list, K) == FoldLeft(LAMBDA kept, e : IF e \in K THEN Append(kept, e) ELSE kept, <<>>, list)

\* Something is not in a list twice.
Once(s, e) == \A i, j \in DOMAIN s : s[i] = e /\ s[j] = e => i = j
=============================================================================
