-------------------------------- MODULE Sv2v --------------------------------
(***************************************************************************)
(* The conversion of SystemVerilog sources in place (sv2v_in_place.py).    *)
(* Each conversion reads its file, all packages and any headers, so all    *)
(* files are converted to temporary ones before the first is copied back,  *)
(* and the headers are emptied last.  sv2v or a copy may fail, and the     *)
(* script may be interrupted.                                              *)
(***************************************************************************)
EXTENDS Naturals, Sequences

CONSTANTS
    sv_paths,   \* the files of the list that end in .sv, in its order,
    svh_paths,  \* and those that end in .svh
    pkg_paths   \* those of sv_paths that end in pkg.sv

Files(list) == {list[i] : i \in DOMAIN list}

ASSUME PathsAssumption ==
    /\ sv_paths \in Seq(Files(sv_paths))
    /\ svh_paths \in Seq(Files(svh_paths))
    /\ Files(sv_paths) \cap Files(svh_paths) = {}
    /\ Files(pkg_paths) \subseteq Files(sv_paths)

VARIABLES
    phase,     \* "convert", "copy", "splat", "returned 0", "returned 1", "raised"
    idx,       \* how far it has got
    text,      \* what each file holds: "source", "converted", "part", "empty"
    tmp        \* the temporary files: the texts each was made from

sv2v_vars == <<phase, idx, text, tmp>>

All == Files(sv_paths) \cup Files(svh_paths)

Sv2vInit ==
    /\ phase = "convert"
    /\ idx = 1
    /\ text = [f \in All |-> "source"]
    /\ tmp = <<>>

\* What the conversion of a file reads.
Inputs(f) == {f} \cup Files(pkg_paths) \cup Files(svh_paths)

\* Mutant: the result replaces the file at once.
Mut_transform_one ==
    /\ phase = "convert" /\ idx <= Len(sv_paths)
    /\ tmp' = Append(tmp, {text[f] : f \in Inputs(sv_paths[idx])})
    /\ text' = [text EXCEPT ![sv_paths[idx]] = "converted"]
    /\ idx' = idx + 1
    /\ UNCHANGED phase

transform_one ==
    /\ phase = "convert" /\ idx <= Len(sv_paths)
    /\ tmp' = Append(tmp, {text[f] : f \in Inputs(sv_paths[idx])})
    /\ idx' = idx + 1
    /\ UNCHANGED <<phase, text>>

\* sv2v ends with an error, and main reports it.
transform_fails ==
    /\ phase = "convert" /\ idx <= Len(sv_paths)
    /\ phase' = "returned 1"
    /\ tmp' = <<>>
    /\ UNCHANGED <<idx, text>>

transformed ==
    /\ phase = "convert" /\ idx > Len(sv_paths)
    /\ phase' = "copy" /\ idx' = 1
    /\ UNCHANGED <<text, tmp>>

copy_back ==
    /\ phase = "copy" /\ idx <= Len(sv_paths)
    /\ text' = [text EXCEPT ![sv_paths[idx]] = "converted"]
    /\ idx' = idx + 1
    /\ UNCHANGED <<phase, tmp>>

copied ==
    /\ phase = "copy" /\ idx > Len(sv_paths)
    /\ phase' = "splat" /\ idx' = 1
    /\ tmp' = <<>>
    /\ UNCHANGED text

splat ==
    /\ phase = "splat" /\ idx <= Len(svh_paths)
    /\ text' = [text EXCEPT ![svh_paths[idx]] = "empty"]
    /\ idx' = idx + 1
    /\ UNCHANGED <<phase, tmp>>

splatted ==
    /\ phase = "splat" /\ idx > Len(svh_paths)
    /\ phase' = "returned 0"
    /\ UNCHANGED <<idx, text, tmp>>

\* An exception main does not catch, or an interrupt: the directory of the
\* temporary files goes, and a file may have been copied in part.
raises ==
    /\ phase \in {"convert", "copy", "splat"}
    /\ phase' = "raised"
    /\ tmp' = <<>>
    /\ \/ UNCHANGED text
       \/ /\ phase = "copy" /\ idx <= Len(sv_paths)
          /\ text' = [text EXCEPT ![sv_paths[idx]] = "part"]
    /\ UNCHANGED idx

Sv2vNext ==
    \/ transform_one \/ transform_fails \/ transformed
    \/ copy_back \/ copied \/ splat \/ splatted \/ raises

Sv2vSpec == Sv2vInit /\ [][Sv2vNext]_sv2v_vars

-----------------------------------------------------------------------------

\* Every result is made from sources only, a package or a header that another
\* file needs is not replaced before that file is converted, an error of sv2v
\* leaves all files as they were, and success converts and empties all of them.
FromSources ==
    /\ \A i \in DOMAIN tmp : tmp[i] = {"source"}
    /\ phase \in {"convert", "returned 1"} => \A f \in All : text[f] = "source"
    /\ \A h \in Files(svh_paths) : text[h] # "source" =>
           \A f \in Files(sv_paths) : text[f] = "converted"
    /\ phase = "returned 0" =>
           /\ \A f \in Files(sv_paths) : text[f] = "converted"
           /\ \A h \in Files(svh_paths) : text[h] = "empty"
=============================================================================
