------------------------------ MODULE Metadata ------------------------------
(***************************************************************************)
(* metadata.pickle, the record of a regression, and the scripts that share *)
(* it.  Make starts with metadata.py --op create_metadata, which writes    *)
(* one pickle per test and then metadata.pickle.  Scripts that record what *)
(* they do (build_instr_gen, compile_tb, get_fcov, merge_cov,              *)
(* collect_results) use LockedMetadata: they lock the file, load it,       *)
(* change the object and, as they leave the scope, write it back.  The     *)
(* others (run_instr_gen, compile_generated_test, run_rtl) load the file   *)
(* without a lock.  Make runs all of them in parallel, as their            *)
(* prerequisites allow, and any of them may be killed at any time.         *)
(*                                                                         *)
(* Of the contents only the set of scripts that recorded something is      *)
(* kept.  A write has two steps, since opening the file empties it.        *)
(***************************************************************************)
EXTENDS Naturals, FiniteSets

CONSTANTS
    Lockers,      \* scripts that use LockedMetadata
    Readers,      \* scripts that only load the file
    Prereqs,      \* for each script, the scripts Make runs before it
    Tests,        \* the TEST.SEEDs of the regression
    NoScript,
    MaxKills      \* bound: how many scripts are killed in a behaviour

Scripts == Lockers \cup Readers

ASSUME ScriptsAssumption ==
    /\ Lockers \cap Readers = {}
    /\ NoScript \notin Scripts
    /\ Prereqs \in [Scripts -> SUBSET Scripts]
    /\ MaxKills \in Nat

VARIABLES
    disk,      \* metadata.pickle: "absent", "partial" or "whole"
    saved,     \* what it holds when it is whole
    pickles,   \* the tests that have a pickle of their own
    create,    \* where metadata.py --op create_metadata is
    pc,        \* where each script is
    md,        \* the object each script has in memory
    raised,    \* the scripts whose with-body has raised an exception
    lock,      \* the script that has the lock of the file
    kills      \* scripts killed so far

vars == <<disk, saved, pickles, create, pc, md, raised, lock, kills>>

CreateAt == {"check", "tests", "dump", "done", "failed"}
InScope == {"load", "body", "open", "dump", "unlock"}
ScriptAt == {"idle", "wait", "run", "done", "failed"} \cup InScope

TypeOK ==
    /\ disk \in {"absent", "partial", "whole"}
    /\ saved \in SUBSET Lockers
    /\ pickles \in SUBSET Tests
    /\ create \in CreateAt
    /\ pc \in [Scripts -> ScriptAt]
    /\ md \in [Scripts -> SUBSET Lockers]
    /\ raised \in SUBSET Lockers
    /\ lock \in Lockers \cup {NoScript}
    /\ kills \in 0..MaxKills

Init ==
    /\ disk = "absent"
    /\ saved = {}
    /\ pickles = {}
    /\ create = "check"
    /\ pc = [p \in Scripts |-> "idle"]
    /\ md = [p \in Scripts |-> {}]
    /\ raised = {}
    /\ lock = NoScript
    /\ kills = 0

-----------------------------------------------------------------------------
(* metadata.py --op create_metadata, which Make waits for. *)

CreateCheck ==
    /\ create = "check"
    /\ create' = IF disk = "absent" THEN "tests" ELSE "done"
    /\ UNCHANGED <<disk, saved, pickles, pc, md, raised, lock, kills>>

CreateTest(t) ==
    /\ create = "tests"
    /\ pickles' = pickles \cup {t}
    /\ UNCHANGED <<disk, saved, create, pc, md, raised, lock, kills>>

\* Mutant: metadata.pickle is written before the pickles of the tests.
Mut_CreateOpen ==
    /\ create = "tests"
    /\ create' = "dump"
    /\ disk' = "partial"
    /\ UNCHANGED <<saved, pickles, pc, md, raised, lock, kills>>

CreateOpen ==
    /\ create = "tests"
    /\ pickles = Tests
    /\ create' = "dump"
    /\ disk' = "partial"
    /\ UNCHANGED <<saved, pickles, pc, md, raised, lock, kills>>

\* Mutant: the new object already has records in it.
Mut_CreateDump ==
    /\ create = "dump"
    /\ create' = "done"
    /\ disk' = "whole"
    /\ saved' = pickles
    /\ UNCHANGED <<pickles, pc, md, raised, lock, kills>>

CreateDump ==
    /\ create = "dump"
    /\ create' = "done"
    /\ disk' = "whole"
    /\ saved' = {}
    /\ UNCHANGED <<pickles, pc, md, raised, lock, kills>>

-----------------------------------------------------------------------------
(* The scripts.  Make ignores how create_metadata ended. *)

\* Mutant: the makefile forgets the prerequisites.
Mut_Runnable(p) ==
    /\ pc[p] = "idle"
    /\ create \in {"done", "failed"}

Runnable(p) ==
    /\ pc[p] = "idle"
    /\ create \in {"done", "failed"}
    /\ \A q \in Prereqs[p] : pc[q] = "done"

Goto(p, l) == pc' = [pc EXCEPT ![p] = l]

Release(p) == lock' = IF lock = p THEN NoScript ELSE lock

\* The lock goes with the process that has it.
Fail(p) ==
    /\ Goto(p, "failed")
    /\ Release(p)

\* A script that takes no lock loads what it finds.
Read(p) ==
    /\ p \in Readers
    /\ Runnable(p)
    /\ IF disk = "whole"
       THEN /\ md' = [md EXCEPT ![p] = saved]
            /\ Goto(p, "run")
       ELSE /\ Goto(p, "failed")
            /\ UNCHANGED md
    /\ UNCHANGED <<disk, saved, pickles, create, raised, lock, kills>>

Open(p) ==
    /\ p \in Lockers
    /\ Runnable(p)
    /\ Goto(p, IF disk = "absent" THEN "failed" ELSE "wait")
    /\ UNCHANGED <<disk, saved, pickles, create, md, raised, lock, kills>>

\* Mutant: the lock is shared.
Mut_Lock(p) ==
    /\ pc[p] = "wait"
    /\ lock' = p
    /\ Goto(p, "load")
    /\ UNCHANGED <<disk, saved, pickles, create, md, raised, kills>>

Lock(p) ==
    /\ pc[p] = "wait"
    /\ lock = NoScript
    /\ lock' = p
    /\ Goto(p, "load")
    /\ UNCHANGED <<disk, saved, pickles, create, md, raised, kills>>

\* Mutant: the alarm is set when the file has been locked.
Mut_TimeOut(p) ==
    /\ pc[p] = "load"
    /\ Fail(p)
    /\ UNCHANGED <<disk, saved, pickles, create, md, raised, kills>>

\* The alarm of 5 seconds.
TimeOut(p) ==
    /\ pc[p] \in {"wait", "load"}
    /\ Fail(p)
    /\ UNCHANGED <<disk, saved, pickles, create, md, raised, kills>>

\* Mutant: the object is created afresh when the file cannot be read.
Mut_Load(p) ==
    /\ pc[p] = "load"
    /\ md' = [md EXCEPT ![p] = IF disk = "whole" THEN saved ELSE {}]
    /\ Goto(p, "body")
    /\ UNCHANGED <<disk, saved, pickles, create, raised, lock, kills>>

Load(p) ==
    /\ pc[p] = "load"
    /\ IF disk = "whole"
       THEN /\ md' = [md EXCEPT ![p] = saved]
            /\ Goto(p, "body")
            /\ UNCHANGED lock
       ELSE /\ Fail(p)
            /\ UNCHANGED md
    /\ UNCHANGED <<disk, saved, pickles, create, raised, kills>>

Body(p) ==
    /\ pc[p] = "body"
    /\ md' = [md EXCEPT ![p] = @ \cup {p}]
    /\ raised' = raised \ {p}
    /\ Goto(p, "open")
    /\ UNCHANGED <<disk, saved, pickles, create, lock, kills>>

\* The body raises, before or after it has changed the object: __exit__ runs
\* all the same.
BodyRaises(p) ==
    /\ pc[p] = "body"
    /\ \E changes \in {{}, {p}} : md' = [md EXCEPT ![p] = @ \cup changes]
    /\ raised' = raised \cup {p}
    /\ Goto(p, "open")
    /\ UNCHANGED <<disk, saved, pickles, create, lock, kills>>

ExitOpen(p) ==
    /\ pc[p] = "open"
    /\ disk' = "partial"
    /\ Goto(p, "dump")
    /\ UNCHANGED <<saved, pickles, create, md, raised, lock, kills>>

ExitDump(p) ==
    /\ pc[p] = "dump"
    /\ disk' = "whole"
    /\ saved' = md[p]
    /\ Goto(p, "unlock")
    /\ UNCHANGED <<pickles, create, md, raised, lock, kills>>

Unlock(p) ==
    /\ pc[p] = "unlock"
    /\ Release(p)
    /\ Goto(p, IF p \in raised THEN "failed" ELSE "run")
    /\ UNCHANGED <<disk, saved, pickles, create, md, raised, kills>>

\* The commands of the script, outside the scope.
Run(p) ==
    /\ pc[p] = "run"
    /\ \E l \in {"done", "failed"} : Goto(p, l)
    /\ UNCHANGED <<disk, saved, pickles, create, md, raised, lock, kills>>

-----------------------------------------------------------------------------
(* What happens to the scripts. *)

Kill(p) ==
    /\ kills < MaxKills
    /\ pc[p] \notin {"idle", "done", "failed"}
    /\ Fail(p)
    /\ kills' = kills + 1
    /\ UNCHANGED <<disk, saved, pickles, create, md, raised>>

KillCreate ==
    /\ kills < MaxKills
    /\ create \in {"tests", "dump"}
    /\ create' = "failed"
    /\ kills' = kills + 1
    /\ UNCHANGED <<disk, saved, pickles, pc, md, raised, lock>>

\* Make is run again: what has failed is run again, and what depends on it.
Remake ==
    /\ create \in {"done", "failed"}
    /\ \A p \in Scripts : pc[p] \in {"idle", "done", "failed"} /\ ~Runnable(p)
    /\ pc' = [p \in Scripts |-> IF pc[p] = "done" THEN "done" ELSE "idle"]
    /\ create' = "check"
    /\ UNCHANGED <<disk, saved, pickles, md, raised, lock, kills>>

ScriptStep(p) ==
    \/ Read(p) \/ Open(p) \/ Lock(p) \/ TimeOut(p) \/ Load(p)
    \/ Body(p) \/ BodyRaises(p) \/ ExitOpen(p) \/ ExitDump(p) \/ Unlock(p)
    \/ Run(p) \/ Kill(p)

Next ==
    \/ CreateCheck \/ CreateOpen \/ CreateDump \/ KillCreate \/ Remake
    \/ \E t \in Tests : CreateTest(t)
    \/ \E p \in Scripts : ScriptStep(p)

Spec == Init /\ [][Next]_vars

\* A script that is not waiting goes on, and the alarm goes off.  Nothing is
\* assumed of the bodies: compile_tb waits in its body for other programs.
FairSpec ==
    /\ Spec
    /\ \A p \in Scripts :
        /\ WF_vars(TimeOut(p))
        /\ WF_vars(ExitOpen(p) \/ ExitDump(p) \/ Unlock(p))

-----------------------------------------------------------------------------
(* What must be true. *)

\* No record is lost: when the file can be read, it holds the record of every
\* script that has got through its scope, although each of them wrote the whole
\* file back from a copy (metadata.py, LockedMetadata: "not worry about multiple
\* processes racing to write into the file").
NoLostUpdate ==
    disk = "whole" =>
        {p \in Lockers : pc[p] \in {"run", "done"}} \subseteq saved

\* The file comes last: once it is there, which is what keeps the next Make from
\* creating anything, every test has its pickle (metadata.py, create_metadata).
MetadataLast == disk # "absent" => pickles = Tests

\* What a script has loaded holds the records of everything Make ran before it.
SeesPrereqs ==
    \A p \in Scripts :
        pc[p] \in {"body", "open", "dump", "unlock", "run"} =>
            Prereqs[p] \cap Lockers \subseteq md[p]

\* The scripts that are writing the file now.
Writers == {p \in Lockers : pc[p] = "dump"}

\* The value of the metadata: from the moment the file is opened for writing it
\* is what is being written, and it is lost if the writer is gone.
State ==
    IF disk = "absent" THEN "none"
    ELSE IF disk = "whole" \/ create = "dump" \/ Writers # {} THEN "kept"
    ELSE "lost"

Records ==
    IF disk = "whole" THEN saved
    ELSE IF Writers # {} THEN md[lock]
    ELSE {}

Store == INSTANCE MetadataStore WITH state <- State, records <- Records

\* The scripts together behave as if each recorded what it has in one step.
StoreSpec == Store!Spec

\* No script waits for the lock for ever, even if the script that has it hangs.
Waits == \A p \in Lockers : pc[p] = "wait" ~> pc[p] # "wait"
=============================================================================
