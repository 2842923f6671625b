--------------------------- MODULE MetadataProofs ---------------------------
(***************************************************************************)
(* Proofs about the metadata of a regression, for any scripts, any         *)
(* prerequisites, any tests and any number of kills: type correctness,     *)
(* that no record is lost, that the file comes last, and that the scripts  *)
(* together implement MetadataStore.                                       *)
(***************************************************************************)
EXTENDS Metadata, TLAPS

(* The inductive invariant *)

\* Only scripts that use LockedMetadata wait for the lock, and the one in its
\* scope has it.
Exclusive ==
    \A p \in Scripts :
        /\ pc[p] = "wait" => p \in Lockers
        /\ pc[p] \in InScope => p \in Lockers /\ lock = p

\* While metadata.py creates the file nobody uses it, and before it is there
\* nobody has recorded anything.
Creating ==
    /\ create \in {"check", "tests", "dump"} =>
           \A p \in Scripts : pc[p] \in {"idle", "done"}
    /\ create = "tests" => disk = "absent"
    /\ create = "dump" => disk = "partial" /\ \A p \in Lockers : pc[p] = "idle"
    /\ disk = "absent" => \A p \in Lockers : pc[p] \in {"idle", "failed"}

\* The copy of the script that has the lock is what the file held, with the
\* record of the script in it unless the body has raised.
Copies ==
    \A p \in Lockers :
        /\ pc[p] = "body" => disk = "whole" /\ md[p] = saved
        /\ pc[p] = "open" => /\ disk = "whole"
                             /\ md[p] = saved \/ md[p] = saved \cup {p}
                             /\ p \notin raised => p \in md[p]
        /\ pc[p] = "dump" => /\ disk = "partial"
                             /\ saved \subseteq md[p]
                             /\ p \notin raised => p \in md[p]
        /\ pc[p] = "unlock" => /\ disk = "whole"
                               /\ p \notin raised => p \in saved

\* What has been recorded stays, also in the copy a writer puts in its place.
Recorded == \A p \in Lockers : pc[p] \in {"run", "done"} => p \in saved

IInv == TypeOK /\ Exclusive /\ Creating /\ Copies /\ Recorded /\ MetadataLast

LEMMA InitIInv == Init => IInv
  BY ScriptsAssumption
  DEF Init, IInv, TypeOK, CreateAt, ScriptAt, InScope, Scripts, Exclusive,
      Creating, Copies, Recorded, MetadataLast

LEMMA NextIInv == IInv /\ [Next]_vars => IInv'
<1>. SUFFICES ASSUME IInv, [Next]_vars PROVE IInv'
  OBVIOUS
<1>. USE ScriptsAssumption
     DEF IInv, TypeOK, CreateAt, ScriptAt, InScope, Scripts, Exclusive,
         Creating, Copies, Recorded, MetadataLast
<1>1. CASE UNCHANGED vars
  BY <1>1 DEF vars
<1>2. CASE CreateCheck
  BY <1>2 DEF CreateCheck
<1>3. CASE CreateOpen
  BY <1>3 DEF CreateOpen
<1>4. CASE CreateDump
  BY <1>4 DEF CreateDump
<1>5. CASE KillCreate
  BY <1>5 DEF KillCreate
<1>6. CASE Remake
  BY <1>6 DEF Remake
<1>7. ASSUME NEW t \in Tests, CreateTest(t) PROVE IInv'
  BY <1>7 DEF CreateTest
<1>8. ASSUME NEW p \in Scripts, ScriptStep(p) PROVE IInv'
  <2>. USE DEF Goto, Fail, Release, Runnable
  <2>1. CASE Read(p)
    BY <2>1 DEF Read
  <2>2. CASE Open(p)
    BY <2>2 DEF Open
  <2>3. CASE Lock(p)
    BY <2>3 DEF Lock
  <2>4. CASE TimeOut(p)
    BY <2>4 DEF TimeOut
  <2>5. CASE Load(p)
    BY <2>5 DEF Load
  <2>6. CASE Body(p)
    BY <2>6 DEF Body
  <2>7. CASE BodyRaises(p)
    BY <2>7 DEF BodyRaises
  <2>8. CASE ExitOpen(p)
    BY <2>8 DEF ExitOpen
  <2>9. CASE ExitDump(p)
    BY <2>9 DEF ExitDump
  <2>10. CASE Unlock(p)
    BY <2>10 DEF Unlock
  <2>11. CASE Run(p)
    BY <2>11 DEF Run
  <2>12. CASE Kill(p)
    BY <2>12 DEF Kill
  <2>. QED BY <1>8, <2>1, <2>2, <2>3, <2>4, <2>5, <2>6, <2>7, <2>8, <2>9, <2>10, <2>11, <2>12 DEF ScriptStep
<1>. QED BY <1>1, <1>2, <1>3, <1>4, <1>5, <1>6, <1>7, <1>8 DEF Next

LEMMA InvariantHolds == Spec => []IInv
  BY InitIInv, NextIInv, PTL DEF Spec

\* Type correctness of the metadata file and of the scripts that use it.
THEOREM TypeCorrect == Spec => []TypeOK
<1>1. IInv => TypeOK
  BY DEF IInv
<1>. QED BY <1>1, InvariantHolds, PTL

\* No script's record is lost to another script that writes the whole file,
\* whatever is killed, times out or raises, and at whatever moment.
THEOREM RecordsKept == Spec => []NoLostUpdate
<1>1. IInv => NoLostUpdate
  BY DEF IInv, Recorded, NoLostUpdate
<1>. QED BY <1>1, InvariantHolds, PTL

\* metadata.pickle is only there when every test has its pickle, also when
\* create_metadata is killed and run again.
THEOREM FileLast == Spec => []MetadataLast
<1>1. IInv => MetadataLast
  BY DEF IInv
<1>. QED BY <1>1, InvariantHolds, PTL

(* What a script sees of the scripts before it *)

\* A script that has been started has all its prerequisites done.
Started ==
    \A p \in Scripts : pc[p] # "idle" => \A q \in Prereqs[p] : pc[q] = "done"

LEMMA NextStarted == IInv /\ Started /\ [Next]_vars => Started'
<1>. SUFFICES ASSUME IInv, Started, [Next]_vars PROVE Started'
  OBVIOUS
<1>. USE ScriptsAssumption DEF IInv, TypeOK, Started
<1>1. CASE UNCHANGED vars
  BY <1>1 DEF vars
<1>2. CASE CreateCheck \/ CreateOpen \/ CreateDump \/ KillCreate
  BY <1>2 DEF CreateCheck, CreateOpen, CreateDump, KillCreate
<1>3. CASE Remake
  BY <1>3 DEF Remake
<1>4. ASSUME NEW t \in Tests, CreateTest(t) PROVE Started'
  BY <1>4 DEF CreateTest
<1>5. ASSUME NEW p \in Scripts, ScriptStep(p) PROVE Started'
  <2>1. pc[p] # "done" /\ \E l \in ScriptAt : pc' = [pc EXCEPT ![p] = l]
    BY <1>5 DEF ScriptStep, Goto, Fail, Runnable, ScriptAt, InScope,
           Read, Open, Lock, TimeOut, Load, Body, BodyRaises, ExitOpen,
           ExitDump, Unlock, Run, Kill
  <2>2. pc[p] # "idle" \/ Runnable(p)
    BY <1>5 DEF ScriptStep,
           Read, Open, Lock, TimeOut, Load, Body, BodyRaises, ExitOpen,
           ExitDump, Unlock, Run, Kill
  <2>. QED BY <2>1, <2>2 DEF Runnable
<1>. QED BY <1>1, <1>2, <1>3, <1>4, <1>5 DEF Next

LEMMA NextSeesPrereqs ==
    IInv /\ Started /\ SeesPrereqs /\ [Next]_vars => SeesPrereqs'
<1>. SUFFICES ASSUME IInv, Started, SeesPrereqs, [Next]_vars PROVE SeesPrereqs'
  OBVIOUS
<1>. USE ScriptsAssumption
     DEF IInv, TypeOK, SeesPrereqs, Scripts, Recorded, Started
<1>1. CASE UNCHANGED vars
  BY <1>1 DEF vars
<1>2. CASE CreateCheck \/ CreateOpen \/ CreateDump \/ KillCreate
  BY <1>2 DEF CreateCheck, CreateOpen, CreateDump, KillCreate
<1>3. CASE Remake
  BY <1>3 DEF Remake
<1>4. ASSUME NEW t \in Tests, CreateTest(t) PROVE SeesPrereqs'
  BY <1>4 DEF CreateTest
<1>5. ASSUME NEW p \in Scripts, ScriptStep(p) PROVE SeesPrereqs'
  <2>. USE DEF Goto, Fail, Runnable
  <2>1. CASE Read(p)
    BY <2>1 DEF Read
  <2>2. CASE Open(p)
    BY <2>2 DEF Open
  <2>3. CASE Lock(p)
    BY <2>3 DEF Lock
  <2>4. CASE TimeOut(p)
    BY <2>4 DEF TimeOut
  <2>5. CASE Load(p)
    BY <2>5 DEF Load
  <2>6. CASE Body(p)
    BY <2>6 DEF Body
  <2>7. CASE BodyRaises(p)
    BY <2>7 DEF BodyRaises
  <2>8. CASE ExitOpen(p)
    BY <2>8 DEF ExitOpen
  <2>9. CASE ExitDump(p)
    BY <2>9 DEF ExitDump
  <2>10. CASE Unlock(p)
    BY <2>10 DEF Unlock
  <2>11. CASE Run(p)
    BY <2>11 DEF Run
  <2>12. CASE Kill(p)
    BY <2>12 DEF Kill
  <2>. QED BY <1>5, <2>1, <2>2, <2>3, <2>4, <2>5, <2>6, <2>7, <2>8, <2>9, <2>10, <2>11, <2>12 DEF ScriptStep
<1>. QED BY <1>1, <1>2, <1>3, <1>4, <1>5 DEF Next

\* What a script has loaded holds the records of all its prerequisites, for
\* any makefile, although the file is shared with scripts that run beside it.
THEOREM PrereqsSeen == Spec => []SeesPrereqs
<1>1. Init => Started /\ SeesPrereqs
  BY ScriptsAssumption DEF Init, Started, SeesPrereqs
<1>. QED BY <1>1, NextStarted, NextSeesPrereqs, InvariantHolds, PTL DEF Spec

(* The scripts implement MetadataStore *)

\* A step that leaves the file, the creation and the writer alone leaves the
\* value alone.
LEMMA SameValue ==
    ASSUME disk' = disk, saved' = saved, Writers' = Writers,
           create' = create \/ (create # "dump" /\ create' # "dump"),
           Writers # {} => md[lock]' = md[lock]
    PROVE  State' = State /\ Records' = Records
  BY DEF State, Records

\* The only script that can be writing is the one that has the lock.
LEMMA OneWriter ==
    ASSUME IInv
    PROVE  /\ \A p \in Lockers : p \in Writers => lock = p /\ Writers = {p}
           /\ create \in {"check", "tests", "dump"} => Writers = {}
  BY DEF IInv, Exclusive, Creating, Writers, InScope, Scripts

LEMMA NextStore == IInv /\ [Next]_vars => [Store!Next]_<<State, Records>>
<1>. SUFFICES ASSUME IInv, [Next]_vars PROVE [Store!Next]_<<State, Records>>
  OBVIOUS
<1>. USE ScriptsAssumption
<1>0. IInv'
  BY NextIInv
<1>1. CASE UNCHANGED vars
  BY <1>1, SameValue DEF vars, Writers
<1>2. CASE CreateCheck
  BY <1>2, SameValue, OneWriter DEF CreateCheck, Writers
<1>3. CASE CreateOpen
  <2>1. disk = "absent" /\ Writers = {} /\ Writers' = {}
    BY <1>3, <1>0, OneWriter DEF CreateOpen, IInv, Creating, Writers
  <2>. QED BY <1>3, <2>1 DEF CreateOpen, State, Records, Store!Next, Store!Create
<1>4. CASE CreateDump
  <2>1. disk = "partial" /\ Writers = {}
    BY <1>4, OneWriter DEF CreateDump, IInv, Creating
  <2>. QED BY <1>4, <2>1 DEF CreateDump, State, Records
<1>5. CASE KillCreate
  <2>1. Writers = {} /\ Writers' = {}
    BY <1>5, OneWriter DEF KillCreate, Writers
  <2>2. CASE create = "dump"
    <3>1. disk = "partial"
      BY <2>2 DEF IInv, Creating
    <3>. QED BY <1>5, <2>1, <2>2, <3>1
             DEF KillCreate, State, Records, Store!Next, Store!Destroy
  <2>3. CASE create = "tests"
    BY <1>5, <2>1, <2>3, SameValue DEF KillCreate
  <2>. QED BY <1>5, <2>2, <2>3 DEF KillCreate
<1>6. CASE Remake
  <2>1. Writers = {} /\ Writers' = {} /\ create # "dump" /\ create' # "dump"
    BY <1>6 DEF Remake, Writers, Scripts
  <2>. QED BY <1>6, <2>1, SameValue DEF Remake
<1>7. ASSUME NEW t \in Tests, CreateTest(t) PROVE [Store!Next]_<<State, Records>>
  BY <1>7, SameValue DEF CreateTest, Writers
<1>8. ASSUME NEW p \in Scripts, ScriptStep(p) PROVE [Store!Next]_<<State, Records>>
  <2>. USE DEF Goto, Fail, Release
  <2>1. CASE ExitOpen(p)
    <3>1. /\ p \in Lockers /\ lock = p /\ disk = "whole"
          /\ md[p] = saved \/ md[p] = saved \cup {p}
      BY <2>1 DEF ExitOpen, IInv, Exclusive, Copies, InScope
    <3>2. p \in Writers'
      BY <2>1, <3>1 DEF ExitOpen, IInv, TypeOK, Writers
    <3>3. State = "kept" /\ State' = "kept" /\ Records = saved /\ Records' = md[p]
      BY <2>1, <3>1, <3>2 DEF ExitOpen, State, Records
    <3>. QED BY <3>1, <3>3 DEF Store!Next, Store!Record
  <2>2. CASE ExitDump(p)
    <3>1. p \in Writers /\ lock = p /\ disk = "partial"
      BY <2>2 DEF ExitDump, IInv, Exclusive, Copies, InScope, Writers
    <3>. QED BY <2>2, <3>1 DEF ExitDump, State, Records
  <2>3. CASE Kill(p)
    <3>1. CASE pc[p] = "dump"
      <4>1. p \in Writers /\ Writers = {p} /\ disk = "partial"
        BY <3>1, OneWriter DEF IInv, Exclusive, Copies, InScope, Writers
      <4>2. Writers' = {} /\ create # "dump"
        BY <2>3, <4>1, OneWriter DEF Kill, IInv, TypeOK, Writers
      <4>. QED BY <2>3, <4>1, <4>2
               DEF Kill, State, Records, Store!Next, Store!Destroy
    <3>2. CASE pc[p] # "dump"
      <4>1. Writers' = Writers
        BY <2>3, <3>2 DEF Kill, IInv, TypeOK, Writers
      <4>2. Writers # {} => lock' = lock
        BY <2>3, <3>2, OneWriter DEF Kill, Writers
      <4>. QED BY <2>3, <4>1, <4>2, SameValue DEF Kill
    <3>. QED BY <3>1, <3>2
  <2>4. CASE Read(p) \/ Open(p) \/ Lock(p) \/ TimeOut(p) \/ Load(p)
             \/ Body(p) \/ BodyRaises(p) \/ Unlock(p) \/ Run(p)
    <3>. USE DEF Read, Open, Lock, TimeOut, Load, Body, BodyRaises, Unlock, Run,
                 Runnable
    <3>1. pc[p] # "dump" /\ pc'[p] # "dump" /\ \A q \in Scripts : q # p => pc'[q] = pc[q]
      BY <2>4 DEF IInv, TypeOK
    <3>2. Writers' = Writers
      BY <3>1 DEF Writers, Scripts
    <3>3. Writers # {} => lock # p /\ lock \in Lockers
      BY <3>1, OneWriter DEF Writers
    <3>4. Writers # {} => lock' = lock
      BY <2>4, <3>3, ScriptsAssumption DEF Scripts
    <3>5. Writers # {} => md'[lock] = md[lock]
      BY <2>4, <3>3 DEF IInv, TypeOK, Scripts
    <3>6. disk' = disk /\ saved' = saved /\ create' = create
      BY <2>4
    <3>. QED BY <3>2, <3>4, <3>5, <3>6, SameValue
  <2>. QED BY <1>8, <2>1, <2>2, <2>3, <2>4 DEF ScriptStep
<1>. QED BY <1>1, <1>2, <1>3, <1>4, <1>5, <1>6, <1>7, <1>8 DEF Next

\* The scripts, each of which reads, changes and rewrites a whole file and may
\* be killed on the way, behave as if each recorded what it has in one step.
THEOREM ImplementsStore == Spec => StoreSpec
<1>1. Init => Store!Init
  <2>. SUFFICES ASSUME Init PROVE Store!Init
    OBVIOUS
  <2>1. Writers = {}
    BY DEF Init, Writers, Scripts
  <2>. QED BY <2>1 DEF Init, Store!Init, State, Records
<1>. QED BY <1>1, NextStore, InvariantHolds, PTL DEF Spec, StoreSpec, Store!Spec
=============================================================================
