SPECIFICATION FairSpec
CONSTANTS
  Lockers = {"build_instr_gen", "compile_tb", "get_fcov", "collect_results"}
  Readers = {"run_instr_gen"}
  Prereqs <- MCPrereqs
  Tests = {t1, t2}
  NoScript = NoScript
  MaxKills = 1
INVARIANTS TypeOK NoLostUpdate MetadataLast SeesPrereqs
PROPERTIES StoreSpec Waits
