# Ibex: TLA+ models, checks and proofs

The repository holds the Ibex RISC-V core (`my_assignment/rtl`), its verification
environments and the Python flow that runs their regressions
(`my_assignment/dv/uvm/core_ibex/scripts`, `riscv_dv_extension`, `my_assignment/util`),
an example system, and the scripts and programs of a fault-simulation assignment built
around the core. This project is about two of these programs: the core, a set of clocked
state machines in SystemVerilog, and the regression flow, a set of scripts that Make runs
in parallel and that share files. Paths below are relative to `my_assignment/` unless
they start with `src/`; those of scripts to `dv/uvm/core_ibex/scripts` where no directory
is given.

The modules of the core use one convention. A step of `Next` is one clock edge. The
inputs of the cycle are a record `in`, chosen by `\E in \in Inputs`. Combinational
signals are operators over `in` and carry their name in the RTL; registers are variables
and carry theirs (`ctrl_fsm_cs`, `addr_last_q`, ...). `Cycle(in)` is what all registers of
the component load at the edge, split into the parts of the component (`Buffer`,
`Bus`, `IfStage`; `Unit`, `Bus`, `Pipeline`; `Controller`, `Fetch`, `Decode`,
`Writeback`, `Registers`). Interleaving is therefore not between processes but
between everything that may happen in the same or in neighbouring cycles: grants,
answers, stalls, redirects, requests.

The modules of the scripts use another. A step is what a process does between two points
at which another process, a failure or an interruption can come in between: to open a
file for writing, which empties it, and to write it are two steps; a function that
computes something from its arguments is an operator. Actions and operators carry the
name of the function they model where they model one function.

## 1. Inventory

| component | state it keeps | operations | status |
|---|---|---|---|
| instruction prefetch (`ibex_prefetch_buffer`, `ibex_fetch_fifo`) | request that waits for its grant, next address, outstanding requests and their discard flags, FIFO of words | new request, grant, answer, redirect, take an instruction | modelled |
| load-store unit (`ibex_load_store_unit`) and data bus | state machine of five states, flags of misaligned, PMP and bus errors, transaction registers | start, grant, answer, split accesses, respond | modelled |
| pipeline: controller, ID/EX, writeback (`ibex_controller`, `ibex_id_stage`, `ibex_wb_stage`, PC of `ibex_if_stage`) | controller state machine, NMI/debug/single-step modes, error flags, ID state machine, branch flops, writeback entry | decode, stall, redirect, flush, take interrupts, NMIs, exceptions and debug requests, sleep, return | partly |
| trap and debug registers (`ibex_cs_registers`) | privilege level, mstatus, mepc, mcause, mstack, dpc, dcsr, cpuctrlsts | save on a trap, save on debug entry, restore on mret and dret, CSR writes | partly |
| ALU, multiplier/divider, decoders | intermediate values of multi-cycle operations | compute | not modelled |
| branch predictor and skid buffer | one held instruction and its prediction | predict, hold | not modelled |
| instruction cache (`ibex_icache`) | tags and data in RAMs, fill buffers, invalidation counter | look up, fill, invalidate, correct ECC errors | not modelled |
| PMP (`ibex_pmp`) | none (its registers are CSRs) | match and permit | not modelled; a denial is an input |
| counters and CSR cells | 64-bit counters, registers with shadow copies | count, write halves | not modelled |
| top level (`ibex_top`, `ibex_core`) | clock gate, fetch enable | wiring, sleep | not modelled |
| register files | registers | read, write | not modelled |
| lockstep, dummy instructions | delayed copies, LFSR | compare, insert | not modelled |
| tracer, test benches, formal benches | - | observe | not modelled |
| example system: bus, timer | pending responses, mtime, mtimecmp | arbitrate, count | not modelled |
| regression metadata (`metadata.py`, `scripts_lib.py`, the makefile) | `metadata.pickle`, its lock, one pickle per test, the copies scripts have in memory | create, lock, load, change, write back, time out | partly |
| stages of a test and their result (`run_instr_gen.py`, `compile_generated_test.py`, `run_rtl.py`, `check_logs.py`, `collect_results.py`, `test_run_result.py`) | the files of each test with their time stamps, `passed`, `failure_mode` and paths in its pickle, the report | generate, compile, simulate, check, report; fail, hang, be interrupted | partly |
| checking of simulation logs (`riscv_dv_extension/ibex_log_to_trace_csv.py`) | what a scan has seen so far | scan a log, count the instructions of a trace | partly |
| test selection (`metadata.py`, `ibex_cmd.py`, `scripts_lib.py`) | none | filter the test list, count seeds, look a test up | modelled |
| tool commands (`riscvdv_interface.py`, `scripts_lib.py`) | none | substitute options, user values, environment | partly |
| core configuration and simulator options (`util/ibex_config.py`, `ibex_cmd.py`) | none | parse a configuration, write options | partly |
| tool requirements (`util/check_tool_requirements.py`) | none | read versions, compare them | modelled |
| conversion of sources in place (`util/sv2v_in_place.py`) | the sources and temporary files | convert, copy back, empty headers | modelled |
| self-test library, fault simulation, vendored code, synthesis, lint, documentation | - | - | not modelled |

How they interact:

- The controller redirects fetching (`pc_set`), which reaches the prefetch buffer as
  `branch_i` with an address; the IF stage offers instructions to ID when the
  controller says `id_in_ready`.
- ID starts the LSU (`lsu_req`) when the access before it has its response and that
  response is no error; the LSU tells ID when the last transfer is accepted
  (`lsu_req_done`) and tells writeback the result (`lsu_resp_valid`, `load_err`,
  `store_err`). Errors go to the controller, which flushes ID.
- PMP sits between the units and the buses: a denied data request is never driven,
  while the LSU's state machine carries on with `pmp_err_q`.
- The controller tells the CSRs to save and restore; the CSRs give back the enables
  that decide whether an interrupt is taken, so a CSR write in ID can withdraw a
  request the controller has already seen.
- Outside: both buses grant and answer when they like, in order; interrupt and debug
  lines are levels that come and go.
- Make starts with `metadata.py --op create_metadata` and then runs the other scripts, in
  parallel where prerequisites allow. They know of each other through `metadata.pickle`:
  those that record something lock it, load it and write the whole object back; the
  others load it without the lock.
- The four scripts of a test follow each other and hand its result on in a pickle. Every
  export of the pickle also writes `trr.yaml`, which is the target of the last of them:
  what Make believes is up to date depends on who wrote that file when.
- `check_logs` asks `ibex_log_to_trace_csv` about the trace and the log; `run_rtl` and
  `compile_tb` get their commands from `get_tool_cmds` and their options from
  `ibex_config`, under names of output types both sides form by convention;
  `metadata.py` decides which tests there are, and scripts of one test look it up again.

What is hard, and where a test would hardly reach it:

- *Outstanding work across redirects.* A request cannot be withdrawn from the bus. A
  redirect must keep its address stable, take its answer, throw it away, and do so
  for several requests and several redirects at once.
- *Split accesses.* The two halves are granted and answered in overlapping ways,
  either may fail on the bus, and either may be denied and never reach the bus.
- *Precise traps with a third stage.* A load in writeback may still fail while ID
  redirects fetching, asks for an exception, or an interrupt comes.
- *Decisions that take two cycles.* To take an interrupt or a halt request and to save
  its state are different cycles; the line may drop, or a higher one rise, in between.
- *Single step and debug entry* against every other reason to flush.
- *Sleep and wake-up.* A request between the decision to sleep and sleeping.
- *A shared file that is read, changed and replaced as a whole*, by several scripts, any
  of which may raise, run into the alarm or be killed, also as it writes.
- *Results that outlive a run of Make.* The pickle of a test keeps what an earlier run
  found, each stage sets a part of it, and time stamps decide which stages run again.
- *Simulations that hang, die or leave half a log*, and logs whose summary mentions
  errors that are none.
- *Conventions between scripts*: substitutions in a fixed order, names of output types,
  version numbers as digits put side by side.

The full list, with lines, is the `hazards` of `PROJECT.json`. What makes each
component correct:

| component | properties |
|---|---|
| prefetch | no overflow; requests stable until granted and counted until answered; nothing stale after a redirect; the stream of instructions memory holds; never wedged |
| LSU | transfers stable until granted; in step with the bus; no response without an access; each access atomic with the first failing address; every access answered |
| pipeline and trap registers | one instruction after the other as far as software sees; interrupts only when nothing can fail any more; each branch redirects once and to its target; multi-cycle state never outlives its instruction; requests neither skipped nor lost; debug cause known |
| metadata | no record lost; the file comes last; scripts see what was recorded before them; as if each recorded in one step; nobody waits for ever |
| stages of a test | what a stage needs is recorded before its file is there; reports are made from judged logs; a test passes only with a log that passes; Make ends |
| scripts that compute | a log passes when its docstring says so; the tests asked for and allowed run, once per seed, and no others; a command that runs means what the yaml says, and is refused only where it means nothing; versions in order; every field reaches the simulator once; sources replaced only when nobody reads them any more |

## 2. Modules

| module | models |
|---|---|
| `InstrMemory` | instruction memory: which half-words start compressed instructions, which words fail, what instruction lies at an address |
| `InstrStream` | *abstract specification* of fetching: instructions in order from the last redirect |
| `Prefetch` | prefetch buffer, fetch FIFO, instruction bus, IF stage as consumer |
| `PrefetchProofs` | theorems about `Prefetch`, and that it implements `InstrStream` |
| `DataMemory` | data memory, accesses, what an access must do |
| `DataAccess` | *abstract specification* of the LSU: accesses are committed, complete once, in order, as a whole |
| `LSU` | load-store unit, PMP gate, data bus, handshake with ID and writeback |
| `LSUProofs` | theorems about `LSU`, and that it implements `DataAccess` |
| `Program` | instructions as what they ask of the pipeline; addresses of handlers |
| `Hart` | *abstract specification* of the pipeline: a machine that executes one instruction at a time and takes traps between instructions |
| `TrapCSRs` | trap and debug registers, one action per strobe of the controller |
| `Pipeline` | controller, ID/EX, writeback, PC of IF, composed with `TrapCSRs` |
| `PipelineProofs` | theorems about `Pipeline` |
| `HartProofs` | that `Pipeline` implements `Hart` |
| `MetadataStore` | *abstract specification* of the metadata: a value that is created once and to which scripts add |
| `Metadata` | `metadata.pickle`, its lock, the scripts that share it, alarms and kills |
| `MetadataProofs` | theorems about `Metadata` |
| `Regression` | Make, the four scripts of each test, the result in its pickle, the report |
| `RegressionProofs` | theorems about `Regression` |
| `UvmLog` | verdict on a simulation log and its trace |
| `TestList` | from the test list to the tests and seeds of a regression |
| `ToolCmds` | substitution in the commands of tools |
| `ToolReqs` | versions of tools and requirements |
| `SimOptions` | from a core configuration to the options of a simulator |
| `Sv2v` | conversion of sources in place |
| `Loops` | the loop over a list that keeps some of its elements; `TestList` and `SimOptions` use it |
| `Scripts` | composes the six modules of scripts: one of them runs, on one of its inputs; the assumptions on inputs |
| `LoopProofs` | lemmas about sequences, loops and flattening; no theorem about a component |
| `ScriptsProofs` | theorems about `Scripts` |
| `MCPrefetch`, `MCLSU`, `MCPipeline`, `MCMetadata`, `MCRegression`, `MCScripts` | constants of the runs |

### Prefetch

`valid_q` and `rdata_outstanding_q` are bit vectors in the RTL, filled from the lowest
free bit and shifted down; the model keeps them as sequences whose length is the
number of bits set (`fifo`, `outstanding`). A write that finds no free bit is lost, in
the model as in the RTL, so that overflow would be visible. `outstanding[i]` is the
discard flag. Addresses are half-word addresses and wrap. A word of memory is its
index; an instruction is the sequence of half-words it is made of, so that a wrong
combination of words is a wrong instruction.

`fresh` in the bus and FIFO entries is history: it says whether a word was requested at
or after the last redirect. It is what `FreshOnly` compares the discard flags with,
and nothing in the buffer reads it. `stored_addr_q`, `fetch_addr_q` and `instr_addr_q`
are not reset in the RTL, so `Init` leaves them arbitrary; the core redirects before
it fetches (`booted`).

`StreamSpec` is the refinement: `instr_addr_q` stands for the abstract `pc`, `last` is
the instruction IF took last.

### LSU

`S(in)` is the combinational process of the state machine: the next state, the three
flags and the set of registers to update as one record, one operator per state. The
bus accepts a granted transfer at once and answers in order; a word may answer with an
error (`mem.faulty`) or be denied by PMP (`mem.denied`). `gnt` is free even when no
request is driven: the state machine cannot tell and must not care. ID may take the
next access whenever the last was handed over, dropped, or flushed by an error, and
starts it when writeback is free or is being freed without an error.

A byte of memory stands for its own address and a byte of a register for its index, so
`Response(in)` shows whether the right bytes of the right words were assembled, and
`written` whether the right bytes went to the right lanes. Sign extension is
formatting of a value that is not modelled; the flag travels with the access.
`AtomicAccess` is the refinement of `DataAccess`.

### Pipeline and TrapCSRs

The configuration is the one with the writeback stage, without branch predictor, with
the branch target ALU and data-independent timing as constants. A program is a
function from a few addresses to instructions; an instruction is its class: loads and
stores that succeed or fail, an instruction that reads what a load writes (`use`), a
multi-cycle one (`mul`), a two-cycle ALU one (`bit`), CSR instructions that set or clear
`mstatus.MIE` or set `dcsr.step`, branches and jumps with a target, and everything that
traps, returns or sleeps. Inputs of a cycle say whether IF delivers (`accept`), whether
the unit ID waits for finishes (`done`), whether the LSU responds (`rvalid`), which
request lines are up, and whether fetching is enabled (`exec`). They are constrained
only by `Drivable`: the LSU responds only to an access in writeback, IF delivers only
when ID is ready, and in the run with `Steady` a line stays up until its handler or
debug mode runs, as level-sensitive sources do.

A fetch that fails on the bus or in PMP is the instruction `ferr`. `exception_req`
holds the three flags the RTL keeps under its assertions
(`exception_req_pending`, `expect_exception_pc_set`, `seen_exception_pc_set`).
`ExpectedUnlessGone` is what is true of the assertion over them,
`IbexSetExceptionPCOnSpecialReqIfExpected`: when the controller is back in DECODE, the
change of PC that was expected has happened, or else the request is gone, or the flush of
a `csrrs` came first and DECODE takes at once whatever is still requested. A program may
mask what is requested, or enable it, while the request stands; none is excluded.

`Precise` is the refinement of `Hart`. The mapping `arch` says which instruction
software has not seen the effect of: the load or store that writeback waits for or
that has just failed, else the one in ID if it has an effect to come, else the one IF
delivers next. A load may complete in the same cycle as the instruction behind it, so
`Hart` has a step of two instructions. An instruction that redirects fetching while an
older access may still fail is invisible until both are decided.

### Metadata

Of the contents only the set of scripts that have recorded something is kept: what
matters is whether a record survives the others' writes. `disk` is the state of the file:
`ExitOpen` is the `open(..., 'wb')` that empties it, `ExitDump` the dump, and a script
killed between the two leaves `partial`. Each `with LockedMetadata` is `Open`, `Lock`,
`Load`, `Body` or `BodyRaises`, `ExitOpen`, `ExitDump`, `Unlock`; the scope is left, and the
file written, also when the body raises. The alarm (`TimeOut`) is set before the lock is
asked for and cancelled after the load. The operating system releases the lock of a process that
ends (`Fail`). `Remake` is Make run again: scripts that succeeded have left their stamps,
the others run again; `create_metadata` does nothing once the file exists.

`StoreSpec` is the refinement: from the moment the file is opened for writing, its value is
the copy that is being written, and it is lost if the writer dies before the dump. That
is a loss the code allows, so the abstract specification has it (`Destroy`), but no way to
get back, and no step that takes a single record away.

### Regression

`stale` is Make's view of time stamps: for each test the stages whose file is missing or
older than a prerequisite. Writing a file takes its stage out and puts the next one in;
an export of the pickle takes `check` out, since it writes `trr.yaml`. `changed` is Make's
memory within one run: after the recipe of a stage Make runs the next one if the file has
changed, whatever the stamps of the others say. The two together decide (`Outdated`).
`compile_generated_test` and `run_rtl` export before their commands run, `run_instr_gen`
after `test.S` is there, `run_rtl` once more at its end. A simulation leaves any log of `Logs`, also when it
was killed; a simulator that could not be started leaves the log of before. `Interrupt`
kills everything: a pickle may be cut short, and Make may delete the log it was making.

`compare_passed` and `compare_mode` are the branches of `compare_test_run`: which of the two
fields each sets and which it leaves. In `MCRegression` the verdict on a log is not
chosen but computed, by `UvmLog`, from the lines of six kinds of logs. `sims`, `judged`,
`disturbed` and `halfway` are history; the last holds the tests that were killed between the
copy of `test.S` and its record, the one order in which a file is there before its path.

### The scripts that compute

`Scripts` runs one of them on one of its inputs, and the properties compare what comes out
with what the docstring of the function asks for, written without the order in which the
code does it (`Passes`, `Compatible`, `Means`, `AtLeast`). The inputs are constants, so
that `MCScripts` can give many small ones and the theorems speak of all. A log is a sequence of
lines, a line the set of things that are looked for in it. A test has the key `rtl_params` or
not, and any number of requirements under it; a requirement says how yaml writes it, since
the code looks at the Python type. A command is a sequence of
words, each a parameter or some text. A version is its form and its numbers. `Sv2v` is a
state machine: each conversion is a step that remembers which texts it read, and failures
and interruptions may come at every step.

## 3. Runs

`tlc -workers 2 -config X.cfg M`. Every run finishes within five minutes.

| run | cfg | bounds | states | shows |
|---|---|---|---|---|
| `prefetch` | `MCPrefetch` | 3 words (6 half-words), NUM_REQS 2 (FIFO of 3), two memories with compressed and straddling instructions and one or two failing words | 6.8k | `Fits`, `TracksBus`, `HoldsRequest`, `FreshOnly`; implements `InstrStream`; `Delivers` |
| `lsu` | `MCLSU` | 2 words, nine accesses of every size and alignment, every combination of failing and denied words | 12.9k | `HoldsTransfer`, `InStep`, `OnlyPending`; implements `DataAccess`; `Completes` |
| `pipeline` | `MCPipeline` | 196 programs of two arbitrary instructions in a loop, `csrrs` and `csrrc` of `mstatus` and `wfi` among them, handlers that return, interrupts and NMIs at any time | 77k | implements `Hart`; `PipeEmptyOnIrq`, `StartsAfresh`, `StandingRequest`, `ExpectedUnlessGone` |
| `pipeline_debug` | `MCPipelineDebug` | 100 programs with a breakpoint, a debug handler that asks for single step, and 60 with branches and jumps behind slow instructions; data-independent timing; interrupts and halt requests at any time; fetching enabled or not | 78k | implements `Hart`; `NeverDoubleBranch` |
| `pipeline_requests` | `MCPipelineRequests` | seven user programs, NMIs and halt requests that stay until taken | 13.4k | `CauseKnown`, `Served` |
| `branch_target` | `MCPipelineBranch` | no branch target ALU | violation | finding 1 |
| `metadata` | `MCMetadata` | four scripts with the lock, one without, two tests, MaxKills 1, Make run again any number of times | 22.8k | `NoLostUpdate`, `MetadataLast`, `SeesPrereqs`; implements `MetadataStore`; `Waits` |
| `regression` | `MCRegression` | one test, six kinds of log, any number of edits, failures, interruptions and runs of Make | 295k | `RecordedFirst`, `FirstVerdict`, `AllJudged`, `Finishes` |
| `stale_pass` | `MCRegressionStale` | the same | violation | finding 2 |
| `scripts` | `MCScripts` | logs of up to three lines, two tests with up to two requirements each, commands of two words with two options and a variable, three tools with VCS releases of three years and months, a field of every kind, five source files | 439k | `LogVerdict`, `RunsAsked`, `MeansWhatItSays`, `MeetsMinimum`, `FieldsOnce`, `FromSources` |
| `test_selection` | `MCScriptsTests` | the same | violation | finding 3 |
| `unused_variable` | `MCScriptsCmds` | the same | violation | finding 4 |

Why the bounds are enough for what can go wrong: two outstanding requests and one
ungranted one are the maximum NUM_REQS = 2 allows, a FIFO of three can be filled, and
six half-words are enough for an instruction to straddle into, and out of, a failing
word, and for addresses to wrap. An access touches at most two words. The pipeline
holds at most one instruction each in IF, ID and writeback, so every pair of
instructions in ID and writeback appears in `pipeline`, and the loop brings each pair in
both orders and after every trap. Counters do not occur in these modules; `epoch` and
`turn` are parities, so that liveness can speak of "one more" without a counter.

Two scripts race for the lock twice in `metadata` (before and after the test is
generated), with a reader beside them; the loss of a record needs two writers, the loss
of the value one kill. `MaxKills` bounds kills only: alarms, exceptions in bodies, failing
commands and repeated runs are unbounded. In `regression` tests meet only in Make and in
the report, which is why one is enough for TLC; the theorems hold for any number. Three
lines are enough for an error before, between and after two results. `FieldsOnce`,
`RunsAsked` and `MeansWhatItSays` speak of one field, one test and one word at a time, and
two of each meet.

Deadlock is checked except in the three runs of `MCScripts`, where a function returns and
nothing is left to do: a clock edge is always possible, and Make can always be run again.

Every property of a passing run has a mutant in `PROJECT.json`: a definition that models
code, changed as a plausible bug would change it (`Mut_...` next to the original), for
which TLC finds that property violated.

### Findings

1. `branch_target`: without the branch target ALU and with the writeback stage, a branch
   that waits in ID behind an outstanding access sets the PC from the result of the
   comparison (`rtl/ibex_id_stage.sv:704`), and cannot set it again.
2. `stale_pass`: when a log fails, `compare_test_run` (`check_logs.py:61`) sets the failure
   mode and leaves `passed` as it is. The pickle of a test that passed in an earlier run
   of Make keeps `passed`, and the report says PASS for a log with errors. What does hold
   is `FirstVerdict`: a test that was simulated once is reported as its log says.
3. `test_selection`: a requirement that yaml reads as an integer, such as the
   `PMPEnable: 1` of the PMP tests, is not compared with the configuration
   (`ibex_cmd.py:174`), so these tests run on configurations without PMP.

4. `unused_variable`: `subst_env_vars` raises for every variable a simulator lists that is
   not set (`scripts_lib.py:159-164`), before it looks whether the command uses it. Its
   docstring (`scripts_lib.py:155-156`) and that of `get_tool_cmds` say that one that
   occurs in the command has to be set. The `xlm` entry of `rtl_simulation.yaml` lists
   `dv_root` and `DUT_TOP`, which no command of it uses. `MeansWhatItSays` is the half that
   holds: what runs means what it says, and what means nothing is not run.

Read in the code while modelling it, and in the model where it says so, but stated by no
run:

- The assertion `IbexSetExceptionPCOnSpecialReqIfExpected` (`rtl/ibex_controller.sv:993`) is
  too strong. A request sets the flag that a change of PC is expected (line 965) in the
  cycle it is seen, although it is not yet taken. If a `csrrs` of `mstatus` completes in that
  cycle, the controller flushes and is back in DECODE without one; if a `csrrc` in front of
  `wfi` masks the request, or a branch leaves a breakpoint behind, the core sleeps and wakes
  without one. No request is lost: `ExpectedUnlessGone` says what does hold, in run `pipeline`
  and as a theorem. As an invariant of `MCPipeline` with `MCProgs` the assertion fails in
  five cycles, also with `Steady = TRUE`.
- `run_instr_gen` copies `test.S` before it records its path (`run_instr_gen.py:237`, 239).
  After a kill between the two Make takes the test for generated, and
  `compile_generated_test.py:71`, which reads that path, fails in every later run until
  the generator is edited or the file removed. `RecordedFirst` says that this is the only
  way in which a file is there without its record; `CompileRuns` waits for the record.
- A log that reports a failure without an error line makes `check_ibex_uvm_log` raise a
  `TypeError` (`ibex_log_to_trace_csv.py:245`); it is the verdict `"crash"`, `CheckFails` stops
  Make, and the test appears in no report.
- The mode TIMEOUT stays in the pickle: a test that once timed out fails in every later run
  (`check_logs.py:36`); `compare_mode` has it.
- VCS versions are not ordered across the months of a year
  (`check_tool_requirements.py:260`): 2020.12 becomes 2020.120 and 2020.03-SP2 becomes
  2020.3200, so the later release is refused, and the other way round an older one with a
  service pack is accepted. `MeetsMinimum` speaks of all releases but such pairs
  (`SameOrder`), and the theorem `LaterRefused` of what happens to them.
- A test with two requirements that are met is added twice (`ibex_cmd.py:182`), and would
  run each seed twice; a test with the key `rtl_params` and nothing under it is never added.
  `RunsAsked` names both; `testlist.yaml` has lists of one, and no empty ones.
- The options of `dsim` are asked for under a name that no output type has
  (`ibex_cmd.py:75`), which is refused; `FieldsOnce` says so.
- A pickle that cannot be read, or that lacks a path, keeps `collect_results` from writing
  any report (`collect_results.py:169`); `Collect` does the same.

### Fairness

- `Prefetch`: a request that stays is granted, a granted one is answered, the core keeps
  asking for and taking instructions. These are what the bus protocol
  (`doc/03_reference/instruction_fetch.rst`) and a running pipeline provide. `Delivers`
  assumes that redirects stop. Each assumption is weak fairness of a cycle *without* a
  redirect, so fairness never forces one.
- `LSU`: the bus grants a transfer that is driven and answers one it granted; and when PMP
  has denied a request (`pmp_err_q`), the clock runs although the bus does nothing
  (`Denied` with `gnt` low). `Completes` therefore shows that a denied half moves on by
  itself.
- `Pipeline`: the clock runs, IF delivers when ID is ready, units finish, the LSU responds.
  The first is the clock, the others are `Delivers` and `Completes` of the other two
  modules. No fairness is assumed of request lines: the clock is fair where no line changes
  (`Calm`), or a halt request would have to come and wake the core. `Served` speaks of a line
  that stays.
- `Metadata`: the alarm of 5 seconds goes off while a script waits for the lock or loads,
  and a script that is leaving its scope gets through with it. Nothing is assumed of bodies
  (`compile_tb` runs other programs in its body) nor of the lock: `Waits` holds although the
  one that has it may hang.
- `Regression`: Make goes on, and scripts and the tools they call end, each of them one way
  or another. Simulations need not end by themselves (`Simulates` has no fairness); their
  timeout goes off (`SimTimesOut`, `run_rtl.py:101`). `Interrupt`, `Edit` and `StartMake` have
  no fairness.

## 4. Proofs

`tlapm` proves the theorems below for every value of the constants that satisfies the
named assumptions: any positive number of words, any set of memories, any positive
NUM_REQS, any set of accesses; any positive number of addresses, any programs, any
placement of handlers and of the breakpoint, any inputs, both values of the
configuration constants; any sets of scripts and tests, any prerequisites, any bound on
kills; any set of logs and any verdicts on them; any inputs of the scripts that the
assumptions of `Scripts` allow; any lists of source files.

**PrefetchProofs.** `IInv == TypeOK /\ TracksBus /\ Room /\ HoldsRequest /\ FreshOnly` is
inductive. `Fits`, that an answer to keep finds a free entry, is not inductive: it rests
on `Room`, which counts entries, outstanding requests and the waiting request together,
and which holds because a new request is made only below DEPTH. `FreshOnly` needs
`TracksBus`, since the i-th flag must belong to the i-th request on the bus. Theorems:
`TypeCorrect`, `NeverOverflows` (`Fits`), `NothingStale` (`FreshOnly`), `KeepsBusProtocol`
(`TracksBus`) and `RequestHeld` (`HoldsRequest`).

That `Prefetch` implements `InstrStream` is the second part. `InOrder` extends `IInv`: the
first `d` outstanding answers are to be discarded, for some `d`, and the words in the FIFO,
of the other outstanding requests and of the waiting request, if that one is to be kept, are
those behind the address of the next instruction, one after the other without a gap;
`fetch_addr_q` is the word after them. Before the first redirect all of them are empty, and
the addresses are arbitrary. Addresses wrap, so the proof rests on lemmas about sums modulo
the number of words. A clock edge with a redirect discards all there was
(`RedirectInOrder`); one without moves words along the chain, and IF takes from its head
(`GoesOnInOrder`). With `InOrder` the half-words IF takes are those memory holds at its
address, so that every edge is a `Redirect`, a `Deliver` or a stutter. Theorem:
`ImplementsStream` (`StreamSpec`).

**LSUProofs.** `Inv == TypeOK /\ Serves /\ SecondHalf /\ KnowsDenial /\ InStep /\
OnlyPending /\ HoldsTransfer`. `Serves`: outside IDLE the unit works for the access in ID
and writeback waits for none. `SecondHalf`: `handle_misaligned_q` is set exactly where
the second half is asked for. `KnowsDenial`: while a grant is awaited, `pmp_err_q` says
whether the request is really driven. The last one is what makes `InStep` inductive: an
answer is expected only for what was driven. Theorems: `TypeCorrect`, `CountsAnswers`
(`InStep`), `NoStrayResponse` (`OnlyPending`), `KeepsTransfer` (`HoldsTransfer`).

That `LSU` implements `DataAccess` is the second part. `AInv` extends `Inv` by what each
state knows of the access it serves: nothing of it is done before the first grant
(`Untouched`); while the second half is asked for, the first is on the bus or denied
(`HalfAsked`), or its word and its failure are kept (`HalfDone`); both halves have left
(`BothAsked`); and what writeback waits for is done but for the last answer (`AllButAnswer`:
`ctrl_q`, `rdata_q`, `addr_last_q`, `lsu_err_q`, `pmp_err_q`, the word on the bus and the
bytes written are those of the access). `FirstStore`, `SecondStore`, `WrittenWhole` and
`DataWhole` show that the byte lanes of the halves make up the bytes of the access, also
where it wraps around; `Answers` that the response is the result of the whole access. So
every clock edge commits an access, completes one, does both or neither. Theorem:
`ImplementsAccess` (`AtomicAccess`).

**PipelineProofs.** `Inv` says where the controller can be while ID or writeback still hold
something: `Quiet` (outside DECODE writeback waits for nothing), `Empty` (ID is empty in
all states but DECODE and FLUSH), `ErrorSeen` (a failed access is seen in FLUSH only),
`Outside` (a debug request seen in FLUSH came outside debug mode), `StartsAfresh`. The
parts need each other: `Quiet` rests on a failed access leading to FLUSH at once, and
`ErrorSeen` on writeback being quiet there. Theorems: `TypeCorrect`, `MultiCycleEnds`
(`StartsAfresh`), `InterruptsWait` (the action property `PipeEmptyOnIrq`), `BranchesOnce`
(`NeverDoubleBranch`: an instruction that leaves ID leaves it empty, and one that stays has
its `branch_jump_set_done_q` set), `RequestsStand` (`StandingRequest`, from `Empty` and
`Quiet`: outside DECODE nothing is left that could change the registers a request is
decided by), and `KnowsCause` (`CauseKnown`, for request lines that stay up: `StillAsked` and
`AboutToSave` carry the request from the cycle it is decided in to the one that saves its
cause).

The last section proves `SetsExpectedPc` (the action property `ExpectedUnlessGone`) for every
program and every behaviour of the lines. It needs that FLUSH has a reason (`Reasoned`: a trap
or a return, which change the PC, or `wfi` or `csrrs`, which do not), and, for lines that stay
up, that an interrupt which is being taken is still there (`Handling`). `ReturnsWithPc` goes
through the states from which the controller enters DECODE. The case of `csrrs` rests on
`FlushEmpties` and `EmptyTakes`: FLUSH leaves ID and writeback empty, and with both empty
DECODE takes a request at once, since nothing is left to wait for or to flush for.

**HartProofs.** That `Pipeline` implements `Hart` (`ImplementsHart`, the property `Precise`):
every clock edge is a step of `Hart` in which one instruction, or two, execute, a trap or
debug mode is taken between instructions, or nothing happens that software sees. `PreciseInv`
is what is needed beyond `Inv`: `InOrder` (ID holds the instruction after the one in
writeback, IF the one after ID's or the target to which it has been redirected),
`Redirecting` (the flops of a branch speak of the branch in ID), `Flushing` and `Taking` (what
FLUSH, IRQ_TAKEN and the debug states act on was registered a cycle earlier and is still
true), and `Stepping` (under single step nothing follows into ID). It is a theorem of its
own, `StagesInOrder`. The refinement has one lemma for each kind of edge: `ErrorEdge` and
`ExceptionEdge` for accesses and instructions that trap, `WaitEdge`, `BubbleEdge`,
`KeepsEdge`, `IdleEdge` and `FlushStutters` for those that software does not see, `DoneEdge`
for instructions that end (two of them where a load gets its answer as the one behind it
ends), `MretEdge` and `DretEdge`, and `InterruptEdge`, `DebugEdge` and `EbreakEdge`. Both
theorems assume `TargetsKnown`: the core has a branch target ALU, or programs have no branches.
Without it they are false, which is finding 1.

**MetadataProofs.** `IInv == TypeOK /\ Exclusive /\ Creating /\ Copies /\ Recorded /\
MetadataLast`. `Exclusive`: a script in its scope has the lock, so there is one. `Creating`:
nobody uses the file while it is created. `Copies` is what makes "no record lost"
inductive: what the script with the lock has in memory is what the file holds, plus at
most its own record, from the load to the end of the write. `Recorded` speaks of `saved`
also while the file is not whole, since a writer that gets through puts it back. Theorems:
`TypeCorrect`, `RecordsKept` (`NoLostUpdate`), `FileLast` (`MetadataLast`), `PrereqsSeen`
(`SeesPrereqs`, with the invariant `Started`: whoever has started has all prerequisites done, and
for readers the argument needs that a file that is whole holds all records), and
`ImplementsStore` (`StoreSpec`): initial states map to initial states, and every step to a
`Create`, a `Record`, a `Destroy` or a stutter.

**RegressionProofs.** `Recording`: a script has recorded its paths while it makes its
file, which makes `RecordedFirst` inductive; for `test.S` it says who has copied it and not
yet recorded it, or was killed there. `First`: before its first simulation a test has
not passed, while it runs nothing is judged, and afterwards `passed` and the report speak
of the log that is there. The proof is where the two other branches of
`compare_test_run` are needed, and where it shows that after a second simulation nothing
of the kind holds. Theorems: `TypeCorrect`, `RecordedBefore` (`RecordedFirst`),
`FirstVerdictHolds` (`FirstVerdict`), and `ReportsJudged` (`AllJudged`, with the invariant
`Following`: the log of a test is judged, or it is not there yet and Make holds its
simulation for out of date, or it is new and Make knows that it changed).

**LoopProofs.** What a loop over a list computes, for lists of any length. The library
states induction over the naturals for a predicate, which no installed prover can
instantiate. `NatSet` states it for a *set* instead: a set that contains 0 and the
successors of its members contains every natural number. It follows from the library's
`NatLessThanWellFounded` and `WFMin`, which are about sets too. `SeqInduction` is the
same for sequences that grow at their end. The community
modules define `FoldLeft` by a recursive function over sets of indices; `IterExists`
proves that this function exists and what its steps are, and `KeptNext`, `FlattenSteps` and
the lemmas `...Steps` of `ScriptsProofs` turn each fold into "what the loop has after its
first n elements", one lemma per loop. `FlattenFacts` says where each element of a
flattened list comes from. `Expand` is a word-by-word replacement, and `ExpandConcat` and
`ExpandTwice` say that it distributes over concatenation and that one after the other is
one by the composed map.

**ScriptsProofs.** `Computed`: what a script that is done has put out is what it computes
from its input. The rest is about the functions.

- `VerdictOnLogs` (`LogVerdict`): `Seen` is the invariant of the scan, what its state says of the
  lines before n: whether there was a result, which, and whether an error came before it.
- `ToolsMeetMinimum` (`MeetsMinimum`): the digits of a month with those of a service pack and a
  patch behind them are ordered as the three numbers are, although the number of digits
  differs, as long as the later month has at least as many (`SameOrder`): comb grows with
  the digits it takes, and service pack and patch are below 100.
- `LaterRefused`: where it has fewer, because the later release has no service pack and no
  patch, the order is the wrong one, whatever the months are.
- `FieldsReachOnce` (`FieldsOnce`): `TimesGiven` counts the options a field gives in one output,
  `StagesOf` says which output types the two stages ask each simulator for.
- `RunsWhatIsAsked` (`RunsAsked`): the scan of the requirements of a test, of any number, gives
  it one copy for each requirement up to the first that is refused, so one that is allowed has a
  copy, and one whose first requirement is refused has none; the seeds of
  different tests have different names (`SeedFacts`), so in the flattened list of seeds only
  copies are equal. That every test run is allowed is not part of it: finding 3.
- `CommandsSayWhatIsMeant` (`MeansWhatItSays`): a `subst_dict` replaces each word by `First` of the
  dictionary, the first entry of its name, because nothing it brings in is a parameter of
  the same dictionary (`SubstFacts`); three of them are one expansion (`ExpandTwice`), by
  what the word means (`MeaningOf`). A parameter that means nothing, or is a variable
  that is not set, is refused by one of the two checks of the code. That no other
  command is refused is not part of it: finding 4.
- `ConvertsSources` (`FromSources`): `Progress` says that files before `idx` are done, those
  behind it untouched, and that no header is touched before all files are.

The assumptions on inputs are named in `Scripts`, and TLC evaluates them for the inputs of
the runs. `LogAssumption` is a type. `TestAssumption`: tests have different names; they may
have any number of requirements. `CmdAssumption`: no option refers to another, nor does what
the user gives to the environment or to itself, as in `rtl_simulation.yaml`, whose options
use paths of the user and variables only; keys of a dictionary are different in Python.
`ReqAssumption`: a requirement is written in the form of its tool; the versions installed are
any. `OptAssumption`: the fields of `Config.known_fields` have different names.

Every invariant and every action property that a run checks, and each of the refinements, is
stated by a theorem. Model-checked only: liveness (`Delivers`, `Completes`, `Served`, `Waits`,
`Finishes`), which is beyond the prover, and the four violations of section 3, which are
statements TLC refutes.

## 5. Not modelled, and why

- Values of registers, the ALU and the decoders: data; the control does not depend on
  more of them than the classes of `Program`.
- Integrity checks (MemECC), internal NMIs, lockstep, dummy instructions: features of
  the security configuration, which come with state of their own.
- The configuration without writeback stage, the branch predictor, the instruction
  cache: alternatives to what is modelled; planned.
- PMP matching, counters, other CSRs: planned as operators or small components.
- Clock gating: needs the pipeline, prefetch buffer and LSU together; planned.
- Of the scripts: the YAML copy of the metadata and the directories and options in it
  (fields nobody races for); coverage targets and their databases, the layout of reports and
  the JUnit files, colours and logging (formatting); the relocation of riscv-dv's commands
  and the conversion of operands for its coverage flow (strings for another tool); the
  outputs of `ibex_config` for FuseSoC and for queries.
- Test benches, tracer, self-test programs, fault-simulation scripts, synthesis, lint and
  documentation: checkers of the core, generated results, or single passes over the output
  of a tool without state of their own. Vendored code, riscv-dv among it, is external; of it
  only `process_regression_list` is modelled, from how the scripts use it.

## 6. Plan

Done, in this order: fetching (`Prefetch` against `InstrStream`), data accesses (`LSU`
against `DataAccess`), the pipeline with trap registers (`Pipeline` against `Hart`), the
metadata of a regression (`Metadata` against `MetadataStore`), its tests (`Regression` with
`UvmLog`), the scripts that compute and `Sv2v`, and proofs of every safety property and
refinement the runs check. Next:

1. The configuration of the pipeline without writeback stage, in which an access stalls
   ID until its response.
2. `Pipeline`: internal NMIs and `mstack` with them, the remaining exception-related CSR
   writes, the branch predictor and the skid buffer of the IF stage.
3. `ICache`: fill buffers, lookup, invalidation with two lines, shown to implement
   `InstrStream` through the same mapping as `Prefetch`.
4. `Sleep`: `core_busy`, `clock_en` and wake-up over the busy signals of the prefetch buffer,
   the LSU and the controller; nothing outstanding when the clock stops, every wake-up
   seen.
5. Pure functions: PMP matching and permissions against the tables of the specification,
   division of `ibex_multdiv_slow` over few bits against `/` and `%`, expansion of compressed
   instructions.
6. `Counter` with its two-part writes at a small width, the timer and the bus of the
   example system.
7. Theorems: the invariants of the new components; what the abstract specifications promise
   by themselves, carried over to the detailed ones through the refinements.
