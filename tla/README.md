# A TLA+ verification of MLDebugger

MLDebugger steps a machine-learning design through the AI-engine (AIE) cores of
an NPU, layer by layer and iteration by iteration, and dumps the buffers at each
stop.  This directory holds TLA+ modules that model its control, TLC
configurations that check them on small designs, and proofs for designs of any
size.  Paths below are relative to the repository root (`src/mldebug/...`).

## The system

The design is a list of *layers*.  An overlay `BxSxCxR` lays out `B` batches of
`S` *stamps*; stamp `s` of batch `b` is the *replica* (`sid`) `b*S + s`.  A layer
may run on fewer stamps than the overlay has, so stamps to the right sit layers
out.  Each replica runs superkernels out of ELFs; between two layers its program
memory may be *reloaded*.  The debugger knows the entry PC of each superkernel
and stops the cores there with PC events.

| Component | State | Operations | Hard behaviour |
| --- | --- | --- | --- |
| Batch runner (`batch_runner.py`) | armed and reload flags, active replicas, error flag | `schedule_layer_start`, `run_layer`, `_run_stamp` (one thread per replica), `check_pm_reload`, `execute_and_dump` | breakpoints set layers ahead, cores running between any two steps, worker threads that share `state.error`, waits that give up |
| Debug state (`debug_state.py`) | current layer, iteration, breakpoints | `update_layer`, `get_next_layer_for_stamp`, `add_breakpoint`, `exec_index` | `layer_order` is not the execution order |
| Interactive controller (`interactive_controller.py`) | `continue_to_finish`, pending breakpoints | step iteration / layer, add breakpoint, continue | any sequence of commands, loops that must return |
| AIE access (`aie_util.py`, `backend/xrt_impl.py`) | debug registers of the cores | PC breakpoints, combo event, performance counter, `pcs_match_target`, `initialize_stamp` | a PC means another instruction after a reload |
| Overlay (`aie_overlay.py`) | layout | replica arithmetic, tiles | batches times stamps |
| Layer metadata (`layer_info.py`, `work_dir.py`, `mladf_report.py`) | layers, entry PCs, ELFs | reading build output, ordering layers, iteration counts | several sources that disagree |
| Memory dumper (`memory_dumper.py`) | output directory | L1, L2, L3 dumps | which iteration a buffer belongs to |
| Debug server (`debug_server.py`, `utils.py`) | sockets to flexmlrt | request / acknowledge, termination | the other side may close, answer late or never |
| Command line (`mldebug_cli.py`, `input_parser.py`) | the options, rewritten in place for each partition | find the device and its variant, the overlay, the run flags; loop over the partitions | one partition starts from what another left in the options |
| Manual commands (`client_debug.py`, `interactive_prompt.py`) | tracked PC events | manual breakpoints, register reads | share slot 0 with the scheduler |
| Kernel reports (`extra/calltree.py`, `extra/kernel_info.py`) | none | call graphs and trees of a kernel | shared functions, cycles, tail calls |
| Core dumps (`core_dump_impl.py`, `arch/device_configs.py`) | an open file | where a register or a buffer of a tile is; how many columns the file holds | geometry of five devices, headers, files cut off |
| Status and guidance (`aie_status.py`, `extra/aie_guidance.py`) | none | decode registers into text | none |

What makes them correct:

- the debugger never loses a core: what its flags say of a replica (armed,
  reload pending, breakpoint address) agrees with where the core is;
- what it reports and dumps at a stop belongs to the iteration it names;
- replicas are kept in step: nothing of a later layer is seen before an earlier
  layer is through, and success means that all of it was seen;
- a hang that any thread detects fails the run;
- waits end; replicas that are through do not block the others; at the end every
  core runs on to its end;
- flexmlrt is never left waiting: a dump that counts as done was carried out, and
  every way out of the program says that the session is over;
- every partition is debugged as the device it was built for, and what is read of
  a core dump is the word that the tile held.

### How the parts interact

- The command line settles the options of a failsafe partition, then runs one
  `ClientDebug` for it; the next partition starts from the options as they are now.
  `ClientDebug` reads the
  design (`LayerInfo`, `WorkDir`, `MladfReport`), makes one backend per replica,
  and either lets `BatchRunner.execute_and_dump` run or opens the prompt, whose
  commands go to `InteractiveController`.
- Batch mode and interactive mode drive the cores with the same two primitives:
  `schedule_layer_start` brings every replica of the current layer to its start
  and arms the others ahead of time; `run_layer` steps the active replicas, one
  worker thread each.  All of them share one `DebugState`.
- The cores run between any two steps of the debugger.  What the debugger knows
  of them is the halt bit and the PC; what it tells them is the address in a PC
  event, the event that halts, and "continue".
- With L3 dumps, each partition has a `DebugServer`; flexmlrt connects to it,
  carries out the requests and must be told when the session is over, on every
  way out of the program.

## Modules

| Module | Models | State and actions |
| --- | --- | --- |
| `Schedule` | overlay arithmetic, `debug_state.get_next_layer_for_stamp`, the `skip_iter` rule | constants: the design (stamps, iterations, kernels, ELFs and entry PCs of each layer) |
| `AieCores` | the cores and debug registers as `aie_util.py` and `backend/xrt_impl.py` use them | `at` (last superkernel start), `halt`, `bp` (PC event 0), `mode` (DEBUG_CONTROL1), `edge` (combo), `count` (performance counter); `CoreStart`, `CorePostLayer`, `CoreAlias` |
| `StampScheduler` | `schedule_layer_start`, `run_layer`, `_run_stamp`, `check_pm_reload` | main thread `phase`; `ScheduleLayerStart`, `ContinueArmed`, `PollStamps`, `VerifyStamp`, one action per step of a worker (`Thread...`), `JoinLayer` |
| `StampTracking` | no code: what the controllers know of the replicas | `MainTracking`, `ReplicaSeen`, `Tracked`, `CoreTracking`: the predicates that both controllers complete to their inductive invariants |
| `BatchRunner` | `execute_and_dump` | `RunWholeLayer`, `AdvanceLayer`, `FinishRun`; the properties of a batch run |
| `MemoryDumper` | `memory_dumper.py` and `_process_start_breakpoint`, VAIML flow, composed with `BatchRunner` | `files`, `requests`; every step of a batch run also writes what its start breakpoints dump |
| `LockStep` | no code: what a run promises | `seen`, `status`; `Observe`, `Succeed`, `Stop` |
| `InteractiveController` | `interactive_controller.py` over the same primitives | user commands (`UserStepIteration`, `UserStepLayer`, `AddBreakpoint`, `UserContinue`, `UserFinish`) and the two loops of `continue_execution` |
| `DebugServer` | sockets of `debug_server.py`, flexmlrt | `port`, `client`, two message queues, `peer`; connect, serve, die, notice |
| `CoreDump` | `arch/device_configs.py`, `core_dump_impl.py` | pure: devices, variants, header, file positions, reads, counting of columns; `TileStart` is where the (external) writer put a tile |
| `Launch` | `check_args`, `set_device`, `set_coredump_overlay`, `create_run_flags`; the tiles of a standalone session and their status | `line` (what was typed and what it finds), `args` (the namespace); operators that rewrite `args` |
| `DebugSession` | `mldebug_cli.py`, `client_debug.py`, `utils.py` over `DebugServer` and `Launch`: a run over all partitions, what it reads of a core dump, and every way out | program counter `pc`; one action per step between waits |
| `Disassembly` | the two listing parsers of `work_dir.py` | pure: functions of the lines read so far; `Disassemble` is the inverse they are compared with, `TrueTo` what they must recover |
| `MladfReport` | which compiler layers, cores and iterations make up a layer | pure |
| `LayerInfo` | from build output to the execution list the controller works on | `stage`; `InitLayers`, `ParseElfs`, `MapL3Buffers`, `TrimLayers`, `ResolvePcs`, `SkipIterations` |
| `KernelTree` | `extra/calltree.py`, `extra/kernel_info.py`, over the functions that `LayerInfo` has found | `shown`; the two commands that print trees |
| `StampTracking_proofs`, `BatchRunner_proofs`, `InteractiveController_proofs`, `MemoryDumper_proofs`, `DebugSession_proofs`, `CoreDump_proofs`, `Disassembly_proofs`, `LayerInfo_proofs` | theorems and their lemmas; the first holds the lemmas about the primitives that the two controllers share | |
| `MCBatchRunner`, `MCMemoryDumper`, `MCInteractive`, `MCSession`, `MCLayerInfo` | designs and modes for TLC | |

`LayerInfo` and `Schedule` meet in the execution list: what `Preparation` shows
of the former (right order, true PCs, true stamp counts, safe skipping) is what
the constants of the latter assume.

### Abstractions

- The tiles of one replica run in lock step and are one core.  A halted core is
  read at the PC it halted at; the cycles that a PC lags behind its event, and the
  single steps that make up for them, are left out.
- Only starts of superkernels, the lock acquire after a layer, and addresses a
  reload makes ambiguous are PCs.  `RunningPc` says which of them a core that runs
  may be read at: the start it passed last, the lock acquire, the ambiguous ones of
  its ELF; anywhere else it is near no target.  A PC is a number because
  `PcsMatchTarget` accepts what `pcs_match_target` accepts: any core near the target
  (exactly there, or within 32 if it was armed across a reload), whether it is halted
  or not, and a halted one that is ahead of it.
- The prompt never leaves at a layer: `exit_at_layer` is looked at after the return
  of interactive mode (`batch_runner.py:340`), so the designs of interactive mode
  have none (`InteractiveAssumption`).
- A start breakpoint is the only one a worker stops at: the branch for the end PC
  (`batch_runner.py:417-419`) is left out, as the flag for end breakpoints is
  disabled in `mldebug_cli.py`.
- A replica whose last layer is over holds its locks until it runs out, and a
  neighbour in its batch does not get through a reload before that
  (`HeldBack`): this is what `run_layer` releases finished replicas for
  (`batch_runner.py:453-464`).
- A wait that gives up is a constant (`MayTimeOut`).  With it a wait may end at any
  moment, in whatever state the core is, and a core that runs may be taken for a
  stopped one; the runs with it show what a hang does and that the run ends all the
  same, the runs without it that the rest is true and completes.
- In `BatchRunner` a processed start breakpoint is an observation: `seen` changes
  exactly there.  `MemoryDumper` adds what is written at each: a file is its path
  and, for each piece of tile memory read, the iteration the owner of the tile was
  halted at.  A column stands for its memory tile and its core tiles, and the
  debug server is there whenever an L3 buffer is asked for.  The entries of a
  templated graph have distinct names: the name of their file has nothing else to
  tell them apart, while the report keeps two of one name at different places
  (`mladf_report.py:102-109`).  Logs are left out.
- A word of a core dump is named by its place in the file, so that a read is true
  exactly when it comes from the place the tile was written to.  One register per
  architecture (`CORE_STATUS`) stands for all that are read of a tile.  The C++
  reader of core dumps is external and not modelled.
- Reading the status of live cores changes nothing and is left out.
- A call tree is the list of its nodes in pre-order with their depths; equal trees
  of several stamps are not grouped.  Symbols of an ELF are distinct.  Call trees
  are modelled for LLVM listings, kernel trees for both compilers; the
  map file is written, by an external compiler, from the same program.
- The names of failsafe partitions are distinct.  The process exits by closing its
  sockets; objects that nothing refers to lose theirs.
- A stamp's listings are of one compiler: a Chess listing that is missing, after
  which all further ones are read as LLVM listings (`work_dir.py:359-363`), and a
  session without a work directory are left out.  No program starts at address 0,
  which `_find_next_pc` takes for no instruction (`work_dir.py:296-301`).
- Names, paths, formats and sizes are left out; kernels, ELFs, graphs and
  buffers are small values.

## Runs

| Run | Design and bounds | Shows |
| --- | --- | --- |
| `BatchTimeOuts` | 1 batch of 3 stamps, 4 layers, reload, waits that may give up at any moment, exit at layer 3 | a hang that a worker saw fails the run; a finished stamp runs out; every run ends |
| `BatchTwoBatches` | 2 x 2 replicas, 4 layers, reload, no time-outs; code of the old ELF at the address of a next start; a stamp that sits out a layer and is finished before the end; a layer of 4 iterations and 2 transfers of its input, a templated graph; buffers inside a tile, up to its end and across columns | a stamp armed early across a layer and a reload waits at its start; what the controller knows and reports is true; the run completes, replicas stay in step; a file holds what its path says, every transfer of the input is dumped, L3 buffers are asked for in turn |
| `BatchSkipIter`, `BatchSkipIter2` | 2 x 2 replicas, 4 layers of up to 3 iterations | with the performance counter, reports are true and the run completes; with breaks on the lock acquire, replicas stay in step and the run completes |
| `Interactive` | 2 stamps, 3 layers, up to 2 pending breakpoints, any commands | stops are true, no breakpoint is passed, `continue` returns, finishing completes |
| `Session` | 2 partitions, up to 2 requests; 58 commands: every combination of `-l3`, `automated_debug` and interactive, scripts and single commands, the reports that leave at once, partitions without metadata, the test backend; core dumps of every device, whole and cut off inside a header, a column, a tile or a word, raw, with a wrong or unknown header, and with overlays that do not fit.  flexmlrt may die at any time | an acknowledged dump was carried out, nothing is lost while flexmlrt lives, it is told on every way out, partitions keep to their connection, the session ends; status and memory of a core dump are the words of the tile, the columns counted are there |
| `Preparation` | three layers and two ELFs: all schedules of four compiler layers, all placements of kernels, all stamp counts of 1 or 2 batches, the layout given by the metadata or by the widest layer, all function bodies of up to three instructions in both listing formats, all call graphs of a kernel with up to two calls and two other functions with up to one, with and without tail calls | execution order, PCs, stamp counts, skip rule and function ends are the true ones; kernel and call trees show what the program calls |

Five more runs have the violation as their result; each is a finding:

| Run | What it shows |
| --- | --- |
| `BatchSkipHang` | in the skip modes each worker *assigns* `state.error`, so a worker that succeeds later erases a hang (`batch_runner.py:400`) |
| `InteractiveSpin` | a breakpoint at an iteration the layer has not got makes `continue` loop at the end of the design (`interactive_controller.py:208`) |
| `InteractiveBatches` | `step_layer` recomputes the reload state of the first batch only (`interactive_controller.py:110`) |
| `SessionVariant` | the first partition stores the base device in `args.device`, where the next takes it for the user's choice: from the second partition on a t20, even one named with `-d`, is debugged as telluride (`input_parser.py:318`) |
| `SessionEarlyExit` | an early exit in a later partition closes the closed server of an earlier one and offers no brief server (`utils.py:411`) |

Why the bounds are enough: a batch needs a stamp that takes part, one that sits
out and comes back and one that is finished; two batches need one stamp besides
the leftmost; early arming needs one layer in between, a reload one layer on
either side; a stale flag shows one layer later.  Iterations differ from layer
to layer and include 1.  `MaxBreakpoints` = 2 gives a breakpoint to go to and
one still pending; `MaxRequests` = 2 an answer that could be mistaken for that of
another request; two partitions a server, and a namespace, that is left over.  A
kernel that is reached on two paths and a cycle through the kernel take three
functions.  The dumps cover all the geometries there are, as each device is in the
table; a file is cut at 0, 3, 4 bytes, in a register, and one byte short of a tile.

Deadlock is not checked: a run, a session and the preparation stop.

### Fairness

- Batch and interactive mode: weak fairness of the main thread and of every
  worker (the interpreter schedules all of them, none holds a lock while it
  waits) and of every core that runs (`CoreStart`, `CorePostLayer`; that it meets
  an ambiguous address is not required).  The user owes nothing.
- Session: weak fairness of the debugger and of flexmlrt connecting, answering,
  and noticing that the debugger is gone.  It may die at any time, and need not.

### Assumptions of the preparation

What the several inputs say of one layer has to agree with what happens on the
device where the code has nothing else to go by.  `LayerInfo` states this as four
assumptions on `Designs`, which `Preparation` evaluates and the theorems use:

| Assumption | Says |
| --- | --- |
| `MetadataAssumption` | `buffer_info` lists the layers by `layer_order`; counts are natural numbers |
| `StampAssumption` | stamps take part from the first on; the count of `buffer_info` is that of all batches, or the report describes every stamp (or only one stamp is debugged); the kernel and the iterations of a plain layer are those of `buffer_info` |
| `ReportAssumption` | the entries whose graphs match are those of the layer, where an exact match leaves the choice to them; the cores they describe run what the stamps run; the repetitions add up to the iterations |
| `ElfAssumption` | a stamp has the ELF it runs a supported kernel from, the kernel is in it and, in an LLVM listing, is not the function whose end is lost; of several ELFs, those that hold one of the layer's compiler layers are the one it runs from; `main` acquires before it returns |

They leave open what the properties are about: the order of the entries of the
report, gaps and interleavings of compiler layers, layers the report does not know,
names that overlap, counts over one or several batches, the order in which ELFs
are found, kernels of one name in several ELFs and several instantiations in one.

## Proofs

`tlapm` proves every theorem to the last leaf.  "For every design" means: from
`ScheduleAssumption` and `CoreAssumption` alone, or, for the preparation, from the four
assumptions above.

### Batch runs

| Theorem | Says |
| --- | --- |
| `TypeCorrect` | `Spec => []TypeOK` |
| `BatchImplements` | for every design and in every skip mode, a batch run implements `LockStep`: nothing of a later layer is reported before an earlier one is through, and success means that all of it was |
| `TrackingCorrect` | in a `Tracked` design `Spec => []Tracking` |
| `ArmedCorrect` | ... a replica armed ahead of time never passes its start |
| `ObservationsTrue` | ... every start breakpoint is processed with the core at that very iteration |
| `HangDetected` | without a skip mode a hang any worker saw fails the run |

`BatchImplements` maps `phase` to the status of `LockStep` and keeps `seen` as it
is.  A worker's processed breakpoint is an `Observe`, the end of the run is
`Succeed` or `Stop`, every other step stutters.  That each observation is the next
one of its replica, and that no other replica is behind, takes three invariants:
`MainTracking` (which replicas the main thread and the workers are about),
`WholeLayers` (a layer is run to its last iteration) and `SeenTracking` (what each
replica was last observed at, phase by phase).  None of them looks at the cores, so
nothing is assumed of what the cores do.

`ArmedNeverOvershoots` is not inductive: whether a replica stops at its next
start depends on its breakpoint, on the event that halts it, on whether a
reload is expected and on which worker moves it.  `Tracking` says all of this,
phase by phase.  A replica with a layer left is *waiting* (halted where its last
layer left it), *armed* (its breakpoint is the next start, in the mode the
reload asks for, running or stopped there), *verified*, *stepped* by its worker,
or *stepped through*; finished replicas are not armed.  The proof has one lemma
per action, and a lemma for the step of a core that is armed and for one that is
being stepped; replicas that the action does not touch keep their state by a
frame lemma.  `Tracked` is what the invariant needs: no skip mode, no wait that gives up,
every entry PC resolved, different from the lock acquire, not the address of
ordinary code of its own ELF, and a stamp with several ELFs known to be
reloadable.  `BatchTwoBatches` checks `Tracking` on a design with all of
these, aliases in *other* ELFs included.  The condition on waits is needed
because after one that gave up a running core may pass for one at its breakpoint
(see the deviations below); from then on the controller takes it to be a layer further
than it is, and neither `Tracking` nor what is reported or dumped of it need be true.
What does not look at the cores (`BatchImplements`, `HangDetected`,
`TransfersDumped`) needs no such condition.

`HangDetected` uses an invariant of its own (`HangTracking`): the flag of a
worker implies the shared one, which is only read and never cleared until the
run has failed.  In the skip modes it is false, as `BatchSkipHang` shows.

### Interactive mode

From the same assumptions and `InteractiveAssumption`, for any sequence of commands:

| Theorem | Says |
| --- | --- |
| `TypeCorrect` | `Spec => []TypeOK`; no command leaves the design |
| `InteractiveImplements` | for every design, interactive mode implements `LockStep` |
| `TrackingCorrect` | in a `Tracked` design of one batch `Spec => []Tracking` |
| `StoppedCorrect` | ... at the prompt every replica with layers left is stopped where the debugger says |
| `ObservationsTrue` | ... every start that is shown is processed with the core at that very iteration |
| `BreakpointsKept` | for every design, no command passes a pending breakpoint, as long as each names an iteration that its layer has (`InRange`) |

The type invariant already needs `StepTarget`: a step in progress aims at an
iteration that the layer has.  `SeenTracking` and `Tracking` complete the shared
predicates with what holds at the prompt, between the commands, and after a finish
has begun.  `BreakpointTracking` says that the list of breakpoints is in execution
order and that a `continue` goes to the first of them, so that going there passes
none of the others.  The two extra conditions are where the findings are:
with two batches `Tracking` fails as `InteractiveBatches` shows, and a breakpoint
out of range makes the loop of `InteractiveSpin`.

### Dumps

`DumpAssumption` and `BuffersAssumption` say of the buffers what
`_initialize_buffers` makes them: each type once in a layer, every region inside the
columns of a stamp, the regions of templated graphs inside those of one replica.

| Theorem | Says |
| --- | --- |
| `TransfersDumped` | for every design, a run that reports success has dumped every transfer of the input of every replica |
| `FilesTrue` | in a `Tracked` design a file holds all of the buffer, replica and iteration that its path names, and none is written over by another |
| `RequestsInTurn` | in a `Tracked` design the L3 buffers of a layer are asked for only when no replica has a start left in an earlier layer |
| `PiecesAreWhole` | the pieces into which a region is cut at the borders of tiles are its bytes, all of them and no others, for every tile size |

`TransfersDumped` rests on the refinement, not on the cores: `DumpTracking` says
that of whatever a replica has been observed at or is past, the inputs were dumped,
and an observation is the next one by `LockStep`; on success nothing is left.
`FileTracking` says of each file which layer, replica, iteration and buffer it was
made for and that the owner of each tile read was halted there.  Its step combines
the truth of observations with the arithmetic of columns and pieces; two
files of one path then have one origin (`NameTells`).  `TurnTracking` adds that a
replica that is let go, or has no layer left, has none ahead.

### Sessions

For any number of partitions and of requests, and for every command line
(`PartitionsAssumption`, `LinesAssumption`: a device that was typed is in the table,
a core dump is a file of a device or raw):

| Theorem | Says |
| --- | --- |
| `AckedCorrect` | a request that counts as done was carried out |
| `PairedCorrect` | each partition of a batch run is stepped over its own connection, to the flexmlrt that executes it |
| `ToldCorrect` | with `-l3`, a connected flexmlrt is told before a batch run ends, unless it ends abruptly (`exit_at_layer`, a backend that raises) |
| `DumpsCorrect` | while flexmlrt lives, a batch run that ends regularly has had all its dumps |
| `ReadsCorrect` | every status printed of a core dump is the word that the tile held, and zero only past the end of the file |
| `MemoryCorrect` | a memory dump has the words that were asked for, each once and in order |
| `ColumnsCorrect` | the columns that the set-up counts in a core dump are there, and the next one is not |
| `TypeCorrect` | `Spec => []TypeOK` |

None is inductive.  `WireInv` adds to the first that at most one message is under
way, that it is the one the debugger waits for, and that an answer to the
termination dies with the connection.  `PairInv` follows the two sides in step:
flexmlrt is *behind* (its partition is the one being set up), *level* with the
debugger, or about to go on; and says whose sockets are open at each `pc`.  `ToldInv`
says that the connection belongs to the server that the next way out will close:
it was registered before anything can fail, and the server in `dumper` is the
one registered.  `DumpInv` counts: while flexmlrt lives, all requests but the one
under way have been carried out.  Each has one lemma per group of steps;
`SessionInv` is the conjunction of the first three.  What `create_run_flags`
leaves in the options (`ArgsKept`) is all that these four need of the command line:
they assume nothing of devices, files and overlays.

The three about reads use `ReadInv`, which follows the namespace: before the first
partition it holds what was typed, then the base device of the file, and where the
program reads, the device itself.  From there on a read is a matter of geometry.
Nothing can tell the truth of a file whose device is unknown: like the properties,
the theorems speak of files with a whole header of the device and no other device
typed, of raw files whose device was typed, and from the second partition on only of
devices that are no variant of another (`DeviceKnown`; `SessionVariant` is why).

### Core dumps

| Theorem | Says |
| --- | --- |
| `DevicesWellFormed` | the rows of a column are one shim tile, then memory tiles, then cores, each of some size: what the others assume of a device |
| `TilesAdjoin` | the next tile begins where a tile ends |
| `WordsAreDistinct` | reads inside two tiles come from one place of the file only if they are of the same word, whatever header it has |
| `TilesAreFound` | the closed formula of the reader is the sum of the sizes of the tiles below, which is where the writer put the tile |
| `MemoryIsWhole` | the pieces of a memory dump adjoin, cover in whole words the size asked for, and each is read from its place or is zero |
| `ColumnsAreCounted` | probing the top tile of each column counts the columns that the file has, whatever its length |

The order of tiles (`TilesInOrder`) follows by cases on the kind of the two rows.
The place of a tile is a sum over rows and columns, so `TilesAreFound` and
`ColumnsAreCounted` need induction.  The library's theorems for it take an operator;
here the numbers for which the claim fails are a set, and `Least` gives its smallest
member.

### Disassembly

`ParseRecovers`: for every program (any number of functions of any length, starting
anywhere) each of the two scans, applied to the listing of the program, is
`TrueTo` it: the functions in order, each with its entry, its end, its last release
that may be broken on and, for `main`, the acquire.  `TrueTo` says where a listing
does not tell: of a last function that no instruction is known to leave (`Endless`)
the Chess scan does not know the end, also when it is a single jump, and the LLVM
scan loses the function; of a function with several returns, or with a release after
a return or under `nohwbrkpt`, it claims less.

Each scan is a function of the number of lines read, so its state after every
line is defined without recursion of operators, and the proof is an induction over
the lines of one function inside an induction over functions.  The invariant at a
line (what of the current function has been seen, that the earlier ones are closed
and true) is proved for the directives, a plain instruction, a return, and
the jump of a tail call, and handed on from the end of one function to the label of
the next.  Where a listing of a function begins is found with prefix sums.
As in `CoreDump_proofs`, induction goes by the smallest number for which a claim fails.

### Preparation

| Theorem | Says |
| --- | --- |
| `TypeCorrect` | `Spec => []TypeOK` |
| `ListedInExecutionOrder` | the execution list is in the order in which the compiler layers of the layers end; a layer that the report does not know comes after the last known one before it |
| `BreakpointsAreEntries` | a PC that is set is the entry of the kernel that the stamp runs for the layer, in the ELF it runs it from |
| `StampsTakePart` | a layer has the stamps that take part in it |
| `SkippingIsSafe` | iterations are given up only before a layer that starts elsewhere in the same ELF |
| `FunctionsAreThoseOfTheElf` | what is kept of an ELF is true to its program |

for any design that meets the assumptions: any number of layers, stamps, batches
and ELFs, any report.  All follow from one inductive invariant (`Prepared`), which
has four parts.  `Read`: the ELFs read so far are read as they are, by
`ParseRecovers`.  `Listed`: every layer comes from one of `buffer_info` and, unless
unsupported, has the stamps that take part, each with the kernel it runs; a PC it
has is true; from the first stage on the list is sorted by the keys of
`_reorder_layers_by_execution`, and those agree with where the layers really end.
`Iterated`: a supported layer has its true iterations, or is skipped by right.
`Staged`: how far each stage is.

`ExecutionOrder`, `PcsAreTrue`, `StampCountTrue` and `SkipIsSafe` speak of the end
only, so the invariant carries them from where they arise: the order through the
trimming of unsupported layers, which keeps the list a subsequence, and the names
and ELFs of stamps from `Layer.__init__` to the look-up that uses them.
`IndexTrue` shows that every candidate of that look-up, by compiler layer, by
name or by the report, is the home ELF, and `PickTrue` that of its
instantiations the right one is taken, although the Chess listing has lost the
template arguments.  The key of an unknown layer is that of the last known one
before it (`KeysAre`, by induction), and a list picked by rank is sorted
(`InOrderIs`).  `SkipIsSafe` needs that two functions of one ELF have two
entries (`EntriesAre`).

### Only model-checked

- Everything under fairness (`RunEnds`, `RunCompletes`, `FinishedRunsOut`,
  `ContinueReturns`, `FinishCompletes`, `SessionEnds`): liveness and `ENABLED` are
  out of reach of the prover.
- The kernel trees and call trees: recursive operators, in a module of their own, so
  that `LayerInfo` can be proved about.

## Not modelled

- Memory dumper: the x2 flow, dumps on command, dumps at end breakpoints (the flag
  for them is disabled in `mldebug_cli.py`).
- Manual PC breakpoints, which share slot 0 with the scheduler.
- The x2 flow of `LayerInfo` (layers from several work directories).
- Sizes and addresses of buffers, globals, decoding of registers and advice, the
  register tables, the layout of reports, the C++ reader of core dumps, the stub for
  tests, packaging: data or text without control.

Deviations that were seen and that no run states, because nothing in the
repository says otherwise, because a comment is too loose to be held against the
code, or because the part is not modelled:

Stepping and dumping

- a layer whose entry PC was not resolved is not armed but is run and verified
  all the same (`batch_runner.py:235`, `layer_info.py:1230-1235`);
- a core far ahead of its target passes `pcs_match_target` (`aie_util.py:496`);
- the result of the wait for the start breakpoints is dropped (`batch_runner.py:249`),
  and PCs near the target pass `pcs_match_target` without a look at the halt bit
  (`aie_util.py:477`).  So after a wait that gave up, a stamp armed across a reload
  whose core still runs through its old ELF, within 32 of the address of its next
  start, is taken to have hit its breakpoint: its buffers are dumped as those of the
  new layer and its combo event is removed.  The same holds of a stamp in one ELF that
  still runs at its start.  On the design of `BatchTimeOuts`, where waits give up, TLC
  finds `ObservationsAreTrue` and `ArmedNeverOvershoots` violated for it;
- after the last layer's final iteration is reached the prompt still says
  "Stopped at Start of Kernel(s)" of replicas that were released;
- the `skip_iter` rule looks at the kernel of stamp 0 only; another stamp that
  changes its kernel there is not stepped (`layer_info.py:1243-1251`);
- L2 output is dumped when `it % depth_iter == 1`, which never holds when
  `depth_iter` is 1; the output of the last iteration of a layer is never dumped
  (`batch_runner.py:374`);
- `Layer.super_iter` and `Layer.wts_iter` are set on the layer, not on its `lcp`
  (`layer_info.py:535-539`), so weights are dumped in every iteration;
- the L3 buffers of a layer of several iterations are asked for twice: at the
  start of its last iteration and when the worker of replica 0 returns
  (`batch_runner.py:427`);
- metadata with more transfers than iterations gives an interval of 0 and a
  modulo by zero (`layer_info.py:526`, `batch_runner.py:363`);

Sessions

- quitting the prompt with `-l3` leaves the port bound, and the next partition
  goes on without a connection (`interactive_prompt.py:336`); so do `--load_script`
  and a single command.  `cleanup_and_exit` closes nothing when only
  `automated_debug` is set;
- a backend whose constructor raises ends the program without a word to a
  flexmlrt that is connected: only the construction of the design is guarded
  (`client_debug.py:72-76`, the loop after it is not);
- `-l3` in standalone mode, also with `--dump-aie-status`, always exits at "No
  layers", without the status;
- one standalone partition makes all later ones standalone: `aie_only` and
  `interactive` stay set, and the run flags are made once;
- with `-d` and a dump whose header names an unknown generation the whole file is
  read as if it had no header, and every word is shifted (`input_parser.py:310`);
  two readers differ in the magic number they accept: `NPUx` passes the first
  look and then raises;
- with `-d` a file shorter than its own header is read as raw;
- `resolve_variant` falls back to the first device of a generation when the
  geometry matches none;
- "a column only counts when its whole tower is present"
  (`core_dump_impl.py:279`), but the first word of its top tile is all that is
  probed; `CountedColumnsArePresent` says what remains;
- a chunk of 4096 bytes of which any byte is missing is dumped as zeros, and an
  address beyond the tile is read from the next one (`core_dump_impl.py:294`);
- `AIEStatus.get` of some tile types prints what an earlier call left of the others;
- the address that a phx dump relocates `CORE_PC` to is changed in the shared
  table and stays so for later partitions;

Preparation and reports

- a kernel found in the base ELF of a stamp with reloads raises `KeyError`
  (`layer_info.py:1214`);
- the LLVM listing parser ends a function at its first `ret`
  (`work_dir.py:627-631`), so a release after it is not seen;
- the pattern of function headers in `extra/calltree.py:109` drops the last
  character of a name, so the roots `__start` and `_main_init`
  (`calltree.py:276-278`) are never found;
- the last `j` of a function is taken for its tail call, wherever it goes; kernel
  trees of LLVM listings have no tail calls at all;
- `_check_l3_tg_conflicts` is not called, and the shift of L3 output buffers
  (`layer_info.py:914-919`) happens before templated layers are trimmed.

## Plan

Done, in this order: `Schedule`, `AieCores`, `StampScheduler`, `BatchRunner` with
`LockStep` and its proofs; `InteractiveController`; `DebugServer` and
`DebugSession`; `Disassembly`, `MladfReport` and `LayerInfo`; `MemoryDumper`;
`CoreDump`, `Launch` and the session over them with its proofs; `KernelTree`; the
proofs of the refinement, of interactive mode, of the reads and of the dumps, of the
listing parsers and of the preparation.

Next:

1. Manual PC breakpoints as further commands of interactive mode.
2. The reload lines of `extra/layer_report.py`, which promise to mirror
   `check_pm_reload`; the x2 flow; the tiles of the overlay.
3. Proofs: that the lists `LayerInfo` prepares meet the assumptions of `Schedule`
   and, with every PC resolved, `Tracked`: today the two meet in the README only.
