# TLA+ models of pyCircuit

This directory holds TLA+ modules for the parts of pyCircuit that are stateful
and concurrent or that must survive failures, and for the translation of a rule
into hardware; the TLC configurations that check them; and TLAPS proofs of the
safety properties of all of them but one (`FoldingExact`). Paths below are
relative to the root of the repository.

## The system

pyCircuit compiles hardware descriptions in Python syntax:

```text
Python source -> syntax capture -> MLIR analysis and lowering
              -> published source units -> link and verification
              -> final hardware IR -> C++ / Verilog
```

| Part | Where | Character | Here |
|---|---|---|---|
| Syntax capture, language surface | `python/pycircuit/_source_capture.py`, `_spec.py`, ... | pure translation | not modelled |
| Import, analyses | `compiler/lib/Compiler/PythonImport*`, `compiler/lib/Transforms`, `compiler/lib/Dialect` | tree rewriting, about 60k lines of C++ | not modelled |
| Transaction lowering | `compiler/lib/Transforms/LowerTransactions.cpp`, `Transaction*.inc` | the equations a rule becomes | of one rule: `RuleLowering`, `RuleLoweringProofs`, `RuleResourceProofs`; of several writers: `WriteGrants`, `CompilationProofs` |
| Execution projection, model adapter | `compiler/lib/Compiler/ExecutionProjection.cpp`, `python/pycircuit/_model_run.py` | one worker behind queues, or called directly | `ExecutionModel`, `CompilationProofs` |
| Runs of clocked models | `python/pycircuit/_memory_run.py`, `_clocked.py` | driver loop with two strategies | `ClockedMemory` |
| Source units, link | `compiler/lib/Compiler/Source*.cpp`, `AnchorArtifact.cpp` | file formats, closure checks | contents not modelled |
| Publication of units and artifacts | `python/pycircuit/_publication.py`, `_publication_fs.py` | journal, locks, crash recovery | `Publication`, `PublicationLockSet`, `PublicationProofs` |
| Emission of C++ and Verilog | `compiler/lib/Compiler/HardwareEmit*.cpp`, `FinalEmit*.cpp` | text generation, and the lifecycle of what is emitted | lifecycle: `DesignStep`, `RegisterMemoryProofs` |
| Storage leaves in C++ | `include/gfsim/{dff,fifo,sync_mem,byte_mem}.h`, `collection.h` | two-phase state machines on four-state pins | `RegisterFamily`, `Fifo`, `SyncMem`, `QueueProofs`, `RegisterMemoryProofs` |
| Storage leaves in Verilog | `include/verilog/*.v` | the same, in phases | `VerilogDffe`, `VerilogFifo`, `VerilogSyncMem` |
| Work executor | `include/gfsim/WorkExecutor.h` | thread pool | `WorkExecutor`, `WorkExecutorProofs` |
| System, observations, executor, ABI | `include/gfsim/SimSystem.h`, `ObservationSlot.h`, `runtime/sim_executor.cpp` | transactional stepping behind a C interface | `SimSystem`, `ObservationSlots`, `SimExecutor`, `SimExecutorProofs` |
| System runner | `runtime/system_runner.cpp` | main loop, event stream, exit code | `SystemRunner`, `SimExecutorProofs` |
| Model input, bit arithmetic | `runtime/model_input.cpp`, `include/gfsim/{bits,wire}.h` | pure functions | not modelled |
| Drivers, projects, command line | `python/pycircuit/_run.py`, `_project.py`, `cli.py`, ... | sequential scripts around child processes | not modelled |

`PROJECT.json` lists every part with its sources and the reason where one is
left out, the hazards of the code with the line at which each one bites, and
the source lines of every definition.

How the modelled parts interact: the compiler turns each rule into equations
over the pins of its leaves (`RuleLowering`), and merges the rules that write
one owner after proving that their writes cannot meet (`WriteGrants`). A
command (compile, link, emit) takes the locks of its inputs and its output (`PublicationLockSet`) and publishes its
output by one transaction (`Publication`). A built model runs in a process in
which `SystemRunner` calls the executor (`SimExecutor`), which steps a system
(`SimSystem`) of emitted roots. The Work of a root runs its independent
subtrees on a pool (`WorkExecutor`) and samples the leaves (`DesignStep` over
`RegisterFamily`; `Fifo` and `SyncMem` are other leaves). Every level obeys the
same discipline, Work prepares and Xfer commits, and the properties at each
level are about what remains when something in between fails. Models that the
compiler admits as request/response workers run with their queues or without
them (`ExecutionModel`); processors run against memories with every cycle
executed or with idle ones skipped (`ClockedMemory`).

## Modules

### `WorkExecutor` - the thread pool

Threads are an owner (constructor, destructor), callers of `run` and workers.
An action is a critical section of `mutex_` or a step outside it: a worker
takes an item, executes it, possibly calls `run` from inside it (which then is
serial), stores its exception and counts down; the caller publishes a batch,
waits and collects. Waits on the two condition variables wake spuriously, any
item may throw, and the constructor may fail after some threads exist. An
executor with one worker starts no thread and runs every batch in the caller
(`runSerial`); `Init` allows both kinds. An item of such a batch may call `run`
as well (`SerialNested`): its thread is active, so that call does not wait for
the `runMutex_` it holds.

* `BorrowedWhileExecuting`: `run` has not returned while a worker executes an
  item, so the borrowed span and its instances are alive.
* `DestroyedIsQuiet`: a destroyed executor has no running worker and no batch.
* `BatchResult`: when `run` returns, each of its items was executed exactly once
  and the outcome is the exception of the lowest index, or none.
* `RunReturns`, `StopJoins`: a batch ends, and stopping joins all workers.

### `Publication` - one destination

The state is the file system below one destination (destination, stage,
previous, journal, temporary journal), the lock, and the program counter of
each process. Each action is one file-system call of `_publish_artifact`,
`_read_published`, `_recover_publication`, `_recover_locked`,
`_restore_previous` or `_finish_committed`. Every call that changes something
may fail without effect, and the calls that sync may also fail after their
effect; a process may be cancelled or crash between any two of them and its
lock is then released. Trees are whole, partly built or partly removed.

* `AtomicPublication` (refinement of `PublishedArtifact`): the artifact that a
  reader would be given changes only from one whole version to the next, by a
  commit, and recovery never changes it.
* `TruthfulOutcome`: a publication that reports success has committed and one
  that reports failure has not.
* `ReadsCommitted`: what a reader returns is the committed artifact.
* `NothingLostEarly`: the previous artifact disappears only after the commit.
* `NeverRefused`: no sequence of failures and crashes leads to a layout that
  recovery refuses, without a journal there are no leftover artifacts, and a
  recovery that returns has removed the journal. A reader tries again only after
  a recovery, so it never meets the same transaction twice; with the deadlock
  check this is why its loop ends.

### `PublicationLockSet` - commands over several destinations

A command discovers the owners of its inputs, takes shared locks on them and an
exclusive one on its output in path order, validates everything under the
locks, and leaves the whole set to recover an unfinished input and start again.
The transaction of module `Publication` is one dirty interval here.

* `SnapshotHolds`: while the body of a command runs, every input has the value
  that was validated, belongs to the owner that was discovered before the locks
  were taken, and none is in the middle of another publication.
* `TransactionUndisturbed`: nobody else writes to a destination inside another
  process's transaction.
* `CommandsEnd`: commands with crossing inputs and outputs do not deadlock.

### `Fifo`, `SyncMem` and their Verilog counterparts

`Fifo` is `fifo_kernel` with four-state pins, both ready policies and deadlines
in wrapping timestamps; `SyncMem` is `sync_mem_kernel` with one or two read
ports, byte strobes and answers that expire. Work, Xfer, Discard and host Reset
are actions; an evaluation that throws leaves a discarded lane. `LatencyQueue`
and `ResponseMemory` say what a user of the leaf may rely on, without pointers,
timestamps or pending transactions. `BitWidth` has the widths of registers that
depend on the depth or the latency.

`VerilogFifo` and `VerilogSyncMem` are the managed Verilog leaves (PREPARE,
COMMIT with or without the root's permission, DISCARD, RESET_PREPARE).
`FifoLockstep` and `MemLockstep` drive both implementations with the same pins
and the same root.

* `ImplementsQueue`, `ImplementsMemory`: the C++ kernel refines the abstract
  specification. For the queue this includes that entries mature in order at
  their deadline, that no deadline is missed when the timestamp wraps, and that
  nothing is popped that is not there or pushed that does not fit.
* `VerilogAgrees`: the two implementations refuse the same evaluations and show
  the same outputs.

### `RegisterFamily`, `VerilogDffe`, `DesignStep`

`RegisterFamily` is `dffe_kernel` under `collection_storage`. `DesignStep` is
what the emitters write around leaves. In C++ the subtrees are sampled on the
pool, in any interleaving and to the end even if one throws, or in order up to
the first exception; then come the leaves of the root; an exception discards
everything. In Verilog `pyc_step` prepares all leaves at once and commits or
discards. A step may also be refused, by an observation group or by the root's
checks (`pyc_check_complete`, `pyc_sampling_error`), which is a choice of the
model wherever no leaf failed; the host may reset, also after a failure (a Verilog simulation ends at a failure; the model
lets it start again with the reset that begins every simulation).

* `ImplementsRegisters`: the registers of the C++ design are one array
  (`RegisterArray`) that changes in single steps.
* `NothingPrepared`: nothing that a failed step prepared can be committed later.
* `VerilogAgrees`: C++ and Verilog fail the same steps and hold the same values.

### `SimSystem`, `ObservationSlots`, `SimExecutor`, `ModelApi`

A system of roots with staged observations, and the executor that a host calls
through the C ABI. A call is one critical section (the executor's call lock),
and Step is modelled root by root inside it. `ModelApi` is what the host may
rely on: committed data, cycle count and phase.

* `ImplementsApi`: calls commit whole cycles or nothing.
* `ObservationsCurrent`: statistics agree with the committed cycle, and a group
  of events is committed whole or not at all, also at the capacity.
* `NothingOutlivesCall`: no staged value or prepared state survives a call.
* `FirstFailureKept`: refused calls do not overwrite the error of the failure.

### `SystemRunner`

`Run` against the interface of the executor: configure, reset, drive, step,
collect, write, report, with failing writes and throwing callbacks. A step is
quiescent when the system has no roots: `HasWork` is asked of every root in each
step, and emitted roots always answer yes. The records of one epoch are
collected in one action, as nothing else runs in between.

* `StreamFaithful`: the stream is a prefix of the committed observations in
  order, and a result record comes last and only when the stream is complete.
* `SuccessMeansComplete`: exit code 0 means a finished schedule within the
  configured limit and a complete stream.
* `RunEnds`: the run ends.

### `RuleLowering` - one rule as hardware

The pass walks the statements of a rule in source order, with method calls
expanded in place, and builds four-state equations: an admission prefix over
the controls (guards, selections of branches, required values, readiness of
queues), a candidate value and a write intent per register, a path for every
assert and log, a proposal for every queue and memory access, and the demand
that tells whether the rule could get its resources at all. Every statement
kind is an action, and a branch that holds an effect or continues a loop is a
selection, which the model may make of any branch; a step appends one statement to the rule, so TLC and the
provers quantify over rules and not over one design. What a statement's
condition is in a given cycle is a member of `Pin` ("0", "1", "x"), and the
equations are evaluated as the statement is appended, which is what the
hardware computes because every equation only depends on earlier ones; the
demand, which is built from the end of the rule backwards, is kept as a
function of the demand of the rest.

Beside the equations the module carries the meaning of the source: `mode` says
whether execution in order is still running, was held by a false guard or
queue, or met an unknown control; `state` has the registers' values under some
choice of the unknown inputs. The properties compare the two.

* `AdmissionExact`: the prefix is true exactly when the source reaches the end,
  and an unknown control is reported exactly when the source meets one.
* `EffectsExact`: logs and asserts happen exactly in rules that fire and reach
  them.
* `CandidatesSound`: known candidates and write enables are right whatever the
  unknown inputs are.
* `ProposalsExact`: queues and memories are accessed exactly by rules that fire
  and reach the access, although each access leaves out of its prefix the
  controls of arms it excludes; an asynchronous read does not wait for what
  comes after it.
* `ResourcesHeld`: a rule that fires pops only a head and pushes only where there
  is room or a head that leaves in the same cycle.
* `WaivedOnlyIfRefused`: the knownness checks are waived only for rules that a
  queue certainly refuses.

Payloads are one bit wide. The conflict checks between accesses to one memory
port, the sharing of one physical read by several accesses, writes to memories
by domain, and the exemption of accesses whose path is literally false are
left out. Unknown inputs are resolved independently of one another, so the
model also covers combinations of values that a design cannot produce.

### `WriteGrants` - several writers of one owner

Rules that write the same owner in one cycle are admitted when every two of
their writes are at different fields, at different constant elements, or
cannot both be granted. `HardwareGrantProof.cpp` decides the last: it assumes
that both paths are known to be true and that the two addresses may be the same,
collects the facts which that requires of every subexpression, and looks for a
contradiction. `HardwareWriteDomainProof.inc` and
`TransactionSourceGrantProof.inc` put the pairs of writes to it, with the guards
on the way to each write; `materializeDomainCommit` merges the admitted writers
one after the other, leaf by leaf, and joins their enables.

The module first proves and then runs. `Ask` opens a query for a pair,
`Require` adds what is required of one more expression to the cache, `Answer`
separates the pair or refuses the design, `Exhaust` is every budget, depth and
cycle limit, which also refuse. Once `todo` is empty the compiled design
evaluates its expressions on any four-state inputs (`Evaluate`) and merges its
writers (`materializeDomainCommit`), cycle after cycle.

Values are the sets of numbers that a vector with unknown bits may stand for.
The cache is filled operands first for every one-bit expression; the code asks
only for those its query reaches, but an entry depends on nothing except the
entries of its operands. Facts carry no width, because the compiler only
compares operands of one width. Endpoints are their own canonical form, as in
the final admission. The auxiliary nodes that `path` builds have fresh
identities, so facts about them contradict nothing, and a path is the set of its
conditions. Selections and resources, which can only keep a rule from firing,
are in `RuleLowering`; a rule fires here when the guards on its way are true. A
field selector is one name. A write with which a caller carries out what its
callee proposed (`forwardedProposal`) is left to the callee's write. A writer of
the whole owner without rows of its own is one write whose path is the joined
intent of its branches, as `proveWriteDomainsDisjoint` takes it; the first
admission asks about the branches one by one, which is a design of its own.

* `GrantsExclusive`: two admitted writes of different rules are both granted in a
  cycle only at different fields or at addresses that are known to differ.
* `CommitExact`: where no enable is unknown, a leaf holds what its one writer
  wrote and keeps its value without one; the common enable is false only if
  nothing is written and true only if no enable is unknown.

### `ExecutionModel` - a worker with and without its queues

`ExecutionProjection.cpp` admits a worker between an ingress and an egress
queue when its `submit`, transfer rule and `take` have a fixed form, and derives
a timing entry, which keeps the queues and the issue gap, and a functional one,
which calls the worker directly. `_model_run.py` offers input rows to either.
The queues are `LatencyQueue`, which `Fifo` implements. The worker is any
deterministic one: its state is the history of requests.

* `SerialExecution`: with either entry the worker processes the accepted
  requests in row order, once each; the published completions are exactly the
  valid ones, computed from that history; the counter counts every request.
* `FailsAtFirstUnknown`: both entries fail at the same row.
* `Drains`: a timing run with enough cycles accepts every row and empties the
  queues, however late the consumer starts.

### `ClockedMemory` - runs of clocked models

`run_memory` queries the model until its requests and the memory's responses
settle, ticks it, and completes pending requests; the functional strategy jumps
over cycles in which nothing can change. The model under test is not fixed:
what it answers in a state to an input is chosen when it is first asked, and
then kept. The same model is run with one strategy and then with the other.
That the state the bridge returns is the complete state of the model is what
`validateFixedPoint` in `ExecutionProjection.cpp` ensures. The data memory is
one word without byte masks, the instruction image is constant, and a bridge
that stops answering is the end of the wall-time budget.

* `FoldingExact`: the two reports agree in everything but the numbers of
  executed and skipped cycles, whose sum is the number of cycles.
* `RunEnds`: every run ends, also for a model that never settles.

## Runs

`tlc -config <cfg> <module>` in this directory. Deadlock is checked except in
`rule_lowering`, where a rule of the largest length is complete, in
`write_grants`, where a design may be refused, and in `clocked_memory` and
`execution_model`, where a run ends.

| Run | Bounds | Distinct states |
|---|---|---|
| `work_executor` | 2 callers, 0 or 2 threads, up to 3 items, 2 calls each; fairness | 681,547 |
| `publication` | 2 processes, 3 contents of 2 owners, 3 commands, 2 failing calls, 2 crashes; symmetry | 2,164,068 |
| `lock_set` | 2 processes, 3 destinations with crossing commands, 3 commands, 2 faults, 1 crash; fairness | 401,602 |
| `fifo_lockstep` | 3 shapes (depth 2 and 3; latency 4, 3 and 1; both policies), 1 token besides unknown | 76,090 |
| `mem_lockstep` | 3 shapes (2 entries; 2 byte lanes; 2 read ports), 2 values | 12,662 |
| `design_step` | subtrees of 2 and 1 registers, 1 register of the root, with and without pool | 122,302 |
| `sim_executor` | 2 roots, 4 slots in 3 groups, event capacity 2, counter limit 2 | 3,144,327 |
| `system_runner` | 2 event groups around a gauge, limits and schedules up to 3 | 54,808 |
| `rule_lowering` | 4 statements, branches 2 deep, 1 register and 1 memory or 1 queue in every state | 3,982,910 |
| `write_grants` | 3,486 designs of 2 or 3 writers over up to 7 expressions, indices of 1 and 2 bits, 2 elements of 2 fields; every four-state input | 311,538 |
| `clocked_memory` | models of 3 answers and 3 states, 5 cycles, 8 queries, latencies 0 and 2, with and without a reset cycle; fairness | 1,347,576 |
| `execution_model` | 5 rows of 7 kinds, 3 queue profiles, consumer at cycle 0 or 8, counter modulo 4; fairness | 936,908 |

Why the bounds are enough for what the runs are about:

* Pool: three items on two workers let a worker take a second item while the
  other still executes; two calls by two callers put a batch before and after
  another one, and a destructor behind either.
* Publication: three commands reach create, replace, and recovery of an
  interrupted recovery; two crashes allow one inside the recovery from the
  other. Two contents of one owner distinguish old from new; the second owner
  makes ownership checks fail.
* Lock set: three destinations give a command an input on each side of its
  output in path order, and another command takes that output as its input.
* Queues: depth 2 with latency 4 uses every value of a two-bit timestamp and
  wraps it while an entry waits; latency 3 leaves one value unused; latency 1
  has no timestamps. Nothing in a lane depends on the value of a token.
* Memories: a second entry shows addressing, a second byte lane the strobe, and
  a second port that ports do not disturb each other; an address out of range
  stands for all of them. Pins that an evaluation does not look at are left
  unknown.
* Rules: two nested branches put a control behind, beside and before an effect,
  and four statements are a branch with an effect in each arm and one statement
  after it. The proofs remove the bound.
* Grants: the second derived expression has the first below it in every kind, so
  every branch of the proof is taken with a constant, an open and a shared
  operand; the third writer makes the cache serve a second pair. The proofs
  remove the bound.
* Execution model: five rows exceed the capacity of the smallest profile with a
  consumer that starts after it is full, and wrap the counter.
* Clocked memory: three answers are a request, its response and what follows;
  latency 2 leaves a cycle to skip, and the reset falls into it.
* Executor: a counter that saturates at 2 reaches the overflow refusal; capacity
  2 is exceeded by a group of two events and one more.

Each property has a mutant in `PROJECT.json`: a change to one modelled
definition, of the kind a bug in the code would make, under which TLC refutes
the property. The mutant for `CommandsEnd` is a recovery that has no effect, so
that commands try again for ever; the one for `GrantsExclusive` lets an answer
given under one collision serve every query.

## Fairness

* `WorkExecutor`: weak fairness for each thread that can run. It stands for the
  scheduler and for items that return; nobody must call `run`, throw or destroy.
  A wakeup without a notification is never assumed to happen.
* `PublicationLockSet`: weak fairness for the steps of each
  process; a lock that stays free is granted. Failures, cancellations and
  crashes are never required. The number of commands is bounded, so a stream of
  new publishers that starves a waiting one is not in the model: `flock`
  promises nothing there.
* `SystemRunner`: weak fairness for its one thread; drivers and writes return.
* `ExecutionModel`: weak fairness of the cycles, which is a run with enough of
  them (`--cycles` is the user's choice); the consumer takes every response from
  its starting cycle on.
* `ClockedMemory`: weak fairness of the driver's loop. The bridge's answer to a
  query is part of the step; one that never comes is the wall-time budget.
* The leaf, executor, design and rule modules have safety properties only: their
  operations are calls that the host makes or does not make.

## Proofs

Eight modules hold the theorems; `PROJECT.json` lists those that matter. Where a
module has theorems about a second model, that model is an INSTANCE and its
theorems name the assumption on its constants, which TLC evaluates in the run of
the model, as a hypothesis: `Memory!ShapesAssumption => (Memory!LockstepSpec =>
[]Memory!VerilogAgrees)`. Induction over numbers is done by least
counterexample: `LeastExists` gives a nonempty set of natural numbers a least
element, from the well-founded order of the naturals.

`WorkExecutorProofs` proves, for any number of callers, workers, items and
runs, the safety properties of the pool: `TypeCorrect`, `PendingCorrect`,
`BorrowingCorrect`, `DestructionCorrect` and the action property
`BatchCorrect`, both for a pool and for one worker, with batches nested in items. The assumptions are those on
the constants in `WorkExecutor` (finite sets of threads, natural bounds).

The properties are not inductive alone. Whether a returning `run` leaves no
executing worker depends on `pending_` counting exactly the outstanding items,
which depends on workers holding distinct indices below `next_`, which is only
true because one batch at a time is published under `runMutex_`. The inductive
invariant `IInv` is therefore the conjunction of

* `TypeOK`;
* `MutexInv`: who holds `runMutex_` is inside `run`, and the destructor excludes
  callers;
* `BatchInv`: what the pool holds of the published batch, that taken indices are
  distinct, and `PendingCountsOutstanding`;
* `HistoryInv`: how often each item was executed and which threw, against
  `errors_` and the locals of the serial path. It is what `BatchResult` needs.

`Init => IInv` and the preservation by steps of the owner, the callers and the
workers are separate lemmas with one step per action. `FirstErrorIsLeast` shows
that the scan of `errors_` returns the least index that threw; it rests on
`LeastExists`, obtained from the well-founded order of the natural numbers.

`RuleLoweringProofs` proves `AdmissionCorrect`, `EffectsCorrect` and
`CandidatesCorrect` for rules of any length and nesting over any registers,
queues and memories. Its only assumption is that registers are not confused
with pin values and that authored paths are pins. The equations agree with the
source only as long as they are all taken together, so the inductive invariant
`IInv` has

* `Typed`, with known (two-valued) prefixes and selected paths;
* `AdmissionExact` itself;
* `Positioned`, `Framed`: at the current point and at the entry of every open
  branch, while the rule is running, the selected path is known and says whether
  the source is there; the raw path may be unknown only inside pure branches. A
  branch records which arm the source takes, and a known condition agrees;
* `Refines` of the current candidates where the source is, of the entry
  candidates while the source still has to take the second arm, and of the end
  of the first arm once it has taken that one. It is what a join needs;
* `Credited`: the credit of a queue is what the source has popped, so that a push
  behind a pop is admitted alike;
* `EffectsPlaced`: the recorded path of an effect says whether it was reached.

Once a rule is held or at fault the prefix is false for good, and nothing is
claimed of its paths any more; this is why most conjuncts start with
`mode = "run"`. There is one lemma per statement kind, and the branch statements
rest on `FramesKept`, `FrameKept` and `PlacedKept`, which say that a statement
does not disturb the frames around it.

`RuleResourceProofs` proves the other three properties of a rule on top of it:
`ProposalsCorrect` (`ProposalsExact`), `ResourcesCorrect` (`ResourcesHeld`) and
`WaivedCorrect` (`WaivedOnlyIfRefused`), from the same assumption. They need what
`IInv` leaves open, namely what is true of a rule that has stopped and of the arms
the source does not take. The inductive invariant `RuleInv` is `IInv` with

* `Traces`: whatever the mode, a selected path decides the selections around it, a
  decided condition rules out the raw paths of the other arm, and only pure
  branches make a point selected and not live;
* `AInv`. A rule that runs has passed every control (`Passed`); one that has
  stopped has, at each level around the point, a failed control among those an
  access there would retain, or a raw path that is false (`Stopped`). So an access
  that is added after the failure proposes nothing, and neither does one that was
  added before: a control fails only on a selected path, and leaves out only
  accesses of arms that this path rules out (`Within`, `AccessKept`). `Single` and
  `Held` say that one access of a port is reached at most and that its queue was
  ready for it;
* `DInv`. The demand is a function of the demand of the rest of the rule, kept per
  branch. `Tells` compares such a function with the source: where it is known, it
  passes on the demand of the rest while the source goes on, is true once a guard
  has ended the rule and false once a queue has refused it. While the source goes
  on every live region tells so (`Supplied`); afterwards one region, or one
  finished arm that the source took, tells the outcome and those around it pass it
  on (`Settled`), which is what a join has to preserve (`JoinTells`,
  `DemandPopped`). `Taking` ties the credit of a queue to what the source took
  from it, and `ReadyTells` shows that an unknown credit leaves readiness unknown
  or irrelevant.

`Pushed`, `Turned` and `Popped` describe what the start, the second arm and the end
of a branch do to the frames; the lemmas about branches are stated of them, and
those about straight statements of `SamePlace`.

`CompilationProofs` proves `Exclusive` (`GrantsExclusive`) and `Exact`
(`CommitExact`) for every design: any expressions, widths, writers, elements and
fields. The only assumption is that designs are well formed (`WellFormed`:
operands precede their users, logic is one bit wide, constants fit their width),
which is what `describe` and the IR verifier check. The argument has three
inductive invariants.

* `ProofInv` (theorem `ProofSound`): every cache entry is sound, that is: for
  every valuation of the expressions that obeys the operators, in which the
  assumed addresses may be the same and the expression is known to have the
  polarity asked for, the entry is possible and all its facts hold; and every
  pair that has left `todo` is separated in every such valuation. The heart is
  `RequiredSound`, one level of the recursion, with `SelectSound` for the
  cases of a select, an unknown selector included, and `CompareSound` for
  comparisons of the assumed addresses. Soundness says nothing of a particular
  cycle, which is why the cache may be shared between queries as long as its key
  has the collision.
* `ValuesInv` (`ValuesObey`): the values of the running cycle obey the operators,
  so the first invariant applies to them; with `GrantedKnown` this gives
  `Exclusive`.
* `CommitInv`: after merging the first writers a leaf holds what they wrote. By
  `OneWriter`, from `Exclusive`, at most one is effective, so a later writer
  never replaces an earlier one.

Its second part proves `ExecutionSerial` (`SerialExecution`) and `ExecutionFails`
(`FailsAtFirstUnknown`) of `ExecutionModel`, for any rows, queue profiles,
consumers and counter modulus, for both entries. The two properties are inductive
together once the types and the empty queues of the functional entry are known
(`ExecInv`). `SerialExecution` says of the requests in the worker and in its
ingress queue that they list the enabled rows in ascending order, and of the
responses that each one is the history up to a valid request, also in order; a
step moves the first entry of a queue to the end of the next sequence
(`MoveFirst`) or appends the row at the cursor, which is larger than all before.

`PublicationProofs`, in its second part, proves `Snapshot` (`SnapshotHolds`) and `Undisturbed`
(`TransactionUndisturbed`) for any processes, owners, destinations and requests
and any number of commands, failures and crashes. It assumes what
`PublicationLockSet` assumes of its constants: destinations are finitely many
and ordered, and no command has its output among its inputs (`_paths_conflict`).
Neither property says why it lasts, so the inductive invariant `IInv` adds

* `Exclusive`: an exclusive lock excludes every other lock on its destination;
* `Held`: which locks a process has at each point, in particular all of its
  entries from validation to the end, and the recovered input alone while it
  recovers it;
* `Established`: the inputs validated so far are usable, and a transaction has
  its own journal and value.

A step is seen in two ways. For the process that takes it there is one lemma per
action. For the others, `OthersKeep` needs only that a step writes where its
process has an exclusive lock (`WritesLocked`) and takes compatible locks
(`LocksCompatible`). `NextEntryPending` shows that the next entry in path order
is one still to do; it rests on the same `LeastExists`.

The first part of `PublicationProofs` proves all properties of one destination, for any processes,
owners and artifacts and any number of commands, failing calls and crashes:
`Accepted` (`NeverRefused`), `Truthful` (`TruthfulOutcome`), `Reads`
(`ReadsCommitted`), `NothingLost` (the action property `NothingLostEarly`) and
`Atomic`, that the journal protocol implements `PublishedArtifact`. The inductive
invariant `IInv` (theorem `Consistent`) has two sides.

* `Layout` says what is on the disk in each phase of the journal, whoever is at
  work or has crashed: nothing but the destination without a journal, the old
  artifact in its place while the new one is prepared or removed, one of three
  stops between old and new while they are swapped, the new one after the
  commit. It is why recovery never meets a state that it refuses.
* `Knows` says of each process which lock it has (`Flow`), what it has established
  on the disk at its point of the command (`Claim`), and whether its publication
  has committed (`Truth`). A claim is worth something because of `Exclusion`: who
  writes has the only lock, so a step of one process keeps the claims of all
  others (`OthersKeep`).

There is one lemma per action. The refinement and the action property are shown
by the same lemmas: a step leaves `Visible` alone or is `Publish` of
`PublishedArtifact`.

`SimExecutorProofs` proves `Current` (`ObservationsCurrent`), `NothingLeft`
(`NothingOutlivesCall`), `FailureKept` (`FirstFailureKept`) and `Implements`, that
the executor implements `ModelApi`, for any roots, slots, groups, capacity and
limits. The properties become inductive with the types, with `StepReady` (a step
evaluates only a ready model that can count one more cycle) and with
`WithinLimits` (a ready model has not reached a limit), from which `StopsAtLimit`
concludes that a commit completes the model exactly at the smaller limit. Two
lemmas carry the claim about groups: `AllStored`, by the cardinality theorems,
that `Xfer` stores every event when `Precommit` has counted them, and
`GroupWhole`, that the checks of `Precommit` leave a group all taken or not at
all.

Its second part proves `RunnerStreamFaithful` (`StreamFaithful`) and
`RunnerSuccess` (`SuccessMeansComplete`) of `SystemRunner`, for any groups, gauges,
limits and schedules. The inductive invariant `RunInv` says that what is committed
is the stream followed by what the runner still holds (`Underway`), that a run
that goes on is below its limit (`BelowLimit`), how a stream can have ended
(`Ended`), and that a successful status was checked against the schedule
(`Successful`). `GroupAtEveryPlace` shows by induction over cardinality that the
groups of an epoch are written once each in their order.

`RegisterMemoryProofs` proves `NothingKept` (`NothingPrepared`), `Agreement`
(`VerilogAgrees`) and `Implements`, that the C++ design implements
`RegisterArray`, for any number of subtrees of any size, with and without the
pool. It assumes that there is a family and that families are not empty. The
invariant `IInv` says that both designs hold the same registers at all times
(`SameRegisters`) with one sampled clock level (`OneClock`, which the array's
edges need), that in a step every Verilog leaf has prepared by the pins
(`LeafPrepared`) and every family has prepared its lanes up to the next one by the
same pins, or has thrown there (`FamilyPrepared`), and that nothing is held
outside a step. That the order of subtrees does not matter for the outcome is a
consequence: wherever a family throws, the leaf of that lane reports an error.

Its second part proves `MemoryVerilogAgrees` (`VerilogAgrees` of `MemLockstep`) and
`MemoryImplemented` (`ImplementsMemory`) for any depth, byte lanes and values and
one or two read ports. It assumes that depths and lanes are positive and that the
unknown word is none of the others. The invariant is that the two hold the same words, answers and ages (`SameMemory`), and that what
they have prepared is in one of four forms on both sides: nothing, a held clock,
a reset, or the edge with one write and its reads (`PreparedAlike`). Commits are
compared from these forms, and the abstract memory takes its one step there.

`QueueProofs` proves `QueueVerilogAgrees` (`VerilogAgrees` of `FifoLockstep`) and
`QueueImplemented` (`ImplementsQueue`) for any depth, latency, ready policy and
payload; `QueueRefinement` is the latter for the C++ lane alone. Its assumption is
that depths and latencies are positive. A lane is correct only as long as no
entry's deadline is passed unnoticed, since after that the wrapped timestamps
compare wrongly. The invariant `LaneInv` therefore has

* `RingInv`: the entries lie from `rd` to `wr`, the first one that is not eligible
  at `mature_ptr`;
* `TimingInv`: the ticks until an entry matures (`Waiting`, modulo the timestamp
  range) are between 1 and the latency less one, and grow strictly from entry to
  entry. So at most one entry matures per tick, and it is the one at
  `mature_ptr`;
* `PendingInv`: a prepared transaction still fits the state it was prepared from.

`Waiting` is also the refinement mapping: it is the age that `LatencyQueue` counts
down. `LockstepInv` adds that the leaf holds the same registers, as far as they
are known (`SameLane`), and that its candidate is the outcome of what the kernel
has prepared (`PreparedAlike`). That registers of `BitWidth` are wide enough for
every depth and latency is shown once (`WidthHolds`), by induction over halving.

`PendingCountsOutstanding` is proved (`PendingCorrect`) and is not a run of its
own: it is what the other properties of the pool rest on. TLC has checked the
inductive invariants of `Publication`, `SimExecutor` and `DesignStep` on the
instances of their runs, and `Traces`, `AInv` and `DInv` on the 3,982,910 states
of that of `rule_lowering`.

Only model-checked: liveness (`RunReturns`, `StopJoins`, `CommandsEnd`, both
`RunEnds`, `Drains`), which the prover does not support; and `FoldingExact` of
`ClockedMemory`, which compares a run with the record of an earlier one whose
intermediate states the model does not keep.

## What is not modelled

The compiler proper is a translation over an unbounded language; most of it
(import, type and name checks, normalisation, the verification of the IR, the
emission of text) has no behaviour short of a semantics of the source and of
the IR, and is outside what TLC can enumerate. The part that has one, the
lowering of rules, is modelled for one rule and for the writers of one owner:
the arbitration between rules that share a queue or a memory port, the
canonical form of endpoints across calls and instances, and the pass's own
proofs that what it built is what it planned, are not. Which subtrees are
independent (`getIndependentWorkSubtrees`) is taken from it as given. Text (serialisation, diagnostics, generated code) is
left out everywhere; so are the autonomous, physical and synthesis adapters of
the Verilog leaves, the `if_one` reset semantics, direct host access to memory
entries, and the creation of the lock directory before the first publication.
File-system calls are assumed to be atomic and synced in the order in which the
code syncs them.

## Plan

Next, in this order:

1. Models: the arbitration between rules that compete for a queue or a memory
   port, on top of `RuleLowering`; `byte_mem` in C++ and Verilog beside `SyncMem`; the autonomous
   adapters against the managed ones; the bootstrap of the publication
   directory; `if_one` resets; a composition of `SystemRunner` with `ModelApi`
   in place of its reduced executor; a wider `DesignStep` with a queue.
2. Algorithms: restoring division (`FixedUnsignedDivRemLowering.cpp`) and the
   four-state word operators against reference definitions on bounded widths;
   the dependency order of link.
3. Proofs: `FoldingExact`, with a model that keeps the earlier run and walks
   along it, so that an invariant can relate the two.
