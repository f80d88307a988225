# A TLA+ model of KLEE

This directory specifies the KLEE fork in `src/klee` (KLEE 2.1 with the
Parameterized searcher of ParaDySE) in TLA+: how execution states are created,
scheduled, merged and deleted, how their memory is shared, how an instruction is
interpreted, how terms are built and queries answered, and how the POSIX runtime
keeps its files. TLC checks the modules on small instances; TLAPS proves the main
results for every size.

    tlc -config MCExecutor_seeds.cfg MCExecutor      # one run
    tlapm ExecutorProofs.tla                         # one module's proofs

`PROJECT.json` lists components, runs, the source lines of each definition, the
known disagreement (finding), hazards and theorems. A definition introduced by a
comment "Mutant" is a deliberately wrong variant of the one that follows it; it is
used to confirm that a property notices that mistake, and is part of no
specification.

## The system

| part | state | operations that change it | modelled in |
|---|---|---|---|
| process tree, `PTree.cpp`, and `RandomPathSearcher` | nodes, parent/child/state pointers | attach, remove, selectState (walk) | PTree |
| main loop, `Executor.cpp` | states, addedStates, removedStates, seedMap, haltExecution, atMemoryLimit | run, fork, branch, addConstraint, terminateState*, checkMemoryUsage, updateStates, doDumpStates | Executor |
| merging, `MergeHandler.cpp`, `MergingSearcher` | pausedStates, inCloseMerge, mergeGroups, openStates, reachedCloseMerge, openMergeStack | klee_open_merge, klee_close_merge, pause, continue, release, select, update | Merging |
| searchers, `Searcher.cpp`, `UserSearcher.cpp` | lists, queues, weights, turns, paused states | selectState, update | Searchers |
| address spaces, `AddressSpace.cpp` | objects, copy-on-write keys | fork, getWriteable, external calls, merge, free | AddressSpace |
| bytes of an object, `Memory.cpp` | concreteStore, knownSymbolics, updates, two masks | read8, write8, flushRangeFor*, flushToConcreteStore, external calls | ObjectStates |
| interpreter, `Executor.cpp`, `SpecialFunctionHandler.cpp`, module passes | stack, registers, memory, path | one instruction | Llvm, Prepare, Interpreter |
| expressions, `lib/Expr`, `ImpliedValue.cpp` | none (terms) | create, build, evaluate, simplify, addConstraint | BitVectors, Expressions, ExprCreate, ExprBuilders, Constraints |
| solver chain, `lib/Solver`, `MapOfSets.h` | query and counterexample caches, the index of the latter, the log, what STP has asserted | one query | SolverChain, Queries, CoreSolvers, MapOfSets |
| fast solver, backends, `lib/Solver` | none | decide, translate a term | FastCex, SolverTerms |
| POSIX runtime, `runtime/POSIX` | file descriptor table, symbolic files, failure counters | every call of `fd.c`, the stubs | PosixFiles |
| features and scores, seeds' contents, other data structures of `ADT`, statistics, text, tools, ParaDySE scripts | | | not modelled (below) |

The parts interact as follows. `run` asks the searcher for a state and executes
one instruction of it. The instruction forks states (each fork attaches to the
process tree, shares the memory and appends to addedStates) and terminates states
(appended to removedStates, or deleted at once if they were only just forked),
asking the solver chain on the way. After the instruction the memory cap may
terminate more, and `updateStates` passes both lists to the searcher, then applies
them to `states` and the tree. Merging cuts across this: `klee_close_merge` takes
states out of the base searcher, and a handler that dies puts them back, in the
middle of an instruction.

What makes this hard: one instruction touches several states, and terminating
means two different things; raw pointers to states and objects live in seedMap,
the tree, searchers, handlers and resolution lists; addresses are reused; a halt,
the memory cap or a timeout can hit at any instruction; regions of merging nest;
caches outlive the queries that filled them.

## Modules

**StatePool** is the abstract specification of the set of states: it is changed by
creating and deleting members, and a selection returns a member. PTree, Executor,
Merging and Searchers each implement it, which is what they need of each other:
the executor's states are the tree's and the searchers'.

**PTree** has one variable per pointer field. `Attach` is `PTree::attach`
together with the creation of the state. The loops of `remove` and `selectState`
take one step per iteration, with `op` and `n` as program counter and cursor.
Freed addresses may be allocated again.

**Executor**. A path condition is the set of inputs that satisfy it, a branch
condition is a set of inputs, and the solver compares sets or times out
(`ForkTimeout`). An instruction is any sequence of calls of fork, branch,
addConstraint and terminateState on the states it holds (`handles`); this covers
every `executeInstruction` case and handler that works this way, in every order.
`removed` counts how often a state is on removedStates. A failing assert is the
state `pc = "aborted"`. Seeds are opaque: which side of a branch a seed takes is
open. The searcher is the set of states it was told of. Two ghost variables,
`ended` and `dropped`, record what became of inputs nobody explores any more.
`UnreadableStrings` and `SymbolicCalls` switch on two behaviours of the program
under test in which the code terminates a state it should not (see the hazards).

**Merging** repeats the bookkeeping of Executor (states, addedStates,
removedStates, the loop) as far as merging depends on it, and adds handlers,
counted by the `openMergeStack`s that hold them. Left open: whether two states can
be merged (their stacks and memory are not modelled) and whether a state is near
enough to be waited for. The option -use-incomplete-merge and the memory cap are
variables that are chosen at the start and never change. `pc = "dangling"` stands
for the use of a deleted object. A close without a matching open only warns and is
no step. With a memory cap the code can lose a removal (the update that
MergingSearcher swallows) and a handler can outlive the searcher, so those of the
properties that then fail assume that there is none; they say so.

**Searchers** puts the searchers together as `constructUserSearcher` does: core
searchers with a container each, InterleavedSearcher, BatchingSearcher,
IterativeDeepeningTimeSearcher. `held`, `index`, `lastState` and `pausedStates`
are the fields of the classes; `UpdateStates` is the whole chain of `update`
calls. Time, random numbers and weights are free choices; the Parameterized
searcher is a container from which any state may be chosen, or none when the
weight file can give every state a score that getTop does not look at
(`lowScores`; the null pointer is then dereferenced). Every combination is
explored. The properties are about the ones that `Supported` allows: all but such
scores under -search=param, and iterative deepening over random-path, which walks
the tree and returns paused states as well. Both are hazards.

**AddressSpace**. `objects` maps states and objects to addresses of ObjectStates,
`heap` the addresses to owner, read-only flag and contents. An operation that finds
several ObjectStates first and uses them later (executeMemoryOperation, external
calls, merge) keeps what it has found in `rl` and takes one step per object, with
the forks in between. At a read-only object the half of the fork that points to it
ends (`ReadOnlyForking`); a failed query may end the write anywhere (`WriteError`). **PrivateMemory** is the abstract specification: one memory
per state, no sharing.

**ObjectStates** is one ObjectState from the inside. `os` has the fields of the
class, `content` is what each byte should hold for each input. A null mask stands
for one with every bit set, as in the code. An external call writes concreteStore
behind the masks (`copyInConcrete`); `stale` records the bytes whose updates are
then out of date, which the properties except until they are written again.

**BitVectors** to **SolverTerms** are operators over terms: `Expressions` says
what a term means on an input and how the constant prefix of an object's writes
becomes an array (getUpdates), `ExprCreate` has the create functions of `Expr.cpp`,
`ExprBuilders` the builders of `ExprBuilder.cpp`, `Constraints` the evaluator, the
constraint manager, implied values, findReads and the preferences of a test case
(klee_prefer_cex), `FastCex` the fast solver with its ranges, `SolverTerms` what
STP, Z3 and metaSMT are given. MCExpressions builds terms call by call and paths
condition by condition.

**SolverChain**. An expression is its truth set with the cells it reads
(**Queries**). A call of a solver is the set of its outcomes with the caches they
leave: the core solver may time out and returns any solution. `getRange` is the
binary search of `Solver.cpp` on top of it, and the logging solver keeps what it
has buffered and written. **CoreSolvers** has STP, metaSMT, Z3 and the dummy solver,
with the process that is forked, its shared memory and exit codes; the decision
procedures themselves are external. **MapOfSets** is the tree in which the
counterexample cache looks up subsets and supersets.

**PosixFiles**. One action per call; `fds` is the table of `__exe_env`, `disk` the
symbolic files, `n_calls` and `max_failures` the failures that are injected. What
the operating system answers is open. Offsets are numbers modulo the width of
off64_t (`MaxOff`), as the code adds to them without a check; the ghost variable
`wrapped` records that a write has taken one past the largest, which is the only
way to a negative offset in `read` (`FilesSound`). A count is at most the size of
the caller's buffer (`MaxBytes`). **FileTable** is the abstract table: a call
opens the lowest free descriptor, duplicates one or closes one.

**Llvm** gives small programs a meaning of their own, **Prepare** is what
`KModule` and the passes make of them (checks, switches, phis, intrinsics, layout),
**Interpreter** executes the result on symbolic states. A value is a function from
inputs, a path a set of inputs. The host gives a block of at most `Available`
bytes; `HugeAssumption` says that the size executeAlloc calls huge is no smaller.
An assert, a `klee_error` or the second termination of a state ends a path as
"crash", and all states with it: klee_mark_global on a local object, overlapping
klee_define_fixed_object, an llvm.va_start whose writes fail. A path is `astray`
once the code has left the meaning of the program: llvm.fabs takes the absolute
value of the function it calls instead of its argument; klee_make_symbolic returns
at a read-only object and leaves out the objects after it; a mark of
klee_mark_global (`marked`) is seen by every state that shares the object. The
programs reach each of these, and `OutcomesRight` claims nothing of such a path.

## Runs

All passing runs explore their state space completely.

| run | distinct states | question |
|---|---|---|
| ptree | 29230 | asserts, leaves, every state reachable; both loops end; the walk stays on allocated nodes and returns a live state; PTree implements StatePool |
| executor_seeds | 347350 | with -only-replay-seeds, -max-forks and -max-depth: inputs are partitioned, the searcher is in step, states are removed once, seeds belong to one state each, forking loses none, the seeding loop is fair; Executor implements StatePool |
| executor_halt | 15206 | a halt request ends the run, with the memory cap and all the switches on |
| merging | 156385 | with and without -use-incomplete-merge and the memory cap: nobody is forgotten or waits for ever, waiting states and handlers agree, nested regions agree, inputs are partitioned, only live states are selected |
| searchers | 76275 | for the supported combinations: containers agree with the states, asserts hold, batches go on with live states, somebody always runs, breadth first is breadth first, every searcher is asked; Searchers implements StatePool |
| address_space | 63966 | ownership, found objects stay current; AddressSpace implements PrivateMemory |
| object_bytes | 177066 | reads at constant and symbolic offsets give what was written last; the cache invariants written down in `Memory.cpp` hold |
| solver_chain | 44420 | caches tell the truth, the index of the counterexamples overlooks none, answers and ranges are exact, failures come from the core solver (exceptions below) |
| expressions | 13187 | rewriting, evaluation, constraints, fast solver and backends agree with the meaning of terms |
| posix_files | 138088 | files and select are sound, an offset turns negative only by a write past the largest, failed calls change nothing, unlinked files stay gone; PosixFiles implements FileTable |
| interpreter | 7082 | every path that is not astray ends as the program does on its inputs; inputs are partitioned, frames own their objects |

The run executor_memory_cap is expected to find a violation of `RemovedOnce`: the
memory cap terminates a state the instruction has already terminated. It is the
subject of the finding in `PROJECT.json`. Further disagreements with comments or
option texts met while modelling are hazards with a note there: a message that
cannot be read, an invalid function pointer, merging under the memory cap and after
a halt, -save-all-writes, select after dup, iterative deepening over random-path,
llvm.fabs.

**Exceptions.** Where the code does not keep what a property says, the property
names the case, the model reaches it, and everything else is claimed. Solver chain:
with -cex-cache-exp the counterexample cache reports a failure of its own, getRange
does not survive a failure of the core solver, and
-debug-assignment-validating-solver takes one for a solution and aborts. Implied
values: of an Or that is zero the operands are said to be null. Searchers:
`Supported`. PosixFiles: `wrapped`, and duplicated descriptors in select.
Interpreter: `astray` and crashes. ObjectStates: bytes an external call changed
after a flush (`stale`).

**Bounds.** Three or four states: two distinct states can interact with a third
that is forked, deleted and whose address is reused. PTree has the nodes of a full
tree over its states (two per fork and the root), so `remove` climbs more than one
level. Two to four inputs: every state can hold a non-empty condition, and `branch`
can make three results at once. One seed leaves states without one, two can agree
or disagree; limits of 2 are reached. Two handlers with two close points:
regions nest, run side by side and end at different instructions; runs of Merging
with a memory cap stay below four states (`BoundedSpec`).
`forks` and `depth` stop just past their limits, where no comparison can tell larger
values apart. Searchers has every core searcher alone and three interleavings of
different containers, with every setting of the other options. AddressSpace has a constant and a writable object and enough
addresses for every state to own a copy. ObjectStates: two bytes that can be in
different places, and two inputs that tell them apart. Solver chain: two arrays of two and one
byte, so that factors share an array and a symbolic index ties cells together.
Expressions: widths of one to a few bits, where every rule and every overflow
already occurs; the division constants at every dividend and divisor of their
width. PosixFiles: four calls on three descriptors, or three calls with injected
failures; a symbolic file with a name and one without, and offsets from -4 to 3, so
that two calls can take one past its width. Interpreter: two symbolic bytes of two
bits, words of eight, and programs that meet every instruction modelled. Symmetry
is used over inputs (object_bytes) and over addresses, close points and inputs
(merging), and in no run that checks liveness; the seeding loop orders state
addresses, so those are never permuted in Executor. Runs do not check for deadlock
where the system may stop: the executor when it is done or aborted, the tree when it
has no state left, a bounded number of queries; posix_files and interpreter do.

**Fairness.** PTree: weak fairness of the loop steps, since nothing else runs
between two iterations. Executor: weak fairness of the main loop, since `run` is a
plain loop and `executeInstruction` returns. Searchers: the same loop. Interpreter:
the loop goes on while there are states. Nothing is assumed of which state is
selected, which branch is taken, or that a halt ever comes. Merging claims no
liveness; that the states cannot all wait for each other is the invariant
`SomebodyRuns`.

## Proofs

**PTreeProofs** proves, for any sets of nodes and states, `TreeSound` (type
correctness, the asserts of `attach` and `remove`, that leaves carry live states,
that the walk is safe), that the walk returns a live state, `EveryStateReachable`,
and that PTree implements StatePool. The inductive invariant `IInv` adds to the checked properties
that parent and child pointers agree (`Linked`), that some level function decreases
towards the root (`Ranked`; without it a childless root would not imply an
otherwise empty tree, and `remove` could strand states), where the cursor stands
(`CursorOK`), and which leaf is exempt while `remove` runs (`Carried`).
`EveryStateReachable` follows from it without induction over paths: the reachable
nodes are the least set that has the root and is closed under child pointers, and
of the nodes outside such a set one of least level would have its parent inside.

**ExecutorProofs** proves, for any number of states, inputs and seeds and any
limits, type correctness, `InputsKept`, `RemovedOnce`, `SearcherInSync`,
`SeedsSound`, the action property `SeedsKept` and that Executor implements
StatePool. Hypothesis of all but type
correctness: `Orderly`, that is, neither unreadable strings nor invalid symbolic
calls; for `RemovedOnce` also no memory cap, and the run executor_memory_cap shows
that it is needed. `IInv` is `TypeOK` with three parts: `BookInv` (the instruction
only holds states that go on, removedStates is part of states, the lists are empty
between instructions), `SeedInv` and `PathInv`. `BookInv` is what makes the others
inductive: a fork preserves the partition only because its state has not been
terminated.

**AddressSpaceProofs** proves, for any states, objects, addresses and any number of
forks, `OwnershipSound`, `FoundIsCurrent` and that AddressSpace implements
PrivateMemory: sharing cannot be seen. The inductive invariant says that an
ObjectState bound by two states is owned by an epoch both have left
(`Separated`), which `OwnedIsPrivate` alone does not: two states have equal keys
after a fork, and the next fork of one of them must not make it the owner of what
the other still binds. It is stated for any maps and keys, because a write that
forks passes through an intermediate one.

**PosixFilesProofs** proves, for any number of descriptors, files, bytes and calls,
`FilesSound`, `FailedCallsChangeNothing`, `UnlinkedIsGone` and that PosixFiles
implements FileTable, for any width of the offsets. `StepShape` says for each call of `fd.c` which of six things
it does to the table and which of four to the files; everything else follows from
the shapes. `IInv` adds to the checked properties that no symbolic file has a
negative offset before one has wrapped (`OffsetsGood`), and that every descriptor
of the system in the table has been given out by it and, until one is duplicated, belongs
to one entry; `select` cannot translate back correctly without this. That the
lowest closed descriptor exists uses the well-foundedness of the naturals.

**MergingInvariants** and **MergingProofs** prove `HandlersExact`, `NobodyLost`,
`SomebodyRuns`, `InputsKept` and that Merging implements StatePool, for any number
of states, handlers, close points and inputs, on the assumption that
`klee_close_merge` is not called through a symbolic function pointer (with such
calls a state that the searcher does not know yet can be paused). The invariant
`IInv` has one part per record that must agree with the others: the books of the
executor, the stacks (each handler once, `openStates` exactly the states with a
reference, and a bound on their depth), the waiting states, the split of the states
between the searchers, the regions around a handler, and the inputs. The first
three hold with a memory cap as well. `SomebodyRuns` is not inductive and follows
from the regions: who waits at a handler has a shorter stack than whom it waits for,
so a deepest state cannot be waiting; this uses the well-foundedness of the
naturals.

**SearchersProofs** proves, for any states and any combination of searchers,
`SearchersSound`, `BreadthFirst` and that Searchers
implements StatePool; the first and the last claim nothing of the combinations
that `Supported` excludes. The invariant says that every container lists exactly the
states that exist and are not paused, each once (`Lists`). It is stated for any
containers, because iterative deepening updates those below it up to three times in
one update, and the lemmas follow that chain: removing from a list keeps the order
of the rest (`WithoutSelects`), an update of the base searchers leads from lists of
one set to lists of another (`BaseUpdateLists`), and the whole update to lists of
the states that go on (`DeepeningLists`). `BreadthFirst` needs more
than itself: a queue that spans two levels of forks is only extended at the end by
states of the next level if its front, the state being stepped, is of the least
(`QueueInv`).

**ObjectStatesProofs** proves `BytesExact` for objects of any size, bytes of any
width and any number of inputs. The invariant `Coherent` says of each of the three
places of a byte when it is right (`PlacesRight`); the checked property only speaks
of what a read returns, which is too weak when the masks change.

All modules prove one lemma per action and combine them. The proofs assume only the
named assumptions on the constants, which TLC evaluates in the runs.

Only model-checked: the liveness properties (`LoopsEnd`, `HaltEnds`,
`SeedsTakeTurns`, `EverySearcherAsked`, `EveryPathEnds`), since fairness is outside
the prover's reach; and the safety of expressions, solver chain and interpreter,
whose terms, caches and programs are handled by recursive operators and by folds,
so that what they compute for every input would need an induction over data. Every
other property of the runs is proved.

## Not modelled

In the modelled parts: the replay modes (replayPath, replayKTest); the
MaxStatic\*Pct options (they end in addConstraint, which is modelled);
inhibitForking, set from a debugger; path writers and statistics. In Executor, an
invalid value of a symbolic function pointer is taken to be the last the solver
returns. In Merging: seeding (the searcher exists from the start), and more than
one call per instruction unless `PointerCalls`. In AddressSpace contents are opaque
values; in Interpreter a state owns its memory, and inline assembly and exceptions
are absent (of vectors the code has insertelement and extractelement, which are
modelled). The features of the Parameterized searcher, patchSeed, the
array optimizer, the other data structures of `include/klee/Internal/ADT`,
statistics, the text formats and the ParaDySE scripts are not modelled;
`PROJECT.json` has the reasons.
