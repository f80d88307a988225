------------------------------- MODULE Executor -------------------------------
(***************************************************************************)
(* The life of execution states in lib/Core/Executor.cpp: run (the seeding *)
(* loop and the main loop), fork, branch, addConstraint, terminateState    *)
(* and its variants, checkMemoryUsage, updateStates, doDumpStates.         *)
(*                                                                         *)
(* The path condition of a state is the set of program inputs that satisfy *)
(* it; a condition is a set of inputs; the solver answers by comparing     *)
(* sets, or times out.  A SeedInfo is opaque: what a condition evaluates   *)
(* to under a seed is left open.  An instruction is any sequence of calls  *)
(* of fork, branch, addConstraint and terminateState on the states it      *)
(* holds pointers to (handles).  The searcher is the set of states it has  *)
(* been told of; it may select any of them.                                *)
(***************************************************************************)
EXTENDS Integers, FiniteSets, FiniteSetsExt

CONSTANTS State,              \* addresses of ExecutionStates
          InitialState,       \* the state runFunctionAsMain creates
          Input,              \* the inputs of the program under test
          Seed,               \* the SeedInfos of -seed-file (usingSeeds)
          MaxForks,           \* -max-forks, -1 is off
          MaxDepth,           \* -max-depth, 0 is off
          MemoryCap,          \* -max-memory is not 0
          MaxMemoryInhibit,   \* -max-memory-inhibit
          OnlyReplaySeeds,    \* -only-replay-seeds
          OnlySeed,           \* -only-seed
          DumpStatesOnHalt,   \* -dump-states-on-halt
          UnreadableStrings,  \* the program passes strings KLEE cannot read
          SymbolicCalls       \* it calls through symbolic function pointers
                              \* that may be invalid

ASSUME ExecutorAssumption ==
  /\ State \subseteq Nat \ {0}
  /\ IsFiniteSet(State)
  /\ InitialState \in State
  /\ Input # {}
  /\ MaxForks \in Nat \cup {-1}
  /\ MaxDepth \in Nat
  /\ MemoryCap \in BOOLEAN
  /\ MaxMemoryInhibit \in BOOLEAN
  /\ OnlyReplaySeeds \in BOOLEAN
  /\ OnlySeed \in BOOLEAN
  /\ DumpStatesOnHalt \in BOOLEAN
  /\ UnreadableStrings \in BOOLEAN
  /\ SymbolicCalls \in BOOLEAN

VARIABLES
  pc,             \* where run() is
  current,        \* the state run() is stepping
  handles,        \* states the current instruction may still work on
  states,         \* Executor::states
  added,          \* Executor::addedStates
  removed,        \* Executor::removedStates, as how often each state is in it
  path,           \* ExecutionState::constraints
  depth,          \* ExecutionState::depth, up to MaxDepth + 1
  forkDisabled,   \* the states with ExecutionState::forkDisabled
  seeded,         \* the keys of Executor::seedMap
  seedMap,        \* the values of Executor::seedMap
  lastState,      \* run()'s lastState, 0 when null
  searching,      \* Executor::searcher is not null
  searcher,       \* the states the searcher holds
  forks,          \* stats::forks, up to MaxForks + 1
  atMemoryLimit,  \* Executor::atMemoryLimit
  haltExecution,  \* Executor::haltExecution
  ended,          \* inputs whose path has been terminated
  dropped         \* inputs given up by a constraint nobody explores the rest of

loopVars == <<current, lastState, searching, searcher>>
bookVars == <<states, added, removed>>
dataVars == <<path, depth, forkDisabled, forks, dropped>>
seedVars == <<seeded, seedMap>>
vars == <<pc, handles, loopVars, bookVars, dataVars, seedVars,
          atMemoryLimit, haltExecution, ended>>

Live == states \cup added

\* The states whose path goes on after the current instruction.
OnGoing == {s \in Live : removed[s] = 0}

Init ==
  /\ pc = IF Seed = {} THEN "construct" ELSE "seed"
  /\ current = InitialState
  /\ handles = {}
  /\ states = {InitialState}
  /\ added = {}
  /\ removed = [s \in State |-> 0]
  /\ path = [s \in State |-> IF s = InitialState THEN Input ELSE {}]
  /\ depth = [s \in State |-> 0]
  /\ forkDisabled = {}
  /\ seeded = IF Seed = {} THEN {} ELSE {InitialState}
  /\ seedMap = [s \in State |-> IF s = InitialState THEN Seed ELSE {}]
  /\ lastState = 0
  /\ searching = FALSE
  /\ searcher = {}
  /\ forks = 0
  /\ atMemoryLimit = FALSE
  /\ haltExecution = FALSE
  /\ ended = {}
  /\ dropped = {}
-----------------------------------------------------------------------------
(***************************************************************************)
(* terminateState for every state of K, when addedStates is A: a state     *)
(* that never reached the searcher is deleted at once, any other is put on *)
(* removedStates.                                                          *)
(***************************************************************************)
\* Mutant: a state that is deleted at once is put on removedStates as well.
DeletedAndRemoved(K, A) ==
  /\ added' = A \ K
  /\ removed' = [s \in State |-> IF s \in K THEN removed[s] + 1 ELSE removed[s]]

TerminateStates(K, A) ==
  /\ added' = A \ K
  /\ removed' = [s \in State |-> IF s \in K \ A THEN removed[s] + 1
                                                ELSE removed[s]]

\* seedMap after the entries of the deleted states D have been erased.
\* Mutants: they stay; the whole map is cleared.
SeedsStay(D) == UNCHANGED seedVars
SeedsCleared(D) == /\ seeded' = {}
                   /\ seedMap' = [s \in State |-> {}]
SeedsWithout(D) == /\ seeded' = seeded \ D
                   /\ seedMap' = [s \in State |-> IF s \in D THEN {} ELSE seedMap[s]]

\* terminateStateEarly, terminateStateOnExit, terminateState.
TerminateState(s) ==
  /\ pc = "execute"
  /\ s \in handles
  /\ TerminateStates({s}, added)
  /\ SeedsWithout({s} \cap added)
  /\ handles' = handles \ {s}
  /\ ended' = ended \cup path[s]
  /\ UNCHANGED <<pc, loopVars, states, dataVars, atMemoryLimit, haltExecution>>

\* terminateStateOnError, which may halt the whole run (-exit-on-error).
TerminateStateOnError(s) ==
  /\ pc = "execute"
  /\ s \in handles
  /\ TerminateStates({s}, added)
  /\ SeedsWithout({s} \cap added)
  /\ handles' = handles \ {s}
  /\ ended' = ended \cup path[s]
  /\ haltExecution' \in {haltExecution, TRUE}
  /\ UNCHANGED <<pc, loopVars, states, dataVars, atMemoryLimit>>

(***************************************************************************)
(* handleAssert, handleAssertFail and handleReportError: when              *)
(* readStringAtAddress cannot read the message it terminates the state and *)
(* returns "", and the handler then terminates the state again.            *)
(***************************************************************************)
AssertWithUnreadableMessage(s) ==
  /\ UnreadableStrings
  /\ pc = "execute"
  /\ s \in handles
  /\ added' = added \ {s}
  /\ removed' = [removed EXCEPT ![s] = @ + IF s \in added THEN 1 ELSE 2]
  /\ SeedsWithout({s} \cap added)
  /\ handles' = handles \ {s}
  /\ ended' = ended \cup path[s]
  /\ haltExecution' \in {haltExecution, TRUE}
  /\ UNCHANGED <<pc, loopVars, states, dataVars, atMemoryLimit>>

(***************************************************************************)
(* A call through a symbolic function pointer forks once for each value.   *)
(* When s got a value that is no function, it is not s that is terminated  *)
(* but the state the instruction began with, which may have terminated in  *)
(* its own callee.  The solver returns the values in any order; the        *)
(* invalid one is taken to be the last.                                    *)
(***************************************************************************)
InvalidFunctionPointer(s) ==
  /\ SymbolicCalls
  /\ pc = "execute"
  /\ s \in handles
  /\ s # current
  /\ removed' = [removed EXCEPT ![current] = @ + 1]
  /\ handles' = {}
  /\ ended' = ended \cup path[current]
  /\ haltExecution' \in {haltExecution, TRUE}
  /\ UNCHANGED <<pc, loopVars, states, added, dataVars, seedVars, atMemoryLimit>>
-----------------------------------------------------------------------------
(***************************************************************************)
(* Executor::addConstraint from klee_assume and toConstant: the path goes  *)
(* on for the inputs of c only.  A seed that violates c is patched.        *)
(***************************************************************************)
\* Mutant: the constraint is not added to the state.
ConstraintForgotten(s, c) ==
  /\ path[s] \cap c # {}
  /\ path' = path
  /\ dropped' = dropped \cup (path[s] \ c)

Constrain(s, c) ==
  /\ path[s] \cap c # {}
  /\ path' = [path EXCEPT ![s] = @ \cap c]
  /\ dropped' = dropped \cup (path[s] \ c)

AddConstraint(s, c) ==
  /\ pc = "execute"
  /\ s \in handles
  /\ Constrain(s, c)
  /\ UNCHANGED <<pc, handles, loopVars, bookVars, depth, forkDisabled, forks,
                 seedVars, atMemoryLimit, haltExecution, ended>>

\* handleSetForking.
SetForking(s) ==
  /\ pc = "execute"
  /\ s \in handles
  /\ \/ forkDisabled' = forkDisabled \cup {s}
     \/ forkDisabled' = forkDisabled \ {s}
  /\ UNCHANGED <<pc, handles, loopVars, bookVars, path, depth, forks, dropped,
                 seedVars, atMemoryLimit, haltExecution, ended>>

(***************************************************************************)
(* stats::forks is only ever compared with MaxForks and depth only with    *)
(* MaxDepth, so both counters stop just where the comparison is decided.   *)
(***************************************************************************)
CountForks(k) == IF forks + k <= MaxForks + 1 THEN forks + k ELSE MaxForks + 1

DepthUpTo(d) == IF MaxDepth = 0 THEN 0
                ELSE IF d <= MaxDepth + 1 THEN d ELSE MaxDepth + 1

ForksExhausted == MaxForks # -1 /\ forks >= MaxForks

\* The conditions under which fork() picks a side at random.
ForkInhibited(s) == \/ MaxMemoryInhibit /\ atMemoryLimit
                    \/ s \in forkDisabled
                    \/ ForksExhausted

\* fork() follows the seeds when it may not follow both sides.
FollowsSeeds(s) == s \in forkDisabled \/ OnlyReplaySeeds

\* solver->evaluate answers Unknown.
Unknown(s, c) == path[s] \cap c # {} /\ path[s] \ c # {}

\* fork() when the query times out.
ForkTimeout(s) == TerminateState(s)

(***************************************************************************)
(* fork() that goes one way although both are possible: forking is         *)
(* inhibited, or all the seeds of s agree on c.                            *)
(***************************************************************************)
ForkOneWay(s, c) ==
  /\ pc = "execute"
  /\ s \in handles
  /\ Unknown(s, c)
  /\ IF s \in seeded THEN FollowsSeeds(s) ELSE ForkInhibited(s)
  /\ Constrain(s, c)
  /\ UNCHANGED <<pc, handles, loopVars, bookVars, depth, forkDisabled, forks,
                 seedVars, atMemoryLimit, haltExecution, ended>>

(***************************************************************************)
(* fork() that branches off the state ns for the inputs outside c.  The    *)
(* seeds in T evaluate c to true.  Both states are terminated again when   *)
(* max-depth is reached.                                                   *)
(***************************************************************************)
TooDeep(d) == MaxDepth # 0 /\ MaxDepth <= d

ForkBothWays(s, c, ns, T) ==
  LET ended2 == IF TooDeep(depth[s] + 1) THEN {s, ns} ELSE {}
      A == added \cup {ns}
  IN
  /\ pc = "execute"
  /\ s \in handles
  /\ ns \in State \ Live
  /\ Unknown(s, c)
  /\ T \subseteq seedMap[s]
  /\ IF s \in seeded THEN FollowsSeeds(s) => T \notin {{}, seedMap[s]}
                     ELSE ~ForkInhibited(s)
  /\ path' = [path EXCEPT ![s] = @ \cap c, ![ns] = path[s] \ c]
  /\ depth' = [depth EXCEPT ![s] = DepthUpTo(@ + 1),
                            ![ns] = DepthUpTo(depth[s] + 1)]
  /\ forkDisabled' = IF s \in forkDisabled THEN forkDisabled \cup {ns}
                                           ELSE forkDisabled \ {ns}
  /\ forks' = CountForks(1)
  /\ seedMap' = [seedMap EXCEPT
                   ![s] = IF s \in ended2 \cap A THEN {} ELSE T,
                   ![ns] = IF ns \in ended2 \cap A THEN {} ELSE seedMap[s] \ T]
  /\ seeded' = IF s \in seeded
                 THEN (seeded \ {s}) \cup {x \in {s, ns} : seedMap'[x] # {}}
                 ELSE seeded
  /\ TerminateStates(ended2, A)
  /\ handles' = (handles \cup {ns}) \ ended2
  /\ ended' = IF ended2 = {} THEN ended ELSE ended \cup path[s]
  /\ UNCHANGED <<pc, loopVars, states, dropped, atMemoryLimit, haltExecution>>
-----------------------------------------------------------------------------
(***************************************************************************)
(* Executor::branch.  R is the set of results, s itself among them, and    *)
(* cond gives the inputs of s each goes on with; the callers (switch,      *)
(* indirectbr, klee_get_value) pass feasible, exclusive conditions.        *)
(* Result i is branched off a random earlier one, so the depths are those  *)
(* of the leaves of a binary tree.  pick says which result each seed of s  *)
(* goes to.  With OnlyReplaySeeds, seedless results are terminated.        *)
(***************************************************************************)
Exclusive(R, P) ==
  {cond \in [R -> (SUBSET P) \ {{}}] :
     \A r, q \in R : r # q => cond[r] \cap cond[q] = {}}

\* Kraft's equality: d are the depths of the leaves of some binary tree.
IsLeafDepths(R, d) ==
  LET N == Cardinality(R) IN
  MapThenSumSet(LAMBDA r : 2 ^ (N - 1 - d[r]), R) = 2 ^ (N - 1)

LeafDepths(R) == {d \in [R -> 0 .. (Cardinality(R) - 1)] : IsLeafDepths(R, d)}

Branch(s, R, cond, d, pick) ==
  LET seedless == IF s \in seeded /\ OnlyReplaySeeds
                    THEN {r \in R : \A x \in seedMap[s] : pick[x] # r}
                    ELSE {}
      A == added \cup (R \ {s})
      kept == UNION {cond[r] : r \in R \ seedless}
  IN
  /\ pc = "execute"
  /\ s \in handles \cap R
  /\ R \ {s} \subseteq State \ Live
  /\ ~ForksExhausted
  /\ path' = [x \in State |-> IF x \in R THEN cond[x] ELSE path[x]]
  /\ depth' = [x \in State |-> IF x \in R THEN DepthUpTo(depth[s] + d[x])
                                          ELSE depth[x]]
  /\ forkDisabled' = IF s \in forkDisabled THEN forkDisabled \cup R
                                           ELSE forkDisabled \ R
  /\ forks' = CountForks(Cardinality(R) - 1)
  /\ seedMap' = [x \in State |-> IF x \in R THEN {y \in seedMap[s] : pick[y] = x}
                                            ELSE seedMap[x]]
  /\ seeded' = (seeded \ {s}) \cup {x \in R : seedMap'[x] # {}}
  /\ TerminateStates(seedless, A)
  /\ handles' = (handles \cup R) \ seedless
  /\ dropped' = dropped \cup (path[s] \ kept)
  /\ UNCHANGED <<pc, loopVars, states, atMemoryLimit, haltExecution, ended>>

(***************************************************************************)
(* branch() once max-forks is reached: a random condition is kept, and     *)
(* with it the seeds Q that satisfy it; the other seeds of s are lost.     *)
(***************************************************************************)
BranchExhausted(s, c, Q) ==
  LET seedless == s \in seeded /\ OnlyReplaySeeds /\ Q = {} IN
  /\ pc = "execute"
  /\ s \in handles
  /\ ForksExhausted
  /\ Q \subseteq seedMap[s]
  /\ path[s] \cap c # {}
  /\ path' = [path EXCEPT ![s] = @ \cap c]
  /\ dropped' = dropped \cup (IF seedless THEN path[s] ELSE path[s] \ c)
  /\ seedMap' = [seedMap EXCEPT ![s] = Q]
  /\ seeded' = IF Q = {} THEN seeded \ {s} ELSE seeded
  /\ TerminateStates(IF seedless THEN {s} ELSE {}, added)
  /\ handles' = IF seedless THEN handles \ {s} ELSE handles
  /\ UNCHANGED <<pc, loopVars, states, depth, forkDisabled, forks,
                 atMemoryLimit, haltExecution, ended>>
-----------------------------------------------------------------------------
(***************************************************************************)
(* run(): the seeding loop steps the states of seedMap in address order,   *)
(* from lastState upwards and then again from the lowest.                  *)
(***************************************************************************)
\* Mutant: lastState is ignored.
LowestSeeded(s) == \A t \in seeded : s <= t
NextSeeded(s) == \/ /\ s > lastState
                    /\ \A t \in seeded : t > lastState => s <= t
                 \/ \A t \in seeded : t <= lastState /\ s <= t

SeedStep(s) ==
  /\ pc = "seed"
  /\ ~haltExecution
  /\ s \in seeded
  /\ NextSeeded(s)
  /\ pc' = "execute"
  /\ current' = s
  /\ lastState' = s
  /\ handles' = {s}
  /\ UNCHANGED <<searching, searcher, bookVars, dataVars, seedVars,
                 atMemoryLimit, haltExecution, ended>>

\* The seeding loop ends: halted, out of seeded states, or -seed-time is over.
SeedingEnds ==
  /\ pc = "seed"
  /\ \/ seeded # {} /\ haltExecution /\ pc' = "dump"
     \/ seeded = {} /\ pc' = IF OnlySeed THEN "dump" ELSE "construct"
     \/ lastState # 0 /\ pc' = IF OnlySeed THEN "dump" ELSE "construct"
  /\ UNCHANGED <<handles, loopVars, bookVars, dataVars, seedVars,
                 atMemoryLimit, haltExecution, ended>>

\* constructUserSearcher and the update that tells it of every state.
ConstructSearcher ==
  /\ pc = "construct"
  /\ pc' = "select"
  /\ searching' = TRUE
  /\ searcher' = states
  /\ UNCHANGED <<current, lastState, handles, bookVars, dataVars, seedVars,
                 atMemoryLimit, haltExecution, ended>>

\* The head of the main loop: selectState and stepInstruction.
SelectState(s) ==
  /\ pc = "select"
  /\ states # {}
  /\ ~haltExecution
  /\ s \in searcher
  /\ pc' = "execute"
  /\ current' = s
  /\ handles' = {s}
  /\ UNCHANGED <<lastState, searching, searcher, bookVars, dataVars, seedVars,
                 atMemoryLimit, haltExecution, ended>>

\* Mutant: a halt does not end the loop.
LoopEndsWhenEmpty ==
  /\ pc = "select"
  /\ states = {}
  /\ pc' = "dump"
  /\ UNCHANGED <<handles, loopVars, bookVars, dataVars, seedVars,
                 atMemoryLimit, haltExecution, ended>>

LoopEnds ==
  /\ pc = "select"
  /\ states = {} \/ haltExecution
  /\ pc' = "dump"
  /\ UNCHANGED <<handles, loopVars, bookVars, dataVars, seedVars,
                 atMemoryLimit, haltExecution, ended>>

\* executeInstruction returns; only the main loop looks at the memory cap.
InstructionDone ==
  /\ pc = "execute"
  /\ pc' = IF searching /\ MemoryCap THEN "memory" ELSE "update"
  /\ handles' = {}
  /\ UNCHANGED <<loopVars, bookVars, dataVars, seedVars, atMemoryLimit,
                 haltExecution, ended>>

(***************************************************************************)
(* checkMemoryUsage: below the cap, above it, or so far above it that the  *)
(* states K, drawn at random from all of states, are killed.               *)
(***************************************************************************)
CheckMemoryUsage(K) ==
  /\ pc = "memory"
  /\ K \subseteq states
  /\ IF K = {} THEN atMemoryLimit' \in BOOLEAN ELSE atMemoryLimit' = TRUE
  /\ TerminateStates(K, added)
  /\ ended' = ended \cup UNION {path[s] : s \in K \cap OnGoing}
  /\ pc' = "update"
  /\ UNCHANGED <<handles, loopVars, states, dataVars, seedVars, haltExecution>>

(***************************************************************************)
(* updateStates: the searcher is updated, the added states join states,    *)
(* and each removed state must be found there before it is erased.         *)
(***************************************************************************)
RemovedStates == {s \in State : removed[s] > 0}

RemovalsValid == \A s \in RemovedStates : removed[s] = 1 /\ s \in Live

\* searcher->update.  Mutant: the removed states are not reported.
KeepsRemoved == IF searching THEN searcher \cup added ELSE searcher
UpdatedSearcher == IF searching THEN (searcher \cup added) \ RemovedStates
                                ELSE searcher

UpdateStates ==
  /\ pc = "update"
  /\ pc' = IF RemovalsValid THEN (IF searching THEN "select" ELSE "seed")
                            ELSE "aborted"
  /\ states' = Live \ RemovedStates
  /\ added' = {}
  /\ removed' = [s \in State |-> 0]
  /\ searcher' = UpdatedSearcher
  /\ SeedsWithout(RemovedStates)
  /\ path' = [s \in State |-> IF s \in RemovedStates THEN {} ELSE path[s]]
  /\ depth' = [s \in State |-> IF s \in RemovedStates THEN 0 ELSE depth[s]]
  /\ forkDisabled' = forkDisabled \ RemovedStates
  /\ UNCHANGED <<current, lastState, searching, handles, forks, dropped,
                 atMemoryLimit, haltExecution, ended>>

\* The searcher is deleted, and doDumpStates terminates what is left.
DoDumpStates ==
  /\ pc = "dump"
  /\ pc' = "done"
  /\ searching' = FALSE
  /\ searcher' = {}
  /\ IF DumpStatesOnHalt
       THEN /\ states' = {}
            /\ ended' = ended \cup UNION {path[s] : s \in states}
            /\ SeedsWithout(states)
       ELSE UNCHANGED <<states, ended, seedVars>>
  /\ UNCHANGED <<current, lastState, handles, added, removed, dataVars,
                 atMemoryLimit, haltExecution>>

\* ctrl-c, the -max-time timer, -max-tests and -max-instructions.
SetHaltExecution ==
  /\ pc \notin {"done", "aborted"}
  /\ ~haltExecution
  /\ haltExecution' = TRUE
  /\ UNCHANGED <<pc, handles, loopVars, bookVars, dataVars, seedVars,
                 atMemoryLimit, ended>>
-----------------------------------------------------------------------------
Instruction ==
  \E s \in handles :
    \/ TerminateState(s) \/ TerminateStateOnError(s)
    \/ AssertWithUnreadableMessage(s) \/ InvalidFunctionPointer(s)
    \/ ForkTimeout(s) \/ SetForking(s)
    \/ \E c \in SUBSET Input :
         \/ AddConstraint(s, c)
         \/ ForkOneWay(s, c)
         \/ \E ns \in State, T \in SUBSET Seed : ForkBothWays(s, c, ns, T)
         \/ \E Q \in SUBSET Seed : BranchExhausted(s, c, Q)
    \/ \E New \in SUBSET (State \ Live) :
         \E cond \in Exclusive(New \cup {s}, path[s]),
            d \in LeafDepths(New \cup {s}),
            pick \in [seedMap[s] -> New \cup {s}] :
              Branch(s, New \cup {s}, cond, d, pick)

MainLoop ==
  \/ \E s \in State : SeedStep(s) \/ SelectState(s)
  \/ SeedingEnds \/ ConstructSearcher \/ LoopEnds \/ InstructionDone
  \/ \E K \in SUBSET states : CheckMemoryUsage(K)
  \/ UpdateStates \/ DoDumpStates

Next == Instruction \/ MainLoop \/ SetHaltExecution

\* executeInstruction returns and the loop is never blocked.
Spec == Init /\ [][Next]_vars /\ WF_vars(MainLoop)
-----------------------------------------------------------------------------
TypeOK ==
  /\ pc \in {"seed", "construct", "select", "execute", "memory", "update",
             "dump", "done", "aborted"}
  /\ current \in State
  /\ handles \subseteq State
  /\ states \subseteq State
  /\ added \subseteq State
  /\ removed \in [State -> Nat]
  /\ path \in [State -> SUBSET Input]
  /\ depth \in [State -> 0 .. MaxDepth + 1]
  /\ forkDisabled \subseteq State
  /\ seeded \subseteq State
  /\ seedMap \in [State -> SUBSET Seed]
  /\ lastState \in State \cup {0}
  /\ searching \in BOOLEAN
  /\ searcher \subseteq State
  /\ forks \in 0 .. MaxForks + 1
  /\ atMemoryLimit \in BOOLEAN
  /\ haltExecution \in BOOLEAN
  /\ ended \subseteq Input
  /\ dropped \subseteq Input

(***************************************************************************)
(* Symbolic execution neither loses an input nor follows it twice: however *)
(* fork, branch, addConstraint, the terminations and the memory cap are    *)
(* interleaved, the path conditions of the states that go on are           *)
(* satisfiable and disjoint, and together with the paths that have ended   *)
(* and the inputs that a constraint gave up they make up all inputs.       *)
(***************************************************************************)
PathsPartition ==
  pc # "aborted" =>
    /\ \A s \in OnGoing : path[s] # {}
    /\ \A s, t \in OnGoing : s # t => path[s] \cap path[t] = {}
    /\ \A s \in OnGoing : path[s] \cap (ended \cup dropped) = {}
    /\ ended \cap dropped = {}
    /\ Input = ended \cup dropped \cup UNION {path[s] : s \in OnGoing}

(***************************************************************************)
(* assert(it2!=states.end()) in updateStates: each state is removed once,  *)
(* and while it is in states; a second removal would delete it twice.      *)
(***************************************************************************)
RemovedOnce == pc # "aborted"

(***************************************************************************)
(* Whenever run() is about to select, the searcher holds exactly the       *)
(* states of the executor: it selects no deleted state and forgets none.   *)
(***************************************************************************)
SearcherInSync == pc = "select" => searcher = states

(***************************************************************************)
(* A seed belongs to one state, no state has an empty entry in seedMap     *)
(* (assert(trueSeed || falseSeed) in fork relies on it), and every state   *)
(* the seeding loop can pick exists.                                       *)
(***************************************************************************)
SeedsOwned ==
  /\ \A s \in State : s \in seeded <=> seedMap[s] # {}
  /\ \A s, t \in seeded : s # t => seedMap[s] \cap seedMap[t] = {}
  /\ pc # "aborted" => seeded \subseteq Live

(***************************************************************************)
(* -only-replay-seeds, "Discard states that do not have a seed": between   *)
(* two instructions every state has one.                                   *)
(***************************************************************************)
OnlySeededStates ==
  OnlyReplaySeeds /\ Seed # {} /\ pc \in {"seed", "construct", "select"}
    => states \subseteq seeded

(***************************************************************************)
(* Seeds and states agree: what fork and branch hand out, terminateState   *)
(* takes back and -only-replay-seeds discards.                             *)
(***************************************************************************)
SeedsSound == SeedsOwned /\ OnlySeededStates

(***************************************************************************)
(* A seed leaves seedMap only with a state that is deleted, or in branch   *)
(* once max-forks is reached: forking never loses one.                     *)
(***************************************************************************)
SeedsInUse == UNION {seedMap[s] : s \in State}

SeedsKept ==
  [][ \/ SeedsInUse \subseteq SeedsInUse'
      \/ ForksExhausted
      \/ Live \ Live' # {}
      \/ \E s \in State : TooDeep(depth'[s]) ]_vars

(***************************************************************************)
(* Once the run is asked to halt it ends.                                  *)
(***************************************************************************)
HaltEnds == haltExecution ~> pc \in {"done", "aborted"}

(***************************************************************************)
(* With -dump-states-on-halt a run that has ended has terminated every     *)
(* state: all inputs have ended or were given up.                          *)
(***************************************************************************)
DumpedAll == pc = "done" /\ DumpStatesOnHalt => Live = {} /\ Input = ended \cup dropped

(***************************************************************************)
(* No input is lost, while run() goes on and once it has ended.            *)
(***************************************************************************)
InputsKept == PathsPartition /\ DumpedAll

(***************************************************************************)
(* The seeding loop steps every seeded state in turn.                      *)
(***************************************************************************)
SeedsTakeTurns ==
  \A s \in State :
    pc = "seed" /\ s \in seeded
      ~> current = s \/ s \notin seeded \/ searching \/ pc \in {"done", "aborted"}

\* The executor creates, deletes and selects states only as the tree allows.
Pool == INSTANCE StatePool WITH live <- Live, selected <- current
PoolSpec == Pool!Spec
=============================================================================
