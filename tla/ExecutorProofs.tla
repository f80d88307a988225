--------------------------- MODULE ExecutorProofs ---------------------------
(***************************************************************************)
(* Proofs about Executor: the states, their path conditions and their      *)
(* seeds are kept consistent by run(), fork, branch and the terminations,  *)
(* for every set of states, inputs and seeds and every setting of the      *)
(* options.  The results other than type correctness assume that the       *)
(* program under test does neither of the two things that make an          *)
(* instruction terminate a state twice: see AssertWithUnreadableMessage    *)
(* and InvalidFunctionPointer.                                             *)
(***************************************************************************)
EXTENDS Executor, TLAPS, FiniteSetTheorems

Orderly == ~UnreadableStrings /\ ~SymbolicCalls

\* TypeOK in three parts.
BookType ==
  /\ pc \in {"seed", "construct", "select", "execute", "memory", "update",
             "dump", "done", "aborted"}
  /\ current \in State
  /\ handles \subseteq State
  /\ states \subseteq State
  /\ added \subseteq State
  /\ removed \in [State -> Nat]
  /\ lastState \in State \cup {0}
  /\ searching \in BOOLEAN
  /\ searcher \subseteq State
  /\ atMemoryLimit \in BOOLEAN
  /\ haltExecution \in BOOLEAN

DataType ==
  /\ path \in [State -> SUBSET Input]
  /\ depth \in [State -> 0 .. MaxDepth + 1]
  /\ forkDisabled \subseteq State
  /\ forks \in 0 .. MaxForks + 1
  /\ ended \subseteq Input
  /\ dropped \subseteq Input

SeedType ==
  /\ seeded \subseteq State
  /\ seedMap \in [State -> SUBSET Seed]

LEMMA TypeParts == /\ TypeOK <=> BookType /\ DataType /\ SeedType
                   /\ TypeOK' <=> BookType' /\ DataType' /\ SeedType'
  BY DEF TypeOK, BookType, DataType, SeedType

\* The counters stay within the bounds they are compared with.
LEMMA CountersBounded ==
  /\ \A k \in Nat : forks \in 0 .. MaxForks + 1 => CountForks(k) \in 0 .. MaxForks + 1
  /\ \A d \in Nat : DepthUpTo(d) \in 0 .. MaxDepth + 1
<1>1. MaxForks + 1 \in Nat /\ MaxDepth + 1 \in Nat /\ MaxDepth \in Nat
  BY ExecutorAssumption
<1>2. ASSUME NEW k \in Nat, forks \in 0 .. MaxForks + 1
      PROVE  CountForks(k) \in 0 .. MaxForks + 1
  BY <1>1, <1>2 DEF CountForks
<1>3. ASSUME NEW d \in Nat PROVE DepthUpTo(d) \in 0 .. MaxDepth + 1
  BY <1>1 DEF DepthUpTo
<1> QED BY <1>2, <1>3

LEMMA TerminateStatesType ==
  ASSUME NEW K \in SUBSET State, NEW A \in SUBSET State,
         removed \in [State -> Nat], TerminateStates(K, A)
  PROVE  added' \subseteq State /\ removed' \in [State -> Nat]
  BY DEF TerminateStates

LEMMA SeedsWithoutType ==
  ASSUME NEW D, SeedType, SeedsWithout(D)
  PROVE  SeedType'
  BY DEF SeedsWithout, SeedType

LEMMA InitType == Init => TypeOK
<1> SUFFICES ASSUME Init PROVE TypeOK
  OBVIOUS
<1> USE ExecutorAssumption DEF Init
<1>1. BookType
  BY Zenon DEF BookType
<1>2. DataType
  <2>1. path \in [State -> SUBSET Input]
    OBVIOUS
  <2>2. depth \in [State -> 0 .. MaxDepth + 1]
    OBVIOUS
  <2>3. forks \in 0 .. MaxForks + 1
    OBVIOUS
  <2> QED BY <2>1, <2>2, <2>3 DEF DataType
<1>3. SeedType
  BY DEF SeedType
<1> QED BY <1>1, <1>2, <1>3, TypeParts

(***************************************************************************)
(* The calls an instruction makes keep the types.                          *)
(***************************************************************************)
LEMMA TerminationType ==
  ASSUME TypeOK, NEW s \in handles,
         \/ TerminateState(s) \/ TerminateStateOnError(s)
         \/ AssertWithUnreadableMessage(s) \/ InvalidFunctionPointer(s)
  PROVE  TypeOK'
<1> USE TypeParts
<1>1. /\ s \in State /\ path[s] \subseteq Input
      /\ current \in State /\ path[current] \subseteq Input
  BY DEF BookType, DataType
<1>2. SeedType'
  BY SeedsWithoutType, Zenon
     DEF TerminateState, TerminateStateOnError, AssertWithUnreadableMessage,
         InvalidFunctionPointer, SeedType, seedVars
<1>3. DataType'
  BY <1>1, Zenon DEF TerminateState, TerminateStateOnError, AssertWithUnreadableMessage,
              InvalidFunctionPointer, DataType, dataVars
<1>4. added' \subseteq State /\ removed' \in [State -> Nat]
  <2>1. CASE AssertWithUnreadableMessage(s)
    BY <1>1, <2>1 DEF AssertWithUnreadableMessage, BookType
  <2>3. CASE InvalidFunctionPointer(s)
    BY <1>1, <2>3 DEF InvalidFunctionPointer, BookType
  <2>2. CASE TerminateState(s) \/ TerminateStateOnError(s)
    BY <1>1, <2>2, TerminateStatesType, Zenon
       DEF TerminateState, TerminateStateOnError, BookType
  <2> QED BY <2>1, <2>2, <2>3
<1>5. BookType'
  BY <1>4, Zenon DEF TerminateState, TerminateStateOnError, AssertWithUnreadableMessage,
              InvalidFunctionPointer, BookType, loopVars
<1> QED BY <1>2, <1>3, <1>5

LEMMA ConstraintType ==
  ASSUME TypeOK, NEW s \in handles, NEW c \in SUBSET Input,
         SetForking(s) \/ AddConstraint(s, c) \/ ForkOneWay(s, c)
  PROVE  TypeOK'
<1> USE TypeParts
<1>1. s \in State /\ path[s] \subseteq Input
  BY DEF BookType, DataType
<1>2. SeedType'
  BY DEF SetForking, AddConstraint, ForkOneWay, SeedType, seedVars
<1>3. DataType'
  BY <1>1 DEF SetForking, AddConstraint, ForkOneWay, Constrain, DataType
<1>4. BookType'
  BY DEF SetForking, AddConstraint, ForkOneWay, BookType, loopVars, bookVars
<1> QED BY <1>2, <1>3, <1>4

LEMMA ForkBothWaysType ==
  ASSUME TypeOK, NEW s \in handles, NEW c \in SUBSET Input, NEW ns \in State,
         NEW T \in SUBSET Seed, ForkBothWays(s, c, ns, T)
  PROVE  TypeOK'
<1> USE TypeParts
<1>1. s \in State /\ path[s] \subseteq Input /\ depth[s] \in Nat
  BY DEF BookType, DataType
<1>2. SeedType'
  <2>1. seedMap' \in [State -> SUBSET Seed]
    BY <1>1 DEF ForkBothWays, SeedType
  <2>2. seeded' \subseteq State
    BY <1>1 DEF ForkBothWays, SeedType
  <2> QED BY <2>1, <2>2 DEF SeedType
<1>3. DataType'
  <2>1. path' \in [State -> SUBSET Input]
    BY <1>1 DEF ForkBothWays, DataType
  <2>2. DepthUpTo(depth[s] + 1) \in 0 .. MaxDepth + 1
    BY <1>1, CountersBounded
  <2>3. depth' \in [State -> 0 .. MaxDepth + 1]
    BY <1>1, <2>2 DEF ForkBothWays, DataType
  <2>4. forks' \in 0 .. MaxForks + 1
    BY CountersBounded DEF ForkBothWays, DataType
  <2> QED BY <1>1, <2>1, <2>3, <2>4 DEF ForkBothWays, DataType
<1>4. BookType'
  <2>1. added' \subseteq State /\ removed' \in [State -> Nat]
    BY <1>1 DEF ForkBothWays, TerminateStates, BookType
  <2> QED BY <2>1 DEF ForkBothWays, BookType, loopVars
<1> QED BY <1>2, <1>3, <1>4

LEMMA BranchExhaustedType ==
  ASSUME TypeOK, NEW s \in handles, NEW c \in SUBSET Input,
         NEW Q \in SUBSET Seed, BranchExhausted(s, c, Q)
  PROVE  TypeOK'
<1> USE TypeParts
<1>1. s \in State /\ path[s] \subseteq Input
  BY DEF BookType, DataType
<1>2. SeedType'
  BY <1>1 DEF BranchExhausted, SeedType
<1>3. DataType'
  BY <1>1 DEF BranchExhausted, DataType
<1>4. BookType'
  <2>1. added' \subseteq State /\ removed' \in [State -> Nat]
    BY <1>1 DEF BranchExhausted, TerminateStates, BookType
  <2> QED BY <2>1 DEF BranchExhausted, BookType, loopVars
<1> QED BY <1>2, <1>3, <1>4

LEMMA BranchType ==
  ASSUME TypeOK, NEW s \in handles, NEW R \in SUBSET State, s \in R,
         NEW cond \in Exclusive(R, path[s]), NEW d \in LeafDepths(R),
         NEW pick \in [seedMap[s] -> R], Branch(s, R, cond, d, pick)
  PROVE  TypeOK'
<1> USE TypeParts
<1>1. s \in State /\ path[s] \subseteq Input /\ depth[s] \in Nat
      /\ seedMap[s] \subseteq Seed
  BY DEF BookType, DataType, SeedType
<1>2. SeedType'
  <2>1. seedMap' \in [State -> SUBSET Seed]
    BY <1>1 DEF Branch, SeedType
  <2>2. seeded' \subseteq State
    BY <1>1 DEF Branch, SeedType
  <2> QED BY <2>1, <2>2 DEF SeedType
<1>3. IsFiniteSet(R) /\ Cardinality(R) \in Nat /\ Cardinality(R) # 0
  BY FS_Subset, FS_CardinalityType, FS_EmptySet, ExecutorAssumption, Zenon
<1>4. DataType'
  <2>1. \A r \in R : cond[r] \subseteq Input
    BY <1>1 DEF Exclusive
  <2>2. \A r \in R : d[r] \in Nat
    BY <1>3 DEF LeafDepths
  <2>3. \A r \in R : DepthUpTo(depth[s] + d[r]) \in 0 .. MaxDepth + 1
    BY <1>1, <2>2, CountersBounded
  <2>4. path' \in [State -> SUBSET Input]
    BY <2>1 DEF Branch, DataType
  <2>5. depth' \in [State -> 0 .. MaxDepth + 1]
    BY <2>3 DEF Branch, DataType
  <2>6. forks' \in 0 .. MaxForks + 1
    <3>1. Cardinality(R) - 1 \in Nat
      BY <1>3
    <3>2. forks' = CountForks(Cardinality(R) - 1)
      BY DEF Branch
    <3>3. forks \in 0 .. MaxForks + 1
      BY DEF DataType
    <3> QED BY <3>1, <3>2, <3>3, CountersBounded
  <2>7. forkDisabled' \subseteq State /\ dropped' \subseteq Input /\ ended' = ended
    BY <1>1 DEF Branch, DataType
  <2> QED BY <2>4, <2>5, <2>6, <2>7 DEF DataType
<1>5. BookType'
  <2>1. added' \subseteq State /\ removed' \in [State -> Nat]
    <3> DEFINE K == IF s \in seeded /\ OnlyReplaySeeds
                      THEN {r \in R : \A x \in seedMap[s] : pick[x] # r}
                      ELSE {}
               A == added \cup (R \ {s})
    <3>1. TerminateStates(K, A)
      BY DEF Branch
    <3>2. K \in SUBSET State /\ A \in SUBSET State /\ removed \in [State -> Nat]
      BY DEF BookType
    <3> HIDE DEF K, A
    <3> QED BY <3>1, <3>2, TerminateStatesType
  <2> QED BY <2>1 DEF Branch, BookType, loopVars
<1> QED BY <1>2, <1>4, <1>5

(***************************************************************************)
(* The steps of run() keep the types.                                      *)
(***************************************************************************)
LEMMA MainLoopType ==
  ASSUME TypeOK, MainLoop \/ SetHaltExecution
  PROVE  TypeOK'
<1> USE TypeParts
<1>1. ASSUME NEW s \in State, SeedStep(s) \/ SelectState(s) PROVE TypeOK'
  BY <1>1 DEF SeedStep, SelectState, BookType, DataType, SeedType,
              bookVars, dataVars, seedVars
<1>2. CASE \/ SeedingEnds \/ ConstructSearcher \/ LoopEnds \/ InstructionDone
           \/ SetHaltExecution
  BY <1>2, Zenon DEF SeedingEnds, ConstructSearcher, LoopEnds, InstructionDone,
              SetHaltExecution, BookType, DataType, SeedType,
              loopVars, bookVars, dataVars, seedVars
<1>3. ASSUME NEW K \in SUBSET states, CheckMemoryUsage(K) PROVE TypeOK'
  <2>1. K \in SUBSET State /\ added \in SUBSET State /\ removed \in [State -> Nat]
    BY DEF BookType
  <2>2. added' \subseteq State /\ removed' \in [State -> Nat]
    BY <1>3, <2>1, TerminateStatesType DEF CheckMemoryUsage
  <2>3. BookType'
    BY <1>3, <2>2, Zenon DEF CheckMemoryUsage, BookType, loopVars
  <2>4. DataType'
    BY <1>3, <2>1 DEF CheckMemoryUsage, DataType, dataVars
  <2>5. SeedType'
    BY <1>3 DEF CheckMemoryUsage, SeedType, seedVars
  <2> QED BY <2>3, <2>4, <2>5
<1>4. CASE UpdateStates
  <2>1. BookType'
    BY <1>4 DEF UpdateStates, UpdatedSearcher, BookType, Live
  <2>2. DataType'
    BY <1>4, ExecutorAssumption DEF UpdateStates, DataType
  <2>3. SeedType'
    BY <1>4, SeedsWithoutType DEF UpdateStates
  <2> QED BY <2>1, <2>2, <2>3
<1>5. CASE DoDumpStates
  <2>1. BookType'
    BY <1>5, Zenon DEF DoDumpStates, BookType
  <2>2. DataType'
    BY <1>5 DEF DoDumpStates, BookType, DataType, dataVars
  <2>3. SeedType'
    BY <1>5, SeedsWithoutType DEF DoDumpStates, SeedType, seedVars
  <2> QED BY <2>1, <2>2, <2>3
<1> QED BY <1>1, <1>2, <1>3, <1>4, <1>5 DEF MainLoop

LEMMA StepType == TypeOK /\ [Next]_vars => TypeOK'
<1> SUFFICES ASSUME TypeOK, [Next]_vars PROVE TypeOK'
  OBVIOUS
<1>1. ASSUME NEW s \in handles,
             \/ TerminateState(s) \/ TerminateStateOnError(s)
             \/ AssertWithUnreadableMessage(s) \/ InvalidFunctionPointer(s)
             \/ ForkTimeout(s)
      PROVE  TypeOK'
  BY <1>1, TerminationType DEF ForkTimeout
<1>2. ASSUME NEW s \in handles, NEW c \in SUBSET Input,
             SetForking(s) \/ AddConstraint(s, c) \/ ForkOneWay(s, c)
      PROVE  TypeOK'
  BY <1>2, ConstraintType
<1>3. ASSUME NEW s \in handles, SetForking(s) PROVE TypeOK'
  BY <1>2, <1>3
<1>4. ASSUME NEW s \in handles, NEW c \in SUBSET Input, NEW ns \in State,
             NEW T \in SUBSET Seed, ForkBothWays(s, c, ns, T)
      PROVE  TypeOK'
  BY <1>4, ForkBothWaysType
<1>5. ASSUME NEW s \in handles, NEW c \in SUBSET Input,
             NEW Q \in SUBSET Seed, BranchExhausted(s, c, Q)
      PROVE  TypeOK'
  BY <1>5, BranchExhaustedType
<1>6. ASSUME NEW s \in handles, NEW New \in SUBSET (State \ Live),
             NEW cond \in Exclusive(New \cup {s}, path[s]),
             NEW d \in LeafDepths(New \cup {s}),
             NEW pick \in [seedMap[s] -> New \cup {s}],
             Branch(s, New \cup {s}, cond, d, pick)
      PROVE  TypeOK'
  <2> DEFINE R == New \cup {s}
  <2>1. R \in SUBSET State /\ s \in R
    BY DEF TypeOK
  <2>2. /\ cond \in Exclusive(R, path[s]) /\ d \in LeafDepths(R)
        /\ pick \in [seedMap[s] -> R] /\ Branch(s, R, cond, d, pick)
    BY <1>6
  <2> HIDE DEF R
  <2> QED BY <2>1, <2>2, BranchType
<1>7. CASE Instruction
  BY <1>1, <1>2, <1>3, <1>4, <1>5, <1>6, <1>7, Zenon DEF Instruction
<1>8. CASE MainLoop \/ SetHaltExecution
  BY <1>8, MainLoopType
<1>9. CASE UNCHANGED vars
  BY <1>9 DEF vars, loopVars, bookVars, dataVars, seedVars, TypeOK
<1> QED BY <1>7, <1>8, <1>9 DEF Next

(***************************************************************************)
(* Every variable keeps its type.                                          *)
(***************************************************************************)
THEOREM TypeCorrect == Spec => []TypeOK
  BY InitType, StepType, PTL DEF Spec
-----------------------------------------------------------------------------
(***************************************************************************)
(* The bookkeeping of states, addedStates, removedStates and the searcher. *)
(***************************************************************************)
BookInv ==
  /\ states \cap added = {}
  /\ handles \subseteq OnGoing
  /\ \A s \in State : removed[s] > 0 => s \in states
  /\ pc \notin {"execute", "memory", "update"}
       => added = {} /\ \A s \in State : removed[s] = 0
  /\ pc # "execute" => handles = {}
  /\ pc = "select" => searching
  /\ pc \in {"seed", "construct"} => ~searching
  /\ searching => searcher = states
  /\ pc = "done" /\ DumpStatesOnHalt => states = {}
  /\ ~MemoryCap => /\ pc \notin {"memory", "aborted"}
                   /\ \A s \in State : removed[s] \in {0, 1}

\* Every seed belongs to one state that exists.
SeedInv ==
  /\ \A s \in State : s \in seeded <=> seedMap[s] # {}
  /\ \A s, t \in seeded : s # t => seedMap[s] \cap seedMap[t] = {}
  /\ seeded \subseteq Live
  /\ OnlyReplaySeeds /\ Seed # {} => OnGoing \subseteq seeded

\* The inputs are partitioned among the paths that go on and those that do not.
PathInv ==
  /\ \A s \in OnGoing : path[s] # {}
  /\ \A s, t \in OnGoing : s # t => path[s] \cap path[t] = {}
  /\ \A s \in OnGoing : path[s] \cap (ended \cup dropped) = {}
  /\ ended \cap dropped = {}
  /\ \A x \in Input : x \in ended \cup dropped \/ \E s \in OnGoing : x \in path[s]

IInv == TypeOK /\ BookInv /\ SeedInv /\ PathInv

LEMMA InitIInv == Init => IInv
<1> SUFFICES ASSUME Init PROVE IInv
  OBVIOUS
<1>1. TypeOK
  BY InitType
<1>2. Live = {InitialState} /\ OnGoing = {InitialState}
  BY ExecutorAssumption DEF Init, Live, OnGoing
<1>3. BookInv
  BY <1>2, ExecutorAssumption DEF Init, BookInv
<1>4. SeedInv
  BY <1>2, ExecutorAssumption DEF Init, SeedInv
<1>5. PathInv
  BY <1>2, ExecutorAssumption DEF Init, PathInv
<1> QED BY <1>1, <1>3, <1>4, <1>5 DEF IInv

(***************************************************************************)
(* terminateState for states K that go on, after the new states have       *)
(* joined addedStates: the other states go on, and no state is on          *)
(* removedStates that is not in states.                                    *)
(***************************************************************************)
LEMMA TerminateBook ==
  ASSUME TypeOK, BookInv, NEW K, NEW A \in SUBSET State,
         added \subseteq A, A \cap states = {},
         K \subseteq {t \in states \cup A : removed[t] = 0},
         states' = states, TerminateStates(K, A)
  PROVE  /\ states' \cap added' = {}
         /\ Live' = (states \cup A) \ (K \cap A)
         /\ OnGoing' = {t \in states \cup A : removed[t] = 0} \ K
         /\ \A t \in State : removed'[t] > 0 => t \in states'
         /\ ~MemoryCap => \A t \in State : removed'[t] \in {0, 1}
<1>1. /\ states \subseteq State /\ K \subseteq State
      /\ removed \in [State -> Nat] /\ removed' \in [State -> Nat]
      /\ \A t \in State : removed'[t] = IF t \in K \ A THEN removed[t] + 1
                                                      ELSE removed[t]
      /\ added' = A \ K
  BY DEF TypeOK, TerminateStates
<1>2. Live' = (states \cup A) \ (K \cap A)
  BY <1>1 DEF Live
<1>3. OnGoing' = {t \in states \cup A : removed[t] = 0} \ K
  BY <1>1, <1>2 DEF OnGoing
<1>4. \A t \in State : removed'[t] > 0 => t \in states'
  BY <1>1 DEF BookInv
<1>5. ~MemoryCap => \A t \in State : removed'[t] \in {0, 1}
  BY <1>1 DEF BookInv
<1> QED BY <1>1, <1>2, <1>3, <1>4, <1>5

\* A state that does not exist is not on removedStates.
LEMMA NotRemoved ==
  ASSUME TypeOK, BookInv, NEW t \in State, t \notin Live
  PROVE  removed[t] = 0
<1>1. removed[t] \in Nat
  BY DEF TypeOK
<1>2. ~(removed[t] > 0)
  BY DEF BookInv, Live
<1> QED BY <1>1, <1>2

(***************************************************************************)
(* terminateState and its variants preserve the invariant.                 *)
(***************************************************************************)
LEMMA TerminationIInv ==
  ASSUME IInv, NEW s \in handles, TerminateState(s) \/ TerminateStateOnError(s)
  PROVE  IInv'
<1> USE DEF IInv
<1>1. TypeOK'
  BY TerminationType
<1>a. /\ TerminateStates({s}, added) /\ SeedsWithout({s} \cap added)
      /\ handles' = handles \ {s} /\ ended' = ended \cup path[s]
      /\ states' = states /\ path' = path /\ dropped' = dropped
      /\ pc = "execute" /\ pc' = pc /\ searching' = searching /\ searcher' = searcher
  BY Zenon DEF TerminateState, TerminateStateOnError, loopVars, dataVars
<1>b. /\ s \in OnGoing /\ s \in State /\ handles \subseteq OnGoing
      /\ Live \subseteq State /\ added \in SUBSET State /\ added \cap states = {}
      /\ {t \in states \cup added : removed[t] = 0} = OnGoing
  BY DEF BookInv, TypeOK, Live, OnGoing
<1>c. /\ states' \cap added' = {}
      /\ Live' = Live \ ({s} \cap added)
      /\ OnGoing' = OnGoing \ {s}
      /\ \A t \in State : removed'[t] > 0 => t \in states'
      /\ ~MemoryCap => \A t \in State : removed'[t] \in {0, 1}
  <2>1. {s} \subseteq {t \in states \cup added : removed[t] = 0}
    BY <1>b
  <2> QED BY <1>a, <1>b, <2>1, TerminateBook DEF Live
<1>2. BookInv'
  BY <1>a, <1>b, <1>c DEF BookInv
<1>3. SeedInv'
  <2>1. /\ seeded' = seeded \ ({s} \cap added)
        /\ \A t \in State : seedMap'[t] = IF t \in {s} \cap added THEN {} ELSE seedMap[t]
    BY <1>a, Zenon DEF SeedsWithout
  <2> QED BY <1>b, <1>c, <2>1 DEF SeedInv, TypeOK
<1>4. PathInv'
  BY <1>a, <1>b, <1>c DEF PathInv
<1> QED BY <1>1, <1>2, <1>3, <1>4

(***************************************************************************)
(* addConstraint, a fork that goes one way and klee_set_forking preserve   *)
(* the invariant: the inputs outside c are given up.                       *)
(***************************************************************************)
LEMMA ConstraintIInv ==
  ASSUME IInv, NEW s \in handles, NEW c \in SUBSET Input,
         SetForking(s) \/ AddConstraint(s, c) \/ ForkOneWay(s, c)
  PROVE  IInv'
<1> USE DEF IInv
<1>1. TypeOK'
  BY ConstraintType
<1>a. /\ handles' = handles /\ states' = states /\ added' = added
      /\ removed' = removed /\ seeded' = seeded /\ seedMap' = seedMap
      /\ ended' = ended /\ pc' = pc /\ searching' = searching
      /\ searcher' = searcher
  BY DEF SetForking, AddConstraint, ForkOneWay, loopVars, bookVars, seedVars
<1>b. s \in OnGoing /\ s \in State /\ OnGoing \subseteq State
  BY DEF BookInv, TypeOK, Live, OnGoing
<1>c. Live' = Live /\ OnGoing' = OnGoing
  BY <1>a DEF Live, OnGoing
<1>2. BookInv'
  BY <1>a, <1>c DEF BookInv
<1>3. SeedInv'
  BY <1>a, <1>c, Zenon DEF SeedInv
<1>4. PathInv'
  <2>1. CASE SetForking(s)
    BY <1>a, <1>c, <2>1 DEF SetForking, PathInv
  <2>2. CASE AddConstraint(s, c) \/ ForkOneWay(s, c)
    <3>1. /\ path[s] \cap c # {}
          /\ path'[s] = path[s] \cap c
          /\ dropped' = dropped \cup (path[s] \ c)
      BY <1>b, <2>2 DEF AddConstraint, ForkOneWay, Constrain, TypeOK
    <3>2. \A t \in State \ {s} : path'[t] = path[t]
      BY <1>b, <2>2 DEF AddConstraint, ForkOneWay, Constrain, TypeOK
    <3> QED BY <1>a, <1>b, <1>c, <3>1, <3>2 DEF PathInv
  <2> QED BY <2>1, <2>2
<1> QED BY <1>1, <1>2, <1>3, <1>4

(***************************************************************************)
(* A fork both ways preserves the invariant: s keeps the inputs in c and   *)
(* the new state gets the others, or both paths end at max-depth.          *)
(***************************************************************************)
LEMMA ForkBothWaysIInv ==
  ASSUME IInv, NEW s \in handles, NEW c \in SUBSET Input, NEW ns \in State,
         NEW T \in SUBSET Seed, ForkBothWays(s, c, ns, T)
  PROVE  IInv'
<1> DEFINE K == IF TooDeep(depth[s] + 1) THEN {s, ns} ELSE {}
           A == added \cup {ns}
<1> USE DEF IInv
<1>1. TypeOK'
  BY ForkBothWaysType
<1>a. /\ TerminateStates(K, A) /\ handles' = (handles \cup {ns}) \ K
      /\ states' = states /\ dropped' = dropped
      /\ ended' = IF K = {} THEN ended ELSE ended \cup path[s]
      /\ pc = "execute" /\ pc' = pc /\ searching' = searching /\ searcher' = searcher
      /\ ns \in State \ Live /\ Unknown(s, c) /\ T \subseteq seedMap[s]
      /\ s \in seeded /\ FollowsSeeds(s) => T \notin {{}, seedMap[s]}
      /\ seeded' = IF s \in seeded
                     THEN (seeded \ {s}) \cup {x \in {s, ns} : seedMap'[x] # {}}
                     ELSE seeded
  BY DEF ForkBothWays, loopVars
<1>b. /\ s \in OnGoing /\ s \in State /\ s # ns /\ handles \subseteq OnGoing
      /\ Live \subseteq State /\ OnGoing \subseteq Live /\ ns \notin Live
      /\ A \in SUBSET State /\ added \subseteq A /\ A \cap states = {}
      /\ {t \in states \cup A : removed[t] = 0} = OnGoing \cup {ns}
  <2>1. s \in OnGoing /\ handles \subseteq OnGoing
    BY DEF BookInv
  <2>2. Live \subseteq State /\ OnGoing \subseteq Live /\ ns \notin Live
    BY <1>a DEF Live, OnGoing, TypeOK
  <2>3. removed[ns] = 0
    BY <2>2, NotRemoved
  <2>4. added \cap states = {} /\ added \subseteq State
    BY DEF BookInv, TypeOK
  <2>5. A \in SUBSET State /\ added \subseteq A /\ A \cap states = {}
    BY <2>2, <2>4 DEF Live
  <2>6. {t \in states \cup A : removed[t] = 0} = OnGoing \cup {ns}
    BY <2>3 DEF Live, OnGoing
  <2> QED BY <2>1, <2>2, <2>5, <2>6
<1>k. K = {} \/ K = {s, ns}
  OBVIOUS
<1>m. /\ \A t \in State \ {s, ns} : seedMap'[t] = seedMap[t]
      /\ seedMap'[s] = IF s \in K \cap A THEN {} ELSE T
      /\ seedMap'[ns] = IF ns \in K \cap A THEN {} ELSE seedMap[s] \ T
  BY <1>b DEF ForkBothWays, TypeOK
<1>p. /\ \A t \in State \ {s, ns} : path'[t] = path[t]
      /\ path'[s] = path[s] \cap c /\ path'[ns] = path[s] \ c
  BY <1>b DEF ForkBothWays, TypeOK
<1>n. ns \in A
  OBVIOUS
<1>l. Live \cup {ns} = states \cup A
  BY DEF Live
<1> HIDE DEF K, A
<1>c. /\ states' \cap added' = {}
      /\ Live' = (Live \cup {ns}) \ (K \cap A)
      /\ OnGoing' = (OnGoing \cup {ns}) \ K
      /\ \A t \in State : removed'[t] > 0 => t \in states'
      /\ ~MemoryCap => \A t \in State : removed'[t] \in {0, 1}
  <2>1. K \subseteq {t \in states \cup A : removed[t] = 0}
    BY <1>b, <1>k
  <2>2. TypeOK /\ BookInv /\ TerminateStates(K, A) /\ states' = states
    BY <1>a, Zenon
  <2> QED BY <1>b, <1>l, <2>1, <2>2, TerminateBook, Zenon
<1>2. BookInv'
  BY <1>a, <1>b, <1>c, Zenon DEF BookInv
<1>3. SeedInv'
  <2>1. \A t \in State : t \in seeded <=> seedMap[t] # {}
    BY DEF SeedInv
  <2>2. seeded \subseteq Live /\ ns \notin seeded
    BY <1>b DEF SeedInv
  <2>3. \A t, u \in seeded : t # u => seedMap[t] \cap seedMap[u] = {}
    BY DEF SeedInv
  <2>4. \A t \in State : t \in seeded' <=> seedMap'[t] # {}
    BY <1>a, <1>b, <1>m, <2>1, <2>2
  <2>5. \A t, u \in seeded' : t # u => seedMap'[t] \cap seedMap'[u] = {}
    <3>1. seeded' \subseteq seeded \cup {s, ns}
      BY <1>a
    <3>2. s \notin seeded => seeded' = seeded
      BY <1>a
    <3>3. \A t \in seeded \ {s} : seedMap'[t] = seedMap[t]
      BY <1>b, <1>m, <2>2
    <3>4. seedMap'[s] \subseteq seedMap[s] /\ seedMap'[ns] \subseteq seedMap[s]
          /\ seedMap'[s] \cap seedMap'[ns] = {}
      BY <1>a, <1>m, Zenon
    <3>5. CASE s \notin seeded
      <4>1. \A t \in seeded' : t \in seeded /\ seedMap'[t] = seedMap[t]
        BY <3>2, <3>3, <3>5
      <4> QED BY <2>3, <4>1
    <3>6. CASE s \in seeded
      <4>1. \A t \in seeded \ {s} : /\ seedMap'[t] \cap seedMap'[s] = {}
                                    /\ seedMap'[t] \cap seedMap'[ns] = {}
        BY <2>3, <3>3, <3>4, <3>6
      <4>2. \A t, u \in seeded \ {s} : t # u => seedMap'[t] \cap seedMap'[u] = {}
        BY <2>3, <3>3
      <4>3. \A t \in seeded' : t \in seeded \ {s} \/ t = s \/ t = ns
        BY <3>1
      <4> QED BY <3>4, <4>1, <4>2, <4>3
    <3> QED BY <3>5, <3>6
  <2>6. seeded' \subseteq Live'
    <3>1. CASE K = {}
      BY <1>a, <1>b, <1>c, <2>2, <3>1
    <3>2. CASE K = {s, ns}
      <4>1. \A t \in K \cap A : t \notin seeded'
        BY <1>b, <1>m, <2>4, <3>2
      <4>2. seeded' \subseteq Live \cup {ns}
        BY <1>a, <1>b, <2>2
      <4> QED BY <1>c, <4>1, <4>2
    <3> QED BY <1>k, <3>1, <3>2
  <2>7. OnlyReplaySeeds /\ Seed # {} => OnGoing' \subseteq seeded'
    <3> SUFFICES ASSUME OnlyReplaySeeds, Seed # {} PROVE OnGoing' \subseteq seeded'
      OBVIOUS
    <3>1. OnGoing \subseteq seeded
      BY DEF SeedInv
    <3>2. T # {} /\ T # seedMap[s]
      BY <1>a, <1>b, <3>1, Zenon DEF FollowsSeeds
    <3> QED BY <1>a, <1>b, <1>c, <1>k, <1>m, <3>1, <3>2, Zenon
  <2> QED BY <2>4, <2>5, <2>6, <2>7 DEF SeedInv
<1>4. PathInv'
  <2>1. path[s] \cap c # {} /\ path[s] \ c # {}
    BY <1>a, Zenon DEF Unknown
  <2>i. /\ \A t \in OnGoing : path[t] # {}
        /\ \A t, u \in OnGoing : t # u => path[t] \cap path[u] = {}
        /\ \A t \in OnGoing : path[t] \cap (ended \cup dropped) = {}
        /\ ended \cap dropped = {}
        /\ \A x \in Input : \/ x \in ended \cup dropped
                            \/ \E t \in OnGoing : x \in path[t]
    BY DEF PathInv
  <2>o. \A t \in OnGoing \ {s} : t # ns /\ path'[t] = path[t]
    BY <1>b, <1>p
  <2>2. CASE K = {}
    <3>1. OnGoing' = OnGoing \cup {ns} /\ ended' = ended /\ dropped' = dropped
      BY <1>a, <1>c, <2>2
    <3>2. \A t \in OnGoing' : t \in OnGoing \ {s} \/ t = s \/ t = ns
      BY <3>1
    <3>3. \A t \in OnGoing' : path'[t] # {} /\ path'[t] \cap (ended' \cup dropped') = {}
      BY <1>b, <1>p, <2>1, <2>i, <2>o, <3>1, <3>2, Zenon
    <3>4. \A t, u \in OnGoing' : t # u => path'[t] \cap path'[u] = {}
      <4>1. \A t \in OnGoing \ {s} : /\ path'[t] \cap path'[s] = {}
                                     /\ path'[t] \cap path'[ns] = {}
        BY <1>b, <1>p, <2>i, <2>o, Zenon
      <4>2. path'[s] \cap path'[ns] = {}
        BY <1>p
      <4> QED BY <2>i, <2>o, <3>2, <4>1, <4>2, Zenon
    <3>5. \A x \in Input : x \in ended' \cup dropped' \/ \E t \in OnGoing' : x \in path'[t]
      <4>1. s \in OnGoing' /\ ns \in OnGoing' /\ OnGoing \subseteq OnGoing'
        BY <1>b, <3>1
      <4>2. \A x \in path[s] : x \in path'[s] \/ x \in path'[ns]
        BY <1>p
      <4> QED BY <2>i, <2>o, <3>1, <4>1, <4>2, Zenon
    <3> QED BY <2>i, <3>1, <3>3, <3>4, <3>5 DEF PathInv
  <2>3. CASE K = {s, ns}
    <3>1. OnGoing' = OnGoing \ {s} /\ ended' = ended \cup path[s] /\ dropped' = dropped
      BY <1>a, <1>b, <1>c, <2>3, Zenon
    <3>2. \A t \in OnGoing' : path'[t] # {} /\ path'[t] \cap (ended' \cup dropped') = {}
      BY <1>b, <2>i, <2>o, <3>1, Zenon
    <3>3. \A t, u \in OnGoing' : t # u => path'[t] \cap path'[u] = {}
      BY <2>i, <2>o, <3>1, Zenon
    <3>4. ended' \cap dropped' = {}
      BY <1>b, <2>i, <3>1
    <3>5. \A x \in Input : x \in ended' \cup dropped' \/ \E t \in OnGoing' : x \in path'[t]
      BY <2>i, <2>o, <3>1
    <3> QED BY <3>2, <3>3, <3>4, <3>5 DEF PathInv
  <2> QED BY <1>k, <2>2, <2>3
<1> QED BY <1>1, <1>2, <1>3, <1>4

(***************************************************************************)
(* branch() at max-forks preserves the invariant: s goes on with one of    *)
(* the conditions, or is terminated for want of a seed.                    *)
(***************************************************************************)
LEMMA BranchExhaustedIInv ==
  ASSUME IInv, NEW s \in handles, NEW c \in SUBSET Input,
         NEW Q \in SUBSET Seed, BranchExhausted(s, c, Q)
  PROVE  IInv'
<1> DEFINE seedless == s \in seeded /\ OnlyReplaySeeds /\ Q = {}
           K == IF seedless THEN {s} ELSE {}
<1> USE DEF IInv
<1>1. TypeOK'
  BY BranchExhaustedType
<1>a. /\ TerminateStates(K, added) /\ handles' = handles \ K
      /\ states' = states /\ ended' = ended
      /\ dropped' = dropped \cup (IF K = {} THEN path[s] \ c ELSE path[s])
      /\ pc = "execute" /\ pc' = pc /\ searching' = searching /\ searcher' = searcher
      /\ Q \subseteq seedMap[s] /\ path[s] \cap c # {}
      /\ seeded' = IF Q = {} THEN seeded \ {s} ELSE seeded
  BY DEF BranchExhausted, loopVars
<1>b. /\ s \in OnGoing /\ s \in State /\ handles \subseteq OnGoing
      /\ Live \subseteq State /\ OnGoing \subseteq Live
      /\ added \in SUBSET State /\ added \cap states = {}
      /\ {t \in states \cup added : removed[t] = 0} = OnGoing
  BY DEF BookInv, TypeOK, Live, OnGoing
<1>k. K = {} \/ (K = {s} /\ Q = {})
  OBVIOUS
<1>o. s \in seeded /\ OnlyReplaySeeds /\ Q = {} => K = {s}
  OBVIOUS
<1>m. seedMap'[s] = Q /\ \A t \in State \ {s} : seedMap'[t] = seedMap[t]
  BY <1>b DEF BranchExhausted, TypeOK
<1>p. path'[s] = path[s] \cap c /\ \A t \in State \ {s} : path'[t] = path[t]
  BY <1>b DEF BranchExhausted, TypeOK
<1> HIDE DEF K
<1>c. /\ states' \cap added' = {}
      /\ Live' = Live \ (K \cap added)
      /\ OnGoing' = OnGoing \ K
      /\ \A t \in State : removed'[t] > 0 => t \in states'
      /\ ~MemoryCap => \A t \in State : removed'[t] \in {0, 1}
  <2>1. K \subseteq {t \in states \cup added : removed[t] = 0}
    BY <1>b, <1>k
  <2>2. TypeOK /\ BookInv /\ TerminateStates(K, added) /\ states' = states
    BY <1>a
  <2> QED BY <1>b, <2>1, <2>2, TerminateBook, Zenon DEF Live
<1>2. BookInv'
  BY <1>a, <1>b, <1>c, Zenon DEF BookInv
<1>3. SeedInv'
  <2>i. /\ \A t \in State : t \in seeded <=> seedMap[t] # {}
        /\ \A t, u \in seeded : t # u => seedMap[t] \cap seedMap[u] = {}
        /\ seeded \subseteq Live
        /\ OnlyReplaySeeds /\ Seed # {} => OnGoing \subseteq seeded
    BY Zenon DEF SeedInv
  <2>s. seeded' \subseteq seeded /\ (s \in seeded' => Q # {})
    BY <1>a, <1>b, <2>i
  <2>n. \A t \in seeded' : t \in State /\ seedMap'[t] \subseteq seedMap[t]
    <3>1. Q \subseteq seedMap[s]
      BY <1>a
    <3>2. seeded' \subseteq State
      BY <1>b, <2>i, <2>s
    <3>3. seedMap'[s] \subseteq seedMap[s]
      BY <1>m, <3>1
    <3>4. \A t \in State \ {s} : seedMap'[t] \subseteq seedMap[t]
      BY <1>m
    <3> QED BY <3>2, <3>3, <3>4
  <2>1. \A t \in State : t \in seeded' <=> seedMap'[t] # {}
    <3>1. Q # {} => s \in seeded
      BY <1>a, <1>b, <2>i, Zenon
    <3> QED BY <1>a, <1>m, <2>i, <3>1, Zenon
  <2>2. \A t, u \in seeded' : t # u => seedMap'[t] \cap seedMap'[u] = {}
    BY <2>i, <2>s, <2>n
  <2>3. seeded' \subseteq Live'
    <3>1. \A t \in K : t \notin seeded'
      BY <1>k, <2>s
    <3> QED BY <1>c, <2>i, <2>s, <3>1, Zenon
  <2>4. OnlyReplaySeeds /\ Seed # {} => OnGoing' \subseteq seeded'
    BY <1>a, <1>b, <1>c, <1>o, <2>i
  <2> QED BY <2>1, <2>2, <2>3, <2>4, Zenon DEF SeedInv
<1>4. PathInv'
  <2>i. /\ \A t \in OnGoing : path[t] # {}
        /\ \A t, u \in OnGoing : t # u => path[t] \cap path[u] = {}
        /\ \A t \in OnGoing : path[t] \cap (ended \cup dropped) = {}
        /\ ended \cap dropped = {}
        /\ \A x \in Input : x \in ended \cup dropped \/ \E t \in OnGoing : x \in path[t]
    BY DEF PathInv
  <2> DEFINE lost == IF K = {} THEN path[s] \ c ELSE path[s]
  <2>l. /\ ended' = ended /\ dropped' = dropped \cup lost /\ lost \subseteq path[s]
        /\ K = {} => lost \cap path'[s] = {}
        /\ \A x \in path[s] : x \in lost \/ (K = {} /\ x \in path'[s])
    BY <1>a, <1>p, Zenon
  <2> HIDE DEF lost
  <2>o. \A t \in OnGoing' : /\ t \in OnGoing /\ path'[t] \subseteq path[t]
                            /\ t = s => K = {}
                            /\ t # s => path'[t] = path[t]
    BY <1>b, <1>c, <1>k, <1>p
  <2>1. \A t \in OnGoing' : path'[t] # {}
    BY <1>a, <1>p, <2>i, <2>o
  <2>2. \A t, u \in OnGoing' : t # u => path'[t] \cap path'[u] = {}
    BY <2>i, <2>o
  <2>3. \A t \in OnGoing' : path'[t] \cap (ended' \cup dropped') = {}
    <3>1. \A t \in OnGoing' : path'[t] \cap lost = {}
      BY <1>b, <2>i, <2>l, <2>o, Zenon
    <3> QED BY <2>i, <2>l, <2>o, <3>1, Zenon
  <2>4. ended' \cap dropped' = {}
    BY <1>b, <2>i, <2>l
  <2>5. ASSUME NEW x \in Input
        PROVE  x \in ended' \cup dropped' \/ \E t \in OnGoing' : x \in path'[t]
    <3>1. CASE x \in path[s]
      BY <1>b, <1>c, <2>l, <3>1, Zenon
    <3>2. ASSUME NEW t \in OnGoing, t # s, x \in path[t]
          PROVE  t \in OnGoing' /\ x \in path'[t]
      BY <1>b, <1>c, <1>k, <1>p, <3>2, Zenon
    <3>3. CASE x \in ended \cup dropped
      BY <2>l, <3>3
    <3> QED BY <2>i, <3>1, <3>2, <3>3
  <2> QED BY <2>1, <2>2, <2>3, <2>4, <2>5 DEF PathInv
<1> QED BY <1>1, <1>2, <1>3, <1>4

(***************************************************************************)
(* branch() preserves the invariant: each result goes on with the inputs   *)
(* of its condition and the seeds that satisfy it, and the inputs of no    *)
(* condition, or of a result without seeds, are given up.                  *)
(***************************************************************************)
LEMMA BranchIInv ==
  ASSUME IInv, NEW s \in handles, NEW R \in SUBSET State, s \in R,
         NEW cond \in Exclusive(R, path[s]), NEW d \in LeafDepths(R),
         NEW pick \in [seedMap[s] -> R], Branch(s, R, cond, d, pick)
  PROVE  IInv'
<1> DEFINE K == IF s \in seeded /\ OnlyReplaySeeds
                  THEN {r \in R : \A x \in seedMap[s] : pick[x] # r}
                  ELSE {}
           A == added \cup (R \ {s})
<1> USE DEF IInv
<1>1. TypeOK'
  BY BranchType
<1>a. /\ TerminateStates(K, A) /\ handles' = (handles \cup R) \ K
      /\ states' = states /\ ended' = ended
      /\ dropped' = dropped \cup (path[s] \ UNION {cond[r] : r \in R \ K})
      /\ pc = "execute" /\ pc' = pc /\ searching' = searching /\ searcher' = searcher
      /\ R \ {s} \subseteq State \ Live
      /\ seeded' = (seeded \ {s}) \cup {x \in R : seedMap'[x] # {}}
  BY Zenon DEF Branch, loopVars
<1>b. /\ s \in OnGoing /\ s \in State /\ handles \subseteq OnGoing
      /\ Live \subseteq State /\ OnGoing \subseteq Live
      /\ A \in SUBSET State /\ added \subseteq A /\ A \cap states = {}
      /\ {t \in states \cup A : removed[t] = 0} = OnGoing \cup R
  <2>1. s \in OnGoing /\ handles \subseteq OnGoing
    BY DEF BookInv
  <2>2. Live \subseteq State /\ OnGoing \subseteq Live
    BY DEF Live, OnGoing, TypeOK
  <2>3. \A r \in R \ {s} : removed[r] = 0
    BY <1>a, NotRemoved, Zenon
  <2>4. added \cap states = {} /\ added \subseteq State
    BY DEF BookInv, TypeOK
  <2>5. A \in SUBSET State /\ added \subseteq A /\ A \cap states = {}
    BY <1>a, <2>4, Zenon DEF Live
  <2>6. {t \in states \cup A : removed[t] = 0} = OnGoing \cup R
    <3>1. R \ {s} \subseteq A
      OBVIOUS
    <3>2. states \cup A = Live \cup (R \ {s})
      BY DEF Live
    <3>3. OnGoing = {t \in Live : removed[t] = 0}
      BY DEF OnGoing
    <3> HIDE DEF A
    <3> QED BY <2>1, <2>3, <3>2, <3>3, Zenon
  <2> QED BY <2>1, <2>2, <2>5, <2>6, Zenon
<1>k. K \subseteq R
  OBVIOUS
<1>m. /\ \A t \in R : seedMap'[t] = {y \in seedMap[s] : pick[y] = t}
      /\ \A t \in State \ R : seedMap'[t] = seedMap[t]
  BY Zenon DEF Branch
<1>o. \A r \in R : r \in K => seedMap'[r] = {}
  BY <1>m, Zenon
<1>q. s \in seeded /\ OnlyReplaySeeds => \A r \in R \ K : seedMap'[r] # {}
  BY <1>m
<1>p. /\ \A t \in R : path'[t] = cond[t]
      /\ \A t \in State \ R : path'[t] = path[t]
  BY Zenon DEF Branch
<1>l. Live \cup R = states \cup A
  BY <1>b, Zenon DEF Live
<1> HIDE DEF K, A
<1>c. /\ states' \cap added' = {}
      /\ Live' = (Live \cup R) \ (K \cap A)
      /\ OnGoing' = (OnGoing \cup R) \ K
      /\ \A t \in State : removed'[t] > 0 => t \in states'
      /\ ~MemoryCap => \A t \in State : removed'[t] \in {0, 1}
  <2>1. K \subseteq {t \in states \cup A : removed[t] = 0}
    BY <1>b, <1>k
  <2>2. TypeOK /\ BookInv /\ TerminateStates(K, A) /\ states' = states
    BY <1>a
  <2> QED BY <1>b, <1>l, <2>1, <2>2, TerminateBook, Zenon
<1>2. BookInv'
  BY <1>a, <1>b, <1>c, Zenon DEF BookInv
<1>3. SeedInv'
  <2>1. \A t \in State : t \in seeded <=> seedMap[t] # {}
    BY DEF SeedInv
  <2>2. seeded \subseteq Live /\ \A t \in R \ {s} : t \notin seeded
    BY <1>a, Zenon DEF SeedInv
  <2>3. \A t, u \in seeded : t # u => seedMap[t] \cap seedMap[u] = {}
    BY DEF SeedInv
  <2>4. \A t \in State : t \in seeded' <=> seedMap'[t] # {}
    BY <1>a, <1>b, <1>m, <2>1, <2>2, Zenon
  <2>5. \A t, u \in seeded' : t # u => seedMap'[t] \cap seedMap'[u] = {}
    <3> SUFFICES ASSUME NEW t \in seeded', NEW u \in seeded', t # u,
                        NEW x, x \in seedMap'[t], x \in seedMap'[u]
                 PROVE  FALSE
      OBVIOUS
    <3>1. t \in State /\ u \in State
      BY <1>1 DEF TypeOK
    <3>2. \A w \in R : x \in seedMap'[w] => x \in seedMap[s] /\ pick[x] = w
      BY <1>m, Zenon
    <3>3. \A w \in seeded' \ R : w \in seeded \ {s} /\ seedMap'[w] = seedMap[w]
      BY <1>1, <1>a, <1>m, Zenon DEF TypeOK
    <3>4. x \in seedMap[s] => s \in seeded
      BY <1>b, <2>1, Zenon
    <3>5. CASE t \in R /\ u \in R
      BY <3>2, <3>5
    <3>6. \A v \in seeded' \ R : x \in seedMap'[v] => x \notin seedMap[s]
      BY <2>3, <3>3, <3>4
    <3>7. CASE t \notin R /\ u \notin R
      BY <2>3, <3>3, <3>7
    <3> QED BY <3>2, <3>5, <3>6, <3>7, Zenon
  <2>6. seeded' \subseteq Live'
    <3>1. seeded' \subseteq State
      BY <1>1 DEF TypeOK
    <3>2. \A t \in seeded' : t \in Live \cup R
      BY <1>a, <2>2, Zenon
    <3>3. \A t \in seeded' : t \notin K
      BY <1>k, <1>o, <2>4, <3>1
    <3> QED BY <1>c, <3>2, <3>3, Zenon
  <2>7. OnlyReplaySeeds /\ Seed # {} => OnGoing' \subseteq seeded'
    <3> SUFFICES ASSUME OnlyReplaySeeds, Seed # {}, NEW t \in OnGoing'
                 PROVE  t \in seeded'
      OBVIOUS
    <3>1. OnGoing \subseteq seeded
      BY DEF SeedInv
    <3>2. t \in OnGoing \cup R /\ t \notin K
      BY <1>c
    <3>3. CASE t \in R
      BY <1>b, <1>q, <2>4, <3>1, <3>2, <3>3
    <3>4. CASE t \notin R
      BY <1>a, <3>1, <3>2, <3>4, Zenon
    <3> QED BY <3>3, <3>4
  <2> QED BY <2>4, <2>5, <2>6, <2>7, Zenon DEF SeedInv
<1>4. PathInv'
  <2>0. /\ \A r \in R : cond[r] # {} /\ cond[r] \subseteq path[s]
        /\ \A r, q \in R : r # q => cond[r] \cap cond[q] = {}
    BY Zenon DEF Exclusive
  <2> DEFINE lost == path[s] \ UNION {cond[r] : r \in R \ K}
  <2>1. /\ dropped' = dropped \cup lost /\ lost \subseteq path[s]
        /\ \A r \in R \ K : cond[r] \cap lost = {}
        /\ \A x \in path[s] : x \in lost \/ \E r \in R \ K : x \in cond[r]
    BY <1>a, Zenon
  <2> HIDE DEF lost
  <2>2. \A t \in OnGoing' : IF t \in R THEN t \notin K /\ path'[t] = cond[t]
                            ELSE t \in OnGoing \ {s} /\ path'[t] = path[t]
    BY <1>b, <1>c, <1>p, Zenon
  <2>3. \A t \in OnGoing' : path'[t] # {}
    BY <2>0, <2>2, Zenon DEF PathInv
  <2>4. \A t, u \in OnGoing' : t # u => path'[t] \cap path'[u] = {}
    <3>1. \A t, u \in OnGoing : t # u => path[t] \cap path[u] = {}
      BY DEF PathInv
    <3>2. \A t \in OnGoing' \ R : path'[t] \cap path[s] = {}
      BY <1>b, <2>2, <3>1, Zenon
    <3>3. \A t \in OnGoing' \cap R : path'[t] = cond[t] /\ path'[t] \subseteq path[s]
      BY <2>0, <2>2, Zenon
    <3> TAKE t, u \in OnGoing'
    <3>4. CASE t \in R /\ u \in R
      BY <2>0, <3>3, <3>4
    <3>5. CASE t \notin R /\ u \notin R
      BY <2>2, <3>1, <3>5, Zenon
    <3> QED BY <3>2, <3>3, <3>4, <3>5, Zenon
  <2>5. \A t \in OnGoing' : path'[t] \cap (ended' \cup dropped') = {}
    BY <1>a, <1>b, <2>0, <2>1, <2>2, Zenon DEF PathInv
  <2>6. ended' \cap dropped' = {}
    BY <1>a, <1>b, <2>1, Zenon DEF PathInv
  <2>7. ASSUME NEW x \in Input
        PROVE  x \in ended' \cup dropped' \/ \E t \in OnGoing' : x \in path'[t]
    <3>1. CASE x \in path[s]
      BY <1>c, <1>p, <2>1, <3>1, Zenon
    <3>2. CASE x \notin path[s]
      <4>1. CASE x \in ended \cup dropped
        BY <1>a, <4>1, Zenon
      <4>2. ASSUME NEW t \in OnGoing, x \in path[t]
            PROVE  t \in OnGoing' /\ x \in path'[t]
        BY <1>a, <1>b, <1>c, <1>k, <1>p, <3>2, <4>2, Zenon
      <4> QED BY <4>1, <4>2 DEF PathInv
    <3> QED BY <3>1, <3>2, Zenon
  <2> QED BY <2>3, <2>4, <2>5, <2>6, <2>7, Zenon DEF PathInv
<1> QED BY <1>1, <1>2, <1>3, <1>4

(***************************************************************************)
(* The steps of run() preserve the invariant.                              *)
(***************************************************************************)
LEMMA MainLoopIInv ==
  ASSUME IInv, MainLoop \/ SetHaltExecution
  PROVE  IInv'
<1> USE DEF IInv
<1>t. TypeOK'
  BY MainLoopType
<1>1. ASSUME NEW s \in State, SeedStep(s) \/ SelectState(s) PROVE IInv'
  <2>1. /\ states' = states /\ added' = added /\ removed' = removed
        /\ path' = path /\ dropped' = dropped /\ ended' = ended
        /\ seeded' = seeded /\ seedMap' = seedMap
        /\ searching' = searching /\ searcher' = searcher
        /\ pc \in {"seed", "select"} /\ pc' = "execute" /\ handles' = {s}
        /\ pc = "seed" => s \in seeded
        /\ pc = "select" => s \in searcher
    BY <1>1 DEF SeedStep, SelectState, bookVars, dataVars, seedVars
  <2>2. Live' = Live /\ OnGoing' = OnGoing
    BY <2>1 DEF Live, OnGoing
  <2>3. s \in OnGoing
    BY <2>1 DEF BookInv, SeedInv, OnGoing, Live
  <2>4. BookInv'
    BY <2>1, <2>2, <2>3 DEF BookInv
  <2>5. SeedInv' /\ PathInv'
    BY <2>1, <2>2, Zenon DEF SeedInv, PathInv
  <2> QED BY <1>t, <2>4, <2>5
<1>2. CASE \/ SeedingEnds \/ ConstructSearcher \/ LoopEnds \/ InstructionDone
           \/ SetHaltExecution
  <2>1. /\ states' = states /\ added' = added /\ removed' = removed
        /\ path' = path /\ dropped' = dropped /\ ended' = ended
        /\ seeded' = seeded /\ seedMap' = seedMap
    BY <1>2 DEF SeedingEnds, ConstructSearcher, LoopEnds, InstructionDone,
                SetHaltExecution, bookVars, dataVars, seedVars
  <2>2. Live' = Live /\ OnGoing' = OnGoing
    BY <2>1 DEF Live, OnGoing
  <2>3. SeedInv' /\ PathInv'
    BY <2>1, <2>2, Zenon DEF SeedInv, PathInv
  <2>4. SeedingEnds => BookInv'
    BY <2>1, <2>2 DEF BookInv, SeedingEnds, loopVars
  <2>5. ConstructSearcher => BookInv'
    BY <2>1, <2>2 DEF BookInv, ConstructSearcher
  <2>6. LoopEnds => BookInv'
    BY <2>1, <2>2 DEF BookInv, LoopEnds, loopVars
  <2>7. InstructionDone => BookInv'
    BY <2>1, <2>2, ExecutorAssumption DEF BookInv, InstructionDone, loopVars
  <2>8. SetHaltExecution => BookInv'
    BY <2>1, <2>2 DEF BookInv, SetHaltExecution, loopVars
  <2> QED BY <1>2, <1>t, <2>3, <2>4, <2>5, <2>6, <2>7, <2>8
<1>3. ASSUME NEW K \in SUBSET states, CheckMemoryUsage(K) PROVE IInv'
  <2>1. /\ states' = states /\ path' = path /\ dropped' = dropped
        /\ seeded' = seeded /\ seedMap' = seedMap /\ handles' = handles
        /\ searching' = searching /\ searcher' = searcher
        /\ ended' = ended \cup UNION {path[s] : s \in K \cap OnGoing}
        /\ pc = "memory" /\ pc' = "update"
        /\ added' = added \ K
        /\ \A s \in State : removed'[s] = IF s \in K \ added THEN removed[s] + 1
                                                            ELSE removed[s]
    BY <1>3, Zenon DEF CheckMemoryUsage, TerminateStates, loopVars, dataVars, seedVars
  <2>2. /\ MemoryCap /\ handles = {} /\ states \cap added = {}
        /\ states \subseteq State /\ added \subseteq State
        /\ removed \in [State -> Nat]
    BY <2>1, ExecutorAssumption DEF BookInv, TypeOK
  <2>3. Live' = Live /\ OnGoing' = OnGoing \ K
    <3>1. added' = added /\ \A s \in State : s \in K \ added <=> s \in K
      BY <2>1, <2>2
    <3>2. Live' = Live
      BY <2>1, <3>1 DEF Live
    <3>3. \A s \in State : removed'[s] = 0 <=> removed[s] = 0 /\ s \notin K
      BY <2>1, <2>2, <3>1
    <3>4. Live \subseteq State
      BY <2>2 DEF Live
    <3> QED BY <3>2, <3>3, <3>4 DEF OnGoing
  <2>4. BookInv'
    BY <2>1, <2>2, <2>3, Zenon DEF BookInv
  <2>5. SeedInv'
    BY <2>1, <2>3, Zenon DEF SeedInv
  <2>6. PathInv'
    <3> DEFINE gone == UNION {path[s] : s \in K \cap OnGoing}
    <3>1. \A x : x \in gone <=> \E s \in K \cap OnGoing : x \in path[s]
      OBVIOUS
    <3>2. ended' = ended \cup gone
      BY <2>1
    <3> HIDE DEF gone
    <3>3. /\ \A s \in OnGoing' : s \in OnGoing /\ path'[s] = path[s] /\ path[s] # {}
          /\ \A s, t \in OnGoing' : s # t => path'[s] \cap path'[t] = {}
      BY <2>1, <2>3 DEF PathInv
    <3>4. \A s \in OnGoing' : path'[s] \cap (ended' \cup dropped') = {}
      <4> SUFFICES ASSUME NEW s \in OnGoing', NEW x \in path[s]
                   PROVE  x \notin ended \cup gone \cup dropped
        BY <2>1, <3>2, <3>3
      <4>1. s \in OnGoing /\ s \notin K
        BY <2>3
      <4>2. ASSUME NEW t \in K \cap OnGoing, x \in path[t] PROVE FALSE
        <5>1. path[s] \cap path[t] = {}
          BY <4>1 DEF PathInv
        <5> QED BY <4>2, <5>1
      <4>3. x \notin gone
        BY <3>1, <4>2, Zenon
      <4> QED BY <4>1, <4>3 DEF PathInv
    <3>5. ended' \cap dropped' = {}
      <4>1. gone \cap dropped = {}
        BY <3>1 DEF PathInv
      <4> QED BY <2>1, <3>2, <4>1 DEF PathInv
    <3>6. ASSUME NEW x \in Input
          PROVE  x \in ended' \cup dropped' \/ \E s \in OnGoing' : x \in path'[s]
      <4>1. CASE x \in ended \cup dropped
        BY <2>1, <3>2, <4>1
      <4>2. CASE \E s \in OnGoing : x \in path[s]
        BY <2>1, <2>3, <3>1, <3>2, <4>2
      <4> QED BY <4>1, <4>2 DEF PathInv
    <3> QED BY <3>3, <3>4, <3>5, <3>6 DEF PathInv
  <2> QED BY <1>t, <2>4, <2>5, <2>6
<1>4. CASE UpdateStates
  <2>1. /\ states' = Live \ RemovedStates /\ added' = {}
        /\ \A s \in State : removed'[s] = 0
        /\ \A s \in State : path'[s] = IF s \in RemovedStates THEN {} ELSE path[s]
        /\ dropped' = dropped /\ ended' = ended /\ handles' = handles
        /\ searching' = searching
        /\ searching => searcher' = (searcher \cup added) \ RemovedStates
        /\ seeded' = seeded \ RemovedStates
        /\ \A s \in State : seedMap'[s] = IF s \in RemovedStates THEN {} ELSE seedMap[s]
        /\ pc = "update"
        /\ pc' = IF RemovalsValid THEN (IF searching THEN "select" ELSE "seed")
                                  ELSE "aborted"
    BY <1>4, Zenon DEF UpdateStates, UpdatedSearcher, SeedsWithout
  <2>2. Live \subseteq State /\ removed \in [State -> Nat]
    BY DEF Live, TypeOK
  <2>3. RemovedStates \cap OnGoing = {} /\ OnGoing = Live \ RemovedStates
    BY <2>2 DEF RemovedStates, OnGoing
  <2>4. Live' = OnGoing /\ OnGoing' = OnGoing
    BY <2>1, <2>2, <2>3 DEF Live, OnGoing
  <2>5. ~MemoryCap => RemovalsValid
    BY DEF RemovalsValid, RemovedStates, BookInv, Live
  <2>6. BookInv'
    <3>1. handles' = {} /\ added' = {} /\ states' = Live \ RemovedStates
      BY <2>1, Zenon DEF BookInv
    <3>2. searching' => searcher' = states'
      BY <2>1, Zenon DEF BookInv, Live
    <3>3. /\ pc' \in {"select", "seed", "aborted"}
          /\ pc' = "select" => searching'
          /\ pc' = "seed" => ~searching'
          /\ ~MemoryCap => pc' # "aborted"
      BY <2>1, <2>5
    <3>4. \A s \in State : removed'[s] = 0
      BY <2>1
    <3> QED BY <3>1, <3>2, <3>3, <3>4 DEF BookInv
  <2>7. SeedInv'
    BY <2>1, <2>2, <2>3, <2>4, Zenon DEF SeedInv
  <2>8. PathInv'
    <3>1. \A s \in OnGoing : path'[s] = path[s]
      BY <2>1, <2>2, <2>3
    <3>2. OnGoing' = OnGoing /\ ended' = ended /\ dropped' = dropped
      BY <2>1, <2>4
    <3> QED BY <3>1, <3>2, Zenon DEF PathInv
  <2> QED BY <1>t, <2>6, <2>7, <2>8
<1>5. CASE DoDumpStates
  <2>1. /\ pc = "dump" /\ pc' = "done" /\ searching' = FALSE /\ searcher' = {}
        /\ handles' = handles /\ added' = added /\ removed' = removed
        /\ path' = path /\ dropped' = dropped
        /\ IF DumpStatesOnHalt
             THEN /\ states' = {}
                  /\ ended' = ended \cup UNION {path[s] : s \in states}
                  /\ seeded' = seeded \ states
                  /\ \A s \in State : seedMap'[s] = IF s \in states THEN {}
                                                                   ELSE seedMap[s]
             ELSE /\ states' = states /\ ended' = ended
                  /\ seeded' = seeded /\ seedMap' = seedMap
    BY <1>5 DEF DoDumpStates, SeedsWithout, dataVars, seedVars
  <2>2. /\ added = {} /\ handles = {} /\ \A s \in State : removed[s] = 0
    BY <2>1 DEF BookInv
  <2>3. Live = states /\ OnGoing = states /\ Live' = states' /\ OnGoing' = states'
    BY <2>1, <2>2 DEF Live, OnGoing, TypeOK
  <2>4. BookInv'
    <3>1. /\ added' = {} /\ handles' = {} /\ \A s \in State : removed'[s] = 0
          /\ pc' = "done" /\ ~searching'
      BY <2>1, <2>2, Zenon
    <3>2. DumpStatesOnHalt => states' = {}
      BY <2>1, Zenon
    <3> QED BY <3>1, <3>2 DEF BookInv
  <2>5. SeedInv'
    <3>1. CASE DumpStatesOnHalt
      <4>1. seeded' = {} /\ \A s \in State : seedMap'[s] = {}
        BY <2>1, <2>3, <3>1 DEF SeedInv
      <4> QED BY <2>1, <2>3, <3>1, <4>1, Zenon DEF SeedInv
    <3>2. CASE ~DumpStatesOnHalt
      BY <2>1, <2>3, <3>2 DEF SeedInv
    <3> QED BY <3>1, <3>2
  <2>6. PathInv'
    <3>i. /\ \A s, t \in states : s # t => path[s] \cap path[t] = {}
          /\ \A s \in states : path[s] # {} /\ path[s] \cap (ended \cup dropped) = {}
          /\ ended \cap dropped = {}
          /\ \A x \in Input : x \in ended \cup dropped \/ \E s \in states : x \in path[s]
      BY <2>3, Zenon DEF PathInv
    <3>1. CASE DumpStatesOnHalt
      <4> DEFINE all == UNION {path[s] : s \in states}
      <4>1. OnGoing' = {} /\ dropped' = dropped /\ ended' = ended \cup all
        BY <2>1, <2>3, <3>1
      <4>2. all \cap dropped = {}
        BY <3>i
      <4>3. \A x \in Input : x \in ended \cup dropped \/ x \in all
        BY <3>i
      <4> HIDE DEF all
      <4> QED BY <3>i, <4>1, <4>2, <4>3 DEF PathInv
    <3>2. CASE ~DumpStatesOnHalt
      <4>1. /\ OnGoing' = states /\ dropped' = dropped /\ ended' = ended
            /\ path' = path
        BY <2>1, <2>3, <3>2
      <4> QED BY <3>i, <4>1, Zenon DEF PathInv
    <3> QED BY <3>1, <3>2
  <2> QED BY <1>t, <2>4, <2>5, <2>6
<1> QED BY <1>1, <1>2, <1>3, <1>4, <1>5 DEF MainLoop

LEMMA StepIInv == Orderly => (IInv /\ [Next]_vars => IInv')
<1> SUFFICES ASSUME Orderly, IInv, [Next]_vars PROVE IInv'
  OBVIOUS
<1>1. ASSUME NEW s \in handles,
             \/ TerminateState(s) \/ TerminateStateOnError(s)
             \/ AssertWithUnreadableMessage(s) \/ InvalidFunctionPointer(s)
             \/ ForkTimeout(s)
      PROVE  IInv'
  BY <1>1, TerminationIInv, Zenon
     DEF ForkTimeout, AssertWithUnreadableMessage, InvalidFunctionPointer, Orderly
<1>2. ASSUME NEW s \in handles, NEW c \in SUBSET Input,
             SetForking(s) \/ AddConstraint(s, c) \/ ForkOneWay(s, c)
      PROVE  IInv'
  BY <1>2, ConstraintIInv
<1>3. ASSUME NEW s \in handles, SetForking(s) PROVE IInv'
  BY <1>2, <1>3
<1>4. ASSUME NEW s \in handles, NEW c \in SUBSET Input, NEW ns \in State,
             NEW T \in SUBSET Seed, ForkBothWays(s, c, ns, T)
      PROVE  IInv'
  BY <1>4, ForkBothWaysIInv
<1>5. ASSUME NEW s \in handles, NEW c \in SUBSET Input,
             NEW Q \in SUBSET Seed, BranchExhausted(s, c, Q)
      PROVE  IInv'
  BY <1>5, BranchExhaustedIInv
<1>6. ASSUME NEW s \in handles, NEW New \in SUBSET (State \ Live),
             NEW cond \in Exclusive(New \cup {s}, path[s]),
             NEW d \in LeafDepths(New \cup {s}),
             NEW pick \in [seedMap[s] -> New \cup {s}],
             Branch(s, New \cup {s}, cond, d, pick)
      PROVE  IInv'
  <2> DEFINE R == New \cup {s}
  <2>1. R \in SUBSET State /\ s \in R
    BY DEF IInv, TypeOK
  <2>2. /\ cond \in Exclusive(R, path[s]) /\ d \in LeafDepths(R)
        /\ pick \in [seedMap[s] -> R] /\ Branch(s, R, cond, d, pick)
    BY <1>6, Zenon
  <2> HIDE DEF R
  <2> QED BY <2>1, <2>2, BranchIInv, Zenon
<1>7. CASE Instruction
  BY <1>1, <1>2, <1>3, <1>4, <1>5, <1>6, <1>7, Zenon DEF Instruction
<1>8. CASE MainLoop \/ SetHaltExecution
  BY <1>8, MainLoopIInv
<1>9. CASE UNCHANGED vars
  <2>1. /\ UNCHANGED <<pc, handles, ended, atMemoryLimit, haltExecution>>
        /\ UNCHANGED loopVars /\ UNCHANGED bookVars
        /\ UNCHANGED dataVars /\ UNCHANGED seedVars
    BY <1>9 DEF vars
  <2>2. Live' = Live /\ OnGoing' = OnGoing
    BY <2>1 DEF bookVars, Live, OnGoing
  <2>3. TypeOK'
    BY <2>1 DEF IInv, TypeOK, loopVars, bookVars, dataVars, seedVars
  <2>4. BookInv'
    BY <2>1, <2>2 DEF IInv, BookInv, loopVars, bookVars
  <2>5. SeedInv'
    BY <2>1, <2>2, Zenon DEF IInv, SeedInv, seedVars
  <2>6. PathInv'
    BY <2>1, <2>2, Zenon DEF IInv, PathInv, dataVars
  <2> QED BY <2>3, <2>4, <2>5, <2>6 DEF IInv
<1> QED BY <1>7, <1>8, <1>9 DEF Next
-----------------------------------------------------------------------------
(***************************************************************************)
(* IInv holds in every reachable state.                                    *)
(***************************************************************************)
THEOREM Invariance == Orderly => (Spec => []IInv)
<1> SUFFICES ASSUME Orderly PROVE Spec => []IInv
  OBVIOUS
<1>1. IInv /\ [Next]_vars => IInv'
  BY StepIInv
<1> QED BY <1>1, InitIInv, PTL DEF Spec

(***************************************************************************)
(* Symbolic execution neither loses an input nor follows it twice.         *)
(***************************************************************************)
THEOREM NoInputLost == Orderly => (Spec => []PathsPartition)
<1> SUFFICES ASSUME Orderly PROVE Spec => []PathsPartition
  OBVIOUS
<1>1. IInv => PathsPartition
  <2> SUFFICES ASSUME IInv
               PROVE  Input = ended \cup dropped \cup UNION {path[s] : s \in OnGoing}
    BY Zenon DEF IInv, PathInv, PathsPartition
  <2>1. OnGoing \subseteq State
    BY DEF IInv, TypeOK, OnGoing, Live
  <2>2. ended \subseteq Input /\ dropped \subseteq Input
    BY DEF IInv, TypeOK
  <2>3. \A s \in OnGoing : path[s] \subseteq Input
    BY <2>1 DEF IInv, TypeOK
  <2>4. \A x \in Input : x \in ended \cup dropped \/ \E s \in OnGoing : x \in path[s]
    BY DEF IInv, PathInv
  <2> QED BY <2>2, <2>3, <2>4
<1> QED BY <1>1, Invariance, PTL

(***************************************************************************)
(* Without a memory cap, the assertion of updateStates holds: every state  *)
(* is removed once.  With one it fails, see the run executor_memory_cap.   *)
(***************************************************************************)
THEOREM RemovalsAreUnique ==
  Orderly /\ ~MemoryCap => (Spec => []RemovedOnce)
<1> SUFFICES ASSUME Orderly, ~MemoryCap PROVE Spec => []RemovedOnce
  OBVIOUS
<1>1. IInv => RemovedOnce
  BY DEF IInv, BookInv, RemovedOnce
<1> QED BY <1>1, Invariance, PTL

(***************************************************************************)
(* The searcher selects among exactly the states of the executor.          *)
(***************************************************************************)
THEOREM SearcherAgrees == Orderly => (Spec => []SearcherInSync)
<1> SUFFICES ASSUME Orderly PROVE Spec => []SearcherInSync
  OBVIOUS
<1>1. IInv => SearcherInSync
  BY DEF IInv, BookInv, SearcherInSync
<1> QED BY <1>1, Invariance, PTL

(***************************************************************************)
(* Every seed is owned by one state that exists, and no entry of seedMap   *)
(* is empty.                                                               *)
(***************************************************************************)
THEOREM SeedsAreOwned == Orderly => (Spec => []SeedsOwned)
<1> SUFFICES ASSUME Orderly PROVE Spec => []SeedsOwned
  OBVIOUS
<1>1. IInv => SeedsOwned
  BY DEF IInv, SeedInv, SeedsOwned
<1> QED BY <1>1, Invariance, PTL

(***************************************************************************)
(* -only-replay-seeds keeps no state without a seed.                       *)
(***************************************************************************)
THEOREM SeedlessAreDiscarded == Orderly => (Spec => []OnlySeededStates)
<1> SUFFICES ASSUME Orderly PROVE Spec => []OnlySeededStates
  OBVIOUS
<1>1. IInv => OnlySeededStates
  BY DEF IInv, TypeOK, BookInv, SeedInv, OnlySeededStates, OnGoing, Live
<1> QED BY <1>1, Invariance, PTL

(***************************************************************************)
(* Seeds are owned, and with -only-replay-seeds states are seeded.         *)
(***************************************************************************)
THEOREM SeedsAreSound == Orderly => (Spec => []SeedsSound)
<1> SUFFICES ASSUME Orderly PROVE Spec => []SeedsSound
  OBVIOUS
<1>1. SeedsOwned /\ OnlySeededStates => SeedsSound
  BY DEF SeedsSound
<1>2. (Spec => []SeedsOwned) /\ (Spec => []OnlySeededStates)
  BY SeedsAreOwned, SeedlessAreDiscarded
<1> QED BY <1>1, <1>2, PTL

(***************************************************************************)
(* doDumpStates accounts for every input.                                  *)
(***************************************************************************)
THEOREM EverythingIsDumped == Orderly => (Spec => []DumpedAll)
<1> SUFFICES ASSUME Orderly PROVE Spec => []DumpedAll
  OBVIOUS
<1>1. IInv => DumpedAll
  <2> SUFFICES ASSUME IInv, pc = "done", DumpStatesOnHalt
               PROVE  Live = {} /\ Input = ended \cup dropped
    BY DEF DumpedAll
  <2>1. Live = {}
    BY DEF IInv, BookInv, Live
  <2>2. OnGoing = {}
    BY <2>1 DEF OnGoing
  <2> QED BY <2>1, <2>2 DEF IInv, PathInv, TypeOK
<1> QED BY <1>1, Invariance, PTL

(***************************************************************************)
(* No input is lost, during the run and at its end.                        *)
(***************************************************************************)
THEOREM InputsAreKept == Orderly => (Spec => []InputsKept)
<1> SUFFICES ASSUME Orderly PROVE Spec => []InputsKept
  OBVIOUS
<1>1. PathsPartition /\ DumpedAll => InputsKept
  BY DEF InputsKept
<1>2. (Spec => []PathsPartition) /\ (Spec => []DumpedAll)
  BY NoInputLost, EverythingIsDumped
<1> QED BY <1>1, <1>2, PTL
-----------------------------------------------------------------------------
(***************************************************************************)
(* run() creates, deletes and selects states only in the ways StatePool,   *)
(* and so the process tree, allows: it never selects or branches off a     *)
(* state that has been deleted.                                            *)
(***************************************************************************)
THEOREM ImplementsPool == Orderly => (Spec => PoolSpec)
<1> SUFFICES ASSUME Orderly PROVE Spec => PoolSpec
  OBVIOUS
<1>1. Init => Pool!Init
  BY DEF Init, Pool!Init, Live
<1>2. IInv /\ IInv' /\ [Next]_vars => [Pool!Next]_<<Live, current>>
  <2> SUFFICES ASSUME IInv, IInv', [Next]_vars
               PROVE  Pool!Next \/ (Live' = Live /\ current' = current)
    BY DEF Live
  <2>t. Live \subseteq State /\ Live' \subseteq State
    BY DEF IInv, TypeOK, Live
  <2>c. current' = current /\ Live # {} => Pool!Next
    <3> SUFFICES ASSUME current' = current, Live # {} PROVE Pool!Next
      OBVIOUS
    <3> DEFINE S == Live' \ Live
               D == Live \ Live'
    <3>1. S \in SUBSET State /\ D \in SUBSET State
      BY <2>t
    <3>2. Pool!Change(S, D)
      BY <2>t DEF Pool!Change
    <3> HIDE DEF S, D
    <3> QED BY <3>1, <3>2 DEF Pool!Next
  <2>1. ASSUME NEW s \in State, SeedStep(s) \/ SelectState(s)
        PROVE  Pool!Next
    <3>1. Live' = Live /\ current' = s
      BY <2>1 DEF SeedStep, SelectState, bookVars, Live
    <3>2. s \in Live
      BY <2>1, Zenon DEF SeedStep, SelectState, IInv, BookInv, SeedInv, Live
    <3> QED BY <3>1, <3>2 DEF Pool!Next, Pool!Select
  <2>2. CASE Instruction
    <3>1. PICK s \in handles : TRUE
      BY <2>2, Zenon DEF Instruction
    <3>2. Live # {}
      BY <3>1, Zenon DEF IInv, BookInv, OnGoing
    <3>3. current' = current
      <4>1. ASSUME NEW x \in handles,
                   \/ TerminateState(x) \/ TerminateStateOnError(x)
                   \/ AssertWithUnreadableMessage(x) \/ InvalidFunctionPointer(x)
                   \/ ForkTimeout(x) \/ SetForking(x)
            PROVE  current' = current
        BY <4>1, Zenon DEF TerminateState, TerminateStateOnError, ForkTimeout,
                    AssertWithUnreadableMessage, InvalidFunctionPointer,
                    SetForking, loopVars
      <4>2. ASSUME NEW x \in handles, NEW c \in SUBSET Input,
                   AddConstraint(x, c) \/ ForkOneWay(x, c)
            PROVE  current' = current
        BY <4>2 DEF AddConstraint, ForkOneWay, loopVars
      <4>3. ASSUME NEW x \in handles, NEW c \in SUBSET Input, NEW ns \in State,
                   NEW T \in SUBSET Seed, ForkBothWays(x, c, ns, T)
            PROVE  current' = current
        BY <4>3, Zenon DEF ForkBothWays, loopVars
      <4>4. ASSUME NEW x \in handles, NEW c \in SUBSET Input,
                   NEW Q \in SUBSET Seed, BranchExhausted(x, c, Q)
            PROVE  current' = current
        BY <4>4 DEF BranchExhausted, loopVars
      <4>5. ASSUME NEW x \in handles, NEW New \in SUBSET (State \ Live),
                   NEW cond \in Exclusive(New \cup {x}, path[x]),
                   NEW d \in LeafDepths(New \cup {x}),
                   NEW pick \in [seedMap[x] -> New \cup {x}],
                   Branch(x, New \cup {x}, cond, d, pick)
            PROVE  current' = current
        BY <4>5, Zenon DEF Branch, loopVars
      <4> QED BY <2>2, <4>1, <4>2, <4>3, <4>4, <4>5, Zenon DEF Instruction
    <3> QED BY <2>c, <3>2, <3>3
  <2>3. CASE \/ SeedingEnds \/ ConstructSearcher \/ LoopEnds \/ InstructionDone
             \/ SetHaltExecution \/ UNCHANGED vars
    BY <2>3 DEF SeedingEnds, ConstructSearcher, LoopEnds, InstructionDone,
                SetHaltExecution, vars, loopVars, bookVars, Live
  <2>4. ASSUME NEW K \in SUBSET states, CheckMemoryUsage(K)
        PROVE  Live' = Live /\ current' = current
    BY <2>4, Zenon DEF CheckMemoryUsage, TerminateStates, loopVars, Live
  <2>5. CASE UpdateStates \/ DoDumpStates
    <3>1. current' = current
      BY <2>5, Zenon DEF UpdateStates, DoDumpStates
    <3>2. Live = {} => Live' = {}
      BY <2>5, Zenon DEF UpdateStates, DoDumpStates, Live
    <3> QED BY <2>c, <3>1, <3>2
  <2> QED BY <2>1, <2>2, <2>3, <2>4, <2>5 DEF Next, MainLoop
<1> QED BY <1>1, <1>2, Invariance, PTL DEF Spec, PoolSpec, Pool!Spec
-----------------------------------------------------------------------------
(***************************************************************************)
(* Where the seeds go.  A step gives each seed of a state that stays to    *)
(* some state, or it is one of the steps SeedsKept lists.                  *)
(***************************************************************************)
SeedsMayGo == \/ ForksExhausted
              \/ Live \ Live' # {}
              \/ \E s \in State : TooDeep(depth'[s])

SeedsAccounted == SeedsInUse \subseteq SeedsInUse' \/ SeedsMayGo

\* A seed is in use when some state has it.
LEMMA SeedsFoundAgain ==
  ASSUME \A x \in State : \A y \in seedMap[x] : \E z \in State : y \in seedMap'[z]
  PROVE  SeedsInUse \subseteq SeedsInUse'
<1>1. \A y : y \in SeedsInUse <=> \E x \in State : y \in seedMap[x]
  BY DEF SeedsInUse
<1>2. \A y : y \in SeedsInUse' <=> \E x \in State : y \in seedMap'[x]
  BY DEF SeedsInUse
<1> QED BY <1>1, <1>2, Zenon

\* Erasing the entries of states that are deleted only loses their seeds.
LEMMA SeedsOfTheOthersStay ==
  ASSUME TypeOK, NEW D, SeedsWithout(D), D \cap State = {} \/ Live \ Live' # {}
  PROVE  SeedsAccounted
<1> USE DEF SeedsAccounted
<1>1. CASE D \cap State = {}
  <2>1. \A s \in State : seedMap'[s] = seedMap[s]
    BY <1>1 DEF SeedsWithout
  <2> QED BY <2>1, SeedsFoundAgain
<1>2. CASE Live \ Live' # {}
  BY <1>2 DEF SeedsMayGo
<1> QED BY <1>1, <1>2

\* fork() gives the seeds of s to s and to the new state, which had none.
LEMMA ForkBothWaysSeeds ==
  ASSUME IInv, NEW s \in handles, NEW c \in SUBSET Input, NEW ns \in State,
         NEW T \in SUBSET Seed, ForkBothWays(s, c, ns, T)
  PROVE  SeedsAccounted
<1> USE DEF SeedsAccounted
<1>1. s \in State /\ s \in Live /\ ns \notin Live /\ s # ns
  BY Zenon DEF IInv, BookInv, TypeOK, OnGoing, Live, ForkBothWays
<1>2. CASE TooDeep(depth[s] + 1)
  <2>1. /\ depth[s] \in 0 .. MaxDepth + 1 /\ MaxDepth \in Nat
        /\ depth'[s] = DepthUpTo(depth[s] + 1)
    BY <1>1, ExecutorAssumption, Zenon DEF IInv, TypeOK, ForkBothWays
  <2>2. TooDeep(depth'[s])
    <3>1. PICK d \in Nat : d = depth[s] + 1
      BY <2>1
    <3>2. MaxDepth # 0 /\ MaxDepth <= d
      BY <1>2, <3>1, Zenon DEF TooDeep
    <3>3. MaxDepth <= DepthUpTo(d)
      <4>1. MaxDepth \in Nat
        BY <2>1
      <4> QED BY <3>2, <4>1 DEF DepthUpTo
    <3> QED BY <2>1, <3>1, <3>2, <3>3, Zenon DEF TooDeep
  <2> QED BY <1>1, <2>2 DEF SeedsMayGo
<1>3. CASE ~TooDeep(depth[s] + 1)
  <2>1. /\ seedMap'[s] = T /\ seedMap'[ns] = seedMap[s] \ T
        /\ \A x \in State \ {s, ns} : seedMap'[x] = seedMap[x]
    BY <1>1, <1>3, Zenon DEF IInv, TypeOK, ForkBothWays
  <2>2. seedMap[ns] = {}
    BY <1>1, Zenon DEF IInv, SeedInv
  <2>3. ASSUME NEW x \in State, NEW y \in seedMap[x]
        PROVE  \E z \in State : y \in seedMap'[z]
    BY <1>1, <2>1, <2>2
  <2> QED BY <2>3, SeedsFoundAgain
<1> QED BY <1>2, <1>3

\* branch() gives each seed of s to one of the results.
LEMMA BranchSeeds ==
  ASSUME IInv, NEW s \in handles, NEW New \in SUBSET (State \ Live),
         NEW cond, NEW d, NEW pick \in [seedMap[s] -> New \cup {s}],
         Branch(s, New \cup {s}, cond, d, pick)
  PROVE  SeedsInUse \subseteq SeedsInUse'
<1>1. s \in State /\ s \in Live
  BY DEF IInv, BookInv, TypeOK, OnGoing, Live
<1>2. /\ \A x \in State \ (New \cup {s}) : seedMap'[x] = seedMap[x]
      /\ \A x \in State \cap (New \cup {s}), y \in seedMap[s] : pick[y] = x => y \in seedMap'[x]
  BY Zenon DEF Branch
<1>3. \A x \in New : x \in State /\ seedMap[x] = {}
  BY DEF IInv, SeedInv
<1>4. ASSUME NEW x \in State, NEW y \in seedMap[x]
      PROVE  \E z \in State : y \in seedMap'[z]
  <2>1. CASE x = s
    <3>1. PICK z \in New \cup {s} : z = pick[y]
      BY <2>1, Zenon
    <3>2. z \in State
      BY <1>1, <1>3
    <3>3. y \in seedMap'[z]
      BY <1>2, <2>1, <3>1, <3>2
    <3> QED BY <3>2, <3>3
  <2>2. CASE x # s
    <3>1. x \notin New \cup {s}
      BY <1>3, <2>2
    <3>2. seedMap'[x] = seedMap[x]
      BY <1>2, <3>1
    <3> QED BY <3>2
  <2> QED BY <2>1, <2>2
<1> QED BY <1>4, SeedsFoundAgain

LEMMA InstructionSeeds ==
  ASSUME Orderly, IInv, Instruction
  PROVE  SeedsAccounted
<1>1. ASSUME NEW s \in handles, TerminateState(s) \/ TerminateStateOnError(s)
      PROVE  SeedsAccounted
  <2>1. /\ SeedsWithout({s} \cap added) /\ TerminateStates({s}, added)
        /\ states' = states
    BY <1>1, Zenon DEF TerminateState, TerminateStateOnError
  <2>2. added' = added \ {s}
    BY <2>1 DEF TerminateStates
  <2>3. s \in added => s \in Live \ Live'
    BY <2>1, <2>2 DEF IInv, BookInv, Live
  <2>4. ({s} \cap added) \cap State = {} \/ Live \ Live' # {}
    BY <2>3
  <2> QED BY <2>1, <2>4, SeedsOfTheOthersStay DEF IInv
<1>2. ASSUME NEW s \in handles,
             \/ AssertWithUnreadableMessage(s) \/ InvalidFunctionPointer(s) \/ ForkTimeout(s)
      PROVE  SeedsAccounted
  BY <1>1, <1>2, Zenon
     DEF ForkTimeout, AssertWithUnreadableMessage, InvalidFunctionPointer, Orderly
<1>3. ASSUME NEW s \in handles, NEW c \in SUBSET Input, AddConstraint(s, c) \/ ForkOneWay(s, c)
      PROVE  SeedsAccounted
  BY <1>3, Zenon DEF AddConstraint, ForkOneWay, seedVars, SeedsInUse, SeedsAccounted
<1>4. ASSUME NEW s \in handles, SetForking(s)
      PROVE  SeedsAccounted
  BY <1>4 DEF SetForking, seedVars, SeedsInUse, SeedsAccounted
<1>5. ASSUME NEW s \in handles, NEW c \in SUBSET Input, NEW ns \in State,
             NEW T \in SUBSET Seed, ForkBothWays(s, c, ns, T)
      PROVE  SeedsAccounted
  BY <1>5, ForkBothWaysSeeds
<1>6. ASSUME NEW s \in handles, NEW c \in SUBSET Input, NEW Q \in SUBSET Seed,
             BranchExhausted(s, c, Q)
      PROVE  SeedsAccounted
  BY <1>6, Zenon DEF BranchExhausted, SeedsMayGo, SeedsAccounted
<1>7. ASSUME NEW s \in handles, NEW New \in SUBSET (State \ Live),
             NEW cond \in Exclusive(New \cup {s}, path[s]),
             NEW d \in LeafDepths(New \cup {s}),
             NEW pick \in [seedMap[s] -> New \cup {s}],
             Branch(s, New \cup {s}, cond, d, pick)
      PROVE  SeedsAccounted
  BY <1>7, BranchSeeds, Zenon DEF SeedsAccounted
<1>8. PICK s \in handles :
        \/ TerminateState(s) \/ TerminateStateOnError(s)
        \/ AssertWithUnreadableMessage(s) \/ InvalidFunctionPointer(s)
        \/ ForkTimeout(s) \/ SetForking(s)
        \/ \E c \in SUBSET Input :
             \/ AddConstraint(s, c)
             \/ ForkOneWay(s, c)
             \/ \E ns \in State, T \in SUBSET Seed : ForkBothWays(s, c, ns, T)
             \/ \E Q \in SUBSET Seed : BranchExhausted(s, c, Q)
        \/ \E New \in SUBSET (State \ Live) :
             \E cond \in Exclusive(New \cup {s}, path[s]),
                d \in LeafDepths(New \cup {s}),
                pick \in [seedMap[s] -> New \cup {s}] :
                  Branch(s, New \cup {s}, cond, d, pick)
  BY Zenon DEF Instruction
<1> QED BY <1>1, <1>2, <1>3, <1>4, <1>5, <1>6, <1>7, <1>8, Zenon

\* The main loop only erases the seeds of the states it deletes.
LEMMA MainLoopSeeds ==
  ASSUME IInv, MainLoop \/ SetHaltExecution
  PROVE  SeedsAccounted
<1>1. ASSUME NEW s \in State, SeedStep(s) \/ SelectState(s)
      PROVE  SeedsAccounted
  BY <1>1 DEF SeedStep, SelectState, seedVars, SeedsInUse, SeedsAccounted
<1>2. CASE \/ SeedingEnds \/ ConstructSearcher \/ LoopEnds \/ InstructionDone
           \/ SetHaltExecution
  BY <1>2, Zenon DEF SeedingEnds, ConstructSearcher, LoopEnds, InstructionDone,
              SetHaltExecution, seedVars, SeedsInUse, SeedsAccounted
<1>3. ASSUME NEW K \in SUBSET states, CheckMemoryUsage(K)
      PROVE  SeedsAccounted
  BY <1>3, Zenon DEF CheckMemoryUsage, seedVars, SeedsInUse, SeedsAccounted
<1>4. CASE UpdateStates
  <2>1. SeedsWithout(RemovedStates) /\ Live' = Live \ RemovedStates
    BY <1>4, Zenon DEF UpdateStates, Live
  <2>2. RemovedStates \subseteq Live
    BY DEF IInv, BookInv, RemovedStates, Live
  <2>3. RemovedStates \cap State = {} \/ Live \ Live' # {}
    BY <2>1, <2>2
  <2> QED BY <2>1, <2>3, SeedsOfTheOthersStay DEF IInv
<1>5. CASE DoDumpStates
  <2>1. CASE DumpStatesOnHalt
    <3>1. SeedsWithout(states) /\ states' = {} /\ added = {} /\ added' = added
      BY <1>5, <2>1 DEF DoDumpStates, IInv, BookInv
    <3>2. states \cap State = {} \/ Live \ Live' # {}
      BY <3>1 DEF Live
    <3> QED BY <3>1, <3>2, SeedsOfTheOthersStay DEF IInv
  <2>2. CASE ~DumpStatesOnHalt
    BY <1>5, <2>2 DEF DoDumpStates, seedVars, SeedsInUse, SeedsAccounted
  <2> QED BY <2>1, <2>2
<1> QED BY <1>1, <1>2, <1>3, <1>4, <1>5 DEF MainLoop

(***************************************************************************)
(* A seed leaves seedMap only with a state that is deleted, at max-depth,  *)
(* or in branch() once max-forks is reached.                               *)
(***************************************************************************)
THEOREM SeedsAreKept == Orderly => (Spec => SeedsKept)
<1> SUFFICES ASSUME Orderly PROVE Spec => SeedsKept
  OBVIOUS
<1>1. IInv /\ [Next]_vars => [ \/ SeedsInUse \subseteq SeedsInUse'
                               \/ ForksExhausted
                               \/ Live \ Live' # {}
                               \/ \E s \in State : TooDeep(depth'[s]) ]_vars
  <2> SUFFICES ASSUME IInv, Next PROVE SeedsAccounted
    BY DEF SeedsAccounted, SeedsMayGo
  <2> QED BY InstructionSeeds, MainLoopSeeds DEF Next
<1> QED BY <1>1, Invariance, PTL DEF Spec, SeedsKept
=============================================================================
