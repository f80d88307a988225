------------------------------- MODULE Merging -------------------------------
(***************************************************************************)
(* Region-based merging of paths (-use-merge): MergeHandler.cpp,           *)
(* MergingSearcher (Searcher.h, Searcher.cpp), klee_open_merge and         *)
(* klee_close_merge (SpecialFunctionHandler.cpp), and the part of the main *)
(* loop that they interact with.  A MergeHandler is counted by the         *)
(* openMergeStacks that hold it and is destroyed with its last reference.  *)
(* Whether two states can be merged (ExecutionState::merge compares their  *)
(* stacks and address spaces) and whether a state is near enough to be     *)
(* waited for (getInstructionDistance) is left open.                       *)
(***************************************************************************)
EXTENDS Naturals, Sequences

CONSTANTS State,               \* addresses of ExecutionStates
          InitialState,
          Handler,             \* addresses of MergeHandlers
          Point,               \* the klee_close_merge instructions
          Input,               \* the inputs of the program under test
          PointerCalls         \* the program calls klee_close_merge through a
                               \* symbolic function pointer

ASSUME MergingAssumption == /\ InitialState \in State
                            /\ Input # {}
                            /\ PointerCalls \in BOOLEAN

VARIABLES
  pc,                 \* where run() is
  current,            \* the state run() is stepping
  handles,            \* states the current instruction may still work on
  states,             \* Executor::states
  added,              \* Executor::addedStates
  removed,            \* Executor::removedStates
  path,               \* ExecutionState::constraints: the inputs that satisfy it
  openMergeStack,     \* ExecutionState::openMergeStack, its back first
  base,               \* the states the base searcher holds
  pausedStates,       \* MergingSearcher::pausedStates
  inCloseMerge,       \* MergingSearcher::inCloseMerge
  mergeGroups,        \* MergingSearcher::mergeGroups
  openStates,         \* MergeHandler::openStates
  reachedCloseMerge,  \* MergeHandler::reachedCloseMerge
  ended,              \* inputs whose path has been terminated
  useIncompleteMerge, \* -use-incomplete-merge, fixed when KLEE starts
  memoryCap           \* -max-memory is not 0, fixed when KLEE starts

bookVars == <<states, added, removed>>
searchVars == <<base, pausedStates, inCloseMerge>>
handlerVars == <<mergeGroups, openStates, reachedCloseMerge>>
vars == <<pc, current, handles, bookVars, path, openMergeStack, searchVars,
          handlerVars, ended, useIncompleteMerge, memoryCap>>

Live == states \cup added

OnGoing == Live \ removed

Elements(seq) == {seq[i] : i \in DOMAIN seq}

\* The states that wait at a close point of h.
Waiting(h) == UNION {reachedCloseMerge[h][p] : p \in Point}

Init ==
  /\ pc = "select"
  /\ current = InitialState
  /\ handles = {}
  /\ states = {InitialState}
  /\ added = {}
  /\ removed = {}
  /\ path = [s \in State |-> IF s = InitialState THEN Input ELSE {}]
  /\ openMergeStack = [s \in State |-> <<>>]
  /\ base = {InitialState}
  /\ pausedStates = {}
  /\ inCloseMerge = {}
  /\ mergeGroups = {}
  /\ openStates = [h \in Handler |-> {}]
  /\ reachedCloseMerge = [h \in Handler |-> [p \in Point |-> {}]]
  /\ ended = {}
  /\ useIncompleteMerge \in BOOLEAN
  /\ memoryCap \in BOOLEAN
-----------------------------------------------------------------------------
(***************************************************************************)
(* releaseStates for the handlers H, when reachedCloseMerge, pausedStates, *)
(* the base searcher and inCloseMerge are as given.                        *)
(***************************************************************************)
\* Mutant: reachedCloseMerge is not cleared.
StaysReached(H, reached, paused, bs, closing) ==
  LET W == UNION {reached[h][p] : h \in H, p \in Point} IN
  /\ reachedCloseMerge' = reached
  /\ pausedStates' = paused \ W
  /\ base' = bs \cup W
  /\ inCloseMerge' = closing \ W

ReleaseStates(H, reached, paused, bs, closing) ==
  LET W == UNION {reached[h][p] : h \in H, p \in Point} IN
  /\ reachedCloseMerge' = [h \in Handler |-> IF h \in H THEN [p \in Point |-> {}]
                                                        ELSE reached[h]]
  /\ pausedStates' = paused \ W
  /\ base' = bs \cup W
  /\ inCloseMerge' = closing \ W

\* The handlers no openMergeStack refers to any more are destroyed, and
\* ~MergeHandler unregisters them and releases their states.
\* Mutant: the destructor does not release.
DestroyedSilently(reached, paused, bs, closing) ==
  LET H == {h \in mergeGroups : \A t \in State : h \notin Elements(openMergeStack'[t])} IN
  /\ mergeGroups' = mergeGroups \ H
  /\ reachedCloseMerge' = [h \in Handler |-> IF h \in H THEN [p \in Point |-> {}]
                                                        ELSE reached[h]]
  /\ pausedStates' = paused
  /\ base' = bs
  /\ inCloseMerge' = closing

DestroyHandlers(reached, paused, bs, closing) ==
  LET H == {h \in mergeGroups : \A t \in State : h \notin Elements(openMergeStack'[t])} IN
  /\ mergeGroups' = mergeGroups \ H
  /\ ReleaseStates(H, reached, paused, bs, closing)

\* ~ExecutionState for the states D: each leaves the handlers of its stack.
DeleteStates(D, bs) ==
  /\ openMergeStack' = [t \in State |-> IF t \in D THEN <<>> ELSE openMergeStack[t]]
  /\ openStates' = [h \in Handler |-> openStates[h] \ D]
  /\ path' = [t \in State |-> IF t \in D THEN {} ELSE path[t]]
  /\ DestroyHandlers(reachedCloseMerge, pausedStates, bs, inCloseMerge)

\* The assert of removeOpenState, for the states D that are deleted.
Registered(D) == \A t \in D : \A h \in Elements(openMergeStack[t]) : t \in openStates[h]
-----------------------------------------------------------------------------
(***************************************************************************)
(* The instruction: fork, terminateState, and the two special functions.   *)
(***************************************************************************)
\* The copy constructor of ExecutionState registers the copy with every
\* handler of its stack.  Mutant: only with the innermost.
RegisterInnermost(s, ns) ==
  [h \in Handler |-> IF openMergeStack[s] # <<>> /\ h = Head(openMergeStack[s])
                       THEN openStates[h] \cup {ns} ELSE openStates[h]]
RegisterCopy(s, ns) ==
  [h \in Handler |-> IF h \in Elements(openMergeStack[s])
                       THEN openStates[h] \cup {ns} ELSE openStates[h]]

Fork(s, ns, c) ==
  /\ pc = "execute"
  /\ s \in handles
  /\ ns \in State \ Live
  /\ path[s] \cap c # {} /\ path[s] \ c # {}
  /\ path' = [path EXCEPT ![s] = @ \cap c, ![ns] = path[s] \ c]
  /\ openMergeStack' = [openMergeStack EXCEPT ![ns] = openMergeStack[s]]
  /\ openStates' = RegisterCopy(s, ns)
  /\ added' = added \cup {ns}
  /\ handles' = handles \cup {ns}
  /\ UNCHANGED <<pc, current, states, removed, searchVars, mergeGroups,
                 reachedCloseMerge, ended>>

\* A state the searcher does not know yet is deleted at once.
TerminateState(s) ==
  /\ pc = "execute"
  /\ s \in handles
  /\ IF s \in added
       THEN /\ added' = added \ {s}
            /\ DeleteStates({s}, base)
            /\ pc' = IF Registered({s}) THEN "execute" ELSE "aborted"
            /\ UNCHANGED removed
       ELSE /\ removed' = removed \cup {s}
            /\ UNCHANGED <<pc, added, path, openMergeStack, searchVars, handlerVars>>
  /\ handles' = handles \ {s}
  /\ ended' = ended \cup path[s]
  /\ UNCHANGED <<current, states>>

\* A call is all that its instruction does, unless it is made through a
\* symbolic function pointer: then the callees are forked one by one.
MayCall(s) == \/ PointerCalls
              \/ s = current /\ added = {} /\ removed = {}

\* handleOpenMerge and the constructor of MergeHandler.
OpenMerge(s, h) ==
  /\ pc = "execute"
  /\ s \in handles
  /\ MayCall(s)
  /\ h \notin mergeGroups
  /\ mergeGroups' = mergeGroups \cup {h}
  /\ openStates' = [openStates EXCEPT ![h] = {s}]
  /\ openMergeStack' = [openMergeStack EXCEPT ![s] = <<h>> \o @]
  /\ handles' = handles \ {s}
  /\ UNCHANGED <<pc, current, bookVars, path, searchVars, reachedCloseMerge, ended>>

(***************************************************************************)
(* handleCloseMerge and addClosedState: es is merged into a state m that   *)
(* waits at the same instruction, and is terminated; or it waits itself.   *)
(* Then its reference to the handler is dropped.  The asserts are those of *)
(* handleCloseMerge, removeOpenState, pauseState and the base searcher.    *)
(* An m that checkMemoryUsage has killed, or an es that terminateState     *)
(* deletes at once, is used after it is deleted.                           *)
(***************************************************************************)
\* Mutant: the constraints of m are left as they are.
NothingMerged(m, es) == path
Merged(m, es) == [path EXCEPT ![m] = @ \cup path[es]]

\* openMergeStack.pop_back().
PopBack(es) == Tail(openMergeStack[es])

CloseMerge(es, p) ==
  LET h == Head(openMergeStack[es]) IN
  /\ pc = "execute"
  /\ es \in handles
  /\ MayCall(es)
  /\ openMergeStack[es] # <<>>
  /\ openMergeStack' = [openMergeStack EXCEPT ![es] = PopBack(es)]
  /\ openStates' = [openStates EXCEPT ![h] = @ \ {es}]
  /\ \/ \E m \in reachedCloseMerge[h][p] :
          /\ path' = Merged(m, es)
          /\ removed' = removed \cup {es}
          /\ DestroyHandlers(reachedCloseMerge, pausedStates, base, inCloseMerge)
          /\ pc' = IF es \notin openStates[h] \/ es \in inCloseMerge THEN "aborted"
                   ELSE IF m \notin Live \/ es \in added THEN "dangling"
                   ELSE "execute"
     \/ /\ DestroyHandlers([reachedCloseMerge EXCEPT ![h][p] = @ \cup {es}],
                           pausedStates \cup {es}, base \ {es},
                           inCloseMerge \cup {es})
        /\ pc' = IF es \in (openStates[h] \cap base) \ (inCloseMerge \cup pausedStates)
                   THEN "execute" ELSE "aborted"
        /\ UNCHANGED <<path, removed>>
  /\ handles' = handles \ {es}
  /\ UNCHANGED <<current, states, added, ended>>
-----------------------------------------------------------------------------
(***************************************************************************)
(* The main loop.                                                          *)
(***************************************************************************)
\* run() steps the state that was selected, which may have been deleted.
Selected(s) == IF s \in states THEN "execute" ELSE "dangling"

\* MergingSearcher::selectState.
SelectState(s) ==
  /\ pc = "select"
  /\ ~useIncompleteMerge
  /\ s \in base
  /\ pc' = Selected(s)
  /\ current' = s
  /\ handles' = {s}
  /\ UNCHANGED <<bookVars, path, openMergeStack, searchVars, handlerVars, ended>>

\* getPrioritizeState: a state of h that is not waiting, near enough or not.
PrioritizeStates(h) == openStates[h] \ inCloseMerge'

\* selectState with -use-incomplete-merge: the handlers of R, which have
\* waiting states but nobody to wait for, release theirs; then a state of
\* the next handler is preferred, or the base searcher selects.
SelectIncomplete(s, R) ==
  LET merging == {h \in mergeGroups : Waiting(h) # {}} IN
  /\ pc = "select"
  /\ useIncompleteMerge
  /\ base # {}
  /\ R \subseteq merging
  /\ ReleaseStates(R, reachedCloseMerge, pausedStates, base, inCloseMerge)
  /\ \/ \E h \in merging \ R : s \in PrioritizeStates(h)
     \/ R = merging /\ s \in base'
  /\ pc' = Selected(s)
  /\ current' = s
  /\ handles' = {s}
  /\ UNCHANGED <<bookVars, path, openMergeStack, mergeGroups, openStates, ended>>

InstructionDone ==
  /\ pc = "execute"
  /\ pc' = IF memoryCap THEN "memory" ELSE "update"
  /\ handles' = {}
  /\ UNCHANGED <<current, bookVars, path, openMergeStack, searchVars,
                 handlerVars, ended>>

\* checkMemoryUsage kills the states K, waiting or not.  (That it may hit a
\* state that is already on removedStates is the subject of Executor.)
CheckMemoryUsage(K) ==
  /\ pc = "memory"
  /\ K \subseteq states \ removed
  /\ removed' = removed \cup K
  /\ ended' = ended \cup UNION {path[s] : s \in K}
  /\ pc' = "update"
  /\ UNCHANGED <<current, handles, states, added, path, openMergeStack,
                 searchVars, handlerVars>>

\* MergingSearcher::update does not tell the base searcher anything when the
\* current state has just been paused.  Mutant: the test is the wrong way.
UpdatedOnlyWhenPaused ==
  IF current \in pausedStates THEN (base \cup added) \ removed ELSE base
UpdatedBase ==
  IF current \in pausedStates THEN base ELSE (base \cup added) \ removed

\* updateStates: the searcher first, then the states are deleted.
UpdateStates ==
  /\ pc = "update"
  /\ pc' = IF /\ current \notin pausedStates => removed \subseteq base \cup added
              /\ Registered(removed)
             THEN "select" ELSE "aborted"
  /\ states' = OnGoing
  /\ added' = {}
  /\ removed' = {}
  /\ DeleteStates(removed, UpdatedBase)
  /\ UNCHANGED <<current, handles, ended>>

\* The loop ends, halted or out of states: the searcher is deleted, and
\* then doDumpStates deletes the states.  A handler that is destroyed now
\* looks itself up in the mergeGroups of the deleted searcher.
DoDumpStates ==
  /\ pc = "select"
  /\ pc' \in IF mergeGroups = {} THEN {"done"} ELSE {"done", "dangling"}
  /\ states' = {}
  /\ ended' = ended \cup UNION {path[s] : s \in states}
  /\ path' = [s \in State |-> {}]
  /\ openMergeStack' = [s \in State |-> <<>>]
  /\ base' = {}
  /\ pausedStates' = {}
  /\ inCloseMerge' = {}
  /\ mergeGroups' = {}
  /\ openStates' = [h \in Handler |-> {}]
  /\ reachedCloseMerge' = [h \in Handler |-> [p \in Point |-> {}]]
  /\ UNCHANGED <<current, handles, added, removed>>
-----------------------------------------------------------------------------
Instruction ==
  \E s \in handles :
    \/ \E ns \in State, c \in SUBSET Input : Fork(s, ns, c)
    \/ TerminateState(s)
    \/ \E h \in Handler : OpenMerge(s, h)
    \/ \E p \in Point : CloseMerge(s, p)

MainLoop ==
  \/ \E s \in State : SelectState(s) \/ \E R \in SUBSET Handler : SelectIncomplete(s, R)
  \/ InstructionDone
  \/ \E K \in SUBSET states : CheckMemoryUsage(K)
  \/ UpdateStates \/ DoDumpStates

Next == (Instruction \/ MainLoop) /\ UNCHANGED <<useIncompleteMerge, memoryCap>>

Spec == Init /\ [][Next]_vars
-----------------------------------------------------------------------------
TypeOK ==
  /\ pc \in {"select", "execute", "memory", "update", "done", "dangling", "aborted"}
  /\ current \in State
  /\ handles \subseteq State
  /\ states \subseteq State
  /\ added \subseteq State
  /\ removed \subseteq State
  /\ path \in [State -> SUBSET Input]
  /\ openMergeStack \in [State -> Seq(Handler)]
  /\ base \subseteq State
  /\ pausedStates \subseteq State
  /\ inCloseMerge \subseteq State
  /\ mergeGroups \subseteq Handler
  /\ openStates \in [Handler -> SUBSET State]
  /\ reachedCloseMerge \in [Handler -> [Point -> SUBSET State]]
  /\ ended \subseteq Input
  /\ useIncompleteMerge \in BOOLEAN
  /\ memoryCap \in BOOLEAN

(***************************************************************************)
(* None of the asserts of handleCloseMerge, removeOpenState, pauseState    *)
(* and the base searcher ("invalid state removed") ever fails, as long as  *)
(* no memory cap kills a state in the instruction that pauses another.     *)
(***************************************************************************)
AssertsHold == ~memoryCap => pc # "aborted"

(***************************************************************************)
(* pauseState, continueState and the update that MergingSearcher swallows  *)
(* lose no state: whenever run() is about to select, each state of the     *)
(* executor is either with the base searcher or paused, never both.  (With *)
(* a memory cap this is not so: the update that is swallowed may hold the  *)
(* states that checkMemoryUsage killed.)                                   *)
(***************************************************************************)
NobodyForgotten ==
  pc = "select" /\ ~memoryCap => /\ base \cup pausedStates = states
                                 /\ base \cap pausedStates = {}

(***************************************************************************)
(* assert(!baseSearcher->empty()) in selectState: the states never all     *)
(* wait for each other, however the regions are nested.                    *)
(***************************************************************************)
SomebodyRuns == pc = "select" /\ states # {} /\ ~memoryCap => base # {}

(***************************************************************************)
(* A state is paused, and in inCloseMerge, exactly while it waits at one   *)
(* close point of one handler that is still registered: its release is     *)
(* never forgotten, never done twice (the assert of continueState), and    *)
(* never left to a handler that is gone.                                   *)
(***************************************************************************)
WaitersHeld ==
  pc \notin {"aborted", "dangling"} =>
    /\ pausedStates = UNION {Waiting(h) : h \in mergeGroups}
    /\ inCloseMerge = pausedStates
    /\ \A h, g \in Handler, p, q \in Point :
         <<h, p>> # <<g, q>> => reachedCloseMerge[h][p] \cap reachedCloseMerge[g][q] = {}

(***************************************************************************)
(* The openStates of a handler are the states with a reference to it, so   *)
(* getPrioritizeState returns no deleted state, and a handler is           *)
(* registered exactly as long as there is one ("All MergeHandlers should   *)
(* be registered in mergeGroups").                                         *)
(***************************************************************************)
OpenStatesExact ==
  pc # "aborted" =>
    \A h \in Handler :
      /\ openStates[h] = {t \in Live : h \in Elements(openMergeStack[t])}
      /\ h \in mergeGroups <=> openStates[h] # {}

(***************************************************************************)
(* ExecutionState::merge does not compare the openMergeStacks: it need     *)
(* not.  States that share a handler agree on the regions around it, and   *)
(* so does a state that waits for them, so the merged state is in exactly  *)
(* the regions that both of its parts were in.                             *)
(***************************************************************************)
Around(h, t) == LET stk == openMergeStack[t]
                IN {SubSeq(stk, i + 1, Len(stk)) : i \in {j \in DOMAIN stk : stk[j] = h}}

RegionsAgree ==
  pc # "aborted" /\ ~memoryCap =>
    \A h \in mergeGroups : \A t \in openStates[h] :
      /\ \A u \in openStates[h] : Around(h, u) = Around(h, t)
      /\ \A w \in Waiting(h) : Around(h, t) = {openMergeStack[w]}

(***************************************************************************)
(* Merging loses no input and follows none twice: the state that absorbs   *)
(* another goes on for the inputs of both, and the one that is terminated  *)
(* has not ended any path.                                                 *)
(***************************************************************************)
PathsPartition ==
  pc # "aborted" /\ ~memoryCap =>
    /\ \A s, t \in OnGoing : s # t => path[s] \cap path[t] = {}
    /\ \A s \in OnGoing : path[s] # {} /\ path[s] \cap ended = {}
    /\ Input = ended \cup UNION {path[s] : s \in OnGoing}

(***************************************************************************)
(* Handlers and searcher agree about who waits and whom they wait for, in  *)
(* every order of opening, closing, merging, forking, terminating and      *)
(* killing.                                                                *)
(***************************************************************************)
HandlersExact == TypeOK /\ WaitersHeld /\ OpenStatesExact

(***************************************************************************)
(* No state is lost between the executor and the two searchers, and none   *)
(* is removed from, or handed to, a searcher that asserts the contrary.    *)
(***************************************************************************)
NobodyLost == AssertsHold /\ NobodyForgotten

(***************************************************************************)
(* Merging keeps the inputs, and the regions, of both states.              *)
(***************************************************************************)
InputsKept == PathsPartition /\ RegionsAgree

\* Without a memory cap, merging changes and selects the pool of states as
\* the process tree allows: no state is stepped that has been deleted.
Pool == INSTANCE StatePool WITH live <- Live, selected <- current
PoolSpec == Pool!Init /\ [][memoryCap \/ Pool!Next]_<<Live, current>>
=============================================================================
