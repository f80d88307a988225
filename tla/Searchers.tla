------------------------------ MODULE Searchers ------------------------------
(***************************************************************************)
(* The searchers of Searcher.cpp as UserSearcher.cpp puts them together:   *)
(* one or several core searchers, asked in turn (InterleavedSearcher),     *)
(* perhaps under a BatchingSearcher, perhaps under an                      *)
(* IterativeDeepeningTimeSearcher.  (MergingSearcher is in Merging.)  The  *)
(* run loop asks for a state, executes it, and reports the states that     *)
(* were added and removed.  Time is left open: a batch may expire and an   *)
(* instruction may be slow whenever the code looks.  The choice that       *)
(* random numbers or weights make is left open too.                        *)
(***************************************************************************)
EXTENDS Naturals, Sequences, FiniteSets, Functions

CONSTANTS State, InitialState,
          Nobody,       \* the null pointer
          Searches,     \* the combinations of options that are tried
          MaxLevel      \* bound on the number of forks on a path

ASSUME SearchersAssumption ==
  /\ InitialState \in State /\ Nobody \notin State
  /\ MaxLevel \in Nat

Cores == {"dfs", "bfs", "random-state", "random-path", "nurs", "nurs-static", "param"}

\* Has a container of its own; random-path walks the process tree instead.
Keeps(core) == core # "random-path"

\* lowScores: the weight file can give every state a score that is not above
\* the one FeatureHandler::getTop starts from.
ASSUME SearchesAssumption ==
  \A s \in Searches :
    /\ s.cores \in Seq(Cores) \ {<<>>}
    /\ s.batching \in BOOLEAN /\ s.deepening \in BOOLEAN /\ s.lowScores \in BOOLEAN

VARIABLES
  search,        \* the options -search, -use-batching-search,
                 \* -use-iterative-deepening-time-search and -weight
  held,          \* held[i]: the container of the core searcher i
  index,         \* InterleavedSearcher::index
  lastState,     \* BatchingSearcher::lastState
  pausedStates,  \* IterativeDeepeningTimeSearcher::pausedStates
  states,        \* Executor::states
  current,       \* the state run() is stepping
  level,         \* how many updates that followed a fork a path has had
  pc

vars == <<search, held, index, lastState, pausedStates, states, current, level, pc>>
-----------------------------------------------------------------------------
(***************************************************************************)
(* The core searchers.  A container is a sequence; of a DiscretePDF the    *)
(* order means nothing.                                                    *)
(***************************************************************************)
\* Mutant: only the last element can be removed.
PopLast(list, removed) ==
  IF list # <<>> /\ list[Len(list)] \in removed THEN SubSeq(list, 1, Len(list) - 1) ELSE list
Without(list, removed) ==
  LET kept == {i \in DOMAIN list : list[i] \notin removed}
      Place(i) == Cardinality({j \in kept : j <= i})
  IN [k \in 1 .. Cardinality(kept) |-> list[CHOOSE i \in kept : Place(i) = k]]

\* BFSSearcher::update: a state that forked goes to the end of the queue.
\* Mutant: it stays where it is.
StaysInFront(list, cur, added, removed) == list
Requeue(list, cur, added, removed) ==
  IF added # <<>> /\ cur # Nobody /\ cur \notin removed
    THEN Append(Without(list, {cur}), cur)
    ELSE list

CoreUpdate(core, list, cur, added, removed) ==
  CASE core = "random-path" -> <<>>
    [] core = "bfs" -> Without(Requeue(list, cur, added, removed) \o added, removed)
    [] OTHER -> Without(list \o added, removed)

\* "invalid state removed", assert(pos != states.end()) of BFSSearcher, and
\* the asserts of DiscretePDF: update, insert and remove.
CoreAsserts(core, list, cur, added, removed) ==
  Keeps(core) =>
    /\ removed \subseteq Range(list \o added)
    /\ core = "bfs" /\ added # <<>> /\ cur # Nobody /\ cur \notin removed
         => cur \in Range(list)
    /\ core = "nurs" /\ cur # Nobody /\ cur \notin removed => cur \in Range(list)
    /\ core \in {"nurs", "nurs-static"} => Range(added) \cap Range(list) = {}

\* The states selectState may return.  getTop returns null when no state has a
\* score above its lowest one.
CoreSelect(core, list) ==
  CASE core = "dfs" -> IF list = <<>> THEN {} ELSE {list[Len(list)]}
    [] core = "bfs" -> IF list = <<>> THEN {} ELSE {list[1]}
    [] core = "random-path" -> states
    [] core = "param" /\ search.lowScores -> Range(list) \cup {Nobody}
    [] OTHER -> Range(list)
-----------------------------------------------------------------------------
(***************************************************************************)
(* The searchers around them.  A base is the containers with lastState;    *)
(* ok records that no assert has failed.                                   *)
(***************************************************************************)
\* BatchingSearcher::update.
ForgetLast(last, removed) == IF last \in removed THEN Nobody ELSE last

\* InterleavedSearcher::update, below BatchingSearcher::update.
BaseUpdate(base, cur, added, removed) ==
  [held |-> [i \in DOMAIN base.held |->
               CoreUpdate(search.cores[i], base.held[i], cur, added, removed)],
   last |-> ForgetLast(base.last, removed),
   ok |-> /\ base.ok
          /\ \A i \in DOMAIN base.held :
               CoreAsserts(search.cores[i], base.held[i], cur, added, removed)]

\* InterleavedSearcher::empty asks the first searcher only.
BaseEmpty(base) ==
  IF Keeps(search.cores[1]) THEN base.held[1] = <<>> ELSE states = {}

\* The states of removedStates that are passed on.
StillHeld(removed) == removed \ pausedStates

\* A set of pointers is walked in the order of the addresses.
InSomeOrder(S) == CHOOSE list \in Injection(1 .. Cardinality(S), S) : TRUE

\* The paused states are resumed when the base is empty.  Mutant: they stay
\* on the list of paused states as well.
ResumedAndPaused(base, paused) ==
  [base |-> IF BaseEmpty(base) THEN BaseUpdate(base, Nobody, InSomeOrder(paused), {})
                               ELSE base,
   paused |-> paused]
Resume(base, paused) ==
  IF BaseEmpty(base)
    THEN [base |-> BaseUpdate(base, Nobody, InSomeOrder(paused), {}), paused |-> {}]
    ELSE [base |-> base, paused |-> paused]

\* IterativeDeepeningTimeSearcher::update; slow: the instruction took longer
\* than the budget.
DeepeningUpdate(base, cur, added, removed, slow) ==
  LET base1 == BaseUpdate(base, cur, added, StillHeld(removed))
      paused1 == pausedStates \ removed
  IN IF slow /\ cur \notin removed
       THEN Resume(BaseUpdate(base1, Nobody, <<>>, {cur}), paused1 \cup {cur})
       ELSE Resume(base1, paused1)

\* InterleavedSearcher::selectState.  Mutant: the turn never moves on.
SameTurn == index
NextTurn == IF index = 1 THEN Len(search.cores) ELSE index - 1
-----------------------------------------------------------------------------
\* constructUserSearcher, and the update with the initial state in run().
Init ==
  /\ search \in Searches
  /\ held = [i \in DOMAIN search.cores |->
               IF Keeps(search.cores[i]) THEN <<InitialState>> ELSE <<>>]
  /\ index = 1
  /\ lastState = Nobody
  /\ pausedStates = {}
  /\ states = {InitialState}
  /\ current = InitialState
  /\ level = [s \in State |-> 0]
  /\ pc = "select"

\* BatchingSearcher::selectState goes on with the last state until its batch
\* expires.  An empty core searcher has nothing to return.  "aborted" is also
\* the end of a run that is given a state that does not exist.
SelectState(s) ==
  LET core == search.cores[index]
      found == CoreSelect(core, held[index])
  IN
  /\ pc = "select"
  /\ \/ /\ search.batching /\ lastState # Nobody
        /\ s = lastState
        /\ UNCHANGED <<index, lastState>>
     \/ /\ s \in IF found = {} THEN {Nobody} ELSE found
        /\ index' = NextTurn
        /\ lastState' = IF search.batching THEN s ELSE lastState
  /\ current' = s
  /\ pc' = IF s \in states THEN "update" ELSE "aborted"
  /\ UNCHANGED <<search, held, pausedStates, states, level>>

\* The instruction, and updateStates: the searcher hears of the changes
\* before Executor::states has them.
UpdateStates(added, removed, slow) ==
  LET base == [held |-> held, last |-> lastState, ok |-> TRUE]
      moved == Range(added) \cup {current}
  IN
  /\ pc = "update"
  /\ Range(added) \cap states = {}
  /\ added # <<>> => level[current] < MaxLevel
  /\ states' = (states \cup Range(added)) \ removed
  /\ level' = [s \in State |-> IF s \in removed THEN 0
                               ELSE IF s \in moved /\ added # <<>> THEN level[current] + 1
                               ELSE level[s]]
  /\ \E new \in {IF search.deepening
                   THEN DeepeningUpdate(base, current, added, removed, slow)
                   ELSE [base |-> BaseUpdate(base, current, added, removed),
                         paused |-> pausedStates]} :
       /\ held' = new.base.held
       /\ lastState' = new.base.last
       /\ pausedStates' = new.paused
       /\ pc' = IF ~new.base.ok THEN "aborted"
                ELSE IF states' = {} THEN "done" ELSE "select"
  /\ UNCHANGED <<search, index, current>>

\* What one instruction adds: nothing, or one or two new states.
Additions == {<<>>} \cup {<<s>> : s \in State}
               \cup {q \in State \X State : q[1] # q[2]}

Next ==
  \/ \E s \in State \cup {Nobody} : SelectState(s)
  \/ \E added \in Additions, removed \in SUBSET states, slow \in BOOLEAN :
       UpdateStates(added, removed, slow)

Spec == Init /\ [][Next]_vars

\* run() is a loop: it goes on as long as it can.
FairSpec == Spec /\ WF_vars(Next)
-----------------------------------------------------------------------------
TypeOK ==
  /\ search \in Searches
  /\ index \in 1 .. Len(search.cores)
  /\ DOMAIN held = DOMAIN search.cores
  /\ \A i \in DOMAIN held : held[i] \in Seq(State)
  /\ lastState \in State \cup {Nobody}
  /\ pausedStates \subseteq State
  /\ states \subseteq State
  /\ current \in State \cup {Nobody}
  /\ level \in [State -> 0 .. MaxLevel]
  /\ pc \in {"select", "update", "done", "aborted"}

(***************************************************************************)
(* constructUserSearcher accepts two things that the searchers cannot      *)
(* serve: iterative deepening over random-path, which goes on returning    *)
(* paused states and is not empty when all the others are, and weights so  *)
(* low that ParameterizedSearcher dereferences the null of getTop.  The    *)
(* properties below are about every other combination.                     *)
(***************************************************************************)
Supported ==
  /\ search.deepening => \A i \in DOMAIN search.cores : Keeps(search.cores[i])
  /\ search.lowScores => \A i \in DOMAIN search.cores : search.cores[i] # "param"

(***************************************************************************)
(* No assert of a searcher fails ("invalid state removed", "update:        *)
(* argument(item) not in tree", ...), and no searcher is asked for a state *)
(* it does not have.                                                       *)
(***************************************************************************)
AssertsHold == pc # "aborted"

(***************************************************************************)
(* Each container holds every state that is not paused, once: searchers    *)
(* that take turns never drift apart, and pausing loses nobody.            *)
(***************************************************************************)
ContainersExact ==
  pc \in {"select", "update"} =>
    \A i \in DOMAIN held :
      Keeps(search.cores[i]) =>
        /\ Range(held[i]) = states \ pausedStates
        /\ Len(held[i]) = Cardinality(states \ pausedStates)

(***************************************************************************)
(* However many states are paused, one is left to run: run() never asks    *)
(* while everybody waits for the time budget to be raised.                 *)
(***************************************************************************)
SomebodyRuns == pc = "select" => states \ pausedStates # {}

(***************************************************************************)
(* The state a batch goes on with exists and is not paused, although it    *)
(* may be removed, or paused from above, between two selections.           *)
(***************************************************************************)
BatchAlive == pc = "select" /\ lastState # Nobody => lastState \in states \ pausedStates

(***************************************************************************)
(* Under every supported combination the searchers agree with the executor *)
(* after every update, whatever is added, removed, paused and resumed.     *)
(* (Without the exception it fails: over random-path a paused state is     *)
(* paused again, kept by a batch after its removal, or left with nobody.)  *)
(***************************************************************************)
SearchersSound ==
  Supported => TypeOK /\ AssertsHold /\ ContainersExact /\ SomebodyRuns /\ BatchAlive

(***************************************************************************)
(* "use Breadth First Search (BFS), where scheduling decisions are taken   *)
(* at the level of (2-way) forks": the queue is in the order of the forks  *)
(* behind its states, and spans at most two levels of them.                *)
(***************************************************************************)
BreadthFirst ==
  search.cores = <<"bfs">> /\ ~search.batching /\ ~search.deepening /\ pc # "done" =>
    \A i, j \in DOMAIN held[1] :
      i < j => level[held[1][i]] \in {level[held[1][j]], level[held[1][j]] - 1}

(***************************************************************************)
(* Selecting and updating follow the pool of states that exist, under      *)
(* every supported combination.                                            *)
(***************************************************************************)
Pool == INSTANCE StatePool WITH live <- states, selected <- current
PoolSpec == Pool!Init /\ [][~Supported \/ Pool!Next]_<<states, current>>

(***************************************************************************)
(* Interleaved searchers take turns: while the loop runs, each of them is  *)
(* asked again and again, under every supported combination.               *)
(***************************************************************************)
EverySearcherAsked ==
  \A i \in 1 .. 3 :
    []<>(\/ ~Supported \/ pc = "done" \/ search.batching
         \/ i > Len(search.cores) \/ index = i)
=============================================================================
