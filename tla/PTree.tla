-------------------------------- MODULE PTree --------------------------------
(***************************************************************************)
(* The process tree (lib/Core/PTree.cpp) and the random walk over it       *)
(* (RandomPathSearcher, lib/Core/Searcher.cpp).  A node is an address; the *)
(* allocator may hand out the address of a freed node again.  The tree is  *)
(* reached by its callers through ExecutionState::ptreeNode only.          *)
(* The loop of PTree::remove and the loop of selectState are stepped one   *)
(* iteration at a time; no other operation runs before a loop has ended.   *)
(* The fields of a node or a state that has been freed are Null.           *)
(***************************************************************************)
EXTENDS Naturals

CONSTANTS Node,          \* addresses of PTreeNodes
          State,         \* addresses of ExecutionStates
          Root,          \* PTree::root
          InitialState,  \* the state PTree is constructed with
          Null

ASSUME PTreeAssumption == /\ Root \in Node
                          /\ InitialState \in State
                          /\ Null \notin Node
                          /\ Null \notin State

VARIABLES alloc,      \* the nodes that are allocated
          parent,     \* PTreeNode::parent
          left,       \* PTreeNode::left
          right,      \* PTreeNode::right
          state,      \* PTreeNode::state
          ptreeNode,  \* ExecutionState::ptreeNode
          live,       \* the execution states that exist
          op,         \* the loop that is running, or "idle"
          n,          \* its cursor: the local variable n
          selected    \* the result of the last selectState

vars == <<alloc, parent, left, right, state, ptreeNode, live, op, n, selected>>

Childless(m) == left[m] = Null /\ right[m] = Null

Init == /\ alloc = {Root}
        /\ parent = [m \in Node |-> Null]
        /\ left = [m \in Node |-> Null]
        /\ right = [m \in Node |-> Null]
        /\ state = [m \in Node |-> IF m = Root THEN InitialState ELSE Null]
        /\ ptreeNode = [s \in State |-> IF s = InitialState THEN Root ELSE Null]
        /\ live = {InitialState}
        /\ op = "idle"
        /\ n = Null
        /\ selected = InitialState

\* What the nodes carry after attach: the old leaf nothing, the new ones a
\* state each.  Mutant: the new ones are mixed up.
LeavesSwapped(es, ns, l, r) ==
  [state EXCEPT ![ptreeNode[es]] = Null, ![l] = es, ![r] = ns]
NewLeaves(es, ns, l, r) ==
  [state EXCEPT ![ptreeNode[es]] = Null, ![l] = ns, ![r] = es]

\* The constructor of PTreeNode sets the back pointer of its state.
NewOwners(es, ns, l, r) == [ptreeNode EXCEPT ![ns] = l, ![es] = r]

(***************************************************************************)
(* PTree::attach(es->ptreeNode, ns, es): ns has just been branched off es; *)
(* l and r are the nodes the two make_unique calls allocate.               *)
(***************************************************************************)
Attach(es, ns, l, r) ==
  /\ op = "idle"
  /\ es \in live
  /\ ns \in State \ live
  /\ l \in Node \ alloc
  /\ r \in Node \ alloc
  /\ l # r
  /\ LET node == ptreeNode[es] IN
       /\ alloc' = alloc \cup {l, r}
       /\ parent' = [parent EXCEPT ![l] = node, ![r] = node]
       /\ left' = [left EXCEPT ![node] = l, ![l] = Null, ![r] = Null]
       /\ right' = [right EXCEPT ![node] = r, ![l] = Null, ![r] = Null]
  /\ state' = NewLeaves(es, ns, l, r)
  /\ ptreeNode' = NewOwners(es, ns, l, r)
  /\ live' = live \cup {ns}
  /\ UNCHANGED <<op, n, selected>>

(***************************************************************************)
(* PTree::remove(es->ptreeNode), called just before es is deleted.         *)
(***************************************************************************)
RemoveCall(es) ==
  /\ op = "idle"
  /\ es \in live
  /\ live' = live \ {es}
  /\ op' = "remove"
  /\ n' = ptreeNode[es]
  /\ ptreeNode' = [ptreeNode EXCEPT ![es] = Null]
  /\ UNCHANGED <<alloc, parent, left, right, state, selected>>

\* The do-while of remove continues with node m.  Mutants: it stops after
\* one node; it frees a node that still has a child.
StopsAtOnce(m) == FALSE
FreesParents(m) == m # Null /\ (left'[m] = Null \/ right'[m] = Null)
RemoveGoesOn(m) == m # Null /\ left'[m] = Null /\ right'[m] = Null

\* One iteration at the root: there is no parent, nothing is freed.
RemoveAtRoot ==
  /\ op = "remove"
  /\ parent[n] = Null
  /\ op' = "idle"
  /\ n' = Null
  /\ UNCHANGED <<alloc, parent, left, right, state, ptreeNode, live, selected>>

\* One iteration below the root: the parent's unique_ptr is reset, which
\* frees n, and the loop goes on while the parent has no child left.
RemoveBelow ==
  /\ op = "remove"
  /\ parent[n] # Null
  /\ LET p == parent[n] IN
       /\ IF left[p] = n
            THEN left' = [left EXCEPT ![p] = Null] /\ right' = right
            ELSE right' = [right EXCEPT ![p] = Null] /\ left' = left
       /\ alloc' = alloc \ {n}
       /\ parent' = [parent EXCEPT ![n] = Null]
       /\ state' = [state EXCEPT ![n] = Null]
       /\ n' = IF RemoveGoesOn(p) THEN p ELSE Null
       /\ op' = IF RemoveGoesOn(p) THEN "remove" ELSE "idle"
  /\ UNCHANGED <<ptreeNode, live, selected>>

(***************************************************************************)
(* RandomPathSearcher::selectState, called by Executor::run while there    *)
(* are states.                                                             *)
(***************************************************************************)
WalkCall ==
  /\ op = "idle"
  /\ live # {}
  /\ op' = "walk"
  /\ n' = Root
  /\ UNCHANGED <<alloc, parent, left, right, state, ptreeNode, live, selected>>

\* The child the walk goes to: the only one, or either when there are two.
\* Mutant: an only child is not entered.
StaysAtOnlyChild(m) == IF left[m] = Null \/ right[m] = Null THEN {m}
                       ELSE {left[m], right[m]}
WalkTargets(m) == IF left[m] = Null THEN {right[m]}
                  ELSE IF right[m] = Null THEN {left[m]}
                  ELSE {left[m], right[m]}

WalkStep ==
  /\ op = "walk"
  /\ state[n] = Null
  /\ n' \in WalkTargets(n)
  /\ UNCHANGED <<alloc, parent, left, right, state, ptreeNode, live, op, selected>>

WalkReturn ==
  /\ op = "walk"
  /\ state[n] # Null
  /\ selected' = state[n]
  /\ op' = "idle"
  /\ n' = Null
  /\ UNCHANGED <<alloc, parent, left, right, state, ptreeNode, live>>

Loop == RemoveAtRoot \/ RemoveBelow \/ WalkStep \/ WalkReturn

Next == \/ \E es, ns \in State, l, r \in Node : Attach(es, ns, l, r)
        \/ \E es \in State : RemoveCall(es)
        \/ WalkCall
        \/ Loop

\* A loop that has been entered keeps running: nothing else is scheduled.
Spec == Init /\ [][Next]_vars /\ WF_vars(Loop)
-----------------------------------------------------------------------------
TypeOK == /\ alloc \subseteq Node
          /\ parent \in [Node -> Node \cup {Null}]
          /\ left \in [Node -> Node \cup {Null}]
          /\ right \in [Node -> Node \cup {Null}]
          /\ state \in [Node -> State \cup {Null}]
          /\ ptreeNode \in [State -> Node \cup {Null}]
          /\ live \subseteq State
          /\ op \in {"idle", "remove", "walk"}
          /\ n \in Node \cup {Null}
          /\ selected \in State

(***************************************************************************)
(* The asserts that open attach and remove: the ptreeNode of every state   *)
(* that exists is an allocated leaf, and it is the leaf that carries that  *)
(* state.                                                                  *)
(***************************************************************************)
StatesOwnLeaves ==
  \A s \in live : /\ ptreeNode[s] \in alloc
                  /\ Childless(ptreeNode[s])
                  /\ state[ptreeNode[s]] = s

(***************************************************************************)
(* What the walk of selectState needs: as long as a state exists and no    *)
(* remove is under way, a node without children carries a state that       *)
(* exists, and a node that carries a state has no children.  No pointer to *)
(* a deleted state and no dead branch is left in the tree.                 *)
(***************************************************************************)
LeavesCarryStates ==
  live # {} /\ op # "remove" =>
    \A m \in alloc : IF Childless(m)
                       THEN state[m] \in live /\ ptreeNode[state[m]] = m
                       ELSE state[m] = Null

(***************************************************************************)
(* The walk of selectState only ever stands on an allocated node: it never *)
(* dereferences a null child or a node that remove has freed.              *)
(***************************************************************************)
WalkSafe == op = "walk" => n \in alloc

(***************************************************************************)
(* The tree is sound at every iteration of attach, remove and selectState: *)
(* the types, the asserts, the leaves and the cursor of the walk.          *)
(***************************************************************************)
TreeSound == TypeOK /\ StatesOwnLeaves /\ LeavesCarryStates /\ WalkSafe

\* The nodes that child pointers lead to from the root: those of every set
\* that holds the root and, with a node, its children.
Closed(M) == \A m \in M : {left[m], right[m]} \ {Null} \subseteq M
Reached == {m \in Node : \A M \in SUBSET Node : Root \in M /\ Closed(M) => m \in M}

(***************************************************************************)
(* RandomPathSearcher can select every state: at every iteration the child *)
(* pointers lead from the root to the node of each state that exists, to   *)
(* every node that is allocated, and to none that remove has freed.        *)
(***************************************************************************)
EveryStateReachable ==
  /\ Reached = alloc
  /\ \A s \in live : ptreeNode[s] \in Reached

(***************************************************************************)
(* selectState returns a state that exists.                                *)
(***************************************************************************)
SelectsLive == [][op = "walk" /\ op' = "idle" => selected' \in live]_vars

(***************************************************************************)
(* Both loops end: remove climbs to a node that keeps a child or to the    *)
(* root, and the walk comes down to a leaf.                                *)
(***************************************************************************)
LoopsEnd == op # "idle" ~> op = "idle"

\* The tree implements the pool of states the main loop relies on.
Pool == INSTANCE StatePool
PoolSpec == Pool!Spec
=============================================================================
