----------------------------- MODULE PTreeProofs -----------------------------
(***************************************************************************)
(* Proofs about PTree: the asserts of attach and remove and the walk of    *)
(* selectState never fail, and the tree implements StatePool, for every    *)
(* set of node and state addresses.                                        *)
(***************************************************************************)
EXTENDS PTree, TLAPS, WellFoundedInduction

\* Parent and child pointers agree.
Linked ==
  /\ Root \in alloc
  /\ parent[Root] = Null
  /\ \A m \in alloc \ {Root} : /\ parent[m] \in alloc
                               /\ left[parent[m]] = m \/ right[parent[m]] = m
  /\ \A m \in alloc : left[m] # Null => /\ left[m] \in alloc \ {Root}
                                        /\ parent[left[m]] = m
                                        /\ left[m] # right[m]
  /\ \A m \in alloc : right[m] # Null => /\ right[m] \in alloc \ {Root}
                                         /\ parent[right[m]] = m

\* The parent pointers have no cycle: every node has a level above its
\* parent's.
Ranked == \E lvl \in [Node -> Nat] :
            \A m \in alloc \ {Root} : lvl[parent[m]] < lvl[m]

\* The cursor of a loop stands on an allocated node; the node remove is
\* about to free has no child and carries no state that exists.
CursorOK ==
  /\ op = "remove" => n \in alloc /\ Childless(n) /\ state[n] \notin live
  /\ op = "walk" => n \in alloc /\ live # {}

\* Leaves carry states, apart from the one remove is about to free and from
\* the root once no state is left.
Carried ==
  \A m \in alloc :
    /\ ~Childless(m) => state[m] = Null
    /\ Childless(m) /\ live # {} /\ ~(op = "remove" /\ m = n)
         => state[m] \in live /\ ptreeNode[state[m]] = m

IInv == TypeOK /\ Linked /\ Ranked /\ CursorOK /\ StatesOwnLeaves /\ Carried
-----------------------------------------------------------------------------
(***************************************************************************)
(* A set of nodes that is not empty has one of least level.                *)
(***************************************************************************)
LEMMA LeastLevel ==
  ASSUME NEW lvl \in [Node -> Nat], NEW S \in SUBSET Node, S # {}
  PROVE  \E m \in S : \A k \in S : ~(lvl[k] < lvl[m])
<1> DEFINE T == {lvl[m] : m \in S}
           R == OpToRel(<, Nat)
<1>1. T \subseteq Nat /\ T # {}
  OBVIOUS
<1>2. IsWellFoundedOn(R, Nat)
  BY NatLessThanWellFounded
<1>3. \E x \in T : \A y \in T : ~(<<y, x>> \in R)
  <2> HIDE DEF T, R
  <2> QED BY <1>1, <1>2, WFMin
<1>4. \A x, y \in Nat : y < x => <<y, x>> \in R
  BY DEF OpToRel
<1> QED BY <1>1, <1>3, <1>4

(***************************************************************************)
(* A root without children is the whole tree.  This is why the last node   *)
(* remove leaves behind belongs to nobody.                                 *)
(***************************************************************************)
LEMMA OnlyTheRoot ==
  ASSUME TypeOK, Linked, Ranked, Childless(Root)
  PROVE  alloc = {Root}
<1>1. SUFFICES ASSUME alloc \ {Root} # {} PROVE FALSE
  BY DEF Linked
<1>2. PICK lvl \in [Node -> Nat] :
        \A m \in alloc \ {Root} : lvl[parent[m]] < lvl[m]
  BY DEF Ranked
<1>3. PICK m \in alloc \ {Root} : \A k \in alloc \ {Root} : ~(lvl[k] < lvl[m])
  <2>1. alloc \ {Root} \in SUBSET Node
    BY DEF TypeOK
  <2> QED BY <1>1, <2>1, LeastLevel
<1>4. parent[m] = Root
  BY <1>2, <1>3 DEF Linked
<1>5. m # Null
  BY PTreeAssumption DEF TypeOK
<1> QED BY <1>4, <1>5 DEF Linked, Childless
-----------------------------------------------------------------------------
LEMMA InitIInv == Init => IInv
<1> SUFFICES ASSUME Init PROVE IInv
  OBVIOUS
<1> USE PTreeAssumption DEF Init
<1>1. TypeOK
  BY DEF TypeOK
<1>2. Linked
  BY DEF Linked
<1>3. Ranked
  <2>1. [m \in Node |-> 0] \in [Node -> Nat]
    OBVIOUS
  <2> QED BY <2>1 DEF Ranked
<1>4. CursorOK
  BY DEF CursorOK
<1>5. StatesOwnLeaves
  BY DEF StatesOwnLeaves, Childless
<1>6. Carried
  BY DEF Carried, Childless
<1> QED BY <1>1, <1>2, <1>3, <1>4, <1>5, <1>6 DEF IInv

(***************************************************************************)
(* attach preserves the invariant: the leaf of es becomes an inner node    *)
(* and its two fresh children carry ns and es.                             *)
(***************************************************************************)
LEMMA AttachIInv ==
  ASSUME IInv, NEW es \in State, NEW ns \in State,
         NEW l \in Node, NEW r \in Node, Attach(es, ns, l, r)
  PROVE  IInv'
<1> DEFINE node == ptreeNode[es]
<1> USE PTreeAssumption
<1>a. /\ op = "idle" /\ op' = op /\ n' = n /\ selected' = selected
      /\ es \in live /\ ns \notin live /\ l \notin alloc /\ r \notin alloc
      /\ l # r
      /\ alloc' = alloc \cup {l, r}
      /\ parent' = [parent EXCEPT ![l] = node, ![r] = node]
      /\ left' = [left EXCEPT ![node] = l, ![l] = Null, ![r] = Null]
      /\ right' = [right EXCEPT ![node] = r, ![l] = Null, ![r] = Null]
      /\ state' = [state EXCEPT ![node] = Null, ![l] = ns, ![r] = es]
      /\ ptreeNode' = [ptreeNode EXCEPT ![ns] = l, ![es] = r]
      /\ live' = live \cup {ns}
  BY DEF Attach, NewLeaves, NewOwners
<1>b. TypeOK /\ Linked /\ Ranked /\ CursorOK /\ StatesOwnLeaves /\ Carried
  BY DEF IInv
<1>c. /\ node \in alloc /\ node \in Node /\ node # l /\ node # r
      /\ left[node] = Null /\ right[node] = Null /\ state[node] = es
  BY <1>a, <1>b DEF StatesOwnLeaves, Childless, TypeOK
<1>l. /\ alloc' = alloc \cup {l, r} /\ live' = live \cup {ns}
      /\ es \in live /\ ns \notin live /\ l \notin alloc /\ r \notin alloc
      /\ l # r
  BY <1>a
<1> HIDE DEF node
<1>1. TypeOK'
  BY <1>a, <1>b, <1>c DEF TypeOK
<1>p. /\ parent'[l] = node /\ parent'[r] = node
      /\ \A m \in alloc : parent'[m] = parent[m]
  BY <1>a, <1>b, <1>c DEF TypeOK
<1>q. /\ left'[node] = l /\ right'[node] = r
      /\ left'[l] = Null /\ right'[l] = Null
      /\ left'[r] = Null /\ right'[r] = Null
      /\ \A m \in alloc \ {node} : left'[m] = left[m] /\ right'[m] = right[m]
  BY <1>a, <1>b, <1>c DEF TypeOK
<1>s. /\ state'[node] = Null /\ state'[l] = ns /\ state'[r] = es
      /\ \A m \in alloc \ {node} : state'[m] = state[m]
      /\ ptreeNode'[ns] = l /\ ptreeNode'[es] = r
      /\ \A s \in live \ {es} : ptreeNode'[s] = ptreeNode[s]
  BY <1>a, <1>b, <1>c DEF TypeOK
<1>2. Linked'
  <2>1. Root \in alloc' /\ parent'[Root] = Null
    BY <1>l, <1>b, <1>p DEF Linked
  <2>2. \A m \in alloc' \ {Root} : /\ parent'[m] \in alloc'
                                   /\ left'[parent'[m]] = m \/ right'[parent'[m]] = m
    BY <1>l, <1>b, <1>c, <1>p, <1>q DEF Linked, TypeOK
  <2>3. \A m \in alloc' : left'[m] # Null => /\ left'[m] \in alloc' \ {Root}
                                             /\ parent'[left'[m]] = m
                                             /\ left'[m] # right'[m]
    BY <1>l, <1>b, <1>c, <1>p, <1>q DEF Linked
  <2>4. \A m \in alloc' : right'[m] # Null => /\ right'[m] \in alloc' \ {Root}
                                              /\ parent'[right'[m]] = m
    BY <1>l, <1>b, <1>c, <1>p, <1>q DEF Linked
  <2> QED BY <2>1, <2>2, <2>3, <2>4 DEF Linked
<1>3. Ranked'
  <2>1. PICK lvl \in [Node -> Nat] :
          \A m \in alloc \ {Root} : lvl[parent[m]] < lvl[m]
    BY <1>b DEF Ranked
  <2> DEFINE up == [lvl EXCEPT ![l] = lvl[node] + 1, ![r] = lvl[node] + 1]
  <2>2. up \in [Node -> Nat]
    BY <1>c
  <2>3. /\ up[l] = lvl[node] + 1 /\ up[r] = lvl[node] + 1
        /\ \A m \in alloc : up[m] = lvl[m]
    BY <1>a, <1>b, <1>c DEF TypeOK
  <2> HIDE DEF up
  <2>4. \A m \in alloc \ {Root} : up[parent'[m]] < up[m]
    BY <1>b, <1>p, <2>1, <2>3 DEF Linked
  <2>5. up[parent'[l]] < up[l] /\ up[parent'[r]] < up[r]
    BY <1>c, <1>p, <2>3, <2>1
  <2> QED BY <1>a, <2>2, <2>4, <2>5 DEF Ranked
<1>4. CursorOK'
  BY <1>a DEF CursorOK
<1>5. StatesOwnLeaves'
  <2> SUFFICES ASSUME NEW s \in live'
               PROVE  /\ ptreeNode'[s] \in alloc'
                      /\ left'[ptreeNode'[s]] = Null /\ right'[ptreeNode'[s]] = Null
                      /\ state'[ptreeNode'[s]] = s
    BY DEF StatesOwnLeaves, Childless
  <2>1. CASE s \in {es, ns}
    BY <1>l, <1>q, <1>s, <2>1
  <2>2. CASE s \in live \ {es}
    <3>1. ptreeNode[s] \in alloc \ {node}
      BY <1>b, <1>c, <2>2 DEF StatesOwnLeaves
    <3> QED BY <1>b, <1>l, <1>q, <1>s, <2>2, <3>1 DEF StatesOwnLeaves, Childless
  <2> QED BY <1>l, <2>1, <2>2
<1>6. Carried'
  <2>1. SUFFICES ASSUME NEW m \in alloc'
                 PROVE  IF left'[m] = Null /\ right'[m] = Null
                          THEN state'[m] \in live' /\ ptreeNode'[state'[m]] = m
                          ELSE state'[m] = Null
    BY DEF Carried, Childless
  <2>2. CASE m = l
    BY <1>l, <1>q, <1>s, <2>2
  <2>3. CASE m = r
    BY <1>l, <1>q, <1>s, <2>3
  <2>4. CASE m = node
    BY <1>q, <1>s, <2>4
  <2>5. CASE m \in alloc \ {node}
    <3>1. IF left[m] = Null /\ right[m] = Null
            THEN state[m] \in live /\ ptreeNode[state[m]] = m
            ELSE state[m] = Null
      BY <1>a, <1>b, <2>5 DEF Carried, Childless
    <3>2. left[m] = Null /\ right[m] = Null => state[m] # es
      BY <2>5, <3>1 DEF node
    <3> QED BY <1>l, <1>q, <1>s, <2>5, <3>1, <3>2
  <2> QED BY <1>l, <2>2, <2>3, <2>4, <2>5
<1> QED BY <1>1, <1>2, <1>3, <1>4, <1>5, <1>6 DEF IInv

(***************************************************************************)
(* The call of remove preserves the invariant: es leaves the live states,  *)
(* and its leaf becomes the cursor.                                        *)
(***************************************************************************)
LEMMA RemoveCallIInv ==
  ASSUME IInv, NEW es \in State, RemoveCall(es)
  PROVE  IInv'
<1> USE PTreeAssumption
<1>a. /\ op = "idle" /\ op' = "remove" /\ n' = ptreeNode[es]
      /\ es \in live /\ live' = live \ {es}
      /\ alloc' = alloc /\ parent' = parent /\ left' = left /\ right' = right
      /\ state' = state /\ selected' = selected
  BY DEF RemoveCall
<1>b. TypeOK /\ Linked /\ Ranked /\ CursorOK /\ StatesOwnLeaves /\ Carried
  BY DEF IInv
<1>p. /\ ptreeNode' \in [State -> Node \cup {Null}]
      /\ \A s \in live' : ptreeNode'[s] = ptreeNode[s]
  BY <1>a, <1>b DEF TypeOK, RemoveCall
<1>1. TypeOK'
  BY <1>a, <1>b, <1>p DEF TypeOK
<1>2. Linked'
  BY <1>a, <1>b DEF Linked
<1>3. Ranked'
  BY <1>a, <1>b DEF Ranked
<1>4. CursorOK'
  BY <1>a, <1>b DEF CursorOK, StatesOwnLeaves, Childless
<1>5. StatesOwnLeaves'
  BY <1>a, <1>b, <1>p DEF StatesOwnLeaves, Childless
<1>6. Carried'
  <2>1. \A m \in alloc : IF Childless(m)
                           THEN state[m] \in live /\ ptreeNode[state[m]] = m
                           ELSE state[m] = Null
    BY <1>a, <1>b DEF Carried
  <2> QED BY <1>a, <1>p, <2>1 DEF Carried, Childless
<1> QED BY <1>1, <1>2, <1>3, <1>4, <1>5, <1>6 DEF IInv

(***************************************************************************)
(* When remove reaches the root no state is left.                          *)
(***************************************************************************)
LEMMA RemoveAtRootIInv ==
  ASSUME IInv, RemoveAtRoot
  PROVE  IInv'
<1> USE PTreeAssumption
<1>a. /\ op = "remove" /\ parent[n] = Null /\ op' = "idle" /\ n' = Null
      /\ alloc' = alloc /\ parent' = parent /\ left' = left /\ right' = right
      /\ state' = state /\ ptreeNode' = ptreeNode /\ live' = live
      /\ selected' = selected
  BY DEF RemoveAtRoot
<1>b. TypeOK /\ Linked /\ Ranked /\ CursorOK /\ StatesOwnLeaves /\ Carried
  BY DEF IInv
<1>c. n = Root
  BY <1>a, <1>b DEF CursorOK, Linked, TypeOK
<1>d. alloc = {Root}
  BY <1>a, <1>b, <1>c, OnlyTheRoot DEF CursorOK
<1>e. live = {}
  BY <1>a, <1>b, <1>c, <1>d DEF CursorOK, StatesOwnLeaves
<1>1. TypeOK'
  BY <1>a, <1>b DEF TypeOK
<1>2. Linked' /\ Ranked'
  BY <1>a, <1>b DEF Linked, Ranked
<1>3. CursorOK' /\ StatesOwnLeaves'
  BY <1>a, <1>e DEF CursorOK, StatesOwnLeaves
<1>4. Carried'
  BY <1>a, <1>b, <1>e DEF Carried, Childless
<1> QED BY <1>1, <1>2, <1>3, <1>4 DEF IInv

(***************************************************************************)
(* One iteration of remove below the root: n is unlinked and freed, and    *)
(* the parent either keeps a child or is the next node to be freed.        *)
(***************************************************************************)
LEMMA RemoveBelowIInv ==
  ASSUME IInv, RemoveBelow
  PROVE  IInv'
<1> DEFINE p == parent[n]
           last == left'[p] = Null /\ right'[p] = Null
<1> USE PTreeAssumption
<1>b. TypeOK /\ Linked /\ Ranked /\ CursorOK /\ StatesOwnLeaves /\ Carried
  BY DEF IInv
<1>a. /\ op = "remove" /\ p # Null
      /\ alloc' = alloc \ {n}
      /\ ptreeNode' = ptreeNode /\ live' = live /\ selected' = selected
  BY DEF RemoveBelow
<1>c. /\ n \in alloc /\ n \in Node /\ n # Root /\ n # Null
      /\ left[n] = Null /\ right[n] = Null /\ state[n] \notin live
  BY <1>a, <1>b DEF CursorOK, Linked, Childless, TypeOK
<1>d. p \in alloc /\ p \in Node /\ p # n /\ (left[p] = n \/ right[p] = n)
  BY <1>b, <1>c DEF Linked, TypeOK
<1>e. ~(left[p] = n /\ right[p] = n)
  BY <1>b, <1>c, <1>d DEF Linked
<1>f. state[p] = Null
  BY <1>b, <1>c, <1>d DEF Carried, Childless
<1>g. IF last THEN n' = p /\ op' = "remove" ELSE n' = Null /\ op' = "idle"
  BY <1>a DEF RemoveBelow, RemoveGoesOn
<1>q. /\ left' \in [Node -> Node \cup {Null}]
      /\ right' \in [Node -> Node \cup {Null}]
      /\ left'[p] = IF left[p] = n THEN Null ELSE left[p]
      /\ right'[p] = IF right[p] = n THEN Null ELSE right[p]
      /\ \A m \in Node \ {p} : left'[m] = left[m] /\ right'[m] = right[m]
  <2>1. CASE left[p] = n
    <3>1. left' = [left EXCEPT ![p] = Null] /\ right' = right
      BY <2>1 DEF RemoveBelow
    <3> QED BY <1>b, <1>d, <1>e, <2>1, <3>1 DEF TypeOK
  <2>2. CASE left[p] # n
    <3>1. right' = [right EXCEPT ![p] = Null] /\ left' = left
      BY <2>2 DEF RemoveBelow
    <3> QED BY <1>b, <1>d, <1>e, <2>2, <3>1 DEF TypeOK
  <2> QED BY <2>1, <2>2
<1>p. /\ parent' \in [Node -> Node \cup {Null}]
      /\ \A m \in Node \ {n} : parent'[m] = parent[m]
  BY <1>b, <1>c DEF TypeOK, RemoveBelow
<1>s. /\ state' \in [Node -> State \cup {Null}]
      /\ \A m \in Node \ {n} : state'[m] = state[m]
  BY <1>b, <1>c DEF TypeOK, RemoveBelow
<1>h. alloc \subseteq Node
  BY <1>b DEF TypeOK
<1>i. \A m \in alloc \ {n} : parent[m] # n
  BY <1>b, <1>c, <1>h DEF Linked
<1> HIDE DEF p, last
<1>1. TypeOK'
  BY <1>a, <1>b, <1>d, <1>g, <1>p, <1>q, <1>s DEF TypeOK
<1>2. Linked'
  <2>1. Root \in alloc' /\ parent'[Root] = Null
    BY <1>a, <1>b, <1>c, <1>p DEF Linked
  <2>2. ASSUME NEW m \in alloc', m # Root
        PROVE  /\ parent'[m] \in alloc'
               /\ left'[parent'[m]] = m \/ right'[parent'[m]] = m
    <3>1. /\ m \in alloc \ {n} /\ parent'[m] = parent[m]
          /\ parent[m] \in alloc \ {n}
          /\ left[parent[m]] = m \/ right[parent[m]] = m
      BY <1>a, <1>b, <1>h, <1>i, <1>p, <2>2 DEF Linked
    <3> QED BY <1>a, <1>h, <1>q, <3>1
  <2>3. ASSUME NEW m \in alloc', left'[m] # Null
        PROVE  /\ left'[m] \in alloc' \ {Root}
               /\ parent'[left'[m]] = m
               /\ left'[m] # right'[m]
    <3>1. m \in alloc /\ left'[m] = left[m] /\ left[m] # n
      BY <1>a, <1>b, <1>h, <1>q, <2>3 DEF Linked, p
    <3>2. /\ left[m] \in alloc \ {Root} /\ parent[left[m]] = m
          /\ left[m] # right[m]
      BY <1>b, <2>3, <3>1 DEF Linked
    <3> QED BY <1>a, <1>h, <1>p, <1>q, <2>3, <3>1, <3>2
  <2>4. ASSUME NEW m \in alloc', right'[m] # Null
        PROVE  /\ right'[m] \in alloc' \ {Root}
               /\ parent'[right'[m]] = m
    <3>1. m \in alloc /\ right'[m] = right[m] /\ right[m] # n
      BY <1>a, <1>b, <1>h, <1>q, <2>4 DEF Linked, p
    <3>2. right[m] \in alloc \ {Root} /\ parent[right[m]] = m
      BY <1>b, <2>4, <3>1 DEF Linked
    <3> QED BY <1>a, <1>h, <1>p, <1>q, <2>4, <3>1, <3>2
  <2> QED BY <2>1, <2>2, <2>3, <2>4 DEF Linked
<1>3. Ranked'
  BY <1>a, <1>b, <1>h, <1>p DEF Ranked
<1>4. CursorOK'
  BY <1>a, <1>b, <1>d, <1>f, <1>g, <1>s DEF CursorOK, Childless, TypeOK, last
<1>5. StatesOwnLeaves'
  <2> SUFFICES ASSUME NEW s \in live
               PROVE  /\ ptreeNode[s] \in alloc'
                      /\ left'[ptreeNode[s]] = Null /\ right'[ptreeNode[s]] = Null
                      /\ state'[ptreeNode[s]] = s
    BY <1>a DEF StatesOwnLeaves, Childless
  <2>1. /\ ptreeNode[s] \in alloc \ {n, p}
        /\ left[ptreeNode[s]] = Null /\ right[ptreeNode[s]] = Null
        /\ state[ptreeNode[s]] = s
    BY <1>b, <1>c, <1>f DEF StatesOwnLeaves, Childless, TypeOK
  <2> QED BY <1>a, <1>h, <1>q, <1>s, <2>1
<1>6. Carried'
  <2> SUFFICES ASSUME NEW m \in alloc \ {n}
               PROVE  /\ ~(left'[m] = Null /\ right'[m] = Null) => state'[m] = Null
                      /\ left'[m] = Null /\ right'[m] = Null /\ live # {}
                           /\ ~(op' = "remove" /\ m = n')
                         => state'[m] \in live /\ ptreeNode[state'[m]] = m
    BY <1>a DEF Carried, Childless
  <2>1. CASE m = p
    BY <1>d, <1>f, <1>g, <1>s, <2>1 DEF last
  <2>2. CASE m # p
    BY <1>a, <1>b, <1>h, <1>q, <1>s, <2>2 DEF Carried, Childless
  <2> QED BY <2>1, <2>2
<1> QED BY <1>1, <1>2, <1>3, <1>4, <1>5, <1>6 DEF IInv

(***************************************************************************)
(* The walk of selectState preserves the invariant: a node without a state *)
(* has a child to go to.                                                   *)
(***************************************************************************)
LEMMA WalkIInv ==
  ASSUME IInv, WalkCall \/ WalkStep \/ WalkReturn
  PROVE  IInv'
<1> USE PTreeAssumption
<1>b. TypeOK /\ Linked /\ Ranked /\ CursorOK /\ StatesOwnLeaves /\ Carried
  BY DEF IInv
<1>a. /\ alloc' = alloc /\ parent' = parent /\ left' = left /\ right' = right
      /\ state' = state /\ ptreeNode' = ptreeNode /\ live' = live
      /\ op # "remove" /\ op' # "remove"
  BY DEF WalkCall, WalkStep, WalkReturn
<1>1. /\ op' \in {"idle", "walk"} /\ n' \in Node \cup {Null} /\ selected' \in State
      /\ op' = "walk" => n' \in alloc /\ live # {}
  <2>1. CASE WalkCall
    BY <1>b, <2>1 DEF WalkCall, TypeOK, Linked
  <2>2. CASE WalkStep
    <3>1. ~Childless(n)
      BY <1>b, <2>2 DEF WalkStep, Carried, CursorOK, TypeOK
    <3> QED BY <1>b, <2>2, <3>1
            DEF WalkStep, WalkTargets, Childless, CursorOK, Linked, TypeOK
  <2>3. CASE WalkReturn
    BY <1>b, <2>3 DEF WalkReturn, CursorOK, TypeOK
  <2> QED BY <2>1, <2>2, <2>3
<1>2. TypeOK'
  BY <1>a, <1>b, <1>1 DEF TypeOK
<1>3. Linked' /\ Ranked' /\ StatesOwnLeaves'
  BY <1>a, <1>b DEF Linked, Ranked, StatesOwnLeaves, Childless
<1>4. CursorOK'
  BY <1>a, <1>1 DEF CursorOK
<1>5. Carried'
  BY <1>a, <1>b DEF Carried, Childless
<1> QED BY <1>2, <1>3, <1>4, <1>5 DEF IInv

LEMMA StepIInv == IInv /\ [Next]_vars => IInv'
<1> SUFFICES ASSUME IInv, [Next]_vars PROVE IInv'
  OBVIOUS
<1>1. ASSUME NEW es \in State, NEW ns \in State, NEW l \in Node, NEW r \in Node,
             Attach(es, ns, l, r)
      PROVE  IInv'
  BY <1>1, AttachIInv
<1>2. ASSUME NEW es \in State, RemoveCall(es) PROVE IInv'
  BY <1>2, RemoveCallIInv
<1>3. CASE RemoveAtRoot
  BY <1>3, RemoveAtRootIInv
<1>4. CASE RemoveBelow
  BY <1>4, RemoveBelowIInv
<1>5. CASE WalkCall \/ WalkStep \/ WalkReturn
  BY <1>5, WalkIInv
<1>6. CASE UNCHANGED vars
  BY <1>6 DEF vars, IInv, TypeOK, Linked, Ranked, CursorOK, StatesOwnLeaves,
              Carried, Childless
<1> QED BY <1>1, <1>2, <1>3, <1>4, <1>5, <1>6 DEF Next, Loop
-----------------------------------------------------------------------------
(***************************************************************************)
(* IInv holds of the tree in every reachable state.                        *)
(***************************************************************************)
THEOREM Invariance == Spec => []IInv
  BY InitIInv, StepIInv, PTL DEF Spec

(***************************************************************************)
(* Every field keeps its type.                                             *)
(***************************************************************************)
THEOREM TypeCorrect == Spec => []TypeOK
<1>1. IInv => TypeOK
  BY DEF IInv
<1> QED BY <1>1, Invariance, PTL

(***************************************************************************)
(* The asserts of attach and remove never fail: the ptreeNode of every     *)
(* state that exists is a leaf that carries it.                            *)
(***************************************************************************)
THEOREM AssertsHold == Spec => []StatesOwnLeaves
<1>1. IInv => StatesOwnLeaves
  BY DEF IInv
<1> QED BY <1>1, Invariance, PTL

(***************************************************************************)
(* Between removals the leaves carry exactly the states that exist.        *)
(***************************************************************************)
THEOREM NoDeadLeaf == Spec => []LeavesCarryStates
<1>1. IInv => LeavesCarryStates
  BY DEF IInv, LeavesCarryStates, Carried
<1> QED BY <1>1, Invariance, PTL

(***************************************************************************)
(* The walk of selectState never leaves the allocated nodes.               *)
(***************************************************************************)
THEOREM WalkIsSafe == Spec => []WalkSafe
<1>1. IInv => WalkSafe
  BY DEF IInv, WalkSafe, CursorOK
<1> QED BY <1>1, Invariance, PTL

(***************************************************************************)
(* At every iteration of the loops of PTree.cpp and of the random walk the *)
(* tree is well formed.                                                    *)
(***************************************************************************)
THEOREM TreeIsSound == Spec => []TreeSound
<1>1. TypeOK /\ StatesOwnLeaves /\ LeavesCarryStates /\ WalkSafe => TreeSound
  BY DEF TreeSound
<1> QED BY <1>1, TypeCorrect, AssertsHold, NoDeadLeaf, WalkIsSafe, PTL

(***************************************************************************)
(* Child pointers lead from the root to every node: of those they do not   *)
(* lead to, one of least level would have a parent that they do lead to.   *)
(***************************************************************************)
LEMMA AllReached ==
  ASSUME TypeOK, Linked, Ranked, NEW M \in SUBSET Node, Root \in M, Closed(M)
  PROVE  alloc \subseteq M
<1> SUFFICES ASSUME alloc \ M # {} PROVE FALSE
  OBVIOUS
<1>1. PICK lvl \in [Node -> Nat] :
        \A m \in alloc \ {Root} : lvl[parent[m]] < lvl[m]
  BY DEF Ranked
<1>2. PICK m \in alloc \ M : \A k \in alloc \ M : ~(lvl[k] < lvl[m])
  <2>1. alloc \ M \in SUBSET Node
    BY DEF TypeOK
  <2> QED BY <2>1, LeastLevel
<1>3. parent[m] \in alloc /\ (left[parent[m]] = m \/ right[parent[m]] = m)
  BY <1>2 DEF Linked
<1>4. parent[m] \in M
  BY <1>1, <1>2, <1>3
<1>5. m # Null
  BY <1>2, PTreeAssumption DEF TypeOK
<1> QED BY <1>2, <1>3, <1>4, <1>5 DEF Closed

(***************************************************************************)
(* No child pointer leads out of the allocated nodes.                      *)
(***************************************************************************)
LEMMA ReachedAreAllocated ==
  ASSUME TypeOK, Linked
  PROVE  alloc \in SUBSET Node /\ Root \in alloc /\ Closed(alloc)
  BY DEF TypeOK, Linked, Closed

(***************************************************************************)
(* The random walk can come to the node of every state that exists, and    *)
(* child pointers lead to the allocated nodes and no other.                *)
(***************************************************************************)
THEOREM AllStatesReachable == Spec => []EveryStateReachable
<1>1. IInv => EveryStateReachable
  <2> SUFFICES ASSUME IInv PROVE EveryStateReachable
    OBVIOUS
  <2>1. alloc \subseteq Reached
    BY AllReached DEF IInv, Reached, TypeOK
  <2>2. Reached \subseteq alloc
    BY ReachedAreAllocated DEF IInv, Reached
  <2>3. \A s \in live : ptreeNode[s] \in alloc
    BY DEF IInv, StatesOwnLeaves
  <2> QED BY <2>1, <2>2, <2>3 DEF EveryStateReachable
<1> QED BY <1>1, Invariance, PTL

\* The node a walk stops at carries a state that exists.
LEMMA WalkEndsLive ==
  ASSUME IInv, WalkReturn
  PROVE  selected' \in live
<1>1. n \in alloc /\ state[n] # Null /\ op # "remove" /\ live # {}
  BY DEF IInv, CursorOK, WalkReturn
<1>2. Childless(n)
  BY <1>1 DEF IInv, Carried
<1>3. state[n] \in live
  BY <1>1, <1>2 DEF IInv, Carried
<1> QED BY <1>3 DEF WalkReturn

(***************************************************************************)
(* selectState returns a state that exists.                                *)
(***************************************************************************)
THEOREM SelectionIsLive == Spec => SelectsLive
<1>1. IInv /\ [Next]_vars
        => [op = "walk" /\ op' = "idle" => selected' \in live]_vars
  <2> SUFFICES ASSUME IInv, [Next]_vars, op = "walk", op' = "idle"
               PROVE  selected' \in live
    OBVIOUS
  <2>1. WalkReturn
    BY DEF Next, Loop, Attach, RemoveCall, RemoveAtRoot, RemoveBelow,
           WalkCall, WalkStep, vars
  <2> QED BY <2>1, WalkEndsLive
<1> QED BY <1>1, Invariance, PTL DEF Spec, SelectsLive

(***************************************************************************)
(* The tree implements StatePool: attach adds a state, remove takes one    *)
(* out, selectState returns a member; the inner steps of the loops change  *)
(* nothing a caller sees.                                                  *)
(***************************************************************************)
THEOREM ImplementsPool == Spec => PoolSpec
<1>1. Init => Pool!Init
  BY DEF Init, Pool!Init
<1>2. IInv /\ [Next]_vars => [Pool!Next]_<<live, selected>>
  <2> SUFFICES ASSUME IInv, [Next]_vars
               PROVE  Pool!Next \/ UNCHANGED <<live, selected>>
    OBVIOUS
  <2>1. ASSUME NEW es \in State, NEW ns \in State, NEW l \in Node, NEW r \in Node,
               Attach(es, ns, l, r)
        PROVE  Pool!Next
    <3>1. Pool!Change({ns}, {})
      BY <2>1 DEF Attach, Pool!Change
    <3>2. {ns} \in SUBSET State /\ {} \in SUBSET State
      OBVIOUS
    <3> QED BY <3>1, <3>2 DEF Pool!Next
  <2>2. ASSUME NEW es \in State, RemoveCall(es) PROVE Pool!Next
    <3>1. Pool!Change({}, {es})
      BY <2>2 DEF RemoveCall, Pool!Change
    <3>2. {es} \in SUBSET State /\ {} \in SUBSET State
      OBVIOUS
    <3> QED BY <3>1, <3>2 DEF Pool!Next
  <2>3. CASE WalkReturn
    BY <2>3, WalkEndsLive DEF WalkReturn, Pool!Next, Pool!Select
  <2>4. CASE RemoveAtRoot \/ RemoveBelow \/ WalkCall \/ WalkStep
    BY <2>4 DEF RemoveAtRoot, RemoveBelow, WalkCall, WalkStep
  <2>5. CASE UNCHANGED vars
    BY <2>5 DEF vars
  <2> QED BY <2>1, <2>2, <2>3, <2>4, <2>5 DEF Next, Loop
<1> QED BY <1>1, <1>2, Invariance, PTL DEF Spec, PoolSpec, Pool!Spec
=============================================================================
