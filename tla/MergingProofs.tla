---------------------------- MODULE MergingProofs ----------------------------
(***************************************************************************)
(* Proofs about Merging, for any number of states, handlers, close points  *)
(* and inputs, when klee_close_merge is not called through a symbolic      *)
(* function pointer.  MergingInvariants defines the invariant.             *)
(***************************************************************************)
EXTENDS MergingInvariants

(***************************************************************************)
(* The searchers, when there is no memory cap.                             *)
(***************************************************************************)
\* The assert of removeOpenState holds for every state that exists.
LEMMA AllRegistered ==
  ASSUME TypeOK, StackInv, NEW D \in SUBSET Live
  PROVE  Registered(D)
<1> SUFFICES ASSUME NEW t \in D, NEW h \in Elements(openMergeStack[t])
             PROVE  t \in openStates[h]
  BY DEF Registered
<1>1. t \in State /\ openMergeStack[t] \in Seq(Handler)
  BY DEF TypeOK, Live
<1>2. h \in Handler
  BY <1>1 DEF Elements
<1>. QED
  BY <1>2 DEF StackInv, Holders

\* Whoever waits for a handler is paused.
LEMMA WaiterPaused ==
  ASSUME TypeOK, WaitInv, pc # "aborted",
         NEW h \in Handler, NEW p \in Point, NEW m \in reachedCloseMerge[h][p]
  PROVE  m \in State /\ m \in pausedStates /\ pausedStates = inCloseMerge
<1>1. m \in State
  BY DEF TypeOK
<1>. QED
  BY <1>1 DEF WaitInv, WaitOK

LEMMA CloseSearch ==
  ASSUME ~PointerCalls, TypeOK, BookInv, StackInv, WaitInv, SearchInv,
         NEW es \in handles, NEW p \in Point, CloseMerge(es, p)
  PROVE  SearchInv' /\ pc' = "execute"
<1>1. PICK h \in Handler :
        /\ es \in State /\ pc = "execute"
        /\ Tail(openMergeStack[es]) \in Seq(Handler)
        /\ openMergeStack[es] = <<h>> \o Tail(openMergeStack[es])
        /\ Absorbed(es, h, p) \/ Waits(es, h, p)
        /\ handles' = handles \ {es}
        /\ UNCHANGED <<current, states, added, ended>>
  BY CloseCases, Zenon
<1>2. es = current /\ added = {} /\ removed = {}
  BY CallIsAlone DEF CloseMerge
<1>3. handles = {es} /\ es \in states /\ es \in Live
  BY <1>1, <1>2 DEF BookInv, OnGoing, Live
<1>4. es \in openStates[h]
  <2>1. h \in Elements(<<h>> \o Tail(openMergeStack[es]))
    BY <1>1, ConsFacts
  <2>2. h \in Elements(openMergeStack[es])
    BY <1>1, <2>1, Zenon
  <2>. QED
    BY <1>3, <2>2 DEF StackInv, Holders
<1>5. es \notin pausedStates /\ es \notin inCloseMerge /\ es \in base
  <2>1. inCloseMerge = pausedStates
    BY <1>1, Zenon DEF WaitInv, WaitOK
  <2>. QED
    BY <1>1, <1>3, <2>1 DEF SearchInv
<1>6. CASE Absorbed(es, h, p)
  <2>1. PICK m \in reachedCloseMerge[h][p] :
          /\ removed' = removed \cup {es}
          /\ DestroyHandlers(reachedCloseMerge, pausedStates, base, inCloseMerge)
          /\ pc' = IF es \notin openStates[h] \/ es \in inCloseMerge THEN "aborted"
                   ELSE IF m \notin Live \/ es \in added THEN "dangling"
                   ELSE "execute"
    BY <1>6, Zenon DEF Absorbed
  <2>2. m \in pausedStates
    BY <1>1, WaiterPaused
  <2>3. m \in Live
    BY <2>2 DEF SearchInv, Live
  <2>4. pc' = "execute"
    BY <1>2, <1>4, <1>5, <2>1, <2>3
  <2>5. Moves(base, pausedStates)
    BY <1>1, <2>1, WaitersStay, Zenon DEF TypeOK
  <2>6. PICK W \in SUBSET pausedStates : base' = base \cup W /\ pausedStates' = pausedStates \ W
    BY <2>5, Zenon DEF Moves
  <2>. QED
    BY <1>1, <1>2, <1>3, <1>5, <2>1, <2>4, <2>6, Zenon DEF SearchInv
<1>7. CASE Waits(es, h, p)
  <2>1. pc' = "execute" /\ removed' = removed
    BY <1>4, <1>5, <1>7 DEF Waits
  <2>2. Moves(base \ {es}, pausedStates \cup {es})
    BY <1>1, <1>4, <1>5, <1>7, WaiterAdded, Zenon
  <2>3. PICK W \in SUBSET (pausedStates \cup {es}) :
          /\ base' = (base \ {es}) \cup W
          /\ pausedStates' = (pausedStates \cup {es}) \ W
    BY <2>2 DEF Moves
  <2>. QED
    BY <1>1, <1>2, <1>3, <1>5, <2>1, <2>3 DEF SearchInv
<1>. QED
  BY <1>1, <1>6, <1>7

LEMMA SearchStep ==
  ASSUME ~PointerCalls, ~memoryCap, TypeOK, BookInv, StackInv, WaitInv, SearchInv, [Next]_vars
  PROVE  SearchInv'
<1>1. ASSUME NEW s \in handles, NEW ns \in State, NEW c \in SUBSET Input, Fork(s, ns, c)
      PROVE  SearchInv'
  BY <1>1 DEF Fork, SearchInv, searchVars, Live
<1>2. ASSUME NEW s \in handles, TerminateState(s)
      PROVE  SearchInv'
  <2>0. /\ pc = "execute" /\ s \in OnGoing /\ handles' = handles \ {s}
        /\ UNCHANGED <<current, states>>
    BY <1>2 DEF TerminateState, BookInv
  <2>1. CASE s \in added
    <3>1. DestroyHandlers(reachedCloseMerge, pausedStates, base, inCloseMerge)
      BY <1>2, <2>1 DEF TerminateState, DeleteStates
    <3>2. Moves(base, pausedStates)
      BY <2>0, <3>1, WaitersStay, Zenon DEF TypeOK
    <3>3. PICK W \in SUBSET pausedStates : base' = base \cup W /\ pausedStates' = pausedStates \ W
      BY <3>2 DEF Moves
    <3>4. {s} \in SUBSET Live
      BY <2>0 DEF OnGoing
    <3>5. pc' = "execute" /\ added' = added \ {s} /\ removed' = removed
      BY <1>2, <2>0, <2>1, <3>4, AllRegistered, Zenon DEF TerminateState
    <3>. QED
      BY <2>0, <3>3, <3>5 DEF SearchInv
  <2>2. CASE s \notin added
    <3>1. removed' = removed \cup {s} /\ UNCHANGED <<pc, added, base, pausedStates>>
      BY <1>2, <2>2 DEF TerminateState, searchVars
    <3>. QED
      BY <2>0, <3>1 DEF SearchInv
  <2>. QED
    BY <2>1, <2>2
<1>3. ASSUME NEW s \in handles, NEW h \in Handler, OpenMerge(s, h)
      PROVE  SearchInv'
  BY <1>3 DEF OpenMerge, SearchInv, searchVars, bookVars
<1>4. ASSUME NEW s \in handles, NEW p \in Point, CloseMerge(s, p)
      PROVE  SearchInv'
  BY <1>4, CloseSearch
<1>5. ASSUME NEW s \in State, SelectState(s)
      PROVE  SearchInv'
  <2>1. s \in base /\ s \in states /\ s \notin pausedStates
    BY <1>5 DEF SelectState, SearchInv
  <2>. QED
    BY <1>5, <2>1 DEF SelectState, Selected, SearchInv, searchVars, bookVars
<1>6. ASSUME NEW s \in State, NEW R \in SUBSET Handler, SelectIncomplete(s, R)
      PROVE  SearchInv'
  <2>1. /\ pc = "select" /\ ReleaseStates(R, reachedCloseMerge, pausedStates, base, inCloseMerge)
        /\ pc' = Selected(s) /\ current' = s /\ handles' = {s}
        /\ UNCHANGED <<states, added, removed>>
    BY <1>6 DEF SelectIncomplete, bookVars
  <2>2. /\ reachedCloseMerge \in [Handler -> [Point -> SUBSET State]]
        /\ pausedStates \in SUBSET State /\ base \in SUBSET State
        /\ inCloseMerge \in SUBSET State
    BY DEF TypeOK
  <2>3. WaitOK(reachedCloseMerge, pausedStates, inCloseMerge)
    BY <2>1 DEF WaitInv
  <2>4. /\ Moves(base, pausedStates)
        /\ WaitOK(reachedCloseMerge', pausedStates', inCloseMerge')
    BY <2>1, <2>2, <2>3, ReleaseWaits
  <2>5. PICK W \in SUBSET pausedStates : base' = base \cup W /\ pausedStates' = pausedStates \ W
    BY <2>4 DEF Moves
  <2>6. inCloseMerge' = pausedStates'
    BY <2>4 DEF WaitOK
  <2>7. /\ base' \cup pausedStates' = states
        /\ base' \cap pausedStates' = {}
    BY <2>5 DEF SearchInv
  <2>8. s \in states /\ s \notin pausedStates'
    <3>1. ASSUME NEW h \in mergeGroups, s \in PrioritizeStates(h)
          PROVE  s \in states /\ s \notin pausedStates'
      <4>1. s \in openStates[h] /\ s \notin pausedStates' /\ h \in Handler
        BY <3>1, <2>6 DEF PrioritizeStates, TypeOK
      <4>. QED
        BY <2>1, <4>1 DEF StackInv, Holders, Live, BookInv
    <3>2. (\E h \in mergeGroups : s \in PrioritizeStates(h)) \/ s \in base'
      BY <1>6 DEF SelectIncomplete
    <3>. QED
      BY <3>1, <3>2, <2>7
  <2>9. pc' = "execute"
    BY <2>1, <2>8 DEF Selected
  <2>10. pausedStates' \cap removed' = {}
    BY <2>1 DEF BookInv
  <2>. QED
    BY <2>1, <2>7, <2>8, <2>9, <2>10 DEF SearchInv
<1>7. CASE InstructionDone
  BY <1>7 DEF InstructionDone, SearchInv, searchVars, bookVars
<1>8. ASSUME NEW K \in SUBSET states, CheckMemoryUsage(K)
      PROVE  SearchInv'
  BY <1>8 DEF CheckMemoryUsage, SearchInv
<1>9. CASE UpdateStates
  <2>1. /\ pc = "update" /\ states' = OnGoing /\ added' = {} /\ removed' = {}
        /\ current' = current
        /\ DestroyHandlers(reachedCloseMerge, pausedStates, UpdatedBase, inCloseMerge)
    BY <1>9 DEF UpdateStates, DeleteStates
  <2>2. UpdatedBase \in SUBSET State /\ removed \in SUBSET Live
    BY DEF TypeOK, UpdatedBase, BookInv, Live
  <2>3. removed \subseteq base
    BY DEF SearchInv, BookInv
  <2>4. pc' = "select"
    BY <1>9, <2>2, <2>3, AllRegistered DEF UpdateStates
  <2>5. Moves(UpdatedBase, pausedStates)
    BY <2>1, <2>2, WaitersStay
  <2>6. PICK W \in SUBSET pausedStates :
          base' = UpdatedBase \cup W /\ pausedStates' = pausedStates \ W
    BY <2>5 DEF Moves
  <2>7. UpdatedBase = (base \cup added) \ removed
    BY <2>1 DEF UpdatedBase, SearchInv
  <2>8. base' \cup pausedStates' = states' /\ base' \cap pausedStates' = {}
    BY <2>1, <2>6, <2>7 DEF SearchInv, BookInv, OnGoing, Live
  <2>. QED
    BY <2>1, <2>4, <2>8 DEF SearchInv
<1>10. CASE DoDumpStates
  BY <1>10 DEF DoDumpStates, SearchInv
<1>11. CASE UNCHANGED vars
  BY <1>11 DEF vars, SearchInv, searchVars, bookVars
<1>. QED
  BY <1>1, <1>2, <1>3, <1>4, <1>5, <1>6, <1>7, <1>8, <1>9, <1>10, <1>11
  DEF Next, Instruction, MainLoop
-----------------------------------------------------------------------------
(***************************************************************************)
(* The regions, when there is no memory cap.                               *)
(***************************************************************************)
\* Deleting and releasing states leaves the regions of the others alone.
LEMMA RegionsStay ==
  ASSUME RegionInv, Live \subseteq State, Live' \subseteq Live,
         \A t \in Live' : openMergeStack'[t] = openMergeStack[t],
         \A h \in Handler, p \in Point : reachedCloseMerge'[h][p] \subseteq reachedCloseMerge[h][p],
         \A h \in Handler, p \in Point : \A w \in reachedCloseMerge'[h][p] :
           openMergeStack'[w] = openMergeStack[w]
  PROVE  RegionInv'
<1>1. ASSUME NEW h \in Handler, NEW t \in Live', NEW u \in Live',
             h \in Elements(openMergeStack'[t]), h \in Elements(openMergeStack'[u])
      PROVE  AroundIn(h, openMergeStack'[t]) = AroundIn(h, openMergeStack'[u])
  <2>1. /\ t \in Live /\ openMergeStack'[t] = openMergeStack[t]
        /\ u \in Live /\ openMergeStack'[u] = openMergeStack[u]
    OBVIOUS
  <2>. QED
    BY <1>1, <2>1 DEF RegionInv
<1>2. ASSUME NEW h \in Handler, NEW p \in Point, NEW t \in Live', NEW w \in State,
             h \in Elements(openMergeStack'[t]), w \in reachedCloseMerge'[h][p]
      PROVE  AroundIn(h, openMergeStack'[t]) = {openMergeStack'[w]}
  <2>1. /\ t \in Live /\ openMergeStack'[t] = openMergeStack[t]
        /\ w \in reachedCloseMerge[h][p] /\ openMergeStack'[w] = openMergeStack[w]
    BY <1>2
  <2>. QED
    BY <1>2, <2>1 DEF RegionInv
<1>. QED
  BY <1>1, <1>2 DEF RegionInv

\* The states that wait are neither terminated nor new.
\* Two of the states in a region, or one that waits to leave it.
LEMMA SameRegions ==
  ASSUME RegionInv, NEW h \in Handler, NEW t \in Live, NEW u \in Live,
         h \in Elements(openMergeStack[t]), h \in Elements(openMergeStack[u])
  PROVE  AroundIn(h, openMergeStack[t]) = AroundIn(h, openMergeStack[u])
BY Zenon DEF RegionInv

LEMMA WaitersRegions ==
  ASSUME RegionInv, NEW h \in Handler, NEW p \in Point, NEW t \in Live, NEW w \in State,
         h \in Elements(openMergeStack[t]), w \in reachedCloseMerge[h][p]
  PROVE  AroundIn(h, openMergeStack[t]) = {openMergeStack[w]}
BY Zenon DEF RegionInv

LEMMA WaitersGoOn ==
  ASSUME TypeOK, BookInv, WaitInv, SearchInv,
         NEW h \in Handler, NEW p \in Point, NEW w \in reachedCloseMerge[h][p]
  PROVE  w \in State /\ w \in states /\ w \notin removed /\ w \notin added
<1>1. w \in State /\ w \in pausedStates
  BY WaiterPaused DEF SearchInv
<1>. QED
  BY <1>1 DEF SearchInv, BookInv

LEMMA ForkRegions ==
  ASSUME TypeOK, BookInv, WaitInv, SearchInv, RegionInv,
         NEW s \in handles, NEW ns \in State, NEW c \in SUBSET Input, Fork(s, ns, c)
  PROVE  RegionInv'
<1>0. s \in State /\ s \in Live /\ ns \in State \ Live /\ Live' = Live \cup {ns}
      /\ Live \subseteq State /\ reachedCloseMerge' = reachedCloseMerge
  BY DEF TypeOK, BookInv, OnGoing, Live, Fork
<1>1. \A t \in State : openMergeStack'[t] = IF t = ns THEN openMergeStack[s] ELSE openMergeStack[t]
  BY <1>0 DEF Fork, TypeOK
<1>2. \A t \in Live' : \E u \in Live : openMergeStack'[t] = openMergeStack[u]
  BY <1>0, <1>1
<1>3. ASSUME NEW h \in Handler, NEW t \in Live', NEW u \in Live',
             h \in Elements(openMergeStack'[t]), h \in Elements(openMergeStack'[u])
      PROVE  AroundIn(h, openMergeStack'[t]) = AroundIn(h, openMergeStack'[u])
  <2>1. PICK v \in Live : openMergeStack'[t] = openMergeStack[v]
    BY <1>2
  <2>2. PICK w \in Live : openMergeStack'[u] = openMergeStack[w]
    BY <1>2
  <2>3. h \in Elements(openMergeStack[v]) /\ h \in Elements(openMergeStack[w])
    BY <1>3, <2>1, <2>2, Zenon
  <2>4. AroundIn(h, openMergeStack[v]) = AroundIn(h, openMergeStack[w])
    BY <2>3, SameRegions, Zenon
  <2>. QED
    BY <2>1, <2>2, <2>4, Zenon
<1>4. ASSUME NEW h \in Handler, NEW p \in Point, NEW t \in Live', NEW w \in State,
             h \in Elements(openMergeStack'[t]), w \in reachedCloseMerge'[h][p]
      PROVE  AroundIn(h, openMergeStack'[t]) = {openMergeStack'[w]}
  <2>1. PICK v \in Live : openMergeStack'[t] = openMergeStack[v]
    BY <1>2
  <2>2. w \in reachedCloseMerge[h][p]
    BY <1>0, <1>4
  <2>3. w \in states
    BY <2>2, WaitersGoOn
  <2>4. openMergeStack'[w] = openMergeStack[w]
    BY <1>0, <1>1, <2>3 DEF Live
  <2>5. h \in Elements(openMergeStack[v])
    BY <1>4, <2>1, Zenon
  <2>6. AroundIn(h, openMergeStack[v]) = {openMergeStack[w]}
    BY <2>2, <2>5, WaitersRegions, Zenon
  <2>. QED
    BY <2>1, <2>4, <2>6, Zenon
<1>5. \A h \in Handler, t, u \in Live' :
        h \in Elements(openMergeStack'[t]) /\ h \in Elements(openMergeStack'[u]) =>
          AroundIn(h, openMergeStack'[t]) = AroundIn(h, openMergeStack'[u])
  BY <1>3, Zenon
<1>6. \A h \in Handler, p \in Point, t \in Live', w \in State :
        h \in Elements(openMergeStack'[t]) /\ w \in reachedCloseMerge'[h][p] =>
          AroundIn(h, openMergeStack'[t]) = {openMergeStack'[w]}
  BY <1>4, Zenon
<1>. QED
  BY <1>5, <1>6, Zenon DEF RegionInv

LEMMA OpenRegions ==
  ASSUME TypeOK, BookInv, StackInv, WaitInv, SearchInv, RegionInv,
         NEW s \in handles, NEW h \in Handler, OpenMerge(s, h)
  PROVE  RegionInv'
<1>0. /\ s \in State /\ s \in Live /\ Live' = Live /\ openMergeStack[s] \in Seq(Handler)
      /\ Live \subseteq State /\ reachedCloseMerge' = reachedCloseMerge
      /\ pc = "execute" /\ h \notin mergeGroups
  BY DEF TypeOK, BookInv, OnGoing, Live, OpenMerge, bookVars
<1>1. \A t \in State : openMergeStack'[t] = IF t = s THEN <<h>> \o openMergeStack[s]
                                                     ELSE openMergeStack[t]
  BY <1>0 DEF OpenMerge, TypeOK
<1>2. \A t \in Live : h \notin Elements(openMergeStack[t])
  BY DEF OpenMerge, StackInv, Holders
<1>3. \A p \in Point : reachedCloseMerge[h][p] = {}
  BY <1>0 DEF WaitInv, Unused
<1>4. \A t \in Live \ {s} : openMergeStack'[t] = openMergeStack[t]
  BY <1>0, <1>1
<1>5. \A g \in Handler \ {h}, t \in Live :
        /\ g \in Elements(openMergeStack'[t]) => g \in Elements(openMergeStack[t])
        /\ AroundIn(g, openMergeStack'[t]) = AroundIn(g, openMergeStack[t])
  <2> TAKE g \in Handler \ {h}, t \in Live
  <2>1. CASE t = s
    <3>1. PICK stk \in Seq(Handler) : stk = openMergeStack[s]
      BY <1>0
    <3>2. /\ Elements(<<h>> \o stk) = {h} \cup Elements(stk)
          /\ AroundIn(g, <<h>> \o stk) = AroundIn(g, stk)
      BY ConsFacts, ConsAround
    <3>3. openMergeStack'[t] = <<h>> \o stk /\ openMergeStack[t] = stk
      BY <1>0, <1>1, <2>1, <3>1, Zenon
    <3>4. g \in {h} \cup Elements(stk) => g \in Elements(stk)
      OBVIOUS
    <3>. QED
      BY <3>2, <3>3, <3>4, Zenon
  <2>2. CASE t # s
    BY <1>4, <2>2
  <2>. QED
    BY <2>1, <2>2
<1>6. \A t \in Live : h \in Elements(openMergeStack'[t]) => t = s
  BY <1>2, <1>4
<1>7. ASSUME NEW g \in Handler, NEW t \in Live, NEW u \in Live,
             g \in Elements(openMergeStack'[t]), g \in Elements(openMergeStack'[u])
      PROVE  AroundIn(g, openMergeStack'[t]) = AroundIn(g, openMergeStack'[u])
  <2>1. CASE g = h
    BY <1>6, <1>7, <2>1
  <2>2. CASE g # h
    <3>1. /\ g \in Elements(openMergeStack[t]) /\ g \in Elements(openMergeStack[u])
          /\ AroundIn(g, openMergeStack'[t]) = AroundIn(g, openMergeStack[t])
          /\ AroundIn(g, openMergeStack'[u]) = AroundIn(g, openMergeStack[u])
      BY <1>5, <1>7, <2>2
    <3>. QED
      BY <3>1 DEF RegionInv
  <2>. QED
    BY <2>1, <2>2
<1>8. ASSUME NEW g \in Handler, NEW p \in Point, NEW t \in Live, NEW w \in State,
             g \in Elements(openMergeStack'[t]), w \in reachedCloseMerge[g][p]
      PROVE  AroundIn(g, openMergeStack'[t]) = {openMergeStack'[w]}
  <2>1. g # h
    BY <1>3, <1>8
  <2>2. /\ g \in Elements(openMergeStack[t])
        /\ AroundIn(g, openMergeStack'[t]) = AroundIn(g, openMergeStack[t])
    BY <1>5, <1>8, <2>1
  <2>3. w \in states /\ w \in pausedStates
    BY <1>0, <1>8, WaitersGoOn, WaiterPaused
  <2>4. w # s
    BY <1>0, <2>3 DEF SearchInv
  <2>5. openMergeStack'[w] = openMergeStack[w]
    BY <1>4, <2>3, <2>4 DEF Live
  <2>. QED
    BY <1>8, <2>2, <2>5 DEF RegionInv
<1>9. Live' = Live /\ reachedCloseMerge' = reachedCloseMerge
  BY <1>0
<1>. QED
  BY <1>7, <1>8, <1>9 DEF RegionInv

LEMMA CloseRegions ==
  ASSUME ~PointerCalls, TypeOK, BookInv, StackInv, WaitInv, SearchInv, RegionInv,
         NEW es \in handles, NEW p \in Point, CloseMerge(es, p)
  PROVE  RegionInv'
<1>1. PICK h \in Handler :
        /\ es \in State /\ pc = "execute"
        /\ Tail(openMergeStack[es]) \in Seq(Handler)
        /\ openMergeStack[es] = <<h>> \o Tail(openMergeStack[es])
        /\ openMergeStack' = [openMergeStack EXCEPT ![es] = Tail(openMergeStack[es])]
        /\ Absorbed(es, h, p) \/ Waits(es, h, p)
        /\ UNCHANGED <<current, states, added, ended>>
  BY CloseCases, Zenon
<1>2. PICK stk \in Seq(Handler) : stk = Tail(openMergeStack[es])
  BY <1>1, Zenon
<1>3. Live' = Live /\ es \in Live /\ Live \subseteq State
  BY <1>1 DEF Live, BookInv, OnGoing, TypeOK
<1>4. /\ openMergeStack'[es] = stk
      /\ \A t \in State \ {es} : openMergeStack'[t] = openMergeStack[t]
  BY <1>1, <1>2 DEF TypeOK
<1>5. /\ openMergeStack[es] = <<h>> \o stk
      /\ NoDuplicates(openMergeStack[es])
  BY <1>1, <1>2 DEF StackInv
<1>6. h \notin Elements(stk) /\ h \in Elements(openMergeStack[es])
  BY <1>5, ConsDistinct, ConsFacts
<1>7. es \notin pausedStates
  BY <1>1 DEF SearchInv
<1>8. es \in openStates[h]
  BY <1>3, <1>6 DEF StackInv, Holders
<1>9. \A g \in Handler, t \in Live : g \in Elements(openMergeStack'[t]) =>
        /\ g \in Elements(openMergeStack[t])
        /\ AroundIn(g, openMergeStack'[t]) = AroundIn(g, openMergeStack[t])
  <2> TAKE g \in Handler, t \in Live
  <2> HAVE g \in Elements(openMergeStack'[t])
  <2>1. CASE t = es
    <3>1. g \in Elements(stk)
      BY <1>4, <2>1, Zenon
    <3>2. g \in Handler \ {h}
      BY <1>6, <3>1
    <3>3. /\ Elements(<<h>> \o stk) = {h} \cup Elements(stk)
          /\ AroundIn(g, <<h>> \o stk) = AroundIn(g, stk)
      BY <3>2, ConsFacts, ConsAround
    <3>4. g \in {h} \cup Elements(stk)
      BY <3>1
    <3>. QED
      BY <1>4, <1>5, <2>1, <3>3, <3>4, Zenon
  <2>2. CASE t # es
    BY <1>3, <1>4, <2>2, Zenon
  <2>. QED
    BY <2>1, <2>2
<1>10. \A g \in Handler, q \in Point :
         reachedCloseMerge'[g][q] \subseteq
           reachedCloseMerge[g][q] \cup (IF g = h THEN {es} ELSE {})
  <2>1. CASE Absorbed(es, h, p)
    <3>1. DestroyHandlers(reachedCloseMerge, pausedStates, base, inCloseMerge)
      BY <2>1, Zenon DEF Absorbed
    <3>2. base \in SUBSET State
      BY DEF TypeOK
    <3>3. \A g \in Handler, q \in Point : reachedCloseMerge'[g][q] \subseteq reachedCloseMerge[g][q]
      BY <1>1, <3>1, <3>2, WaitersStay, Zenon
    <3>. QED
      BY <3>3
  <2>2. CASE Waits(es, h, p)
    BY <1>1, <1>7, <1>8, <2>2, WaiterAdded, Zenon
  <2>. QED
    BY <1>1, <2>1, <2>2, Zenon
<1>11. ASSUME NEW g \in Handler, NEW t \in Live, NEW u \in Live,
              g \in Elements(openMergeStack'[t]), g \in Elements(openMergeStack'[u])
       PROVE  AroundIn(g, openMergeStack'[t]) = AroundIn(g, openMergeStack'[u])
  <2>1. /\ g \in Elements(openMergeStack[t]) /\ g \in Elements(openMergeStack[u])
        /\ AroundIn(g, openMergeStack'[t]) = AroundIn(g, openMergeStack[t])
        /\ AroundIn(g, openMergeStack'[u]) = AroundIn(g, openMergeStack[u])
    BY <1>9, <1>11
  <2>2. AroundIn(g, openMergeStack[t]) = AroundIn(g, openMergeStack[u])
    BY <2>1, SameRegions, Zenon
  <2>. QED
    BY <2>1, <2>2, Zenon
<1>12. ASSUME NEW g \in Handler, NEW q \in Point, NEW t \in Live, NEW w \in State,
              g \in Elements(openMergeStack'[t]), w \in reachedCloseMerge'[g][q]
       PROVE  AroundIn(g, openMergeStack'[t]) = {openMergeStack'[w]}
  <2>1. /\ g \in Elements(openMergeStack[t])
        /\ AroundIn(g, openMergeStack'[t]) = AroundIn(g, openMergeStack[t])
    BY <1>9, <1>12
  <2>2. CASE w \in reachedCloseMerge[g][q]
    <3>1. w \in pausedStates
      BY <1>1, <2>2, WaiterPaused, Zenon
    <3>2. openMergeStack'[w] = openMergeStack[w]
      BY <1>4, <1>7, <3>1
    <3>3. AroundIn(g, openMergeStack[t]) = {openMergeStack[w]}
      BY <2>1, <2>2, WaitersRegions, Zenon
    <3>. QED
      BY <2>1, <3>2, <3>3, Zenon
  <2>3. CASE w \notin reachedCloseMerge[g][q]
    <3>1. w = es /\ g = h
      BY <1>10, <1>12, <2>3
    <3>2. AroundIn(h, openMergeStack[t]) = AroundIn(h, openMergeStack[es])
      <4>1. h \in Elements(openMergeStack[t])
        BY <2>1, <3>1, Zenon
      <4>2. es \in Live /\ h \in Elements(openMergeStack[es])
        BY <1>3, <1>6
      <4>. QED
        BY <4>1, <4>2, SameRegions, Zenon
    <3>3. AroundIn(h, <<h>> \o stk) = {stk}
      BY <1>6, ConsAround
    <3>. QED
      BY <1>4, <1>5, <2>1, <3>1, <3>2, <3>3, Zenon
  <2>. QED
    BY <2>2, <2>3
<1>13. Live' = Live
  BY <1>3
<1>14. \A g \in Handler, t, u \in Live' :
         g \in Elements(openMergeStack'[t]) /\ g \in Elements(openMergeStack'[u]) =>
           AroundIn(g, openMergeStack'[t]) = AroundIn(g, openMergeStack'[u])
  BY <1>11, <1>13
<1>15. \A g \in Handler, q \in Point, t \in Live', w \in State :
         g \in Elements(openMergeStack'[t]) /\ w \in reachedCloseMerge'[g][q] =>
           AroundIn(g, openMergeStack'[t]) = {openMergeStack'[w]}
  BY <1>12, <1>13
<1>. QED
  BY <1>14, <1>15, Zenon DEF RegionInv

LEMMA RegionStep ==
  ASSUME ~PointerCalls, ~memoryCap, TypeOK, BookInv, StackInv, WaitInv, SearchInv,
         RegionInv, [Next]_vars
  PROVE  RegionInv'
<1>0. Live \subseteq State /\ pc # "aborted"
  BY DEF TypeOK, Live, SearchInv
<1>1. ASSUME UNCHANGED <<states, added, openMergeStack, reachedCloseMerge>>
      PROVE  RegionInv'
  <2>1. Live' = Live /\ openMergeStack' = openMergeStack /\ reachedCloseMerge' = reachedCloseMerge
    BY <1>1 DEF Live
  <2>2. \A h \in Handler, t, u \in Live :
          h \in Elements(openMergeStack[t]) /\ h \in Elements(openMergeStack[u]) =>
            AroundIn(h, openMergeStack[t]) = AroundIn(h, openMergeStack[u])
    BY DEF RegionInv
  <2>3. \A h \in Handler, p \in Point, t \in Live, w \in State :
          h \in Elements(openMergeStack[t]) /\ w \in reachedCloseMerge[h][p] =>
            AroundIn(h, openMergeStack[t]) = {openMergeStack[w]}
    BY DEF RegionInv
  <2>4. \A h \in Handler, t, u \in Live' :
          h \in Elements(openMergeStack'[t]) /\ h \in Elements(openMergeStack'[u]) =>
            AroundIn(h, openMergeStack'[t]) = AroundIn(h, openMergeStack'[u])
    BY <2>1, <2>2
  <2>5. \A h \in Handler, p \in Point, t \in Live', w \in State :
          h \in Elements(openMergeStack'[t]) /\ w \in reachedCloseMerge'[h][p] =>
            AroundIn(h, openMergeStack'[t]) = {openMergeStack'[w]}
    BY <2>1, <2>3
  <2>. QED
    BY <2>4, <2>5, Zenon DEF RegionInv
<1>2. ASSUME NEW bs \in SUBSET State, NEW D \in SUBSET State, DeleteStates(D, bs),
             Live' = Live \ D,
             \A h \in Handler, p \in Point : \A w \in reachedCloseMerge[h][p] : w \notin D
      PROVE  RegionInv'
  <2>1. \A t \in State \ D : openMergeStack'[t] = openMergeStack[t]
    BY <1>2 DEF DeleteStates
  <2>2. \A h \in Handler, p \in Point : reachedCloseMerge'[h][p] \subseteq reachedCloseMerge[h][p]
    BY <1>0, <1>2, WaitersStay, Zenon DEF DeleteStates
  <2>3. \A h \in Handler, p \in Point : \A w \in reachedCloseMerge'[h][p] :
          openMergeStack'[w] = openMergeStack[w]
    BY <1>0, <1>2, <2>1, <2>2, WaiterPaused
  <2>4. Live' \subseteq Live /\ \A t \in Live' : openMergeStack'[t] = openMergeStack[t]
    BY <1>0, <1>2, <2>1
  <2>. QED
    BY <1>0, <2>2, <2>3, <2>4, RegionsStay, Zenon
<1>3. ASSUME NEW s \in handles, NEW ns \in State, NEW c \in SUBSET Input, Fork(s, ns, c)
      PROVE  RegionInv'
  BY <1>3, ForkRegions
<1>4. ASSUME NEW s \in handles, TerminateState(s)
      PROVE  RegionInv'
  <2>1. CASE s \in added
    <3>1. DeleteStates({s}, base) /\ Live' = Live \ {s}
      BY <1>4, <2>1 DEF TerminateState, Live, BookInv
    <3>2. {s} \in SUBSET State /\ base \in SUBSET State
      BY DEF TypeOK
    <3>3. \A h \in Handler, p \in Point : \A w \in reachedCloseMerge[h][p] : w \notin {s}
      BY <2>1, WaitersGoOn
    <3>. QED
      BY <1>2, <3>1, <3>2, <3>3
  <2>2. CASE s \notin added
    BY <1>1, <1>4, <2>2 DEF TerminateState, handlerVars
  <2>. QED
    BY <2>1, <2>2
<1>5. ASSUME NEW s \in handles, NEW h \in Handler, OpenMerge(s, h)
      PROVE  RegionInv'
  BY <1>5, OpenRegions
<1>6. ASSUME NEW s \in handles, NEW p \in Point, CloseMerge(s, p)
      PROVE  RegionInv'
  BY <1>6, CloseRegions
<1>7. ASSUME NEW s \in State, SelectState(s)
      PROVE  RegionInv'
  BY <1>1, <1>7 DEF SelectState, handlerVars, bookVars
<1>8. ASSUME NEW s \in State, NEW R \in SUBSET Handler, SelectIncomplete(s, R)
      PROVE  RegionInv'
  <2>1. /\ ReleaseStates(R, reachedCloseMerge, pausedStates, base, inCloseMerge)
        /\ UNCHANGED <<states, added, openMergeStack>>
    BY <1>8 DEF SelectIncomplete, bookVars
  <2>2. \A h \in Handler, p \in Point : reachedCloseMerge'[h][p] \subseteq reachedCloseMerge[h][p]
    BY <2>1 DEF ReleaseStates
  <2>3. Live' = Live
    BY <2>1 DEF Live
  <2>. QED
    BY <1>0, <2>1, <2>2, <2>3, RegionsStay
<1>9. ASSUME InstructionDone \/ \E K \in SUBSET states : CheckMemoryUsage(K)
      PROVE  RegionInv'
  BY <1>1, <1>9 DEF InstructionDone, CheckMemoryUsage, handlerVars, bookVars
<1>10. CASE UpdateStates
  <2>1. DeleteStates(removed, UpdatedBase) /\ Live' = Live \ removed
    BY <1>10 DEF UpdateStates, Live, OnGoing
  <2>2. UpdatedBase \in SUBSET State /\ removed \in SUBSET State
    BY DEF TypeOK, UpdatedBase
  <2>3. \A h \in Handler, p \in Point : \A w \in reachedCloseMerge[h][p] : w \notin removed
    BY WaitersGoOn
  <2>. QED
    BY <1>2, <2>1, <2>2, <2>3
<1>11. CASE DoDumpStates
  <2>1. Live' = {}
    BY <1>11, Zenon DEF DoDumpStates, Live, BookInv
  <2>. QED
    BY <2>1, Zenon DEF RegionInv
<1>12. CASE UNCHANGED vars
  BY <1>1, <1>12 DEF vars, handlerVars, bookVars
<1>. QED
  BY <1>3, <1>4, <1>5, <1>6, <1>7, <1>8, <1>9, <1>10, <1>11, <1>12
  DEF Next, Instruction, MainLoop
-----------------------------------------------------------------------------
(***************************************************************************)
(* The inputs, when there is no memory cap.                                *)
(***************************************************************************)
LEMMA PathStep ==
  ASSUME ~PointerCalls, ~memoryCap, TypeOK, BookInv, StackInv, WaitInv, SearchInv,
         PathInv, [Next]_vars
  PROVE  PathInv'
<1>0. OnGoing \subseteq State /\ pc # "aborted"
  BY DEF TypeOK, OnGoing, Live, SearchInv
<1>1. ASSUME OnGoing' = OnGoing, \A t \in OnGoing : path'[t] = path[t], ended' = ended
      PROVE  PathInv'
  <2>1. \A t, u \in OnGoing : t # u => path'[t] \cap path'[u] = {}
    BY <1>1 DEF PathInv
  <2>2. \A t \in OnGoing : path'[t] # {} /\ path'[t] \cap ended' = {}
    BY <1>1 DEF PathInv
  <2>3. {path'[t] : t \in OnGoing} = {path[t] : t \in OnGoing}
    BY <1>1, Zenon
  <2>4. Input = ended' \cup UNION {path'[t] : t \in OnGoing}
    BY <1>1, <2>3 DEF PathInv
  <2>. QED
    BY <1>1, <2>1, <2>2, <2>4, Zenon DEF PathInv
<1>2. ASSUME NEW s \in handles, NEW ns \in State, NEW c \in SUBSET Input, Fork(s, ns, c)
      PROVE  PathInv'
  <2>1. /\ s \in OnGoing /\ ns \in State /\ ns \notin OnGoing
        /\ OnGoing' = OnGoing \cup {ns} /\ ended' = ended
    BY <1>2 DEF Fork, BookInv, OnGoing, Live
  <2>2. /\ path'[s] = path[s] \cap c /\ path'[ns] = path[s] \ c
        /\ \A t \in OnGoing \ {s} : path'[t] = path[t]
    BY <1>0, <1>2, <2>1 DEF Fork, TypeOK
  <2>3. path[s] \cap c # {} /\ path[s] \ c # {}
    BY <1>2 DEF Fork
  <2>4. path'[s] \cup path'[ns] = path[s] /\ path'[s] \cap path'[ns] = {}
    BY <2>2
  <2>5. ASSUME NEW t \in OnGoing', NEW u \in OnGoing', t # u
        PROVE  path'[t] \cap path'[u] = {}
    BY <2>1, <2>2, <2>4, <2>5 DEF PathInv
  <2>6. ASSUME NEW t \in OnGoing'
        PROVE  path'[t] # {} /\ path'[t] \cap ended' = {}
    BY <2>1, <2>2, <2>3, <2>6 DEF PathInv
  <2>7. Input = ended' \cup UNION {path'[t] : t \in OnGoing'}
    <3>1. UNION {path'[t] : t \in OnGoing'} = UNION {path[t] : t \in OnGoing}
      <4>1. ASSUME NEW x, NEW t \in OnGoing', x \in path'[t]
            PROVE  \E u \in OnGoing : x \in path[u]
        BY <2>1, <2>2, <2>4, <4>1
      <4>2. ASSUME NEW x, NEW t \in OnGoing, x \in path[t]
            PROVE  \E u \in OnGoing' : x \in path'[u]
        BY <2>1, <2>2, <2>4, <4>2
      <4>. QED
        BY <4>1, <4>2
    <3>. QED
      BY <2>1, <3>1 DEF PathInv
  <2>. QED
    BY <2>5, <2>6, <2>7 DEF PathInv
<1>3. ASSUME NEW s \in OnGoing, OnGoing' = OnGoing \ {s}, ended' = ended \cup path[s],
             \A t \in OnGoing \ {s} : path'[t] = path[t]
      PROVE  PathInv'
  <2>1. ASSUME NEW t \in OnGoing', NEW u \in OnGoing', t # u
        PROVE  path'[t] \cap path'[u] = {}
    BY <1>3, <2>1 DEF PathInv
  <2>2. ASSUME NEW t \in OnGoing'
        PROVE  path'[t] # {} /\ path'[t] \cap ended' = {}
    BY <1>3, <2>2 DEF PathInv
  <2>3. Input = ended' \cup UNION {path'[t] : t \in OnGoing'}
    BY <1>3 DEF PathInv
  <2>. QED
    BY <2>1, <2>2, <2>3 DEF PathInv
<1>4. ASSUME NEW s \in handles, TerminateState(s)
      PROVE  PathInv'
  <2>1. s \in OnGoing /\ ended' = ended \cup path[s]
    BY <1>4 DEF TerminateState, BookInv
  <2>2. OnGoing' = OnGoing \ {s}
    BY <1>4, <2>1 DEF TerminateState, BookInv, OnGoing, Live
  <2>3. \A t \in OnGoing \ {s} : path'[t] = path[t]
    BY <1>0, <1>4, Zenon DEF TerminateState, DeleteStates
  <2>. QED
    BY <1>3, <2>1, <2>2, <2>3
<1>5. ASSUME NEW s \in handles, NEW h \in Handler, OpenMerge(s, h)
      PROVE  PathInv'
  BY <1>1, <1>5 DEF OpenMerge, OnGoing, Live, bookVars
<1>6. ASSUME NEW es \in handles, NEW p \in Point, CloseMerge(es, p)
      PROVE  PathInv'
  <2>1. PICK h \in Handler :
          /\ es \in State /\ pc = "execute"
          /\ Absorbed(es, h, p) \/ Waits(es, h, p)
          /\ UNCHANGED <<current, states, added, ended>>
    BY <1>6, CloseCases, Zenon
  <2>2. es \in OnGoing /\ es \notin pausedStates
    BY <2>1 DEF BookInv, SearchInv
  <2>3. CASE Waits(es, h, p)
    BY <1>1, <2>1, <2>3 DEF Waits, OnGoing, Live
  <2>4. CASE Absorbed(es, h, p)
    <3>1. PICK m \in reachedCloseMerge[h][p] :
            path' = Merged(m, es) /\ removed' = removed \cup {es}
      BY <2>4, Zenon DEF Absorbed
    <3>2. m \in State /\ m \in pausedStates /\ m \in OnGoing
      BY <1>0, WaiterPaused, WaitersGoOn DEF OnGoing, Live
    <3>3. m # es /\ OnGoing' = OnGoing \ {es} /\ ended' = ended
      BY <2>1, <2>2, <3>1, <3>2, Zenon DEF OnGoing, Live
    <3>4. /\ path'[m] = path[m] \cup path[es]
          /\ \A t \in OnGoing \ {m} : path'[t] = path[t]
      BY <1>0, <3>1, <3>2 DEF Merged, TypeOK
    <3>5. ASSUME NEW t \in OnGoing', NEW u \in OnGoing', t # u
          PROVE  path'[t] \cap path'[u] = {}
      BY <2>2, <3>2, <3>3, <3>4, <3>5, Zenon DEF PathInv
    <3>6. ASSUME NEW t \in OnGoing'
          PROVE  path'[t] # {} /\ path'[t] \cap ended' = {}
      BY <2>2, <3>2, <3>3, <3>4, <3>6, Zenon DEF PathInv
    <3>7. Input = ended' \cup UNION {path'[t] : t \in OnGoing'}
      <4>1. UNION {path'[t] : t \in OnGoing'} = UNION {path[t] : t \in OnGoing}
        <5>1. ASSUME NEW x, NEW t \in OnGoing', x \in path'[t]
              PROVE  \E u \in OnGoing : x \in path[u]
          BY <2>2, <3>2, <3>3, <3>4, <5>1
        <5>2. ASSUME NEW x, NEW t \in OnGoing, x \in path[t]
              PROVE  \E u \in OnGoing' : x \in path'[u]
          BY <2>2, <3>2, <3>3, <3>4, <5>2
        <5>. QED
          BY <5>1, <5>2, Zenon
      <4>. QED
        BY <3>3, <4>1, Zenon DEF PathInv
    <3>. QED
      BY <3>5, <3>6, <3>7, Zenon DEF PathInv
  <2>. QED
    BY <2>1, <2>3, <2>4
<1>7. ASSUME NEW s \in State, SelectState(s) \/ \E R \in SUBSET Handler : SelectIncomplete(s, R)
      PROVE  PathInv'
  BY <1>1, <1>7 DEF SelectState, SelectIncomplete, OnGoing, Live, bookVars
<1>8. CASE InstructionDone
  BY <1>1, <1>8 DEF InstructionDone, OnGoing, Live, bookVars
<1>9. ASSUME NEW K \in SUBSET states, CheckMemoryUsage(K)
      PROVE  PathInv'
  BY <1>9, Zenon DEF CheckMemoryUsage, SearchInv
<1>10. CASE UpdateStates
  <2>1. OnGoing' = OnGoing /\ ended' = ended
    BY <1>10 DEF UpdateStates, OnGoing, Live
  <2>2. \A t \in OnGoing : path'[t] = path[t]
    BY <1>0, <1>10, Zenon DEF UpdateStates, DeleteStates, OnGoing
  <2>. QED
    BY <1>1, <2>1, <2>2
<1>11. CASE DoDumpStates
  <2>1. OnGoing' = {} /\ OnGoing = states
    BY <1>11 DEF DoDumpStates, OnGoing, Live, BookInv
  <2>2. ended' = ended \cup UNION {path[s] : s \in states}
    BY <1>11 DEF DoDumpStates
  <2>3. ended' = Input
    BY <2>1, <2>2 DEF PathInv
  <2>. QED
    BY <2>1, <2>3, Zenon DEF PathInv
<1>12. CASE UNCHANGED vars
  BY <1>1, <1>12 DEF vars, OnGoing, Live, bookVars
<1>. QED
  BY <1>2, <1>4, <1>5, <1>6, <1>7, <1>8, <1>9, <1>10, <1>11, <1>12
  DEF Next, Instruction, MainLoop
-----------------------------------------------------------------------------
(***************************************************************************)
(* The theorems.                                                           *)
(***************************************************************************)
LEMMA InitInv == Init => IInv
<1> SUFFICES ASSUME Init PROVE IInv
  OBVIOUS
<1>1. Live = {InitialState} /\ OnGoing = {InitialState} /\ InitialState \in State
  BY MergingAssumption DEF Init, Live, OnGoing
<1>2. <<>> \in Seq(Handler)
  BY EmptySeq
<1>3. \A t \in State : openMergeStack[t] = <<>>
  BY DEF Init
<1>4. TypeOK
  <2>1. openMergeStack \in [State -> Seq(Handler)]
    BY <1>2 DEF Init
  <2>2. /\ path \in [State -> SUBSET Input] /\ openStates \in [Handler -> SUBSET State]
        /\ reachedCloseMerge \in [Handler -> [Point -> SUBSET State]]
    BY DEF Init
  <2>. QED
    BY <1>1, <2>1, <2>2, Zenon DEF Init, TypeOK
<1>5. BookInv
  BY DEF Init, BookInv
<1>6. StackInv
  <2>1. \A h \in Handler : openStates[h] = {} /\ Holders(h) = {} /\ mergeGroups = {}
    BY <1>1, <1>3, EmptyElements DEF Init, Holders
  <2>2. \E n \in Nat : \A t \in State : Len(openMergeStack[t]) <= n
    BY <1>3, EmptyElements
  <2>. QED
    BY <1>3, <2>1, <2>2, EmptyElements, Zenon DEF StackInv
<1>7. \A h \in Handler, p \in Point : reachedCloseMerge[h][p] = {}
  BY DEF Init
<1>8. WaitInv
  BY <1>7 DEF Init, WaitInv, WaitOK, Unused
<1>9. SearchInv
  BY DEF Init, SearchInv
<1>10. RegionInv
  BY <1>1, <1>3, <1>7 DEF RegionInv
<1>11. PathInv
  <2>1. path[InitialState] = Input /\ ended = {}
    BY <1>1 DEF Init
  <2>. QED
    BY <1>1, <2>1, MergingAssumption DEF PathInv
<1>. QED
  BY <1>4, <1>5, <1>6, <1>8, <1>9, <1>10, <1>11 DEF IInv

\* The inductive invariant of merging holds of every run.
THEOREM Invariance == ~PointerCalls => (Spec => []IInv)
<1> SUFFICES ASSUME ~PointerCalls PROVE Spec => []IInv
  OBVIOUS
<1>1. IInv /\ [Next]_vars => IInv'
  <2> SUFFICES ASSUME IInv, [Next]_vars PROVE IInv'
    OBVIOUS
  <2>0. TypeOK /\ BookInv /\ StackInv /\ WaitInv /\ memoryCap' = memoryCap
    BY OptionsFixed DEF IInv
  <2>1. TypeOK'
    BY <2>0, TypeStep
  <2>2. BookInv'
    BY <2>0, BookStep
  <2>3. StackInv'
    BY <2>0, <2>1, <2>2, StackStep
  <2>4. WaitInv'
    BY <2>0, WaitStep
  <2>5. ASSUME ~memoryCap PROVE SearchInv' /\ RegionInv' /\ PathInv'
    <3>1. SearchInv /\ RegionInv /\ PathInv
      BY <2>5 DEF IInv
    <3>. QED
      BY <2>0, <2>5, <3>1, SearchStep, RegionStep, PathStep
  <2>. QED
    BY <2>0, <2>1, <2>2, <2>3, <2>4, <2>5 DEF IInv
<1>. QED
  BY <1>1, InitInv, PTL DEF Spec

\* Handlers and searcher agree about who waits and whom they wait for:
\* pausedStates, inCloseMerge and reachedCloseMerge tell of the same states,
\* openStates are the states with a reference, a handler is registered as
\* long as there is one; with or without a memory cap.
THEOREM HandlersAreExact == ~PointerCalls => (Spec => []HandlersExact)
<1> SUFFICES ASSUME ~PointerCalls PROVE Spec => []HandlersExact
  OBVIOUS
<1>1. IInv => HandlersExact
  <2> SUFFICES ASSUME IInv PROVE HandlersExact
    OBVIOUS
  <2>1. TypeOK /\ OpenStatesExact
    BY DEF IInv, StackInv, OpenStatesExact, Holders
  <2>2. ASSUME pc \notin {"aborted", "dangling"}
        PROVE  /\ pausedStates = UNION {Waiting(h) : h \in mergeGroups}
               /\ inCloseMerge = pausedStates
               /\ \A h, g \in Handler, p, q \in Point :
                    <<h, p>> # <<g, q>> => reachedCloseMerge[h][p] \cap reachedCloseMerge[g][q] = {}
    <3>1. /\ WaitOK(reachedCloseMerge, pausedStates, inCloseMerge)
          /\ Unused(mergeGroups, reachedCloseMerge)
      BY <2>2 DEF IInv, WaitInv
    <3>2. ASSUME NEW t \in pausedStates PROVE \E h \in mergeGroups : t \in Waiting(h)
      <4>1. t \in State
        BY <2>1 DEF TypeOK
      <4>2. PICK h \in Handler, p \in Point : t \in reachedCloseMerge[h][p]
        BY <3>1, <4>1 DEF WaitOK
      <4>3. h \in mergeGroups
        BY <3>1, <4>2 DEF Unused
      <4>. QED
        BY <4>2, <4>3 DEF Waiting
    <3>3. ASSUME NEW h \in mergeGroups, NEW t \in Waiting(h) PROVE t \in pausedStates
      <4>1. PICK p \in Point : t \in reachedCloseMerge[h][p]
        BY DEF Waiting
      <4>2. h \in Handler /\ t \in State
        BY <2>1, <4>1 DEF TypeOK
      <4>. QED
        BY <3>1, <4>1, <4>2 DEF WaitOK
    <3>4. pausedStates = UNION {Waiting(h) : h \in mergeGroups}
      BY <3>2, <3>3
    <3>5. inCloseMerge = pausedStates
      BY <3>1 DEF WaitOK
    <3>6. ASSUME NEW h \in Handler, NEW g \in Handler, NEW p \in Point, NEW q \in Point,
                 <<h, p>> # <<g, q>>,
                 NEW t \in reachedCloseMerge[h][p], t \in reachedCloseMerge[g][q]
          PROVE  FALSE
      <4>1. t \in State
        BY <2>1 DEF TypeOK
      <4>. QED
        BY <3>1, <3>6, <4>1 DEF WaitOK
    <3>. QED
      BY <3>4, <3>5, <3>6
  <2>. QED
    BY <2>1, <2>2 DEF HandlersExact, WaitersHeld
<1>. QED
  BY <1>1, Invariance, PTL

\* No state is lost between the executor, MergingSearcher and its base
\* searcher, and the asserts of handleCloseMerge, removeOpenState, pauseState
\* and the base searcher hold, when there is no memory cap.
THEOREM NobodyIsLost == ~PointerCalls => (Spec => []NobodyLost)
<1> SUFFICES ASSUME ~PointerCalls PROVE Spec => []NobodyLost
  OBVIOUS
<1>1. IInv => NobodyLost
  BY DEF IInv, SearchInv, NobodyLost, AssertsHold, NobodyForgotten
<1>. QED
  BY <1>1, Invariance, PTL

\* A state that waits at h has a shorter stack than the states it waits for.
LEMMA WaitersAreOutside ==
  ASSUME TypeOK, StackInv, WaitInv, RegionInv, pc # "aborted", NEW w \in pausedStates
  PROVE  \E t \in State : Len(openMergeStack[w]) < Len(openMergeStack[t])
<1>1. w \in State
  BY DEF TypeOK
<1>2. PICK h \in Handler, p \in Point : w \in reachedCloseMerge[h][p]
  BY <1>1 DEF WaitInv, WaitOK
<1>3. h \in mergeGroups
  BY <1>2 DEF WaitInv, Unused
<1>4. PICK t \in Live : h \in Elements(openMergeStack[t])
  BY <1>3 DEF StackInv, Holders
<1>5. AroundIn(h, openMergeStack[t]) = {openMergeStack[w]}
  BY <1>1, <1>2, <1>4 DEF RegionInv
<1>6. t \in State
  BY DEF TypeOK, Live
<1>7. PICK stk \in Seq(Handler) : stk = openMergeStack[t]
  BY <1>6 DEF TypeOK
<1>8. PICK i \in DOMAIN stk : SubSeq(stk, i + 1, Len(stk)) = openMergeStack[w]
  BY <1>4, <1>5, <1>7, Zenon DEF AroundIn, Elements
<1>9. i \in 1 .. Len(stk)
  OBVIOUS
<1>10. Len(SubSeq(stk, i + 1, Len(stk))) = Len(stk) - i
  <2>1. \A k \in i + 1 .. Len(stk) : stk[k] \in Handler
    BY <1>9
  <2>2. Len(SubSeq(stk, i + 1, Len(stk))) = IF i + 1 <= Len(stk) THEN Len(stk) - (i + 1) + 1 ELSE 0
    BY <1>9, <2>1, SubSeqProperties
  <2>. QED
    BY <1>9, <2>2
<1>11. Len(openMergeStack[w]) < Len(stk)
  BY <1>8, <1>9, <1>10
<1>. QED
  BY <1>6, <1>7, <1>11

\* A set of naturals has a least element.
LEMMA LeastNatural ==
  ASSUME NEW S, S \subseteq Nat, S # {}
  PROVE  \E x \in S : \A y \in S : ~(y < x)
<1> DEFINE R == {p \in Nat \X Nat : p[1] < p[2]}
<1>1. OpToRel(<, Nat) = R
  BY Zenon DEF OpToRel
<1>2. IsWellFoundedOn(R, Nat)
  BY <1>1, NatLessThanWellFounded, Zenon
<1> HIDE DEF R
<1>3. PICK x \in S : \A y \in S : ~(<<y, x>> \in R)
  BY <1>2, WFMin, Zenon
<1>4. ASSUME NEW y \in S, y < x PROVE <<y, x>> \in R
  <2>1. <<y, x>> \in Nat \X Nat /\ <<y, x>>[1] < <<y, x>>[2]
    BY <1>4
  <2>. QED
    BY <2>1 DEF R
<1>. QED
  BY <1>3, <1>4, Zenon

\* selectState's assert(!baseSearcher->empty()): while there are states, they
\* do not all wait for each other.  The one with the deepest stack cannot
\* wait, because it would wait for a deeper one.
THEOREM SomebodyAlwaysRuns == ~PointerCalls => (Spec => []SomebodyRuns)
<1> SUFFICES ASSUME ~PointerCalls PROVE Spec => []SomebodyRuns
  OBVIOUS
<1>1. IInv => SomebodyRuns
  <2> SUFFICES ASSUME IInv, pc = "select", states # {}, ~memoryCap, base = {}
               PROVE  FALSE
    BY DEF SomebodyRuns
  <2>1. /\ TypeOK /\ StackInv /\ WaitInv /\ RegionInv /\ pc # "aborted"
        /\ pausedStates = states /\ Live = states
    BY DEF IInv, SearchInv, BookInv, Live
  <2> DEFINE Bounds == {n \in Nat : \A t \in State : Len(openMergeStack[t]) <= n}
  <2>2. Bounds \subseteq Nat /\ Bounds # {}
    BY <2>1, Zenon DEF StackInv
  <2>3. PICK n \in Bounds : \A k \in Bounds : ~(k < n)
    BY <2>2, LeastNatural, Zenon
  <2>4. PICK s \in states : TRUE
    OBVIOUS
  <2>5. \A t \in State : Len(openMergeStack[t]) \in Nat
    <3>1. \A t \in State : openMergeStack[t] \in Seq(Handler)
      BY <2>1, Zenon DEF TypeOK
    <3>. QED
      BY <3>1, LenProperties, Zenon
  <2>6. \A w \in states : Len(openMergeStack[w]) < n
    <3> TAKE w \in states
    <3>1. PICK t \in State : Len(openMergeStack[w]) < Len(openMergeStack[t])
      BY <2>1, WaitersAreOutside
    <3>2. w \in State
      BY <2>1 DEF TypeOK
    <3>. QED
      BY <2>5, <3>1, <3>2
  <2>7. n \in Nat /\ n > 0
    BY <2>1, <2>4, <2>5, <2>6 DEF TypeOK
  <2>8. \A t \in State : Len(openMergeStack[t]) <= n - 1
    <3> TAKE t \in State
    <3>1. CASE Len(openMergeStack[t]) = n
      <4>1. t \in Live
        BY <2>1, <2>7, <3>1, EmptyElements DEF StackInv
      <4>2. t \notin states
        BY <2>6, <2>7, <3>1
      <4>. QED
        BY <2>1, <4>1, <4>2
    <3>2. Len(openMergeStack[t]) \in Nat /\ Len(openMergeStack[t]) <= n
      BY <2>5
    <3>. QED
      BY <2>7, <3>1, <3>2
  <2>9. n - 1 \in Bounds /\ n - 1 < n
    BY <2>7, <2>8
  <2>. QED
    BY <2>3, <2>9, Zenon
<1>. QED
  BY <1>1, Invariance, PTL

\* Merging loses no input and follows none twice, and the states that wait at
\* a handler are in the same outer regions as the ones they wait for: merge
\* does not compare openMergeStacks, and need not.
THEOREM InputsAreKept == ~PointerCalls => (Spec => []InputsKept)
<1> SUFFICES ASSUME ~PointerCalls PROVE Spec => []InputsKept
  OBVIOUS
<1>1. IInv => InputsKept
  <2> SUFFICES ASSUME IInv PROVE InputsKept
    OBVIOUS
  <2>1. PathsPartition
    BY DEF IInv, PathInv, PathsPartition
  <2>2. ASSUME pc # "aborted", ~memoryCap, NEW h \in mergeGroups, NEW t \in openStates[h]
        PROVE  /\ \A u \in openStates[h] : Around(h, u) = Around(h, t)
               /\ \A w \in Waiting(h) : Around(h, t) = {openMergeStack[w]}
    <3>1. TypeOK /\ StackInv /\ RegionInv /\ h \in Handler
      BY <2>2 DEF IInv, TypeOK
    <3>2. \A u : Around(h, u) = AroundIn(h, openMergeStack[u])
      BY Zenon DEF Around, AroundIn
    <3>3. \A u \in openStates[h] : u \in Live /\ h \in Elements(openMergeStack[u])
      BY <3>1 DEF StackInv, Holders
    <3>4. \A u \in openStates[h] : Around(h, u) = Around(h, t)
      BY <3>1, <3>2, <3>3 DEF RegionInv
    <3>5. ASSUME NEW w \in Waiting(h) PROVE Around(h, t) = {openMergeStack[w]}
      <4>1. PICK p \in Point : w \in reachedCloseMerge[h][p]
        BY DEF Waiting
      <4>2. w \in State
        BY <3>1, <4>1 DEF TypeOK
      <4>. QED
        BY <3>1, <3>2, <3>3, <4>1, <4>2 DEF RegionInv
    <3>. QED
      BY <3>4, <3>5
  <2>. QED
    BY <2>1, <2>2 DEF InputsKept, RegionsAgree
<1>. QED
  BY <1>1, Invariance, PTL

\* Without a memory cap, the states are created, deleted and selected only as
\* the process tree allows: MergingSearcher hands out no state that is gone.
THEOREM ImplementsPool == ~PointerCalls => (Spec => PoolSpec)
<1> SUFFICES ASSUME ~PointerCalls PROVE Spec => PoolSpec
  OBVIOUS
<1>1. Init => Pool!Init
  BY DEF Init, Pool!Init, Live
<1>2. IInv /\ IInv' /\ [Next]_vars => [memoryCap \/ Pool!Next]_<<Live, current>>
  <2> SUFFICES ASSUME IInv, IInv', [Next]_vars, ~memoryCap
               PROVE  Pool!Next \/ (Live' = Live /\ current' = current)
    BY DEF Live
  <2>t. Live \subseteq State /\ Live' \subseteq State
    BY DEF IInv, TypeOK, Live
  <2>c. current' = current /\ Live # {} => Pool!Next
    <3> SUFFICES ASSUME current' = current, Live # {} PROVE Pool!Next
      OBVIOUS
    <3> DEFINE S == Live' \ Live
               D == Live \ Live'
    <3>1. S \in SUBSET State /\ D \in SUBSET State
      BY <2>t
    <3>2. Pool!Change(S, D)
      BY <2>t DEF Pool!Change
    <3> HIDE DEF S, D
    <3> QED BY <3>1, <3>2 DEF Pool!Next
  <2>1. ASSUME NEW s \in State, SelectState(s) \/ \E R \in SUBSET Handler : SelectIncomplete(s, R)
        PROVE  Pool!Next
    <3>1. Live' = Live /\ current' = s
      BY <2>1 DEF SelectState, SelectIncomplete, bookVars, Live
    <3>2. base \subseteq Live /\ base' \subseteq Live
      <4>1. SearchInv /\ SearchInv'
        BY OptionsFixed DEF IInv
      <4>. QED
        BY <3>1, <4>1 DEF SearchInv, Live
    <3>3. \A h \in mergeGroups : openStates[h] \subseteq Live
      BY Zenon DEF IInv, TypeOK, StackInv, Holders
    <3>4. s \in Live
      BY <2>1, <3>2, <3>3, Zenon DEF SelectState, SelectIncomplete, PrioritizeStates
    <3> QED BY <3>1, <3>4 DEF Pool!Next, Pool!Select
  <2>2. CASE Instruction
    <3>1. PICK s \in handles : TRUE
      BY <2>2 DEF Instruction
    <3>2. Live # {}
      <4>1. pc = "execute"
        BY <2>2, Zenon DEF Instruction, Fork, TerminateState, OpenMerge, CloseMerge
      <4>. QED
        BY <3>1, <4>1 DEF IInv, BookInv, OnGoing
    <3>3. current' = current
      BY <2>2, Zenon DEF Instruction, Fork, TerminateState, OpenMerge, CloseMerge
    <3> QED BY <2>c, <3>2, <3>3
  <2>3. CASE InstructionDone \/ UNCHANGED vars
    BY <2>3 DEF InstructionDone, vars, bookVars, Live
  <2>4. ASSUME NEW K \in SUBSET states, CheckMemoryUsage(K)
        PROVE  Live' = Live /\ current' = current
    BY <2>4 DEF CheckMemoryUsage, Live
  <2>5. CASE UpdateStates \/ DoDumpStates
    <3>1. current' = current
      BY <2>5, Zenon DEF UpdateStates, DoDumpStates
    <3>2. Live = {} => Live' = {}
      BY <2>5 DEF UpdateStates, DoDumpStates, Live, OnGoing
    <3> QED BY <2>c, <3>1, <3>2
  <2> QED BY <2>1, <2>2, <2>3, <2>4, <2>5 DEF Next, MainLoop
<1>. QED
  BY <1>1, <1>2, Invariance, PTL DEF Spec, PoolSpec
=============================================================================
