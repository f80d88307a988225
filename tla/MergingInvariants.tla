-------------------------- MODULE MergingInvariants --------------------------
(***************************************************************************)
(* The inductive invariant of Merging, and proofs that every step keeps    *)
(* its first half: the books of the executor, the stacks of open regions   *)
(* and the lists of waiting states.  MergingProofs has the second half,    *)
(* which needs that there is no memory cap, and the theorems.              *)
(***************************************************************************)
EXTENDS Merging, SequenceTheorems, WellFoundedInduction, TLAPS

NoDuplicates(seq) == \A i, j \in DOMAIN seq : seq[i] = seq[j] => i = j

\* Around, of a stack.
AroundIn(h, stk) == {SubSeq(stk, i + 1, Len(stk)) : i \in {j \in DOMAIN stk : stk[j] = h}}

\* The states with a reference to h.
Holders(h) == {t \in Live : h \in Elements(openMergeStack[t])}

\* The books of the executor: the lists are lists of existing states, empty
\* between two instructions, and an instruction works on the current state
\* and the ones it has forked, as long as they go on.
BookInv ==
  /\ added \cap states = {}
  /\ removed \subseteq states
  /\ pc = "select" => added = {} /\ removed = {}
  /\ pc = "execute" => handles \subseteq OnGoing /\ handles \subseteq added \cup {current}

\* The stacks: a handler is on a stack at most once, the openStates are the
\* states with a reference, and there is a deepest stack.
StackInv ==
  /\ \A t \in State \ Live : openMergeStack[t] = <<>>
  /\ \A t \in State : NoDuplicates(openMergeStack[t])
  /\ \A h \in Handler : openStates[h] = Holders(h)
  /\ \A h \in Handler : h \in mergeGroups <=> openStates[h] # {}
  /\ \E n \in Nat : \A t \in State : Len(openMergeStack[t]) <= n

\* The paused states are the ones that wait, each of them in one place.
WaitOK(reached, paused, closing) ==
  /\ closing = paused
  /\ \A t \in State : t \in paused <=> \E h \in Handler, p \in Point : t \in reached[h][p]
  /\ \A h, g \in Handler, p, q \in Point, t \in State :
       t \in reached[h][p] /\ t \in reached[g][q] => h = g /\ p = q

\* Only a registered handler has states waiting.
Unused(groups, reached) == \A h \in Handler \ groups, p \in Point : reached[h][p] = {}

WaitInv ==
  pc # "aborted" => /\ WaitOK(reachedCloseMerge, pausedStates, inCloseMerge)
                    /\ Unused(mergeGroups, reachedCloseMerge)

\* The searchers share the states of the executor between them.  What was
\* paused is none of the states an instruction goes on with; when the current
\* state is paused there is nothing in the update that is swallowed.
SearchInv ==
  /\ pc \notin {"aborted", "memory"}
  /\ base \cup pausedStates = states
  /\ base \cap pausedStates = {}
  /\ pausedStates \cap removed = {}
  /\ pc = "execute" => handles \cap pausedStates = {}
  /\ pc \in {"execute", "update"} /\ current \in pausedStates =>
       added = {} /\ removed = {} /\ handles = {}

\* The regions around a handler are the same for all who are in it, and for
\* those who wait to leave it.
RegionInv ==
  /\ \A h \in Handler, t, u \in Live :
       h \in Elements(openMergeStack[t]) /\ h \in Elements(openMergeStack[u]) =>
         AroundIn(h, openMergeStack[t]) = AroundIn(h, openMergeStack[u])
  /\ \A h \in Handler, p \in Point, t \in Live, w \in State :
       h \in Elements(openMergeStack[t]) /\ w \in reachedCloseMerge[h][p] =>
         AroundIn(h, openMergeStack[t]) = {openMergeStack[w]}

PathInv ==
  /\ \A s, t \in OnGoing : s # t => path[s] \cap path[t] = {}
  /\ \A s \in OnGoing : path[s] # {} /\ path[s] \cap ended = {}
  /\ Input = ended \cup UNION {path[s] : s \in OnGoing}

IInv ==
  /\ TypeOK /\ BookInv /\ StackInv /\ WaitInv
  /\ ~memoryCap => SearchInv /\ RegionInv /\ PathInv
-----------------------------------------------------------------------------
(***************************************************************************)
(* Stacks.                                                                 *)
(***************************************************************************)
\* klee_open_merge: what the new handler does to a stack.
LEMMA ConsFacts ==
  ASSUME NEW h \in Handler, NEW stk \in Seq(Handler)
  PROVE  /\ <<h>> \o stk \in Seq(Handler)
         /\ Len(<<h>> \o stk) = Len(stk) + 1
         /\ (<<h>> \o stk)[1] = h
         /\ \A i \in 1 .. Len(stk) : (<<h>> \o stk)[i + 1] = stk[i]
         /\ Elements(<<h>> \o stk) = {h} \cup Elements(stk)
<1> DEFINE new == <<h>> \o stk
<1>1. new \in Seq(Handler) /\ Len(new) = Len(stk) + 1 /\ new[1] = h
  BY ConcatProperties
<1>2. \A i \in 1 .. Len(stk) : new[i + 1] = stk[i]
  BY ConcatProperties
<1>3. DOMAIN new = 1 .. Len(stk) + 1 /\ DOMAIN stk = 1 .. Len(stk)
  BY <1>1
<1> HIDE DEF new
<1>4. Elements(new) = {h} \cup Elements(stk)
  <2>1. ASSUME NEW x \in Elements(new) PROVE x \in {h} \cup Elements(stk)
    <3>1. PICK i \in 1 .. Len(stk) + 1 : x = new[i]
      BY <1>3 DEF Elements
    <3>2. CASE i = 1
      BY <3>1, <3>2, <1>1
    <3>3. CASE i # 1
      <4>1. i - 1 \in 1 .. Len(stk) /\ (i - 1) + 1 = i
        BY <3>3
      <4>. QED
        BY <4>1, <3>1, <1>2, <1>3, Zenon DEF Elements
    <3>. QED
      BY <3>2, <3>3
  <2>2. h \in Elements(new)
    BY <1>1, <1>3 DEF Elements
  <2>3. ASSUME NEW x \in Elements(stk) PROVE x \in Elements(new)
    <3>1. PICK i \in 1 .. Len(stk) : x = stk[i]
      BY <1>3 DEF Elements
    <3>2. i + 1 \in 1 .. Len(stk) + 1 /\ new[i + 1] = x
      BY <3>1, <1>2
    <3>. QED
      BY <3>2, <1>3 DEF Elements
  <2>. QED
    BY <2>1, <2>2, <2>3
<1>. QED
  BY <1>1, <1>2, <1>4 DEF new

\* No handler is on a stack twice.
LEMMA ConsDistinct ==
  ASSUME NEW h \in Handler, NEW stk \in Seq(Handler)
  PROVE  NoDuplicates(<<h>> \o stk) <=> NoDuplicates(stk) /\ h \notin Elements(stk)
<1> DEFINE new == <<h>> \o stk
<1>1. new \in Seq(Handler) /\ Len(new) = Len(stk) + 1 /\ new[1] = h
  BY ConsFacts
<1>2. \A i \in 1 .. Len(stk) : new[i + 1] = stk[i]
  BY ConsFacts
<1>3. DOMAIN new = 1 .. Len(stk) + 1 /\ DOMAIN stk = 1 .. Len(stk)
  BY <1>1
<1> HIDE DEF new
<1>4. ASSUME NoDuplicates(new) PROVE NoDuplicates(stk) /\ h \notin Elements(stk)
  <2>1. ASSUME NEW i \in 1 .. Len(stk), NEW j \in 1 .. Len(stk), stk[i] = stk[j]
        PROVE  i = j
    <3>1. i + 1 \in DOMAIN new /\ j + 1 \in DOMAIN new /\ new[i + 1] = new[j + 1]
      BY <2>1, <1>2, <1>3
    <3>2. i + 1 = j + 1
      BY <3>1, <1>4 DEF NoDuplicates
    <3>. QED
      BY <3>2
  <2>2. ASSUME NEW i \in 1 .. Len(stk), stk[i] = h PROVE FALSE
    <3>1. i + 1 \in DOMAIN new /\ 1 \in DOMAIN new /\ new[i + 1] = new[1]
      BY <2>2, <1>1, <1>2, <1>3
    <3>2. i + 1 = 1
      BY <3>1, <1>4 DEF NoDuplicates
    <3>. QED
      BY <3>2
  <2>. QED
    BY <2>1, <2>2, <1>3 DEF NoDuplicates, Elements
<1>5. ASSUME NoDuplicates(stk), h \notin Elements(stk),
             NEW i \in DOMAIN new, NEW j \in DOMAIN new, new[i] = new[j]
      PROVE  i = j
  <2>0. i \in 1 .. Len(stk) + 1 /\ j \in 1 .. Len(stk) + 1
    BY <1>3
  <2>1. \A k \in 1 .. Len(stk) + 1 : k # 1 => new[k] = stk[k - 1] /\ k - 1 \in DOMAIN stk
    <3> TAKE k \in 1 .. Len(stk) + 1
    <3> HAVE k # 1
    <3>1. k - 1 \in 1 .. Len(stk) /\ (k - 1) + 1 = k
      OBVIOUS
    <3>. QED
      BY <3>1, <1>2, <1>3
  <2>2. CASE i # 1 /\ j # 1
    <3>1. i - 1 = j - 1
      BY <2>0, <2>1, <2>2, <1>5 DEF NoDuplicates
    <3>. QED
      BY <3>1, <2>0
  <2>3. CASE i = 1 /\ j # 1
    BY <2>0, <2>1, <2>3, <1>1, <1>5 DEF Elements
  <2>4. CASE i # 1 /\ j = 1
    BY <2>0, <2>1, <2>4, <1>1, <1>5 DEF Elements
  <2>. QED
    BY <2>2, <2>3, <2>4
<1>. QED
  BY <1>4, <1>5 DEF NoDuplicates, new

\* The regions around a handler stay what they are when another is opened
\* inside, and the regions around the new one are the stack as it was.
LEMMA ConsAround ==
  ASSUME NEW h \in Handler, NEW stk \in Seq(Handler)
  PROVE  /\ \A g \in Handler \ {h} : AroundIn(g, <<h>> \o stk) = AroundIn(g, stk)
         /\ h \notin Elements(stk) => AroundIn(h, <<h>> \o stk) = {stk}
<1> DEFINE new == <<h>> \o stk
           Rest(i) == SubSeq(stk, i + 1, Len(stk))
           NewRest(i) == SubSeq(new, i + 1, Len(new))
<1>1. new \in Seq(Handler) /\ Len(new) = Len(stk) + 1 /\ new[1] = h
  BY ConsFacts
<1>2. \A i \in 1 .. Len(stk) : new[i + 1] = stk[i]
  BY ConsFacts
<1>3. DOMAIN new = 1 .. Len(stk) + 1 /\ DOMAIN stk = 1 .. Len(stk)
  BY <1>1
<1> HIDE DEF new
<1>4. \A i \in 0 .. Len(stk) : NewRest(i + 1) = Rest(i)
  <2> TAKE i \in 0 .. Len(stk)
  <2>1. /\ Rest(i) \in Seq(Handler) /\ Len(Rest(i)) = Len(stk) - i
        /\ \A k \in 1 .. Len(stk) - i : Rest(i)[k] = stk[i + k]
    <3>1. \A k \in i + 1 .. Len(stk) : stk[k] \in Handler
      BY <1>3
    <3>2. \A k \in 1 .. Len(stk) - i : ((i + 1) + k) - 1 = i + k
      OBVIOUS
    <3>. QED
      BY <3>1, <3>2, SubSeqProperties
  <2>2. /\ NewRest(i + 1) \in Seq(Handler) /\ Len(NewRest(i + 1)) = Len(stk) - i
        /\ \A k \in 1 .. Len(stk) - i : NewRest(i + 1)[k] = new[(i + 1) + k]
    <3>1. \A k \in (i + 1) + 1 .. Len(new) : new[k] \in Handler
      BY <1>1, <1>3
    <3>2. \A k \in 1 .. Len(stk) - i : (((i + 1) + 1) + k) - 1 = (i + 1) + k
      OBVIOUS
    <3>. QED
      BY <3>1, <3>2, <1>1, SubSeqProperties
  <2>3. \A k \in 1 .. Len(stk) - i : new[(i + 1) + k] = stk[i + k]
    <3> TAKE k \in 1 .. Len(stk) - i
    <3>1. i + k \in 1 .. Len(stk) /\ (i + 1) + k = (i + k) + 1
      OBVIOUS
    <3>. QED
      BY <3>1, <1>2
  <2> HIDE DEF Rest, NewRest
  <2>4. \A k \in 1 .. Len(stk) - i : NewRest(i + 1)[k] = Rest(i)[k]
    BY <2>1, <2>2, <2>3
  <2>. QED
    BY <2>1, <2>2, <2>4, SeqEqual, Zenon
<1>5. Rest(0) = stk
  BY SubSeqFull
<1> HIDE DEF Rest, NewRest
<1>6. ASSUME NEW g \in Handler \ {h} PROVE AroundIn(g, new) = AroundIn(g, stk)
  <2>1. ASSUME NEW i \in DOMAIN stk, stk[i] = g
        PROVE  i + 1 \in DOMAIN new /\ new[i + 1] = g /\ NewRest(i + 1) = Rest(i)
    BY <2>1, <1>2, <1>3, <1>4
  <2>2. ASSUME NEW i \in DOMAIN new, new[i] = g
        PROVE  \E j \in DOMAIN stk : stk[j] = g /\ NewRest(i) = Rest(j)
    <3>1. i \in 1 .. Len(stk) + 1 /\ i # 1
      BY <2>2, <1>1, <1>3
    <3>2. i - 1 \in 1 .. Len(stk) /\ (i - 1) + 1 = i
      BY <3>1
    <3>. QED
      BY <3>2, <2>2, <1>2, <1>3, <1>4
  <2>. QED
    BY <2>1, <2>2, Zenon DEF AroundIn, Rest, NewRest
<1>7. ASSUME h \notin Elements(stk) PROVE AroundIn(h, new) = {stk}
  <2>1. ASSUME NEW i \in DOMAIN new, new[i] = h PROVE i = 1
    <3>1. CASE i # 1
      <4>1. i - 1 \in 1 .. Len(stk) /\ (i - 1) + 1 = i
        BY <3>1, <1>3
      <4>. QED
        BY <4>1, <2>1, <1>2, <1>3, <1>7 DEF Elements
    <3>. QED
      BY <3>1
  <2>2. 1 \in DOMAIN new /\ new[1] = h
    BY <1>1, <1>3
  <2>3. NewRest(1) = stk
    BY <1>4, <1>5
  <2>. QED
    BY <2>1, <2>2, <2>3, Zenon DEF AroundIn, NewRest
<1>. QED
  BY <1>6, <1>7 DEF new

\* klee_close_merge pops what klee_open_merge pushed.
LEMMA TailFacts ==
  ASSUME NEW stk \in Seq(Handler), stk # <<>>
  PROVE  /\ Head(stk) \in Handler
         /\ Tail(stk) \in Seq(Handler)
         /\ <<Head(stk)>> \o Tail(stk) = stk
<1>1. Head(stk) \in Handler /\ Tail(stk) \in Seq(Handler)
  BY HeadTailProperties
<1>2. <<Head(stk)>> \o Tail(stk) = stk
  BY HeadTailProperties, ConcatProperties
<1>. QED
  BY <1>1, <1>2
-----------------------------------------------------------------------------
(***************************************************************************)
(* Releasing and destroying.                                               *)
(***************************************************************************)
\* The handlers that die when the openMergeStacks become openMergeStack'.
Dying == {h \in mergeGroups : \A t \in State : h \notin Elements(openMergeStack'[t])}

\* releaseStates keeps every variable within its type.
LEMMA ReleaseTyped ==
  ASSUME NEW H \in SUBSET Handler, NEW reached \in [Handler -> [Point -> SUBSET State]],
         NEW paused \in SUBSET State, NEW bs \in SUBSET State, NEW closing \in SUBSET State,
         ReleaseStates(H, reached, paused, bs, closing)
  PROVE  /\ reachedCloseMerge' \in [Handler -> [Point -> SUBSET State]]
         /\ pausedStates' \subseteq State
         /\ base' \subseteq State
         /\ inCloseMerge' \subseteq State
<1>1. [p \in Point |-> {}] \in [Point -> SUBSET State]
  OBVIOUS
<1>2. reachedCloseMerge' \in [Handler -> [Point -> SUBSET State]]
  BY <1>1 DEF ReleaseStates
<1>3. UNION {reached[h][p] : h \in H, p \in Point} \subseteq State
  OBVIOUS
<1>. QED
  BY <1>2, <1>3 DEF ReleaseStates

\* Some of the paused states go back to the base searcher.
Moves(bs, paused) ==
  \E W \in SUBSET paused : base' = bs \cup W /\ pausedStates' = paused \ W

\* What releaseStates does for the handlers H to who waits: the states of H
\* go back to the base searcher, the others stay where they are.
LEMMA ReleaseWaits ==
  ASSUME NEW H \in SUBSET Handler, NEW reached \in [Handler -> [Point -> SUBSET State]],
         NEW paused \in SUBSET State, NEW bs \in SUBSET State, NEW closing \in SUBSET State,
         ReleaseStates(H, reached, paused, bs, closing),
         WaitOK(reached, paused, closing)
  PROVE  /\ WaitOK(reachedCloseMerge', pausedStates', inCloseMerge')
         /\ Moves(bs, paused)
<1> DEFINE W == UNION {reached[h][p] : h \in H, p \in Point}
<1>1. \A h \in H, p \in Point : reachedCloseMerge'[h][p] = {}
  BY DEF ReleaseStates
<1>2. \A h \in Handler \ H : reachedCloseMerge'[h] = reached[h]
  BY DEF ReleaseStates
<1>3. pausedStates' = paused \ W /\ base' = bs \cup W /\ inCloseMerge' = closing \ W
  BY DEF ReleaseStates
<1>4. \A t \in State : t \in W <=> \E h \in H, p \in Point : t \in reached[h][p]
  OBVIOUS
<1> HIDE DEF W
<1>5. W \subseteq paused
  <2>1. W \subseteq State
    BY DEF W
  <2>. QED
    BY <2>1, <1>4 DEF WaitOK
<1>6. WaitOK(reachedCloseMerge', pausedStates', inCloseMerge')
  <2>1. inCloseMerge' = pausedStates'
    BY <1>3 DEF WaitOK
  <2>2. ASSUME NEW t \in State
        PROVE  t \in pausedStates' <=> \E h \in Handler, p \in Point : t \in reachedCloseMerge'[h][p]
    <3>1. ASSUME t \in pausedStates'
          PROVE  \E h \in Handler, p \in Point : t \in reachedCloseMerge'[h][p]
      <4>1. PICK h \in Handler, p \in Point : t \in reached[h][p]
        BY <3>1, <1>3 DEF WaitOK
      <4>2. h \notin H
        BY <4>1, <3>1, <1>3, <1>4
      <4>. QED
        BY <4>1, <4>2, <1>2
    <3>2. ASSUME NEW h \in Handler, NEW p \in Point, t \in reachedCloseMerge'[h][p]
          PROVE  t \in pausedStates'
      <4>1. h \notin H /\ t \in reached[h][p]
        BY <3>2, <1>1, <1>2
      <4>2. t \in paused
        BY <4>1 DEF WaitOK
      <4>3. t \notin W
        BY <4>1, <1>4 DEF WaitOK
      <4>. QED
        BY <4>2, <4>3, <1>3
    <3>. QED
      BY <3>1, <3>2
  <2>3. ASSUME NEW h \in Handler, NEW g \in Handler, NEW p \in Point, NEW q \in Point,
               NEW t \in State, t \in reachedCloseMerge'[h][p], t \in reachedCloseMerge'[g][q]
        PROVE  h = g /\ p = q
    BY <2>3, <1>1, <1>2 DEF WaitOK
  <2>. QED
    BY <2>1, <2>2, <2>3 DEF WaitOK
<1>. QED
  BY <1>3, <1>5, <1>6 DEF Moves

\* The destructor of MergeHandler unregisters the handlers that die.
LEMMA DestroyFacts ==
  ASSUME NEW reached \in [Handler -> [Point -> SUBSET State]],
         NEW paused \in SUBSET State, NEW bs \in SUBSET State, NEW closing \in SUBSET State,
         mergeGroups \subseteq Handler,
         DestroyHandlers(reached, paused, bs, closing)
  PROVE  /\ Dying \in SUBSET Handler
         /\ mergeGroups' = mergeGroups \ Dying
         /\ ReleaseStates(Dying, reached, paused, bs, closing)
BY DEF DestroyHandlers, Dying

\* After the destructors, only registered handlers have states waiting.
LEMMA DestroyWaits ==
  ASSUME NEW reached \in [Handler -> [Point -> SUBSET State]],
         NEW paused \in SUBSET State, NEW bs \in SUBSET State, NEW closing \in SUBSET State,
         mergeGroups \subseteq Handler,
         DestroyHandlers(reached, paused, bs, closing),
         WaitOK(reached, paused, closing), Unused(mergeGroups, reached)
  PROVE  /\ WaitOK(reachedCloseMerge', pausedStates', inCloseMerge')
         /\ Unused(mergeGroups', reachedCloseMerge')
         /\ \A h \in Handler, p \in Point : reachedCloseMerge'[h][p] \subseteq reached[h][p]
         /\ Moves(bs, paused)
<1>1. PICK H \in SUBSET Handler :
        mergeGroups' = mergeGroups \ H /\ ReleaseStates(H, reached, paused, bs, closing)
  BY DestroyFacts
<1>2. WaitOK(reachedCloseMerge', pausedStates', inCloseMerge')
  BY <1>1, ReleaseWaits
<1>3. \A h \in H, p \in Point : reachedCloseMerge'[h][p] = {}
  BY <1>1 DEF ReleaseStates
<1>4. \A h \in Handler \ H : reachedCloseMerge'[h] = reached[h]
  BY <1>1 DEF ReleaseStates
<1>5. Moves(bs, paused)
  BY <1>1, ReleaseWaits, Zenon
<1>6. Unused(mergeGroups', reachedCloseMerge')
  BY <1>1, <1>3, <1>4 DEF Unused
<1>7. ASSUME NEW h \in Handler, NEW p \in Point
      PROVE  reachedCloseMerge'[h][p] \subseteq reached[h][p]
  BY <1>3, <1>4
<1>. QED
  BY <1>2, <1>5, <1>6, <1>7

\* DestroyHandlers keeps every variable within its type.
LEMMA DestroyTyped ==
  ASSUME NEW reached \in [Handler -> [Point -> SUBSET State]],
         NEW paused \in SUBSET State, NEW bs \in SUBSET State, NEW closing \in SUBSET State,
         mergeGroups \subseteq Handler,
         DestroyHandlers(reached, paused, bs, closing)
  PROVE  /\ mergeGroups' \subseteq Handler
         /\ reachedCloseMerge' \in [Handler -> [Point -> SUBSET State]]
         /\ pausedStates' \subseteq State
         /\ base' \subseteq State
         /\ inCloseMerge' \subseteq State
<1>1. PICK H \in SUBSET Handler :
        mergeGroups' = mergeGroups \ H /\ ReleaseStates(H, reached, paused, bs, closing)
  BY DestroyFacts
<1>2. mergeGroups' \subseteq Handler
  BY <1>1
<1>. QED
  BY <1>1, <1>2, ReleaseTyped, Zenon

\* The destructor of ExecutionState, too.
LEMMA DeleteTyped ==
  ASSUME TypeOK, NEW D \in SUBSET State, NEW bs \in SUBSET State, DeleteStates(D, bs)
  PROVE  /\ openMergeStack' \in [State -> Seq(Handler)]
         /\ openStates' \in [Handler -> SUBSET State]
         /\ path' \in [State -> SUBSET Input]
         /\ mergeGroups' \subseteq Handler
         /\ reachedCloseMerge' \in [Handler -> [Point -> SUBSET State]]
         /\ pausedStates' \subseteq State
         /\ base' \subseteq State
         /\ inCloseMerge' \subseteq State
<1>0. <<>> \in Seq(Handler)
  BY EmptySeq
<1>1. openMergeStack' \in [State -> Seq(Handler)]
  BY <1>0 DEF DeleteStates, TypeOK
<1>2. openStates' \in [Handler -> SUBSET State]
  BY DEF DeleteStates, TypeOK
<1>3. path' \in [State -> SUBSET Input]
  BY DEF DeleteStates, TypeOK
<1>4. DestroyHandlers(reachedCloseMerge, pausedStates, bs, inCloseMerge)
  BY DEF DeleteStates
<1>5. /\ reachedCloseMerge \in [Handler -> [Point -> SUBSET State]]
      /\ pausedStates \in SUBSET State /\ inCloseMerge \in SUBSET State
      /\ mergeGroups \subseteq Handler
  BY DEF TypeOK
<1>. QED
  BY <1>1, <1>2, <1>3, <1>4, <1>5, DestroyTyped, Zenon
-----------------------------------------------------------------------------
(***************************************************************************)
(* Type correctness.                                                       *)
(***************************************************************************)
\* The options are never assigned.
LEMMA OptionsFixed ==
  ASSUME TypeOK, [Next]_vars
  PROVE  /\ useIncompleteMerge' = useIncompleteMerge /\ memoryCap' = memoryCap
         /\ useIncompleteMerge' \in BOOLEAN /\ memoryCap' \in BOOLEAN
BY DEF TypeOK, Next, vars

Pcs == {"select", "execute", "memory", "update", "done", "dangling", "aborted"}

\* TypeOK without the options.
Typed ==
  /\ pc \in Pcs
  /\ current \in State
  /\ handles \subseteq State
  /\ states \subseteq State
  /\ added \subseteq State
  /\ removed \subseteq State
  /\ path \in [State -> SUBSET Input]
  /\ openMergeStack \in [State -> Seq(Handler)]
  /\ base \subseteq State
  /\ pausedStates \subseteq State
  /\ inCloseMerge \subseteq State
  /\ mergeGroups \subseteq Handler
  /\ openStates \in [Handler -> SUBSET State]
  /\ reachedCloseMerge \in [Handler -> [Point -> SUBSET State]]
  /\ ended \subseteq Input

LEMMA ForkTyped ==
  ASSUME TypeOK, NEW s \in handles, NEW ns \in State, NEW c \in SUBSET Input, Fork(s, ns, c)
  PROVE  Typed'
<1>0. s \in State
  BY DEF TypeOK
<1>1. path' \in [State -> SUBSET Input]
  BY <1>0 DEF TypeOK, Fork
<1>2. openMergeStack' \in [State -> Seq(Handler)]
  BY <1>0 DEF TypeOK, Fork
<1>3. openStates' \in [Handler -> SUBSET State]
  BY DEF TypeOK, Fork, RegisterCopy
<1>4. added' \subseteq State /\ handles' \subseteq State
  BY DEF TypeOK, Fork
<1>. QED
  BY <1>1, <1>2, <1>3, <1>4, Zenon DEF TypeOK, Typed, Pcs, Fork, searchVars

LEMMA TerminateTyped ==
  ASSUME TypeOK, NEW s \in handles, TerminateState(s)
  PROVE  Typed'
<1>0. s \in State /\ handles' \subseteq State /\ ended' \subseteq Input
  BY DEF TypeOK, TerminateState
<1>1. CASE s \in added
  <2>1. DeleteStates({s}, base) /\ added' \subseteq State /\ pc' \in Pcs
        /\ UNCHANGED <<removed, current, states>>
    BY <1>1 DEF TerminateState, TypeOK, Pcs
  <2>2. {s} \in SUBSET State /\ base \in SUBSET State
    BY <1>0 DEF TypeOK
  <2>3. current \in State /\ states \subseteq State /\ removed \subseteq State
    BY DEF TypeOK
  <2>. QED
    BY <1>0, <2>1, <2>2, <2>3, DeleteTyped, Zenon DEF Typed
<1>2. CASE s \notin added
  <2>1. removed' \subseteq State
        /\ UNCHANGED <<pc, added, path, openMergeStack, searchVars, handlerVars, current, states>>
    BY <1>0, <1>2 DEF TerminateState, TypeOK
  <2>. QED
    BY <1>0, <2>1 DEF TypeOK, Typed, Pcs, searchVars, handlerVars
<1>. QED
  BY <1>1, <1>2

LEMMA OpenTyped ==
  ASSUME TypeOK, NEW s \in handles, NEW h \in Handler, OpenMerge(s, h)
  PROVE  Typed'
<1>0. s \in State /\ openMergeStack[s] \in Seq(Handler)
  BY DEF TypeOK
<1>1. <<h>> \o openMergeStack[s] \in Seq(Handler)
  BY <1>0, ConsFacts
<1>2. openMergeStack' \in [State -> Seq(Handler)]
  BY <1>0, <1>1 DEF TypeOK, OpenMerge
<1>3. openStates' \in [Handler -> SUBSET State]
  BY <1>0 DEF TypeOK, OpenMerge
<1>4. mergeGroups' \subseteq Handler /\ handles' \subseteq State
  BY DEF TypeOK, OpenMerge
<1>. QED
  BY <1>2, <1>3, <1>4 DEF TypeOK, Typed, Pcs, OpenMerge, searchVars, bookVars

\* The two things klee_close_merge may do.
Absorbed(es, h, p) ==
  \E m \in reachedCloseMerge[h][p] :
    /\ path' = Merged(m, es)
    /\ removed' = removed \cup {es}
    /\ DestroyHandlers(reachedCloseMerge, pausedStates, base, inCloseMerge)
    /\ pc' = IF es \notin openStates[h] \/ es \in inCloseMerge THEN "aborted"
             ELSE IF m \notin Live \/ es \in added THEN "dangling"
             ELSE "execute"
Waits(es, h, p) ==
  /\ DestroyHandlers([reachedCloseMerge EXCEPT ![h][p] = @ \cup {es}],
                     pausedStates \cup {es}, base \ {es}, inCloseMerge \cup {es})
  /\ pc' = IF es \in (openStates[h] \cap base) \ (inCloseMerge \cup pausedStates)
             THEN "execute" ELSE "aborted"
  /\ UNCHANGED <<path, removed>>

LEMMA CloseCases ==
  ASSUME TypeOK, NEW es \in handles, NEW p \in Point, CloseMerge(es, p)
  PROVE  \E h \in Handler :
           /\ es \in State /\ pc = "execute"
           /\ openMergeStack[es] # <<>> /\ h = Head(openMergeStack[es])
           /\ Tail(openMergeStack[es]) \in Seq(Handler)
           /\ openMergeStack[es] = <<h>> \o Tail(openMergeStack[es])
           /\ openMergeStack' = [openMergeStack EXCEPT ![es] = Tail(openMergeStack[es])]
           /\ openStates' = [openStates EXCEPT ![h] = @ \ {es}]
           /\ Absorbed(es, h, p) \/ Waits(es, h, p)
           /\ handles' = handles \ {es}
           /\ UNCHANGED <<current, states, added, ended>>
<1>1. es \in State /\ openMergeStack[es] \in Seq(Handler)
  BY DEF TypeOK
<1>2. openMergeStack[es] # <<>>
  BY DEF CloseMerge
<1>3. PICK h \in Handler : h = Head(openMergeStack[es])
  BY <1>1, <1>2, TailFacts
<1>4. /\ Tail(openMergeStack[es]) \in Seq(Handler)
      /\ openMergeStack[es] = <<h>> \o Tail(openMergeStack[es])
  BY <1>1, <1>2, <1>3, TailFacts
<1>5. /\ openMergeStack' = [openMergeStack EXCEPT ![es] = Tail(openMergeStack[es])]
      /\ openStates' = [openStates EXCEPT ![h] = @ \ {es}]
      /\ handles' = handles \ {es} /\ pc = "execute"
      /\ UNCHANGED <<current, states, added, ended>>
  BY <1>3 DEF CloseMerge, PopBack
<1>6. Absorbed(es, h, p) \/ Waits(es, h, p)
  BY <1>3, Zenon DEF CloseMerge, Absorbed, Waits
<1>. QED
  BY <1>1, <1>2, <1>3, <1>4, <1>5, <1>6, Zenon

LEMMA CloseTyped ==
  ASSUME TypeOK, NEW es \in handles, NEW p \in Point, CloseMerge(es, p)
  PROVE  Typed'
<1>1. PICK h \in Handler :
        /\ es \in State
        /\ Tail(openMergeStack[es]) \in Seq(Handler)
        /\ openMergeStack' = [openMergeStack EXCEPT ![es] = Tail(openMergeStack[es])]
        /\ openStates' = [openStates EXCEPT ![h] = @ \ {es}]
        /\ Absorbed(es, h, p) \/ Waits(es, h, p)
        /\ handles' = handles \ {es}
        /\ UNCHANGED <<current, states, added, ended>>
  BY CloseCases, Zenon
<1>2. /\ openMergeStack' \in [State -> Seq(Handler)]
      /\ openStates' \in [Handler -> SUBSET State]
      /\ handles' \subseteq State /\ current' \in State /\ states' \subseteq State
      /\ added' \subseteq State /\ ended' \subseteq Input
  BY <1>1 DEF TypeOK
<1>3. CASE Absorbed(es, h, p)
  <2>1. PICK m \in reachedCloseMerge[h][p] :
          /\ path' = Merged(m, es)
          /\ removed' = removed \cup {es}
          /\ DestroyHandlers(reachedCloseMerge, pausedStates, base, inCloseMerge)
          /\ pc' \in Pcs
    BY <1>3 DEF Absorbed, Pcs
  <2>2. m \in State
    BY DEF TypeOK
  <2>3. path' \in [State -> SUBSET Input] /\ removed' \subseteq State
    BY <1>1, <2>1, <2>2 DEF TypeOK, Merged
  <2>4. /\ reachedCloseMerge \in [Handler -> [Point -> SUBSET State]]
        /\ pausedStates \in SUBSET State /\ base \in SUBSET State
        /\ inCloseMerge \in SUBSET State /\ mergeGroups \subseteq Handler
    BY DEF TypeOK
  <2>5. /\ mergeGroups' \subseteq Handler
        /\ reachedCloseMerge' \in [Handler -> [Point -> SUBSET State]]
        /\ pausedStates' \subseteq State /\ base' \subseteq State
        /\ inCloseMerge' \subseteq State
    BY <2>1, <2>4, DestroyTyped, Zenon
  <2>. QED
    BY <1>2, <2>1, <2>3, <2>5 DEF Typed
<1>4. CASE Waits(es, h, p)
  <2>1. PICK reached, paused, bs, closing :
          /\ reached = [reachedCloseMerge EXCEPT ![h][p] = @ \cup {es}]
          /\ paused = pausedStates \cup {es} /\ bs = base \ {es}
          /\ closing = inCloseMerge \cup {es}
          /\ DestroyHandlers(reached, paused, bs, closing)
    BY <1>4, Zenon DEF Waits
  <2>2. reached \in [Handler -> [Point -> SUBSET State]]
    BY <1>1, <2>1 DEF TypeOK
  <2>3. /\ paused \in SUBSET State /\ bs \in SUBSET State
        /\ closing \in SUBSET State /\ mergeGroups \subseteq Handler
    BY <1>1, <2>1 DEF TypeOK
  <2>4. /\ mergeGroups' \subseteq Handler
        /\ reachedCloseMerge' \in [Handler -> [Point -> SUBSET State]]
        /\ pausedStates' \subseteq State /\ base' \subseteq State
        /\ inCloseMerge' \subseteq State
    BY <2>1, <2>2, <2>3, DestroyTyped, Zenon
  <2>5. path' \in [State -> SUBSET Input] /\ removed' \subseteq State /\ pc' \in Pcs
    BY <1>4 DEF Waits, TypeOK, Pcs
  <2>. QED
    BY <1>2, <2>4, <2>5 DEF Typed
<1>. QED
  BY <1>1, <1>3, <1>4

LEMMA SelectTyped ==
  ASSUME TypeOK, NEW s \in State,
         SelectState(s) \/ \E R \in SUBSET Handler : SelectIncomplete(s, R)
  PROVE  Typed'
<1>1. CASE SelectState(s)
  BY <1>1 DEF SelectState, Selected, TypeOK, Typed, Pcs, searchVars, handlerVars, bookVars
<1>2. ASSUME NEW R \in SUBSET Handler, SelectIncomplete(s, R) PROVE Typed'
  <2>1. /\ ReleaseStates(R, reachedCloseMerge, pausedStates, base, inCloseMerge)
        /\ pc' \in Pcs /\ current' = s /\ handles' = {s}
        /\ UNCHANGED <<bookVars, path, openMergeStack, mergeGroups, openStates, ended>>
    BY <1>2 DEF SelectIncomplete, Selected, Pcs
  <2>2. /\ reachedCloseMerge \in [Handler -> [Point -> SUBSET State]]
        /\ pausedStates \in SUBSET State /\ base \in SUBSET State
        /\ inCloseMerge \in SUBSET State
    BY DEF TypeOK
  <2>3. /\ reachedCloseMerge' \in [Handler -> [Point -> SUBSET State]]
        /\ pausedStates' \subseteq State /\ base' \subseteq State
        /\ inCloseMerge' \subseteq State
    BY <2>1, <2>2, ReleaseTyped, Zenon
  <2>. QED
    BY <2>1, <2>3 DEF TypeOK, Typed, bookVars
<1>. QED
  BY <1>1, <1>2

LEMMA LoopTyped ==
  ASSUME TypeOK,
         \/ InstructionDone \/ \E K \in SUBSET states : CheckMemoryUsage(K)
         \/ UpdateStates \/ DoDumpStates
  PROVE  Typed'
<1>1. CASE InstructionDone
  BY <1>1 DEF InstructionDone, TypeOK, Typed, Pcs, searchVars, handlerVars, bookVars
<1>2. ASSUME NEW K \in SUBSET states, CheckMemoryUsage(K) PROVE Typed'
  <2>1. removed' \subseteq State /\ ended' \subseteq Input
    BY <1>2 DEF CheckMemoryUsage, TypeOK
  <2>. QED
    BY <1>2, <2>1 DEF CheckMemoryUsage, TypeOK, Typed, Pcs, searchVars, handlerVars
<1>3. CASE UpdateStates
  <2>1. UpdatedBase \in SUBSET State /\ removed \in SUBSET State
    BY DEF TypeOK, UpdatedBase
  <2>2. DeleteStates(removed, UpdatedBase)
    BY <1>3 DEF UpdateStates
  <2>3. /\ openMergeStack' \in [State -> Seq(Handler)]
        /\ openStates' \in [Handler -> SUBSET State]
        /\ path' \in [State -> SUBSET Input]
        /\ mergeGroups' \subseteq Handler
        /\ reachedCloseMerge' \in [Handler -> [Point -> SUBSET State]]
        /\ pausedStates' \subseteq State
        /\ base' \subseteq State
        /\ inCloseMerge' \subseteq State
    BY <2>1, <2>2, DeleteTyped, Zenon
  <2>4. /\ pc' \in Pcs /\ states' \subseteq State /\ added' \subseteq State
        /\ removed' \subseteq State /\ UNCHANGED <<current, handles, ended>>
    BY <1>3 DEF UpdateStates, TypeOK, Pcs, OnGoing, Live
  <2>. QED
    BY <2>3, <2>4 DEF TypeOK, Typed
<1>4. CASE DoDumpStates
  <2>1. <<>> \in Seq(Handler)
    BY EmptySeq
  <2>2. openMergeStack' \in [State -> Seq(Handler)]
    BY <1>4, <2>1 DEF DoDumpStates
  <2>3. /\ path' \in [State -> SUBSET Input]
        /\ openStates' \in [Handler -> SUBSET State]
        /\ reachedCloseMerge' \in [Handler -> [Point -> SUBSET State]]
    BY <1>4 DEF DoDumpStates
  <2>4. pc' \in Pcs /\ ended' \subseteq Input
    BY <1>4 DEF DoDumpStates, Pcs, TypeOK
  <2>. QED
    BY <1>4, <2>2, <2>3, <2>4 DEF DoDumpStates, TypeOK, Typed
<1>. QED
  BY <1>1, <1>2, <1>3, <1>4

LEMMA TypeStep ==
  ASSUME TypeOK, [Next]_vars
  PROVE  TypeOK'
<1>1. Typed'
  <2>1. CASE Instruction
    BY <2>1, ForkTyped, TerminateTyped, OpenTyped, CloseTyped DEF Instruction
  <2>2. CASE MainLoop
    BY <2>2, SelectTyped, LoopTyped DEF MainLoop
  <2>3. CASE UNCHANGED vars
    BY <2>3 DEF vars, TypeOK, Typed, Pcs, bookVars, searchVars, handlerVars
  <2>. QED
    BY <2>1, <2>2, <2>3 DEF Next
<1>. QED
  BY <1>1, OptionsFixed DEF TypeOK, Typed, Pcs
-----------------------------------------------------------------------------
(***************************************************************************)
(* The books.                                                              *)
(***************************************************************************)
\* Without calls through function pointers a merge call is all that its
\* instruction does.
LEMMA CallIsAlone ==
  ASSUME ~PointerCalls, NEW s, MayCall(s)
  PROVE  s = current /\ added = {} /\ removed = {}
BY DEF MayCall

LEMMA BookStep ==
  ASSUME ~PointerCalls, TypeOK, BookInv, [Next]_vars
  PROVE  BookInv'
<1> USE DEF BookInv, OnGoing, Live
<1>1. ASSUME NEW s \in handles, NEW ns \in State, NEW c \in SUBSET Input, Fork(s, ns, c)
      PROVE  BookInv'
  BY <1>1 DEF Fork
<1>2. ASSUME NEW s \in handles, TerminateState(s)
      PROVE  BookInv'
  BY <1>2 DEF TerminateState
<1>3. ASSUME NEW s \in handles, NEW h \in Handler, OpenMerge(s, h)
      PROVE  BookInv'
  BY <1>3 DEF OpenMerge, bookVars
<1>4. ASSUME NEW s \in handles, NEW p \in Point, CloseMerge(s, p)
      PROVE  BookInv'
  <2>1. s = current /\ added = {} /\ removed = {} /\ pc = "execute"
    BY <1>4, CallIsAlone DEF CloseMerge
  <2>2. removed' \subseteq {s} /\ pc' # "select"
    BY <1>4, <2>1 DEF CloseMerge
  <2>3. handles' = handles \ {s} /\ UNCHANGED <<current, states, added>>
    BY <1>4 DEF CloseMerge
  <2>. QED
    BY <2>1, <2>2, <2>3
<1>5. ASSUME NEW s \in State, SelectState(s) \/ \E R \in SUBSET Handler : SelectIncomplete(s, R)
      PROVE  BookInv'
  <2>1. /\ pc = "select" /\ pc' = Selected(s) /\ current' = s /\ handles' = {s}
        /\ UNCHANGED <<states, added, removed>>
    BY <1>5 DEF SelectState, SelectIncomplete, bookVars
  <2>. QED
    BY <2>1 DEF Selected
<1>6. CASE InstructionDone
  BY <1>6 DEF InstructionDone, bookVars
<1>7. ASSUME NEW K \in SUBSET states, CheckMemoryUsage(K)
      PROVE  BookInv'
  BY <1>7 DEF CheckMemoryUsage
<1>8. CASE UpdateStates
  BY <1>8 DEF UpdateStates
<1>9. CASE DoDumpStates
  BY <1>9 DEF DoDumpStates
<1>10. CASE UNCHANGED vars
  BY <1>10 DEF vars, bookVars
<1>. QED
  BY <1>1, <1>2, <1>3, <1>4, <1>5, <1>6, <1>7, <1>8, <1>9, <1>10
  DEF Next, Instruction, MainLoop
-----------------------------------------------------------------------------
(***************************************************************************)
(* The stacks and the handlers.                                            *)
(***************************************************************************)
LEMMA EmptyElements == Elements(<<>>) = {} /\ NoDuplicates(<<>>) /\ Len(<<>>) = 0
BY EmptySeq DEF Elements, NoDuplicates

\* Destroying the handlers nobody refers to leaves the ones with openStates.
LEMMA GroupsExact ==
  ASSUME TypeOK, TypeOK',
         mergeGroups' = mergeGroups \ Dying,
         \A t \in State \ Live' : openMergeStack'[t] = <<>>,
         \A h \in Handler : openStates'[h] = Holders(h)',
         \A h \in Handler : openStates'[h] # {} => h \in mergeGroups
  PROVE  \A h \in Handler : h \in mergeGroups' <=> openStates'[h] # {}
<1> TAKE h \in Handler
<1>0. Live' \subseteq State
  BY DEF TypeOK, Live
<1>1. ASSUME openStates'[h] # {} PROVE h \in mergeGroups'
  <2>1. PICK t \in Live' : h \in Elements(openMergeStack'[t])
    BY <1>1 DEF Holders
  <2>. QED
    BY <1>0, <1>1, <2>1 DEF Dying
<1>2. ASSUME h \in mergeGroups' PROVE openStates'[h] # {}
  <2>1. PICK t \in State : h \in Elements(openMergeStack'[t])
    BY <1>2 DEF Dying
  <2>2. t \in Live'
    BY <2>1, EmptyElements
  <2>. QED
    BY <2>1, <2>2 DEF Holders
<1>. QED
  BY <1>1, <1>2

\* Deleting states keeps the invariant of the stacks.
LEMMA DeleteStack ==
  ASSUME TypeOK, TypeOK', StackInv, NEW D \in SUBSET State, NEW bs \in SUBSET State,
         DeleteStates(D, bs), Live' = Live \ D
  PROVE  StackInv'
<1>1. \A t \in State : openMergeStack'[t] = IF t \in D THEN <<>> ELSE openMergeStack[t]
  BY DEF DeleteStates
<1>2. \A t \in State \ Live' : openMergeStack'[t] = <<>>
  BY <1>1 DEF StackInv
<1>3. \A t \in State : NoDuplicates(openMergeStack'[t])
  BY <1>1, EmptyElements DEF StackInv
<1>4. \A h \in Handler : openStates'[h] = Holders(h)'
  <2> TAKE h \in Handler
  <2>1. openStates'[h] = Holders(h) \ D
    BY DEF DeleteStates, StackInv
  <2>2. \A t \in Live' : t \in State /\ openMergeStack'[t] = openMergeStack[t]
    BY <1>1 DEF TypeOK, Live
  <2>. QED
    BY <2>1, <2>2 DEF Holders
<1>5. \A h \in Handler : openStates'[h] # {} => h \in mergeGroups
  BY DEF DeleteStates, StackInv
<1>6. mergeGroups' = mergeGroups \ Dying
  BY DEF DeleteStates, DestroyHandlers, Dying
<1>7. \A h \in Handler : h \in mergeGroups' <=> openStates'[h] # {}
  BY <1>2, <1>4, <1>5, <1>6, GroupsExact
<1>8. \E n \in Nat : \A t \in State : Len(openMergeStack'[t]) <= n
  <2>1. PICK n \in Nat : \A t \in State : Len(openMergeStack[t]) <= n
    BY DEF StackInv
  <2>2. \A t \in State : Len(openMergeStack'[t]) <= n
    BY <2>1, <1>1, EmptyElements
  <2>. QED
    BY <2>2
<1>. QED
  BY <1>2, <1>3, <1>4, <1>7, <1>8 DEF StackInv

LEMMA ForkStack ==
  ASSUME TypeOK, TypeOK', BookInv, StackInv,
         NEW s \in handles, NEW ns \in State, NEW c \in SUBSET Input, Fork(s, ns, c)
  PROVE  StackInv'
<1>0. s \in State /\ s \in Live /\ ns \in State \ Live /\ Live' = Live \cup {ns}
  BY DEF TypeOK, BookInv, OnGoing, Live, Fork
<1>1. \A t \in State : openMergeStack'[t] = IF t = ns THEN openMergeStack[s] ELSE openMergeStack[t]
  BY <1>0 DEF Fork, TypeOK
<1>2. \A h \in Handler : openStates'[h] = IF h \in Elements(openMergeStack[s])
                                            THEN openStates[h] \cup {ns} ELSE openStates[h]
  BY DEF Fork, RegisterCopy
<1>3. \A t \in State \ Live' : openMergeStack'[t] = <<>>
  BY <1>0, <1>1 DEF StackInv
<1>4. \A t \in State : NoDuplicates(openMergeStack'[t])
  BY <1>0, <1>1 DEF StackInv
<1>5. \A h \in Handler : openStates'[h] = Holders(h)'
  <2> TAKE h \in Handler
  <2>1. openStates[h] = Holders(h)
    BY DEF StackInv
  <2>2. Live \subseteq State
    BY DEF TypeOK, Live
  <2>. QED
    BY <1>0, <1>1, <1>2, <2>1, <2>2, Zenon DEF Holders
<1>6. \A h \in Handler : h \in mergeGroups' <=> openStates'[h] # {}
  <2> TAKE h \in Handler
  <2>1. mergeGroups' = mergeGroups
    BY DEF Fork
  <2>2. h \in Elements(openMergeStack[s]) => openStates[h] # {}
    BY <1>0 DEF StackInv, Holders
  <2>. QED
    BY <2>1, <2>2, <1>2, Zenon DEF StackInv
<1>7. \E n \in Nat : \A t \in State : Len(openMergeStack'[t]) <= n
  <2>1. PICK n \in Nat : \A t \in State : Len(openMergeStack[t]) <= n
    BY DEF StackInv
  <2>2. \A t \in State : Len(openMergeStack'[t]) <= n
    BY <2>1, <1>0, <1>1
  <2>. QED
    BY <2>2
<1>. QED
  BY <1>3, <1>4, <1>5, <1>6, <1>7 DEF StackInv

LEMMA OpenStack ==
  ASSUME TypeOK, TypeOK', BookInv, StackInv,
         NEW s \in handles, NEW h \in Handler, OpenMerge(s, h)
  PROVE  StackInv'
<1>0. s \in State /\ s \in Live /\ Live' = Live /\ openMergeStack[s] \in Seq(Handler)
  BY DEF TypeOK, BookInv, OnGoing, Live, OpenMerge, bookVars
<1>1. \A t \in State : openMergeStack'[t] = IF t = s THEN <<h>> \o openMergeStack[s]
                                                     ELSE openMergeStack[t]
  BY <1>0 DEF OpenMerge, TypeOK
<1>2. \A g \in Handler : openStates'[g] = IF g = h THEN {s} ELSE openStates[g]
  BY DEF OpenMerge, TypeOK
<1>3. \A t \in State \ Live' : openMergeStack'[t] = <<>>
  BY <1>0, <1>1 DEF StackInv
<1>4. \A t \in Live : h \notin Elements(openMergeStack[t])
  BY DEF OpenMerge, StackInv, Holders
<1>5. \A t \in State : NoDuplicates(openMergeStack'[t])
  BY <1>0, <1>1, <1>4, ConsDistinct DEF StackInv
<1>6. Elements(<<h>> \o openMergeStack[s]) = {h} \cup Elements(openMergeStack[s])
  BY <1>0, ConsFacts
<1>7. \A g \in Handler : openStates'[g] = Holders(g)'
  <2> TAKE g \in Handler
  <2>1. openStates[g] = Holders(g)
    BY DEF StackInv
  <2>2. Live \subseteq State
    BY DEF TypeOK, Live
  <2>. QED
    BY <1>0, <1>1, <1>2, <1>4, <1>6, <2>1, <2>2 DEF Holders
<1>8. \A g \in Handler : g \in mergeGroups' <=> openStates'[g] # {}
  BY <1>2 DEF OpenMerge, StackInv
<1>9. \E n \in Nat : \A t \in State : Len(openMergeStack'[t]) <= n
  <2>1. PICK n \in Nat : \A t \in State : Len(openMergeStack[t]) <= n
    BY DEF StackInv
  <2>2. PICK new : new = <<h>> \o openMergeStack[s]
    BY Zenon
  <2>3. \A t \in State : Len(openMergeStack[t]) \in Nat
    BY DEF TypeOK
  <2>4. \A t \in State : openMergeStack'[t] = IF t = s THEN new ELSE openMergeStack[t]
    BY <2>2, <1>1, Zenon
  <2>5. Len(new) = Len(openMergeStack[s]) + 1
    BY <1>0, <2>2, ConsFacts
  <2>6. \A t \in State : Len(openMergeStack'[t]) <= n + 1
    BY <2>1, <2>3, <2>4, <2>5, <1>0
  <2>. QED
    BY <2>6
<1>. QED
  BY <1>3, <1>5, <1>7, <1>8, <1>9 DEF StackInv

LEMMA CloseStack ==
  ASSUME TypeOK, TypeOK', BookInv, StackInv,
         NEW es \in handles, NEW p \in Point, CloseMerge(es, p)
  PROVE  StackInv'
<1>1. PICK h \in Handler :
        /\ es \in State /\ pc = "execute"
        /\ Tail(openMergeStack[es]) \in Seq(Handler)
        /\ openMergeStack[es] = <<h>> \o Tail(openMergeStack[es])
        /\ openMergeStack' = [openMergeStack EXCEPT ![es] = Tail(openMergeStack[es])]
        /\ openStates' = [openStates EXCEPT ![h] = @ \ {es}]
        /\ Absorbed(es, h, p) \/ Waits(es, h, p)
        /\ UNCHANGED <<current, states, added, ended>>
  BY CloseCases, Zenon
<1>2. PICK stk \in Seq(Handler) : stk = Tail(openMergeStack[es])
  BY <1>1, Zenon
<1>3. Live' = Live /\ es \in Live /\ Live \subseteq State
  BY <1>1 DEF Live, BookInv, OnGoing, TypeOK
<1>4. \A t \in State : openMergeStack'[t] = IF t = es THEN stk ELSE openMergeStack[t]
  BY <1>1, <1>2 DEF TypeOK
<1>5. \A g \in Handler : openStates'[g] = IF g = h THEN openStates[h] \ {es} ELSE openStates[g]
  BY <1>1 DEF TypeOK
<1>6. NoDuplicates(stk) /\ h \notin Elements(stk)
  BY <1>1, <1>2, ConsDistinct, Zenon DEF StackInv
<1>7. Elements(openMergeStack[es]) = {h} \cup Elements(stk)
  BY <1>1, <1>2, ConsFacts, Zenon
<1>8. \A t \in State \ Live' : openMergeStack'[t] = <<>>
  BY <1>3, <1>4 DEF StackInv
<1>9. \A t \in State : NoDuplicates(openMergeStack'[t])
  BY <1>4, <1>6 DEF StackInv
<1>10. \A g \in Handler : openStates'[g] = Holders(g)'
  <2> TAKE g \in Handler
  <2>1. openStates[g] = Holders(g)
    BY DEF StackInv
  <2>. QED
    BY <1>3, <1>4, <1>5, <1>6, <1>7, <2>1 DEF Holders
<1>11. \A g \in Handler : openStates'[g] # {} => g \in mergeGroups
  BY <1>5 DEF StackInv
<1>12. mergeGroups' = mergeGroups \ Dying
  BY <1>1, Zenon DEF Absorbed, Waits, DestroyHandlers, Dying
<1>13. \A g \in Handler : g \in mergeGroups' <=> openStates'[g] # {}
  BY <1>8, <1>10, <1>11, <1>12, GroupsExact
<1>14. \E n \in Nat : \A t \in State : Len(openMergeStack'[t]) <= n
  <2>1. PICK n \in Nat : \A t \in State : Len(openMergeStack[t]) <= n
    BY DEF StackInv
  <2>2. Len(openMergeStack[es]) = Len(stk) + 1
    BY <1>1, <1>2, ConsFacts
  <2>3. Len(stk) <= n
    BY <1>1, <2>1, <2>2
  <2>4. \A t \in State : Len(openMergeStack'[t]) <= n
    BY <2>1, <2>3, <1>4
  <2>. QED
    BY <2>4
<1>. QED
  BY <1>8, <1>9, <1>10, <1>13, <1>14 DEF StackInv

LEMMA StackStep ==
  ASSUME TypeOK, TypeOK', BookInv, BookInv', StackInv, [Next]_vars
  PROVE  StackInv'
<1>1. ASSUME NEW s \in handles, NEW ns \in State, NEW c \in SUBSET Input, Fork(s, ns, c)
      PROVE  StackInv'
  BY <1>1, ForkStack
<1>2. ASSUME NEW s \in handles, TerminateState(s)
      PROVE  StackInv'
  <2>1. CASE s \in added
    <3>1. DeleteStates({s}, base) /\ Live' = Live \ {s}
      BY <1>2, <2>1 DEF TerminateState, Live, BookInv
    <3>2. {s} \in SUBSET State /\ base \in SUBSET State
      BY DEF TypeOK
    <3>. QED
      BY <3>1, <3>2, DeleteStack
  <2>2. CASE s \notin added
    BY <1>2, <2>2, Zenon DEF TerminateState, StackInv, Holders, Live, handlerVars
  <2>. QED
    BY <2>1, <2>2
<1>3. ASSUME NEW s \in handles, NEW h \in Handler, OpenMerge(s, h)
      PROVE  StackInv'
  BY <1>3, OpenStack
<1>4. ASSUME NEW s \in handles, NEW p \in Point, CloseMerge(s, p)
      PROVE  StackInv'
  BY <1>4, CloseStack
<1>5. ASSUME UNCHANGED <<openMergeStack, mergeGroups, openStates, states, added>>
      PROVE  StackInv'
  BY <1>5 DEF StackInv, Holders, Live
<1>6. ASSUME NEW s \in State, SelectState(s) \/ \E R \in SUBSET Handler : SelectIncomplete(s, R)
      PROVE  StackInv'
  BY <1>5, <1>6 DEF SelectState, SelectIncomplete, handlerVars, bookVars
<1>7. ASSUME InstructionDone \/ \E K \in SUBSET states : CheckMemoryUsage(K)
      PROVE  StackInv'
  BY <1>5, <1>7 DEF InstructionDone, CheckMemoryUsage, handlerVars, bookVars
<1>8. CASE UpdateStates
  <2>1. DeleteStates(removed, UpdatedBase) /\ Live' = Live \ removed
    BY <1>8 DEF UpdateStates, Live, OnGoing
  <2>2. UpdatedBase \in SUBSET State /\ removed \in SUBSET State
    BY DEF TypeOK, UpdatedBase
  <2>. QED
    BY <2>1, <2>2, DeleteStack
<1>9. CASE DoDumpStates
  <2>1. Live' = {}
    BY <1>9 DEF DoDumpStates, Live, BookInv
  <2>2. \A t \in State : openMergeStack'[t] = <<>>
    BY <1>9 DEF DoDumpStates
  <2>3. \A h \in Handler : openStates'[h] = {} /\ mergeGroups' = {}
    BY <1>9 DEF DoDumpStates
  <2>4. \E n \in Nat : \A t \in State : Len(openMergeStack'[t]) <= n
    BY <2>2, EmptyElements
  <2>. QED
    BY <2>1, <2>2, <2>3, <2>4, EmptyElements DEF StackInv, Holders
<1>10. CASE UNCHANGED vars
  BY <1>5, <1>10 DEF vars, bookVars, handlerVars
<1>. QED
  BY <1>1, <1>2, <1>3, <1>4, <1>6, <1>7, <1>8, <1>9, <1>10
  DEF Next, Instruction, MainLoop
-----------------------------------------------------------------------------
(***************************************************************************)
(* Who waits.                                                              *)
(***************************************************************************)
\* What is released, and by whom, when handlers die in a step.
LEMMA WaitersStay ==
  ASSUME TypeOK, WaitInv, pc # "aborted", NEW bs \in SUBSET State,
         DestroyHandlers(reachedCloseMerge, pausedStates, bs, inCloseMerge)
  PROVE  /\ WaitOK(reachedCloseMerge, pausedStates, inCloseMerge)'
         /\ Unused(mergeGroups, reachedCloseMerge)'
         /\ \A h \in Handler, p \in Point : reachedCloseMerge'[h][p] \subseteq reachedCloseMerge[h][p]
         /\ Moves(bs, pausedStates)
<1>1. /\ reachedCloseMerge \in [Handler -> [Point -> SUBSET State]]
      /\ pausedStates \in SUBSET State /\ inCloseMerge \in SUBSET State
      /\ mergeGroups \subseteq Handler
  BY DEF TypeOK
<1>2. /\ WaitOK(reachedCloseMerge, pausedStates, inCloseMerge)
      /\ Unused(mergeGroups, reachedCloseMerge)
  BY DEF WaitInv
<1>3. PICK reached, paused, closing :
        reached = reachedCloseMerge /\ paused = pausedStates /\ closing = inCloseMerge
  BY Zenon
<1>4. /\ WaitOK(reachedCloseMerge', pausedStates', inCloseMerge')
      /\ Unused(mergeGroups', reachedCloseMerge')
      /\ \A h \in Handler, p \in Point : reachedCloseMerge'[h][p] \subseteq reached[h][p]
      /\ Moves(bs, paused)
  BY <1>1, <1>2, <1>3, DestroyWaits, Zenon
<1>. QED
  BY <1>3, <1>4

\* addClosedState: a state that was not waiting waits at p for h, until the
\* handlers that die now release theirs.
LEMMA WaiterAdded ==
  ASSUME TypeOK, StackInv, WaitInv, pc # "aborted",
         NEW es \in State, NEW h \in Handler, NEW p \in Point,
         es \in openStates[h], es \notin pausedStates, Waits(es, h, p)
  PROVE  /\ WaitOK(reachedCloseMerge, pausedStates, inCloseMerge)'
         /\ Unused(mergeGroups, reachedCloseMerge)'
         /\ \A g \in Handler, q \in Point :
              reachedCloseMerge'[g][q] \subseteq
                reachedCloseMerge[g][q] \cup (IF g = h THEN {es} ELSE {})
         /\ Moves(base \ {es}, pausedStates \cup {es})
<1>1. PICK reached, paused, bs, closing :
        /\ reached = [reachedCloseMerge EXCEPT ![h][p] = @ \cup {es}]
        /\ paused = pausedStates \cup {es} /\ bs = base \ {es}
        /\ closing = inCloseMerge \cup {es}
        /\ DestroyHandlers(reached, paused, bs, closing)
  BY Zenon DEF Waits
<1>2. reached \in [Handler -> [Point -> SUBSET State]]
  BY <1>1 DEF TypeOK
<1>3. /\ paused \in SUBSET State /\ bs \in SUBSET State
      /\ closing \in SUBSET State /\ mergeGroups \subseteq Handler
  BY <1>1 DEF TypeOK
<1>4. \A g \in Handler, q \in Point :
        reached[g][q] = IF g = h /\ q = p THEN reachedCloseMerge[h][p] \cup {es}
                                          ELSE reachedCloseMerge[g][q]
  BY <1>1 DEF TypeOK
<1>5. h \in mergeGroups
  BY DEF StackInv
<1>6. /\ WaitOK(reachedCloseMerge, pausedStates, inCloseMerge)
      /\ Unused(mergeGroups, reachedCloseMerge)
  BY DEF WaitInv
<1>7. WaitOK(reached, paused, closing)
  <2>1. closing = paused
    BY <1>1, <1>6 DEF WaitOK
  <2>2. \A g \in Handler, q \in Point : es \notin reachedCloseMerge[g][q]
    BY <1>6 DEF WaitOK
  <2>3. \A t \in State : t \in paused <=> \E g \in Handler, q \in Point : t \in reached[g][q]
    <3> TAKE t \in State
    <3>1. CASE t = es
      BY <3>1, <1>1, <1>4
    <3>2. CASE t # es
      <4>1. \A g \in Handler, q \in Point : t \in reached[g][q] <=> t \in reachedCloseMerge[g][q]
        BY <3>2, <1>4
      <4>2. t \in paused <=> t \in pausedStates
        BY <3>2, <1>1
      <4>. QED
        BY <4>1, <4>2, <1>6 DEF WaitOK
    <3>. QED
      BY <3>1, <3>2
  <2>4. \A g, f \in Handler, q, r \in Point, t \in State :
          t \in reached[g][q] /\ t \in reached[f][r] => g = f /\ q = r
    BY <1>4, <1>6, <2>2 DEF WaitOK
  <2>. QED
    BY <2>1, <2>3, <2>4 DEF WaitOK
<1>8. Unused(mergeGroups, reached)
  BY <1>4, <1>5, <1>6 DEF Unused
<1>9. /\ WaitOK(reachedCloseMerge', pausedStates', inCloseMerge')
      /\ Unused(mergeGroups', reachedCloseMerge')
      /\ \A g \in Handler, q \in Point : reachedCloseMerge'[g][q] \subseteq reached[g][q]
      /\ Moves(bs, paused)
  BY <1>1, <1>2, <1>3, <1>7, <1>8, DestroyWaits, Zenon
<1>10. ASSUME NEW g \in Handler, NEW q \in Point
       PROVE  reachedCloseMerge'[g][q] \subseteq
                reachedCloseMerge[g][q] \cup (IF g = h THEN {es} ELSE {})
  BY <1>4, <1>9, Zenon
<1>. QED
  BY <1>1, <1>9, <1>10

LEMMA CloseWaits ==
  ASSUME TypeOK, BookInv, StackInv, WaitInv,
         NEW es \in handles, NEW p \in Point, CloseMerge(es, p)
  PROVE  WaitInv'
<1>1. PICK h \in Handler :
        /\ es \in State /\ pc = "execute"
        /\ Absorbed(es, h, p) \/ Waits(es, h, p)
  BY CloseCases, Zenon
<1>2. CASE Absorbed(es, h, p)
  <2>1. DestroyHandlers(reachedCloseMerge, pausedStates, base, inCloseMerge)
    BY <1>2 DEF Absorbed
  <2>2. base \in SUBSET State
    BY DEF TypeOK
  <2>. QED
    BY <1>1, <2>1, <2>2, WaitersStay, Zenon DEF WaitInv
<1>3. CASE Waits(es, h, p)
  <2>1. ASSUME pc' # "aborted"
        PROVE  es \in openStates[h] /\ es \notin pausedStates
    BY <1>3, <2>1 DEF Waits
  <2>. QED
    BY <1>1, <1>3, <2>1, WaiterAdded, Zenon DEF WaitInv
<1>. QED
  BY <1>1, <1>2, <1>3

LEMMA WaitStep ==
  ASSUME TypeOK, BookInv, StackInv, WaitInv, [Next]_vars
  PROVE  WaitInv'
<1>1. ASSUME UNCHANGED <<pausedStates, inCloseMerge, mergeGroups, reachedCloseMerge>>,
             pc # "aborted"
      PROVE  WaitInv'
  BY <1>1 DEF WaitInv, WaitOK, Unused
<1>2. ASSUME NEW s \in handles, NEW ns \in State, NEW c \in SUBSET Input, Fork(s, ns, c)
      PROVE  WaitInv'
  BY <1>1, <1>2 DEF Fork, searchVars
<1>3. ASSUME NEW bs \in SUBSET State, NEW D \in SUBSET State, DeleteStates(D, bs), pc # "aborted"
      PROVE  WaitInv'
  BY <1>3, WaitersStay DEF DeleteStates, WaitInv
<1>4. ASSUME NEW s \in handles, TerminateState(s)
      PROVE  WaitInv'
  <2>1. CASE s \in added
    <3>1. DeleteStates({s}, base) /\ pc # "aborted"
      BY <1>4, <2>1 DEF TerminateState
    <3>2. {s} \in SUBSET State /\ base \in SUBSET State
      BY DEF TypeOK
    <3>. QED
      BY <1>3, <3>1, <3>2
  <2>2. CASE s \notin added
    BY <1>1, <1>4, <2>2 DEF TerminateState, handlerVars, searchVars
  <2>. QED
    BY <2>1, <2>2
<1>5. ASSUME NEW s \in handles, NEW h \in Handler, OpenMerge(s, h)
      PROVE  WaitInv'
  <2>1. /\ UNCHANGED <<pausedStates, inCloseMerge, reachedCloseMerge>>
        /\ mergeGroups' = mergeGroups \cup {h} /\ pc # "aborted"
    BY <1>5 DEF OpenMerge, searchVars
  <2>. QED
    BY <2>1 DEF WaitInv, WaitOK, Unused
<1>6. ASSUME NEW s \in handles, NEW p \in Point, CloseMerge(s, p)
      PROVE  WaitInv'
  BY <1>6, CloseWaits
<1>7. ASSUME NEW s \in State, SelectState(s)
      PROVE  WaitInv'
  BY <1>1, <1>7 DEF SelectState, searchVars, handlerVars
<1>8. ASSUME NEW s \in State, NEW R \in SUBSET Handler, SelectIncomplete(s, R)
      PROVE  WaitInv'
  <2>1. /\ ReleaseStates(R, reachedCloseMerge, pausedStates, base, inCloseMerge)
        /\ mergeGroups' = mergeGroups /\ pc # "aborted"
    BY <1>8 DEF SelectIncomplete
  <2>2. /\ reachedCloseMerge \in [Handler -> [Point -> SUBSET State]]
        /\ pausedStates \in SUBSET State /\ base \in SUBSET State
        /\ inCloseMerge \in SUBSET State
    BY DEF TypeOK
  <2>3. /\ WaitOK(reachedCloseMerge, pausedStates, inCloseMerge)
        /\ Unused(mergeGroups, reachedCloseMerge)
    BY <2>1 DEF WaitInv
  <2>4. WaitOK(reachedCloseMerge', pausedStates', inCloseMerge')
    BY <2>1, <2>2, <2>3, ReleaseWaits
  <2>5. Unused(mergeGroups', reachedCloseMerge')
    BY <2>1, <2>3 DEF Unused, ReleaseStates
  <2>. QED
    BY <2>4, <2>5 DEF WaitInv
<1>9. ASSUME InstructionDone \/ \E K \in SUBSET states : CheckMemoryUsage(K)
      PROVE  WaitInv'
  BY <1>1, <1>9 DEF InstructionDone, CheckMemoryUsage, searchVars, handlerVars
<1>10. CASE UpdateStates
  <2>1. DeleteStates(removed, UpdatedBase) /\ pc # "aborted"
    BY <1>10 DEF UpdateStates
  <2>2. UpdatedBase \in SUBSET State /\ removed \in SUBSET State
    BY DEF TypeOK, UpdatedBase
  <2>. QED
    BY <1>3, <2>1, <2>2
<1>11. CASE DoDumpStates
  <2>1. /\ pausedStates' = {} /\ inCloseMerge' = {}
        /\ \A h \in Handler, p \in Point : reachedCloseMerge'[h][p] = {}
    BY <1>11, Zenon DEF DoDumpStates
  <2>. QED
    BY <2>1 DEF WaitInv, WaitOK, Unused
<1>12. CASE UNCHANGED vars
  <2>1. UNCHANGED <<pc, pausedStates, inCloseMerge, mergeGroups, reachedCloseMerge>>
    BY <1>12 DEF vars, searchVars, handlerVars
  <2>2. CASE pc = "aborted"
    BY <2>1, <2>2 DEF WaitInv
  <2>. QED
    BY <1>1, <2>1, <2>2
<1>13. CASE Instruction
  <2>1. PICK s \in handles :
          \/ \E ns \in State, c \in SUBSET Input : Fork(s, ns, c)
          \/ TerminateState(s)
          \/ \E h \in Handler : OpenMerge(s, h)
          \/ \E p \in Point : CloseMerge(s, p)
    BY <1>13, Zenon DEF Instruction
  <2>. QED
    BY <1>2, <1>4, <1>5, <1>6, <2>1, Zenon
<1>14. CASE MainLoop
  BY <1>7, <1>8, <1>9, <1>10, <1>11, <1>14 DEF MainLoop
<1>. QED
  BY <1>12, <1>13, <1>14 DEF Next
=============================================================================
