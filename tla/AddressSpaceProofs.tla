-------------------------- MODULE AddressSpaceProofs --------------------------
(***************************************************************************)
(* Proofs about AddressSpace: copying objects on write cannot be seen, for *)
(* any number of states, objects and forks.  The inductive invariant says  *)
(* that an ObjectState bound by two states is owned by an epoch that both  *)
(* have left, and that all states bind the same read-only ObjectStates.    *)
(* It is stated for any maps and keys, because a forking write passes      *)
(* through an intermediate one.                                            *)
(***************************************************************************)
EXTENDS AddressSpace, TLAPS

\* No ObjectState is at two objects; one that two states share is older than
\* the keys of both.
Separated(L, key, obs, h) ==
  \A s, t \in L, m1, m2 \in Object :
    obs[s][m1] # Null /\ obs[s][m1] = obs[t][m2] =>
      m1 = m2 /\ (s # t => h[obs[s][m1]].owner < key[s])

\* Bound ObjectStates exist and are no younger than the state's key; the
\* read-only ones are the constants.
Owned(L, key, obs, h) ==
  \A s \in L, mo \in Object :
    obs[s][mo] # Null =>
      /\ h[obs[s][mo]] \in Cell
      /\ h[obs[s][mo]].owner <= key[s]
      /\ h[obs[s][mo]].readOnly <=> mo \in Constant

ConstantsAgree(L, obs) ==
  \A s, t \in L, mo \in Constant : obs[s][mo] # Null /\ obs[s][mo] = obs[t][mo]

Typed(L, key, obs, h) ==
  /\ L \subseteq State
  /\ key \in [State -> Nat]
  /\ obs \in [State -> [Object -> Address \cup {Null}]]
  /\ h \in [Address -> Cell \cup {Freed}]

Good(L, key, obs, h) ==
  /\ Typed(L, key, obs, h)
  /\ Separated(L, key, obs, h)
  /\ Owned(L, key, obs, h)
  /\ ConstantsAgree(L, obs)

\* The memories of the states of L.
View(L, obs, h) ==
  [s \in State |->
     IF s \in L
       THEN [mo \in Object |-> IF obs[s][mo] = Null THEN Unbound ELSE h[obs[s][mo]].contents]
       ELSE Dead]

\* What an operation under way remembers.
Found ==
  /\ op \in {"none", "write", "external", "merge"}
  /\ who \in State /\ other \in State
  /\ native \in [Object -> Contents \cup {Unbound}]
  /\ \A mo \in Constant : native[mo] \in Contents
  /\ DOMAIN rl \subseteq Object
  /\ \A mo \in DOMAIN rl : rl[mo] \in Address
  /\ op # "none" => who \in live /\ \A mo \in DOMAIN rl : objects[who][mo] = rl[mo]
  /\ op = "external" => \A mo \in DOMAIN rl : native[mo] \in Contents
  /\ op = "merge" => other \in live /\ DOMAIN rl \cap Constant = {}

IInv == Good(live, cowKey, objects, heap) /\ Found
-----------------------------------------------------------------------------
\* What is used of the assumption throughout; Dead matters in one place only.
LEMMA Assumed == InitialState \in State /\ Constant \subseteq Object /\ Null \notin Address
BY AddressSpaceAssumption

USE Assumed

(***************************************************************************)
(* Freeing what nobody binds changes nothing that is bound.                *)
(***************************************************************************)
LEMMA CollectKeeps ==
  ASSUME NEW L, NEW key, NEW obs, NEW h, Typed(L, key, obs, h)
  PROVE  /\ Collect(h, L, obs) \in [Address -> Cell \cup {Freed}]
         /\ \A s \in L, mo \in Object :
              obs[s][mo] # Null => Collect(h, L, obs)[obs[s][mo]] = h[obs[s][mo]]
BY DEF Collect, Typed

LEMMA CollectGood ==
  ASSUME NEW L, NEW key, NEW obs, NEW h, Good(L, key, obs, h)
  PROVE  /\ Good(L, key, obs, Collect(h, L, obs))
         /\ View(L, obs, Collect(h, L, obs)) = View(L, obs, h)
<1> DEFINE g == Collect(h, L, obs)
<1>1. Typed(L, key, obs, h)
  BY DEF Good
<1>2. /\ g \in [Address -> Cell \cup {Freed}]
      /\ \A s \in L, mo \in Object : obs[s][mo] # Null => g[obs[s][mo]] = h[obs[s][mo]]
  BY <1>1, CollectKeeps
<1> HIDE DEF g
<1>3. Typed(L, key, obs, g)
  BY <1>1, <1>2 DEF Typed
<1>4. Separated(L, key, obs, g)
  BY <1>2 DEF Good, Separated
<1>5. Owned(L, key, obs, g)
  BY <1>2 DEF Good, Owned
<1>6. View(L, obs, g) = View(L, obs, h)
  BY <1>2 DEF View
<1> QED BY <1>3, <1>4, <1>5, <1>6 DEF Good, g

(***************************************************************************)
(* A fork: raising both keys leaves both states owning nothing.            *)
(***************************************************************************)
LEMMA BranchGood ==
  ASSUME Good(live, cowKey, objects, heap),
         NEW s \in live, NEW t \in State \ live
  PROVE  LET L == live \cup {t}
             key == RaiseKeys(s, t)
             obs == [objects EXCEPT ![t] = objects[s]]
         IN /\ Good(L, key, obs, heap)
            /\ View(L, obs, heap) = [View(live, objects, heap) EXCEPT ![t] =
                                       View(live, objects, heap)[s]]
            /\ obs[s] = objects[s] /\ obs[t] = objects[s]
            /\ \A r \in L : obs[r] = IF r = t THEN objects[s] ELSE objects[r]
<1> DEFINE L == live \cup {t}
           key == RaiseKeys(s, t)
           obs == [objects EXCEPT ![t] = objects[s]]
<1>1. /\ key \in [State -> Nat] /\ key[s] = cowKey[s] + 1 /\ key[t] = cowKey[s] + 1
      /\ \A r \in live \ {s} : key[r] = cowKey[r]
  BY DEF Good, Typed, RaiseKeys
<1>2. /\ obs \in [State -> [Object -> Address \cup {Null}]]
      /\ \A r \in L : obs[r] = IF r = t THEN objects[s] ELSE objects[r]
  BY DEF Good, Typed
<1> HIDE DEF key, obs
<1>3. Typed(L, key, obs, heap)
  BY <1>1, <1>2 DEF Good, Typed
<1>4. Owned(L, key, obs, heap)
  <2> SUFFICES ASSUME NEW r \in L, NEW mo \in Object, obs[r][mo] # Null
               PROVE  /\ heap[obs[r][mo]] \in Cell
                      /\ heap[obs[r][mo]].owner <= key[r]
                      /\ heap[obs[r][mo]].readOnly <=> mo \in Constant
    BY DEF Owned
  <2> DEFINE o == IF r = t THEN s ELSE r
  <2>1. o \in live /\ obs[r] = objects[o]
    BY <1>2
  <2>2. /\ heap[obs[r][mo]] \in Cell
        /\ heap[obs[r][mo]].owner <= cowKey[o]
        /\ heap[obs[r][mo]].readOnly <=> mo \in Constant
    BY <2>1 DEF Good, Owned
  <2>3. cowKey[o] <= key[r] /\ cowKey[o] \in Nat /\ key[r] \in Nat
    BY <1>1, <2>1 DEF Good, Typed
  <2> QED BY <2>2, <2>3 DEF Cell
<1>5. Separated(L, key, obs, heap)
  <2> SUFFICES ASSUME NEW p \in L, NEW q \in L, NEW m1 \in Object, NEW m2 \in Object,
                      obs[p][m1] # Null, obs[p][m1] = obs[q][m2]
               PROVE  m1 = m2 /\ (p # q => heap[obs[p][m1]].owner < key[p])
    BY DEF Separated
  <2> DEFINE sp == IF p = t THEN s ELSE p
             sq == IF q = t THEN s ELSE q
  <2>1. sp \in live /\ sq \in live /\ obs[p] = objects[sp] /\ obs[q] = objects[sq]
    BY <1>2
  <2>2. /\ m1 = m2 /\ (sp # sq => heap[obs[p][m1]].owner < cowKey[sp])
        /\ heap[obs[p][m1]].owner <= cowKey[sp]
        /\ heap[obs[p][m1]] \in Cell
    BY <2>1 DEF Good, Separated, Owned
  <2>3. cowKey[sp] \in Nat /\ key[p] \in Nat /\ cowKey[sp] <= key[p]
    BY <1>1, <2>1 DEF Good, Typed
  <2>4. p # q /\ sp = sq => cowKey[sp] < key[p]
    BY <1>1, <2>1 DEF Good, Typed
  <2>5. heap[obs[p][m1]].owner \in Nat
    BY <2>2 DEF Cell
  <2> HIDE DEF sp, sq
  <2> QED BY <2>2, <2>3, <2>4, <2>5
<1>6. ConstantsAgree(L, obs)
  BY <1>2 DEF Good, ConstantsAgree
<1>7. View(L, obs, heap) = [View(live, objects, heap) EXCEPT ![t] =
                              View(live, objects, heap)[s]]
  BY <1>2, Zenon DEF View, Good, Typed
<1>8. obs[s] = objects[s] /\ obs[t] = objects[s]
  BY <1>2
<1> QED BY <1>2, <1>3, <1>4, <1>5, <1>6, <1>7, <1>8 DEF Good, key, obs

\* Memories V with c at the object mo of s.
Put(V, s, mo, c) == [V EXCEPT ![s][mo] = c]

\* The bound contents of two maps are equal but for c at one object.
DifferAt(L, ob, g, obs, h, s, mo, c) ==
  \A r \in L, m \in Object :
    (IF ob[r][m] = Null THEN Unbound ELSE g[ob[r][m]].contents)
    = IF r = s /\ m = mo THEN c
      ELSE IF obs[r][m] = Null THEN Unbound ELSE h[obs[r][m]].contents

(***************************************************************************)
(* Two maps that differ at one object of one state show memories that do.  *)
(***************************************************************************)
LEMMA ViewWritten ==
  ASSUME NEW L, L \subseteq State, NEW ob, NEW g, NEW obs, NEW h,
         NEW s \in L, NEW mo \in Object, NEW c,
         DifferAt(L, ob, g, obs, h, s, mo, c)
  PROVE  View(L, ob, g) = Put(View(L, obs, h), s, mo, c)
<1> DEFINE Val(o, x, r) ==
             [m \in Object |-> IF o[r][m] = Null THEN Unbound ELSE x[o[r][m]].contents]
           V == [View(L, obs, h) EXCEPT ![s][mo] = c]
           D == [r \in State |-> IF r \in L THEN Val(obs, h, r) ELSE Dead]
<1>1. \A r \in L \ {s} : Val(ob, g, r) = Val(obs, h, r)
  BY DEF DifferAt
<1>2. Val(ob, g, s) = [Val(obs, h, s) EXCEPT ![mo] = c]
  BY Zenon DEF DifferAt
<1>3. /\ View(L, obs, h) = D
      /\ View(L, ob, g) = [r \in State |-> IF r \in L THEN Val(ob, g, r) ELSE Dead]
  BY DEF View
<1> HIDE DEF Val
<1>4. V = [D EXCEPT ![s] = [Val(obs, h, s) EXCEPT ![mo] = c]]
  BY <1>3, Zenon
<1>5. View(L, ob, g) = [D EXCEPT ![s] = Val(ob, g, s)]
  BY <1>1, <1>3
<1> QED BY <1>2, <1>4, <1>5 DEF Put

\* s writes c to mo, which it binds, getWriteable returning new.
MayWrite(L, key, obs, h, s, mo, a, c, new) ==
  /\ Good(L, key, obs, h)
  /\ s \in L /\ mo \in Object \ Constant /\ obs[s][mo] # Null
  /\ a \in Address /\ \A r \in L, m \in Object : obs[r][m] # a
  /\ c \in Contents
  /\ new = GetWriteable(h, obs, key[s], s, mo, obs[s][mo], a, c)

WriteDone(L, key, obs, h, s, mo, c, new) ==
  /\ Good(L, key, new.objects, new.heap)
  /\ View(L, new.objects, new.heap) = Put(View(L, obs, h), s, mo, c)
  /\ \A r \in L, m \in Object : r # s \/ m # mo => new.objects[r][m] = obs[r][m]

(***************************************************************************)
(* A write through getWriteable changes one object of one state: in place  *)
(* only where nobody else can see it.                                      *)
(***************************************************************************)
LEMMA WriteGood ==
  ASSUME NEW L, NEW key, NEW obs, NEW h, NEW s, NEW mo, NEW a, NEW c, NEW new,
         MayWrite(L, key, obs, h, s, mo, a, c, new)
  PROVE  WriteDone(L, key, obs, h, s, mo, c, new)
<1> SUFFICES ASSUME Good(L, key, obs, h), s \in L, mo \in Object \ Constant,
                    obs[s][mo] # Null, a \in Address,
                    \A r \in L, m \in Object : obs[r][m] # a, c \in Contents,
                    new = GetWriteable(h, obs, key[s], s, mo, obs[s][mo], a, c)
             PROVE  /\ Good(L, key, new.objects, new.heap)
                    /\ View(L, new.objects, new.heap) = Put(View(L, obs, h), s, mo, c)
                    /\ \A r \in L, m \in Object :
                         r # s \/ m # mo => new.objects[r][m] = obs[r][m]
  BY DEF MayWrite, WriteDone
<1> DEFINE os == obs[s][mo]
<1>0. /\ L \subseteq State /\ key \in [State -> Nat]
      /\ obs \in [State -> [Object -> Address \cup {Null}]]
      /\ h \in [Address -> Cell \cup {Freed}]
      /\ os \in Address /\ h[os] \in Cell /\ h[os].owner <= key[s] /\ ~h[os].readOnly
  BY DEF Good, Typed, Owned
<1>1. CASE key[s] = h[os].owner
  <2> DEFINE g == [h EXCEPT ![os].contents = c]
  <2>1. new.objects = obs /\ new.heap = g
    BY <1>1 DEF GetWriteable
  <2>2. /\ g \in [Address -> Cell \cup {Freed}]
        /\ g[os] \in Cell /\ g[os].owner = h[os].owner /\ g[os].readOnly = h[os].readOnly
        /\ g[os].contents = c
        /\ \A x \in Address \ {os} : g[x] = h[x]
    BY <1>0 DEF Cell
  <2>3. \A r \in L, m \in Object : obs[r][m] = os => r = s /\ m = mo
    <3> SUFFICES ASSUME NEW r \in L, NEW m \in Object, obs[r][m] = os
                 PROVE  r = s /\ m = mo
      OBVIOUS
    <3>1. mo = m /\ (s # r => h[os].owner < key[s])
      BY DEF Good, Separated
    <3>2. key[s] \in Nat
      BY <1>0
    <3> QED BY <1>1, <3>1, <3>2
  <2> HIDE DEF g, os
  <2>4. Typed(L, key, obs, g)
    BY <1>0, <2>2 DEF Typed
  <2>5. Separated(L, key, obs, g)
    <3> SUFFICES ASSUME NEW p \in L, NEW q \in L, NEW m1 \in Object, NEW m2 \in Object,
                        obs[p][m1] # Null, obs[p][m1] = obs[q][m2]
                 PROVE  m1 = m2 /\ (p # q => g[obs[p][m1]].owner < key[p])
      BY DEF Separated
    <3>1. m1 = m2 /\ (p # q => h[obs[p][m1]].owner < key[p])
      BY DEF Good, Separated
    <3>2. g[obs[p][m1]].owner = h[obs[p][m1]].owner
      BY <1>0, <2>2
    <3> QED BY <3>1, <3>2
  <2>6. Owned(L, key, obs, g)
    <3> SUFFICES ASSUME NEW r \in L, NEW m \in Object, obs[r][m] # Null
                 PROVE  /\ g[obs[r][m]] \in Cell
                        /\ g[obs[r][m]].owner <= key[r]
                        /\ g[obs[r][m]].readOnly <=> m \in Constant
      BY DEF Owned
    <3>1. /\ h[obs[r][m]] \in Cell
          /\ h[obs[r][m]].owner <= key[r]
          /\ h[obs[r][m]].readOnly <=> m \in Constant
      BY DEF Good, Owned
    <3>2. obs[r][m] \in Address
      BY <1>0
    <3> QED BY <3>1, <3>2, <2>2
  <2>7. View(L, obs, g) = Put(View(L, obs, h), s, mo, c)
    <3>1. DifferAt(L, obs, g, obs, h, s, mo, c)
      BY <1>0, <2>2, <2>3 DEF os, DifferAt
    <3>2. L \subseteq State
      BY <1>0
    <3> QED BY <3>1, <3>2, ViewWritten
  <2>8. ConstantsAgree(L, obs)
    BY DEF Good
  <2> QED BY <2>1, <2>4, <2>5, <2>6, <2>7, <2>8 DEF Good, os
<1>2. CASE key[s] # h[os].owner
  <2> DEFINE cell == [owner |-> key[s], readOnly |-> FALSE, contents |-> c]
             g == [h EXCEPT ![a] = cell]
             ob == [obs EXCEPT ![s][mo] = a]
  <2>1. new.objects = ob /\ new.heap = g
    BY <1>2 DEF GetWriteable
  <2>2. /\ cell \in Cell
        /\ g \in [Address -> Cell \cup {Freed}] /\ g[a] = cell
        /\ \A x \in Address \ {a} : g[x] = h[x]
    BY <1>0 DEF Cell
  <2>3. /\ ob \in [State -> [Object -> Address \cup {Null}]]
        /\ \A r \in L, m \in Object :
             ob[r][m] = IF r = s /\ m = mo THEN a ELSE obs[r][m]
    BY <1>0
  <2>4. cell.owner = key[s] /\ cell.readOnly = FALSE /\ cell.contents = c /\ a # Null
    OBVIOUS
  <2> HIDE DEF g, ob, cell, os
  <2>5. Typed(L, key, ob, g)
    BY <1>0, <2>2, <2>3 DEF Typed
  <2>6. Separated(L, key, ob, g)
    <3> SUFFICES ASSUME NEW p \in L, NEW q \in L, NEW m1 \in Object, NEW m2 \in Object,
                        ob[p][m1] # Null, ob[p][m1] = ob[q][m2]
                 PROVE  m1 = m2 /\ (p # q => g[ob[p][m1]].owner < key[p])
      BY DEF Separated
    <3>1. CASE (p = s /\ m1 = mo) \/ (q = s /\ m2 = mo)
      BY <3>1, <2>3
    <3>2. CASE ~(p = s /\ m1 = mo) /\ ~(q = s /\ m2 = mo)
      <4>1. ob[p][m1] = obs[p][m1] /\ ob[q][m2] = obs[q][m2]
        BY <3>2, <2>3
      <4>2. obs[p][m1] \in Address \ {a}
        BY <4>1, <1>0
      <4>3. m1 = m2 /\ (p # q => h[obs[p][m1]].owner < key[p])
        <5>1. Separated(L, key, obs, h) /\ obs[p][m1] # Null /\ obs[p][m1] = obs[q][m2]
          BY <4>1, Zenon DEF Good
        <5> QED BY <5>1 DEF Separated
      <4> QED BY <4>1, <4>2, <4>3, <2>2
    <3> QED BY <3>1, <3>2
  <2>7. Owned(L, key, ob, g)
    <3> SUFFICES ASSUME NEW r \in L, NEW m \in Object, ob[r][m] # Null
                 PROVE  /\ g[ob[r][m]] \in Cell
                        /\ g[ob[r][m]].owner <= key[r]
                        /\ g[ob[r][m]].readOnly <=> m \in Constant
      BY DEF Owned
    <3>1. CASE r = s /\ m = mo
      <4>1. key[s] \in Nat
        BY <1>0
      <4> QED BY <3>1, <4>1, <2>2, <2>3, <2>4
    <3>2. CASE ~(r = s /\ m = mo)
      <4>1. ob[r][m] = obs[r][m] /\ obs[r][m] \in Address \ {a}
        BY <3>2, <2>3, <1>0
      <4> QED BY <4>1, <2>2 DEF Good, Owned
    <3> QED BY <3>1, <3>2
  <2>8. ConstantsAgree(L, ob)
    BY <2>3 DEF Good, ConstantsAgree
  <2>9. View(L, ob, g) = Put(View(L, obs, h), s, mo, c)
    <3>1. DifferAt(L, ob, g, obs, h, s, mo, c)
      BY <1>0, <2>2, <2>3, <2>4 DEF DifferAt
    <3>2. L \subseteq State
      BY <1>0
    <3> QED BY <3>1, <3>2, ViewWritten
  <2> QED BY <2>1, <2>3, <2>5, <2>6, <2>7, <2>8, <2>9 DEF Good, os
<1> QED BY <1>1, <1>2

\* M and ob are L and obs without the state s.
MayEnd(L, key, obs, h, s, M, ob) ==
  /\ Good(L, key, obs, h) /\ s \in L /\ M = L \ {s}
  /\ ob = [obs EXCEPT ![s] = [mo \in Object |-> Null]]

Ended(L, key, obs, h, s, M, ob) ==
  /\ Good(M, key, ob, Collect(h, M, ob))
  /\ View(M, ob, Collect(h, M, ob)) = [View(L, obs, h) EXCEPT ![s] = Dead]
  /\ \A r \in M : r \in L /\ r # s /\ ob[r] = obs[r]

(***************************************************************************)
(* Deleting a state, and unbinding or rebinding an object that is not a    *)
(* constant, keep the invariant.                                           *)
(***************************************************************************)
LEMMA EndGoodAny ==
  ASSUME NEW L, NEW key, NEW obs, NEW h, NEW s, NEW M, NEW ob,
         MayEnd(L, key, obs, h, s, M, ob)
  PROVE  Ended(L, key, obs, h, s, M, ob)
<1>1. /\ Good(L, key, obs, h) /\ s \in L /\ M = L \ {s}
      /\ ob = [obs EXCEPT ![s] = [mo \in Object |-> Null]]
  BY DEF MayEnd
<1>2. /\ ob \in [State -> [Object -> Address \cup {Null}]]
      /\ \A r \in M : r \in L /\ r # s /\ ob[r] = obs[r]
  BY <1>1 DEF Good, Typed
<1>3. Good(M, key, ob, h)
  <2>1. Typed(M, key, ob, h)
    BY <1>1, <1>2 DEF Good, Typed
  <2>2. Separated(M, key, ob, h)
    BY <1>1, <1>2 DEF Good, Separated
  <2>3. Owned(M, key, ob, h)
    BY <1>1, <1>2 DEF Good, Owned
  <2>4. ConstantsAgree(M, ob)
    BY <1>1, <1>2 DEF Good, ConstantsAgree
  <2> QED BY <2>1, <2>2, <2>3, <2>4 DEF Good
<1>4. View(M, ob, h) = [View(L, obs, h) EXCEPT ![s] = Dead]
  BY <1>1, <1>2, Zenon DEF View, Good, Typed
<1>5. /\ Good(M, key, ob, Collect(h, M, ob))
      /\ View(M, ob, Collect(h, M, ob)) = View(M, ob, h)
  BY <1>3, CollectGood
<1> QED BY <1>2, <1>4, <1>5 DEF Ended

LEMMA EndGood ==
  ASSUME Good(live, cowKey, objects, heap), NEW s \in live, EndState(s)
  PROVE  /\ Good(live', cowKey', objects', heap')
         /\ View(live', objects', heap') = [View(live, objects, heap) EXCEPT ![s] = Dead]
         /\ \A r \in live' : r \in live /\ r # s /\ objects'[r] = objects[r]
<1> DEFINE L == live \ {s}
           obs == [objects EXCEPT ![s] = [mo \in Object |-> Null]]
<1>1. live' = L /\ objects' = obs /\ cowKey' = cowKey /\ heap' = Collect(heap, L, obs)
  BY DEF EndState
<1>2. /\ Good(L, cowKey, obs, Collect(heap, L, obs))
      /\ View(L, obs, Collect(heap, L, obs)) = [View(live, objects, heap) EXCEPT ![s] = Dead]
      /\ \A r \in L : r \in live /\ r # s /\ obs[r] = objects[r]
  <2>1. MayEnd(live, cowKey, objects, heap, s, L, obs)
    BY DEF MayEnd
  <2> HIDE DEF L, obs
  <2>2. Ended(live, cowKey, objects, heap, s, L, obs)
    BY <2>1, EndGoodAny
  <2> QED BY <2>2 DEF Ended
<1> HIDE DEF L, obs
<1> QED BY <1>1, <1>2

LEMMA BindGood ==
  ASSUME Good(live, cowKey, objects, heap),
         NEW s \in live, NEW mo \in Object \ Constant, NEW a \in Unused, NEW c \in Contents
  PROVE  LET obs == [objects EXCEPT ![s][mo] = a]
             h == [heap EXCEPT ![a] = [owner |-> cowKey[s], readOnly |-> FALSE,
                                       contents |-> c]]
         IN /\ Good(live, cowKey, obs, h)
            /\ View(live, obs, h) = Put(View(live, objects, heap), s, mo, c)
<1> DEFINE cell == [owner |-> cowKey[s], readOnly |-> FALSE, contents |-> c]
           h == [heap EXCEPT ![a] = cell]
           obs == [objects EXCEPT ![s][mo] = a]
<1>1. /\ live \subseteq State /\ cowKey \in [State -> Nat]
      /\ objects \in [State -> [Object -> Address \cup {Null}]]
      /\ heap \in [Address -> Cell \cup {Freed}]
      /\ a \in Address /\ a # Null /\ \A r \in live, m \in Object : objects[r][m] # a
  BY DEF Good, Typed, Unused
<1>2. /\ cell \in Cell
      /\ h \in [Address -> Cell \cup {Freed}] /\ h[a] = cell
      /\ \A x \in Address \ {a} : h[x] = heap[x]
  BY <1>1 DEF Cell
<1>3. /\ obs \in [State -> [Object -> Address \cup {Null}]]
      /\ \A r \in live, m \in Object :
           obs[r][m] = IF r = s /\ m = mo THEN a ELSE objects[r][m]
  BY <1>1
<1>4. cell.owner = cowKey[s] /\ cell.readOnly = FALSE /\ cell.contents = c
  OBVIOUS
<1> HIDE DEF h, obs, cell
<1>5. Typed(live, cowKey, obs, h)
  BY <1>1, <1>2, <1>3 DEF Typed
<1>6. Separated(live, cowKey, obs, h)
  <2> SUFFICES ASSUME NEW p \in live, NEW q \in live, NEW m1 \in Object, NEW m2 \in Object,
                      obs[p][m1] # Null, obs[p][m1] = obs[q][m2]
               PROVE  m1 = m2 /\ (p # q => h[obs[p][m1]].owner < cowKey[p])
    BY DEF Separated
  <2>1. CASE (p = s /\ m1 = mo) \/ (q = s /\ m2 = mo)
    BY <2>1, <1>1, <1>3
  <2>2. CASE ~(p = s /\ m1 = mo) /\ ~(q = s /\ m2 = mo)
    <3>1. obs[p][m1] = objects[p][m1] /\ obs[q][m2] = objects[q][m2]
      BY <2>2, <1>3
    <3>2. objects[p][m1] \in Address \ {a}
      BY <3>1, <1>1
    <3>3. m1 = m2 /\ (p # q => heap[objects[p][m1]].owner < cowKey[p])
      <4>1. /\ Separated(live, cowKey, objects, heap)
            /\ objects[p][m1] # Null /\ objects[p][m1] = objects[q][m2]
        BY <3>1, Zenon DEF Good
      <4> QED BY <4>1 DEF Separated
    <3> QED BY <3>1, <3>2, <3>3, <1>2
  <2> QED BY <2>1, <2>2
<1>7. Owned(live, cowKey, obs, h)
  <2> SUFFICES ASSUME NEW r \in live, NEW m \in Object, obs[r][m] # Null
               PROVE  /\ h[obs[r][m]] \in Cell
                      /\ h[obs[r][m]].owner <= cowKey[r]
                      /\ h[obs[r][m]].readOnly <=> m \in Constant
    BY DEF Owned
  <2>1. CASE r = s /\ m = mo
    <3>1. cowKey[s] \in Nat
      BY <1>1
    <3> QED BY <2>1, <3>1, <1>2, <1>3, <1>4
  <2>2. CASE ~(r = s /\ m = mo)
    <3>1. obs[r][m] = objects[r][m] /\ objects[r][m] \in Address \ {a}
      BY <2>2, <1>3, <1>1
    <3> QED BY <3>1, <1>2 DEF Good, Owned
  <2> QED BY <2>1, <2>2
<1>8. ConstantsAgree(live, obs)
  BY <1>3 DEF Good, ConstantsAgree
<1>9. View(live, obs, h) = Put(View(live, objects, heap), s, mo, c)
  <2>1. DifferAt(live, obs, h, objects, heap, s, mo, c)
    BY <1>1, <1>2, <1>3, <1>4 DEF DifferAt
  <2>2. live \subseteq State
    BY <1>1
  <2> QED BY <2>1, <2>2, ViewWritten
<1> QED BY <1>5, <1>6, <1>7, <1>8, <1>9 DEF Good, h, obs, cell

LEMMA UnbindGood ==
  ASSUME Good(live, cowKey, objects, heap), NEW s \in live, NEW mo \in Object \ Constant
  PROVE  LET obs == [objects EXCEPT ![s][mo] = Null]
         IN /\ Good(live, cowKey, obs, heap)
            /\ View(live, obs, heap) = Put(View(live, objects, heap), s, mo, Unbound)
<1> DEFINE obs == [objects EXCEPT ![s][mo] = Null]
<1>1. /\ live \subseteq State /\ obs \in [State -> [Object -> Address \cup {Null}]]
      /\ \A r \in live, m \in Object :
           obs[r][m] = IF r = s /\ m = mo THEN Null ELSE objects[r][m]
  BY DEF Good, Typed
<1> HIDE DEF obs
<1>2. Typed(live, cowKey, obs, heap)
  BY <1>1 DEF Good, Typed
<1>3. Separated(live, cowKey, obs, heap)
  BY <1>1 DEF Good, Separated
<1>4. Owned(live, cowKey, obs, heap)
  BY <1>1 DEF Good, Owned
<1>5. ConstantsAgree(live, obs)
  BY <1>1 DEF Good, ConstantsAgree
<1>6. View(live, obs, heap) = Put(View(live, objects, heap), s, mo, Unbound)
  <2>1. DifferAt(live, obs, heap, objects, heap, s, mo, Unbound)
    BY <1>1 DEF DifferAt
  <2>2. live \subseteq State
    BY <1>1
  <2> QED BY <2>1, <2>2, ViewWritten
<1> QED BY <1>2, <1>3, <1>4, <1>5, <1>6 DEF Good, obs
-----------------------------------------------------------------------------
(***************************************************************************)
(* What a step shows of the memories.                                      *)
(***************************************************************************)
LEMMA MemIsView ==
  /\ mem = View(live, objects, heap)
  /\ mem' = View(live, objects, heap)'
BY DEF mem, View

LEMMA MemoriesExist ==
  ASSUME Good(live, cowKey, objects, heap)
  PROVE  /\ mem \in [State -> Private!Memory \cup {Dead}]
         /\ \A s \in State : s \in live <=> mem[s] # Dead
<1>1. \A s \in live, mo \in Object :
        objects[s][mo] # Null => heap[objects[s][mo]].contents \in Contents
  BY DEF Good, Owned, Cell
<1>2. \A s \in live :
        [mo \in Object |-> IF objects[s][mo] = Null THEN Unbound
                           ELSE heap[objects[s][mo]].contents] \in Private!Memory
  BY <1>1 DEF Private!Memory
<1>3. Dead \notin Private!Memory
  BY AddressSpaceAssumption DEF Private!Memory
<1>4. live \subseteq State
  BY DEF Good, Typed
<1>5. \A s \in State : mem[s] = IF s \in live
        THEN [mo \in Object |-> IF objects[s][mo] = Null THEN Unbound
                                ELSE heap[objects[s][mo]].contents]
        ELSE Dead
  BY DEF mem
<1>6. mem = [s \in State |-> mem[s]]
  BY DEF mem
<1>7. \A s \in State : mem[s] \in Private!Memory \cup {Dead}
  BY <1>2, <1>5, Zenon
<1>8. mem \in [State -> Private!Memory \cup {Dead}]
  <2> HIDE DEF mem
  <2> QED BY <1>6, <1>7
<1> QED BY <1>2, <1>3, <1>4, <1>5, <1>8

\* A memory with one byte changed is one that an access may leave.
LEMMA WrittenHas ==
  ASSUME NEW f, NEW x \in Object \ Constant, NEW y \in Contents \cup {Unbound}
  PROVE  [f EXCEPT ![x] = y] \in Private!Written(f)
<1> DEFINE W == {[f EXCEPT ![mo] = c] : mo \in Object \ Constant, c \in Contents \cup {Unbound}}
<1>1. Private!Written(f) = {f} \cup W
  BY DEF Private!Written
<1>2. [f EXCEPT ![x] = y] \in W
  OBVIOUS
<1> HIDE DEF W
<1> QED BY <1>1, <1>2

LEMMA PutIsStep ==
  ASSUME Good(live, cowKey, objects, heap), NEW s \in live,
         NEW mo \in Object \ Constant, NEW c \in Contents \cup {Unbound},
         mem' = Put(mem, s, mo, c)
  PROVE  Private!Next
<1>1. s \in State /\ mem[s] # Dead /\ mem \in [State -> Private!Memory \cup {Dead}]
  BY MemoriesExist DEF Good, Typed
<1>2. [mem[s] EXCEPT ![mo] = c] \in Private!Written(mem[s])
  BY DEF Private!Written
<1>3. mem' = [mem EXCEPT ![s] = [mem[s] EXCEPT ![mo] = c]]
  BY DEF Put
<1> HIDE DEF mem
<1>4. Private!Access(s)
  BY <1>2, <1>3, Zenon DEF Private!Access
<1> QED BY <1>1, <1>4 DEF Private!Next

LEMMA EndIsStep ==
  ASSUME Good(live, cowKey, objects, heap), NEW s \in live,
         mem' = [mem EXCEPT ![s] = Dead]
  PROVE  Private!Next
<1>1. s \in State /\ mem[s] # Dead
  BY MemoriesExist DEF Good, Typed
<1> HIDE DEF mem
<1> QED BY <1>1, Zenon DEF Private!Next, Private!End

\* No operation remembers anything.
LEMMA NothingFound ==
  ASSUME op' = "none", who' \in State, other' \in State, rl' = [mo \in {} |-> Null],
         native' \in [Object -> Contents \cup {Unbound}],
         \A mo \in Constant : native'[mo] \in Contents
  PROVE  Found'
BY DEF Found

LEMMA InitIInv ==
  ASSUME Init
  PROVE  IInv /\ Private!Init
<1>1. PICK where \in [Constant -> Address], what \in [Constant -> Contents] :
       /\ \A m1, m2 \in Constant : where[m1] = where[m2] => m1 = m2
       /\ objects = [s \in State |-> [mo \in Object |->
                       IF s = InitialState /\ mo \in Constant THEN where[mo] ELSE Null]]
       /\ heap = [a \in Address |->
                    IF \E mo \in Constant : where[mo] = a
                      THEN [owner |-> 1, readOnly |-> TRUE,
                            contents |-> what[CHOOSE mo \in Constant : where[mo] = a]]
                      ELSE Freed]
       /\ native = [mo \in Object |-> IF mo \in Constant THEN what[mo] ELSE Unbound]
  BY Zenon DEF Init
<1>2. \A mo \in Constant : heap[where[mo]] = [owner |-> 1, readOnly |-> TRUE,
                                               contents |-> what[mo]]
  <2> SUFFICES ASSUME NEW mo \in Constant
               PROVE  heap[where[mo]] = [owner |-> 1, readOnly |-> TRUE,
                                         contents |-> what[mo]]
    OBVIOUS
  <2>1. \A m \in Constant : where[m] = where[mo] => m = mo
    BY <1>1
  <2>2. (CHOOSE m \in Constant : where[m] = where[mo]) = mo
    BY <2>1
  <2> QED BY <1>1, <2>2, Zenon
<1>3. /\ live = {InitialState} /\ cowKey = [s \in State |-> 1]
      /\ op = "none" /\ who = InitialState /\ other = InitialState
      /\ rl = [mo \in {} |-> Null]
  BY DEF Init
<1>4. objects \in [State -> [Object -> Address \cup {Null}]]
  BY <1>1
<1>5. heap \in [Address -> Cell \cup {Freed}]
  <2> SUFFICES ASSUME NEW a \in Address PROVE heap[a] \in Cell \cup {Freed}
    BY <1>1
  <2>1. CASE \E mo \in Constant : where[mo] = a
    <3>1. PICK mo \in Constant : where[mo] = a
      BY <2>1
    <3>2. heap[a] = [owner |-> 1, readOnly |-> TRUE, contents |-> what[mo]]
      BY <1>2, <3>1
    <3> QED BY <3>2 DEF Cell
  <2>2. CASE ~ \E mo \in Constant : where[mo] = a
    BY <1>1, <2>2
  <2> QED BY <2>1, <2>2
<1>6. Typed(live, cowKey, objects, heap)
  BY <1>3, <1>4, <1>5 DEF Typed
<1>7. /\ \A mo \in Object : objects[InitialState][mo] =
                               IF mo \in Constant THEN where[mo] ELSE Null
      /\ \A mo \in Constant : where[mo] \in Address /\ where[mo] # Null
  BY <1>1
<1>8. Separated(live, cowKey, objects, heap)
  BY <1>1, <1>3, <1>7 DEF Separated
<1>9. Owned(live, cowKey, objects, heap)
  <2>1. \A mo \in Constant : /\ heap[where[mo]] \in Cell
                             /\ heap[where[mo]].owner = 1
                             /\ heap[where[mo]].readOnly = TRUE
    <3> SUFFICES ASSUME NEW mo \in Constant
                 PROVE  /\ heap[where[mo]] \in Cell
                        /\ heap[where[mo]].owner = 1
                        /\ heap[where[mo]].readOnly = TRUE
      BY Zenon
    <3>1. heap[where[mo]] = [owner |-> 1, readOnly |-> TRUE, contents |-> what[mo]]
      BY <1>2
    <3> QED BY <3>1 DEF Cell
  <2>2. cowKey[InitialState] = 1
    BY <1>3
  <2> QED BY <1>3, <1>7, <2>1, <2>2 DEF Owned
<1>10. ConstantsAgree(live, objects)
  BY <1>3, <1>7 DEF ConstantsAgree
<1>11. Good(live, cowKey, objects, heap)
  BY <1>6, <1>8, <1>9, <1>10 DEF Good
<1>12. /\ native \in [Object -> Contents \cup {Unbound}]
       /\ \A mo \in Constant : native[mo] \in Contents
  BY <1>1
<1>13. Found
  BY <1>3, <1>12 DEF Found
<1>14. Private!Init
  <2>1. /\ mem \in [State -> Private!Memory \cup {Dead}]
        /\ \A s \in State : s \in live <=> mem[s] # Dead
    BY <1>11, MemoriesExist
  <2> HIDE DEF mem
  <2>2. mem[InitialState] \in Private!Memory /\ \A t \in State \ {InitialState} : mem[t] = Dead
    BY <1>3, <2>1
  <2> QED BY <2>1, <2>2 DEF Private!Init
<1> QED BY <1>11, <1>13, <1>14 DEF IInv

(***************************************************************************)
(* The steps of a single operation.                                        *)
(***************************************************************************)
LEMMA OperationStep ==
  ASSUME IInv, NEW s \in State, Operation(s)
  PROVE  IInv' /\ (Private!Next \/ mem' = mem)
<1>0. Good(live, cowKey, objects, heap) /\ Found
  BY DEF IInv
<1>00. /\ native \in [Object -> Contents \cup {Unbound}] /\ other \in State /\ who \in State
       /\ objects \in [State -> [Object -> Address \cup {Null}]]
       /\ live \subseteq State
  BY <1>0 DEF Found, Good, Typed
<1>1. CASE TerminateState(s)
  <2>1. /\ Good(live', cowKey', objects', heap')
        /\ View(live', objects', heap') = [View(live, objects, heap) EXCEPT ![s] = Dead]
    BY <1>0, <1>1, EndGood DEF TerminateState
  <2>2. Found'
    BY <1>0, <1>1 DEF TerminateState, Found
  <2>3. Private!Next
    BY <1>0, <1>1, <2>1, MemIsView, EndIsStep, Zenon DEF TerminateState
  <2> QED BY <2>1, <2>2, <2>3 DEF IInv
<1>2. ASSUME NEW t \in State, Branch(s, t) PROVE IInv' /\ Private!Next
  <2> DEFINE L == live \cup {t}
             obs == [objects EXCEPT ![t] = objects[s]]
  <2>1. /\ op = "none" /\ op' = "none" /\ s \in live /\ t \in State \ live
        /\ live' = L /\ cowKey' = RaiseKeys(s, t) /\ objects' = obs /\ heap' = heap
        /\ UNCHANGED <<native, who, other, rl>>
    BY <1>2 DEF Branch
  <2>2. /\ Good(L, RaiseKeys(s, t), obs, heap)
        /\ View(L, obs, heap) = [View(live, objects, heap) EXCEPT ![t] =
                                   View(live, objects, heap)[s]]
    BY <1>0, <2>1, BranchGood, Zenon
  <2> HIDE DEF L, obs
  <2>3. Found'
    BY <1>0, <2>1 DEF Found
  <2>4. mem' = [mem EXCEPT ![t] = mem[s]] /\ mem[t] = Dead /\ mem[s] # Dead
    BY <1>0, <1>00, <2>1, <2>2, MemIsView, MemoriesExist
  <2> HIDE DEF mem
  <2>5. mem[s] \in Private!Written(mem[s])
    BY DEF Private!Written
  <2>6. Private!Fork(s, t)
    BY <2>4, <2>5, Zenon DEF Private!Fork
  <2> QED BY <2>1, <2>2, <2>3, <2>4, <2>6 DEF IInv, Private!Next
<1>3. ASSUME NEW t \in State, Merge(s, t) PROVE IInv' /\ mem' = mem
  <2>1. /\ live' = live /\ cowKey' = cowKey /\ objects' = objects /\ heap' = heap
        /\ native' = native /\ op' = "merge" /\ who' = s /\ other' = t
        /\ s \in live /\ t \in live
        /\ rl' = [mo \in Mutated(s, t) |-> objects[s][mo]]
    BY <1>3 DEF Merge
  <2>2. \A mo \in Mutated(s, t) :
          /\ mo \in Object /\ objects[s][mo] \in Address
          /\ objects[s][mo] # objects[t][mo]
    BY <1>00 DEF Mutated, Bound
  <2>3. \A mo \in Mutated(s, t) : mo \notin Constant
    BY <1>0, <2>1, <2>2 DEF Good, ConstantsAgree
  <2>4. Found'
    BY <1>0, <2>1, <2>2, <2>3 DEF Found
  <2> QED BY <1>0, <2>1, <2>4, MemIsView DEF IInv
<1>4. ASSUME NEW mo \in Object, NEW a \in Address, NEW c \in Contents,
             BindObject(s, mo, a, c)
      PROVE  IInv' /\ Private!Next
  <2> DEFINE obs == [objects EXCEPT ![s][mo] = a]
             h == [heap EXCEPT ![a] = [owner |-> cowKey[s], readOnly |-> FALSE,
                                       contents |-> c]]
  <2>1. /\ op = "none" /\ s \in live /\ mo \in Object \ Constant /\ a \in Unused
        /\ objects' = obs /\ heap' = Collect(h, live, obs)
        /\ UNCHANGED <<live, cowKey, native, op, who, other, rl>>
    BY <1>4 DEF BindObject
  <2>2. /\ Good(live, cowKey, obs, h)
        /\ View(live, obs, h) = Put(View(live, objects, heap), s, mo, c)
    BY <1>0, <2>1, BindGood, Zenon
  <2> HIDE DEF obs, h
  <2>3. /\ Good(live, cowKey, obs, Collect(h, live, obs))
        /\ View(live, obs, Collect(h, live, obs)) = View(live, obs, h)
    BY <2>2, CollectGood
  <2>4. mem' = Put(mem, s, mo, c)
    BY <2>1, <2>2, <2>3, MemIsView
  <2>5. Found'
    BY <1>0, <2>1 DEF Found
  <2> QED BY <1>0, <2>1, <2>3, <2>4, <2>5, PutIsStep DEF IInv
<1>5. ASSUME NEW mo \in Object, UnbindObject(s, mo) PROVE IInv' /\ Private!Next
  <2> DEFINE obs == [objects EXCEPT ![s][mo] = Null]
  <2>1. /\ op = "none" /\ s \in live /\ mo \in Object \ Constant
        /\ objects' = obs /\ heap' = Collect(heap, live, obs)
        /\ UNCHANGED <<live, cowKey, native, op, who, other, rl>>
    BY <1>5 DEF UnbindObject
  <2>2. /\ Good(live, cowKey, obs, heap)
        /\ View(live, obs, heap) = Put(View(live, objects, heap), s, mo, Unbound)
    BY <1>0, <2>1, UnbindGood, Zenon
  <2> HIDE DEF obs
  <2>3. /\ Good(live, cowKey, obs, Collect(heap, live, obs))
        /\ View(live, obs, Collect(heap, live, obs)) = View(live, obs, heap)
    BY <2>2, CollectGood
  <2>4. mem' = Put(mem, s, mo, Unbound)
    BY <2>1, <2>2, <2>3, MemIsView
  <2>5. Found'
    BY <1>0, <2>1 DEF Found
  <2> QED BY <1>0, <2>1, <2>3, <2>4, <2>5, PutIsStep DEF IInv
<1>6. ASSUME NEW found \in SUBSET Object, Resolve(s, found) PROVE IInv' /\ mem' = mem
  <2>1. /\ live' = live /\ cowKey' = cowKey /\ objects' = objects /\ heap' = heap
        /\ native' = native /\ op' = "write" /\ who' = s /\ other' = other
        /\ s \in live /\ found \subseteq Bound(s)
        /\ rl' = [mo \in found |-> objects[s][mo]]
    BY <1>6 DEF Resolve
  <2>2. \A mo \in found : mo \in Object /\ objects[s][mo] \in Address
    BY <1>00, <2>1 DEF Bound
  <2>3. Found'
    BY <1>0, <2>1, <2>2 DEF Found
  <2> QED BY <1>0, <2>1, <2>3, MemIsView DEF IInv
<1>7. ASSUME NEW changed \in SUBSET Object, NEW c \in Contents,
             CallExternalFunction(s, changed, c)
      PROVE  IInv' /\ mem' = mem
  <2>1. /\ live' = live /\ cowKey' = cowKey /\ objects' = objects /\ heap' = heap
        /\ op' = "external" /\ who' = s /\ other' = other
        /\ s \in live /\ changed \subseteq Bound(s)
        /\ rl' = [mo \in Bound(s) |-> objects[s][mo]]
        /\ native' = [mo \in Object |->
                  IF mo \in changed THEN c
                  ELSE IF mo \in Bound(s) /\ ~heap[objects[s][mo]].readOnly
                    THEN heap[objects[s][mo]].contents
                    ELSE native[mo]]
    BY <1>7 DEF CallExternalFunction
  <2>2. \A mo \in Bound(s) : /\ mo \in Object /\ objects[s][mo] \in Address
                             /\ heap[objects[s][mo]].contents \in Contents
                             /\ heap[objects[s][mo]].readOnly <=> mo \in Constant
    <3> SUFFICES ASSUME NEW mo \in Bound(s)
                 PROVE  /\ mo \in Object /\ objects[s][mo] \in Address
                        /\ heap[objects[s][mo]].contents \in Contents
                        /\ heap[objects[s][mo]].readOnly <=> mo \in Constant
      OBVIOUS
    <3>1. mo \in Object /\ objects[s][mo] # Null /\ objects[s][mo] \in Address
      BY <1>00, <2>1 DEF Bound
    <3>2. heap[objects[s][mo]] \in Cell /\ (heap[objects[s][mo]].readOnly <=> mo \in Constant)
      BY <1>0, <2>1, <3>1 DEF Good, Owned
    <3> QED BY <3>1, <3>2 DEF Cell
  <2>3. \A mo \in Constant : native[mo] \in Contents
    BY <1>0 DEF Found
  <2>4. /\ native' \in [Object -> Contents \cup {Unbound}]
        /\ \A mo \in Bound(s) \cup Constant : native'[mo] \in Contents
    BY <1>00, <2>1, <2>2, <2>3
  <2>5. Found'
    BY <1>0, <1>00, <2>1, <2>2, <2>3, <2>4, Zenon DEF Found
  <2> QED BY <1>0, <2>1, <2>5, MemIsView DEF IInv
<1> QED BY <1>1, <1>2, <1>3, <1>4, <1>5, <1>6, <1>7 DEF Operation

WritesFound(mo, a, c) ==
  LET new == GetWriteable(heap, objects, cowKey[who], who, mo, rl[mo], a, c)
  IN /\ objects' = new.objects
     /\ heap' = Collect(new.heap, live, objects')
     /\ live' = live /\ cowKey' = cowKey

(***************************************************************************)
(* The steps that treat one object an operation has found.                 *)
(***************************************************************************)
LEMMA FoundWrite ==
  ASSUME IInv, op # "none", NEW mo \in DOMAIN rl, mo \notin Constant,
         NEW a \in Unused, NEW c \in Contents, WritesFound(mo, a, c)
  PROVE  /\ Good(live', cowKey', objects', heap')
         /\ Private!Next
         /\ \A m \in DOMAIN rl \ {mo} : objects'[who][m] = rl[m]
<1> DEFINE new == GetWriteable(heap, objects, cowKey[who], who, mo, objects[who][mo], a, c)
<1>1. /\ Good(live, cowKey, objects, heap) /\ who \in live /\ mo \in Object \ Constant
      /\ objects[who][mo] = rl[mo] /\ rl[mo] # Null
      /\ \A m \in DOMAIN rl : objects[who][m] = rl[m] /\ m \in Object
  BY DEF IInv, Found
<1>2. a \in Address /\ \A r \in live, m \in Object : objects[r][m] # a
  BY DEF Unused
<1>3. /\ Good(live, cowKey, new.objects, new.heap)
      /\ View(live, new.objects, new.heap) = Put(View(live, objects, heap), who, mo, c)
      /\ \A r \in live, m \in Object :
           r # who \/ m # mo => new.objects[r][m] = objects[r][m]
  <2>1. MayWrite(live, cowKey, objects, heap, who, mo, a, c, new)
    BY <1>1, <1>2 DEF MayWrite
  <2> HIDE DEF new
  <2>2. WriteDone(live, cowKey, objects, heap, who, mo, c, new)
    BY <2>1, WriteGood
  <2> QED BY <2>2 DEF WriteDone
<1>4. objects' = new.objects /\ heap' = Collect(new.heap, live, new.objects)
      /\ live' = live /\ cowKey' = cowKey
  BY <1>1 DEF WritesFound
<1> HIDE DEF new
<1>5. /\ Good(live, cowKey, new.objects, Collect(new.heap, live, new.objects))
      /\ View(live, new.objects, Collect(new.heap, live, new.objects))
         = View(live, new.objects, new.heap)
  <2>1. Good(live, cowKey, new.objects, new.heap)
    BY <1>3
  <2> QED BY <2>1, CollectGood
<1>6. mem' = Put(mem, who, mo, c)
  BY <1>3, <1>4, <1>5, MemIsView
<1>7. Private!Next
  BY <1>1, <1>6, PutIsStep
<1>8. \A m \in DOMAIN rl \ {mo} : objects'[who][m] = rl[m]
  BY <1>1, <1>3, <1>4
<1> QED BY <1>4, <1>5, <1>7, <1>8, Zenon

\* The read-only objects an operation has found are the constants.
LEMMA FoundReadOnly ==
  ASSUME IInv, op # "none"
  PROVE  /\ \A mo \in DOMAIN rl : IsReadOnly(rl[mo]) <=> mo \in Constant
         /\ who \in live /\ live \subseteq State
<1>1. who \in live /\ live \subseteq State
  BY DEF IInv, Found, Good, Typed
<1>2. \A mo \in DOMAIN rl : mo \in Object /\ objects[who][mo] = rl[mo] /\ rl[mo] # Null
  BY DEF IInv, Found
<1>3. \A mo \in Object : objects[who][mo] # Null =>
        (heap[objects[who][mo]].readOnly <=> mo \in Constant)
  BY <1>1 DEF IInv, Good, Owned
<1> QED BY <1>1, <1>2, <1>3 DEF IsReadOnly

LEMMA RestFound ==
  ASSUME Found, op # "none", NEW mo \in DOMAIN rl, rl' = Rest(mo), op' = op,
         who' \in live', other' \in State, native' = native, live' \subseteq State,
         op = "merge" => other' \in live',
         \A m \in DOMAIN rl \ {mo} : objects'[who'][m] = rl[m]
  PROVE  Found'
<1>1. DOMAIN rl' = DOMAIN rl \ {mo} /\ \A m \in DOMAIN rl \ {mo} : rl'[m] = rl[m]
  BY DEF Rest
<1> QED BY <1>1 DEF Found

LEMMA WriteForkingStep ==
  ASSUME IInv, NEW mo \in Object, NEW t \in State, NEW b \in State, NEW u \in State,
         NEW a \in Address, NEW c \in Contents, WriteForking(mo, t, b, u, a, c)
  PROVE  IInv' /\ Private!Next
<1> DEFINE L == live \cup {t}
           key == RaiseKeys(who, t)
           obs == [objects EXCEPT ![t] = objects[who]]
           new == GetWriteable(heap, obs, key[b], b, mo, rl[mo], a, c)
<1>1. /\ op = "write" /\ mo \in DOMAIN rl /\ t \in State \ live /\ a \in Unused
      /\ {b, u} = {who, t} /\ b # u /\ ~IsReadOnly(rl[mo])
      /\ live' = L /\ cowKey' = key /\ objects' = new.objects
      /\ heap' = Collect(new.heap, L, new.objects)
      /\ who' = u /\ rl' = Rest(mo) /\ native' = native /\ op' = op /\ other' = other
  BY DEF WriteForking
<1>2. /\ Good(live, cowKey, objects, heap) /\ Found /\ who \in live
      /\ mo \in Object \ Constant /\ rl[mo] \in Address /\ rl[mo] # Null
      /\ \A m \in DOMAIN rl : objects[who][m] = rl[m] /\ m \in Object
      /\ live \subseteq State
  BY <1>1, FoundReadOnly DEF IInv, Found
<1>3. /\ Good(L, key, obs, heap)
      /\ View(L, obs, heap) = [View(live, objects, heap) EXCEPT ![t] =
                                 View(live, objects, heap)[who]]
      /\ \A r \in L : obs[r] = IF r = t THEN objects[who] ELSE objects[r]
  BY <1>1, <1>2, BranchGood
<1>4. \A r \in L, m \in Object : obs[r][m] # a
  <2>1. \A r \in live, m \in Object : objects[r][m] # a
    BY <1>1 DEF Unused
  <2>2. \A r \in L : obs[r] = objects[IF r = t THEN who ELSE r]
    BY <1>3
  <2>3. \A r \in L : (IF r = t THEN who ELSE r) \in live
    BY <1>2
  <2> HIDE DEF L, obs
  <2> QED BY <2>1, <2>2, <2>3
<1>5. b \in L /\ u \in L /\ obs[b] = objects[who] /\ obs[u] = objects[who]
  BY <1>1, <1>2, <1>3
<1>6. new = GetWriteable(heap, obs, key[b], b, mo, obs[b][mo], a, c) /\ obs[b][mo] # Null
  <2>1. obs[b][mo] = rl[mo] /\ rl[mo] # Null
    BY <1>1, <1>2, <1>5
  <2> QED BY <2>1
<1> HIDE DEF L, key, obs, new
<1>7. /\ Good(L, key, new.objects, new.heap)
      /\ View(L, new.objects, new.heap) = Put(View(L, obs, heap), b, mo, c)
      /\ \A r \in L, m \in Object : r # b \/ m # mo => new.objects[r][m] = obs[r][m]
  <2>1. MayWrite(L, key, obs, heap, b, mo, a, c, new)
    BY <1>2, <1>3, <1>4, <1>5, <1>6 DEF MayWrite
  <2>2. WriteDone(L, key, obs, heap, b, mo, c, new)
    BY <2>1, WriteGood
  <2> QED BY <2>2 DEF WriteDone
<1>8. /\ Good(L, key, new.objects, Collect(new.heap, L, new.objects))
      /\ View(L, new.objects, Collect(new.heap, L, new.objects))
         = View(L, new.objects, new.heap)
  <2>1. Good(L, key, new.objects, new.heap)
    BY <1>7
  <2> QED BY <2>1, CollectGood
<1>9. \A m \in DOMAIN rl \ {mo} : objects'[u][m] = rl[m]
  <2> SUFFICES ASSUME NEW m \in DOMAIN rl, m # mo PROVE objects'[u][m] = rl[m]
    OBVIOUS
  <2>1. m \in Object /\ objects[who][m] = rl[m]
    BY <1>2
  <2>2. new.objects[u][m] = obs[u][m]
    BY <1>5, <1>7, <2>1
  <2> QED BY <1>1, <1>5, <2>1, <2>2
<1>10. L \subseteq State
  BY <1>2 DEF L
<1>11. Found'
  <2>1. other' \in State
    BY <1>1, <1>2 DEF Found
  <2> QED BY <1>1, <1>2, <1>5, <1>9, <1>10, <2>1, RestFound, Zenon
<1>12. mem' = Put([mem EXCEPT ![t] = mem[who]], b, mo, c)
  BY <1>1, <1>3, <1>7, <1>8, MemIsView
<1>13. /\ mem \in [State -> Private!Memory \cup {Dead}] /\ mem[who] # Dead /\ mem[t] = Dead
       /\ who \in State /\ who # t
  BY <1>1, <1>2, MemoriesExist, Zenon
<1> HIDE DEF mem
<1>14. Private!Fork(who, t)
  <2> DEFINE m == [mem[who] EXCEPT ![mo] = c]
  <2>1. m \in Private!Written(mem[who])
    <3>1. mo \in Object \ Constant /\ c \in Contents \cup {Unbound}
      BY <1>2
    <3> QED BY <3>1, WrittenHas
  <2>2. CASE b = t
    <3>1. mem' = [mem EXCEPT ![t] = m]
      BY <1>12, <1>13, <2>2, Zenon DEF Put
    <3> HIDE DEF m
    <3> QED BY <1>13, <2>1, <3>1, Zenon DEF Private!Fork
  <2>3. CASE b = who
    <3>1. mem' = [mem EXCEPT ![who] = m, ![t] = mem[who]]
      BY <1>12, <1>13, <2>3, Zenon DEF Put
    <3> HIDE DEF m
    <3> QED BY <1>13, <2>1, <3>1, Zenon DEF Private!Fork
  <2> QED BY <1>1, <2>2, <2>3
<1>15. Private!Next
  BY <1>13, <1>14 DEF Private!Next
<1> QED BY <1>1, <1>8, <1>11, <1>15 DEF IInv

LEMMA ReadOnlyForkingStep ==
  ASSUME IInv, NEW mo \in Object, NEW t \in State, NEW b \in State, NEW u \in State,
         ReadOnlyForking(mo, t, b, u)
  PROVE  IInv' /\ (Private!Next \/ mem' = mem)
<1> DEFINE L == live \cup {t}
           M == L \ {b}
           key == RaiseKeys(who, t)
           obs == [objects EXCEPT ![t] = objects[who]]
           ob == [obs EXCEPT ![b] = [m \in Object |-> Null]]
<1>1. /\ op = "write" /\ mo \in DOMAIN rl /\ t \in State \ live
      /\ {b, u} = {who, t} /\ b # u
      /\ live' = M /\ cowKey' = key /\ objects' = ob /\ heap' = Collect(heap, M, ob)
      /\ who' = u /\ rl' = Rest(mo) /\ native' = native /\ op' = op /\ other' = other
  BY DEF ReadOnlyForking
<1>2. /\ Good(live, cowKey, objects, heap) /\ Found /\ who \in live
      /\ \A m \in DOMAIN rl : objects[who][m] = rl[m]
      /\ live \subseteq State
  BY <1>1, FoundReadOnly DEF IInv, Found
<1>3. /\ Good(L, key, obs, heap)
      /\ View(L, obs, heap) = [View(live, objects, heap) EXCEPT ![t] =
                                 View(live, objects, heap)[who]]
      /\ obs[who] = objects[who] /\ obs[t] = objects[who]
  BY <1>1, <1>2, BranchGood
<1>4. b \in L /\ u \in M /\ M \subseteq State /\ obs[u] = objects[who]
  BY <1>1, <1>2, <1>3
<1> HIDE DEF L, key, obs
<1>5. /\ Good(M, key, ob, Collect(heap, M, ob))
      /\ View(M, ob, Collect(heap, M, ob)) = [View(L, obs, heap) EXCEPT ![b] = Dead]
      /\ \A r \in M : ob[r] = obs[r]
  <2>1. MayEnd(L, key, obs, heap, b, M, ob)
    BY <1>3, <1>4 DEF MayEnd
  <2> HIDE DEF M, ob
  <2>2. Ended(L, key, obs, heap, b, M, ob)
    BY <2>1, EndGoodAny
  <2> QED BY <2>2 DEF Ended
<1> HIDE DEF M, ob
<1>6. Found'
  <2>1. other' \in State
    BY <1>1, <1>2 DEF Found
  <2>2. \A m \in DOMAIN rl \ {mo} : objects'[u][m] = rl[m]
    BY <1>1, <1>2, <1>4, <1>5
  <2> QED BY <1>1, <1>2, <1>4, <2>1, <2>2, RestFound, Zenon
<1>7. mem' = [[mem EXCEPT ![t] = mem[who]] EXCEPT ![b] = Dead]
  BY <1>1, <1>3, <1>5, MemIsView
<1>8. /\ mem \in [State -> Private!Memory \cup {Dead}] /\ mem[who] # Dead /\ mem[t] = Dead
      /\ who \in State /\ who # t
  BY <1>1, <1>2, MemoriesExist, Zenon
<1> HIDE DEF mem
<1>9. CASE b = t
  <2>1. mem' = mem
    BY <1>7, <1>8, <1>9
  <2> QED BY <1>1, <1>5, <1>6, <2>1 DEF IInv
<1>10. CASE b = who
  <2>1. mem' = [mem EXCEPT ![who] = Dead, ![t] = mem[who]]
    BY <1>7, <1>8, <1>10
  <2>2. Private!Fork(who, t)
    BY <1>8, <2>1, Zenon DEF Private!Fork
  <2>3. Private!Next
    BY <1>8, <2>2 DEF Private!Next
  <2> QED BY <1>1, <1>5, <1>6, <2>3 DEF IInv
<1> QED BY <1>1, <1>9, <1>10

LEMMA ContinueStep ==
  ASSUME IInv, NEW mo \in Object, NEW a \in Address, NEW c \in Contents, Continue(mo, a, c)
  PROVE  IInv' /\ Private!Next
<1>0. Good(live, cowKey, objects, heap) /\ Found
  BY DEF IInv
<1>1. ASSUME NEW t \in State, NEW b \in State, NEW u \in State,
             WriteForking(mo, t, b, u, a, c)
      PROVE  IInv' /\ Private!Next
  BY <1>1, WriteForkingStep
<1>2. CASE WriteHere(mo, a, c)
  <2>1. /\ op = "write" /\ mo \in DOMAIN rl /\ mo \notin Constant /\ a \in Unused
    BY <1>2, FoundReadOnly DEF WriteHere
  <2>2. Good(live', cowKey', objects', heap') /\ Private!Next
    BY <1>2, <2>1, FoundWrite, Zenon DEF WriteHere, WritesFound
  <2>3. Found'
    BY <1>0, <1>2, NothingFound, Zenon DEF WriteHere, NoOp, Found
  <2> QED BY <2>2, <2>3 DEF IInv
<1>3. CASE MergeObject(mo, a, c)
  <2>1. /\ op = "merge" /\ mo \in DOMAIN rl /\ mo \notin Constant /\ a \in Unused
    BY <1>0, <1>3 DEF MergeObject, Found
  <2>2. /\ Good(live', cowKey', objects', heap') /\ Private!Next
        /\ \A m \in DOMAIN rl \ {mo} : objects'[who][m] = rl[m]
    BY <1>3, <2>1, FoundWrite DEF MergeObject, WritesFound
  <2>3. Found'
    BY <1>0, <1>3, <2>1, <2>2, RestFound, FoundReadOnly, Zenon DEF MergeObject, Found
  <2> QED BY <2>2, <2>3 DEF IInv
<1> QED BY <1>1, <1>2, <1>3 DEF Continue

LEMMA CopyInStep ==
  ASSUME IInv, NEW mo \in Object, NEW a \in Address, CopyIn(mo, a)
  PROVE  IInv' /\ (Private!Next \/ mem' = mem)
<1>0. /\ Good(live, cowKey, objects, heap) /\ Found /\ who \in live /\ live \subseteq State
      /\ op = "external" /\ mo \in DOMAIN rl /\ a \in Unused
      /\ native[mo] \in Contents
      /\ live' = live /\ cowKey' = cowKey /\ native' = native /\ op' = op
      /\ who' = who /\ other' = other /\ rl' = Rest(mo)
  BY FoundReadOnly, Zenon DEF IInv, CopyIn, Found
<1>1. CASE native[mo] = heap[rl[mo]].contents
  <2>1. objects' = objects /\ heap' = Collect(heap, live, objects)
    BY <1>1, Zenon DEF CopyIn
  <2>2. /\ Good(live, cowKey, objects, Collect(heap, live, objects))
        /\ View(live, objects, Collect(heap, live, objects)) = View(live, objects, heap)
    <3>1. Good(live, cowKey, objects, heap)
      BY <1>0
    <3> QED BY <3>1, CollectGood
  <2>3. mem' = mem
    BY <1>0, <2>1, <2>2, MemIsView
  <2>4. Found'
    BY <1>0, <2>1, RestFound DEF Found
  <2> QED BY <1>0, <2>1, <2>2, <2>3, <2>4, Zenon DEF IInv
<1>2. CASE native[mo] # heap[rl[mo]].contents
  <2>1. mo \notin Constant
    BY <1>0, <1>2, FoundReadOnly, Zenon DEF CopyIn
  <2>2. WritesFound(mo, a, native[mo])
    BY <1>2, Zenon DEF CopyIn, WritesFound
  <2>3. /\ Good(live', cowKey', objects', heap') /\ Private!Next
        /\ \A m \in DOMAIN rl \ {mo} : objects'[who][m] = rl[m]
    BY <1>0, <2>1, <2>2, FoundWrite
  <2>4. Found'
    BY <1>0, <2>3, RestFound DEF Found
  <2> QED BY <2>3, <2>4 DEF IInv
<1> QED BY <1>1, <1>2

LEMMA ClosingStep ==
  ASSUME IInv, (\E mo \in Object : NotBound(mo)) \/ WriteError \/ ExternalEnds \/ MergeEnds
  PROVE  IInv' /\ (Private!Next \/ mem' = mem)
<1>0. Good(live, cowKey, objects, heap) /\ Found
  BY DEF IInv
<1>1. ASSUME NEW mo \in Object, NotBound(mo) PROVE IInv' /\ mem' = mem
  <2>1. /\ op = "write" /\ mo \in DOMAIN rl /\ rl' = Rest(mo)
        /\ UNCHANGED <<live, cowKey, objects, heap, native, op, who, other>>
    BY <1>1 DEF NotBound
  <2>2. Found'
    BY <1>0, <2>1, RestFound, FoundReadOnly, Zenon DEF Found
  <2> QED BY <1>0, <2>1, <2>2, MemIsView DEF IInv
<1>2. ASSUME NEW s \in live, EndState(s), NoOp,
             native' \in [Object -> Contents \cup {Unbound}],
             \A mo \in Constant : native'[mo] \in Contents
      PROVE  IInv' /\ Private!Next
  <2>1. /\ Good(live', cowKey', objects', heap')
        /\ View(live', objects', heap') = [View(live, objects, heap) EXCEPT ![s] = Dead]
    BY <1>0, <1>2, EndGood
  <2>2. Found'
    BY <1>2, NothingFound DEF NoOp
  <2>3. Private!Next
    BY <1>0, <2>1, MemIsView, EndIsStep, Zenon
  <2> QED BY <2>1, <2>2, <2>3 DEF IInv
<1>3. CASE WriteError
  <2>1. who \in live /\ EndState(who) /\ NoOp /\ native' = native
    BY <1>0, <1>3 DEF WriteError, Found
  <2> QED BY <1>0, <1>2, <2>1 DEF Found
<1>4. CASE MergeEnds
  <2>1. other \in live /\ EndState(other) /\ NoOp /\ native' = native
    BY <1>0, <1>4 DEF MergeEnds, Found
  <2> QED BY <1>0, <1>2, <2>1 DEF Found
<1>5. CASE ExternalEnds
  <2>1. /\ who \in live /\ NoOp
        /\ native' = [mo \in Object |-> IF mo \in Constant THEN native[mo] ELSE Unbound]
        /\ EndState(who) \/ UNCHANGED <<live, cowKey, objects, heap>>
    BY <1>0, <1>5 DEF ExternalEnds, Found
  <2>2. /\ native' \in [Object -> Contents \cup {Unbound}]
        /\ \A mo \in Constant : native'[mo] \in Contents
    BY <1>0, <2>1 DEF Found
  <2>3. CASE EndState(who)
    BY <1>2, <2>1, <2>2, <2>3
  <2>4. CASE UNCHANGED <<live, cowKey, objects, heap>>
    <3>1. Found'
      BY <2>1, <2>2, NothingFound DEF NoOp
    <3> QED BY <1>0, <2>4, <3>1, MemIsView DEF IInv
  <2> QED BY <2>1, <2>3, <2>4
<1> QED BY <1>1, <1>3, <1>4, <1>5

LEMMA NextStep ==
  ASSUME IInv, [Next]_vars
  PROVE  IInv' /\ (Private!Next \/ mem' = mem)
<1>1. CASE UNCHANGED vars
  <2>1. UNCHANGED <<live, cowKey, objects, heap, native, op, who, other, rl>>
    BY <1>1 DEF vars
  <2> QED BY <2>1, MemIsView DEF IInv, Found
<1>2. CASE Next
  BY <1>2, OperationStep, ContinueStep, CopyInStep, ReadOnlyForkingStep, ClosingStep DEF Next
<1> QED BY <1>1, <1>2

THEOREM Invariance == Spec => []IInv
<1>1. Init => IInv
  BY InitIInv
<1>2. IInv /\ [Next]_vars => IInv'
  BY NextStep
<1> QED BY <1>1, <1>2, PTL DEF Spec
-----------------------------------------------------------------------------
(***************************************************************************)
(* Type correctness, for any number of states, objects and forks.          *)
(***************************************************************************)
THEOREM TypeCorrect == Spec => []TypeOK
<1>1. IInv => TypeOK
  BY DEF IInv, Good, Typed, Found, TypeOK
<1> QED BY <1>1, Invariance, PTL

(***************************************************************************)
(* The documented invariant of AddressSpace.h: no bound ObjectState is     *)
(* owned by a later epoch than the state's.                                *)
(***************************************************************************)
THEOREM OwnersAreOld == Spec => []OwnersBelowKeys
<1>1. IInv => OwnersBelowKeys
  BY DEF IInv, Good, Owned, OwnersBelowKeys
<1> QED BY <1>1, Invariance, PTL

(***************************************************************************)
(* An ObjectState that getWriteable hands out without copying it is bound  *)
(* by nobody else.                                                         *)
(***************************************************************************)
THEOREM InPlaceIsPrivate == Spec => []OwnedIsPrivate
<1>1. IInv => OwnedIsPrivate
  <2> SUFFICES ASSUME IInv, NEW s \in live, NEW t \in live,
                      NEW m1 \in Object, NEW m2 \in Object,
                      objects[s][m1] # Null,
                      heap[objects[s][m1]].owner = cowKey[s],
                      objects[s][m1] = objects[t][m2]
               PROVE  s = t /\ m1 = m2
    BY DEF OwnedIsPrivate
  <2>1. m1 = m2 /\ (s # t => heap[objects[s][m1]].owner < cowKey[s])
    BY DEF IInv, Good, Separated
  <2>2. cowKey[s] \in Nat
    BY DEF IInv, Good, Typed
  <2>3. ~(cowKey[s] < cowKey[s])
    BY <2>2
  <2> QED BY <2>1, <2>3
<1> QED BY <1>1, Invariance, PTL

(***************************************************************************)
(* The assert of ExecutionState::merge: states never disagree about a      *)
(* read-only object.                                                       *)
(***************************************************************************)
THEOREM MergeAssertHolds == Spec => []ReadOnlyShared
<1>1. IInv => ReadOnlyShared
  BY DEF IInv, Good, Owned, ConstantsAgree, ReadOnlyShared
<1> QED BY <1>1, Invariance, PTL

(***************************************************************************)
(* Ownership is sound for any states, objects and forks.                   *)
(***************************************************************************)
THEOREM OwnershipIsSound == Spec => []OwnershipSound
<1>1. TypeOK /\ OwnersBelowKeys /\ OwnedIsPrivate /\ ReadOnlyShared => OwnershipSound
  BY DEF OwnershipSound
<1> QED BY <1>1, TypeCorrect, OwnersAreOld, InPlaceIsPrivate, MergeAssertHolds, PTL

(***************************************************************************)
(* The ObjectStates that resolve, copyInConcretes and merge have found are *)
(* still bound when they are used.                                         *)
(***************************************************************************)
THEOREM FoundStaysCurrent == Spec => []FoundIsCurrent
<1>1. IInv => FoundIsCurrent
  BY DEF IInv, Found, FoundIsCurrent
<1> QED BY <1>1, Invariance, PTL

(***************************************************************************)
(* Copy on write implements private memories.                              *)
(***************************************************************************)
THEOREM ImplementsPrivateMemory == Spec => PrivateSpec
<1>1. Init => Private!Init
  BY InitIInv
<1>2. IInv /\ [Next]_vars => [Private!Next]_mem
  BY NextStep
<1> QED BY <1>1, <1>2, Invariance, PTL DEF Spec, PrivateSpec, Private!Spec
=============================================================================
