--------------------------- MODULE SearchersProofs ---------------------------
(***************************************************************************)
(* Proofs about Searchers: for any states, any supported combination       *)
(* of searchers and any additions and removals, the containers agree with the executor, *)
(* and the queue of a BFSSearcher is in the order of the forks.  The       *)
(* inductive invariant says that every container lists the states that     *)
(* exist and are not paused, each once; it is stated for any containers,   *)
(* because iterative deepening updates them up to three times in a step.   *)
(***************************************************************************)
EXTENDS Searchers, SequenceTheorems, FiniteSetTheorems, TLAPS

\* The list holds the states of S, each once.
Lists(list, S) ==
  /\ list \in Seq(State)
  /\ Range(list) = S
  /\ \A i, j \in DOMAIN list : list[i] = list[j] => i = j

Kept(list, removed) == {i \in DOMAIN list : list[i] \notin removed}
Place(list, removed, i) == Cardinality({j \in Kept(list, removed) : j <= i})

(***************************************************************************)
(* The positions that are kept are numbered from 1, in their order.        *)
(***************************************************************************)
LEMMA PlacesCount ==
  ASSUME NEW list \in Seq(State), NEW removed
  PROVE  /\ Cardinality(Kept(list, removed)) \in Nat
         /\ \A i \in Kept(list, removed) :
              Place(list, removed, i) \in 1 .. Cardinality(Kept(list, removed))
         /\ \A i, j \in Kept(list, removed) :
              i < j => Place(list, removed, i) < Place(list, removed, j)
         /\ \A k \in 1 .. Cardinality(Kept(list, removed)) :
              \E i \in Kept(list, removed) : Place(list, removed, i) = k
<1> DEFINE K == Kept(list, removed)
           n == Cardinality(K)
           Upto(i) == {j \in K : j <= i}
           f == [i \in K |-> Cardinality(Upto(i))]
<1>1. /\ Len(list) \in Nat
      /\ DOMAIN list = 1 .. Len(list)
  BY LenProperties
<1>2. K \in SUBSET (1 .. Len(list))
  BY <1>1 DEF Kept
<1>3. IsFiniteSet(1 .. Len(list))
  BY <1>1, FS_Interval
<1>4. IsFiniteSet(K) /\ n \in Nat
  BY <1>2, <1>3, FS_Subset, FS_CardinalityType
<1>5. ASSUME NEW i
      PROVE  /\ Upto(i) \in SUBSET K
             /\ IsFiniteSet(Upto(i))
             /\ Cardinality(Upto(i)) \in Nat
             /\ Cardinality(Upto(i)) <= n
  <2>1. Upto(i) \in SUBSET K
    OBVIOUS
  <2>2. IsFiniteSet(Upto(i)) /\ Cardinality(Upto(i)) <= n
    BY <2>1, <1>4, FS_Subset
  <2> QED
    BY <2>1, <2>2, FS_CardinalityType
<1>6. ASSUME NEW i \in K
      PROVE  f[i] \in 1 .. n
  <2>1. i \in Upto(i)
    BY <1>2
  <2>2. Cardinality(Upto(i)) # 0
    BY <2>1, <1>5, FS_EmptySet, Zenon
  <2>3. f[i] = Cardinality(Upto(i))
    OBVIOUS
  <2> HIDE DEF f, n, Upto
  <2> QED
    BY <2>2, <2>3, <1>5, <1>4
<1>7. ASSUME NEW i \in K, NEW j \in K, i < j
      PROVE  f[i] < f[j]
  <2>1. Upto(i) \in SUBSET Upto(j)
    BY <1>2, <1>7
  <2>2. j \in Upto(j) /\ j \notin Upto(i)
    BY <1>2, <1>7
  <2>3. Upto(i) # Upto(j)
    BY <2>2
  <2>4. /\ Cardinality(Upto(i)) <= Cardinality(Upto(j))
        /\ Cardinality(Upto(i)) # Cardinality(Upto(j))
    <3> HIDE DEF Upto
    <3> QED
      BY <2>1, <2>3, <1>5, FS_Subset
  <2>5. f[i] = Cardinality(Upto(i)) /\ f[j] = Cardinality(Upto(j))
    OBVIOUS
  <2> HIDE DEF f, n, Upto
  <2> QED
    BY <2>4, <2>5, <1>5
<1>8. f \in Injection(K, 1 .. n)
  <2>1. f \in [K -> 1 .. n]
    BY <1>6
  <2>2. \A i, j \in K : f[i] = f[j] => i = j
    <3> SUFFICES ASSUME NEW i \in K, NEW j \in K, i # j
                 PROVE  f[i] # f[j]
      OBVIOUS
    <3>1. i < j \/ j < i
      BY <1>2, <1>1
    <3>2. f[i] \in 1 .. n /\ f[j] \in 1 .. n
      BY <1>6
    <3>3. f[i] < f[j] \/ f[j] < f[i]
      BY <3>1, <1>7
    <3> HIDE DEF f
    <3> QED
      BY <3>2, <3>3, <1>4
  <2> HIDE DEF f
  <2> QED
    BY <2>1, <2>2 DEF Injection, IsInjective
<1>9. IsFiniteSet(1 .. n) /\ Cardinality(1 .. n) = n
  BY <1>4, FS_Interval
<1>10. f \in Surjection(K, 1 .. n)
  <2> HIDE DEF f, n
  <2> QED
    BY <1>8, <1>9, FS_Injection DEF n
<1>11. \A k \in 1 .. n : \E i \in K : f[i] = k
  BY <1>10, Zenon DEF Surjection
<1>12. \A i \in K : f[i] = Place(list, removed, i)
  BY DEF Place
<1> HIDE DEF f
<1> QED
  BY <1>4, <1>6, <1>7, <1>11, <1>12

(***************************************************************************)
(* Erasing keeps the other elements in their order: W[k] is list[g[k]] for *)
(* an increasing g, and g reaches every position that is kept.             *)
(***************************************************************************)
LEMMA WithoutSelects ==
  ASSUME NEW list \in Seq(State), NEW removed
  PROVE  LET W == Without(list, removed)
         IN /\ W \in Seq(State)
            /\ \E g \in [DOMAIN W -> DOMAIN list] :
                 /\ \A k \in DOMAIN W : W[k] = list[g[k]] /\ W[k] \notin removed
                 /\ \A a, b \in DOMAIN W : a < b => g[a] < g[b]
                 /\ \A i \in Kept(list, removed) : \E k \in DOMAIN W : g[k] = i
<1> DEFINE K == Kept(list, removed)
           n == Cardinality(K)
           P(i) == Place(list, removed, i)
           W == Without(list, removed)
           g == [k \in 1 .. n |-> CHOOSE i \in K : P(i) = k]
<1>1. /\ n \in Nat
      /\ \A i \in K : P(i) \in 1 .. n
      /\ \A i, j \in K : i < j => P(i) < P(j)
      /\ \A k \in 1 .. n : \E i \in K : P(i) = k
  BY PlacesCount
<1>2. /\ Len(list) \in Nat
      /\ DOMAIN list = 1 .. Len(list)
      /\ \A i \in DOMAIN list : list[i] \in State
  BY LenProperties
<1>3. \A i \in K : i \in DOMAIN list /\ list[i] \notin removed /\ i \in Nat
  BY <1>2 DEF Kept
<1>4. W = [k \in 1 .. n |-> list[CHOOSE i \in K : P(i) = k]]
  BY DEF Without, Place, Kept
<1> HIDE DEF K, P, n, W
<1>5. \A k \in 1 .. n : g[k] \in K /\ P(g[k]) = k
  BY <1>1
<1>6. DOMAIN W = 1 .. n /\ \A k \in 1 .. n : W[k] = list[g[k]]
  BY <1>4
<1> HIDE DEF g
<1>7. W \in Seq(State)
  <2>1. W \in [1 .. n -> State]
    BY <1>4, <1>5, <1>6, <1>2, <1>3
  <2> QED
    BY <2>1, <1>1, SeqDef
<1>8. g \in [DOMAIN W -> DOMAIN list]
  BY <1>5, <1>6, <1>3 DEF g
<1>9. \A k \in DOMAIN W : W[k] = list[g[k]] /\ W[k] \notin removed
  BY <1>5, <1>6, <1>3
<1>10. ASSUME NEW a \in DOMAIN W, NEW b \in DOMAIN W, a < b
       PROVE  g[a] < g[b]
  <2>1. /\ a \in 1 .. n /\ b \in 1 .. n
        /\ g[a] \in K /\ g[b] \in K
        /\ P(g[a]) = a /\ P(g[b]) = b
    BY <1>5, <1>6
  <2>2. g[a] \in Nat /\ g[b] \in Nat
    BY <2>1, <1>3
  <2>3. CASE g[b] < g[a]
    <3>1. b < a
      BY <2>1, <2>3, <1>1
    <3> QED
      BY <3>1, <2>1, <1>10, <1>1
  <2>4. g[a] # g[b]
    BY <2>1, <1>10, <1>1
  <2> QED
    BY <2>2, <2>3, <2>4
<1>11. ASSUME NEW i \in K
       PROVE  \E k \in DOMAIN W : g[k] = i
  <2>1. P(i) \in 1 .. n
    BY <1>1
  <2>2. g[P(i)] \in K /\ P(g[P(i)]) = P(i)
    BY <2>1, <1>5
  <2>3. i \in Nat /\ g[P(i)] \in Nat
    BY <2>2, <1>3
  <2>4. ~(g[P(i)] < i) /\ ~(i < g[P(i)])
    <3>1. P(i) \in Nat /\ ~(P(i) < P(i))
      BY <2>1, <1>1
    <3> QED
      BY <3>1, <2>2, <1>1
  <2>5. g[P(i)] = i
    BY <2>3, <2>4
  <2> QED
    BY <2>1, <2>5, <1>6
<1> QED
  <2>1. \A i \in Kept(list, removed) : \E k \in DOMAIN W : g[k] = i
    BY <1>11 DEF K
  <2> QED
    BY <1>7, <1>8, <1>9, <1>10, <2>1 DEF W

-----------------------------------------------------------------------------
(***************************************************************************)
(* Erasing, appending and turning a set into a list keep lists without     *)
(* duplicates.                                                             *)
(***************************************************************************)
LEMMA InRange ==
  ASSUME NEW list, NEW x
  PROVE  x \in Range(list) <=> \E i \in DOMAIN list : list[i] = x
BY DEF Range

LEMMA WithoutLists ==
  ASSUME NEW list, NEW S, NEW removed, Lists(list, S)
  PROVE  Lists(Without(list, removed), S \ removed)
<1> DEFINE W == Without(list, removed)
<1>1. list \in Seq(State) /\ Range(list) = S
  BY DEF Lists
<1>2. W \in Seq(State)
  BY <1>1, WithoutSelects
<1>3. PICK g \in [DOMAIN W -> DOMAIN list] :
         /\ \A k \in DOMAIN W : W[k] = list[g[k]] /\ W[k] \notin removed
         /\ \A a, b \in DOMAIN W : a < b => g[a] < g[b]
         /\ \A i \in Kept(list, removed) : \E k \in DOMAIN W : g[k] = i
  BY <1>1, WithoutSelects
<1> HIDE DEF W
<1>4. Range(W) = S \ removed
  <2>1. ASSUME NEW x \in Range(W)
        PROVE  x \in S /\ x \notin removed
    <3>1. PICK k \in DOMAIN W : W[k] = x
      BY InRange
    <3>2. g[k] \in DOMAIN list /\ list[g[k]] = x /\ x \notin removed
      BY <3>1, <1>3
    <3> QED
      BY <3>2, <1>1, InRange
  <2>2. ASSUME NEW x \in S, x \notin removed
        PROVE  x \in Range(W)
    <3>1. PICK i \in DOMAIN list : list[i] = x
      BY <1>1, InRange
    <3>2. i \in Kept(list, removed)
      BY <3>1, <2>2 DEF Kept
    <3>3. PICK k \in DOMAIN W : g[k] = i
      BY <3>2, <1>3
    <3>4. W[k] = x
      BY <3>1, <3>3, <1>3
    <3> QED
      BY <3>4, InRange
  <2> QED
    BY <2>1, <2>2
<1>5. ASSUME NEW a \in DOMAIN W, NEW b \in DOMAIN W, W[a] = W[b]
      PROVE  a = b
  <2>1. list[g[a]] = list[g[b]]
    BY <1>5, <1>3
  <2>2. g[a] = g[b]
    BY <2>1, <1>3 DEF Lists
  <2>3. a \in Nat /\ b \in Nat
    BY <1>2, LenProperties
  <2>4. g[a] \in Nat /\ g[b] \in Nat
    <3>1. DOMAIN list = 1 .. Len(list) /\ Len(list) \in Nat
      BY <1>1, LenProperties
    <3> QED
      BY <3>1, <1>3
  <2>5. ~(a < b) /\ ~(b < a)
    BY <2>2, <2>4, <1>3
  <2> QED
    BY <2>3, <2>5
<1> QED
  BY <1>2, <1>4, <1>5 DEF Lists, W

LEMMA ConcatLists ==
  ASSUME NEW list, NEW S, NEW added, NEW A,
         Lists(list, S), Lists(added, A), A \cap S = {}
  PROVE  Lists(list \o added, S \cup A)
<1> DEFINE c == list \o added
           m == Len(list)
           n == Len(added)
<1>1. list \in Seq(State) /\ added \in Seq(State) /\ Range(list) = S /\ Range(added) = A
  BY DEF Lists
<1>2. /\ m \in Nat /\ DOMAIN list = 1 .. m
      /\ n \in Nat /\ DOMAIN added = 1 .. n
  BY <1>1, LenProperties
<1>3. /\ c \in Seq(State)
      /\ Len(c) = m + n
      /\ \A i \in 1 .. m + n : c[i] = IF i <= m THEN list[i] ELSE added[i - m]
  BY <1>1, ConcatProperties
<1>4. DOMAIN c = 1 .. m + n
  BY <1>3, LenProperties
<1> HIDE DEF c, m, n
<1>5. \A i \in DOMAIN list : i \in DOMAIN c /\ c[i] = list[i]
  BY <1>2, <1>3, <1>4
<1>6. ASSUME NEW i \in DOMAIN added PROVE i + m \in DOMAIN c /\ c[i + m] = added[i]
  <2>1. i \in 1 .. n /\ i + m \in 1 .. m + n /\ ~(i + m <= m) /\ (i + m) - m = i
    BY <1>2
  <2> QED BY <1>3, <1>4, <2>1
<1>7. \A i \in DOMAIN c : \/ i \in DOMAIN list
                          \/ i - m \in DOMAIN added /\ c[i] = added[i - m]
  BY <1>2, <1>3, <1>4
<1>8. Range(c) = S \cup A
  <2>1. ASSUME NEW x \in Range(c)
        PROVE  x \in S \cup A
    <3>1. PICK i \in DOMAIN c : c[i] = x
      BY InRange
    <3>2. CASE i \in DOMAIN list
      BY <3>1, <3>2, <1>5, <1>1, InRange
    <3>3. CASE i - m \in DOMAIN added /\ c[i] = added[i - m]
      BY <3>1, <3>3, <1>1, InRange
    <3> QED
      BY <3>2, <3>3, <1>7
  <2>2. ASSUME NEW x \in S
        PROVE  x \in Range(c)
    <3>1. PICK i \in DOMAIN list : list[i] = x
      BY <1>1, InRange
    <3> QED
      BY <3>1, <1>5, InRange
  <2>3. ASSUME NEW x \in A
        PROVE  x \in Range(c)
    <3>1. PICK i \in DOMAIN added : added[i] = x
      BY <1>1, InRange
    <3> QED
      BY <3>1, <1>6, InRange
  <2> QED
    BY <2>1, <2>2, <2>3
<1>9. ASSUME NEW i \in DOMAIN c, NEW j \in DOMAIN c, c[i] = c[j]
      PROVE  i = j
  <2>1. CASE i \in DOMAIN list /\ j \in DOMAIN list
    BY <2>1, <1>9, <1>5 DEF Lists
  <2>2. CASE i - m \in DOMAIN added /\ c[i] = added[i - m]
               /\ j - m \in DOMAIN added /\ c[j] = added[j - m]
    <3>1. i - m = j - m
      BY <2>2, <1>9, Zenon DEF Lists
    <3> QED
      BY <3>1, <1>2, <1>4
  <2>3. CASE i \in DOMAIN list /\ j - m \in DOMAIN added /\ c[j] = added[j - m]
    <3>1. c[i] \in S /\ c[i] \in A
      BY <2>3, <1>9, <1>5, <1>1, InRange
    <3> QED
      BY <3>1
  <2>4. CASE j \in DOMAIN list /\ i - m \in DOMAIN added /\ c[i] = added[i - m]
    <3>1. c[i] \in S /\ c[i] \in A
      BY <2>4, <1>9, <1>5, <1>1, InRange, Zenon
    <3> QED
      BY <3>1
  <2> QED
    BY <2>1, <2>2, <2>3, <2>4, <1>7
<1> QED
  BY <1>3, <1>8, <1>9 DEF Lists, c

LEMMA SingletonLists ==
  ASSUME NEW s \in State
  PROVE  Lists(<<s>>, {s})
<1>1. <<s>> \in Seq(State) /\ DOMAIN <<s>> = {1} /\ <<s>>[1] = s
  OBVIOUS
<1>2. Range(<<s>>) = {s}
  BY <1>1 DEF Range
<1> QED
  BY <1>1, <1>2 DEF Lists

LEMMA EmptyLists == Lists(<<>>, {})
BY DEF Lists, Range

LEMMA AppendLists ==
  ASSUME NEW list, NEW S, NEW s \in State, Lists(list, S), s \notin S
  PROVE  Lists(Append(list, s), S \cup {s})
<1>1. list \in Seq(State)
  BY DEF Lists
<1>2. Append(list, s) = list \o <<s>>
  BY <1>1, AppendIsConcat
<1>3. Lists(list \o <<s>>, S \cup {s})
  BY SingletonLists, ConcatLists, Zenon
<1> QED
  BY <1>2, <1>3

LEMMA AdditionsLists ==
  ASSUME NEW added \in Additions
  PROVE  Lists(added, Range(added))
<1>1. CASE added = <<>>
  BY <1>1, EmptyLists DEF Lists
<1>2. CASE \E s \in State : added = <<s>>
  BY <1>2, SingletonLists, Zenon DEF Lists
<1>3. CASE added \in State \X State /\ added[1] # added[2]
  <2>1. PICK s \in State, t \in State : added = <<s, t>>
    BY <1>3
  <2>2. s # t
    BY <2>1, <1>3
  <2>3. <<s, t>> \in Seq(State) /\ DOMAIN <<s, t>> = {1, 2}
    OBVIOUS
  <2>4. \A i, j \in DOMAIN <<s, t>> : <<s, t>>[i] = <<s, t>>[j] => i = j
    BY <2>2, <2>3
  <2> QED
    BY <2>1, <2>3, <2>4 DEF Lists
<1> QED
  BY <1>1, <1>2, <1>3 DEF Additions

LEMMA InSomeOrderLists ==
  ASSUME NEW S \in SUBSET State, IsFiniteSet(S)
  PROVE  Lists(InSomeOrder(S), S)
<1> DEFINE n == Cardinality(S)
           f == InSomeOrder(S)
<1>1. n \in Nat /\ ExistsBijection(1 .. n, S)
  BY FS_CardinalityType
<1>2. PICK b : b \in Injection(1 .. n, S)
  BY <1>1 DEF ExistsBijection, Bijection
<1>3. f \in Injection(1 .. n, S)
  BY <1>2 DEF InSomeOrder
<1> HIDE DEF f
<1>4. f \in [1 .. n -> S] /\ IsInjective(f)
  BY <1>3 DEF Injection
<1>6. Cardinality(1 .. n) = n
  BY <1>1, FS_Interval
<1>7. f \in Surjection(1 .. n, S)
  <2> HIDE DEF n
  <2> QED
    BY <1>3, <1>6, FS_Injection DEF n
<1> HIDE DEF n
<1>8. f \in Seq(State)
  <2>1. f \in [1 .. n -> State]
    BY <1>4
  <2> QED
    BY <2>1, <1>1, SeqDef
<1>9. Range(f) = S
  BY <1>4, <1>7 DEF Range, Surjection
<1> QED
  BY <1>4, <1>8, <1>9 DEF Lists, IsInjective, f

LEMMA ListsCount ==
  ASSUME NEW list, NEW S, Lists(list, S)
  PROVE  IsFiniteSet(S) /\ Len(list) = Cardinality(S)
<1>1. /\ list \in Seq(State) /\ Range(list) = S
      /\ \A i, j \in DOMAIN list : list[i] = list[j] => i = j
  BY DEF Lists
<1> DEFINE n == Len(list)
<1>2. n \in Nat /\ DOMAIN list = 1 .. n /\ list \in [1 .. n -> State]
  BY <1>1, LenProperties
<1>3. IsFiniteSet(1 .. n) /\ Cardinality(1 .. n) = n
  BY <1>2, FS_Interval
<1> HIDE DEF n
<1>4. list \in [1 .. n -> S]
  BY <1>1, <1>2 DEF Range
<1>5. list \in Surjection(1 .. n, S)
  BY <1>1, <1>2, <1>4 DEF Range, Surjection
<1>6. list \in Injection(1 .. n, S)
  BY <1>1, <1>2, <1>4 DEF Injection, IsInjective
<1>7. IsFiniteSet(S) /\ Cardinality(S) = Cardinality(1 .. n)
  BY <1>3, <1>5, <1>6, FS_Surjection
<1> QED
  BY <1>3, <1>7 DEF n

-----------------------------------------------------------------------------
(***************************************************************************)
(* One update of a core searcher: its container gains the added states and *)
(* loses the removed ones, and no assert fails.                            *)
(***************************************************************************)
LEMMA ListedStates ==
  ASSUME NEW list, NEW S, Lists(list, S)
  PROVE  S \subseteq State
<1>1. list \in Seq(State) /\ Range(list) = S
  BY DEF Lists
<1>2. DOMAIN list = 1 .. Len(list)
  BY <1>1, LenProperties
<1>3. \A i \in DOMAIN list : list[i] \in State
  BY <1>1, <1>2, ElementOfSeq
<1> QED
  BY <1>1, <1>3 DEF Range

LEMMA RequeueLists ==
  ASSUME NEW list, NEW S, NEW added, NEW removed, NEW cur, Lists(list, S),
         cur = Nobody \/ cur \in S
  PROVE  Lists(Requeue(list, cur, added, removed), S)
<1>1. CASE cur # Nobody
  <2>1. cur \in S /\ cur \in State
    BY <1>1, ListedStates
  <2>2. Lists(Without(list, {cur}), S \ {cur})
    BY WithoutLists
  <2>3. Lists(Append(Without(list, {cur}), cur), (S \ {cur}) \cup {cur})
    BY <2>1, <2>2, AppendLists
  <2>4. (S \ {cur}) \cup {cur} = S
    BY <2>1
  <2> QED
    BY <2>3, <2>4 DEF Requeue
<1>2. CASE cur = Nobody
  BY <1>2 DEF Requeue
<1> QED
  BY <1>1, <1>2

LEMMA CoreUpdateLists ==
  ASSUME NEW core, NEW list, NEW S, NEW added, NEW A, NEW removed, NEW cur,
         Keeps(core), Lists(list, S), Lists(added, A), A \cap S = {},
         cur = Nobody \/ cur \in S
  PROVE  Lists(CoreUpdate(core, list, cur, added, removed), (S \cup A) \ removed)
<1>1. Lists(Requeue(list, cur, added, removed), S)
  BY RequeueLists
<1>2. Lists(Without(Requeue(list, cur, added, removed) \o added, removed), (S \cup A) \ removed)
  BY <1>1, ConcatLists, WithoutLists, Zenon
<1>3. Lists(Without(list \o added, removed), (S \cup A) \ removed)
  BY ConcatLists, WithoutLists, Zenon
<1> QED
  BY <1>2, <1>3 DEF CoreUpdate, Keeps

LEMMA CoreAssertsHold ==
  ASSUME NEW core, NEW list, NEW S, NEW added, NEW A, NEW removed, NEW cur,
         Lists(list, S), Lists(added, A), A \cap S = {},
         cur = Nobody \/ cur \in S, removed \subseteq S \cup A
  PROVE  CoreAsserts(core, list, cur, added, removed)
<1>1. Range(list \o added) = S \cup A
  BY ConcatLists DEF Lists
<1>2. Range(list) = S /\ Range(added) = A
  BY DEF Lists
<1> QED
  BY <1>1, <1>2 DEF CoreAsserts

(***************************************************************************)
(* The containers of all core searchers, with lastState: each lists S.     *)
(***************************************************************************)
BaseLists(base, S) ==
  /\ base.ok
  /\ DOMAIN base.held = DOMAIN search.cores
  /\ \A i \in DOMAIN search.cores :
       IF Keeps(search.cores[i]) THEN Lists(base.held[i], S) ELSE base.held[i] = <<>>
  /\ base.last \in S \cup {Nobody}

(***************************************************************************)
(* InterleavedSearcher::update below BatchingSearcher::update: all         *)
(* containers change alike, and lastState stays a state they hold.         *)
(***************************************************************************)
LEMMA BaseUpdateLists ==
  ASSUME NEW base, NEW S, NEW added, NEW A, NEW removed, NEW cur,
         BaseLists(base, S), Lists(added, A), A \cap S = {},
         cur = Nobody \/ cur \in S, removed \subseteq S \cup A
  PROVE  BaseLists(BaseUpdate(base, cur, added, removed), (S \cup A) \ removed)
<1> DEFINE B == BaseUpdate(base, cur, added, removed)
           T == (S \cup A) \ removed
<1>1. DOMAIN base.held = DOMAIN search.cores
  BY DEF BaseLists
<1>2. /\ B.held = [i \in DOMAIN search.cores |->
                     CoreUpdate(search.cores[i], base.held[i], cur, added, removed)]
      /\ B.last = ForgetLast(base.last, removed)
      /\ B.ok = (/\ base.ok
                 /\ \A i \in DOMAIN search.cores :
                      CoreAsserts(search.cores[i], base.held[i], cur, added, removed))
  BY <1>1 DEF BaseUpdate
<1>3. ASSUME NEW i \in DOMAIN search.cores
      PROVE  /\ IF Keeps(search.cores[i]) THEN Lists(B.held[i], T) ELSE B.held[i] = <<>>
             /\ CoreAsserts(search.cores[i], base.held[i], cur, added, removed)
  <2>1. B.held[i] = CoreUpdate(search.cores[i], base.held[i], cur, added, removed)
    BY <1>2
  <2> HIDE DEF B
  <2>2. CASE Keeps(search.cores[i])
    <3>1. Lists(base.held[i], S)
      BY <2>2 DEF BaseLists
    <3> QED
      BY <3>1, <2>1, <2>2, CoreUpdateLists, CoreAssertsHold
  <2>3. CASE ~Keeps(search.cores[i])
    <3>1. CoreAsserts(search.cores[i], base.held[i], cur, added, removed)
      BY <2>3 DEF CoreAsserts
    <3>2. B.held[i] = <<>>
      BY <2>1, <2>3 DEF CoreUpdate, Keeps
    <3> QED
      BY <2>3, <3>1, <3>2
  <2> QED
    BY <2>2, <2>3
<1>4. base.ok
  BY DEF BaseLists
<1>5. B.last \in T \cup {Nobody}
  BY <1>2 DEF ForgetLast, BaseLists
<1>6. B.ok
  BY <1>2, <1>3, <1>4, Zenon
<1>7. DOMAIN B.held = DOMAIN search.cores
  BY <1>2
<1> HIDE DEF B, T
<1>8. BaseLists(B, T)
  BY <1>3, <1>5, <1>6, <1>7 DEF BaseLists
<1> QED
  BY <1>8 DEF B, T

(***************************************************************************)
(* IterativeDeepeningTimeSearcher: the containers and pausedStates share   *)
(* out the states T, and somebody is in the containers if there is one.    *)
(***************************************************************************)
SharedOut(r, T) ==
  /\ r.paused \subseteq T
  /\ BaseLists(r.base, T \ r.paused)
  /\ T # {} => T \ r.paused # {}

LEMMA ResumeLists ==
  ASSUME search \in Searches, search.deepening, Supported,
         NEW base, NEW S, NEW paused \in SUBSET State,
         BaseLists(base, S), IsFiniteSet(paused), paused \cap S = {}
  PROVE  SharedOut(Resume(base, paused), S \cup paused)
<1>1. 1 \in DOMAIN search.cores /\ Keeps(search.cores[1])
  <2>1. search.cores \in Seq(Cores) /\ search.cores # <<>>
    BY SearchesAssumption
  <2>2. Len(search.cores) \in Nat \ {0} /\ DOMAIN search.cores = 1 .. Len(search.cores)
    BY <2>1, EmptySeq, LenProperties
  <2>3. 1 \in DOMAIN search.cores
    BY <2>2
  <2> QED
    BY <2>3 DEF Supported
<1>2. Lists(base.held[1], S)
  BY <1>1 DEF BaseLists
<1>3. BaseEmpty(base) <=> base.held[1] = <<>>
  BY <1>1 DEF BaseEmpty
<1>4. CASE base.held[1] = <<>>
  <2>1. S = {}
    BY <1>2, <1>4 DEF Lists, Range
  <2>2. Resume(base, paused) =
          [base |-> BaseUpdate(base, Nobody, InSomeOrder(paused), {}), paused |-> {}]
    BY <1>3, <1>4 DEF Resume
  <2>3. Lists(InSomeOrder(paused), paused)
    BY InSomeOrderLists
  <2>4. BaseLists(BaseUpdate(base, Nobody, InSomeOrder(paused), {}), (S \cup paused) \ {})
    BY <2>3, BaseUpdateLists
  <2> QED
    BY <2>2, <2>4 DEF SharedOut
<1>5. CASE base.held[1] # <<>>
  <2>1. S # {}
    <3>1. base.held[1] \in Seq(State) /\ Range(base.held[1]) = S
      BY <1>2 DEF Lists
    <3>2. Len(base.held[1]) \in Nat \ {0} /\ DOMAIN base.held[1] = 1 .. Len(base.held[1])
      BY <3>1, <1>5, EmptySeq, LenProperties
    <3>3. 1 \in DOMAIN base.held[1]
      BY <3>2
    <3>4. base.held[1][1] \in Range(base.held[1])
      BY <3>3 DEF Range
    <3> QED
      BY <3>1, <3>4
  <2>2. Resume(base, paused) = [base |-> base, paused |-> paused]
    BY <1>3, <1>5 DEF Resume
  <2>3. (S \cup paused) \ paused = S
    OBVIOUS
  <2> QED
    BY <2>1, <2>2, <2>3 DEF SharedOut
<1> QED
  BY <1>4, <1>5

LEMMA DeepeningLists ==
  ASSUME search \in Searches, search.deepening, Supported,
         NEW base, NEW S \in SUBSET State, NEW added, NEW A, NEW removed, NEW cur, NEW slow,
         pausedStates \subseteq S, IsFiniteSet(S),
         BaseLists(base, S \ pausedStates), Lists(added, A), A \cap S = {},
         cur \in S \ pausedStates, removed \subseteq S
  PROVE  SharedOut(DeepeningUpdate(base, cur, added, removed, slow), (S \cup A) \ removed)
<1> DEFINE T == (S \cup A) \ removed
           R1 == removed \ pausedStates
           P1 == pausedStates \ removed
           B1 == BaseUpdate(base, cur, added, R1)
           B2 == BaseUpdate(B1, Nobody, <<>>, {cur})
           r == DeepeningUpdate(base, cur, added, removed, slow)
<1>1. BaseLists(B1, ((S \ pausedStates) \cup A) \ R1)
  BY BaseUpdateLists
<1>2. ((S \ pausedStates) \cup A) \ R1 = T \ P1 /\ P1 \subseteq T
  OBVIOUS
<1>3. BaseLists(B1, T \ P1)
  BY <1>1, <1>2
<1>4. P1 \in SUBSET State /\ IsFiniteSet(P1)
  <2>1. P1 \in SUBSET S
    OBVIOUS
  <2> QED
    BY <2>1, FS_Subset
<1>5. CASE slow /\ cur \notin removed
  <2> DEFINE P2 == P1 \cup {cur}
  <2>1. r = Resume(B2, P2)
    BY <1>5, Zenon DEF DeepeningUpdate, StillHeld
  <2>2. cur \in T \ P1
    BY <1>5
  <2>3. BaseLists(B2, ((T \ P1) \cup {}) \ {cur})
    <3>1. {} \cap (T \ P1) = {} /\ {cur} \subseteq (T \ P1) \cup {}
      BY <2>2
    <3> HIDE DEF B1, T, P1
    <3> QED
      BY <1>3, <3>1, EmptyLists, BaseUpdateLists, Zenon
  <2>4. ((T \ P1) \cup {}) \ {cur} = T \ P2
    OBVIOUS
  <2>5. BaseLists(B2, T \ P2)
    BY <2>3, <2>4, Zenon
  <2>6. P2 \in SUBSET State /\ IsFiniteSet(P2)
    BY <1>4, FS_AddElement, Zenon
  <2>7. (T \ P2) \cup P2 = T /\ P2 \cap (T \ P2) = {} /\ P2 \subseteq T
    BY <1>2, <2>2
  <2> HIDE DEF T, P1, P2, B1, B2, r
  <2>8. SharedOut(r, (T \ P2) \cup P2)
    BY <2>1, <2>5, <2>6, <2>7, ResumeLists
  <2> QED
    BY <2>7, <2>8 DEF r, T
<1>6. CASE ~(slow /\ cur \notin removed)
  <2>1. r = Resume(B1, P1)
    BY <1>6 DEF DeepeningUpdate, StillHeld
  <2>2. (T \ P1) \cup P1 = T /\ P1 \cap (T \ P1) = {}
    BY <1>2
  <2> HIDE DEF T, P1, B1, r
  <2>3. SharedOut(r, (T \ P1) \cup P1)
    BY <2>1, <2>2, <1>3, <1>4, ResumeLists
  <2> QED
    BY <2>2, <2>3 DEF r, T
<1> QED
  BY <1>5, <1>6

-----------------------------------------------------------------------------
Base == [held |-> held, last |-> lastState, ok |-> TRUE]

(***************************************************************************)
(* The inductive invariant.  The containers list the states that are not   *)
(* paused at every step, after the last one too; there is a state to       *)
(* select, and the state that is stepped is not paused.                    *)
(***************************************************************************)
IInv ==
  /\ search \in Searches /\ Supported
  /\ index \in 1 .. Len(search.cores)
  /\ states \in SUBSET State /\ IsFiniteSet(states)
  /\ pausedStates \subseteq states
  /\ ~search.deepening => pausedStates = {}
  /\ current \in State
  /\ level \in [State -> 0 .. MaxLevel]
  /\ pc \in {"select", "update", "done"}
  /\ BaseLists(Base, states \ pausedStates)
  /\ pc = "select" => states \ pausedStates # {}
  /\ pc = "update" => current \in states \ pausedStates

(***************************************************************************)
(* The options of a run: at least one core searcher.                       *)
(***************************************************************************)
LEMMA SomeCore ==
  ASSUME search \in Searches
  PROVE  /\ search.cores \in Seq(Cores)
         /\ Len(search.cores) \in Nat \ {0}
         /\ DOMAIN search.cores = 1 .. Len(search.cores)
         /\ 1 \in DOMAIN search.cores
         /\ search.batching \in BOOLEAN /\ search.deepening \in BOOLEAN
         /\ search.lowScores \in BOOLEAN
<1>1. /\ search.cores \in Seq(Cores) /\ search.cores # <<>>
      /\ search.batching \in BOOLEAN /\ search.deepening \in BOOLEAN
      /\ search.lowScores \in BOOLEAN
  BY SearchesAssumption
<1>2. Len(search.cores) \in Nat \ {0} /\ DOMAIN search.cores = 1 .. Len(search.cores)
  BY <1>1, EmptySeq, LenProperties
<1> QED
  BY <1>1, <1>2

LEMMA InitIInv == Init /\ Supported => IInv
<1> SUFFICES ASSUME Init, Supported PROVE IInv
  OBVIOUS
<1>1. /\ search \in Searches /\ index = 1 /\ lastState = Nobody /\ pausedStates = {}
      /\ states = {InitialState} /\ current = InitialState
      /\ level = [s \in State |-> 0] /\ pc = "select"
      /\ held = [i \in DOMAIN search.cores |->
                   IF Keeps(search.cores[i]) THEN <<InitialState>> ELSE <<>>]
  BY DEF Init
<1>2. InitialState \in State /\ MaxLevel \in Nat
  BY SearchersAssumption
<1>3. index \in 1 .. Len(search.cores)
  BY <1>1, SomeCore
<1>4. IsFiniteSet(states)
  BY <1>1, FS_Singleton, Zenon
<1>5. states \ pausedStates = {InitialState}
  BY <1>1
<1>6. BaseLists(Base, {InitialState})
  <2>1. Base.ok /\ Base.held = held /\ Base.last = Nobody
    BY <1>1 DEF Base
  <2>2. DOMAIN held = DOMAIN search.cores
    BY <1>1
  <2>3. ASSUME NEW i \in DOMAIN search.cores
        PROVE  IF Keeps(search.cores[i]) THEN Lists(held[i], {InitialState})
                                         ELSE held[i] = <<>>
    BY <1>1, <1>2, SingletonLists
  <2> QED
    BY <2>1, <2>2, <2>3, Zenon DEF BaseLists
<1>7. level \in [State -> 0 .. MaxLevel]
  BY <1>1, <1>2
<1> QED
  BY <1>1, <1>2, <1>3, <1>4, <1>5, <1>6, <1>7 DEF IInv

(***************************************************************************)
(* selectState returns a state that exists and is not paused.              *)
(***************************************************************************)
LEMMA SelectsHeld ==
  ASSUME IInv, NEW s, SelectState(s)
  PROVE  s \in states \ pausedStates
<1> DEFINE H == states \ pausedStates
           core == search.cores[index]
           found == CoreSelect(core, held[index])
<1>1. /\ search \in Searches /\ index \in DOMAIN search.cores /\ pc = "select"
      /\ H # {} /\ H \subseteq State /\ BaseLists(Base, H)
  BY SomeCore DEF IInv, SelectState
<1>2. /\ lastState \in H \cup {Nobody}
      /\ IF Keeps(core) THEN Lists(held[index], H) ELSE held[index] = <<>>
  BY <1>1, Zenon DEF BaseLists, Base
<1>3. CASE s = lastState /\ lastState # Nobody
  BY <1>2, <1>3
<1>4. CASE s \in IF found = {} THEN {Nobody} ELSE found
  <2>1. CASE Keeps(core)
    <3> DEFINE list == held[index]
    <3>1. list \in Seq(State) /\ Range(list) = H
      BY <1>2, <2>1 DEF Lists
    <3>2. list # <<>>
      BY <3>1, <1>1 DEF Range
    <3>3. Len(list) \in Nat \ {0} /\ DOMAIN list = 1 .. Len(list)
      BY <3>1, <3>2, EmptySeq, LenProperties
    <3>4. list[1] \in H /\ list[Len(list)] \in H
      BY <3>1, <3>3 DEF Range
    <3>0. ~(core = "param" /\ search.lowScores)
      BY <1>1 DEF IInv, Supported
    <3>5. found \in {{list[1]}, {list[Len(list)]}, H}
      BY <2>1, <3>0, <3>1, <3>2 DEF CoreSelect, Keeps
    <3>6. found # {} /\ found \subseteq H
      BY <3>4, <3>5, <1>1, Zenon
    <3> QED
      BY <3>6, <1>4
  <2>2. CASE ~Keeps(core)
    <3>1. found = states
      BY <2>2 DEF CoreSelect, Keeps
    <3>2. ~search.deepening
      BY <1>1, <2>2 DEF IInv, Supported
    <3>3. pausedStates = {}
      BY <3>2 DEF IInv
    <3> QED
      BY <3>1, <3>3, <1>1, <1>4
  <2> QED
    BY <2>1, <2>2
<1> QED
  BY <1>3, <1>4 DEF SelectState

LEMMA SelectKeepsIInv ==
  ASSUME IInv, NEW s, SelectState(s)
  PROVE  IInv'
<1>1. s \in states \ pausedStates
  BY SelectsHeld
<1>2. s \in State /\ s # Nobody
  BY <1>1, SearchersAssumption DEF IInv
<1>3. /\ pc = "select" /\ current' = s /\ pc' = "update"
      /\ UNCHANGED <<search, held, pausedStates, states, level>>
      /\ index' \in {index, NextTurn}
      /\ lastState' \in {lastState, s}
  BY <1>1 DEF SelectState
<1>4. index' \in 1 .. Len(search.cores)
  BY <1>3, SomeCore DEF NextTurn, IInv
<1>5. BaseLists(Base, states \ pausedStates)'
  <2>1. lastState' \in (states \ pausedStates) \cup {Nobody}
    BY <1>1, <1>3 DEF IInv, BaseLists, Base
  <2>2. /\ Base.held = held /\ Base.last = lastState /\ Base.ok
        /\ Base'.held = held' /\ Base'.last = lastState' /\ Base'.ok
    BY DEF Base
  <2>3. BaseLists(Base, states \ pausedStates)
    BY DEF IInv
  <2> HIDE DEF Base
  <2> QED
    BY <1>3, <2>1, <2>2, <2>3, Zenon DEF BaseLists
<1>6. Supported'
  BY <1>3, Zenon DEF IInv, Supported
<1> QED
  BY <1>1, <1>2, <1>3, <1>4, <1>5, <1>6 DEF IInv

(***************************************************************************)
(* updateStates, whichever searchers are put together: the containers and  *)
(* pausedStates share out the new Executor::states.                        *)
(***************************************************************************)
LEMMA UpdateLists ==
  ASSUME IInv, NEW added \in Additions, NEW removed \in SUBSET states, NEW slow,
         UpdateStates(added, removed, slow)
  PROVE  /\ states' = (states \cup Range(added)) \ removed
         /\ pausedStates' \subseteq states'
         /\ ~search.deepening => pausedStates' = {}
         /\ BaseLists(Base', states' \ pausedStates')
         /\ states' # {} => states' \ pausedStates' # {}
         /\ pc' = IF states' = {} THEN "done" ELSE "select"
<1> DEFINE A == Range(added)
           T == (states \cup A) \ removed
           new == IF search.deepening
                    THEN DeepeningUpdate(Base, current, added, removed, slow)
                    ELSE [base |-> BaseUpdate(Base, current, added, removed),
                          paused |-> pausedStates]
<1>1. /\ pc = "update" /\ A \cap states = {} /\ states' = T
      /\ held' = new.base.held /\ lastState' = new.base.last /\ pausedStates' = new.paused
      /\ pc' = IF ~new.base.ok THEN "aborted" ELSE IF states' = {} THEN "done" ELSE "select"
      /\ search' = search
  BY DEF UpdateStates, Base
<1>2. /\ search \in Searches /\ Supported /\ states \in SUBSET State /\ IsFiniteSet(states)
      /\ pausedStates \subseteq states /\ BaseLists(Base, states \ pausedStates)
      /\ current \in states \ pausedStates
      /\ ~search.deepening => pausedStates = {}
  BY <1>1 DEF IInv
<1>3. Lists(added, A)
  BY AdditionsLists
<1>4. /\ new.paused \subseteq T
      /\ BaseLists(new.base, T \ new.paused)
      /\ T # {} => T \ new.paused # {}
      /\ ~search.deepening => new.paused = {}
  <2>1. CASE search.deepening
    <3>1. new = DeepeningUpdate(Base, current, added, removed, slow)
      BY <2>1
    <3>2. removed \subseteq states /\ A \cap states = {} /\ states \in SUBSET State
      BY <1>1, <1>2
    <3>3. SharedOut(new, T)
      <4> HIDE DEF new, A
      <4> QED
        BY <3>1, <3>2, <2>1, <1>2, <1>3, DeepeningLists
    <3> HIDE DEF new, T
    <3> QED
      BY <3>3, <2>1 DEF SharedOut
  <2>2. CASE ~search.deepening
    <3>1. /\ new.base = BaseUpdate(Base, current, added, removed)
          /\ new.paused = {}
      BY <2>2, <1>2
    <3>2. BaseLists(Base, states)
      <4>1. states \ pausedStates = states
        BY <2>2, <1>2
      <4> QED
        BY <4>1, <1>2
    <3>3. BaseLists(new.base, T)
      <4>1. current \in states /\ removed \subseteq states \cup A
        BY <1>2
      <4> HIDE DEF new, A
      <4> QED
        BY <3>1, <3>2, <4>1, <1>1, <1>3, BaseUpdateLists
    <3>4. T \ {} = T
      OBVIOUS
    <3> HIDE DEF new, T
    <3> QED
      BY <3>1, <3>3, <3>4
  <2> QED
    BY <2>1, <2>2
<1> HIDE DEF new, T, A
<1>5. BaseLists(Base', T \ new.paused)
  <2>1. new.base.ok
    BY <1>4 DEF BaseLists
  <2>2. Base'.held = new.base.held /\ Base'.last = new.base.last /\ Base'.ok
    BY <1>1 DEF Base
  <2> HIDE DEF Base
  <2> QED
    BY <1>4, <2>1, <2>2, Zenon DEF BaseLists
<1>6. new.base.ok
  BY <1>4 DEF BaseLists
<1>7. pc' = IF states' = {} THEN "done" ELSE "select"
  BY <1>1, <1>6
<1> QED
  BY <1>1, <1>4, <1>5, <1>7 DEF T, A

LEMMA UpdateKeepsIInv ==
  ASSUME IInv, NEW added \in Additions, NEW removed \in SUBSET states, NEW slow,
         UpdateStates(added, removed, slow)
  PROVE  IInv'
<1> DEFINE A == Range(added)
<1>1. /\ states' = (states \cup A) \ removed
      /\ pausedStates' \subseteq states'
      /\ ~search.deepening => pausedStates' = {}
      /\ BaseLists(Base', states' \ pausedStates')
      /\ states' # {} => states' \ pausedStates' # {}
      /\ pc' = IF states' = {} THEN "done" ELSE "select"
  BY UpdateLists
<1>2. /\ pc = "update"
      /\ added # <<>> => level[current] < MaxLevel
      /\ level' = [s \in State |-> IF s \in removed THEN 0
                                   ELSE IF s \in A \cup {current} /\ added # <<>>
                                          THEN level[current] + 1
                                   ELSE level[s]]
      /\ UNCHANGED <<search, index, current>>
  BY DEF UpdateStates
<1>3. Lists(added, A)
  BY AdditionsLists
<1>4. states' \in SUBSET State /\ IsFiniteSet(states')
  <2>1. A \subseteq State /\ IsFiniteSet(A)
    BY <1>3, ListedStates, ListsCount
  <2>2. IsFiniteSet(states \cup A)
    BY <2>1, FS_Union, Zenon DEF IInv
  <2>3. states' \in SUBSET (states \cup A)
    BY <1>1
  <2> QED
    BY <2>1, <2>2, <2>3, FS_Subset DEF IInv
<1>5. level' \in [State -> 0 .. MaxLevel]
  <2>1. MaxLevel \in Nat /\ level \in [State -> 0 .. MaxLevel] /\ current \in State
    BY SearchersAssumption DEF IInv
  <2> QED
    BY <1>2, <2>1
<1>6. BaseLists(Base, states \ pausedStates)'
  BY <1>1, <1>2, Zenon DEF BaseLists
<1>7. /\ pc' \in {"select", "done"}
      /\ pc' = "select" => states' \ pausedStates' # {}
  BY <1>1
<1>8. /\ search' \in Searches
      /\ index' \in 1 .. Len(search'.cores)
      /\ ~search'.deepening => pausedStates' = {}
      /\ current' \in State
  BY <1>1, <1>2 DEF IInv
<1>9. Supported'
  BY <1>2, Zenon DEF IInv, Supported
<1> QED
  BY <1>1, <1>4, <1>5, <1>6, <1>7, <1>8, <1>9 DEF IInv

LEMMA NextKeepsIInv == IInv /\ [Next]_vars => IInv'
<1> SUFFICES ASSUME IInv, [Next]_vars PROVE IInv'
  OBVIOUS
<1>1. CASE \E s \in State \cup {Nobody} : SelectState(s)
  BY <1>1, SelectKeepsIInv
<1>2. CASE \E added \in Additions, removed \in SUBSET states, slow \in BOOLEAN :
             UpdateStates(added, removed, slow)
  BY <1>2, UpdateKeepsIInv
<1>3. CASE UNCHANGED vars
  BY <1>3, Zenon DEF vars, IInv, Base, BaseLists, Supported
<1> QED
  BY <1>1, <1>2, <1>3 DEF Next

\* The options do not change.
LEMMA SearchKept == [Next]_vars => (Supported' => Supported)
<1> SUFFICES ASSUME [Next]_vars PROVE search' = search
  BY Zenon DEF Supported
<1> QED
  BY DEF Next, SelectState, UpdateStates, vars

LEMMA IInvAlways == Spec => [](Supported => IInv)
<1>1. Init => (Supported => IInv)
  BY InitIInv
<1>2. (Supported => IInv) /\ [Next]_vars => (Supported => IInv)'
  BY NextKeepsIInv, SearchKept, Zenon
<1> QED
  BY <1>1, <1>2, PTL DEF Spec

-----------------------------------------------------------------------------
LEMMA IInvIsSound == IInv => SearchersSound
<1> SUFFICES ASSUME IInv PROVE SearchersSound
  OBVIOUS
<1> DEFINE H == states \ pausedStates
<1>1. /\ search \in Searches /\ BaseLists(Base, H) /\ H \subseteq State
      /\ pc \in {"select", "update", "done"}
  BY DEF IInv
<1>2. /\ DOMAIN held = DOMAIN search.cores
      /\ \A i \in DOMAIN search.cores :
           IF Keeps(search.cores[i]) THEN Lists(held[i], H) ELSE held[i] = <<>>
      /\ lastState \in H \cup {Nobody}
  BY <1>1, Zenon DEF BaseLists, Base
<1> HIDE DEF H
<1>3. \A i \in DOMAIN held : held[i] \in Seq(State)
  BY <1>2, EmptySeq, Zenon DEF Lists
<1>4. TypeOK
  BY <1>1, <1>2, <1>3 DEF IInv, TypeOK
<1>5. ASSUME NEW i \in DOMAIN held, Keeps(search.cores[i])
      PROVE  Range(held[i]) = H /\ Len(held[i]) = Cardinality(H)
  <2>1. Lists(held[i], H)
    BY <1>2, <1>5
  <2>2. Range(held[i]) = H
    BY <2>1 DEF Lists
  <2> QED
    BY <2>1, <2>2, ListsCount
<1>6. ContainersExact
  BY <1>5, Zenon DEF ContainersExact, H
<1>7. SomebodyRuns
  BY DEF SomebodyRuns, IInv
<1>8. BatchAlive
  BY <1>2 DEF BatchAlive, H
<1>9. AssertsHold
  BY <1>1 DEF AssertsHold
<1> QED
  BY <1>4, <1>6, <1>7, <1>8, <1>9 DEF SearchersSound

(***************************************************************************)
(* For any number of states, any searchers put together by                 *)
(* constructUserSearcher, except iterative deepening over random-path and  *)
(* the parameterized searcher with weights too low for getTop, and any     *)
(* additions and removals: no assert of Searcher.cpp or DiscretePDF fails, *)
(* each container holds every state that is not paused exactly once,       *)
(* somebody is left to run, and the state a batch goes on with is alive.   *)
(***************************************************************************)
THEOREM SearchersAreSound == Spec => []SearchersSound
<1>1. (Supported => IInv) => SearchersSound
  BY IInvIsSound, Zenon DEF SearchersSound
<1> QED
  BY <1>1, IInvAlways, PTL

LEMMA StepIsPoolStep ==
  ASSUME IInv, [Next]_vars
  PROVE  [Pool!Next]_<<states, current>>
<1>1. CASE \E s \in State \cup {Nobody} : SelectState(s)
  <2>1. PICK s : SelectState(s)
    BY <1>1
  <2>2. s \in states
    BY <2>1, SelectsHeld
  <2>3. current' = s /\ states' = states
    BY <2>1 DEF SelectState
  <2>4. Pool!Select
    BY <2>2, <2>3 DEF Pool!Select
  <2> QED
    BY <2>4 DEF Pool!Next
<1>2. CASE \E added \in Additions, removed \in SUBSET states, slow \in BOOLEAN :
             UpdateStates(added, removed, slow)
  <2>1. PICK added \in Additions, removed \in SUBSET states, slow \in BOOLEAN :
               UpdateStates(added, removed, slow)
    BY <1>2
  <2>2. /\ pc = "update" /\ Range(added) \cap states = {} /\ current' = current
        /\ states' = (states \cup Range(added)) \ removed
    BY <2>1 DEF UpdateStates
  <2>3. states # {} /\ states \subseteq State
    BY <2>2 DEF IInv
  <2>4. Range(added) \subseteq State
    BY AdditionsLists, ListedStates
  <2>5. Pool!Change(Range(added), removed)
    BY <2>2, <2>3, <2>4 DEF Pool!Change
  <2>6. Range(added) \in SUBSET State /\ removed \in SUBSET State
    BY <2>3, <2>4
  <2> QED
    BY <2>5, <2>6 DEF Pool!Next
<1>3. CASE UNCHANGED vars
  BY <1>3 DEF vars
<1> QED
  BY <1>1, <1>2, <1>3 DEF Next

(***************************************************************************)
(* Under any searchers with the same two exceptions, selections return     *)
(* states that exist, and updates add new states and remove existing ones: *)
(* the loop of run() with its searcher implements the pool of states.      *)
(***************************************************************************)
THEOREM SearchersImplementPool == Spec => PoolSpec
<1>1. Init => Pool!Init
  BY DEF Init, Pool!Init
<1>2. (Supported => IInv) /\ [Next]_vars => [~Supported \/ Pool!Next]_<<states, current>>
  <2>1. CASE Supported
    BY <2>1, StepIsPoolStep
  <2>2. CASE ~Supported
    BY <2>2
  <2> QED
    BY <2>1, <2>2
<1> QED
  BY <1>1, <1>2, IInvAlways, PTL DEF Spec, PoolSpec

-----------------------------------------------------------------------------
(***************************************************************************)
(* Breadth-first search.  The elements of the list outside R are in the    *)
(* order of their levels lv, and span at most two of them.                 *)
(***************************************************************************)
InOrder(list, lv, R) ==
  \A i, j \in DOMAIN list :
    i < j /\ list[i] \notin R /\ list[j] \notin R =>
      lv[list[i]] \in {lv[list[j]], lv[list[j]] - 1}

LEMMA WithoutInOrder ==
  ASSUME NEW list \in Seq(State), NEW lv, NEW R, NEW removed,
         InOrder(list, lv, R \cup removed)
  PROVE  InOrder(Without(list, removed), lv, R)
<1> DEFINE W == Without(list, removed)
<1>1. PICK g \in [DOMAIN W -> DOMAIN list] :
         /\ \A k \in DOMAIN W : W[k] = list[g[k]] /\ W[k] \notin removed
         /\ \A a, b \in DOMAIN W : a < b => g[a] < g[b]
  BY WithoutSelects
<1> HIDE DEF W
<1>2. ASSUME NEW a \in DOMAIN W, NEW b \in DOMAIN W, a < b, W[a] \notin R, W[b] \notin R
      PROVE  lv[W[a]] \in {lv[W[b]], lv[W[b]] - 1}
  <2>1. /\ g[a] \in DOMAIN list /\ g[b] \in DOMAIN list /\ g[a] < g[b]
        /\ W[a] = list[g[a]] /\ W[b] = list[g[b]]
        /\ W[a] \notin R \cup removed /\ W[b] \notin R \cup removed
    BY <1>1, <1>2
  <2> QED
    BY <2>1 DEF InOrder
<1> QED
  BY <1>2 DEF InOrder, W

LEMMA ConcatThree ==
  ASSUME NEW p \in Seq(State), NEW q \in Seq(State), NEW r \in Seq(State)
  PROVE  (p \o q) \o r = p \o (q \o r)
BY ConcatAssociative

LEMMA ConcatInOrder ==
  ASSUME NEW p \in Seq(State), NEW q \in Seq(State), NEW lv, NEW R, NEW n \in Nat,
         InOrder(p, lv, R),
         \A i \in DOMAIN p : p[i] \notin R => lv[p[i]] \in {n, n + 1},
         \A j \in DOMAIN q : lv[q[j]] = n + 1
  PROVE  InOrder(p \o q, lv, R)
<1> DEFINE c == p \o q
<1>1. /\ Len(p) \in Nat /\ DOMAIN p = 1 .. Len(p)
      /\ Len(q) \in Nat /\ DOMAIN q = 1 .. Len(q)
  BY LenProperties
<1>2. /\ c \in Seq(State)
      /\ Len(c) = Len(p) + Len(q)
      /\ \A i \in 1 .. Len(p) + Len(q) : c[i] = IF i <= Len(p) THEN p[i] ELSE q[i - Len(p)]
  BY ConcatProperties
<1>3. DOMAIN c = 1 .. Len(p) + Len(q)
  BY <1>2, LenProperties
<1> HIDE DEF c
<1>4. \A i \in DOMAIN c : \/ i \in DOMAIN p /\ c[i] = p[i]
                          \/ i > Len(p) /\ i - Len(p) \in DOMAIN q /\ c[i] = q[i - Len(p)]
  BY <1>1, <1>2, <1>3
<1>5. ASSUME NEW i \in DOMAIN c, NEW j \in DOMAIN c, i < j, c[i] \notin R, c[j] \notin R
      PROVE  lv[c[i]] \in {lv[c[j]], lv[c[j]] - 1}
  <2>1. CASE i \in DOMAIN p /\ c[i] = p[i] /\ j \in DOMAIN p /\ c[j] = p[j]
    BY <2>1, <1>5 DEF InOrder
  <2>2. CASE i \in DOMAIN p /\ c[i] = p[i] /\ j - Len(p) \in DOMAIN q /\ c[j] = q[j - Len(p)]
    <3>1. lv[c[i]] \in {n, n + 1} /\ lv[c[j]] = n + 1
      BY <2>2, <1>5
    <3> QED
      BY <3>1
  <2>3. CASE /\ i - Len(p) \in DOMAIN q /\ c[i] = q[i - Len(p)]
             /\ j - Len(p) \in DOMAIN q /\ c[j] = q[j - Len(p)]
    <3>1. lv[c[i]] = n + 1 /\ lv[c[j]] = n + 1
      BY <2>3
    <3> QED
      BY <3>1
  <2>4. ~(i > Len(p) /\ j \in DOMAIN p)
    BY <1>1, <1>3, <1>5
  <2> QED
    BY <2>1, <2>2, <2>3, <2>4, <1>4
<1> QED
  BY <1>5 DEF InOrder, c

\* -search=bfs alone.
OnlyBFS == search.cores = <<"bfs">> /\ ~search.batching /\ ~search.deepening

(***************************************************************************)
(* The inductive invariant of BreadthFirst: the state that is stepped is   *)
(* the first of the queue.                                                 *)
(***************************************************************************)
QueueInv ==
  OnlyBFS => /\ InOrder(held[1], level, {})
             /\ pc = "update" => current = held[1][1]

\* The levels after an update.
NextLevels(lv, cur, added, removed) ==
  [s \in State |-> IF s \in removed THEN 0
                   ELSE IF s \in Range(added) \cup {cur} /\ added # <<>> THEN lv[cur] + 1
                   ELSE lv[s]]

(***************************************************************************)
(* BFSSearcher::update: a state that forked goes behind the others, with   *)
(* the states it forked off, and they are one level further down.          *)
(***************************************************************************)
LEMMA CoreUpdateInOrder ==
  ASSUME NEW list, NEW S, Lists(list, S), NEW added, NEW A, Lists(added, A), A \cap S = {},
         NEW removed \in SUBSET S, NEW lv \in [State -> Nat], InOrder(list, lv, {}),
         NEW cur \in S, list[1] = cur, cur # Nobody
  PROVE  InOrder(CoreUpdate("bfs", list, cur, added, removed),
                 NextLevels(lv, cur, added, removed), {})
<1> DEFINE n == lv[cur]
           lv2 == NextLevels(lv, cur, added, removed)
<1>1. /\ list \in Seq(State) /\ Range(list) = S
      /\ added \in Seq(State) /\ Range(added) = A
  BY DEF Lists
<1>2. S \subseteq State /\ A \subseteq State /\ n \in Nat
  BY ListedStates
<1>3. /\ Len(list) \in Nat /\ DOMAIN list = 1 .. Len(list)
      /\ \A i \in DOMAIN list : list[i] \in S /\ i \in Nat
  BY <1>1, LenProperties DEF Range
<1>3a. \A s \in State : lv2[s] = IF s \in removed THEN 0
                                       ELSE IF s \in A \cup {cur} /\ added # <<>> THEN n + 1
                                       ELSE lv[s]
  BY <1>1 DEF NextLevels
<1> HIDE DEF lv2
<1> SUFFICES InOrder(CoreUpdate("bfs", list, cur, added, removed), lv2, {})
  BY DEF lv2
<1>4. ASSUME NEW i \in DOMAIN list
      PROVE  lv[list[i]] \in {n, n + 1}
  <2>1. CASE i = 1
    BY <2>1
  <2>2. CASE i # 1
    <3>1. 1 \in DOMAIN list /\ 1 < i
      BY <2>2, <1>3
    <3>2. n \in {lv[list[i]], lv[list[i]] - 1}
      BY <3>1 DEF InOrder
    <3>3. lv[list[i]] \in Nat
      BY <1>2, <1>3
    <3> HIDE DEF n
    <3> QED
      BY <3>2, <3>3, <1>2
  <2> QED
    BY <2>1, <2>2
<1>5. CASE added = <<>>
  <2>1. CoreUpdate("bfs", list, cur, added, removed) = Without(list, removed)
    <3>1. list \o added = list
      BY <1>1, <1>5, ConcatEmptySeq
    <3> QED
      BY <3>1, <1>5 DEF CoreUpdate, Requeue
  <2>2. \A s \in S : s \notin removed => lv2[s] = lv[s]
    BY <1>3a, <1>2, <1>5
  <2>3. InOrder(list, lv2, {} \cup removed)
    BY <2>2, <1>3, Zenon DEF InOrder
  <2>4. InOrder(Without(list, removed), lv2, {})
    BY <2>3, <1>1, WithoutInOrder, Zenon
  <2> QED
    BY <2>1, <2>4
<1>6. CASE added # <<>>
  <2>1. \A s \in S : s \notin removed /\ s # cur => lv2[s] = lv[s]
    BY <1>3a, <1>2
  <2>2. \A s \in A : lv2[s] = n + 1
    BY <1>3a, <1>2, <1>6
  <2>3. InOrder(list, lv2, removed \cup {cur})
    BY <2>1, <1>3 DEF InOrder
  <2>4. \A s \in S : s \notin removed /\ s # cur => lv2[s] \in {n, n + 1}
    BY <2>1, <1>1, <1>4 DEF Range
  <2>5. \A j \in DOMAIN added : lv2[added[j]] = n + 1
    BY <2>2, <1>1 DEF Range
  <2>6. CASE cur \in removed
    <3>1. CoreUpdate("bfs", list, cur, added, removed) = Without(list \o added, removed)
      BY <2>6 DEF CoreUpdate, Requeue
    <3>2. removed \cup {cur} = removed /\ {} \cup removed = removed
      BY <2>6
    <3>3. InOrder(list, lv2, removed)
      BY <2>3, <3>2, Zenon
    <3>4. \A i \in DOMAIN list : list[i] \notin removed => lv2[list[i]] \in {n, n + 1}
      BY <2>4, <2>6, <1>3
    <3>5. InOrder(list \o added, lv2, removed)
      <4> HIDE DEF n
      <4> QED
        BY <3>3, <3>4, <2>5, <1>1, <1>2, ConcatInOrder, Zenon
    <3>6. list \o added \in Seq(State)
      BY <1>1, ConcatProperties
    <3>7. InOrder(list \o added, lv2, {} \cup removed)
      BY <3>2, <3>5
    <3>8. InOrder(Without(list \o added, removed), lv2, {})
      BY <3>6, <3>7, WithoutInOrder, Zenon
    <3> QED
      BY <3>1, <3>8
  <2>7. CASE cur \notin removed
    <3> DEFINE p == Without(list, {cur})
               q == <<cur>> \o added
    <3>1. p \in Seq(State)
      BY <1>1, WithoutSelects
    <3>2. cur \in State /\ <<cur>> \in Seq(State)
      BY <1>2
    <3>3. Append(p, cur) \o added = p \o q
      <4> DEFINE c == <<cur>>
      <4>1. c \in Seq(State)
        BY <3>2
      <4> HIDE DEF p, c
      <4>2. Append(p, cur) = p \o c
        BY <3>1, <3>2, AppendIsConcat DEF c
      <4>3. (p \o c) \o added = p \o (c \o added)
        <5>1. added \in Seq(State)
          BY <1>1
        <5> QED
          BY <5>1, <3>1, <4>1, ConcatThree, Zenon
      <4> QED
        BY <4>2, <4>3 DEF c
    <3>4. CoreUpdate("bfs", list, cur, added, removed) = Without(p \o q, removed)
      BY <3>3, <2>7, <1>6, Zenon DEF CoreUpdate, Requeue
    <3>5. InOrder(p, lv2, removed)
      BY <2>3, <1>1, WithoutInOrder
    <3>6. \A i \in DOMAIN p : p[i] \notin removed => lv2[p[i]] \in {n, n + 1}
      <4>1. Lists(p, S \ {cur})
        BY WithoutLists
      <4> HIDE DEF p, n
      <4>2. Range(p) = S \ {cur}
        BY <4>1 DEF Lists
      <4>3. \A k \in DOMAIN p : p[k] \in Range(p)
        BY DEF Range
      <4> QED
        BY <4>2, <4>3, <2>4
    <3>7. /\ q \in Seq(State)
          /\ \A j \in DOMAIN q : lv2[q[j]] = n + 1
      <4>1. lv2[cur] = n + 1
        BY <1>3a, <2>7, <1>6, <3>2
      <4>2. {cur} \cap A = {}
        OBVIOUS
      <4>3. Lists(q, {cur} \cup A)
        BY <4>2, <3>2, SingletonLists, ConcatLists, Zenon
      <4>4. q \in Seq(State) /\ Range(q) = {cur} \cup A
        BY <4>3, Zenon DEF Lists
      <4> HIDE DEF q, n
      <4> QED
        BY <4>1, <4>4, <2>2, Zenon DEF Range
    <3> HIDE DEF p, q, n
    <3>8. InOrder(p \o q, lv2, removed)
      BY <3>1, <3>5, <3>6, <3>7, <1>2, ConcatInOrder, Zenon
    <3>9. p \o q \in Seq(State) /\ {} \cup removed = removed
      BY <3>1, <3>7, ConcatProperties
    <3>10. InOrder(p \o q, lv2, {} \cup removed)
      BY <3>8, <3>9
    <3>11. InOrder(Without(p \o q, removed), lv2, {})
      BY <3>9, <3>10, WithoutInOrder, Zenon
    <3> QED
      BY <3>4, <3>11
  <2> QED
    BY <2>6, <2>7
<1> QED
  BY <1>5, <1>6

LEMMA InitQueueInv == Init => QueueInv
<1> SUFFICES ASSUME Init, OnlyBFS PROVE InOrder(held[1], level, {}) /\ pc # "update"
  BY DEF QueueInv
<1>1. held[1] = <<InitialState>> /\ pc = "select"
  BY SomeCore DEF Init, OnlyBFS, Keeps
<1>2. DOMAIN held[1] = {1}
  BY <1>1
<1> QED
  BY <1>1, <1>2 DEF InOrder

LEMMA SelectKeepsQueueInv ==
  ASSUME IInv, QueueInv, NEW s, SelectState(s)
  PROVE  QueueInv'
<1> SUFFICES ASSUME OnlyBFS'
             PROVE  InOrder(held[1], level, {})' /\ current' = held[1][1]'
  BY DEF QueueInv
<1>1. UNCHANGED <<search, held, pausedStates, states, level>> /\ current' = s
  BY DEF SelectState
<1>2. OnlyBFS
  BY <1>1 DEF OnlyBFS
<1>3. search.cores[index] = "bfs" /\ index = 1 /\ ~search.batching
  BY <1>2 DEF OnlyBFS, IInv
<1>4. s \in IF CoreSelect("bfs", held[1]) = {} THEN {Nobody} ELSE CoreSelect("bfs", held[1])
  BY <1>3 DEF SelectState
<1>5. s # Nobody
  BY SelectsHeld, SearchersAssumption DEF IInv
<1>6. s = held[1][1]
  BY <1>4, <1>5 DEF CoreSelect
<1>7. InOrder(held[1], level, {})
  BY <1>2 DEF QueueInv
<1> QED
  BY <1>1, <1>6, <1>7

LEMMA UpdateKeepsQueueInv ==
  ASSUME IInv, QueueInv, NEW added \in Additions, NEW removed \in SUBSET states, NEW slow,
         UpdateStates(added, removed, slow)
  PROVE  QueueInv'
<1> SUFFICES ASSUME OnlyBFS'
             PROVE  InOrder(held[1], level, {})' /\ pc' # "update"
  BY DEF QueueInv
<1> DEFINE A == Range(added)
           B == BaseUpdate(Base, current, added, removed)
<1>1. /\ search' = search /\ pc = "update" /\ A \cap states = {}
      /\ level' = NextLevels(level, current, added, removed)
  BY DEF UpdateStates, NextLevels
<1>2. OnlyBFS /\ ~search.deepening /\ search.cores[1] = "bfs"
  BY <1>1 DEF OnlyBFS
<1>3. pc' # "update"
  BY UpdateLists
<1>4. search \in Searches /\ BaseLists(Base, states) /\ 1 \in DOMAIN search.cores
  <2>1. states \ pausedStates = states
    BY <1>2 DEF IInv
  <2> QED
    BY <2>1, SomeCore, Zenon DEF IInv
<1>5. Base.held = held /\ DOMAIN held = DOMAIN search.cores /\ Lists(held[1], states)
  <2>1. Base.held = held
    BY DEF Base
  <2>2. Keeps(search.cores[1])
    BY <1>2 DEF Keeps
  <2> QED
    BY <2>1, <2>2, <1>4 DEF BaseLists
<1>6. held'[1] = CoreUpdate("bfs", held[1], current, added, removed)
  <2>1. held' = B.held
    <3>1. PICK new \in {IF search.deepening
                           THEN DeepeningUpdate(Base, current, added, removed, slow)
                           ELSE [base |-> B, paused |-> pausedStates]} :
            held' = new.base.held
      BY Zenon DEF UpdateStates, Base
    <3> HIDE DEF B
    <3>2. new = [base |-> B, paused |-> pausedStates]
      BY <1>2
    <3> QED
      BY <3>1, <3>2
  <2>2. B.held[1] = CoreUpdate(search.cores[1], Base.held[1], current, added, removed)
    BY <1>4, <1>5 DEF BaseUpdate
  <2> HIDE DEF B
  <2> QED
    BY <2>1, <2>2, <1>2, <1>5
<1>7. Lists(added, A)
  BY AdditionsLists
<1>8. /\ current \in states /\ current # Nobody
      /\ level \in [State -> Nat]
  BY <1>1, SearchersAssumption DEF IInv
<1>9. InOrder(held[1], level, {}) /\ held[1][1] = current
  BY <1>1, <1>2 DEF QueueInv
<1> HIDE DEF A, B
<1>10. InOrder(CoreUpdate("bfs", held[1], current, added, removed),
               NextLevels(level, current, added, removed), {})
  BY <1>1, <1>5, <1>7, <1>8, <1>9, CoreUpdateInOrder
<1> QED
  BY <1>1, <1>3, <1>6, <1>10

(***************************************************************************)
(* For any number of states, -search=bfs alone keeps its queue in the      *)
(* order of the forks behind the states, at most two levels of them at a   *)
(* time, whatever is forked off and removed: BFSSearcher::update moves a   *)
(* state that forked behind all others.                                    *)
(***************************************************************************)
THEOREM QueueIsBreadthFirst == Spec => []BreadthFirst
<1>1. Init => QueueInv
  BY InitQueueInv
<1>2. (Supported => IInv) /\ QueueInv /\ [Next]_vars => QueueInv'
  <2> SUFFICES ASSUME IInv, QueueInv, [Next]_vars PROVE QueueInv'
    <3>1. ASSUME [Next]_vars, OnlyBFS' PROVE Supported
      <4>1. search' = search
        BY <3>1 DEF Next, SelectState, UpdateStates, vars
      <4>2. OnlyBFS
        BY <3>1, <4>1 DEF OnlyBFS
      <4>3. DOMAIN search.cores = {1} /\ search.cores[1] = "bfs"
        BY <4>2 DEF OnlyBFS
      <4> QED
        BY <4>2, <4>3 DEF OnlyBFS, Supported, Keeps
    <3> QED
      BY <3>1, Zenon DEF QueueInv
  <2>1. CASE \E s \in State \cup {Nobody} : SelectState(s)
    BY <2>1, SelectKeepsQueueInv
  <2>2. CASE \E added \in Additions, removed \in SUBSET states, slow \in BOOLEAN :
               UpdateStates(added, removed, slow)
    BY <2>2, UpdateKeepsQueueInv
  <2>3. CASE UNCHANGED vars
    BY <2>3 DEF vars, QueueInv, OnlyBFS
  <2> QED
    BY <2>1, <2>2, <2>3 DEF Next
<1>3. QueueInv => BreadthFirst
  BY DEF QueueInv, OnlyBFS, InOrder, BreadthFirst
<1> QED
  BY <1>1, <1>2, <1>3, IInvAlways, PTL DEF Spec
=============================================================================
