----------------------------- MODULE MapOfSets -----------------------------
(***************************************************************************)
(* MapOfSets: a map from sets to values, kept as a tree.  The elements of  *)
(* a set, in their order, are the path from the root to the node that      *)
(* holds its value.  CexCachingSolver looks up whether it knows a subset   *)
(* or a superset of a set of constraints.                                  *)
(*                                                                         *)
(* The elements are numbers, in their order.  A returned V* is a set:      *)
(* empty for a null pointer, or with the value.  A predicate on values is  *)
(* the set of the values that it accepts.                                  *)
(***************************************************************************)
EXTENDS Naturals, Sequences, FiniteSets, SequencesExt, TLC

CONSTANT NoValue        \* V()

\* The elements of a std::set, or the children of a node, in order.
Sorted(S) == [k \in 1..Cardinality(S) |-> CHOOSE x \in S : Cardinality({y \in S : y <= x}) = k]

\* MapOfSets::Node
NewNode == [end |-> FALSE, value |-> NoValue, children |-> <<>>]
Kids(n) == Sorted(DOMAIN n.children)
ValueOf(n, good) == IF n.end /\ n.value \in good THEN {n.value} ELSE {}

RECURSIVE InsertBelow(_, _, _)
InsertBelow(n, s, v) ==
  IF s = <<>> THEN [n EXCEPT !.end = TRUE, !.value = v]
  ELSE LET child == IF Head(s) \in DOMAIN n.children THEN n.children[Head(s)] ELSE NewNode
       IN [n EXCEPT !.children = (Head(s) :> InsertBelow(child, Tail(s), v)) @@ @]
Insert(root, set, v) == InsertBelow(root, Sorted(set), v)

RECURSIVE LookupAt(_, _)
LookupAt(n, s) ==
  CASE s = <<>> -> IF n.end THEN {n.value} ELSE {}
    [] s # <<>> /\ Head(s) \notin DOMAIN n.children -> {}
    [] OTHER -> LookupAt(n.children[Head(s)], Tail(s))
Lookup(root, set) == LookupAt(root, Sorted(set))
-----------------------------------------------------------------------------
(***************************************************************************)
(* findSubset walks over the set and over the children from its first      *)
(* element on, side by side.                                               *)
(***************************************************************************)
RECURSIVE FindSubsetAt(_, _, _)
RECURSIVE SubsetAmong(_, _, _, _)
\* Mutant: the walk ends with the first child that fails.
FirstMatchOnly(n, it, kids, good) ==
  CASE it = <<>> \/ kids = <<>> -> {}
    [] it # <<>> /\ kids # <<>> /\ Head(it) < Head(kids) ->
         SubsetAmong(n, Tail(it), kids, good)
    [] it # <<>> /\ kids # <<>> /\ Head(kids) < Head(it) ->
         SubsetAmong(n, it, Tail(kids), good)
    [] OTHER -> FindSubsetAt(n.children[Head(kids)], Tail(it), good)
SubsetAmong(n, it, kids, good) ==
  CASE it = <<>> \/ kids = <<>> -> {}
    [] it # <<>> /\ kids # <<>> /\ Head(it) < Head(kids) ->
         SubsetAmong(n, Tail(it), kids, good)
    [] it # <<>> /\ kids # <<>> /\ Head(kids) < Head(it) ->
         SubsetAmong(n, it, Tail(kids), good)
    [] OTHER ->
         LET res == FindSubsetAt(n.children[Head(kids)], Tail(it), good)
         IN IF res # {} THEN res ELSE SubsetAmong(n, Tail(it), kids, good)
FindSubsetAt(n, s, good) ==
  CASE ValueOf(n, good) # {} -> ValueOf(n, good)
    [] ValueOf(n, good) = {} /\ s = <<>> -> {}
    [] OTHER -> SubsetAmong(n, s, SelectSeq(Kids(n), LAMBDA k : k >= Head(s)), good)
FindSubset(root, set, good) == FindSubsetAt(root, Sorted(set), good)

\* The first result that is not null.
FirstFound(results) ==
  LET found == SelectSeq(results, LAMBDA r : r # {})
  IN IF found = <<>> THEN {} ELSE Head(found)

(***************************************************************************)
(* findSuperset tries all children without going on in the set, and then   *)
(* the child that is the first element of the set.                         *)
(***************************************************************************)
RECURSIVE FindSupersetAt(_, _, _)
FindSupersetAt(n, s, good) ==
  LET below == [k \in DOMAIN Kids(n) |-> FindSupersetAt(n.children[Kids(n)[k]], s, good)]
  IN IF s = <<>> THEN FirstFound(<<ValueOf(n, good)>> \o below)
     ELSE FirstFound(below \o (IF Head(s) \in DOMAIN n.children
                                 THEN <<FindSupersetAt(n.children[Head(s)], Tail(s), good)>>
                                 ELSE <<>>))
FindSuperset(root, set, good) == FindSupersetAt(root, Sorted(set), good)
-----------------------------------------------------------------------------
(***************************************************************************)
(* subsets and supersets list all entries that fit.                        *)
(***************************************************************************)
Here(n, accum) == IF n.end THEN <<[set |-> accum, value |-> n.value]>> ELSE <<>>

RECURSIVE FindSubsetsAt(_, _, _)
FindSubsetsAt(n, accum, s) ==
  Here(n, accum) \o
    FlattenSeq([k \in DOMAIN s |->
      IF s[k] \notin DOMAIN n.children THEN <<>>
      ELSE FindSubsetsAt(n.children[s[k]], accum \cup {s[k]}, SubSeq(s, k + 1, Len(s)))])
Subsets(root, set) == FindSubsetsAt(root, {}, Sorted(set))

RECURSIVE FindSupersetsAt(_, _, _)
FindSupersetsAt(n, accum, s) ==
  LET Under(k, rest) == FindSupersetsAt(n.children[k], accum \cup {k}, rest)
      \* for (...) { ... else break; }
      upTo == SelectSeq(Kids(n), LAMBDA k : s = <<>> \/ k <= Head(s))
  IN (IF s = <<>> THEN Here(n, accum) ELSE <<>>) \o
       FlattenSeq([j \in DOMAIN upTo |->
         Under(upTo[j], IF s # <<>> /\ Head(s) = upTo[j] THEN Tail(s) ELSE s)])
Supersets(root, set) == FindSupersetsAt(root, {}, Sorted(set))
-----------------------------------------------------------------------------
(***************************************************************************)
(* The iterator: a stack of children, and whether it stands on an entry    *)
(* whose children it has not visited yet; ok is the assert of step.        *)
(***************************************************************************)
RECURSIVE NodeAt(_, _)
NodeAt(n, path) == IF path = <<>> THEN n ELSE NodeAt(n.children[Head(path)], Tail(path))
Entering(stack) == [onEntry |-> TRUE, stack |-> stack, ok |-> TRUE]
End == [onEntry |-> FALSE, stack |-> <<>>, ok |-> TRUE]

\* Down the first children to an entry.
RECURSIVE FirstEntry(_, _)
FirstEntry(root, stack) ==
  LET n == NodeAt(root, stack)
  IN CASE n.end -> Entering(stack)
       [] ~n.end /\ Kids(n) = <<>> -> [End EXCEPT !.ok = FALSE]
       [] OTHER -> FirstEntry(root, Append(stack, Head(Kids(n))))

RECURSIVE NextSibling(_, _)
NextSibling(root, stack) ==
  IF stack = <<>> THEN End
  ELSE LET later == SelectSeq(Kids(NodeAt(root, Front(stack))),
                              LAMBDA k : k > Last(stack))
       IN IF later = <<>> THEN NextSibling(root, Front(stack))
          ELSE FirstEntry(root, Append(Front(stack), Head(later)))

\* An entry with children is followed by the first entry below it.
Step(root, it) ==
  LET kids == Kids(NodeAt(root, it.stack))
  IN IF it.onEntry /\ kids # <<>> THEN FirstEntry(root, Append(it.stack, Head(kids)))
     ELSE NextSibling(root, it.stack)
Begin(root) == IF root.end THEN Entering(<<>>) ELSE Step(root, Entering(<<>>))
Deref(root, it) == [set |-> Range(it.stack), value |-> NodeAt(root, it.stack).value]

\* What a loop from begin() to end() sees.
RECURSIVE Visited(_, _)
Visited(root, it) ==
  IF it = End \/ ~it.ok THEN <<>>
  ELSE <<Deref(root, it)>> \o Visited(root, Step(root, it))
-----------------------------------------------------------------------------
(***************************************************************************)
(* The reference: a map is the set of its entries.                         *)
(***************************************************************************)
RECURSIVE EntriesBelow(_, _)
EntriesBelow(n, accum) ==
  (IF n.end THEN {[set |-> accum, value |-> n.value]} ELSE {}) \cup
    UNION {EntriesBelow(n.children[k], accum \cup {k}) : k \in DOMAIN n.children}
Entries(root) == EntriesBelow(root, {})

\* A result of findSubset or findSuperset is right if it is the value of one
\* of the entries that fit, and missing only if none fits.
FoundRight(found, fit) ==
  IF fit = {} THEN found = {} ELSE \E x \in fit : found = {x.value}
\* A list of entries has each of them once.
Lists(seq, entries) == Range(seq) = entries /\ Len(seq) = Cardinality(entries)

\* Every way of looking a set up agrees with all, the entries, whichever
\* of the sets in goods a value has to be in.
LooksUpRight(root, all, set, goods) ==
  LET below == {x \in all : x.set \subseteq set}
      above == {x \in all : set \subseteq x.set}
  IN /\ Lookup(root, set) = {x.value : x \in below \cap above}
     /\ Lists(Subsets(root, set), below) /\ Lists(Supersets(root, set), above)
     /\ \A good \in goods :
          /\ FoundRight(FindSubset(root, set, good), {x \in below : x.value \in good})
          /\ FoundRight(FindSuperset(root, set, good), {x \in above : x.value \in good})
=============================================================================
