----------------------------- MODULE AddressSpace -----------------------------
(***************************************************************************)
(* The address spaces of the execution states (AddressSpace.cpp) and the   *)
(* operations of Executor.cpp that go through them.  A fork copies the map *)
(* of objects and not the objects: an ObjectState is written in place only *)
(* by the address space whose cowKey is its copyOnWriteOwner, and copied   *)
(* by every other one.  Operations on several objects or states (a write   *)
(* through a pointer that may point to several objects, an external call,  *)
(* a merge) find their ObjectStates first and use the pointers later, one  *)
(* object at a time.  The contents of an object are one opaque value here; *)
(* ObjectState opens them.                                                 *)
(***************************************************************************)
EXTENDS Naturals, FiniteSets

CONSTANTS State, InitialState,
          Object,       \* memory objects; those of Constant are read-only globals
          Constant,
          Address,      \* where an ObjectState may be allocated
          Contents,
          Null, Unbound, Dead,
          MaxKey        \* bound on cowKey, that is on the forks of a path

ASSUME AddressSpaceAssumption ==
  /\ InitialState \in State
  /\ Constant \subseteq Object
  /\ Null \notin Address
  /\ Unbound \notin Contents
  /\ Dead \notin [Object -> Contents \cup {Unbound}]
  /\ MaxKey \in Nat

VARIABLES
  live,     \* the states that exist
  cowKey,   \* AddressSpace::cowKey
  objects,  \* AddressSpace::objects: objects[s][mo], Null when mo is not bound
  heap,     \* the ObjectStates: copyOnWriteOwner, readOnly and the contents
  native,   \* the memory external functions see, at the addresses of the objects
  op,       \* the operation under way: "none", "write", "external" or "merge"
  who,      \* the state it is performed on (unbound, in executeMemoryOperation)
  other,    \* the state that is merged into it
  rl        \* the ObjectStates it has found and not treated yet

vars == <<live, cowKey, objects, heap, native, op, who, other, rl>>

Freed == [owner |-> 0, readOnly |-> FALSE, contents |-> Unbound]
Cell == [owner : Nat, readOnly : BOOLEAN, contents : Contents]

\* ObjectStates are reference counted: h with those freed that no state of
\* the set S binds in obs.
Collect(h, S, obs) ==
  [a \in Address |-> IF \E s \in S, mo \in Object : obs[s][mo] = a THEN h[a] ELSE Freed]

Unused == {a \in Address : \A s \in live, mo \in Object : objects[s][mo] # a}

Bound(s) == {mo \in Object : objects[s][mo] # Null}

\* getWriteable(mo, os) and a write of c; the copy, if one is made, is at a.
\* Mutant: every object is written in place.
AlwaysInPlace(h, obs, key, s, mo, os, a, c) ==
  [heap |-> [h EXCEPT ![os].contents = c], objects |-> obs]
GetWriteable(h, obs, key, s, mo, os, a, c) ==
  IF key = h[os].owner
    THEN [heap |-> [h EXCEPT ![os].contents = c], objects |-> obs]
    ELSE [heap |-> [h EXCEPT ![a] = [owner |-> key, readOnly |-> FALSE, contents |-> c]],
          objects |-> [obs EXCEPT ![s][mo] = a]]

\* AddressSpace(const AddressSpace &b) : cowKey(++b.cowKey).
\* Mutant: the key of the original stays.
OriginalKept(s, t) == [cowKey EXCEPT ![t] = cowKey[s] + 1]
RaiseKeys(s, t) == [cowKey EXCEPT ![s] = cowKey[s] + 1, ![t] = cowKey[s] + 1]

\* The pointers that are left after mo has been treated.
\* Mutant: the treated one stays.
TreatedStays(mo) == rl
Rest(mo) == [m \in DOMAIN rl \ {mo} |-> rl[m]]
-----------------------------------------------------------------------------
(***************************************************************************)
(* After initializeGlobals: the constant objects are bound, read-only and  *)
(* copied out to the memory of the process.                                *)
(***************************************************************************)
Init ==
  /\ live = {InitialState}
  /\ cowKey = [s \in State |-> 1]
  /\ \E where \in [Constant -> Address], what \in [Constant -> Contents] :
       /\ \A m1, m2 \in Constant : where[m1] = where[m2] => m1 = m2
       /\ objects = [s \in State |-> [mo \in Object |->
                       IF s = InitialState /\ mo \in Constant THEN where[mo] ELSE Null]]
       /\ heap = [a \in Address |->
                    IF \E mo \in Constant : where[mo] = a
                      THEN [owner |-> 1, readOnly |-> TRUE,
                            contents |-> what[CHOOSE mo \in Constant : where[mo] = a]]
                      ELSE Freed]
       /\ native = [mo \in Object |-> IF mo \in Constant THEN what[mo] ELSE Unbound]
  /\ op = "none" /\ who = InitialState /\ other = InitialState
  /\ rl = [mo \in {} |-> Null]

\* The operation is over, and its local variables with it.
NoOp ==
  /\ op' = "none" /\ who' = InitialState /\ other' = InitialState
  /\ rl' = [mo \in {} |-> Null]

\* The state s is deleted.
EndState(s) ==
  /\ live' = live \ {s}
  /\ objects' = [objects EXCEPT ![s] = [mo \in Object |-> Null]]
  /\ heap' = Collect(heap, live', objects')
  /\ UNCHANGED cowKey

TerminateState(s) ==
  /\ op = "none" /\ s \in live
  /\ EndState(s)
  /\ UNCHANGED <<native, op, who, other, rl>>

\* ExecutionState::branch.
Branch(s, t) ==
  /\ op = "none" /\ s \in live /\ t \in State \ live
  /\ cowKey[s] < MaxKey
  /\ live' = live \cup {t}
  /\ cowKey' = RaiseKeys(s, t)
  /\ objects' = [objects EXCEPT ![t] = objects[s]]
  /\ UNCHANGED <<heap, native, op, who, other, rl>>

\* bindObject with a new ObjectState: an allocation, or klee_make_symbolic
\* replacing the contents of mo.
BindObject(s, mo, a, c) ==
  /\ op = "none" /\ s \in live /\ mo \notin Constant /\ a \in Unused
  /\ objects' = [objects EXCEPT ![s][mo] = a]
  /\ heap' = Collect([heap EXCEPT ![a] = [owner |-> cowKey[s], readOnly |-> FALSE,
                                          contents |-> c]], live, objects')
  /\ UNCHANGED <<live, cowKey, native, op, who, other, rl>>

\* free, realloc and the return from the function of an alloca.
UnbindObject(s, mo) ==
  /\ op = "none" /\ s \in live /\ mo \in Bound(s) \ Constant
  /\ objects' = [objects EXCEPT ![s][mo] = Null]
  /\ heap' = Collect(heap, live, objects')
  /\ UNCHANGED <<live, cowKey, native, op, who, other, rl>>
-----------------------------------------------------------------------------
(***************************************************************************)
(* A write: resolve lists the objects the pointer may point to.  For each  *)
(* of them the state that is still unbound forks, and the bound half       *)
(* writes the ObjectState of the list, or ends if that is read-only; the   *)
(* half that is left at the end is out of bounds.                          *)
(***************************************************************************)
Resolve(s, found) ==
  /\ op = "none" /\ s \in live /\ found \subseteq Bound(s)
  /\ op' = "write" /\ who' = s
  /\ rl' = [mo \in found |-> objects[s][mo]]
  /\ UNCHANGED <<live, cowKey, objects, heap, native, other>>

IsReadOnly(os) == heap[os].readOnly

\* The bound half is bound, the other one unbound; each may be the new state
\* t (RandomizeFork).
WriteForking(mo, t, bound, unbound, a, c) ==
  LET key == RaiseKeys(who, t)
      obs == [objects EXCEPT ![t] = objects[who]]
      new == GetWriteable(heap, obs, key[bound], bound, mo, rl[mo], a, c)
  IN
  /\ op = "write" /\ mo \in DOMAIN rl /\ t \in State \ live /\ a \in Unused
  /\ {bound, unbound} = {who, t} /\ bound # unbound
  /\ ~IsReadOnly(rl[mo])
  /\ cowKey[who] < MaxKey
  /\ live' = live \cup {t}
  /\ cowKey' = key
  /\ objects' = new.objects
  /\ heap' = Collect(new.heap, live', objects')
  /\ who' = unbound
  /\ rl' = Rest(mo)
  /\ UNCHANGED <<native, op, other>>

\* The same at a read-only object: the bound half ends, the other goes on.
ReadOnlyForking(mo, t, bound, unbound) ==
  LET obs == [objects EXCEPT ![t] = objects[who]]
  IN
  /\ op = "write" /\ mo \in DOMAIN rl /\ t \in State \ live
  /\ {bound, unbound} = {who, t} /\ bound # unbound
  /\ IsReadOnly(rl[mo])
  /\ cowKey[who] < MaxKey
  /\ live' = (live \cup {t}) \ {bound}
  /\ cowKey' = RaiseKeys(who, t)
  /\ objects' = [obs EXCEPT ![bound] = [m \in Object |-> Null]]
  /\ heap' = Collect(heap, live', objects')
  /\ who' = unbound
  /\ rl' = Rest(mo)
  /\ UNCHANGED <<native, op, other>>

\* The pointer can only point to mo: no fork, and nothing is left unbound.
WriteHere(mo, a, c) ==
  LET new == GetWriteable(heap, objects, cowKey[who], who, mo, rl[mo], a, c)
  IN
  /\ op = "write" /\ mo \in DOMAIN rl /\ a \in Unused
  /\ ~IsReadOnly(rl[mo])
  /\ objects' = new.objects
  /\ heap' = Collect(new.heap, live, objects')
  /\ NoOp
  /\ UNCHANGED <<live, cowKey, native>>

\* The pointer cannot point to mo after all: the unbound state goes on.
NotBound(mo) ==
  /\ op = "write" /\ mo \in DOMAIN rl
  /\ rl' = Rest(mo)
  /\ UNCHANGED <<live, cowKey, objects, heap, native, op, who, other>>

\* The state is out of bounds, can only point to a read-only object, or a
\* query of fork or of resolve has failed.
WriteError ==
  /\ op = "write"
  /\ EndState(who)
  /\ NoOp
  /\ UNCHANGED native
-----------------------------------------------------------------------------
(***************************************************************************)
(* An external call: copyOutConcretes, the call, which may write the       *)
(* native memory of the state's objects, and copyInConcretes, one object   *)
(* at a time (the last one errno, from the value the call left).           *)
(***************************************************************************)
CallExternalFunction(s, changed, c) ==
  /\ op = "none" /\ s \in live /\ changed \subseteq Bound(s)
  /\ native' = [mo \in Object |->
                  IF mo \in changed THEN c
                  ELSE IF mo \in Bound(s) /\ ~heap[objects[s][mo]].readOnly
                    THEN heap[objects[s][mo]].contents
                    ELSE native[mo]]
  /\ op' = "external" /\ who' = s
  /\ rl' = [mo \in Bound(s) |-> objects[s][mo]]
  /\ UNCHANGED <<live, cowKey, objects, heap, other>>

\* copyInConcrete.
CopyIn(mo, a) ==
  LET same == native[mo] = heap[rl[mo]].contents
      new == IF same THEN [heap |-> heap, objects |-> objects]
             ELSE GetWriteable(heap, objects, cowKey[who], who, mo, rl[mo], a, native[mo])
  IN
  /\ op = "external" /\ mo \in DOMAIN rl /\ a \in Unused
  /\ same \/ ~IsReadOnly(rl[mo])
  /\ objects' = new.objects
  /\ heap' = Collect(new.heap, live, objects')
  /\ rl' = Rest(mo)
  /\ UNCHANGED <<live, cowKey, native, op, who, other>>

\* A call that fails, or has changed a read-only object, ends the state; else
\* the call is over.  Native memory that the next call copies out again is
\* forgotten.
ExternalEnds ==
  LET broken == \E mo \in DOMAIN rl :
                  IsReadOnly(rl[mo]) /\ native[mo] # heap[rl[mo]].contents
  IN
  /\ op = "external"
  /\ \/ (broken \/ DOMAIN rl = Bound(who)) /\ EndState(who)
     \/ DOMAIN rl = {} /\ UNCHANGED <<live, cowKey, objects, heap>>
  /\ native' = [mo \in Object |-> IF mo \in Constant THEN native[mo] ELSE Unbound]
  /\ NoOp
-----------------------------------------------------------------------------
(***************************************************************************)
(* ExecutionState::merge: when both states bind the same objects, those    *)
(* with different ObjectStates are written with a choice between the two   *)
(* contents, and the other state is terminated.                            *)
(***************************************************************************)
Mutated(s, t) == {mo \in Bound(s) : objects[s][mo] # objects[t][mo]}

Merge(s, t) ==
  /\ op = "none" /\ s \in live /\ t \in live \ {s} /\ Bound(s) = Bound(t)
  /\ op' = "merge" /\ who' = s /\ other' = t
  /\ rl' = [mo \in Mutated(s, t) |-> objects[s][mo]]
  /\ UNCHANGED <<live, cowKey, objects, heap, native>>

MergeObject(mo, a, c) ==
  LET new == GetWriteable(heap, objects, cowKey[who], who, mo, rl[mo], a, c)
  IN
  /\ op = "merge" /\ mo \in DOMAIN rl /\ a \in Unused
  /\ heap[rl[mo]].contents = heap[objects[other][mo]].contents => c = heap[rl[mo]].contents
  /\ objects' = new.objects
  /\ heap' = Collect(new.heap, live, objects')
  /\ rl' = Rest(mo)
  /\ UNCHANGED <<live, cowKey, native, op, who, other>>

MergeEnds ==
  /\ op = "merge" /\ DOMAIN rl = {}
  /\ EndState(other)
  /\ NoOp
  /\ UNCHANGED native

Operation(s) ==
  \/ TerminateState(s)
  \/ \E t \in State : Branch(s, t) \/ Merge(s, t)
  \/ \E mo \in Object, a \in Address, c \in Contents : BindObject(s, mo, a, c)
  \/ \E mo \in Object : UnbindObject(s, mo)
  \/ \E found \in SUBSET Object : Resolve(s, found)
  \/ \E changed \in SUBSET Object, c \in Contents : CallExternalFunction(s, changed, c)

Continue(mo, a, c) ==
  \/ \E t, b, u \in State : WriteForking(mo, t, b, u, a, c)
  \/ WriteHere(mo, a, c)
  \/ MergeObject(mo, a, c)

Next ==
  \/ \E s \in State : Operation(s)
  \/ \E mo \in Object, a \in Address, c \in Contents : Continue(mo, a, c)
  \/ \E mo \in Object, a \in Address : CopyIn(mo, a)
  \/ \E mo \in Object : NotBound(mo) \/ \E t, b, u \in State : ReadOnlyForking(mo, t, b, u)
  \/ WriteError \/ ExternalEnds \/ MergeEnds

Spec == Init /\ [][Next]_vars
-----------------------------------------------------------------------------
TypeOK ==
  /\ live \subseteq State
  /\ cowKey \in [State -> Nat]
  /\ objects \in [State -> [Object -> Address \cup {Null}]]
  /\ heap \in [Address -> Cell \cup {Freed}]
  /\ native \in [Object -> Contents \cup {Unbound}]
  /\ op \in {"none", "write", "external", "merge"}
  /\ who \in State /\ other \in State
  /\ DOMAIN rl \subseteq Object /\ \A mo \in DOMAIN rl : rl[mo] \in Address

(***************************************************************************)
(* "\invariant forall o in objects, o->copyOnWriteOwner <= cowKey", and    *)
(* every bound ObjectState exists.                                         *)
(***************************************************************************)
OwnersBelowKeys ==
  \A s \in live, mo \in Object :
    objects[s][mo] # Null => /\ heap[objects[s][mo]] \in Cell
                             /\ heap[objects[s][mo]].owner <= cowKey[s]

(***************************************************************************)
(* "The set of objects where o->copyOnWriteOwner == cowKey are the objects *)
(* that we own": nobody else holds an ObjectState that getWriteable hands  *)
(* out without a copy, although forks give two states the same key.        *)
(***************************************************************************)
OwnedIsPrivate ==
  \A s, t \in live, m1, m2 \in Object :
    /\ objects[s][m1] # Null
    /\ heap[objects[s][m1]].owner = cowKey[s]
    /\ objects[s][m1] = objects[t][m2]
    => s = t /\ m1 = m2

(***************************************************************************)
(* "objects mutated but not writable in merging state": two states that    *)
(* bind different ObjectStates never disagree about a read-only object.    *)
(***************************************************************************)
ReadOnlyShared ==
  \A s, t \in live, mo \in Object :
    /\ objects[s][mo] # Null /\ objects[t][mo] # Null
    /\ objects[s][mo] # objects[t][mo]
    => ~heap[objects[s][mo]].readOnly

(***************************************************************************)
(* Ownership is what AddressSpace.h documents, after every fork, write,    *)
(* external call and merge.                                                *)
(***************************************************************************)
OwnershipSound == TypeOK /\ OwnersBelowKeys /\ OwnedIsPrivate /\ ReadOnlyShared

(***************************************************************************)
(* The ObjectStates an operation has found are still the bindings of its   *)
(* state when their turn comes, whatever was forked and copied since.      *)
(***************************************************************************)
FoundIsCurrent ==
  op # "none" => who \in live /\ \A mo \in DOMAIN rl : objects[who][mo] = rl[mo]

\* The memory each state sees.
mem == [s \in State |->
          IF s \in live
            THEN [mo \in Object |-> IF objects[s][mo] = Null THEN Unbound
                                    ELSE heap[objects[s][mo]].contents]
            ELSE Dead]

(***************************************************************************)
(* Sharing cannot be seen: each state reads as if its memory were its own. *)
(***************************************************************************)
Private == INSTANCE PrivateMemory
PrivateSpec == Private!Spec
=============================================================================
