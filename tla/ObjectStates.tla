---------------------------- MODULE ObjectStates ----------------------------
(***************************************************************************)
(* The bytes of one ObjectState (lib/Core/Memory.cpp).  A byte may be kept *)
(* in three places: as a number in concreteStore, as an expression in      *)
(* knownSymbolics, or in the list of updates of an array, the only place   *)
(* that can be read or written at a symbolic offset.  Two masks say which  *)
(* of them are up to date.                                                 *)
(*                                                                         *)
(* An expression is what it evaluates to for each input of the state, and  *)
(* a list of updates the array that it denotes for each input.  Accesses   *)
(* are in bounds: the executor has checked them.  Values of several bytes  *)
(* are read and written byte by byte (module Interpreter).                 *)
(***************************************************************************)
EXTENDS Integers

CONSTANTS
  Size,        \* the size of the object
  Byte,        \* the values of a byte
  Input,       \* the inputs that follow the path of the state
  RandomByte,  \* what initializeToRandom writes, 0xAB
  Null         \* the null pointer

Offset == 0 .. (Size - 1)

Value == [Input -> Byte]

Index == [Input -> Offset]

Contents == [Input -> [Offset -> Byte]]

ASSUME SizeAssumption == Size \in Nat

ASSUME ByteAssumption == 0 \in Byte /\ RandomByte \in Byte

ASSUME NullAssumption ==
  /\ \A mask \in SUBSET Offset : mask # Null
  /\ \A value \in Value : value # Null
  /\ \A known \in [Offset -> Value \cup {Null}] : known # Null

VARIABLES
  os,       \* the ObjectState
  content,  \* what each byte should hold for each input
  stale     \* the bytes that an external call changed behind a flush

vars == <<os, content, stale>>

ObjectState ==
  [ concreteStore  : [Offset -> Byte],
    concreteMask   : {Null} \cup SUBSET Offset,
    flushMask      : {Null} \cup SUBSET Offset,
    knownSymbolics : {Null} \cup [Offset -> Value \cup {Null}],
    updates        : Contents ]

-----------------------------------------------------------------------------
(* A BitArray is the set of the bits that are set; a new one has them all. *)

Allocated(mask) == IF mask = Null THEN Offset ELSE mask

IsByteConcrete(o, off) == o.concreteMask = Null \/ off \in o.concreteMask

IsByteFlushed(o, off) == o.flushMask # Null /\ off \notin o.flushMask

IsByteKnownSymbolic(o, off) ==
  o.knownSymbolics # Null /\ o.knownSymbolics[off] # Null

MarkByteConcrete(o, off) ==
  [o EXCEPT !.concreteMask = IF @ = Null THEN Null ELSE @ \cup {off}]

MarkByteSymbolic(o, off) ==
  [o EXCEPT !.concreteMask = Allocated(@) \ {off}]

(* Mutant: a write leaves the byte marked as flushed. *)
NeverUnflushed(o, off) == o

MarkByteUnflushed(o, off) ==
  [o EXCEPT !.flushMask = IF @ = Null THEN Null ELSE @ \cup {off}]

SetKnownSymbolic(o, off, value) ==
  [o EXCEPT !.knownSymbolics =
     IF @ # Null THEN [@ EXCEPT ![off] = value]
     ELSE IF value # Null
     THEN [x \in Offset |-> IF x = off THEN value ELSE Null]
     ELSE Null]

-----------------------------------------------------------------------------
(* Creation.  With -use-constant-arrays the updates have no root and stand *)
(* for zeros, else for a new symbolic array: root is arbitrary.            *)

Zeros == [off \in Offset |-> 0]

NewObject(root) ==
  [ concreteStore |-> Zeros, concreteMask |-> Null, flushMask |-> Null,
    knownSymbolics |-> Null, updates |-> root ]

MakeConcrete(o) ==
  [o EXCEPT !.concreteMask = Null, !.flushMask = Null, !.knownSymbolics = Null]

InitializeToZero(o) == [MakeConcrete(o) EXCEPT !.concreteStore = Zeros]

InitializeToRandom(o) ==
  [MakeConcrete(o) EXCEPT !.concreteStore = [off \in Offset |-> RandomByte]]

(* Its loop marks every byte as symbolic and flushed; an object without     *)
(* bytes keeps its null masks.                                              *)
MakeSymbolic(o) ==
  [o EXCEPT !.concreteMask = IF Offset = {} THEN @ ELSE {},
            !.flushMask = IF Offset = {} THEN @ ELSE {},
            !.knownSymbolics = IF @ = Null THEN Null ELSE [off \in Offset |-> Null]]

SymbolicObject(array) ==
  [MakeSymbolic(NewObject(array)) EXCEPT !.concreteStore = Zeros]

-----------------------------------------------------------------------------
(* fastRangeCheckOffset always answers with the whole object, so a flush   *)
(* goes over all its bytes.                                                *)

UpdatesOfFlush(o) ==
  [i \in Input |-> [off \in Offset |->
     IF IsByteFlushed(o, off) THEN o.updates[i][off]
     ELSE IF IsByteConcrete(o, off) THEN o.concreteStore[off]
     ELSE o.knownSymbolics[off][i]]]

FlushRangeForRead(o) ==
  [o EXCEPT !.updates = UpdatesOfFlush(o), !.flushMask = {}]

(* Every concrete byte is marked symbolic, every known expression dropped. *)
FlushRangeForWrite(o) ==
  [o EXCEPT !.updates = UpdatesOfFlush(o),
            !.flushMask = {},
            !.concreteMask = IF Offset = {} THEN @ ELSE {},
            !.knownSymbolics = IF @ = Null THEN Null ELSE [off \in Offset |-> Null]]

(* UpdateList::extend *)
Extend(o, index, value) ==
  [o EXCEPT !.updates = [i \in Input |-> [@[i] EXCEPT ![index[i]] = value[i]]]]

Read8(o, off) ==
  IF IsByteConcrete(o, off) THEN [i \in Input |-> o.concreteStore[off]]
  ELSE IF IsByteKnownSymbolic(o, off) THEN o.knownSymbolics[off]
  ELSE [i \in Input |-> o.updates[i][off]]

Read8At(o, index) ==
  [i \in Input |-> FlushRangeForRead(o).updates[i][index[i]]]

Write8Number(o, off, value) ==
  MarkByteUnflushed(
    MarkByteConcrete(
      SetKnownSymbolic([o EXCEPT !.concreteStore[off] = value], off, Null), off), off)

Write8Expr(o, off, value) ==
  MarkByteUnflushed(MarkByteSymbolic(SetKnownSymbolic(o, off, value), off), off)

Write8At(o, index, value) == Extend(FlushRangeForWrite(o), index, value)

-----------------------------------------------------------------------------
Init ==
  \E root \in Contents :
    /\ \/ os = InitializeToZero(NewObject(root))
       \/ os = InitializeToRandom(NewObject(root))
       \/ os = SymbolicObject(root)
    /\ content = [i \in Input |-> IF os.concreteMask = Null THEN os.concreteStore
                                  ELSE root[i]]
    /\ stale = {}

WriteNumber(off, value) ==
  /\ os' = Write8Number(os, off, value)
  /\ content' = [i \in Input |-> [content[i] EXCEPT ![off] = value]]
  /\ stale' = stale \ {off}

(* An expression that is no ConstantExpr, though it may have one value only. *)
WriteExpr(off, value) ==
  /\ os' = Write8Expr(os, off, value)
  /\ content' = [i \in Input |-> [content[i] EXCEPT ![off] = value[i]]]
  /\ stale' = stale \ {off}

WriteAt(index, value) ==
  /\ os' = Write8At(os, index, value)
  /\ content' = [i \in Input |-> [content[i] EXCEPT ![index[i]] = value[i]]]
  /\ UNCHANGED stale

(* A read at a symbolic offset flushes, on a const object that other states *)
(* may share.                                                               *)
ReadAt ==
  /\ os' = FlushRangeForRead(os)
  /\ UNCHANGED <<content, stale>>

(* The solver gives each known expression one of its values, or times out. *)
FlushToConcreteStore ==
  \E store \in [Offset -> Byte] :
    /\ \A off \in Offset :
         IF IsByteKnownSymbolic(os, off)
         THEN \/ store[off] = os.concreteStore[off]
              \/ \E i \in Input : store[off] = Read8(os, off)[i]
         ELSE store[off] = os.concreteStore[off]
    /\ os' = [os EXCEPT !.concreteStore = store]
    /\ UNCHANGED <<content, stale>>

(* copyOutConcretes, the native function, copyInConcrete.  Only concrete   *)
(* bytes take what the function wrote.                                     *)
ExternalCall(native) ==
  /\ os' = [os EXCEPT !.concreteStore = native]
  /\ content' = [i \in Input |-> [off \in Offset |->
                   IF IsByteConcrete(os, off) THEN native[off] ELSE content[i][off]]]
  /\ stale' = stale \cup { off \in Offset :
                 /\ IsByteConcrete(os, off) /\ IsByteFlushed(os, off)
                 /\ native[off] # os.concreteStore[off] }

Next ==
  \/ \E off \in Offset, value \in Byte : WriteNumber(off, value)
  \/ \E off \in Offset, value \in Value : WriteExpr(off, value)
  \/ \E index \in Index, value \in Value : WriteAt(index, value)
  \/ ReadAt
  \/ FlushToConcreteStore
  \/ \E native \in [Offset -> Byte] : ExternalCall(native)

Spec == Init /\ [][Next]_vars

-----------------------------------------------------------------------------
TypeOK ==
  /\ os \in ObjectState
  /\ content \in Contents
  /\ stale \in SUBSET Offset

(***************************************************************************)
(* The "Cache Invariants" written down above fastRangeCheckOffset, on      *)
(* which the asserts of read8, flushRangeForRead and flushRangeForWrite    *)
(* rest: a byte is not both concrete and a known expression, and one that  *)
(* is not flushed is one of them.                                          *)
(***************************************************************************)
CacheInvariants ==
  \A off \in Offset :
    /\ ~(IsByteKnownSymbolic(os, off) /\ IsByteConcrete(os, off))
    /\ IsByteFlushed(os, off) \/ IsByteConcrete(os, off) \/ IsByteKnownSymbolic(os, off)

(***************************************************************************)
(* Whatever was written and flushed, a read at a constant offset and one   *)
(* at a symbolic offset give for every input what was written last, and    *)
(* the asserts of the caches hold.  Bytes that an external call changed    *)
(* after they were flushed are excepted as long as they are not written:   *)
(* copyInConcrete does not mark them, and only a concrete one is right.    *)
(***************************************************************************)
BytesExact ==
  /\ CacheInvariants
  /\ \A off \in Offset :
       IsByteConcrete(os, off) \/ off \notin stale
         => Read8(os, off) = [i \in Input |-> content[i][off]]
  /\ \A index \in Index :
       (\A i \in Input : index[i] \notin stale)
         => Read8At(os, index) = [i \in Input |-> content[i][index[i]]]
=============================================================================
