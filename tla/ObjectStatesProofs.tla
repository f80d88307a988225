------------------------- MODULE ObjectStatesProofs -------------------------
(***************************************************************************)
(* For objects of any size, bytes of any width and any number of inputs,   *)
(* the caches of an ObjectState agree with what was written.  The          *)
(* invariant says of each of the three places of a byte when it is right.  *)
(***************************************************************************)
EXTENDS ObjectStates, TLAPS

(***************************************************************************)
(* A concrete byte has its value in concreteStore, a known expression is   *)
(* the value, and a flushed byte has it in the updates.                    *)
(***************************************************************************)
PlacesRight ==
  \A off \in Offset, i \in Input :
    /\ IsByteConcrete(os, off) => os.concreteStore[off] = content[i][off]
    /\ IsByteKnownSymbolic(os, off) => os.knownSymbolics[off][i] = content[i][off]
    /\ IsByteFlushed(os, off) /\ off \notin stale => os.updates[i][off] = content[i][off]

Coherent == TypeOK /\ CacheInvariants /\ PlacesRight

-----------------------------------------------------------------------------
(***************************************************************************)
(* write8 of a number: what the object is afterwards, and what each test   *)
(* on a byte then answers.                                                 *)
(***************************************************************************)
LEMMA WriteNumberFacts ==
  ASSUME NEW o \in ObjectState, NEW off \in Offset, NEW value \in Byte
  PROVE  LET p == Write8Number(o, off, value)
         IN  /\ p \in ObjectState
             /\ p.concreteStore = [o.concreteStore EXCEPT ![off] = value]
             /\ p.updates = o.updates
             /\ IsByteConcrete(p, off)
             /\ ~IsByteKnownSymbolic(p, off)
             /\ ~IsByteFlushed(p, off)
             /\ \A x \in Offset \ {off} :
                  /\ IsByteConcrete(p, x) = IsByteConcrete(o, x)
                  /\ IsByteKnownSymbolic(p, x) = IsByteKnownSymbolic(o, x)
                  /\ IsByteFlushed(p, x) = IsByteFlushed(o, x)
                  /\ IsByteKnownSymbolic(o, x) => p.knownSymbolics[x] = o.knownSymbolics[x]
<1> DEFINE p == Write8Number(o, off, value)
           known == IF o.knownSymbolics # Null THEN [o.knownSymbolics EXCEPT ![off] = Null]
                    ELSE Null
           mask == IF o.concreteMask = Null THEN Null ELSE o.concreteMask \cup {off}
           flush == IF o.flushMask = Null THEN Null ELSE o.flushMask \cup {off}
<1>1. p = [o EXCEPT !.concreteStore[off] = value, !.knownSymbolics = known,
                    !.concreteMask = mask, !.flushMask = flush]
  BY DEF Write8Number, MarkByteUnflushed, MarkByteConcrete, SetKnownSymbolic, ObjectState
<1>2. /\ known \in {Null} \cup [Offset -> Value \cup {Null}]
      /\ mask \in {Null} \cup SUBSET Offset
      /\ flush \in {Null} \cup SUBSET Offset
  BY DEF ObjectState
<1>3. /\ p.concreteStore = [o.concreteStore EXCEPT ![off] = value]
      /\ p.updates = o.updates
      /\ p.knownSymbolics = known
      /\ p.concreteMask = mask
      /\ p.flushMask = flush
      /\ p \in ObjectState
  <2> HIDE DEF known, mask, flush, p
  <2> QED  BY <1>1, <1>2, Zenon DEF ObjectState
<1>4. /\ IsByteConcrete(p, off)
      /\ ~IsByteFlushed(p, off)
      /\ \A x \in Offset \ {off} :
            /\ IsByteConcrete(p, x) = IsByteConcrete(o, x)
            /\ IsByteFlushed(p, x) = IsByteFlushed(o, x)
  <2> HIDE DEF p
  <2> QED  BY <1>2, <1>3, NullAssumption DEF IsByteConcrete, IsByteFlushed, ObjectState
<1>5. /\ ~IsByteKnownSymbolic(p, off)
      /\ \A x \in Offset \ {off} :
            /\ IsByteKnownSymbolic(p, x) = IsByteKnownSymbolic(o, x)
            /\ IsByteKnownSymbolic(o, x) => p.knownSymbolics[x] = o.knownSymbolics[x]
  <2> HIDE DEF p
  <2> QED  BY <1>2, <1>3, NullAssumption DEF IsByteKnownSymbolic, ObjectState
<1> QED  BY <1>3, <1>4, <1>5

(***************************************************************************)
(* write8 of an expression.                                                *)
(***************************************************************************)
LEMMA WriteExprFacts ==
  ASSUME NEW o \in ObjectState, NEW off \in Offset, NEW value \in Value
  PROVE  LET p == Write8Expr(o, off, value)
         IN  /\ p \in ObjectState
             /\ p.concreteStore = o.concreteStore
             /\ p.updates = o.updates
             /\ ~IsByteConcrete(p, off)
             /\ IsByteKnownSymbolic(p, off)
             /\ p.knownSymbolics[off] = value
             /\ ~IsByteFlushed(p, off)
             /\ \A x \in Offset \ {off} :
                  /\ IsByteConcrete(p, x) = IsByteConcrete(o, x)
                  /\ IsByteKnownSymbolic(p, x) = IsByteKnownSymbolic(o, x)
                  /\ IsByteFlushed(p, x) = IsByteFlushed(o, x)
                  /\ IsByteKnownSymbolic(o, x) => p.knownSymbolics[x] = o.knownSymbolics[x]
<1> DEFINE p == Write8Expr(o, off, value)
           known == IF o.knownSymbolics # Null THEN [o.knownSymbolics EXCEPT ![off] = value]
                    ELSE [x \in Offset |-> IF x = off THEN value ELSE Null]
           mask == (IF o.concreteMask = Null THEN Offset ELSE o.concreteMask) \ {off}
           flush == IF o.flushMask = Null THEN Null ELSE o.flushMask \cup {off}
<1>0. value # Null
  BY NullAssumption
<1>1. p = [o EXCEPT !.knownSymbolics = known, !.concreteMask = mask, !.flushMask = flush]
  BY <1>0 DEF Write8Expr, MarkByteUnflushed, MarkByteSymbolic, SetKnownSymbolic,
              Allocated, ObjectState
<1>2. /\ known \in [Offset -> Value \cup {Null}]
      /\ mask \in SUBSET Offset
      /\ flush \in {Null} \cup SUBSET Offset
  BY DEF ObjectState
<1>3. /\ p.concreteStore = o.concreteStore
      /\ p.updates = o.updates
      /\ p.knownSymbolics = known
      /\ p.concreteMask = mask
      /\ p.flushMask = flush
      /\ p \in ObjectState
  <2> HIDE DEF known, mask, flush, p
  <2> QED  BY <1>1, <1>2, Zenon DEF ObjectState
<1>4. /\ ~IsByteConcrete(p, off)
      /\ ~IsByteFlushed(p, off)
      /\ \A x \in Offset \ {off} :
            /\ IsByteConcrete(p, x) = IsByteConcrete(o, x)
            /\ IsByteFlushed(p, x) = IsByteFlushed(o, x)
  <2> HIDE DEF p
  <2> QED  BY <1>2, <1>3, NullAssumption DEF IsByteConcrete, IsByteFlushed, ObjectState
<1>5. /\ IsByteKnownSymbolic(p, off)
      /\ p.knownSymbolics[off] = value
      /\ \A x \in Offset \ {off} :
            /\ IsByteKnownSymbolic(p, x) = IsByteKnownSymbolic(o, x)
            /\ IsByteKnownSymbolic(o, x) => p.knownSymbolics[x] = o.knownSymbolics[x]
  <2> HIDE DEF p
  <2> QED  BY <1>0, <1>2, <1>3, NullAssumption DEF IsByteKnownSymbolic, ObjectState
<1> QED  BY <1>3, <1>4, <1>5

(***************************************************************************)
(* A flush for a read only adds to the updates and marks every byte as     *)
(* flushed.                                                                *)
(***************************************************************************)
LEMMA FlushForReadFacts ==
  ASSUME NEW o \in ObjectState,
         \A off \in Offset : \/ IsByteFlushed(o, off)
                             \/ IsByteConcrete(o, off)
                             \/ IsByteKnownSymbolic(o, off)
  PROVE  LET p == FlushRangeForRead(o)
         IN  /\ p \in ObjectState
             /\ p.concreteStore = o.concreteStore
             /\ p.knownSymbolics = o.knownSymbolics
             /\ p.updates = UpdatesOfFlush(o)
             /\ \A off \in Offset :
                  /\ IsByteFlushed(p, off)
                  /\ IsByteConcrete(p, off) = IsByteConcrete(o, off)
                  /\ IsByteKnownSymbolic(p, off) = IsByteKnownSymbolic(o, off)
<1> DEFINE p == FlushRangeForRead(o)
<1>1. UpdatesOfFlush(o) \in Contents
  <2> SUFFICES ASSUME NEW i \in Input, NEW off \in Offset
               PROVE  (IF IsByteFlushed(o, off) THEN o.updates[i][off]
                       ELSE IF IsByteConcrete(o, off) THEN o.concreteStore[off]
                       ELSE o.knownSymbolics[off][i]) \in Byte
    BY DEF UpdatesOfFlush, Contents
  <2>1. o.updates[i][off] \in Byte /\ o.concreteStore[off] \in Byte
    BY DEF ObjectState, Contents
  <2>2. IsByteKnownSymbolic(o, off) => o.knownSymbolics[off][i] \in Byte
    BY DEF ObjectState, IsByteKnownSymbolic, Value
  <2> QED  BY <2>1, <2>2
<1>2. /\ p.concreteStore = o.concreteStore
      /\ p.concreteMask = o.concreteMask
      /\ p.knownSymbolics = o.knownSymbolics
      /\ p.updates = UpdatesOfFlush(o)
      /\ p.flushMask = {}
      /\ p \in ObjectState
  BY <1>1, Zenon DEF FlushRangeForRead, ObjectState
<1>3. {} # Null
  BY NullAssumption
<1> HIDE DEF p
<1>4. \A off \in Offset :
        /\ IsByteFlushed(p, off)
        /\ IsByteConcrete(p, off) = IsByteConcrete(o, off)
        /\ IsByteKnownSymbolic(p, off) = IsByteKnownSymbolic(o, off)
  BY <1>2, <1>3 DEF IsByteFlushed, IsByteConcrete, IsByteKnownSymbolic
<1> QED  BY <1>2, <1>4 DEF p

(***************************************************************************)
(* A flush for a write leaves nothing but the updates.                     *)
(***************************************************************************)
LEMMA FlushForWriteFacts ==
  ASSUME NEW o \in ObjectState,
         \A off \in Offset : \/ IsByteFlushed(o, off)
                             \/ IsByteConcrete(o, off)
                             \/ IsByteKnownSymbolic(o, off)
  PROVE  LET p == FlushRangeForWrite(o)
         IN  /\ p \in ObjectState
             /\ p.updates = UpdatesOfFlush(o)
             /\ \A off \in Offset :
                  /\ IsByteFlushed(p, off)
                  /\ ~IsByteConcrete(p, off)
                  /\ ~IsByteKnownSymbolic(p, off)
<1> DEFINE p == FlushRangeForWrite(o)
           known == IF o.knownSymbolics = Null THEN Null ELSE [off \in Offset |-> Null]
           mask == IF Offset = {} THEN o.concreteMask ELSE {}
<1>1. UpdatesOfFlush(o) \in Contents
  <2>1. FlushRangeForRead(o) \in ObjectState /\ FlushRangeForRead(o).updates = UpdatesOfFlush(o)
    BY FlushForReadFacts
  <2> QED  BY <2>1 DEF ObjectState
<1>2. /\ known \in {Null} \cup [Offset -> Value \cup {Null}]
      /\ mask \in {Null} \cup SUBSET Offset
  BY DEF ObjectState
<1>3. p = [o EXCEPT !.updates = UpdatesOfFlush(o), !.flushMask = {},
                    !.concreteMask = mask, !.knownSymbolics = known]
  BY DEF FlushRangeForWrite
<1>4. /\ p.concreteMask = mask
      /\ p.knownSymbolics = known
      /\ p.updates = UpdatesOfFlush(o)
      /\ p.flushMask = {}
      /\ p \in ObjectState
  <2> HIDE DEF p, known, mask
  <2> QED  BY <1>1, <1>2, <1>3, Zenon DEF ObjectState
<1>5. {} # Null
  BY NullAssumption
<1>6. \A off \in Offset :
        /\ IsByteFlushed(p, off)
        /\ ~IsByteConcrete(p, off)
        /\ ~IsByteKnownSymbolic(p, off)
  <2> HIDE DEF p
  <2> QED  BY <1>4, <1>5 DEF IsByteFlushed, IsByteConcrete, IsByteKnownSymbolic
<1> QED  BY <1>4, <1>6

(***************************************************************************)
(* Extending the updates changes nothing else, and for each input one byte. *)
(***************************************************************************)
LEMMA ExtendFacts ==
  ASSUME NEW o \in ObjectState, NEW index \in Index, NEW value \in Value
  PROVE  LET p == Extend(o, index, value)
         IN  /\ p \in ObjectState
             /\ p.concreteStore = o.concreteStore
             /\ p.concreteMask = o.concreteMask
             /\ p.flushMask = o.flushMask
             /\ p.knownSymbolics = o.knownSymbolics
             /\ \A i \in Input, off \in Offset :
                  p.updates[i][off] = IF off = index[i] THEN value[i] ELSE o.updates[i][off]
<1> DEFINE p == Extend(o, index, value)
           updates == [i \in Input |-> [o.updates[i] EXCEPT ![index[i]] = value[i]]]
<1>1. updates \in Contents
  BY DEF ObjectState, Contents, Index, Value
<1>2. p = [o EXCEPT !.updates = updates]
  BY DEF Extend
<1>3. \A i \in Input, off \in Offset :
        updates[i][off] = IF off = index[i] THEN value[i] ELSE o.updates[i][off]
  BY DEF ObjectState, Contents, Index, Value
<1>4. /\ p \in ObjectState
      /\ p.concreteStore = o.concreteStore
      /\ p.concreteMask = o.concreteMask
      /\ p.flushMask = o.flushMask
      /\ p.knownSymbolics = o.knownSymbolics
      /\ p.updates = updates
  <2> HIDE DEF p, updates
  <2> QED  BY <1>1, <1>2 DEF ObjectState
<1> QED  BY <1>3, <1>4

-----------------------------------------------------------------------------
(***************************************************************************)
(* A new object is coherent, whether its bytes are concrete or symbolic.   *)
(***************************************************************************)
LEMMA InitCoherent == Init => Coherent
<1> SUFFICES ASSUME NEW root \in Contents,
                    \/ os = InitializeToZero(NewObject(root))
                    \/ os = InitializeToRandom(NewObject(root))
                    \/ os = SymbolicObject(root),
                    content = [i \in Input |-> IF os.concreteMask = Null THEN os.concreteStore
                                               ELSE root[i]],
                    stale = {}
             PROVE  Coherent
  BY DEF Init
<1>1. CASE os = InitializeToZero(NewObject(root)) \/ os = InitializeToRandom(NewObject(root))
  <2>1. /\ os.concreteMask = Null /\ os.flushMask = Null /\ os.knownSymbolics = Null
        /\ os \in ObjectState
    <3>1. Zeros \in [Offset -> Byte] /\ [off \in Offset |-> RandomByte] \in [Offset -> Byte]
      BY ByteAssumption DEF Zeros
    <3>2. PICK store \in [Offset -> Byte] :
            os = [ concreteStore |-> store, concreteMask |-> Null, flushMask |-> Null,
                   knownSymbolics |-> Null, updates |-> root ]
      <4>1. CASE os = InitializeToZero(NewObject(root))
        <5>1. os = [ concreteStore |-> Zeros, concreteMask |-> Null, flushMask |-> Null,
                     knownSymbolics |-> Null, updates |-> root ]
          BY <4>1 DEF InitializeToZero, MakeConcrete, NewObject
        <5> QED BY <3>1, <5>1
      <4>2. CASE os = InitializeToRandom(NewObject(root))
        <5>1. os = [ concreteStore |-> [off \in Offset |-> RandomByte],
                     concreteMask |-> Null, flushMask |-> Null,
                     knownSymbolics |-> Null, updates |-> root ]
          BY <4>2 DEF InitializeToRandom, MakeConcrete, NewObject
        <5> QED BY <3>1, <5>1
      <4> QED BY <1>1, <4>1, <4>2
    <3> QED BY <3>2 DEF ObjectState
  <2>2. content \in Contents /\ \A i \in Input : content[i] = os.concreteStore
    BY <2>1 DEF ObjectState, Contents
  <2> QED  BY <2>1, <2>2 DEF Coherent, TypeOK, CacheInvariants, PlacesRight, IsByteConcrete,
             IsByteKnownSymbolic, IsByteFlushed
<1>2. CASE os = SymbolicObject(root)
  <2>1. os = [ concreteStore |-> Zeros,
               concreteMask |-> IF Offset = {} THEN Null ELSE {},
               flushMask |-> IF Offset = {} THEN Null ELSE {},
               knownSymbolics |-> Null,
               updates |-> root ]
    BY <1>2, Zenon DEF SymbolicObject, MakeSymbolic, NewObject
  <2>2. os \in ObjectState
    BY <2>1, ByteAssumption DEF ObjectState, Zeros
  <2>3. content \in Contents
    BY <2>2 DEF ObjectState, Contents
  <2>4. {} # Null
    BY NullAssumption
  <2>5. ASSUME NEW off \in Offset
        PROVE  /\ ~IsByteConcrete(os, off) /\ ~IsByteKnownSymbolic(os, off) /\ IsByteFlushed(os, off)
               /\ \A i \in Input : content[i] = os.updates[i]
    BY <2>1, <2>4 DEF IsByteConcrete, IsByteKnownSymbolic, IsByteFlushed
  <2> QED  BY <2>2, <2>3, <2>5 DEF Coherent, TypeOK, CacheInvariants, PlacesRight
<1> QED  BY <1>1, <1>2

(***************************************************************************)
(* A write of a number at a constant offset.                               *)
(***************************************************************************)
LEMMA WriteNumberCoherent ==
  ASSUME Coherent, NEW off \in Offset, NEW value \in Byte, WriteNumber(off, value)
  PROVE  Coherent'
<1>1. os \in ObjectState /\ content \in Contents /\ stale \in SUBSET Offset
  BY DEF Coherent, TypeOK
<1>2. os' = Write8Number(os, off, value)
  BY DEF WriteNumber
<1>3. /\ os' \in ObjectState
      /\ os'.concreteStore = [os.concreteStore EXCEPT ![off] = value]
      /\ os'.updates = os.updates
      /\ IsByteConcrete(os', off)
      /\ ~IsByteKnownSymbolic(os', off)
      /\ ~IsByteFlushed(os', off)
      /\ \A x \in Offset \ {off} :
           /\ IsByteConcrete(os', x) = IsByteConcrete(os, x)
           /\ IsByteKnownSymbolic(os', x) = IsByteKnownSymbolic(os, x)
           /\ IsByteFlushed(os', x) = IsByteFlushed(os, x)
           /\ IsByteKnownSymbolic(os, x) => os'.knownSymbolics[x] = os.knownSymbolics[x]
  BY <1>1, <1>2, WriteNumberFacts
<1>4. /\ content' \in Contents
      /\ \A i \in Input : content'[i][off] = value
      /\ \A i \in Input, x \in Offset \ {off} : content'[i][x] = content[i][x]
  BY <1>1 DEF WriteNumber, Contents
<1>5. stale' = stale \ {off}
  BY DEF WriteNumber
<1>6. os'.concreteStore[off] = value /\ \A x \in Offset \ {off} : os'.concreteStore[x] = os.concreteStore[x]
  BY <1>1, <1>3 DEF ObjectState
<1>7. TypeOK'
  BY <1>1, <1>3, <1>4, <1>5 DEF TypeOK
<1>8. CacheInvariants'
  BY <1>3 DEF Coherent, CacheInvariants
<1>9. PlacesRight'
  <2> SUFFICES ASSUME NEW x \in Offset, NEW i \in Input
               PROVE  /\ IsByteConcrete(os', x) => os'.concreteStore[x] = content'[i][x]
                      /\ IsByteKnownSymbolic(os', x) => os'.knownSymbolics[x][i] = content'[i][x]
                      /\ IsByteFlushed(os', x) /\ x \notin stale' => os'.updates[i][x] = content'[i][x]
    BY DEF PlacesRight
  <2>1. CASE x = off
    BY <1>3, <1>4, <1>6, <2>1
  <2>2. CASE x # off
    BY <1>3, <1>4, <1>5, <1>6, <2>2 DEF Coherent, PlacesRight
  <2> QED  BY <2>1, <2>2
<1> QED  BY <1>7, <1>8, <1>9 DEF Coherent

(***************************************************************************)
(* A write of an expression at a constant offset.                          *)
(***************************************************************************)
LEMMA WriteExprCoherent ==
  ASSUME Coherent, NEW off \in Offset, NEW value \in Value, WriteExpr(off, value)
  PROVE  Coherent'
<1>1. os \in ObjectState /\ content \in Contents /\ stale \in SUBSET Offset
  BY DEF Coherent, TypeOK
<1>2. os' = Write8Expr(os, off, value)
  BY DEF WriteExpr
<1>3. /\ os' \in ObjectState
      /\ os'.concreteStore = os.concreteStore
      /\ os'.updates = os.updates
      /\ ~IsByteConcrete(os', off)
      /\ IsByteKnownSymbolic(os', off)
      /\ os'.knownSymbolics[off] = value
      /\ ~IsByteFlushed(os', off)
      /\ \A x \in Offset \ {off} :
           /\ IsByteConcrete(os', x) = IsByteConcrete(os, x)
           /\ IsByteKnownSymbolic(os', x) = IsByteKnownSymbolic(os, x)
           /\ IsByteFlushed(os', x) = IsByteFlushed(os, x)
           /\ IsByteKnownSymbolic(os, x) => os'.knownSymbolics[x] = os.knownSymbolics[x]
  BY <1>1, <1>2, WriteExprFacts
<1>4. /\ content' \in Contents
      /\ \A i \in Input : content'[i][off] = value[i]
      /\ \A i \in Input, x \in Offset \ {off} : content'[i][x] = content[i][x]
  BY <1>1 DEF WriteExpr, Contents, Value
<1>5. stale' = stale \ {off}
  BY DEF WriteExpr
<1>6. TypeOK'
  BY <1>1, <1>3, <1>4, <1>5 DEF TypeOK
<1>7. CacheInvariants'
  BY <1>3 DEF Coherent, CacheInvariants
<1>8. PlacesRight'
  <2> SUFFICES ASSUME NEW x \in Offset, NEW i \in Input
               PROVE  /\ IsByteConcrete(os', x) => os'.concreteStore[x] = content'[i][x]
                      /\ IsByteKnownSymbolic(os', x) => os'.knownSymbolics[x][i] = content'[i][x]
                      /\ IsByteFlushed(os', x) /\ x \notin stale' => os'.updates[i][x] = content'[i][x]
    BY DEF PlacesRight
  <2>1. CASE x = off
    BY <1>3, <1>4, <2>1
  <2>2. CASE x # off
    BY <1>3, <1>4, <1>5, <2>2 DEF Coherent, PlacesRight
  <2> QED  BY <2>1, <2>2
<1> QED  BY <1>6, <1>7, <1>8 DEF Coherent

(***************************************************************************)
(* After a flush the updates are right for every byte that is not stale.   *)
(***************************************************************************)
LEMMA FlushIsRight ==
  ASSUME Coherent, NEW i \in Input, NEW off \in Offset, off \notin stale
  PROVE  UpdatesOfFlush(os)[i][off] = content[i][off]
<1>1. UpdatesOfFlush(os)[i][off] =
        IF IsByteFlushed(os, off) THEN os.updates[i][off]
        ELSE IF IsByteConcrete(os, off) THEN os.concreteStore[off]
        ELSE os.knownSymbolics[off][i]
  BY Zenon DEF UpdatesOfFlush
<1>2. CASE IsByteFlushed(os, off)
  BY <1>1, <1>2, Zenon DEF Coherent, PlacesRight
<1>3. CASE ~IsByteFlushed(os, off) /\ IsByteConcrete(os, off)
  BY <1>1, <1>3, Zenon DEF Coherent, PlacesRight
<1>4. CASE ~IsByteFlushed(os, off) /\ ~IsByteConcrete(os, off)
  <2>1. IsByteKnownSymbolic(os, off)
    BY <1>4, Zenon DEF Coherent, CacheInvariants
  <2>2. os.knownSymbolics[off][i] = content[i][off]
    BY <2>1, Zenon DEF Coherent, PlacesRight
  <2> QED  BY <1>1, <1>4, <2>2, Zenon
<1> QED  BY <1>2, <1>3, <1>4, Zenon

(***************************************************************************)
(* What the lemmas on flushes assume.                                      *)
(***************************************************************************)
LEMMA SomewhereKept ==
  ASSUME Coherent
  PROVE  /\ os \in ObjectState
         /\ content \in Contents
         /\ stale \in SUBSET Offset
         /\ \A off \in Offset : \/ IsByteFlushed(os, off)
                                \/ IsByteConcrete(os, off)
                                \/ IsByteKnownSymbolic(os, off)
BY Zenon DEF Coherent, TypeOK, CacheInvariants

(***************************************************************************)
(* A read at a symbolic offset.                                            *)
(***************************************************************************)
LEMMA ReadAtCoherent ==
  ASSUME Coherent, ReadAt
  PROVE  Coherent'
<1>1. os' = FlushRangeForRead(os) /\ content' = content /\ stale' = stale
  BY DEF ReadAt
<1>2. /\ os' \in ObjectState
      /\ os'.concreteStore = os.concreteStore
      /\ os'.knownSymbolics = os.knownSymbolics
      /\ os'.updates = UpdatesOfFlush(os)
      /\ \A off \in Offset :
           /\ IsByteFlushed(os', off)
           /\ IsByteConcrete(os', off) = IsByteConcrete(os, off)
           /\ IsByteKnownSymbolic(os', off) = IsByteKnownSymbolic(os, off)
  BY <1>1, SomewhereKept, FlushForReadFacts
<1>3. TypeOK'
  BY <1>1, <1>2, SomewhereKept DEF TypeOK
<1>4. CacheInvariants'
  BY <1>2 DEF Coherent, CacheInvariants
<1>5. PlacesRight'
  BY <1>1, <1>2, FlushIsRight DEF Coherent, PlacesRight
<1> QED  BY <1>3, <1>4, <1>5 DEF Coherent

(***************************************************************************)
(* A write at a symbolic offset.                                           *)
(***************************************************************************)
LEMMA WriteAtCoherent ==
  ASSUME Coherent, NEW index \in Index, NEW value \in Value, WriteAt(index, value)
  PROVE  Coherent'
<1> DEFINE f == FlushRangeForWrite(os)
<1>1. os' = Extend(f, index, value) /\ stale' = stale
  BY DEF WriteAt, Write8At
<1>2. /\ f \in ObjectState
      /\ f.updates = UpdatesOfFlush(os)
      /\ \A off \in Offset : /\ IsByteFlushed(f, off)
                             /\ ~IsByteConcrete(f, off)
                             /\ ~IsByteKnownSymbolic(f, off)
  BY SomewhereKept, FlushForWriteFacts
<1> HIDE DEF f
<1>3. /\ os' \in ObjectState
      /\ os'.concreteMask = f.concreteMask
      /\ os'.flushMask = f.flushMask
      /\ os'.knownSymbolics = f.knownSymbolics
      /\ \A i \in Input, off \in Offset :
           os'.updates[i][off] = IF off = index[i] THEN value[i] ELSE f.updates[i][off]
  BY <1>1, <1>2, ExtendFacts
<1>4. \A off \in Offset : /\ IsByteFlushed(os', off)
                          /\ ~IsByteConcrete(os', off)
                          /\ ~IsByteKnownSymbolic(os', off)
  BY <1>2, <1>3 DEF IsByteFlushed, IsByteConcrete, IsByteKnownSymbolic
<1>5. /\ content' \in Contents
      /\ \A i \in Input, off \in Offset :
           content'[i][off] = IF off = index[i] THEN value[i] ELSE content[i][off]
  BY SomewhereKept DEF WriteAt, Contents, Index, Value
<1>6. TypeOK'
  BY <1>1, <1>3, <1>5, SomewhereKept DEF TypeOK
<1>7. CacheInvariants'
  BY <1>4 DEF CacheInvariants
<1>8. PlacesRight'
  <2> SUFFICES ASSUME NEW off \in Offset, NEW i \in Input, off \notin stale
               PROVE  os'.updates[i][off] = content'[i][off]
    BY <1>1, <1>4 DEF PlacesRight
  <2>1. f.updates[i][off] = content[i][off]
    BY <1>2, FlushIsRight
  <2> QED  BY <1>3, <1>5, <2>1
<1> QED  BY <1>6, <1>7, <1>8 DEF Coherent

(***************************************************************************)
(* flushToConcreteStore writes into concreteStore only where the byte is a *)
(* known expression, and so is not concrete.                               *)
(***************************************************************************)
LEMMA FlushToConcreteStoreCoherent ==
  ASSUME Coherent, FlushToConcreteStore
  PROVE  Coherent'
<1>1. PICK store \in [Offset -> Byte] :
        /\ \A off \in Offset : ~IsByteKnownSymbolic(os, off) => store[off] = os.concreteStore[off]
        /\ os' = [os EXCEPT !.concreteStore = store]
        /\ content' = content /\ stale' = stale
  BY Zenon DEF FlushToConcreteStore
<1>2. /\ os' \in ObjectState
      /\ os'.concreteStore = store
      /\ os'.concreteMask = os.concreteMask
      /\ os'.flushMask = os.flushMask
      /\ os'.knownSymbolics = os.knownSymbolics
      /\ os'.updates = os.updates
  BY <1>1, SomewhereKept DEF ObjectState
<1>3. \A off \in Offset : /\ IsByteFlushed(os', off) = IsByteFlushed(os, off)
                          /\ IsByteConcrete(os', off) = IsByteConcrete(os, off)
                          /\ IsByteKnownSymbolic(os', off) = IsByteKnownSymbolic(os, off)
  BY <1>2 DEF IsByteFlushed, IsByteConcrete, IsByteKnownSymbolic
<1>4. TypeOK'
  BY <1>1, <1>2, SomewhereKept DEF TypeOK
<1>5. CacheInvariants'
  BY <1>3 DEF Coherent, CacheInvariants
<1>6. PlacesRight'
  BY <1>1, <1>2, <1>3 DEF Coherent, CacheInvariants, PlacesRight
<1> QED  BY <1>4, <1>5, <1>6 DEF Coherent

(***************************************************************************)
(* An external call: a concrete byte that was flushed and changes becomes  *)
(* stale.                                                                  *)
(***************************************************************************)
LEMMA ExternalCallCoherent ==
  ASSUME Coherent, NEW native \in [Offset -> Byte], ExternalCall(native)
  PROVE  Coherent'
<1>1. /\ os' \in ObjectState
      /\ os'.concreteStore = native
      /\ os'.concreteMask = os.concreteMask
      /\ os'.flushMask = os.flushMask
      /\ os'.knownSymbolics = os.knownSymbolics
      /\ os'.updates = os.updates
  BY SomewhereKept DEF ExternalCall, ObjectState
<1>2. \A off \in Offset : /\ IsByteFlushed(os', off) = IsByteFlushed(os, off)
                          /\ IsByteConcrete(os', off) = IsByteConcrete(os, off)
                          /\ IsByteKnownSymbolic(os', off) = IsByteKnownSymbolic(os, off)
  BY <1>1 DEF IsByteFlushed, IsByteConcrete, IsByteKnownSymbolic
<1>3. /\ content' \in Contents
      /\ \A i \in Input, off \in Offset :
           content'[i][off] = IF IsByteConcrete(os, off) THEN native[off] ELSE content[i][off]
  <2> HIDE DEF IsByteConcrete
  <2> QED  BY SomewhereKept DEF ExternalCall, Contents
<1>4. /\ stale' \in SUBSET Offset
      /\ \A off \in Offset \ stale' :
           /\ off \notin stale
           /\ IsByteConcrete(os, off) /\ IsByteFlushed(os, off) => native[off] = os.concreteStore[off]
  BY SomewhereKept DEF ExternalCall
<1>5. TypeOK'
  BY <1>1, <1>3, <1>4 DEF TypeOK
<1>6. CacheInvariants'
  BY <1>2 DEF Coherent, CacheInvariants
<1>7. PlacesRight'
  <2> SUFFICES ASSUME NEW off \in Offset, NEW i \in Input
               PROVE  /\ IsByteConcrete(os', off) => os'.concreteStore[off] = content'[i][off]
                      /\ IsByteKnownSymbolic(os', off) => os'.knownSymbolics[off][i] = content'[i][off]
                      /\ IsByteFlushed(os', off) /\ off \notin stale' => os'.updates[i][off] = content'[i][off]
    BY DEF PlacesRight
  <2>1. IsByteConcrete(os', off) => os'.concreteStore[off] = content'[i][off]
    BY <1>1, <1>2, <1>3
  <2>2. IsByteKnownSymbolic(os', off) => os'.knownSymbolics[off][i] = content'[i][off]
    BY <1>1, <1>2, <1>3 DEF Coherent, CacheInvariants, PlacesRight
  <2>3. IsByteFlushed(os', off) /\ off \notin stale' => os'.updates[i][off] = content'[i][off]
    <3>1. SUFFICES ASSUME IsByteFlushed(os', off), off \notin stale'
                   PROVE  os.updates[i][off] = content'[i][off]
      BY <1>1
    <3>2. os.updates[i][off] = content[i][off]
      BY <1>2, <1>4, <3>1 DEF Coherent, PlacesRight
    <3>3. IsByteConcrete(os, off) => native[off] = content[i][off]
      BY <1>2, <1>4, <3>1 DEF Coherent, PlacesRight
    <3> QED  BY <1>3, <3>2, <3>3
  <2> QED  BY <2>1, <2>2, <2>3
<1> QED  BY <1>5, <1>6, <1>7 DEF Coherent

-----------------------------------------------------------------------------
(***************************************************************************)
(* Coherent caches answer reads at constant and at symbolic offsets right. *)
(***************************************************************************)
LEMMA CoherentReads == Coherent => BytesExact
<1> SUFFICES ASSUME Coherent PROVE BytesExact
  OBVIOUS
<1>1. CacheInvariants
  BY DEF Coherent
<1>2. ASSUME NEW off \in Offset, IsByteConcrete(os, off) \/ off \notin stale
      PROVE  Read8(os, off) = [i \in Input |-> content[i][off]]
  <2>1. CASE IsByteConcrete(os, off)
    BY <2>1, Zenon DEF Coherent, PlacesRight, Read8
  <2>2. CASE ~IsByteConcrete(os, off) /\ IsByteKnownSymbolic(os, off)
    <3>1. os.knownSymbolics[off] \in Value
      BY <2>2, SomewhereKept DEF IsByteKnownSymbolic, ObjectState
    <3>2. \A i \in Input : os.knownSymbolics[off][i] = content[i][off]
      BY <2>2, Zenon DEF Coherent, PlacesRight
    <3>3. Read8(os, off) = os.knownSymbolics[off]
      BY <2>2, Zenon DEF Read8
    <3> QED  BY <3>1, <3>2, <3>3 DEF Value
  <2>3. CASE ~IsByteConcrete(os, off) /\ ~IsByteKnownSymbolic(os, off)
    <3>1. IsByteFlushed(os, off) /\ off \notin stale
      BY <1>1, <1>2, <2>3, Zenon DEF CacheInvariants
    <3>2. Read8(os, off) = [i \in Input |-> os.updates[i][off]]
      BY <2>3, Zenon DEF Read8
    <3>3. \A i \in Input : os.updates[i][off] = content[i][off]
      BY <3>1, Zenon DEF Coherent, PlacesRight
    <3> QED  BY <3>2, <3>3, Zenon
  <2> QED  BY <2>1, <2>2, <2>3, Zenon
<1>3. ASSUME NEW index \in Index, \A i \in Input : index[i] \notin stale
      PROVE  Read8At(os, index) = [i \in Input |-> content[i][index[i]]]
  <2>1. \A i \in Input : index[i] \in Offset
    BY DEF Index
  <2>2. FlushRangeForRead(os).updates = UpdatesOfFlush(os)
    BY SomewhereKept, FlushForReadFacts
  <2>3. \A i \in Input : UpdatesOfFlush(os)[i][index[i]] = content[i][index[i]]
    BY <1>3, <2>1, FlushIsRight
  <2> QED  BY <2>2, <2>3, Zenon DEF Read8At
<1> QED  BY <1>1, <1>2, <1>3, Zenon DEF BytesExact

(***************************************************************************)
(* Every step of an ObjectState keeps its caches coherent.                 *)
(***************************************************************************)
LEMMA StepCoherent == Coherent /\ [Next]_vars => Coherent'
<1> SUFFICES ASSUME Coherent, [Next]_vars PROVE Coherent'
  OBVIOUS
<1>1. CASE \E off \in Offset, value \in Byte : WriteNumber(off, value)
  BY <1>1, WriteNumberCoherent
<1>2. CASE \E off \in Offset, value \in Value : WriteExpr(off, value)
  BY <1>2, WriteExprCoherent
<1>3. CASE \E index \in Index, value \in Value : WriteAt(index, value)
  BY <1>3, WriteAtCoherent
<1>4. CASE ReadAt
  BY <1>4, ReadAtCoherent
<1>5. CASE FlushToConcreteStore
  BY <1>5, FlushToConcreteStoreCoherent
<1>6. CASE \E native \in [Offset -> Byte] : ExternalCall(native)
  BY <1>6, ExternalCallCoherent
<1>7. CASE UNCHANGED vars
  BY <1>7 DEF vars, Coherent, TypeOK, CacheInvariants, PlacesRight, IsByteConcrete,
       IsByteKnownSymbolic, IsByteFlushed
<1> QED  BY <1>1, <1>2, <1>3, <1>4, <1>5, <1>6, <1>7 DEF Next

(***************************************************************************)
(* The documented cache invariants of ObjectState hold, and every read     *)
(* gives what was written last, for objects of any size: however writes,   *)
(* flushes for reads of shared objects, flushes to the concrete store and  *)
(* external calls alternate.                                               *)
(***************************************************************************)
THEOREM BytesAreExact == Spec => []BytesExact
<1>1. Spec => []Coherent
  BY InitCoherent, StepCoherent, PTL DEF Spec
<1> QED  BY <1>1, CoherentReads, PTL
=============================================================================
