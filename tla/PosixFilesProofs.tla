--------------------------- MODULE PosixFilesProofs ---------------------------
(***************************************************************************)
(* Proofs about PosixFiles, for any number of descriptors, files, bytes    *)
(* and calls.  Every call of fd.c does one of a few things to the table of *)
(* descriptors and one of a few things to the files: StepShape says which  *)
(* for each call, and the properties are proved from these shapes.         *)
(***************************************************************************)
EXTENDS PosixFiles, SequenceTheorems, WellFoundedInduction, TLAPS

Entry == [flags : SUBSET Flag, fd : 0 .. MaxOs, off : Off, dfile : Dfile \cup {Null}]
DiskFile == [contents : Seq(Byte), ino : {0, 1}, perms : SUBSET Permission,
             type : {s.type : s \in Stats}, own : BOOLEAN]

\* An open descriptor of the operating system.
Concrete(fd) == IsOpen(fd) /\ fds[fd].dfile = Null

\* Until a write passes MaxOff no symbolic file has a negative offset.
OffsetsGood == ~wrapped => \A fd \in Fd : fds[fd].dfile # Null => fds[fd].off >= 0

\* The inductive invariant: types, offsets, the size of files, and that the
\* descriptors of the system in the table have been given out by it, each to
\* one entry unless it was duplicated.
IInv ==
  /\ TypeOK
  /\ fds \in [Fd -> Entry]
  /\ disk \in [Dfile -> DiskFile]
  /\ n_calls \in [Kind -> Nat]
  /\ AssertsHold
  /\ OffsetsGood
  /\ FilesKeepTheirSize
  /\ \A fd \in Fd : Concrete(fd) => fds[fd].fd < osFds
  /\ ~duped => \A d, e \in Fd : Concrete(d) /\ Concrete(e) /\ fds[d].fd = fds[e].fd => d = e

\* What a call may do to the table of descriptors.
Keeps == fds' = fds /\ duped' = duped /\ osFds' >= osFds
Reached(fd, off) == wrapped' \/ fds[fd].dfile = Null \/ off >= 0
Moves ==
  /\ \E fd \in Fd, off \in Off : Reached(fd, off) /\ fds' = [fds EXCEPT ![fd].off = off]
  /\ ok' /\ duped' = duped /\ osFds' >= osFds
Marks ==
  /\ \E fd \in Fd, flags \in SUBSET Flag :
       /\ "eOpen" \in flags <=> "eOpen" \in fds[fd].flags
       /\ fds' = [fds EXCEPT ![fd].flags = flags]
  /\ ok' /\ duped' = duped /\ osFds' >= osFds
Opens ==
  /\ FreeFds # {}
  /\ \E e \in Entry :
       /\ fds' = [fds EXCEPT ![NewFd] = e]
       /\ "eOpen" \in e.flags <=> ok'
       /\ e.off = 0
       /\ e.dfile # Null => disk[e.dfile].ino # 0
       /\ e.dfile = Null /\ ok' => e.fd = osFds /\ osFds' = osFds + 1
  /\ duped' = duped /\ osFds' >= osFds
Closes ==
  /\ \E fd \in Fd : fds' = [fds EXCEPT ![fd] = Closed]
  /\ ok' /\ (duped => duped') /\ osFds' >= osFds
Copies ==
  /\ \E old, new \in Fd :
       /\ IsOpen(old) /\ Dup2(old, new)
       /\ fds' = [fds EXCEPT ![new] = [fds[old] EXCEPT !.flags = @ \ {"eCloseOnExec"}]]
       /\ duped' = (duped \/ (fds[old].dfile = Null /\ old # new))
  /\ ok' /\ osFds' >= osFds
TableStep == Keeps \/ Moves \/ Marks \/ Opens \/ Closes \/ Copies

\* What a call may do to the files.
FileStep ==
  \/ disk' = disk
  \/ /\ ok'
     /\ \E df \in Dfile :
          \/ \E bytes \in Seq(Byte) :
               /\ Len(bytes) = Len(disk[df].contents)
               /\ disk' = [disk EXCEPT ![df].contents = bytes]
          \/ \E perms \in SUBSET Permission : disk' = [disk EXCEPT ![df].perms = perms]
          \/ disk' = [disk EXCEPT ![df].ino = 0]

\* What a call may do to the rest.
CounterStep ==
  /\ env' = env
  /\ umask' \subseteq Permission /\ (~ok' => umask' = umask)
  /\ max_failures' \in 0 .. env.failures
  /\ n_calls' \in [Kind -> Nat]
  /\ osFds' \in 3 .. MaxOs
  /\ duped' \in BOOLEAN
  /\ wrapped' \in BOOLEAN /\ (wrapped => wrapped')
  /\ calls' \in 0 .. env.calls
  /\ \/ crash' \in {"no", "write", "null", "overrun", "seek"}
     \/ crash' = "offset" /\ wrapped

Shape == TableStep /\ FileStep /\ CounterStep /\ ok' \in BOOLEAN
-----------------------------------------------------------------------------
\* The loops that look for a free entry find the lowest one.
LEMMA LeastElement ==
  ASSUME NEW S, S \subseteq Nat, S # {}
  PROVE  Least(S) \in S /\ \A y \in S : Least(S) <= y
<1>. DEFINE R == {p \in Nat \X Nat : p[1] < p[2]}
<1>1. OpToRel(<, Nat) = R
  BY Zenon DEF OpToRel
<1>2. IsWellFoundedOn(R, Nat)
  BY <1>1, NatLessThanWellFounded, Zenon
<1>. HIDE DEF R
<1>3. PICK x \in S : \A y \in S : ~(<<y, x>> \in R)
  BY <1>2, WFMin, Zenon
<1>4. ASSUME NEW y \in S, y < x PROVE <<y, x>> \in R
  <2>. <<y, x>> \in Nat \X Nat /\ <<y, x>>[1] < <<y, x>>[2]
    BY <1>4
  <2>. QED
    BY DEF R
<1>5. ASSUME NEW y \in S PROVE x <= y
  <2>1. ~(y < x)
    BY <1>3, <1>4, Zenon
  <2>. QED
    BY <2>1
<1>. QED
  BY <1>5, Zenon DEF Least

LEMMA NewFdFree ==
  ASSUME FreeFds # {}
  PROVE  NewFd \in FreeFds /\ NewFd \in Fd /\ \A d \in Fd : d < NewFd => IsOpen(d)
<1>1. FreeFds \subseteq Nat
  BY PosixFilesAssumption DEF FreeFds, Fd
<1>2. NewFd \in FreeFds /\ \A d \in FreeFds : NewFd <= d
  BY <1>1, LeastElement, Zenon DEF NewFd
<1>. QED
  BY <1>1, <1>2, PosixFilesAssumption DEF FreeFds, IsOpen, Fd

LEMMA CountTyped ==
  ASSUME IInv, NEW kind \in Kind
  PROVE  Count(kind) \in [Kind -> Nat]
<1>1. env.fail[kind] \in Nat /\ n_calls[kind] \in Nat /\ n_calls \in [Kind -> Nat]
  BY PosixFilesAssumption DEF IInv, TypeOK, Kind
<1>. QED
  BY <1>1 DEF Count, Lesser

LEMMA ClosedTyped == Closed \in Entry /\ Closed.off = 0
BY PosixFilesAssumption DEF Closed, Entry, Off

\* What is computed modulo the width of an off64_t is one.
LEMMA SignedTyped ==
  ASSUME NEW n \in Int
  PROVE  Signed(n) \in Off
<1>1. /\ MaxOff \in Nat /\ 2 * (MaxOff + 1) \in Nat \ {0}
      /\ n + MaxOff + 1 \in Int
  BY PosixFilesAssumption
<1>2. \A a \in Int : \A b \in Nat \ {0} : a % b \in 0 .. b - 1
  OBVIOUS
<1>3. (n + MaxOff + 1) % (2 * (MaxOff + 1)) \in 0 .. 2 * (MaxOff + 1) - 1
  BY <1>1, <1>2
<1>. QED
  BY <1>1, <1>3 DEF Signed, Off

\* A sum of an offset and a number of bytes that passes no limit is itself.
LEMMA SignedSame ==
  ASSUME NEW n \in Nat, n <= MaxOff
  PROVE  Signed(n) = n
<1>1. MaxOff \in Nat
  BY PosixFilesAssumption
<1>2. \A a \in Nat : \A b \in Nat \ {0} : a < b => a % b = a
  OBVIOUS
<1>3. (n + MaxOff + 1) % (2 * (MaxOff + 1)) = n + MaxOff + 1
  BY <1>1, <1>2
<1>. QED
  BY <1>1, <1>3 DEF Signed

\* The part of the invariant that CounterStep is about.
LEMMA CountersTyped ==
  ASSUME IInv
  PROVE  /\ env.failures \in Nat /\ env.calls \in Nat /\ MaxOs \in Nat
         /\ umask \subseteq Permission
         /\ max_failures \in 0 .. env.failures
         /\ n_calls \in [Kind -> Nat]
         /\ osFds \in 3 .. MaxOs
         /\ duped \in BOOLEAN /\ wrapped \in BOOLEAN
         /\ calls \in 0 .. env.calls
BY PosixFilesAssumption DEF IInv, TypeOK

\* What a call returns is recorded, and the options never change.
LEMMA ReturnsShape ==
  ASSUME IInv, Running, NEW good \in BOOLEAN, Returns(good)
  PROVE  /\ env' = env /\ ok' = good /\ ok' \in BOOLEAN
         /\ calls' \in 0 .. env.calls /\ crash' = "no"
BY PosixFilesAssumption DEF IInv, TypeOK, Running, Returns

LEMMA ReturnsCounters ==
  ASSUME IInv, Running, NEW good \in BOOLEAN, Returns(good),
         umask' = umask, duped' \in BOOLEAN, wrapped' \in BOOLEAN, wrapped => wrapped',
         max_failures' \in 0 .. env.failures, n_calls' \in [Kind -> Nat],
         osFds' \in 3 .. MaxOs
  PROVE  CounterStep /\ ok' \in BOOLEAN
<1>1. /\ env' = env /\ ok' \in BOOLEAN
      /\ calls' \in 0 .. env.calls /\ crash' = "no"
  BY ReturnsShape
<1>2. umask' \subseteq Permission
  BY CountersTyped
<1>. QED
  BY <1>1, <1>2 DEF CounterStep

LEMMA AnswersShape ==
  ASSUME IInv, Running, NEW good \in BOOLEAN, Answers(good)
  PROVE  Shape
<1>1. TableStep /\ FileStep
  BY PosixFilesAssumption DEF IInv, TypeOK, Answers, TableStep, Keeps, FileStep, files, system
<1>2. CounterStep
  BY ReturnsShape, PosixFilesAssumption
     DEF IInv, TypeOK, Answers, CounterStep, files, counters, system
<1>3. ok' \in BOOLEAN
  BY ReturnsShape DEF Answers
<1>. QED
  BY <1>1, <1>2, <1>3 DEF Shape

LEMMA CrashesShape ==
  ASSUME IInv, Running, NEW why \in {"write", "null", "overrun", "seek", "offset"},
         Crashes(why), why = "offset" => wrapped,
         n_calls' \in [Kind -> Nat]
  PROVE  Shape
<1>1. TableStep /\ FileStep
  BY PosixFilesAssumption DEF IInv, TypeOK, Crashes, TableStep, Keeps, FileStep, files, system
<1>2. CounterStep
  BY CountersTyped DEF Running, Crashes, CounterStep, files, system
<1>3. ok' \in BOOLEAN
  BY Zenon DEF Crashes
<1>. QED
  BY <1>1, <1>2, <1>3 DEF Shape

LEMMA OpensTable ==
  ASSUME FreeFds # {}, NEW e \in Entry,
         fds' = [fds EXCEPT ![NewFd] = e],
         "eOpen" \in e.flags <=> ok', e.off = 0,
         e.dfile # Null => disk[e.dfile].ino # 0,
         e.dfile = Null /\ ok' => e.fd = osFds /\ osFds' = osFds + 1,
         duped' = duped, osFds' >= osFds
  PROVE  TableStep
BY Zenon DEF TableStep, Opens

LEMMA OpenShape ==
  ASSUME IInv, NEW path, NEW acc, NEW opts, NEW mode \in SUBSET Permission,
         Open(path, acc, opts, mode)
  PROVE  Shape
<1>. DEFINE df == GetSymFile(path)
<1>1. Running /\ UNCHANGED <<umask, max_failures, n_calls, duped, wrapped>>
  BY DEF Open, counters
<1>2. CASE FreeFds = {}
  <2>1. Returns(FALSE) /\ UNCHANGED <<fds, disk, osFds>>
    BY <1>2, Zenon DEF Open
  <2>. QED
    BY <1>1, <2>1, AnswersShape, Zenon DEF Answers, files, counters, system
<1>3. CASE FreeFds # {} /\ df # Null
  <2>1. df \in Dfile /\ disk[df].ino # 0
    BY <1>3, PosixFilesAssumption DEF GetSymFile
  <2>2. OpenSymbolic(NewFd, df, acc, opts, mode)
    BY <1>3, Zenon DEF Open
  <2>. DEFINE refused == \/ {"O_CREAT", "O_EXCL"} \subseteq opts
                         \/ "O_EXCL" \in opts /\ "O_CREAT" \notin opts
                         \/ ~HasPermission(acc, disk[df].perms)
              e == [Closed EXCEPT !.dfile = df, !.flags = IF refused THEN {} ELSE {"eOpen"}]
  <2>3. /\ fds' = [fds EXCEPT ![NewFd] = e]
        /\ disk' = IF refused THEN disk ELSE [disk EXCEPT ![df].perms = mode \ umask]
        /\ Returns(~refused)
        /\ osFds' = osFds
    BY <2>2 DEF OpenSymbolic
  <2>. refused \in BOOLEAN
    OBVIOUS
  <2>4. e \in Entry /\ ("eOpen" \in e.flags <=> ~refused) /\ e.dfile = df /\ e.off = 0
    BY <2>1, ClosedTyped, Zenon DEF Closed, Entry, Flag
  <2>. HIDE DEF refused, e
  <2>5. env' = env /\ ok' = ~refused /\ ok' \in BOOLEAN /\ calls' \in 0 .. env.calls /\ crash' = "no"
    BY <1>1, <2>3, ReturnsShape, Zenon
  <2>6. TableStep
    <3>1. osFds' >= osFds
      BY <2>3, CountersTyped
    <3>2. "eOpen" \in e.flags <=> ok'
      BY <2>4, <2>5, Zenon
    <3>. QED
      BY <1>1, <1>3, <2>1, <2>3, <2>4, <3>1, <3>2, OpensTable, Zenon
  <2>7. FileStep
    BY <2>1, <2>3, <2>5, Zenon DEF FileStep
  <2>8. CounterStep
    BY <1>1, <2>3, CountersTyped, ReturnsCounters, Zenon
  <2>. QED
    BY <2>5, <2>6, <2>7, <2>8 DEF Shape
<1>4. CASE FreeFds # {} /\ df = Null
  <2>1. OpenConcrete(NewFd)
    BY <1>4, Zenon DEF Open
  <2>2. disk' = disk
    BY <2>1 DEF OpenConcrete
  <2>3. CASE fds' = [fds EXCEPT ![NewFd] = Closed] /\ Returns(FALSE) /\ UNCHANGED osFds
    <3>1. env' = env /\ ok' = FALSE /\ ok' \in BOOLEAN /\ calls' \in 0 .. env.calls /\ crash' = "no"
      BY <1>1, <2>3, ReturnsShape, Zenon
    <3>2. TableStep
      <4>1. osFds' >= osFds
        BY <2>3, CountersTyped
      <4>2. Closed.flags = {} /\ Closed.dfile = Null /\ Closed.off = 0
        BY DEF Closed
      <4>3. "eOpen" \in Closed.flags <=> ok'
        BY <3>1, <4>2
      <4>. QED
        BY <1>1, <1>4, <2>3, <3>1, <4>1, <4>2, <4>3, ClosedTyped, OpensTable, Zenon
    <3>3. FileStep
      BY <2>2 DEF FileStep
    <3>4. CounterStep
      BY <1>1, <2>3, CountersTyped, ReturnsCounters, Zenon
    <3>. QED
      BY <3>1, <3>2, <3>3, <3>4 DEF Shape
  <2>4. CASE /\ osFds < MaxOs
             /\ fds' = [fds EXCEPT ![NewFd] = [Closed EXCEPT !.fd = osFds, !.flags = {"eOpen"}]]
             /\ osFds' = osFds + 1
             /\ Returns(TRUE)
    <3>1. env' = env /\ ok' = TRUE /\ ok' \in BOOLEAN /\ calls' \in 0 .. env.calls /\ crash' = "no"
      BY <1>1, <2>4, ReturnsShape, Zenon
    <3>. DEFINE e == [Closed EXCEPT !.fd = osFds, !.flags = {"eOpen"}]
    <3>2. e \in Entry /\ "eOpen" \in e.flags /\ e.dfile = Null /\ e.fd = osFds /\ e.off = 0
      <4>1. osFds \in 0 .. MaxOs
        BY CountersTyped
      <4>2. {"eOpen"} \in SUBSET Flag
        BY DEF Flag
      <4>. QED
        BY <4>1, <4>2, ClosedTyped, Zenon DEF Closed, Entry
    <3>. HIDE DEF e
    <3>3. TableStep
      <4>1. fds' = [fds EXCEPT ![NewFd] = e]
        BY <2>4 DEF e
      <4>2. osFds' >= osFds
        BY <2>4, PosixFilesAssumption DEF IInv, TypeOK
      <4>3. "eOpen" \in e.flags <=> ok'
        BY <3>1, <3>2, Zenon
      <4>. QED
        BY <1>1, <1>4, <2>4, <3>2, <4>1, <4>2, <4>3, OpensTable, Zenon
    <3>4. FileStep
      BY <2>2 DEF FileStep
    <3>5. CounterStep
      <4>1. osFds' \in 3 .. MaxOs
        BY <2>4, CountersTyped
      <4>. QED
        BY <1>1, <2>4, <4>1, CountersTyped, ReturnsCounters, Zenon
    <3>. QED
      BY <3>1, <3>3, <3>4, <3>5 DEF Shape
  <2>. QED
    BY <2>1, <2>3, <2>4, Zenon DEF OpenConcrete
<1>. QED
  BY <1>2, <1>3, <1>4

LEMMA OpenAtShape ==
  ASSUME IInv, NEW fd, NEW path, NEW acc, NEW opts, NEW mode \in SUBSET Permission,
         OpenAt(fd, path, acc, opts, mode)
  PROVE  Shape
BY OpenShape, AnswersShape, Zenon DEF OpenAt
-----------------------------------------------------------------------------
(***************************************************************************)
(* The table and the counters of the other calls.                          *)
(***************************************************************************)
LEMMA KeepsTable ==
  ASSUME IInv, fds' = fds, duped' = duped, osFds' = osFds
  PROVE  TableStep
<1>1. osFds' >= osFds
  BY CountersTyped
<1>. QED
  BY <1>1, Zenon DEF TableStep, Keeps

LEMMA MovesTable ==
  ASSUME IInv, NEW fd \in Fd, NEW off \in Off, fds' = [fds EXCEPT ![fd].off = off],
         Reached(fd, off), ok', duped' = duped, osFds' = osFds
  PROVE  TableStep
<1>1. osFds' >= osFds
  BY CountersTyped
<1>. QED
  BY <1>1, Zenon DEF TableStep, Moves

LEMMA ClosesTable ==
  ASSUME IInv, NEW fd \in Fd, fds' = [fds EXCEPT ![fd] = Closed],
         ok', duped => duped', osFds' = osFds
  PROVE  TableStep
<1>1. osFds' >= osFds
  BY CountersTyped
<1>. QED
  BY <1>1, Zenon DEF TableStep, Closes

LEMMA CopiesTable ==
  ASSUME IInv, NEW old \in Fd, NEW new \in Fd, IsOpen(old), Dup2(old, new),
         fds' = [fds EXCEPT ![new] = [fds[old] EXCEPT !.flags = @ \ {"eCloseOnExec"}]],
         duped' = (duped \/ (fds[old].dfile = Null /\ old # new)),
         ok', osFds' = osFds
  PROVE  TableStep
<1>1. osFds' >= osFds
  BY CountersTyped
<1>. QED
  BY <1>1, Zenon DEF TableStep, Copies

LEMMA EntryTyped ==
  ASSUME IInv, NEW fd \in Fd
  PROVE  /\ fds[fd] \in Entry
         /\ fds[fd].off \in Off /\ fds[fd].off \in Int /\ fds[fd].flags \in SUBSET Flag
         /\ fds[fd].dfile \in Dfile \cup {Null}
BY PosixFilesAssumption DEF IInv, Entry, Off

LEMMA InjectedCounts ==
  ASSUME IInv, NEW kind \in Kind, Injected(kind)
  PROVE  max_failures - 1 \in 0 .. env.failures
BY CountersTyped DEF Injected

\* A call that changes offsets at most, fails or succeeds, and counts.
LEMMA CallShape ==
  ASSUME IInv, Running, NEW good \in BOOLEAN, Returns(good), TableStep, FileStep,
         umask' = umask, duped' \in BOOLEAN, wrapped' \in BOOLEAN, wrapped => wrapped',
         osFds' = osFds, max_failures' \in 0 .. env.failures, n_calls' \in [Kind -> Nat]
  PROVE  Shape
<1>1. CounterStep /\ ok' \in BOOLEAN
  BY CountersTyped, ReturnsCounters
<1>. QED
  BY <1>1 DEF Shape

LEMMA RefusedShape ==
  ASSUME IInv, Running, NEW fd, NEW kind \in Kind, Refused(fd, kind),
         n_calls' = Count(kind), UNCHANGED <<files, system>>
  PROVE  Shape
<1>1. max_failures' \in 0 .. env.failures
  BY InjectedCounts, CountersTyped DEF Refused
<1>2. TableStep
  BY KeepsTable DEF Refused, system
<1>3. FileStep
  BY DEF FileStep, files
<1>. QED
  BY <1>1, <1>2, <1>3, CountTyped, CountersTyped, CallShape, Zenon DEF Refused, files, system

LEMMA CloseShape ==
  ASSUME IInv, NEW fd, Close(fd)
  PROVE  Shape
<1>. DEFINE good == IsOpen(fd) /\ ~Injected("close")
<1>. good \in BOOLEAN /\ "close" \in Kind
  BY DEF Kind
<1>1. /\ Running /\ Returns(good) /\ n_calls' \in [Kind -> Nat]
      /\ UNCHANGED <<files, osFds, duped, wrapped>>
  BY CountTyped DEF Close, system
<1>2. max_failures' \in 0 .. env.failures
  BY InjectedCounts, CountersTyped DEF Close
<1>3. FileStep
  BY <1>1 DEF FileStep, files
<1>4. ok' = good
  BY <1>1, ReturnsShape, Zenon
<1>5. TableStep
  <2>1. CASE good
    <3>1. fd \in Fd /\ fds' = [fds EXCEPT ![fd] = Closed]
      BY <2>1 DEF Close, IsOpen
    <3>2. ok'
      BY <1>4, <2>1, Zenon
    <3>. QED
      BY <1>1, <3>1, <3>2, ClosesTable, Zenon
  <2>2. CASE ~good
    BY <1>1, <2>2, KeepsTable DEF Close
  <2>. QED
    BY <2>1, <2>2
<1>. HIDE DEF good
<1>. QED
  BY <1>1, <1>2, <1>3, <1>5, CountersTyped, CallShape DEF files

LEMMA Dup2Shape ==
  ASSUME IInv, NEW old, NEW new, Dup2(old, new)
  PROVE  Shape
<1>. DEFINE injected == IsOpen(new) /\ Injected("close")
            closes == IsOpen(new) /\ ~injected
            table == IF closes THEN [fds EXCEPT ![new] = Closed] ELSE fds
<1>. "close" \in Kind
  BY DEF Kind
<1>1. /\ Running /\ IsOpen(old) /\ old \in Fd /\ new \in Fd
      /\ Returns(TRUE) /\ UNCHANGED <<files, osFds, wrapped>>
      /\ fds' = [table EXCEPT ![new] = [table[old] EXCEPT !.flags = @ \ {"eCloseOnExec"}]]
      /\ duped' = (duped \/ (fds[old].dfile = Null /\ old # new))
  BY Zenon DEF Dup2, IsOpen
<1>2. n_calls' \in [Kind -> Nat]
  BY CountTyped, CountersTyped DEF Dup2
<1>3. max_failures' \in 0 .. env.failures
  BY InjectedCounts, CountersTyped DEF Dup2
<1>4. FileStep
  BY <1>1 DEF FileStep, files
<1>5. ok' = TRUE
  BY <1>1, ReturnsShape, Zenon
<1>6. fds \in [Fd -> Entry]
  BY DEF IInv
<1>7. duped' \in BOOLEAN /\ (duped => duped')
  BY <1>1, CountersTyped, Zenon
<1>8. CASE closes /\ old = new
  <2>1. [Closed EXCEPT !.flags = @ \ {"eCloseOnExec"}] = Closed
    BY DEF Closed
  <2>2. table[old] = Closed
    BY <1>1, <1>6, <1>8
  <2>3. fds' = [fds EXCEPT ![new] = Closed]
    BY <1>1, <1>6, <1>8, <2>1, <2>2, Zenon
  <2>4. TableStep
    BY <1>1, <1>5, <1>7, <2>3, ClosesTable, Zenon
  <2>. QED
    BY <1>1, <1>2, <1>3, <1>4, <1>7, <2>4, CountersTyped, CallShape, Zenon DEF files
<1>9. CASE ~(closes /\ old = new)
  <2>1. table[old] = fds[old]
    BY <1>1, <1>6, <1>9
  <2>2. fds' = [fds EXCEPT ![new] = [fds[old] EXCEPT !.flags = @ \ {"eCloseOnExec"}]]
    BY <1>1, <1>6, <2>1, Zenon
  <2>3. TableStep
    BY <1>1, <1>5, <2>2, CopiesTable, Zenon
  <2>. QED
    BY <1>1, <1>2, <1>3, <1>4, <1>7, <2>3, CountersTyped, CallShape, Zenon DEF files
<1>. QED
  BY <1>8, <1>9

LEMMA DupShape ==
  ASSUME IInv, NEW old, Dup(old)
  PROVE  Shape
BY Dup2Shape, AnswersShape, Zenon DEF Dup
-----------------------------------------------------------------------------
(***************************************************************************)
(* Offsets: reads, writes and seeks.                                       *)
(***************************************************************************)
LEMMA DiskTyped ==
  ASSUME IInv, NEW df \in Dfile
  PROVE  /\ disk[df] \in DiskFile /\ disk[df].contents \in Seq(Byte)
         /\ Size(df) \in Nat /\ Size(df) <= MaxOff
<1>1. disk[df] \in DiskFile /\ disk[df].contents \in Seq(Byte) /\ Size(df) \in Nat
  BY LenProperties DEF IInv, DiskFile, Size
<1>2. Size(df) = env.size /\ env.size \in 0 .. MaxOff
  BY PosixFilesAssumption DEF IInv, TypeOK, FilesKeepTheirSize
<1>. QED
  BY <1>1, <1>2, PosixFilesAssumption

\* A successful call that does nothing but move an offset.
LEMMA MoveShape ==
  ASSUME IInv, Running, NEW fd \in Fd, NEW off \in Off, Reached(fd, off),
         fds' = [fds EXCEPT ![fd].off = off], Returns(TRUE), FileStep,
         UNCHANGED <<umask, osFds, duped>>, wrapped' \in BOOLEAN, wrapped => wrapped',
         max_failures' \in 0 .. env.failures, n_calls' \in [Kind -> Nat]
  PROVE  Shape
<1>1. ok'
  BY ReturnsShape, Zenon
<1>2. TableStep
  BY <1>1, MovesTable, Zenon
<1>. QED
  BY <1>2, CountersTyped, CallShape, Zenon

\* The offset of an entry of the system is within what the system knows.
LEMMA TransfersShape ==
  ASSUME IInv, Running, NEW fd \in Fd, fds[fd].dfile = Null, NEW n \in Nat, NEW streams,
         Transfers(fd, n, streams), FileStep, UNCHANGED <<umask, max_failures, system>>,
         n_calls' \in [Kind -> Nat]
  PROVE  Shape
<1>1. Returns(TRUE) /\ wrapped' = wrapped /\ osFds' = osFds /\ duped' = duped
  BY DEF Transfers, system
<1>2. CASE fds' = fds
  BY <1>1, <1>2, KeepsTable, CountersTyped, CallShape, Zenon
<1>3. CASE fds' # fds
  <2>1. PICK r \in 0 .. Lesser(n, MaxOff - fds[fd].off) :
          fds[fd].off >= 0 /\ fds' = [fds EXCEPT ![fd].off = @ + r]
    BY <1>3, Zenon DEF Transfers
  <2>2. MaxOff \in Nat /\ fds[fd].off \in Int
    BY EntryTyped, PosixFilesAssumption
  <2>3. fds[fd].off + r \in Off
    BY <2>1, <2>2 DEF Off, Lesser
  <2>4. fds' = [fds EXCEPT ![fd].off = fds[fd].off + r]
    BY <2>1
  <2>5. Reached(fd, fds[fd].off + r)
    BY DEF Reached
  <2>. QED
    BY <1>1, <2>3, <2>4, <2>5, CountersTyped, MoveShape, Zenon
<1>. QED
  BY <1>2, <1>3

LEMMA ReadShape ==
  ASSUME IInv, NEW fd \in Fd, NEW count \in Nat, NEW null \in BOOLEAN, Read(fd, count, null)
  PROVE  Shape
<1>. DEFINE f == fds[fd]
<1>. "read" \in Kind
  BY DEF Kind
<1>1. Running /\ n_calls' = Count("read") /\ UNCHANGED <<files, system>>
  BY DEF Read
<1>2. n_calls' \in [Kind -> Nat] /\ FileStep /\ max_failures \in 0 .. env.failures
  BY <1>1, CountTyped, CountersTyped DEF FileStep, files
<1>3. CASE Refused(fd, "read")
  BY <1>1, <1>3, RefusedShape
<1>4. ASSUME NEW good \in BOOLEAN, Returns(good), UNCHANGED <<fds, max_failures>>
      PROVE  Shape
  <2>1. umask' = umask /\ osFds' = osFds /\ duped' = duped /\ wrapped' = wrapped
    BY <1>1 DEF files, system
  <2>. QED
    BY <1>1, <1>2, <1>4, <2>1, KeepsTable, CountersTyped, CallShape, Zenon
<1>5. CASE f.dfile = Null /\ Transfers(fd, count, {0}) /\ UNCHANGED max_failures
  <2>1. UNCHANGED <<umask, max_failures, system>>
    BY <1>1, <1>5 DEF files
  <2>. QED
    BY <1>1, <1>2, <1>5, <2>1, TransfersShape, Zenon
<1>6. CASE /\ f.dfile # Null /\ f.off >= 0
           /\ fds' = [fds EXCEPT ![fd].off = f.off + Readable(f.dfile, f.off, count)]
           /\ Returns(TRUE)
           /\ UNCHANGED max_failures
  <2>1. f.off \in Off /\ f.off \in Nat /\ f.dfile \in Dfile
    BY <1>6, EntryTyped
  <2>2. Size(f.dfile) \in Nat /\ Size(f.dfile) <= MaxOff
    BY <2>1, DiskTyped
  <2>3. /\ f.off + Readable(f.dfile, f.off, count) \in Off
        /\ f.off + Readable(f.dfile, f.off, count) >= 0
    <3>1. MaxOff \in Nat
      BY PosixFilesAssumption
    <3>. QED
      BY <2>1, <2>2, <3>1 DEF Readable, Off
  <2>4. Reached(fd, f.off + Readable(f.dfile, f.off, count))
    BY <2>3 DEF Reached
  <2>5. UNCHANGED <<umask, osFds, duped>> /\ wrapped' = wrapped
    BY <1>1 DEF files, system
  <2>. QED
    BY <1>1, <1>2, <1>6, <2>3, <2>4, <2>5, CountersTyped, MoveShape, Zenon
<1>7. CASE f.dfile # Null /\ f.off < 0 /\ Crashes("offset")
  <2>1. wrapped
    <3>1. ~(f.off >= 0)
      BY <1>7, EntryTyped
    <3>. QED
      BY <1>7, <3>1, CountersTyped, Zenon DEF IInv, OffsetsGood
  <2>. QED
    BY <1>1, <1>2, <1>7, <2>1, CrashesShape
<1>8. (count = 0) \in BOOLEAN
  OBVIOUS
<1>. QED
  BY <1>3, <1>4, <1>5, <1>6, <1>7, <1>8, Zenon DEF Read

LEMMA FunctionIsSeq ==
  \A S : \A m \in Nat : \A g \in [1 .. m -> S] : g \in Seq(S) /\ Len(g) = m
OBVIOUS

\* The bytes after a write: as many as before.
LEMMA WrittenSize ==
  ASSUME NEW old \in Seq(Byte), NEW buf \in Seq(Byte), NEW off \in Nat, NEW n \in Nat,
         n <= Len(buf), off + n <= Len(old),
         NEW new, new = [i \in 1 .. off + n |-> IF i > off THEN buf[i - off] ELSE old[i]],
         NEW rest, rest = SubSeq(old, off + n + 1, Len(old))
  PROVE  new \o rest \in Seq(Byte) /\ Len(new \o rest) = Len(old)
<1>1. /\ Len(old) \in Nat /\ \A i \in 1 .. Len(old) : old[i] \in Byte
      /\ Len(buf) \in Nat /\ \A i \in 1 .. Len(buf) : buf[i] \in Byte
  BY LenProperties, ElementOfSeq
<1>2. new \in [1 .. off + n -> Byte]
  <2>1. ASSUME NEW i \in 1 .. off + n
        PROVE  (IF i > off THEN buf[i - off] ELSE old[i]) \in Byte
    <3>1. CASE i > off
      <4>1. i - off \in 1 .. Len(buf)
        BY <1>1, <3>1
      <4>. QED
        BY <1>1, <3>1, <4>1
    <3>2. CASE ~(i > off)
      <4>1. i \in 1 .. Len(old)
        BY <1>1, <3>2
      <4>. QED
        BY <1>1, <3>2, <4>1
    <3>. QED
      BY <3>1, <3>2
  <2>. QED
    BY <2>1
<1>3. new \in Seq(Byte) /\ Len(new) = off + n
  BY <1>2, FunctionIsSeq
<1>4. \A i \in off + n + 1 .. Len(old) : old[i] \in Byte
  BY <1>1
<1>5. rest \in Seq(Byte) /\ Len(rest) = Len(old) - (off + n)
  <2>1. off + n + 1 \in Int /\ Len(old) \in Int
    BY <1>1
  <2>2. /\ rest \in Seq(Byte)
        /\ Len(rest) = IF off + n + 1 <= Len(old) THEN Len(old) - (off + n + 1) + 1 ELSE 0
    BY <1>4, <2>1, SubSeqProperties
  <2>. QED
    BY <1>1, <2>2
<1>. QED
  BY <1>1, <1>3, <1>5, ConcatProperties

LEMMA WriteSymbolicShape ==
  ASSUME IInv, Running, NEW fd \in Fd, NEW buf \in Seq(Byte), Len(buf) <= MaxOff,
         fds[fd].dfile # Null, n_calls' \in [Kind -> Nat], WriteSymbolic(fd, buf)
  PROVE  Shape
<1>. DEFINE f == fds[fd]
            n == Stored(f.dfile, f.off, Len(buf))
            new == [i \in 1 .. f.off + n |->
                      IF i > f.off THEN buf[i - f.off] ELSE disk[f.dfile].contents[i]]
            rest == SubSeq(disk[f.dfile].contents, f.off + n + 1, Size(f.dfile))
            Grows == env.saveAll /\ Unsigned(f.off + Len(buf)) > Size(f.dfile)
<1>1. f.dfile \in Dfile /\ f.off \in Off /\ f.off \in Int /\ Len(buf) \in Nat
  BY EntryTyped, LenProperties
<1>2. Size(f.dfile) \in Nat /\ disk[f.dfile].contents \in Seq(Byte)
  BY <1>1, DiskTyped
<1>3. CASE Grows
  <2>1. Crashes("write")
    BY <1>3 DEF WriteSymbolic
  <2>. QED
    BY <2>1, CrashesShape
<1>4. CASE ~Grows /\ f.off < 0
  <2>1. Crashes("overrun")
    BY <1>4, Zenon DEF WriteSymbolic
  <2>. QED
    BY <2>1, CrashesShape
<1>5. CASE ~Grows /\ ~(f.off < 0)
  <2>. DEFINE sum == f.off + Len(buf)
  <2>1. /\ disk' = IF n = 0 THEN disk ELSE [disk EXCEPT ![f.dfile].contents = new \o rest]
        /\ fds' = [fds EXCEPT ![fd].off = Signed(sum)]
        /\ wrapped' = (wrapped \/ sum > MaxOff)
        /\ Returns(TRUE)
        /\ UNCHANGED <<umask, max_failures, osFds, duped>>
    BY <1>5, Zenon DEF WriteSymbolic
  <2>0. f.off \in Nat /\ sum \in Nat
    BY <1>1, <1>5
  <2>3. n \in Nat /\ n <= Len(buf) /\ (n # 0 => f.off + n <= Size(f.dfile))
    BY <1>1, <1>2, <2>0 DEF Stored
  <2>4. Signed(sum) \in Off /\ wrapped' \in BOOLEAN /\ (wrapped => wrapped')
    <3>1. Signed(sum) \in Off
      BY <2>0, SignedTyped
    <3>2. (sum > MaxOff) \in BOOLEAN
      OBVIOUS
    <3>. QED
      BY <2>1, <3>1, <3>2, CountersTyped, Zenon
  <2>5. Reached(fd, Signed(sum))
    <3>1. CASE sum > MaxOff
      BY <2>1, <3>1, Zenon DEF Reached
    <3>2. CASE ~(sum > MaxOff)
      <4>1. Signed(sum) = sum
        BY <2>0, <3>2, SignedSame, PosixFilesAssumption
      <4>. QED
        BY <2>0, <4>1 DEF Reached
    <3>. QED
      BY <3>1, <3>2
  <2>2. FileStep
    <3>1. CASE n = 0
      BY <2>1, <3>1 DEF FileStep
    <3>2. CASE n # 0
      <4>1. f.off + n <= Len(disk[f.dfile].contents)
        BY <2>3, <3>2 DEF Size
      <4>2. new \o rest \in Seq(Byte) /\ Len(new \o rest) = Len(disk[f.dfile].contents)
        <5>. DEFINE old == disk[f.dfile].contents
                    off == f.off
        <5>1. /\ new = [i \in 1 .. off + n |-> IF i > off THEN buf[i - off] ELSE old[i]]
              /\ rest = SubSeq(old, off + n + 1, Len(old))
          BY DEF Size
        <5>2. /\ old \in Seq(Byte) /\ off \in Nat /\ n \in Nat
              /\ n <= Len(buf) /\ off + n <= Len(old)
          BY <1>2, <2>0, <2>3, <4>1
        <5>. HIDE DEF new, rest, old, off, n
        <5>3. new \o rest \in Seq(Byte) /\ Len(new \o rest) = Len(old)
          BY <5>1, <5>2, WrittenSize
        <5>. QED
          BY <5>3 DEF old
      <4>3. disk' = [disk EXCEPT ![f.dfile].contents = new \o rest]
        BY <2>1, <3>2, Zenon
      <4>4. ok'
        BY <2>1, ReturnsShape, Zenon
      <4>. HIDE DEF new, rest, n
      <4>. QED
        BY <1>1, <4>2, <4>3, <4>4, Zenon DEF FileStep
    <3>. QED
      BY <3>1, <3>2
  <2>. QED
    BY <2>1, <2>2, <2>4, <2>5, CountersTyped, MoveShape, Zenon
<1>. QED
  BY <1>3, <1>4, <1>5

LEMMA WriteShape ==
  ASSUME IInv, NEW fd \in Fd, NEW buf \in Seq(Byte), Len(buf) <= MaxOff, Write(fd, buf)
  PROVE  Shape
<1>. "write" \in Kind
  BY DEF Kind
<1>1. Running /\ n_calls' = Count("write") /\ n_calls' \in [Kind -> Nat]
  BY CountTyped DEF Write
<1>2. CASE IsOpen(fd) /\ ~Injected("write") /\ fds[fd].dfile = Null
  <2>1. WriteConcrete(fd, buf)
    BY <1>2 DEF Write
  <2>2. UNCHANGED <<umask, max_failures, system>> /\ FileStep
    BY <2>1 DEF WriteConcrete, FileStep, files
  <2>3. CASE Returns(FALSE) /\ UNCHANGED fds
    <3>1. osFds' = osFds /\ duped' = duped /\ wrapped' = wrapped
      BY <2>2 DEF system
    <3>. QED
      BY <1>1, <2>2, <2>3, <3>1, KeepsTable, CountersTyped, CallShape, Zenon
  <2>4. CASE Transfers(fd, Len(buf), {1, 2})
    <3>1. Len(buf) \in Nat
      BY LenProperties
    <3>. QED
      BY <1>1, <1>2, <2>2, <2>4, <3>1, TransfersShape, Zenon
  <2>. QED
    BY <2>1, <2>3, <2>4, Zenon DEF WriteConcrete
<1>3. CASE IsOpen(fd) /\ ~Injected("write") /\ fds[fd].dfile # Null
  BY <1>1, <1>3, WriteSymbolicShape DEF Write
<1>4. CASE ~(IsOpen(fd) /\ ~Injected("write"))
  BY <1>1, <1>4, RefusedShape DEF Write
<1>. QED
  BY <1>2, <1>3, <1>4

LEMMA MovesToShape ==
  ASSUME IInv, Running, NEW fd \in Fd, NEW off \in Off, fds[fd].dfile = Null \/ off >= 0,
         MovesTo(fd, off)
  PROVE  Shape
<1>1. /\ fds' = [fds EXCEPT ![fd].off = off] /\ Returns(TRUE)
      /\ UNCHANGED <<umask, osFds, duped, wrapped, max_failures, n_calls>> /\ FileStep
  BY DEF MovesTo, FileStep, files, counters, system
<1>2. Reached(fd, off)
  BY DEF Reached
<1>. QED
  BY <1>1, <1>2, CountersTyped, MoveShape, Zenon

LEMMA PositionTyped ==
  ASSUME IInv, NEW fd \in Fd, fds[fd].dfile # Null, NEW offset \in Off, NEW whence,
         NEW off \in Position(fds[fd], offset, whence)
  PROVE  off \in Off /\ off >= 0
<1>1. MaxOff \in Nat /\ offset \in Int /\ fds[fd].off \in Int /\ Size(fds[fd].dfile) \in Nat
  BY EntryTyped, DiskTyped, PosixFilesAssumption DEF Off
<1>2. Signed(fds[fd].off + offset) \in Off /\ Signed(Size(fds[fd].dfile) + offset) \in Off
  BY <1>1, SignedTyped
<1>3. off \in Nat /\ off \in Off
  BY <1>2 DEF Position
<1>. QED
  BY <1>3

LEMMA LseekShape ==
  ASSUME IInv, NEW fd \in Fd, NEW offset \in Off, NEW whence, Lseek(fd, offset, whence)
  PROVE  Shape
<1>1. Running
  BY DEF Lseek
<1>2. CASE Answers(FALSE)
  BY <1>1, <1>2, AnswersShape, Zenon
<1>3. CASE fds[fd].dfile = Null /\ LseekSystem(fd, whence)
  <2>1. CASE \E off \in 0 .. MaxOff : MovesTo(fd, off)
    <3>1. PICK off \in 0 .. MaxOff : MovesTo(fd, off)
      BY <2>1
    <3>2. off \in Off
      BY PosixFilesAssumption DEF Off
    <3>. QED
      BY <1>1, <1>3, <3>1, <3>2, MovesToShape, Zenon
  <2>2. CASE Crashes("seek") /\ UNCHANGED n_calls
    BY <1>1, <2>2, CrashesShape, CountersTyped
  <2>. QED
    BY <1>2, <1>3, <2>1, <2>2, Zenon DEF LseekSystem
<1>4. CASE fds[fd].dfile # Null /\ LseekSymbolic(fd, offset, whence)
  <2>1. ASSUME NEW off \in Position(fds[fd], offset, whence), MovesTo(fd, off) PROVE Shape
    <3>1. off \in Off /\ off >= 0
      BY <1>4, PositionTyped, Zenon
    <3>. QED
      BY <1>1, <2>1, <3>1, MovesToShape, Zenon
  <2>. QED
    BY <1>2, <1>4, <2>1, Zenon DEF LseekSymbolic
<1>. QED
  BY <1>2, <1>3, <1>4, Zenon DEF Lseek
-----------------------------------------------------------------------------
(***************************************************************************)
(* Modes, names and the remaining calls.                                   *)
(***************************************************************************)
LEMMA DfChmodShape ==
  ASSUME IInv, Running, NEW df \in Dfile, NEW mode \in SUBSET Permission, DfChmod(df, mode)
  PROVE  Shape
<1>1. disk[df].own \in BOOLEAN
  BY DiskTyped DEF DiskFile
<1>2. Returns(disk[df].own) /\ UNCHANGED <<fds, umask, counters, osFds, duped, wrapped>>
  BY DEF DfChmod, system
<1>3. ok' = disk[df].own
  BY <1>1, <1>2, ReturnsShape
<1>4. FileStep
  <2>1. CASE disk[df].own
    <3>1. ok' /\ disk' = [disk EXCEPT ![df].perms = mode]
      BY <1>3, <2>1 DEF DfChmod
    <3>. QED
      BY <3>1, Zenon DEF FileStep
  <2>2. CASE ~disk[df].own
    BY <2>2 DEF DfChmod, FileStep
  <2>. QED
    BY <2>1, <2>2
<1>. QED
  BY <1>1, <1>2, <1>4, KeepsTable, CountersTyped, CallShape DEF counters

LEMMA SystemCallShape ==
  ASSUME IInv, Running, SystemCall
  PROVE  Shape
BY AnswersShape DEF SystemCall

LEMMA ChmodShape ==
  ASSUME IInv, NEW path, NEW mode \in SUBSET Permission, Chmod(path, mode)
  PROVE  Shape
<1>1. Running /\ (GetSymFile(path) # Null => GetSymFile(path) \in Dfile)
  BY PosixFilesAssumption DEF Chmod, GetSymFile
<1>2. n_calls \in [Kind -> Nat]
  BY CountersTyped
<1>. QED
  BY <1>1, <1>2, CrashesShape, DfChmodShape, SystemCallShape DEF Chmod

LEMMA FchmodShape ==
  ASSUME IInv, NEW fd \in Fd, NEW mode \in SUBSET Permission, Fchmod(fd, mode)
  PROVE  Shape
<1>1. Running /\ (fds[fd].dfile # Null => fds[fd].dfile \in Dfile)
  BY EntryTyped DEF Fchmod
<1>2. n_calls \in [Kind -> Nat]
  BY CountersTyped
<1>. QED
  BY <1>1, <1>2, AnswersShape, CrashesShape, DfChmodShape, SystemCallShape, Zenon DEF Fchmod

LEMMA FtruncateShape ==
  ASSUME IInv, NEW fd \in Fd, Ftruncate(fd)
  PROVE  Shape
<1>. "ftruncate" \in Kind
  BY DEF Kind
<1>1. /\ Running /\ n_calls' = Count("ftruncate") /\ n_calls' \in [Kind -> Nat]
      /\ UNCHANGED <<files, osFds, duped, wrapped>> /\ FileStep
  BY CountTyped DEF Ftruncate, FileStep, files, system
<1>2. CASE Refused(fd, "ftruncate")
  BY <1>1, <1>2, RefusedShape DEF system
<1>3. ASSUME NEW good \in BOOLEAN, Returns(good), UNCHANGED <<fds, max_failures>>
      PROVE  Shape
  BY <1>1, <1>3, KeepsTable, CountersTyped, CallShape DEF files
<1>. QED
  BY <1>2, <1>3 DEF Ftruncate

LEMMA GetcwdShape ==
  ASSUME IInv, Getcwd
  PROVE  Shape
<1>. "getcwd" \in Kind
  BY DEF Kind
<1>1. /\ Running /\ n_calls' \in [Kind -> Nat]
      /\ UNCHANGED <<fds, files, osFds, duped, wrapped>> /\ FileStep
  BY CountTyped DEF Getcwd, FileStep, files, system
<1>2. TableStep
  BY <1>1, KeepsTable
<1>3. \E good \in BOOLEAN : Returns(good)
  BY Zenon DEF Getcwd
<1>4. max_failures' \in 0 .. env.failures
  BY InjectedCounts, CountersTyped, Zenon DEF Getcwd
<1>. QED
  BY <1>1, <1>2, <1>3, <1>4, CountersTyped, CallShape DEF files

LEMMA UmaskShape ==
  ASSUME IInv, NEW mask \in SUBSET Permission, Umask(mask)
  PROVE  Shape
<1>1. /\ Running /\ Returns(TRUE) /\ umask' = mask
      /\ UNCHANGED <<fds, disk, counters, osFds, duped, wrapped>>
  BY Zenon DEF Umask, system
<1>2. env' = env /\ ok' /\ ok' \in BOOLEAN /\ calls' \in 0 .. env.calls /\ crash' = "no"
  BY <1>1, ReturnsShape, Zenon
<1>3. CounterStep
  BY <1>1, <1>2, CountersTyped DEF CounterStep, counters
<1>4. TableStep /\ FileStep
  BY <1>1, KeepsTable DEF FileStep
<1>. QED
  BY <1>2, <1>3, <1>4 DEF Shape

LEMMA RemoveShape ==
  ASSUME IInv, NEW path, NEW type, Remove(path, type)
  PROVE  Shape
<1>. DEFINE df == GetSymFile(path)
            found == df # Null /\ disk[df].type = type
<1>. found \in BOOLEAN
  OBVIOUS
<1>1. Running /\ Returns(found) /\ UNCHANGED <<fds, umask, counters, osFds, duped, wrapped>>
  BY DEF Remove, system
<1>2. ok' = found
  BY <1>1, ReturnsShape, Zenon
<1>3. FileStep
  <2>1. CASE found
    <3>1. df \in Dfile /\ disk' = [disk EXCEPT ![df].ino = 0]
      BY <2>1, PosixFilesAssumption DEF Remove, GetSymFile
    <3>2. ok'
      BY <1>2, <2>1, Zenon
    <3>. QED
      BY <3>1, <3>2, Zenon DEF FileStep
  <2>2. CASE ~found
    BY <2>2 DEF Remove, FileStep
  <2>. QED
    BY <2>1, <2>2
<1>. HIDE DEF found
<1>. QED
  BY <1>1, <1>3, KeepsTable, CountersTyped, CallShape DEF counters

LEMMA FcntlShape ==
  ASSUME IInv, NEW fd \in Fd, NEW cmd, Fcntl(fd, cmd)
  PROVE  Shape
<1>1. Running
  BY DEF Fcntl
<1>2. ASSUME NEW good \in BOOLEAN, Answers(good) PROVE Shape
  BY <1>1, <1>2, AnswersShape
<1>3. CASE /\ osFds < MaxOs /\ osFds' = osFds + 1 /\ Returns(TRUE)
           /\ UNCHANGED <<fds, files, counters, duped, wrapped>>
  <2>1. osFds' \in 3 .. MaxOs /\ osFds' >= osFds
    BY <1>3, CountersTyped
  <2>2. TableStep
    BY <1>3, <2>1, Zenon DEF TableStep, Keeps
  <2>3. FileStep
    BY <1>3 DEF FileStep, files
  <2>4. CounterStep /\ ok' \in BOOLEAN
    BY <1>1, <1>3, <2>1, CountersTyped, ReturnsCounters, Zenon DEF files, counters
  <2>. QED
    BY <2>2, <2>3, <2>4 DEF Shape
<1>4. CASE /\ fds' = [fds EXCEPT ![fd].flags = (@ \ {"eCloseOnExec"})
                        \cup IF cmd = "FD_CLOEXEC" THEN {"eCloseOnExec"} ELSE {}]
           /\ Returns(TRUE)
           /\ UNCHANGED <<files, counters, osFds, duped, wrapped>>
  <2>. DEFINE flags == (fds[fd].flags \ {"eCloseOnExec"})
                         \cup IF cmd = "FD_CLOEXEC" THEN {"eCloseOnExec"} ELSE {}
  <2>1. flags \in SUBSET Flag /\ ("eOpen" \in flags <=> "eOpen" \in fds[fd].flags)
    BY EntryTyped DEF Flag
  <2>2. fds' = [fds EXCEPT ![fd].flags = flags]
    BY <1>4
  <2>. HIDE DEF flags
  <2>3. ok' /\ osFds' >= osFds
    <3>1. Returns(TRUE) /\ osFds' = osFds
      BY <1>4, Zenon
    <3>2. ok'
      BY <1>1, <3>1, ReturnsShape, Zenon
    <3>3. osFds' >= osFds
      BY <3>1, CountersTyped
    <3>. QED
      BY <3>2, <3>3
  <2>4. TableStep
    BY <1>4, <2>1, <2>2, <2>3, Zenon DEF TableStep, Marks
  <2>5. FileStep
    BY <1>4 DEF FileStep, files
  <2>. QED
    BY <1>1, <1>4, <2>4, <2>5, CountersTyped, CallShape, Zenon DEF files, counters
<1>5. CASE ~IsOpen(fd)
  BY <1>2, <1>5, Zenon DEF Fcntl
<1>6. CASE IsOpen(fd) /\ fds[fd].dfile = Null
  BY <1>2, <1>3, <1>6, Zenon DEF Fcntl, SystemCall
<1>7. CASE IsOpen(fd) /\ fds[fd].dfile # Null /\ cmd \in {"F_SETFD", "FD_CLOEXEC"}
  BY <1>4, <1>7, Zenon DEF Fcntl, system
<1>8. CASE IsOpen(fd) /\ fds[fd].dfile # Null /\ cmd \notin {"F_SETFD", "FD_CLOEXEC"}
  <2>1. Answers(cmd \in {"F_GETFD", "F_GETFL"})
    BY <1>8 DEF Fcntl
  <2>2. (cmd \in {"F_GETFD", "F_GETFL"}) \in BOOLEAN
    OBVIOUS
  <2>. QED
    BY <1>1, <2>1, <2>2, AnswersShape, Zenon
<1>. QED
  BY <1>5, <1>6, <1>7, <1>8

LEMMA GetdentsShape ==
  ASSUME IInv, NEW fd \in Fd, NEW count \in Nat, Getdents(fd, count)
  PROVE  Shape
<1>1. Running
  BY DEF Getdents
<1>2. ASSUME NEW good \in BOOLEAN, Answers(good) PROVE Shape
  BY <1>1, <1>2, AnswersShape
<1>3. ASSUME fds[fd].dfile = Null, NEW off \in Off, MovesTo(fd, off) PROVE Shape
  BY <1>1, <1>3, MovesToShape, Zenon
<1>4. CASE fds[fd].dfile = Null /\ GetdentsOwn(fd, count)
  <2>. DEFINE own == OwnEntries(fds[fd], count)
  <2>1. own.off \in Off
    BY PosixFilesAssumption DEF OwnEntries, Lesser, Off
  <2>2. CASE Crashes("overrun") /\ UNCHANGED n_calls
    BY <1>1, <2>2, CrashesShape, CountersTyped
  <2>. HIDE DEF own
  <2>. QED
    BY <1>2, <1>3, <1>4, <2>1, <2>2, Zenon DEF GetdentsOwn, own
<1>5. CASE fds[fd].dfile = Null /\ GetdentsSystem(fd)
  <2>1. \A pos \in 0 .. MaxOff : Signed(pos + Page) \in Off
    BY SignedTyped, PosixFilesAssumption
  <2>2. CASE Crashes("seek") /\ UNCHANGED n_calls
    BY <1>1, <2>2, CrashesShape, CountersTyped
  <2>. QED
    BY <1>2, <1>3, <1>5, <2>1, <2>2, Zenon DEF GetdentsSystem
<1>. QED
  BY <1>2, <1>4, <1>5, Zenon DEF Getdents

LEMMA InspectShape ==
  ASSUME IInv, NEW fd \in Fd, NEW path, Inspect(fd, path)
  PROVE  Shape
<1>1. \A b \in BOOLEAN : /\ OnPath(path, b) \subseteq BOOLEAN
                         /\ OnDescriptor(fd, b) \subseteq BOOLEAN
                         /\ OnPathAt(fd, path, b) \subseteq BOOLEAN
  BY Zenon DEF OnPath, OnDescriptor, OnPathAt
<1>2. InspectPath(path) \subseteq BOOLEAN
  <2>1. Readlink(path) \subseteq BOOLEAN
    BY <1>1, Zenon DEF Readlink
  <2>2. Chroot(path) \subseteq BOOLEAN
    BY Zenon DEF Chroot
  <2>. QED
    BY <1>1, <2>1, <2>2, Zenon
       DEF InspectPath, Access, Utimes, Stat, Lstat, Chdir, Chown, Lchown, Statfs
<1>3. InspectDescriptor(fd) \subseteq BOOLEAN
  <2>1. \A request : Ioctl(fd, request) \subseteq BOOLEAN
    BY <1>1, Zenon DEF Ioctl
  <2>2. Select({fd}) \subseteq BOOLEAN
    BY Zenon DEF Select
  <2>3. /\ Fchdir(fd) \subseteq BOOLEAN /\ Fchown(fd) \subseteq BOOLEAN
        /\ Fstat(fd) \subseteq BOOLEAN /\ Fstatfs(fd) \subseteq BOOLEAN
        /\ Fsync(fd) \subseteq BOOLEAN
    BY <1>1, Zenon DEF Fchdir, Fchown, Fstat, Fstatfs, Fsync
  <2>. QED
    BY <2>1, <2>2, <2>3 DEF InspectDescriptor
<1>4. Futimesat(fd, path) \cup Fstatat(fd, path) \subseteq BOOLEAN
  BY <1>1, Zenon DEF Futimesat, Fstatat
<1>5. \A call : Stub(call) \subseteq BOOLEAN
  BY Zenon DEF Stub
<1>6. \E good \in BOOLEAN : Answers(good)
  <2>. DEFINE A == InspectPath(path) \cup InspectDescriptor(fd)
                     \cup Futimesat(fd, path) \cup Fstatat(fd, path)
                     \cup UNION {Stub(call) : call \in Stubs}
  <2>1. A \subseteq BOOLEAN
    <3>1. UNION {Stub(call) : call \in Stubs} \subseteq BOOLEAN
      BY <1>5
    <3>. QED
      BY <1>2, <1>3, <1>4, <3>1
  <2>2. \E good \in A : Answers(good)
    BY DEF Inspect
  <2>. HIDE DEF A
  <2>. QED
    BY <2>1, <2>2, Zenon
<1>. QED
  BY <1>6, AnswersShape DEF Inspect

\* Every call has one of the shapes.
THEOREM StepShape ==
  ASSUME IInv, Next
  PROVE  Shape \/ UNCHANGED vars
<1>1. \A opts : ModeArgument(opts, {"w"}) \in SUBSET Permission /\ {} \in SUBSET Permission
  BY DEF ModeArgument, Permission
<1>2. Mode \subseteq SUBSET Permission
  BY DEF Mode, Permission
<1>3. \A buf \in Buffer : buf \in Seq(Byte) /\ Len(buf) <= MaxOff
  BY FunctionIsSeq, PosixFilesAssumption DEF Buffer
<1>4. 0 .. MaxBytes \subseteq Nat /\ {DirentSize, Page, MaxOff} \subseteq Nat
      /\ Seeks \subseteq Off
  BY PosixFilesAssumption DEF Seeks
<1>5. ASSUME NEW path \in Path, NEW acc, NEW opts, Open(path, acc, opts, ModeArgument(opts, {"w"}))
      PROVE  Shape
  BY <1>1, <1>5, OpenShape
<1>6. ASSUME NEW fd \in Fd,
             \/ Close(fd) \/ Dup(fd) \/ Ftruncate(fd)
             \/ \E new \in Fd : Dup2(fd, new)
             \/ \E count \in 0 .. MaxBytes, null \in BOOLEAN : Read(fd, count, null)
             \/ \E buf \in Buffer : Write(fd, buf)
             \/ \E offset \in Seeks, whence \in {"SEEK_SET", "SEEK_CUR", "SEEK_END"} :
                  Lseek(fd, offset, whence)
      PROVE  Shape
  BY <1>3, <1>4, <1>6, CloseShape, DupShape, FtruncateShape, Dup2Shape, ReadShape, WriteShape,
     LseekShape
<1>7. ASSUME NEW fd \in Fd,
             \/ \E mode \in Mode : Fchmod(fd, mode)
             \/ \E cmd \in {"F_SETFD", "FD_CLOEXEC", "F_GETFD", "F_DUPFD"} : Fcntl(fd, cmd)
             \/ \E count \in {DirentSize, Page, MaxOff} : Getdents(fd, count)
             \/ \E path \in Path : OpenAt(fd, path, "O_RDONLY", {}, {}) \/ Inspect(fd, path)
      PROVE  Shape
  BY <1>1, <1>2, <1>4, <1>7, FchmodShape, FcntlShape, GetdentsShape, OpenAtShape, InspectShape
<1>8. ASSUME NEW path \in Path,
             \/ \E mode \in Mode : Chmod(path, mode)
             \/ Rmdir(path) \/ Unlink(path) \/ Unlinkat(path)
      PROVE  Shape
  BY <1>2, <1>8, ChmodShape, RemoveShape DEF Rmdir, Unlink, Unlinkat
<1>9. ASSUME NEW mask \in Mode, Umask(mask) PROVE Shape
  BY <1>2, <1>9, UmaskShape
<1>. QED
  BY <1>5, <1>6, <1>7, <1>8, <1>9, GetcwdShape, Zenon DEF Next, Ended
-----------------------------------------------------------------------------
(***************************************************************************)
(* The invariant, from the shapes.                                         *)
(***************************************************************************)
\* The part of the invariant that is about descriptors of the system.
Distinct ==
  /\ \A fd \in Fd : Concrete(fd) => fds[fd].fd < osFds
  /\ ~duped => \A d, e \in Fd : Concrete(d) /\ Concrete(e) /\ fds[d].fd = fds[e].fd => d = e

\* Offsets and marks do not matter to what an entry refers to.
LEMMA SameEntries ==
  ASSUME IInv, Keeps \/ Moves \/ Marks
  PROVE  /\ fds' \in [Fd -> Entry]
         /\ \A fd \in Fd : /\ IsOpen(fd)' <=> IsOpen(fd)
                           /\ fds'[fd].dfile = fds[fd].dfile /\ fds'[fd].fd = fds[fd].fd
         /\ duped' = duped /\ osFds' >= osFds
<1>1. fds \in [Fd -> Entry]
  BY DEF IInv
<1>2. CASE Keeps
  BY <1>1, <1>2 DEF Keeps, IsOpen
<1>3. CASE Moves
  <2>1. PICK fd \in Fd, off \in Off : fds' = [fds EXCEPT ![fd].off = off]
    BY <1>3, Zenon DEF Moves
  <2>2. fds' \in [Fd -> Entry]
    BY <1>1, <2>1 DEF Entry
  <2>3. \A d \in Fd : /\ fds'[d].flags = fds[d].flags
                      /\ fds'[d].dfile = fds[d].dfile /\ fds'[d].fd = fds[d].fd
    BY <1>1, <2>1 DEF Entry
  <2>. QED
    BY <1>3, <2>2, <2>3 DEF Moves, IsOpen
<1>4. CASE Marks
  <2>1. PICK fd \in Fd, flags \in SUBSET Flag :
               /\ "eOpen" \in flags <=> "eOpen" \in fds[fd].flags
               /\ fds' = [fds EXCEPT ![fd].flags = flags]
    BY <1>4, Zenon DEF Marks
  <2>2. fds' \in [Fd -> Entry]
    BY <1>1, <2>1 DEF Entry
  <2>3. \A d \in Fd : /\ "eOpen" \in fds'[d].flags <=> "eOpen" \in fds[d].flags
                      /\ fds'[d].dfile = fds[d].dfile /\ fds'[d].fd = fds[d].fd
    BY <1>1, <2>1 DEF Entry
  <2>. QED
    BY <1>4, <2>2, <2>3 DEF Marks, IsOpen
<1>. QED
  BY <1>2, <1>3, <1>4

\* An entry that is not the one a step changes is the same as before.
LEMMA ChangedEntry ==
  ASSUME IInv, NEW fd \in Fd, NEW e \in Entry, fds' = [fds EXCEPT ![fd] = e]
  PROVE  /\ fds' \in [Fd -> Entry] /\ fds'[fd] = e
         /\ IsOpen(fd)' <=> "eOpen" \in e.flags
         /\ \A d \in Fd : d # fd => fds'[d] = fds[d] /\ (IsOpen(d)' <=> IsOpen(d))
<1>1. fds \in [Fd -> Entry]
  BY DEF IInv
<1>. QED
  BY <1>1 DEF IsOpen

LEMMA TableInv ==
  ASSUME IInv, TableStep, CounterStep
  PROVE  fds' \in [Fd -> Entry] /\ Distinct'
<1>. Distinct /\ osFds \in Nat /\ duped \in BOOLEAN /\ osFds' \in Nat /\ duped' \in BOOLEAN
  BY CountersTyped DEF IInv, Distinct, CounterStep
<1>0. \A fd \in Fd : fds[fd].fd \in Nat
  BY PosixFilesAssumption DEF IInv, Entry
<1>1. CASE Keeps \/ Moves \/ Marks
  <2>1. \A fd \in Fd : Concrete(fd)' <=> Concrete(fd)
    BY <1>1, SameEntries DEF Concrete
  <2>. QED
    BY <1>0, <1>1, <2>1, SameEntries DEF Distinct
<1>2. CASE Opens
  <2>1. PICK e \in Entry :
          /\ fds' = [fds EXCEPT ![NewFd] = e]
          /\ "eOpen" \in e.flags <=> ok'
          /\ e.dfile # Null => disk[e.dfile].ino # 0
          /\ e.dfile = Null /\ ok' => e.fd = osFds /\ osFds' = osFds + 1
    BY <1>2, Zenon DEF Opens
  <2>2. duped' = duped /\ osFds' >= osFds
    BY <1>2 DEF Opens
  <2>3. PICK new \in Fd : new = NewFd
    BY <1>2, NewFdFree DEF Opens
  <2>4. /\ fds' \in [Fd -> Entry] /\ fds'[new] = e
        /\ IsOpen(new)' <=> "eOpen" \in e.flags
        /\ \A d \in Fd : d # new => fds'[d] = fds[d] /\ (IsOpen(d)' <=> IsOpen(d))
    BY <2>1, <2>3, ChangedEntry, Zenon
  <2>5. Concrete(new)' => fds'[new].fd = osFds /\ osFds' = osFds + 1
    BY <2>1, <2>4 DEF Concrete
  <2>6. \A d \in Fd : d # new => fds'[d] = fds[d] /\ (Concrete(d)' <=> Concrete(d))
    BY <2>4 DEF Concrete
  <2>. QED
    BY <1>0, <2>2, <2>4, <2>5, <2>6 DEF Distinct
<1>3. CASE Closes
  <2>1. PICK fd \in Fd : fds' = [fds EXCEPT ![fd] = Closed]
    BY <1>3, Zenon DEF Closes
  <2>2. Closed.flags = {}
    BY DEF Closed
  <2>3. /\ fds' \in [Fd -> Entry] /\ ~Concrete(fd)'
        /\ \A d \in Fd : d # fd => fds'[d] = fds[d] /\ (Concrete(d)' <=> Concrete(d))
    BY <2>1, <2>2, ClosedTyped, ChangedEntry, Zenon DEF Concrete
  <2>. QED
    BY <1>0, <1>3, <2>3 DEF Distinct, Closes
<1>4. CASE Copies
  <2>1. PICK old \in Fd, new \in Fd :
          /\ IsOpen(old)
          /\ fds' = [fds EXCEPT ![new] = [fds[old] EXCEPT !.flags = @ \ {"eCloseOnExec"}]]
          /\ duped' = (duped \/ (fds[old].dfile = Null /\ old # new))
    BY <1>4, Zenon DEF Copies
  <2>. DEFINE e == [fds[old] EXCEPT !.flags = @ \ {"eCloseOnExec"}]
  <2>2. e \in Entry /\ e.fd = fds[old].fd /\ e.dfile = fds[old].dfile
    BY EntryTyped DEF Entry
  <2>3. fds' = [fds EXCEPT ![new] = e]
    BY <2>1
  <2>. HIDE DEF e
  <2>4. /\ fds' \in [Fd -> Entry]
        /\ Concrete(new)' => Concrete(old) /\ fds'[new].fd = fds[old].fd
        /\ \A d \in Fd : d # new => fds'[d] = fds[d] /\ (Concrete(d)' <=> Concrete(d))
    BY <2>1, <2>2, <2>3, ChangedEntry, Zenon DEF Concrete
  <2>5. osFds' >= osFds
    BY <1>4 DEF Copies
  <2>6. ~duped' => ~duped /\ (Concrete(old) => old = new)
    BY <2>1, Zenon DEF Concrete
  <2>. QED
    BY <1>0, <2>4, <2>5, <2>6 DEF Distinct
<1>. QED
  BY <1>1, <1>2, <1>3, <1>4 DEF TableStep

LEMMA OffsetsInv ==
  ASSUME IInv, TableStep, CounterStep
  PROVE  OffsetsGood'
<1>. SUFFICES ASSUME ~wrapped', NEW d \in Fd, fds'[d].dfile # Null
              PROVE  fds'[d].off >= 0
  BY DEF OffsetsGood
<1>0. fds \in [Fd -> Entry] /\ ~wrapped /\ \A fd \in Fd : fds[fd].dfile # Null => fds[fd].off >= 0
  BY DEF IInv, OffsetsGood, CounterStep
<1>1. CASE Keeps
  BY <1>0, <1>1 DEF Keeps
<1>2. CASE Moves
  <2>1. PICK fd \in Fd, off \in Off : Reached(fd, off) /\ fds' = [fds EXCEPT ![fd].off = off]
    BY <1>2, Zenon DEF Moves
  <2>2. fds'[d].dfile = fds[d].dfile /\ fds'[d].off = IF d = fd THEN off ELSE fds[d].off
    BY <1>0, <2>1 DEF Entry
  <2>. QED
    BY <1>0, <2>1, <2>2 DEF Reached
<1>3. CASE Marks
  <2>1. PICK fd \in Fd, flags \in SUBSET Flag : fds' = [fds EXCEPT ![fd].flags = flags]
    BY <1>3, Zenon DEF Marks
  <2>2. fds'[d].dfile = fds[d].dfile /\ fds'[d].off = fds[d].off
    BY <1>0, <2>1 DEF Entry
  <2>. QED
    BY <1>0, <2>2
<1>4. CASE Opens
  <2>1. PICK e \in Entry : fds' = [fds EXCEPT ![NewFd] = e] /\ e.off = 0
    BY <1>4, Zenon DEF Opens
  <2>. QED
    BY <1>0, <2>1
<1>5. CASE Closes
  <2>1. PICK fd \in Fd : fds' = [fds EXCEPT ![fd] = Closed]
    BY <1>5, Zenon DEF Closes
  <2>. QED
    BY <1>0, <2>1, ClosedTyped
<1>6. CASE Copies
  <2>1. PICK old \in Fd, new \in Fd :
          fds' = [fds EXCEPT ![new] = [fds[old] EXCEPT !.flags = @ \ {"eCloseOnExec"}]]
    BY <1>6, Zenon DEF Copies
  <2>2. \E e \in Fd : fds'[d].dfile = fds[e].dfile /\ fds'[d].off = fds[e].off
    BY <1>0, <2>1 DEF Entry
  <2>. QED
    BY <1>0, <2>2
<1>. QED
  BY <1>1, <1>2, <1>3, <1>4, <1>5, <1>6 DEF TableStep

LEMMA FileInv ==
  ASSUME IInv, FileStep, env' = env
  PROVE  disk' \in [Dfile -> DiskFile] /\ FilesKeepTheirSize'
<1>1. disk \in [Dfile -> DiskFile] /\ \A df \in Dfile : Len(disk[df].contents) = env.size
  BY DEF IInv, FilesKeepTheirSize, Size
<1>2. CASE disk' = disk
  BY <1>1, <1>2 DEF FilesKeepTheirSize, Size
<1>3. ASSUME NEW df \in Dfile, NEW bytes \in Seq(Byte), Len(bytes) = Len(disk[df].contents),
             disk' = [disk EXCEPT ![df].contents = bytes]
      PROVE  disk' \in [Dfile -> DiskFile] /\ \A d \in Dfile : Len(disk'[d].contents) = env.size
  BY <1>1, <1>3, Zenon DEF DiskFile
<1>4. ASSUME NEW df \in Dfile, NEW perms \in SUBSET Permission,
             disk' = [disk EXCEPT ![df].perms = perms]
      PROVE  disk' \in [Dfile -> DiskFile] /\ \A d \in Dfile : Len(disk'[d].contents) = env.size
  BY <1>1, <1>4, Zenon DEF DiskFile
<1>5. ASSUME NEW df \in Dfile, disk' = [disk EXCEPT ![df].ino = 0]
      PROVE  disk' \in [Dfile -> DiskFile] /\ \A d \in Dfile : Len(disk'[d].contents) = env.size
  BY <1>1, <1>5, Zenon DEF DiskFile
<1>6. disk' \in [Dfile -> DiskFile] /\ \A d \in Dfile : Len(disk'[d].contents) = env.size
  BY <1>1, <1>2, <1>3, <1>4, <1>5, Zenon DEF FileStep
<1>. QED
  BY <1>6 DEF FilesKeepTheirSize, Size

LEMMA StepInv ==
  ASSUME IInv, [Next]_vars
  PROVE  IInv'
<1>1. CASE UNCHANGED vars
  BY <1>1 DEF vars, IInv, TypeOK, AssertsHold, OffsetsGood, FilesKeepTheirSize, Size, Concrete,
              IsOpen
<1>2. CASE Shape
  <2>1. TableStep /\ FileStep /\ CounterStep /\ ok' \in BOOLEAN /\ env' = env
    BY <1>2 DEF Shape, CounterStep
  <2>2. fds' \in [Fd -> Entry] /\ Distinct' /\ OffsetsGood'
    BY <2>1, TableInv, OffsetsInv
  <2>3. disk' \in [Dfile -> DiskFile] /\ FilesKeepTheirSize'
    BY <2>1, FileInv
  <2>4. AssertsHold' /\ n_calls' \in [Kind -> Nat]
    BY <2>1 DEF CounterStep, AssertsHold
  <2>5. TypeOK'
    <3>1. env' \in Setups
      BY <2>1 DEF IInv, TypeOK
    <3>2. fds' \in [Fd -> [flags : SUBSET Flag, fd : Nat, off : Off, dfile : Dfile \cup {Null}]]
      BY <2>2, PosixFilesAssumption DEF Entry
    <3>3. \A df \in Dfile : /\ disk'[df].perms \subseteq Permission
                            /\ disk'[df].ino \in {0, 1} /\ disk'[df].own \in BOOLEAN
      BY <2>3 DEF DiskFile
    <3>4. /\ umask' \subseteq Permission /\ max_failures' \in 0 .. env'.failures
          /\ osFds' \in 3 .. MaxOs /\ duped' \in BOOLEAN /\ wrapped' \in BOOLEAN
          /\ calls' \in 0 .. env'.calls
          /\ crash' \in {"no", "offset", "write", "null", "overrun", "seek"}
      BY <2>1 DEF CounterStep
    <3>. QED
      BY <2>1, <3>1, <3>2, <3>3, <3>4 DEF TypeOK
  <2>. QED
    BY <2>2, <2>3, <2>4, <2>5 DEF IInv, Distinct
<1>. QED
  BY <1>1, <1>2, StepShape

LEMMA InitInv == Init => IInv
<1>. SUFFICES ASSUME Init PROVE IInv
  OBVIOUS
<1>0. /\ env \in Setups /\ env.failures \in Nat /\ env.calls \in Nat /\ env.size \in Nat
      /\ (env.stdin => Stdin \in Dfile) /\ (env.stdout => Stdout \in Dfile)
      /\ MaxOs \in Nat /\ MaxOs > 2 /\ MaxFds \in Nat /\ MaxFds > 2
  BY PosixFilesAssumption DEF Init
<1>. DEFINE in == IF env.stdin THEN Stdin ELSE Null
            out == IF env.stdout THEN Stdout ELSE Null
<1>. in \in Dfile \cup {Null} /\ out \in Dfile \cup {Null}
  BY <1>0
<1>. HIDE DEF in, out
<1>1. fds = [fd \in Fd |->
              CASE fd = 0 -> [Closed EXCEPT !.flags = {"eOpen"}, !.dfile = in]
                [] fd = 1 -> [Closed EXCEPT !.flags = {"eOpen"}, !.fd = 1, !.dfile = out]
                [] fd = 2 -> [Closed EXCEPT !.flags = {"eOpen"}, !.fd = 2]
                [] OTHER -> Closed]
  BY DEF Init, in, out
<1>2. ASSUME NEW fd \in Fd
      PROVE  /\ fds[fd] \in Entry /\ fds[fd].off = 0
             /\ IsOpen(fd) => fd < 3 /\ fds[fd].fd = fd
  <2>. {"eOpen"} \in SUBSET Flag /\ {} \in SUBSET Flag /\ fd \in Nat
    BY <1>0 DEF Flag, Fd
  <2>1. CASE fd = 0
    <3>1. fds[fd] = [Closed EXCEPT !.flags = {"eOpen"}, !.dfile = in]
      BY <1>1, <2>1
    <3>2. /\ [Closed EXCEPT !.flags = {"eOpen"}, !.dfile = in] \in Entry
          /\ [Closed EXCEPT !.flags = {"eOpen"}, !.dfile = in].fd = 0
          /\ [Closed EXCEPT !.flags = {"eOpen"}, !.dfile = in].off = 0
      <4>1. 1 \in 0 .. MaxOs /\ 2 \in 0 .. MaxOs
        BY <1>0
      <4>. QED
        BY <4>1, ClosedTyped, Zenon DEF Closed, Entry
    <3>. QED
      BY <2>1, <3>1, <3>2
  <2>2. CASE fd = 1
    <3>1. fds[fd] = [Closed EXCEPT !.flags = {"eOpen"}, !.fd = 1, !.dfile = out]
      BY <1>1, <2>2
    <3>2. /\ [Closed EXCEPT !.flags = {"eOpen"}, !.fd = 1, !.dfile = out] \in Entry
          /\ [Closed EXCEPT !.flags = {"eOpen"}, !.fd = 1, !.dfile = out].fd = 1
          /\ [Closed EXCEPT !.flags = {"eOpen"}, !.fd = 1, !.dfile = out].off = 0
      <4>1. 1 \in 0 .. MaxOs /\ 2 \in 0 .. MaxOs
        BY <1>0
      <4>. QED
        BY <4>1, ClosedTyped, Zenon DEF Closed, Entry
    <3>. QED
      BY <2>2, <3>1, <3>2
  <2>3. CASE fd = 2
    <3>1. fds[fd] = [Closed EXCEPT !.flags = {"eOpen"}, !.fd = 2]
      BY <1>1, <2>3
    <3>2. /\ [Closed EXCEPT !.flags = {"eOpen"}, !.fd = 2] \in Entry
          /\ [Closed EXCEPT !.flags = {"eOpen"}, !.fd = 2].fd = 2
          /\ [Closed EXCEPT !.flags = {"eOpen"}, !.fd = 2].off = 0
      <4>1. 1 \in 0 .. MaxOs /\ 2 \in 0 .. MaxOs
        BY <1>0
      <4>. QED
        BY <4>1, ClosedTyped, Zenon DEF Closed, Entry
    <3>. QED
      BY <2>3, <3>1, <3>2
  <2>4. CASE fd > 2
    BY <1>0, <1>1, <2>4, ClosedTyped DEF Closed, IsOpen
  <2>. QED
    BY <2>1, <2>2, <2>3, <2>4
<1>3. fds \in [Fd -> Entry]
  BY <1>1, <1>2
<1>4. Distinct
  <2>1. osFds = 3 /\ \A fd \in Fd : Concrete(fd) => fd < 3 /\ fds[fd].fd = fd
    BY <1>2 DEF Init, Concrete
  <2>. QED
    BY <2>1 DEF Distinct
<1>5. /\ disk \in [Dfile -> DiskFile]
      /\ \A df \in Dfile : Len(disk[df].contents) = env.size
  <2>1. ASSUME NEW f \in Disk(env.size) PROVE f \in DiskFile /\ Len(f.contents) = env.size
    <3>1. PICK bytes \in [1 .. env.size -> Byte], st \in Stats :
            f = [contents |-> bytes, ino |-> 1, perms |-> st.perms, type |-> st.type,
                 own |-> st.own]
      BY <2>1 DEF Disk
    <3>2. bytes \in Seq(Byte) /\ Len(bytes) = env.size
      BY <1>0, FunctionIsSeq
    <3>3. st.perms \in SUBSET Permission /\ st.own \in BOOLEAN
      BY PosixFilesAssumption DEF Permission
    <3>. QED
      BY <3>1, <3>2, <3>3 DEF DiskFile
  <2>. QED
    BY <2>1 DEF Init
<1>6. n_calls \in [Kind -> Nat] /\ AssertsHold /\ OffsetsGood /\ FilesKeepTheirSize
  BY <1>2, <1>5 DEF Init, AssertsHold, OffsetsGood, FilesKeepTheirSize, Size
<1>7. TypeOK
  <2>1. fds \in [Fd -> [flags : SUBSET Flag, fd : Nat, off : Off, dfile : Dfile \cup {Null}]]
    BY <1>0, <1>3 DEF Entry
  <2>2. \A df \in Dfile : /\ disk[df].perms \subseteq Permission
                          /\ disk[df].ino \in {0, 1} /\ disk[df].own \in BOOLEAN
    BY <1>5 DEF DiskFile
  <2>3. /\ umask \subseteq Permission /\ max_failures \in 0 .. env.failures
        /\ osFds \in 3 .. MaxOs /\ calls \in 0 .. env.calls
        /\ crash \in {"no", "offset", "write", "null", "overrun", "seek"}
    BY <1>0 DEF Init, Permission
  <2>4. duped \in BOOLEAN /\ wrapped \in BOOLEAN /\ ok \in BOOLEAN
    BY Zenon DEF Init
  <2>. QED
    BY <1>0, <2>1, <2>2, <2>3, <2>4 DEF TypeOK
<1>. QED
  BY <1>3, <1>4, <1>5, <1>6, <1>7 DEF IInv, Distinct

\* The inductive invariant holds of the files of fd.c after every sequence of
\* calls.
THEOREM Invariant == Spec => []IInv
<1>1. Init => IInv
  BY InitInv
<1>2. IInv /\ [Next]_vars => IInv'
  BY StepInv
<1>. QED
  BY <1>1, <1>2, PTL DEF Spec
-----------------------------------------------------------------------------
\* select: an entry that shares a descriptor of the system with one that was
\* asked for is that one.
LEMMA SelectSound == IInv => SelectAnswersRequest
<1>. SUFFICES ASSUME IInv, ~duped, NEW request \in SUBSET {fd \in Fd : IsOpen(fd)},
                     NEW ready \in SUBSET SelectOs(request), NEW fd \in SelectBack(request, ready)
              PROVE  fd \in request
  BY DEF SelectAnswersRequest
<1>1. CASE fd \in request
  BY <1>1
<1>2. CASE fd \in Fd /\ Concrete(fd) /\ fds[fd].fd \in ready
  <2>1. PICK d \in request : fds[d].dfile = Null /\ fds[d].fd = fds[fd].fd
    BY <1>2 DEF SelectOs
  <2>2. d \in Fd /\ Concrete(d)
    BY <2>1 DEF Concrete
  <2>. QED
    BY <1>2, <2>1, <2>2 DEF IInv
<1>. QED
  BY <1>1, <1>2 DEF SelectBack, Concrete

\* After every sequence of calls of fd.c the assert of read has failed only if
\* a write moved an offset past the largest off64_t, the files have their
\* size, and select answers about what was asked for unless a descriptor of
\* the system was duplicated.
THEOREM FilesAreSound == Spec => []FilesSound
<1>1. IInv => FilesSound
  BY SelectSound DEF IInv, FilesSound
<1>. QED
  BY <1>1, Invariant, PTL

\* A call of fd.c that fails leaves the open descriptors and the files alone.
THEOREM FailuresAreHarmless == Spec => FailedCallsChangeNothing
<1>. DEFINE A == ~ok' => /\ disk' = disk /\ umask' = umask
                         /\ \A fd \in Fd : IsOpen(fd) \/ "eOpen" \in fds'[fd].flags =>
                              fds'[fd] = fds[fd]
<1>1. IInv /\ [Next]_vars => [A]_vars
  <2>. SUFFICES ASSUME IInv, Next, ~(UNCHANGED vars), ~ok'
                PROVE  /\ disk' = disk /\ umask' = umask
                       /\ \A fd \in Fd : IsOpen(fd) \/ "eOpen" \in fds'[fd].flags =>
                            fds'[fd] = fds[fd]
    OBVIOUS
  <2>1. TableStep /\ FileStep /\ CounterStep
    BY StepShape DEF Shape
  <2>2. disk' = disk /\ umask' = umask
    BY <2>1 DEF FileStep, CounterStep
  <2>3. CASE Keeps
    BY <2>2, <2>3 DEF Keeps
  <2>4. CASE Opens
    <3>1. PICK e \in Entry : fds' = [fds EXCEPT ![NewFd] = e] /\ "eOpen" \notin e.flags
      BY <2>4, Zenon DEF Opens
    <3>2. NewFd \in Fd /\ ~IsOpen(NewFd)
      BY <2>4, NewFdFree DEF Opens, FreeFds, IsOpen
    <3>3. fds'[NewFd] = e /\ \A d \in Fd : d # NewFd => fds'[d] = fds[d]
      BY <3>1, <3>2 DEF IInv
    <3>. QED
      BY <2>2, <3>1, <3>2, <3>3
  <2>. QED
    BY <2>1, <2>3, <2>4 DEF TableStep, Moves, Marks, Closes, Copies
<1>. QED
  BY <1>1, Invariant, PTL DEF Spec, FailedCallsChangeNothing

\* After unlink or rmdir a file stays with those who have it open: open finds
\* only files with an inode, whoever has the file open, and what dup and dup2
\* copy is an open entry.
THEOREM UnlinkedStaysGone == Spec => UnlinkedIsGone
<1>. DEFINE Has(d, df) == IsOpen(d) /\ fds[d].dfile = df
            Kept(fd, df) == Has(fd, df) \/ \E old \in Fd : Has(old, df) /\ Dup2(old, fd)
            A == \A fd \in Fd :
                   "eOpen" \in fds'[fd].flags /\ fds'[fd].dfile \in ByPath
                     /\ disk[fds'[fd].dfile].ino = 0 => Kept(fd, fds'[fd].dfile)
<1>1. IInv /\ [Next]_vars => [A]_vars
  <2>. SUFFICES ASSUME IInv, Next, ~(UNCHANGED vars), NEW fd \in Fd,
                       "eOpen" \in fds'[fd].flags, fds'[fd].dfile \in ByPath,
                       disk[fds'[fd].dfile].ino = 0
                PROVE  Kept(fd, fds'[fd].dfile)
    BY Zenon
  <2>1. TableStep
    BY StepShape DEF Shape
  <2>2. fds'[fd].dfile # Null /\ fds \in [Fd -> Entry]
    BY PosixFilesAssumption DEF IInv
  <2>0. ASSUME fds'[fd] = fds[fd] PROVE Kept(fd, fds'[fd].dfile)
    BY <2>0 DEF IsOpen
  <2>3. CASE Keeps \/ Moves \/ Marks
    BY <2>3, SameEntries DEF IsOpen
  <2>4. CASE Opens
    <3>1. PICK e \in Entry : /\ fds' = [fds EXCEPT ![NewFd] = e]
                             /\ e.dfile # Null => disk[e.dfile].ino # 0
      BY <2>4, Zenon DEF Opens
    <3>2. fd # NewFd
      BY <2>2, <3>1
    <3>. QED
      BY <2>0, <2>2, <3>1, <3>2
  <2>5. CASE Closes
    <3>1. PICK d \in Fd : fds' = [fds EXCEPT ![d] = Closed]
      BY <2>5, Zenon DEF Closes
    <3>2. fd # d
      BY <2>2, <3>1 DEF Closed
    <3>. QED
      BY <2>0, <2>2, <3>1, <3>2
  <2>6. CASE Copies
    <3>1. PICK old \in Fd, new \in Fd :
            /\ IsOpen(old) /\ Dup2(old, new)
            /\ fds' = [fds EXCEPT ![new] = [fds[old] EXCEPT !.flags = @ \ {"eCloseOnExec"}]]
      BY <2>6, Zenon DEF Copies
    <3>2. CASE fd = new
      <4>1. fds'[fd].dfile = fds[old].dfile
        BY <2>2, <3>1, <3>2 DEF Entry
      <4>. QED
        BY <3>1, <3>2, <4>1, Zenon
    <3>3. CASE fd # new
      BY <2>0, <2>2, <3>1, <3>3
    <3>. QED
      BY <3>2, <3>3
  <2>. QED
    BY <2>1, <2>3, <2>4, <2>5, <2>6 DEF TableStep
<1>2. [][A]_vars => UnlinkedIsGone
  BY PTL DEF UnlinkedIsGone
<1>. QED
  BY <1>1, <1>2, Invariant, PTL DEF Spec
-----------------------------------------------------------------------------
(***************************************************************************)
(* The table of fd.c implements FileTable.                                 *)
(***************************************************************************)
\* What the descriptors refer to.
Named(fd) == IF IsOpen(fd) THEN <<fds[fd].dfile, fds[fd].fd>> ELSE <<>>
NamedTable == [fd \in Fd |-> Named(fd)]

LEMMA NamedTyped ==
  ASSUME IInv, NEW fd \in Fd
  PROVE  /\ IsOpen(fd) => Named(fd) \in File
         /\ Named(fd) = <<>> <=> ~IsOpen(fd)
<1>1. fds[fd].dfile \in Dfile \cup {Null} /\ fds[fd].fd \in 0 .. MaxOs
  BY DEF IInv, Entry
<1>2. <<fds[fd].dfile, fds[fd].fd>> # <<>>
  OBVIOUS
<1>. QED
  BY <1>1, <1>2 DEF Named, File

\* A step that changes one entry changes what one descriptor refers to.
LEMMA ChangedTable ==
  ASSUME IInv, IInv', NEW fd \in Fd, \A d \in Fd : d # fd => Named(d)' = Named(d)
  PROVE  NamedTable' = [NamedTable EXCEPT ![fd] = Named(fd)']
BY Zenon DEF NamedTable

LEMMA TableRefines ==
  ASSUME IInv, IInv', TableStep
  PROVE  Table!Next \/ NamedTable' = NamedTable
<1>0. fds \in [Fd -> Entry]
  BY DEF IInv
<1>1. CASE Keeps \/ Moves \/ Marks
  <2>1. \A d \in Fd : Named(d)' = Named(d)
    BY <1>1, SameEntries DEF Named
  <2>. QED
    BY <2>1 DEF NamedTable
<1>2. CASE Opens
  <2>1. PICK e \in Entry : fds' = [fds EXCEPT ![NewFd] = e]
    BY <1>2, Zenon DEF Opens
  <2>2. PICK new \in Fd : new = NewFd
    BY <1>2, NewFdFree DEF Opens
  <2>3. ~IsOpen(new) /\ \A d \in Fd : d < new => IsOpen(d)
    BY <1>2, <2>2, NewFdFree DEF Opens, FreeFds, IsOpen
  <2>4. \A d \in Fd : d # new => Named(d)' = Named(d)
    BY <2>1, <2>2, ChangedEntry, Zenon DEF Named
  <2>5. NamedTable' = [NamedTable EXCEPT ![new] = Named(new)']
    BY <2>4, ChangedTable
  <2>6. CASE IsOpen(new)'
    <3>1. PICK f \in File : f = Named(new)'
      <4>1. fds'[new] \in Entry
        BY DEF IInv
      <4>. QED
        BY <2>6, <4>1, Zenon DEF Named, File, Entry
    <3>2. Table!Lowest(new)
      BY <2>3, NamedTyped DEF Table!Lowest, Named
    <3>3. NamedTable' = [NamedTable EXCEPT ![new] = f]
      BY <2>5, <3>1
    <3>4. Table!Open(new)
      <4>1. NamedTable'[new] = f
        BY <3>1 DEF NamedTable
      <4>. QED
        BY <3>2, <3>3, <4>1 DEF Table!Open, NamedTable, Named
    <3>. QED
      BY <3>4 DEF Table!Next
  <2>7. CASE ~IsOpen(new)'
    <3>1. Named(new)' = Named(new)
      BY <2>3, <2>7 DEF Named
    <3>. QED
      BY <2>4, <3>1 DEF NamedTable
  <2>. QED
    BY <2>6, <2>7
<1>3. CASE Closes
  <2>1. PICK fd \in Fd : fds' = [fds EXCEPT ![fd] = Closed]
    BY <1>3, Zenon DEF Closes
  <2>2. ~IsOpen(fd)' /\ \A d \in Fd : d # fd => Named(d)' = Named(d)
    BY <2>1, ClosedTyped, ChangedEntry, Zenon DEF Named, Closed
  <2>3. NamedTable' = [NamedTable EXCEPT ![fd] = <<>>]
    BY <2>2, ChangedTable DEF Named
  <2>4. Table!Close(fd)
    BY <2>3 DEF Table!Close, NamedTable, Named
  <2>. QED
    BY <2>4 DEF Table!Next
<1>4. CASE Copies
  <2>1. PICK old \in Fd, new \in Fd :
          /\ IsOpen(old)
          /\ fds' = [fds EXCEPT ![new] = [fds[old] EXCEPT !.flags = @ \ {"eCloseOnExec"}]]
    BY <1>4, Zenon DEF Copies
  <2>. DEFINE e == [fds[old] EXCEPT !.flags = @ \ {"eCloseOnExec"}]
  <2>2. /\ e \in Entry /\ e.fd = fds[old].fd /\ e.dfile = fds[old].dfile
        /\ "eOpen" \in e.flags
    BY <1>0, <2>1 DEF Entry, IsOpen
  <2>3. fds' = [fds EXCEPT ![new] = e]
    BY <2>1
  <2>. HIDE DEF e
  <2>4. Named(new)' = Named(old) /\ \A d \in Fd : d # new => Named(d)' = Named(d)
    BY <2>1, <2>2, <2>3, ChangedEntry, Zenon DEF Named
  <2>5. NamedTable' = [NamedTable EXCEPT ![new] = NamedTable[old]]
    BY <2>4, ChangedTable DEF NamedTable
  <2>6. NamedTable[old] # <<>>
    BY <2>1, NamedTyped DEF NamedTable
  <2>7. Table!Duplicate(old, new)
    BY <2>5, <2>6 DEF Table!Duplicate, NamedTable, Named
  <2>. QED
    BY <2>7 DEF Table!Next
<1>. QED
  BY <1>1, <1>2, <1>3, <1>4 DEF TableStep

\* The table of descriptors behaves as a program may assume of its file
\* descriptors: opening takes the lowest closed one, dup copies an open one,
\* and a call changes one descriptor at most.
THEOREM ImplementsTable == Spec => TableSpec
<1>1. Init => Table!Init
  <2>. SUFFICES ASSUME Init PROVE Table!Init
    OBVIOUS
  <2>1. IInv
    BY InitInv
  <2>. QED
    BY <2>1, NamedTyped DEF Table!Init, Named
<1>2. IInv /\ IInv' /\ [Next]_vars => [Table!Next]_NamedTable
  <2>. SUFFICES ASSUME IInv, IInv', [Next]_vars PROVE Table!Next \/ NamedTable' = NamedTable
    OBVIOUS
  <2>1. CASE UNCHANGED vars
    BY <2>1 DEF vars, NamedTable, Named, IsOpen
  <2>2. CASE Next
    BY <2>1, <2>2, StepShape, TableRefines DEF Shape
  <2>. QED
    BY <2>1, <2>2
<1>. QED
  BY <1>1, <1>2, Invariant, PTL DEF Spec, TableSpec, Table!Spec, NamedTable, Named
=============================================================================
