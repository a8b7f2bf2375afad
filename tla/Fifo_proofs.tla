----------------------------- MODULE Fifo_proofs ----------------------------
(***************************************************************************)
(* For every len and every type of entry: the inductive invariant of the    *)
(* ring buffer, and that the ring implements a bounded queue; the same for  *)
(* the ring that also lends blocks of its buffer.                           *)
(***************************************************************************)
EXTENDS BlockFifo, SequenceTheorems, TLAPS

USE DEF Slots

-----------------------------------------------------------------------------
(* The arithmetic of the ring.                                             *)

(* Advancing an index gives another index of the buffer.                   *)
LEMMA AdvanceIsSlot ==
  ASSUME NEW i \in Slots
  PROVE  AdvanceIndex(i) \in Slots /\ AdvanceIndex(i) # i
BY FifoAssumption DEF AdvanceIndex

(* The number of entries is zero exactly when the indices meet, and len-1  *)
(* exactly when the write index is just behind the read index.             *)
LEMMA CountBounds ==
  ASSUME NEW r \in Slots, NEW w \in Slots
  PROVE  /\ ElementCount(r, w) \in 0..Size - 1
         /\ ElementCount(r, w) = 0 <=> r = w
         /\ ElementCount(r, w) = Size - 1 <=> AdvanceIndex(w) = r
BY FifoAssumption DEF AdvanceIndex, ElementCount

(* Publishing an entry counts one more, advancing the read index one less. *)
LEMMA CountSteps ==
  ASSUME NEW r \in Slots, NEW w \in Slots
  PROVE  /\ AdvanceIndex(w) # r => /\ ElementCount(r, AdvanceIndex(w)) = ElementCount(r, w) + 1
                                   /\ ElementCount(r, w) < Size - 1
         /\ r # w => /\ ElementCount(AdvanceIndex(r), w) = ElementCount(r, w) - 1
                     /\ ElementCount(r, w) > 0
BY FifoAssumption DEF AdvanceIndex, ElementCount

(* The entries between the indices are entries of the buffer other than the *)
(* one to be written next, which follows the last of them.                 *)
LEMMA EntryFacts ==
  ASSUME NEW r \in Slots, NEW w \in Slots
  PROVE  /\ \A k \in 0..ElementCount(r, w) - 1 : Entry(r, k) \in Slots /\ Entry(r, k) # w
         /\ Entry(r, ElementCount(r, w)) = w
         /\ Entry(r, 0) = r
         /\ \A k \in 0..Size - 2 : Entry(AdvanceIndex(r), k) = Entry(r, k + 1)
BY FifoAssumption DEF AdvanceIndex, ElementCount, Entry

-----------------------------------------------------------------------------
(* The invariant is inductive.                                             *)

(* Nothing is in the fifo at the beginning.                                *)
LEMMA InitInvariant == Init => Invariant
<1> SUFFICES ASSUME Init PROVE Invariant
  OBVIOUS
<1>1. TypeOK
  BY FifoAssumption DEF Init, TypeOK
<1>2. WriterKnows /\ ReaderKnows
  BY DEF Init, WriterKnows, ReaderKnows
<1>3. ContentsWritten
  BY FifoAssumption DEF Init, ContentsWritten, Contents, ElementCount
<1> QED
  BY <1>1, <1>2, <1>3 DEF Invariant

(* The entry at the read index is the head of the queue.                   *)
LEMMA HeadWritten ==
  ASSUME TypeOK, ContentsWritten, readX # writeX
  PROVE  buffer[readX] \in Values
<1>1. readX \in Slots /\ writeX \in Slots
  BY DEF TypeOK
<1>2. ElementCount(readX, writeX) \in 1..Size - 1
  BY <1>1, CountBounds, FifoAssumption
<1>3. 1 \in DOMAIN Contents /\ Contents[1] = buffer[Entry(readX, 0)]
  BY <1>2, FifoAssumption DEF Contents
<1> QED
  BY <1>1, <1>3, EntryFacts DEF ContentsWritten

(* Every step of the writer and of the reader preserves the types.         *)
LEMMA NextTypeOK == Invariant /\ [Next]_vars => TypeOK'
<1> SUFFICES ASSUME Invariant, [Next]_vars PROVE TypeOK'
  OBVIOUS
<1> USE FifoAssumption, AdvanceIsSlot DEF Invariant, TypeOK, writerVars, readerVars
<1>1. ASSUME NEW v \in Values, PutBegin(v) PROVE TypeOK'
  BY <1>1 DEF PutBegin
<1>2. CASE PutCheck
  BY <1>2 DEF PutCheck
<1>3. CASE WriteBegin
  BY <1>3 DEF WriteBegin
<1>4. CASE WriteEnd
  BY <1>4 DEF WriteEnd, WriterKnows
<1>5. CASE Publish
  BY <1>5 DEF Publish
<1>6. CASE GetCheck
  BY <1>6 DEF GetCheck
<1>7. CASE Read
  BY <1>7 DEF Read
<1>8. CASE Advance
  BY <1>8, HeadWritten DEF Advance, ReaderKnows
<1>9. CASE Clear
  BY <1>9 DEF Clear
<1>10. CASE UNCHANGED vars
  BY <1>10 DEF vars
<1> QED
  BY <1>1, <1>2, <1>3, <1>4, <1>5, <1>6, <1>7, <1>8, <1>9, <1>10 DEF Next, Writer, Reader

(* What each side knows survives its own steps and those of the other.     *)
LEMMA NextKnows == Invariant /\ [Next]_vars => WriterKnows' /\ ReaderKnows'
<1> SUFFICES ASSUME Invariant, [Next]_vars PROVE WriterKnows' /\ ReaderKnows'
  OBVIOUS
<1> USE FifoAssumption, AdvanceIsSlot
    DEF Invariant, TypeOK, WriterKnows, ReaderKnows, writerVars, readerVars
<1>1. ASSUME NEW v \in Values, PutBegin(v) PROVE WriterKnows' /\ ReaderKnows'
  BY <1>1 DEF PutBegin
<1>2. CASE PutCheck
  BY <1>2 DEF PutCheck
<1>3. CASE WriteBegin
  BY <1>3 DEF WriteBegin
<1>4. CASE WriteEnd
  BY <1>4 DEF WriteEnd
<1>5. CASE Publish
  BY <1>5 DEF Publish
<1>6. CASE GetCheck
  BY <1>6 DEF GetCheck
<1>7. CASE Read
  BY <1>7 DEF Read
<1>8. CASE Advance
  \* AdvanceIndex(writeX) # AdvanceIndex(readX): the indices differ
  BY <1>8 DEF Advance, AdvanceIndex
<1>9. CASE Clear
  BY <1>9 DEF Clear
<1>10. CASE UNCHANGED vars
  BY <1>10 DEF vars
<1> QED
  BY <1>1, <1>2, <1>3, <1>4, <1>5, <1>6, <1>7, <1>8, <1>9, <1>10 DEF Next, Writer, Reader

(* What lies between the indices stays completely written.                 *)
LEMMA NextContentsWritten == Invariant /\ [Next]_vars => ContentsWritten'
<1> SUFFICES ASSUME Invariant, [Next]_vars PROVE ContentsWritten'
  OBVIOUS
<1> DEFINE n == ElementCount(readX, writeX)
<1>1. /\ readX \in Slots /\ writeX \in Slots
      /\ buffer \in [Slots -> Values \cup {Garbage}]
  BY DEF Invariant, TypeOK
<1>2. n \in 0..Size - 1
  BY <1>1, CountBounds
<1>3. \A k \in 0..n - 1 : Entry(readX, k) \in Slots \ {writeX} /\ buffer[Entry(readX, k)] \in Values
  <2>1. \A k \in 1..n : buffer[Entry(readX, k - 1)] \in Values
    BY <1>2 DEF Invariant, ContentsWritten, Contents
  <2> QED
    BY <2>1, <1>1, <1>2, EntryFacts, FifoAssumption
<1>4. ASSUME NEW m \in 0..Size - 1, ElementCount(readX', writeX') = m,
             \A k \in 0..m - 1 : buffer'[Entry(readX', k)] \in Values
      PROVE  ContentsWritten'
  BY <1>4, FifoAssumption DEF ContentsWritten, Contents
<1>5. CASE readX' = readX /\ writeX' = writeX /\ buffer' = buffer
  BY <1>2, <1>3, <1>4, <1>5
<1>6. CASE WriteBegin \/ WriteEnd
  <2>1. \A i \in Slots \ {writeX} : buffer'[i] = buffer[i]
    BY <1>1, <1>6 DEF WriteBegin, WriteEnd
  <2> QED
    BY <1>2, <1>3, <1>4, <1>6, <2>1 DEF WriteBegin, WriteEnd
<1>7. CASE Publish
  <2>1. /\ index = AdvanceIndex(writeX) /\ index # readX
        /\ val \in Values /\ buffer[writeX] = val
    BY <1>7 DEF Publish, Invariant, WriterKnows
  <2>2. ElementCount(readX', writeX') = n + 1 /\ n + 1 \in 0..Size - 1
    <3>1. ElementCount(readX, AdvanceIndex(writeX)) = n + 1 /\ n < Size - 1
      BY <1>1, <2>1, CountSteps
    <3> QED
      BY <3>1, <1>2, <1>7, <2>1, FifoAssumption DEF Publish
  <2>3. Entry(readX, n) = writeX
    BY <1>1, EntryFacts
  <2>4. \A k \in 0..n : k \in 0..n - 1 \/ k = n
    BY <1>2
  <2> QED
    BY <1>2, <1>3, <1>4, <1>7, <2>1, <2>2, <2>3, <2>4 DEF Publish
<1>8. CASE Advance
  <2>1. readX # writeX
    BY <1>8 DEF Advance, Invariant, ReaderKnows
  <2>2. ElementCount(readX', writeX') = n - 1 /\ n - 1 \in 0..Size - 2
    <3>1. ElementCount(AdvanceIndex(readX), writeX) = n - 1 /\ n > 0
      BY <1>1, <2>1, CountSteps
    <3> QED
      BY <3>1, <1>2, <1>8, FifoAssumption DEF Advance
  <2>3. \A k \in 0..n - 2 : Entry(readX', k) = Entry(readX, k + 1)
    BY <1>1, <1>2, <1>8, EntryFacts, FifoAssumption DEF Advance
  <2> QED
    BY <1>2, <1>3, <1>4, <1>8, <2>2, <2>3, FifoAssumption DEF Advance
<1>9. CASE Clear
  <2>1. ElementCount(readX', writeX') = 0
    BY <1>9, FifoAssumption DEF Clear, ElementCount
  <2> QED
    BY <1>4, <2>1, FifoAssumption
<1>10. CASE GetCheck \/ Read \/ PutCheck \/ UNCHANGED vars \/ (\E v \in Values : PutBegin(v))
  BY <1>5, <1>10 DEF GetCheck, Read, PutCheck, PutBegin, vars
<1> QED
  BY <1>6, <1>7, <1>8, <1>9, <1>10 DEF Next, Writer, Reader

(* The inductive invariant of put, get and clear: nothing between the       *)
(* indices is half written, and a test of the other side's index stays     *)
(* true until the step that relies on it.                                  *)
THEOREM InvariantHolds == Spec => []Invariant
<1>1. Invariant /\ [Next]_vars => Invariant'
  BY NextTypeOK, NextKnows, NextContentsWritten DEF Invariant
<1> QED
  BY InitInvariant, <1>1, PTL DEF Spec

(* Type correctness: in particular get never delivers an entry that was    *)
(* not, or not completely, written by put.                                 *)
THEOREM TypeCorrect == Spec => []TypeOK
<1>1. Invariant => TypeOK
  BY DEF Invariant
<1> QED
  BY InvariantHolds, <1>1, PTL

(* put never writes the entry that get is reading, without any lock.       *)
THEOREM EntriesNotShared == Spec => []NoSharedEntry
<1>1. Invariant => NoSharedEntry
  BY DEF Invariant, ReaderKnows, NoSharedEntry
<1> QED
  BY InvariantHolds, <1>1, PTL

-----------------------------------------------------------------------------
(* The ring implements the queue.                                          *)

(* Append and Tail as functions.                                           *)
LEMMA AppendAsFunction ==
  ASSUME NEW S, NEW s \in Seq(S), NEW v \in S
  PROVE  Append(s, v) = [k \in 1..Len(s) + 1 |-> IF k = Len(s) + 1 THEN v ELSE s[k]]
<1>1. /\ Append(s, v) \in Seq(S) /\ Len(Append(s, v)) = Len(s) + 1
      /\ \A k \in 1..Len(s) : Append(s, v)[k] = s[k]
      /\ Append(s, v)[Len(s) + 1] = v
  BY AppendProperties
<1>2. Append(s, v) \in [1..Len(s) + 1 -> S]
  BY <1>1, LenProperties
<1>3. \A k \in 1..Len(s) + 1 : k = Len(s) + 1 \/ k \in 1..Len(s)
  BY LenProperties
<1> QED
  BY <1>1, <1>2, <1>3

LEMMA TailAsFunction ==
  ASSUME NEW S, NEW s \in Seq(S), s # <<>>
  PROVE  Tail(s) = [k \in 1..Len(s) - 1 |-> s[k + 1]]
<1>1. /\ Tail(s) \in Seq(S) /\ Len(Tail(s)) = Len(s) - 1
      /\ \A k \in 1..Len(s) - 1 : Tail(s)[k] = s[k + 1]
  BY HeadTailProperties
<1>2. Tail(s) \in [1..Len(s) - 1 -> S]
  BY <1>1, LenProperties
<1> QED
  BY <1>1, <1>2

(* The contents are a sequence of values, as long as getElementCount says. *)
LEMMA ContentsSequence ==
  ASSUME Invariant
  PROVE  /\ Contents \in Seq(Values)
         /\ Len(Contents) = ElementCount(readX, writeX)
         /\ ElementCount(readX, writeX) \in 0..Size - 1
<1>1. ElementCount(readX, writeX) \in 0..Size - 1
  BY CountBounds DEF Invariant, TypeOK
<1>2. /\ DOMAIN Contents = 1..ElementCount(readX, writeX)
      /\ \A k \in 1..ElementCount(readX, writeX) : Contents[k] \in Values
  BY DEF Contents, Invariant, ContentsWritten
<1>3. Contents \in [1..ElementCount(readX, writeX) -> Values]
  BY <1>2 DEF Contents
<1> QED
  BY <1>1, <1>3, FifoAssumption

(* Steps that leave the indices and the entries between them alone.        *)
LEMMA ContentsUnchanged ==
  ASSUME Invariant, readX' = readX, writeX' = writeX,
         \A i \in Slots \ {writeX} : buffer'[i] = buffer[i]
  PROVE  Contents' = Contents
<1> DEFINE n == ElementCount(readX, writeX)
<1>1. readX \in Slots /\ writeX \in Slots
  BY DEF Invariant, TypeOK
<1>2. n \in 0..Size - 1
  BY <1>1, CountBounds
<1>3. \A k \in 1..n : Entry(readX, k - 1) \in Slots \ {writeX}
  BY <1>1, <1>2, EntryFacts, FifoAssumption
<1> QED
  BY <1>3 DEF Contents

(* Storing writeX appends the value to the queue.                          *)
LEMMA PublishAppends ==
  ASSUME Invariant, Publish
  PROVE  Len(Contents) < Size - 1 /\ Contents' = Append(Contents, val)
<1> DEFINE n == ElementCount(readX, writeX)
<1>1. /\ readX \in Slots /\ writeX \in Slots
      /\ index = AdvanceIndex(writeX) /\ index # readX
      /\ val \in Values /\ buffer[writeX] = val
  BY DEF Invariant, TypeOK, Publish, WriterKnows
<1>2. ElementCount(readX, AdvanceIndex(writeX)) = n + 1 /\ n < Size - 1
  BY <1>1, CountSteps
<1>3. Contents \in Seq(Values) /\ Len(Contents) = n /\ n \in 0..Size - 1
  BY ContentsSequence
<1>4. Contents' = [k \in 1..n + 1 |-> buffer[Entry(readX, k - 1)]]
  BY <1>1, <1>2 DEF Publish, Contents
<1>5. \A k \in 1..n : Contents[k] = buffer[Entry(readX, k - 1)]
  BY DEF Contents
<1>6. buffer[Entry(readX, (n + 1) - 1)] = val
  BY <1>1, <1>3, EntryFacts, FifoAssumption
<1>7. Append(Contents, val) = [k \in 1..n + 1 |-> IF k = n + 1 THEN val ELSE Contents[k]]
  BY <1>1, <1>3, AppendAsFunction
<1>8. \A k \in 1..n + 1 : buffer[Entry(readX, k - 1)] = IF k = n + 1 THEN val ELSE Contents[k]
  <2>1. \A k \in 1..n + 1 : k = n + 1 \/ k \in 1..n
    BY <1>3, FifoAssumption
  <2> QED
    BY <2>1, <1>5, <1>6
<1> QED
  BY <1>2, <1>3, <1>4, <1>7, <1>8

(* Storing readX takes the head off the queue, and it is what was copied.  *)
LEMMA AdvanceTakesHead ==
  ASSUME Invariant, Advance
  PROVE  /\ Contents # <<>>
         /\ copy = Head(Contents)
         /\ Contents' = Tail(Contents)
<1> DEFINE n == ElementCount(readX, writeX)
<1>1. /\ readX \in Slots /\ writeX \in Slots
      /\ readX # writeX /\ copy = buffer[readX]
  BY DEF Invariant, TypeOK, Advance, ReaderKnows
<1>2. ElementCount(AdvanceIndex(readX), writeX) = n - 1 /\ n > 0
  BY <1>1, CountSteps
<1>3. Contents \in Seq(Values) /\ Len(Contents) = n /\ n \in 0..Size - 1
  BY ContentsSequence
<1>4. \A k \in 1..n : Contents[k] = buffer[Entry(readX, k - 1)]
  BY DEF Contents
<1>5. copy = Contents[1]
  BY <1>1, <1>2, <1>3, <1>4, EntryFacts, FifoAssumption
<1>6. Contents' = [k \in 1..n - 1 |-> buffer[Entry(AdvanceIndex(readX), k - 1)]]
  BY <1>2 DEF Advance, Contents
<1>7. \A k \in 1..n - 1 : buffer[Entry(AdvanceIndex(readX), k - 1)] = Contents[k + 1]
  <2>1. \A k \in 1..n - 1 : /\ k - 1 \in 0..Size - 2 /\ (k - 1) + 1 = k
                           /\ k + 1 \in 1..n /\ (k + 1) - 1 = k
    BY <1>3, FifoAssumption
  <2>2. \A k \in 1..n - 1 : Entry(AdvanceIndex(readX), k - 1) = Entry(readX, k)
    BY <1>1, <2>1, EntryFacts
  <2> QED
    BY <2>1, <2>2, <1>4
<1>8. Tail(Contents) = [k \in 1..n - 1 |-> Contents[k + 1]]
  BY <1>2, <1>3, TailAsFunction
<1> QED
  BY <1>2, <1>3, <1>5, <1>6, <1>7, <1>8

(* The initial contents are the initial queue.                             *)
LEMMA InitIsQueue == Init => Queue!Init
<1> SUFFICES ASSUME Init PROVE Queue!Init
  OBVIOUS
<1>1. Invariant /\ ElementCount(readX, writeX) = 0
  BY InitInvariant, FifoAssumption DEF Init, ElementCount
<1> QED
  BY <1>1, ContentsSequence DEF Init, Queue!Init

(* Every step is a step of the queue or leaves it alone.                   *)
LEMMA NextIsQueue == Invariant /\ [Next]_vars => [Queue!Next]_(Queue!vars)
<1> SUFFICES ASSUME Invariant, [Next]_vars PROVE [Queue!Next]_(Queue!vars)
  OBVIOUS
<1>1. /\ readX \in Slots /\ writeX \in Slots /\ index \in Slots
      /\ buffer \in [Slots -> Values \cup {Garbage}]
  BY DEF Invariant, TypeOK
<1>2. /\ Contents \in Seq(Values)
      /\ Len(Contents) = ElementCount(readX, writeX)
  BY ContentsSequence
<1>3. ASSUME readX' = readX, writeX' = writeX, buffer' = buffer PROVE Contents' = Contents
  BY <1>3 DEF Contents
<1>4. ASSUME NEW v \in Values, PutBegin(v) PROVE UNCHANGED Queue!vars
  BY <1>3, <1>4 DEF PutBegin, Queue!vars
<1>5. ASSUME PutCheck PROVE [Queue!Next]_(Queue!vars)
  <2>1. Contents' = Contents
    BY <1>3, <1>5 DEF PutCheck
  <2>2. CASE index # readX
    BY <1>5, <2>1, <2>2 DEF PutCheck, Queue!vars
  <2>3. CASE index = readX
    <3>1. Len(Contents) = Size - 1
      BY <1>1, <1>2, <1>5, <2>3, CountBounds DEF PutCheck, Invariant, WriterKnows
    <3> QED
      BY <1>5, <2>1, <2>3, <3>1 DEF PutCheck, Queue!PutRefused, Queue!Next
  <2> QED
    BY <2>2, <2>3
<1>6. ASSUME WriteBegin \/ WriteEnd PROVE UNCHANGED Queue!vars
  <2>1. \A i \in Slots \ {writeX} : buffer'[i] = buffer[i]
    BY <1>1, <1>6 DEF WriteBegin, WriteEnd
  <2>2. Contents' = Contents
    BY <1>6, <2>1, ContentsUnchanged DEF WriteBegin, WriteEnd
  <2> QED
    BY <1>6, <2>2 DEF WriteBegin, WriteEnd, Queue!vars
<1>7. ASSUME Publish PROVE Queue!Next
  <2>1. val \in Values
    BY <1>7 DEF Publish, Invariant, WriterKnows
  <2>2. Queue!Put(val)
    BY <1>7, PublishAppends DEF Publish, Queue!Put
  <2> QED
    BY <2>1, <2>2 DEF Queue!Next
<1>8. ASSUME GetCheck PROVE [Queue!Next]_(Queue!vars)
  <2>1. Contents' = Contents
    BY <1>3, <1>8 DEF GetCheck
  <2>2. CASE readX # writeX
    BY <1>8, <2>1, <2>2 DEF GetCheck, Queue!vars
  <2>3. CASE readX = writeX
    <3>1. Contents = <<>>
      BY <1>1, <1>2, <2>3, CountBounds
    <3> QED
      BY <1>8, <2>1, <2>3, <3>1 DEF GetCheck, Queue!GetRefused, Queue!Next
  <2> QED
    BY <2>2, <2>3
<1>9. ASSUME Read PROVE UNCHANGED Queue!vars
  BY <1>3, <1>9 DEF Read, Queue!vars
<1>10. ASSUME Advance PROVE Queue!Next
  BY <1>10, AdvanceTakesHead DEF Advance, Queue!Get, Queue!Next
<1>11. ASSUME Clear PROVE Queue!Next
  <2>1. Contents' = <<>>
    BY <1>11 DEF Clear, Contents, ElementCount
  <2> QED
    BY <1>11, <2>1 DEF Clear, Queue!Clear, Queue!Next
<1>12. ASSUME UNCHANGED vars PROVE UNCHANGED Queue!vars
  BY <1>3, <1>12 DEF vars, Queue!vars
<1> QED
  BY <1>4, <1>5, <1>6, <1>7, <1>8, <1>9, <1>10, <1>11, <1>12 DEF Next, Writer, Reader

(* The lock-free ring is a bounded queue with atomic operations: every put *)
(* takes effect when it stores writeX, every get when it stores readX, and *)
(* a refusal is justified at the moment of the test.                       *)
THEOREM RingImplementsQueue == Spec => QueueSpec
BY InitIsQueue, NextIsQueue, InvariantHolds, PTL DEF Spec, QueueSpec, Queue!Spec

-----------------------------------------------------------------------------
(* Blocks.                                                                 *)

(* Concluding a block within the buffer wraps at most once.                *)
LEMMA AdvanceExIs ==
  ASSUME NEW i \in Slots, NEW n \in Nat, n <= Size - i
  PROVE  AdvanceIndexEx(i, n) = IF i + n < Size THEN i + n ELSE 0
<1>1. CASE i + n < Size
  BY <1>1, FifoAssumption DEF AdvanceIndexEx
<1>2. CASE i + n = Size
  BY <1>2, FifoAssumption DEF AdvanceIndexEx
<1> QED
  BY <1>1, <1>2, FifoAssumption

(* A block for the writer lies behind the last entry of the queue, and     *)
(* concluding n entries of it makes the queue n longer.                    *)
LEMMA WriteBlockFacts ==
  ASSUME NEW r \in Slots, NEW w \in Slots, NEW n \in Nat,
         n <= Size - w, n <= Size - 1 - ElementCount(r, w)
  PROVE  /\ AdvanceIndexEx(w, n) \in Slots
         /\ ElementCount(r, AdvanceIndexEx(w, n)) = ElementCount(r, w) + n
         /\ \A j \in 0..n - 1 : /\ w + j \in Slots
                                /\ Entry(r, ElementCount(r, w) + j) = w + j
<1>1. AdvanceIndexEx(w, n) = IF w + n < Size THEN w + n ELSE 0
  BY AdvanceExIs
<1> QED
  BY <1>1, FifoAssumption DEF ElementCount, Entry

(* None of its entries belongs to the queue.                               *)
LEMMA FreeEntry ==
  ASSUME NEW r \in Slots, NEW w \in Slots, NEW j \in Nat,
         w + j < Size, j < Size - 1 - ElementCount(r, w)
  PROVE  \A k \in 0..ElementCount(r, w) - 1 : Entry(r, k) # w + j
BY FifoAssumption DEF ElementCount, Entry

(* A block for the reader is the beginning of the queue, and concluding n  *)
(* entries of it takes them off.                                           *)
LEMMA ReadBlockFacts ==
  ASSUME NEW r \in Slots, NEW w \in Slots, NEW n \in Nat,
         n <= Size - r, n <= ElementCount(r, w)
  PROVE  /\ AdvanceIndexEx(r, n) \in Slots
         /\ ElementCount(AdvanceIndexEx(r, n), w) = ElementCount(r, w) - n
         /\ \A k \in 0..n - 1 : Entry(r, k) = r + k /\ r + k \in Slots
         /\ \A k \in 0..ElementCount(r, w) - n - 1 :
              Entry(AdvanceIndexEx(r, n), k) = Entry(r, k + n)
<1>1. AdvanceIndexEx(r, n) = IF r + n < Size THEN r + n ELSE 0
  BY AdvanceExIs
<1> QED
  BY <1>1, FifoAssumption DEF ElementCount, Entry

(* What getBufferToWrite and getBufferToRead return.                       *)
LEMMA BlockLengths ==
  ASSUME NEW r \in Slots, NEW w \in Slots
  PROVE  /\ AdvanceIndex(w) # r => /\ Room(r, w) \in 0..Size - w
                                   /\ Room(r, w) <= Size - 1 - ElementCount(r, w)
         /\ r # w => /\ Available(r, w) \in 0..Size - r
                     /\ Available(r, w) <= ElementCount(r, w)
<1>1. ASSUME AdvanceIndex(w) # r
      PROVE  Room(r, w) \in 0..Size - w /\ Room(r, w) <= Size - 1 - ElementCount(r, w)
  <2>1. CASE r > w
    BY <1>1, <2>1, FifoAssumption DEF Room, ElementCount, AdvanceIndex
  <2>2. CASE ~(r > w) /\ r = 0
    BY <1>1, <2>2, FifoAssumption DEF Room, ElementCount, AdvanceIndex
  <2>3. CASE ~(r > w) /\ r # 0
    BY <1>1, <2>3, FifoAssumption DEF Room, ElementCount, AdvanceIndex
  <2> QED
    BY <2>1, <2>2, <2>3
<1> QED
  BY <1>1, FifoAssumption DEF Available, ElementCount

(* The block of the writer: free entries, of which the first are written.  *)
WriteBlock ==
  /\ room \in 0..Size - writeX /\ written \in 0..room /\ filling \in BOOLEAN
  /\ room > 0 => wpc = "idle"
  /\ room <= Size - 1 - ElementCount(readX, writeX)
  /\ filling => written < room
  /\ \A k \in 0..written - 1 : buffer[writeX + k] \in Values

(* The block of the reader: entries of the queue, of which the first are   *)
(* taken.                                                                  *)
ReadBlock ==
  /\ avail \in 0..Size - readX
  /\ avail > 0 => rpc = "idle"
  /\ avail <= ElementCount(readX, writeX)
  /\ taken \in Seq(Values) /\ Len(taken) <= avail
  /\ \A k \in 1..Len(taken) : taken[k] = buffer[readX + k - 1]

BlockInvariant == Invariant /\ WriteBlock /\ ReadBlock

(* A step of the writer's block leaves the entries of the queue alone, and *)
(* so the block and the copy of the reader.                                *)
LEMMA FillKeeps ==
  ASSUME BlockInvariant, FillBegin \/ (\E v \in Values : FillEnd(v))
  PROVE  /\ writeX + written \in Slots /\ written < room
         /\ \A i \in Slots \ {writeX + written} : buffer'[i] = buffer[i]
         /\ buffer'[writeX + written] \in Values \cup {Garbage}
         /\ buffer' \in [Slots -> Values \cup {Garbage}]
         /\ Contents' = Contents
<1>1. /\ readX \in Slots /\ writeX \in Slots
      /\ buffer \in [Slots -> Values \cup {Garbage}]
  BY DEF BlockInvariant, Invariant, TypeOK
<1>2. written \in 0..room /\ room \in Nat /\ written < room /\ room <= Size - writeX
  BY <1>1, FifoAssumption DEF BlockInvariant, WriteBlock, FillBegin, FillEnd
<1>3. writeX + written \in Slots
  BY <1>1, <1>2, FifoAssumption
<1>4. /\ \A i \in Slots \ {writeX + written} : buffer'[i] = buffer[i]
      /\ buffer'[writeX + written] \in Values \cup {Garbage}
      /\ buffer' \in [Slots -> Values \cup {Garbage}]
  BY <1>1, <1>3 DEF FillBegin, FillEnd
<1>5. Contents' = Contents
  <2> DEFINE n == ElementCount(readX, writeX)
  <2>1. n \in 0..Size - 1
    BY <1>1, CountBounds
  <2>2. \A k \in 0..n - 1 : Entry(readX, k) \in Slots
    BY <1>1, EntryFacts
  <2>3. room <= Size - 1 - n
    BY DEF BlockInvariant, WriteBlock
  <2>4. \A k \in 0..n - 1 : Entry(readX, k) # writeX + written
    <3>1. written \in Nat /\ writeX + written < Size /\ written < Size - 1 - n
      BY <1>1, <1>2, <2>1, <2>3, FifoAssumption
    <3> QED
      BY <1>1, <3>1, FreeEntry
  <2>5. \A k \in 1..n : k - 1 \in 0..n - 1
    BY <2>1, FifoAssumption
  <2>6. readX' = readX /\ writeX' = writeX
    BY DEF FillBegin, FillEnd
  <2> QED
    BY <1>4, <2>2, <2>4, <2>5, <2>6 DEF Contents
<1> QED
  BY <1>2, <1>3, <1>4, <1>5

(* Filling the block.                                                      *)
LEMMA FillStep ==
  ASSUME BlockInvariant, FillBegin \/ (\E v \in Values : FillEnd(v))
  PROVE  BlockInvariant'
<1> DEFINE n == ElementCount(readX, writeX)
<1>1. /\ readX \in Slots /\ writeX \in Slots /\ n \in 0..Size - 1
      /\ buffer \in [Slots -> Values \cup {Garbage}]
  BY CountBounds DEF BlockInvariant, Invariant, TypeOK
<1>2. /\ UNCHANGED <<writeX, readX, writerVars, readerVars, accepted, received, room, avail, taken>>
      /\ FillBegin => filling' = TRUE /\ written' = written
      /\ ~FillBegin => /\ filling' = FALSE /\ written' = written + 1
                       /\ buffer'[writeX + written] \in Values
  <2>1. writeX + written \in Slots
    BY FillKeeps
  <2> QED
    BY <1>1, <2>1 DEF FillBegin, FillEnd
<1>3. /\ room \in Nat /\ room <= Size - writeX /\ written \in Nat /\ written < room
      /\ wpc = "idle" /\ room <= Size - 1 - n
      /\ \A k \in 0..written - 1 : buffer[writeX + k] \in Values
  BY <1>1, FillKeeps, FifoAssumption DEF BlockInvariant, WriteBlock
<1>4. /\ writeX + written \in Slots
      /\ \A i \in Slots \ {writeX + written} : buffer'[i] = buffer[i]
      /\ buffer' \in [Slots -> Values \cup {Garbage}]
      /\ Contents' = Contents
  BY FillKeeps
<1>5. \A k \in 0..n - 1 : buffer'[Entry(readX, k)] = buffer[Entry(readX, k)]
  <2>1. \A k \in 0..n - 1 : Entry(readX, k) \in Slots
    BY <1>1, EntryFacts
  <2>2. \A k \in 0..n - 1 : Entry(readX, k) # writeX + written
    <3>1. written \in Nat /\ writeX + written < Size /\ written < Size - 1 - n
      BY <1>1, <1>3, FifoAssumption
    <3> QED
      BY <1>1, <3>1, FreeEntry
  <2> QED
    BY <1>4, <2>1, <2>2
<1>6. TypeOK'
  BY <1>1, <1>2, <1>4 DEF BlockInvariant, Invariant, TypeOK, writerVars, readerVars
<1>7. WriterKnows'
  BY <1>2, <1>3 DEF WriterKnows, writerVars
<1>8. ReaderKnows'
  <2>1. CASE rpc = "advance"
    <3>1. readX # writeX /\ copy = buffer[readX]
      BY <2>1 DEF BlockInvariant, Invariant, ReaderKnows
    <3>2. 0 \in 0..n - 1 /\ Entry(readX, 0) = readX
      BY <1>1, <3>1, CountBounds, EntryFacts
    <3> QED
      BY <1>2, <1>5, <2>1, <3>1, <3>2 DEF ReaderKnows, readerVars
  <2> QED
    BY <1>2, <2>1 DEF BlockInvariant, Invariant, ReaderKnows, readerVars
<1>9. ContentsWritten'
  BY <1>4 DEF BlockInvariant, Invariant, ContentsWritten
<1>10. WriteBlock'
  <2>1. \A k \in 0..written - 1 : writeX + k \in Slots \ {writeX + written}
    BY <1>1, <1>3, FifoAssumption
  <2>2. \A k \in 0..written - 1 : buffer'[writeX + k] \in Values
    BY <1>3, <1>4, <2>1
  <2>3. \A k \in 0..written' - 1 : buffer'[writeX + k] \in Values
    <3>1. CASE FillBegin
      BY <1>2, <2>2, <3>1
    <3>2. CASE ~FillBegin
      <4>1. \A k \in 0..written' - 1 : k \in 0..written - 1 \/ k = written
        BY <1>2, <1>3, <3>2
      <4> QED
        BY <1>2, <2>2, <3>2, <4>1
    <3> QED
      BY <3>1, <3>2
  <2>4. written' \in 0..room /\ filling' \in BOOLEAN /\ (filling' => written' < room)
    <3>1. CASE FillBegin
      BY <1>2, <1>3, <3>1
    <3>2. CASE ~FillBegin
      <4>1. filling' = FALSE /\ written' = written + 1
        BY <1>2, <3>2
      <4>2. written + 1 \in 0..room
        BY <1>3
      <4> QED
        BY <4>1, <4>2
    <3> QED
      BY <3>1, <3>2
  <2>5. room \in 0..Size - writeX
    BY <1>1, <1>3, FifoAssumption
  <2> QED
    BY <1>2, <1>3, <2>3, <2>4, <2>5 DEF WriteBlock, writerVars
<1>11. ReadBlock'
  <2>1. /\ avail \in 0..Size - readX /\ (avail > 0 => rpc = "idle") /\ avail <= n
        /\ taken \in Seq(Values) /\ Len(taken) <= avail
        /\ \A k \in 1..Len(taken) : taken[k] = buffer[readX + k - 1]
    BY DEF BlockInvariant, ReadBlock
  <2>2. \A k \in 1..Len(taken) : /\ k - 1 \in 0..n - 1 /\ k - 1 \in 0..avail - 1
                                /\ readX + (k - 1) = readX + k - 1
    BY <1>1, <2>1, FifoAssumption
  <2>3. \A k \in 1..Len(taken) : Entry(readX, k - 1) = readX + k - 1
    BY <1>1, <2>1, <2>2, ReadBlockFacts, FifoAssumption
  <2>4. \A k \in 1..Len(taken) : taken[k] = buffer'[readX + k - 1]
    BY <1>5, <2>1, <2>2, <2>3
  <2> QED
    BY <1>2, <2>1, <2>4 DEF ReadBlock, readerVars
<1> QED
  BY <1>6, <1>7, <1>8, <1>9, <1>10, <1>11 DEF BlockInvariant, Invariant

(* Lending a block, and copying an entry out of one.                       *)
LEMMA LendStep ==
  ASSUME BlockInvariant, GetBufferToWrite \/ GetBufferToRead \/ TakeEntry
  PROVE  BlockInvariant' /\ Contents' = Contents
<1> DEFINE n == ElementCount(readX, writeX)
<1>1. /\ readX \in Slots /\ writeX \in Slots /\ n \in 0..Size - 1
      /\ buffer \in [Slots -> Values \cup {Garbage}]
  BY CountBounds DEF BlockInvariant, Invariant, TypeOK
<1>2. UNCHANGED <<buffer, writeX, readX, writerVars, readerVars, written, filling>>
  BY DEF GetBufferToWrite, GetBufferToRead, TakeEntry
<1>3. Contents' = Contents
  BY <1>2 DEF Contents
<1>4. Invariant'
  <2>1. accepted' \in BOOLEAN /\ received' \in Values \cup {Refused}
    BY DEF GetBufferToWrite, GetBufferToRead, TakeEntry, BlockInvariant, Invariant, TypeOK
  <2> QED
    BY <1>2, <1>3, <2>1 DEF BlockInvariant, Invariant, TypeOK, WriterKnows, ReaderKnows,
                            ContentsWritten, writerVars, readerVars
<1>5. CASE GetBufferToWrite
  <2>1. room' = room \/ (room = 0 /\ AdvanceIndex(writeX) # readX /\ room' = Room(readX, writeX))
    BY <1>5 DEF GetBufferToWrite
  <2>2. /\ room' \in 0..Size - writeX /\ room' <= Size - 1 - n
        /\ written \in 0..room' /\ (filling => written < room')
    <3>1. /\ room \in 0..Size - writeX /\ room <= Size - 1 - n
          /\ written \in 0..room /\ (filling => written < room)
      BY DEF BlockInvariant, WriteBlock
    <3>2. CASE room' = room
      BY <3>1, <3>2
    <3>3. CASE room = 0 /\ room' \in 0..Size - writeX /\ room' <= Size - 1 - n
      <4>1. written = 0 /\ ~filling
        BY <3>1, <3>3
      <4>2. 0 \in 0..room'
        BY <1>1, <3>3, FifoAssumption
      <4> QED
        BY <3>3, <4>1, <4>2
    <3>4. AdvanceIndex(writeX) # readX =>
            Room(readX, writeX) \in 0..Size - writeX /\ Room(readX, writeX) <= Size - 1 - n
      BY <1>1, BlockLengths
    <3> QED
      BY <2>1, <3>2, <3>3, <3>4
  <2>3. WriteBlock'
    BY <1>2, <1>5, <2>2 DEF BlockInvariant, WriteBlock, GetBufferToWrite, writerVars
  <2>4. ReadBlock'
    BY <1>5 DEF BlockInvariant, ReadBlock, GetBufferToWrite, readerVars
  <2> QED
    BY <1>3, <1>4, <2>3, <2>4 DEF BlockInvariant
<1>6. CASE GetBufferToRead
  <2>1. avail' = avail \/ (avail = 0 /\ readX # writeX /\ avail' = Available(readX, writeX))
    BY <1>6 DEF GetBufferToRead
  <2>2. /\ avail' \in 0..Size - readX /\ avail' <= n
        /\ taken \in Seq(Values) /\ Len(taken) <= avail'
    <3>1. /\ avail \in 0..Size - readX /\ avail <= n
          /\ taken \in Seq(Values) /\ Len(taken) <= avail
      BY DEF BlockInvariant, ReadBlock
    <3>2. CASE avail' = avail
      BY <3>1, <3>2
    <3>3. CASE avail = 0 /\ avail' \in 0..Size - readX /\ avail' <= n
      BY <1>1, <3>1, <3>3, FifoAssumption
    <3>4. readX # writeX => Available(readX, writeX) \in 0..Size - readX /\ Available(readX, writeX) <= n
      BY <1>1, BlockLengths
    <3> QED
      BY <2>1, <3>2, <3>3, <3>4
  <2>3. ReadBlock'
    BY <1>2, <1>6, <2>2 DEF BlockInvariant, ReadBlock, GetBufferToRead, readerVars
  <2>4. WriteBlock'
    BY <1>6 DEF BlockInvariant, WriteBlock, GetBufferToRead, writerVars
  <2> QED
    BY <1>3, <1>4, <2>3, <2>4 DEF BlockInvariant
<1>7. CASE TakeEntry
  <2>1. /\ avail \in 0..Size - readX /\ avail <= n /\ taken \in Seq(Values)
        /\ Len(taken) < avail /\ Len(taken) \in Nat
        /\ \A k \in 1..Len(taken) : taken[k] = buffer[readX + k - 1]
    BY <1>7 DEF BlockInvariant, ReadBlock, TakeEntry
  <2> DEFINE m == Len(taken)
  <2>2. buffer[readX + m] \in Values
    <3>1. m \in 0..n - 1 /\ m \in 0..avail - 1 /\ m + 1 \in 1..n /\ (m + 1) - 1 = m
      BY <1>1, <2>1, FifoAssumption
    <3>2. buffer[Entry(readX, m)] \in Values
      BY <1>1, <3>1 DEF BlockInvariant, Invariant, ContentsWritten, Contents
    <3>3. Entry(readX, m) = readX + m
      BY <1>1, <2>1, <3>1, ReadBlockFacts, FifoAssumption
    <3> QED
      BY <3>2, <3>3
  <2>3. taken' = Append(taken, buffer[readX + m]) /\ UNCHANGED avail
    BY <1>7 DEF TakeEntry
  <2>4. /\ taken' \in Seq(Values) /\ Len(taken') = m + 1
        /\ \A k \in 1..m : taken'[k] = taken[k]
        /\ taken'[m + 1] = buffer[readX + m]
    BY <2>1, <2>2, <2>3, AppendProperties
  <2>5. \A k \in 1..m + 1 : taken'[k] = buffer[readX + k - 1]
    <3>1. \A k \in 1..m + 1 : k \in 1..m \/ k = m + 1
      BY <2>1
    <3>2. readX + (m + 1) - 1 = readX + m
      BY <1>1, <2>1, FifoAssumption
    <3> QED
      BY <2>1, <2>4, <3>1, <3>2
  <2>6. m + 1 <= avail
    BY <1>1, <2>1, FifoAssumption
  <2>7. ReadBlock'
    BY <1>2, <2>1, <2>3, <2>4, <2>5, <2>6 DEF BlockInvariant, ReadBlock, readerVars
  <2>8. WriteBlock'
    BY <1>7 DEF BlockInvariant, WriteBlock, TakeEntry, writerVars
  <2> QED
    BY <1>3, <1>4, <2>7, <2>8 DEF BlockInvariant
<1> QED
  BY <1>5, <1>6, <1>7

(* writeConcluded puts what was filled behind what was in the queue.       *)
LEMMA ConcludedWrite ==
  ASSUME BlockInvariant, WriteConcluded
  PROVE  /\ writeX' \in Slots
         /\ ElementCount(readX, writeX') = ElementCount(readX, writeX) + written
         /\ written \in Nat /\ ElementCount(readX, writeX) + written <= Size - 1
         /\ Contents' \in [1..ElementCount(readX, writeX) + written -> Values]
         /\ \A k \in 1..ElementCount(readX, writeX) : Contents'[k] = Contents[k]
<1> DEFINE n == ElementCount(readX, writeX)
<1>1. readX \in Slots /\ writeX \in Slots /\ n \in 0..Size - 1
  BY CountBounds DEF BlockInvariant, Invariant, TypeOK
<1>2. /\ written \in Nat /\ written <= Size - writeX /\ written <= Size - 1 - n
      /\ \A k \in 0..written - 1 : buffer[writeX + k] \in Values
  BY <1>1, FifoAssumption DEF BlockInvariant, WriteBlock
<1>3. /\ writeX' = AdvanceIndexEx(writeX, written)
      /\ buffer' = buffer /\ readX' = readX
  BY DEF WriteConcluded
<1>4. writeX' \in Slots /\ ElementCount(readX, writeX') = n + written
  BY <1>1, <1>2, <1>3, WriteBlockFacts
<1>5. \A j \in 0..written - 1 : Entry(readX, n + j) = writeX + j
  BY <1>1, <1>2, WriteBlockFacts
<1>6. Contents' = [k \in 1..n + written |-> buffer[Entry(readX, k - 1)]]
  BY <1>3, <1>4 DEF Contents
<1>7. \A k \in 1..n : buffer[Entry(readX, k - 1)] = Contents[k] /\ Contents[k] \in Values
  BY DEF BlockInvariant, Invariant, ContentsWritten, Contents
<1>8. \A k \in 1..n + written : buffer[Entry(readX, k - 1)] \in Values
  <2> TAKE k \in 1..n + written
  <2>1. CASE k <= n
    BY <1>1, <1>7, <2>1, FifoAssumption
  <2>2. CASE k > n
    <3>1. k - 1 - n \in 0..written - 1 /\ n + (k - 1 - n) = k - 1
      BY <1>1, <1>2, <2>2, FifoAssumption
    <3> QED
      BY <1>2, <1>5, <3>1
  <2> QED
    BY <1>1, <1>2, <2>1, <2>2, FifoAssumption
<1>9. \A k \in 1..n : k \in 1..n + written
  BY <1>1, <1>2, FifoAssumption
<1>10. n + written <= Size - 1
  BY <1>1, <1>2, FifoAssumption
<1> QED
  BY <1>2, <1>4, <1>6, <1>7, <1>8, <1>9, <1>10

LEMMA WriteConcludedStep ==
  ASSUME BlockInvariant, WriteConcluded
  PROVE  BlockInvariant'
<1> DEFINE n == ElementCount(readX, writeX)
<1>1. readX \in Slots /\ writeX \in Slots /\ n \in 0..Size - 1
  BY CountBounds DEF BlockInvariant, Invariant, TypeOK
<1>2. /\ UNCHANGED <<buffer, readX, writerVars, readerVars, received, filling, avail, taken>>
      /\ room' = 0 /\ written' = 0 /\ filling = FALSE /\ wpc = "idle"
      /\ accepted' \in BOOLEAN
  <2>1. room > 0 /\ ~filling /\ filling \in BOOLEAN /\ wpc = "idle" /\ accepted \in BOOLEAN
    BY DEF WriteConcluded, BlockInvariant, WriteBlock, Invariant, TypeOK
  <2> QED
    BY <2>1 DEF WriteConcluded
<1>3. /\ writeX' \in Slots /\ ElementCount(readX, writeX') = n + written
      /\ written \in Nat /\ n + written \in 0..Size - 1
  BY <1>1, ConcludedWrite, FifoAssumption
<1>4. TypeOK'
  BY <1>2, <1>3 DEF BlockInvariant, Invariant, TypeOK, writerVars, readerVars
<1>5. WriterKnows'
  BY <1>2 DEF WriterKnows, writerVars
<1>6. ReaderKnows'
  <2>1. CASE rpc # "idle"
    <3>1. readX # writeX /\ (rpc = "advance" => copy = buffer[readX])
      BY <2>1 DEF BlockInvariant, Invariant, ReaderKnows
    <3>2. n # 0
      BY <1>1, <3>1, CountBounds
    <3>3. readX # writeX'
      BY <1>1, <1>3, <3>2, CountBounds, FifoAssumption
    <3> QED
      BY <1>2, <3>1, <3>3 DEF ReaderKnows, readerVars
  <2> QED
    BY <1>2, <2>1 DEF ReaderKnows, readerVars
<1>7. ContentsWritten'
  BY ConcludedWrite DEF ContentsWritten
<1>8. WriteBlock'
  <2>1. 0 \in 0..Size - writeX'
    <3>1. \A i \in Slots : 0 \in 0..Size - i
      BY FifoAssumption
    <3> QED
      BY <1>3, <3>1
  <2>2. 0 <= Size - 1 - ElementCount(readX', writeX')
    BY <1>1, <1>2, <1>3, FifoAssumption
  <2>3. filling' = FALSE /\ 0 \in 0..0 /\ ~(0 > 0) /\ 0..0 - 1 = {}
    BY <1>2
  <2> QED
    BY <1>2, <2>1, <2>2, <2>3 DEF WriteBlock
<1>9. ReadBlock'
  <2>1. avail \in 0..Size - readX /\ avail <= n
    BY DEF BlockInvariant, ReadBlock
  <2>2. avail <= ElementCount(readX, writeX')
    BY <1>1, <1>3, <2>1, FifoAssumption
  <2> QED
    BY <1>2, <2>2 DEF BlockInvariant, ReadBlock, readerVars
<1> QED
  BY <1>4, <1>5, <1>6, <1>7, <1>8, <1>9 DEF BlockInvariant, Invariant

(* readConcluded takes what was copied off the queue.                      *)
LEMMA ConcludedRead ==
  ASSUME BlockInvariant, ReadConcluded
  PROVE  /\ readX' \in Slots
         /\ Len(taken) \in 0..ElementCount(readX, writeX)
         /\ ElementCount(readX', writeX) = ElementCount(readX, writeX) - Len(taken)
         /\ Contents' = [k \in 1..ElementCount(readX, writeX) - Len(taken) |-> Contents[k + Len(taken)]]
<1> DEFINE n == ElementCount(readX, writeX)
           m == Len(taken)
<1>1. readX \in Slots /\ writeX \in Slots /\ n \in 0..Size - 1
  BY CountBounds DEF BlockInvariant, Invariant, TypeOK
<1>2. m \in Nat /\ m <= Size - readX /\ m <= n
  <2>1. avail \in 0..Size - readX /\ avail <= n /\ taken \in Seq(Values) /\ m <= avail
    BY DEF BlockInvariant, ReadBlock
  <2>2. m \in Nat
    BY <2>1
  <2> QED
    BY <1>1, <2>1, <2>2, FifoAssumption
<1>3. readX' = AdvanceIndexEx(readX, m) /\ buffer' = buffer /\ writeX' = writeX
  BY DEF ReadConcluded
<1>4. readX' \in Slots /\ ElementCount(readX', writeX) = n - m
  BY <1>1, <1>2, <1>3, ReadBlockFacts
<1>5. \A k \in 0..n - m - 1 : Entry(readX', k) = Entry(readX, k + m)
  BY <1>1, <1>2, <1>3, ReadBlockFacts
<1>6. Contents' = [k \in 1..n - m |-> buffer[Entry(readX', k - 1)]]
  BY <1>3, <1>4 DEF Contents
<1>7. \A k \in 1..n - m : buffer[Entry(readX', k - 1)] = Contents[k + m]
  <2> TAKE k \in 1..n - m
  <2>1. k - 1 \in 0..n - m - 1 /\ (k - 1) + m = (k + m) - 1 /\ k + m \in 1..n
    BY <1>1, <1>2, FifoAssumption
  <2>2. Contents[k + m] = buffer[Entry(readX, (k + m) - 1)]
    BY <2>1 DEF Contents
  <2> QED
    BY <1>5, <2>1, <2>2
<1>8. m \in 0..n
  BY <1>1, <1>2
<1> QED
  BY <1>4, <1>6, <1>7, <1>8

LEMMA ReadConcludedStep ==
  ASSUME BlockInvariant, ReadConcluded
  PROVE  BlockInvariant'
<1> DEFINE n == ElementCount(readX, writeX)
           m == Len(taken)
<1>1. readX \in Slots /\ writeX \in Slots /\ n \in 0..Size - 1
  BY CountBounds DEF BlockInvariant, Invariant, TypeOK
<1>2. /\ UNCHANGED <<buffer, writeX, writerVars, readerVars, accepted, received, room, written, filling>>
      /\ avail' = 0 /\ taken' = <<>> /\ rpc = "idle"
  BY DEF ReadConcluded, BlockInvariant, ReadBlock
<1>3. /\ readX' \in Slots /\ m \in 0..n /\ ElementCount(readX', writeX) = n - m
      /\ n - m \in 0..Size - 1
  BY <1>1, ConcludedRead, FifoAssumption
<1>4. TypeOK'
  BY <1>2, <1>3 DEF BlockInvariant, Invariant, TypeOK, writerVars, readerVars
<1>5. WriterKnows'
  <2>1. CASE wpc \in {"write", "writing", "publish"}
    <3>1. index = AdvanceIndex(writeX) /\ index # readX
      BY <2>1 DEF BlockInvariant, Invariant, WriterKnows
    <3>2. n # Size - 1
      BY <1>1, <3>1, CountBounds
    <3>3. n - m # Size - 1
      BY <1>1, <1>3, <3>2, FifoAssumption
    <3>4. index # readX'
      BY <1>1, <1>3, <3>1, <3>3, CountBounds
    <3> QED
      BY <1>2, <3>4 DEF BlockInvariant, Invariant, WriterKnows, writerVars
  <2> QED
    BY <1>2, <2>1 DEF BlockInvariant, Invariant, WriterKnows, writerVars
<1>6. ReaderKnows'
  BY <1>2 DEF ReaderKnows, readerVars
<1>7. ContentsWritten'
  <2>1. \A k \in 1..n - m : k + m \in 1..n
    BY <1>1, <1>3, FifoAssumption
  <2>2. \A k \in 1..n : Contents[k] \in Values
    BY DEF BlockInvariant, Invariant, ContentsWritten, Contents
  <2> QED
    BY <2>1, <2>2, ConcludedRead DEF ContentsWritten
<1>8. WriteBlock'
  <2>1. room \in 0..Size - writeX /\ room <= Size - 1 - n
    BY DEF BlockInvariant, WriteBlock
  <2>2. room <= Size - 1 - ElementCount(readX', writeX)
    BY <1>1, <1>3, <2>1, FifoAssumption
  <2> QED
    BY <1>2, <2>2 DEF BlockInvariant, WriteBlock, writerVars
<1>9. ReadBlock'
  <2>1. 0 \in 0..Size - readX'
    <3>1. \A i \in Slots : 0 \in 0..Size - i
      BY FifoAssumption
    <3> QED
      BY <1>3, <3>1
  <2>2. 0 <= ElementCount(readX', writeX')
    BY <1>1, <1>2, <1>3, FifoAssumption
  <2> QED
    BY <1>2, <2>1, <2>2 DEF ReadBlock
<1> QED
  BY <1>4, <1>5, <1>6, <1>7, <1>8, <1>9 DEF BlockInvariant, Invariant

(* A side without a block has nothing to keep.                             *)
LEMMA NoWriteBlock ==
  ASSUME BlockInvariant, room = 0, TypeOK', UNCHANGED <<room, written, filling>>
  PROVE  WriteBlock'
<1>1. readX' \in Slots /\ writeX' \in Slots
  BY DEF TypeOK
<1>2. ElementCount(readX', writeX') \in 0..Size - 1
  BY <1>1, CountBounds
<1>3. 0 <= Size - 1 - ElementCount(readX', writeX')
  BY <1>2, FifoAssumption
<1>4. 0 \in 0..Size - writeX'
  <2>1. \A i \in Slots : 0 \in 0..Size - i
    BY FifoAssumption
  <2> QED
    BY <1>1, <2>1
<1>5. written = 0 /\ filling \in BOOLEAN /\ ~filling
  BY FifoAssumption DEF BlockInvariant, WriteBlock
<1>6. 0 \in 0..0 /\ ~(0 > 0) /\ 0..0 - 1 = {}
  OBVIOUS
<1> QED
  BY <1>3, <1>4, <1>5, <1>6 DEF WriteBlock

LEMMA NoReadBlock ==
  ASSUME BlockInvariant, avail = 0, TypeOK', UNCHANGED <<avail, taken>>
  PROVE  ReadBlock'
<1>1. readX' \in Slots /\ writeX' \in Slots
  BY DEF TypeOK
<1>2. ElementCount(readX', writeX') \in 0..Size - 1
  BY <1>1, CountBounds
<1>3. 0 <= ElementCount(readX', writeX')
  BY <1>2, FifoAssumption
<1>4. 0 \in 0..Size - readX'
  <2>1. \A i \in Slots : 0 \in 0..Size - i
    BY FifoAssumption
  <2> QED
    BY <1>1, <2>1
<1>5. taken \in Seq(Values) /\ Len(taken) <= 0 /\ Len(taken) \in Nat
  BY DEF BlockInvariant, ReadBlock
<1>6. Len(taken) = 0
  BY <1>5
<1> QED
  BY <1>3, <1>4, <1>5, <1>6 DEF ReadBlock

(* put does not touch the entries lent to the reader, nor get those lent   *)
(* to the writer.                                                          *)
LEMMA WriterStep ==
  ASSUME BlockInvariant, room = 0, Writer, UNCHANGED blockVars
  PROVE  BlockInvariant'
<1> DEFINE n == ElementCount(readX, writeX)
<1>1. /\ readX \in Slots /\ writeX \in Slots /\ n \in 0..Size - 1
      /\ buffer \in [Slots -> Values \cup {Garbage}]
  BY CountBounds DEF BlockInvariant, Invariant, TypeOK
<1>2. Invariant'
  BY NextTypeOK, NextKnows, NextContentsWritten DEF BlockInvariant, Invariant, Next
<1>3. WriteBlock'
  BY <1>2, NoWriteBlock DEF Invariant, blockVars
<1>4. readX' = readX /\ rpc' = rpc
  BY DEF Writer, PutBegin, PutCheck, WriteBegin, WriteEnd, Publish, readerVars
<1>5. \A i \in Slots \ {writeX} : buffer'[i] = buffer[i]
  BY <1>1 DEF Writer, PutBegin, PutCheck, WriteBegin, WriteEnd, Publish
<1>6. ElementCount(readX', writeX') \in {n, n + 1}
  <2>1. CASE Publish
    <3>1. writeX' = AdvanceIndex(writeX) /\ AdvanceIndex(writeX) # readX
      BY <2>1 DEF BlockInvariant, Invariant, WriterKnows, Publish
    <3> QED
      BY <1>1, <1>4, <3>1, CountSteps
  <2>2. CASE ~Publish
    BY <1>4, <2>2 DEF Writer, PutBegin, PutCheck, WriteBegin, WriteEnd
  <2> QED
    BY <2>1, <2>2
<1>7. ReadBlock'
  <2>1. /\ avail \in 0..Size - readX /\ (avail > 0 => rpc = "idle") /\ avail <= n
        /\ taken \in Seq(Values) /\ Len(taken) <= avail /\ Len(taken) \in Nat
        /\ \A k \in 1..Len(taken) : taken[k] = buffer[readX + k - 1]
    BY DEF BlockInvariant, ReadBlock
  <2>2. avail <= ElementCount(readX', writeX')
    BY <1>1, <1>6, <2>1, FifoAssumption
  <2>3. \A k \in 1..Len(taken) : k - 1 \in 0..n - 1 /\ k - 1 \in 0..avail - 1
    BY <1>1, <2>1, FifoAssumption
  <2>4. \A k \in 1..Len(taken) : Entry(readX, k - 1) = readX + k - 1
    BY <1>1, <2>1, <2>3, ReadBlockFacts, FifoAssumption
  <2>5. \A k \in 1..Len(taken) : readX + k - 1 \in Slots \ {writeX}
    BY <1>1, <2>3, <2>4, EntryFacts
  <2>6. \A k \in 1..Len(taken) : taken[k] = buffer'[readX + k - 1]
    BY <1>5, <2>1, <2>5
  <2> QED
    BY <1>4, <2>1, <2>2, <2>6 DEF ReadBlock, blockVars
<1> QED
  BY <1>2, <1>3, <1>7 DEF BlockInvariant

LEMMA ReaderStep ==
  ASSUME BlockInvariant, avail = 0, Reader, UNCHANGED blockVars
  PROVE  BlockInvariant'
<1> DEFINE n == ElementCount(readX, writeX)
<1>1. readX \in Slots /\ writeX \in Slots /\ n \in 0..Size - 1
  BY CountBounds DEF BlockInvariant, Invariant, TypeOK
<1>2. Invariant'
  BY NextTypeOK, NextKnows, NextContentsWritten DEF BlockInvariant, Invariant, Next
<1>3. ReadBlock'
  BY <1>2, NoReadBlock DEF Invariant, blockVars
<1>4. writeX' = writeX /\ wpc' = wpc /\ buffer' = buffer
  BY DEF Reader, GetCheck, Read, Advance, writerVars
<1>5. ElementCount(readX', writeX') \in {n, n - 1}
  <2>1. CASE Advance
    <3>1. readX' = AdvanceIndex(readX) /\ readX # writeX
      BY <2>1 DEF BlockInvariant, Invariant, ReaderKnows, Advance
    <3> QED
      BY <1>1, <1>4, <3>1, CountSteps
  <2>2. CASE ~Advance
    BY <1>4, <2>2 DEF Reader, GetCheck, Read
  <2> QED
    BY <2>1, <2>2
<1>6. WriteBlock'
  <2>1. room \in 0..Size - writeX /\ room <= Size - 1 - n
    BY DEF BlockInvariant, WriteBlock
  <2>2. room <= Size - 1 - ElementCount(readX', writeX')
    BY <1>1, <1>5, <2>1, FifoAssumption
  <2> QED
    BY <1>4, <2>2 DEF BlockInvariant, WriteBlock, blockVars
<1> QED
  BY <1>2, <1>3, <1>6 DEF BlockInvariant

(* The invariant is inductive.                                             *)
LEMMA BlockStep == BlockInvariant /\ [BlockNext]_<<vars, blockVars>> => BlockInvariant'
<1> SUFFICES ASSUME BlockInvariant, [BlockNext]_<<vars, blockVars>> PROVE BlockInvariant'
  OBVIOUS
<1>1. CASE BlockWriter
  BY <1>1, LendStep, FillStep, WriteConcludedStep DEF BlockWriter
<1>2. CASE BlockReader
  BY <1>2, LendStep, ReadConcludedStep DEF BlockReader
<1>3. CASE room = 0 /\ Writer /\ UNCHANGED blockVars
  BY <1>3, WriterStep
<1>4. CASE avail = 0 /\ Reader /\ UNCHANGED blockVars
  BY <1>4, ReaderStep
<1>5. CASE room = 0 /\ avail = 0 /\ Clear /\ UNCHANGED blockVars
  <2>1. Invariant'
    BY <1>5, NextTypeOK, NextKnows, NextContentsWritten DEF BlockInvariant, Invariant, Next
  <2> QED
    BY <1>5, <2>1, NoWriteBlock, NoReadBlock DEF BlockInvariant, Invariant, blockVars
<1>6. CASE UNCHANGED <<vars, blockVars>>
  BY <1>6 DEF BlockInvariant, Invariant, TypeOK, WriterKnows, ReaderKnows, ContentsWritten,
              Contents, WriteBlock, ReadBlock, vars, blockVars, writerVars, readerVars
<1> QED
  BY <1>1, <1>2, <1>3, <1>4, <1>5, <1>6 DEF BlockNext

LEMMA BlockInitInvariant == BlockInit => BlockInvariant
<1> SUFFICES ASSUME BlockInit PROVE BlockInvariant
  OBVIOUS
<1>1. Invariant
  BY InitInvariant DEF BlockInit
<1>2. WriteBlock /\ ReadBlock
  <2>1. ElementCount(readX, writeX) = 0 /\ writeX = 0 /\ readX = 0
    BY DEF BlockInit, Init, ElementCount
  <2>2. WriteBlock
    <3>1. room = 0 /\ written = 0 /\ filling = FALSE
      BY DEF BlockInit
    <3>2. 0 \in 0..Size - 0 /\ 0 <= Size - 1 - 0 /\ 0 \in 0..0 /\ ~(0 > 0) /\ 0..0 - 1 = {}
      BY FifoAssumption
    <3> QED
      BY <2>1, <3>1, <3>2 DEF WriteBlock
  <2>3. taken \in Seq(Values) /\ Len(taken) = 0
    BY DEF BlockInit
  <2>4. avail = 0 /\ 0 \in 0..Size - 0
    BY FifoAssumption DEF BlockInit
  <2>5. ReadBlock
    BY <2>1, <2>3, <2>4 DEF ReadBlock
  <2> QED
    BY <2>2, <2>5
<1> QED
  BY <1>1, <1>2 DEF BlockInvariant

(* The inductive invariant of the fifo that lends blocks: a block stays    *)
(* free, or stays part of the queue, for as long as it is lent.            *)
THEOREM BlockInvariantHolds == BlockSpec => []BlockInvariant
BY BlockInitInvariant, BlockStep, PTL DEF BlockSpec

(* The entries lent to the writer and to the reader are different ones and *)
(* lie within the buffer, whatever the other side did since they were lent.*)
THEOREM BlocksStayApart == BlockSpec => []BlocksApart
<1>1. BlockInvariant => BlocksApart
  <2> SUFFICES ASSUME BlockInvariant PROVE BlocksApart
    OBVIOUS
  <2>1. readX \in Slots /\ writeX \in Slots
    BY DEF BlockInvariant, Invariant, TypeOK
  <2>2. /\ room \in 0..Size - writeX /\ written \in 0..room /\ filling \in BOOLEAN
        /\ room <= Size - 1 - ElementCount(readX, writeX)
    BY DEF BlockInvariant, WriteBlock
  <2>3. /\ avail \in 0..Size - readX /\ avail <= ElementCount(readX, writeX)
        /\ taken \in Seq(Values) /\ Len(taken) <= avail /\ Len(taken) \in Nat
    BY DEF BlockInvariant, ReadBlock
  <2>4. BlockTypeOK
    <3>1. Len(taken) \in 0..avail
      BY <2>1, <2>3, FifoAssumption
    <3> QED
      BY <2>2, <2>3, <3>1 DEF BlockTypeOK
  <2>5. ASSUME NEW i \in writeX..writeX + room - 1, i \in readX..readX + avail - 1 PROVE FALSE
    BY <2>1, <2>2, <2>3, <2>5, FifoAssumption DEF ElementCount
  <2> QED
    BY <2>4, <2>5 DEF BlocksApart
<1> QED
  BY BlockInvariantHolds, <1>1, PTL

(* What the reader copies out of its block is the beginning of the queue.  *)
THEOREM CopiesFromHead == BlockSpec => []TakenFromHead
<1>1. BlockInvariant => TakenFromHead
  <2> SUFFICES ASSUME BlockInvariant PROVE TakenFromHead
    OBVIOUS
  <2> DEFINE n == ElementCount(readX, writeX)
  <2>1. readX \in Slots /\ writeX \in Slots
    BY DEF BlockInvariant, Invariant, TypeOK
  <2>2. Len(Contents) = n /\ n \in 0..Size - 1
    BY ContentsSequence DEF BlockInvariant
  <2>3. /\ avail \in 0..Size - readX /\ avail <= n
        /\ taken \in Seq(Values) /\ Len(taken) <= avail /\ Len(taken) \in Nat
        /\ \A k \in 1..Len(taken) : taken[k] = buffer[readX + k - 1]
    BY DEF BlockInvariant, ReadBlock
  <2>4. DOMAIN taken = 1..Len(taken) /\ Len(taken) <= Len(Contents)
    BY <2>1, <2>2, <2>3, FifoAssumption
  <2>5. \A k \in 1..Len(taken) : k \in 1..n /\ k - 1 \in 0..avail - 1
    BY <2>1, <2>2, <2>3, FifoAssumption
  <2>6. \A k \in 1..Len(taken) : Entry(readX, k - 1) = readX + k - 1
    BY <2>1, <2>3, <2>5, ReadBlockFacts, FifoAssumption
  <2>7. \A k \in 1..Len(taken) : Contents[k] = buffer[Entry(readX, k - 1)]
    BY <2>5 DEF Contents
  <2> QED
    BY <2>3, <2>4, <2>6, <2>7 DEF TakenFromHead
<1> QED
  BY BlockInvariantHolds, <1>1, PTL

(* put never writes the entry that get is reading, blocks lent or not.     *)
THEOREM BlockEntriesNotShared == BlockSpec => []NoSharedEntry
<1>1. BlockInvariant => NoSharedEntry
  BY DEF BlockInvariant, Invariant, ReaderKnows, NoSharedEntry
<1> QED
  BY BlockInvariantHolds, <1>1, PTL

(* writeConcluded appends a block to the queue.                            *)
LEMMA ConcludedWriteIsQueue ==
  ASSUME BlockInvariant, WriteConcluded
  PROVE  [Queue!Next]_(Queue!vars)
<1> DEFINE n == ElementCount(readX, writeX)
<1>1. Contents \in Seq(Values) /\ Len(Contents) = n /\ n \in 0..Size - 1
  BY ContentsSequence DEF BlockInvariant
<1>2. /\ written \in Nat /\ n + written <= Size - 1
      /\ Contents' \in [1..n + written -> Values]
      /\ \A k \in 1..n : Contents'[k] = Contents[k]
  BY ConcludedWrite
<1>3. n \in Nat /\ n + written \in Nat
  BY <1>1, <1>2, FifoAssumption
<1>4. Contents' \in Seq(Values) /\ Len(Contents') = n + written
  BY <1>2, <1>3
<1>5. CASE written = 0
  <2>1. Len(Contents') = Len(Contents) /\ Len(Contents) = n
    BY <1>1, <1>3, <1>4, <1>5
  <2>2. Contents' = Contents
    BY <1>1, <1>2, <1>4, <2>1, SeqEqual
  <2> QED
    BY <1>5, <2>2 DEF WriteConcluded, Queue!vars
<1>6. CASE written # 0
  <2>1. Len(Contents') > Len(Contents) /\ Len(Contents') <= Size - 1
    BY <1>1, <1>2, <1>3, <1>4, <1>6
  <2>2. SubSeq(Contents', 1, n) = Contents
    <3>1. \A k \in 1..n : Contents'[k] \in Values
      BY <1>1, <1>2, <1>3
    <3>2. /\ SubSeq(Contents', 1, n) \in Seq(Values)
          /\ Len(SubSeq(Contents', 1, n)) = IF 1 <= n THEN n - 1 + 1 ELSE 0
          /\ \A k \in 1..n - 1 + 1 : SubSeq(Contents', 1, n)[k] = Contents'[1 + k - 1]
      BY <1>3, <3>1, SubSeqProperties
    <3>3. Len(SubSeq(Contents', 1, n)) = n /\ n - 1 + 1 = n /\ \A k \in 1..n : 1 + k - 1 = k
      BY <1>3, <3>2
    <3>4. \A k \in 1..n : SubSeq(Contents', 1, n)[k] = Contents[k]
      BY <1>2, <3>2, <3>3
    <3> QED
      BY <1>1, <3>2, <3>3, <3>4, SeqEqual
  <2>3. \A k \in Len(Contents) + 1..Len(Contents') : Contents'[k] \in Values
    BY <1>1, <1>2, <1>3, <1>4
  <2>4. accepted' = TRUE /\ UNCHANGED received
    BY <1>6 DEF WriteConcluded
  <2>5. Queue!PutBlock
    BY <1>1, <2>1, <2>2, <2>3, <2>4 DEF Queue!PutBlock
  <2> QED
    BY <2>5 DEF Queue!Next
<1> QED
  BY <1>5, <1>6

(* readConcluded removes a block from the queue.                           *)
LEMMA ConcludedReadIsQueue ==
  ASSUME BlockInvariant, ReadConcluded
  PROVE  [Queue!Next]_(Queue!vars)
<1> DEFINE n == ElementCount(readX, writeX)
           m == Len(taken)
<1>1. Contents \in Seq(Values) /\ Len(Contents) = n /\ n \in 0..Size - 1
  BY ContentsSequence DEF BlockInvariant
<1>2. m \in 0..n /\ Contents' = [k \in 1..n - m |-> Contents[k + m]]
  BY ConcludedRead
<1>3. n \in Nat /\ m \in Nat /\ m <= n
  BY <1>1, <1>2, FifoAssumption
<1>4. SubSeq(Contents, m + 1, n) = Contents'
  <2>1. \A k \in m + 1..n : Contents[k] \in Values
    BY <1>1, <1>3
  <2>2. /\ SubSeq(Contents, m + 1, n) \in Seq(Values)
        /\ Len(SubSeq(Contents, m + 1, n)) = IF m + 1 <= n THEN n - (m + 1) + 1 ELSE 0
        /\ \A k \in 1..n - (m + 1) + 1 : SubSeq(Contents, m + 1, n)[k] = Contents[(m + 1) + k - 1]
    BY <1>3, <2>1, SubSeqProperties
  <2>3. /\ Len(SubSeq(Contents, m + 1, n)) = n - m /\ n - (m + 1) + 1 = n - m
        /\ \A k \in 1..n - m : (m + 1) + k - 1 = k + m
    BY <1>3, <2>2
  <2>4. \A k \in 1..n - m : SubSeq(Contents, m + 1, n)[k] = Contents'[k]
    BY <1>2, <2>2, <2>3
  <2>5. SubSeq(Contents, m + 1, n) \in [1..n - m -> Values]
    BY <2>2, <2>3, LenProperties
  <2> QED
    BY <1>2, <2>4, <2>5
<1>5. UNCHANGED <<accepted, received>>
  BY DEF ReadConcluded
<1>6. CASE m = 0
  <2>1. Contents' = Contents
    <3>1. Contents' = [k \in 1..n |-> Contents[k]]
      BY <1>2, <1>3, <1>6
    <3>2. Contents = [k \in 1..n |-> Contents[k]]
      BY <1>1
    <3> QED
      BY <3>1, <3>2
  <2> QED
    BY <1>5, <2>1 DEF Queue!vars
<1>7. CASE m # 0
  <2>1. m \in 1..Len(Contents) /\ Contents' = SubSeq(Contents, m + 1, Len(Contents))
    BY <1>1, <1>3, <1>4, <1>7
  <2> QED
    BY <1>5, <2>1 DEF Queue!GetBlock, Queue!Next
<1> QED
  BY <1>6, <1>7

(* The fifo that lends blocks is a bounded queue too: a block is appended  *)
(* or removed at once, when it is concluded.                               *)
THEOREM BlocksImplementQueue == BlockSpec => QueueSpec
<1>1. BlockInit => Queue!Init
  BY InitIsQueue DEF BlockInit
<1>2. BlockInvariant /\ [BlockNext]_<<vars, blockVars>> => [Queue!Next]_(Queue!vars)
  <2> SUFFICES ASSUME BlockInvariant, [BlockNext]_<<vars, blockVars>>
               PROVE  [Queue!Next]_(Queue!vars)
    OBVIOUS
  <2>1. /\ readX \in Slots /\ writeX \in Slots
        /\ Contents \in Seq(Values) /\ Len(Contents) = ElementCount(readX, writeX)
    BY ContentsSequence DEF BlockInvariant, Invariant, TypeOK
  <2>2. ASSUME GetBufferToWrite PROVE [Queue!Next]_(Queue!vars)
    <3>1. Contents' = Contents /\ UNCHANGED received
      BY <2>2, LendStep DEF GetBufferToWrite
    <3>2. CASE readX = AdvanceIndex(writeX)
      <4>1. Len(Contents) = Size - 1
        BY <2>1, <3>2, CountBounds
      <4> QED
        BY <2>2, <3>1, <3>2, <4>1 DEF GetBufferToWrite, Queue!PutRefused, Queue!Next
    <3>3. CASE readX # AdvanceIndex(writeX)
      BY <2>2, <3>1, <3>3 DEF GetBufferToWrite, Queue!vars
    <3> QED
      BY <3>2, <3>3
  <2>3. ASSUME GetBufferToRead PROVE [Queue!Next]_(Queue!vars)
    <3>1. Contents' = Contents /\ UNCHANGED accepted
      BY <2>3, LendStep DEF GetBufferToRead
    <3>2. CASE readX = writeX
      <4>1. Contents = <<>>
        BY <2>1, <3>2, CountBounds
      <4> QED
        BY <2>3, <3>1, <3>2, <4>1 DEF GetBufferToRead, Queue!GetRefused, Queue!Next
    <3>3. CASE readX # writeX
      BY <2>3, <3>1, <3>3 DEF GetBufferToRead, Queue!vars
    <3> QED
      BY <3>2, <3>3
  <2>4. ASSUME FillBegin \/ (\E v \in Values : FillEnd(v)) \/ TakeEntry PROVE UNCHANGED Queue!vars
    BY <2>4, FillKeeps, LendStep DEF FillBegin, FillEnd, TakeEntry, Queue!vars
  <2>5. ASSUME Next \/ UNCHANGED vars PROVE [Queue!Next]_(Queue!vars)
    BY <2>5, NextIsQueue DEF BlockInvariant
  <2> QED
    BY <2>2, <2>3, <2>4, <2>5, ConcludedWriteIsQueue, ConcludedReadIsQueue
       DEF BlockNext, BlockWriter, BlockReader, Next
<1> QED
  BY <1>1, <1>2, BlockInvariantHolds, PTL DEF BlockSpec, QueueSpec, Queue!Spec

=============================================================================
