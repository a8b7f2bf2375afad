-------------------------- MODULE CommBuffer_proofs --------------------------
(***************************************************************************)
(* What CommBuffer promises, for any number of puts, however many overtake  *)
(* a get.  The invariant says where the buffer that get copies from can be  *)
(* found among put's pointers.                                              *)
(***************************************************************************)
EXTENDS CommBuffer, TLAPS

(* The pointers point to three buffers; while put exchanges them, its      *)
(* local variable stands for the reader's.                                 *)
Pointers ==
  /\ writer \in 0..2 /\ reader \in 0..2 /\ intermediate \in 0..2 /\ swap \in 0..2
  /\ wpc \in {"idle", "write", "swap", "test", "flag"}
  /\ writer # intermediate
  /\ IF wpc = "test" THEN reader = writer /\ swap # writer /\ swap # intermediate
     ELSE reader # writer /\ reader # intermediate

(* The reader's buffer holds the last record put, both pieces of it.       *)
WriterKnows ==
  /\ buffer \in [0..2 -> (0..MaxPuts) \X (0..MaxPuts)]
  /\ writeCnt \in 0..MaxPuts /\ finished \in 0..MaxPuts
  /\ newDataAvailable \in BOOLEAN
  /\ writeCnt = IF wpc = "idle" THEN finished ELSE finished + 1
  /\ buffer[reader] = IF wpc \in {"write", "swap"} THEN <<finished, finished>>
                      ELSE <<writeCnt, writeCnt>>
  /\ wpc \in {"write", "swap"} => buffer[writer][1] = writeCnt
  /\ wpc = "swap" => buffer[writer][2] = writeCnt

ReaderTypes ==
  /\ rpc \in {"idle", "flag", "pointer", "first", "second", "end"}
  /\ readingNow \in BOOLEAN
  /\ readingNow <=> rpc \in {"pointer", "first", "second", "end"}
  /\ readerTmp \in 0..2 /\ copy \in (0..MaxPuts) \X (0..MaxPuts)
  /\ due \in 0..MaxPuts /\ during \in 0..MaxPuts /\ during <= writeCnt

(* What get copies, or has copied, is not older than the last put that had *)
(* returned when it was called.                                            *)
ReaderLatest ==
  /\ due <= finished
  /\ rpc \in {"first", "second"} => buffer[readerTmp][1] >= due /\ buffer[readerTmp][2] >= due
  /\ rpc \in {"second", "end"} => copy[1] >= due
  /\ rpc = "end" => copy[2] >= due

(* The buffer get copies from is still the reader's, or has been put       *)
(* aside, and put takes it only after a second one has begun.              *)
Aside ==
  \/ readerTmp = reader
  \/ wpc = "test" /\ swap = readerTmp
  \/ readerTmp = intermediate /\ (wpc \in {"write", "swap", "test"} => during >= 1)
  \/ readerTmp = writer /\ wpc \in {"flag", "idle"} /\ during >= 1

ReaderConsistent ==
  during <= 1 =>
    /\ rpc \in {"first", "second"} => Aside /\ buffer[readerTmp][1] = buffer[readerTmp][2]
    /\ rpc = "second" => copy[1] = buffer[readerTmp][1]
    /\ rpc = "end" => copy[1] = copy[2]

(* As long as no put has come between, get delivers the last record.       *)
ReaderMissesNothing ==
  wpc = "idle" /\ ~newDataAvailable =>
    /\ rpc \in {"first", "second"} => readerTmp = reader
    /\ rpc = "second" => copy[1] = writeCnt
    /\ rpc \in {"end", "idle"} => copy = <<writeCnt, writeCnt>>

BufferInvariant ==
  /\ Pointers /\ WriterKnows /\ ReaderTypes
  /\ ReaderLatest /\ ReaderConsistent /\ ReaderMissesNothing

-----------------------------------------------------------------------------
(* At the start both sides are at rest.                                    *)
LEMMA InitBuffer == Init => BufferInvariant
<1> SUFFICES ASSUME Init PROVE BufferInvariant
  OBVIOUS
<1> USE CommBufferAssumption DEF Init
<1>1. readingNow \in BOOLEAN /\ ~readingNow /\ newDataAvailable \in BOOLEAN /\ ~newDataAvailable
  BY Zenon
<1>2. Pointers /\ WriterKnows /\ ReaderTypes
  BY <1>1 DEF Pointers, WriterKnows, ReaderTypes
<1> QED
  BY <1>2 DEF BufferInvariant, ReaderLatest, ReaderConsistent, ReaderMissesNothing

(* What sets and clears the two flags.                                     *)
LEMMA Flags ==
  ASSUME newDataAvailable \in BOOLEAN, readingNow \in BOOLEAN
  PROVE  /\ PutEnd => newDataAvailable' \in BOOLEAN /\ newDataAvailable'
         /\ Get => newDataAvailable' \in BOOLEAN /\ ~newDataAvailable'
         /\ GetFlag => readingNow' \in BOOLEAN /\ readingNow'
         /\ GetEnd => readingNow' \in BOOLEAN /\ ~readingNow'
BY Zenon DEF PutEnd, Get, GetFlag, GetEnd

(* put exchanges the pointers without losing a buffer.                     *)
LEMMA NextPointers ==
  ASSUME BufferInvariant, Next
  PROVE  Pointers'
<1> USE CommBufferAssumption DEF BufferInvariant, Pointers, WriterKnows, ReaderTypes
<1>0. newDataAvailable \in BOOLEAN /\ readingNow \in BOOLEAN
  OBVIOUS
<1>1. CASE Put
  BY <1>1 DEF Put, readerVars
<1>2. CASE PutWritten
  BY <1>2 DEF PutWritten, readerVars
<1>3. CASE PutSwap
  BY <1>3 DEF PutSwap, readerVars
<1>4. CASE PutTest
  BY <1>4 DEF PutTest, readerVars
<1>5. CASE PutEnd
  BY <1>5, <1>0, Flags DEF PutEnd, readerVars
<1>6. CASE Get
  BY <1>6, <1>0, Flags DEF Get, writerVars
<1>7. CASE GetFlag
  BY <1>7, <1>0, Flags DEF GetFlag, writerVars
<1>8. CASE GetPointer
  BY <1>8 DEF GetPointer, writerVars
<1>9. CASE GetFirst
  BY <1>9 DEF GetFirst, writerVars
<1>10. CASE GetSecond
  BY <1>10 DEF GetSecond, writerVars
<1>11. CASE GetEnd
  BY <1>11, <1>0, Flags DEF GetEnd, writerVars
<1> QED
  BY <1>1, <1>2, <1>3, <1>4, <1>5, <1>6, <1>7, <1>8, <1>9, <1>10, <1>11 DEF Next, Writer, Reader

(* The record last put is in the reader's buffer.                          *)
LEMMA NextWriter ==
  ASSUME BufferInvariant, Next
  PROVE  WriterKnows'
<1> USE CommBufferAssumption DEF BufferInvariant, Pointers, WriterKnows, ReaderTypes
<1>0. newDataAvailable \in BOOLEAN /\ readingNow \in BOOLEAN
  OBVIOUS
<1>1. CASE Put
  BY <1>1 DEF Put, readerVars
<1>2. CASE PutWritten
  BY <1>2 DEF PutWritten, readerVars
<1>3. CASE PutSwap
  BY <1>3 DEF PutSwap, readerVars
<1>4. CASE PutTest
  BY <1>4 DEF PutTest, readerVars
<1>5. CASE PutEnd
  BY <1>5, <1>0, Flags DEF PutEnd, readerVars
<1>6. CASE Get
  BY <1>6, <1>0, Flags DEF Get, writerVars
<1>7. CASE GetFlag
  BY <1>7, <1>0, Flags DEF GetFlag, writerVars
<1>8. CASE GetPointer
  BY <1>8 DEF GetPointer, writerVars
<1>9. CASE GetFirst
  BY <1>9 DEF GetFirst, writerVars
<1>10. CASE GetSecond
  BY <1>10 DEF GetSecond, writerVars
<1>11. CASE GetEnd
  BY <1>11, <1>0, Flags DEF GetEnd, writerVars
<1> QED
  BY <1>1, <1>2, <1>3, <1>4, <1>5, <1>6, <1>7, <1>8, <1>9, <1>10, <1>11 DEF Next, Writer, Reader

(* Types of the reader's variables.                                        *)
LEMMA NextReaderTypes ==
  ASSUME BufferInvariant, Next
  PROVE  ReaderTypes'
<1> USE CommBufferAssumption DEF BufferInvariant, Pointers, WriterKnows, ReaderTypes
<1>0. newDataAvailable \in BOOLEAN /\ readingNow \in BOOLEAN
  OBVIOUS
<1>1. CASE Put
  BY <1>1 DEF Put, readerVars
<1>2. CASE PutWritten
  BY <1>2 DEF PutWritten, readerVars
<1>3. CASE PutSwap
  BY <1>3 DEF PutSwap, readerVars
<1>4. CASE PutTest
  BY <1>4 DEF PutTest, readerVars
<1>5. CASE PutEnd
  BY <1>5, <1>0, Flags DEF PutEnd, readerVars
<1>6. CASE Get
  BY <1>6, <1>0, Flags DEF Get, writerVars
<1>7. CASE GetFlag
  BY <1>7, <1>0, Flags DEF GetFlag, writerVars
<1>8. CASE GetPointer
  BY <1>8 DEF GetPointer, writerVars
<1>9. CASE GetFirst
  BY <1>9 DEF GetFirst, writerVars
<1>10. CASE GetSecond
  BY <1>10 DEF GetSecond, writerVars
<1>11. CASE GetEnd
  BY <1>11, <1>0, Flags DEF GetEnd, writerVars
<1> QED
  BY <1>1, <1>2, <1>3, <1>4, <1>5, <1>6, <1>7, <1>8, <1>9, <1>10, <1>11 DEF Next, Writer, Reader

(* Records only become newer.                                              *)
LEMMA NextLatest ==
  ASSUME BufferInvariant, Next
  PROVE  ReaderLatest'
<1> USE CommBufferAssumption DEF BufferInvariant, Pointers, WriterKnows, ReaderTypes, ReaderLatest
<1>0. newDataAvailable \in BOOLEAN /\ readingNow \in BOOLEAN
  OBVIOUS
<1>1. CASE Put
  BY <1>1 DEF Put, readerVars
<1>2. CASE PutWritten
  BY <1>2 DEF PutWritten, readerVars
<1>3. CASE PutSwap
  BY <1>3 DEF PutSwap, readerVars
<1>4. CASE PutTest
  BY <1>4 DEF PutTest, readerVars
<1>5. CASE PutEnd
  BY <1>5, <1>0, Flags DEF PutEnd, readerVars
<1>6. CASE Get
  BY <1>6, <1>0, Flags DEF Get, writerVars
<1>7. CASE GetFlag
  BY <1>7, <1>0, Flags DEF GetFlag, writerVars
<1>8. CASE GetPointer
  BY <1>8 DEF GetPointer, writerVars
<1>9. CASE GetFirst
  BY <1>9 DEF GetFirst, writerVars
<1>10. CASE GetSecond
  BY <1>10 DEF GetSecond, writerVars
<1>11. CASE GetEnd
  BY <1>11, <1>0, Flags DEF GetEnd, writerVars
<1> QED
  BY <1>1, <1>2, <1>3, <1>4, <1>5, <1>6, <1>7, <1>8, <1>9, <1>10, <1>11 DEF Next, Writer, Reader

(* One more put leaves the buffer alone that get copies from.              *)
LEMMA NextConsistent ==
  ASSUME BufferInvariant, Next
  PROVE  ReaderConsistent'
<1> USE CommBufferAssumption DEF BufferInvariant, Pointers, WriterKnows, ReaderTypes, ReaderConsistent, Aside
<1>0. newDataAvailable \in BOOLEAN /\ readingNow \in BOOLEAN
  OBVIOUS
<1>1. CASE Put
  BY <1>1 DEF Put, readerVars
<1>2. CASE PutWritten
  BY <1>2 DEF PutWritten, readerVars
<1>3. CASE PutSwap
  BY <1>3 DEF PutSwap, readerVars
<1>4. CASE PutTest
  BY <1>4 DEF PutTest, readerVars
<1>5. CASE PutEnd
  BY <1>5, <1>0, Flags DEF PutEnd, readerVars
<1>6. CASE Get
  BY <1>6, <1>0, Flags DEF Get, writerVars
<1>7. CASE GetFlag
  BY <1>7, <1>0, Flags DEF GetFlag, writerVars
<1>8. CASE GetPointer
  BY <1>8 DEF GetPointer, writerVars
<1>9. CASE GetFirst
  BY <1>9 DEF GetFirst, writerVars
<1>10. CASE GetSecond
  BY <1>10 DEF GetSecond, writerVars
<1>11. CASE GetEnd
  BY <1>11, <1>0, Flags DEF GetEnd, writerVars
<1> QED
  BY <1>1, <1>2, <1>3, <1>4, <1>5, <1>6, <1>7, <1>8, <1>9, <1>10, <1>11 DEF Next, Writer, Reader

(* A put that comes between announces its data.                            *)
LEMMA NextMissesNothing ==
  ASSUME BufferInvariant, Next
  PROVE  ReaderMissesNothing'
<1> USE CommBufferAssumption DEF BufferInvariant, Pointers, WriterKnows, ReaderTypes, ReaderMissesNothing
<1>0. newDataAvailable \in BOOLEAN /\ readingNow \in BOOLEAN
  OBVIOUS
<1>1. CASE Put
  BY <1>1 DEF Put, readerVars
<1>2. CASE PutWritten
  BY <1>2 DEF PutWritten, readerVars
<1>3. CASE PutSwap
  BY <1>3 DEF PutSwap, readerVars
<1>4. CASE PutTest
  BY <1>4 DEF PutTest, readerVars
<1>5. CASE PutEnd
  BY <1>5, <1>0, Flags DEF PutEnd, readerVars
<1>6. CASE Get
  BY <1>6, <1>0, Flags DEF Get, writerVars
<1>7. CASE GetFlag
  BY <1>7, <1>0, Flags DEF GetFlag, writerVars
<1>8. CASE GetPointer
  BY <1>8 DEF GetPointer, writerVars
<1>9. CASE GetFirst
  BY <1>9 DEF GetFirst, writerVars
<1>10. CASE GetSecond
  BY <1>10 DEF GetSecond, writerVars
<1>11. CASE GetEnd
  BY <1>11, <1>0, Flags DEF GetEnd, writerVars
<1> QED
  BY <1>1, <1>2, <1>3, <1>4, <1>5, <1>6, <1>7, <1>8, <1>9, <1>10, <1>11 DEF Next, Writer, Reader

-----------------------------------------------------------------------------
(* The invariant holds always.                                             *)
LEMMA BufferHolds == Spec => []BufferInvariant
<1>1. BufferInvariant /\ Next => BufferInvariant'
  BY NextPointers, NextWriter, NextReaderTypes, NextLatest, NextConsistent, NextMissesNothing
     DEF BufferInvariant
<1>2. BufferInvariant /\ UNCHANGED vars => BufferInvariant'
  BY DEF BufferInvariant, Pointers, WriterKnows, ReaderTypes, ReaderLatest, ReaderConsistent, Aside,
         ReaderMissesNothing, vars, writerVars, readerVars
<1> QED
  BY InitBuffer, <1>1, <1>2, PTL DEF Spec

(* Types, and put never loses one of the three buffers, for any number of  *)
(* puts.                                                                   *)
THEOREM BuffersKept == Spec => []TypeOK
<1>1. BufferInvariant => TypeOK
  BY DEF BufferInvariant, Pointers, WriterKnows, ReaderTypes, TypeOK
<1> QED
  BY BufferHolds, <1>1, PTL

(* get delivers both pieces of one record, if not more than one put began  *)
(* while it ran.                                                           *)
THEOREM RecordsConsistent == Spec => []ConsistentRecord
<1>1. BufferInvariant => ConsistentRecord
  BY DEF BufferInvariant, ReaderConsistent, ConsistentRecord
<1> QED
  BY BufferHolds, <1>1, PTL

(* get never delivers a record that is older than the last put that had    *)
(* returned when it was called, nor a piece of one, however many puts      *)
(* overtake it.                                                            *)
THEOREM RecordsLatest == Spec => []LatestRecord
<1>1. BufferInvariant => LatestRecord
  BY DEF BufferInvariant, ReaderLatest, LatestRecord
<1> QED
  BY BufferHolds, <1>1, PTL

(* getOnlyIfNewData misses no record.                                      *)
THEOREM RecordsNotMissed == Spec => []NothingMissed
<1>1. BufferInvariant => NothingMissed
  BY DEF BufferInvariant, ReaderMissesNothing, NothingMissed
<1> QED
  BY BufferHolds, <1>1, PTL
=============================================================================
