------------------------------ MODULE BlockFifo -----------------------------
(***************************************************************************)
(* BlockFifo<Type, len> (fifo.h): a Fifo that also lends its buffer.  The   *)
(* writer gets a pointer and the number of entries it may write there, and  *)
(* says later how many it has written; so does the reader (in RODOS these   *)
(* are UART drivers and their DMA).  The operations of Fifo stay available. *)
(***************************************************************************)
EXTENDS Fifo

VARIABLES
  room,      \* maxLen of getBufferToWrite, 0 when the writer has no block
  written,   \* how many entries of it are written
  filling,   \* the next one is half written
  avail,     \* maxLen of getBufferToRead, 0 when the reader has no block
  taken      \* what the reader has copied out of it

blockVars == <<room, written, filling, avail, taken>>

BlockInit ==
  /\ Init
  /\ room = 0 /\ written = 0 /\ filling = FALSE
  /\ avail = 0 /\ taken = <<>>

AdvanceIndexEx(i, n) == (i + n) % Size

-----------------------------------------------------------------------------
(* The entries up to the reader's, or up to the end of the buffer.         *)

(* Mutant: always up to the end of the buffer.                             *)
RoomToEnd(r, w) == Size - w

Room(r, w) ==
  CASE r > w -> r - w - 1
    [] r = 0 -> Size - w - 1
    [] OTHER -> Size - w

GetBufferToWrite ==
  /\ wpc = "idle" /\ room = 0
  /\ IF readX = AdvanceIndex(writeX)
     THEN accepted' = FALSE /\ UNCHANGED room
     ELSE room' = Room(readX, writeX) /\ UNCHANGED accepted
  /\ UNCHANGED <<buffer, writeX, readX, writerVars, readerVars, received, written, filling, avail, taken>>

FillBegin ==
  /\ written < room /\ ~filling
  /\ buffer' = [buffer EXCEPT ![writeX + written] = Garbage]
  /\ filling' = TRUE
  /\ UNCHANGED <<writeX, readX, writerVars, readerVars, accepted, received, room, written, avail, taken>>

FillEnd(v) ==
  /\ filling
  /\ buffer' = [buffer EXCEPT ![writeX + written] = v]
  /\ written' = written + 1
  /\ filling' = FALSE
  /\ UNCHANGED <<writeX, readX, writerVars, readerVars, accepted, received, room, avail, taken>>

WriteConcluded ==
  /\ room > 0 /\ ~filling
  /\ writeX' = AdvanceIndexEx(writeX, written)
  /\ accepted' = IF written = 0 THEN accepted ELSE TRUE
  /\ room' = 0 /\ written' = 0
  /\ UNCHANGED <<buffer, readX, writerVars, readerVars, received, filling, avail, taken>>

-----------------------------------------------------------------------------
(* Mutant: the block reaches up to the writer although it has wrapped.     *)
AvailableAll(r, w) == ElementCount(r, w)

Available(r, w) == IF r < w THEN w - r ELSE Size - r

GetBufferToRead ==
  /\ rpc = "idle" /\ avail = 0
  /\ IF readX = writeX
     THEN received' = Refused /\ UNCHANGED avail
     ELSE avail' = Available(readX, writeX) /\ UNCHANGED received
  /\ UNCHANGED <<buffer, writeX, readX, writerVars, readerVars, accepted, room, written, filling, taken>>

TakeEntry ==
  /\ Len(taken) < avail
  /\ taken' = Append(taken, buffer[readX + Len(taken)])
  /\ UNCHANGED <<buffer, writeX, readX, writerVars, readerVars, accepted, received, room, written,
                 filling, avail>>

ReadConcluded ==
  /\ avail > 0
  /\ readX' = AdvanceIndexEx(readX, Len(taken))
  /\ avail' = 0 /\ taken' = <<>>
  /\ UNCHANGED <<buffer, writeX, writerVars, readerVars, accepted, received, room, written, filling>>

-----------------------------------------------------------------------------
BlockWriter ==
  \/ GetBufferToWrite \/ FillBegin \/ WriteConcluded
  \/ \E v \in Values : FillEnd(v)

BlockReader == GetBufferToRead \/ TakeEntry \/ ReadConcluded

BlockNext ==
  \/ BlockWriter
  \/ BlockReader
  \/ room = 0 /\ Writer /\ UNCHANGED blockVars
  \/ avail = 0 /\ Reader /\ UNCHANGED blockVars
  \/ room = 0 /\ avail = 0 /\ Clear /\ UNCHANGED blockVars

BlockSpec == BlockInit /\ [][BlockNext]_<<vars, blockVars>>

-----------------------------------------------------------------------------
(* Types: the blocks lie within the buffer.                                *)
BlockTypeOK ==
  /\ room \in 0..Size - writeX /\ written \in 0..room /\ filling \in BOOLEAN
  /\ avail \in 0..Size - readX /\ Len(taken) \in 0..avail

(* The entries lent to the writer and those lent to the reader are         *)
(* different ones, whatever the other side did since they were lent, and   *)
(* lie within the buffer.                                                  *)
BlocksApart ==
  /\ BlockTypeOK
  /\ (writeX..writeX + room - 1) \cap (readX..readX + avail - 1) = {}

(* What the reader copies are the oldest values of the queue, in order.    *)
TakenFromHead ==
  Len(taken) <= Len(Contents) /\ \A k \in DOMAIN taken : taken[k] = Contents[k]
=============================================================================
