----------------------------- MODULE CommBuffer -----------------------------
(***************************************************************************)
(* CommBuffer<Type> (commbuffer.h): three buffers between one writer and    *)
(* one reader, without locks.  Either side may be interrupted by the other  *)
(* after every access to what they share.  A record is copied in two        *)
(* pieces, each holding the number of the put it came from.                 *)
(***************************************************************************)
EXTENDS Naturals

CONSTANTS
  MaxPuts,     \* bound: number of puts
  PutsPerGet   \* how many puts may begin while a get is under way

ASSUME CommBufferAssumption == MaxPuts \in Nat /\ PutsPerGet \in Nat

VARIABLES
  buffer,                        \* buffer[3]: both pieces of each record
  writer, reader, intermediate,  \* the pointers, as indices of buffer
  readingNow, newDataAvailable,
  writeCnt,                      \* number of puts begun
  finished,                      \* number of puts that have returned
  wpc,                           \* where the writer is
  swap,                          \* its local variable of that name
  rpc,                           \* where the reader is
  readerTmp, copy,               \* its local pointer and its copy of the record
  due,                           \* finished when the get began
  during                         \* number of puts begun during the get

writerVars == <<writer, intermediate, writeCnt, finished, wpc, swap>>
readerVars == <<rpc, readerTmp, copy, due>>
vars == <<buffer, reader, readingNow, newDataAvailable, writerVars, readerVars, during>>

Init ==
  /\ buffer = [b \in 0..2 |-> <<0, 0>>]
  /\ writer = 0 /\ reader = 1 /\ intermediate = 2
  /\ readingNow = FALSE /\ newDataAvailable = FALSE
  /\ writeCnt = 0 /\ finished = 0
  /\ wpc = "idle" /\ swap = 0
  /\ rpc = "idle" /\ readerTmp = 0 /\ copy = <<0, 0>>
  /\ due = 0 /\ during = 0

-----------------------------------------------------------------------------
(* put, and putZero, which is a put of the zero record.                    *)

Put ==
  /\ wpc = "idle" /\ writeCnt < MaxPuts
  /\ rpc # "idle" => during < PutsPerGet
  /\ during' = IF rpc = "idle" THEN 0 ELSE during + 1
  /\ writeCnt' = writeCnt + 1
  /\ buffer' = [buffer EXCEPT ![writer][1] = writeCnt']
  /\ wpc' = "write"
  /\ UNCHANGED <<writer, intermediate, finished, swap, reader, readingNow, newDataAvailable, readerVars>>

PutWritten ==
  /\ wpc = "write"
  /\ buffer' = [buffer EXCEPT ![writer][2] = writeCnt]
  /\ wpc' = "swap"
  /\ UNCHANGED <<reader, readingNow, newDataAvailable, writer, intermediate, writeCnt, finished, swap,
                 readerVars, during>>

(* Mutant: the reader's pointer is left alone.                             *)
PutSwapForgotten ==
  /\ wpc = "swap"
  /\ swap' = writer
  /\ wpc' = "test"
  /\ UNCHANGED <<buffer, reader, readingNow, newDataAvailable, writer, intermediate, writeCnt, finished,
                 readerVars, during>>

PutSwap ==
  /\ wpc = "swap"
  /\ swap' = reader
  /\ reader' = writer
  /\ wpc' = "test"
  /\ UNCHANGED <<buffer, readingNow, newDataAvailable, writer, intermediate, writeCnt, finished,
                 readerVars, during>>

(* Mutant: the buffer being read is not put aside.                         *)
PutTestForgotten ==
  /\ wpc = "test"
  /\ writer' = swap
  /\ wpc' = "flag"
  /\ UNCHANGED <<buffer, reader, readingNow, newDataAvailable, intermediate, writeCnt, finished, swap,
                 readerVars, during>>

(* Mutant: the intermediate pointer is not exchanged.                      *)
PutTestHalf ==
  /\ wpc = "test"
  /\ writer' = IF readingNow THEN intermediate ELSE swap
  /\ wpc' = "flag"
  /\ UNCHANGED <<buffer, reader, readingNow, newDataAvailable, intermediate, writeCnt, finished, swap,
                 readerVars, during>>

(* "Buffer being read now? Then take the intermediate buffer"              *)
PutTest ==
  /\ wpc = "test"
  /\ IF readingNow
     THEN writer' = intermediate /\ intermediate' = swap
     ELSE writer' = swap /\ UNCHANGED intermediate
  /\ wpc' = "flag"
  /\ UNCHANGED <<buffer, reader, readingNow, newDataAvailable, writeCnt, finished, swap, readerVars, during>>

PutEnd ==
  /\ wpc = "flag"
  /\ newDataAvailable' = TRUE
  /\ finished' = writeCnt
  /\ wpc' = "idle"
  /\ UNCHANGED <<buffer, reader, readingNow, writer, intermediate, writeCnt, swap, readerVars, during>>

-----------------------------------------------------------------------------
(* get, and getOnlyIfNewData, which calls it only if newDataAvailable.     *)

Get ==
  /\ rpc = "idle"
  /\ newDataAvailable' = FALSE
  /\ due' = finished
  /\ during' = 0
  /\ rpc' = "flag"
  /\ UNCHANGED <<buffer, reader, readingNow, writerVars, readerTmp, copy>>

GetFlag ==
  /\ rpc = "flag"
  /\ readingNow' = TRUE
  /\ rpc' = "pointer"
  /\ UNCHANGED <<buffer, reader, newDataAvailable, writerVars, readerTmp, copy, due, during>>

GetPointer ==
  /\ rpc = "pointer"
  /\ readerTmp' = reader
  /\ rpc' = "first"
  /\ UNCHANGED <<buffer, reader, readingNow, newDataAvailable, writerVars, copy, due, during>>

GetFirst ==
  /\ rpc = "first"
  /\ copy' = <<buffer[readerTmp][1], 0>>
  /\ rpc' = "second"
  /\ UNCHANGED <<buffer, reader, readingNow, newDataAvailable, writerVars, readerTmp, due, during>>

GetSecond ==
  /\ rpc = "second"
  /\ copy' = <<copy[1], buffer[readerTmp][2]>>
  /\ rpc' = "end"
  /\ UNCHANGED <<buffer, reader, readingNow, newDataAvailable, writerVars, readerTmp, due, during>>

(* Mutant: newDataAvailable is cleared when the record has been read.      *)
GetEndClears ==
  /\ rpc = "end"
  /\ readingNow' = FALSE
  /\ newDataAvailable' = FALSE
  /\ rpc' = "idle"
  /\ UNCHANGED <<buffer, reader, writerVars, readerTmp, copy, due, during>>

GetEnd ==
  /\ rpc = "end"
  /\ readingNow' = FALSE
  /\ rpc' = "idle"
  /\ UNCHANGED <<buffer, reader, newDataAvailable, writerVars, readerTmp, copy, due, during>>

-----------------------------------------------------------------------------
Writer == Put \/ PutWritten \/ PutSwap \/ PutTest \/ PutEnd
Reader == Get \/ GetFlag \/ GetPointer \/ GetFirst \/ GetSecond \/ GetEnd

Next == Writer \/ Reader

Spec == Init /\ [][Next]_vars

-----------------------------------------------------------------------------
(* Type correctness; the three pointers point to three buffers, except     *)
(* while put exchanges them.                                               *)
TypeOK ==
  /\ buffer \in [0..2 -> (0..MaxPuts) \X (0..MaxPuts)]
  /\ writer \in 0..2 /\ reader \in 0..2 /\ intermediate \in 0..2
  /\ wpc # "test" => {writer, reader, intermediate} = 0..2
  /\ readingNow \in BOOLEAN /\ newDataAvailable \in BOOLEAN
  /\ writeCnt \in 0..MaxPuts /\ finished \in 0..MaxPuts
  /\ wpc \in {"idle", "write", "swap", "test", "flag"} /\ swap \in 0..2
  /\ rpc \in {"idle", "flag", "pointer", "first", "second", "end"}
  /\ readerTmp \in 0..2 /\ copy \in (0..MaxPuts) \X (0..MaxPuts)
  /\ due \in 0..MaxPuts /\ during \in 0..MaxPuts

(* "both sides (reader/writer) can work simultaneously and the data will   *)
(* be always consistent": what get delivers was put by one put, as long as *)
(* not more than one put begins while it copies (the next one but one      *)
(* takes the buffer that is being read).                                   *)
ConsistentRecord == rpc = "end" /\ during <= 1 => copy[1] = copy[2]

(* "Each time the reader reads, it gets the latest data written": no older *)
(* than the last put that had returned when get was called, and no piece   *)
(* of it is, however many puts overtake the get.                           *)
LatestRecord == rpc = "end" => copy[1] >= due /\ copy[2] >= due

(* getOnlyIfNewData misses nothing: when both sides are at rest and no new *)
(* data is announced, the reader has the record of the last put.           *)
NothingMissed ==
  wpc = "idle" /\ rpc = "idle" /\ ~newDataAvailable => copy = <<writeCnt, writeCnt>>
=============================================================================
