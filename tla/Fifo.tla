-------------------------------- MODULE Fifo --------------------------------
(***************************************************************************)
(* Fifo<Type, len> (fifo.h): a ring buffer without locks between one writer *)
(* and one reader, of which either may interrupt the other between any two  *)
(* accesses to the indices or to the buffer.  Copying an entry is not       *)
(* atomic: an entry that is being written holds Garbage.                    *)
(*                                                                          *)
(* The accesses happen in the order of the source; the indices are          *)
(* volatile, the buffer is not, so the compiler is trusted with the order   *)
(* of a buffer access and the index store that follows it.                  *)
(***************************************************************************)
EXTENDS Naturals, Sequences

CONSTANTS
  Values,    \* what is put
  Size,      \* len, the number of entries of the buffer
  Garbage,   \* an entry not, or not completely, written
  Refused    \* what a failed get leaves: val is untouched

ASSUME FifoAssumption ==
  /\ Size \in Nat /\ Size >= 2
  /\ Garbage \notin Values /\ Refused \notin Values /\ Refused # Garbage

VARIABLES
  buffer, writeX, readX,
  wpc,       \* where the writer is
  val,       \* what it is putting
  index,     \* its local variable of that name
  rpc,       \* where the reader is
  copy,      \* what it has copied out of the buffer
  accepted,  \* what the last put returned
  received   \* what the last get delivered

writerVars == <<wpc, val, index>>
readerVars == <<rpc, copy>>
vars == <<buffer, writeX, readX, writerVars, readerVars, accepted, received>>

Slots == 0..Size - 1

AdvanceIndex(i) == IF i < Size - 1 THEN i + 1 ELSE 0

ElementCount(r, w) == IF r <= w THEN w - r ELSE Size - r + w

Init ==
  /\ buffer = [i \in Slots |-> Garbage]
  /\ writeX = 0 /\ readX = 0
  /\ wpc = "idle" /\ val = Refused /\ index = 0
  /\ rpc = "idle" /\ copy = Refused
  /\ accepted = TRUE /\ received = Refused

-----------------------------------------------------------------------------
(* put                                                                     *)

PutBegin(v) ==
  /\ wpc = "idle"
  /\ val' = v
  /\ index' = AdvanceIndex(writeX)
  /\ wpc' = "check"
  /\ UNCHANGED <<buffer, writeX, readX, readerVars, accepted, received>>

(* Mutant: a full buffer is not noticed.                                   *)
PutCheckForgotten ==
  /\ wpc = "check"
  /\ wpc' = "write"
  /\ UNCHANGED <<buffer, writeX, readX, val, index, readerVars, accepted, received>>

(* Mutant: two entries are kept free.                                      *)
PutCheckEarly ==
  /\ wpc = "check"
  /\ IF readX \in {index, AdvanceIndex(index)}
     THEN wpc' = "idle" /\ accepted' = FALSE
     ELSE wpc' = "write" /\ UNCHANGED accepted
  /\ UNCHANGED <<buffer, writeX, readX, val, index, readerVars, received>>

(* Full: putErrors is counted and put returns false.                       *)
PutCheck ==
  /\ wpc = "check"
  /\ IF index = readX
     THEN wpc' = "idle" /\ accepted' = FALSE
     ELSE wpc' = "write" /\ UNCHANGED accepted
  /\ UNCHANGED <<buffer, writeX, readX, val, index, readerVars, received>>

WriteBegin ==
  /\ wpc = "write"
  /\ buffer' = [buffer EXCEPT ![writeX] = Garbage]
  /\ wpc' = "writing"
  /\ UNCHANGED <<writeX, readX, val, index, readerVars, accepted, received>>

WriteEnd ==
  /\ wpc = "writing"
  /\ buffer' = [buffer EXCEPT ![writeX] = val]
  /\ wpc' = "publish"
  /\ UNCHANGED <<writeX, readX, val, index, readerVars, accepted, received>>

Publish ==
  /\ wpc = "publish"
  /\ writeX' = index
  /\ accepted' = TRUE
  /\ wpc' = "idle"
  /\ UNCHANGED <<buffer, readX, val, index, readerVars, received>>

-----------------------------------------------------------------------------
(* get                                                                     *)

(* Empty: getErrors is counted, get returns false, val is untouched.       *)
GetCheck ==
  /\ rpc = "idle"
  /\ IF readX = writeX
     THEN received' = Refused /\ UNCHANGED rpc
     ELSE rpc' = "read" /\ UNCHANGED received
  /\ UNCHANGED <<buffer, writeX, readX, writerVars, copy, accepted>>

Read ==
  /\ rpc = "read"
  /\ copy' = buffer[readX]
  /\ rpc' = "advance"
  /\ UNCHANGED <<buffer, writeX, readX, writerVars, accepted, received>>

Advance ==
  /\ rpc = "advance"
  /\ readX' = AdvanceIndex(readX)
  /\ received' = copy
  /\ rpc' = "idle"
  /\ UNCHANGED <<buffer, writeX, writerVars, copy, accepted>>

(* clear(), by whoever has the fifo for itself.                            *)
Clear ==
  /\ wpc = "idle" /\ rpc = "idle"
  /\ readX' = 0 /\ writeX' = 0
  /\ UNCHANGED <<buffer, writerVars, readerVars, accepted, received>>

-----------------------------------------------------------------------------
Writer ==
  \/ \E v \in Values : PutBegin(v)
  \/ PutCheck \/ WriteBegin \/ WriteEnd \/ Publish

Reader == GetCheck \/ Read \/ Advance

Next == Writer \/ Reader \/ Clear

Spec == Init /\ [][Next]_vars

-----------------------------------------------------------------------------
(* Type correctness.                                                       *)
TypeOK ==
  /\ buffer \in [Slots -> Values \cup {Garbage}]
  /\ writeX \in Slots /\ readX \in Slots /\ index \in Slots
  /\ wpc \in {"idle", "check", "write", "writing", "publish"}
  /\ val \in Values \cup {Refused}
  /\ rpc \in {"idle", "read", "advance"}
  /\ copy \in Values \cup {Garbage, Refused}
  /\ accepted \in BOOLEAN
  /\ received \in Values \cup {Refused}

(* Reader and writer are never in the same entry at the same time: while   *)
(* one writes an entry the other does not read it.                         *)
NoSharedEntry ==
  wpc \in {"write", "writing", "publish"} /\ rpc \in {"read", "advance"} => writeX # readX

(* The queue the ring represents: the entries from readX up to writeX.     *)
Entry(r, k) == IF r + k < Size THEN r + k ELSE r + k - Size
Contents == [k \in 1..ElementCount(readX, writeX) |-> buffer[Entry(readX, k - 1)]]

Queue == INSTANCE BoundedQueue WITH queue <- Contents, Capacity <- Size - 1

(* The ring implements the queue: put appends, get takes the head, a put is *)
(* refused only when full and a get only when empty, at some moment during  *)
(* the call.                                                                *)
QueueSpec == Queue!Spec

(* Everything between readX and writeX has been written completely.        *)
ContentsWritten == \A k \in DOMAIN Contents : Contents[k] \in Values

(* What the proofs need besides: what each side knows at each of its steps.*)
WriterKnows ==
  /\ wpc # "idle" => val \in Values /\ index = AdvanceIndex(writeX)
  /\ wpc \in {"write", "writing", "publish"} => index # readX
  /\ wpc = "publish" => buffer[writeX] = val

ReaderKnows ==
  /\ rpc # "idle" => readX # writeX
  /\ rpc = "advance" => copy = buffer[readX]

Invariant == TypeOK /\ WriterKnows /\ ReaderKnows /\ ContentsWritten
=============================================================================
