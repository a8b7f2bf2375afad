---------------------------- MODULE BoundedQueue ----------------------------
(***************************************************************************)
(* What a Fifo promises to its one writer and its one reader, whatever the  *)
(* interleaving of their steps: a queue with atomic operations, which       *)
(* refuses a put only when it is full and a get only when it is empty.      *)
(***************************************************************************)
EXTENDS Naturals, Sequences

CONSTANTS
  Values,    \* what is put
  Capacity,  \* how many values the queue holds
  Refused    \* the answer to a get from an empty queue

VARIABLES
  queue,     \* the values put and not yet gotten
  accepted,  \* what the last put returned
  received   \* what the last get delivered

vars == <<queue, accepted, received>>

Init ==
  /\ queue = <<>>
  /\ accepted = TRUE
  /\ received = Refused

Put(v) ==
  /\ Len(queue) < Capacity
  /\ queue' = Append(queue, v)
  /\ accepted' = TRUE
  /\ UNCHANGED received

PutRefused ==
  /\ Len(queue) = Capacity
  /\ accepted' = FALSE
  /\ UNCHANGED <<queue, received>>

Get ==
  /\ queue # <<>>
  /\ received' = Head(queue)
  /\ queue' = Tail(queue)
  /\ UNCHANGED accepted

GetRefused ==
  /\ queue = <<>>
  /\ received' = Refused
  /\ UNCHANGED <<queue, accepted>>

(* A BlockFifo appends and removes several values at once.                 *)
PutBlock ==
  /\ Len(queue') > Len(queue) /\ Len(queue') <= Capacity
  /\ SubSeq(queue', 1, Len(queue)) = queue
  /\ \A k \in Len(queue) + 1..Len(queue') : queue'[k] \in Values
  /\ accepted' = TRUE
  /\ UNCHANGED received

GetBlock ==
  /\ \E n \in 1..Len(queue) : queue' = SubSeq(queue, n + 1, Len(queue))
  /\ UNCHANGED <<accepted, received>>

Clear ==
  /\ queue' = <<>>
  /\ UNCHANGED <<accepted, received>>

Next ==
  \/ \E v \in Values : Put(v)
  \/ PutRefused
  \/ Get
  \/ GetRefused
  \/ PutBlock
  \/ GetBlock
  \/ Clear

Spec == Init /\ [][Next]_vars
=============================================================================
