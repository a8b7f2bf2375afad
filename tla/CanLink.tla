------------------------------- MODULE CanLink ------------------------------
(***************************************************************************)
(* LinkinterfaceCAN (linkinterfacecan.cpp): messages are sent in frames of  *)
(* a few bytes, the frames of several senders mix on the bus, and the       *)
(* receiver puts one message together at a time; frames with other ids wait *)
(* in a pool of buffers.  Only the first frame of a message says how long   *)
(* it is, frames carry no number of their message, and the receiver         *)
(* computes the checksum of what it has put together itself.                *)
(*                                                                          *)
(* Frames are lost on the bus or in the driver's queue, a sender gives up   *)
(* when the driver reports an error, and the pool overflows.  A sender uses *)
(* one CAN id (one topic): what counts is which ids mix.                    *)
(***************************************************************************)
EXTENDS Integers, Sequences, SequencesExt, FiniteSets

CONSTANTS
  Senders,       \* the senders, each with its CAN id
  None,          \* currentReceiveCANId = 0
  BufferSize,    \* CAN_MSG_BUFFER_SIZE
  FirstBytes,    \* data bytes of the first frame (5)
  FrameBytes,    \* data bytes of every other frame (7)
  Lengths,       \* lengths of messages
  MaxMessages,   \* bound: how many messages each sender sends
  MaxWaiting,    \* bound: how many frames wait in the receiver's driver
  MaxFaults      \* bound: how many frames are lost or not sent

(* receiveCANMessage: "We assume here that linked list bufferedCANMsgs has *)
(* at least two entries".                                                  *)
ASSUME CanAssumption ==
  /\ BufferSize \in Nat /\ BufferSize >= 2
  /\ FirstBytes \in Nat \ {0} /\ FrameBytes \in Nat \ {0}
  /\ Lengths \subseteq Nat
  /\ {MaxMessages, MaxWaiting, MaxFaults} \subseteq Nat
  /\ None \notin Senders

VARIABLES
  sending,    \* of each sender: the message in sendNetworkMsg, its frames left
  sent,       \* of each sender: the lengths of its messages so far
  arrived,    \* frames in the receiver's CAN driver
  state,      \* where getNetworkMsg is: "out", "scan" or "receive"
  current,    \* currentReceiveCANId
  assembled,  \* the frames of currentMsg: sequenceCounter is their number
  bytesReceived,
  buffered,   \* bufferedCANMsgs
  free,       \* emptyBufferedCANMessagesPos + 1
  delivered,  \* of each sender: the messages getNetworkMsg has returned
  lost,       \* frames that never reached the message
  faults      \* how many of them the bus or the driver has lost

vars == <<sending, sent, arrived, state, current, assembled, bytesReceived, buffered, free,
          delivered, lost, faults>>
senderVars == <<sending, sent>>
messageVars == <<current, assembled, bytesReceived, delivered>>
receiverVars == <<state, messageVars, buffered, free>>

-----------------------------------------------------------------------------
(* The frames of a message of this length: how many, and what each holds.  *)
NumberOfFrames(len) ==
  IF len = 0 THEN 0
  ELSE IF len <= FirstBytes THEN 1 ELSE 2 + (len - FirstBytes - 1) \div FrameBytes

BytesIn(len, sequence) ==
  LET before == IF sequence = 0 THEN 0 ELSE FirstBytes + (sequence - 1) * FrameBytes
      room == IF sequence = 0 THEN FirstBytes ELSE FrameBytes
  IN IF len - before < room THEN len - before ELSE room

(* Only id, sequence and bytes are on the bus, and len in the first frame. *)
Frame(s, number, sequence) ==
  [id |-> s, number |-> number, len |-> sent[s][number], sequence |-> sequence,
   bytes |-> BytesIn(sent[s][number], sequence)]

FramesOf(s, number) ==
  [i \in 1..NumberOfFrames(sent[s][number]) |-> Frame(s, number, i - 1)]

Init ==
  /\ sending = [s \in Senders |-> <<>>]
  /\ sent = [s \in Senders |-> <<>>]
  /\ arrived = <<>>
  /\ state = "out"
  /\ current = None
  /\ assembled = <<>>
  /\ bytesReceived = 0
  /\ buffered = <<>>
  /\ free = BufferSize
  /\ delivered = [s \in Senders |-> <<>>]
  /\ lost = {}
  /\ faults = 0

-----------------------------------------------------------------------------
(* sendNetworkMsg.  A message without data has no frame at all.            *)
SendNetworkMsg(s, len) ==
  /\ sending[s] = <<>> /\ Len(sent[s]) < MaxMessages
  /\ sent' = [sent EXCEPT ![s] = Append(@, len)]
  /\ sending' = [sending EXCEPT ![s] =
       [i \in 1..NumberOfFrames(len) |->
          [id |-> s, number |-> Len(sent[s]) + 1, len |-> len, sequence |-> i - 1,
           bytes |-> BytesIn(len, i - 1)]]]
  /\ UNCHANGED <<arrived, receiverVars, lost, faults>>

(* can.write takes a frame, and it reaches the driver of the receiver.     *)
WriteFrame(s) ==
  /\ sending[s] # <<>> /\ Len(arrived) < MaxWaiting
  /\ arrived' = Append(arrived, Head(sending[s]))
  /\ sending' = [sending EXCEPT ![s] = Tail(@)]
  /\ UNCHANGED <<sent, receiverVars, lost, faults>>

LoseFrame(s) ==
  /\ sending[s] # <<>> /\ faults < MaxFaults
  /\ lost' = lost \cup {Head(sending[s])}
  /\ faults' = faults + 1
  /\ sending' = [sending EXCEPT ![s] = Tail(@)]
  /\ UNCHANGED <<sent, arrived, receiverVars>>

(* The driver has no room and reports an error: "return false".            *)
WriteError(s) ==
  /\ sending[s] # <<>> /\ faults < MaxFaults
  /\ lost' = lost \cup ToSet(sending[s])
  /\ faults' = faults + 1
  /\ sending' = [sending EXCEPT ![s] = <<>>]
  /\ UNCHANGED <<sent, arrived, receiverVars>>

-----------------------------------------------------------------------------
(* appendCANMsgToCurrentNetMsg.  A frame that does not continue the        *)
(* message is dropped, and the message goes on waiting; the first frame of *)
(* a message drops what there was.                                         *)

Received(f) == (IF f.sequence = 0 THEN 0 ELSE bytesReceived) + f.bytes

(* Mutant: the length in the first frame is counted as data.               *)
CompleteWithHeader(frames, f) == Received(f) + 2 >= frames[1].len

Complete(frames, f) == Received(f) >= frames[1].len

Continues(f) ==
  f.sequence = 0 \/ (current # None /\ f.id = current /\ f.sequence = Len(assembled))

AppendCANMsg(f, stolen) ==
  LET frames == IF f.sequence = 0 THEN <<f>> ELSE Append(assembled, f)
      dropped == IF f.sequence = 0 THEN ToSet(assembled) ELSE {}
  IN \/ /\ ~Continues(f)
        /\ lost' = lost \cup stolen \cup {f}
        /\ UNCHANGED <<state, messageVars>>
     \/ /\ Continues(f) /\ ~Complete(frames, f)
        /\ lost' = lost \cup stolen \cup dropped
        /\ current' = f.id
        /\ assembled' = frames
        /\ bytesReceived' = Received(f)
        /\ UNCHANGED <<state, delivered>>
     \/ /\ Continues(f) /\ Complete(frames, f)
        /\ lost' = lost \cup stolen \cup dropped
        /\ current' = None
        /\ assembled' = <<>>
        /\ bytesReceived' = 0
        /\ delivered' = [delivered EXCEPT ![f.id] = Append(@, frames)]
        /\ state' = "out"

(* getNetworkMsg: the gateway's thread calls it again and again.  The      *)
(* buffered frames are looked at only if no message is being received.     *)

(* Mutant: the buffered frames are never looked at.                        *)
GetNetworkMsgNoScan ==
  /\ state = "out"
  /\ state' = "receive"
  /\ UNCHANGED <<senderVars, arrived, messageVars, buffered, free, lost, faults>>

GetNetworkMsg ==
  /\ state = "out"
  /\ state' = IF current = None THEN "scan" ELSE "receive"
  /\ UNCHANGED <<senderVars, arrived, messageVars, buffered, free, lost, faults>>

(* Every frame that belongs to the message is taken out of the buffer; the *)
(* ones passed over stay there.                                            *)
Belongs(f) == current = None \/ f.id = current

ScanTake ==
  /\ state = "scan"
  /\ LET i == SelectInSeq(buffered, Belongs) IN
     /\ i # 0
     /\ buffered' = RemoveAt(buffered, i)
     /\ free' = free + 1
     /\ AppendCANMsg(buffered[i], {})
  /\ UNCHANGED <<senderVars, arrived, faults>>

(* Mutant: one frame of the buffer is looked at, not all.                  *)
ScanEndEarly ==
  /\ state = "scan"
  /\ state' = "receive"
  /\ UNCHANGED <<senderVars, arrived, messageVars, buffered, free, lost, faults>>

ScanEnd ==
  /\ state = "scan"
  /\ SelectInSeq(buffered, Belongs) = 0
  /\ state' = "receive"
  /\ UNCHANGED <<senderVars, arrived, messageVars, buffered, free, lost, faults>>

(* receiveCANMessage takes a free buffer, or steals the last frame that is *)
(* waiting, before it knows whether there is anything to read.             *)
Kept == IF free = 0 THEN Front(buffered) ELSE buffered
Stolen == IF free = 0 THEN {Last(buffered)} ELSE {}

(* Mutant: the buffer of a frame that is appended is not given back.       *)
ReadAppendKeepsBuffer ==
  /\ state = "receive" /\ arrived # <<>> /\ Belongs(Head(arrived))
  /\ arrived' = Tail(arrived)
  /\ buffered' = Kept
  /\ free' = IF free = 0 THEN 0 ELSE free - 1
  /\ AppendCANMsg(Head(arrived), Stolen)
  /\ UNCHANGED <<senderVars, faults>>

ReadAppend ==
  /\ state = "receive" /\ arrived # <<>> /\ Belongs(Head(arrived))
  /\ arrived' = Tail(arrived)
  /\ buffered' = Kept
  /\ free' = IF free = 0 THEN 1 ELSE free
  /\ AppendCANMsg(Head(arrived), Stolen)
  /\ UNCHANGED <<senderVars, faults>>

ReadBuffer ==
  /\ state = "receive" /\ arrived # <<>> /\ ~Belongs(Head(arrived))
  /\ arrived' = Tail(arrived)
  /\ buffered' = Append(Kept, Head(arrived))
  /\ free' = IF free = 0 THEN 0 ELSE free - 1
  /\ lost' = lost \cup Stolen
  /\ UNCHANGED <<senderVars, state, messageVars, faults>>

(* can.read has nothing: what was stolen is lost for nothing.              *)
ReadNothing ==
  /\ state = "receive" /\ arrived = <<>>
  /\ buffered' = Kept
  /\ free' = IF free = 0 THEN 1 ELSE free
  /\ lost' = lost \cup Stolen
  /\ state' = "out"
  /\ UNCHANGED <<senderVars, arrived, messageVars, faults>>

Receiver == GetNetworkMsg \/ ScanTake \/ ScanEnd \/ ReadAppend \/ ReadBuffer \/ ReadNothing

Next ==
  \/ \E s \in Senders :
       \/ \E len \in Lengths : SendNetworkMsg(s, len)
       \/ WriteFrame(s) \/ LoseFrame(s) \/ WriteError(s)
  \/ Receiver

Spec == Init /\ [][Next]_vars

(* The gateway's thread wakes up at the latest after a second, and a       *)
(* sender within sendNetworkMsg writes until it has done or gives up.      *)
Fairness == WF_vars(Receiver) /\ \A s \in Senders : WF_vars(WriteFrame(s))

FairSpec == Spec /\ Fairness

-----------------------------------------------------------------------------
(* Type correctness; the assertions of the code on the range of            *)
(* emptyBufferedCANMessagesPos are part of it.                             *)
TypeOK ==
  /\ \A s \in Senders : Len(sent[s]) <= MaxMessages
  /\ state \in {"out", "scan", "receive"}
  /\ current \in Senders \cup {None}
  /\ (current = None) = (assembled = <<>>)
  /\ free \in 0..BufferSize
  /\ Len(arrived) <= MaxWaiting
  /\ faults \in 0..MaxFaults

(* Every buffer of the pool is either free or in the list of buffered      *)
(* frames, whatever was stolen: none gets lost, none is used twice.        *)
PoolExact == TypeOK /\ free + Len(buffered) = BufferSize

(* What getNetworkMsg returns is one message, whole and as it was sent,    *)
(* whatever was lost, stolen and mixed, with one exception that the        *)
(* receiver cannot tell: the first frame of a later message with the same  *)
(* id was lost, and its other frames complete an earlier one.              *)
Intact ==
  \A s \in Senders : \A message \in ToSet(delivered[s]) :
    LET n == message[1].number IN
    \/ message = FramesOf(s, n)
    \/ \E later \in (n + 1)..Len(sent[s]) :
         NumberOfFrames(sent[s][later]) > 0 /\ Frame(s, later, 0) \in lost

(* The messages of a sender are returned in the order in which they were   *)
(* sent, and none twice.                                                   *)
InOrder ==
  \A s \in Senders : \A i, j \in DOMAIN delivered[s] :
    i < j => delivered[s][i][1].number < delivered[s][j][1].number

(* A message with data is returned at last, unless a frame of it is lost   *)
(* or the receiver waits for a frame that was lost of another message: one *)
(* sender's lost frame holds up all the others.                            *)
HeldUp ==
  /\ current # None
  /\ \E f \in lost : f.id = current /\ f.number = assembled[1].number
EventuallyDelivered ==
  \A s \in Senders, n \in 1..MaxMessages :
    []<>(n <= Len(sent[s]) /\ NumberOfFrames(sent[s][n]) > 0 =>
           \/ \E message \in ToSet(delivered[s]) : message[1].number = n
           \/ \E f \in lost : f.id = s /\ f.number = n
           \/ HeldUp)
=============================================================================
