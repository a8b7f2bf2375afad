---------------------------- MODULE CanLink_proofs ---------------------------
(***************************************************************************)
(* The pool of buffers is exact and the messages of a sender are returned   *)
(* in order, none twice and whole, for any number of senders, messages,     *)
(* losses and buffers: what a sender has sent stays in order on its way     *)
(* through the driver, the pool and the message that is put together, and   *)
(* a frame is looked at after the first frame of its message.               *)
(***************************************************************************)
EXTENDS CanLink, WellFoundedInduction, TLAPS

Frames == [id : Senders, number : Nat, len : Nat, sequence : Nat, bytes : Int]

PathTypes ==
  /\ sent \in [Senders -> Seq(Nat)]
  /\ sending \in [Senders -> Seq(Frames)]
  /\ arrived \in Seq(Frames) /\ buffered \in Seq(Frames) /\ assembled \in Seq(Frames)
  /\ delivered \in [Senders -> Seq(Seq(Frames))]
  /\ state \in {"out", "scan", "receive"}
  /\ current \in Senders \cup {None}
  /\ free \in Nat /\ faults \in 0..MaxFaults
  /\ Len(arrived) <= MaxWaiting
  /\ \A s \in Senders : Len(sent[s]) <= MaxMessages

Pool == free + Len(buffered) = BufferSize

(* The message that is put together begins with a first frame.             *)
Assembling ==
  /\ current = None <=> assembled = <<>>
  /\ current # None => assembled[1].id = current /\ assembled[1].sequence = 0

(* No frame that waits in the pool belongs to the message, but while the   *)
(* pool is scanned; nothing waits while no message is received.            *)
PoolScanned ==
  /\ current # None /\ state # "scan" => \A i \in DOMAIN buffered : buffered[i].id # current
  /\ current = None /\ state = "receive" => buffered = <<>>

(* f was sent before g, if it was by the same sender.                      *)
Earlier(f, g) ==
  f.id = g.id => f.number < g.number \/ (f.number = g.number /\ f.sequence < g.sequence)

(* What the receiver has not looked at yet is in order.                    *)
SendersOrder ==
  \A s \in Senders :
    /\ \A i \in DOMAIN sending[s] :
         /\ sending[s][i].id = s /\ sending[s][i].number = Len(sent[s])
         /\ \A j \in DOMAIN sending[s] : i < j => Earlier(sending[s][i], sending[s][j])
    /\ \A i \in DOMAIN arrived, j \in DOMAIN sending[s] : Earlier(arrived[i], sending[s][j])
    /\ \A i \in DOMAIN buffered, j \in DOMAIN sending[s] : Earlier(buffered[i], sending[s][j])
WaitingOrder ==
  /\ \A i \in DOMAIN arrived : arrived[i].number <= Len(sent[arrived[i].id])
  /\ \A i \in DOMAIN buffered : buffered[i].number <= Len(sent[buffered[i].id])
  /\ \A i, j \in DOMAIN arrived : i < j => Earlier(arrived[i], arrived[j])
  /\ \A i, j \in DOMAIN buffered : i < j => Earlier(buffered[i], buffered[j])
  /\ \A i \in DOMAIN buffered, j \in DOMAIN arrived : Earlier(buffered[i], arrived[j])

(* All frames that are still to be looked at were sent later than f.       *)
BeforeAll(f) ==
  /\ f.number <= Len(sent[f.id])
  /\ \A s \in Senders : \A i \in DOMAIN sending[s] : Earlier(f, sending[s][i])
  /\ \A i \in DOMAIN arrived : Earlier(f, arrived[i])
  /\ \A i \in DOMAIN buffered : Earlier(f, buffered[i])

(* So are they than what was delivered and than what is put together.      *)
ReceivedOrder ==
  /\ current # None => \A f \in {assembled[1]} : BeforeAll(f)
  /\ \A s \in Senders : \A i \in DOMAIN delivered[s] :
       /\ delivered[s][i] # <<>> /\ delivered[s][i][1].id = s /\ delivered[s][i][1].sequence = 0
       /\ \A f \in {delivered[s][i][1]} : BeforeAll(f)
       /\ current = s => delivered[s][i][1].number < assembled[1].number

LinkInvariant ==
  /\ PathTypes /\ Pool /\ Assembling /\ PoolScanned
  /\ SendersOrder /\ WaitingOrder /\ ReceivedOrder /\ InOrder

-----------------------------------------------------------------------------
(* Sequences from which something was taken.                               *)

(* r is what is left of q: the same elements in the same order.            *)
Thinned(r, q) ==
  /\ \A j \in DOMAIN r : \E i \in DOMAIN q : r[j] = q[i]
  /\ \A j, k \in DOMAIN r : j < k => \E i, l \in DOMAIN q : i < l /\ r[j] = q[i] /\ r[k] = q[l]

(* Nothing was taken.                                                      *)
LEMMA ThinnedSame == ASSUME NEW q PROVE Thinned(q, q)
BY DEF Thinned

(* The first element was taken.                                            *)
LEMMA ThinnedTail ==
  ASSUME NEW S, NEW q \in Seq(S), q # <<>>
  PROVE  /\ Tail(q) \in Seq(S) /\ Len(Tail(q)) = Len(q) - 1 /\ Thinned(Tail(q), q)
         /\ \A i \in DOMAIN q : q[i] = Head(q) \/ \E j \in DOMAIN Tail(q) : Tail(q)[j] = q[i]
<1>1. /\ Tail(q) \in Seq(S) /\ Len(Tail(q)) = Len(q) - 1 /\ Len(q) \in Nat
      /\ \A j \in DOMAIN Tail(q) : j \in Nat /\ j + 1 \in DOMAIN q /\ Tail(q)[j] = q[j + 1]
  OBVIOUS
<1>2. \A j, k \in Nat : j < k => j + 1 < k + 1
  OBVIOUS
<1>3. ASSUME NEW i \in DOMAIN q PROVE q[i] = Head(q) \/ \E j \in DOMAIN Tail(q) : Tail(q)[j] = q[i]
  <2>1. CASE i = 1
    BY <2>1
  <2>2. CASE i # 1
    <3>1. i - 1 \in DOMAIN Tail(q) /\ (i - 1) + 1 = i
      BY <2>2
    <3> QED
      BY <1>1, <3>1
  <2> QED
    BY <2>1, <2>2
<1> QED
  BY <1>1, <1>2, <1>3 DEF Thinned

(* The last element was taken.                                             *)
LEMMA ThinnedFront ==
  ASSUME NEW S, NEW q \in Seq(S), q # <<>>
  PROVE  /\ Front(q) \in Seq(S) /\ Len(Front(q)) = Len(q) - 1 /\ Thinned(Front(q), q)
         /\ \A i \in DOMAIN q : q[i] = Last(q) \/ \E j \in DOMAIN Front(q) : Front(q)[j] = q[i]
<1>1. /\ Front(q) \in Seq(S) /\ Len(Front(q)) = Len(q) - 1
      /\ \A j \in DOMAIN Front(q) : j \in DOMAIN q /\ Front(q)[j] = q[j]
  <2> DEFINE m == Len(q) - 1
  <2>1. m \in Nat /\ m + 1 = Len(q)
    OBVIOUS
  <2>2. Front(q) = SubSeq(q, 1, m)
    BY DEF Front
  <2> HIDE DEF m
  <2>3. SubSeq(q, 1, m) \in Seq(S)
    BY <2>1
  <2>4. Len(SubSeq(q, 1, m)) = m /\ \A j \in 1..m : SubSeq(q, 1, m)[j] = q[j]
    BY <2>1
  <2>5. DOMAIN Front(q) = 1..m /\ \A j \in 1..m : j \in DOMAIN q
    BY <2>1, <2>2, <2>3, <2>4
  <2> QED
    BY <2>1, <2>2, <2>3, <2>4, <2>5
<1>2. ASSUME NEW i \in DOMAIN q PROVE q[i] = Last(q) \/ i \in DOMAIN Front(q)
  <2>1. DOMAIN Front(q) = 1..(Len(q) - 1)
    BY <1>1
  <2>2. i = Len(q) \/ i \in 1..(Len(q) - 1)
    OBVIOUS
  <2> QED
    BY <2>1, <2>2 DEF Last
<1> QED
  BY <1>1, <1>2 DEF Thinned

(* Any element was taken.                                                  *)
LEMMA ThinnedRemoveAt ==
  ASSUME NEW S, NEW q \in Seq(S), NEW n \in 1..Len(q)
  PROVE  /\ RemoveAt(q, n) \in Seq(S) /\ Len(RemoveAt(q, n)) = Len(q) - 1
         /\ Thinned(RemoveAt(q, n), q)
         /\ \A j \in DOMAIN RemoveAt(q, n) : \E i \in DOMAIN q : i # n /\ RemoveAt(q, n)[j] = q[i]
         /\ \A i \in DOMAIN q : i = n \/ \E j \in DOMAIN RemoveAt(q, n) : RemoveAt(q, n)[j] = q[i]
<1> DEFINE r == RemoveAt(q, n)
           before == SubSeq(q, 1, n - 1)
           after == SubSeq(q, n + 1, Len(q))
<1>1. /\ before \in Seq(S) /\ Len(before) = n - 1 /\ \A i \in 1..(n - 1) : before[i] = q[i]
      /\ after \in Seq(S) /\ Len(after) = Len(q) - n
      /\ \A i \in 1..(Len(q) - n) : after[i] = q[n + i]
  OBVIOUS
<1>2. r = before \o after /\ Len(q) \in Nat
  BY DEF RemoveAt
<1> HIDE DEF before, after, r
<1>3. r \in Seq(S) /\ Len(r) = Len(q) - 1 /\ DOMAIN r = 1..(Len(q) - 1)
  <2>0. before \in Seq(S) /\ after \in Seq(S)
    BY <1>1
  <2>1. r \in Seq(S) /\ Len(r) = Len(before) + Len(after)
    BY <1>2, <2>0
  <2>2. Len(r) = Len(q) - 1
    BY <1>1, <1>2, <2>1
  <2> QED
    BY <2>1, <2>2
<1>4. \A j \in 1..Len(r) : r[j] = IF j <= Len(before) THEN before[j] ELSE after[j - Len(before)]
  BY <1>1, <1>2
<1> DEFINE at(j) == IF j < n THEN j ELSE j + 1
<1>5. ASSUME NEW j \in DOMAIN r
      PROVE  at(j) \in DOMAIN q /\ r[j] = q[at(j)] /\ at(j) # n /\ j \in Nat
  <2>1. CASE j < n
    <3>1. j \in 1..(n - 1) /\ j \in 1..Len(r) /\ j <= Len(before)
      BY <1>1, <1>3, <2>1
    <3>2. r[j] = q[j]
      BY <1>1, <1>4, <3>1
    <3> QED
      BY <1>2, <2>1, <3>1, <3>2
  <2>2. CASE ~(j < n)
    <3>1. /\ j \in 1..Len(r) /\ ~(j <= Len(before)) /\ j - (n - 1) \in 1..(Len(q) - n)
          /\ n + (j - (n - 1)) = j + 1 /\ j + 1 \in 1..Len(q)
      BY <1>1, <1>2, <1>3, <2>2
    <3>2. r[j] = after[j - (n - 1)]
      BY <1>1, <1>4, <3>1
    <3>3. after[j - (n - 1)] = q[n + (j - (n - 1))]
      BY <1>1, <3>1
    <3> QED
      BY <2>2, <3>1, <3>2, <3>3
  <2> QED
    BY <2>1, <2>2
<1>6. \A j, k \in Nat : j < k => at(j) < at(k)
  OBVIOUS
<1>7. ASSUME NEW i \in DOMAIN q, i # n PROVE \E j \in DOMAIN r : at(j) = i
  <2>1. CASE i < n
    <3>1. i \in DOMAIN r /\ at(i) = i
      BY <1>2, <1>3, <2>1
    <3> QED
      BY <3>1
  <2>2. CASE ~(i < n)
    <3>1. i - 1 \in DOMAIN r /\ at(i - 1) = i
      BY <1>2, <1>3, <1>7, <2>2
    <3> QED
      BY <3>1
  <2> QED
    BY <2>1, <2>2
<1> HIDE DEF at
<1>8. Thinned(r, q)
  BY <1>5, <1>6 DEF Thinned
<1> QED
  BY <1>3, <1>5, <1>7, <1>8 DEF r

(* What is left for others stays in order when the receiver takes frames.  *)
LEMMA Thinning ==
  ASSUME SendersOrder, WaitingOrder, UNCHANGED senderVars,
         Thinned(arrived', arrived), Thinned(buffered', buffered)
  PROVE  SendersOrder' /\ WaitingOrder' /\ \A f : BeforeAll(f) => BeforeAll(f)'
<1> USE DEF senderVars, Thinned
<1>1. SendersOrder'
  BY DEF SendersOrder, Earlier
<1>2. WaitingOrder'
  BY DEF WaitingOrder, Earlier
<1>3. ASSUME NEW f, BeforeAll(f) PROVE BeforeAll(f)'
  BY <1>3 DEF BeforeAll, Earlier
<1> QED
  BY <1>1, <1>2, <1>3

(* The first frame of the pool that belongs to the message.                *)

(* A set of natural numbers has a least element.                           *)
LEMMA LeastOf ==
  ASSUME NEW S \in SUBSET Nat, S # {}
  PROVE  Min(S) \in S /\ \A m \in S : Min(S) <= m
<1>1. PICK n \in S : \A m \in S : ~(<<m, n>> \in OpToRel(<, Nat))
  BY NatLessThanWellFounded, WFMin
<1>2. ASSUME NEW m \in S PROVE n <= m
  <2>1. m \in Nat /\ n \in Nat
    OBVIOUS
  <2>2. ~(m < n)
    BY <1>1, <2>1 DEF OpToRel
  <2> QED
    BY <2>1, <2>2
<1> QED
  BY <1>2 DEF Min

(* It is there or none belongs to it.                                      *)
LEMMA FirstThatBelongs ==
  ASSUME PathTypes
  PROVE  LET i == SelectInSeq(buffered, Belongs) IN
         IF i = 0 THEN \A j \in DOMAIN buffered : ~Belongs(buffered[j])
         ELSE /\ i \in DOMAIN buffered /\ Belongs(buffered[i])
              /\ \A j \in DOMAIN buffered : Belongs(buffered[j]) => i <= j
<1> DEFINE I == {j \in 1..Len(buffered) : Belongs(buffered[j])}
<1>1. SelectInSeq(buffered, Belongs) = IF I # {} THEN Min(I) ELSE 0
  BY DEF SelectInSeq
<1>2. I \in SUBSET Nat /\ DOMAIN buffered = 1..Len(buffered)
  BY DEF PathTypes
<1>3. I # {} => Min(I) \in I /\ \A j \in I : Min(I) <= j
  <2> HIDE DEF I
  <2> QED
    BY <1>2, LeastOf
<1> QED
  BY <1>1, <1>2, <1>3

(* What receiveCANMessage leaves of the pool.                              *)
LEMMA KeptIs ==
  ASSUME PathTypes, Pool
  PROVE  /\ Kept \in Seq(Frames) /\ Thinned(Kept, buffered)
         /\ Len(Kept) = IF free = 0 THEN Len(buffered) - 1 ELSE Len(buffered)
         /\ buffered = <<>> => Kept = <<>>
         /\ \A i \in DOMAIN buffered :
              buffered[i] \in Stolen \/ \E j \in DOMAIN Kept : Kept[j] = buffered[i]
<1> USE CanAssumption DEF PathTypes, Pool
<1>1. CASE free = 0
  <2>1. buffered # <<>>
    BY <1>1
  <2> QED
    BY <1>1, <2>1, ThinnedFront DEF Kept, Stolen
<1>2. CASE free # 0
  BY <1>2, ThinnedSame DEF Kept
<1> QED
  BY <1>1, <1>2

(* appendCANMsgToCurrentNetMsg with a frame that comes before all that are *)
(* still to be looked at.                                                  *)
ReceiverTypes ==
  /\ assembled \in Seq(Frames) /\ current \in Senders \cup {None}
  /\ delivered \in [Senders -> Seq(Seq(Frames))]

(* The message goes on, or is complete, and everything stays in order.     *)
LEMMA Appending ==
  ASSUME LinkInvariant, UNCHANGED senderVars,
         Thinned(arrived', arrived), Thinned(buffered', buffered),
         NEW f \in Frames, NEW stolen, AppendCANMsg(f, stolen), BeforeAll(f)',
         f.sequence = 0 => \A i \in DOMAIN delivered[f.id] : delivered[f.id][i][1].number < f.number
  PROVE  /\ ReceiverTypes' /\ Assembling' /\ ReceivedOrder' /\ InOrder'
         /\ \/ state' = state /\ current' \in {current, f.id}
            \/ state' = "out" /\ current' = None
<1>a. PathTypes /\ Assembling /\ ReceivedOrder /\ InOrder
  BY DEF LinkInvariant
<1>b. \A g : BeforeAll(g) => BeforeAll(g)'
  BY Thinning DEF LinkInvariant
<1> USE CanAssumption
<1> DEFINE frames == IF f.sequence = 0 THEN <<f>> ELSE Append(assembled, f)
           g == frames[1]
<1>c. f.id \in Senders
  BY DEF Frames
<1>1. CASE ~Continues(f)
  <2>1. UNCHANGED <<state, current, assembled, delivered>>
    BY <1>1 DEF AppendCANMsg, messageVars
  <2>2. ReceiverTypes' /\ Assembling' /\ InOrder'
    BY <1>a, <2>1 DEF ReceiverTypes, PathTypes, Assembling, InOrder
  <2>3. ReceivedOrder'
    BY <1>a, <1>b, <2>1 DEF ReceivedOrder
  <2> QED
    BY <2>1, <2>2, <2>3
<1>2. ASSUME Continues(f)
      PROVE  /\ frames \in Seq(Frames) /\ frames # <<>> /\ g.id = f.id /\ g.sequence = 0
             /\ \A h \in {g} : BeforeAll(h)'
             /\ \A i \in DOMAIN delivered[f.id] : delivered[f.id][i][1].number < g.number
  <2>1. CASE f.sequence = 0
    BY <2>1
  <2>2. CASE f.sequence # 0
    <3>1. current # None /\ f.id = current
      BY <1>2, <2>2 DEF Continues
    <3>2. assembled \in Seq(Frames) /\ assembled # <<>> /\ assembled[1].id = current
          /\ assembled[1].sequence = 0
      BY <1>a, <3>1 DEF PathTypes, Assembling
    <3>3. frames = Append(assembled, f) /\ g = assembled[1]
      BY <2>2, <3>2
    <3>4. frames \in Seq(Frames) /\ frames # <<>>
      BY <3>2, <3>3
    <3>5. \A h \in {assembled[1]} : BeforeAll(h)
      BY <1>a, <3>1 DEF ReceivedOrder
    <3>6. \A h \in {g} : BeforeAll(h)'
      BY <1>b, <3>3, <3>5
    <3>7. \A i \in DOMAIN delivered[f.id] : delivered[f.id][i][1].number < g.number
      BY <1>a, <1>c, <3>1, <3>3 DEF ReceivedOrder
    <3> QED
      BY <3>1, <3>2, <3>3, <3>4, <3>6, <3>7
  <2> QED
    BY <2>1, <2>2
<1>3. CASE Continues(f) /\ ~Complete(frames, f)
  <2>1. current' = f.id /\ assembled' = frames /\ delivered' = delivered /\ state' = state
    BY <1>3 DEF AppendCANMsg
  <2> HIDE DEF frames
  <2>2. ReceiverTypes' /\ Assembling' /\ InOrder'
    BY <1>a, <1>c, <1>2, <1>3, <2>1 DEF ReceiverTypes, PathTypes, Assembling, InOrder
  <2>3. ReceivedOrder'
    BY <1>a, <1>b, <1>2, <1>3, <2>1 DEF ReceivedOrder
  <2> QED
    BY <2>1, <2>2, <2>3
<1>4. CASE Continues(f) /\ Complete(frames, f)
  <2>1. /\ current' = None /\ assembled' = <<>> /\ state' = "out"
        /\ delivered' = [delivered EXCEPT ![f.id] = Append(delivered[f.id], frames)]
    BY <1>4 DEF AppendCANMsg
  <2> HIDE DEF frames
  <2>2. delivered \in [Senders -> Seq(Seq(Frames))]
    BY <1>a DEF PathTypes
  <2>3. delivered' \in [Senders -> Seq(Seq(Frames))]
    BY <1>2, <1>4, <1>c, <2>1, <2>2
  <2>4. ReceiverTypes' /\ Assembling'
    BY <1>a, <2>1, <2>3 DEF ReceiverTypes, PathTypes, Assembling
  <2>5. ASSUME NEW s \in Senders, NEW i \in DOMAIN delivered'[s]
        PROVE  \/ i \in DOMAIN delivered[s] /\ delivered'[s][i] = delivered[s][i]
               \/ s = f.id /\ i = Len(delivered[s]) + 1 /\ delivered'[s][i] = frames
    <3>1. delivered[s] \in Seq(Seq(Frames))
      BY <2>2
    <3>2. CASE s # f.id
      BY <2>1, <2>2, <3>2
    <3>3. CASE s = f.id
      <4>1. delivered'[s] = Append(delivered[s], frames)
        BY <1>c, <2>1, <2>2, <3>3
      <4> QED
        BY <3>1, <3>3, <4>1
    <3> QED
      BY <3>2, <3>3
  <2>6. InOrder'
    <3> SUFFICES ASSUME NEW s \in Senders, NEW i \in DOMAIN delivered'[s],
                        NEW j \in DOMAIN delivered'[s], i < j
                 PROVE  delivered'[s][i][1].number < delivered'[s][j][1].number
      BY DEF InOrder
    <3>1. i \in DOMAIN delivered[s] /\ delivered'[s][i] = delivered[s][i]
      BY <1>c, <2>1, <2>2, <2>5
    <3>2. CASE j \in DOMAIN delivered[s] /\ delivered'[s][j] = delivered[s][j]
      BY <1>a, <3>1, <3>2 DEF InOrder
    <3>3. CASE s = f.id /\ delivered'[s][j] = frames
      BY <1>2, <1>4, <3>1, <3>3
    <3> QED
      BY <2>5, <3>2, <3>3
  <2>7. ReceivedOrder'
    <3>1. ASSUME NEW s \in Senders, NEW i \in DOMAIN delivered'[s]
          PROVE  /\ delivered'[s][i] # <<>> /\ delivered'[s][i][1].id = s
                 /\ delivered'[s][i][1].sequence = 0
                 /\ \A h \in {delivered'[s][i][1]} : BeforeAll(h)'
      <4>1. CASE i \in DOMAIN delivered[s] /\ delivered'[s][i] = delivered[s][i]
        BY <1>a, <1>b, <4>1 DEF ReceivedOrder
      <4>2. CASE s = f.id /\ delivered'[s][i] = frames
        BY <1>2, <1>4, <4>2
      <4> QED
        BY <2>5, <4>1, <4>2
    <3> QED
      BY <2>1, <3>1 DEF ReceivedOrder
  <2> QED
    BY <2>1, <2>4, <2>6, <2>7
<1> QED
  BY <1>1, <1>3, <1>4

(* The first frame of the pool that belongs to the message is taken.       *)
LEMMA ScanTakes ==
  ASSUME LinkInvariant, ScanTake
  PROVE  \E f \in Frames :
           /\ AppendCANMsg(f, {}) /\ Belongs(f) /\ BeforeAll(f)'
           /\ \E k \in DOMAIN buffered : f = buffered[k]
           /\ buffered' \in Seq(Frames) /\ Len(buffered') = Len(buffered) - 1
           /\ Thinned(buffered', buffered)
           /\ \A i \in DOMAIN buffered :
                buffered[i] = f \/ \E j \in DOMAIN buffered' : buffered'[j] = buffered[i]
<1>a. /\ PathTypes /\ Pool /\ Assembling /\ PoolScanned
      /\ SendersOrder /\ WaitingOrder /\ ReceivedOrder
  BY DEF LinkInvariant
<1> USE CanAssumption
<1> DEFINE k == SelectInSeq(buffered, Belongs)
<1>1. /\ state = "scan" /\ k # 0 /\ buffered' = RemoveAt(buffered, k) /\ free' = free + 1
      /\ AppendCANMsg(buffered[k], {}) /\ UNCHANGED <<senderVars, arrived, faults>>
  BY DEF ScanTake
<1>2. /\ k \in DOMAIN buffered /\ Belongs(buffered[k])
      /\ \A j \in DOMAIN buffered : Belongs(buffered[j]) => k <= j
  BY <1>a, <1>1, FirstThatBelongs
<1> HIDE DEF k
<1>3. PICK f \in Frames : f = buffered[k] /\ AppendCANMsg(f, {})
  BY <1>a, <1>1, <1>2 DEF PathTypes
<1>4. /\ buffered' \in Seq(Frames) /\ Len(buffered') = Len(buffered) - 1
      /\ Thinned(buffered', buffered)
      /\ \A j \in DOMAIN buffered' : \E i \in DOMAIN buffered : i # k /\ buffered'[j] = buffered[i]
      /\ \A i \in DOMAIN buffered : i = k \/ \E j \in DOMAIN buffered' : buffered'[j] = buffered[i]
  <2>1. buffered \in Seq(Frames) /\ k \in 1..Len(buffered)
    BY <1>a, <1>2 DEF PathTypes
  <2> QED
    BY <1>1, <2>1, ThinnedRemoveAt
<1>6. BeforeAll(f)'
  <2>1. f.number <= Len(sent[f.id])
    BY <1>a, <1>2, <1>3 DEF WaitingOrder
  <2>2. \A s \in Senders : \A i \in DOMAIN sending[s] : Earlier(f, sending[s][i])
    BY <1>a, <1>2, <1>3 DEF SendersOrder
  <2>3. \A i \in DOMAIN arrived : Earlier(f, arrived[i])
    BY <1>a, <1>2, <1>3 DEF WaitingOrder
  <2>4. ASSUME NEW j \in DOMAIN buffered' PROVE Earlier(f, buffered'[j])
    <3>1. PICK i \in DOMAIN buffered : i # k /\ buffered'[j] = buffered[i]
      BY <1>4
    <3>2. CASE buffered[i].id = f.id
      <4>1. k < i
        BY <1>2, <1>3, <1>a, <3>1, <3>2 DEF Belongs, PathTypes
      <4> QED
        BY <1>a, <1>2, <1>3, <3>1, <4>1 DEF WaitingOrder
    <3>3. CASE buffered[i].id # f.id
      BY <3>1, <3>3 DEF Earlier
    <3> QED
      BY <3>2, <3>3
  <2> QED
    BY <1>1, <2>1, <2>2, <2>3, <2>4 DEF BeforeAll, Earlier, senderVars
<1> QED
  BY <1>2, <1>3, <1>4, <1>6

(* A frame is taken out of the pool.                                       *)
LEMMA ScanTakeStep == ASSUME LinkInvariant, ScanTake PROVE LinkInvariant'
<1>a. /\ PathTypes /\ Pool /\ Assembling /\ PoolScanned
      /\ SendersOrder /\ WaitingOrder /\ ReceivedOrder
  BY DEF LinkInvariant
<1> USE CanAssumption
<1>1. state = "scan" /\ free' = free + 1 /\ UNCHANGED <<senderVars, arrived, faults>>
  BY DEF ScanTake
<1>2. PICK f \in Frames :
           /\ AppendCANMsg(f, {}) /\ BeforeAll(f)' /\ \E k \in DOMAIN buffered : f = buffered[k]
           /\ buffered' \in Seq(Frames) /\ Len(buffered') = Len(buffered) - 1
           /\ Thinned(buffered', buffered)
  BY ScanTakes
<1>3. PICK k \in DOMAIN buffered : f = buffered[k]
  BY <1>2
<1>5. Thinned(arrived', arrived)
  BY <1>1, ThinnedSame
<1>7. f.sequence = 0 => \A i \in DOMAIN delivered[f.id] : delivered[f.id][i][1].number < f.number
  BY <1>a, <1>3 DEF ReceivedOrder, BeforeAll, Earlier, Frames
<1>8. /\ ReceiverTypes' /\ Assembling' /\ ReceivedOrder' /\ InOrder'
      /\ \/ state' = state /\ current' \in {current, f.id}
         \/ state' = "out" /\ current' = None
  BY <1>1, <1>2, <1>5, <1>7, Appending
<1>9. SendersOrder' /\ WaitingOrder'
  BY <1>a, <1>1, <1>2, <1>5, Thinning
<1>10. PathTypes'
  <2>1. /\ sent' = sent /\ sending' = sending /\ arrived' = arrived /\ faults' = faults
        /\ free' = free + 1
    BY <1>1 DEF senderVars
  <2>2. state' \in {"out", "scan", "receive"} /\ free' \in Nat
    BY <1>a, <1>8, <2>1 DEF PathTypes
  <2> QED
    BY <1>a, <1>2, <1>8, <2>1, <2>2 DEF PathTypes, ReceiverTypes
<1>11. Pool'
  <2>1. free \in Nat /\ Len(buffered) \in Nat /\ free + Len(buffered) = BufferSize
    BY <1>a DEF Pool, PathTypes
  <2> QED
    BY <1>1, <1>2, <2>1 DEF Pool
<1>12. PoolScanned'
  BY <1>1, <1>8 DEF PoolScanned
<1> QED
  BY <1>8, <1>9, <1>10, <1>11, <1>12 DEF LinkInvariant

(* The first frame that has arrived is taken.                              *)
LEMMA ReadTakes ==
  ASSUME LinkInvariant, ReadAppend
  PROVE  \E f \in Frames :
           /\ AppendCANMsg(f, Stolen) /\ Belongs(f) /\ BeforeAll(f)'
           /\ 1 \in DOMAIN arrived /\ f = arrived[1]
           /\ arrived' \in Seq(Frames) /\ Len(arrived') = Len(arrived) - 1
           /\ Thinned(arrived', arrived)
           /\ \A i \in DOMAIN arrived :
                arrived[i] = f \/ \E j \in DOMAIN arrived' : arrived'[j] = arrived[i]
           /\ buffered' \in Seq(Frames) /\ Thinned(buffered', buffered)
           /\ Len(buffered') = IF free = 0 THEN Len(buffered) - 1 ELSE Len(buffered)
           /\ \A i \in DOMAIN buffered :
                buffered[i] \in Stolen \/ \E j \in DOMAIN buffered' : buffered'[j] = buffered[i]
           /\ \A j \in DOMAIN buffered' : buffered'[j].id # f.id
<1>a. /\ PathTypes /\ Pool /\ Assembling /\ PoolScanned
      /\ SendersOrder /\ WaitingOrder /\ ReceivedOrder
  BY DEF LinkInvariant
<1> USE CanAssumption
<1>1. /\ state = "receive" /\ arrived # <<>> /\ Belongs(Head(arrived)) /\ arrived' = Tail(arrived)
      /\ buffered' = Kept /\ free' = (IF free = 0 THEN 1 ELSE free)
      /\ AppendCANMsg(Head(arrived), Stolen) /\ UNCHANGED <<senderVars, faults>>
  BY DEF ReadAppend
<1>2. PICK f \in Frames : f = Head(arrived) /\ AppendCANMsg(f, Stolen) /\ Belongs(f)
  BY <1>a, <1>1 DEF PathTypes
<1>3. /\ buffered' \in Seq(Frames) /\ Thinned(buffered', buffered)
      /\ Len(buffered') = IF free = 0 THEN Len(buffered) - 1 ELSE Len(buffered)
      /\ buffered = <<>> => buffered' = <<>>
      /\ \A i \in DOMAIN buffered :
           buffered[i] \in Stolen \/ \E j \in DOMAIN buffered' : buffered'[j] = buffered[i]
  BY <1>a, <1>1, KeptIs
<1>4. /\ arrived' \in Seq(Frames) /\ Len(arrived') = Len(arrived) - 1 /\ Thinned(arrived', arrived)
      /\ \A i \in DOMAIN arrived :
           arrived[i] = Head(arrived) \/ \E j \in DOMAIN arrived' : arrived'[j] = arrived[i]
  BY <1>a, <1>1, ThinnedTail DEF PathTypes
<1>5. /\ 1 \in DOMAIN arrived /\ f = arrived[1]
      /\ \A j \in DOMAIN arrived' : \E i \in DOMAIN arrived : 1 < i /\ arrived'[j] = arrived[i]
  <2>1. 1 \in DOMAIN arrived /\ f = arrived[1]
    BY <1>a, <1>1, <1>2 DEF PathTypes
  <2>2. ASSUME NEW j \in DOMAIN arrived' PROVE 1 < j + 1 /\ j + 1 \in DOMAIN arrived /\ arrived'[j] = arrived[j + 1]
    BY <1>a, <1>1 DEF PathTypes
  <2> QED
    BY <2>1, <2>2
<1>6. \A j \in DOMAIN buffered' : buffered'[j].id # f.id
  <2>1. CASE current = None
    BY <1>a, <1>1, <1>3, <2>1 DEF PoolScanned
  <2>2. CASE current # None
    <3>1. f.id = current
      BY <1>1, <1>2, <2>2 DEF Belongs
    <3>2. \A i \in DOMAIN buffered : buffered[i].id # current
      BY <1>a, <1>1, <2>2 DEF PoolScanned
    <3> QED
      BY <1>3, <3>1, <3>2 DEF Thinned
  <2> QED
    BY <2>1, <2>2
<1>7. BeforeAll(f)'
  <2>1. f.number <= Len(sent[f.id])
    BY <1>a, <1>5 DEF WaitingOrder
  <2>2. \A s \in Senders : \A i \in DOMAIN sending[s] : Earlier(f, sending[s][i])
    BY <1>a, <1>5 DEF SendersOrder
  <2>3. \A i \in DOMAIN arrived' : Earlier(f, arrived'[i])
    BY <1>a, <1>5 DEF WaitingOrder
  <2>4. \A i \in DOMAIN buffered' : Earlier(f, buffered'[i])
    BY <1>6 DEF Earlier
  <2> QED
    BY <1>1, <2>1, <2>2, <2>3, <2>4 DEF BeforeAll, Earlier, senderVars
<1> QED
  BY <1>2, <1>3, <1>4, <1>5, <1>6, <1>7

(* A frame that belongs to the message is read.                            *)
LEMMA ReadAppendStep == ASSUME LinkInvariant, ReadAppend PROVE LinkInvariant'
<1>a. /\ PathTypes /\ Pool /\ Assembling /\ PoolScanned
      /\ SendersOrder /\ WaitingOrder /\ ReceivedOrder
  BY DEF LinkInvariant
<1> USE CanAssumption
<1>1. /\ state = "receive" /\ free' = (IF free = 0 THEN 1 ELSE free)
      /\ UNCHANGED <<senderVars, faults>>
  BY DEF ReadAppend
<1>2. PICK f \in Frames :
           /\ AppendCANMsg(f, Stolen) /\ BeforeAll(f)' /\ 1 \in DOMAIN arrived /\ f = arrived[1]
           /\ arrived' \in Seq(Frames) /\ Len(arrived') = Len(arrived) - 1
           /\ Thinned(arrived', arrived)
           /\ buffered' \in Seq(Frames) /\ Thinned(buffered', buffered)
           /\ Len(buffered') = IF free = 0 THEN Len(buffered) - 1 ELSE Len(buffered)
           /\ \A j \in DOMAIN buffered' : buffered'[j].id # f.id
  BY ReadTakes
<1>3. 1 \in DOMAIN arrived /\ f = arrived[1]
  BY <1>2
<1>8. f.sequence = 0 => \A i \in DOMAIN delivered[f.id] : delivered[f.id][i][1].number < f.number
  BY <1>a, <1>3 DEF ReceivedOrder, BeforeAll, Earlier, Frames
<1>9. /\ ReceiverTypes' /\ Assembling' /\ ReceivedOrder' /\ InOrder'
      /\ \/ state' = state /\ current' \in {current, f.id}
         \/ state' = "out" /\ current' = None
  BY <1>1, <1>2, <1>8, Appending
<1>10. SendersOrder' /\ WaitingOrder'
  BY <1>a, <1>1, <1>2, Thinning
<1>11. PathTypes'
  <2>1. Len(arrived') <= MaxWaiting /\ free' \in Nat
    BY <1>a, <1>1, <1>2 DEF PathTypes
  <2>2. state' \in {"out", "scan", "receive"}
    BY <1>a, <1>9 DEF PathTypes
  <2> QED
    BY <1>a, <1>1, <1>2, <1>9, <2>1, <2>2 DEF PathTypes, ReceiverTypes, senderVars
<1>12. Pool'
  BY <1>a, <1>1, <1>2 DEF Pool, PathTypes
<1>13. PoolScanned'
  <2>1. CASE state' = "out" /\ current' = None
    BY <2>1 DEF PoolScanned
  <2>2. CASE state' = state /\ current' = f.id
    BY <1>1, <1>2, <2>2, CanAssumption DEF PoolScanned, Frames
  <2>3. CASE state' = state /\ current' = current
    BY <1>a, <1>1, <1>2, <2>3 DEF PoolScanned, Thinned
  <2> QED
    BY <1>9, <2>1, <2>2, <2>3
<1> QED
  BY <1>9, <1>10, <1>11, <1>12, <1>13 DEF LinkInvariant

(* A frame of another sender is read and waits in the pool.                *)
LEMMA ReadBufferStep == ASSUME LinkInvariant, ReadBuffer PROVE LinkInvariant'
<1>a. /\ PathTypes /\ Pool /\ Assembling /\ PoolScanned
      /\ SendersOrder /\ WaitingOrder /\ ReceivedOrder /\ InOrder
  BY DEF LinkInvariant
<1> USE CanAssumption
<1>1. /\ state = "receive" /\ arrived # <<>> /\ ~Belongs(Head(arrived)) /\ arrived' = Tail(arrived)
      /\ buffered' = Append(Kept, Head(arrived)) /\ free' = (IF free = 0 THEN 0 ELSE free - 1)
      /\ UNCHANGED <<senderVars, state, current, assembled, delivered, faults>>
  BY DEF ReadBuffer, messageVars
<1>2. /\ Kept \in Seq(Frames) /\ Thinned(Kept, buffered)
      /\ Len(Kept) = IF free = 0 THEN Len(buffered) - 1 ELSE Len(buffered)
  BY <1>a, KeptIs
<1>3. arrived' \in Seq(Frames) /\ Len(arrived') = Len(arrived) - 1 /\ Thinned(arrived', arrived)
  BY <1>a, <1>1, ThinnedTail DEF PathTypes
<1>4. PICK f \in Frames : f = Head(arrived) /\ f = arrived[1] /\ 1 \in DOMAIN arrived
  BY <1>a, <1>1 DEF PathTypes
<1>5. \A j \in DOMAIN arrived' : \E i \in DOMAIN arrived : 1 < i /\ arrived'[j] = arrived[i]
  <2>a. arrived \in Seq(Frames)
    BY <1>a DEF PathTypes
  <2>1. ASSUME NEW j \in DOMAIN arrived'
        PROVE  1 < j + 1 /\ j + 1 \in DOMAIN arrived /\ arrived'[j] = arrived[j + 1]
    BY <1>1, <2>a
  <2> QED
    BY <2>1
<1>6. /\ buffered' \in Seq(Frames) /\ Len(buffered') = Len(Kept) + 1
      /\ \A j \in DOMAIN buffered' :
           \/ j \in DOMAIN Kept /\ buffered'[j] = Kept[j]
           \/ j = Len(Kept) + 1 /\ buffered'[j] = f
  BY <1>1, <1>2, <1>4
<1>7. \A j \in DOMAIN buffered' : buffered'[j] = f \/ \E i \in DOMAIN buffered : buffered'[j] = buffered[i]
  BY <1>2, <1>6 DEF Thinned
<1>8. \A j, l \in DOMAIN buffered' : j < l =>
        \/ \E i, m \in DOMAIN buffered : i < m /\ buffered'[j] = buffered[i] /\ buffered'[l] = buffered[m]
        \/ buffered'[l] = f /\ \E i \in DOMAIN buffered : buffered'[j] = buffered[i]
  <2>1. ASSUME NEW j \in DOMAIN buffered', NEW l \in DOMAIN buffered', j < l
        PROVE  \/ \E i, m \in DOMAIN buffered : i < m /\ buffered'[j] = buffered[i] /\ buffered'[l] = buffered[m]
               \/ buffered'[l] = f /\ \E i \in DOMAIN buffered : buffered'[j] = buffered[i]
    <3>1. j \in DOMAIN Kept /\ buffered'[j] = Kept[j]
      BY <1>2, <1>6, <2>1
    <3>2. \E i \in DOMAIN buffered : buffered'[j] = buffered[i]
      BY <1>2, <3>1 DEF Thinned
    <3>3. CASE l \in DOMAIN Kept /\ buffered'[l] = Kept[l]
      BY <1>2, <2>1, <3>1, <3>3 DEF Thinned
    <3> QED
      BY <1>6, <3>2, <3>3
  <2> QED
    BY <2>1
<1>9. SendersOrder'
  <2>1. \A s \in Senders, i \in DOMAIN arrived' : \A j \in DOMAIN sending[s] :
          Earlier(arrived'[i], sending[s][j])
    BY <1>a, <1>5 DEF SendersOrder
  <2>2. \A s \in Senders, i \in DOMAIN buffered' : \A j \in DOMAIN sending[s] :
          Earlier(buffered'[i], sending[s][j])
    BY <1>a, <1>4, <1>7 DEF SendersOrder
  <2>3. sending' = sending /\ sent' = sent
    BY <1>1 DEF senderVars
  <2> SUFFICES ASSUME NEW s \in Senders
               PROVE  /\ \A i \in DOMAIN sending[s] :
                           /\ sending[s][i].id = s /\ sending[s][i].number = Len(sent[s])
                           /\ \A j \in DOMAIN sending[s] :
                                i < j => Earlier(sending[s][i], sending[s][j])
                      /\ \A i \in DOMAIN arrived', j \in DOMAIN sending[s] :
                           Earlier(arrived'[i], sending[s][j])
                      /\ \A i \in DOMAIN buffered', j \in DOMAIN sending[s] :
                           Earlier(buffered'[i], sending[s][j])
    BY <2>3 DEF SendersOrder, Earlier
  <2> QED
    BY <1>a, <2>1, <2>2 DEF SendersOrder
<1>10. WaitingOrder'
  <2>1. \A i \in DOMAIN arrived' : arrived'[i].number <= Len(sent[arrived'[i].id])
    BY <1>a, <1>5 DEF WaitingOrder
  <2>2. \A i \in DOMAIN buffered' : buffered'[i].number <= Len(sent[buffered'[i].id])
    BY <1>a, <1>4, <1>7 DEF WaitingOrder
  <2>3. \A i, j \in DOMAIN arrived' : i < j => Earlier(arrived'[i], arrived'[j])
    BY <1>a, <1>3 DEF WaitingOrder, Thinned
  <2>4. \A i, j \in DOMAIN buffered' : i < j => Earlier(buffered'[i], buffered'[j])
    BY <1>a, <1>4, <1>8 DEF WaitingOrder
  <2>5. \A i \in DOMAIN buffered', j \in DOMAIN arrived' : Earlier(buffered'[i], arrived'[j])
    BY <1>a, <1>4, <1>5, <1>7 DEF WaitingOrder
  <2> QED
    BY <1>1, <2>1, <2>2, <2>3, <2>4, <2>5 DEF WaitingOrder, senderVars, Earlier
<1>11. ASSUME NEW h, BeforeAll(h) PROVE BeforeAll(h)'
  <2>1. h.number <= Len(sent[h.id])
    BY <1>11 DEF BeforeAll
  <2>2. \A s \in Senders : \A i \in DOMAIN sending[s] : Earlier(h, sending[s][i])
    BY <1>11 DEF BeforeAll
  <2>3. \A i \in DOMAIN arrived' : Earlier(h, arrived'[i])
    BY <1>5, <1>11 DEF BeforeAll
  <2>4. \A i \in DOMAIN buffered' : Earlier(h, buffered'[i])
    BY <1>4, <1>7, <1>11 DEF BeforeAll
  <2> QED
    BY <1>1, <2>1, <2>2, <2>3, <2>4 DEF BeforeAll, Earlier, senderVars
<1>12. ReceivedOrder' /\ Assembling' /\ InOrder'
  BY <1>a, <1>1, <1>11 DEF ReceivedOrder, Assembling, InOrder
<1>13. PathTypes'
  <2>1. Len(arrived') <= MaxWaiting /\ free' \in Nat
    BY <1>a, <1>1, <1>3 DEF PathTypes
  <2> QED
    BY <1>a, <1>1, <1>3, <1>6, <2>1 DEF PathTypes, senderVars
<1>14. Pool'
  BY <1>a, <1>1, <1>2, <1>6 DEF Pool, PathTypes
<1>15. PoolScanned'
  <2>1. current # None /\ f.id # current
    BY <1>1, <1>4 DEF Belongs
  <2> QED
    BY <1>a, <1>1, <1>7, <2>1 DEF PoolScanned
<1> QED
  BY <1>9, <1>10, <1>12, <1>13, <1>14, <1>15 DEF LinkInvariant

(* getNetworkMsg begins, has scanned the pool, or finds nothing to read.   *)
LEMMA QuietReceiverStep ==
  ASSUME LinkInvariant, GetNetworkMsg \/ ScanEnd \/ ReadNothing
  PROVE  LinkInvariant'
<1>a. /\ PathTypes /\ Pool /\ Assembling /\ PoolScanned
      /\ SendersOrder /\ WaitingOrder /\ ReceivedOrder /\ InOrder
  BY DEF LinkInvariant
<1> USE CanAssumption
<1>1. UNCHANGED <<senderVars, arrived, current, assembled, delivered, faults>>
  BY DEF GetNetworkMsg, ScanEnd, ReadNothing, messageVars
<1>2. /\ buffered' \in Seq(Frames) /\ Thinned(buffered', buffered) /\ Thinned(arrived', arrived)
      /\ free' \in Nat /\ free' + Len(buffered') = BufferSize
  <2>1. CASE GetNetworkMsg \/ ScanEnd
    BY <1>a, <2>1, ThinnedSame DEF GetNetworkMsg, ScanEnd, PathTypes, Pool
  <2>2. CASE ReadNothing
    <3>1. buffered' = Kept /\ free' = (IF free = 0 THEN 1 ELSE free) /\ arrived' = arrived
      BY <2>2 DEF ReadNothing
    <3>2. /\ Kept \in Seq(Frames) /\ Thinned(Kept, buffered)
          /\ Len(Kept) = IF free = 0 THEN Len(buffered) - 1 ELSE Len(buffered)
      BY <1>a, KeptIs
    <3> QED
      BY <1>a, <3>1, <3>2, ThinnedSame DEF PathTypes, Pool
  <2> QED
    BY <2>1, <2>2
<1>3. SendersOrder' /\ WaitingOrder' /\ \A h : BeforeAll(h) => BeforeAll(h)'
  BY <1>a, <1>1, <1>2, Thinning
<1>4. ReceivedOrder' /\ Assembling' /\ InOrder'
  BY <1>a, <1>1, <1>3 DEF ReceivedOrder, Assembling, InOrder
<1>5. state' \in {"out", "scan", "receive"}
  BY DEF GetNetworkMsg, ScanEnd, ReadNothing
<1>6. PathTypes' /\ Pool'
  BY <1>a, <1>1, <1>2, <1>5 DEF PathTypes, Pool, senderVars
<1>7. PoolScanned'
  <2>1. CASE GetNetworkMsg
    BY <1>a, <1>1, <2>1 DEF GetNetworkMsg, PoolScanned
  <2>2. CASE ScanEnd
    <3>1. SelectInSeq(buffered, Belongs) = 0 /\ buffered' = buffered
      BY <2>2 DEF ScanEnd
    <3>2. \A j \in DOMAIN buffered : ~Belongs(buffered[j])
      BY <1>a, <3>1, FirstThatBelongs
    <3>3. CASE current = None
      <4>1. DOMAIN buffered = {}
        BY <3>2, <3>3 DEF Belongs
      <4>2. buffered \in Seq(Frames)
        BY <1>a DEF PathTypes
      <4>3. buffered = <<>>
        BY <4>1, <4>2
      <4> QED
        BY <1>1, <3>1, <3>3, <4>3 DEF PoolScanned
    <3>4. CASE current # None
      BY <1>1, <3>1, <3>2, <3>4 DEF PoolScanned, Belongs
    <3> QED
      BY <3>3, <3>4
  <2>3. CASE ReadNothing
    BY <1>a, <1>1, <1>2, <2>3 DEF ReadNothing, PoolScanned, Thinned
  <2> QED
    BY <2>1, <2>2, <2>3
<1> QED
  BY <1>3, <1>4, <1>6, <1>7 DEF LinkInvariant

-----------------------------------------------------------------------------
(* The senders.                                                            *)

(* A new message has no fewer than no frame.                               *)
LEMMA FramesCounted == ASSUME NEW len \in Lengths PROVE NumberOfFrames(len) \in Nat
<1>1. len \in Nat /\ FirstBytes \in Nat /\ FrameBytes \in Nat \ {0}
  BY CanAssumption
<1>2. len > FirstBytes => (len - FirstBytes - 1) \div FrameBytes \in Nat
  BY <1>1
<1> QED
  BY <1>1, <1>2 DEF NumberOfFrames

(* A message is sent: its number is higher than those of all before.       *)
LEMMA SendStep ==
  ASSUME LinkInvariant, NEW s \in Senders, NEW len \in Lengths, SendNetworkMsg(s, len)
  PROVE  LinkInvariant'
<1>a. /\ PathTypes /\ Pool /\ Assembling /\ PoolScanned
      /\ SendersOrder /\ WaitingOrder /\ ReceivedOrder /\ InOrder
  BY DEF LinkInvariant
<1> DEFINE n == Len(sent[s]) + 1
           frames == [i \in 1..NumberOfFrames(len) |->
                        [id |-> s, number |-> n, len |-> len, sequence |-> i - 1,
                         bytes |-> BytesIn(len, i - 1)]]
<1>1. /\ sending[s] = <<>> /\ Len(sent[s]) < MaxMessages
      /\ sent' = [sent EXCEPT ![s] = Append(sent[s], len)]
      /\ sending' = [sending EXCEPT ![s] = frames]
      /\ UNCHANGED <<arrived, state, current, assembled, buffered, free, delivered, lost, faults>>
  BY DEF SendNetworkMsg, receiverVars, messageVars
<1>2. /\ sent \in [Senders -> Seq(Nat)] /\ sending \in [Senders -> Seq(Frames)] /\ len \in Nat
      /\ n \in Nat
  BY <1>a, CanAssumption DEF PathTypes
<1>3. /\ frames \in Seq(Frames)
      /\ \A i \in DOMAIN frames :
           /\ frames[i].id = s /\ frames[i].number = n
           /\ \A j \in DOMAIN frames : i < j => Earlier(frames[i], frames[j])
  <2>1. NumberOfFrames(len) \in Nat
    BY FramesCounted
  <2>2. ASSUME NEW i \in 1..NumberOfFrames(len)
        PROVE  BytesIn(len, i - 1) \in Int
    BY <1>2, <2>1, CanAssumption DEF BytesIn
  <2>3. ASSUME NEW i \in 1..NumberOfFrames(len)
        PROVE  frames[i] \in Frames
    BY <1>2, <2>1, <2>2 DEF Frames
  <2>4. ASSUME NEW i \in DOMAIN frames, NEW j \in DOMAIN frames, i < j
        PROVE  Earlier(frames[i], frames[j])
    BY <2>1, <2>4 DEF Earlier
  <2> QED
    BY <2>1, <2>3, <2>4
<1> HIDE DEF frames, n
<1>4. /\ sent' \in [Senders -> Seq(Nat)] /\ Len(sent'[s]) = n
      /\ \A r \in Senders : Len(sent[r]) <= Len(sent'[r]) /\ (r # s => sent'[r] = sent[r])
  BY <1>1, <1>2 DEF n
<1>5. /\ sending' \in [Senders -> Seq(Frames)] /\ sending'[s] = frames
      /\ \A r \in Senders : r # s => sending'[r] = sending[r]
  BY <1>1, <1>2, <1>3
<1>6. PathTypes'
  <2>1. \A r \in Senders : Len(sent'[r]) <= MaxMessages
    BY <1>a, <1>1, <1>2, <1>4, CanAssumption DEF PathTypes, n
  <2> QED
    BY <1>a, <1>1, <1>4, <1>5, <2>1 DEF PathTypes
(* Whatever was sent before has a lower number.                            *)
<1>7. ASSUME NEW g \in Frames, g.number <= Len(sent[g.id])
      PROVE  \A i \in DOMAIN sending'[s] : Earlier(g, sending'[s][i])
  <2> SUFFICES ASSUME NEW i \in DOMAIN frames PROVE Earlier(g, frames[i])
    BY <1>5
  <2>1. frames[i].id = s /\ frames[i].number = n
    BY <1>3
  <2>2. g.id = s => g.number < n
    BY <1>2, <1>7 DEF Frames, n
  <2> QED
    BY <2>1, <2>2 DEF Earlier
<1>8. \A i \in DOMAIN arrived : arrived[i] \in Frames /\ arrived[i].number <= Len(sent[arrived[i].id])
  BY <1>a DEF PathTypes, WaitingOrder
<1>9. \A i \in DOMAIN buffered : buffered[i] \in Frames /\ buffered[i].number <= Len(sent[buffered[i].id])
  BY <1>a DEF PathTypes, WaitingOrder
<1>10. ASSUME NEW g \in Frames, g.number <= Len(sent[g.id]) PROVE g.number <= Len(sent'[g.id])
  BY <1>2, <1>4, <1>10 DEF Frames
<1>11. SendersOrder'
  <2> SUFFICES ASSUME NEW r \in Senders
               PROVE  /\ \A i \in DOMAIN sending'[r] :
                           /\ sending'[r][i].id = r /\ sending'[r][i].number = Len(sent'[r])
                           /\ \A j \in DOMAIN sending'[r] :
                                i < j => Earlier(sending'[r][i], sending'[r][j])
                      /\ \A i \in DOMAIN arrived, j \in DOMAIN sending'[r] :
                           Earlier(arrived[i], sending'[r][j])
                      /\ \A i \in DOMAIN buffered, j \in DOMAIN sending'[r] :
                           Earlier(buffered[i], sending'[r][j])
    BY <1>1 DEF SendersOrder, Earlier
  <2>1. CASE r = s
    <3>1. \A i \in DOMAIN sending'[r] :
            /\ sending'[r][i].id = r /\ sending'[r][i].number = Len(sent'[r])
            /\ \A j \in DOMAIN sending'[r] : i < j => Earlier(sending'[r][i], sending'[r][j])
      BY <1>3, <1>4, <1>5, <2>1
    <3> QED
      BY <1>7, <1>8, <1>9, <2>1, <3>1
  <2>2. CASE r # s
    <3>1. sending'[r] = sending[r] /\ sent'[r] = sent[r]
      BY <1>4, <1>5, <2>2
    <3> QED
      BY <1>a, <3>1 DEF SendersOrder
  <2> QED
    BY <2>1, <2>2
<1>12. WaitingOrder'
  <2>1. \A i \in DOMAIN arrived : arrived[i].number <= Len(sent'[arrived[i].id])
    BY <1>8, <1>10
  <2>2. \A i \in DOMAIN buffered : buffered[i].number <= Len(sent'[buffered[i].id])
    BY <1>9, <1>10
  <2> QED
    BY <1>a, <1>1, <2>1, <2>2 DEF WaitingOrder, Earlier
<1>13. ASSUME NEW g \in Frames, BeforeAll(g) PROVE BeforeAll(g)'
  <2>1. g.number <= Len(sent[g.id])
    BY <1>13 DEF BeforeAll
  <2>2. g.number <= Len(sent'[g.id])
    BY <1>10, <2>1
  <2>3. \A r \in Senders : \A i \in DOMAIN sending'[r] : Earlier(g, sending'[r][i])
    BY <1>5, <1>7, <1>13, <2>1 DEF BeforeAll
  <2> QED
    BY <1>1, <1>13, <2>2, <2>3 DEF BeforeAll, Earlier
<1>14. ReceivedOrder'
  <2>1. current # None => assembled[1] \in Frames
    BY <1>a DEF PathTypes, Assembling
  <2>2. \A r \in Senders : \A i \in DOMAIN delivered[r] : delivered[r][i][1] \in Frames
    <3>1. ASSUME NEW r \in Senders, NEW i \in DOMAIN delivered[r] PROVE delivered[r][i][1] \in Frames
      <4>1. delivered[r] \in Seq(Seq(Frames)) /\ delivered[r][i] # <<>>
        BY <1>a DEF PathTypes, ReceivedOrder
      <4>2. delivered[r][i] \in Seq(Frames)
        BY <4>1
      <4> QED
        BY <4>1, <4>2
    <3> QED
      BY <3>1
  <2> QED
    BY <1>a, <1>1, <1>13, <2>1, <2>2 DEF ReceivedOrder
<1>15. Pool' /\ Assembling' /\ PoolScanned' /\ InOrder'
  BY <1>a, <1>1 DEF Pool, Assembling, PoolScanned, InOrder
<1> QED
  BY <1>6, <1>11, <1>12, <1>14, <1>15 DEF LinkInvariant

(* A frame is written, or frames are lost: each sender has the same frames *)
(* left, or fewer, and what has arrived was the next of them.              *)
LEMMA FramesLeaveStep ==
  ASSUME LinkInvariant, NEW s \in Senders, WriteFrame(s) \/ LoseFrame(s) \/ WriteError(s)
  PROVE  LinkInvariant'
<1>a. /\ PathTypes /\ Pool /\ Assembling /\ PoolScanned
      /\ SendersOrder /\ WaitingOrder /\ ReceivedOrder /\ InOrder
  BY DEF LinkInvariant
<1>1. /\ sending[s] # <<>> /\ sending \in [Senders -> Seq(Frames)]
      /\ sent' = sent /\ UNCHANGED <<state, current, assembled, buffered, free, delivered>>
  BY <1>a DEF WriteFrame, LoseFrame, WriteError, receiverVars, messageVars, PathTypes
<1>2. PICK f \in Frames : f = sending[s][1] /\ f = Head(sending[s]) /\ 1 \in DOMAIN sending[s]
  BY <1>1
<1>3. PICK left \in Seq(Frames) :
        /\ sending' = [sending EXCEPT ![s] = left]
        /\ Thinned(left, sending[s])
        /\ \A j \in DOMAIN left : \E i \in DOMAIN sending[s] : i > 1 /\ left[j] = sending[s][i]
  <2>1. CASE WriteFrame(s) \/ LoseFrame(s)
    <3>1. sending' = [sending EXCEPT ![s] = Tail(sending[s])]
      BY <2>1 DEF WriteFrame, LoseFrame
    <3>2. /\ Tail(sending[s]) \in Seq(Frames)
          /\ \A j \in DOMAIN Tail(sending[s]) :
               j + 1 > 1 /\ j + 1 \in DOMAIN sending[s] /\ Tail(sending[s])[j] = sending[s][j + 1]
      BY <1>1
    <3> QED
      BY <1>1, <3>1, <3>2, ThinnedTail
  <2>2. CASE WriteError(s)
    <3>1. sending' = [sending EXCEPT ![s] = <<>>]
      BY <2>2 DEF WriteError
    <3>2. <<>> \in Seq(Frames) /\ DOMAIN <<>> = {}
      OBVIOUS
    <3> QED
      BY <3>1, <3>2 DEF Thinned
  <2> QED
    BY <2>1, <2>2
<1>4. /\ sending' \in [Senders -> Seq(Frames)] /\ sending'[s] = left
      /\ \A r \in Senders : r # s => sending'[r] = sending[r]
  BY <1>1, <1>3
<1>5. \A r \in Senders : \A j \in DOMAIN sending'[r] :
        \E i \in DOMAIN sending[r] : sending'[r][j] = sending[r][i] /\ (r = s => i > 1)
  BY <1>3, <1>4
<1>6. /\ arrived' \in Seq(Frames) /\ Len(arrived') <= MaxWaiting
      /\ \A j \in DOMAIN arrived' :
           \/ j \in DOMAIN arrived /\ arrived'[j] = arrived[j]
           \/ arrived'[j] = f /\ \A i \in DOMAIN arrived' : i <= j
  <2>1. arrived \in Seq(Frames) /\ Len(arrived) <= MaxWaiting /\ MaxWaiting \in Nat
    BY <1>a, CanAssumption DEF PathTypes
  <2>2. CASE WriteFrame(s)
    <3>1. arrived' = Append(arrived, f) /\ Len(arrived) < MaxWaiting
      BY <1>2, <2>2 DEF WriteFrame
    <3> QED
      BY <2>1, <3>1
  <2>3. CASE LoseFrame(s) \/ WriteError(s)
    <3>1. arrived' = arrived
      BY <2>3 DEF LoseFrame, WriteError
    <3> QED
      BY <2>1, <3>1
  <2> QED
    BY <2>2, <2>3
<1>7. faults' \in 0..MaxFaults
  <2>1. faults \in 0..MaxFaults /\ MaxFaults \in Nat
    BY <1>a, CanAssumption DEF PathTypes
  <2>2. faults' = faults \/ (faults < MaxFaults /\ faults' = faults + 1)
    BY DEF WriteFrame, LoseFrame, WriteError
  <2> QED
    BY <2>1, <2>2
<1>8. PathTypes'
  BY <1>a, <1>1, <1>4, <1>6, <1>7 DEF PathTypes
(* The frame that leaves has the number of the message; it comes after all *)
(* that are on their way and only further frames of it come after.         *)
<1>9. f.id = s /\ f.number = Len(sent[s])
  BY <1>a, <1>2 DEF SendersOrder
<1>10. \A r \in Senders : \A j \in DOMAIN sending'[r] : Earlier(f, sending'[r][j])
  <2> SUFFICES ASSUME NEW r \in Senders, NEW j \in DOMAIN sending'[r]
               PROVE  Earlier(f, sending'[r][j])
    OBVIOUS
  <2>1. PICK i \in DOMAIN sending[r] : sending'[r][j] = sending[r][i] /\ (r = s => i > 1)
    BY <1>5
  <2>2. sending[r][i].id = r
    BY <1>a DEF SendersOrder
  <2>3. r = s => Earlier(f, sending[r][i])
    BY <1>a, <1>2, <2>1 DEF SendersOrder
  <2> QED
    BY <1>9, <2>1, <2>2, <2>3 DEF Earlier
<1>11. ASSUME NEW g, \A i \in DOMAIN sending[s] : Earlier(g, sending[s][i]),
              \A i \in DOMAIN arrived : Earlier(g, arrived[i])
       PROVE  \A i \in DOMAIN arrived' : Earlier(g, arrived'[i])
  BY <1>2, <1>6, <1>11
<1>12. SendersOrder'
  <2> SUFFICES ASSUME NEW r \in Senders
               PROVE  /\ \A i \in DOMAIN sending'[r] :
                           /\ sending'[r][i].id = r /\ sending'[r][i].number = Len(sent[r])
                           /\ \A j \in DOMAIN sending'[r] :
                                i < j => Earlier(sending'[r][i], sending'[r][j])
                      /\ \A i \in DOMAIN arrived', j \in DOMAIN sending'[r] :
                           Earlier(arrived'[i], sending'[r][j])
                      /\ \A i \in DOMAIN buffered, j \in DOMAIN sending'[r] :
                           Earlier(buffered[i], sending'[r][j])
    BY <1>1 DEF SendersOrder, Earlier
  <2>1. \A i \in DOMAIN sending'[r] :
          /\ sending'[r][i].id = r /\ sending'[r][i].number = Len(sent[r])
          /\ \A j \in DOMAIN sending'[r] : i < j => Earlier(sending'[r][i], sending'[r][j])
    <3>1. CASE r = s
      BY <1>a, <1>3, <1>4, <3>1 DEF SendersOrder, Thinned
    <3>2. CASE r # s
      BY <1>a, <1>4, <3>2 DEF SendersOrder
    <3> QED
      BY <3>1, <3>2
  <2>2. ASSUME NEW i \in DOMAIN arrived', NEW j \in DOMAIN sending'[r]
        PROVE  Earlier(arrived'[i], sending'[r][j])
    <3>1. CASE arrived'[i] = f
      BY <1>10, <3>1
    <3>2. CASE i \in DOMAIN arrived /\ arrived'[i] = arrived[i]
      BY <1>a, <1>5, <3>2 DEF SendersOrder
    <3> QED
      BY <1>6, <3>1, <3>2
  <2>3. \A i \in DOMAIN buffered, j \in DOMAIN sending'[r] : Earlier(buffered[i], sending'[r][j])
    BY <1>a, <1>5 DEF SendersOrder
  <2> QED
    BY <2>1, <2>2, <2>3
<1>13. WaitingOrder'
  <2>1. \A i \in DOMAIN arrived' : arrived'[i].number <= Len(sent[arrived'[i].id])
    <3>1. f.number <= Len(sent[f.id])
      BY <1>a, <1>9 DEF PathTypes
    <3> QED
      BY <1>a, <1>6, <3>1 DEF WaitingOrder
  <2>2. ASSUME NEW i \in DOMAIN arrived', NEW j \in DOMAIN arrived', i < j
        PROVE  Earlier(arrived'[i], arrived'[j])
    <3>1. i \in DOMAIN arrived /\ arrived'[i] = arrived[i]
      BY <1>6, <2>2
    <3>2. CASE arrived'[j] = f
      BY <1>a, <1>2, <3>1, <3>2 DEF SendersOrder
    <3>3. CASE j \in DOMAIN arrived /\ arrived'[j] = arrived[j]
      BY <1>a, <2>2, <3>1, <3>3 DEF WaitingOrder
    <3> QED
      BY <1>6, <3>2, <3>3
  <2>3. \A i \in DOMAIN buffered, j \in DOMAIN arrived' : Earlier(buffered[i], arrived'[j])
    BY <1>a, <1>11 DEF WaitingOrder, SendersOrder
  <2> QED
    BY <1>a, <1>1, <2>1, <2>2, <2>3 DEF WaitingOrder, Earlier
<1>14. ASSUME NEW g, BeforeAll(g) PROVE BeforeAll(g)'
  <2>1. \A r \in Senders : \A i \in DOMAIN sending'[r] : Earlier(g, sending'[r][i])
    BY <1>5, <1>14 DEF BeforeAll
  <2>2. \A i \in DOMAIN arrived' : Earlier(g, arrived'[i])
    BY <1>11, <1>14 DEF BeforeAll
  <2> QED
    BY <1>1, <1>14, <2>1, <2>2 DEF BeforeAll, Earlier
<1>15. ReceivedOrder' /\ Pool' /\ Assembling' /\ PoolScanned' /\ InOrder'
  BY <1>a, <1>1, <1>14 DEF ReceivedOrder, Pool, Assembling, PoolScanned, InOrder
<1> QED
  BY <1>8, <1>12, <1>13, <1>15 DEF LinkInvariant

-----------------------------------------------------------------------------
(* Nothing is on its way at first.                                         *)
LEMMA LinkInit == Init => LinkInvariant
<1> SUFFICES ASSUME Init PROVE LinkInvariant
  OBVIOUS
<1> USE CanAssumption DEF Init
<1>1. PathTypes /\ Pool /\ Assembling /\ PoolScanned
  BY DEF PathTypes, Pool, Assembling, PoolScanned
<1>2. SendersOrder /\ WaitingOrder /\ ReceivedOrder /\ InOrder
  BY DEF SendersOrder, WaitingOrder, ReceivedOrder, InOrder
<1> QED
  BY <1>1, <1>2 DEF LinkInvariant

(* A step that changes nothing keeps the invariant.                        *)
LEMMA LinkStutter == ASSUME LinkInvariant, UNCHANGED vars PROVE LinkInvariant'
BY DEF vars, LinkInvariant, PathTypes, Pool, Assembling, PoolScanned, SendersOrder, WaitingOrder,
       ReceivedOrder, InOrder, Earlier, BeforeAll

(* The inductive invariant of the link holds always.                       *)
LEMMA LinkHolds == Spec => []LinkInvariant
<1>1. LinkInvariant /\ [Next]_vars => LinkInvariant'
  <2> SUFFICES ASSUME LinkInvariant, [Next]_vars PROVE LinkInvariant'
    OBVIOUS
  <2>1. ASSUME NEW s \in Senders, \E len \in Lengths : SendNetworkMsg(s, len) PROVE LinkInvariant'
    BY <2>1, SendStep
  <2>2. ASSUME NEW s \in Senders, WriteFrame(s) \/ LoseFrame(s) \/ WriteError(s) PROVE LinkInvariant'
    BY <2>2, FramesLeaveStep
  <2>3. CASE Receiver
    BY <2>3, ScanTakeStep, ReadAppendStep, ReadBufferStep, QuietReceiverStep DEF Receiver
  <2> QED
    BY <2>1, <2>2, <2>3, LinkStutter DEF Next
<1> QED
  BY LinkInit, <1>1, PTL DEF Spec

(* Every buffer of the pool is free or holds a frame, whatever was stolen, *)
(* and the assertions of linkinterfacecan.cpp on the free position hold.   *)
THEOREM BuffersExact == Spec => []PoolExact
<1>1. LinkInvariant => PoolExact
  <2> SUFFICES ASSUME LinkInvariant PROVE PoolExact
    OBVIOUS
  <2>1. PathTypes /\ Pool /\ Assembling
    BY DEF LinkInvariant
  <2>2. free \in 0..BufferSize
    BY <2>1, CanAssumption DEF PathTypes, Pool
  <2>3. TypeOK
    BY <2>1, <2>2 DEF PathTypes, Assembling, TypeOK
  <2> QED
    BY <2>1, <2>3 DEF PoolExact, Pool
<1> QED
  BY <1>1, LinkHolds, PTL

(* getNetworkMsg returns the messages of a sender in the order in which    *)
(* they were sent and none twice, whatever was lost, stolen and mixed.     *)
THEOREM MessagesInOrder == Spec => []InOrder
<1>1. LinkInvariant => InOrder
  BY DEF LinkInvariant
<1> QED
  BY <1>1, LinkHolds, PTL

-----------------------------------------------------------------------------
(* Messages are whole.                                                     *)

(* The frames that the receiver has not looked at yet.                     *)
Path == (UNION {ToSet(sending[s]) : s \in Senders}) \cup ToSet(arrived) \cup ToSet(buffered)

(* f is a frame of a message that was sent.                                *)
Genuine(f) ==
  /\ f \in Frames /\ f.number \in 1..Len(sent[f.id])
  /\ f = Frame(f.id, f.number, f.sequence)
  /\ f.sequence < NumberOfFrames(f.len)

(* The receiver has looked at the first frame of this message of s, or of  *)
(* a later one.                                                            *)
Begun(s, number) ==
  \/ current = s /\ assembled[1].number >= number
  \/ \E i \in DOMAIN delivered[s] : delivered[s][i][1].number >= number

(* What happened to the first frame of the message to which f belongs.     *)
Led(f) ==
  \A first \in {Frame(f.id, f.number, 0)} :
    f.sequence # 0 => first \in lost \/ first \in Path \/ Begun(f.id, f.number)

PathGenuine == \A f \in Path : Genuine(f) /\ Led(f)

(* The exception of Intact.                                                *)
Excused(s, number) ==
  \E later \in (number + 1)..Len(sent[s]) :
    NumberOfFrames(sent[s][later]) > 0 /\ Frame(s, later, 0) \in lost

(* All frames of the message that is put together are its own, and more    *)
(* are to come, or a first frame was lost.                                 *)
OwnFrames(s, number, frames) ==
  /\ \A i \in DOMAIN frames : frames[i].number = number
  /\ Len(frames) < NumberOfFrames(sent[s][number])
  /\ bytesReceived = FirstBytes + (Len(frames) - 1) * FrameBytes

AssembledWhole ==
  /\ \A i \in DOMAIN assembled : assembled[i].id = current /\ assembled[i].sequence = i - 1
  /\ \A f \in ToSet(assembled) : Genuine(f)
  /\ current # None =>
       \A number \in {assembled[1].number} :
         Excused(current, number) \/ OwnFrames(current, number, assembled)

DeliveredWhole ==
  \A s \in Senders : \A i \in DOMAIN delivered[s] :
    \A number \in {delivered[s][i][1].number} :
      /\ number \in 1..Len(sent[s])
      /\ delivered[s][i] = FramesOf(s, number) \/ Excused(s, number)

WholeInvariant == PathGenuine /\ AssembledWhole /\ DeliveredWhole

(* How many bytes the frames of a message hold together.                   *)
LEMMA FirstFrameHolds ==
  ASSUME NEW len \in Nat, NumberOfFrames(len) > 0
  PROVE  IF NumberOfFrames(len) = 1 THEN BytesIn(len, 0) >= len
         ELSE NumberOfFrames(len) > 1 /\ BytesIn(len, 0) = FirstBytes /\ FirstBytes < len
<1>1. FirstBytes \in Nat /\ FrameBytes \in Nat \ {0}
  BY CanAssumption
<1>2. BytesIn(len, 0) = IF len < FirstBytes THEN len ELSE FirstBytes
  BY <1>1 DEF BytesIn
<1>3. CASE len <= FirstBytes
  BY <1>1, <1>2, <1>3 DEF NumberOfFrames
<1>4. CASE len > FirstBytes
  <2>1. (len - FirstBytes - 1) \div FrameBytes \in Nat
    BY <1>1, <1>4
  <2>2. NumberOfFrames(len) = 2 + (len - FirstBytes - 1) \div FrameBytes
    BY <1>1, <1>4 DEF NumberOfFrames
  <2> QED
    BY <1>1, <1>2, <1>4, <2>1, <2>2
<1> QED
  BY <1>1, <1>3, <1>4

(* All frames but the last one are full, and the last one completes it.    *)
LEMMA NextFrameHolds ==
  ASSUME NEW len \in Nat, NEW k \in Nat \ {0}, k < NumberOfFrames(len)
  PROVE  LET before == FirstBytes + (k - 1) * FrameBytes IN
         IF k + 1 = NumberOfFrames(len) THEN before + BytesIn(len, k) >= len
         ELSE /\ k + 1 < NumberOfFrames(len)
              /\ before + BytesIn(len, k) = FirstBytes + k * FrameBytes
              /\ before + BytesIn(len, k) < len
<1> DEFINE q == (len - FirstBytes - 1) \div FrameBytes
           before == FirstBytes + (k - 1) * FrameBytes
<1>1. FirstBytes \in Nat /\ FrameBytes \in Nat \ {0}
  BY CanAssumption
<1>2. len > FirstBytes /\ NumberOfFrames(len) = 2 + q
  BY <1>1 DEF NumberOfFrames
<1>3. q \in Nat /\ q * FrameBytes <= len - FirstBytes - 1 /\ len - FirstBytes - 1 < q * FrameBytes + FrameBytes
  BY <1>1, <1>2
<1>4. before \in Nat /\ before + FrameBytes = FirstBytes + k * FrameBytes
  <2>1. \A b \in Nat : k * b \in Nat /\ (k - 1) * b \in Nat /\ (k - 1) * b + b = k * b
    OBVIOUS
  <2> QED
    BY <1>1, <2>1
<1>5. BytesIn(len, k) = IF len - before < FrameBytes THEN len - before ELSE FrameBytes
  BY DEF BytesIn
<1> HIDE DEF q, before
<1>6. CASE k = q + 1
  <2>1. \A b \in Nat : (q + 1) * b = q * b + b
    BY <1>3
  <2>2. k * FrameBytes = q * FrameBytes + FrameBytes
    BY <1>1, <1>6, <2>1
  <2>3. before + BytesIn(len, k) >= len
    BY <1>1, <1>2, <1>3, <1>4, <1>5, <2>2
  <2> QED
    BY <1>2, <1>3, <1>6, <2>3 DEF before
<1>7. CASE k <= q
  <2>1. \A a, b, c \in Nat : a <= b => a * c <= b * c /\ a * c \in Nat /\ b * c \in Nat
    OBVIOUS
  <2>2. k * FrameBytes <= q * FrameBytes /\ k * FrameBytes \in Nat /\ q * FrameBytes \in Nat
    BY <1>1, <1>3, <1>7, <2>1
  <2>3. FirstBytes + k * FrameBytes < len
    BY <1>1, <1>2, <1>3, <2>2
  <2>4. BytesIn(len, k) = FrameBytes
    BY <1>1, <1>4, <1>5, <2>2, <2>3
  <2>5. k + 1 < 2 + q
    BY <1>3, <1>7
  <2> QED
    BY <1>2, <1>4, <2>3, <2>4, <2>5 DEF before
<1> QED
  BY <1>2, <1>3, <1>6, <1>7

(* Where the frames on the path are.                                       *)
PathParts(f) ==
  \/ \E s \in Senders : \E i \in DOMAIN sending[s] : f = sending[s][i]
  \/ \E i \in DOMAIN arrived : f = arrived[i]
  \/ \E i \in DOMAIN buffered : f = buffered[i]

(* A frame on the path is in one of them, now and after a step.            *)
LEMMA OnPath == ASSUME NEW f PROVE (f \in Path <=> PathParts(f)) /\ (f \in Path' <=> PathParts(f)')
BY DEF Path, PathParts, ToSet

(* Messages that were sent stay as they are.                               *)
SentGrows ==
  \A s \in Senders :
    /\ Len(sent[s]) <= Len(sent'[s])
    /\ \A n \in 1..Len(sent[s]) : sent'[s][n] = sent[s][n]

(* So do their frames, and what excuses a message.                         *)
LEMMA SentKept ==
  ASSUME PathTypes, PathTypes', SentGrows, lost \subseteq lost'
  PROVE  /\ \A f : Genuine(f) => Genuine(f)'
         /\ \A s \in Senders : \A n \in 1..Len(sent[s]) :
              /\ n \in 1..Len(sent'[s]) /\ FramesOf(s, n)' = FramesOf(s, n)
              /\ \A q : Frame(s, n, q)' = Frame(s, n, q)
         /\ \A s \in Senders, n \in Nat : Excused(s, n) => Excused(s, n)'
<1>1. \A s \in Senders : Len(sent[s]) \in Nat /\ Len(sent'[s]) \in Nat /\ Len(sent[s]) <= Len(sent'[s])
  <2>1. sent \in [Senders -> Seq(Nat)] /\ sent' \in [Senders -> Seq(Nat)]
    BY DEF PathTypes
  <2> QED
    BY <2>1 DEF SentGrows
<1>2. ASSUME NEW s \in Senders, NEW n \in 1..Len(sent[s])
      PROVE  /\ n \in 1..Len(sent'[s]) /\ sent'[s][n] = sent[s][n]
             /\ \A q : Frame(s, n, q)' = Frame(s, n, q)
             /\ FramesOf(s, n)' = FramesOf(s, n)
  <2>1. n \in 1..Len(sent'[s]) /\ sent'[s][n] = sent[s][n]
    BY <1>1 DEF SentGrows
  <2>2. \A q : Frame(s, n, q)' = Frame(s, n, q)
    BY <2>1 DEF Frame
  <2>3. FramesOf(s, n)' = FramesOf(s, n)
    BY <2>1 DEF FramesOf, Frame, NumberOfFrames
  <2> QED
    BY <2>1, <2>2, <2>3
<1>3. ASSUME NEW f, Genuine(f) PROVE Genuine(f)'
  <2>1. f \in Frames /\ f.id \in Senders /\ f.number \in 1..Len(sent[f.id])
    BY <1>3 DEF Genuine, Frames
  <2>2. f = Frame(f.id, f.number, f.sequence)'
    BY <1>2, <1>3, <2>1 DEF Genuine
  <2>3. f.number \in 1..Len(sent'[f.id])
    BY <1>2, <2>1
  <2> QED
    BY <1>3, <2>1, <2>2, <2>3 DEF Genuine, NumberOfFrames
<1>4. ASSUME NEW s \in Senders, NEW n \in Nat, Excused(s, n) PROVE Excused(s, n)'
  <2>1. PICK later \in (n + 1)..Len(sent[s]) :
          NumberOfFrames(sent[s][later]) > 0 /\ Frame(s, later, 0) \in lost
    BY <1>4 DEF Excused
  <2>2. later \in 1..Len(sent[s]) /\ later \in (n + 1)..Len(sent'[s])
    BY <1>1, <2>1
  <2>3. NumberOfFrames(sent'[s][later]) > 0 /\ Frame(s, later, 0)' \in lost'
    BY <1>2, <2>1, <2>2
  <2> QED
    BY <2>2, <2>3 DEF Excused, NumberOfFrames
<1> QED
  BY <1>2, <1>3, <1>4

(* A step that only moves frames along the path, loses some of them or     *)
(* sends new ones keeps messages whole.                                    *)
LEMMA WholeKept ==
  ASSUME LinkInvariant, LinkInvariant', WholeInvariant, UNCHANGED messageVars,
         SentGrows, lost \subseteq lost', Path \subseteq Path' \cup lost',
         \A f \in Path' : f \in Path \/ (Genuine(f)' /\ Led(f)')
  PROVE  WholeInvariant'
<1>a. PathTypes /\ PathTypes' /\ Assembling /\ PathGenuine /\ AssembledWhole /\ DeliveredWhole
  BY DEF LinkInvariant, WholeInvariant
<1>1. /\ \A f : Genuine(f) => Genuine(f)'
      /\ \A s \in Senders : \A n \in 1..Len(sent[s]) :
           /\ n \in 1..Len(sent'[s]) /\ FramesOf(s, n)' = FramesOf(s, n)
           /\ \A q : Frame(s, n, q)' = Frame(s, n, q)
      /\ \A s \in Senders, n \in Nat : Excused(s, n) => Excused(s, n)'
  BY <1>a, SentKept
<1>2. /\ current' = current /\ assembled' = assembled /\ delivered' = delivered
      /\ bytesReceived' = bytesReceived
  BY DEF messageVars
<1>3. PathGenuine'
  <2> SUFFICES ASSUME NEW f \in Path' PROVE Genuine(f)' /\ Led(f)'
    BY DEF PathGenuine
  <2> SUFFICES ASSUME f \in Path PROVE Genuine(f)' /\ Led(f)'
    OBVIOUS
  <2>1. Genuine(f) /\ Led(f)
    BY <1>a DEF PathGenuine
  <2>2. f.id \in Senders /\ f.number \in 1..Len(sent[f.id])
    BY <2>1 DEF Genuine, Frames
  <2>3. Frame(f.id, f.number, 0)' = Frame(f.id, f.number, 0)
    BY <1>1, <2>2
  <2>4. Begun(f.id, f.number) => Begun(f.id, f.number)'
    BY <1>2 DEF Begun
  <2>5. Led(f)'
    BY <2>1, <2>3, <2>4 DEF Led
  <2> QED
    BY <1>1, <2>1, <2>5
<1>4. AssembledWhole'
  <2>1. /\ \A i \in DOMAIN assembled' : assembled'[i].id = current' /\ assembled'[i].sequence = i - 1
        /\ \A f \in ToSet(assembled') : Genuine(f)'
    BY <1>a, <1>1, <1>2 DEF AssembledWhole
  <2>2. ASSUME current # None, NEW n \in {assembled[1].number}
        PROVE  Excused(current, n)' \/ OwnFrames(current, n, assembled)'
    <3>1. assembled # <<>> /\ assembled \in Seq(Frames)
      BY <1>a, <2>2 DEF Assembling, PathTypes
    <3>2. 1 \in DOMAIN assembled /\ assembled[1] \in ToSet(assembled)
      BY <3>1 DEF ToSet
    <3>3. assembled[1].id = current /\ \A f \in {assembled[1]} : Genuine(f)
      BY <1>a, <3>2 DEF AssembledWhole
    <3>4. n \in 1..Len(sent[current]) /\ current \in Senders /\ n \in Nat
      <4>1. n \in 1..Len(sent[current])
        BY <2>2, <3>3 DEF Genuine
      <4>2. current \in Senders /\ Len(sent[current]) \in Nat
        BY <1>a, <2>2 DEF PathTypes
      <4> QED
        BY <4>1, <4>2
    <3>5. Excused(current, n) \/ OwnFrames(current, n, assembled)
      BY <1>a, <2>2 DEF AssembledWhole
    <3>6. Excused(current, n) => Excused(current, n)'
      BY <1>1, <1>2, <3>4
    <3>7. OwnFrames(current, n, assembled) => OwnFrames(current, n, assembled)'
      BY <1>2, <3>4 DEF OwnFrames, SentGrows, NumberOfFrames
    <3> QED
      BY <3>5, <3>6, <3>7
  <2> QED
    BY <1>2, <2>1, <2>2 DEF AssembledWhole
<1>5. DeliveredWhole'
  <2> SUFFICES ASSUME NEW s \in Senders, NEW i \in DOMAIN delivered[s],
                      NEW n \in {delivered[s][i][1].number}
               PROVE  n \in 1..Len(sent'[s]) /\ (delivered[s][i] = FramesOf(s, n)' \/ Excused(s, n)')
    BY <1>2 DEF DeliveredWhole
  <2>1. n \in 1..Len(sent[s]) /\ (delivered[s][i] = FramesOf(s, n) \/ Excused(s, n))
    BY <1>a DEF DeliveredWhole
  <2>2. n \in Nat
    BY <1>a, <2>1 DEF PathTypes
  <2> QED
    BY <1>1, <2>1, <2>2
<1> QED
  BY <1>3, <1>4, <1>5 DEF WholeInvariant

(* appendCANMsgToCurrentNetMsg with the first frame on the path of its id. *)

(* The first frame of the message to which f belongs was lost, or is what  *)
(* the receiver has put together or delivered.                             *)
LEMMA LeadKnown ==
  ASSUME WholeInvariant, NEW f \in Path, NEW stolen, f.sequence # 0,
         Path \subseteq Path' \cup {f} \cup stolen, BeforeAll(f)', lost \cup stolen \subseteq lost'
  PROVE  \A first \in {Frame(f.id, f.number, 0)} : first \in lost' \/ Begun(f.id, f.number)
<1> SUFFICES ASSUME NEW first \in {Frame(f.id, f.number, 0)}
             PROVE  first \in lost' \/ Begun(f.id, f.number)
  OBVIOUS
<1>1. Genuine(f) /\ Led(f)
  BY DEF WholeInvariant, PathGenuine
<1>2. first \in lost \/ first \in Path \/ Begun(f.id, f.number)
  BY <1>1 DEF Led
<1>3. /\ first.id = f.id /\ first.number = f.number /\ first.sequence = 0
      /\ f.sequence \in Nat /\ f.number \in Nat
  BY <1>1 DEF Frame, Genuine, Frames
<1>4. first # f
  BY <1>3
<1>5. ~Earlier(f, first)
  BY <1>3 DEF Earlier
<1>6. \A x \in Path' : Earlier(f, x)
  BY OnPath DEF BeforeAll, PathParts, Earlier
<1> QED
  BY <1>2, <1>4, <1>5, <1>6

(* What the message consists of with f.                                    *)
MessageWith(f, frames) ==
  /\ frames \in Seq(Frames) /\ frames # <<>>
  /\ f.sequence = 0 => frames[1] = f
  /\ f.sequence # 0 => current = f.id /\ assembled # <<>> /\ frames[1] = assembled[1]
  /\ \A i \in DOMAIN frames : frames[i].id = f.id /\ frames[i].sequence = i - 1
  /\ \A g \in ToSet(frames) : Genuine(g)

(* It has all its frames when it is complete.                              *)
CompleteRight(f, frames, number) ==
  /\ \A i \in DOMAIN frames : frames[i].number = number
  /\ IF Complete(frames, f) THEN Len(frames) = NumberOfFrames(sent[f.id][number])
     ELSE /\ Len(frames) < NumberOfFrames(sent[f.id][number])
          /\ Received(f) = FirstBytes + (Len(frames) - 1) * FrameBytes

(* A first frame begins a message.                                         *)
LEMMA FirstContinues ==
  ASSUME NEW f, Genuine(f), f.sequence = 0
  PROVE  MessageWith(f, <<f>>) /\ CompleteRight(f, <<f>>, f.number)
<1>1. f \in Frames /\ f.len = sent[f.id][f.number] /\ f.bytes = BytesIn(f.len, 0)
  BY DEF Genuine, Frame
<1>2. f.len \in Nat /\ f.bytes \in Int /\ NumberOfFrames(f.len) > 0
  BY <1>1 DEF Frames, Genuine
<1>3. MessageWith(f, <<f>>)
  <2>1. ToSet(<<f>>) = {f}
    BY DEF ToSet
  <2> QED
    BY <1>1, <2>1 DEF MessageWith
<1>4. Complete(<<f>>, f) <=> f.bytes >= f.len
  BY <1>2 DEF Complete, Received
<1>5. Received(f) = f.bytes
  BY <1>2 DEF Received
<1>6. /\ NumberOfFrames(f.len) \in Int /\ Len(<<f>>) = 1 /\ FirstBytes \in Int
      /\ FirstBytes + (1 - 1) * FrameBytes = FirstBytes
  BY <1>2, CanAssumption DEF NumberOfFrames
<1>7. IF NumberOfFrames(f.len) = 1 THEN BytesIn(f.len, 0) >= f.len
      ELSE NumberOfFrames(f.len) > 1 /\ BytesIn(f.len, 0) = FirstBytes /\ FirstBytes < f.len
  BY <1>2, FirstFrameHolds
<1>8. \A i \in DOMAIN <<f>> : <<f>>[i].number = f.number
  OBVIOUS
<1>9. IF Complete(<<f>>, f) THEN 1 = NumberOfFrames(f.len)
      ELSE 1 < NumberOfFrames(f.len) /\ Received(f) = FirstBytes + (1 - 1) * FrameBytes
  <2>1. CASE NumberOfFrames(f.len) = 1
    BY <1>1, <1>4, <1>7, <2>1
  <2>2. CASE NumberOfFrames(f.len) # 1
    <3>1. ~(FirstBytes >= f.len)
      BY <1>2, <1>6, <1>7, <2>2
    <3> QED
      BY <1>1, <1>4, <1>5, <1>6, <1>7, <2>2, <3>1
  <2> QED
    BY <2>1, <2>2
<1>10. CompleteRight(f, <<f>>, f.number)
  BY <1>1, <1>6, <1>8, <1>9 DEF CompleteRight
<1> QED
  BY <1>3, <1>10

(* A later frame continues the message, or the one that was put together   *)
(* is excused: the first frame of that of f was lost.                      *)
LEMMA LaterContinues ==
  ASSUME LinkInvariant, LinkInvariant', WholeInvariant, UNCHANGED sent,
         NEW f \in Path, NEW stolen, f.sequence # 0, Continues(f),
         Path \subseteq Path' \cup {f} \cup stolen, BeforeAll(f)', lost \cup stolen \subseteq lost'
  PROVE  /\ MessageWith(f, Append(assembled, f))
         /\ \A n \in {assembled[1].number} :
              Excused(f.id, n)' \/ CompleteRight(f, Append(assembled, f), n)
<1> DEFINE k == Len(assembled)
           frames == Append(assembled, f)
<1>a. PathTypes /\ PathTypes' /\ Assembling /\ ReceivedOrder /\ AssembledWhole
  BY DEF LinkInvariant, WholeInvariant
<1>1. current # None /\ f.id = current /\ f.sequence = k
  BY DEF Continues
<1>2. Genuine(f) /\ f \in Frames
  BY DEF WholeInvariant, PathGenuine, Genuine
<1>3. assembled \in Seq(Frames) /\ assembled # <<>> /\ k \in Nat \ {0}
  BY <1>a, <1>1 DEF PathTypes, Assembling
<1>4. /\ frames \in Seq(Frames) /\ frames # <<>> /\ Len(frames) = k + 1 /\ frames[1] = assembled[1]
      /\ DOMAIN frames = 1..(k + 1) /\ frames[k + 1] = f
      /\ \A i \in 1..k : frames[i] = assembled[i] /\ i \in DOMAIN assembled
  BY <1>2, <1>3
<1>5. assembled[1] \in ToSet(assembled) /\ assembled[1].id = current
  BY <1>a, <1>1, <1>3 DEF Assembling, ToSet
<1> HIDE DEF frames
<1>6. MessageWith(f, frames)
  <2>1. ASSUME NEW i \in DOMAIN frames PROVE frames[i].id = f.id /\ frames[i].sequence = i - 1
    <3>1. CASE i = k + 1
      BY <1>1, <1>3, <1>4, <3>1
    <3>2. CASE i \in 1..k
      BY <1>a, <1>1, <1>4, <3>2 DEF AssembledWhole
    <3> QED
      BY <1>3, <1>4, <3>1, <3>2
  <2>2. ASSUME NEW g \in ToSet(frames) PROVE Genuine(g)
    <3>1. PICK i \in DOMAIN frames : g = frames[i]
      BY DEF ToSet
    <3>2. CASE i = k + 1
      BY <1>2, <1>4, <3>1, <3>2
    <3>3. CASE i \in 1..k
      <4>1. g \in ToSet(assembled)
        BY <1>4, <3>1, <3>3 DEF ToSet
      <4> QED
        BY <1>a, <4>1 DEF AssembledWhole
    <3> QED
      BY <1>3, <1>4, <3>2, <3>3
  <2> QED
    BY <1>1, <1>3, <1>4, <2>1, <2>2 DEF MessageWith
<1>7. ASSUME NEW n \in {assembled[1].number}
      PROVE  Excused(f.id, n)' \/ CompleteRight(f, frames, n)
  <2>a. PICK g \in Frames : g = assembled[1] /\ Genuine(g) /\ BeforeAll(g) /\ g.id = f.id
    BY <1>a, <1>1, <1>3, <1>5 DEF AssembledWhole, ReceivedOrder
  <2>b. /\ f.id \in Senders /\ n = g.number /\ n \in Nat /\ n \in 1..Len(sent[f.id])
        /\ f.number \in 1..Len(sent[f.id]) /\ f.number \in Nat
    BY <1>2, <2>a DEF Genuine, Frames
  <2>1. Excused(f.id, n) \/ OwnFrames(f.id, n, assembled)
    BY <1>a, <1>1 DEF AssembledWhole
  <2>2. Earlier(g, f)
    BY <2>a, OnPath DEF BeforeAll, PathParts
  <2>3. n < f.number \/ n = f.number
    BY <2>2, <2>a, <2>b DEF Earlier
  <2>4. CASE Excused(f.id, n)
    <3>1. SentGrows
      BY <1>a DEF SentGrows, PathTypes
    <3> QED
      BY <1>a, <2>4, <2>b, <3>1, SentKept
  <2>5. CASE n < f.number
    <3>1. ~Begun(f.id, f.number)
      <4>1. \A i \in DOMAIN delivered[f.id] : delivered[f.id][i][1].number < n
        BY <1>a, <1>1, <2>b DEF ReceivedOrder
      <4>2. \A i \in DOMAIN delivered[f.id] : delivered[f.id][i][1].number \in Int
        <5>1. ASSUME NEW i \in DOMAIN delivered[f.id]
              PROVE  delivered[f.id][i][1].number \in Int
          <6>1. delivered[f.id] \in Seq(Seq(Frames)) /\ delivered[f.id][i] # <<>>
            BY <1>a, <2>b DEF PathTypes, ReceivedOrder
          <6>2. delivered[f.id][i] \in Seq(Frames)
            BY <6>1
          <6>3. delivered[f.id][i][1] \in Frames
            BY <6>1, <6>2
          <6> QED
            BY <6>3 DEF Frames
        <5> QED
          BY <5>1
      <4> QED
        BY <2>5, <2>a, <2>b, <4>1, <4>2 DEF Begun
    <3>2. \A first \in {Frame(f.id, f.number, 0)} : first \in lost'
      BY <3>1, LeadKnown
    <3>3. Frame(f.id, f.number, 0)' = Frame(f.id, f.number, 0)
      BY DEF Frame
    <3>4. f.number \in (n + 1)..Len(sent'[f.id])
      BY <1>a, <2>5, <2>b DEF PathTypes
    <3>5. NumberOfFrames(sent'[f.id][f.number]) > 0
      <4>1. f.len = sent[f.id][f.number]
        BY <1>2 DEF Genuine, Frame
      <4>2. f.sequence < NumberOfFrames(f.len) /\ f.sequence \in Nat /\ f.len \in Nat
        BY <1>2 DEF Genuine, Frames
      <4>3. NumberOfFrames(f.len) \in Int
        BY <4>2, CanAssumption DEF NumberOfFrames
      <4> QED
        BY <4>1, <4>2, <4>3
    <3> QED
      BY <3>2, <3>3, <3>4, <3>5 DEF Excused, NumberOfFrames
  <2>6. CASE n = f.number /\ OwnFrames(f.id, n, assembled)
    <3> DEFINE len == sent[f.id][n]
    <3>1. /\ f.len = len /\ g.len = len /\ len \in Nat /\ f.bytes = BytesIn(len, k)
          /\ f.bytes \in Int /\ k < NumberOfFrames(len)
      BY <1>1, <1>2, <2>6, <2>a, <2>b DEF Genuine, Frame, Frames
    <3>2. \A i \in DOMAIN frames : frames[i].number = n
      BY <1>3, <1>4, <2>6 DEF OwnFrames
    <3>3. Received(f) = FirstBytes + (k - 1) * FrameBytes + BytesIn(len, k)
      BY <2>6, <3>1 DEF Received, OwnFrames
    <3>4. Complete(frames, f) <=> Received(f) >= len
      BY <1>4, <2>a, <3>1 DEF Complete
    <3> DEFINE sum == FirstBytes + (k - 1) * FrameBytes + BytesIn(len, k)
               N == NumberOfFrames(len)
    <3>5. IF k + 1 = N THEN sum >= len
          ELSE k + 1 < N /\ sum = FirstBytes + k * FrameBytes /\ sum < len
      BY <1>3, <3>1, NextFrameHolds
    <3>6. sum \in Int /\ N \in Int /\ len \in Int
      <4>1. N \in Int
        BY <3>1, CanAssumption DEF NumberOfFrames
      <4>2. \A b \in Nat : (k - 1) * b \in Int
        BY <1>3
      <4>3. FirstBytes \in Int /\ (k - 1) * FrameBytes \in Int /\ BytesIn(len, k) \in Int
        BY <3>1, <4>2, CanAssumption
      <4> QED
        BY <3>1, <4>1, <4>3
    <3>7. CompleteRight(f, frames, n)
      <4> HIDE DEF sum, N, len
      <4>1. Received(f) = sum
        BY <3>3 DEF sum
      <4>2. IF sum >= len THEN k + 1 = N
            ELSE k + 1 < N /\ sum = FirstBytes + k * FrameBytes
        BY <3>5, <3>6
      <4>3. IF Complete(frames, f) THEN k + 1 = N
            ELSE k + 1 < N /\ Received(f) = FirstBytes + k * FrameBytes
        BY <3>4, <4>1, <4>2
      <4>4. (k + 1) - 1 = k
        BY <1>3
      <4> QED
        BY <1>4, <3>2, <4>3, <4>4 DEF CompleteRight, N, len
    <3> QED
      BY <3>7
  <2> QED
    BY <2>1, <2>3, <2>4, <2>5, <2>6
<1> QED
  BY <1>6, <1>7 DEF frames

(* What the message is with f.                                             *)
With(f) == IF f.sequence = 0 THEN <<f>> ELSE Append(assembled, f)

(* The message goes on, or it is delivered.                                *)
GoesOn(f, frames) ==
  /\ ~Complete(frames, f) /\ current' = f.id /\ assembled' = frames
  /\ bytesReceived' = Received(f) /\ delivered' = delivered
IsDelivered(f, frames) ==
  /\ Complete(frames, f) /\ current' = None /\ assembled' = <<>>
  /\ delivered' = [delivered EXCEPT ![f.id] = Append(delivered[f.id], frames)]

(* Deliveries only grow.                                                   *)
LEMMA DeliveriesGrow ==
  ASSUME PathTypes, NEW f \in Frames, NEW frames, GoesOn(f, frames) \/ IsDelivered(f, frames)
  PROVE  /\ \A s \in Senders : \A i \in DOMAIN delivered[s] :
              i \in DOMAIN delivered'[s] /\ delivered'[s][i] = delivered[s][i]
         /\ \A s \in Senders : \A i \in DOMAIN delivered'[s] :
              \/ i \in DOMAIN delivered[s]
              \/ IsDelivered(f, frames) /\ s = f.id /\ delivered'[s][i] = frames
         /\ IsDelivered(f, frames) => \E i \in DOMAIN delivered'[f.id] : delivered'[f.id][i] = frames
<1>1. CASE GoesOn(f, frames) /\ ~IsDelivered(f, frames)
  BY <1>1 DEF GoesOn
<1>2. CASE IsDelivered(f, frames)
  <2>1. f.id \in Senders
    BY DEF Frames
  <2>2. /\ delivered' = [delivered EXCEPT ![f.id] = Append(delivered[f.id], frames)]
        /\ delivered \in [Senders -> Seq(Seq(Frames))] /\ delivered[f.id] \in Seq(Seq(Frames))
    BY <1>2, <2>1 DEF IsDelivered, PathTypes
  <2>3. PICK m \in Nat : m = Len(delivered[f.id])
    BY <2>2
  <2>4. /\ \A s \in Senders : s # f.id => delivered'[s] = delivered[s]
        /\ delivered'[f.id] = Append(delivered[f.id], frames)
        /\ DOMAIN delivered[f.id] = 1..m
    BY <2>1, <2>2, <2>3
  <2>5. /\ DOMAIN delivered'[f.id] = 1..(m + 1) /\ delivered'[f.id][m + 1] = frames
        /\ \A i \in 1..m : delivered'[f.id][i] = delivered[f.id][i]
    BY <2>2, <2>3, <2>4
  <2>6. 1..(m + 1) = 1..m \cup {m + 1} /\ m + 1 \in 1..(m + 1)
    BY <2>3
  <2> QED
    BY <1>2, <2>4, <2>5, <2>6
<1> QED
  BY <1>1, <1>2

(* What the receiver has begun with stays so, and f and what was before it *)
(* are begun with.                                                         *)
LEMMA BegunKept ==
  ASSUME LinkInvariant, NEW f \in Path, Belongs(f), NEW frames, MessageWith(f, frames),
         GoesOn(f, frames) \/ IsDelivered(f, frames)
  PROVE  /\ \A k \in Nat : k <= frames[1].number => Begun(f.id, k)'
         /\ \A s \in Senders, k \in Nat : Begun(s, k) => Begun(s, k)'
<1>a. PathTypes /\ Assembling /\ ReceivedOrder
  BY DEF LinkInvariant
<1>1. f \in Frames
  <2>1. \A s \in Senders : sending[s] \in Seq(Frames)
    BY <1>a DEF PathTypes
  <2>2. /\ \A s \in Senders : \A i \in DOMAIN sending[s] : sending[s][i] \in Frames
        /\ \A i \in DOMAIN arrived : arrived[i] \in Frames
        /\ \A i \in DOMAIN buffered : buffered[i] \in Frames
    BY <1>a, <2>1 DEF PathTypes
  <2> QED
    BY <2>2, OnPath DEF PathParts
<1>2. /\ \A s \in Senders : \A i \in DOMAIN delivered[s] :
           i \in DOMAIN delivered'[s] /\ delivered'[s][i] = delivered[s][i]
      /\ IsDelivered(f, frames) => \E i \in DOMAIN delivered'[f.id] : delivered'[f.id][i] = frames
  BY <1>a, <1>1, DeliveriesGrow
<1>3. ASSUME NEW k \in Nat, k <= frames[1].number PROVE Begun(f.id, k)'
  BY <1>2, <1>3 DEF Begun, GoesOn
<1>4. ASSUME NEW s \in Senders, NEW k \in Nat, Begun(s, k) PROVE Begun(s, k)'
  <2>1. CASE \E i \in DOMAIN delivered[s] : delivered[s][i][1].number >= k
    BY <1>2, <2>1 DEF Begun
  <2>2. CASE current = s /\ assembled[1].number >= k
    <3>1. s # None
      BY CanAssumption
    <3>2. f.id = s
      BY <2>2, <3>1 DEF Belongs
    <3>3. PICK g \in Frames : g = assembled[1] /\ BeforeAll(g) /\ g.id = f.id /\ g.sequence = 0
      BY <1>a, <2>2, <3>1, <3>2 DEF PathTypes, Assembling, ReceivedOrder
    <3>4. Earlier(g, f)
      BY <3>3, OnPath DEF BeforeAll, PathParts
    <3>5. k <= frames[1].number
      <4>1. CASE f.sequence = 0
        <5>1. frames[1] = f
          BY <4>1 DEF MessageWith
        <5>2. g.number < f.number
          BY <3>3, <3>4, <4>1 DEF Earlier
        <5> QED
          BY <1>1, <2>2, <3>3, <5>1, <5>2 DEF Frames
      <4>2. CASE f.sequence # 0
        BY <2>2, <4>2, <3>3 DEF MessageWith, Frames
      <4> QED
        BY <4>1, <4>2
    <3> QED
      BY <1>3, <3>2, <3>5
  <2> QED
    BY <1>4, <2>1, <2>2 DEF Begun
<1> QED
  BY <1>3, <1>4

(* A message that is complete is what was sent.                            *)
LEMMA CompleteIsSent ==
  ASSUME PathTypes, NEW f \in Frames, NEW frames, MessageWith(f, frames),
         CompleteRight(f, frames, frames[1].number), Complete(frames, f)
  PROVE  frames = FramesOf(f.id, frames[1].number)
<1> DEFINE n == frames[1].number
           N == NumberOfFrames(sent[f.id][n])
<1>1. frames \in Seq(Frames) /\ Len(frames) = N /\ Len(frames) \in Nat
  BY DEF MessageWith, CompleteRight
<1>2. DOMAIN frames = 1..N /\ frames = [i \in 1..N |-> frames[i]]
  BY <1>1
<1>3. ASSUME NEW i \in 1..N PROVE frames[i] = Frame(f.id, n, i - 1)
  <2>1. i \in DOMAIN frames /\ frames[i] \in ToSet(frames)
    BY <1>2 DEF ToSet
  <2>2. PICK g : g = frames[i] /\ Genuine(g) /\ g.id = f.id /\ g.sequence = i - 1 /\ g.number = n
    BY <2>1 DEF MessageWith, CompleteRight
  <2> QED
    BY <2>2 DEF Genuine
<1> QED
  BY <1>2, <1>3 DEF FramesOf

(* Whatever appendCANMsgToCurrentNetMsg does with a frame, messages stay   *)
(* whole.                                                                  *)
LEMMA AppendWhole ==
  ASSUME LinkInvariant, LinkInvariant', WholeInvariant, UNCHANGED senderVars,
         NEW f \in Path, NEW stolen, AppendCANMsg(f, stolen), Belongs(f), BeforeAll(f)',
         Path' \subseteq Path, Path \subseteq Path' \cup {f} \cup stolen
  PROVE  WholeInvariant'
<1>a. PathTypes /\ PathTypes' /\ Assembling /\ PathGenuine /\ AssembledWhole /\ DeliveredWhole
  BY DEF LinkInvariant, WholeInvariant
<1>b. sent' = sent /\ SentGrows
  BY <1>a DEF SentGrows, PathTypes, senderVars
<1>c. lost \cup stolen \subseteq lost'
  BY DEF AppendCANMsg
<1>1. CASE ~Continues(f)
  <2>1. UNCHANGED messageVars /\ lost' = lost \cup stolen \cup {f}
    BY <1>1 DEF AppendCANMsg
  <2> QED
    BY <1>b, <2>1, WholeKept
<1>2. CASE Continues(f)
  <2>a. /\ \A h : Genuine(h) => Genuine(h)'
        /\ \A s \in Senders : \A n \in 1..Len(sent[s]) :
             /\ n \in 1..Len(sent'[s]) /\ FramesOf(s, n)' = FramesOf(s, n)
             /\ \A q : Frame(s, n, q)' = Frame(s, n, q)
        /\ \A s \in Senders, n \in Nat : Excused(s, n) => Excused(s, n)'
    BY <1>a, <1>b, <1>c, SentKept
  <2>b. Genuine(f) /\ f \in Frames /\ f.id \in Senders
    BY <1>a DEF PathGenuine, Genuine, Frames
  <2>1. PICK frames : frames = With(f)
    OBVIOUS
  <2>2. GoesOn(f, frames) \/ IsDelivered(f, frames)
    BY <1>2, <2>1 DEF AppendCANMsg, With, GoesOn, IsDelivered
  <2>3. /\ MessageWith(f, frames)
        /\ \A n \in {frames[1].number} : Excused(f.id, n)' \/ CompleteRight(f, frames, n)
    <3>1. CASE f.sequence = 0
      <4>1. frames = <<f>> /\ frames[1] = f
        BY <2>1, <3>1 DEF With
      <4> QED
        BY <2>b, <3>1, <4>1, FirstContinues
    <3>2. CASE f.sequence # 0
      <4>1. frames = Append(assembled, f)
        BY <2>1, <3>2 DEF With
      <4>2. /\ MessageWith(f, frames)
            /\ \A n \in {assembled[1].number} : Excused(f.id, n)' \/ CompleteRight(f, frames, n)
        BY <1>2, <1>b, <1>c, <3>2, <4>1, LaterContinues
      <4> QED
        BY <3>2, <4>2 DEF MessageWith
    <3> QED
      BY <3>1, <3>2
  <2>4. /\ \A k \in Nat : k <= frames[1].number => Begun(f.id, k)'
        /\ \A s \in Senders, k \in Nat : Begun(s, k) => Begun(s, k)'
    BY <2>2, <2>3, BegunKept
  <2>5. frames[1] \in ToSet(frames) /\ frames[1] \in Frames /\ DOMAIN frames = 1..Len(frames)
    BY <2>3 DEF MessageWith, ToSet
  <2>6. PICK n \in Nat : n = frames[1].number /\ n \in 1..Len(sent[f.id])
    <3>1. PICK g \in Frames : g = frames[1] /\ Genuine(g) /\ g.id = f.id
      BY <2>3, <2>5 DEF MessageWith
    <3> QED
      BY <3>1 DEF Genuine, Frames
  <2>7. PathGenuine'
    <3> SUFFICES ASSUME NEW h \in Path' PROVE Genuine(h)' /\ Led(h)'
      BY DEF PathGenuine
    <3>1. Genuine(h) /\ Led(h)
      BY <1>a DEF PathGenuine
    <3>2. h.id \in Senders /\ h.number \in 1..Len(sent[h.id]) /\ h.number \in Nat
      BY <3>1 DEF Genuine, Frames
    <3> SUFFICES ASSUME h.sequence # 0, NEW first \in {Frame(h.id, h.number, 0)}
                 PROVE  first \in lost' \/ first \in Path' \/ Begun(h.id, h.number)'
      BY <2>a, <3>1, <3>2 DEF Led
    <3>3. CASE first = f
      <4>1. f.id = h.id /\ f.number = h.number /\ f.sequence = 0
        BY <3>3 DEF Frame
      <4>2. frames[1] = f
        BY <2>3, <4>1 DEF MessageWith
      <4> QED
        BY <2>4, <3>2, <4>1, <4>2
    <3>4. CASE first # f
      <4>1. first \in lost \/ first \in Path \/ Begun(h.id, h.number)
        BY <3>1 DEF Led
      <4> QED
        BY <1>c, <2>4, <3>2, <3>4, <4>1
    <3> QED
      BY <3>3, <3>4
  <2>8. AssembledWhole'
    <3>1. CASE GoesOn(f, frames)
      <4>1. /\ \A i \in DOMAIN frames : frames[i].id = f.id /\ frames[i].sequence = i - 1
            /\ \A g \in ToSet(frames) : Genuine(g)'
        BY <2>a, <2>3 DEF MessageWith
      <4>2. Excused(f.id, n)' \/ CompleteRight(f, frames, n)
        BY <2>3, <2>6
      <4>3. CompleteRight(f, frames, n) => OwnFrames(f.id, n, frames)'
        BY <1>b, <3>1 DEF CompleteRight, OwnFrames, GoesOn, NumberOfFrames
      <4> QED
        BY <2>6, <3>1, <4>1, <4>2, <4>3 DEF AssembledWhole, GoesOn
    <3>2. CASE IsDelivered(f, frames)
      BY <3>2 DEF IsDelivered, AssembledWhole, ToSet
    <3> QED
      BY <2>2, <3>1, <3>2
  <2>9. DeliveredWhole'
    <3> SUFFICES ASSUME NEW s \in Senders, NEW i \in DOMAIN delivered'[s],
                        NEW k \in {delivered'[s][i][1].number}
                 PROVE  k \in 1..Len(sent'[s]) /\ (delivered'[s][i] = FramesOf(s, k)' \/ Excused(s, k)')
      BY DEF DeliveredWhole
    <3>1. /\ i \in DOMAIN delivered[s] => delivered'[s][i] = delivered[s][i]
          /\ \/ i \in DOMAIN delivered[s]
             \/ IsDelivered(f, frames) /\ s = f.id /\ delivered'[s][i] = frames
      BY <1>a, <2>b, <2>2, DeliveriesGrow
    <3>2. CASE i \in DOMAIN delivered[s]
      <4>1. k \in 1..Len(sent[s]) /\ (delivered[s][i] = FramesOf(s, k) \/ Excused(s, k))
        BY <1>a, <3>1, <3>2 DEF DeliveredWhole
      <4>2. k \in Nat
        BY <1>a, <4>1 DEF PathTypes
      <4> QED
        BY <2>a, <3>1, <3>2, <4>1, <4>2
    <3>3. CASE IsDelivered(f, frames) /\ s = f.id /\ delivered'[s][i] = frames
      <4>1. k = n /\ k \in 1..Len(sent'[s])
        BY <2>6, <2>a, <3>3
      <4>2. CompleteRight(f, frames, n) => frames = FramesOf(f.id, n)
        BY <1>a, <2>3, <2>6, <2>b, <3>3, CompleteIsSent DEF IsDelivered
      <4>3. Excused(f.id, n)' \/ CompleteRight(f, frames, n)
        BY <2>3, <2>6
      <4>4. FramesOf(f.id, n)' = FramesOf(f.id, n)
        BY <2>6, <2>a, <2>b
      <4> QED
        BY <3>3, <4>1, <4>2, <4>3, <4>4
    <3> QED
      BY <3>1, <3>2, <3>3
  <2> QED
    BY <2>7, <2>8, <2>9 DEF WholeInvariant
<1> QED
  BY <1>1, <1>2

-----------------------------------------------------------------------------
(* Every step keeps messages whole.                                        *)

(* A frame of the pool is taken.                                           *)
LEMMA ScanTakeWhole ==
  ASSUME LinkInvariant, LinkInvariant', WholeInvariant, ScanTake
  PROVE  WholeInvariant'
<1>1. UNCHANGED <<senderVars, arrived>>
  BY DEF ScanTake
<1>2. PICK f \in Frames :
           /\ AppendCANMsg(f, {}) /\ Belongs(f) /\ BeforeAll(f)'
           /\ \E k \in DOMAIN buffered : f = buffered[k]
           /\ Thinned(buffered', buffered)
           /\ \A i \in DOMAIN buffered :
                buffered[i] = f \/ \E j \in DOMAIN buffered' : buffered'[j] = buffered[i]
  BY ScanTakes
<1>3. f \in Path /\ Path' \subseteq Path /\ Path \subseteq Path' \cup {f} \cup {}
  <2>1. ASSUME NEW h PROVE (PathParts(h)' => PathParts(h)) /\ (PathParts(h) => h = f \/ PathParts(h)')
    BY <1>1, <1>2 DEF PathParts, Thinned, senderVars
  <2> QED
    BY <1>2, <2>1, OnPath DEF PathParts
<1> QED
  BY <1>1, <1>2, <1>3, AppendWhole

(* A frame that has arrived is taken, and one may be stolen.               *)
LEMMA ReadAppendWhole ==
  ASSUME LinkInvariant, LinkInvariant', WholeInvariant, ReadAppend
  PROVE  WholeInvariant'
<1>1. UNCHANGED senderVars
  BY DEF ReadAppend
<1>2. PICK f \in Frames :
           /\ AppendCANMsg(f, Stolen) /\ Belongs(f) /\ BeforeAll(f)'
           /\ 1 \in DOMAIN arrived /\ f = arrived[1]
           /\ Thinned(arrived', arrived) /\ Thinned(buffered', buffered)
           /\ \A i \in DOMAIN arrived :
                arrived[i] = f \/ \E j \in DOMAIN arrived' : arrived'[j] = arrived[i]
           /\ \A i \in DOMAIN buffered :
                buffered[i] \in Stolen \/ \E j \in DOMAIN buffered' : buffered'[j] = buffered[i]
  BY ReadTakes
<1>3. f \in Path /\ Path' \subseteq Path /\ Path \subseteq Path' \cup {f} \cup Stolen
  <2>1. ASSUME NEW h
        PROVE  (PathParts(h)' => PathParts(h)) /\ (PathParts(h) => h = f \/ h \in Stolen \/ PathParts(h)')
    BY <1>1, <1>2 DEF PathParts, Thinned, senderVars
  <2> QED
    BY <1>2, <2>1, OnPath DEF PathParts
<1> QED
  BY <1>1, <1>2, <1>3, AppendWhole

(* The other steps of the receiver move frames or lose them.               *)
LEMMA ReceiverWhole ==
  ASSUME LinkInvariant, LinkInvariant', WholeInvariant,
         GetNetworkMsg \/ ScanEnd \/ ReadBuffer \/ ReadNothing
  PROVE  WholeInvariant'
<1>a. PathTypes /\ Pool
  BY DEF LinkInvariant
<1>1. UNCHANGED <<senderVars, messageVars>> /\ lost \subseteq lost'
  BY DEF GetNetworkMsg, ScanEnd, ReadBuffer, ReadNothing
<1>2. SentGrows
  BY <1>a, <1>1 DEF SentGrows, PathTypes, senderVars
<1>3. ASSUME NEW h PROVE (PathParts(h)' => PathParts(h)) /\ (PathParts(h) => h \in lost' \/ PathParts(h)')
  <2>1. CASE GetNetworkMsg \/ ScanEnd
    BY <2>1 DEF GetNetworkMsg, ScanEnd, PathParts, senderVars
  <2>a. /\ Kept \in Seq(Frames) /\ Thinned(Kept, buffered)
        /\ \A i \in DOMAIN buffered :
             buffered[i] \in Stolen \/ \E j \in DOMAIN Kept : Kept[j] = buffered[i]
    BY <1>a, KeptIs
  <2>2. CASE ReadNothing
    <3>1. buffered' = Kept /\ lost' = lost \cup Stolen /\ UNCHANGED <<arrived, sending>>
      BY <2>2 DEF ReadNothing, senderVars
    <3> QED
      BY <2>a, <3>1 DEF PathParts, Thinned
  <2>3. CASE ReadBuffer
    <3>1. /\ buffered' = Append(Kept, Head(arrived)) /\ arrived' = Tail(arrived) /\ arrived # <<>>
          /\ lost' = lost \cup Stolen /\ sending' = sending
      BY <2>3 DEF ReadBuffer, senderVars
    <3>2. /\ arrived \in Seq(Frames) /\ Thinned(arrived', arrived)
          /\ \A i \in DOMAIN arrived :
               arrived[i] = Head(arrived) \/ \E j \in DOMAIN arrived' : arrived'[j] = arrived[i]
      BY <1>a, <3>1, ThinnedTail DEF PathTypes
    <3>3. 1 \in DOMAIN arrived /\ Head(arrived) = arrived[1] /\ Head(arrived) \in Frames
      BY <3>1, <3>2
    <3>4. /\ \A j \in DOMAIN Kept : j \in DOMAIN buffered' /\ buffered'[j] = Kept[j]
          /\ \A j \in DOMAIN buffered' : buffered'[j] = Head(arrived) \/ (j \in DOMAIN Kept /\ buffered'[j] = Kept[j])
          /\ \E j \in DOMAIN buffered' : buffered'[j] = Head(arrived)
      <4>1. PICK m \in Nat : m = Len(Kept) /\ DOMAIN Kept = 1..m
        BY <2>a
      <4>2. /\ DOMAIN buffered' = 1..(m + 1) /\ buffered'[m + 1] = Head(arrived)
            /\ \A j \in 1..m : buffered'[j] = Kept[j]
        BY <2>a, <3>1, <3>3, <4>1
      <4>3. 1..(m + 1) = 1..m \cup {m + 1}
        BY <4>1
      <4> QED
        BY <4>1, <4>2, <4>3
    <3>5. PathParts(h)' => PathParts(h)
      BY <2>a, <3>1, <3>2, <3>3, <3>4 DEF PathParts, Thinned
    <3>6. PathParts(h) => h \in lost' \/ PathParts(h)'
      <4>1. ASSUME NEW i \in DOMAIN arrived, h = arrived[i] PROVE PathParts(h)'
        BY <3>2, <3>4, <4>1 DEF PathParts
      <4>2. ASSUME NEW i \in DOMAIN buffered, h = buffered[i] PROVE h \in lost' \/ PathParts(h)'
        BY <2>a, <3>1, <3>4, <4>2 DEF PathParts
      <4> QED
        BY <3>1, <4>1, <4>2 DEF PathParts
    <3> QED
      BY <3>5, <3>6
  <2> QED
    BY <2>1, <2>2, <2>3
<1>4. Path' \subseteq Path /\ Path \subseteq Path' \cup lost'
  BY <1>3, OnPath
<1> QED
  BY <1>1, <1>2, <1>4, WholeKept

(* A frame is written or lost, or the sender gives up.                     *)
LEMMA FramesLeaveWhole ==
  ASSUME LinkInvariant, LinkInvariant', WholeInvariant,
         NEW s \in Senders, WriteFrame(s) \/ LoseFrame(s) \/ WriteError(s)
  PROVE  WholeInvariant'
<1>a. PathTypes /\ sending \in [Senders -> Seq(Frames)] /\ arrived \in Seq(Frames)
  BY DEF LinkInvariant, PathTypes
<1>1. /\ sending[s] # <<>> /\ sent' = sent /\ lost \subseteq lost' /\ buffered' = buffered
      /\ UNCHANGED messageVars
  BY DEF WriteFrame, LoseFrame, WriteError, receiverVars
<1>2. SentGrows
  BY <1>a, <1>1 DEF SentGrows, PathTypes
<1>3. ASSUME NEW h PROVE (PathParts(h)' => PathParts(h)) /\ (PathParts(h) => h \in lost' \/ PathParts(h)')
  <2>a. sending[s] \in Seq(Frames)
    BY <1>a
  <2>b. 1 \in DOMAIN sending[s] /\ Head(sending[s]) = sending[s][1] /\ Head(sending[s]) \in Frames
    BY <1>1, <2>a
  <2>c. /\ Thinned(Tail(sending[s]), sending[s])
        /\ \A i \in DOMAIN sending[s] :
             \/ sending[s][i] = Head(sending[s])
             \/ \E j \in DOMAIN Tail(sending[s]) : Tail(sending[s])[j] = sending[s][i]
    BY <1>1, <2>a, ThinnedTail
  <2>1. CASE WriteFrame(s)
    <3>1. /\ sending' = [sending EXCEPT ![s] = Tail(sending[s])]
          /\ arrived' = Append(arrived, Head(sending[s]))
      BY <2>1 DEF WriteFrame
    <3>2. sending'[s] = Tail(sending[s]) /\ \A r \in Senders : r # s => sending'[r] = sending[r]
      BY <1>a, <3>1
    <3>3. /\ \A j \in DOMAIN arrived : j \in DOMAIN arrived' /\ arrived'[j] = arrived[j]
          /\ \A j \in DOMAIN arrived' :
               arrived'[j] = Head(sending[s]) \/ (j \in DOMAIN arrived /\ arrived'[j] = arrived[j])
          /\ \E j \in DOMAIN arrived' : arrived'[j] = Head(sending[s])
      <4>1. PICK m \in Nat : m = Len(arrived) /\ DOMAIN arrived = 1..m
        BY <1>a
      <4>2. /\ DOMAIN arrived' = 1..(m + 1) /\ arrived'[m + 1] = Head(sending[s])
            /\ \A j \in 1..m : arrived'[j] = arrived[j]
        BY <1>a, <2>b, <3>1, <4>1
      <4>3. 1..(m + 1) = 1..m \cup {m + 1}
        BY <4>1
      <4> QED
        BY <4>1, <4>2, <4>3
    <3>4. PathParts(h)' => PathParts(h)
      <4>1. ASSUME NEW j \in DOMAIN Tail(sending[s]), h = Tail(sending[s])[j] PROVE PathParts(h)
        BY <2>c, <4>1 DEF PathParts, Thinned
      <4>2. ASSUME h = Head(sending[s]) PROVE PathParts(h)
        BY <2>b, <4>2 DEF PathParts
      <4>3. ASSUME NEW r \in Senders, NEW j \in DOMAIN sending'[r], h = sending'[r][j]
            PROVE  PathParts(h)
        BY <3>2, <4>1, <4>3 DEF PathParts
      <4>4. ASSUME NEW j \in DOMAIN arrived', h = arrived'[j] PROVE PathParts(h)
        BY <3>3, <4>2, <4>4 DEF PathParts
      <4> QED
        BY <1>1, <4>3, <4>4 DEF PathParts
    <3>5. PathParts(h) => PathParts(h)'
      <4>1. ASSUME NEW i \in DOMAIN sending[s], h = sending[s][i] PROVE PathParts(h)'
        BY <2>c, <3>2, <3>3, <4>1 DEF PathParts
      <4> QED
        BY <1>1, <3>2, <3>3, <4>1 DEF PathParts
    <3> QED
      BY <3>4, <3>5
  <2>2. CASE LoseFrame(s)
    <3>1. /\ sending' = [sending EXCEPT ![s] = Tail(sending[s])] /\ arrived' = arrived
          /\ lost' = lost \cup {Head(sending[s])}
      BY <2>2 DEF LoseFrame
    <3>2. sending'[s] = Tail(sending[s]) /\ \A r \in Senders : r # s => sending'[r] = sending[r]
      BY <1>a, <3>1
    <3>3. PathParts(h)' => PathParts(h)
      BY <1>1, <2>b, <2>c, <3>1, <3>2 DEF PathParts, Thinned
    <3>4. ASSUME NEW i \in DOMAIN sending[s], h = sending[s][i] PROVE h \in lost' \/ PathParts(h)'
      BY <2>c, <3>1, <3>2, <3>4 DEF PathParts
    <3> QED
      BY <1>1, <3>1, <3>2, <3>3, <3>4 DEF PathParts
  <2>3. CASE WriteError(s)
    <3>1. /\ sending' = [sending EXCEPT ![s] = <<>>] /\ arrived' = arrived
          /\ lost' = lost \cup ToSet(sending[s])
      BY <2>3 DEF WriteError
    <3>2. sending'[s] = <<>> /\ \A r \in Senders : r # s => sending'[r] = sending[r]
      BY <1>a, <3>1
    <3>3. \A i \in DOMAIN sending[s] : sending[s][i] \in lost'
      BY <3>1 DEF ToSet
    <3> QED
      BY <1>1, <3>1, <3>2, <3>3 DEF PathParts
  <2> QED
    BY <2>1, <2>2, <2>3
<1>4. Path' \subseteq Path /\ Path \subseteq Path' \cup lost'
  BY <1>3, OnPath
<1> QED
  BY <1>1, <1>2, <1>4, WholeKept

(* The frames of a new message are its own, with the first one before the  *)
(* others.                                                                 *)
LEMMA SendWhole ==
  ASSUME LinkInvariant, LinkInvariant', WholeInvariant,
         NEW s \in Senders, NEW len \in Lengths, SendNetworkMsg(s, len)
  PROVE  WholeInvariant'
<1>a. PathTypes /\ sending \in [Senders -> Seq(Frames)] /\ sent \in [Senders -> Seq(Nat)]
  BY DEF LinkInvariant, PathTypes
<1>b. PICK n \in Nat : n = Len(sent[s]) + 1
  BY <1>a
<1> DEFINE N == NumberOfFrames(len)
           frames == [i \in 1..N |->
                        [id |-> s, number |-> n, len |-> len, sequence |-> i - 1,
                         bytes |-> BytesIn(len, i - 1)]]
<1>1. /\ sending[s] = <<>>
      /\ sent' = [sent EXCEPT ![s] = Append(sent[s], len)]
      /\ sending' = [sending EXCEPT ![s] = frames]
      /\ UNCHANGED <<arrived, buffered, lost, messageVars>>
  BY <1>b DEF SendNetworkMsg, receiverVars
<1>2. len \in Nat /\ n \in Nat /\ N \in Nat /\ sent[s] \in Seq(Nat)
  BY <1>a, FramesCounted, CanAssumption
<1>3. /\ sent'[s] = Append(sent[s], len) /\ Len(sent'[s]) = n /\ sent'[s][n] = len
      /\ \A r \in Senders : r # s => sent'[r] = sent[r]
      /\ \A i \in 1..Len(sent[s]) : sent'[s][i] = sent[s][i]
  BY <1>a, <1>b, <1>1, <1>2
<1>4. SentGrows
  <2>1. \A r \in Senders : Len(sent[r]) \in Nat
    BY <1>a
  <2>2. Len(sent[s]) <= n
    BY <1>b, <2>1
  <2> QED
    BY <1>3, <2>1, <2>2 DEF SentGrows
<1> HIDE DEF frames, N
<1>5. sending'[s] = frames /\ \A r \in Senders : r # s => sending'[r] = sending[r]
  BY <1>a, <1>1
<1>6. ASSUME NEW h, PathParts(h)'
      PROVE  PathParts(h) \/ \E i \in DOMAIN frames : h = frames[i]
  BY <1>1, <1>5, <1>6 DEF PathParts
<1>7. ASSUME NEW h, PathParts(h) PROVE PathParts(h)'
  BY <1>1, <1>5, <1>7 DEF PathParts
<1>8. ASSUME NEW h, NEW i \in DOMAIN frames, h = frames[i] PROVE Genuine(h)' /\ Led(h)'
  <2>1. /\ i \in 1..N
        /\ h = [id |-> s, number |-> n, len |-> len, sequence |-> i - 1, bytes |-> BytesIn(len, i - 1)]
    BY <1>8 DEF frames
  <2>2. Frame(s, n, i - 1)' = h
    BY <1>3, <2>1 DEF Frame, BytesIn
  <2>3. h \in Frames
    <3>1. sending'[s] \in Seq(Frames)
      BY DEF LinkInvariant, PathTypes
    <3> QED
      BY <1>5, <1>8, <3>1
  <2>4. n \in 1..Len(sent'[s])
    BY <1>2, <1>3
  <2>5. i - 1 < N
    BY <1>2, <2>1
  <2>6. Genuine(h)'
    BY <2>1, <2>2, <2>3, <2>4, <2>5 DEF Genuine, N, NumberOfFrames
  <2>7. Led(h)'
    <3>1. 1 \in DOMAIN frames
      BY <1>2, <2>1 DEF frames
    <3>2. frames[1] = [id |-> s, number |-> n, len |-> len, sequence |-> 0, bytes |-> BytesIn(len, 0)]
      BY <3>1 DEF frames
    <3>3. Frame(s, n, 0)' = frames[1]
      BY <1>3, <3>2 DEF Frame, BytesIn
    <3>4. frames[1] \in Path'
      <4>1. \E r \in Senders : \E j \in DOMAIN sending'[r] : frames[1] = sending'[r][j]
        BY <1>5, <3>1
      <4>2. ASSUME NEW g, g = frames[1] PROVE PathParts(g)'
        BY <4>1, <4>2 DEF PathParts
      <4> QED
        BY <4>2, OnPath
    <3>5. h.id = s /\ h.number = n
      BY <2>1
    <3> QED
      BY <3>3, <3>4, <3>5 DEF Led
  <2> QED
    BY <2>6, <2>7
<1>9. /\ \A h \in Path' : h \in Path \/ (Genuine(h)' /\ Led(h)')
      /\ Path \subseteq Path' \cup lost' /\ lost \subseteq lost'
  BY <1>1, <1>6, <1>7, <1>8, OnPath
<1> QED
  BY <1>1, <1>4, <1>9, WholeKept

(* Nothing is sent at first.                                               *)
LEMMA WholeInit == Init => WholeInvariant
<1> SUFFICES ASSUME Init PROVE WholeInvariant
  OBVIOUS
<1>1. PathGenuine
  <2>1. \A f : ~PathParts(f)
    BY DEF Init, PathParts
  <2> QED
    BY <2>1, OnPath DEF PathGenuine
<1>2. AssembledWhole
  BY DEF Init, AssembledWhole, ToSet
<1>3. DeliveredWhole
  BY DEF Init, DeliveredWhole
<1> QED
  BY <1>1, <1>2, <1>3 DEF WholeInvariant

(* Messages are whole always.                                              *)
LEMMA WholeHolds == Spec => [](LinkInvariant /\ WholeInvariant)
<1>1. LinkInvariant /\ LinkInvariant' /\ WholeInvariant /\ [Next]_vars => WholeInvariant'
  <2> SUFFICES ASSUME LinkInvariant, LinkInvariant', WholeInvariant, [Next]_vars PROVE WholeInvariant'
    OBVIOUS
  <2>1. ASSUME NEW s \in Senders, \E len \in Lengths : SendNetworkMsg(s, len) PROVE WholeInvariant'
    BY <2>1, SendWhole
  <2>2. ASSUME NEW s \in Senders, WriteFrame(s) \/ LoseFrame(s) \/ WriteError(s) PROVE WholeInvariant'
    BY <2>2, FramesLeaveWhole
  <2>3. CASE Receiver
    BY <2>3, ScanTakeWhole, ReadAppendWhole, ReceiverWhole DEF Receiver
  <2>4. CASE UNCHANGED vars
    <3>1. SentGrows /\ lost' = lost /\ UNCHANGED messageVars
      BY <2>4 DEF vars, SentGrows, LinkInvariant, PathTypes, messageVars
    <3>2. Path' = Path
      BY <2>4 DEF vars, Path
    <3> QED
      BY <3>1, <3>2, WholeKept
  <2> QED
    BY <2>1, <2>2, <2>3, <2>4 DEF Next
<1> QED
  BY WholeInit, LinkHolds, <1>1, PTL DEF Spec

(* What getNetworkMsg returns is one message, whole and as it was sent,    *)
(* whatever was lost, stolen and mixed, unless the first frame of a later  *)
(* message with the same id was lost.                                      *)
THEOREM MessagesWhole == Spec => []Intact
<1>1. WholeInvariant => Intact
  <2> SUFFICES ASSUME WholeInvariant, NEW s \in Senders, NEW i \in DOMAIN delivered[s],
                      NEW n \in {delivered[s][i][1].number}
               PROVE  delivered[s][i] = FramesOf(s, n) \/ Excused(s, n)
    BY DEF Intact, Excused, ToSet
  <2> QED
    BY DEF WholeInvariant, DeliveredWhole
<1> QED
  BY <1>1, WholeHolds, PTL
=============================================================================
