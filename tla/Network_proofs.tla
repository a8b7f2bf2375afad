---------------------------- MODULE Network_proofs ---------------------------
(***************************************************************************)
(* What the tables of seen nodes are worth, for every network: whatever the *)
(* links duplicate, reorder and lose and whichever nodes restart, a message *)
(* is delivered once, none is dropped without a reason, and the semaphore   *)
(* of the table is left on every way but that of the assertion.             *)
(***************************************************************************)
EXTENDS Network, FiniteSetTheorems, TLAPS

Messages == [sender : Publishers, epoch : 0..MaxRestarts, number : 1..MaxMessages,
             sentTime : 1..MaxTime, steps : 1..MaxSteps]

Tables == UNION {[S -> 1..MaxTime] : S \in SUBSET Publishers}

NetTypes ==
  /\ clock \in [Publishers -> 0..MaxTime] /\ epoch \in [Publishers -> 0..MaxRestarts]
  /\ sentNow \in [Publishers -> 0..published]
  /\ published \in 0..MaxMessages /\ faults \in 0..MaxFaults
  /\ arriving \in [Gateways -> SUBSET Messages]
  /\ seenNodes \in [Nodes -> Tables]
  /\ protector \in [Nodes -> Gateways \cup {Nobody}]
  /\ blocked \subseteq Gateways
  /\ delivered \in [Nodes -> SUBSET Ids] /\ repeated \in [Nodes -> SUBSET Ids]
  /\ setBack \subseteq Nodes \X Publishers

(* The table of a node has room for those in it, never for the node itself. *)
TableFits(n) ==
  /\ IsFiniteSet(DOMAIN seenNodes[n]) /\ Cardinality(DOMAIN seenNodes[n]) <= MaxNumberOfNodes
  /\ n \notin DOMAIN seenNodes[n]

(* lastMsgTime is the time of a message that was delivered,                *)
LastDelivered(n) ==
  \A s \in DOMAIN seenNodes[n] :
    \E i \in delivered[n] : i.sender = s /\ i.sentTime = seenNodes[n][s]

(* and unless it was set back no later one was.                            *)
LastIsLatest(n) ==
  \A i \in delivered[n] :
    i.sender \in DOMAIN seenNodes[n] /\ <<n, i.sender>> \notin setBack =>
      i.sentTime <= seenNodes[n][i.sender]

(* Messages of a node that is not in the table are delivered only when it  *)
(* is full, and it stays so until the restart.                             *)
UnknownOnlyWhenFull(n) ==
  \A i \in delivered[n] :
    i.sender \notin DOMAIN seenNodes[n] =>
      Cardinality(DOMAIN seenNodes[n]) >= MaxNumberOfNodes

OnceAt(n) ==
  \A i \in repeated[n] : <<n, i.sender>> \in setBack \/ i.sender \notin DOMAIN seenNodes[n]

ProtectorAt(n) ==
  protector[n] # Nobody =>
    /\ protector[n] \in GatewaysOf(n)
    /\ \E i \in delivered[n] : i.sender \notin DOMAIN seenNodes[n]

NodeInvariant(n) ==
  /\ TableFits(n) /\ LastDelivered(n) /\ LastIsLatest(n) /\ UnknownOnlyWhenFull(n)
  /\ repeated[n] \subseteq delivered[n] /\ OnceAt(n) /\ ProtectorAt(n)

NetInvariant == NetTypes /\ \A n \in Nodes : NodeInvariant(n)

-----------------------------------------------------------------------------
(* What a node keeps.                                                      *)
NodeSame(n) ==
  /\ seenNodes'[n] = seenNodes[n] /\ protector'[n] = protector[n]
  /\ delivered'[n] = delivered[n] /\ repeated'[n] = repeated[n]
  /\ \A s : <<n, s>> \in setBack' <=> <<n, s>> \in setBack

(* A node with which nothing happens keeps its part of the invariant.      *)
LEMMA NodeKept ==
  ASSUME NEW n, NodeInvariant(n), NodeSame(n) PROVE NodeInvariant(n)'
<1> USE DEF NodeSame
<1>1. TableFits(n)' /\ LastDelivered(n)'
  BY DEF NodeInvariant, TableFits, LastDelivered
<1>2. LastIsLatest(n)' /\ UnknownOnlyWhenFull(n)'
  BY DEF NodeInvariant, LastIsLatest, UnknownOnlyWhenFull
<1>3. OnceAt(n)' /\ ProtectorAt(n)' /\ (repeated[n] \subseteq delivered[n])'
  BY DEF NodeInvariant, OnceAt, ProtectorAt
<1> QED
  BY <1>1, <1>2, <1>3 DEF NodeInvariant

(* A table is a function, and a node that is added gets a time.            *)
LEMMA TableAdded ==
  ASSUME NEW T \in Tables, NEW s \in Publishers, NEW t \in 1..MaxTime
  PROVE  /\ [x \in DOMAIN T \cup {s} |-> IF x = s THEN t ELSE T[x]] \in Tables
         /\ DOMAIN T \subseteq Publishers /\ \A x \in DOMAIN T : T[x] \in 1..MaxTime
<1>1. PICK S \in SUBSET Publishers : T \in [S -> 1..MaxTime]
  BY DEF Tables
<1>2. [x \in S \cup {s} |-> IF x = s THEN t ELSE T[x]] \in [S \cup {s} -> 1..MaxTime]
  BY <1>1
<1>3. S \cup {s} \in SUBSET Publishers /\ DOMAIN T = S
  BY <1>1
<1> QED
  BY <1>1, <1>2, <1>3 DEF Tables

(* The empty table is one.                                                 *)
LEMMA EmptyTable == <<>> \in Tables /\ DOMAIN <<>> = {}
<1>1. DOMAIN <<>> = {}
  OBVIOUS
<1>2. <<>> \in [{} -> 1..MaxTime]
  OBVIOUS
<1> QED
  BY <1>1, <1>2 DEF Tables

(* Sent adds one message to what arrives at some gateways.                 *)
LEMMA SentTypes ==
  ASSUME NEW waiting \in [Gateways -> SUBSET Messages], NEW m \in Messages, NEW S
  PROVE  Sent(waiting, m, S) \in [Gateways -> SUBSET Messages]
BY DEF Sent

(* What is left when a message was taken.                                  *)
LEMMA RestTypes ==
  ASSUME NetTypes, NEW g \in Gateways, NEW m, NEW again
  PROVE  Rest(g, m, again) \in [Gateways -> SUBSET Messages]
BY DEF Rest, NetTypes

(* A gateway is one of a node.                                             *)
LEMMA GatewayNode == ASSUME NEW g \in Gateways PROVE Node(g) \in Nodes /\ g \in GatewaysOf(Node(g))
BY DEF Gateways, Node, GatewaysOf

(* The types of what a step of a gateway changes besides the node's tables. *)
LEMMA TakeTypes ==
  ASSUME NetTypes, NEW g \in Gateways, NEW m \in arriving[g], NEW again \in BOOLEAN, Take(g, m, again)
  PROVE  m \in Messages /\ Id(m) \in Ids /\ faults' \in 0..MaxFaults
<1>1. m \in Messages
  BY DEF NetTypes
<1>2. Id(m) \in Ids
  BY <1>1 DEF Id, Ids, Messages
<1>3. faults' \in 0..MaxFaults
  BY NetworkAssumption DEF Take, NetTypes
<1> QED
  BY <1>1, <1>2, <1>3

-----------------------------------------------------------------------------
(* A node publishes: its own table and those of others stay.               *)
LEMMA PublishStep ==
  ASSUME NetInvariant, NEW n \in Publishers, NEW t \in 1..MaxTime, Publish(n, t)
  PROVE  NetInvariant'
<1> USE DEF NetInvariant
<1> DEFINE m == [sender |-> n, epoch |-> epoch[n], number |-> sentNow'[n], sentTime |-> t,
                steps |-> MaxSteps]
<1>1. /\ published < MaxMessages /\ published' = published + 1
      /\ sentNow' = [sentNow EXCEPT ![n] = IF t = clock[n] THEN sentNow[n] + 1 ELSE 1]
      /\ clock' = [clock EXCEPT ![n] = t] /\ arriving' = Sent(arriving, m, GatewaysOf(n))
      /\ UNCHANGED <<epoch, seenNodes, protector, blocked, delivered, repeated, setBack, faults>>
  BY DEF Publish
<1>s. sentNow' \in [Publishers -> 0..published'] /\ sentNow'[n] \in 1..MaxMessages
  BY <1>1, NetworkAssumption DEF NetTypes
<1>2. m \in Messages
  <2>1. MaxSteps \in 1..MaxSteps
    BY NetworkAssumption
  <2> QED
    BY <1>s, <2>1 DEF NetTypes, Messages
<1> HIDE DEF m
<1>3. arriving' \in [Gateways -> SUBSET Messages]
  BY <1>1, <1>2, SentTypes DEF NetTypes
<1>4. NetTypes'
  <2>1. clock' \in [Publishers -> 0..MaxTime] /\ published' \in 0..MaxMessages
    BY <1>1, NetworkAssumption DEF NetTypes
  <2> QED
    BY <1>1, <1>3, <1>s, <2>1 DEF NetTypes
<1>5. \A k \in Nodes : NodeSame(k)
  BY <1>1 DEF NodeSame
<1> QED
  BY <1>4, <1>5, NodeKept

(* A message of the node itself, one that was seen, and one that has to    *)
(* wait for the semaphore change nothing in the tables.                    *)
LEMMA QuietStep ==
  ASSUME NetInvariant, NEW g \in Gateways, NEW m \in arriving[g], NEW again \in BOOLEAN,
         FromSelf(g, m, again) \/ MessageSeen(g, m, again) \/ MessageBlocked(g, m, again)
  PROVE  NetInvariant'
<1> USE DEF NetInvariant
<1>1. /\ Take(g, m, again) /\ arriving' = Rest(g, m, again)
      /\ UNCHANGED <<clock, epoch, sentNow, published, seenNodes, protector, delivered, repeated, setBack>>
      /\ blocked' \in {blocked, blocked \cup {g}}
  BY DEF FromSelf, MessageSeen, MessageBlocked
<1>2. faults' \in 0..MaxFaults
  BY <1>1, TakeTypes
<1>3. arriving' \in [Gateways -> SUBSET Messages]
  BY <1>1, RestTypes
<1>4. NetTypes'
  BY <1>1, <1>2, <1>3 DEF NetTypes
<1>5. \A k \in Nodes : NodeSame(k)
  BY <1>1 DEF NodeSame
<1> QED
  BY <1>4, <1>5, NodeKept

(* A message is delivered and routed: what that does, as far as the        *)
(* invariant is concerned.                                                 *)
LEMMA DistributeTypes ==
  ASSUME NetTypes, NEW g \in Gateways, NEW m \in Messages, NEW again, Distribute(g, m, again),
         Id(m) \in Ids
  PROVE  /\ arriving' \in [Gateways -> SUBSET Messages]
         /\ delivered' \in [Nodes -> SUBSET Ids] /\ repeated' \in [Nodes -> SUBSET Ids]
         /\ delivered'[Node(g)] = delivered[Node(g)] \cup {Id(m)}
         /\ repeated'[Node(g)] = repeated[Node(g)] \cup ({Id(m)} \cap delivered[Node(g)])
         /\ \A k \in Nodes \ {Node(g)} : delivered'[k] = delivered[k] /\ repeated'[k] = repeated[k]
<1>1. Node(g) \in Nodes
  BY GatewayNode
<1>2. arriving' \in [Gateways -> SUBSET Messages]
  <2>1. CASE StepsLeft(m) <= 0
    BY <2>1, RestTypes DEF Distribute
  <2>2. CASE ~(StepsLeft(m) <= 0)
    <3> DEFINE f == [m EXCEPT !.steps = StepsLeft(m)]
    <3>1. f \in Messages
      BY <2>2, NetworkAssumption DEF StepsLeft, Messages
    <3>2. arriving' = Sent(Rest(g, m, again), f, GatewaysOf(Node(g)) \ {g})
      BY <2>2 DEF Distribute
    <3> HIDE DEF f
    <3> QED
      BY <3>1, <3>2, RestTypes, SentTypes
  <2> QED
    BY <2>1, <2>2
<1> QED
  BY <1>1, <1>2 DEF Distribute, NetTypes

(* A message that is not seen, of a node in the table or with room there.  *)
LEMMA MessageNewStep ==
  ASSUME NetInvariant, NEW g \in Gateways, NEW m \in arriving[g], NEW again \in BOOLEAN,
         MessageNew(g, m, again)
  PROVE  NetInvariant'
<1> USE DEF NetInvariant
<1> DEFINE n == Node(g)
           s == m.sender
           T == seenNodes[n]
           added == [x \in DOMAIN T \cup {s} |-> IF x = s THEN m.sentTime ELSE T[x]]
           D == DOMAIN T
<1>1. /\ s # n /\ ~Seen(g, m) /\ ~TableFull(g, m) /\ Take(g, m, again) /\ Distribute(g, m, again)
      /\ seenNodes' = [seenNodes EXCEPT ![n] = added]
      /\ setBack' = IF LastMsgTime(g, m) > m.sentTime THEN setBack \cup {<<n, s>>} ELSE setBack
      /\ UNCHANGED <<clock, epoch, sentNow, published, protector, blocked>>
  BY DEF MessageNew
<1>2. m \in Messages /\ Id(m) \in Ids /\ faults' \in 0..MaxFaults /\ n \in Nodes
  BY <1>1, TakeTypes, GatewayNode
<1>3. s \in Publishers /\ m.sentTime \in 1..MaxTime /\ m.sentTime \in Nat /\ MaxTime \in Nat
  BY <1>2, NetworkAssumption DEF Messages
<1>4. /\ arriving' \in [Gateways -> SUBSET Messages]
      /\ delivered' \in [Nodes -> SUBSET Ids] /\ repeated' \in [Nodes -> SUBSET Ids]
      /\ delivered'[n] = delivered[n] \cup {Id(m)}
      /\ repeated'[n] = repeated[n] \cup ({Id(m)} \cap delivered[n])
      /\ \A k \in Nodes \ {n} : delivered'[k] = delivered[k] /\ repeated'[k] = repeated[k]
  BY <1>1, <1>2, DistributeTypes
<1>5. /\ seenNodes \in [Nodes -> Tables] /\ T \in Tables /\ added \in Tables
      /\ D \subseteq Publishers /\ \A x \in D : T[x] \in 1..MaxTime
  <2>1. seenNodes \in [Nodes -> Tables] /\ T \in Tables
    BY <1>2 DEF NetTypes
  <2> HIDE DEF T
  <2> QED
    BY <2>1, <1>3, TableAdded
<1>6. /\ seenNodes' \in [Nodes -> Tables] /\ seenNodes'[n] = added
      /\ DOMAIN seenNodes'[n] = D \cup {s}
      /\ seenNodes'[n][s] = m.sentTime /\ \A x \in D \ {s} : seenNodes'[n][x] = T[x]
      /\ \A k \in Nodes \ {n} : seenNodes'[k] = seenNodes[k]
  BY <1>1, <1>2, <1>5
<1>7. /\ setBack \subseteq setBack' /\ setBack' \subseteq Nodes \X Publishers
      /\ \A k \in Nodes \ {n} : \A x : <<k, x>> \in setBack' <=> <<k, x>> \in setBack
  BY <1>1, <1>2, <1>3 DEF NetTypes
<1>8. NetTypes'
  BY <1>1, <1>2, <1>4, <1>6, <1>7 DEF NetTypes
<1>9. ASSUME NEW k \in Nodes, k # n PROVE NodeInvariant(k)'
  <2>1. NodeSame(k)
    BY <1>1, <1>4, <1>6, <1>7, <1>9 DEF NodeSame
  <2> QED
    BY <2>1, NodeKept
<1>i. /\ Id(m).sender = s /\ Id(m).sentTime = m.sentTime
      /\ \A i \in delivered[n] : i \in Ids /\ i.sentTime \in Nat
  <2>1. \A i \in Ids : i.sentTime \in Nat
    BY NetworkAssumption DEF Ids
  <2> QED
    BY <1>2, <2>1 DEF Id, NetTypes
<1>b. NodeInvariant(n)
  BY <1>2
<1>t. T \in Tables /\ (Known(g, m) <=> s \in D) /\ LastMsgTime(g, m) = IF s \in D THEN T[s] ELSE m.sentTime - 1
  BY <1>5 DEF Known, LastMsgTime
<1>f. s \notin D => ~(Cardinality(D) >= MaxNumberOfNodes)
  BY <1>1, <1>t DEF TableFull
<1>l. s \in D /\ T[s] >= m.sentTime => T[s] - m.sentTime > Window /\ T[s] > m.sentTime
  BY <1>1, <1>3, <1>5, <1>t, NetworkAssumption DEF Seen
<1>r. s \in D /\ T[s] >= m.sentTime => <<n, s>> \in setBack'
  BY <1>1, <1>t, <1>l
<1> HIDE DEF added, T, D, n, s
<1>10. TableFits(n)'
  <2>1. IsFiniteSet(D) /\ Cardinality(D) <= MaxNumberOfNodes /\ n \notin D
    BY <1>b DEF NodeInvariant, TableFits, T, D
  <2>2. IsFiniteSet(D \cup {s}) /\ Cardinality(D) \in Nat /\ Cardinality(D \cup {s}) = IF s \in D THEN Cardinality(D) ELSE Cardinality(D) + 1
    BY <2>1, FS_AddElement, FS_CardinalityType
  <2>3. Cardinality(D \cup {s}) <= MaxNumberOfNodes
    BY <1>f, <2>1, <2>2, NetworkAssumption
  <2> QED
    BY <1>1, <1>6, <2>1, <2>2, <2>3 DEF TableFits
<1>11. LastDelivered(n)'
  <2> SUFFICES ASSUME NEW x \in D \cup {s}
               PROVE  \E i \in delivered'[n] : i.sender = x /\ i.sentTime = seenNodes'[n][x]
    BY <1>6 DEF LastDelivered
  <2>1. CASE x = s
    BY <1>4, <1>6, <1>i, <2>1
  <2>2. CASE x # s
    <3>1. x \in D /\ seenNodes'[n][x] = T[x]
      BY <1>6, <2>2
    <3> QED
      BY <1>b, <1>4, <3>1 DEF NodeInvariant, LastDelivered, T, D
  <2> QED
    BY <2>1, <2>2
<1>12. LastIsLatest(n)'
  <2> SUFFICES ASSUME NEW i \in delivered'[n], i.sender \in D \cup {s}, <<n, i.sender>> \notin setBack'
               PROVE  i.sentTime <= seenNodes'[n][i.sender]
    BY <1>6 DEF LastIsLatest
  <2>1. CASE i = Id(m)
    BY <1>3, <1>6, <1>i, <2>1
  <2>2. CASE i # Id(m) /\ i.sender # s
    <3>1. i \in delivered[n] /\ i.sender \in D /\ <<n, i.sender>> \notin setBack
      BY <1>4, <1>7, <2>2
    <3> QED
      BY <1>b, <1>6, <2>2, <3>1 DEF NodeInvariant, LastIsLatest, T, D
  <2>3. CASE i # Id(m) /\ i.sender = s
    <3>1. i \in delivered[n] /\ <<n, s>> \notin setBack
      BY <1>4, <1>7, <2>3
    <3>2. s \in D
      BY <1>b, <1>f, <2>3, <3>1 DEF NodeInvariant, UnknownOnlyWhenFull, T, D
    <3>3. i.sentTime <= T[s] /\ i.sentTime \in Nat /\ T[s] \in Nat
      BY <1>b, <1>3, <1>5, <1>i, <2>3, <3>1, <3>2 DEF NodeInvariant, LastIsLatest, T, D
    <3>4. ~(T[s] >= m.sentTime)
      BY <1>r, <2>3, <3>2
    <3> QED
      BY <1>3, <1>6, <2>3, <3>3, <3>4
  <2> QED
    BY <2>1, <2>2, <2>3
(* The table has changed only if it had room.                              *)
<1>13. \A i \in delivered[n] : i.sender \notin D => s \in D
  BY <1>b, <1>f DEF NodeInvariant, UnknownOnlyWhenFull, T, D
<1>14. UnknownOnlyWhenFull(n)'
  <2> SUFFICES ASSUME NEW i \in delivered'[n], i.sender \notin D \cup {s}
               PROVE  Cardinality(D \cup {s}) >= MaxNumberOfNodes
    BY <1>6 DEF UnknownOnlyWhenFull
  <2>1. i \in delivered[n] /\ i.sender \notin D
    BY <1>4, <1>i
  <2>2. D \cup {s} = D
    BY <1>13, <2>1
  <2> QED
    BY <1>b, <2>1, <2>2 DEF NodeInvariant, UnknownOnlyWhenFull, T, D
<1>15. OnceAt(n)'
  <2> SUFFICES ASSUME NEW i \in repeated'[n], <<n, i.sender>> \notin setBack', i.sender \in D \cup {s}
               PROVE  FALSE
    BY <1>6 DEF OnceAt
  <2>1. i \in delivered[n] /\ <<n, i.sender>> \notin setBack
    BY <1>b, <1>4, <1>7 DEF NodeInvariant
  <2>2. i.sender \in D
    BY <1>13, <2>1
  <2>3. i = Id(m)
    BY <1>b, <1>4, <2>1, <2>2 DEF NodeInvariant, OnceAt, T, D
  <2>4. m.sentTime <= T[s] /\ s \in D
    BY <1>b, <1>i, <2>1, <2>2, <2>3 DEF NodeInvariant, LastIsLatest, T, D
  <2>5. T[s] >= m.sentTime
    BY <1>3, <1>5, <2>4
  <2> QED
    BY <1>i, <1>r, <2>3, <2>4, <2>5
<1>16. ProtectorAt(n)'
  <2> SUFFICES ASSUME protector[n] # Nobody
               PROVE  /\ protector[n] \in GatewaysOf(n)
                      /\ \E i \in delivered'[n] : i.sender \notin DOMAIN seenNodes'[n]
    BY <1>1, <1>2 DEF ProtectorAt
  <2>1. PICK i \in delivered[n] : i.sender \notin D
    BY <1>b DEF NodeInvariant, ProtectorAt, T, D
  <2>2. D \cup {s} = D
    BY <1>13, <2>1
  <2> QED
    BY <1>b, <1>4, <1>6, <2>1, <2>2 DEF NodeInvariant, ProtectorAt
<1>17. (repeated[n] \subseteq delivered[n])'
  BY <1>b, <1>4 DEF NodeInvariant
<1>18. NodeInvariant(n)'
  BY <1>10, <1>11, <1>12, <1>14, <1>15, <1>16, <1>17 DEF NodeInvariant
<1> QED
  BY <1>8, <1>9, <1>18

(* A message of a node for which the table has no room: it is delivered,   *)
(* and the gateway's thread keeps the semaphore.                           *)
LEMMA MessageTableFullStep ==
  ASSUME NetInvariant, NEW g \in Gateways, NEW m \in arriving[g], NEW again \in BOOLEAN,
         MessageTableFull(g, m, again)
  PROVE  NetInvariant'
<1> USE DEF NetInvariant
<1> DEFINE n == Node(g)
           D == DOMAIN seenNodes[n]
<1>1. /\ TableFull(g, m) /\ Take(g, m, again) /\ Distribute(g, m, again)
      /\ protector' = [protector EXCEPT ![n] = g]
      /\ UNCHANGED <<clock, epoch, sentNow, published, seenNodes, blocked, setBack>>
  BY DEF MessageTableFull
<1>2. m \in Messages /\ Id(m) \in Ids /\ faults' \in 0..MaxFaults /\ n \in Nodes /\ g \in GatewaysOf(n)
  BY <1>1, TakeTypes, GatewayNode
<1>3. /\ arriving' \in [Gateways -> SUBSET Messages]
      /\ delivered' \in [Nodes -> SUBSET Ids] /\ repeated' \in [Nodes -> SUBSET Ids]
      /\ delivered'[n] = delivered[n] \cup {Id(m)}
      /\ repeated'[n] = repeated[n] \cup ({Id(m)} \cap delivered[n])
      /\ \A k \in Nodes \ {n} : delivered'[k] = delivered[k] /\ repeated'[k] = repeated[k]
  BY <1>1, <1>2, DistributeTypes
<1>4. /\ protector' \in [Nodes -> Gateways \cup {Nobody}] /\ protector'[n] = g
      /\ \A k \in Nodes \ {n} : protector'[k] = protector[k]
  BY <1>1, <1>2 DEF NetTypes
<1>5. NetTypes'
  BY <1>1, <1>2, <1>3, <1>4 DEF NetTypes
<1>6. ASSUME NEW k \in Nodes, k # n PROVE NodeInvariant(k)'
  <2>1. NodeSame(k)
    BY <1>1, <1>3, <1>4, <1>6 DEF NodeSame
  <2> QED
    BY <2>1, NodeKept
<1>7. m.sender \notin D /\ Cardinality(D) >= MaxNumberOfNodes /\ Id(m).sender = m.sender
  BY <1>1 DEF TableFull, Known, Id
<1>8. NodeInvariant(n)
  BY <1>2
<1> HIDE DEF n
<1>9. TableFits(n)' /\ LastDelivered(n)'
  BY <1>1, <1>3, <1>8 DEF NodeInvariant, TableFits, LastDelivered
<1>10. LastIsLatest(n)'
  BY <1>1, <1>3, <1>7, <1>8 DEF NodeInvariant, LastIsLatest
<1>11. UnknownOnlyWhenFull(n)'
  BY <1>1, <1>3, <1>7, <1>8 DEF NodeInvariant, UnknownOnlyWhenFull
<1>12. OnceAt(n)' /\ (repeated[n] \subseteq delivered[n])'
  BY <1>1, <1>3, <1>7, <1>8 DEF NodeInvariant, OnceAt
<1>13. ProtectorAt(n)'
  BY <1>1, <1>2, <1>3, <1>4, <1>7 DEF ProtectorAt, GatewaysOf
<1>14. NodeInvariant(n)'
  BY <1>9, <1>10, <1>11, <1>12, <1>13 DEF NodeInvariant
<1> QED
  BY <1>5, <1>6, <1>14

(* A node restarts with an empty table, and nobody remembers what it got.  *)
LEMMA RestartStep ==
  ASSUME NetInvariant, NEW n \in Restarting, Restart(n) PROVE NetInvariant'
<1> USE DEF NetInvariant
<1>1. /\ epoch[n] < MaxRestarts /\ epoch' = [epoch EXCEPT ![n] = epoch[n] + 1]
      /\ clock' = [clock EXCEPT ![n] = 0] /\ sentNow' = [sentNow EXCEPT ![n] = 0]
      /\ seenNodes' = [seenNodes EXCEPT ![n] = <<>>]
      /\ protector' = [protector EXCEPT ![n] = Nobody] /\ blocked' = blocked \ GatewaysOf(n)
      /\ delivered' = [delivered EXCEPT ![n] = {}] /\ repeated' = [repeated EXCEPT ![n] = {}]
      /\ setBack' = {p \in setBack : p[1] # n} /\ UNCHANGED <<published, arriving, faults>>
  BY DEF Restart
<1>2. n \in Publishers /\ n \in Nodes
  BY NetworkAssumption
<1>3. /\ seenNodes' \in [Nodes -> Tables] /\ seenNodes'[n] = <<>>
      /\ \A k \in Nodes \ {n} : seenNodes'[k] = seenNodes[k]
  <2>1. seenNodes \in [Nodes -> Tables]
    BY DEF NetTypes
  <2> QED
    BY <1>1, <1>2, <2>1, EmptyTable
<1>4. NetTypes'
  <2>1. /\ clock' \in [Publishers -> 0..MaxTime] /\ epoch' \in [Publishers -> 0..MaxRestarts]
        /\ sentNow' \in [Publishers -> 0..published']
    BY <1>1, <1>2, NetworkAssumption DEF NetTypes
  <2>2. /\ protector' \in [Nodes -> Gateways \cup {Nobody}] /\ blocked' \subseteq Gateways
        /\ delivered' \in [Nodes -> SUBSET Ids] /\ repeated' \in [Nodes -> SUBSET Ids]
        /\ setBack' \subseteq Nodes \X Publishers
    BY <1>1, <1>2 DEF NetTypes
  <2> QED
    BY <1>1, <1>3, <2>1, <2>2 DEF NetTypes
<1>5. ASSUME NEW k \in Nodes, k # n PROVE NodeInvariant(k)'
  <2>1. /\ protector'[k] = protector[k] /\ delivered'[k] = delivered[k] /\ repeated'[k] = repeated[k]
        /\ \A x : <<k, x>> \in setBack' <=> <<k, x>> \in setBack
    BY <1>1, <1>5 DEF NetTypes
  <2>2. NodeSame(k)
    BY <1>3, <1>5, <2>1 DEF NodeSame
  <2> QED
    BY <2>2, NodeKept
<1>6. NodeInvariant(n)'
  <2>1. /\ delivered'[n] = {} /\ repeated'[n] = {} /\ protector'[n] = Nobody
        /\ DOMAIN seenNodes'[n] = {}
    BY <1>1, <1>2, <1>3, EmptyTable DEF NetTypes
  <2> QED
    BY <2>1, FS_EmptySet, NetworkAssumption
    DEF NodeInvariant, TableFits, LastDelivered, LastIsLatest, UnknownOnlyWhenFull, OnceAt, ProtectorAt
<1> QED
  BY <1>4, <1>5, <1>6

-----------------------------------------------------------------------------
(* The inductive invariant of the network holds always.                    *)
LEMMA NetHolds == Spec => []NetInvariant
<1>1. Init => NetInvariant
  <2> SUFFICES ASSUME Init PROVE NetInvariant
    OBVIOUS
  <2>1. NetTypes
    BY EmptyTable, NetworkAssumption DEF Init, NetTypes
  <2>2. ASSUME NEW n \in Nodes PROVE NodeInvariant(n)
    <3>1. delivered[n] = {} /\ repeated[n] = {} /\ protector[n] = Nobody /\ DOMAIN seenNodes[n] = {}
      BY EmptyTable DEF Init
    <3> QED
      BY <3>1, FS_EmptySet, NetworkAssumption
      DEF NodeInvariant, TableFits, LastDelivered, LastIsLatest, UnknownOnlyWhenFull, OnceAt, ProtectorAt
  <2> QED
    BY <2>1, <2>2 DEF NetInvariant
<1>2. NetInvariant /\ [Next]_vars => NetInvariant'
  <2> SUFFICES ASSUME NetInvariant, [Next]_vars PROVE NetInvariant'
    OBVIOUS
  <2>1. ASSUME NEW n \in Publishers, NEW t \in 1..MaxTime, Publish(n, t) PROVE NetInvariant'
    BY <2>1, PublishStep
  <2>2. ASSUME NEW g \in Gateways, NEW m \in arriving[g], NEW again \in BOOLEAN,
               GetNetworkMsg(g, m, again)
        PROVE  NetInvariant'
    BY <2>2, QuietStep, MessageNewStep, MessageTableFullStep DEF GetNetworkMsg
  <2>3. ASSUME NEW n \in Restarting, Restart(n) PROVE NetInvariant'
    BY <2>3, RestartStep
  <2>4. CASE UNCHANGED vars
    <3>1. NetTypes'
      BY <2>4 DEF vars, NetInvariant, NetTypes
    <3>2. \A n \in Nodes : NodeSame(n)
      BY <2>4 DEF vars, NodeSame
    <3> QED
      BY <3>1, <3>2, NodeKept DEF NetInvariant
  <2> QED
    BY <2>1, <2>2, <2>3, <2>4 DEF Next
<1> QED
  BY <1>1, <1>2, PTL DEF Spec

(* However often the links duplicate a message and whichever ways it takes *)
(* through the gateways, a node's subscribers get it once: unless the node *)
(* has set the sender's time back or has no room for it in its table.      *)
THEOREM DeliveredOnce == Spec => []AtMostOnce
<1>1. NetInvariant => AtMostOnce
  BY DEF NetInvariant, NodeInvariant, OnceAt, AtMostOnce
<1> QED
  BY <1>1, NetHolds, PTL

(* The table of seen nodes never takes more than it has room for, and      *)
(* messageSeen leaves its semaphore on every way but that of the           *)
(* assertion.                                                              *)
THEOREM SemaphoreLeft == Spec => []ProtectorLeft
<1>1. NetInvariant => ProtectorLeft
  <2> SUFFICES ASSUME NetInvariant PROVE ProtectorLeft
    OBVIOUS
  <2>1. NetTypes /\ \A n \in Nodes : NodeInvariant(n)
    BY DEF NetInvariant
  <2>2. \A m \in UNION Range(arriving) : Id(m) \in Ids /\ m.steps \in 1..MaxSteps
    <3>1. \A m \in UNION Range(arriving) : m \in Messages
      BY <2>1 DEF NetTypes, Range
    <3> QED
      BY <3>1 DEF Id, Ids, Messages
  <2>3. ASSUME NEW n \in Nodes
        PROVE  /\ DOMAIN seenNodes[n] \subseteq Publishers \ {n}
               /\ Cardinality(DOMAIN seenNodes[n]) <= MaxNumberOfNodes
               /\ protector[n] \in GatewaysOf(n) \cup {Nobody}
               /\ delivered[n] \subseteq Ids /\ repeated[n] \subseteq delivered[n]
               /\ protector[n] # Nobody => \E i \in delivered[n] : i.sender \notin DOMAIN seenNodes[n]
    <3>1. seenNodes[n] \in Tables /\ delivered[n] \subseteq Ids
      BY <2>1 DEF NetTypes
    <3>2. DOMAIN seenNodes[n] \subseteq Publishers
      BY <3>1 DEF Tables
    <3> QED
      BY <2>1, <3>1, <3>2 DEF NodeInvariant, TableFits, ProtectorAt
  <2>4. TypeOK
    BY <2>1, <2>2, <2>3 DEF NetTypes, TypeOK
  <2> QED
    BY <2>3, <2>4 DEF ProtectorLeft
<1> QED
  BY <1>1, NetHolds, PTL

(* messageSeen drops a message only if one of its sender that is not older *)
(* was delivered: in the same life of the sender, or within the window.    *)
THEOREM DropsExcused == Spec => NothingNewDropped
<1>1. ASSUME NetInvariant, NEW g \in Gateways, NEW m \in arriving[g], NEW again \in BOOLEAN,
             MessageSeen(g, m, again)
      PROVE  DropExcused(Node(g), m)
  <2>1. NetTypes /\ NodeInvariant(Node(g)) /\ Seen(g, m)
    BY <1>1, GatewayNode DEF NetInvariant, MessageSeen
  <2>2. m.sentTime \in Nat
    BY <2>1, NetworkAssumption DEF NetTypes, Messages
  <2>3. Known(g, m)
    BY <2>1, <2>2 DEF Seen, LastMsgTime
  <2>4. PICK i \in delivered[Node(g)] :
          i.sender = m.sender /\ i.sentTime = seenNodes[Node(g)][m.sender]
    BY <2>1, <2>3 DEF NodeInvariant, LastDelivered, Known
  <2>5. i.sentTime >= m.sentTime /\ i.sentTime - m.sentTime <= Window
    BY <2>1, <2>3, <2>4 DEF Seen, LastMsgTime
  <2> QED
    BY <2>4, <2>5 DEF DropExcused
<1>2. NetInvariant /\ [Next]_vars =>
        [\A g \in Gateways : \A m \in arriving[g], again \in BOOLEAN :
           MessageSeen(g, m, again) => DropExcused(Node(g), m)]_vars
  BY <1>1
<1> QED
  BY <1>2, NetHolds, PTL DEF Spec, NothingNewDropped
=============================================================================
