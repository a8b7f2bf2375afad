------------------------------- MODULE Network ------------------------------
(***************************************************************************)
(* Nodes that forward each other's messages: Gateway (gateway.cpp), Router  *)
(* (router.cpp) and the publishing of a topic (topic.cpp), over links that  *)
(* lose, duplicate and reorder messages.  A message is identified by its    *)
(* sender and the time at which it was sent, and nothing else tells a       *)
(* duplicate (two messages that a node sends within one tick of its clock   *)
(* are one to the others), so that the receivers' tables of seen nodes      *)
(* decide what is delivered.  Nodes may restart, and their clocks with      *)
(* them.                                                                    *)
(*                                                                          *)
(* Every gateway has a thread of its own; the gateways of a node share the  *)
(* table, protected by a semaphore (module Semaphore shows what that is     *)
(* worth).  Gateways forward all topics.  A message whose checksum is wrong *)
(* is a lost one.                                                           *)
(***************************************************************************)
EXTENDS Integers, FiniteSets, Functions

CONSTANTS
  Nodes,            \* the nodes of the network
  Links,            \* the links, each the set of nodes it connects
  MaxNumberOfNodes, \* MAX_NUMBER_OF_NODES, the size of the table
  MaxSteps,         \* maxStepsToForward of a new message
  Window,           \* a message older than this tells of a restart (5 seconds)
  Publishers,       \* nodes that publish
  Restarting,       \* publishers that restart
  MaxTime,          \* bound: how long a node is up
  MaxMessages,      \* bound: how many messages are published
  MaxRestarts,      \* bound: how often a node restarts
  MaxFaults,        \* bound: how many messages the links duplicate
  Nobody            \* the semaphore is free

Gateways == {g \in Nodes \X Links : g[1] \in g[2]}
Node(g) == g[1]
GatewaysOf(n) == {g \in Gateways : Node(g) = n}

ASSUME NetworkAssumption ==
  /\ Links \subseteq SUBSET Nodes
  /\ {MaxNumberOfNodes, MaxSteps, Window, MaxTime, MaxMessages, MaxRestarts, MaxFaults}
       \subseteq Nat
  /\ MaxSteps > 0
  /\ Publishers \subseteq Nodes /\ Restarting \subseteq Publishers
  /\ Nobody \notin Gateways

VARIABLES
  clock,      \* NOW() of every node that publishes
  epoch,      \* how often it has restarted
  sentNow,    \* how many messages it has sent with this reading of the clock
  published,  \* how many messages were published
  arriving,   \* the messages on their way to each gateway
  seenNodes,  \* the table of each node: lastMsgTime of the nodes in it
  protector,  \* the owner of seenNodesProtector of each node
  blocked,    \* gateways whose thread waits for it
  delivered,  \* the messages each node's subscribers got
  repeated,   \* those that they got more than once
  setBack,    \* pairs of nodes: the first has set back the second's lastMsgTime
  faults      \* how many messages were duplicated

vars == <<clock, epoch, sentNow, published, arriving, seenNodes, protector, blocked, delivered,
          repeated, setBack, faults>>

(* What identifies a message; neither the epoch nor the number, which      *)
(* tells those with the same time apart, is part of it in the code.        *)
Id(m) == [sender |-> m.sender, epoch |-> m.epoch, number |-> m.number, sentTime |-> m.sentTime]

Init ==
  /\ clock = [n \in Publishers |-> 0]
  /\ epoch = [n \in Publishers |-> 0]
  /\ sentNow = [n \in Publishers |-> 0]
  /\ published = 0
  /\ arriving = [g \in Gateways |-> {}]
  /\ seenNodes = [n \in Nodes |-> <<>>]
  /\ protector = [n \in Nodes |-> Nobody]
  /\ blocked = {}
  /\ delivered = [n \in Nodes |-> {}]
  /\ repeated = [n \in Nodes |-> {}]
  /\ setBack = {}
  /\ faults = 0

-----------------------------------------------------------------------------
(* Over the links of the gateways in S to the other nodes there.           *)
Sent(waiting, m, S) ==
  [g \in Gateways |->
     IF \E s \in S : s[2] = g[2] /\ Node(s) # Node(g) THEN waiting[g] \cup {m} ELSE waiting[g]]

(* publishMsgPart takes the time (NetMsgInfo::init) and hands the message  *)
(* to Gateway::put of all gateways or to Router::putGeneric.  A thread may *)
(* be preempted in between, so that messages of a node leave it out of     *)
(* order: that is one more reason for messages to arrive so.               *)
Publish(n, t) ==
  /\ t >= clock[n] /\ published < MaxMessages
  /\ published' = published + 1
  /\ clock' = [clock EXCEPT ![n] = t]
  /\ sentNow' = [sentNow EXCEPT ![n] = IF t = clock[n] THEN @ + 1 ELSE 1]
  /\ arriving' = Sent(arriving,
       [sender |-> n, epoch |-> epoch[n], number |-> sentNow'[n], sentTime |-> t,
        steps |-> MaxSteps],
       GatewaysOf(n))
  /\ UNCHANGED <<epoch, seenNodes, protector, blocked, delivered, repeated, setBack, faults>>

-----------------------------------------------------------------------------
(* getNetworkMsg and AnalyseAndDistributeMessagesFromNetwork.  A message   *)
(* that is never taken is a lost one; the link may also leave one on its   *)
(* way, to arrive once more.                                               *)
Take(g, m, again) ==
  /\ m \in arriving[g] /\ g \notin blocked
  /\ again => faults < MaxFaults
  /\ faults' = IF again THEN faults + 1 ELSE faults

Rest(g, m, again) == IF again THEN arriving ELSE [arriving EXCEPT ![g] = @ \ {m}]

FromSelf(g, m, again) ==
  /\ m.sender = Node(g)
  /\ Take(g, m, again)
  /\ arriving' = Rest(g, m, again)
  /\ UNCHANGED <<clock, epoch, sentNow, published, seenNodes, protector, blocked, delivered,
                 repeated, setBack>>

(* messageSeen, within the semaphore: every branch leaves it, except that  *)
(* of the assertion that the table has room for another node.              *)
Known(g, m) == m.sender \in DOMAIN seenNodes[Node(g)]

TableFull(g, m) == ~Known(g, m) /\ Cardinality(DOMAIN seenNodes[Node(g)]) >= MaxNumberOfNodes
LastMsgTime(g, m) == IF Known(g, m) THEN seenNodes[Node(g)][m.sender] ELSE m.sentTime - 1

(* Mutant: a message with the time of the last one is new.                 *)
SeenOnlyOlder(g, m) ==
  LET last == LastMsgTime(g, m) IN last > m.sentTime /\ last - m.sentTime <= Window

(* Mutant: a restart is not considered.                                    *)
SeenForEver(g, m) == LastMsgTime(g, m) >= m.sentTime

Seen(g, m) ==
  LET last == LastMsgTime(g, m) IN last >= m.sentTime /\ last - m.sentTime <= Window

Free(g) == protector[Node(g)] \in {Nobody, g}

(* Mutant: a seen message is returned with the semaphore entered.          *)
MessageSeenKeepsProtector(g, m, again) ==
  /\ m.sender # Node(g) /\ Free(g)
  /\ Seen(g, m)
  /\ Take(g, m, again)
  /\ arriving' = Rest(g, m, again)
  /\ protector' = [protector EXCEPT ![Node(g)] = g]
  /\ UNCHANGED <<clock, epoch, sentNow, published, seenNodes, blocked, delivered, repeated,
                 setBack>>

MessageSeen(g, m, again) ==
  /\ m.sender # Node(g) /\ Free(g)
  /\ Seen(g, m)
  /\ Take(g, m, again)
  /\ arriving' = Rest(g, m, again)
  /\ UNCHANGED <<clock, epoch, sentNow, published, seenNodes, protector, blocked, delivered,
                 repeated, setBack>>

(* What is not seen goes to the local subscribers, then through the router *)
(* to the other links (routeMsg).  In which order two gateways of a node   *)
(* do this is not told apart.                                              *)

(* Mutant: the steps are not counted.                                      *)
StepsLeftUncounted(m) == m.steps

StepsLeft(m) == m.steps - 1

Distribute(g, m, again) ==
  /\ delivered' = [delivered EXCEPT ![Node(g)] = @ \cup {Id(m)}]
  /\ repeated' = [repeated EXCEPT ![Node(g)] = @ \cup ({Id(m)} \cap delivered[Node(g)])]
  /\ arriving' =
       IF StepsLeft(m) <= 0 THEN Rest(g, m, again)
       ELSE Sent(Rest(g, m, again), [m EXCEPT !.steps = StepsLeft(m)], GatewaysOf(Node(g)) \ {g})

MessageNew(g, m, again) ==
  /\ m.sender # Node(g) /\ Free(g)
  /\ ~Seen(g, m) /\ ~TableFull(g, m)
  /\ Take(g, m, again)
  /\ Distribute(g, m, again)
  /\ seenNodes' = [seenNodes EXCEPT ![Node(g)] =
       [s \in DOMAIN @ \cup {m.sender} |-> IF s = m.sender THEN m.sentTime ELSE @[s]]]
  /\ setBack' = IF LastMsgTime(g, m) > m.sentTime
                THEN setBack \cup {<<Node(g), m.sender>>} ELSE setBack
  /\ UNCHANGED <<clock, epoch, sentNow, published, protector, blocked>>

MessageTableFull(g, m, again) ==
  /\ m.sender # Node(g) /\ Free(g)
  /\ TableFull(g, m)
  /\ Take(g, m, again)
  /\ Distribute(g, m, again)
  /\ protector' = [protector EXCEPT ![Node(g)] = g]
  /\ UNCHANGED <<clock, epoch, sentNow, published, seenNodes, blocked, setBack>>

(* The thread that has not left it is another gateway's: it never will.    *)
MessageBlocked(g, m, again) ==
  /\ m.sender # Node(g) /\ ~Free(g)
  /\ Take(g, m, again)
  /\ arriving' = Rest(g, m, again)
  /\ blocked' = blocked \cup {g}
  /\ UNCHANGED <<clock, epoch, sentNow, published, seenNodes, protector, delivered, repeated,
                 setBack>>

GetNetworkMsg(g, m, again) ==
  \/ FromSelf(g, m, again)
  \/ MessageSeen(g, m, again)
  \/ MessageNew(g, m, again)
  \/ MessageTableFull(g, m, again)
  \/ MessageBlocked(g, m, again)

-----------------------------------------------------------------------------
(* A node restarts: its memory and its clock begin again, what it has sent *)
(* is still on its way.                                                    *)
Restart(n) ==
  /\ epoch[n] < MaxRestarts
  /\ epoch' = [epoch EXCEPT ![n] = @ + 1]
  /\ clock' = [clock EXCEPT ![n] = 0]
  /\ sentNow' = [sentNow EXCEPT ![n] = 0]
  /\ seenNodes' = [seenNodes EXCEPT ![n] = <<>>]
  /\ protector' = [protector EXCEPT ![n] = Nobody]
  /\ blocked' = blocked \ GatewaysOf(n)
  /\ delivered' = [delivered EXCEPT ![n] = {}]
  /\ repeated' = [repeated EXCEPT ![n] = {}]
  /\ setBack' = {p \in setBack : p[1] # n}
  /\ UNCHANGED <<published, arriving, faults>>

Next ==
  \/ \E n \in Publishers, t \in 1..MaxTime : Publish(n, t)
  \/ \E g \in Gateways : \E m \in arriving[g], again \in BOOLEAN : GetNetworkMsg(g, m, again)
  \/ \E n \in Restarting : Restart(n)

Spec == Init /\ [][Next]_vars

(* The thread of a gateway takes what arrives; the links do not duplicate  *)
(* for ever.                                                               *)
Fairness == \A g \in Gateways : WF_vars(\E m \in arriving[g] : GetNetworkMsg(g, m, FALSE))

FairSpec == Spec /\ Fairness

-----------------------------------------------------------------------------
Ids == [sender : Publishers, epoch : 0..MaxRestarts, number : 1..MaxMessages, sentTime : 1..MaxTime]

(* Type correctness.                                                       *)
TypeOK ==
  /\ clock \in [Publishers -> 0..MaxTime] /\ epoch \in [Publishers -> 0..MaxRestarts]
  /\ sentNow \in [Publishers -> 0..published]
  /\ \A m \in UNION Range(arriving) : Id(m) \in Ids /\ m.steps \in 1..MaxSteps
  /\ blocked \subseteq Gateways
  /\ \A n \in Nodes :
       /\ DOMAIN seenNodes[n] \subseteq Publishers \ {n}
       /\ Cardinality(DOMAIN seenNodes[n]) <= MaxNumberOfNodes
       /\ protector[n] \in GatewaysOf(n) \cup {Nobody}
       /\ delivered[n] \subseteq Ids /\ repeated[n] \subseteq delivered[n]
  /\ setBack \subseteq Nodes \X Publishers
  /\ published \in 0..MaxMessages /\ faults \in 0..MaxFaults

(* However often a message is duplicated and whichever ways it takes       *)
(* through the network, a node's subscribers get it once.  Only a node     *)
(* that has set the sender's time back, or whose table has no room for it, *)
(* may deliver it again.                                                   *)
AtMostOnce ==
  \A n \in Nodes : \A i \in repeated[n] :
    <<n, i.sender>> \in setBack \/ i.sender \notin DOMAIN seenNodes[n]

(* A message nobody has got is dropped as seen only if a later one of its  *)
(* sender was faster, if its sender has sent another at the same time, or  *)
(* if its sender has restarted within the window.                          *)
DropExcused(n, m) ==
  \E i \in delivered[n] :
    /\ i.sender = m.sender /\ i.sentTime >= m.sentTime
    /\ i.epoch # m.epoch => i.sentTime - m.sentTime <= Window

NothingNewDropped ==
  [][\A g \in Gateways : \A m \in arriving[g], again \in BOOLEAN :
       MessageSeen(g, m, again) => DropExcused(Node(g), m)]_vars

(* The table takes no more nodes than it has room for, and its semaphore   *)
(* is left on every way out of messageSeen, but for the assertion: the     *)
(* gateways of a node wait for ever only after it has got messages of more *)
(* nodes.                                                                  *)
ProtectorLeft ==
  /\ TypeOK
  /\ \A n \in Nodes : protector[n] # Nobody =>
       \E i \in delivered[n] : i.sender \notin DOMAIN seenNodes[n]

(* No message goes round for ever, also where duplicates are not           *)
(* recognised: once nothing more is published, all that arrives is taken,  *)
(* except by the threads that wait for the semaphore.                      *)
AtRest == \A g \in Gateways : arriving[g] = {} \/ g \in blocked
ComesToRest == <>[]AtRest
=============================================================================
