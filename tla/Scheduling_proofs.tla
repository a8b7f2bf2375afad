-------------------------- MODULE Scheduling_proofs --------------------------
(***************************************************************************)
(* Mutual exclusion, no forgotten and no starving waiting thread and the    *)
(* restoring of the priority, for any number of threads and semaphores and  *)
(* any priorities, as long as no thread within its ceiler was overtaken.    *)
(* enter() and leave() disable no interrupts: what protects them is that a  *)
(* thread inside a PRIORITY_CEILER_IN_SCOPE loses the CPU only to another   *)
(* one inside, and that those others are not about to take or to free a     *)
(* semaphore.                                                               *)
(* The same for the wait loops of SyncFifo and BlockFifo, of the barrier    *)
(* and of the devices: nobody whose condition holds is left suspended, and  *)
(* who is taken out of a wait finds the reason for it.                      *)
(***************************************************************************)
EXTENDS Semaphore, Waiting, WellFoundedInduction, TLAPS

-----------------------------------------------------------------------------
(* The scheduler.                                                          *)

(* The list of activations is a permutation of the application's threads.  *)
ListOK ==
  /\ activations \in Seq(Threads)
  /\ ToSet(activations) = Threads /\ IsInjective(activations)

(* A set of natural numbers has a least element.                           *)
LEMMA LeastOf ==
  ASSUME NEW S \in SUBSET Nat, S # {}
  PROVE  \E n \in S : \A m \in S : n <= m
<1>1. PICK n \in S : \A m \in S : ~(<<m, n>> \in OpToRel(<, Nat))
  BY NatLessThanWellFounded, WFMin
<1>2. ASSUME NEW m \in S PROVE n <= m
  <2>1. m \in Nat /\ n \in Nat
    OBVIOUS
  <2>2. ~(m < n)
    BY <1>1, <2>1 DEF OpToRel
  <2> QED
    BY <2>1, <2>2
<1> QED
  BY <1>2

(* Every thread has its place in the list of activations.                  *)
LEMMA ActivationIn ==
  ASSUME ListOK, NEW t \in Threads
  PROVE  Activation(t) \in 1..Len(activations) /\ activations[Activation(t)] = t
<1>1. t # Idle
  BY SchedulingAssumption
<1> QED
  BY <1>1 DEF ListOK, ToSet, Activation

(* No two threads have the same, and the idle thread's is the last.        *)
LEMMA ActivationsDiffer ==
  ASSUME ListOK, NEW t \in All, NEW u \in All, t # u
  PROVE  Activation(t) # Activation(u) /\ Activation(t) \in Nat /\ Activation(u) \in Nat
<1>1. Len(activations) \in Nat
  BY DEF ListOK
<1>2. ASSUME NEW x \in All
      PROVE  \/ x = Idle /\ Activation(x) = Len(activations) + 1
             \/ Activation(x) \in 1..Len(activations) /\ activations[Activation(x)] = x
  <2>1. CASE x = Idle
    BY <2>1 DEF Activation
  <2>2. CASE x \in Threads
    BY <2>2, ActivationIn
  <2> QED
    BY <2>1, <2>2 DEF All
<1> QED
  BY <1>1, <1>2

(* In a set of threads there is a foremost one.                            *)
LEMMA ForemostIs ==
  ASSUME ListOK, NEW S \in SUBSET All, S # {}, NEW priority \in [All -> 0..Ceiling]
  PROVE  /\ Foremost(S, priority) \in S
         /\ \A u \in S : priority[u] <= priority[Foremost(S, priority)]
         /\ \A u \in S \ {Foremost(S, priority)} :
              priority[u] = priority[Foremost(S, priority)]
                => Activation(Foremost(S, priority)) < Activation(u)
<1> USE SchedulingAssumption
<1> DEFINE Urgency == {Ceiling - priority[t] : t \in S}
<1>0. \A t \in S : priority[t] \in 0..Ceiling
  OBVIOUS
<1>1. PICK m \in Urgency : \A n \in Urgency : m <= n
  <2>1. Urgency \in SUBSET Nat
    BY <1>0
  <2>2. Urgency # {}
    <3>1. PICK t \in S : TRUE
      OBVIOUS
    <3>2. Ceiling - priority[t] \in Urgency
      OBVIOUS
    <3> HIDE DEF Urgency
    <3> QED
      BY <3>2
  <2> HIDE DEF Urgency
  <2> QED
    BY <2>1, <2>2, LeastOf
<1>2. PICK top \in S : \A u \in S : priority[u] <= priority[top]
  <2>1. PICK t \in S : m = Ceiling - priority[t]
    BY <1>1
  <2>2. ASSUME NEW u \in S PROVE priority[u] <= priority[t]
    <3>1. Ceiling - priority[t] <= Ceiling - priority[u]
      BY <1>1, <2>1
    <3> QED
      BY <3>1, <1>0
  <2> QED
    BY <2>2
<1> DEFINE Places == {Activation(t) : t \in {u \in S : priority[u] = priority[top]}}
<1>3. Places \in SUBSET Nat /\ Places # {}
  <2>1. \A t \in S : Activation(t) \in Nat
    <3>1. ASSUME NEW t \in S PROVE Activation(t) \in Nat
      <4>1. CASE t = Idle
        BY <4>1 DEF Activation, ListOK
      <4>2. CASE t # Idle
        BY <4>2, ActivationIn DEF ListOK, All
      <4> QED
        BY <4>1, <4>2
    <3> QED
      BY <3>1
  <2> QED
    BY <2>1
<1>4. PICK a \in Places : \A b \in Places : a <= b
  <2> HIDE DEF Places
  <2> QED
    BY <1>3, LeastOf
<1>5. PICK t \in S : priority[t] = priority[top] /\ Activation(t) = a
  BY <1>4
<1>6. ASSUME NEW u \in S \ {t}
      PROVE  priority[t] > priority[u] \/ (priority[t] = priority[u] /\ Activation(t) < Activation(u))
  <2>1. Activation(t) # Activation(u) /\ Activation(t) \in Nat /\ Activation(u) \in Nat
    BY ActivationsDiffer
  <2>2. priority[u] = priority[t] => Activation(u) \in Places
    BY <1>5
  <2>3. priority[u] \in Nat /\ priority[t] \in Nat /\ priority[u] <= priority[t]
    BY <1>2, <1>5
  <2> HIDE DEF Places
  <2> QED
    BY <1>4, <1>5, <2>1, <2>2, <2>3
<1> DEFINE first(x) == \A u \in S \ {x} :
             \/ priority[x] > priority[u]
             \/ priority[x] = priority[u] /\ Activation(x) < Activation(u)
<1>7. first(t)
  BY <1>6
<1>8. Foremost(S, priority) \in S /\ first(Foremost(S, priority))
  BY <1>7 DEF Foremost
<1>9. ASSUME NEW f \in S, first(f)
      PROVE  /\ \A u \in S : priority[u] <= priority[f]
             /\ \A u \in S \ {f} : priority[u] = priority[f] => Activation(f) < Activation(u)
  BY <1>9
<1> QED
  BY <1>8, <1>9

(* An element moved to the end of a sequence without repetitions.          *)
LEMMA MovedToEnd ==
  ASSUME NEW S, NEW seq \in Seq(S), NEW k \in 1..Len(seq),
         IsInjective(seq)
  PROVE  LET moved == Append(SubSeq(seq, 1, k - 1) \o SubSeq(seq, k + 1, Len(seq)), seq[k])
         IN  /\ moved \in Seq(S) /\ Len(moved) = Len(seq)
             /\ moved[Len(seq)] = seq[k]
             /\ \A j \in 1..Len(seq) : j < k => moved[j] = seq[j]
             /\ \A j \in 1..Len(seq) : k < j => moved[j - 1] = seq[j]
             /\ IsInjective(moved)
<1> DEFINE n == Len(seq)
           before == SubSeq(seq, 1, k - 1)
           after == SubSeq(seq, k + 1, n)
           both == before \o after
           moved == Append(both, seq[k])
<1>1. n \in Nat /\ k \in 1..n /\ seq[k] \in S
  OBVIOUS
<1>2. /\ before \in Seq(S) /\ Len(before) = k - 1
      /\ \A i \in 1..(k - 1) : before[i] = seq[i]
  BY <1>1
<1>3. /\ after \in Seq(S) /\ Len(after) = n - k
      /\ \A i \in 1..(n - k) : after[i] = seq[k + i]
  BY <1>1
<1>4. moved = Append(both, seq[k])
  OBVIOUS
<1>5. \A i, j \in 1..n : seq[i] = seq[j] => i = j
  BY DEF IsInjective
<1> HIDE DEF n, before, after, moved
<1>6. both \in Seq(S) /\ Len(both) = Len(before) + Len(after)
  <2>1. before \in Seq(S) /\ after \in Seq(S)
    BY <1>2, <1>3
  <2> QED
    BY <2>1
<1>7. \A i \in 1..Len(both) :
        both[i] = IF i <= Len(before) THEN before[i] ELSE after[i - Len(before)]
  BY <1>2, <1>3
<1> HIDE DEF both
<1>8. Len(both) = n - 1
  BY <1>1, <1>2, <1>3, <1>6
<1>9. ASSUME NEW j \in 1..n, j < k PROVE both[j] = seq[j]
  BY <1>1, <1>2, <1>7, <1>8, <1>9
<1>10. ASSUME NEW j \in 1..n, k < j PROVE both[j - 1] = seq[j]
  <2>1. j - 1 \in 1..Len(both) /\ ~(j - 1 <= Len(before))
    BY <1>1, <1>2, <1>8, <1>10
  <2>2. (j - 1) - Len(before) = j - k /\ j - k \in 1..(n - k) /\ k + (j - k) = j
    BY <1>1, <1>2, <1>10
  <2>3. both[j - 1] = after[j - k]
    BY <1>7, <2>1, <2>2
  <2> QED
    BY <1>3, <2>2, <2>3
<1>11. moved \in Seq(S) /\ Len(moved) = n /\ moved[n] = seq[k]
  <2>1. both \in Seq(S) /\ seq[k] \in S
    BY <1>1, <1>6
  <2> HIDE DEF both
  <2>2. /\ Append(both, seq[k]) \in Seq(S) /\ Len(Append(both, seq[k])) = Len(both) + 1
        /\ Append(both, seq[k])[Len(both) + 1] = seq[k]
    BY <2>1
  <2>3. Len(both) + 1 = n
    BY <1>1, <1>8
  <2> DEFINE longer == Append(both, seq[k])
  <2>4. moved = longer
    BY <1>4
  <2> HIDE DEF longer
  <2> QED
    BY <2>2, <2>3, <2>4 DEF longer
<1>12. \A j \in 1..(n - 1) : moved[j] = both[j]
  <2>1. both \in Seq(S) /\ seq[k] \in S
    BY <1>1, <1>6
  <2>2. \A j \in 1..Len(both) : Append(both, seq[k])[j] = both[j]
    BY <2>1
  <2> QED
    BY <1>4, <1>8, <2>2
<1>13. \A j \in 1..n : j < k => moved[j] = seq[j]
  BY <1>1, <1>9, <1>12
<1>14. ASSUME NEW j \in 1..n, k < j PROVE moved[j - 1] = seq[j]
  <2>1. j - 1 \in 1..(n - 1)
    BY <1>1, <1>14
  <2> QED
    BY <1>10, <1>12, <1>14, <2>1
<1>15. ASSUME NEW j \in 1..n, ~(j < k), j # n PROVE moved[j] = seq[j + 1]
  <2>1. j + 1 \in 1..n /\ k < j + 1 /\ (j + 1) - 1 = j
    BY <1>1, <1>15
  <2>2. moved[(j + 1) - 1] = seq[j + 1]
    BY <1>14, <2>1
  <2> QED
    BY <2>1, <2>2
<1>16. ASSUME NEW i \in 1..n, NEW j \in 1..n, moved[i] = moved[j] PROVE i = j
  <2> DEFINE at(x) == IF x < k THEN x ELSE IF x = n THEN k ELSE x + 1
  <2>1. ASSUME NEW x \in 1..n PROVE at(x) \in 1..n /\ moved[x] = seq[at(x)]
    <3>1. CASE x < k
      BY <1>13, <3>1
    <3>2. CASE ~(x < k) /\ x = n
      BY <1>1, <1>11, <3>2
    <3>3. CASE ~(x < k) /\ x # n
      <4>1. x + 1 \in 1..n
        BY <1>1, <3>3
      <4> QED
        BY <1>15, <3>3, <4>1
    <3> QED
      BY <3>1, <3>2, <3>3
  <2>2. \A x, y \in 1..n : at(x) = at(y) => x = y
    BY <1>1
  <2> HIDE DEF at
  <2> QED
    BY <1>5, <1>16, <2>1, <2>2
<1>17. IsInjective(moved)
  <2>1. DOMAIN moved = 1..n
    BY <1>11
  <2> QED
    BY <1>16, <2>1 DEF IsInjective
<1> QED
  BY <1>11, <1>13, <1>14, <1>17 DEF n, moved, both, before, after

(* A thread that gets the CPU goes to the end of the list, and the others  *)
(* keep their order.                                                       *)
LEMMA ActivateList ==
  ASSUME ListOK, NEW t \in All, Activate(t)
  PROVE  /\ ListOK' /\ running' = t /\ presel' = NoThread
         /\ \A u \in Threads \ {t} : t # Idle => Activation(u)' < Activation(t)'
         /\ \A u, v \in Threads \ {t} : Activation(u)' < Activation(v)' <=> Activation(u) < Activation(v)
<1>a. CASE t = Idle
  <2>1. activations' = activations
    BY <1>a DEF Activate
  <2> QED
    BY <1>a, <2>1 DEF Activate, ListOK, Activation
<1> SUFFICES ASSUME t \in Threads, t # Idle
             PROVE  /\ ListOK'
                    /\ \A u \in Threads \ {t} : Activation(u)' < Activation(t)'
                    /\ \A u, v \in Threads \ {t} :
                         Activation(u)' < Activation(v)' <=> Activation(u) < Activation(v)
  BY <1>a DEF Activate, All
<1> DEFINE n == Len(activations)
           a(u) == Activation(u)
           b(u) == Activation(u)'
<1>1. n \in Nat /\ \A u \in Threads : a(u) \in 1..n /\ activations[a(u)] = u
  BY ActivationIn DEF ListOK
<1>2. \A i, j \in 1..n : activations[i] = activations[j] => i = j
  BY DEF ListOK, IsInjective
<1>3. activations' = Append(SubSeq(activations, 1, a(t) - 1) \o SubSeq(activations, a(t) + 1, n),
                            activations[a(t)])
  BY <1>1 DEF Activate, RemoveAt
<1>4. /\ activations' \in Seq(Threads) /\ Len(activations') = n
      /\ activations'[n] = t
      /\ \A j \in 1..n : j < a(t) => activations'[j] = activations[j]
      /\ \A j \in 1..n : a(t) < j => activations'[j - 1] = activations[j]
      /\ IsInjective(activations')
  <2> HIDE DEF a
  <2>1. /\ activations \in Seq(Threads) /\ a(t) \in 1..Len(activations) /\ activations[a(t)] = t
        /\ IsInjective(activations)
    BY <1>1 DEF ListOK
  <2>2. ASSUME NEW moved, moved = activations'
        PROVE  /\ moved \in Seq(Threads) /\ Len(moved) = n
               /\ moved[n] = t
               /\ \A j \in 1..n : j < a(t) => moved[j] = activations[j]
               /\ \A j \in 1..n : a(t) < j => moved[j - 1] = activations[j]
               /\ IsInjective(moved)
    <3>1. moved = Append(SubSeq(activations, 1, a(t) - 1)
                           \o SubSeq(activations, a(t) + 1, Len(activations)), activations[a(t)])
      BY <1>3, <2>2
    <3> DEFINE seq == activations
               k == a(t)
    <3>2. seq \in Seq(Threads) /\ k \in 1..Len(seq) /\ IsInjective(seq)
      BY <2>1
    <3> HIDE DEF seq, k
    <3> DEFINE longer == Append(SubSeq(seq, 1, k - 1) \o SubSeq(seq, k + 1, Len(seq)), seq[k])
    <3>3. moved = longer
      BY <3>1 DEF seq, k
    <3>4. /\ longer \in Seq(Threads) /\ Len(longer) = Len(seq)
          /\ longer[Len(seq)] = seq[k]
          /\ \A j \in 1..Len(seq) : j < k => longer[j] = seq[j]
          /\ \A j \in 1..Len(seq) : k < j => longer[j - 1] = seq[j]
          /\ IsInjective(longer)
      BY <3>2, MovedToEnd
    <3> HIDE DEF longer
    <3> QED
      BY <2>1, <3>3, <3>4 DEF seq, k
  <2> QED
    BY <2>2
<1>5. DOMAIN activations' = 1..n /\ \A i, j \in 1..n : activations'[i] = activations'[j] => i = j
  BY <1>4 DEF IsInjective
<1>6. ASSUME NEW u \in Threads, NEW i \in 1..n, activations'[i] = u PROVE b(u) = i
  <2>1. b(u) = CHOOSE j \in DOMAIN activations' : activations'[j] = u
    BY SchedulingAssumption DEF Activation
  <2> HIDE DEF b
  <2> QED
    BY <1>5, <1>6, <2>1
<1> HIDE DEF a, b, n
<1>7. b(t) = n
  BY <1>1, <1>4, <1>6
<1>8. ASSUME NEW u \in Threads, a(u) < a(t)
      PROVE  activations'[a(u)] = u /\ b(u) = a(u) /\ b(u) \in 1..n /\ b(u) < n
  <2>1. a(u) \in 1..n /\ a(t) \in 1..n /\ activations[a(u)] = u
    BY <1>1
  <2>2. activations'[a(u)] = u
    BY <1>4, <1>8, <2>1
  <2> QED
    BY <1>1, <1>6, <1>8, <2>1, <2>2
<1>9. ASSUME NEW u \in Threads, a(t) < a(u)
      PROVE  activations'[a(u) - 1] = u /\ b(u) = a(u) - 1 /\ b(u) \in 1..n /\ b(u) < n
  <2>1. a(u) \in 1..n /\ a(t) \in 1..n /\ activations[a(u)] = u
    BY <1>1
  <2>2. activations'[a(u) - 1] = u
    BY <1>4, <1>9, <2>1
  <2>3. a(u) - 1 \in 1..n /\ a(u) - 1 < n
    BY <1>1, <1>9, <2>1
  <2> QED
    BY <1>6, <2>2, <2>3
<1>10. ASSUME NEW u \in Threads \ {t} PROVE a(u) < a(t) \/ a(t) < a(u)
  <2>1. a(u) # a(t)
    BY <1>1
  <2> QED
    BY <1>1, <2>1
<1>11. ToSet(activations') = Threads
  <2>1. \A i \in 1..n : activations'[i] \in Threads
    BY <1>4, <1>5
  <2>2. ASSUME NEW u \in Threads PROVE \E i \in 1..n : activations'[i] = u
    <3>1. CASE u = t
      <4>1. n \in 1..n
        BY <1>1
      <4> QED
        BY <1>4, <3>1, <4>1
    <3>2. CASE u # t
      BY <1>8, <1>9, <1>10, <3>2
    <3> QED
      BY <3>1, <3>2
  <2> QED
    BY <1>5, <2>1, <2>2 DEF ToSet
<1>12. ListOK'
  BY <1>4, <1>11 DEF ListOK
<1>13. ASSUME NEW u \in Threads \ {t} PROVE b(u) < b(t)
  BY <1>7, <1>8, <1>9, <1>10
<1>14. ASSUME NEW u \in Threads \ {t}, NEW v \in Threads \ {t}
       PROVE  b(u) < b(v) <=> a(u) < a(v)
  <2>1. a(u) \in Int /\ a(v) \in Int /\ a(t) \in Int
    BY <1>1
  <2>2. (b(u) = a(u) /\ a(u) < a(t)) \/ (b(u) = a(u) - 1 /\ a(t) < a(u))
    <3>1. CASE a(u) < a(t)
      BY <1>8, <3>1
    <3>2. CASE a(t) < a(u)
      BY <1>9, <3>2
    <3> QED
      BY <1>10, <3>1, <3>2
  <2>3. (b(v) = a(v) /\ a(v) < a(t)) \/ (b(v) = a(v) - 1 /\ a(t) < a(v))
    <3>1. CASE a(v) < a(t)
      BY <1>8, <3>1
    <3>2. CASE a(t) < a(v)
      BY <1>9, <3>2
    <3> QED
      BY <1>10, <3>1, <3>2
  <2> QED
    BY <2>1, <2>2, <2>3
<1> QED
  BY <1>12, <1>13, <1>14 DEF a, b

(* The thread that would run next is a ready one of the highest priority.  *)
LEMMA NextToRunIs ==
  ASSUME ListOK, prio \in [All -> 0..Ceiling], susp[Idle] = "no"
  PROVE  /\ NextToRun \in All /\ susp[NextToRun] = "no"
         /\ \A u \in All : susp[u] = "no" => prio[u] <= prio[NextToRun]
<1> DEFINE ready == {t \in All : susp[t] = "no"}
<1>1. ready \in SUBSET All /\ ready # {}
  BY DEF All
<1> QED
  BY <1>1, ForemostIs DEF NextToRun

(* What a step of the scheduler leaves behind: a ready thread runs, and    *)
(* another ready one may be preselected.                                   *)
Chooses ==
  /\ ListOK' /\ running' \in All /\ susp[running'] = "no"
  /\ presel' \in All \cup {NoThread} /\ (presel' # NoThread => susp[presel'] = "no" /\ presel' # running')
  /\ (running' = running /\ activations' = activations) \/ Activate(running')

(* The same before the step; the thread that runs may be suspended, but    *)
(* then no SysTick has come in the middle of its yield.                    *)
Selected ==
  /\ running \in All /\ presel \in All \cup {NoThread}
  /\ presel # NoThread => susp[presel] = "no" /\ presel # running
  /\ susp[running] # "no" => running \notin cut

(* A yield.                                                                *)
LEMMA YieldChooses ==
  ASSUME ListOK, prio \in [All -> 0..Ceiling], susp[Idle] = "no", Selected, Yield(running)
  PROVE  Chooses /\ cut' = cut \ {running}
<1>1. /\ NextToRun \in All /\ susp[NextToRun] = "no"
  BY NextToRunIs
<1>2. cut' = cut \ {running}
  BY DEF Yield
<1>3. CASE NextToRun = running /\ UNCHANGED <<running, activations, presel>>
  <2>1. ListOK'
    BY <1>3 DEF ListOK
  <2> QED
    BY <1>1, <1>2, <1>3, <2>1 DEF Selected, Chooses
<1>4. CASE NextToRun # running /\ Activate(NextToRun)
  BY <1>1, <1>2, <1>4, ActivateList DEF Chooses
<1>5. CASE /\ NextToRun # running /\ running \in cut \cup {Idle}
           /\ presel' \in {presel, NextToRun} /\ UNCHANGED <<running, activations>>
  <2>1. ListOK'
    BY <1>5 DEF ListOK
  <2> QED
    BY <1>1, <1>2, <1>5, <2>1 DEF Selected, Chooses
<1> QED
  BY <1>2, <1>3, <1>4, <1>5 DEF Yield

(* A SysTick.                                                              *)
LEMMA PreemptChooses ==
  ASSUME ListOK, prio \in [All -> 0..Ceiling], susp[Idle] = "no", Selected, NEW yields, Preempt(yields)
  PROVE  /\ Chooses /\ presel' = NoThread
         /\ cut' = IF pc[running] \in yields THEN cut \cup {running} ELSE cut
<1>1. Chosen \in All /\ susp[Chosen] = "no"
  BY NextToRunIs DEF Chosen, Selected
<1>2. Activate(Chosen) /\ cut' = IF pc[running] \in yields THEN cut \cup {running} ELSE cut
  BY DEF Preempt
<1> QED
  BY <1>1, <1>2, ActivateList DEF Chooses

(* The threads by their place in threadList are such a list.               *)
LEMMA InitialList ==
  ASSUME NEW p, SchedulingInit(p)
  PROVE  ListOK
BY SchedulingAssumption DEF SchedulingInit, ListOK

-----------------------------------------------------------------------------
(* The semaphore: the inductive invariant.                                 *)

(* Inside a PRIORITY_CEILER_IN_SCOPE.                                      *)
CeilerPcs ==
  {"test", "while", "waitYield", "blocked", "own", "endEnter", "free", "find", "hand", "endLeave", "asleep"}

(* Not concerned with a semaphore.                                         *)
FreePcs == {"run", "asleep", "yield"}

SemTypes ==
  /\ running \in All
  /\ presel \in All \cup {NoThread} /\ cut \subseteq Threads
  /\ prio \in [All -> 0..Ceiling] /\ saved \in [All -> 0..Ceiling]
  /\ susp \in [All -> {"no", "timed", "forever"}]
  /\ basePrio \in [All -> 0..Ceiling] /\ basePrio \in Priorities
  /\ lent \subseteq Threads /\ overtaken \in BOOLEAN
  /\ passed \in [Threads -> SUBSET Threads]
  /\ waitingFor \in [All -> Sems \cup {None}]
  /\ owner \in [Sems -> Threads \cup {None}]
  /\ enterCnt \in [Sems -> Int]
  /\ ownerPrio \in [Sems -> 0..Ceiling]
  /\ pc \in [All -> FreePcs \cup EnterPcs \cup LeavePcs]
  /\ sem \in [All -> Sems \cup {None}]
  /\ callerPrio \in [All -> 0..Ceiling]
  /\ waiter \in [All -> Threads \cup {None}]
  /\ held \in [All -> [Sems -> 0..MaxEnter]]

(* What a thread in enter() and in leave() has to go on with.              *)
Entries ==
  \A t \in All : /\ pc[t] = "hand" => waiter[t] \in Threads
                 /\ pc[t] \in EnterPcs => held[t][sem[t]] < MaxEnter

(* Nobody has the ceiling priority but within the scope.                   *)
Ceilings ==
  /\ \A t \in All : /\ IF pc[t] \in CeilerPcs THEN prio[t] = Ceiling ELSE prio[t] < Ceiling
                    /\ saved[t] < Ceiling /\ callerPrio[t] < Ceiling
  /\ \A s \in Sems : ownerPrio[s] < Ceiling

(* Who is suspended, and where.                                            *)
Suspensions ==
  /\ susp[Idle] = "no" /\ pc[Idle] = "run"
  /\ \A t \in All :
       /\ susp[t] = "timed" => pc[t] \in FreePcs
       /\ susp[t] = "forever" <=> waitingFor[t] # None
       /\ susp[t] = "forever" => pc[t] \in {"waitYield", "blocked"} /\ waitingFor[t] = sem[t]
       /\ pc[t] \in FreePcs <=> sem[t] = None

(* A suspended thread runs up to its yield; only there one is cut.         *)
Yields ==
  /\ susp[running] # "no" => pc[running] \in YieldPcs \cup {"asleep"}
  /\ \A t \in cut : pc[t] \in YieldPcs

(* Nobody passes a thread that does not wait.                              *)
Unpassed == \A t \in Threads : waitingFor[t] = None => passed[t] = {}

(* What holds always.                                                      *)
SemAlways ==
  /\ SemTypes /\ Entries /\ ListOK /\ Ceilings /\ Suspensions /\ Selected /\ Yields /\ Unpassed

(* Threads are not the idle thread, and inside enter() or leave() they     *)
(* have a semaphore.                                                       *)
LEMMA Basics ==
  ASSUME SemAlways
  PROVE  /\ Idle \in All /\ Threads \subseteq All /\ Idle \notin Threads /\ None \notin All /\ None \notin Sems
         /\ NoThread \notin All
         /\ Ceiling \in Nat /\ Ceiling \in 0..Ceiling /\ 0 \in 0..Ceiling /\ Ceiling > 0
         /\ MaxEnter \in Nat /\ MaxEnter > 0
         /\ \A t \in All : pc[t] \notin FreePcs => sem[t] \in Sems
BY SchedulingAssumption, SemaphoreAssumption DEF SemAlways, SemTypes, Suspensions, All

(* A step of the scheduler, alone or as the end of a yield.                *)
Dispatch ==
  /\ Chooses /\ Scheduled
  /\ \/ pc' = pc /\ (cut' = cut \/ (pc[running] \in YieldPcs /\ cut' = cut \cup {running} /\ running \in Threads))
     \/ /\ running \in Threads /\ cut' = cut \ {running}
        /\ \/ pc[running] = "yield" /\ pc' = [pc EXCEPT ![running] = "run"]
           \/ pc[running] = "waitYield" /\ pc' = [pc EXCEPT ![running] = "blocked"]
  /\ prio' = prio /\ susp' = susp /\ waitingFor' = waitingFor
  /\ owner' = owner /\ enterCnt' = enterCnt /\ ownerPrio' = ownerPrio
  /\ sem' = sem /\ callerPrio' = callerPrio /\ saved' = saved /\ waiter' = waiter /\ held' = held
  /\ basePrio' = basePrio /\ lent' = lent /\ passed' = passed

(* The steps that are that.                                                *)
LEMMA DispatchCases ==
  ASSUME SemAlways, SysTick \/ IdleLoop \/ \E t \in Threads : YieldReturn(t) \/ EnterWaitYield(t)
  PROVE  Dispatch
<1> USE Basics DEF SemAlways, SemTypes, Suspensions, Dispatch
<1>1. CASE SysTick
  <2>1. Chooses /\ cut' = IF pc[running] \in YieldPcs THEN cut \cup {running} ELSE cut
    BY <1>1, PreemptChooses DEF SysTick
  <2>2. pc[running] \in YieldPcs => running \in Threads
    BY DEF YieldPcs, All
  <2> QED
    BY <1>1, <2>1, <2>2 DEF SysTick, Preempt, semVars
<1>2. CASE IdleLoop
  <2>1. Chooses /\ cut' = cut \ {Idle}
    BY <1>2, YieldChooses DEF IdleLoop, IdleYields
  <2>2. cut' = cut
    BY <2>1
  <2> QED
    BY <1>2, <2>1, <2>2 DEF IdleLoop, IdleYields, semVars
<1>3. ASSUME NEW t \in Threads, YieldReturn(t) PROVE Dispatch
  <2>1. running = t /\ pc[t] = "yield" /\ Chooses /\ cut' = cut \ {t}
    BY <1>3, YieldChooses DEF YieldReturn, Executes
  <2> QED
    BY <1>3, <2>1 DEF YieldReturn, Goto, threadVars, semVars, localVars
<1>4. ASSUME NEW t \in Threads, EnterWaitYield(t) PROVE Dispatch
  <2>1. running = t /\ pc[t] = "waitYield" /\ Chooses /\ cut' = cut \ {t}
    BY <1>4, YieldChooses DEF EnterWaitYield, Executes
  <2> QED
    BY <1>4, <2>1 DEF EnterWaitYield, Goto, threadVars, semVars, localVars
<1> QED
  BY <1>1, <1>2, <1>3, <1>4

(* What enter() does when the semaphore is occupied, and when it is not.   *)
EnterTestEffect(t) ==
  /\ running = t /\ pc[t] = "test"
  /\ \/ /\ owner[sem[t]] \in Threads \ {t}
        /\ prio' = [prio EXCEPT ![owner[sem[t]]] =
             IF callerPrio[t] > prio[owner[sem[t]]] THEN callerPrio[t] ELSE prio[owner[sem[t]]]]
        /\ pc' = [pc EXCEPT ![t] = "while"]
     \/ /\ owner[sem[t]] \in {None, t} /\ prio' = prio /\ pc' = [pc EXCEPT ![t] = "own"]
  /\ UNCHANGED <<schedVars, threadVars, semVars, localVars, held, ghostVars>>

(* The effect of the step is that.                                         *)
LEMMA EnterTestCases ==
  ASSUME SemAlways, NEW t \in Threads, EnterTest(t)
  PROVE  EnterTestEffect(t)
<1> USE Basics DEF SemAlways, SemTypes, EnterTestEffect
<1>1. running = t /\ pc[t] = "test"
      /\ UNCHANGED <<schedVars, threadVars, semVars, localVars, held, ghostVars>>
  BY DEF EnterTest, Executes
<1>2. sem[t] \in Sems /\ owner[sem[t]] \in Threads \cup {None}
  BY <1>1 DEF FreePcs
<1>3. CASE OwnedByOther(t)
  <2>1. owner[sem[t]] \in Threads \ {t}
    BY <1>2, <1>3 DEF OwnedByOther
  <2>2. /\ pc' = [pc EXCEPT ![t] = "while"]
        /\ prio' = [prio EXCEPT ![owner[sem[t]]] = IF callerPrio[t] > @ THEN callerPrio[t] ELSE @]
    BY <1>3 DEF EnterTest, Goto
  <2> QED
    BY <1>1, <2>1, <2>2
<1>4. CASE ~OwnedByOther(t)
  <2>1. pc' = [pc EXCEPT ![t] = "own"] /\ prio' = prio
    BY <1>4 DEF EnterTest, Goto
  <2> QED
    BY <1>1, <1>2, <1>4, <2>1 DEF OwnedByOther
<1> QED
  BY <1>3, <1>4

(* leave() of a thread that is not the owner, of one that has entered more *)
(* than once, and the last one.                                            *)
LeaveEffect(t, s) ==
  /\ running = t /\ pc[t] = "run" /\ held[t][s] > 0
  /\ held' = [held EXCEPT ![t][s] = held[t][s] - 1]
  /\ \/ owner[s] # t /\ enterCnt' = enterCnt /\ sem' = sem /\ pc' = pc
     \/ /\ owner[s] = t /\ enterCnt' = [enterCnt EXCEPT ![s] = enterCnt[s] - 1]
        /\ \/ enterCnt[s] > 1 /\ sem' = sem /\ pc' = pc
           \/ enterCnt[s] <= 1 /\ sem' = [sem EXCEPT ![t] = s] /\ pc' = [pc EXCEPT ![t] = "leave"]
  /\ UNCHANGED <<schedVars, prio, threadVars, owner, ownerPrio, callerPrio, saved, waiter, ghostVars>>

(* The effect of the step is that.                                         *)
LEMMA LeaveCases ==
  ASSUME SemAlways, NEW t \in Threads, NEW s \in Sems, Leave(t, s)
  PROVE  LeaveEffect(t, s)
<1> USE Basics DEF SemAlways, SemTypes, LeaveEffect
<1>1. running = t /\ pc[t] = "run" /\ held[t][s] > 0
      /\ UNCHANGED <<schedVars, prio, threadVars, owner, ownerPrio, callerPrio, saved, waiter, ghostVars>>
  BY DEF Leave, Executes
<1>2. enterCnt[s] \in Int
  OBVIOUS
<1>3. held' = [held EXCEPT ![t][s] = held[t][s] - 1]
  BY DEF Leave
<1>4. CASE owner[s] # t
  BY <1>1, <1>3, <1>4 DEF Leave
<1>5. CASE owner[s] = t
  <2>1. enterCnt' = [enterCnt EXCEPT ![s] = enterCnt[s] - 1]
    BY <1>5 DEF Leave
  <2>2. CASE enterCnt[s] - 1 > 0
    <3>1. sem' = sem /\ pc' = pc
      BY <1>5, <2>2 DEF Leave
    <3> QED
      BY <1>1, <1>2, <1>3, <1>5, <2>1, <2>2, <3>1
  <2>3. CASE ~(enterCnt[s] - 1 > 0)
    <3>1. sem' = [sem EXCEPT ![t] = s] /\ pc' = [pc EXCEPT ![t] = "leave"]
      BY <1>5, <2>3 DEF Leave, Goto
    <3>2. enterCnt[s] <= 1
      BY <1>2, <2>3
    <3> QED
      BY <1>1, <1>3, <1>5, <2>1, <3>1, <3>2
  <2> QED
    BY <2>2, <2>3
<1> QED
  BY <1>4, <1>5

(* leave() finds the foremost thread that waits for the semaphore, if      *)
(* there is one.                                                           *)
LeaveFindEffect(t) ==
  /\ running = t /\ pc[t] = "find"
  /\ callerPrio' = [callerPrio EXCEPT ![t] = ownerPrio[sem[t]]]
  /\ ownerPrio' = [ownerPrio EXCEPT ![sem[t]] = 0]
  /\ \/ /\ \A u \in Threads : waitingFor[u] # sem[t]
        /\ waiter' = [waiter EXCEPT ![t] = None] /\ pc' = [pc EXCEPT ![t] = "endLeave"]
     \/ \E u \in Threads :
          /\ waitingFor[u] = sem[t]
          /\ \A v \in Threads \ {u} :
               waitingFor[v] = sem[t] /\ prio[v] = prio[u] => Activation(u) < Activation(v)
          /\ waiter' = [waiter EXCEPT ![t] = u] /\ pc' = [pc EXCEPT ![t] = "hand"]
  /\ UNCHANGED <<schedVars, prio, threadVars, owner, enterCnt, sem, saved, held, ghostVars>>

(* The effect of the step is that.                                         *)
LEMMA LeaveFindCases ==
  ASSUME SemAlways, NEW t \in Threads, LeaveFind(t)
  PROVE  LeaveFindEffect(t)
<1> USE Basics DEF SemAlways, SemTypes, LeaveFindEffect
<1>1. /\ running = t /\ pc[t] = "find"
      /\ callerPrio' = [callerPrio EXCEPT ![t] = ownerPrio[sem[t]]]
      /\ ownerPrio' = [ownerPrio EXCEPT ![sem[t]] = 0]
      /\ UNCHANGED <<schedVars, prio, threadVars, owner, enterCnt, sem, saved, held, ghostVars>>
  BY DEF LeaveFind, Executes
<1> DEFINE waiting == {u \in Threads : waitingFor[u] = sem[t]}
           found == FindNextWaitingFor(sem[t])
<1>2. IF waiting = {} THEN found = None
      ELSE /\ found \in waiting
           /\ \A v \in waiting \ {found} : prio[v] = prio[found] => Activation(found) < Activation(v)
  <2>1. waiting \in SUBSET All
    OBVIOUS
  <2>2. found = IF waiting = {} THEN None ELSE Foremost(waiting, prio)
    BY DEF FindNextWaitingFor
  <2> HIDE DEF waiting, found
  <2>3. waiting # {} =>
          /\ Foremost(waiting, prio) \in waiting
          /\ \A v \in waiting \ {Foremost(waiting, prio)} :
               prio[v] = prio[Foremost(waiting, prio)] => Activation(Foremost(waiting, prio)) < Activation(v)
    BY <2>1, ForemostIs
  <2> QED
    BY <2>2, <2>3
<1>3. /\ waiter' = [waiter EXCEPT ![t] = found]
      /\ pc' = [pc EXCEPT ![t] = IF found = None THEN "endLeave" ELSE "hand"]
  BY DEF LeaveFind, Goto
<1> HIDE DEF found
<1> QED
  BY <1>1, <1>2, <1>3

(* Types.                                                                  *)
LEMMA NextTypes ==
  ASSUME SemAlways, Next
  PROVE  SemTypes'
<1>a. SemTypes /\ Entries
  BY DEF SemAlways
<1> USE Basics, <1>a DEF SemTypes, Entries, EnterPcs, LeavePcs, FreePcs
<1>1. ASSUME NEW t \in Threads, EnterCeil(t) PROVE SemTypes'
  BY <1>1 DEF EnterCeil, BeginCeiler, Executes, Goto, schedVars, threadVars, semVars, ghostVars
<1>2. ASSUME NEW t \in Threads, EnterTest(t) PROVE SemTypes'
  <2>1. EnterTestEffect(t)
    BY <1>2, EnterTestCases
  <2>2. prio' = prio \/ \E o \in Threads, p \in 0..Ceiling : prio' = [prio EXCEPT ![o] = p]
    BY <2>1 DEF EnterTestEffect
  <2>3. prio' \in [All -> 0..Ceiling]
    BY <2>2, SMTT(20)
  <2>4. \E next \in {"while", "own"} : pc' = [pc EXCEPT ![t] = next]
    BY <2>1 DEF EnterTestEffect
  <2>5. pc' \in [All -> FreePcs \cup EnterPcs \cup LeavePcs]
    BY <2>4
  <2> QED
    BY <2>1, <2>3, <2>5 DEF EnterTestEffect, schedVars, threadVars, semVars, localVars, ghostVars
<1>3. ASSUME NEW t \in Threads, EnterWait(t) PROVE SemTypes'
  BY <1>3 DEF EnterWait, Suspend, OwnedByOther, Executes, Goto, schedVars, semVars, localVars, ghostVars
<1>4. ASSUME NEW t \in Threads, EnterWoken(t) PROVE SemTypes'
  BY <1>4 DEF EnterWoken, Executes, Goto, schedVars, semVars, localVars, ghostVars
<1>5. ASSUME NEW t \in Threads, EnterDone(t) PROVE SemTypes'
  <2>1. pc[t] = "while" /\ pc' = [pc EXCEPT ![t] = "own"] /\ enterCnt' = [enterCnt EXCEPT ![sem[t]] = 0]
    BY <1>5 DEF EnterDone, Executes, Goto
  <2>2. pc' \in [All -> FreePcs \cup EnterPcs \cup LeavePcs]
    BY <2>1
  <2>3. enterCnt' \in [Sems -> Int]
    <3>1. sem[t] \in Sems
      BY <2>1
    <3> QED
      BY <2>1, <3>1
  <2> QED
    BY <1>5, <2>2, <2>3 DEF EnterDone, schedVars, threadVars, localVars, ghostVars
<1>6. ASSUME NEW t \in Threads, EnterOwn(t) PROVE SemTypes'
  <2>1. /\ pc[t] = "own" /\ pc' = [pc EXCEPT ![t] = "endEnter"] /\ sem[t] \in Sems
        /\ enterCnt' = [enterCnt EXCEPT ![sem[t]] = enterCnt[sem[t]] + 1]
    BY <1>6 DEF EnterOwn, Executes, Goto
  <2>2. pc' \in [All -> FreePcs \cup EnterPcs \cup LeavePcs] /\ enterCnt' \in [Sems -> Int]
    BY <2>1
  <2>3. passed' \in [Threads -> SUBSET Threads]
    BY <1>6 DEF EnterOwn, Gets
  <2>4. owner' \in [Sems -> Threads \cup {None}] /\ ownerPrio' \in [Sems -> 0..Ceiling]
    BY <1>6 DEF EnterOwn
  <2> QED
    BY <1>6, <2>2, <2>3, <2>4 DEF EnterOwn, schedVars, threadVars, localVars
<1>7. ASSUME NEW t \in Threads, EnterEnd(t) PROVE SemTypes'
  <2>1. /\ pc[t] = "endEnter" /\ sem[t] \in Sems
        /\ held' = [held EXCEPT ![t][sem[t]] = held[t][sem[t]] + 1]
    BY <1>7 DEF EnterEnd, Executes
  <2>2. held[t][sem[t]] + 1 \in 0..MaxEnter
    BY <2>1
  <2>3. held' \in [All -> [Sems -> 0..MaxEnter]]
    BY <2>1, <2>2
  <2> QED
    BY <1>7, <2>3 DEF EnterEnd, EndCeiler, Executes, Goto, schedVars, threadVars, semVars, ghostVars
<1>8. ASSUME NEW t \in Threads, LeaveCeil(t) PROVE SemTypes'
  BY <1>8 DEF LeaveCeil, BeginCeiler, Executes, Goto, schedVars, threadVars, semVars, ghostVars
<1>9. ASSUME NEW t \in Threads, LeaveFree(t) PROVE SemTypes'
  BY <1>9 DEF LeaveFree, Executes, Goto, schedVars, threadVars, localVars, ghostVars
<1>10. ASSUME NEW t \in Threads, LeaveFind(t) PROVE SemTypes'
  <2>1. LeaveFindEffect(t)
    BY <1>10, LeaveFindCases
  <2>2. \E u \in Threads \cup {None}, next \in {"hand", "endLeave"} :
          waiter' = [waiter EXCEPT ![t] = u] /\ pc' = [pc EXCEPT ![t] = next]
    BY <2>1 DEF LeaveFindEffect
  <2>3. waiter' \in [All -> Threads \cup {None}]
    BY <2>2
  <2>4. pc' \in [All -> FreePcs \cup EnterPcs \cup LeavePcs]
    BY <2>2
  <2> QED
    BY <2>1, <2>3, <2>4 DEF LeaveFindEffect, schedVars, threadVars, ghostVars
<1>11. ASSUME NEW t \in Threads, LeaveHand(t) PROVE SemTypes'
  BY <1>11 DEF LeaveHand, Executes, Goto, Gets, schedVars, localVars
<1>12. ASSUME NEW t \in Threads, LeaveEnd(t) PROVE SemTypes'
  BY <1>12 DEF LeaveEnd, EndCeiler, Executes, Goto, schedVars, threadVars, semVars, ghostVars
<1>13. ASSUME NEW t \in Threads, LeaveRestore(t) PROVE SemTypes'
  BY <1>13 DEF LeaveRestore, Executes, Goto, schedVars, threadVars, semVars, localVars, ghostVars
<1>14. ASSUME NEW t \in Threads, LeaveReturn(t) PROVE SemTypes'
  BY <1>14 DEF LeaveReturn, Executes, Goto, schedVars, threadVars, semVars, ghostVars
<1>15. ASSUME NEW t \in Threads, Sleep(t) PROVE SemTypes'
  BY <1>15 DEF Sleep, BeginCeiler, Suspend, Executes, Goto, schedVars, semVars, ghostVars
<1>16. ASSUME NEW t \in Threads, SleepScopeEnd(t) PROVE SemTypes'
  BY <1>16 DEF SleepScopeEnd, EndCeiler, Executes, Goto, schedVars, threadVars, semVars, ghostVars
<1>17. ASSUME NEW t \in Threads, TimeReached(t) PROVE SemTypes'
  BY <1>17 DEF TimeReached, Expire, schedVars, semVars, ghostVars
<1>18. ASSUME NEW t \in Threads, NEW s \in Sems, Enter(t, s) PROVE SemTypes'
  BY <1>18 DEF Enter, Executes, Goto, schedVars, threadVars, semVars
<1>19. ASSUME NEW t \in Threads, NEW s \in Sems, Leave(t, s) PROVE SemTypes'
  <2>1. LeaveEffect(t, s)
    BY <1>19, LeaveCases
  <2>2. held[t][s] - 1 \in 0..MaxEnter
    BY <2>1 DEF LeaveEffect
  <2>3. held' \in [All -> [Sems -> 0..MaxEnter]]
    BY <2>1, <2>2 DEF LeaveEffect
  <2>4. enterCnt' \in [Sems -> Int]
    BY <2>1 DEF LeaveEffect
  <2>5. pc' \in [All -> FreePcs \cup EnterPcs \cup LeavePcs]
    BY <2>1 DEF LeaveEffect
  <2>6. sem' = sem \/ sem' = [sem EXCEPT ![t] = s]
    BY <2>1 DEF LeaveEffect
  <2>7. sem' \in [All -> Sems \cup {None}]
    BY <2>6, SMTT(20)
  <2> QED
    BY <2>1, <2>3, <2>4, <2>5, <2>7 DEF LeaveEffect, schedVars, threadVars, ghostVars
<1>20. ASSUME Dispatch PROVE SemTypes'
  <2>1. pc' = pc \/ \E next \in {"run", "blocked"} : pc' = [pc EXCEPT ![running] = next]
    BY <1>20 DEF Dispatch
  <2>3. pc' \in [All -> FreePcs \cup EnterPcs \cup LeavePcs]
    BY <2>1
  <2>4. cut' \subseteq Threads
    BY <1>20 DEF Dispatch
  <2>2. overtaken' \in BOOLEAN
    BY <1>20 DEF Dispatch, Scheduled
  <2> QED
    BY <1>20, <2>2, <2>3, <2>4 DEF Dispatch, Chooses
<1> QED
  BY <1>1, <1>2, <1>3, <1>4, <1>5, <1>6, <1>7, <1>8, <1>9, <1>10, <1>11, <1>12, <1>13, <1>14, <1>15,
       <1>16, <1>17, <1>18, <1>19, <1>20, DispatchCases
     DEF Next, EnterStep, LeaveStep

(* What a thread needs to go on.                                           *)
LEMMA NextEntries ==
  ASSUME SemAlways, Next
  PROVE  Entries'
<1>a. SemTypes /\ Entries
  BY DEF SemAlways
<1> USE Basics, <1>a DEF SemTypes, Entries, EnterPcs, LeavePcs, FreePcs
<1>1. ASSUME NEW t \in Threads, EnterCeil(t) PROVE Entries'
  BY <1>1 DEF EnterCeil, BeginCeiler, Executes, Goto, schedVars, threadVars, semVars, ghostVars
<1>2. ASSUME NEW t \in Threads, EnterTest(t) PROVE Entries'
  <2>1. EnterTestEffect(t)
    BY <1>2, EnterTestCases
  <2> QED
    BY <2>1 DEF EnterTestEffect, schedVars, threadVars, semVars, localVars, ghostVars
<1>3. ASSUME NEW t \in Threads, EnterWait(t) PROVE Entries'
  BY <1>3 DEF EnterWait, Suspend, OwnedByOther, Executes, Goto, schedVars, semVars, localVars, ghostVars
<1>4. ASSUME NEW t \in Threads, EnterWoken(t) PROVE Entries'
  BY <1>4 DEF EnterWoken, Executes, Goto, schedVars, semVars, localVars, ghostVars
<1>5. ASSUME NEW t \in Threads, EnterDone(t) PROVE Entries'
  BY <1>5 DEF EnterDone, OwnedByOther, Executes, Goto, schedVars, threadVars, localVars, ghostVars
<1>6. ASSUME NEW t \in Threads, EnterOwn(t) PROVE Entries'
  BY <1>6 DEF EnterOwn, Executes, Goto, Gets, schedVars, threadVars, localVars
<1>7. ASSUME NEW t \in Threads, EnterEnd(t) PROVE Entries'
  BY <1>7 DEF EnterEnd, EndCeiler, Executes, Goto, schedVars, threadVars, semVars, ghostVars
<1>8. ASSUME NEW t \in Threads, LeaveCeil(t) PROVE Entries'
  BY <1>8 DEF LeaveCeil, BeginCeiler, Executes, Goto, schedVars, threadVars, semVars, ghostVars
<1>9. ASSUME NEW t \in Threads, LeaveFree(t) PROVE Entries'
  BY <1>9 DEF LeaveFree, Executes, Goto, schedVars, threadVars, localVars, ghostVars
<1>10. ASSUME NEW t \in Threads, LeaveFind(t) PROVE Entries'
  <2>1. LeaveFindEffect(t)
    BY <1>10, LeaveFindCases
  <2>2. \/ pc' = [pc EXCEPT ![t] = "endLeave"]
        \/ pc' = [pc EXCEPT ![t] = "hand"] /\ \E u \in Threads : waiter' = [waiter EXCEPT ![t] = u]
    BY <2>1 DEF LeaveFindEffect
  <2>3. pc'[t] \notin EnterPcs /\ (pc'[t] = "hand" => waiter'[t] \in Threads)
    BY <2>2
  <2>4. \A u \in All \ {t} : pc'[u] = pc[u] /\ waiter'[u] = waiter[u]
    BY <2>1, <2>2 DEF LeaveFindEffect
  <2> QED
    BY <2>1, <2>3, <2>4 DEF LeaveFindEffect
<1>11. ASSUME NEW t \in Threads, LeaveHand(t) PROVE Entries'
  BY <1>11 DEF LeaveHand, Executes, Goto, Gets, schedVars, localVars
<1>12. ASSUME NEW t \in Threads, LeaveEnd(t) PROVE Entries'
  BY <1>12 DEF LeaveEnd, EndCeiler, Executes, Goto, schedVars, threadVars, semVars, ghostVars
<1>13. ASSUME NEW t \in Threads, LeaveRestore(t) PROVE Entries'
  BY <1>13 DEF LeaveRestore, Executes, Goto, schedVars, threadVars, semVars, localVars, ghostVars
<1>14. ASSUME NEW t \in Threads, LeaveReturn(t) PROVE Entries'
  BY <1>14 DEF LeaveReturn, Executes, Goto, schedVars, threadVars, semVars, ghostVars
<1>15. ASSUME NEW t \in Threads, Sleep(t) PROVE Entries'
  BY <1>15 DEF Sleep, BeginCeiler, Suspend, Executes, Goto, schedVars, semVars, ghostVars
<1>16. ASSUME NEW t \in Threads, SleepScopeEnd(t) PROVE Entries'
  BY <1>16 DEF SleepScopeEnd, EndCeiler, Executes, Goto, schedVars, threadVars, semVars, ghostVars
<1>17. ASSUME NEW t \in Threads, TimeReached(t) PROVE Entries'
  BY <1>17 DEF TimeReached, Expire, schedVars, semVars, ghostVars
<1>18. ASSUME NEW t \in Threads, NEW s \in Sems, Enter(t, s) PROVE Entries'
  <2>1. held[t][s] < MaxEnter
    BY <1>18 DEF Enter
  <2> QED
    BY <1>18, <2>1 DEF Enter, Executes, Goto, schedVars, threadVars, semVars
<1>19. ASSUME NEW t \in Threads, NEW s \in Sems, Leave(t, s) PROVE Entries'
  <2>1. LeaveEffect(t, s)
    BY <1>19, LeaveCases
  <2>2. pc'[t] \notin EnterPcs \cup {"hand"}
        /\ \A u \in All \ {t} : pc'[u] = pc[u] /\ held'[u] = held[u] /\ sem'[u] = sem[u]
    BY <2>1 DEF LeaveEffect
  <2> QED
    BY <2>1, <2>2 DEF LeaveEffect
<1>20. ASSUME Dispatch PROVE Entries'
  BY <1>20 DEF Dispatch, Chooses
<1> QED
  BY <1>1, <1>2, <1>3, <1>4, <1>5, <1>6, <1>7, <1>8, <1>9, <1>10, <1>11, <1>12, <1>13, <1>14, <1>15,
       <1>16, <1>17, <1>18, <1>19, <1>20, DispatchCases
     DEF Next, EnterStep, LeaveStep

(* Only a thread inside a scope has the ceiling priority.                  *)
LEMMA NextCeilings ==
  ASSUME SemAlways, Next
  PROVE  Ceilings'
<1>a. SemTypes /\ Ceilings
  BY DEF SemAlways
<1> USE Basics, <1>a DEF SemTypes, Ceilings, EnterPcs, LeavePcs, FreePcs, CeilerPcs
<1>1. ASSUME NEW t \in Threads, EnterCeil(t) PROVE Ceilings'
  BY <1>1 DEF EnterCeil, BeginCeiler, Executes, Goto, schedVars, threadVars, semVars, ghostVars
<1>2. ASSUME NEW t \in Threads, EnterTest(t) PROVE Ceilings'
  <2>1. EnterTestEffect(t)
    BY <1>2, EnterTestCases
  <2>2. CASE owner[sem[t]] \in Threads \ {t}
    <3>1. /\ prio' = [prio EXCEPT ![owner[sem[t]]] =
               IF callerPrio[t] > prio[owner[sem[t]]] THEN callerPrio[t] ELSE prio[owner[sem[t]]]]
          /\ pc' = [pc EXCEPT ![t] = "while"] /\ pc[t] = "test"
      BY <2>1, <2>2 DEF EnterTestEffect
    <3>2. callerPrio[t] < Ceiling
      OBVIOUS
    <3> QED
      BY <2>1, <2>2, <3>1, <3>2 DEF EnterTestEffect, semVars, localVars
  <2>3. CASE owner[sem[t]] \in {None, t}
    BY <2>1, <2>3 DEF EnterTestEffect, semVars, localVars
  <2> QED
    BY <2>1, <2>2, <2>3 DEF EnterTestEffect
<1>3. ASSUME NEW t \in Threads, EnterWait(t) PROVE Ceilings'
  BY <1>3 DEF EnterWait, Suspend, OwnedByOther, Executes, Goto, schedVars, semVars, localVars, ghostVars
<1>4. ASSUME NEW t \in Threads, EnterWoken(t) PROVE Ceilings'
  BY <1>4 DEF EnterWoken, Executes, Goto, schedVars, semVars, localVars, ghostVars
<1>5. ASSUME NEW t \in Threads, EnterDone(t) PROVE Ceilings'
  BY <1>5 DEF EnterDone, OwnedByOther, Executes, Goto, schedVars, threadVars, localVars, ghostVars
<1>6. ASSUME NEW t \in Threads, EnterOwn(t) PROVE Ceilings'
  BY <1>6 DEF EnterOwn, Executes, Goto, Gets, schedVars, threadVars, localVars
<1>7. ASSUME NEW t \in Threads, EnterEnd(t) PROVE Ceilings'
  BY <1>7 DEF EnterEnd, EndCeiler, Executes, Goto, schedVars, threadVars, semVars, ghostVars
<1>8. ASSUME NEW t \in Threads, LeaveCeil(t) PROVE Ceilings'
  BY <1>8 DEF LeaveCeil, BeginCeiler, Executes, Goto, schedVars, threadVars, semVars, ghostVars
<1>9. ASSUME NEW t \in Threads, LeaveFree(t) PROVE Ceilings'
  BY <1>9 DEF LeaveFree, Executes, Goto, schedVars, threadVars, localVars, ghostVars
<1>10. ASSUME NEW t \in Threads, LeaveFind(t) PROVE Ceilings'
  <2>1. LeaveFindEffect(t)
    BY <1>10, LeaveFindCases
  <2> QED
    BY <2>1, SMTT(20) DEF LeaveFindEffect, schedVars, threadVars, ghostVars
<1>11. ASSUME NEW t \in Threads, LeaveHand(t) PROVE Ceilings'
  BY <1>11 DEF LeaveHand, Executes, Goto, Gets, schedVars, localVars
<1>12. ASSUME NEW t \in Threads, LeaveEnd(t) PROVE Ceilings'
  BY <1>12 DEF LeaveEnd, EndCeiler, Executes, Goto, schedVars, threadVars, semVars, ghostVars
<1>13. ASSUME NEW t \in Threads, LeaveRestore(t) PROVE Ceilings'
  BY <1>13 DEF LeaveRestore, Executes, Goto, schedVars, threadVars, semVars, localVars, ghostVars
<1>14. ASSUME NEW t \in Threads, LeaveReturn(t) PROVE Ceilings'
  BY <1>14 DEF LeaveReturn, Executes, Goto, schedVars, threadVars, semVars, ghostVars
<1>15. ASSUME NEW t \in Threads, Sleep(t) PROVE Ceilings'
  BY <1>15 DEF Sleep, BeginCeiler, Suspend, Executes, Goto, schedVars, semVars, ghostVars
<1>16. ASSUME NEW t \in Threads, SleepScopeEnd(t) PROVE Ceilings'
  BY <1>16 DEF SleepScopeEnd, EndCeiler, Executes, Goto, schedVars, threadVars, semVars, ghostVars
<1>17. ASSUME NEW t \in Threads, TimeReached(t) PROVE Ceilings'
  BY <1>17 DEF TimeReached, Expire, schedVars, semVars, ghostVars
<1>18. ASSUME NEW t \in Threads, NEW s \in Sems, Enter(t, s) PROVE Ceilings'
  BY <1>18 DEF Enter, Executes, Goto, schedVars, threadVars, semVars
<1>19. ASSUME NEW t \in Threads, NEW s \in Sems, Leave(t, s) PROVE Ceilings'
  <2>1. LeaveEffect(t, s)
    BY <1>19, LeaveCases
  <2>2. pc'[t] \notin CeilerPcs /\ pc[t] \notin CeilerPcs /\ \A u \in All \ {t} : pc'[u] = pc[u]
    BY <2>1 DEF LeaveEffect
  <2> QED
    BY <2>1, <2>2 DEF LeaveEffect, schedVars, threadVars, ghostVars
<1>20. ASSUME Dispatch PROVE Ceilings'
  <2>1. \A t \in All : pc'[t] \in CeilerPcs <=> pc[t] \in CeilerPcs
    BY <1>20 DEF Dispatch
  <2> QED
    BY <1>20, <2>1 DEF Dispatch
<1> QED
  BY <1>1, <1>2, <1>3, <1>4, <1>5, <1>6, <1>7, <1>8, <1>9, <1>10, <1>11, <1>12, <1>13, <1>14, <1>15,
       <1>16, <1>17, <1>18, <1>19, <1>20, DispatchCases
     DEF Next, EnterStep, LeaveStep

(* Who is suspended stays where it is until it is resumed.                 *)
LEMMA NextSuspensions ==
  ASSUME SemAlways, Next
  PROVE  Suspensions'
<1>a. SemTypes /\ Entries /\ Suspensions /\ Yields
  BY DEF SemAlways
<1> USE Basics, <1>a DEF SemTypes, Entries, Suspensions, Yields, YieldPcs, EnterPcs, LeavePcs, FreePcs
<1>1. ASSUME NEW t \in Threads, EnterCeil(t) PROVE Suspensions'
  BY <1>1 DEF EnterCeil, BeginCeiler, Executes, Goto, schedVars, threadVars, semVars, ghostVars
<1>2. ASSUME NEW t \in Threads, EnterTest(t) PROVE Suspensions'
  <2>1. EnterTestEffect(t)
    BY <1>2, EnterTestCases
  <2>2. \E next \in {"while", "own"} : pc' = [pc EXCEPT ![t] = next]
    BY <2>1 DEF EnterTestEffect
  <2>3. susp' = susp /\ waitingFor' = waitingFor /\ sem' = sem /\ pc[t] = "test"
    BY <2>1 DEF EnterTestEffect, threadVars, localVars
  <2> QED
    BY <2>2, <2>3
<1>3. ASSUME NEW t \in Threads, EnterWait(t) PROVE Suspensions'
  BY <1>3 DEF EnterWait, Suspend, OwnedByOther, Executes, Goto, schedVars, semVars, localVars, ghostVars
<1>4. ASSUME NEW t \in Threads, EnterWoken(t) PROVE Suspensions'
  BY <1>4 DEF EnterWoken, Executes, Goto, schedVars, semVars, localVars, ghostVars
<1>5. ASSUME NEW t \in Threads, EnterDone(t) PROVE Suspensions'
  BY <1>5 DEF EnterDone, OwnedByOther, Executes, Goto, schedVars, threadVars, localVars, ghostVars
<1>6. ASSUME NEW t \in Threads, EnterOwn(t) PROVE Suspensions'
  BY <1>6 DEF EnterOwn, Executes, Goto, Gets, schedVars, threadVars, localVars
<1>7. ASSUME NEW t \in Threads, EnterEnd(t) PROVE Suspensions'
  BY <1>7 DEF EnterEnd, EndCeiler, Executes, Goto, schedVars, threadVars, semVars, ghostVars
<1>8. ASSUME NEW t \in Threads, LeaveCeil(t) PROVE Suspensions'
  BY <1>8 DEF LeaveCeil, BeginCeiler, Executes, Goto, schedVars, threadVars, semVars, ghostVars
<1>9. ASSUME NEW t \in Threads, LeaveFree(t) PROVE Suspensions'
  BY <1>9 DEF LeaveFree, Executes, Goto, schedVars, threadVars, localVars, ghostVars
<1>10. ASSUME NEW t \in Threads, LeaveFind(t) PROVE Suspensions'
  <2>1. LeaveFindEffect(t)
    BY <1>10, LeaveFindCases
  <2> QED
    BY <2>1 DEF LeaveFindEffect, schedVars, threadVars, ghostVars
<1>11. ASSUME NEW t \in Threads, LeaveHand(t) PROVE Suspensions'
  BY <1>11 DEF LeaveHand, Executes, Goto, Gets, schedVars, localVars
<1>12. ASSUME NEW t \in Threads, LeaveEnd(t) PROVE Suspensions'
  BY <1>12 DEF LeaveEnd, EndCeiler, Executes, Goto, schedVars, threadVars, semVars, ghostVars
<1>13. ASSUME NEW t \in Threads, LeaveRestore(t) PROVE Suspensions'
  BY <1>13 DEF LeaveRestore, Executes, Goto, schedVars, threadVars, semVars, localVars, ghostVars
<1>14. ASSUME NEW t \in Threads, LeaveReturn(t) PROVE Suspensions'
  BY <1>14 DEF LeaveReturn, Executes, Goto, schedVars, threadVars, semVars, ghostVars
<1>15. ASSUME NEW t \in Threads, Sleep(t) PROVE Suspensions'
  BY <1>15 DEF Sleep, BeginCeiler, Suspend, Executes, Goto, schedVars, semVars, ghostVars
<1>16. ASSUME NEW t \in Threads, SleepScopeEnd(t) PROVE Suspensions'
  BY <1>16 DEF SleepScopeEnd, EndCeiler, Executes, Goto, schedVars, threadVars, semVars, ghostVars
<1>17. ASSUME NEW t \in Threads, TimeReached(t) PROVE Suspensions'
  BY <1>17 DEF TimeReached, Expire, schedVars, semVars, ghostVars
<1>18. ASSUME NEW t \in Threads, NEW s \in Sems, Enter(t, s) PROVE Suspensions'
  BY <1>18 DEF Enter, Executes, Goto, schedVars, threadVars, semVars
<1>19. ASSUME NEW t \in Threads, NEW s \in Sems, Leave(t, s) PROVE Suspensions'
  <2>1. LeaveEffect(t, s)
    BY <1>19, LeaveCases
  <2> QED
    BY <2>1 DEF LeaveEffect, schedVars, threadVars, ghostVars
<1>20. ASSUME Dispatch PROVE Suspensions'
  BY <1>20 DEF Dispatch
<1> QED
  BY <1>1, <1>2, <1>3, <1>4, <1>5, <1>6, <1>7, <1>8, <1>9, <1>10, <1>11, <1>12, <1>13, <1>14, <1>15,
       <1>16, <1>17, <1>18, <1>19, <1>20, DispatchCases
     DEF Next, EnterStep, LeaveStep

(* A preselected thread is ready, and one that suspends itself is not cut. *)
LEMMA NextSelected ==
  ASSUME SemAlways, Next
  PROVE  Selected' /\ Yields'
<1>a. SemTypes /\ Entries /\ Selected /\ Yields
  BY DEF SemAlways
<1> USE Basics, <1>a DEF SemTypes, Entries, Selected, Yields, YieldPcs, EnterPcs, LeavePcs, FreePcs
<1>1. ASSUME NEW t \in Threads, EnterCeil(t) PROVE Selected' /\ Yields'
  BY <1>1 DEF EnterCeil, BeginCeiler, Executes, Goto, schedVars, threadVars, semVars, ghostVars
<1>2. ASSUME NEW t \in Threads, EnterTest(t) PROVE Selected' /\ Yields'
  <2>1. EnterTestEffect(t)
    BY <1>2, EnterTestCases
  <2> QED
    BY <2>1 DEF EnterTestEffect, schedVars, threadVars, semVars, localVars, ghostVars
<1>3. ASSUME NEW t \in Threads, EnterWait(t) PROVE Selected' /\ Yields'
  BY <1>3 DEF EnterWait, Suspend, OwnedByOther, Executes, Goto, schedVars, semVars, localVars, ghostVars
<1>4. ASSUME NEW t \in Threads, EnterWoken(t) PROVE Selected' /\ Yields'
  BY <1>4 DEF EnterWoken, Executes, Goto, schedVars, semVars, localVars, ghostVars
<1>5. ASSUME NEW t \in Threads, EnterDone(t) PROVE Selected' /\ Yields'
  BY <1>5 DEF EnterDone, OwnedByOther, Executes, Goto, schedVars, threadVars, localVars, ghostVars
<1>6. ASSUME NEW t \in Threads, EnterOwn(t) PROVE Selected' /\ Yields'
  BY <1>6 DEF EnterOwn, Executes, Goto, Gets, schedVars, threadVars, localVars
<1>7. ASSUME NEW t \in Threads, EnterEnd(t) PROVE Selected' /\ Yields'
  BY <1>7 DEF EnterEnd, EndCeiler, Executes, Goto, schedVars, threadVars, semVars, ghostVars
<1>8. ASSUME NEW t \in Threads, LeaveCeil(t) PROVE Selected' /\ Yields'
  BY <1>8 DEF LeaveCeil, BeginCeiler, Executes, Goto, schedVars, threadVars, semVars, ghostVars
<1>9. ASSUME NEW t \in Threads, LeaveFree(t) PROVE Selected' /\ Yields'
  BY <1>9 DEF LeaveFree, Executes, Goto, schedVars, threadVars, localVars, ghostVars
<1>10. ASSUME NEW t \in Threads, LeaveFind(t) PROVE Selected' /\ Yields'
  <2>1. LeaveFindEffect(t)
    BY <1>10, LeaveFindCases
  <2> QED
    BY <2>1 DEF LeaveFindEffect, schedVars, threadVars, ghostVars
<1>11. ASSUME NEW t \in Threads, LeaveHand(t) PROVE Selected' /\ Yields'
  BY <1>11 DEF LeaveHand, Executes, Goto, Gets, schedVars, localVars
<1>12. ASSUME NEW t \in Threads, LeaveEnd(t) PROVE Selected' /\ Yields'
  BY <1>12 DEF LeaveEnd, EndCeiler, Executes, Goto, schedVars, threadVars, semVars, ghostVars
<1>13. ASSUME NEW t \in Threads, LeaveRestore(t) PROVE Selected' /\ Yields'
  BY <1>13 DEF LeaveRestore, Executes, Goto, schedVars, threadVars, semVars, localVars, ghostVars
<1>14. ASSUME NEW t \in Threads, LeaveReturn(t) PROVE Selected' /\ Yields'
  BY <1>14 DEF LeaveReturn, Executes, Goto, schedVars, threadVars, semVars, ghostVars
<1>15. ASSUME NEW t \in Threads, Sleep(t) PROVE Selected' /\ Yields'
  BY <1>15 DEF Sleep, BeginCeiler, Suspend, Executes, Goto, schedVars, semVars, ghostVars
<1>16. ASSUME NEW t \in Threads, SleepScopeEnd(t) PROVE Selected' /\ Yields'
  BY <1>16 DEF SleepScopeEnd, EndCeiler, Executes, Goto, schedVars, threadVars, semVars, ghostVars
<1>17. ASSUME NEW t \in Threads, TimeReached(t) PROVE Selected' /\ Yields'
  BY <1>17 DEF TimeReached, Expire, schedVars, semVars, ghostVars
<1>18. ASSUME NEW t \in Threads, NEW s \in Sems, Enter(t, s) PROVE Selected' /\ Yields'
  BY <1>18 DEF Enter, Executes, Goto, schedVars, threadVars, semVars
<1>19. ASSUME NEW t \in Threads, NEW s \in Sems, Leave(t, s) PROVE Selected' /\ Yields'
  <2>1. LeaveEffect(t, s)
    BY <1>19, LeaveCases
  <2> QED
    BY <2>1 DEF LeaveEffect, schedVars, threadVars, ghostVars
<1>20. ASSUME Dispatch PROVE Selected' /\ Yields'
  BY <1>20 DEF Dispatch, Chooses
<1> QED
  BY <1>1, <1>2, <1>3, <1>4, <1>5, <1>6, <1>7, <1>8, <1>9, <1>10, <1>11, <1>12, <1>13, <1>14, <1>15,
       <1>16, <1>17, <1>18, <1>19, <1>20, DispatchCases
     DEF Next, EnterStep, LeaveStep

(* Nobody passes a thread that does not wait.                              *)
LEMMA NextUnpassed ==
  ASSUME SemAlways, Next
  PROVE  Unpassed'
<1>a. SemTypes /\ Entries /\ Suspensions /\ Yields /\ Unpassed
  BY DEF SemAlways
<1> USE Basics, <1>a DEF SemTypes, Entries, Suspensions, Yields, YieldPcs, Unpassed, EnterPcs, LeavePcs, FreePcs
<1>1. ASSUME NEW t \in Threads, EnterCeil(t) PROVE Unpassed'
  BY <1>1 DEF EnterCeil, BeginCeiler, Executes, Goto, schedVars, threadVars, semVars, ghostVars
<1>2. ASSUME NEW t \in Threads, EnterTest(t) PROVE Unpassed'
  <2>1. EnterTestEffect(t)
    BY <1>2, EnterTestCases
  <2> QED
    BY <2>1 DEF EnterTestEffect, schedVars, threadVars, semVars, localVars, ghostVars
<1>3. ASSUME NEW t \in Threads, EnterWait(t) PROVE Unpassed'
  BY <1>3 DEF EnterWait, Suspend, OwnedByOther, Executes, Goto, schedVars, semVars, localVars, ghostVars
<1>4. ASSUME NEW t \in Threads, EnterWoken(t) PROVE Unpassed'
  BY <1>4 DEF EnterWoken, Executes, Goto, schedVars, semVars, localVars, ghostVars
<1>5. ASSUME NEW t \in Threads, EnterDone(t) PROVE Unpassed'
  BY <1>5 DEF EnterDone, OwnedByOther, Executes, Goto, schedVars, threadVars, localVars, ghostVars
<1>6. ASSUME NEW t \in Threads, EnterOwn(t) PROVE Unpassed'
  BY <1>6 DEF EnterOwn, Executes, Goto, Gets, schedVars, threadVars, localVars
<1>7. ASSUME NEW t \in Threads, EnterEnd(t) PROVE Unpassed'
  BY <1>7 DEF EnterEnd, EndCeiler, Executes, Goto, schedVars, threadVars, semVars, ghostVars
<1>8. ASSUME NEW t \in Threads, LeaveCeil(t) PROVE Unpassed'
  BY <1>8 DEF LeaveCeil, BeginCeiler, Executes, Goto, schedVars, threadVars, semVars, ghostVars
<1>9. ASSUME NEW t \in Threads, LeaveFree(t) PROVE Unpassed'
  BY <1>9 DEF LeaveFree, Executes, Goto, schedVars, threadVars, localVars, ghostVars
<1>10. ASSUME NEW t \in Threads, LeaveFind(t) PROVE Unpassed'
  <2>1. LeaveFindEffect(t)
    BY <1>10, LeaveFindCases
  <2> QED
    BY <2>1 DEF LeaveFindEffect, schedVars, threadVars, ghostVars
<1>11. ASSUME NEW t \in Threads, LeaveHand(t) PROVE Unpassed'
  BY <1>11 DEF LeaveHand, Executes, Goto, Gets, schedVars, localVars
<1>12. ASSUME NEW t \in Threads, LeaveEnd(t) PROVE Unpassed'
  BY <1>12 DEF LeaveEnd, EndCeiler, Executes, Goto, schedVars, threadVars, semVars, ghostVars
<1>13. ASSUME NEW t \in Threads, LeaveRestore(t) PROVE Unpassed'
  BY <1>13 DEF LeaveRestore, Executes, Goto, schedVars, threadVars, semVars, localVars, ghostVars
<1>14. ASSUME NEW t \in Threads, LeaveReturn(t) PROVE Unpassed'
  BY <1>14 DEF LeaveReturn, Executes, Goto, schedVars, threadVars, semVars, ghostVars
<1>15. ASSUME NEW t \in Threads, Sleep(t) PROVE Unpassed'
  BY <1>15 DEF Sleep, BeginCeiler, Suspend, Executes, Goto, schedVars, semVars, ghostVars
<1>16. ASSUME NEW t \in Threads, SleepScopeEnd(t) PROVE Unpassed'
  BY <1>16 DEF SleepScopeEnd, EndCeiler, Executes, Goto, schedVars, threadVars, semVars, ghostVars
<1>17. ASSUME NEW t \in Threads, TimeReached(t) PROVE Unpassed'
  BY <1>17 DEF TimeReached, Expire, schedVars, semVars, ghostVars
<1>18. ASSUME NEW t \in Threads, NEW s \in Sems, Enter(t, s) PROVE Unpassed'
  BY <1>18 DEF Enter, Executes, Goto, schedVars, threadVars, semVars
<1>19. ASSUME NEW t \in Threads, NEW s \in Sems, Leave(t, s) PROVE Unpassed'
  <2>1. LeaveEffect(t, s)
    BY <1>19, LeaveCases
  <2> QED
    BY <2>1 DEF LeaveEffect, schedVars, threadVars, ghostVars
<1>20. ASSUME Dispatch PROVE Unpassed'
  BY <1>20 DEF Dispatch
<1> QED
  BY <1>1, <1>2, <1>3, <1>4, <1>5, <1>6, <1>7, <1>8, <1>9, <1>10, <1>11, <1>12, <1>13, <1>14, <1>15,
       <1>16, <1>17, <1>18, <1>19, <1>20, DispatchCases
     DEF Next, EnterStep, LeaveStep

(* The list of activations stays one.                                      *)
LEMMA NextList ==
  ASSUME SemAlways, Next
  PROVE  ListOK'
<1>a. ListOK
  BY DEF SemAlways
<1>b. ASSUME UNCHANGED schedVars PROVE ListOK'
  BY <1>a, <1>b DEF schedVars, ListOK
<1>1. ASSUME NEW t \in Threads, EnterCeil(t) PROVE ListOK'
  BY <1>1, <1>b DEF EnterCeil
<1>2. ASSUME NEW t \in Threads, EnterTest(t) PROVE ListOK'
  BY <1>2, <1>b DEF EnterTest
<1>3. ASSUME NEW t \in Threads, EnterWait(t) PROVE ListOK'
  BY <1>3, <1>b DEF EnterWait
<1>4. ASSUME NEW t \in Threads, EnterWoken(t) PROVE ListOK'
  BY <1>4, <1>b DEF EnterWoken
<1>5. ASSUME NEW t \in Threads, EnterDone(t) PROVE ListOK'
  BY <1>5, <1>b DEF EnterDone
<1>6. ASSUME NEW t \in Threads, EnterOwn(t) PROVE ListOK'
  BY <1>6, <1>b DEF EnterOwn
<1>7. ASSUME NEW t \in Threads, EnterEnd(t) PROVE ListOK'
  BY <1>7, <1>b DEF EnterEnd
<1>8. ASSUME NEW t \in Threads, LeaveCeil(t) PROVE ListOK'
  BY <1>8, <1>b DEF LeaveCeil
<1>9. ASSUME NEW t \in Threads, LeaveFree(t) PROVE ListOK'
  BY <1>9, <1>b DEF LeaveFree
<1>10. ASSUME NEW t \in Threads, LeaveFind(t) PROVE ListOK'
  BY <1>10, <1>b DEF LeaveFind
<1>11. ASSUME NEW t \in Threads, LeaveHand(t) PROVE ListOK'
  BY <1>11, <1>b DEF LeaveHand
<1>12. ASSUME NEW t \in Threads, LeaveEnd(t) PROVE ListOK'
  BY <1>12, <1>b DEF LeaveEnd
<1>13. ASSUME NEW t \in Threads, LeaveRestore(t) PROVE ListOK'
  BY <1>13, <1>b DEF LeaveRestore
<1>14. ASSUME NEW t \in Threads, LeaveReturn(t) PROVE ListOK'
  BY <1>14, <1>b DEF LeaveReturn
<1>15. ASSUME NEW t \in Threads, Sleep(t) PROVE ListOK'
  BY <1>15, <1>b DEF Sleep
<1>16. ASSUME NEW t \in Threads, SleepScopeEnd(t) PROVE ListOK'
  BY <1>16, <1>b DEF SleepScopeEnd
<1>17. ASSUME NEW t \in Threads, TimeReached(t) PROVE ListOK'
  BY <1>17, <1>b DEF TimeReached, Expire
<1>18. ASSUME NEW t \in Threads, NEW s \in Sems, Enter(t, s) PROVE ListOK'
  BY <1>18, <1>b DEF Enter
<1>19. ASSUME NEW t \in Threads, NEW s \in Sems, Leave(t, s) PROVE ListOK'
  BY <1>19, <1>b DEF Leave
<1>20. ASSUME Dispatch PROVE ListOK'
  BY <1>20 DEF Dispatch, Chooses
<1> QED
  BY <1>1, <1>2, <1>3, <1>4, <1>5, <1>6, <1>7, <1>8, <1>9, <1>10, <1>11, <1>12, <1>13, <1>14, <1>15,
       <1>16, <1>17, <1>18, <1>19, <1>20, DispatchCases
     DEF Next, EnterStep, LeaveStep

-----------------------------------------------------------------------------
(* What holds as long as no thread within its ceiler was overtaken.        *)

(* What a thread inside enter() or leave() knows of the semaphore.         *)
OwnerKnown(t) ==
  /\ pc[t] \in {"waitYield", "blocked"} /\ susp[t] = "no" => owner[sem[t]] = t
  /\ pc[t] \in {"endEnter", "leave", "free"} => owner[sem[t]] = t
  /\ pc[t] \in {"find", "hand"} => owner[sem[t]] = None
  /\ pc[t] = "own" => owner[sem[t]] \in {None, t}
  /\ pc[t] = "hand" => waitingFor[waiter[t]] = sem[t]
OwnersKnown == \A t \in Threads : OwnerKnown(t)

(* The counts.                                                             *)
Counts ==
  /\ \A s \in Sems : held[Idle][s] = 0 /\ (owner[s] = None => enterCnt[s] = 0)
  /\ \A t \in Threads, s \in Sems :
       /\ held[t][s] > 0 => owner[s] = t
       /\ owner[s] = t =>
            enterCnt[s] = IF sem[t] = s /\ pc[t] = "endEnter" THEN held[t][s] + 1 ELSE held[t][s]
       /\ sem[t] = s /\ pc[t] \in LeavePcs \cup {"while", "waitYield", "blocked"} => held[t][s] = 0

(* About to take or to free a semaphore that is not the thread's own.      *)
Active(t) ==
  \/ pc[t] \in {"free", "find", "hand"}
  \/ pc[t] \in {"test", "while", "own"} /\ owner[sem[t]] # t

(* There is only one such thread, and none while one has still to end its  *)
(* scope in leave(); if there is one, only a thread inside a scope, or one *)
(* that is about to yield, has the CPU.                                    *)
Exclusive ==
  /\ \A t, u \in Threads : t # u =>
       ~(Active(t) /\ (Active(u) \/ pc[u] = "endLeave")) /\ ~(pc[t] = "endLeave" /\ pc[u] = "endLeave")
  /\ \/ pc[running] \in CeilerPcs \cup {"yield"}
     \/ \A t \in Threads : ~Active(t) /\ pc[t] # "endLeave"

(* A free semaphore has no waiting thread but one that leave() is handing  *)
(* it to.                                                                  *)
Handing ==
  \A t \in Threads, s \in Sems : waitingFor[t] = s /\ owner[s] = None =>
    \E u \in Threads : sem[u] = s /\ pc[u] \in {"find", "hand"}

(* The priority leave() restores is the original one, for a thread that    *)
(* never entered a semaphore with a priority lent to it.                   *)
Original(t) ==
  /\ pc[t] \in EnterPcs \cup {"hand", "endLeave", "restore"} => callerPrio[t] = basePrio[t]
  /\ \A s \in Sems :
       held[t][s] > 0 \/ (sem[t] = s /\ pc[t] \in {"endEnter", "leave", "free", "find"})
         => ownerPrio[s] = basePrio[t]
  /\ \A s \in Sems : owner[s] = t =>
       held[t][s] > 0 \/ (sem[t] = s /\ pc[t] \in EnterPcs \cup {"leave", "free"})
  /\ (\A s \in Sems : held[t][s] = 0) =>
       /\ pc[t] \in {"run", "left", "yield"} => prio[t] = basePrio[t]
       /\ pc[t] = "asleep" => saved[t] = basePrio[t]
Originals == \A t \in Threads \ lent : Original(t)

(* A thread that got the semaphore while another waits for it has been     *)
(* activated since that one, or will be before it runs again, and leave()  *)
(* gives it to the one that was activated first.                           *)
PassedAfter(t, u) ==
  /\ u # t
  /\ \/ Activation(t) < Activation(u)
     \/ /\ owner[waitingFor[t]] = u /\ susp[u] = "no" /\ pc[u] \in {"waitYield", "blocked"}
        /\ u # running
Turns ==
  /\ \A t, u \in Threads : u \in passed[t] => PassedAfter(t, u)
  /\ \A t, u \in Threads : pc[u] = "hand" /\ waitingFor[t] = sem[u] /\ t # waiter[u] =>
       Activation(waiter[u]) < Activation(t)
  /\ \A t, u \in Threads : running = u /\ t # u => Activation(t) < Activation(u)

(* All of it.                                                              *)
Sound == OwnersKnown /\ Counts /\ Exclusive /\ Handing /\ Originals /\ Turns
SemInvariant == SemAlways /\ (overtaken \/ Sound)

(* Nobody has been overtaken before who is not now, and a thread that runs *)
(* now has the ceiling priority if a ready one has it.                     *)
LEMMA NotOvertaken ==
  ASSUME SemInvariant, Next, ~overtaken'
  PROVE  /\ Sound
         /\ Dispatch => \A t \in Threads : pc[t] \in CeilerPcs /\ susp[t] = "no" => pc[running'] \in CeilerPcs
<1> USE Basics DEF SemInvariant
<1>1. ~overtaken
  BY ZenonT(30) DEF Next, EnterStep, LeaveStep, EnterCeil, EnterTest, EnterWait, EnterWaitYield, EnterWoken, EnterDone,
     EnterOwn, EnterEnd, LeaveCeil, LeaveFree, LeaveFind, LeaveHand, LeaveEnd, LeaveRestore, LeaveReturn,
     Sleep, SleepScopeEnd, YieldReturn, TimeReached, Enter, Leave, SysTick, IdleLoop, Scheduled, ghostVars
<1>2. ASSUME Dispatch, NEW t \in Threads, pc[t] \in CeilerPcs, susp[t] = "no"
      PROVE  pc[running'] \in CeilerPcs
  <2>1. prio[t] = Ceiling
    BY <1>2 DEF SemAlways, Ceilings
  <2>2. ~(prio[running'] < Ceiling) /\ running' \in All
    BY <1>2, <2>1 DEF Dispatch, Scheduled, Chooses
  <2> QED
    BY <2>2 DEF SemAlways, Ceilings
<1> QED
  BY <1>1, <1>2

(* leave() of a thread that has entered.                                   *)
LeaveOwnEffect(t, s) ==
  /\ running = t /\ pc[t] = "run" /\ held[t][s] > 0 /\ held[t][s] \in 0..MaxEnter
  /\ owner[s] = t /\ enterCnt[s] = held[t][s]
  /\ held' = [held EXCEPT ![t][s] = held[t][s] - 1]
  /\ enterCnt' = [enterCnt EXCEPT ![s] = held[t][s] - 1]
  /\ \/ held[t][s] > 1 /\ sem' = sem /\ pc' = pc
     \/ held[t][s] = 1 /\ sem' = [sem EXCEPT ![t] = s] /\ pc' = [pc EXCEPT ![t] = "leave"]
  /\ UNCHANGED <<schedVars, prio, threadVars, owner, ownerPrio, callerPrio, saved, waiter, ghostVars>>

(* The effect of the step is that.                                         *)
LEMMA LeaveOwned ==
  ASSUME SemAlways, Sound, NEW t \in Threads, NEW s \in Sems, Leave(t, s)
  PROVE  LeaveOwnEffect(t, s)
<1>1. LeaveEffect(t, s)
  BY LeaveCases
<1>2. running = t /\ pc[t] = "run" /\ held[t][s] > 0 /\ held[t][s] \in 0..MaxEnter
  BY <1>1, Basics DEF LeaveEffect, SemAlways, SemTypes
<1>3. owner[s] = t /\ enterCnt[s] = held[t][s]
  BY <1>2, Basics DEF Sound, Counts
<1> QED
  BY <1>1, <1>2, <1>3, Basics DEF LeaveEffect, LeaveOwnEffect

(* A thread inside enter() or leave() knows the owner of its semaphore.    *)
LEMMA NextOwners ==
  ASSUME SemAlways, Sound, Next
  PROVE  OwnersKnown'
<1>a. SemTypes /\ Entries /\ Suspensions /\ Yields /\ OwnersKnown /\ Exclusive
  BY DEF SemAlways, Sound
<1> USE Basics, <1>a DEF SemTypes, Entries, Suspensions, Yields, YieldPcs, OwnersKnown, Exclusive, OwnerKnown,
      Active, EnterPcs, LeavePcs, FreePcs
<1>1. ASSUME NEW t \in Threads, EnterCeil(t) PROVE OwnersKnown'
  BY <1>1 DEF EnterCeil, BeginCeiler, Executes, Goto, schedVars, threadVars, semVars, ghostVars
<1>2. ASSUME NEW t \in Threads, EnterTest(t) PROVE OwnersKnown'
  <2>1. EnterTestEffect(t)
    BY <1>2, EnterTestCases
  <2> QED
    BY <2>1 DEF EnterTestEffect, schedVars, threadVars, semVars, localVars, ghostVars
<1>3. ASSUME NEW t \in Threads, EnterWait(t) PROVE OwnersKnown'
  BY <1>3 DEF EnterWait, Suspend, OwnedByOther, Executes, Goto, schedVars, semVars, localVars, ghostVars
<1>4. ASSUME NEW t \in Threads, EnterWoken(t) PROVE OwnersKnown'
  BY <1>4 DEF EnterWoken, Executes, Goto, schedVars, semVars, localVars, ghostVars
<1>5. ASSUME NEW t \in Threads, EnterDone(t) PROVE OwnersKnown'
  BY <1>5 DEF EnterDone, OwnedByOther, Executes, Goto, schedVars, threadVars, localVars, ghostVars
<1>6. ASSUME NEW t \in Threads, EnterOwn(t) PROVE OwnersKnown'
  BY <1>6 DEF EnterOwn, Executes, Goto, Gets, schedVars, threadVars, localVars
<1>7. ASSUME NEW t \in Threads, EnterEnd(t) PROVE OwnersKnown'
  BY <1>7 DEF EnterEnd, EndCeiler, Executes, Goto, schedVars, threadVars, semVars, ghostVars
<1>8. ASSUME NEW t \in Threads, LeaveCeil(t) PROVE OwnersKnown'
  BY <1>8 DEF LeaveCeil, BeginCeiler, Executes, Goto, schedVars, threadVars, semVars, ghostVars
<1>9. ASSUME NEW t \in Threads, LeaveFree(t) PROVE OwnersKnown'
  BY <1>9 DEF LeaveFree, Executes, Goto, schedVars, threadVars, localVars, ghostVars
<1>10. ASSUME NEW t \in Threads, LeaveFind(t) PROVE OwnersKnown'
  <2>1. LeaveFindEffect(t)
    BY <1>10, LeaveFindCases
  <2> QED
    BY <2>1 DEF LeaveFindEffect, schedVars, threadVars, ghostVars
<1>11. ASSUME NEW t \in Threads, LeaveHand(t) PROVE OwnersKnown'
  BY <1>11 DEF LeaveHand, Executes, Goto, Gets, schedVars, localVars
<1>12. ASSUME NEW t \in Threads, LeaveEnd(t) PROVE OwnersKnown'
  BY <1>12 DEF LeaveEnd, EndCeiler, Executes, Goto, schedVars, threadVars, semVars, ghostVars
<1>13. ASSUME NEW t \in Threads, LeaveRestore(t) PROVE OwnersKnown'
  BY <1>13 DEF LeaveRestore, Executes, Goto, schedVars, threadVars, semVars, localVars, ghostVars
<1>14. ASSUME NEW t \in Threads, LeaveReturn(t) PROVE OwnersKnown'
  BY <1>14 DEF LeaveReturn, Executes, Goto, schedVars, threadVars, semVars, ghostVars
<1>15. ASSUME NEW t \in Threads, Sleep(t) PROVE OwnersKnown'
  BY <1>15 DEF Sleep, BeginCeiler, Suspend, Executes, Goto, schedVars, semVars, ghostVars
<1>16. ASSUME NEW t \in Threads, SleepScopeEnd(t) PROVE OwnersKnown'
  BY <1>16 DEF SleepScopeEnd, EndCeiler, Executes, Goto, schedVars, threadVars, semVars, ghostVars
<1>17. ASSUME NEW t \in Threads, TimeReached(t) PROVE OwnersKnown'
  BY <1>17, ZenonT(30) DEF TimeReached, Expire, schedVars, semVars, ghostVars
<1>18. ASSUME NEW t \in Threads, NEW s \in Sems, Enter(t, s) PROVE OwnersKnown'
  BY <1>18 DEF Enter, Executes, Goto, schedVars, threadVars, semVars
<1>19. ASSUME NEW t \in Threads, NEW s \in Sems, Leave(t, s) PROVE OwnersKnown'
  <2>1. LeaveOwnEffect(t, s)
    BY <1>19, LeaveOwned
  <2> QED
    BY <2>1 DEF LeaveOwnEffect, schedVars, threadVars, ghostVars
<1>20. ASSUME Dispatch PROVE OwnersKnown'
  BY <1>20 DEF Dispatch
<1> QED
  BY <1>1, <1>2, <1>3, <1>4, <1>5, <1>6, <1>7, <1>8, <1>9, <1>10, <1>11, <1>12, <1>13, <1>14, <1>15,
       <1>16, <1>17, <1>18, <1>19, <1>20, DispatchCases
     DEF Next, EnterStep, LeaveStep

(* As many enter() are counted as were made.                               *)
LEMMA NextCounts ==
  ASSUME SemAlways, Sound, Next
  PROVE  Counts'
<1>a. SemTypes /\ Entries /\ Suspensions /\ Yields /\ OwnersKnown /\ Exclusive /\ Counts
  BY DEF SemAlways, Sound
<1> USE Basics, <1>a DEF SemTypes, Entries, Suspensions, Yields, YieldPcs, OwnersKnown, Exclusive, Counts, OwnerKnown,
      Active, EnterPcs, LeavePcs, FreePcs
<1>1. ASSUME NEW t \in Threads, EnterCeil(t) PROVE Counts'
  BY <1>1 DEF EnterCeil, BeginCeiler, Executes, Goto, schedVars, threadVars, semVars, ghostVars
<1>2. ASSUME NEW t \in Threads, EnterTest(t) PROVE Counts'
  <2>1. EnterTestEffect(t)
    BY <1>2, EnterTestCases
  <2> QED
    BY <2>1 DEF EnterTestEffect, schedVars, threadVars, semVars, localVars, ghostVars
<1>3. ASSUME NEW t \in Threads, EnterWait(t) PROVE Counts'
  BY <1>3 DEF EnterWait, Suspend, OwnedByOther, Executes, Goto, schedVars, semVars, localVars, ghostVars
<1>4. ASSUME NEW t \in Threads, EnterWoken(t) PROVE Counts'
  BY <1>4 DEF EnterWoken, Executes, Goto, schedVars, semVars, localVars, ghostVars
<1>5. ASSUME NEW t \in Threads, EnterDone(t) PROVE Counts'
  BY <1>5 DEF EnterDone, OwnedByOther, Executes, Goto, schedVars, threadVars, localVars, ghostVars
<1>6. ASSUME NEW t \in Threads, EnterOwn(t) PROVE Counts'
  BY <1>6 DEF EnterOwn, Executes, Goto, Gets, schedVars, threadVars, localVars
<1>7. ASSUME NEW t \in Threads, EnterEnd(t) PROVE Counts'
  BY <1>7 DEF EnterEnd, EndCeiler, Executes, Goto, schedVars, threadVars, semVars, ghostVars
<1>8. ASSUME NEW t \in Threads, LeaveCeil(t) PROVE Counts'
  BY <1>8 DEF LeaveCeil, BeginCeiler, Executes, Goto, schedVars, threadVars, semVars, ghostVars
<1>9. ASSUME NEW t \in Threads, LeaveFree(t) PROVE Counts'
  <2>1. /\ owner' = [owner EXCEPT ![sem[t]] = None] /\ pc' = [pc EXCEPT ![t] = "find"] /\ pc[t] = "free"
        /\ enterCnt' = enterCnt /\ held' = held /\ sem' = sem
    BY <1>9 DEF LeaveFree, Executes, Goto, localVars
  <2>2. sem[t] \in Sems /\ owner[sem[t]] = t /\ held[t][sem[t]] = 0
    BY <2>1
  <2>3. enterCnt[sem[t]] = 0
    BY <2>1, <2>2
  <2> QED
    BY <2>1, <2>2, <2>3
<1>10. ASSUME NEW t \in Threads, LeaveFind(t) PROVE Counts'
  <2>1. LeaveFindEffect(t)
    BY <1>10, LeaveFindCases
  <2> QED
    BY <2>1 DEF LeaveFindEffect, schedVars, threadVars, ghostVars
<1>11. ASSUME NEW t \in Threads, LeaveHand(t) PROVE Counts'
  BY <1>11 DEF LeaveHand, Executes, Goto, Gets, schedVars, localVars
<1>12. ASSUME NEW t \in Threads, LeaveEnd(t) PROVE Counts'
  BY <1>12 DEF LeaveEnd, EndCeiler, Executes, Goto, schedVars, threadVars, semVars, ghostVars
<1>13. ASSUME NEW t \in Threads, LeaveRestore(t) PROVE Counts'
  BY <1>13 DEF LeaveRestore, Executes, Goto, schedVars, threadVars, semVars, localVars, ghostVars
<1>14. ASSUME NEW t \in Threads, LeaveReturn(t) PROVE Counts'
  BY <1>14 DEF LeaveReturn, Executes, Goto, schedVars, threadVars, semVars, ghostVars
<1>15. ASSUME NEW t \in Threads, Sleep(t) PROVE Counts'
  BY <1>15 DEF Sleep, BeginCeiler, Suspend, Executes, Goto, schedVars, semVars, ghostVars
<1>16. ASSUME NEW t \in Threads, SleepScopeEnd(t) PROVE Counts'
  BY <1>16 DEF SleepScopeEnd, EndCeiler, Executes, Goto, schedVars, threadVars, semVars, ghostVars
<1>17. ASSUME NEW t \in Threads, TimeReached(t) PROVE Counts'
  BY <1>17 DEF TimeReached, Expire, schedVars, semVars, ghostVars
<1>18. ASSUME NEW t \in Threads, NEW s \in Sems, Enter(t, s) PROVE Counts'
  BY <1>18 DEF Enter, Executes, Goto, schedVars, threadVars, semVars
<1>19. ASSUME NEW t \in Threads, NEW s \in Sems, Leave(t, s) PROVE Counts'
  <2>1. LeaveOwnEffect(t, s)
    BY <1>19, LeaveOwned
  <2> QED
    BY <2>1 DEF LeaveOwnEffect, schedVars, threadVars, ghostVars
<1>20. ASSUME Dispatch PROVE Counts'
  BY <1>20 DEF Dispatch
<1> QED
  BY <1>1, <1>2, <1>3, <1>4, <1>5, <1>6, <1>7, <1>8, <1>9, <1>10, <1>11, <1>12, <1>13, <1>14, <1>15,
       <1>16, <1>17, <1>18, <1>19, <1>20, DispatchCases
     DEF Next, EnterStep, LeaveStep

(* The priority that leave() restores is the original one.                 *)
LEMMA NextOriginals ==
  ASSUME SemAlways, Sound, Next
  PROVE  Originals'
<1>a. SemTypes /\ Entries /\ Suspensions /\ Yields /\ OwnersKnown /\ Exclusive /\ Counts /\ Originals
  BY DEF SemAlways, Sound
<1> USE Basics, <1>a DEF SemTypes, Entries, Suspensions, Yields, YieldPcs, OwnersKnown, Exclusive, Counts, Originals,
      OwnerKnown, Active, Original, EnterPcs, LeavePcs, FreePcs
<1>1. ASSUME NEW t \in Threads, EnterCeil(t) PROVE Originals'
  BY <1>1 DEF EnterCeil, BeginCeiler, Executes, Goto, schedVars, threadVars, semVars, ghostVars
<1>2. ASSUME NEW t \in Threads, EnterTest(t) PROVE Originals'
  <2>1. EnterTestEffect(t)
    BY <1>2, EnterTestCases
  <2> QED
    BY <2>1 DEF EnterTestEffect, schedVars, threadVars, semVars, localVars, ghostVars
<1>3. ASSUME NEW t \in Threads, EnterWait(t) PROVE Originals'
  BY <1>3 DEF EnterWait, Suspend, OwnedByOther, Executes, Goto, schedVars, semVars, localVars, ghostVars
<1>4. ASSUME NEW t \in Threads, EnterWoken(t) PROVE Originals'
  BY <1>4 DEF EnterWoken, Executes, Goto, schedVars, semVars, localVars, ghostVars
<1>5. ASSUME NEW t \in Threads, EnterDone(t) PROVE Originals'
  BY <1>5 DEF EnterDone, OwnedByOther, Executes, Goto, schedVars, threadVars, localVars, ghostVars
<1>6. ASSUME NEW t \in Threads, EnterOwn(t) PROVE Originals'
  BY <1>6 DEF EnterOwn, Executes, Goto, Gets, schedVars, threadVars, localVars
<1>7. ASSUME NEW t \in Threads, EnterEnd(t) PROVE Originals'
  BY <1>7 DEF EnterEnd, EndCeiler, Executes, Goto, schedVars, threadVars, semVars, ghostVars
<1>8. ASSUME NEW t \in Threads, LeaveCeil(t) PROVE Originals'
  BY <1>8 DEF LeaveCeil, BeginCeiler, Executes, Goto, schedVars, threadVars, semVars, ghostVars
<1>9. ASSUME NEW t \in Threads, LeaveFree(t) PROVE Originals'
  BY <1>9 DEF LeaveFree, Executes, Goto, schedVars, threadVars, localVars, ghostVars
<1>10. ASSUME NEW t \in Threads, LeaveFind(t) PROVE Originals'
  <2>1. LeaveFindEffect(t)
    BY <1>10, LeaveFindCases
  <2> QED
    BY <2>1 DEF LeaveFindEffect, schedVars, threadVars, ghostVars
<1>11. ASSUME NEW t \in Threads, LeaveHand(t) PROVE Originals'
  BY <1>11 DEF LeaveHand, Executes, Goto, Gets, schedVars, localVars
<1>12. ASSUME NEW t \in Threads, LeaveEnd(t) PROVE Originals'
  BY <1>12 DEF LeaveEnd, EndCeiler, Executes, Goto, schedVars, threadVars, semVars, ghostVars
<1>13. ASSUME NEW t \in Threads, LeaveRestore(t) PROVE Originals'
  BY <1>13 DEF LeaveRestore, Executes, Goto, schedVars, threadVars, semVars, localVars, ghostVars
<1>14. ASSUME NEW t \in Threads, LeaveReturn(t) PROVE Originals'
  BY <1>14 DEF LeaveReturn, Executes, Goto, schedVars, threadVars, semVars, ghostVars
<1>15. ASSUME NEW t \in Threads, Sleep(t) PROVE Originals'
  BY <1>15 DEF Sleep, BeginCeiler, Suspend, Executes, Goto, schedVars, semVars, ghostVars
<1>16. ASSUME NEW t \in Threads, SleepScopeEnd(t) PROVE Originals'
  BY <1>16 DEF SleepScopeEnd, EndCeiler, Executes, Goto, schedVars, threadVars, semVars, ghostVars
<1>17. ASSUME NEW t \in Threads, TimeReached(t) PROVE Originals'
  BY <1>17 DEF TimeReached, Expire, schedVars, semVars, ghostVars
<1>18. ASSUME NEW t \in Threads, NEW s \in Sems, Enter(t, s) PROVE Originals'
  BY <1>18 DEF Enter, Executes, Goto, schedVars, threadVars, semVars
<1>19. ASSUME NEW t \in Threads, NEW s \in Sems, Leave(t, s) PROVE Originals'
  <2>1. LeaveOwnEffect(t, s)
    BY <1>19, LeaveOwned
  <2>2. /\ ownerPrio' = ownerPrio /\ owner' = owner /\ callerPrio' = callerPrio /\ prio' = prio /\ saved' = saved
        /\ basePrio' = basePrio /\ lent' = lent
    BY <2>1 DEF LeaveOwnEffect, ghostVars
  <2>3. \A u \in Threads \ {t} : held'[u] = held[u] /\ sem'[u] = sem[u] /\ pc'[u] = pc[u]
    BY <2>1 DEF LeaveOwnEffect
  <2>4. ASSUME NEW u \in Threads \ lent, u # t PROVE Original(u)'
    BY <2>2, <2>3, <2>4
  <2>5. ASSUME t \notin lent PROVE Original(t)'
    <3>0. Original(t) /\ \A x \in Sems \ {s} : held'[t][x] = held[t][x]
      BY <2>1, <2>5 DEF LeaveOwnEffect
    <3>1. CASE held[t][s] > 1 /\ sem' = sem /\ pc' = pc
      <4>1. held'[t][s] > 0
        BY <2>1, <3>1 DEF LeaveOwnEffect
      <4> QED
        BY <2>1, <2>2, <3>0, <3>1, <4>1 DEF LeaveOwnEffect
    <3>2. CASE sem' = [sem EXCEPT ![t] = s] /\ pc' = [pc EXCEPT ![t] = "leave"]
      <4>1. sem'[t] = s /\ pc'[t] = "leave" /\ ownerPrio[s] = basePrio[t] /\ pc[t] = "run" /\ sem[t] = None
        BY <2>1, <3>0, <3>2 DEF LeaveOwnEffect
      <4>2. ASSUME NEW x \in Sems
            PROVE  /\ held'[t][x] > 0 \/ sem'[t] = x => ownerPrio'[x] = basePrio'[t]
                   /\ owner'[x] = t => held'[t][x] > 0 \/ sem'[t] = x
        <5>1. CASE x = s
          BY <2>2, <4>1, <5>1
        <5>2. CASE x # s
          BY <2>2, <3>0, <4>1, <5>2
        <5> QED
          BY <5>1, <5>2
      <4> QED
        BY <4>1, <4>2
    <3> QED
      BY <2>1, <3>1, <3>2 DEF LeaveOwnEffect
  <2> QED
    BY <2>2, <2>4, <2>5
<1>20. ASSUME Dispatch PROVE Originals'
  BY <1>20 DEF Dispatch
<1> QED
  BY <1>1, <1>2, <1>3, <1>4, <1>5, <1>6, <1>7, <1>8, <1>9, <1>10, <1>11, <1>12, <1>13, <1>14, <1>15,
       <1>16, <1>17, <1>18, <1>19, <1>20, DispatchCases
     DEF Next, EnterStep, LeaveStep

(* Only one thread is about to take or to free a semaphore.                *)
LEMMA NextExclusive ==
  ASSUME SemInvariant, Next, ~overtaken'
  PROVE  Exclusive'
<1>b. SemAlways /\ Sound
  BY NotOvertaken DEF SemInvariant
<1>a. SemTypes /\ Entries /\ Suspensions /\ Yields /\ OwnersKnown /\ Exclusive
  BY <1>b DEF SemAlways, Sound
<1> USE Basics, <1>a, <1>b DEF SemTypes, Entries, Suspensions, Yields, YieldPcs, OwnersKnown, Exclusive, OwnerKnown,
      Active, CeilerPcs, EnterPcs, LeavePcs, FreePcs
<1>1. ASSUME NEW t \in Threads, EnterCeil(t) PROVE Exclusive'
  BY <1>1 DEF EnterCeil, BeginCeiler, Executes, Goto, schedVars, threadVars, semVars, ghostVars
<1>2. ASSUME NEW t \in Threads, EnterTest(t) PROVE Exclusive'
  <2>1. EnterTestEffect(t)
    BY <1>2, EnterTestCases
  <2> QED
    BY <2>1, SMTT(20) DEF EnterTestEffect, schedVars, threadVars, semVars, localVars, ghostVars
<1>3. ASSUME NEW t \in Threads, EnterWait(t) PROVE Exclusive'
  BY <1>3 DEF EnterWait, Suspend, OwnedByOther, Executes, Goto, schedVars, semVars, localVars, ghostVars
<1>4. ASSUME NEW t \in Threads, EnterWoken(t) PROVE Exclusive'
  BY <1>4 DEF EnterWoken, Executes, Goto, schedVars, semVars, localVars, ghostVars
<1>5. ASSUME NEW t \in Threads, EnterDone(t) PROVE Exclusive'
  BY <1>5 DEF EnterDone, OwnedByOther, Executes, Goto, schedVars, threadVars, localVars, ghostVars
<1>6. ASSUME NEW t \in Threads, EnterOwn(t) PROVE Exclusive'
  BY <1>6 DEF EnterOwn, Executes, Goto, Gets, schedVars, threadVars, localVars
<1>7. ASSUME NEW t \in Threads, EnterEnd(t) PROVE Exclusive'
  BY <1>7 DEF EnterEnd, EndCeiler, Executes, Goto, schedVars, threadVars, semVars, ghostVars
<1>8. ASSUME NEW t \in Threads, LeaveCeil(t) PROVE Exclusive'
  BY <1>8 DEF LeaveCeil, BeginCeiler, Executes, Goto, schedVars, threadVars, semVars, ghostVars
<1>9. ASSUME NEW t \in Threads, LeaveFree(t) PROVE Exclusive'
  BY <1>9 DEF LeaveFree, Executes, Goto, schedVars, threadVars, localVars, ghostVars
<1>10. ASSUME NEW t \in Threads, LeaveFind(t) PROVE Exclusive'
  <2>1. LeaveFindEffect(t)
    BY <1>10, LeaveFindCases
  <2>2. /\ sem' = sem /\ owner' = owner /\ running' = running /\ running = t /\ pc[t] = "find"
        /\ \E next \in {"hand", "endLeave"} : pc' = [pc EXCEPT ![t] = next]
    BY <2>1 DEF LeaveFindEffect, schedVars
  <2>3. Active(t) /\ pc'[t] \in {"hand", "endLeave"} /\ \A c \in Threads \ {t} : pc'[c] = pc[c]
    BY <2>2
  <2> QED
    BY <2>2, <2>3
<1>11. ASSUME NEW t \in Threads, LeaveHand(t) PROVE Exclusive'
  BY <1>11 DEF LeaveHand, Executes, Goto, Gets, schedVars, localVars
<1>12. ASSUME NEW t \in Threads, LeaveEnd(t) PROVE Exclusive'
  BY <1>12 DEF LeaveEnd, EndCeiler, Executes, Goto, schedVars, threadVars, semVars, ghostVars
<1>13. ASSUME NEW t \in Threads, LeaveRestore(t) PROVE Exclusive'
  BY <1>13 DEF LeaveRestore, Executes, Goto, schedVars, threadVars, semVars, localVars, ghostVars
<1>14. ASSUME NEW t \in Threads, LeaveReturn(t) PROVE Exclusive'
  BY <1>14 DEF LeaveReturn, Executes, Goto, schedVars, threadVars, semVars, ghostVars
<1>15. ASSUME NEW t \in Threads, Sleep(t) PROVE Exclusive'
  BY <1>15 DEF Sleep, BeginCeiler, Suspend, Executes, Goto, schedVars, semVars, ghostVars
<1>16. ASSUME NEW t \in Threads, SleepScopeEnd(t) PROVE Exclusive'
  BY <1>16 DEF SleepScopeEnd, EndCeiler, Executes, Goto, schedVars, threadVars, semVars, ghostVars
<1>17. ASSUME NEW t \in Threads, TimeReached(t) PROVE Exclusive'
  BY <1>17 DEF TimeReached, Expire, schedVars, semVars, ghostVars
<1>18. ASSUME NEW t \in Threads, NEW s \in Sems, Enter(t, s) PROVE Exclusive'
  BY <1>18 DEF Enter, Executes, Goto, schedVars, threadVars, semVars
<1>19. ASSUME NEW t \in Threads, NEW s \in Sems, Leave(t, s) PROVE Exclusive'
  <2>1. LeaveOwnEffect(t, s)
    BY <1>19, LeaveOwned
  <2>2. /\ running' = running /\ running = t /\ owner' = owner /\ pc[t] = "run" /\ pc'[t] \in {"run", "leave"}
        /\ \A c \in Threads \ {t} : pc'[c] = pc[c] /\ sem'[c] = sem[c]
    BY <2>1 DEF LeaveOwnEffect, schedVars
  <2>3. \A c \in Threads : ~Active(c) /\ pc[c] # "endLeave"
    BY <2>2
  <2>4. ASSUME NEW c \in Threads PROVE ~Active(c)' /\ pc'[c] # "endLeave"
    <3>1. CASE c = t
      BY <2>2, <3>1
    <3>2. CASE c # t
      <4>1. pc'[c] = pc[c] /\ sem'[c] = sem[c] /\ owner' = owner
        BY <2>2, <3>2
      <4>2. ~Active(c) /\ pc[c] # "endLeave"
        BY <2>3
      <4> QED
        BY <4>1, <4>2
    <3> QED
      BY <3>1, <3>2
  <2> QED
    BY <2>4
<1>20. ASSUME Dispatch PROVE Exclusive'
  <2>1. sem' = sem /\ owner' = owner
    BY <1>20 DEF Dispatch
  <2>2. \A c \in Threads : (Active(c)' <=> Active(c)) /\ (pc'[c] = "endLeave" <=> pc[c] = "endLeave")
    BY <1>20 DEF Dispatch
  <2>3. \A c \in All : pc[c] \in CeilerPcs => pc'[c] \in CeilerPcs
    BY <1>20 DEF Dispatch
  <2>4. \A c \in Threads : Active(c) \/ pc[c] = "endLeave" => pc[c] \in CeilerPcs /\ susp[c] = "no"
    BY SMTT(20)
  <2>5. running' \in All /\ ((\E c \in Threads : Active(c) \/ pc[c] = "endLeave") => pc[running'] \in CeilerPcs)
    BY <1>20, <2>4, NotOvertaken DEF Dispatch, Chooses
  <2> HIDE DEF Active
  <2> QED
    BY <2>1, <2>2, <2>3, <2>5
<1> QED
  BY <1>1, <1>2, <1>3, <1>4, <1>5, <1>6, <1>7, <1>8, <1>9, <1>10, <1>11, <1>12, <1>13, <1>14, <1>15,
       <1>16, <1>17, <1>18, <1>19, <1>20, DispatchCases
     DEF Next, EnterStep, LeaveStep

(* A waiting thread is not forgotten.                                      *)
LEMMA NextHanding ==
  ASSUME SemAlways, Sound, Next
  PROVE  Handing'
<1>a. SemTypes /\ Entries /\ Suspensions /\ OwnersKnown /\ Handing
  BY DEF SemAlways, Sound
<1> SUFFICES ASSUME NEW w \in Threads, NEW x \in Sems, waitingFor'[w] = x, owner'[x] = None
             PROVE  \E u \in Threads : sem'[u] = x /\ pc'[u] \in {"find", "hand"}
  BY DEF Handing
<1> USE Basics
<1>b. /\ waitingFor \in [All -> Sems \cup {None}] /\ owner \in [Sems -> Threads \cup {None}]
      /\ pc \in [All -> FreePcs \cup EnterPcs \cup LeavePcs] /\ sem \in [All -> Sems \cup {None}]
  BY <1>a DEF SemTypes
<1> DEFINE Goal == \E u \in Threads : sem'[u] = x /\ pc'[u] \in {"find", "hand"}
           Quiet(t) == /\ waitingFor[w] = x /\ owner[x] = None /\ pc[t] \notin {"find", "hand"}
                       /\ \A u \in Threads \ {t} : sem'[u] = sem[u] /\ pc'[u] = pc[u]
<1>g. ASSUME NEW t \in Threads, Quiet(t) PROVE Goal
  <2>1. PICK u \in Threads : sem[u] = x /\ pc[u] \in {"find", "hand"}
    BY <1>a, <1>g DEF Handing
  <2> QED
    BY <1>g, <2>1
<1>1. ASSUME NEW t \in Threads, EnterCeil(t) PROVE Goal
  <2>1. Quiet(t)
    BY <1>1, <1>b DEF EnterCeil, BeginCeiler, Executes, Goto, schedVars, threadVars,
         semVars, ghostVars
  <2> QED
    BY <1>g, <2>1
<1>2. ASSUME NEW t \in Threads, EnterTest(t) PROVE Goal
  <2>0. EnterTestEffect(t)
    BY <1>2, EnterTestCases
  <2>1. Quiet(t)
    BY <1>b, <2>0 DEF EnterTestEffect, schedVars, threadVars, semVars, localVars, ghostVars
  <2> QED
    BY <1>g, <2>1
<1>3. ASSUME NEW t \in Threads, EnterWait(t) PROVE Goal
  <2>1. waitingFor' = [waitingFor EXCEPT ![t] = sem[t]] /\ owner' = owner /\ OwnedByOther(t) /\ sem' = sem
        /\ pc' = [pc EXCEPT ![t] = "waitYield"] /\ pc[t] = "while"
    BY <1>3 DEF EnterWait, Goto, Executes, semVars, localVars
  <2>2. w # t
    BY <1>b, <2>1 DEF OwnedByOther
  <2>3. Quiet(t)
    BY <1>b, <2>1, <2>2
  <2> QED
    BY <1>g, <2>3
<1>4. ASSUME NEW t \in Threads, EnterWoken(t) PROVE Goal
  <2>1. Quiet(t)
    BY <1>4, <1>b DEF EnterWoken, Executes, Goto, schedVars, semVars, localVars, ghostVars
  <2> QED
    BY <1>g, <2>1
<1>5. ASSUME NEW t \in Threads, EnterDone(t) PROVE Goal
  <2>1. Quiet(t)
    BY <1>5, <1>b DEF EnterDone, OwnedByOther, Executes, Goto, schedVars, threadVars,
         localVars, ghostVars
  <2> QED
    BY <1>g, <2>1
<1>6. ASSUME NEW t \in Threads, EnterOwn(t) PROVE Goal
  <2>1. owner' = [owner EXCEPT ![sem[t]] = t] /\ waitingFor' = waitingFor /\ sem' = sem
        /\ pc' = [pc EXCEPT ![t] = "endEnter"] /\ pc[t] = "own"
    BY <1>6 DEF EnterOwn, Goto, Executes, threadVars, localVars
  <2>2. x # sem[t]
    BY <1>b, <2>1
  <2>3. Quiet(t)
    BY <1>b, <2>1, <2>2
  <2> QED
    BY <1>g, <2>3
<1>7. ASSUME NEW t \in Threads, EnterEnd(t) PROVE Goal
  <2>1. Quiet(t)
    BY <1>7, <1>b DEF EnterEnd, EndCeiler, Executes, Goto, schedVars, threadVars, semVars,
         ghostVars
  <2> QED
    BY <1>g, <2>1
<1>8. ASSUME NEW t \in Threads, LeaveCeil(t) PROVE Goal
  <2>1. Quiet(t)
    BY <1>8, <1>b DEF LeaveCeil, BeginCeiler, Executes, Goto, schedVars, threadVars,
         semVars, ghostVars
  <2> QED
    BY <1>g, <2>1
<1>9. ASSUME NEW t \in Threads, LeaveFree(t) PROVE Goal
  <2>1. owner' = [owner EXCEPT ![sem[t]] = None] /\ waitingFor' = waitingFor /\ sem' = sem
        /\ pc' = [pc EXCEPT ![t] = "find"] /\ pc[t] = "free"
    BY <1>9 DEF LeaveFree, Goto, Executes, threadVars, localVars
  <2>2. CASE x = sem[t]
    BY <1>b, <2>1, <2>2
  <2>3. CASE x # sem[t]
    <3>1. Quiet(t)
      BY <1>b, <2>1, <2>3
    <3> QED
      BY <1>g, <3>1
  <2> QED
    BY <2>2, <2>3
<1>10. ASSUME NEW t \in Threads, LeaveFind(t) PROVE Goal
  <2>1. LeaveFindEffect(t)
    BY <1>10, LeaveFindCases
  <2>2. waitingFor' = waitingFor /\ owner' = owner /\ sem' = sem
    BY <2>1 DEF LeaveFindEffect, threadVars
  <2>3. PICK u \in Threads : sem[u] = x /\ pc[u] \in {"find", "hand"}
    BY <1>a, <2>2 DEF Handing
  <2>4. \/ pc' = [pc EXCEPT ![t] = "hand"]
        \/ pc' = [pc EXCEPT ![t] = "endLeave"] /\ sem[t] # x
    BY <2>1, <2>2 DEF LeaveFindEffect
  <2> QED
    BY <1>b, <2>2, <2>3, <2>4
<1>11. ASSUME NEW t \in Threads, LeaveHand(t) PROVE Goal
  <2>1. /\ owner' = [owner EXCEPT ![sem[t]] = waiter[t]] /\ sem' = sem
        /\ waitingFor' = [waitingFor EXCEPT ![waiter[t]] = None]
        /\ pc' = [pc EXCEPT ![t] = "endLeave"] /\ pc[t] = "hand"
    BY <1>11 DEF LeaveHand, Goto, Executes, localVars
  <2>2. waiter[t] \in Threads /\ sem[t] \in Sems
    BY <1>a, <2>1 DEF Entries, FreePcs
  <2>3. x # sem[t] /\ waitingFor[w] = x /\ owner[x] = None
    BY <1>b, <2>1, <2>2
  <2>4. PICK u \in Threads : sem[u] = x /\ pc[u] \in {"find", "hand"}
    BY <1>a, <2>3 DEF Handing
  <2> QED
    BY <1>b, <2>1, <2>3, <2>4
<1>12. ASSUME NEW t \in Threads, LeaveEnd(t) PROVE Goal
  <2>1. Quiet(t)
    BY <1>12, <1>b DEF LeaveEnd, EndCeiler, Executes, Goto, schedVars, threadVars, semVars,
         ghostVars
  <2> QED
    BY <1>g, <2>1
<1>13. ASSUME NEW t \in Threads, LeaveRestore(t) PROVE Goal
  <2>1. Quiet(t)
    BY <1>13, <1>b DEF LeaveRestore, Executes, Goto, schedVars, threadVars, semVars,
         localVars, ghostVars
  <2> QED
    BY <1>g, <2>1
<1>14. ASSUME NEW t \in Threads, LeaveReturn(t) PROVE Goal
  <2>1. Quiet(t)
    BY <1>14, <1>b DEF LeaveReturn, Executes, Goto, schedVars, threadVars, semVars, ghostVars
  <2> QED
    BY <1>g, <2>1
<1>15. ASSUME NEW t \in Threads, Sleep(t) PROVE Goal
  <2>1. Quiet(t)
    BY <1>15, <1>b DEF Sleep, BeginCeiler, Suspend, Executes, Goto, schedVars, semVars, ghostVars
  <2> QED
    BY <1>g, <2>1
<1>16. ASSUME NEW t \in Threads, SleepScopeEnd(t) PROVE Goal
  <2>1. Quiet(t)
    BY <1>16, <1>b DEF SleepScopeEnd, EndCeiler, Executes, Goto, schedVars, threadVars,
         semVars, ghostVars
  <2> QED
    BY <1>g, <2>1
<1>17. ASSUME NEW t \in Threads, TimeReached(t) PROVE Goal
  <2>1. waitingFor' = waitingFor /\ owner' = owner /\ sem' = sem /\ pc' = pc
    BY <1>17 DEF TimeReached, Expire, semVars
  <2> QED
    BY <1>a, <2>1 DEF Handing
<1>18. ASSUME NEW t \in Threads, NEW s \in Sems, Enter(t, s) PROVE Goal
  <2>1. Quiet(t)
    BY <1>18, <1>b DEF Enter, Executes, Goto, schedVars, threadVars, semVars
  <2> QED
    BY <1>g, <2>1
<1>19. ASSUME NEW t \in Threads, NEW s \in Sems, Leave(t, s) PROVE Goal
  <2>0. LeaveOwnEffect(t, s)
    BY <1>19, LeaveOwned
  <2>1. Quiet(t)
    BY <1>b, <2>0 DEF LeaveOwnEffect, threadVars, ghostVars
  <2> QED
    BY <1>g, <2>1
<1>20. ASSUME Dispatch PROVE Goal
  <2>1. waitingFor' = waitingFor /\ owner' = owner /\ sem' = sem
    BY <1>20 DEF Dispatch
  <2>2. PICK u \in Threads : sem[u] = x /\ pc[u] \in {"find", "hand"}
    BY <1>a, <2>1 DEF Handing
  <2>3. pc'[u] = pc[u]
    BY <1>20, <1>b, <2>2 DEF Dispatch
  <2> QED
    BY <2>1, <2>2, <2>3
<1> QED
  BY <1>1, <1>2, <1>3, <1>4, <1>5, <1>6, <1>7, <1>8, <1>9, <1>10, <1>11, <1>12, <1>13, <1>14, <1>15,
       <1>16, <1>17, <1>18, <1>19, <1>20, DispatchCases
     DEF Next, EnterStep, LeaveStep

(* Who waits longest gets the semaphore.                                   *)
LEMMA NextTurns ==
  ASSUME SemAlways, Sound, Next
  PROVE  Turns'
<1>a. /\ SemTypes /\ Entries /\ ListOK /\ Ceilings /\ Suspensions /\ Selected /\ Yields /\ Unpassed
      /\ OwnersKnown /\ Exclusive /\ Handing /\ Turns
  BY DEF SemAlways, Sound
<1> USE Basics
<1>b. /\ waitingFor \in [All -> Sems \cup {None}] /\ owner \in [Sems -> Threads \cup {None}]
      /\ pc \in [All -> FreePcs \cup EnterPcs \cup LeavePcs] /\ sem \in [All -> Sems \cup {None}]
      /\ waiter \in [All -> Threads \cup {None}] /\ passed \in [Threads -> SUBSET Threads]
      /\ susp \in [All -> {"no", "timed", "forever"}] /\ running \in All
  BY <1>a DEF SemTypes
<1>w. ASSUME NEW t \in Threads, waitingFor[t] # None
      PROVE  /\ susp[t] = "forever" /\ pc[t] \in {"waitYield", "blocked"} /\ prio[t] = Ceiling
             /\ waitingFor[t] \in Sems /\ waitingFor[t] = sem[t]
  BY <1>a, <1>b, <1>w DEF Suspensions, Ceilings, CeilerPcs
<1>p. \A t, u \in Threads : u \in passed[t] => waitingFor[t] # None
  BY <1>a DEF Unpassed
<1>r. pc[running] \notin {"yield", "waitYield", "asleep"} => susp[running] = "no"
  BY <1>a DEF Yields, YieldPcs
<1>t. /\ \A t, u \in Threads : u \in passed[t] => PassedAfter(t, u)
      /\ \A t, u \in Threads : pc[u] = "hand" /\ waitingFor[t] = sem[u] /\ t # waiter[u] =>
           Activation(waiter[u]) < Activation(t)
      /\ \A t, u \in Threads : running = u /\ t # u => Activation(t) < Activation(u)
  BY <1>a DEF Turns
(* Nothing of interest happens but to the running thread.                  *)
<1> DEFINE Still(c) ==
             /\ running = c /\ running' = running /\ activations' = activations
             /\ passed' = passed /\ waitingFor' = waitingFor /\ owner' = owner /\ pc'[c] # "hand"
             /\ \A u \in Threads \ {c} : /\ pc'[u] = pc[u] /\ waiter'[u] = waiter[u]
                                         /\ sem'[u] = sem[u] /\ susp'[u] = susp[u]
<1>s. ASSUME NEW c \in Threads, Still(c) PROVE Turns'
  <2>1. \A t \in Threads : Activation(t)' = Activation(t)
    BY <1>s DEF Activation
  <2>2. ASSUME NEW t \in Threads, NEW u \in Threads, u \in passed'[t] PROVE PassedAfter(t, u)'
    BY <1>s, <1>t, <2>1, <2>2 DEF PassedAfter
  <2>3. ASSUME NEW t \in Threads, NEW u \in Threads, pc'[u] = "hand", waitingFor'[t] = sem'[u], t # waiter'[u]
        PROVE  (Activation(waiter[u]) < Activation(t))'
    <3>1. u # c /\ waiter'[u] = waiter[u] /\ waiter[u] \in Threads
      BY <1>a, <1>s, <2>3 DEF Entries
    <3>2. Activation(waiter[u]) < Activation(t)
      BY <1>s, <1>t, <2>3, <3>1
    <3> QED
      BY <1>s, <3>1, <3>2 DEF Activation
  <2>4. \A t, u \in Threads : running' = u /\ t # u => Activation(t)' < Activation(u)'
    BY <1>s, <1>t, <2>1
  <2> QED
    BY <2>2, <2>3, <2>4 DEF Turns
<1>1. ASSUME NEW t \in Threads, EnterCeil(t) PROVE Turns'
  <2>1. Still(t)
    BY <1>1, <1>b DEF EnterCeil, BeginCeiler, Executes, Goto, schedVars, threadVars,
         semVars, ghostVars
  <2> QED
    BY <1>s, <2>1
<1>2. ASSUME NEW t \in Threads, EnterTest(t) PROVE Turns'
  <2>0. EnterTestEffect(t)
    BY <1>2, EnterTestCases
  <2>1. Still(t)
    BY <1>b, <2>0 DEF EnterTestEffect, schedVars, threadVars, semVars, localVars, ghostVars
  <2> QED
    BY <1>s, <2>1
<1>3. ASSUME NEW t \in Threads, EnterWait(t) PROVE Turns'
  <2>a. /\ running' = running /\ activations' = activations /\ \A c \in Threads : Activation(c)' = Activation(c)
    BY <1>3 DEF EnterWait, schedVars, Activation
  <2>1. /\ running = t /\ pc[t] = "while" /\ pc' = [pc EXCEPT ![t] = "waitYield"]
        /\ owner[sem[t]] \notin {None, t}
        /\ waitingFor' = [waitingFor EXCEPT ![t] = sem[t]] /\ susp' = [susp EXCEPT ![t] = "forever"]
        /\ owner' = owner /\ sem' = sem /\ waiter' = waiter /\ passed' = passed
    BY <1>3 DEF EnterWait, OwnedByOther, Suspend, Executes, Goto, semVars, localVars, ghostVars
  <2>2. waitingFor[t] = None /\ passed[t] = {}
    BY <1>a, <1>r, <1>w, <2>1 DEF Unpassed
  <2>p. ASSUME NEW c \in Threads, NEW u \in Threads, u \in passed'[c] PROVE PassedAfter(c, u)'
    <3>1. c # t /\ waitingFor'[c] = waitingFor[c] /\ u \in passed[c]
      BY <1>b, <2>1, <2>2, <2>p
    <3> QED
      BY <1>b, <1>t, <2>a, <2>1, <3>1 DEF PassedAfter
  <2>h. ASSUME NEW c \in Threads, NEW u \in Threads, pc'[u] = "hand", waitingFor'[c] = sem'[u], c # waiter'[u]
        PROVE  (Activation(waiter[u]) < Activation(c))'
    <3>1. pc[u] = "hand" /\ owner[sem[u]] = None /\ waiter[u] \in Threads
      BY <1>a, <1>b, <2>1, <2>h DEF Entries, OwnersKnown, OwnerKnown
    <3>2. c # t
      BY <1>b, <2>1, <2>h, <3>1
    <3>3. Activation(waiter[u]) < Activation(c)
      BY <1>b, <1>t, <2>1, <2>h, <3>1, <3>2
    <3> QED
      BY <2>a, <2>1, <3>1, <3>3
  <2>r. \A c, u \in Threads : running' = u /\ c # u => Activation(c)' < Activation(u)'
    BY <1>t, <2>a
  <2> QED
    BY <2>p, <2>h, <2>r DEF Turns
<1>4. ASSUME NEW t \in Threads, EnterWoken(t) PROVE Turns'
  <2>1. waitingFor' = [waitingFor EXCEPT ![t] = None] /\ running = t /\ pc[t] = "blocked"
    BY <1>4 DEF EnterWoken, Executes
  <2>2. waitingFor[t] = None
    BY <1>r, <1>w, <2>1
  <2>3. waitingFor' = waitingFor
    BY <1>b, <2>1, <2>2
  <2>4. Still(t)
    BY <1>4, <1>b, <2>3 DEF EnterWoken, Executes, Goto, schedVars, semVars, localVars, ghostVars
  <2> QED
    BY <1>s, <2>4
<1>5. ASSUME NEW t \in Threads, EnterDone(t) PROVE Turns'
  <2>1. Still(t)
    BY <1>5, <1>b DEF EnterDone, OwnedByOther, Executes, Goto, schedVars, threadVars,
         localVars, ghostVars
  <2> QED
    BY <1>s, <2>1
<1>6. ASSUME NEW t \in Threads, EnterOwn(t) PROVE Turns'
  <2>a. /\ running' = running /\ activations' = activations /\ \A c \in Threads : Activation(c)' = Activation(c)
    BY <1>6 DEF EnterOwn, schedVars, Activation
  <2>1. /\ running = t /\ pc[t] = "own" /\ pc' = [pc EXCEPT ![t] = "endEnter"]
        /\ owner' = [owner EXCEPT ![sem[t]] = t]
        /\ sem' = sem /\ waiter' = waiter /\ waitingFor' = waitingFor /\ susp' = susp
        /\ passed' = [c \in Threads |-> IF c = t THEN {}
                        ELSE IF waitingFor[c] = sem[t] THEN passed[c] \cup {t} ELSE passed[c]]
    BY <1>6 DEF EnterOwn, Gets, Executes, Goto, threadVars, localVars
  <2>2. sem[t] \in Sems /\ owner[sem[t]] \in {None, t}
    BY <1>a, <1>b, <2>1 DEF OwnersKnown, OwnerKnown, FreePcs
  <2>p. ASSUME NEW c \in Threads, NEW u \in Threads, u \in passed'[c] PROVE PassedAfter(c, u)'
    <3>1. c # t /\ (u \in passed[c] \/ u = t)
      BY <2>1, <2>p
    <3>2. CASE u = t
      <4>1. Activation(c) < Activation(t)
        BY <1>t, <2>1, <3>1
      <4> QED
        BY <2>a, <3>1, <3>2, <4>1 DEF PassedAfter
    <3>3. CASE u # t /\ u \in passed[c]
      <4>1. PassedAfter(c, u) /\ waitingFor[c] # None
        BY <1>p, <1>t, <3>3
      <4>2. waitingFor[c] \in Sems
        BY <1>w, <4>1
      <4>3. owner[waitingFor[c]] = u => waitingFor[c] # sem[t]
        BY <2>2, <3>3
      <4> QED
        BY <1>b, <2>a, <2>1, <3>3, <4>1, <4>2, <4>3 DEF PassedAfter
    <3> QED
      BY <3>1, <3>2, <3>3
  <2>h. ASSUME NEW c \in Threads, NEW u \in Threads, pc'[u] = "hand", waitingFor'[c] = sem'[u], c # waiter'[u]
        PROVE  (Activation(waiter[u]) < Activation(c))'
    <3>1. pc[u] = "hand" /\ waiter[u] \in Threads
      BY <1>a, <1>b, <2>1, <2>h DEF Entries
    <3>2. Activation(waiter[u]) < Activation(c)
      BY <1>t, <2>1, <2>h, <3>1
    <3> QED
      BY <2>a, <2>1, <3>1, <3>2
  <2>r. \A c, u \in Threads : running' = u /\ c # u => Activation(c)' < Activation(u)'
    BY <1>t, <2>a
  <2> QED
    BY <2>p, <2>h, <2>r DEF Turns
<1>7. ASSUME NEW t \in Threads, EnterEnd(t) PROVE Turns'
  <2>1. Still(t)
    BY <1>7, <1>b DEF EnterEnd, EndCeiler, Executes, Goto, schedVars, threadVars, semVars,
         ghostVars
  <2> QED
    BY <1>s, <2>1
<1>8. ASSUME NEW t \in Threads, LeaveCeil(t) PROVE Turns'
  <2>1. Still(t)
    BY <1>8, <1>b DEF LeaveCeil, BeginCeiler, Executes, Goto, schedVars, threadVars,
         semVars, ghostVars
  <2> QED
    BY <1>s, <2>1
<1>9. ASSUME NEW t \in Threads, LeaveFree(t) PROVE Turns'
  <2>a. /\ running' = running /\ activations' = activations /\ \A c \in Threads : Activation(c)' = Activation(c)
    BY <1>9 DEF LeaveFree, schedVars, Activation
  <2>1. /\ running = t /\ pc[t] = "free" /\ pc' = [pc EXCEPT ![t] = "find"]
        /\ owner' = [owner EXCEPT ![sem[t]] = None]
        /\ sem' = sem /\ waiter' = waiter /\ waitingFor' = waitingFor /\ susp' = susp /\ passed' = passed
    BY <1>9 DEF LeaveFree, Executes, Goto, threadVars, localVars, ghostVars
  <2>2. sem[t] \in Sems /\ owner[sem[t]] = t
    BY <1>a, <1>b, <2>1 DEF OwnersKnown, OwnerKnown, FreePcs
  <2>p. ASSUME NEW c \in Threads, NEW u \in Threads, u \in passed'[c] PROVE PassedAfter(c, u)'
    <3>1. PassedAfter(c, u) /\ waitingFor[c] \in Sems
      BY <1>p, <1>t, <1>w, <2>1, <2>p
    <3>2. owner[waitingFor[c]] = u /\ u # running => waitingFor[c] # sem[t]
      BY <2>1, <2>2
    <3> QED
      BY <1>b, <2>a, <2>1, <3>1, <3>2 DEF PassedAfter
  <2>h. ASSUME NEW c \in Threads, NEW u \in Threads, pc'[u] = "hand", waitingFor'[c] = sem'[u], c # waiter'[u]
        PROVE  (Activation(waiter[u]) < Activation(c))'
    <3>1. pc[u] = "hand" /\ waiter[u] \in Threads
      BY <1>a, <1>b, <2>1, <2>h DEF Entries
    <3>2. Activation(waiter[u]) < Activation(c)
      BY <1>t, <2>1, <2>h, <3>1
    <3> QED
      BY <2>a, <2>1, <3>1, <3>2
  <2>r. \A c, u \in Threads : running' = u /\ c # u => Activation(c)' < Activation(u)'
    BY <1>t, <2>a
  <2> QED
    BY <2>p, <2>h, <2>r DEF Turns
<1>10. ASSUME NEW t \in Threads, LeaveFind(t) PROVE Turns'
  <2>0. LeaveFindEffect(t)
    BY <1>10, LeaveFindCases
  <2>a. /\ running' = running /\ activations' = activations /\ \A c \in Threads : Activation(c)' = Activation(c)
    BY <2>0 DEF LeaveFindEffect, schedVars, Activation
  <2>1. /\ running = t /\ pc[t] = "find" /\ \E next \in {"hand", "endLeave"} : pc' = [pc EXCEPT ![t] = next]
        /\ owner' = owner /\ sem' = sem /\ waitingFor' = waitingFor /\ susp' = susp /\ passed' = passed
        /\ \A c \in Threads \ {t} : waiter'[c] = waiter[c]
    BY <1>b, <2>0 DEF LeaveFindEffect, threadVars, ghostVars
  <2>p. ASSUME NEW c \in Threads, NEW u \in Threads, u \in passed'[c] PROVE PassedAfter(c, u)'
    BY <1>b, <1>t, <2>a, <2>1, <2>p DEF PassedAfter
  <2>h. ASSUME NEW c \in Threads, NEW u \in Threads, pc'[u] = "hand", waitingFor'[c] = sem'[u], c # waiter'[u]
        PROVE  (Activation(waiter[u]) < Activation(c))'
    <3>1. CASE u # t
      <4>1. pc[u] = "hand" /\ waiter[u] \in Threads /\ waiter'[u] = waiter[u]
        BY <1>a, <1>b, <2>1, <2>h, <3>1 DEF Entries
      <4>2. Activation(waiter[u]) < Activation(c)
        BY <1>t, <2>1, <2>h, <4>1
      <4> QED
        BY <2>a, <4>1, <4>2
    <3>2. CASE u = t
      <4>1. PICK v \in Threads :
              /\ waitingFor[v] = sem[t] /\ waiter' = [waiter EXCEPT ![t] = v]
              /\ \A x \in Threads \ {v} :
                   waitingFor[x] = sem[t] /\ prio[x] = prio[v] => Activation(v) < Activation(x)
        BY <1>b, <2>0, <2>h, <3>2 DEF LeaveFindEffect
      <4>2. waiter'[t] = v /\ waitingFor[c] = sem[t] /\ sem[t] \in Sems
        BY <1>b, <2>1, <2>h, <3>2, <4>1 DEF FreePcs
      <4>3. prio[c] = prio[v]
        BY <1>w, <4>1, <4>2
      <4>4. Activation(v) < Activation(c)
        BY <2>h, <3>2, <4>1, <4>2, <4>3
      <4> QED
        BY <2>a, <3>2, <4>2, <4>4
    <3> QED
      BY <3>1, <3>2
  <2>r. \A c, u \in Threads : running' = u /\ c # u => Activation(c)' < Activation(u)'
    BY <1>t, <2>a
  <2> QED
    BY <2>p, <2>h, <2>r DEF Turns
<1>11. ASSUME NEW t \in Threads, LeaveHand(t) PROVE Turns'
  <2>a. /\ running' = running /\ activations' = activations /\ \A c \in Threads : Activation(c)' = Activation(c)
    BY <1>11 DEF LeaveHand, schedVars, Activation
  <2>1. /\ running = t /\ pc[t] = "hand" /\ pc' = [pc EXCEPT ![t] = "endLeave"]
        /\ owner' = [owner EXCEPT ![sem[t]] = waiter[t]]
        /\ waitingFor' = [waitingFor EXCEPT ![waiter[t]] = None] /\ susp' = [susp EXCEPT ![waiter[t]] = "no"]
        /\ sem' = sem /\ waiter' = waiter
        /\ passed' = [c \in Threads |-> IF c = waiter[t] THEN {}
                        ELSE IF waitingFor[c] = sem[t] THEN passed[c] \cup {waiter[t]} ELSE passed[c]]
    BY <1>11 DEF LeaveHand, Gets, Executes, Goto, localVars
  <2>2. /\ sem[t] \in Sems /\ owner[sem[t]] = None /\ waiter[t] \in Threads
        /\ waitingFor[waiter[t]] = sem[t] /\ pc[waiter[t]] \in {"waitYield", "blocked"} /\ waiter[t] # t
    <3>1. /\ sem[t] \in Sems /\ owner[sem[t]] = None /\ waiter[t] \in Threads
          /\ waitingFor[waiter[t]] = sem[t]
      BY <1>a, <1>b, <2>1 DEF OwnersKnown, OwnerKnown, FreePcs, Entries
    <3>2. pc[waiter[t]] \in {"waitYield", "blocked"}
      BY <1>w, <3>1
    <3> QED
      BY <2>1, <3>1, <3>2
  <2>p. ASSUME NEW c \in Threads, NEW u \in Threads, u \in passed'[c] PROVE PassedAfter(c, u)'
    <3>1. u \in passed[c] \/ (u = waiter[t] /\ waitingFor[c] = sem[t])
      BY <1>b, <2>1, <2>p
    <3>2. c # waiter[t] /\ waitingFor'[c] = waitingFor[c]
      BY <1>b, <2>1, <2>p
    <3>3. CASE u = waiter[t] /\ waitingFor[c] = sem[t]
      <4>1. owner'[sem[t]] = u /\ susp'[u] = "no" /\ pc'[u] = pc[u] /\ u # running'
        BY <1>b, <2>a, <2>1, <2>2, <3>3
      <4> QED
        BY <2>2, <3>2, <3>3, <4>1 DEF PassedAfter
    <3>4. CASE u \in passed[c]
      <4>1. PassedAfter(c, u) /\ waitingFor[c] \in Sems
        BY <1>p, <1>t, <1>w, <3>4
      <4>2. owner[waitingFor[c]] = u => waitingFor[c] # sem[t]
        BY <2>2
      <4>3. u # running => pc'[u] = pc[u]
        BY <1>b, <2>1
      <4>4. susp[u] = "no" => susp'[u] = "no"
        BY <1>b, <2>1
      <4> QED
        BY <1>b, <2>a, <2>1, <3>2, <4>1, <4>2, <4>3, <4>4 DEF PassedAfter
    <3> QED
      BY <3>1, <3>3, <3>4
  <2>h. ASSUME NEW c \in Threads, NEW u \in Threads, pc'[u] = "hand", waitingFor'[c] = sem'[u], c # waiter'[u]
        PROVE  (Activation(waiter[u]) < Activation(c))'
    <3>1. pc[u] = "hand" /\ waiter[u] \in Threads /\ sem[u] \in Sems /\ u # t
      BY <1>a, <1>b, <2>1, <2>h DEF Entries, FreePcs
    <3>2. waitingFor[c] = sem[u]
      BY <1>b, <2>1, <2>h, <3>1
    <3>3. Activation(waiter[u]) < Activation(c)
      BY <1>t, <2>1, <2>h, <3>1, <3>2
    <3> QED
      BY <2>a, <2>1, <3>1, <3>3
  <2>r. \A c, u \in Threads : running' = u /\ c # u => Activation(c)' < Activation(u)'
    BY <1>t, <2>a
  <2> QED
    BY <2>p, <2>h, <2>r DEF Turns
<1>12. ASSUME NEW t \in Threads, LeaveEnd(t) PROVE Turns'
  <2>1. Still(t)
    BY <1>12, <1>b DEF LeaveEnd, EndCeiler, Executes, Goto, schedVars, threadVars, semVars,
         ghostVars
  <2> QED
    BY <1>s, <2>1
<1>13. ASSUME NEW t \in Threads, LeaveRestore(t) PROVE Turns'
  <2>1. Still(t)
    BY <1>13, <1>b DEF LeaveRestore, Executes, Goto, schedVars, threadVars, semVars,
         localVars, ghostVars
  <2> QED
    BY <1>s, <2>1
<1>14. ASSUME NEW t \in Threads, LeaveReturn(t) PROVE Turns'
  <2>1. Still(t)
    BY <1>14, <1>b DEF LeaveReturn, Executes, Goto, schedVars, threadVars, semVars, ghostVars
  <2> QED
    BY <1>s, <2>1
<1>15. ASSUME NEW t \in Threads, Sleep(t) PROVE Turns'
  <2>1. Still(t)
    BY <1>15, <1>b DEF Sleep, BeginCeiler, Suspend, Executes, Goto, schedVars, semVars, ghostVars
  <2> QED
    BY <1>s, <2>1
<1>16. ASSUME NEW t \in Threads, SleepScopeEnd(t) PROVE Turns'
  <2>1. Still(t)
    BY <1>16, <1>b DEF SleepScopeEnd, EndCeiler, Executes, Goto, schedVars, threadVars,
         semVars, ghostVars
  <2> QED
    BY <1>s, <2>1
<1>17. ASSUME NEW t \in Threads, TimeReached(t) PROVE Turns'
  <2>a. /\ running' = running /\ activations' = activations /\ \A c \in Threads : Activation(c)' = Activation(c)
    BY <1>17 DEF TimeReached, Expire, schedVars, Activation
  <2>1. /\ pc' = pc /\ owner' = owner /\ sem' = sem /\ waiter' = waiter /\ waitingFor' = waitingFor /\ passed' = passed
        /\ \A c \in Threads : susp[c] = "no" => susp'[c] = "no"
    BY <1>17, <1>b DEF TimeReached, Expire, semVars, ghostVars
  <2>p. ASSUME NEW c \in Threads, NEW u \in Threads, u \in passed'[c] PROVE PassedAfter(c, u)'
    BY <1>t, <2>a, <2>1, <2>p DEF PassedAfter
  <2>h. ASSUME NEW c \in Threads, NEW u \in Threads, pc'[u] = "hand", waitingFor'[c] = sem'[u], c # waiter'[u]
        PROVE  (Activation(waiter[u]) < Activation(c))'
    <3>1. waiter[u] \in Threads
      BY <1>a, <2>1, <2>h DEF Entries
    <3> QED
      BY <1>t, <2>a, <2>1, <2>h, <3>1
  <2>r. \A c, u \in Threads : running' = u /\ c # u => Activation(c)' < Activation(u)'
    BY <1>t, <2>a
  <2> QED
    BY <2>p, <2>h, <2>r DEF Turns
<1>18. ASSUME NEW t \in Threads, NEW s \in Sems, Enter(t, s) PROVE Turns'
  <2>1. Still(t)
    BY <1>18, <1>b DEF Enter, Executes, Goto, schedVars, threadVars, semVars
  <2> QED
    BY <1>s, <2>1
<1>19. ASSUME NEW t \in Threads, NEW s \in Sems, Leave(t, s) PROVE Turns'
  <2>0. LeaveEffect(t, s)
    BY <1>19, LeaveCases
  <2>1. Still(t)
    BY <1>b, <2>0 DEF LeaveEffect, schedVars, threadVars, ghostVars
  <2> QED
    BY <1>s, <2>1
<1>20. ASSUME Dispatch PROVE Turns'
  <2>1. /\ ListOK' /\ running' \in All /\ susp[running'] = "no" /\ susp' = susp
        /\ (running' = running /\ activations' = activations) \/ Activate(running')
        /\ owner' = owner /\ sem' = sem /\ waiter' = waiter /\ waitingFor' = waitingFor /\ passed' = passed
        /\ \A c \in Threads : (c # running => pc'[c] = pc[c]) /\ (pc'[c] = "hand" => pc[c] = "hand")
    BY <1>20, <1>b DEF Dispatch, Chooses, EnterPcs, LeavePcs, FreePcs
  <2>2. ASSUME NEW c \in Threads, NEW u \in Threads, c # running', Activation(c) < Activation(u)
        PROVE  Activation(c)' < Activation(u)'
    <3>1. CASE running' = running /\ activations' = activations
      BY <2>2, <3>1 DEF Activation
    <3>2. CASE Activate(running') /\ u # running'
      BY <1>a, <2>1, <2>2, <3>2, ActivateList
    <3>3. CASE Activate(running') /\ u = running'
      BY <1>a, <2>1, <2>2, <3>3, ActivateList
    <3> QED
      BY <2>1, <3>1, <3>2, <3>3
  <2>p. ASSUME NEW c \in Threads, NEW u \in Threads, u \in passed'[c] PROVE PassedAfter(c, u)'
    <3>1. PassedAfter(c, u) /\ c # running'
      BY <1>p, <1>t, <1>w, <2>1, <2>p
    <3>2. CASE Activation(c) < Activation(u)
      BY <2>2, <3>1, <3>2 DEF PassedAfter
    <3>3. CASE u # running /\ ~(Activation(c) < Activation(u))
      <4>1. CASE u = running'
        <5>1. Activate(running') /\ running' # Idle
          BY <2>1, <3>3, <4>1
        <5>2. Activation(c)' < Activation(u)'
          BY <1>a, <2>1, <3>1, <4>1, <5>1, ActivateList
        <5> QED
          BY <3>1, <5>2 DEF PassedAfter
      <4>2. CASE u # running'
        BY <2>1, <3>1, <3>3, <4>2 DEF PassedAfter
      <4> QED
        BY <4>1, <4>2
    <3> QED
      BY <3>1, <3>2, <3>3 DEF PassedAfter
  <2>h. ASSUME NEW c \in Threads, NEW u \in Threads, pc'[u] = "hand", waitingFor'[c] = sem'[u], c # waiter'[u]
        PROVE  (Activation(waiter[u]) < Activation(c))'
    <3>1. pc[u] = "hand" /\ waiter[u] \in Threads /\ waitingFor[waiter[u]] = sem[u] /\ sem[u] \in Sems
      BY <1>a, <1>b, <2>1, <2>h DEF Entries, OwnersKnown, OwnerKnown, FreePcs
    <3>2. waiter[u] # running'
      BY <1>w, <2>1, <3>1
    <3>3. Activation(waiter[u]) < Activation(c)
      BY <1>t, <2>1, <2>h, <3>1
    <3> QED
      BY <2>1, <2>2, <3>1, <3>2, <3>3
  <2>r. ASSUME NEW c \in Threads, NEW u \in Threads, running' = u, c # u PROVE Activation(c)' < Activation(u)'
    <3>1. CASE running' = running /\ activations' = activations
      BY <1>t, <2>r, <3>1 DEF Activation
    <3>2. CASE Activate(running')
      <4>1. Activate(u) /\ u # Idle
        BY <2>r, <3>2
      <4> QED
        BY <1>a, <2>r, <4>1, ActivateList
    <3> QED
      BY <2>1, <3>1, <3>2
  <2> QED
    BY <2>p, <2>h, <2>r DEF Turns
<1> QED
  BY <1>1, <1>2, <1>3, <1>4, <1>5, <1>6, <1>7, <1>8, <1>9, <1>10, <1>11, <1>12, <1>13, <1>14, <1>15,
       <1>16, <1>17, <1>18, <1>19, <1>20, DispatchCases
     DEF Next, EnterStep, LeaveStep

-----------------------------------------------------------------------------
(* At the start nobody is inside enter() or leave().                       *)
LEMMA InitSem == Init => SemInvariant
<1> SUFFICES ASSUME Init PROVE SemInvariant
  OBVIOUS
<1>0. ListOK
  BY InitialList DEF Init
<1> USE SchedulingAssumption, SemaphoreAssumption DEF Init, SchedulingInit
<1>1. basePrio \in [All -> 0..Ceiling - 1] /\ Idle \in All /\ Threads \subseteq All
  BY DEF All
<1>2. SemTypes
  <2>1. basePrio \in [All -> 0..Ceiling] /\ 0 \in 0..Ceiling /\ 0 \in 0..MaxEnter
    BY <1>1
  <2>2. held \in [All -> [Sems -> 0..MaxEnter]]
    BY <2>1
  <2>3. running \in All /\ presel \in All \cup {NoThread} /\ cut \subseteq Threads
    BY <1>1
  <2>4. prio \in [All -> 0..Ceiling] /\ saved \in [All -> 0..Ceiling] /\ callerPrio \in [All -> 0..Ceiling]
    BY <2>1
  <2>5. susp \in [All -> {"no", "timed", "forever"}]
    OBVIOUS
  <2>6. basePrio \in [All -> 0..Ceiling] /\ basePrio \in Priorities
    BY <2>1
  <2>7. lent \subseteq Threads /\ overtaken \in BOOLEAN
    OBVIOUS
  <2>8. passed \in [Threads -> SUBSET Threads] /\ waiter \in [All -> Threads \cup {None}]
    OBVIOUS
  <2>9. waitingFor \in [All -> Sems \cup {None}] /\ sem \in [All -> Sems \cup {None}]
    OBVIOUS
  <2>10. owner \in [Sems -> Threads \cup {None}] /\ enterCnt \in [Sems -> Int]
         /\ ownerPrio \in [Sems -> 0..Ceiling]
    BY <2>1
  <2>11. pc \in [All -> FreePcs \cup EnterPcs \cup LeavePcs]
    BY DEF FreePcs
  <2> QED
    BY <2>2, <2>3, <2>4, <2>5, <2>6, <2>7, <2>8, <2>9, <2>10, <2>11 DEF SemTypes
<1>3. Entries /\ Unpassed
  BY <1>1 DEF Entries, Unpassed, EnterPcs
<1>4. Ceilings
  BY <1>1 DEF Ceilings, CeilerPcs
<1>5. Suspensions /\ Selected /\ Yields
  BY <1>1 DEF Suspensions, Selected, Yields, FreePcs
<1>6. OwnersKnown /\ Counts /\ Exclusive /\ Handing
  BY <1>1 DEF OwnersKnown, OwnerKnown, Counts, Exclusive, Active, Handing, EnterPcs, LeavePcs
<1>7. Originals
  <2>1. ASSUME NEW t \in Threads PROVE Original(t)
    BY <1>1 DEF Original, EnterPcs
  <2> QED
    BY <2>1 DEF Originals
<1>8. Turns
  BY <1>1 DEF Turns
<1> QED
  BY <1>0, <1>2, <1>3, <1>4, <1>5, <1>6, <1>7, <1>8 DEF SemInvariant, SemAlways, Sound

(* The invariant holds always.                                             *)
LEMMA SemHolds == Spec => []SemInvariant
<1>1. ASSUME SemInvariant, Next PROVE SemInvariant'
  <2>1. SemAlways'
    BY <1>1, NextTypes, NextEntries, NextList, NextCeilings, NextSuspensions, NextSelected, NextUnpassed
       DEF SemInvariant, SemAlways
  <2>2. ASSUME ~overtaken' PROVE Sound'
    <3>1. SemAlways /\ Sound
      BY <1>1, <2>2, NotOvertaken DEF SemInvariant
    <3>2. Exclusive'
      BY <1>1, <2>2, NextExclusive
    <3> QED
      BY <1>1, <3>1, <3>2, NextOwners, NextCounts, NextHanding, NextOriginals, NextTurns DEF Sound
  <2> QED
    BY <2>1, <2>2 DEF SemInvariant
<1>2. ASSUME SemInvariant, UNCHANGED vars PROVE SemInvariant'
  <2> USE <1>2 DEF vars, schedVars, threadVars, semVars, localVars, ghostVars
  <2>1. SemTypes' /\ Entries' /\ ListOK' /\ Ceilings' /\ Suspensions'
    BY DEF SemInvariant, SemAlways, SemTypes, Entries, ListOK, Ceilings, Suspensions
  <2>2. Selected' /\ Yields' /\ Unpassed'
    BY DEF SemInvariant, SemAlways, Selected, Yields, Unpassed
  <2>3. (OwnersKnown' <=> OwnersKnown) /\ (Counts' <=> Counts) /\ (Exclusive' <=> Exclusive)
    BY DEF OwnersKnown, OwnerKnown, Counts, Exclusive, Active
  <2>4. (Handing' <=> Handing) /\ (Originals' <=> Originals)
    BY DEF Handing, Originals, Original
  <2>5. Turns' <=> Turns
    BY DEF Turns, PassedAfter, Activation
  <2> QED
    BY <2>1, <2>2, <2>3, <2>4, <2>5 DEF SemInvariant, SemAlways, Sound
<1> QED
  BY InitSem, <1>1, <1>2, PTL DEF Spec

(* enter() excludes: a thread that has entered is the owner, nobody else   *)
(* has entered, and the count is exact, although enter() and leave() rely  *)
(* on the ceiling priority alone, for any priorities of the threads, until *)
(* a preselection left by a yield overtakes one within a ceiler.           *)
THEOREM SemaphoreExcludes == Spec => []MutualExclusion
<1>1. ASSUME SemInvariant PROVE MutualExclusion
  <2>1. SemAlways /\ (overtaken \/ Counts)
    BY <1>1 DEF SemInvariant, Sound
  <2>2. SchedulingTypeOK
    BY <2>1 DEF SchedulingTypeOK, SemAlways, SemTypes, ListOK
  <2>3. TypeOK
    BY <2>1, <2>2 DEF TypeOK, SemAlways, SemTypes, FreePcs
  <2>4. ASSUME NEW s \in Sems, NEW t \in Threads, held[t][s] > 0, ~overtaken
        PROVE  /\ owner[s] = t
               /\ \A u \in Threads \ {t} : held[u][s] = 0
               /\ pc[t] = "run" => enterCnt[s] = held[t][s]
    <3>1. owner[s] = t
      BY <2>1, <2>4 DEF Counts
    <3>2. ASSUME NEW u \in Threads \ {t} PROVE held[u][s] = 0
      <4>1. held[u][s] \in 0..MaxEnter
        BY <2>1, Basics DEF SemAlways, SemTypes
      <4> QED
        BY <2>1, <2>4, <3>1, <4>1, SemaphoreAssumption DEF Counts
    <3>3. pc[t] = "run" => enterCnt[s] = held[t][s]
      BY <2>1, <2>4, <3>1 DEF Counts
    <3> QED
      BY <3>1, <3>2, <3>3
  <2> QED
    BY <2>3, <2>4 DEF MutualExclusion
<1> QED
  BY SemHolds, <1>1, PTL

(* leave() forgets no waiting thread, unless one within a ceiler was       *)
(* overtaken.                                                              *)
THEOREM WaitersRemembered == Spec => []NoForgottenWaiter
<1>1. ASSUME SemInvariant PROVE NoForgottenWaiter
  <2>1. overtaken \/ Handing
    BY <1>1 DEF SemInvariant, Sound
  <2> QED
    BY <2>1 DEF Handing, NoForgottenWaiter
<1> QED
  BY SemHolds, <1>1, PTL

(* A thread without a semaphore has its original priority again, unless it *)
(* has called enter() with a priority lent to it, or one within a ceiler   *)
(* was overtaken.                                                          *)
THEOREM PriorityRestored == Spec => []RestoredUnlessReentered
<1>1. ASSUME SemInvariant PROVE RestoredUnlessReentered
  <2>1. SemAlways /\ (overtaken \/ Originals)
    BY <1>1 DEF SemInvariant, Sound
  <2> QED
    BY <2>1 DEF Originals, Original, RestoredUnlessReentered, WithoutSemaphore
<1> QED
  BY SemHolds, <1>1, PTL

(* While a thread waits for a semaphore, no other gets it twice: nobody    *)
(* takes it in enter(), and leave() gives it to the thread activated first,*)
(* which cannot be one that has had it since.                              *)
THEOREM WaitersInTurn == Spec => PassedOnce
<1>1. ASSUME SemInvariant, [Next]_vars
      PROVE  [\A s \in Sems : \A t, u \in Threads :
                waitingFor[t] = s /\ owner[s] # u /\ owner'[s] = u /\ u # t
                  => u \notin passed[t] \/ overtaken]_vars
  <2> SUFFICES ASSUME Next, ~overtaken, NEW s \in Sems, NEW t \in Threads, NEW u \in Threads,
                      waitingFor[t] = s, owner[s] # u, owner'[s] = u, u # t, u \in passed[t]
               PROVE  FALSE
    BY <1>1
  <2>0. SemAlways /\ Sound
    BY <1>1 DEF SemInvariant
  <2> USE Basics
  <2>1. /\ owner \in [Sems -> Threads \cup {None}] /\ u # None
        /\ \A c \in All : pc[c] \notin FreePcs => sem[c] \in Sems
    BY <2>0 DEF SemAlways, SemTypes
  <2>2. \/ \E c \in Threads : EnterOwn(c) \/ LeaveFree(c) \/ LeaveHand(c)
        \/ owner' = owner
    BY DEF Next, EnterStep, LeaveStep, EnterCeil, EnterTest, EnterWait, EnterWaitYield, EnterWoken, EnterDone,
       EnterEnd, LeaveCeil, LeaveFind, LeaveEnd, LeaveRestore, LeaveReturn, Sleep, SleepScopeEnd,
       YieldReturn, TimeReached, Enter, Leave, SysTick, IdleLoop, semVars
  <2>3. ASSUME NEW c \in Threads, EnterOwn(c) PROVE FALSE
    <3>1. pc[c] = "own" /\ sem[c] \in Sems /\ owner' = [owner EXCEPT ![sem[c]] = c]
      BY <2>1, <2>3 DEF EnterOwn, Executes, FreePcs
    <3>2. c = u /\ sem[c] = s
      BY <2>1, <3>1
    <3>3. owner[s] = None
      BY <2>0, <3>1, <3>2 DEF Sound, OwnersKnown, OwnerKnown
    <3>4. PICK v \in Threads : sem[v] = s /\ pc[v] \in {"find", "hand"}
      BY <2>0, <3>3 DEF Sound, Handing
    <3>5. Active(v) /\ Active(c) /\ v # c
      BY <3>1, <3>2, <3>3, <3>4 DEF Active
    <3> QED
      BY <2>0, <3>5 DEF Sound, Exclusive
  <2>4. ASSUME NEW c \in Threads, LeaveFree(c) PROVE FALSE
    BY <2>1, <2>4 DEF LeaveFree
  <2>5. ASSUME NEW c \in Threads, LeaveHand(c) PROVE FALSE
    <3>1. pc[c] = "hand" /\ sem[c] \in Sems /\ owner' = [owner EXCEPT ![sem[c]] = waiter[c]]
      BY <2>1, <2>5 DEF LeaveHand, Executes, FreePcs
    <3>2. waiter[c] = u /\ sem[c] = s
      BY <2>1, <3>1
    <3>3. owner[s] = None
      BY <2>0, <3>1, <3>2 DEF Sound, OwnersKnown, OwnerKnown
    <3>4. Activation(u) < Activation(t)
      BY <2>0, <3>1, <3>2 DEF Sound, Turns
    <3>5. Activation(t) < Activation(u)
      BY <2>0, <2>1, <3>3 DEF Sound, Turns, PassedAfter
    <3>6. Activation(t) \in Nat /\ Activation(u) \in Nat
      BY <2>0, ActivationsDiffer DEF SemAlways
    <3> QED
      BY <3>4, <3>5, <3>6
  <2> QED
    BY <2>2, <2>3, <2>4, <2>5
<1> QED
  BY SemHolds, <1>1, PTL DEF Spec, PassedOnce

-----------------------------------------------------------------------------
(* Waiting: the inductive invariant.                                       *)

(* Where threads may be, where with the ceiling priority, and where they   *)
(* may be suspended meanwhile.                                             *)
Code == {"run"} \cup SyncPcs \cup WaitPcs \cup UnblockPcs \cup {"respond"} \cup IoPcs

ScopePcs == {"try", "register", "suspend", "suspendYield", "unregister", "endScope", "partner",
             "resume", "endWake",
             "waitOwn", "waitSleep", "waitYield", "waitWoken", "waitEnd",
             "unblockTest", "unblockResume", "unblockClear", "unblockEnd"}
SleepPcs == {"suspendYield", "unregister", "waitYield", "waitWoken"}

WaitingTypes ==
  /\ running \in All
  /\ prio \in [All -> 0..Ceiling] /\ saved \in [All -> 0..Ceiling]
  /\ susp \in [All -> {"no", "timed", "forever"}]
  /\ presel \in All \cup {NoThread} /\ cut \subseteq Threads
  /\ pc \in [All -> Code]
  /\ broken \in BOOLEAN /\ stray \in BOOLEAN

(* Nobody has the ceiling priority but within the scope.                   *)
Scopes ==
  \A t \in All : /\ IF pc[t] \in ScopePcs THEN prio[t] = Ceiling ELSE prio[t] < Ceiling
                 /\ saved[t] < Ceiling

(* Which thread executes what, and where it may be suspended.              *)
Places ==
  /\ pc[Idle] = "run" /\ susp[Idle] = "no"
  /\ pc[Writer] \in {"run", "respond"} \cup SyncPcs \cup UnblockPcs
  /\ pc[Reader] \in {"run"} \cup SyncPcs \cup WaitPcs \cup IoPcs
  /\ susp[Writer] # "no" => pc[Writer] \in {"suspendYield", "unregister"}
  /\ susp[Reader] # "no" =>
       pc[Reader] \in {"suspendYield", "unregister", "waitYield", "waitWoken"} \cup IoPcs
  /\ susp[running] # "no" => pc[running] \in WaitYieldPcs
  /\ \A t \in cut : pc[t] \in WaitYieldPcs

(* Unless a ceiler was broken, a thread within the scope has the CPU, but  *)
(* for one that has suspended itself there.                                *)
Undisturbed ==
  ~broken => \A t \in Threads : pc[t] \in ScopePcs \ SleepPcs => running = t

(* On its way to wake the other side.                                      *)
Coming(t) ==
  \/ pc[t] \in {"endScope", "yield"} /\ ok[t]
  \/ pc[t] \in {"wake", "partner"}
  \/ pc[t] = "resume" /\ partner[t]

FifoWaits ==
  /\ \A t \in Sides : /\ t \in suspended <=> pc[t] \in {"suspend", "suspendYield", "unregister"}
                      /\ pc[t] = "suspend" => timeout[t] # "zero"
  /\ ~broken => \A t \in Sides :
       /\ pc[t] \in {"register", "suspend"} => ~Possible(t)
       /\ WaitsForFifo(t) /\ Possible(t) => Coming(Partner(t))

(* Who was waiting for the fifo when its writer looked has not gone on to  *)
(* another wait when the writer resumes it, even if a ceiler was broken:   *)
(* syncGet yields on its way out, and the writer has the ceiling priority. *)
(* No SysTick has come in the middle of that yield, and no preselection    *)
(* leads back.                                                             *)
ResumesFifoWait ==
  pc[Writer] = "resume" /\ partner[Writer] =>
    \/ pc[Reader] \in {"suspend", "suspendYield", "unregister", "endScope"}
    \/ pc[Reader] = "yield" /\ Reader \notin cut
    \/ pc[Reader] \in {"yield", "retry", "wake", "run"} /\ running # Reader /\ presel # Reader

(* Who waits without timeout is awake for a reason.                        *)
AwakeForAReason ==
  \A t \in Sides :
    pc[t] \in {"suspendYield", "unregister", "endScope", "yield", "retry"} /\ timeout[t] = "forever" =>
      /\ susp[t] \in {"no", "forever"}
      /\ susp[t] = "no" => Possible(t) \/ t \in futile \/ (t = Reader /\ stray)

Asleep == pc[Reader] \in {"waitYield", "waitWoken"} /\ susp[Reader] # "no"

(* The barrier has an owner while it is waited for, and an owner that was  *)
(* resumed finds it cleared.                                               *)
BarrierOwned ==
  /\ barrierOwner = Reader =>
       pc[Reader] \in {"waitSleep", "waitYield", "waitWoken", "waitEnd", "waitClear"}
  /\ pc[Reader] \in {"waitYield", "waitWoken"} => susp[Reader] \in {"no", timeOutAt}
  /\ ~broken =>
       /\ pc[Writer] = "unblockResume" => barrierOwner # Nobody
       /\ pc[Reader] = "waitSleep" \/ Asleep => barrierOwner = Reader
       /\ pc[Writer] \in {"unblockClear", "unblockEnd"} => ~Asleep
       /\ pc[Reader] \in {"waitYield", "waitWoken"} /\ susp[Reader] = "no" /\ timeOutAt = "forever" /\ ~stray
            => barrierOwner = Nobody \/ pc[Writer] = "unblockClear"
       /\ pc[Reader] = "waitEnd" /\ ~signalled /\ timeOutAt = "forever" => stray

(* A response that has come is on its way to wake the client.              *)
ResponseComing ==
  ~responsePending =>
    /\ pc[Reader] = "waitCeil" => missed
    /\ ~broken =>
         /\ pc[Reader] \in {"waitOwn", "waitSleep"} => missed
         /\ Asleep => missed \/ pc[Writer] \in {"unblock", "unblockCeil", "unblockTest", "unblockResume"}

IoWaits ==
  /\ pc[Reader] \notin IoPcs => awaited = NoWait
  /\ pc[Reader] \in IoPcs =>
       /\ awaited.condition \in Conditions
       /\ susp[Reader] \in {"no", awaited.until}
       /\ susp[Reader] # "no" => caller[awaited.condition] = Reader /\ awaited.condition \notin fulfilled
       /\ awaited.condition \in fulfilled => caller[awaited.condition] = NoCaller
       /\ awaited.until = "forever" /\ susp[Reader] = "no" => awaited.condition \in fulfilled \/ stray
  /\ \A c \in Conditions : caller[c] # NoCaller => awaited.condition = c \/ c \in unanswered

WaitingInvariant ==
  /\ WaitingTypes /\ ListOK /\ Selected /\ SyncTypeOK /\ BarrierTypeOK /\ IoTypeOK
  /\ Scopes /\ Places /\ Undisturbed /\ FifoWaits /\ ResumesFifoWait /\ AwakeForAReason
  /\ BarrierOwned /\ ResponseComing /\ IoWaits

-----------------------------------------------------------------------------
(* Steps of threads.                                                       *)

(* The code that each of the two threads executes.                         *)
CodeOf(t) ==
  {"run"} \cup SyncPcs \cup (IF t = Writer THEN {"respond"} \cup UnblockPcs ELSE WaitPcs \cup IoPcs)

(* What the threads and constants are.                                     *)
LEMMA TwoThreads ==
  /\ Threads = {Writer, Reader} /\ Sides = {Writer, Reader} /\ Writer # Reader
  /\ Idle \notin {Writer, Reader} /\ All = {Writer, Reader, Idle}
  /\ Client = Reader /\ User = Reader /\ Server = Writer
  /\ Partner(Writer) = Reader /\ Partner(Reader) = Writer
  /\ Nobody \notin All /\ NoCaller \notin Conditions /\ NoCaller \notin All
  /\ Ceiling \in Nat /\ Capacity \in Nat \ {0}
BY SchedulingAssumption, WaitingAssumption DEF All, Sides, Partner

(* What a step of thread t does to the threads, whatever else it does.     *)
ThreadStep(t, from, to) ==
  /\ running = t /\ pc[t] = from /\ pc' = [pc EXCEPT ![t] = to] /\ to \in CodeOf(t)
  /\ \/ (from \in ScopePcs <=> to \in ScopePcs) /\ prio' = prio /\ saved' = saved
     \/ from \notin ScopePcs /\ to \in ScopePcs /\ BeginCeiler(t)
     \/ from \in ScopePcs /\ to \notin ScopePcs /\ EndCeiler(t)
  /\ IF from \in WaitYieldPcs
     THEN Yield(t) /\ susp' = susp /\ to \notin (ScopePcs \ SleepPcs) \cup WaitYieldPcs
     ELSE /\ UNCHANGED schedVars
          /\ susp[t] = "no"
          /\ \/ susp' = susp
             \/ \E u \in Threads : susp' = [susp EXCEPT ![u] = "no"]
             \/ /\ to = "suspendYield" \/ (t = Reader /\ to \in {"waitYield", "ioYield"})
                /\ \E until \in {"timed", "forever"} : susp' = [susp EXCEPT ![t] = until]
  /\ from = "yield" => to \in {"wake", "run", "retry"}
  /\ from = "suspendYield" => to = "unregister"
  /\ from = "waitYield" => to = "waitWoken"
  /\ from = "ioYield" => to = "ioBack"
  /\ broken' = (broken /\ \E u \in Threads : prio'[u] = Ceiling)
  /\ stray' = (stray /\ pc'[Reader] # "run")

(* Who runs is awake, but for the yield of a wait.                         *)
LEMMA RunningAwake ==
  ASSUME WaitingInvariant
  PROVE  pc[running] \notin WaitYieldPcs => susp[running] = "no"
BY DEF WaitingInvariant, Places

(* syncPut, syncGet and putGeneric take such steps.                        *)
LEMMA FifoThreadStep ==
  ASSUME WaitingInvariant, NEW t \in Threads, FifoStep(t)
  PROVE  \E from \in {"run"} \cup SyncPcs, to \in {"run"} \cup SyncPcs : ThreadStep(t, from, to)
<1>0. \A u \in Sides : pc[u] = "suspend" => timeout[u] # "zero"
  <2>1. FifoWaits
    BY DEF WaitingInvariant
  <2> QED
    BY <2>1 DEF FifoWaits
<1> USE TwoThreads DEF ThreadStep, CodeOf, SyncPcs, ScopePcs, SleepPcs, WaitYieldPcs, Executes, Goto
<1>1. Broken(FALSE) /\ Stray(FALSE) /\ t \in {Writer, Reader}
  BY DEF FifoStep
<1>a. /\ broken' = (broken /\ \E u \in Threads : prio'[u] = Ceiling)
      /\ stray' = (stray /\ pc'[Reader] # "run")
      /\ pc[running] \notin WaitYieldPcs => susp[running] = "no"
  BY <1>1, RunningAwake DEF Broken, Stray
<1>2. CASE \E until \in FifoTimeouts : Sync(t, until)
  <2>1. ThreadStep(t, "run", "try")
    BY <1>a, <1>2 DEF Sync
  <2> QED
    BY <2>1
<1>3. CASE SyncTry(t)
  <2>1. ThreadStep(t, "try", "endScope") \/ ThreadStep(t, "try", "register")
    BY <1>a, <1>3 DEF SyncTry
  <2> QED
    BY <2>1
<1>4. CASE SyncRegister(t)
  <2>1. ThreadStep(t, "register", "unregister") \/ ThreadStep(t, "register", "suspend")
    BY <1>a, <1>4 DEF SyncRegister
  <2> QED
    BY <2>1
<1>5. CASE SyncSuspend(t)
  <2>1. pc[t] = "suspend" /\ susp' = [susp EXCEPT ![t] = timeout[t]]
    BY <1>5 DEF SyncSuspend, Suspend
  <2>2. timeout[t] \in {"timed", "forever"}
    <3>1. timeout \in [Sides -> {"zero", "timed", "forever"}] /\ t \in Sides
      BY DEF WaitingInvariant, SyncTypeOK
    <3>2. timeout[t] # "zero"
      BY <1>0, <2>1, <3>1
    <3> QED
      BY <3>1, <3>2
  <2>3. ThreadStep(t, "suspend", "suspendYield")
    BY <1>a, <1>5, <2>1, <2>2 DEF SyncSuspend
  <2> QED
    BY <2>3
<1>15. CASE SyncSuspendYield(t)
  <2>1. ThreadStep(t, "suspendYield", "unregister")
    BY <1>a, <1>15 DEF SyncSuspendYield
  <2> QED
    BY <2>1
<1>6. CASE SyncUnregister(t)
  <2>1. ThreadStep(t, "unregister", "endScope")
    BY <1>a, <1>6 DEF SyncUnregister
  <2> QED
    BY <2>1
<1>7. CASE SyncEndScope(t)
  <2>1. ThreadStep(t, "endScope", "yield")
    BY <1>a, <1>7 DEF SyncEndScope
  <2> QED
    BY <2>1
<1>8. CASE SyncYield(t)
  <2>1. \E to \in {"wake", "run", "retry"} : ThreadStep(t, "yield", to)
    BY <1>a, <1>8 DEF SyncYield
  <2> QED
    BY <2>1
<1>9. CASE SyncRetry(t)
  <2>1. \E to \in {"wake", "run"} : ThreadStep(t, "retry", to)
    BY <1>a, <1>9 DEF SyncRetry
  <2> QED
    BY <2>1
<1>10. CASE t = Writer /\ PutGeneric
  <2>1. \E to \in {"wake", "run"} : ThreadStep(t, "run", to)
    BY <1>a, <1>10 DEF PutGeneric
  <2> QED
    BY <2>1
<1>11. CASE Wake(t)
  <2>1. ThreadStep(t, "wake", "partner")
    BY <1>a, <1>11 DEF Wake
  <2> QED
    BY <2>1
<1>12. CASE WakePartner(t)
  <2>1. ThreadStep(t, "partner", "resume")
    BY <1>a, <1>12 DEF WakePartner
  <2> QED
    BY <2>1
<1>13. CASE WakeResume(t)
  <2>1. ThreadStep(t, "resume", "endWake")
    BY <1>a, <1>13 DEF WakeResume
  <2> QED
    BY <2>1
<1>14. CASE WakeEnd(t)
  <2>1. ThreadStep(t, "endWake", "run")
    BY <1>a, <1>14 DEF WakeEnd
  <2> QED
    BY <2>1
<1> QED
  BY <1>2, <1>3, <1>4, <1>5, <1>6, <1>7, <1>8, <1>9, <1>10, <1>11, <1>12, <1>13, <1>14, <1>15
     DEF FifoStep, SyncStep

(* waitForSignal and requestAndWait take such steps.                       *)
LEMMA WaitThreadStep ==
  ASSUME WaitingInvariant, Broken(FALSE), Stray(FALSE),
         \/ \E until \in Timeouts : RequestAndWait(until)
         \/ Publish \/ CallWaitForSignal \/ WaitForSignal \/ WaitOwn \/ WaitSleep
         \/ WaitYield \/ WaitWoken \/ WaitEnd \/ WaitClear \/ Answer
  PROVE  \E from \in {"run"} \cup WaitPcs, to \in {"run"} \cup WaitPcs : ThreadStep(Reader, from, to)
<1> USE TwoThreads DEF ThreadStep, CodeOf, WaitPcs, ScopePcs, SleepPcs, WaitYieldPcs, Executes, Goto
<1>a. /\ broken' = (broken /\ \E u \in Threads : prio'[u] = Ceiling)
      /\ stray' = (stray /\ pc'[Reader] # "run")
      /\ pc[running] \notin WaitYieldPcs => susp[running] = "no"
  BY RunningAwake DEF Broken, Stray
<1>1. CASE \E until \in Timeouts : RequestAndWait(until)
  <2>1. ThreadStep(Reader, "run", "publish")
    BY <1>a, <1>1 DEF RequestAndWait
  <2> QED
    BY <2>1
<1>2. CASE Publish
  <2>1. ThreadStep(Reader, "publish", "pending")
    BY <1>a, <1>2 DEF Publish
  <2> QED
    BY <2>1
<1>3. CASE CallWaitForSignal
  <2>1. \E to \in {"waitCeil", "answer"} : ThreadStep(Reader, "pending", to)
    BY <1>a, <1>3 DEF CallWaitForSignal
  <2> QED
    BY <2>1
<1>4. CASE WaitForSignal
  <2>1. ThreadStep(Reader, "waitCeil", "waitOwn")
    BY <1>a, <1>4 DEF WaitForSignal
  <2> QED
    BY <2>1
<1>5. CASE WaitOwn
  <2>1. ThreadStep(Reader, "waitOwn", "waitSleep")
    BY <1>a, <1>5 DEF WaitOwn
  <2> QED
    BY <2>1
<1>6. CASE WaitSleep
  <2>1. timeOutAt \in {"timed", "forever"}
    BY DEF WaitingInvariant, BarrierTypeOK
  <2>2. ThreadStep(Reader, "waitSleep", "waitYield")
    BY <1>a, <1>6, <2>1 DEF WaitSleep, Suspend
  <2> QED
    BY <2>2
<1>11. CASE WaitYield
  <2>1. ThreadStep(Reader, "waitYield", "waitWoken")
    BY <1>a, <1>11 DEF WaitYield
  <2> QED
    BY <2>1
<1>7. CASE WaitWoken
  <2>1. ThreadStep(Reader, "waitWoken", "waitEnd")
    BY <1>a, <1>7 DEF WaitWoken
  <2> QED
    BY <2>1
<1>8. CASE WaitEnd
  <2>1. ThreadStep(Reader, "waitEnd", "waitClear")
    BY <1>a, <1>8 DEF WaitEnd
  <2> QED
    BY <2>1
<1>9. CASE WaitClear
  <2>1. ThreadStep(Reader, "waitClear", "answer")
    BY <1>a, <1>9 DEF WaitClear
  <2> QED
    BY <2>1
<1>10. CASE Answer
  <2>1. ThreadStep(Reader, "answer", "run")
    BY <1>a, <1>10 DEF Answer
  <2> QED
    BY <2>1
<1> QED
  BY <1>1, <1>2, <1>3, <1>4, <1>5, <1>6, <1>7, <1>8, <1>9, <1>10, <1>11

(* So do the response and unblock.                                         *)
LEMMA UnblockThreadStep ==
  ASSUME WaitingInvariant, Broken(FALSE), Stray(FALSE),
         \/ Respond \/ RespondClear \/ Unblock \/ UnblockCeil \/ UnblockTest
         \/ UnblockResume \/ UnblockClear \/ UnblockEnd
  PROVE  \E from, to \in {"run", "respond"} \cup UnblockPcs :
           ThreadStep(Writer, from, to)
<1> USE TwoThreads DEF ThreadStep, CodeOf, UnblockPcs, ScopePcs, SleepPcs, WaitYieldPcs, Executes, Goto
<1>a. /\ broken' = (broken /\ \E u \in Threads : prio'[u] = Ceiling)
      /\ stray' = (stray /\ pc'[Reader] # "run")
      /\ pc[running] \notin WaitYieldPcs => susp[running] = "no"
  BY RunningAwake DEF Broken, Stray
<1>1. CASE Respond
  <2>1. \E to \in {"respond", "run"} : ThreadStep(Writer, "run", to)
    BY <1>a, <1>1 DEF Respond
  <2> QED
    BY <2>1
<1>8. CASE RespondClear
  <2>1. ThreadStep(Writer, "respond", "unblock")
    BY <1>a, <1>8 DEF RespondClear
  <2> QED
    BY <2>1
<1>2. CASE Unblock
  <2>1. \E to \in {"unblockCeil", "run"} : ThreadStep(Writer, "unblock", to)
    BY <1>a, <1>2 DEF Unblock
  <2> QED
    BY <2>1
<1>3. CASE UnblockCeil
  <2>1. ThreadStep(Writer, "unblockCeil", "unblockTest")
    BY <1>a, <1>3 DEF UnblockCeil
  <2> QED
    BY <2>1
<1>4. CASE UnblockTest
  <2>1. \E to \in {"unblockResume", "unblockEnd"} : ThreadStep(Writer, "unblockTest", to)
    BY <1>a, <1>4 DEF UnblockTest
  <2> QED
    BY <2>1
<1>5. CASE UnblockResume
  <2>1. barrierOwner \in {Nobody, Reader}
    BY DEF WaitingInvariant, BarrierTypeOK
  <2>2. ThreadStep(Writer, "unblockResume", "unblockClear")
    BY <1>a, <1>5, <2>1 DEF UnblockResume
  <2> QED
    BY <2>2
<1>6. CASE UnblockClear
  <2>1. ThreadStep(Writer, "unblockClear", "unblockEnd")
    BY <1>a, <1>6 DEF UnblockClear
  <2> QED
    BY <2>1
<1>7. CASE UnblockEnd
  <2>1. ThreadStep(Writer, "unblockEnd", "run")
    BY <1>a, <1>7 DEF UnblockEnd
  <2> QED
    BY <2>1
<1> QED
  BY <1>1, <1>2, <1>3, <1>4, <1>5, <1>6, <1>7, <1>8

(* And suspendUntilX.                                                      *)
LEMMA IoThreadStep ==
  ASSUME WaitingInvariant, IoStep
  PROVE  \E from \in {"run"} \cup IoPcs, to \in {"run"} \cup IoPcs : ThreadStep(Reader, from, to)
<1> USE TwoThreads DEF ThreadStep, CodeOf, IoPcs, ScopePcs, SleepPcs, WaitYieldPcs, Executes, Goto
<1>a. /\ broken' = (broken /\ \E u \in Threads : prio'[u] = Ceiling)
      /\ stray' = (stray /\ pc'[Reader] # "run")
      /\ pc[running] \notin WaitYieldPcs => susp[running] = "no"
  BY RunningAwake DEF IoStep, Broken, Stray
<1>1. CASE \E c \in Conditions : StartIo(c)
  <2>1. pc \in [All -> Code]
    BY DEF WaitingInvariant, WaitingTypes
  <2>2. pc[Reader] = "run" => pc = [pc EXCEPT ![Reader] = "run"]
    BY <2>1
  <2>3. ThreadStep(Reader, "run", "run")
    BY <1>a, <1>1, <2>2 DEF StartIo
  <2> QED
    BY <2>3
<1>2. CASE \E c \in Conditions, until \in Timeouts : SuspendUntil(c, until)
  <2>1. ThreadStep(Reader, "run", "ioYield")
    BY <1>a, <1>2, WaitingAssumption DEF SuspendUntil
  <2> QED
    BY <2>1
<1>3. CASE SuspendYield
  <2>1. ThreadStep(Reader, "ioYield", "ioBack")
    BY <1>a, <1>3 DEF SuspendYield
  <2> QED
    BY <2>1
<1>4. CASE SuspendBack
  <2>1. ThreadStep(Reader, "ioBack", "run")
    BY <1>a, <1>4 DEF SuspendBack
  <2> QED
    BY <2>1
<1> QED
  BY <1>1, <1>2, <1>3, <1>4 DEF IoStep

(* Each of them stays within its own code, and wakes only who waits.       *)
LEMMA SignalThreadStep ==
  ASSUME WaitingInvariant, SignalStep
  PROVE  \/ \E from \in {"run"} \cup WaitPcs, to \in {"run"} \cup WaitPcs : ThreadStep(Reader, from, to)
         \/ \E from, to \in {"run", "respond"} \cup UnblockPcs :
              ThreadStep(Writer, from, to)
<1>1. Broken(FALSE) /\ Stray(FALSE)
  BY DEF SignalStep
<1> QED
  BY <1>1, WaitThreadStep, UnblockThreadStep DEF SignalStep, BarrierStep

(* Every step is one of a thread, or comes from outside.                   *)
LEMMA StepsOfThreads ==
  ASSUME WaitingInvariant, WaitingNext
  PROVE  \/ \E t \in Threads : \E from, to : ThreadStep(t, from, to)
         \/ TickPreempts \/ IdleStep \/ (\E t \in Threads : TimeOver(t)) \/ (\E c \in Conditions : Interrupt(c))
<1>1. CASE SignalStep
  BY <1>1, SignalThreadStep, TwoThreads
<1>2. CASE IoStep
  BY <1>2, IoThreadStep, TwoThreads
<1>3. CASE \E t \in Threads : FifoStep(t)
  BY <1>3, FifoThreadStep
<1> QED
  BY <1>1, <1>2, <1>3 DEF WaitingNext


-----------------------------------------------------------------------------
(* What every step keeps of the threads.                                   *)

(* The scheduler runs, and then nothing else changes of the threads, or    *)
(* the thread goes on.                                                     *)
LEMMA WaitingScheduled ==
  ASSUME WaitingInvariant, WaitingNext
  PROVE  /\ ListOK' /\ running' \in All
         /\ UNCHANGED schedVars \/ (Chooses /\ susp' = susp /\ prio' = prio /\ cut' \subseteq Threads)
<1>a. /\ running \in All /\ prio \in [All -> 0..Ceiling] /\ susp[Idle] = "no" /\ cut \subseteq Threads
      /\ ListOK /\ Selected
  BY DEF WaitingInvariant, WaitingTypes, Places
<1>1. ASSUME UNCHANGED schedVars
      PROVE  ListOK' /\ running' \in All
  BY <1>a, <1>1 DEF schedVars, ListOK
<1>2. ASSUME Yield(running)
      PROVE  ListOK' /\ running' \in All /\ Chooses /\ cut' \subseteq Threads
  BY <1>a, <1>2, YieldChooses DEF Chooses
<1>3. CASE TickPreempts
  <2>1. Preempt(WaitYieldPcs) /\ susp' = susp /\ prio' = prio
    BY <1>3 DEF TickPreempts, Preempt
  <2>2. /\ Chooses
        /\ cut' = IF pc[running] \in WaitYieldPcs THEN cut \cup {running} ELSE cut
    BY <1>a, <2>1, PreemptChooses
  <2>3. pc[Idle] = "run"
    BY DEF WaitingInvariant, Places
  <2>4. pc[running] \in WaitYieldPcs => running \in Threads
    BY <1>a, <2>3 DEF WaitYieldPcs, All
  <2> QED
    BY <1>a, <2>1, <2>2, <2>4 DEF Chooses
<1>4. CASE IdleStep
  BY <1>2, <1>4 DEF IdleStep, IdleYields
<1>5. ASSUME NEW t \in Threads, NEW from, NEW to, ThreadStep(t, from, to)
      PROVE  UNCHANGED schedVars \/ (Yield(running) /\ susp' = susp /\ prio' = prio)
  <2>1. from \in WaitYieldPcs /\ to \notin (ScopePcs \ SleepPcs) \cup WaitYieldPcs => prio' = prio
    <3>1. from \in {"suspendYield", "waitYield"} => to \in {"unregister", "waitWoken"}
      BY <1>5 DEF ThreadStep
    <3>2. from = "ioYield" => to = "ioBack"
      BY <1>5 DEF ThreadStep
    <3>3. from = "yield" => to \in {"wake", "run", "retry"}
      BY <1>5 DEF ThreadStep
    <3> QED
      BY <1>5, <3>1, <3>2, <3>3 DEF ThreadStep, ScopePcs, SleepPcs, WaitYieldPcs
  <2> QED
    BY <1>5, <2>1 DEF ThreadStep
<1>6. CASE \E t \in Threads : TimeOver(t)
  BY <1>1, <1>6 DEF TimeOver, Expire
<1>7. CASE \E c \in Conditions : Interrupt(c)
  BY <1>1, <1>7 DEF Interrupt, UpCall
<1> QED
  BY <1>1, <1>2, <1>3, <1>4, <1>5, <1>6, <1>7, StepsOfThreads DEF IdleStep, IdleYields

(* A preselected thread is ready, and who runs has not been cut.           *)
LEMMA NextPreselected ==
  ASSUME WaitingInvariant, WaitingNext
  PROVE  Selected'
<1>a. /\ Selected /\ Places /\ running \in All
      /\ susp \in [All -> {"no", "timed", "forever"}] /\ Threads \subseteq All
      /\ pc[running] \in WaitYieldPcs \/ running \notin cut
  BY DEF WaitingInvariant, WaitingTypes, Places, All
<1>1. CASE Chooses /\ susp' = susp
  BY <1>1 DEF Chooses, Selected
<1>2. CASE UNCHANGED schedVars
  <2>0. running' = running /\ presel' = presel /\ cut' = cut
    BY <1>2 DEF schedVars
  <2>1. \/ susp' = susp
        \/ \E u \in All : susp' = [susp EXCEPT ![u] = "no"]
        \/ pc[running] \notin WaitYieldPcs /\ \E until : susp' = [susp EXCEPT ![running] = until]
    <3>1. CASE \E t \in Threads : \E from, to : ThreadStep(t, from, to)
      BY <1>a, <3>1 DEF ThreadStep
    <3>2. CASE TickPreempts \/ IdleStep
      BY <3>2 DEF TickPreempts, Preempt, IdleStep, IdleYields
    <3>3. CASE \E t \in Threads : TimeOver(t)
      BY <1>a, <3>3 DEF TimeOver, Expire
    <3>4. CASE \E c \in Conditions : Interrupt(c)
      <4>1. \A c \in Conditions : caller[c] \in All \cup {NoCaller}
        BY TwoThreads DEF WaitingInvariant, IoTypeOK
      <4> QED
        BY <3>4, <4>1 DEF Interrupt, UpCall
    <3> QED
      BY <3>1, <3>2, <3>3, <3>4, StepsOfThreads
  <2>2. ASSUME NEW u \in All, susp[u] = "no", u # running PROVE susp'[u] = "no"
    BY <1>a, <2>1, <2>2
  <2>3. susp'[running] # "no" => running \notin cut
    BY <1>a, <2>1 DEF Selected
  <2>4. NoThread \notin All
    BY SchedulingAssumption
  <2> QED
    BY <1>a, <2>0, <2>2, <2>3, <2>4 DEF Selected
<1> QED
  BY <1>1, <1>2, WaitingScheduled

(* A thread has the ceiling priority within the scope only.                *)
LEMMA NextScopes ==
  ASSUME WaitingInvariant, WaitingNext
  PROVE  WaitingTypes' /\ Scopes' /\ Places'
<1>a. WaitingTypes /\ Scopes /\ Places /\ running' \in All
  BY WaitingScheduled DEF WaitingInvariant
<1>b. presel' \in All \cup {NoThread} /\ cut' \subseteq Threads
  BY <1>a, WaitingScheduled, NextPreselected DEF Selected, schedVars, WaitingTypes
<1>1. ASSUME NEW t \in Threads, NEW from, NEW to, ThreadStep(t, from, to)
      PROVE  WaitingTypes' /\ Scopes' /\ Places'
  <2>a. /\ running = t /\ pc[t] = from /\ pc' = [pc EXCEPT ![t] = to] /\ to \in CodeOf(t)
        /\ t \in {Writer, Reader} /\ t \in All
    BY <1>1, TwoThreads DEF ThreadStep
  <2>1. /\ prio' \in [All -> 0..Ceiling] /\ saved' \in [All -> 0..Ceiling]
        /\ \A u \in All \ {t} : prio'[u] = prio[u] /\ saved'[u] = saved[u] /\ pc'[u] = pc[u]
        /\ pc'[t] = to /\ saved'[t] < Ceiling
        /\ IF to \in ScopePcs THEN prio'[t] = Ceiling ELSE prio'[t] < Ceiling
    BY <1>a, <1>1, <2>a, TwoThreads DEF ThreadStep, BeginCeiler, EndCeiler, WaitingTypes, Scopes
  <2>2. Scopes'
    BY <1>a, <2>1 DEF Scopes
  <2>3. /\ susp' \in [All -> {"no", "timed", "forever"}]
        /\ \A u \in All \ {t} : susp'[u] \in {susp[u], "no"}
        /\ \/ susp'[t] = "no" \/ to \in {"suspendYield", "unregister"}
           \/ t = Reader /\ to \in {"waitYield", "waitWoken", "ioYield", "ioBack"}
    <3>1. CASE from \in WaitYieldPcs
      <4>1. susp' = susp
        BY <1>1, <3>1 DEF ThreadStep
      <4>2. from = "yield" => susp[t] = "no"
        BY <1>a, <2>a, TwoThreads DEF Places, IoPcs
      <4>3. from \in {"waitYield", "ioYield"} => t = Reader
        BY <1>a, <2>a, TwoThreads DEF Places, SyncPcs, UnblockPcs
      <4> QED
        BY <1>a, <1>1, <2>a, <3>1, <4>1, <4>2, <4>3 DEF ThreadStep, WaitYieldPcs, WaitingTypes
    <3>2. CASE from \notin WaitYieldPcs
      BY <1>a, <1>1, <2>a, <3>2, TwoThreads DEF ThreadStep, WaitingTypes
    <3> QED
      BY <3>1, <3>2
  <2>4. broken' \in BOOLEAN /\ stray' \in BOOLEAN
    BY <1>1 DEF ThreadStep
  <2>5. pc' \in [All -> Code]
    BY <1>a, <2>a DEF WaitingTypes, CodeOf, Code
  <2>6. WaitingTypes'
    BY <1>a, <1>b, <2>1, <2>3, <2>4, <2>5 DEF WaitingTypes
  <2>7. Places'
    <3>1. /\ pc'[Idle] = "run" /\ susp'[Idle] = "no"
          /\ pc'[Writer] \in {"run", "respond"} \cup SyncPcs \cup UnblockPcs
          /\ pc'[Reader] \in {"run"} \cup SyncPcs \cup WaitPcs \cup IoPcs
          /\ susp'[Writer] # "no" => pc'[Writer] \in {"suspendYield", "unregister"}
          /\ susp'[Reader] # "no" =>
               pc'[Reader] \in {"suspendYield", "unregister", "waitYield", "waitWoken"} \cup IoPcs
      <4>1. CASE t = Writer
        BY <1>a, <2>a, <2>1, <2>3, <4>1, TwoThreads DEF Places, CodeOf
      <4>2. CASE t = Reader
        BY <1>a, <2>a, <2>1, <2>3, <4>2, TwoThreads DEF Places, CodeOf, IoPcs
      <4> QED
        BY <2>a, <4>1, <4>2
    <3>2. susp'[running'] # "no" => pc'[running'] \in WaitYieldPcs
      <4>1. CASE from \in WaitYieldPcs
        <5>1. Yield(running) /\ susp' = susp
          BY <1>1, <4>1 DEF ThreadStep
        <5>2. ListOK /\ Selected /\ prio \in [All -> 0..Ceiling] /\ susp[Idle] = "no"
          BY DEF WaitingInvariant, WaitingTypes, Places
        <5>3. susp'[running'] = "no"
          BY <5>1, <5>2, YieldChooses DEF Chooses
        <5> QED
          BY <5>3
      <4>2. CASE from \notin WaitYieldPcs
        <5>1. running' = t /\ susp[t] = "no"
          BY <1>1, <4>2 DEF ThreadStep, schedVars
        <5>2. susp'[t] # "no" => to \in WaitYieldPcs
          BY <1>a, <1>1, <2>a, <4>2, <5>1 DEF ThreadStep, WaitYieldPcs, WaitingTypes
        <5> QED
          BY <2>1, <5>1, <5>2
      <4> QED
        BY <4>1, <4>2
    <3>3. ASSUME NEW u \in cut' PROVE pc'[u] \in WaitYieldPcs
      <4>1. u \in cut /\ u # t
        <5>1. CASE from \in WaitYieldPcs
          BY <1>1, <3>3, <5>1 DEF ThreadStep, Yield
        <5>2. CASE from \notin WaitYieldPcs
          <6>1. cut' = cut
            BY <1>1, <5>2 DEF ThreadStep, schedVars
          <6> QED
            BY <1>a, <2>a, <3>3, <5>2, <6>1 DEF Places
        <5> QED
          BY <5>1, <5>2
      <4>2. u \in All
        BY <1>a, <4>1 DEF WaitingTypes, All
      <4> QED
        BY <1>a, <2>1, <4>1, <4>2 DEF Places
    <3> QED
      BY <3>1, <3>2, <3>3 DEF Places
  <2> QED
    BY <2>2, <2>6, <2>7
<1>2. CASE TickPreempts \/ IdleStep
  <2>1. UNCHANGED <<prio, susp, pc, saved>>
    BY <1>2 DEF TickPreempts, Preempt, IdleStep, IdleYields
  <2>2. broken' \in BOOLEAN /\ stray' \in BOOLEAN
    BY <1>a, <1>2 DEF TickPreempts, Broken, IdleStep, ghosts, WaitingTypes
  <2>3. WaitingTypes' /\ Scopes'
    BY <1>a, <1>b, <2>1, <2>2 DEF WaitingTypes, Scopes
  <2>4. Chooses
    <3>1. ListOK /\ Selected /\ prio \in [All -> 0..Ceiling] /\ susp[Idle] = "no"
      BY DEF WaitingInvariant, WaitingTypes, Places
    <3>2. TickPreempts => Preempt(WaitYieldPcs)
      BY DEF TickPreempts
    <3>3. IdleStep => Yield(running)
      BY DEF IdleStep, IdleYields
    <3> QED
      BY <1>2, <3>1, <3>2, <3>3, YieldChooses, PreemptChooses
  <2>5. \A u \in cut' : pc[u] \in WaitYieldPcs
    <3>1. CASE TickPreempts
      BY <1>a, <3>1 DEF TickPreempts, Preempt, Places
    <3>2. CASE IdleStep
      BY <1>a, <3>2 DEF IdleStep, IdleYields, Yield, Places
    <3> QED
      BY <1>2, <3>1, <3>2
  <2> QED
    BY <1>a, <2>1, <2>3, <2>4, <2>5 DEF Places, Chooses
<1>3. ASSUME NEW t \in Threads, TimeOver(t)
      PROVE  WaitingTypes' /\ Scopes' /\ Places'
  <2>1. UNCHANGED <<running, presel, cut, prio, pc, saved, broken, stray>>
    BY <1>3 DEF TimeOver, Expire, schedVars, ghosts
  <2>2. susp' = [susp EXCEPT ![t] = "no"] /\ t \in All
    BY <1>3 DEF TimeOver, Expire, All
  <2>3. WaitingTypes' /\ Scopes'
    BY <1>a, <2>1, <2>2 DEF WaitingTypes, Scopes
  <2> QED
    BY <1>a, <2>1, <2>2, <2>3, TwoThreads DEF WaitingTypes, Places
<1>4. ASSUME NEW c \in Conditions, Interrupt(c)
      PROVE  WaitingTypes' /\ Scopes' /\ Places'
  <2>1. caller[c] \in {Reader, NoCaller}
    BY TwoThreads DEF WaitingInvariant, IoTypeOK
  <2>2. susp' = susp \/ susp' = [susp EXCEPT ![Reader] = "no"]
    BY <1>4, <2>1 DEF Interrupt, UpCall
  <2>3. UNCHANGED <<running, presel, cut, prio, pc, saved, broken>> /\ stray' \in BOOLEAN
    BY <1>4 DEF Interrupt, UpCall, schedVars, Stray
  <2>4. WaitingTypes' /\ Scopes'
    BY <1>a, <2>2, <2>3, TwoThreads DEF WaitingTypes, Scopes
  <2> QED
    BY <1>a, <2>2, <2>3, <2>4, TwoThreads DEF WaitingTypes, Places
<1> QED
  BY <1>1, <1>2, <1>3, <1>4, StepsOfThreads

(* Who is within the scope, and has not suspended itself there, has the    *)
(* CPU until a SysTick takes it.                                           *)
LEMMA NextUndisturbed ==
  ASSUME WaitingInvariant, WaitingNext
  PROVE  Undisturbed'
<1>a. WaitingTypes /\ Scopes /\ Undisturbed /\ Scopes'
  BY NextScopes DEF WaitingInvariant
<1>1. ASSUME NEW t \in Threads, NEW from, NEW to, ThreadStep(t, from, to)
      PROVE  Undisturbed'
  <2> SUFFICES ASSUME ~broken', NEW u \in Threads, pc'[u] \in ScopePcs \ SleepPcs
               PROVE  running' = u
    BY DEF Undisturbed
  <2>1. prio'[u] = Ceiling
    BY <1>a, TwoThreads DEF Scopes
  <2>2. ~broken
    BY <1>1, <2>1 DEF ThreadStep
  <2>3. running = t /\ pc[t] = from /\ pc'[t] = to /\ (u # t => pc'[u] = pc[u])
    BY <1>a, <1>1, TwoThreads DEF ThreadStep, WaitingTypes
  <2>4. u = t
    BY <1>a, <2>2, <2>3 DEF Undisturbed
  <2>5. to \notin SleepPcs /\ to \in ScopePcs
    BY <2>3, <2>4
  <2> QED
    BY <1>1, <2>3, <2>4, <2>5 DEF ThreadStep, schedVars
<1>2. CASE TickPreempts
  <2> SUFFICES ASSUME ~broken', NEW u \in Threads, pc'[u] \in ScopePcs \ SleepPcs
               PROVE  running' = u
    BY DEF Undisturbed
  <2>1. prio' = prio /\ pc' = pc /\ prio[u] = Ceiling
    BY <1>a, <1>2, TwoThreads DEF TickPreempts, Preempt, Scopes
  <2>2. ~broken /\ ~(prio[running] = Ceiling /\ susp[running] = "no" /\ running' # running)
    BY <1>2, <2>1 DEF TickPreempts, Broken
  <2>3. running = u
    BY <1>a, <2>1, <2>2 DEF Undisturbed
  <2>4. pc[u] \notin WaitYieldPcs
    BY <2>1 DEF ScopePcs, SleepPcs, WaitYieldPcs
  <2>5. susp[running] = "no"
    BY <2>3, <2>4, RunningAwake
  <2>6. running' = u
    BY <2>1, <2>2, <2>3, <2>5
  <2> QED
    BY <2>6
<1>5. CASE IdleStep
  <2>1. UNCHANGED <<pc, broken>> /\ running = Idle
    BY <1>5 DEF IdleStep, IdleYields, ghosts
  <2> QED
    BY <1>a, <2>1, TwoThreads DEF Undisturbed
<1>3. ASSUME NEW t \in Threads, TimeOver(t) PROVE Undisturbed'
  BY <1>a, <1>3 DEF TimeOver, Expire, schedVars, ghosts, Undisturbed
<1>4. ASSUME NEW c \in Conditions, Interrupt(c) PROVE Undisturbed'
  BY <1>a, <1>4 DEF Interrupt, UpCall, schedVars, Undisturbed
<1> QED
  BY <1>1, <1>2, <1>3, <1>4, <1>5, StepsOfThreads

(* A broken ceiler is forgotten only when nobody is within the scope.      *)
LEMMA StillBroken ==
  ASSUME WaitingInvariant, WaitingNext, ~broken', NEW t \in Threads, pc'[t] \in ScopePcs
  PROVE  ~broken
<1>1. prio'[t] = Ceiling
  BY NextScopes, TwoThreads DEF Scopes
<1>2. broken => broken' \/ \A u \in Threads : prio'[u] # Ceiling
  <2>1. CASE TickPreempts
    BY <2>1 DEF TickPreempts, Broken
  <2>5. CASE IdleStep
    BY <2>5 DEF IdleStep, ghosts
  <2>2. ASSUME NEW u \in Threads, TimeOver(u) PROVE broken' = broken
    BY <2>2 DEF TimeOver, ghosts
  <2>3. ASSUME NEW c \in Conditions, Interrupt(c) PROVE broken' = broken
    BY <2>3 DEF Interrupt
  <2>4. ASSUME NEW u \in Threads, NEW from, NEW to, ThreadStep(u, from, to)
        PROVE  broken => broken' \/ \A v \in Threads : prio'[v] # Ceiling
    BY <2>4 DEF ThreadStep
  <2> QED
    BY <2>1, <2>2, <2>3, <2>4, <2>5, StepsOfThreads
<1> QED
  BY <1>1, <1>2

(* The other thread's code is not disturbed by the steps of one, but for   *)
(* its suspension.                                                         *)
LEMMA OtherThread ==
  ASSUME WaitingInvariant, NEW t \in Threads, NEW from, NEW to, ThreadStep(t, from, to),
         NEW u \in Threads, u # t
  PROVE  pc'[u] = pc[u] /\ pc'[t] = to /\ susp'[u] \in {susp[u], "no"}
BY TwoThreads DEF ThreadStep, WaitingInvariant, WaitingTypes

-----------------------------------------------------------------------------
(* The fifo.                                                               *)

(* The fifo is left alone by what is not syncPut, syncGet or putGeneric.   *)
LEMMA OutsideFifo ==
  ASSUME WaitingInvariant, WaitingNext, \A t \in Threads : ~FifoStep(t)
  PROVE  /\ UNCHANGED syncVars
         /\ \A u \in Sides : pc[u] \in SyncPcs \/ pc'[u] \in SyncPcs
              => pc'[u] = pc[u] /\ susp'[u] \in {susp[u], "no"}
<1>a. susp \in [All -> {"no", "timed", "forever"}] /\ \A c \in Conditions : caller[c] \in {Reader, NoCaller}
  BY TwoThreads DEF WaitingInvariant, WaitingTypes, IoTypeOK
<1>1. ASSUME NEW t \in Threads, NEW from, NEW to, ThreadStep(t, from, to),
             from \notin SyncPcs, to \notin SyncPcs, NEW u \in Sides,
             pc[u] \in SyncPcs \/ pc'[u] \in SyncPcs
      PROVE  pc'[u] = pc[u] /\ susp'[u] \in {susp[u], "no"}
  <2>1. u # t
    BY <1>1, TwoThreads DEF ThreadStep, WaitingInvariant, WaitingTypes
  <2> QED
    BY <1>1, <2>1, OtherThread, TwoThreads
<1>2. CASE SignalStep
  <2>1. UNCHANGED syncVars
    BY <1>2 DEF SignalStep
  <2>2. \E t \in Threads : \E from, to :
          ThreadStep(t, from, to) /\ from \notin SyncPcs /\ to \notin SyncPcs
    BY <1>2, SignalThreadStep, TwoThreads DEF SyncPcs, WaitPcs, UnblockPcs
  <2> QED
    BY <1>1, <2>1, <2>2
<1>3. CASE IoStep
  <2>1. UNCHANGED syncVars
    BY <1>3 DEF IoStep
  <2>2. \E t \in Threads : \E from, to :
          ThreadStep(t, from, to) /\ from \notin SyncPcs /\ to \notin SyncPcs
    BY <1>3, IoThreadStep, TwoThreads DEF SyncPcs, IoPcs
  <2> QED
    BY <1>1, <2>1, <2>2
<1>4. CASE TickPreempts \/ IdleStep
  BY <1>4 DEF TickPreempts, Preempt, IdleStep, IdleYields
<1>5. ASSUME NEW t \in Threads, TimeOver(t)
      PROVE  UNCHANGED <<pc, syncVars>> /\ \A u \in Sides : susp'[u] \in {susp[u], "no"}
  BY <1>a, <1>5, TwoThreads DEF TimeOver, Expire
<1>6. ASSUME NEW c \in Conditions, Interrupt(c)
      PROVE  UNCHANGED <<pc, syncVars>> /\ \A u \in Sides : susp'[u] \in {susp[u], "no"}
  BY <1>a, <1>6, TwoThreads DEF Interrupt, UpCall
<1> QED
  BY <1>2, <1>3, <1>4, <1>5, <1>6 DEF WaitingNext

(* Types of the fifo.                                                      *)
LEMMA NextSyncTypes ==
  ASSUME WaitingInvariant, WaitingNext
  PROVE  SyncTypeOK'
<1>a. SyncTypeOK
  BY DEF WaitingInvariant
<1>1. ASSUME NEW t \in Threads, FifoStep(t) PROVE SyncTypeOK'
  <2>a. t \in Sides
    BY TwoThreads
  <2> USE DEF SyncTry, SyncRegister, SyncSuspend, SyncSuspendYield, SyncUnregister, SyncEndScope, SyncRetry, SyncYield,
        Wake, WakePartner, WakeResume, WakeEnd, PutGeneric, Sync, syncVars
  <2>1. count' = count \/ PutOrGet(t)
    BY <1>1 DEF FifoStep, SyncStep
  <2>2. suspended' \in {suspended, suspended \cup {t}, suspended \ {t}}
    BY <1>1 DEF FifoStep, SyncStep
  <2>3. \/ timeout' = timeout
        \/ \E x \in {"zero", "timed", "forever"} : timeout' = [timeout EXCEPT ![t] = x]
    <3>1. timeout[t] \in {"zero", "timed", "forever"} /\ FifoTimeouts \subseteq {"zero", "timed", "forever"}
      BY <1>a, <2>a, WaitingAssumption DEF SyncTypeOK
    <3> QED
      BY <1>1, <3>1 DEF FifoStep, SyncStep
  <2>4. ok' = ok \/ \E x \in BOOLEAN : ok' = [ok EXCEPT ![t] = x]
    <3>1. Possible(t) \in BOOLEAN
      <4>1. t = Writer => Possible(t) = (count < Capacity)
        BY DEF Possible
      <4>2. t # Writer => Possible(t) = (count > 0)
        BY DEF Possible
      <4>3. (count < Capacity) \in BOOLEAN /\ (count > 0) \in BOOLEAN
        BY <1>a, TwoThreads, SMT DEF SyncTypeOK
      <4> QED
        BY <4>1, <4>2, <4>3
    <3> QED
      BY <1>1, <3>1 DEF FifoStep, SyncStep
  <2>5. partner' = partner \/ \E x \in BOOLEAN : partner' = [partner EXCEPT ![t] = x]
    <3>1. (Partner(t) \in suspended) \in BOOLEAN
      OBVIOUS
    <3> QED
      BY <1>1, <3>1 DEF FifoStep, SyncStep
  <2>7. futile' \subseteq Sides
    <3>1. futile' \in {futile, futile \ {t}, futile \cup {Partner(t)}}
      BY <1>1 DEF FifoStep, SyncStep
    <3>2. Partner(t) \in Sides
      BY <2>a, TwoThreads
    <3> QED
      BY <1>a, <3>1, <3>2 DEF SyncTypeOK
  <2>6. count' \in 0..Capacity
    BY <1>a, <2>1, TwoThreads DEF SyncTypeOK, PutOrGet, Possible
  <2> QED
    BY <1>a, <2>a, <2>2, <2>3, <2>4, <2>5, <2>6, <2>7 DEF SyncTypeOK
<1>2. CASE \A t \in Threads : ~FifoStep(t)
  BY <1>a, <1>2, OutsideFifo DEF SyncTypeOK, syncVars
<1> QED
  BY <1>1, <1>2

(* Registered as waiting is who is about to suspend itself or has done so. *)
LEMMA NextRegistered ==
  ASSUME WaitingInvariant, WaitingNext
  PROVE  \A u \in Sides : /\ u \in suspended' <=> pc'[u] \in {"suspend", "suspendYield", "unregister"}
                          /\ pc'[u] = "suspend" => timeout'[u] # "zero"
<1>a. /\ \A u \in Sides : /\ u \in suspended <=> pc[u] \in {"suspend", "suspendYield", "unregister"}
                          /\ pc[u] = "suspend" => timeout[u] # "zero"
      /\ pc \in [All -> Code]
      /\ SyncTypeOK
  <2>1. FifoWaits /\ WaitingTypes /\ SyncTypeOK
    BY DEF WaitingInvariant
  <2> QED
    BY <2>1 DEF FifoWaits, WaitingTypes
<1>1. ASSUME NEW t \in Threads, FifoStep(t), NEW u \in Sides
      PROVE  /\ u \in suspended' <=> pc'[u] \in {"suspend", "suspendYield", "unregister"}
             /\ pc'[u] = "suspend" => timeout'[u] # "zero"
  <2>a. t \in Sides /\ t \in All /\ u \in All
    BY <1>1, TwoThreads
  <2> USE <1>a, <1>1, <2>a DEF Executes, Goto, SyncTypeOK
  <2>1. CASE SyncTry(t)
    BY <2>1 DEF SyncTry
  <2>2. CASE SyncRegister(t)
    BY <2>2 DEF SyncRegister
  <2>3. CASE SyncUnregister(t)
    BY <2>3 DEF SyncUnregister
  <2>4. CASE SyncSuspend(t)
    BY <2>4 DEF SyncSuspend, syncVars
  <2>5. CASE SyncYield(t)
    BY <2>5 DEF SyncYield
  <2>6. CASE SyncRetry(t)
    BY <2>6 DEF SyncRetry
  <2>7. CASE t = Writer /\ PutGeneric
    BY <2>7 DEF PutGeneric
  <2>8. CASE \E until \in FifoTimeouts : Sync(t, until)
    BY <2>8 DEF Sync
  <2>10. CASE SyncSuspendYield(t)
    BY <2>10 DEF SyncSuspendYield, syncVars
  <2>9. CASE SyncEndScope(t) \/ Wake(t) \/ WakePartner(t) \/ WakeResume(t) \/ WakeEnd(t)
    BY <2>9 DEF SyncEndScope, Wake, WakePartner, WakeResume, WakeEnd, syncVars
  <2> QED
    BY <2>1, <2>2, <2>3, <2>4, <2>5, <2>6, <2>7, <2>8, <2>9, <2>10 DEF FifoStep, SyncStep
<1>2. CASE \A t \in Threads : ~FifoStep(t)
  BY <1>a, <1>2, OutsideFifo DEF syncVars, SyncPcs
<1> QED
  BY <1>1, <1>2

(* Who has found that it must wait still must, or will be woken.           *)
LEMMA NextFifoWaits ==
  ASSUME WaitingInvariant, WaitingNext
  PROVE  FifoWaits'
<1>a. /\ \A t \in Sides : t \in suspended <=> pc[t] \in {"suspend", "suspendYield", "unregister"}
      /\ ~broken => \A t \in Sides :
           /\ pc[t] \in {"register", "suspend"} => ~Possible(t)
           /\ WaitsForFifo(t) /\ Possible(t) => Coming(Partner(t))
      /\ WaitingTypes /\ SyncTypeOK /\ Undisturbed
  <2>1. FifoWaits /\ WaitingTypes /\ SyncTypeOK /\ Undisturbed
    BY DEF WaitingInvariant
  <2> QED
    BY <2>1 DEF FifoWaits
<1>b. pc \in [All -> Code]
  BY <1>a DEF WaitingTypes
<1> SUFFICES ASSUME ~broken', NEW u \in Sides, pc'[u] \in {"register", "suspend", "suspendYield", "unregister"}
             PROVE  /\ pc'[u] \in {"register", "suspend"} => ~Possible(u)'
                    /\ WaitsForFifo(u)' /\ Possible(u)' => Coming(Partner(u))'
  BY NextRegistered DEF FifoWaits, WaitsForFifo
<1>c. ~broken /\ u \in Threads /\ u \in All
  BY StillBroken, TwoThreads DEF ScopePcs
<1>1. CASE FifoStep(u)
  <2> USE <1>a, <1>b, <1>c DEF Executes, Goto
  <2>1. CASE SyncTry(u)
    BY <2>1 DEF SyncTry, PutOrGet, WaitsForFifo, Possible
  <2>2. CASE SyncRegister(u)
    BY <2>2 DEF SyncRegister, WaitsForFifo, Possible
  <2>3. CASE SyncSuspend(u)
    BY <2>3 DEF SyncSuspend, syncVars, Possible
  <2>5. CASE SyncSuspendYield(u)
    <3>1. /\ UNCHANGED <<susp, count, ok, partner>> /\ pc[u] = "suspendYield" /\ pc'[u] = "unregister"
          /\ pc'[Partner(u)] = pc[Partner(u)]
      BY <2>5, TwoThreads DEF SyncSuspendYield, syncVars
    <3>2. Possible(u)' = Possible(u) /\ (Coming(Partner(u)) => Coming(Partner(u))')
      BY <3>1 DEF Possible, Coming
    <3> QED
      BY <3>1, <3>2, TwoThreads DEF WaitsForFifo
  <2>4. ASSUME \/ SyncUnregister(u) \/ SyncYield(u) \/ SyncRetry(u) \/ (u = Writer /\ PutGeneric)
               \/ (\E until \in FifoTimeouts : Sync(u, until))
               \/ SyncEndScope(u) \/ Wake(u) \/ WakePartner(u) \/ WakeResume(u) \/ WakeEnd(u)
        PROVE  FALSE
    BY <2>4 DEF SyncEndScope, Wake, WakePartner, WakeResume, WakeEnd, SyncYield, SyncRetry, PutGeneric,
         Sync, SyncUnregister
  <2> QED
    BY <1>1, <2>1, <2>2, <2>3, <2>4, <2>5 DEF FifoStep, SyncStep
<1>2. ASSUME NEW t \in Threads, FifoStep(t), t # u
      PROVE  /\ pc'[u] \in {"register", "suspend"} => ~Possible(u)'
             /\ WaitsForFifo(u)' /\ Possible(u)' => Coming(Partner(u))'
  <2>a. t = Partner(u) /\ u = Partner(t) /\ t \in Sides /\ t \in All
    BY <1>2, <1>c, TwoThreads
  <2>b. PICK from \in {"run"} \cup SyncPcs, to \in {"run"} \cup SyncPcs : ThreadStep(t, from, to)
    BY <1>2, FifoThreadStep
  <2>c. pc'[u] = pc[u] /\ susp'[u] \in {susp[u], "no"} /\ running = t
    <3>1. running = t
      BY <2>b DEF ThreadStep
    <3> QED
      BY <1>2, <1>c, <2>b, <3>1, OtherThread
  <2>d. pc[u] \in {"suspendYield", "unregister"}
    BY <1>2, <1>a, <1>c, <2>c DEF Undisturbed, ScopePcs, SleepPcs
  <2> SUFFICES ASSUME susp[u] = "forever", susp'[u] = "forever", Possible(u)'
               PROVE  Coming(t)'
    BY <2>a, <2>c, <2>d DEF WaitsForFifo
  <2>e. Possible(u) => Coming(t)
    BY <1>a, <1>c, <2>a, <2>d DEF WaitsForFifo
  <2>f. ASSUME count' = count PROVE Coming(t)
    BY <2>e, <2>f DEF Possible
  <2>g. u \in suspended /\ ok \in [Sides -> BOOLEAN] /\ partner \in [Sides -> BOOLEAN]
        /\ susp \in [All -> {"no", "timed", "forever"}]
    BY <1>a, <2>d DEF SyncTypeOK, WaitingTypes
  <2> USE <1>b, <2>a, <2>g DEF Executes, Goto
  <2>1. CASE SyncTry(t)
    BY <2>1, <2>e DEF SyncTry, PutOrGet, Coming, Possible
  <2>2. CASE SyncRetry(t)
    BY <2>2, <2>e DEF SyncRetry, PutOrGet, Coming, Possible
  <2>3. CASE t = Writer /\ PutGeneric
    BY <2>3, <2>e DEF PutGeneric, PutOrGet, Coming, Possible
  <2>4. CASE SyncEndScope(t) \/ SyncYield(t) \/ Wake(t) \/ WakePartner(t)
    BY <2>4, <2>f DEF SyncEndScope, SyncYield, Wake, WakePartner, syncVars, Coming
  <2>5. CASE WakeResume(t)
    BY <2>5, <2>f, <1>c DEF WakeResume, syncVars, Coming
  <2>6. CASE \/ SyncRegister(t) \/ SyncSuspend(t) \/ SyncSuspendYield(t) \/ SyncUnregister(t) \/ WakeEnd(t)
             \/ \E until \in FifoTimeouts : Sync(t, until)
    BY <2>6, <2>f DEF SyncRegister, SyncSuspend, SyncSuspendYield, SyncUnregister, WakeEnd, Sync, syncVars, Coming
  <2> QED
    BY <1>2, <2>1, <2>2, <2>3, <2>4, <2>5, <2>6 DEF FifoStep, SyncStep
<1>3. CASE \A t \in Threads : ~FifoStep(t)
  <2>1. UNCHANGED syncVars /\ pc'[u] = pc[u] /\ susp'[u] \in {susp[u], "no"}
    BY <1>3, OutsideFifo DEF SyncPcs
  <2>2. Partner(u) \in Sides /\ (pc[Partner(u)] \in SyncPcs => pc'[Partner(u)] = pc[Partner(u)])
    BY <1>3, OutsideFifo, TwoThreads
  <2>3. Coming(Partner(u)) => Coming(Partner(u))'
    BY <2>1, <2>2 DEF Coming, SyncPcs, syncVars
  <2> QED
    BY <1>a, <1>c, <2>1, <2>3 DEF WaitsForFifo, Possible, syncVars
<1> QED
  BY <1>c, <1>1, <1>2, <1>3

(* The scheduler does not give the CPU to a thread that is neither         *)
(* preselected nor of the highest priority.                                *)
LEMMA NotChosen ==
  ASSUME WaitingInvariant, NEW t \in All, NEW u \in All, susp[u] = "no", prio[t] < prio[u], presel # t
  PROVE  /\ NextToRun \in All /\ NextToRun # t
         /\ \A yields : Preempt(yields) => running' # t /\ presel' = NoThread
         /\ Yield(running) => presel' # t /\ (running # t \/ t \notin cut \cup {Idle} => running' # t)
<1>a. ListOK /\ prio \in [All -> 0..Ceiling] /\ susp[Idle] = "no" /\ Ceiling \in Nat
  BY TwoThreads DEF WaitingInvariant, WaitingTypes, Places
<1>1. NextToRun \in All /\ \A v \in All : susp[v] = "no" => prio[v] <= prio[NextToRun]
  BY <1>a, NextToRunIs
<1>2. NextToRun # t
  <2>1. prio[u] <= prio[NextToRun]
    BY <1>1
  <2>2. prio[t] \in Int /\ prio[u] \in Int
    BY <1>a
  <2> QED
    BY <1>a, <2>1, <2>2
<1>3. NoThread # t
  BY SchedulingAssumption
<1>4. ASSUME NEW yields, Preempt(yields) PROVE running' # t /\ presel' = NoThread
  BY <1>2, <1>4 DEF Preempt, Activate, Chosen
<1>5. ASSUME Yield(running)
      PROVE  presel' # t /\ (running # t \/ t \notin cut \cup {Idle} => running' # t)
  BY <1>2, <1>3, <1>5 DEF Yield, Activate
<1> QED
  BY <1>1, <1>2, <1>4, <1>5

(* Whom the writer resumes still waits for the fifo, or has not gone on.   *)
LEMMA NextResumesFifoWait ==
  ASSUME WaitingInvariant, WaitingNext
  PROVE  ResumesFifoWait'
<1>a. /\ WaitingTypes /\ SyncTypeOK /\ ResumesFifoWait /\ Selected /\ Scopes /\ Places
      /\ pc \in [All -> Code] /\ partner \in [Sides -> BOOLEAN]
  BY DEF WaitingInvariant, WaitingTypes, SyncTypeOK
<1>b. /\ pc[Writer] = "resume" => prio[Writer] = Ceiling /\ susp[Writer] = "no"
      /\ pc[Reader] \in {"yield", "retry", "wake", "run"} => prio[Reader] < Ceiling
  BY <1>a, TwoThreads DEF Scopes, Places, ScopePcs
<1>c. ASSUME pc[Writer] = "resume", pc[Reader] \in {"yield", "retry", "wake", "run"}, presel # Reader
      PROVE  /\ \A yields : Preempt(yields) => running' # Reader /\ presel' # Reader
             /\ Yield(running) => presel' # Reader /\ (running # Reader \/ Reader \notin cut => running' # Reader)
  <2>1. susp[Writer] = "no" /\ prio[Reader] < prio[Writer]
    BY <1>b, <1>c
  <2>2. NoThread # Reader /\ Reader # Idle
    BY TwoThreads, SchedulingAssumption
  <2>3. /\ \A yields : Preempt(yields) => running' # Reader /\ presel' = NoThread
        /\ Yield(running) =>
             presel' # Reader /\ (running # Reader \/ Reader \notin cut \cup {Idle} => running' # Reader)
    BY <1>c, <2>1, NotChosen, TwoThreads
  <2> QED
    BY <2>2, <2>3
<1> SUFFICES ASSUME pc'[Writer] = "resume", partner'[Writer]
             PROVE  \/ pc'[Reader] \in {"suspend", "suspendYield", "unregister", "endScope"}
                    \/ pc'[Reader] = "yield" /\ Reader \notin cut'
                    \/ /\ pc'[Reader] \in {"yield", "retry", "wake", "run"}
                       /\ running' # Reader /\ presel' # Reader
  BY DEF ResumesFifoWait
<1>1. CASE FifoStep(Writer)
  <2> USE <1>1, <1>a, TwoThreads DEF Executes, Goto
  <2>1. CASE WakePartner(Writer)
    <3>1. Reader \in suspended
      BY <2>1 DEF WakePartner
    <3>2. Reader \in suspended => pc[Reader] \in {"suspend", "suspendYield", "unregister"}
      <4>1. FifoWaits
        BY DEF WaitingInvariant
      <4> QED
        BY <4>1 DEF FifoWaits
    <3>3. pc'[Reader] = pc[Reader]
      BY <2>1 DEF WakePartner
    <3> QED
      BY <3>1, <3>2, <3>3
  <2>2. ASSUME ~WakePartner(Writer) PROVE pc'[Writer] # "resume"
    BY <2>2 DEF FifoStep, SyncStep, SyncTry, SyncRegister, SyncUnregister, SyncSuspend, SyncSuspendYield,
         SyncYield, SyncRetry, PutGeneric, Sync, SyncEndScope, Wake, WakeResume, WakeEnd
  <2> QED
    BY <2>1, <2>2
<1>2. CASE ~FifoStep(Writer)
  <2>1. CASE FifoStep(Reader)
    <3>1. PICK from \in {"run"} \cup SyncPcs, to \in {"run"} \cup SyncPcs : ThreadStep(Reader, from, to)
      BY <2>1, FifoThreadStep, TwoThreads
    <3>2. pc'[Writer] = pc[Writer] /\ pc'[Reader] = to /\ running = Reader /\ presel # Reader
      BY <1>a, <3>1, OtherThread, TwoThreads, SchedulingAssumption DEF ThreadStep, Selected
    <3>3. partner'[Writer] = partner[Writer]
      <4>1. partner' = partner \/ \E x : partner' = [partner EXCEPT ![Reader] = x]
        BY <2>1, TwoThreads DEF FifoStep, SyncStep, SyncTry, SyncRegister, SyncUnregister, SyncSuspend,
             SyncSuspendYield, SyncYield, SyncRetry, Sync, SyncEndScope, Wake, WakePartner, WakeResume,
             WakeEnd, syncVars
      <4> QED
        BY <1>a, <4>1, TwoThreads
    <3>4. \/ pc[Reader] \in {"suspend", "suspendYield", "unregister", "endScope"}
          \/ pc[Reader] = "yield" /\ Reader \notin cut
      BY <1>a, <3>2, <3>3 DEF ResumesFifoWait
    <3> USE <2>1, <1>a, <3>4, TwoThreads DEF Executes, Goto
    <3>5. CASE SyncYield(Reader)
      <4>1. Yield(running) /\ pc[Reader] = "yield" /\ pc'[Reader] \in {"retry", "wake", "run"}
        BY <3>2, <3>5 DEF SyncYield
      <4>2. running' # Reader /\ presel' # Reader
        BY <1>c, <3>2, <3>4, <4>1
      <4> QED
        BY <4>1, <4>2
    <3>6. CASE SyncSuspend(Reader) \/ SyncSuspendYield(Reader) \/ SyncUnregister(Reader)
      BY <3>6 DEF SyncSuspend, SyncSuspendYield, SyncUnregister
    <3>7. CASE SyncEndScope(Reader)
      <4>1. pc[Reader] = "endScope" /\ pc'[Reader] = "yield" /\ cut' = cut
        BY <3>7 DEF SyncEndScope, schedVars
      <4>2. Reader \notin cut
        BY <4>1 DEF Places, WaitYieldPcs
      <4> QED
        BY <4>1, <4>2
    <3>8. ASSUME ~SyncYield(Reader), ~SyncSuspend(Reader), ~SyncSuspendYield(Reader),
                 ~SyncUnregister(Reader), ~SyncEndScope(Reader)
          PROVE  FALSE
      BY <3>8 DEF FifoStep, SyncStep, SyncTry, SyncRegister, SyncRetry, Sync, Wake, WakePartner,
           WakeResume, WakeEnd
    <3> QED
      BY <3>5, <3>6, <3>7, <3>8
  <2>2. CASE \A t \in Threads : ~FifoStep(t)
    <3>1. pc[Writer] = "resume" /\ partner[Writer]
      BY <2>2, OutsideFifo, TwoThreads DEF SyncPcs, syncVars
    <3>2. \/ pc[Reader] \in {"suspend", "suspendYield", "unregister", "endScope"}
          \/ pc[Reader] = "yield" /\ Reader \notin cut
          \/ pc[Reader] \in {"yield", "retry", "wake", "run"} /\ running # Reader /\ presel # Reader
      BY <1>a, <3>1 DEF ResumesFifoWait
    <3>3. pc[Reader] \in SyncPcs => pc'[Reader] = pc[Reader]
      BY <2>2, OutsideFifo, TwoThreads
    <3>4. CASE SignalStep \/ IoStep
      <4>1. PICK t \in {Writer, Reader}, from \in Code \ SyncPcs, to \in Code \ SyncPcs : ThreadStep(t, from, to)
        BY <3>4, SignalThreadStep, IoThreadStep DEF Code, SyncPcs, WaitPcs, UnblockPcs, IoPcs
      <4>2. t = Reader
        BY <3>1, <4>1 DEF ThreadStep, SyncPcs
      <4>3. pc[Reader] = from /\ running = Reader
        BY <4>1, <4>2 DEF ThreadStep
      <4> QED
        BY <3>2, <4>1, <4>3 DEF SyncPcs
    <3>5. CASE TickPreempts
      <4>1. pc' = pc /\ Preempt(WaitYieldPcs)
        BY <3>5 DEF TickPreempts, Preempt
      <4>2. CASE pc[Reader] \in {"suspend", "suspendYield", "unregister", "endScope"}
        BY <4>1, <4>2
      <4>3. CASE pc[Reader] \in {"yield", "retry", "wake", "run"} /\ presel # Reader
        BY <1>c, <3>1, <4>1, <4>3
      <4>4. CASE pc[Reader] = "yield" /\ Reader \notin cut /\ presel = Reader
        <5>1. running # Reader
          BY <1>a, <4>4, TwoThreads, SchedulingAssumption DEF Selected
        <5>2. Reader \notin cut'
          BY <4>1, <4>4, <5>1 DEF Preempt
        <5> QED
          BY <4>1, <4>4, <5>2
      <4> QED
        BY <3>2, <4>2, <4>3, <4>4
    <3>6. CASE IdleStep
      <4>1. pc' = pc /\ Yield(running) /\ running = Idle /\ Idle # Reader
        BY <3>6, TwoThreads DEF IdleStep, IdleYields
      <4>2. cut' \subseteq cut
        BY <4>1 DEF Yield
      <4>3. CASE pc[Reader] \in {"yield", "retry", "wake", "run"} /\ presel # Reader
        BY <1>c, <3>1, <4>1, <4>3
      <4> QED
        BY <3>2, <4>1, <4>2, <4>3
    <3>7. CASE (\E t \in Threads : TimeOver(t)) \/ (\E c \in Conditions : Interrupt(c))
      <4>1. UNCHANGED <<pc, running, presel, cut>>
        BY <3>7 DEF TimeOver, Expire, Interrupt, UpCall, schedVars
      <4> QED
        BY <3>2, <4>1
    <3> QED
      BY <2>2, <3>4, <3>5, <3>6, <3>7 DEF WaitingNext
  <2> QED
    BY <1>2, <2>1, <2>2, TwoThreads
<1> QED
  BY <1>1, <1>2

(* The fifo resumes nobody out of another wait.                            *)
LEMMA FifoWakesFifo ==
  ASSUME WaitingInvariant, NEW t \in Threads, FifoStep(t), pc[Reader] \in WaitPcs \cup IoPcs
  PROVE  t = Writer /\ susp'[Reader] = susp[Reader] /\ pc'[Reader] = pc[Reader]
<1>a. /\ pc \in [All -> Code]
      /\ susp \in [All -> {"no", "timed", "forever"}] /\ ResumesFifoWait
  BY DEF WaitingInvariant, WaitingTypes
<1>b. PICK from \in {"run"} \cup SyncPcs, to \in {"run"} \cup SyncPcs : ThreadStep(t, from, to)
  BY FifoThreadStep
<1>1. t = Writer
  <2>1. t # Reader
    BY <1>b DEF ThreadStep, SyncPcs, WaitPcs, IoPcs
  <2> QED
    BY <2>1, TwoThreads
<1>2. pc'[Reader] = pc[Reader]
  BY <1>1, <1>b, OtherThread, TwoThreads
<1>3. susp'[Reader] = susp[Reader]
  <2> USE <1>1, TwoThreads DEF Executes, Goto
  <2>1. CASE WakeResume(Writer)
    <3>1. ~partner[Writer]
      BY <1>a, <2>1 DEF WakeResume, ResumesFifoWait, WaitPcs, IoPcs
    <3> QED
      BY <2>1, <3>1 DEF WakeResume
  <2>2. CASE SyncSuspend(Writer)
    BY <1>a, <2>2 DEF SyncSuspend, Suspend
  <2>3. ASSUME ~WakeResume(Writer), ~SyncSuspend(Writer) PROVE susp' = susp
    BY <2>3 DEF FifoStep, SyncStep, SyncTry, SyncRegister, SyncSuspendYield, SyncUnregister, SyncYield,
         SyncRetry, PutGeneric, Sync, SyncEndScope, Wake, WakePartner, WakeEnd, syncVars
  <2> QED
    BY <2>1, <2>2, <2>3
<1> QED
  BY <1>1, <1>2, <1>3

-----------------------------------------------------------------------------
(* The barrier.                                                            *)

(* Only waitForSignal and unblock change the barrier.  What wakes a thread *)
(* at the barrier besides them is its time-out or a stray upcall.          *)
LEMMA OutsideBarrier ==
  ASSUME WaitingInvariant, WaitingNext, ~SignalStep
  PROVE  /\ UNCHANGED barrierVars
         /\ pc[Reader] \in WaitPcs \/ pc'[Reader] \in WaitPcs => pc'[Reader] = pc[Reader]
         /\ pc[Writer] \in UnblockPcs \/ pc'[Writer] \in UnblockPcs => pc'[Writer] = pc[Writer]
         /\ pc'[Reader] \in WaitPcs /\ stray => stray'
         /\ pc[Reader] \in {"waitYield", "waitWoken"} =>
              \/ susp'[Reader] = susp[Reader]
              \/ susp'[Reader] = "no" /\ (timeOutAt = "timed" \/ stray')
<1>a. /\ pc \in [All -> Code]
      /\ susp \in [All -> {"no", "timed", "forever"}]
      /\ timeOutAt \in {"timed", "forever"}
      /\ caller \in [Conditions -> {Reader, NoCaller}]
      /\ pc[Reader] \in {"waitYield", "waitWoken"} => susp[Reader] \in {"no", timeOutAt}
      /\ pc[Reader] \notin IoPcs => awaited = NoWait
  <2>1. WaitingTypes /\ BarrierTypeOK /\ IoTypeOK /\ BarrierOwned /\ IoWaits
    BY DEF WaitingInvariant
  <2> QED
    BY <2>1, TwoThreads DEF WaitingTypes, BarrierTypeOK, IoTypeOK, BarrierOwned, IoWaits
<1>1. ASSUME NEW t \in Threads, FifoStep(t)
      PROVE  /\ UNCHANGED barrierVars
             /\ pc[Reader] \in WaitPcs \/ pc'[Reader] \in WaitPcs => pc'[Reader] = pc[Reader]
             /\ pc[Writer] \in UnblockPcs \/ pc'[Writer] \in UnblockPcs => pc'[Writer] = pc[Writer]
             /\ pc'[Reader] \in WaitPcs /\ stray => stray'
             /\ pc[Reader] \in {"waitYield", "waitWoken"} => susp'[Reader] = susp[Reader]
  <2>1. UNCHANGED barrierVars
    BY <1>1 DEF FifoStep
  <2>2. PICK from \in {"run"} \cup SyncPcs, to \in {"run"} \cup SyncPcs : ThreadStep(t, from, to)
    BY <1>1, FifoThreadStep
  <2>3. from \notin WaitPcs \cup UnblockPcs /\ to \notin WaitPcs \cup UnblockPcs
    BY DEF SyncPcs, WaitPcs, UnblockPcs
  <2>4. pc[t] = from /\ pc' = [pc EXCEPT ![t] = to] /\ stray' = (stray /\ pc'[Reader] # "run")
    BY <2>2 DEF ThreadStep
  <2>5. pc[Reader] \in {"waitYield", "waitWoken"} => susp'[Reader] = susp[Reader]
    BY <1>1, FifoWakesFifo DEF WaitPcs
  <2>6. "run" \notin WaitPcs
    BY DEF WaitPcs
  <2> QED
    BY <1>a, <2>1, <2>3, <2>4, <2>5, <2>6, TwoThreads
<1>2. ASSUME IoStep
      PROVE  /\ UNCHANGED barrierVars
             /\ pc[Reader] \notin WaitPcs /\ pc'[Reader] \notin WaitPcs
             /\ pc'[Writer] = pc[Writer]
  <2>1. UNCHANGED barrierVars
    BY <1>2 DEF IoStep
  <2>2. PICK from \in {"run"} \cup IoPcs, to \in {"run"} \cup IoPcs : ThreadStep(Reader, from, to)
    BY <1>2, IoThreadStep
  <2>3. from \notin WaitPcs /\ to \notin WaitPcs
    BY DEF IoPcs, WaitPcs
  <2>4. pc[Reader] = from /\ pc' = [pc EXCEPT ![Reader] = to]
    BY <2>2 DEF ThreadStep
  <2> QED
    BY <1>a, <2>1, <2>3, <2>4, TwoThreads
<1>3. CASE TickPreempts \/ IdleStep
  <2>1. UNCHANGED <<barrierVars, pc, susp, stray>>
    BY <1>3 DEF TickPreempts, Preempt, IdleStep, IdleYields, ghosts
  <2> QED
    BY <1>a, <2>1
<1>4. ASSUME NEW t \in Threads, TimeOver(t)
      PROVE  /\ UNCHANGED <<barrierVars, pc, stray>>
             /\ pc[Reader] \in {"waitYield", "waitWoken"} =>
                  susp'[Reader] = susp[Reader] \/ (susp'[Reader] = "no" /\ timeOutAt = "timed")
  BY <1>a, <1>4, TwoThreads DEF TimeOver, Expire, ghosts
<1>5. ASSUME NEW c \in Conditions, Interrupt(c)
      PROVE  /\ UNCHANGED <<barrierVars, pc>>
             /\ pc'[Reader] \in WaitPcs /\ stray => stray'
             /\ pc[Reader] \in {"waitYield", "waitWoken"} =>
                  susp'[Reader] = susp[Reader] \/ (susp'[Reader] = "no" /\ stray')
  <2>1. UNCHANGED <<barrierVars, pc>>
    BY <1>5 DEF Interrupt, UpCall
  <2>2. stray' = ((stray \/ (caller[c] = Reader /\ awaited.condition # c /\ susp[Reader] # "no"))
                  /\ pc'[Reader] # "run")
    BY <1>5, TwoThreads DEF Interrupt, Stray
  <2>3. pc'[Reader] \in WaitPcs => pc'[Reader] # "run"
    BY DEF WaitPcs
  <2>4. CASE pc[Reader] \in {"waitYield", "waitWoken"} /\ caller[c] = Reader /\ susp[Reader] # "no"
    <3>1. awaited.condition # c
      BY <1>5, <1>a, <2>4, TwoThreads DEF IoPcs, NoWait
    <3>2. susp' = [susp EXCEPT ![Reader] = "no"]
      BY <1>5, <2>4, TwoThreads DEF Interrupt, UpCall
    <3> QED
      BY <1>a, <2>1, <2>2, <2>3, <2>4, <3>1, <3>2, TwoThreads DEF WaitPcs
  <2>5. CASE caller[c] # Reader \/ susp[Reader] = "no"
    <3>1. caller[c] \in {Reader, NoCaller}
      BY <1>a, <1>5
    <3>2. susp'[Reader] = susp[Reader]
      BY <1>a, <1>5, <2>5, <3>1, TwoThreads DEF Interrupt, UpCall
    <3> QED
      BY <2>1, <2>2, <2>3, <3>2
  <2> QED
    BY <2>1, <2>2, <2>3, <2>4, <2>5
<1>6. CASE \E t \in Threads : FifoStep(t)
  BY <1>1, <1>6
<1>7. CASE IoStep
  BY <1>2, <1>7 DEF WaitPcs
<1>8. CASE \E t \in Threads : TimeOver(t)
  BY <1>4, <1>8
<1>9. CASE \E c \in Conditions : Interrupt(c)
  BY <1>5, <1>9
<1> QED
  BY <1>3, <1>6, <1>7, <1>8, <1>9 DEF WaitingNext

(* Types of the barrier.                                                   *)
LEMMA NextBarrierTypes ==
  ASSUME WaitingInvariant, WaitingNext
  PROVE  BarrierTypeOK'
<1>a. BarrierTypeOK
  BY DEF WaitingInvariant
<1>1. CASE ~SignalStep
  <2>1. UNCHANGED barrierVars
    BY <1>1, OutsideBarrier
  <2> QED
    BY <1>a, <2>1 DEF BarrierTypeOK, barrierVars
<1>2. CASE \E until \in Timeouts : RequestAndWait(until)
  BY <1>a, <1>2, WaitingAssumption DEF RequestAndWait, BarrierTypeOK
<1>3. CASE Publish \/ WaitOwn \/ WaitWoken \/ WaitClear \/ Answer \/ UnblockClear
  BY <1>a, <1>3 DEF Publish, WaitOwn, WaitWoken, WaitClear, Answer, UnblockClear, BarrierTypeOK
<1>4. CASE Respond
  BY <1>a, <1>4 DEF Respond, BarrierTypeOK
<1>6. CASE RespondClear
  <2>1. missed' \in BOOLEAN
    BY <1>6 DEF RespondClear
  <2> QED
    BY <1>a, <1>6, <2>1 DEF RespondClear, BarrierTypeOK
<1>5. CASE \/ CallWaitForSignal \/ WaitForSignal \/ WaitSleep \/ WaitYield \/ WaitEnd
           \/ Unblock \/ UnblockCeil \/ UnblockTest \/ UnblockResume \/ UnblockEnd
  <2>1. UNCHANGED barrierVars
    BY <1>5 DEF CallWaitForSignal, WaitForSignal, WaitSleep, WaitYield, WaitEnd, Unblock, UnblockCeil, UnblockTest,
         UnblockResume, UnblockEnd
  <2> QED
    BY <1>a, <2>1 DEF BarrierTypeOK, barrierVars
<1> QED
  BY <1>1, <1>2, <1>3, <1>4, <1>5, <1>6 DEF SignalStep, BarrierStep

(* What the code at the barrier may rely on.                               *)
LEMMA AtTheBarrier ==
  ASSUME WaitingInvariant, WaitingNext
  PROVE  /\ ~broken' /\ (pc'[Reader] \in ScopePcs \/ pc'[Writer] \in ScopePcs) => ~broken
         /\ ~broken /\ running = Reader
              => pc[Writer] \notin {"unblockTest", "unblockResume", "unblockClear", "unblockEnd"}
         /\ ~broken /\ running = Writer => pc[Reader] \notin {"waitOwn", "waitSleep", "waitEnd"}
         /\ pc \in [All -> Code]
         /\ susp \in [All -> {"no", "timed", "forever"}]
         /\ barrierOwner \in {Nobody, Reader} /\ timeOutAt \in {"timed", "forever"}
<1>1. WaitingTypes /\ BarrierTypeOK /\ Undisturbed
  BY DEF WaitingInvariant
<1>2. ~broken' /\ (pc'[Reader] \in ScopePcs \/ pc'[Writer] \in ScopePcs) => ~broken
  BY StillBroken, TwoThreads
<1>3. ~broken /\ running = Reader
        => pc[Writer] \notin {"unblockTest", "unblockResume", "unblockClear", "unblockEnd"}
  BY <1>1, TwoThreads DEF Undisturbed, ScopePcs, SleepPcs
<1>4. ~broken /\ running = Writer => pc[Reader] \notin {"waitOwn", "waitSleep", "waitEnd"}
  BY <1>1, TwoThreads DEF Undisturbed, ScopePcs, SleepPcs
<1> QED
  BY <1>1, <1>2, <1>3, <1>4, TwoThreads DEF WaitingTypes, BarrierTypeOK

(* The barrier keeps its owner as long as it is waited for.                *)
LEMMA NextBarrierOwned ==
  ASSUME WaitingInvariant, WaitingNext
  PROVE  BarrierOwned'
<1>a. BarrierOwned
  BY DEF WaitingInvariant
<1>1. CASE ~SignalStep
  <2>1. /\ pc[Reader] \in WaitPcs \/ pc'[Reader] \in WaitPcs => pc'[Reader] = pc[Reader]
        /\ pc[Writer] \in UnblockPcs \/ pc'[Writer] \in UnblockPcs => pc'[Writer] = pc[Writer]
        /\ pc'[Reader] \in WaitPcs /\ stray => stray'
        /\ pc[Reader] \in {"waitYield", "waitWoken"} =>
             \/ susp'[Reader] = susp[Reader]
             \/ susp'[Reader] = "no" /\ (timeOutAt = "timed" \/ stray')
        /\ barrierOwner' = barrierOwner /\ timeOutAt' = timeOutAt /\ signalled' = signalled
    BY <1>1, OutsideBarrier DEF barrierVars
  <2> QED
    BY <1>a, <2>1, AtTheBarrier DEF BarrierOwned, Asleep, WaitPcs, UnblockPcs, ScopePcs
<1>2. CASE SignalStep
  <2>a. stray' = (stray /\ pc'[Reader] # "run")
    BY <1>2, TwoThreads DEF SignalStep, Stray
  <2> USE <1>a, AtTheBarrier, TwoThreads DEF Executes, Goto, BarrierOwned, Asleep, ScopePcs
  <2>1. CASE \E until \in Timeouts : RequestAndWait(until)
    BY <2>1, <2>a DEF RequestAndWait
  <2>2. CASE Publish
    BY <2>2, <2>a DEF Publish
  <2>3. CASE CallWaitForSignal
    BY <2>3, <2>a DEF CallWaitForSignal, barrierVars
  <2>4. CASE WaitForSignal
    BY <2>4, <2>a DEF WaitForSignal, barrierVars
  <2>5. CASE WaitOwn
    BY <2>5, <2>a DEF WaitOwn
  <2>6. CASE WaitSleep
    BY <2>6, <2>a DEF WaitSleep, Suspend, barrierVars
  <2>17. CASE WaitYield
    BY <2>17, <2>a DEF WaitYield, barrierVars
  <2>7. CASE WaitWoken
    <3>1. susp[Reader] = "no"
      BY <2>7, RunningAwake DEF WaitWoken, WaitYieldPcs
    <3> QED
      BY <2>7, <2>a, <3>1 DEF WaitWoken
  <2>8. CASE WaitEnd
    BY <2>8, <2>a DEF WaitEnd, barrierVars
  <2>9. CASE WaitClear
    BY <2>9, <2>a DEF WaitClear
  <2>10. CASE Answer
    BY <2>10, <2>a DEF Answer
  <2>11. CASE Respond
    BY <2>11, <2>a DEF Respond
  <2>18. CASE RespondClear
    BY <2>18, <2>a DEF RespondClear
  <2>12. CASE Unblock \/ UnblockCeil
    BY <2>12, <2>a DEF Unblock, UnblockCeil, barrierVars
  <2>13. CASE UnblockTest
    BY <2>13, <2>a DEF UnblockTest, barrierVars
  <2>14. CASE UnblockResume
    BY <2>14, <2>a DEF UnblockResume, barrierVars
  <2>15. CASE UnblockClear
    BY <2>15, <2>a DEF UnblockClear
  <2>16. CASE UnblockEnd
    BY <2>16, <2>a DEF UnblockEnd, barrierVars
  <2> QED
    BY <1>2, <2>1, <2>2, <2>3, <2>4, <2>5, <2>6, <2>7, <2>8, <2>9, <2>10, <2>11, <2>12, <2>13, <2>14,
       <2>15, <2>16, <2>17, <2>18 DEF SignalStep, BarrierStep
<1> QED
  BY <1>1, <1>2

(* A response is not overlooked.                                           *)
LEMMA NextResponseComing ==
  ASSUME WaitingInvariant, WaitingNext
  PROVE  ResponseComing'
<1>a. ResponseComing /\ BarrierOwned
  BY DEF WaitingInvariant
<1>1. CASE ~SignalStep
  <2>1. /\ pc[Reader] \in WaitPcs \/ pc'[Reader] \in WaitPcs => pc'[Reader] = pc[Reader]
        /\ pc[Writer] \in UnblockPcs \/ pc'[Writer] \in UnblockPcs => pc'[Writer] = pc[Writer]
        /\ pc[Reader] \in {"waitYield", "waitWoken"} => susp'[Reader] \in {susp[Reader], "no"}
        /\ responsePending' = responsePending /\ missed' = missed
    BY <1>1, OutsideBarrier DEF barrierVars
  <2> QED
    BY <1>a, <2>1, AtTheBarrier DEF ResponseComing, Asleep, WaitPcs, UnblockPcs, ScopePcs
<1>2. CASE SignalStep
  <2>b. ~broken => /\ pc[Writer] = "unblockResume" => barrierOwner # Nobody
                   /\ Asleep => barrierOwner = Reader
                   /\ pc[Writer] \in {"unblockClear", "unblockEnd"} => ~Asleep
    BY <1>a DEF BarrierOwned
  <2>c. ResponseComing
    BY <1>a
  <2> USE <2>c, AtTheBarrier, TwoThreads DEF Executes, Goto, ResponseComing, Asleep, ScopePcs
  <2>1. CASE \E until \in Timeouts : RequestAndWait(until)
    BY <2>1 DEF RequestAndWait
  <2>2. CASE Publish
    BY <2>2 DEF Publish
  <2>3. CASE CallWaitForSignal
    BY <2>3 DEF CallWaitForSignal, barrierVars
  <2>4. CASE WaitForSignal
    BY <2>4 DEF WaitForSignal, barrierVars
  <2>5. CASE WaitOwn
    BY <2>5 DEF WaitOwn
  <2>6. CASE WaitSleep
    BY <2>6 DEF WaitSleep, Suspend, barrierVars
  <2>17. CASE WaitYield
    BY <2>17 DEF WaitYield, barrierVars
  <2>7. CASE WaitWoken
    BY <2>7 DEF WaitWoken
  <2>8. CASE WaitEnd
    BY <2>8 DEF WaitEnd, barrierVars
  <2>9. CASE WaitClear
    BY <2>9 DEF WaitClear
  <2>10. CASE Answer
    BY <2>10 DEF Answer
  <2>11. CASE Respond
    BY <2>11 DEF Respond
  <2>18. CASE RespondClear
    BY <2>18, <2>b DEF RespondClear
  <2>12. CASE Unblock \/ UnblockCeil
    BY <2>12, <2>b DEF Unblock, UnblockCeil, barrierVars
  <2>13. CASE UnblockTest
    BY <2>13, <2>b DEF UnblockTest, barrierVars
  <2>14. CASE UnblockResume
    BY <2>14, <2>b DEF UnblockResume, barrierVars
  <2>15. CASE UnblockClear
    BY <2>15, <2>b DEF UnblockClear
  <2>16. CASE UnblockEnd
    BY <2>16, <2>b DEF UnblockEnd, barrierVars
  <2> QED
    BY <1>2, <2>1, <2>2, <2>3, <2>4, <2>5, <2>6, <2>7, <2>8, <2>9, <2>10, <2>11, <2>12, <2>13, <2>14,
       <2>15, <2>16, <2>17, <2>18 DEF SignalStep, BarrierStep
<1> QED
  BY <1>1, <1>2

-----------------------------------------------------------------------------
(* The devices.                                                            *)

(* Only suspendUntilX and the upcalls change what belongs to the devices,  *)
(* and what wakes a thread that waits for one is its time-out or an upcall.*)
LEMMA OutsideIo ==
  ASSUME WaitingInvariant, WaitingNext, ~IoStep, \A c \in Conditions : ~Interrupt(c)
  PROVE  /\ UNCHANGED ioVars
         /\ pc[Reader] \in IoPcs \/ pc'[Reader] \in IoPcs => pc'[Reader] = pc[Reader]
         /\ pc'[Reader] \in IoPcs /\ stray => stray'
         /\ pc[Reader] \in IoPcs =>
              susp'[Reader] = susp[Reader] \/ (susp[Reader] = "timed" /\ susp'[Reader] = "no")
<1>a. /\ pc \in [All -> Code]
      /\ susp \in [All -> {"no", "timed", "forever"}]
      /\ barrierOwner \in {Nobody, Reader}
      /\ pc[Reader] \in IoPcs => barrierOwner = Nobody
  <2>1. WaitingTypes /\ BarrierTypeOK /\ BarrierOwned
    BY DEF WaitingInvariant
  <2> QED
    BY <2>1, TwoThreads DEF WaitingTypes, BarrierTypeOK, BarrierOwned, IoPcs
<1>1. ASSUME NEW t \in Threads, NEW from, NEW to, ThreadStep(t, from, to),
             from \notin IoPcs, to \notin IoPcs
      PROVE  /\ pc[Reader] \in IoPcs \/ pc'[Reader] \in IoPcs => pc'[Reader] = pc[Reader]
             /\ pc'[Reader] \in IoPcs /\ stray => stray'
  <2>1. pc[t] = from /\ pc' = [pc EXCEPT ![t] = to] /\ stray' = (stray /\ pc'[Reader] # "run")
    BY <1>1 DEF ThreadStep
  <2> QED
    BY <1>a, <1>1, <2>1, TwoThreads DEF IoPcs
<1>2. CASE \E t \in Threads : FifoStep(t)
  <2>1. UNCHANGED ioVars
    BY <1>2 DEF FifoStep
  <2>2. \E t \in Threads : \E from, to : ThreadStep(t, from, to) /\ from \notin IoPcs /\ to \notin IoPcs
    BY <1>2, FifoThreadStep DEF SyncPcs, IoPcs
  <2>3. pc[Reader] \in IoPcs => susp'[Reader] = susp[Reader]
    BY <1>2, FifoWakesFifo
  <2> QED
    BY <1>1, <2>1, <2>2, <2>3
<1>3. CASE SignalStep
  <2>1. UNCHANGED ioVars
    BY <1>3 DEF SignalStep
  <2>2. \E t \in Threads : \E from, to : ThreadStep(t, from, to) /\ from \notin IoPcs /\ to \notin IoPcs
    BY <1>3, SignalThreadStep, TwoThreads DEF WaitPcs, UnblockPcs, IoPcs
  <2>3. pc[Reader] \in IoPcs => susp'[Reader] = susp[Reader]
    <3> SUFFICES ASSUME pc[Reader] \in IoPcs PROVE susp' = susp
      OBVIOUS
    <3> USE <1>a, TwoThreads DEF Executes, IoPcs
    <3>1. ~WaitSleep
      BY DEF WaitSleep
    <3>2. CASE UnblockResume
      BY <3>2 DEF UnblockResume
    <3> QED
      BY <1>3, <3>1, <3>2 DEF SignalStep, BarrierStep, RequestAndWait, Publish, CallWaitForSignal,
           WaitForSignal, WaitOwn, WaitYield, WaitWoken, WaitEnd, WaitClear, Answer, Respond, RespondClear,
           Unblock, UnblockCeil, UnblockTest, UnblockClear, UnblockEnd
  <2> QED
    BY <1>1, <2>1, <2>2, <2>3
<1>4. CASE TickPreempts \/ IdleStep
  <2>1. UNCHANGED <<ioVars, pc, susp, stray>>
    BY <1>4 DEF TickPreempts, Preempt, IdleStep, IdleYields, ghosts
  <2> QED
    BY <2>1
<1>5. CASE \E t \in Threads : TimeOver(t)
  BY <1>a, <1>5, TwoThreads DEF TimeOver, Expire, ghosts
<1> QED
  BY <1>2, <1>3, <1>4, <1>5 DEF WaitingNext

(* Types of the devices.                                                   *)
LEMMA NextIoTypes ==
  ASSUME WaitingInvariant, WaitingNext
  PROVE  IoTypeOK'
<1>a. IoTypeOK
  BY DEF WaitingInvariant
<1>1. CASE ~IoStep /\ \A c \in Conditions : ~Interrupt(c)
  <2>1. UNCHANGED ioVars
    BY <1>1, OutsideIo
  <2> QED
    BY <1>a, <2>1 DEF IoTypeOK, ioVars
<1>2. ASSUME NEW c \in Conditions, Interrupt(c) PROVE IoTypeOK'
  BY <1>a, <1>2 DEF Interrupt, UpCall, IoTypeOK
<1>3. ASSUME NEW c \in Conditions, StartIo(c) PROVE IoTypeOK'
  BY <1>a, <1>3 DEF StartIo, IoTypeOK
<1>4. ASSUME NEW c \in Conditions, NEW until \in Timeouts, SuspendUntil(c, until) PROVE IoTypeOK'
  BY <1>a, <1>4, WaitingAssumption DEF SuspendUntil, IoTypeOK
<1>5. CASE SuspendYield
  BY <1>a, <1>5 DEF SuspendYield, ioVars, IoTypeOK
<1>6. CASE SuspendBack
  <2>1. unanswered' \subseteq Conditions
    <3>1. awaited.condition \in Conditions
      <4>1. pc[Reader] = "ioBack"
        BY <1>6, TwoThreads DEF SuspendBack, Executes
      <4>2. IoWaits
        BY DEF WaitingInvariant
      <4> QED
        BY <4>1, <4>2 DEF IoWaits, IoPcs
    <3> QED
      BY <1>a, <1>6, <3>1 DEF SuspendBack, IoTypeOK
  <2>2. awaited' \in [condition : Conditions \cup {NoCaller}, until : {"timed", "forever"}]
    BY <1>6 DEF SuspendBack, NoWait
  <2> QED
    BY <1>a, <1>6, <2>1, <2>2 DEF SuspendBack, IoTypeOK
<1> QED
  BY <1>1, <1>2, <1>3, <1>4, <1>5, <1>6 DEF IoStep

(* A wait for a device ends when its condition is fulfilled.               *)
LEMMA NextIoWaits ==
  ASSUME WaitingInvariant, WaitingNext
  PROVE  IoWaits'
<1>a. /\ pc \in [All -> Code]
      /\ susp \in [All -> {"no", "timed", "forever"}]
      /\ Places /\ IoTypeOK /\ IoWaits
  BY DEF WaitingInvariant, WaitingTypes
<1>b. caller \in [Conditions -> {Reader, NoCaller}]
  BY <1>a, TwoThreads DEF IoTypeOK
<1>1. CASE ~IoStep /\ \A c \in Conditions : ~Interrupt(c)
  <2>1. /\ UNCHANGED <<fulfilled, caller, awaited, unanswered>>
        /\ pc[Reader] \in IoPcs \/ pc'[Reader] \in IoPcs => pc'[Reader] = pc[Reader]
        /\ pc'[Reader] \in IoPcs /\ stray => stray'
        /\ pc[Reader] \in IoPcs =>
             susp'[Reader] = susp[Reader] \/ (susp[Reader] = "timed" /\ susp'[Reader] = "no")
    BY <1>1, OutsideIo DEF ioVars
  <2>2. CASE pc[Reader] \in IoPcs
    BY <1>a, <2>1, <2>2 DEF IoWaits
  <2>3. CASE pc[Reader] \notin IoPcs
    BY <1>a, <2>1, <2>3 DEF IoWaits
  <2> QED
    BY <2>2, <2>3
<1>2. CASE IoStep
  <2>a. stray' = (stray /\ pc'[Reader] # "run")
    BY <1>2, TwoThreads DEF IoStep, Stray
  <2> USE <1>a, <1>b, TwoThreads DEF Executes, Goto, IoPcs
  <2>1. ASSUME NEW c \in Conditions, StartIo(c) PROVE IoWaits'
    BY <2>1 DEF StartIo, IoWaits
  <2>2. ASSUME NEW c \in Conditions, NEW until \in Timeouts, SuspendUntil(c, until) PROVE IoWaits'
    <3>1. /\ pc'[Reader] = "ioYield" /\ susp'[Reader] = until /\ until \in {"timed", "forever"}
          /\ awaited'.condition = c /\ awaited'.until = until
          /\ caller' = [caller EXCEPT ![c] = Reader] /\ unanswered' = unanswered \ {c}
          /\ c \notin fulfilled' /\ awaited = NoWait
      BY <2>2, WaitingAssumption DEF SuspendUntil, IoWaits
    <3>2. \A d \in Conditions : caller'[d] # NoCaller => awaited'.condition = d \/ d \in unanswered'
      BY <3>1 DEF IoWaits, NoWait
    <3> QED
      BY <3>1, <3>2 DEF IoWaits
  <2>3. CASE SuspendYield
    BY <2>a, <2>3 DEF SuspendYield, ioVars, IoWaits
  <2>4. CASE SuspendBack
    <3>1. pc[Reader] = "ioBack" /\ pc'[Reader] = "run" /\ awaited' = NoWait /\ UNCHANGED <<fulfilled, caller>>
      BY <2>4 DEF SuspendBack
    <3>2. \A d \in Conditions : caller[d] # NoCaller => d \in unanswered'
      BY <2>4, <3>1 DEF SuspendBack, IoWaits
    <3> QED
      BY <3>1, <3>2 DEF IoWaits
  <2> QED
    BY <1>2, <2>1, <2>2, <2>3, <2>4 DEF IoStep
<1>3. ASSUME NEW c \in Conditions, Interrupt(c) PROVE IoWaits'
  <2>1. /\ UNCHANGED <<pc, awaited, unanswered>> /\ fulfilled' = fulfilled \cup {c}
        /\ caller' = [caller EXCEPT ![c] = NoCaller]
        /\ caller[c] = NoCaller => susp' = susp
        /\ caller[c] = Reader => susp' = [susp EXCEPT ![Reader] = "no"]
    BY <1>3, TwoThreads DEF Interrupt, UpCall
  <2>2. stray' = ((stray \/ (caller[c] = Reader /\ awaited.condition # c /\ susp[Reader] # "no"))
                  /\ pc'[Reader] # "run")
    BY <1>3, TwoThreads DEF Interrupt, Stray
  <2>3. \A d \in Conditions : caller'[d] # NoCaller => awaited'.condition = d \/ d \in unanswered'
    BY <1>a, <1>b, <2>1 DEF IoWaits
  <2>4. CASE pc[Reader] \notin IoPcs
    BY <1>a, <2>1, <2>3, <2>4 DEF IoWaits
  <2>5. CASE pc[Reader] \in IoPcs
    <3>1. /\ awaited.condition \in Conditions /\ pc[Reader] # "run"
          /\ susp[Reader] \in {"no", awaited.until}
          /\ susp[Reader] # "no" => caller[awaited.condition] = Reader /\ awaited.condition \notin fulfilled
          /\ awaited.condition \in fulfilled => caller[awaited.condition] = NoCaller
          /\ awaited.until = "forever" /\ susp[Reader] = "no" => awaited.condition \in fulfilled \/ stray
      BY <1>a, <2>5 DEF IoWaits, IoPcs
    <3>2. CASE caller[c] = Reader
      BY <1>a, <1>b, <2>1, <2>2, <2>3, <2>5, <3>1, <3>2, TwoThreads DEF IoWaits
    <3>3. CASE caller[c] = NoCaller
      BY <1>a, <1>b, <2>1, <2>2, <2>3, <2>5, <3>1, <3>3, TwoThreads DEF IoWaits
    <3> QED
      BY <1>b, <3>2, <3>3
  <2> QED
    BY <2>4, <2>5
<1> QED
  BY <1>1, <1>2, <1>3

(* A wait without timeout is ended by the other side or by a stray upcall. *)
LEMMA NextAwakeForAReason ==
  ASSUME WaitingInvariant, WaitingNext
  PROVE  AwakeForAReason'
<1> DEFINE waits(u) == pc[u] \in {"suspendYield", "unregister", "endScope", "yield", "retry"}
                         /\ timeout[u] = "forever"
           reason(u) == /\ susp[u] \in {"no", "forever"}
                        /\ susp[u] = "no" => Possible(u) \/ u \in futile \/ (u = Reader /\ stray)
<1>a. /\ pc \in [All -> Code] /\ susp \in [All -> {"no", "timed", "forever"}]
      /\ \A u \in Sides : waits(u) => reason(u)
      /\ SyncTypeOK /\ Places
      /\ \A u \in Sides : pc[u] = "suspend" => timeout[u] # "zero"
  <2>1. WaitingTypes /\ AwakeForAReason /\ SyncTypeOK /\ Places /\ FifoWaits
    BY DEF WaitingInvariant
  <2> QED
    BY <2>1 DEF WaitingTypes, AwakeForAReason, FifoWaits
<1> SUFFICES ASSUME NEW u \in Sides, waits(u)' PROVE reason(u)'
  BY DEF AwakeForAReason
<1>b. u \in All /\ u \in Threads /\ Partner(u) \in Sides /\ Partner(u) # u
  BY TwoThreads
<1>1. ASSUME NEW t \in Threads, FifoStep(t)
      PROVE  reason(u)'
  <2>1. stray' = (stray /\ pc'[Reader] # "run")
    BY <1>1, TwoThreads DEF FifoStep, Stray
  <2>2. PICK from \in {"run"} \cup SyncPcs, to \in {"run"} \cup SyncPcs : ThreadStep(t, from, to)
    BY <1>1, FifoThreadStep
  <2>3. u = Reader /\ stray => stray'
    BY <2>1
  <2>4. CASE t # u
    <3>1. t = Partner(u) /\ Partner(t) = u /\ t \in Sides /\ t \in All
      BY <2>4, TwoThreads
    <3>2. pc'[u] = pc[u] /\ susp'[u] \in {susp[u], "no"}
      BY <1>b, <2>2, <2>4, OtherThread
    <3>3. timeout'[u] = timeout[u] /\ (u \in futile => u \in futile')
      <4>1. \/ timeout' = timeout \/ \E x : timeout' = [timeout EXCEPT ![t] = x]
        BY <1>1 DEF FifoStep, SyncStep, SyncTry, SyncRegister, SyncSuspend, SyncSuspendYield,
             SyncUnregister, SyncEndScope, SyncYield, SyncRetry, PutGeneric, Sync, Wake, WakePartner,
             WakeResume, WakeEnd, syncVars
      <4>2. futile' \in {futile, futile \ {t}, futile \cup {u}}
        BY <1>1, <3>1 DEF FifoStep, SyncStep, SyncTry, SyncRegister, SyncSuspend, SyncSuspendYield,
             SyncUnregister, SyncEndScope, SyncYield, SyncRetry, PutGeneric, Sync, Wake, WakePartner,
             WakeResume, WakeEnd, syncVars
      <4> QED
        BY <1>a, <2>4, <4>1, <4>2 DEF SyncTypeOK
    <3>4. Possible(u) => Possible(u)'
      <4>1. count' = count \/ PutOrGet(t)
        BY <1>1 DEF FifoStep, SyncStep, SyncTry, SyncRegister, SyncSuspend, SyncSuspendYield,
             SyncUnregister, SyncEndScope, SyncYield, SyncRetry, PutGeneric, Sync, Wake, WakePartner,
             WakeResume, WakeEnd, syncVars
      <4> QED
        BY <1>a, <3>1, <4>1, TwoThreads DEF SyncTypeOK, PutOrGet, Possible
    <3>5. waits(u) /\ reason(u)
      BY <1>a, <3>2, <3>3
    <3>6. susp[u] # "no" /\ susp'[u] = "no" => Possible(u)' \/ u \in futile'
      <4>1. CASE WakeResume(t)
        BY <1>a, <3>1, <4>1 DEF WakeResume, Possible
      <4>2. CASE SyncSuspend(t)
        BY <1>a, <2>4, <3>1, <4>2 DEF SyncSuspend, Suspend
      <4>3. ASSUME ~WakeResume(t), ~SyncSuspend(t) PROVE susp' = susp
        BY <1>1, <4>3 DEF FifoStep, SyncStep, SyncTry, SyncRegister, SyncSuspendYield, SyncUnregister,
             SyncYield, SyncRetry, PutGeneric, Sync, SyncEndScope, Wake, WakePartner, WakeEnd, syncVars
      <4> QED
        BY <4>1, <4>2, <4>3
    <3> QED
      BY <2>3, <3>2, <3>3, <3>4, <3>5, <3>6
  <2>5. CASE t = u
    <3> USE <1>1, <1>a, <1>b, <2>5 DEF Executes, Goto
    <3>1. CASE SyncSuspend(u)
      BY <3>1 DEF SyncSuspend, Suspend, SyncTypeOK, syncVars
    <3>2. CASE SyncSuspendYield(u) \/ SyncEndScope(u)
      <4>1. UNCHANGED <<susp, count, futile, timeout>> /\ waits(u)
        BY <3>2 DEF SyncSuspendYield, SyncEndScope, syncVars
      <4> QED
        BY <2>3, <4>1 DEF Possible
    <3>3. CASE SyncUnregister(u) \/ SyncYield(u)
      <4>1. UNCHANGED <<susp, count, futile, timeout>> /\ waits(u)
        BY <3>3 DEF SyncUnregister, SyncYield
      <4> QED
        BY <2>3, <4>1 DEF Possible
    <3>4. CASE SyncRegister(u) \/ SyncTry(u)
      <4>1. timeout'[u] # "forever"
        BY <3>4 DEF SyncRegister, SyncTry, SyncTypeOK
      <4> QED
        BY <4>1
    <3>5. ASSUME ~SyncSuspend(u), ~SyncSuspendYield(u), ~SyncEndScope(u), ~SyncUnregister(u), ~SyncYield(u),
                 ~SyncRegister(u), ~SyncTry(u)
          PROVE  FALSE
      BY <3>5 DEF FifoStep, SyncStep, SyncRetry, PutGeneric, Sync, Wake, WakePartner, WakeResume, WakeEnd
    <3> QED
      BY <3>1, <3>2, <3>3, <3>4, <3>5
  <2> QED
    BY <2>4, <2>5
<1>2. CASE \A t \in Threads : ~FifoStep(t)
  <2>1. UNCHANGED syncVars /\ pc'[u] = pc[u]
    BY <1>2, OutsideFifo DEF SyncPcs
  <2>2. waits(u) /\ reason(u) /\ (Possible(u) => Possible(u)') /\ futile' = futile
    BY <1>a, <2>1 DEF syncVars, Possible
  <2>3. u = Reader => pc'[Reader] # "run"
    OBVIOUS
  <2>4. \/ susp'[u] = susp[u] /\ (u = Reader /\ stray => stray')
        \/ u = Reader /\ susp'[u] = "no" /\ stray'
    <3>1. ASSUME SignalStep \/ IoStep \/ TickPreempts \/ IdleStep
          PROVE  susp'[u] = susp[u] /\ (u = Reader /\ stray => stray')
      <4>1. u = Reader /\ stray => stray'
        BY <2>3, <3>1, TwoThreads DEF SignalStep, IoStep, Stray, TickPreempts, IdleStep, ghosts
      <4>2. CASE TickPreempts \/ IdleStep
        BY <4>1, <4>2 DEF TickPreempts, Preempt, IdleStep, IdleYields
      <4>3. CASE IoStep
        BY <1>a, <2>1, <4>1, <4>3, TwoThreads
           DEF IoStep, StartIo, SuspendUntil, SuspendYield, SuspendBack, Executes
      <4>4. CASE SignalStep
        <5>1. barrierOwner \in {Nobody, Reader} /\ (barrierOwner = Reader => u # Reader)
          <6>1. BarrierOwned /\ BarrierTypeOK
            BY DEF WaitingInvariant
          <6> QED
            BY <2>1, <6>1, TwoThreads DEF BarrierOwned, BarrierTypeOK
        <5>2. CASE WaitSleep
          BY <1>a, <2>1, <4>1, <5>2, TwoThreads DEF WaitSleep, Suspend, Executes
        <5>3. CASE UnblockResume
          BY <1>a, <4>1, <5>1, <5>3, TwoThreads DEF UnblockResume
        <5>4. ASSUME ~WaitSleep, ~UnblockResume PROVE susp' = susp
          BY <4>4, <5>4 DEF SignalStep, BarrierStep, RequestAndWait, Publish, CallWaitForSignal,
               WaitForSignal, WaitOwn, WaitYield, WaitWoken, WaitEnd, WaitClear, Answer, Respond,
               RespondClear, Unblock, UnblockCeil, UnblockTest, UnblockClear, UnblockEnd
        <5> QED
          BY <4>1, <5>2, <5>3, <5>4
      <4> QED
        BY <3>1, <4>2, <4>3, <4>4
    <3>2. ASSUME NEW t \in Threads, TimeOver(t)
          PROVE  susp'[u] = susp[u] /\ (u = Reader /\ stray => stray')
      <4>1. susp[t] = "timed" /\ susp' = [susp EXCEPT ![t] = "no"] /\ stray' = stray
        BY <3>2 DEF TimeOver, Expire, ghosts
      <4> QED
        BY <1>a, <2>2, <4>1
    <3>3. ASSUME NEW c \in Conditions, Interrupt(c)
          PROVE  \/ susp'[u] = susp[u] /\ (u = Reader /\ stray => stray')
                 \/ u = Reader /\ susp'[u] = "no" /\ stray'
      <4>1. stray' = ((stray \/ (caller[c] = Reader /\ awaited.condition # c /\ susp[Reader] # "no"))
                      /\ pc'[Reader] # "run")
        BY <3>3, TwoThreads DEF Interrupt, Stray
      <4>2. caller[c] \in {Reader, NoCaller}
        BY TwoThreads DEF WaitingInvariant, IoTypeOK
      <4>3. susp' = IF caller[c] = NoCaller THEN susp ELSE [susp EXCEPT ![caller[c]] = "no"]
        BY <3>3 DEF Interrupt, UpCall
      <4>4. CASE u = Reader /\ caller[c] = Reader /\ susp[Reader] # "no"
        <5>1. awaited.condition # c
          <6>1. IoWaits
            BY DEF WaitingInvariant
          <6>2. pc[Reader] \notin IoPcs
            BY <2>1, <4>4 DEF IoPcs
          <6> QED
            BY <3>3, <6>1, <6>2, TwoThreads DEF IoWaits, NoWait
        <5> QED
          BY <1>a, <2>3, <4>1, <4>3, <4>4, <5>1, TwoThreads
      <4>5. CASE ~(u = Reader /\ caller[c] = Reader /\ susp[Reader] # "no")
        BY <1>a, <1>b, <2>3, <4>1, <4>2, <4>3, <4>5, TwoThreads
      <4> QED
        BY <4>4, <4>5
    <3> QED
      BY <1>2, <3>1, <3>2, <3>3 DEF WaitingNext
  <2> QED
    BY <2>2, <2>4
<1> QED
  BY <1>1, <1>2

-----------------------------------------------------------------------------
(* All of it.                                                              *)
LEMMA InitWaiting ==
  ASSUME WaitingInit
  PROVE  WaitingInvariant
<1>1. PICK p \in Priorities : SchedulingInit(p)
  BY DEF WaitingInit
<1>a. p \in [All -> 0..Ceiling - 1] /\ Ceiling \in Nat \ {0}
  BY SchedulingAssumption
<1> USE TwoThreads DEF SchedulingInit
<1>b. /\ running = Idle /\ presel = NoThread /\ cut = {} /\ prio = p
      /\ \A t \in All : susp[t] = "no" /\ pc[t] = "run" /\ saved[t] = 0
      /\ broken = FALSE /\ stray = FALSE
  BY <1>1 DEF WaitingInit
<1>2. WaitingTypes
  <2>1. p \in [All -> 0..Ceiling] /\ 0 \in 0..Ceiling
    BY <1>a
  <2>2. /\ susp \in [All -> {"no", "timed", "forever"}] /\ saved \in [All -> 0..Ceiling]
        /\ pc \in [All -> Code]
    BY <1>1, <2>1 DEF Code
  <2> QED
    BY <1>b, <2>1, <2>2 DEF WaitingTypes
<1>c. Scopes /\ Places /\ Undisturbed /\ Selected
  BY <1>a, <1>b DEF Scopes, Places, Undisturbed, ScopePcs, Selected
<1>3. ListOK
  BY <1>1, InitialList
<1>4. SyncTypeOK /\ FifoWaits /\ ResumesFifoWait /\ AwakeForAReason
  BY <1>1 DEF WaitingInit, SyncInit, SyncTypeOK, FifoWaits, WaitsForFifo, ResumesFifoWait, AwakeForAReason
<1>5. BarrierTypeOK /\ BarrierOwned /\ ResponseComing
  BY <1>1 DEF WaitingInit, BarrierInit, BarrierTypeOK, BarrierOwned, ResponseComing, Asleep
<1>6. IoTypeOK /\ IoWaits
  BY <1>1 DEF WaitingInit, IoInit, IoTypeOK, IoWaits, IoPcs, NoWait
<1> QED
  BY <1>2, <1>3, <1>4, <1>5, <1>6, <1>c DEF WaitingInvariant

LEMMA WaitingStutter ==
  ASSUME WaitingInvariant, UNCHANGED waitingVars
  PROVE  WaitingInvariant'
<1>1. UNCHANGED <<running, presel, cut, prio, susp, activations, pc, saved, broken, stray>>
  BY DEF waitingVars, schedVars, ghosts
<1>2. UNCHANGED <<count, suspended, timeout, ok, partner, futile>>
  BY DEF waitingVars, syncVars
<1>3. UNCHANGED <<barrierOwner, responsePending, asked, timeOutAt, signalled, missed>>
  BY DEF waitingVars, barrierVars
<1>4. UNCHANGED <<fulfilled, caller, awaited, unanswered>>
  BY DEF waitingVars, ioVars
<1>5. (WaitingTypes /\ ListOK /\ Selected /\ Scopes /\ Places /\ Undisturbed)'
  BY <1>1 DEF WaitingInvariant, WaitingTypes, ListOK, Selected, Scopes, Places, Undisturbed
<1>6. (SyncTypeOK /\ FifoWaits /\ ResumesFifoWait /\ AwakeForAReason)'
  BY <1>1, <1>2 DEF WaitingInvariant, SyncTypeOK, FifoWaits, WaitsForFifo, Possible, Coming,
       ResumesFifoWait, AwakeForAReason
<1>7. (BarrierTypeOK /\ BarrierOwned /\ ResponseComing)'
  BY <1>1, <1>3 DEF WaitingInvariant, BarrierTypeOK, BarrierOwned, ResponseComing, Asleep
<1>8. (IoTypeOK /\ IoWaits)'
  BY <1>1, <1>4 DEF WaitingInvariant, IoTypeOK, IoWaits
<1> QED
  BY <1>5, <1>6, <1>7, <1>8 DEF WaitingInvariant

(* The invariant of the threads that wait.                                 *)
LEMMA WaitingHolds == WaitingSpec => []WaitingInvariant
<1>1. WaitingInit => WaitingInvariant
  BY InitWaiting
<1>2. WaitingInvariant /\ [WaitingNext]_waitingVars => WaitingInvariant'
  <2>1. ASSUME WaitingInvariant, WaitingNext PROVE WaitingInvariant'
    <3>1. WaitingTypes' /\ Scopes' /\ Places' /\ ListOK' /\ Undisturbed' /\ Selected'
      BY <2>1, NextScopes, NextPreselected, WaitingScheduled, NextUndisturbed
    <3>2. SyncTypeOK' /\ FifoWaits' /\ ResumesFifoWait' /\ AwakeForAReason'
      BY <2>1, NextSyncTypes, NextFifoWaits, NextResumesFifoWait, NextAwakeForAReason
    <3>3. BarrierTypeOK' /\ BarrierOwned' /\ ResponseComing'
      BY <2>1, NextBarrierTypes, NextBarrierOwned, NextResponseComing
    <3>4. IoTypeOK' /\ IoWaits'
      BY <2>1, NextIoTypes, NextIoWaits
    <3> QED
      BY <3>1, <3>2, <3>3, <3>4 DEF WaitingInvariant
  <2> QED
    BY <2>1, WaitingStutter
<1> QED
  BY <1>1, <1>2, PTL DEF WaitingSpec

(* syncPut and syncGet: whoever waits without timeout while it could go on *)
(* has its partner on the way to wake it, unless a SysTick took the CPU    *)
(* from a thread with the ceiling priority.                                *)
THEOREM NobodyIsForgotten == WaitingSpec => []NobodyForgotten
<1>1. WaitingInvariant => NobodyForgotten
  <2> SUFFICES ASSUME WaitingInvariant PROVE NobodyForgotten
    OBVIOUS
  <2>1. WaitingTypes /\ ListOK /\ SyncTypeOK /\ FifoWaits
    BY DEF WaitingInvariant
  <2>2. SchedulingTypeOK
    BY <2>1 DEF SchedulingTypeOK, WaitingTypes, ListOK, Selected
  <2>3. ASSUME NEW t \in Sides, WaitsForFifo(t),
               pc[Partner(t)] \notin SyncPcs \/ WaitsForFifo(Partner(t)),
               Possible(t), ~broken
        PROVE  FALSE
    <3>1. Coming(Partner(t))
      BY <2>1, <2>3 DEF FifoWaits
    <3> QED
      BY <2>3, <3>1 DEF Coming, SyncPcs, WaitsForFifo
  <2> QED
    BY <2>1, <2>2, <2>3 DEF NobodyForgotten, WaitingTypes, Code
<1> QED
  BY <1>1, WaitingHolds, PTL

(* Barrier::unblock never calls resume() through the null pointer, unless  *)
(* a ceiler was broken.                                                    *)
THEOREM UnblockNeverNull == WaitingSpec => []UnblockFindsOwner
<1>1. WaitingInvariant => UnblockFindsOwner
  BY TwoThreads DEF WaitingInvariant, BarrierOwned, UnblockFindsOwner
<1> QED
  BY <1>1, WaitingHolds, PTL

(* Barrier::waitForSignal without timeout returns false only if a ceiler   *)
(* was broken or a device's upcall ended the wait.                         *)
THEOREM SignalReported == WaitingSpec => []FalseOnlyByTimeOut
<1>1. WaitingInvariant => FalseOnlyByTimeOut
  BY TwoThreads DEF WaitingInvariant, BarrierOwned, FalseOnlyByTimeOut
<1> QED
  BY <1>1, WaitingHolds, PTL

(* A client of request and response sleeps only while its response has not *)
(* come or the server is about to wake it, but for the window before the   *)
(* ceiler.                                                                 *)
THEOREM ResponseIsNotOverlooked == WaitingSpec => []ResponseWakes
<1>1. WaitingInvariant => ResponseWakes
  BY TwoThreads DEF WaitingInvariant, ResponseComing, Asleep, ResponseWakes, UnblockPcs
<1> QED
  BY <1>1, WaitingHolds, PTL

(* GenericIOInterface: a suspendUntilX without timeout sleeps only while   *)
(* its condition is not fulfilled, and ends only when it is or when a      *)
(* registration left behind by a time-out misdirects an upcall.            *)
THEOREM IoWaitsAreExact == WaitingSpec => []IoWaitExact
<1>1. WaitingInvariant => IoWaitExact
  BY TwoThreads DEF WaitingInvariant, IoWaits, IoWaitExact
<1> QED
  BY <1>1, WaitingHolds, PTL

(* fifo.h: a syncPut or syncGet without timeout is awake for its second    *)
(* attempt only if it can succeed, was woken in vain or by a device.       *)
THEOREM UntimedWaitsEndRight == WaitingSpec => []UntimedSucceeds
<1>1. WaitingInvariant => UntimedSucceeds
  <2> SUFFICES ASSUME WaitingInvariant, NEW t \in Sides, pc[t] = "retry", timeout[t] = "forever"
               PROVE  Possible(t) \/ t \in futile \/ (t = User /\ stray)
    BY DEF UntimedSucceeds
  <2>1. AwakeForAReason /\ Places
    BY DEF WaitingInvariant
  <2>2. susp[t] = "no"
    BY <2>1, TwoThreads DEF Places, IoPcs
  <2> QED
    BY <2>1, <2>2, TwoThreads DEF AwakeForAReason
<1> QED
  BY <1>1, WaitingHolds, PTL
=============================================================================
