---------------------------- MODULE Kernel_proofs ----------------------------
(***************************************************************************)
(* For all threads, priorities, lists and times: yield and suspendCallerUntil *)
(* return only to a thread that may run, and the scheduler switches to no   *)
(* other, whichever interrupt came in the middle of which yield; a ready    *)
(* thread waits for less urgent ones for a bounded time.                    *)
(***************************************************************************)
EXTENDS Kernel, WellFoundedInduction, TLAPS

InYield == {"find", "check", "lock"}

(* The idle thread is never suspended.                                     *)
IdleReady ==
  Ready(Idle) /\ pc[Idle] \in {"run", "yield", "count", "nap", "sleep"} \cup InYield

(* A running thread that is suspended is on its way to the switch, and     *)
(* nothing has scheduled since it began to look for another one.           *)
CurrentOnWay ==
  ~Ready(current) =>
    /\ isr = "none" => pc[current] \in {"set", "yield", "count"} \cup InYield
    /\ isr # "commit" /\ pc[current] \notin {"set", "yield"} => timeToTry <= 0
    /\ isr # "commit" /\ pc[current] \in InYield => current \notin stale

(* What yield has chosen may run, unless it has to be thrown away.         *)
ChoiceReady ==
  \A t \in All : t \notin stale /\ pc[t] \in InYield =>
    /\ current = t
    /\ pc[t] # "find" => choice[t].thread \in All /\ Ready(choice[t].thread)
    /\ pc[t] = "lock" => choice[t].thread # t

(* So may the thread that was preselected, also when the switch to it was  *)
(* put off,                                                                *)
PreselReady ==
  presel.thread # NoThread => presel.thread # current /\ Ready(presel.thread) /\ isr # "commit"

(* and the one that was selected.                                          *)
PickedReady ==
  isr = "commit" => stale = All /\ picked.thread \in All /\ Ready(picked.thread)

KernelTypes == TypeOK /\ activations \in Seq(All)

KernelInvariant ==
  KernelTypes /\ IdleReady /\ CurrentOnWay /\ ChoiceReady /\ PreselReady /\ PickedReady

-----------------------------------------------------------------------------
(* The walk over the list of threads.                                      *)

(* A set of natural numbers has a least element.                           *)
LEMMA LeastOf ==
  ASSUME NEW S \in SUBSET Nat, S # {}
  PROVE  \E n \in S : \A m \in S : n <= m
<1>1. PICK n \in S : \A m \in S : ~(<<m, n>> \in OpToRel(<, Nat))
  BY NatLessThanWellFounded, WFMin
<1>2. ASSUME NEW m \in S PROVE n <= m
  <2>1. m \in Nat /\ n \in Nat
    OBVIOUS
  <2>2. ~(m < n)
    BY <1>1, <2>1 DEF OpToRel
  <2> QED
    BY <2>1, <2>2
<1> QED
  BY <1>2

(* What holds at 0 and is handed on holds up to n: induction over a set.   *)
LEMMA UpTo ==
  ASSUME NEW n \in Nat, NEW Good, 0 \in Good,
         \A k \in 1..n : k - 1 \in Good => k \in Good
  PROVE  \A k \in 0..n : k \in Good
<1> SUFFICES ASSUME NEW b \in 0..n, b \notin Good PROVE FALSE
  OBVIOUS
<1> DEFINE Bad == {k \in 0..n : k \notin Good}
<1>1. Bad \in SUBSET Nat /\ Bad # {}
  OBVIOUS
<1>2. PICK k \in Bad : \A m \in Bad : k <= m
  <2> HIDE DEF Bad
  <2> QED
    BY <1>1, LeastOf
<1>3. k \in 1..n /\ k - 1 \in 0..n
  BY <1>2
<1>4. k - 1 \in Good
  BY <1>2, <1>3
<1> QED
  BY <1>2, <1>3, <1>4

(* The recursive definition defines the walk.                              *)
LEMMA WalkIs ==
  /\ Walk[0] = [thread |-> Idle, earliest |-> EndOfTime]
  /\ \A k \in 1..Len(List) : Walk[k] = Consider(Walk[k - 1], List[k])
<1> DEFINE base == [thread |-> Idle, earliest |-> EndOfTime]
           defines(f, n) == f = [k \in 0..n |-> IF k = 0 THEN base ELSE Consider(f[k - 1], List[k])]
           Good == {n \in Nat : \E f : defines(f, n)}
           N == Len(List)
<1>0. N \in Nat
  BY KernelAssumption
<1>1. 0 \in Good
  <2> DEFINE f == [k \in 0..0 |-> base]
  <2>1. f = [k \in 0..0 |-> IF k = 0 THEN base ELSE Consider(f[k - 1], List[k])]
    OBVIOUS
  <2> HIDE DEF f
  <2>2. defines(f, 0)
    BY <2>1
  <2> QED
    BY <2>2
<1>2. ASSUME NEW n \in 1..N, n - 1 \in Good PROVE n \in Good
  <2>1. PICK f : defines(f, n - 1)
    BY <1>2
  <2> DEFINE g == [k \in 0..n |-> IF k <= n - 1 THEN f[k] ELSE Consider(f[n - 1], List[n])]
             h == [k \in 0..n |-> IF k = 0 THEN base ELSE Consider(g[k - 1], List[k])]
  <2>a. n \in Nat /\ n - 1 \in Nat /\ n # 0
    BY <1>0
  <2>2. ASSUME NEW k \in 0..n PROVE g[k] = h[k]
    <3>1. CASE k = 0
      <4>1. g[0] = f[0] /\ f[0] = base
        BY <2>a, <2>1
      <4> QED
        BY <3>1, <4>1
    <3>2. CASE k \in 1..(n - 1)
      <4>1. g[k] = f[k] /\ g[k - 1] = f[k - 1]
        BY <2>a, <3>2
      <4>2. f[k] = Consider(f[k - 1], List[k])
        BY <2>a, <2>1, <3>2
      <4>3. h[k] = Consider(g[k - 1], List[k])
        BY <2>a, <3>2
      <4> HIDE DEF g, h
      <4> QED
        BY <4>1, <4>2, <4>3
    <3>3. CASE k = n
      <4>1. g[n] = Consider(f[n - 1], List[n]) /\ g[n - 1] = f[n - 1]
        BY <2>a
      <4>2. h[n] = Consider(g[n - 1], List[n])
        BY <2>a
      <4> HIDE DEF g, h
      <4> QED
        BY <3>3, <4>1, <4>2
    <3> QED
      BY <2>a, <3>1, <3>2, <3>3
  <2>3. g = h
    BY <2>2
  <2>4. defines(g, n)
    <3> HIDE DEF g
    <3> QED
      BY <2>3
  <2> QED
    BY <2>4, <2>a
<1>3. \A n \in 0..N : n \in Good
  <2> HIDE DEF Good, N
  <2> QED
    BY <1>0, <1>1, <1>2, UpTo
<1>4. \E f : defines(f, N)
  BY <1>0, <1>3
<1>5. defines(Walk, N)
  BY <1>4 DEF Walk
<1>6. \A k \in 0..N : Walk[k] = IF k = 0 THEN base ELSE Consider(Walk[k - 1], List[k])
  <2>1. Walk = [k \in 0..N |-> IF k = 0 THEN base ELSE Consider(Walk[k - 1], List[k])]
    BY <1>5
  <2> QED
    BY <2>1
<1> QED
  BY <1>0, <1>6

(* One thread of the list is looked at.                                    *)
LEMMA ConsiderOne ==
  ASSUME KernelTypes, NEW best \in Pick, best.thread \in All, Ready(best.thread), NEW t \in All
  PROVE  /\ Consider(best, t) \in Pick /\ Consider(best, t).thread \in All
         /\ Ready(Consider(best, t).thread)
<1>1. due[t] \in Past..EndOfTime
  BY DEF KernelTypes, TypeOK
<1>2. CASE Ready(t)
  <2>1. Consider(best, t) \in {best, [best EXCEPT !.thread = t]}
    BY <1>2 DEF Consider
  <2> QED
    BY <1>2, <2>1 DEF Pick
<1>3. CASE ~Ready(t)
  <2>1. Consider(best, t) \in {best, [best EXCEPT !.earliest = Min2(best.earliest, due[t])]}
    BY <1>3 DEF Consider
  <2>2. Min2(best.earliest, due[t]) \in Past..EndOfTime
    BY <1>1 DEF Min2, Pick
  <2> QED
    BY <2>1, <2>2 DEF Pick
<1> QED
  BY <1>2, <1>3

(* Whichever thread the walk selects may run.                              *)
LEMMA FoundReady ==
  ASSUME KernelTypes, IdleReady
  PROVE  /\ FindNextToRun \in Pick /\ FindNextToRun.thread \in All
         /\ Ready(FindNextToRun.thread)
<1> DEFINE good(p) == p \in Pick /\ p.thread \in All /\ Ready(p.thread)
           Good == {k \in 0..Len(List) : good(Walk[k])}
<1>0. Len(List) \in Nat /\ \A k \in 1..Len(List) : List[k] \in All
  BY KernelAssumption
<1>1. 0 \in Good
  <2>1. good([thread |-> Idle, earliest |-> EndOfTime])
    BY KernelAssumption DEF IdleReady, Pick, All, Past
  <2> QED
    BY <1>0, <2>1, WalkIs
<1>2. ASSUME NEW k \in 1..Len(List), k - 1 \in Good PROVE k \in Good
  <2>1. PICK best : best = Walk[k - 1] /\ good(best)
    BY <1>2
  <2>2. good(Consider(best, List[k]))
    BY <1>0, <2>1, ConsiderOne
  <2>3. Walk[k] = Consider(best, List[k])
    BY <2>1, WalkIs
  <2> QED
    BY <1>0, <2>2, <2>3
<1>3. \A k \in 0..Len(List) : k \in Good
  <2> HIDE DEF Good
  <2> QED
    BY <1>0, <1>1, <1>2, UpTo
<1> QED
  BY <1>0, <1>3 DEF FindNextToRun

-----------------------------------------------------------------------------
(* The order of activations.                                               *)

(* A list of all threads without one of them.                              *)
LEMMA RemovedOne ==
  ASSUME NEW S, NEW q \in Seq(S), ToSet(q) = S, IsInjective(q), NEW n \in 1..Len(q)
  PROVE  /\ RemoveAt(q, n) \in Seq(S) /\ IsInjective(RemoveAt(q, n))
         /\ ToSet(RemoveAt(q, n)) = S \ {q[n]}
<1> DEFINE r == RemoveAt(q, n)
           before == SubSeq(q, 1, n - 1)
           after == SubSeq(q, n + 1, Len(q))
<1>1. /\ before \in Seq(S) /\ Len(before) = n - 1 /\ \A i \in 1..(n - 1) : before[i] = q[i]
      /\ after \in Seq(S) /\ Len(after) = Len(q) - n
      /\ \A i \in 1..(Len(q) - n) : after[i] = q[n + i]
  OBVIOUS
<1>2. r = before \o after /\ Len(q) \in Nat /\ DOMAIN q = 1..Len(q)
  BY DEF RemoveAt
<1> HIDE DEF before, after, r
<1>3. r \in Seq(S) /\ DOMAIN r = 1..(Len(q) - 1) /\ Len(r) = Len(q) - 1
  <2>0. before \in Seq(S) /\ after \in Seq(S)
    BY <1>1
  <2>1. r \in Seq(S) /\ Len(r) = Len(before) + Len(after)
    BY <1>2, <2>0
  <2>2. Len(r) = Len(q) - 1
    BY <1>1, <1>2, <2>1
  <2> QED
    BY <2>1, <2>2
<1>4. \A j \in 1..Len(r) : r[j] = IF j <= Len(before) THEN before[j] ELSE after[j - Len(before)]
  BY <1>1, <1>2
<1>5. ASSUME NEW j \in 1..(Len(q) - 1)
      PROVE  r[j] = IF j < n THEN q[j] ELSE q[j + 1]
  <2>1. CASE j < n
    <3>1. j \in 1..(n - 1) /\ j \in 1..Len(r) /\ j <= Len(before)
      BY <1>1, <1>3, <2>1
    <3> QED
      BY <1>1, <1>4, <2>1, <3>1
  <2>2. CASE ~(j < n)
    <3>1. /\ j \in 1..Len(r) /\ ~(j <= Len(before)) /\ j - (n - 1) \in 1..(Len(q) - n)
          /\ n + (j - (n - 1)) = j + 1
      BY <1>1, <1>2, <1>3, <2>2
    <3>2. r[j] = after[j - (n - 1)]
      BY <1>1, <1>4, <3>1
    <3>3. after[j - (n - 1)] = q[n + (j - (n - 1))]
      BY <1>1, <3>1
    <3> QED
      BY <2>2, <3>1, <3>2, <3>3
  <2> QED
    BY <2>1, <2>2
<1>6. \A i, j \in 1..Len(q) : q[i] = q[j] => i = j
  BY <1>2 DEF IsInjective
<1> DEFINE at(j) == IF j < n THEN j ELSE j + 1
<1>a. \A j \in 1..(Len(q) - 1) : at(j) \in 1..Len(q) /\ at(j) # n
  BY <1>2
<1>b. \A j \in 1..(Len(q) - 1) : r[j] = q[at(j)]
  BY <1>5
<1>c. \A i, j \in 1..(Len(q) - 1) : at(i) = at(j) => i = j
  BY <1>2
<1> HIDE DEF at
<1>7. \A i, j \in 1..(Len(q) - 1) : r[i] = r[j] => i = j
  BY <1>6, <1>a, <1>b, <1>c
<1>8. \A j \in 1..(Len(q) - 1) : r[j] \in S \ {q[n]}
  <2>1. \A j \in 1..(Len(q) - 1) : r[j] \in S
    BY <1>3
  <2>2. \A j \in 1..(Len(q) - 1) : r[j] # q[n]
    BY <1>6, <1>a, <1>b
  <2> QED
    BY <2>1, <2>2
<1>9. ASSUME NEW x \in S \ {q[n]} PROVE \E j \in 1..(Len(q) - 1) : r[j] = x
  <2>1. PICK i \in 1..Len(q) : q[i] = x
    BY <1>2 DEF ToSet
  <2>0. i # n
    BY <2>1
  <2>2. CASE i < n
    <3>1. i \in 1..(Len(q) - 1)
      BY <1>2, <2>2
    <3> QED
      BY <1>5, <2>1, <2>2, <3>1
  <2>3. CASE i > n
    <3>1. i - 1 \in 1..(Len(q) - 1) /\ ~(i - 1 < n) /\ (i - 1) + 1 = i
      BY <1>2, <2>3
    <3> QED
      BY <1>5, <2>1, <3>1
  <2>4. i < n \/ i > n
    BY <1>2, <2>0
  <2> QED
    BY <2>2, <2>3, <2>4
<1>10. ToSet(r) = S \ {q[n]}
  <2>1. ToSet(r) = {r[j] : j \in 1..(Len(q) - 1)}
    BY <1>3 DEF ToSet
  <2> QED
    BY <1>8, <1>9, <2>1
<1>11. IsInjective(r)
  BY <1>3, <1>7 DEF IsInjective
<1> QED
  BY <1>3, <1>10, <1>11 DEF r

(* The place of a thread in a list of all.                                 *)
LEMMA Placed ==
  ASSUME NEW q \in Seq(All), ToSet(q) = All, NEW t \in All
  PROVE  (CHOOSE i \in DOMAIN q : q[i] = t) \in 1..Len(q) /\ q[CHOOSE i \in DOMAIN q : q[i] = t] = t
<1>1. \E i \in DOMAIN q : q[i] = t
  BY DEF ToSet
<1>2. DOMAIN q = 1..Len(q)
  OBVIOUS
<1> QED
  BY <1>1, <1>2

Listed(q) == q \in Seq(All) /\ ToSet(q) = All /\ IsInjective(q)

(* A thread that is activated goes to the end.                             *)
LEMMA ActivatedLast ==
  ASSUME Listed(activations), NEW t \in All
  PROVE  Listed(Append(RemoveAt(activations, Activation(t)), t))
<1>1. Activation(t) \in 1..Len(activations) /\ activations[Activation(t)] = t
  BY Placed DEF Activation, Listed
<1> DEFINE r == RemoveAt(activations, Activation(t))
<1>2. r \in Seq(All) /\ IsInjective(r) /\ ToSet(r) = All \ {t}
  BY <1>1, RemovedOne DEF Listed
<1> HIDE DEF r
<1>3. /\ Append(r, t) \in Seq(All) /\ DOMAIN Append(r, t) = 1..(Len(r) + 1) /\ Len(r) \in Nat
      /\ Append(r, t)[Len(r) + 1] = t /\ \A i \in 1..Len(r) : Append(r, t)[i] = r[i]
  BY <1>2
<1>4. /\ \A i, j \in 1..Len(r) : r[i] = r[j] => i = j
      /\ \A i \in 1..Len(r) : r[i] \in All \ {t} /\ \A x \in All \ {t} : \E k \in 1..Len(r) : r[k] = x
  <2>1. DOMAIN r = 1..Len(r)
    BY <1>2
  <2> QED
    BY <1>2, <2>1 DEF IsInjective, ToSet
<1>5. \A x \in All \ {t} : \E k \in 1..Len(r) : r[k] = x
  <2>1. DOMAIN r = 1..Len(r)
    BY <1>2
  <2> QED
    BY <1>2, <2>1 DEF ToSet
<1> HIDE DEF All
<1>6. IsInjective(Append(r, t))
  BY <1>3, <1>4 DEF IsInjective
<1>7. \A x \in All : \E k \in 1..(Len(r) + 1) : Append(r, t)[k] = x
  BY <1>3, <1>5
<1>8. ToSet(Append(r, t)) = All
  BY <1>3, <1>7 DEF ToSet
<1> QED
  BY <1>3, <1>6, <1>8 DEF Listed, r

(* The idle thread is the first to have run.                               *)
LEMMA IdleFirst ==
  Listed(<<Idle>> \o RemoveAt(List, CHOOSE k \in DOMAIN List : List[k] = Idle))
<1> DEFINE n == CHOOSE k \in DOMAIN List : List[k] = Idle
           r == RemoveAt(List, n)
           q == <<Idle>> \o r
<1>0. Idle \in All /\ List \in Seq(All) /\ ToSet(List) = All /\ IsInjective(List)
  BY KernelAssumption DEF All
<1>1. n \in 1..Len(List) /\ List[n] = Idle
  BY <1>0, Placed
<1> HIDE DEF n
<1>2. r \in Seq(All) /\ IsInjective(r) /\ ToSet(r) = All \ {Idle}
  BY <1>0, <1>1, RemovedOne
<1> HIDE DEF r
<1>3. /\ q \in Seq(All) /\ DOMAIN q = 1..(Len(r) + 1) /\ Len(r) \in Nat /\ DOMAIN r = 1..Len(r)
      /\ q[1] = Idle /\ \A i \in 2..(Len(r) + 1) : q[i] = r[i - 1]
  <2>1. <<Idle>> \in Seq(All) /\ Len(<<Idle>>) = 1 /\ <<Idle>>[1] = Idle
    BY <1>0
  <2>2. q \in Seq(All) /\ Len(q) = 1 + Len(r) /\ Len(r) \in Nat /\ DOMAIN r = 1..Len(r)
    BY <1>2, <2>1
  <2>3. \A i \in 1..Len(q) : q[i] = IF i <= 1 THEN <<Idle>>[i] ELSE r[i - 1]
    BY <1>2, <2>1, <2>2
  <2> HIDE DEF q
  <2> QED
    BY <2>1, <2>2, <2>3
<1> HIDE DEF q
<1>4. \A i, j \in 1..Len(r) : r[i] = r[j] => i = j
  BY <1>2, <1>3 DEF IsInjective
<1>5. \A i \in 1..Len(r) : r[i] \in All \ {Idle}
  BY <1>2, <1>3 DEF ToSet
<1>6. IsInjective(q)
  <2> SUFFICES ASSUME NEW i \in 1..(Len(r) + 1), NEW j \in 1..(Len(r) + 1), q[i] = q[j] PROVE i = j
    BY <1>3 DEF IsInjective
  <2>1. i # 1 => i - 1 \in 1..Len(r) /\ i \in 2..(Len(r) + 1)
    BY <1>3
  <2>2. j # 1 => j - 1 \in 1..Len(r) /\ j \in 2..(Len(r) + 1)
    BY <1>3
  <2> QED
    BY <1>3, <1>4, <1>5, <2>1, <2>2
<1>7. ASSUME NEW x \in All PROVE \E k \in 1..(Len(r) + 1) : q[k] = x
  <2>1. CASE x = Idle
    BY <1>3, <2>1
  <2>2. CASE x # Idle
    <3>1. PICK i \in 1..Len(r) : r[i] = x
      BY <1>2, <1>3, <2>2 DEF ToSet
    <3>2. i + 1 \in 2..(Len(r) + 1) /\ i + 1 \in 1..(Len(r) + 1) /\ (i + 1) - 1 = i
      BY <1>3
    <3>3. q[i + 1] = r[(i + 1) - 1]
      BY <1>3, <3>2
    <3> QED
      BY <3>1, <3>2, <3>3
  <2> QED
    BY <2>1, <2>2
<1>8. ToSet(q) = All
  <2>1. ToSet(q) = {q[k] : k \in 1..(Len(r) + 1)} /\ \A k \in 1..(Len(r) + 1) : q[k] \in All
    BY <1>3 DEF ToSet
  <2> QED
    BY <1>7, <2>1
<1> QED
  BY <1>3, <1>6, <1>8 DEF Listed, q, r, n

-----------------------------------------------------------------------------
(* Types.                                                                  *)

(* What the arithmetic of times needs of the constants.                    *)
LEMMA Constant ==
  /\ EndOfTime \in Nat /\ EndOfTime >= 2 /\ Slice \in Nat /\ Slice > 0 /\ Slice < EndOfTime
  /\ Ceiling \in Nat /\ Ceiling > 0 /\ WakeUp \in Nat /\ MaxDelay \in Nat /\ MaxDelay < EndOfTime
  /\ Past = -1 /\ Idle \in All /\ NoThread \notin All /\ Threads \subseteq All
  /\ \A t \in All : BasePrio[t] \in 0..Ceiling
  /\ WaitBound \in Nat
  /\ Overflowing \subseteq Threads /\ Eventful \subseteq Threads /\ Interrupted \subseteq Threads
  /\ Idle \notin Threads
<1>2. WaitBound \in Nat
  BY KernelAssumption DEF WaitBound
<1>3. Ceiling \in Nat /\ Ceiling > 0 /\ \A t \in All : BasePrio[t] \in 0..Ceiling
  <2>1. Idle \in All /\ BasePrio \in [All -> 0..Ceiling - 1] /\ Ceiling \in Nat
    BY KernelAssumption DEF All
  <2>2. BasePrio[Idle] \in 0..Ceiling - 1
    BY <2>1
  <2> QED
    BY <2>1, <2>2
<1>4. MaxDelay \in Nat /\ MaxDelay < EndOfTime
  BY KernelAssumption
<1> QED
  BY <1>2, <1>3, <1>4, KernelAssumption DEF All, Past

(* A time that gets older is still one.                                    *)
LEMMA AgedTypes ==
  /\ \A x \in Past..EndOfTime : Aged(x) \in Past..EndOfTime /\ (x < 0 => Aged(x) < 0)
                                /\ (x <= 0 => Aged(x) <= 0)
  /\ \A x \in Past..Slice : Aged(x) \in Past..Slice /\ (x <= 0 => Aged(x) <= 0)
  /\ \A p \in Pick : AgedPick(p) \in Pick /\ AgedPick(p).thread = p.thread
<1>1. \A x \in Past..EndOfTime : Aged(x) \in Past..EndOfTime /\ (x < 0 => Aged(x) < 0)
                                 /\ (x <= 0 => Aged(x) <= 0)
  BY Constant DEF Aged
<1>2. \A x \in Past..Slice : Aged(x) \in Past..Slice /\ (x <= 0 => Aged(x) <= 0)
  BY Constant DEF Aged
<1>3. ASSUME NEW p \in Pick PROVE AgedPick(p) \in Pick /\ AgedPick(p).thread = p.thread
  <2>1. Aged(p.earliest) \in Past..EndOfTime
    BY <1>1 DEF Pick
  <2> QED
    BY <2>1 DEF AgedPick, Pick
<1> QED
  BY <1>1, <1>2, <1>3

(* A step of a thread leads to one of the places.                          *)
LEMMA GotoTypes ==
  ASSUME KernelTypes, NEW t \in All, NEW to \in Places, Goto(t, to)
  PROVE  pc' \in [All -> Places]
BY DEF KernelTypes, TypeOK, Goto

(* So far as single threads are concerned.                                 *)
LEMMA EntryTypes ==
  ASSUME KernelTypes, NEW t
  PROVE  /\ \A p \in 0..Ceiling : [prio EXCEPT ![t] = p] \in [All -> 0..Ceiling]
         /\ \A d \in Past..EndOfTime : [due EXCEPT ![t] = d] \in [All -> Past..EndOfTime]
         /\ \A u \in Threads \cup {NoThread} :
              [target EXCEPT ![t] = u] \in [All -> Threads \cup {NoThread}]
         /\ \A c \in Pick : [choice EXCEPT ![t] = c] \in [All -> Pick]
BY DEF KernelTypes, TypeOK

(* Times and priorities that are assigned.                                 *)
LEMMA ValueTypes ==
  /\ Ceiling \in 0..Ceiling /\ 0 \in 0..Ceiling /\ Past \in Past..EndOfTime /\ Past \in Past..Slice
  /\ EndOfTime \in Past..EndOfTime /\ Past..MaxDelay \subseteq Past..EndOfTime
  /\ 0..MaxDelay \subseteq Past..EndOfTime
  /\ Past..Slice \subseteq Past..EndOfTime
  /\ \A t \in All : BasePrio[t] \in 0..Ceiling
BY Constant

(* Threads that suspend, resume and use their own priority.                *)
LEMMA ThreadTypes ==
  ASSUME KernelTypes, NEW t \in All,
         \/ SuspendCallerUntil(t) \/ SetSuspendedUntil(t) \/ EndOfSuspendScope(t)
         \/ EnterScope(t) \/ LeaveScope(t) \/ ResumeBegin(t) \/ ResumeEnd(t)
         \/ ActivateEvent(t) \/ OverflowStack(t) \/ CallYield(t)
  PROVE  KernelTypes'
<1>0. pc' \in [All -> Places]
  <2>1. pc' = pc \/ \E to \in {"ceiled", "set", "yield", "scope", "run", "resume"} : Goto(t, to)
    BY DEF SuspendCallerUntil, SetSuspendedUntil, EndOfSuspendScope, EnterScope, LeaveScope,
           ResumeBegin, ResumeEnd, ActivateEvent, OverflowStack, CallYield
  <2> QED
    BY <2>1, GotoTypes DEF KernelTypes, TypeOK, Places
<1>1. CASE SuspendCallerUntil(t) \/ EnterScope(t)
  <2>1. prio' \in [All -> 0..Ceiling]
    BY <1>1, EntryTypes, ValueTypes DEF SuspendCallerUntil, EnterScope
  <2> QED
    BY <1>0, <1>1, <2>1 DEF SuspendCallerUntil, EnterScope, KernelTypes, TypeOK, schedVars, yieldVars, appVars
<1>2. CASE SetSuspendedUntil(t)
  <2>1. due' \in [All -> Past..EndOfTime]
    BY <1>2, EntryTypes, ValueTypes DEF SetSuspendedUntil
  <2> QED
    BY <1>0, <1>2, <2>1 DEF SetSuspendedUntil, KernelTypes, TypeOK, schedVars, yieldVars, appVars
<1>3. CASE EndOfSuspendScope(t) \/ LeaveScope(t)
  <2>1. prio' \in [All -> 0..Ceiling]
    BY <1>3, EntryTypes, ValueTypes DEF EndOfSuspendScope, LeaveScope
  <2> QED
    BY <1>0, <1>3, <2>1 DEF EndOfSuspendScope, LeaveScope, KernelTypes, TypeOK, schedVars, yieldVars, appVars
<1>4. CASE ResumeBegin(t)
  <2>1. target' \in [All -> Threads \cup {NoThread}] /\ timeToTry' \in Past..Slice
    BY <1>4, EntryTypes, ValueTypes DEF ResumeBegin
  <2> QED
    BY <1>0, <1>4, <2>1 DEF ResumeBegin, KernelTypes, TypeOK, schedVars, yieldVars, appVars
<1>5. CASE ResumeEnd(t)
  <2>1. due' \in [All -> Past..EndOfTime] /\ target' \in [All -> Threads \cup {NoThread}]
    BY <1>5, EntryTypes, ValueTypes DEF ResumeEnd
  <2> QED
    BY <1>0, <1>5, <2>1 DEF ResumeEnd, KernelTypes, TypeOK, schedVars, yieldVars, appVars
<1>6. CASE ActivateEvent(t)
  <2>1. event' \in Past..EndOfTime
    BY <1>6, ValueTypes DEF ActivateEvent
  <2> QED
    BY <1>0, <1>6, <2>1 DEF ActivateEvent, KernelTypes, TypeOK, schedVars, yieldVars, appVars
<1>7. CASE OverflowStack(t)
  BY <1>0, <1>7 DEF OverflowStack, KernelTypes, TypeOK, schedVars, yieldVars, appVars
<1>8. CASE CallYield(t)
  <2>1. prio' \in [All -> 0..Ceiling]
    <3>1. prio \in [All -> 0..Ceiling]
      BY DEF KernelTypes, TypeOK
    <3> QED
      BY <1>8, <3>1, EntryTypes, ValueTypes DEF CallYield
  <2> QED
    BY <1>0, <1>8, <2>1 DEF CallYield, KernelTypes, TypeOK, schedVars, yieldVars, appVars
<1> QED
  BY <1>1, <1>2, <1>3, <1>4, <1>5, <1>6, <1>7, <1>8

(* The steps of yield and of the idle thread.                              *)
LEMMA YieldTypes ==
  ASSUME KernelTypes, IdleReady, NEW t \in All,
         \/ YieldReset(t) \/ YieldCount(t) \/ YieldFind(t) \/ YieldCheck(t) \/ YieldSwitch(t)
         \/ IdleNap \/ IdleWakeUp
  PROVE  KernelTypes'
<1>0. FindNextToRun \in Pick /\ NoPick \in Pick
  BY FoundReady, Constant DEF NoPick, Pick
<1>a. pc' \in [All -> Places]
  <2>1. \E u \in {t, Idle}, to \in {"count", "find", "check", "lock", "run", "nap", "sleep"} : Goto(u, to)
    BY DEF YieldReset, YieldCount, YieldFind, YieldCheck, YieldSwitch, AfterYield, IdleNap, IdleWakeUp
  <2> QED
    BY <2>1, GotoTypes, Constant DEF Places
<1>1. CASE YieldReset(t)
  BY <1>a, <1>1, ValueTypes DEF YieldReset, KernelTypes, TypeOK, schedVars, yieldVars, appVars
<1>2. CASE YieldCount(t)
  BY <1>a, <1>2 DEF YieldCount, KernelTypes, TypeOK, schedVars, yieldVars, appVars
<1>3. CASE YieldFind(t)
  <2>1. choice' \in [All -> Pick]
    BY <1>0, <1>3, EntryTypes DEF YieldFind
  <2> QED
    BY <1>a, <1>3, <2>1 DEF YieldFind, KernelTypes, TypeOK, schedVars, yieldVars, appVars
<1>4. CASE YieldCheck(t)
  <2>1. choice' \in [All -> Pick]
    <3>1. choice \in [All -> Pick]
      BY DEF KernelTypes, TypeOK
    <3> QED
      BY <1>0, <1>4, <3>1, EntryTypes DEF YieldCheck
  <2> QED
    BY <1>a, <1>4, <2>1 DEF YieldCheck, KernelTypes, TypeOK, schedVars, yieldVars, appVars
<1>5. CASE YieldSwitch(t)
  <2>1. choice' \in [All -> Pick] /\ presel' \in Pick
    <3>1. presel \in Pick /\ choice[t] \in Pick
      BY DEF KernelTypes, TypeOK
    <3> QED
      BY <1>0, <1>5, <3>1, EntryTypes DEF YieldSwitch
  <2> QED
    BY <1>a, <1>5, <2>1 DEF YieldSwitch, KernelTypes, TypeOK, schedVars, yieldVars, appVars
<1>6. CASE IdleNap
  <2> DEFINE reactivation == Min2(timeToTry, event)
             interval == reactivation - WakeUp - 1
  <2>1. /\ \/ timer' = timer /\ napUntil' = napUntil
           \/ timer' = interval /\ napUntil' = reactivation /\ interval > 1
        /\ UNCHANGED <<current, activations, isr, picked, lock, presel, stale, choice, event, target,
                       badStack, waited, prio, due, timeToTry>>
    BY <1>6 DEF IdleNap, yieldVars
  <2>2. timeToTry \in Past..Slice /\ event \in Past..EndOfTime
    BY DEF KernelTypes, TypeOK
  <2>3. reactivation \in Past..EndOfTime /\ (interval > 1 => interval \in 0..EndOfTime)
    BY <2>2, Constant DEF Min2
  <2> HIDE DEF reactivation, interval
  <2>4. timer' \in 0..EndOfTime /\ napUntil' \in Past..EndOfTime
    BY <2>1, <2>3 DEF KernelTypes, TypeOK
  <2> QED
    BY <1>a, <2>1, <2>4 DEF KernelTypes, TypeOK
<1>7. CASE IdleWakeUp
  <2>1. napUntil \in Past..EndOfTime
    BY DEF KernelTypes, TypeOK
  <2>2. Max2(napUntil, 1) \in 0..EndOfTime
    BY <2>1, Constant DEF Max2
  <2> QED
    BY <1>a, <1>7, <2>2, ValueTypes DEF IdleWakeUp, KernelTypes, TypeOK, schedVars, yieldVars, appVars
<1> QED
  BY <1>1, <1>2, <1>3, <1>4, <1>5, <1>6, <1>7

(* The timer is armed within the range of times.                           *)
LEMMA TriggerTypes ==
  ASSUME NEW a \in Past..EndOfTime, NEW b \in Past..EndOfTime
  PROVE  TriggerIn(a, b) \in 0..EndOfTime
BY Constant DEF TriggerIn, Max2, Min2

(* Interrupts, the scheduler and the clock.                                *)
LEMMA SchedulerTypes ==
  ASSUME KernelTypes, IdleReady, PickedReady,
         \/ SchedulerStep \/ SysTick \/ Tick \/ \E u \in Interrupted : InterruptResume(u)
  PROVE  KernelTypes'
<1>0. FindNextToRun \in Pick /\ NoPick \in Pick
  BY FoundReady, Constant DEF NoPick, Pick
<1>1. CASE SysTick
  BY <1>1 DEF SysTick, KernelTypes, TypeOK, schedVars, yieldVars, appVars
<1>2. CASE \E u \in Interrupted : InterruptResume(u)
  <2>1. due' \in [All -> Past..EndOfTime] /\ timeToTry' \in Past..Slice
    BY <1>2, EntryTypes, ValueTypes DEF InterruptResume
  <2> QED
    BY <1>2, <2>1 DEF InterruptResume, KernelTypes, TypeOK, schedVars, yieldVars, appVars
<1>3. CASE WrapperPropagate
  <2>1. due' \in [All -> Past..EndOfTime] /\ timeToTry' \in Past..Slice /\ event' \in Past..EndOfTime
    BY <1>3, EntryTypes, ValueTypes DEF WrapperPropagate
  <2> QED
    BY <1>3, <2>1 DEF WrapperPropagate, KernelTypes, TypeOK, schedVars, yieldVars, appVars
<1>4. CASE WrapperTooEarly
  <2>1. timeToTry \in Past..EndOfTime /\ event \in Past..EndOfTime
    BY ValueTypes DEF KernelTypes, TypeOK
  <2>2. TriggerIn(timeToTry, event) \in 0..EndOfTime
    BY <2>1, TriggerTypes
  <2> QED
    BY <1>4, <2>2 DEF WrapperTooEarly, Activate, KernelTypes, TypeOK, schedVars, yieldVars, appVars
<1>5. CASE ScheduleSelect
  BY <1>0, <1>5 DEF ScheduleSelect, KernelTypes, TypeOK, schedVars, yieldVars, appVars
<1>6. CASE ScheduleCommit
  <2>1. NextRunner \in All
    BY <1>6, Constant DEF ScheduleCommit, PickedReady, NextRunner
  <2>2. timeToTry' \in Past..Slice
    <3>1. picked.earliest \in Past..EndOfTime
      BY DEF Pick, KernelTypes, TypeOK
    <3>2. Min2(picked.earliest, Slice) \in Past..Slice
      BY <3>1, Constant DEF Min2
    <3> QED
      BY <1>6, <3>2 DEF ScheduleCommit, NextTry
  <2>3. timer' \in 0..EndOfTime
    <3>1. timeToTry' \in Past..EndOfTime /\ event \in Past..EndOfTime
      BY <2>2, ValueTypes DEF KernelTypes, TypeOK
    <3>2. timer' = TriggerIn(timeToTry', event)
      BY <1>6 DEF ScheduleCommit
    <3> QED
      BY <3>1, <3>2, TriggerTypes
  <2>4. Listed(activations')
    BY <1>6, <2>1, ActivatedLast DEF ScheduleCommit, Listed, KernelTypes, TypeOK
  <2>5. due' \in [All -> Past..EndOfTime]
    <3>1. due \in [All -> Past..EndOfTime]
      BY DEF KernelTypes, TypeOK
    <3> QED
      BY <1>6, <3>1, EntryTypes, ValueTypes DEF ScheduleCommit
  <2>6. /\ current' = NextRunner /\ lock' = FALSE /\ isr' = "none" /\ picked' = NoPick
        /\ waited' \in {0, waited}
        /\ UNCHANGED <<presel, stale, choice, event, target, napUntil, badStack, prio, pc>>
    BY <1>6 DEF ScheduleCommit, Activate
  <2>7. waited' \in 0..WaitBound + 1
    BY <2>6, Constant DEF KernelTypes, TypeOK
  <2>8. lock' \in BOOLEAN
    BY <2>6
  <2> QED
    BY <1>0, <2>1, <2>2, <2>3, <2>4, <2>5, <2>6, <2>7, <2>8 DEF Listed, KernelTypes, TypeOK
<1>7. CASE Tick
  <2>1. /\ due' \in [All -> Past..EndOfTime] /\ timeToTry' \in Past..Slice /\ event' \in Past..EndOfTime
        /\ napUntil' \in Past..EndOfTime /\ presel' \in Pick /\ choice' \in [All -> Pick]
    BY <1>7, AgedTypes DEF Tick, KernelTypes, TypeOK
  <2>2. waited' \in 0..WaitBound + 1
    BY <1>7, Constant DEF Tick, Min2, KernelTypes, TypeOK
  <2>3. timer' \in 0..EndOfTime
    BY <1>7, Constant DEF Tick, KernelTypes, TypeOK
  <2> QED
    BY <1>7, <2>1, <2>2, <2>3 DEF Tick, KernelTypes, TypeOK
<1> QED
  BY <1>1, <1>2, <1>3, <1>4, <1>5, <1>6, <1>7 DEF SchedulerStep

-----------------------------------------------------------------------------
(* Who may run.                                                            *)

WhoMayRun == IdleReady /\ CurrentOnWay /\ ChoiceReady /\ PreselReady /\ PickedReady

(* What the running thread's steps outside of yield leave alone.           *)
YieldSame == UNCHANGED <<current, due, stale, choice, presel, isr, picked>>

(* Steps outside of the part of yield that chooses: of a thread that may   *)
(* run, or on the way of a suspended one to it.                            *)
LEMMA OutsideYield ==
  ASSUME KernelTypes, WhoMayRun, YieldSame, NEW to, Goto(current, to), isr = "none",
         to \notin InYield, pc[current] \notin InYield,
         timeToTry' \in {timeToTry, Past},
         Ready(current) \/ to = "yield" \/ (to = "count" /\ timeToTry' = Past),
         current = Idle => to \in {"run", "yield", "count", "nap", "sleep"}
  PROVE  WhoMayRun'
<1>1. current \in All /\ pc \in [All -> Places] /\ Past = -1 /\ timeToTry \in Past..Slice
      /\ Idle \in All
  BY Constant DEF KernelTypes, TypeOK
<1>2. pc'[current] = to /\ \A t \in All : t # current => pc'[t] = pc[t]
  BY <1>1 DEF Goto
<1> USE DEF Ready, YieldSame
<1>3. IdleReady'
  BY <1>1, <1>2 DEF WhoMayRun, IdleReady
<1>4. CurrentOnWay'
  BY <1>1, <1>2 DEF WhoMayRun, CurrentOnWay
<1>5. ChoiceReady'
  BY <1>2 DEF WhoMayRun, ChoiceReady
<1>6. PreselReady' /\ PickedReady'
  BY DEF WhoMayRun, PreselReady, PickedReady
<1> QED
  BY <1>3, <1>4, <1>5, <1>6 DEF WhoMayRun

(* The application's steps and those of the kernel before yield chooses.   *)
LEMMA ThreadStep ==
  ASSUME KernelTypes, WhoMayRun, NEW t \in All,
         \/ SuspendCallerUntil(t) \/ EndOfSuspendScope(t) \/ EnterScope(t) \/ LeaveScope(t)
         \/ ResumeBegin(t) \/ ActivateEvent(t) \/ OverflowStack(t) \/ CallYield(t)
         \/ YieldReset(t) \/ IdleNap \/ IdleWakeUp
  PROVE  WhoMayRun'
<1> DEFINE Quiet(to) ==
      /\ YieldSame /\ Goto(current, to) /\ isr = "none"
      /\ to \notin InYield /\ pc[current] \notin InYield
      /\ timeToTry' \in {timeToTry, Past}
      /\ Ready(current) \/ to = "yield" \/ (to = "count" /\ timeToTry' = Past)
      /\ current = Idle => to \in {"run", "yield", "count", "nap", "sleep"}
<1> SUFFICES \E to : Quiet(to)
  BY OutsideYield
<1>a. ASSUME isr = "none", pc[current] \in {"run", "ceiled", "scope", "resume", "nap", "sleep"}
      PROVE  Ready(current)
  BY <1>a DEF WhoMayRun, CurrentOnWay, InYield
<1>b. current = Idle => pc[current] \notin {"set", "scope"}
  BY DEF WhoMayRun, IdleReady, InYield
<1>i. Scoped \subseteq Threads /\ Resumers \subseteq Threads /\ Eventful \subseteq Threads
      /\ Overflowing \subseteq Threads /\ Idle \notin Threads
  BY KernelAssumption
<1>p. pc \in [All -> Places]
  BY DEF KernelTypes, TypeOK
<1> USE DEF Executes, YieldSame, schedVars, yieldVars, appVars, InYield
<1>1. CASE SuspendCallerUntil(t)
  <2>1. Quiet("ceiled")
    BY <1>1, <1>a DEF SuspendCallerUntil
  <2> QED
    BY <2>1
<1>2. CASE EndOfSuspendScope(t)
  <2>1. Quiet("yield")
    BY <1>2, <1>b DEF EndOfSuspendScope
  <2> QED
    BY <2>1
<1>3. CASE EnterScope(t)
  <2>1. Quiet("scope")
    BY <1>3, <1>a, <1>i DEF EnterScope
  <2> QED
    BY <2>1
<1>4. CASE LeaveScope(t)
  <2>1. Quiet("run")
    BY <1>4, <1>a DEF LeaveScope
  <2> QED
    BY <2>1
<1>5. CASE ResumeBegin(t)
  <2>1. Quiet("resume")
    BY <1>5, <1>a, <1>i DEF ResumeBegin
  <2> QED
    BY <2>1
<1>6. CASE ActivateEvent(t) \/ OverflowStack(t)
  <2>1. pc' = pc /\ current = t /\ pc[t] = "run"
    BY <1>6 DEF ActivateEvent, OverflowStack
  <2>2. Goto(current, "run")
    BY <1>p, <2>1 DEF Goto
  <2>3. Quiet("run")
    BY <1>6, <1>a, <2>1, <2>2 DEF ActivateEvent, OverflowStack
  <2> QED
    BY <2>3
<1>7. CASE CallYield(t)
  <2>1. Quiet("yield")
    BY <1>7 DEF CallYield
  <2> QED
    BY <2>1
<1>8. CASE YieldReset(t)
  <2>1. Quiet("count")
    BY <1>8 DEF YieldReset
  <2> QED
    BY <2>1
<1>9. CASE IdleNap
  <2>1. \E to \in {"run", "sleep"} : Goto(Idle, to)
    BY <1>9 DEF IdleNap
  <2>2. \E to \in {"run", "sleep"} : Quiet(to)
    BY <1>9, <1>a, <2>1 DEF IdleNap
  <2> QED
    BY <2>2
<1>10. CASE IdleWakeUp
  <2>1. Quiet("run")
    BY <1>10, <1>a DEF IdleWakeUp
  <2> QED
    BY <2>1
<1> QED
  BY <1>1, <1>2, <1>3, <1>4, <1>5, <1>6, <1>7, <1>8, <1>9, <1>10

(* A thread stores the time until which it is suspended: it is not one     *)
(* that anybody has chosen.                                                *)
LEMMA SuspendStep ==
  ASSUME KernelTypes, WhoMayRun, NEW t \in All, SetSuspendedUntil(t) PROVE WhoMayRun'
<1>1. /\ isr = "none" /\ current = t /\ pc[t] = "ceiled" /\ pc' = [pc EXCEPT ![t] = "set"]
      /\ \E d : due' = [due EXCEPT ![t] = d]
      /\ UNCHANGED <<current, isr, presel, stale, choice, timeToTry, picked>>
  BY DEF SetSuspendedUntil, Executes, Goto, schedVars, yieldVars
<1>2. pc \in [All -> Places] /\ due \in [All -> Past..EndOfTime] /\ Idle \in All /\ presel \in Pick
  BY Constant DEF KernelTypes, TypeOK
<1>3. /\ pc'[t] = "set" /\ \A u \in All : u # t => pc'[u] = pc[u] /\ due'[u] = due[u]
      /\ t # Idle
  BY <1>1, <1>2 DEF WhoMayRun, IdleReady, InYield
<1> USE DEF Ready, InYield
<1>4. IdleReady'
  BY <1>2, <1>3 DEF WhoMayRun, IdleReady
<1>5. CurrentOnWay'
  BY <1>1, <1>3 DEF CurrentOnWay
<1>6. ChoiceReady'
  BY <1>1, <1>3 DEF WhoMayRun, ChoiceReady
<1>7. PreselReady'
  BY <1>1, <1>2, <1>3 DEF WhoMayRun, PreselReady, Pick
<1>8. PickedReady'
  BY <1>1 DEF PickedReady
<1> QED
  BY <1>4, <1>5, <1>6, <1>7, <1>8 DEF WhoMayRun

(* Somebody is resumed: who could run still can.                           *)
LEMMA ResumedStep ==
  ASSUME KernelTypes, WhoMayRun, NEW u \in Threads \cup {NoThread}, due' = [due EXCEPT ![u] = Past],
         UNCHANGED <<current, isr, presel, stale, choice, picked, pc>>,
         timeToTry' \in {timeToTry, Past}
  PROVE  WhoMayRun'
<1>1. /\ due \in [All -> Past..EndOfTime] /\ Past = -1 /\ timeToTry \in Past..Slice
      /\ Idle \in All /\ current \in All /\ presel \in Pick
  BY Constant DEF KernelTypes, TypeOK
<1>2. \A x \in All : due[x] < 0 => due'[x] < 0
  BY <1>1
<1>3. timeToTry <= 0 => timeToTry' <= 0
  BY <1>1
<1> USE DEF Ready
<1>4. IdleReady' /\ PickedReady'
  BY <1>1, <1>2 DEF WhoMayRun, IdleReady, PickedReady
<1>5. CurrentOnWay'
  BY <1>1, <1>2, <1>3 DEF WhoMayRun, CurrentOnWay
<1>6. ChoiceReady'
  BY <1>2 DEF WhoMayRun, ChoiceReady
<1>7. PreselReady'
  BY <1>1, <1>2 DEF WhoMayRun, PreselReady, Pick
<1> QED
  BY <1>4, <1>5, <1>6, <1>7 DEF WhoMayRun

(* Thread::resume by a thread.                                             *)
LEMMA ResumeEndStep ==
  ASSUME KernelTypes, WhoMayRun, NEW t \in All, ResumeEnd(t) PROVE WhoMayRun'
<1>1. /\ isr = "none" /\ current = t /\ pc[t] = "resume" /\ pc' = [pc EXCEPT ![t] = "run"]
      /\ due' = [due EXCEPT ![target[t]] = Past]
      /\ UNCHANGED <<current, isr, presel, stale, choice, timeToTry, picked>>
  BY DEF ResumeEnd, Executes, Goto, schedVars, yieldVars
<1>2. /\ pc \in [All -> Places] /\ due \in [All -> Past..EndOfTime] /\ Idle \in All /\ presel \in Pick
      /\ Past = -1
  BY Constant DEF KernelTypes, TypeOK
<1>3. /\ pc'[t] = "run" /\ \A u \in All : u # t => pc'[u] = pc[u]
      /\ \A u \in All : due[u] < 0 => due'[u] < 0
  BY <1>1, <1>2
<1>4. due[t] < 0
  BY <1>1 DEF WhoMayRun, CurrentOnWay, InYield, Ready
<1> USE DEF Ready, InYield
<1>5. IdleReady'
  BY <1>1, <1>2, <1>3 DEF WhoMayRun, IdleReady
<1>6. CurrentOnWay'
  BY <1>1, <1>3, <1>4 DEF CurrentOnWay
<1>7. ChoiceReady'
  BY <1>1, <1>3 DEF WhoMayRun, ChoiceReady
<1>8. PreselReady' /\ PickedReady'
  BY <1>1, <1>2, <1>3 DEF WhoMayRun, PreselReady, PickedReady, Pick
<1> QED
  BY <1>5, <1>6, <1>7, <1>8 DEF WhoMayRun

(* The part of yield that chooses.                                         *)
LEMMA YieldChoosesStep ==
  ASSUME KernelTypes, WhoMayRun, NEW t \in All,
         YieldCount(t) \/ YieldFind(t) \/ YieldCheck(t) \/ YieldSwitch(t)
  PROVE  WhoMayRun'
<1>1. /\ isr = "none" /\ current = t /\ current' = current /\ due' = due /\ timeToTry' = timeToTry
      /\ picked' = picked
  BY DEF YieldCount, YieldFind, YieldCheck, YieldSwitch, Executes, schedVars
<1>2. /\ pc \in [All -> Places] /\ Idle \in All /\ choice \in [All -> Pick] /\ stale \subseteq All
      /\ NoThread \notin All
  BY Constant DEF KernelTypes, TypeOK
<1>p. PickedReady'
  <2>1. isr' # "commit"
    BY <1>1 DEF YieldCount, YieldFind, YieldCheck, YieldSwitch, schedVars
  <2> QED
    BY <2>1 DEF PickedReady
<1>q. ASSUME NEW to \in {"find", "check", "lock", AfterYield(t)}, Goto(t, to) PROVE IdleReady'
  <2>1. pc' = [pc EXCEPT ![t] = to] /\ (t = Idle => to \in {"find", "check", "lock", "nap"})
    BY <1>q DEF Goto, AfterYield
  <2>2. pc'[Idle] \in {pc[Idle], "find", "check", "lock", "nap"}
    BY <1>2, <2>1
  <2> QED
    BY <1>1, <2>2 DEF WhoMayRun, IdleReady, InYield, Ready
<1>3. CASE YieldCount(t)
  <2>1. /\ pc[t] = "count" /\ stale' = stale \ {t} /\ Goto(t, "find") /\ pc' = [pc EXCEPT ![t] = "find"]
        /\ UNCHANGED <<isr, presel, choice>>
    BY <1>3 DEF YieldCount, Executes, Goto, schedVars
  <2>2. pc'[t] = "find" /\ \A u \in All : u # t => pc'[u] = pc[u]
    BY <1>2, <2>1
  <2> USE DEF Ready, InYield
  <2>3. CurrentOnWay'
    BY <1>1, <2>1, <2>2 DEF WhoMayRun, CurrentOnWay
  <2>4. ChoiceReady'
    BY <1>1, <2>1, <2>2 DEF WhoMayRun, ChoiceReady
  <2>5. PreselReady'
    BY <1>1, <2>1 DEF WhoMayRun, PreselReady
  <2> QED
    BY <1>p, <1>q, <2>1, <2>3, <2>4, <2>5 DEF WhoMayRun
<1>4. CASE YieldFind(t)
  <2>1. /\ pc[t] = "find" /\ choice' = [choice EXCEPT ![t] = FindNextToRun] /\ Goto(t, "check")
        /\ pc' = [pc EXCEPT ![t] = "check"] /\ UNCHANGED <<isr, presel, stale>>
    BY <1>4 DEF YieldFind, Executes, Goto, schedVars
  <2>2. /\ pc'[t] = "check" /\ choice'[t] = FindNextToRun
        /\ \A u \in All : u # t => pc'[u] = pc[u] /\ choice'[u] = choice[u]
    BY <1>2, <2>1
  <2>3. FindNextToRun.thread \in All /\ due[FindNextToRun.thread] < 0
    BY FoundReady DEF WhoMayRun, Ready
  <2> USE DEF Ready, InYield
  <2>4. CurrentOnWay'
    BY <1>1, <2>1, <2>2 DEF WhoMayRun, CurrentOnWay
  <2>5. ChoiceReady'
    BY <1>1, <2>1, <2>2, <2>3 DEF WhoMayRun, ChoiceReady
  <2>6. PreselReady'
    BY <1>1, <2>1 DEF WhoMayRun, PreselReady
  <2> QED
    BY <1>p, <1>q, <2>1, <2>4, <2>5, <2>6 DEF WhoMayRun
<1>5. CASE YieldCheck(t)
  <2>1. pc[t] = "check" /\ UNCHANGED <<isr, presel, stale>>
    BY <1>5 DEF YieldCheck, Executes, schedVars
  <2>2. CASE t \in stale \/ choice[t].thread = t
    <3>1. Goto(t, AfterYield(t)) /\ choice' = [choice EXCEPT ![t] = NoPick]
      BY <1>5, <2>2 DEF YieldCheck
    <3>2. /\ pc'[t] \notin InYield
          /\ \A u \in All : u # t => pc'[u] = pc[u] /\ choice'[u] = choice[u]
      BY <1>2, <3>1 DEF Goto, AfterYield, InYield
    <3>3. due[t] < 0
      BY <1>1, <2>1, <2>2 DEF WhoMayRun, CurrentOnWay, ChoiceReady, InYield, Ready
    <3>4. CurrentOnWay'
      BY <1>1, <3>3 DEF CurrentOnWay, Ready
    <3>5. ChoiceReady'
      BY <1>1, <2>1, <3>2 DEF WhoMayRun, ChoiceReady, Ready
    <3>6. PreselReady'
      BY <1>1, <2>1 DEF WhoMayRun, PreselReady, Ready
    <3> QED
      BY <1>p, <1>q, <3>1, <3>4, <3>5, <3>6 DEF WhoMayRun
  <2>3. CASE ~(t \in stale \/ choice[t].thread = t)
    <3>1. Goto(t, "lock") /\ choice' = choice
      BY <1>5, <2>3 DEF YieldCheck
    <3>2. pc'[t] = "lock" /\ \A u \in All : u # t => pc'[u] = pc[u]
      BY <1>2, <3>1 DEF Goto
    <3> USE DEF Ready, InYield
    <3>3. CurrentOnWay'
      BY <1>1, <2>1, <3>2 DEF WhoMayRun, CurrentOnWay
    <3>4. ChoiceReady'
      BY <1>1, <2>1, <2>3, <3>1, <3>2 DEF WhoMayRun, ChoiceReady
    <3>5. PreselReady'
      BY <1>1, <2>1 DEF WhoMayRun, PreselReady
    <3> QED
      BY <1>p, <1>q, <3>1, <3>3, <3>4, <3>5 DEF WhoMayRun
  <2> QED
    BY <2>2, <2>3
<1>6. CASE YieldSwitch(t)
  <2>1. /\ pc[t] = "lock" /\ presel' = (IF t \in stale THEN presel ELSE choice[t])
        /\ choice' = [choice EXCEPT ![t] = NoPick] /\ isr' = "wrapper" /\ Goto(t, AfterYield(t))
        /\ stale' = stale
    BY <1>6 DEF YieldSwitch, Executes
  <2>2. /\ pc'[t] \notin InYield
        /\ \A u \in All : u # t => pc'[u] = pc[u] /\ choice'[u] = choice[u]
    BY <1>2, <2>1 DEF Goto, AfterYield, InYield
  <2>3. CurrentOnWay'
    BY <1>1, <2>1, <2>2 DEF WhoMayRun, CurrentOnWay, InYield, Ready
  <2>4. ChoiceReady'
    BY <1>1, <2>1, <2>2 DEF WhoMayRun, ChoiceReady, Ready
  <2>5. PreselReady'
    <3>1. CASE t \in stale
      BY <1>1, <2>1, <3>1 DEF WhoMayRun, PreselReady, Ready
    <3>2. CASE t \notin stale
      <4>1. due[choice[t].thread] < 0 /\ choice[t].thread # t
        BY <2>1, <3>2 DEF WhoMayRun, ChoiceReady, InYield, Ready
      <4> QED
        BY <1>1, <2>1, <3>2, <4>1 DEF PreselReady, Ready
    <3> QED
      BY <3>1, <3>2
  <2> QED
    BY <1>p, <1>q, <2>1, <2>3, <2>4, <2>5 DEF WhoMayRun
<1> QED
  BY <1>3, <1>4, <1>5, <1>6

(* The scheduler's interrupt.                                              *)
LEMMA SchedulerStepKeeps ==
  ASSUME KernelTypes, WhoMayRun, SysTick \/ WrapperTooEarly \/ ScheduleSelect \/ ScheduleCommit
  PROVE  WhoMayRun'
<1>1. /\ pc' = pc /\ pc \in [All -> Places] /\ Idle \in All /\ current \in All /\ NoThread \notin All
      /\ timeToTry \in Past..Slice /\ presel \in Pick /\ Past = -1
  BY Constant DEF KernelTypes, TypeOK, SysTick, WrapperTooEarly, ScheduleSelect, ScheduleCommit
<1>2. CASE SysTick
  <2>1. /\ isr = "none" /\ isr' = "wrapper"
        /\ UNCHANGED <<current, due, stale, choice, presel, picked, timeToTry, pc>>
    BY <1>2 DEF SysTick, yieldVars
  <2> QED
    BY <2>1 DEF WhoMayRun, IdleReady, CurrentOnWay, ChoiceReady, PreselReady, PickedReady, Ready, InYield
<1>3. CASE WrapperTooEarly
  <2>1. /\ isr = "wrapper" /\ timeToTry > 0 /\ isr' = "none"
        /\ UNCHANGED <<current, due, stale, choice, presel, picked, timeToTry, pc>>
    BY <1>3 DEF WrapperTooEarly, Activate
  <2>2. CurrentOnWay'
    BY <1>1, <2>1 DEF WhoMayRun, CurrentOnWay, Ready, InYield
  <2> QED
    BY <2>1, <2>2 DEF WhoMayRun, IdleReady, ChoiceReady, PreselReady, PickedReady, Ready
<1>4. CASE ScheduleSelect
  <2>1. /\ isr' = "commit" /\ stale' = All /\ presel' = NoPick
        /\ picked' = (IF presel.thread = NoThread THEN FindNextToRun ELSE presel)
        /\ UNCHANGED <<current, due>>
    BY <1>4 DEF ScheduleSelect
  <2>2. IdleReady' /\ CurrentOnWay' /\ ChoiceReady' /\ PreselReady'
    BY <1>1, <2>1 DEF WhoMayRun, IdleReady, CurrentOnWay, ChoiceReady, PreselReady, Ready, NoPick
  <2>3. PickedReady'
    <3>1. CASE presel.thread = NoThread
      BY <2>1, <3>1, FoundReady DEF WhoMayRun, PickedReady, Ready
    <3>2. CASE presel.thread # NoThread
      <4>1. presel.thread \in All /\ due[presel.thread] < 0
        BY <1>1, <3>2 DEF WhoMayRun, PreselReady, Ready, Pick
      <4> QED
        BY <2>1, <3>2, <4>1 DEF PickedReady, Ready
    <3> QED
      BY <3>1, <3>2
  <2> QED
    BY <2>2, <2>3 DEF WhoMayRun
<1>5. CASE ScheduleCommit
  <2>1. /\ isr = "commit" /\ isr' = "none" /\ current' = NextRunner
        /\ due' = (IF picked.thread \in badStack THEN [due EXCEPT ![picked.thread] = EndOfTime] ELSE due)
        /\ UNCHANGED <<stale, choice, presel>>
    BY <1>5 DEF ScheduleCommit, Activate
  <2>2. stale = All /\ picked.thread \in All /\ due[picked.thread] < 0 /\ due[Idle] < 0
        /\ presel.thread = NoThread
    BY <2>1 DEF WhoMayRun, PickedReady, IdleReady, PreselReady, Ready
  <2>3. due \in [All -> Past..EndOfTime] /\ Idle \notin badStack
    BY Constant DEF KernelTypes, TypeOK
  <2>4. due'[NextRunner] < 0 /\ due'[Idle] < 0
    BY <1>1, <2>1, <2>2, <2>3 DEF NextRunner
  <2>5. IdleReady' /\ PreselReady' /\ PickedReady' /\ CurrentOnWay'
    BY <1>1, <2>1, <2>2, <2>4 DEF WhoMayRun, IdleReady, PreselReady, PickedReady, CurrentOnWay, Ready
  <2>6. ChoiceReady'
    BY <2>1, <2>2 DEF ChoiceReady
  <2> QED
    BY <2>5, <2>6 DEF WhoMayRun
<1> QED
  BY <1>2, <1>3, <1>4, <1>5

(* Time passes: who could run still can.                                   *)
LEMMA TickStep == ASSUME KernelTypes, WhoMayRun, Tick PROVE WhoMayRun'
<1>1. /\ isr = "none" /\ pc[current] \in {"run", "scope", "sleep"}
      /\ due' = [t \in All |-> Aged(due[t])]
      /\ presel' = AgedPick(presel) /\ choice' = [t \in All |-> AgedPick(choice[t])]
      /\ UNCHANGED <<current, stale, pc, isr, picked>>
  BY DEF Tick
<1>2. /\ due \in [All -> Past..EndOfTime] /\ presel \in Pick /\ choice \in [All -> Pick]
      /\ current \in All /\ Idle \in All
  BY Constant DEF KernelTypes, TypeOK
<1>3. \A t \in All : due[t] < 0 => due'[t] < 0
  BY <1>1, <1>2, AgedTypes
<1>4. presel'.thread = presel.thread /\ \A t \in All : choice'[t].thread = choice[t].thread
  BY <1>1, <1>2, AgedTypes
<1>5. due[current] < 0
  BY <1>1 DEF WhoMayRun, CurrentOnWay, InYield, Ready
<1> USE DEF Ready
<1>6. IdleReady' /\ CurrentOnWay' /\ PickedReady'
  BY <1>1, <1>2, <1>3, <1>5 DEF WhoMayRun, IdleReady, CurrentOnWay, PickedReady
<1>7. ChoiceReady'
  BY <1>1, <1>3, <1>4 DEF WhoMayRun, ChoiceReady
<1>8. PreselReady'
  BY <1>1, <1>2, <1>3, <1>4 DEF WhoMayRun, PreselReady, Pick
<1> QED
  BY <1>6, <1>7, <1>8 DEF WhoMayRun

-----------------------------------------------------------------------------
(* All threads are ready at first and nobody has chosen.                   *)
LEMMA KernelInit == Init => KernelInvariant
<1> SUFFICES ASSUME Init PROVE KernelInvariant
  OBVIOUS
<1>1. Listed(activations)
  BY IdleFirst DEF Init
<1>2. NoPick \in Pick /\ "run" \in Places
  BY Constant DEF NoPick, Pick, Places
<1>3. KernelTypes
  <2>1. prio \in [All -> 0..Ceiling] /\ timer \in 0..EndOfTime /\ event \in Past..EndOfTime
        /\ timeToTry \in Past..Slice /\ napUntil \in Past..EndOfTime /\ waited \in 0..WaitBound + 1
    BY Constant, KernelAssumption DEF Init
  <2>2. due \in [All -> Past..EndOfTime] /\ choice \in [All -> Pick] /\ pc \in [All -> Places]
        /\ target \in [All -> Threads \cup {NoThread}]
    BY <1>2, ValueTypes DEF Init
  <2> QED
    BY <1>1, <1>2, <2>1, <2>2, Constant DEF Init, KernelTypes, TypeOK, Listed
<1>4. IdleReady /\ CurrentOnWay /\ ChoiceReady /\ PreselReady /\ PickedReady
  BY Constant DEF Init, IdleReady, CurrentOnWay, ChoiceReady, PreselReady, PickedReady, Ready, InYield, NoPick
<1> QED
  BY <1>3, <1>4 DEF KernelInvariant

(* The inductive invariant of the scheduler holds always.                  *)
LEMMA KernelHolds == Spec => []KernelInvariant
<1>1. KernelInvariant /\ [Next]_vars => KernelInvariant'
  <2> SUFFICES ASSUME KernelInvariant, [Next]_vars PROVE KernelInvariant'
    OBVIOUS
  <2>0. KernelTypes /\ WhoMayRun /\ IdleReady /\ PickedReady
    BY DEF KernelInvariant, WhoMayRun
  <2> SUFFICES KernelTypes' /\ WhoMayRun'
    BY DEF KernelInvariant, WhoMayRun
  <2>1. ASSUME NEW t \in All, KernelStep(t) PROVE KernelTypes' /\ WhoMayRun'
    BY <2>0, <2>1, ThreadTypes, YieldTypes, ThreadStep, SuspendStep, ResumeEndStep, YieldChoosesStep
    DEF KernelStep, YieldStep
  <2>2. ASSUME NEW t \in All, AppStep(t) PROVE KernelTypes' /\ WhoMayRun'
    BY <2>0, <2>2, ThreadTypes, ThreadStep DEF AppStep
  <2>3. CASE WrapperPropagate
    <3>1. WhoMayRun'
      BY <2>0, <2>3, ResumedStep, Constant DEF WrapperPropagate, schedVars, yieldVars
    <3> QED
      BY <2>0, <2>3, <3>1, SchedulerTypes DEF SchedulerStep
  <2>4. CASE SysTick \/ WrapperTooEarly \/ ScheduleSelect \/ ScheduleCommit
    BY <2>0, <2>4, SchedulerTypes, SchedulerStepKeeps DEF SchedulerStep
  <2>5. ASSUME NEW u \in Interrupted, InterruptResume(u) PROVE KernelTypes' /\ WhoMayRun'
    <3>1. WhoMayRun'
      BY <2>0, <2>5, ResumedStep, Constant DEF InterruptResume, schedVars, yieldVars
    <3> QED
      BY <2>0, <2>5, <3>1, SchedulerTypes
  <2>6. CASE Tick
    BY <2>0, <2>6, SchedulerTypes, TickStep
  <2>7. CASE UNCHANGED vars
    BY <2>0, <2>7 DEF vars, KernelTypes, TypeOK, WhoMayRun, IdleReady, CurrentOnWay, ChoiceReady,
       PreselReady, PickedReady, Ready
  <2> QED
    BY <2>1, <2>2, <2>3, <2>4, <2>5, <2>6, <2>7 DEF Next, SchedulerStep
<1> QED
  BY KernelInit, <1>1, PTL DEF Spec

(* The scheduler's state has its types for any number of threads and any   *)
(* times, and the order of activations holds every thread once.            *)
THEOREM KernelTypeCorrect == Spec => []TypeOK
<1>1. KernelInvariant => TypeOK
  BY DEF KernelInvariant, KernelTypes
<1> QED
  BY <1>1, KernelHolds, PTL

(* suspendCallerUntil and yield return only when the thread may run again. *)
THEOREM ReturnsWhenReady == Spec => []NoReturnWhileSuspended
<1>1. KernelInvariant => NoReturnWhileSuspended
  BY DEF KernelInvariant, CurrentOnWay, NoReturnWhileSuspended, InYield
<1> QED
  BY <1>1, KernelHolds, PTL

(* Scheduler::schedule activates only a thread whose time has come and     *)
(* whose stack is intact, also with the preselection of a yield that was   *)
(* interrupted.                                                            *)
THEOREM SwitchesToReady == Spec => SwitchOnlyToReady
<1>1. KernelInvariant /\ [Next]_vars =>
        [current' # current => due'[current'] < 0 /\ current' \notin badStack]_vars
  <2> SUFFICES ASSUME KernelInvariant, Next, current' # current
               PROVE  due'[current'] < 0 /\ current' \notin badStack
    BY DEF vars
  <2>1. ScheduleCommit
    <3>1. \A t \in All : KernelStep(t) => current' = current
      BY DEF KernelStep, YieldStep, SetSuspendedUntil, EndOfSuspendScope, LeaveScope, ResumeEnd,
             YieldReset, YieldCount, YieldFind, YieldCheck, YieldSwitch, CallYield, IdleNap, IdleWakeUp,
             schedVars
    <3>2. \A t \in All : AppStep(t) => current' = current
      BY DEF AppStep, SuspendCallerUntil, EnterScope, ResumeBegin, ActivateEvent, OverflowStack,
             CallYield, schedVars
    <3>3. SysTick \/ Tick \/ (\E u \in Interrupted : InterruptResume(u)) => current' = current
      BY DEF SysTick, Tick, InterruptResume, schedVars
    <3>4. WrapperPropagate \/ WrapperTooEarly \/ ScheduleSelect => current' = current
      BY DEF WrapperPropagate, WrapperTooEarly, ScheduleSelect, Activate, schedVars
    <3> QED
      BY <3>1, <3>2, <3>3, <3>4 DEF Next, SchedulerStep
  <2>2. /\ current' = NextRunner /\ isr = "commit"
        /\ due' = (IF picked.thread \in badStack THEN [due EXCEPT ![picked.thread] = EndOfTime] ELSE due)
    BY <2>1 DEF ScheduleCommit, Activate
  <2>3. picked.thread \in All /\ due[picked.thread] < 0 /\ due[Idle] < 0
    BY <2>2 DEF KernelInvariant, PickedReady, IdleReady, Ready
  <2>4. due \in [All -> Past..EndOfTime] /\ Idle \notin badStack
    BY Constant DEF KernelInvariant, KernelTypes, TypeOK
  <2> QED
    BY <2>2, <2>3, <2>4 DEF NextRunner
<1> QED
  BY <1>1, KernelHolds, PTL DEF Spec, SwitchOnlyToReady

-----------------------------------------------------------------------------
(* How long an urgent thread waits.  The scheduler's next run is at most a *)
(* time slice and a tick away and selects a thread urgent enough, unless   *)
(* it uses a preselection that is outdated; such a one is used up then.    *)

(* The ceiling priority belongs to the scopes, and only the watched thread *)
(* has one of its own.                                                     *)
PrioInScope ==
  \A t \in All : /\ prio[t] = IF pc[t] \in {"ceiled", "set", "scope"} THEN Ceiling ELSE BasePrio[t]
                 /\ pc[t] = "scope" => t = Watched

(* Nobody waits who runs, is suspended or has been deactivated.            *)
WaitsOnlyReady ==
  waited > 0 => Ready(Watched) /\ current # Watched /\ Watched \notin badStack

Urgent(t) == prio[t] >= prio[Watched]
Outdated == presel.thread # NoThread /\ ~Urgent(presel.thread)

(* The scheduler runs within n ticks.                                      *)
Within(n) == timer <= n /\ (timeToTry > 0 => timeToTry + 1 <= n) /\ napUntil <= n
WithinSlice == Within(Slice + 1) /\ napUntil <= Slice

(* The running thread gives the CPU away before the next tick.             *)
Heading ==
  \/ pc[current] \in {"ceiled", "set", "yield"}
  \/ current = Idle /\ pc[Idle] = "run"
  \/ timeToTry <= 0 /\ pc[current] = "count"
  \/ timeToTry <= 0 /\ pc[current] \in InYield /\ current \notin stale
  \/ timeToTry <= 0 /\ isr = "wrapper"

(* What yield has found since the last tick is urgent.                     *)
ChoiceUrgent ==
  waited > 0 => \A t \in All :
    t \notin stale /\ pc[t] \in {"check", "lock"} => Urgent(choice[t].thread)

(* An urgent thread runs, or one that is about to leave; or the scheduler  *)
(* runs soon enough; or it has selected.                                   *)
Calm ==
  isr # "commit" /\ (BasePrio[current] >= prio[Watched] \/ Heading) /\ (~Outdated \/ waited <= Slice + 1)
Soon == isr # "commit" /\ Within((IF Outdated THEN Slice + 1 ELSE WaitBound) - waited)
Decided == isr = "commit" /\ (Urgent(picked.thread) \/ waited <= Slice + 1)

WaitEnds == waited > 0 => Calm \/ Soon \/ Decided

WaitInvariant ==
  /\ PrioInScope /\ WaitsOnlyReady /\ ChoiceUrgent /\ WithinSlice /\ WaitEnds
  /\ UrgentWaitBounded

(* Looking at one thread more, the walk forgets no urgent one.             *)
LEMMA ConsiderForemost ==
  ASSUME KernelTypes, NEW best \in Pick, best.thread \in All, NEW t \in All
  PROVE  /\ prio[Consider(best, t).thread] >= prio[best.thread]
         /\ Ready(t) => prio[Consider(best, t).thread] >= prio[t]
<1>1. prio[t] \in Nat /\ prio[best.thread] \in Nat
  BY Constant DEF KernelTypes, TypeOK
<1>2. CASE Ready(t)
  <2>1. CASE Consider(best, t) = best
    <3>1. ~(prio[t] > prio[best.thread])
      <4>1. SUFFICES ASSUME prio[t] > prio[best.thread] PROVE FALSE
        OBVIOUS
      <4>2. Consider(best, t) = [best EXCEPT !.thread = t]
        BY <1>2, <4>1 DEF Consider
      <4> QED
        BY <1>1, <2>1, <4>1, <4>2 DEF Pick
    <3> QED
      BY <1>1, <2>1, <3>1
  <2>2. CASE Consider(best, t) # best
    <3>1. Consider(best, t) = [best EXCEPT !.thread = t] /\ prio[t] >= prio[best.thread]
      BY <1>1, <1>2, <2>2 DEF Consider
    <3> QED
      BY <1>1, <3>1 DEF Pick
  <2> QED
    BY <2>1, <2>2
<1>3. CASE ~Ready(t)
  <2>1. Consider(best, t) \in {best, [best EXCEPT !.earliest = Min2(best.earliest, due[t])]}
    BY <1>3 DEF Consider
  <2> QED
    BY <1>1, <1>3, <2>1 DEF Pick
<1> QED
  BY <1>2, <1>3

(* findNextToRun: no thread that may run has a higher priority.            *)
LEMMA FoundForemost ==
  ASSUME KernelTypes, IdleReady, NEW t \in All, Ready(t)
  PROVE  prio[FindNextToRun.thread] >= prio[t]
<1> DEFINE good(k) == /\ Walk[k] \in Pick /\ Walk[k].thread \in All /\ Ready(Walk[k].thread)
                      /\ \A j \in 1..k : Ready(List[j]) => prio[Walk[k].thread] >= prio[List[j]]
           Good == {k \in 0..Len(List) : good(k)}
<1>0. Len(List) \in Nat /\ (\A k \in 1..Len(List) : List[k] \in All) /\ prio \in [All -> 0..Ceiling]
      /\ Ceiling \in Nat
  <2>1. Len(List) \in Nat /\ \A k \in 1..Len(List) : List[k] \in All
    BY KernelAssumption
  <2> QED
    BY <2>1, Constant DEF KernelTypes, TypeOK
<1>1. 0 \in Good
  <2>1. Walk[0] \in Pick /\ Walk[0].thread \in All /\ Ready(Walk[0].thread)
    BY WalkIs, KernelAssumption DEF IdleReady, Pick, All, Past
  <2> QED
    BY <1>0, <2>1
<1>2. ASSUME NEW k \in 1..Len(List), k - 1 \in Good PROVE k \in Good
  <2>1. good(k - 1) /\ List[k] \in All /\ k \in Nat
    BY <1>0, <1>2
  <2>2. PICK best \in Pick : best = Walk[k - 1] /\ best.thread \in All /\ Ready(best.thread)
    BY <2>1
  <2>3. Walk[k] = Consider(best, List[k])
    BY <2>2, WalkIs
  <2>4. Walk[k] \in Pick /\ Walk[k].thread \in All /\ Ready(Walk[k].thread)
    BY <2>1, <2>2, <2>3, ConsiderOne
  <2>5. /\ prio[Walk[k].thread] >= prio[best.thread]
        /\ Ready(List[k]) => prio[Walk[k].thread] >= prio[List[k]]
    BY <2>1, <2>2, <2>3, ConsiderForemost
  <2>6. ASSUME NEW j \in 1..k, Ready(List[j]) PROVE prio[Walk[k].thread] >= prio[List[j]]
    <3>1. CASE j = k
      BY <2>5, <2>6, <3>1
    <3>2. CASE j # k
      <4>1. j \in 1..(k - 1) /\ j \in 1..Len(List)
        BY <1>0, <3>2
      <4>2. prio[best.thread] >= prio[List[j]] /\ List[j] \in All
        BY <1>0, <2>1, <2>2, <2>6, <4>1
      <4> QED
        BY <1>0, <2>2, <2>4, <2>5, <4>2
    <3> QED
      BY <3>1, <3>2
  <2> QED
    BY <1>0, <2>4, <2>6
<1>3. \A k \in 0..Len(List) : k \in Good
  <2> HIDE DEF Good
  <2> QED
    BY <1>0, <1>1, <1>2, UpTo
<1>4. PICK j \in 1..Len(List) : List[j] = t
  BY KernelAssumption DEF ToSet
<1>5. Len(List) \in 0..Len(List)
  BY <1>0
<1>6. good(Len(List))
  BY <1>3, <1>5
<1> QED
  BY <1>4, <1>6 DEF FindNextToRun

(* Priorities change with the scopes.                                      *)
LEMMA PrioStep ==
  ASSUME KernelTypes, IdleReady, PrioInScope, Scoped \subseteq {Watched}, [Next]_vars
  PROVE  PrioInScope'
<1>1. /\ prio \in [All -> 0..Ceiling] /\ pc \in [All -> Places] /\ Idle \in All /\ BasePrio[Idle] = 0
      /\ pc[Idle] \notin {"ceiled", "set", "scope"}
  BY Constant, KernelAssumption DEF KernelTypes, TypeOK, IdleReady, InYield
<1> DEFINE ceiled(at) == at \in {"ceiled", "set", "scope"}
<1>a. ASSUME NEW t \in All, NEW to, Goto(t, to), to = "scope" => t = Watched,
             prio' = [prio EXCEPT ![t] = IF ceiled(to) THEN Ceiling ELSE BasePrio[t]]
      PROVE  PrioInScope'
  <2>1. \A u \in All : /\ pc'[u] = IF u = t THEN to ELSE pc[u]
                       /\ prio'[u] = IF u = t THEN IF ceiled(to) THEN Ceiling ELSE BasePrio[t] ELSE prio[u]
    BY <1>1, <1>a DEF Goto
  <2> QED
    BY <1>a, <2>1 DEF PrioInScope
<1>b. ASSUME NEW t \in All, NEW to, Goto(t, to), ceiled(to) = ceiled(pc[t]), to # "scope", prio' = prio
      PROVE  PrioInScope'
  <2>1. \A u \in All : pc'[u] = IF u = t THEN to ELSE pc[u]
    BY <1>1, <1>b DEF Goto
  <2> QED
    BY <1>b, <2>1 DEF PrioInScope
<1>c. ASSUME UNCHANGED <<prio, pc>> PROVE PrioInScope'
  BY <1>c DEF PrioInScope
<1> USE DEF Executes
<1>2. ASSUME NEW t \in All, KernelStep(t) \/ AppStep(t) PROVE PrioInScope'
  <2>1. CASE SuspendCallerUntil(t)
    <3>1. Goto(t, "ceiled") /\ prio' = [prio EXCEPT ![t] = Ceiling]
      BY <2>1 DEF SuspendCallerUntil
    <3> QED
      BY <3>1, <1>a
  <2>2. CASE SetSuspendedUntil(t)
    <3>1. Goto(t, "set") /\ prio' = prio /\ pc[t] = "ceiled"
      BY <2>2 DEF SetSuspendedUntil
    <3> QED
      BY <3>1, <1>b
  <2>3. CASE EndOfSuspendScope(t)
    <3>1. Goto(t, "yield") /\ prio' = [prio EXCEPT ![t] = BasePrio[t]]
      BY <2>3 DEF EndOfSuspendScope
    <3> QED
      BY <3>1, <1>a
  <2>4. CASE EnterScope(t)
    <3>1. Goto(t, "scope") /\ prio' = [prio EXCEPT ![t] = Ceiling] /\ t = Watched
      BY <2>4 DEF EnterScope
    <3> QED
      BY <3>1, <1>a
  <2>5. CASE LeaveScope(t)
    <3>1. Goto(t, "run") /\ prio' = [prio EXCEPT ![t] = BasePrio[t]]
      BY <2>5 DEF LeaveScope
    <3> QED
      BY <3>1, <1>a
  <2>6. CASE CallYield(t)
    <3>1. /\ Goto(t, "yield") /\ prio' = (IF t = Idle THEN [prio EXCEPT ![Idle] = 0] ELSE prio)
          /\ pc[t] = "run" /\ prio[Idle] = 0
      BY <1>1, <2>6 DEF CallYield, PrioInScope
    <3>2. prio' = prio
      BY <1>1, <3>1
    <3> QED
      BY <3>1, <3>2, <1>b
  <2>7. CASE ActivateEvent(t) \/ OverflowStack(t)
    BY <1>c, <2>7 DEF ActivateEvent, OverflowStack
  <2>8. CASE ResumeBegin(t) \/ ResumeEnd(t) \/ YieldStep(t) \/ (t = Idle /\ (IdleNap \/ IdleWakeUp))
    <3>1. ~ceiled(pc[t]) /\ prio' = prio
      BY <2>8 DEF ResumeBegin, ResumeEnd, YieldStep, YieldReset, YieldCount, YieldFind, YieldCheck,
                  YieldSwitch, IdleNap, IdleWakeUp
    <3>2. \E to \in {"resume", "run", "count", "find", "check", "lock", "nap", "sleep"} : Goto(t, to)
      BY <2>8 DEF ResumeBegin, ResumeEnd, YieldStep, YieldReset, YieldCount, YieldFind, YieldCheck,
                  YieldSwitch, IdleNap, IdleWakeUp, AfterYield
    <3> QED
      BY <3>1, <3>2, <1>b
  <2> QED
    BY <1>2, <2>1, <2>2, <2>3, <2>4, <2>5, <2>6, <2>7, <2>8 DEF KernelStep, AppStep
<1>3. CASE SchedulerStep \/ SysTick \/ (\E u \in Interrupted : InterruptResume(u)) \/ Tick
  <2>1. UNCHANGED <<prio, pc>>
    BY <1>3 DEF SchedulerStep, WrapperPropagate, WrapperTooEarly, ScheduleSelect, ScheduleCommit,
                SysTick, InterruptResume, Tick
  <2> QED
    BY <1>c, <2>1
<1>4. CASE UNCHANGED vars
  BY <1>c, <1>4 DEF vars
<1> QED
  BY <1>2, <1>3, <1>4 DEF Next

(* The timer is armed no later than a tick after the next scheduling.      *)
LEMMA TriggerSoon ==
  ASSUME NEW a \in Past..Slice, NEW b \in Past..EndOfTime
  PROVE  TriggerIn(a, b) <= Slice + 1 /\ (a > 0 => TriggerIn(a, b) <= a + 1)
BY Constant DEF TriggerIn, Max2, Min2

(* The sleep of the idle thread ends before the next scheduling.           *)
LEMMA NapSoon ==
  ASSUME KernelTypes, IdleNap
  PROVE  \/ UNCHANGED <<timer, napUntil>>
         \/ timeToTry > 0 /\ timer' <= timeToTry /\ napUntil' <= timeToTry
<1> DEFINE reactivation == Min2(timeToTry, event)
           interval == reactivation - WakeUp - 1
<1>1. \/ UNCHANGED <<timer, napUntil>>
      \/ timer' = interval /\ napUntil' = reactivation /\ interval > 1
  BY DEF IdleNap
<1>2. timeToTry \in Past..Slice /\ event \in Past..EndOfTime
  BY DEF KernelTypes, TypeOK
<1>3. reactivation <= timeToTry /\ (interval > 1 => timeToTry > 0 /\ interval <= timeToTry)
  BY <1>2, Constant DEF Min2
<1> HIDE DEF reactivation, interval
<1> QED
  BY <1>1, <1>3

(* The scheduler's next run is always at most a time slice and a tick      *)
(* away.                                                                   *)
LEMMA WithinStep ==
  ASSUME KernelTypes, WithinSlice, [Next]_vars PROVE WithinSlice'
<1>1. /\ timeToTry \in Past..Slice /\ timer \in 0..EndOfTime /\ napUntil \in Past..EndOfTime
      /\ event \in Past..EndOfTime /\ picked.earliest \in Past..EndOfTime
  BY DEF KernelTypes, TypeOK, Pick
<1>2. timer <= Slice + 1 /\ napUntil <= Slice
  BY DEF WithinSlice, Within
<1> SUFFICES timeToTry' <= Slice /\ timer' <= Slice + 1 /\ napUntil' <= Slice
             /\ timeToTry' \in Int /\ timer' \in Int /\ napUntil' \in Int
  <2>1. Slice \in Nat
    BY Constant
  <2>2. WithinSlice' = (/\ timer' <= Slice + 1 /\ (timeToTry' > 0 => timeToTry' + 1 <= Slice + 1)
                        /\ napUntil' <= Slice + 1 /\ napUntil' <= Slice)
    BY DEF WithinSlice, Within
  <2>3. \A x \in Int : x <= Slice => x <= Slice + 1 /\ x + 1 <= Slice + 1
    BY <2>1
  <2> QED
    BY <2>2, <2>3
<1>a. ASSUME timeToTry' \in {timeToTry, Past}, UNCHANGED <<timer, napUntil>>
      PROVE  timeToTry' <= Slice /\ timer' <= Slice + 1 /\ napUntil' <= Slice
             /\ timeToTry' \in Int /\ timer' \in Int /\ napUntil' \in Int
  BY <1>1, <1>2, <1>a, Constant
<1>3. CASE IdleNap
  <2>1. timeToTry' = timeToTry
    BY <1>3 DEF IdleNap
  <2>2. timer' \in Int /\ napUntil' \in Int
    <3> DEFINE reactivation == Min2(timeToTry, event)
               interval == reactivation - WakeUp - 1
    <3>1. timer' \in {timer, interval} /\ napUntil' \in {napUntil, reactivation}
      BY <1>3 DEF IdleNap
    <3>2. reactivation \in Int /\ interval \in Int
      BY <1>1, Constant DEF Min2
    <3> HIDE DEF reactivation, interval
    <3> QED
      BY <1>1, <3>1, <3>2
  <2> QED
    BY <1>1, <1>2, <1>3, <2>1, <2>2, NapSoon, Constant
<1>4. CASE IdleWakeUp
  <2>1. timer' = Max2(napUntil, 1) /\ napUntil' = Past /\ timeToTry' = timeToTry
    BY <1>4 DEF IdleWakeUp
  <2> QED
    BY <1>1, <1>2, <2>1, Constant DEF Max2
<1>5. CASE WrapperTooEarly
  <2>1. timer' = TriggerIn(timeToTry, event) /\ UNCHANGED <<timeToTry, napUntil>>
    BY <1>5 DEF WrapperTooEarly, appVars
  <2>2. TriggerIn(timeToTry, event) \in Int
    BY <1>1, Constant DEF TriggerIn, Max2, Min2
  <2> QED
    BY <1>1, <1>2, <2>1, <2>2, TriggerSoon
<1>6. CASE ScheduleCommit
  <2>1. timeToTry' = Min2(picked.earliest, Slice) /\ timer' = TriggerIn(timeToTry', event) /\ napUntil' = napUntil
    BY <1>6 DEF ScheduleCommit, NextTry
  <2>2. timeToTry' \in Past..Slice
    BY <1>1, <2>1, Constant DEF Min2
  <2>3. TriggerIn(timeToTry', event) \in Int
    BY <1>1, <2>2, Constant DEF TriggerIn, Max2, Min2
  <2> QED
    BY <1>1, <1>2, <2>1, <2>2, <2>3, TriggerSoon, Constant
<1>7. CASE Tick
  <2>1. timeToTry' = Aged(timeToTry) /\ timer' = timer - 1 /\ napUntil' = Aged(napUntil)
    BY <1>7 DEF Tick
  <2> QED
    BY <1>1, <1>2, <2>1, Constant DEF Aged
<1>8. CASE SysTick \/ WrapperPropagate \/ ScheduleSelect \/ (\E u \in Interrupted : InterruptResume(u))
  BY <1>a, <1>8 DEF SysTick, WrapperPropagate, ScheduleSelect, InterruptResume, schedVars, appVars
<1>9. ASSUME NEW t \in All,
             \/ SetSuspendedUntil(t) \/ EndOfSuspendScope(t) \/ LeaveScope(t) \/ ResumeEnd(t)
             \/ YieldStep(t) \/ CallYield(t)
      PROVE  timeToTry' \in {timeToTry, Past} /\ UNCHANGED <<timer, napUntil>>
  BY <1>9 DEF SetSuspendedUntil, EndOfSuspendScope, LeaveScope, ResumeEnd, YieldStep, YieldReset,
              YieldCount, YieldFind, YieldCheck, YieldSwitch, CallYield, schedVars, appVars
<1>10. ASSUME NEW t \in All, AppStep(t) PROVE timeToTry' \in {timeToTry, Past} /\ UNCHANGED <<timer, napUntil>>
  BY <1>10 DEF AppStep, SuspendCallerUntil, EnterScope, ResumeBegin, ActivateEvent, OverflowStack,
               CallYield, schedVars, appVars
<1>11. CASE UNCHANGED vars
  BY <1>a, <1>11 DEF vars
<1> QED
  BY <1>a, <1>3, <1>4, <1>5, <1>6, <1>7, <1>8, <1>9, <1>10, <1>11 DEF Next, KernelStep, SchedulerStep

(* A waiting thread goes on to be ready until it runs: it does nothing     *)
(* itself meanwhile.                                                       *)
LEMMA WaitsReadyStep ==
  ASSUME KernelTypes, PickedReady, WaitsOnlyReady, [Next]_vars PROVE WaitsOnlyReady'
<1>1. /\ due \in [All -> Past..EndOfTime] /\ Watched \in All /\ waited \in Nat /\ Past = -1
      /\ prio \in [All -> 0..Ceiling] /\ current \in All
  BY Constant, KernelAssumption DEF KernelTypes, TypeOK
<1> USE DEF Ready
<1>a. ASSUME UNCHANGED <<waited, current, badStack>>, due[Watched] < 0 => due'[Watched] < 0
      PROVE  WaitsOnlyReady'
  BY <1>a DEF WaitsOnlyReady
<1>2. ASSUME NEW t \in All, KernelStep(t) \/ AppStep(t) PROVE WaitsOnlyReady'
  <2>1. current = t /\ UNCHANGED <<waited, current>>
    BY <1>2 DEF KernelStep, AppStep, YieldStep, SetSuspendedUntil, EndOfSuspendScope, LeaveScope, ResumeEnd,
       YieldReset, YieldCount, YieldFind, YieldCheck, YieldSwitch, CallYield, IdleNap, IdleWakeUp,
       SuspendCallerUntil, EnterScope, ResumeBegin, ActivateEvent, OverflowStack, Executes, schedVars, appVars
  <2>2. CASE t = Watched
    BY <2>1, <2>2 DEF WaitsOnlyReady
  <2>3. CASE t # Watched
    <3>1. CASE OverflowStack(t)
      <4>1. badStack' = badStack \cup {t} /\ due' = due
        BY <3>1 DEF OverflowStack
      <4> QED
        BY <2>1, <2>3, <4>1 DEF WaitsOnlyReady
    <3>2. CASE SetSuspendedUntil(t) \/ ResumeEnd(t)
      <4>1. badStack' = badStack
        BY <3>2 DEF SetSuspendedUntil, ResumeEnd, appVars
      <4>2. due[Watched] < 0 => due'[Watched] < 0
        BY <1>1, <2>3, <3>2 DEF SetSuspendedUntil, ResumeEnd
      <4> QED
        BY <1>a, <2>1, <4>1, <4>2
    <3>3. CASE ~(OverflowStack(t) \/ SetSuspendedUntil(t) \/ ResumeEnd(t))
      <4>1. UNCHANGED <<badStack, due>>
        BY <1>2, <3>3 DEF KernelStep, AppStep, YieldStep, EndOfSuspendScope, LeaveScope,
           YieldReset, YieldCount, YieldFind, YieldCheck, YieldSwitch, CallYield, IdleNap, IdleWakeUp,
           SuspendCallerUntil, EnterScope, ResumeBegin, ActivateEvent, appVars
      <4> QED
        BY <1>a, <2>1, <4>1
    <3> QED
      BY <3>1, <3>2, <3>3
  <2> QED
    BY <2>2, <2>3
<1>3. CASE SysTick \/ WrapperTooEarly \/ ScheduleSelect
  <2>1. UNCHANGED <<waited, current, badStack, due>>
    BY <1>3 DEF SysTick, WrapperTooEarly, ScheduleSelect, Activate, appVars
  <2> QED
    BY <1>a, <2>1
<1>4. CASE WrapperPropagate \/ \E u \in Interrupted : InterruptResume(u)
  <2>1. UNCHANGED <<waited, current, badStack>> /\ \E u : due' = [due EXCEPT ![u] = Past]
    BY <1>4 DEF WrapperPropagate, InterruptResume, schedVars, appVars
  <2>2. due[Watched] < 0 => due'[Watched] < 0
    BY <1>1, <2>1
  <2> QED
    BY <1>a, <2>1, <2>2
<1>5. CASE ScheduleCommit
  <2>1. /\ waited' = (IF Watched = NextRunner \/ picked.thread \in badStack THEN 0 ELSE waited)
        /\ due' = (IF picked.thread \in badStack THEN [due EXCEPT ![picked.thread] = EndOfTime] ELSE due)
        /\ current' = NextRunner /\ badStack' = badStack
    BY <1>5 DEF ScheduleCommit, Activate
  <2> QED
    BY <2>1 DEF WaitsOnlyReady
<1>6. CASE Tick
  <2>1. /\ waited' = (IF Overdue THEN Min2(waited + 1, WaitBound + 1) ELSE 0)
        /\ due' = [t \in All |-> Aged(due[t])] /\ UNCHANGED <<current, badStack>>
    BY <1>6 DEF Tick
  <2>2. CASE Overdue
    <3>1. due'[Watched] < 0
      BY <1>1, <2>1, <2>2, AgedTypes DEF Overdue
    <3>2. current # Watched
      BY <1>1, <2>2, Constant DEF Overdue
    <3> QED
      BY <2>1, <2>2, <3>1, <3>2 DEF Overdue, WaitsOnlyReady
  <2>3. CASE ~Overdue
    BY <2>1, <2>3 DEF WaitsOnlyReady
  <2> QED
    BY <2>2, <2>3
<1>7. CASE UNCHANGED vars
  BY <1>a, <1>7 DEF vars
<1> QED
  BY <1>2, <1>3, <1>4, <1>5, <1>6, <1>7 DEF Next, SchedulerStep

(* What a step of the running thread leaves alone.                         *)
LEMMA OwnStep ==
  ASSUME KernelTypes, IdleReady, PrioInScope, NEW t \in All, KernelStep(t) \/ AppStep(t)
  PROVE  /\ isr = "none" /\ current = t /\ isr' # "commit" /\ UNCHANGED <<current, waited, picked>>
         /\ \A u \in All : u # t => pc'[u] = pc[u] /\ prio'[u] = prio[u]
         /\ YieldStep(t) => prio' = prio
         /\ stale' \in {stale, stale \ {t}}
<1>1. /\ prio \in [All -> 0..Ceiling] /\ pc \in [All -> Places] /\ Idle \in All
  BY Constant DEF KernelTypes, TypeOK
<1>2. /\ isr = "none" /\ current = t /\ isr' \in {isr, "wrapper"} /\ UNCHANGED <<current, waited, picked>>
      /\ stale' \in {stale, stale \ {t}}
  BY DEF KernelStep, AppStep, YieldStep, SetSuspendedUntil, EndOfSuspendScope, LeaveScope, ResumeEnd,
     YieldReset, YieldCount, YieldFind, YieldCheck, YieldSwitch, CallYield, IdleNap, IdleWakeUp,
     SuspendCallerUntil, EnterScope, ResumeBegin, ActivateEvent, OverflowStack, Executes, schedVars,
     yieldVars, appVars
<1>3. pc' = pc \/ \E to : Goto(t, to)
  BY DEF KernelStep, AppStep, YieldStep, SetSuspendedUntil, EndOfSuspendScope, LeaveScope, ResumeEnd,
     YieldReset, YieldCount, YieldFind, YieldCheck, YieldSwitch, CallYield, IdleNap, IdleWakeUp,
     SuspendCallerUntil, EnterScope, ResumeBegin, ActivateEvent, OverflowStack
<1>4. prio' = prio \/ \E p : prio' = [prio EXCEPT ![t] = p]
  BY DEF KernelStep, AppStep, YieldStep, SetSuspendedUntil, EndOfSuspendScope, LeaveScope, ResumeEnd,
     YieldReset, YieldCount, YieldFind, YieldCheck, YieldSwitch, CallYield, IdleNap, IdleWakeUp,
     SuspendCallerUntil, EnterScope, ResumeBegin, ActivateEvent, OverflowStack
<1>5. YieldStep(t) => prio' = prio
  BY DEF YieldStep, YieldReset, YieldCount, YieldFind, YieldCheck, YieldSwitch
<1>6. \A u \in All : u # t => pc'[u] = pc[u]
  BY <1>1, <1>3 DEF Goto
<1>7. \A u \in All : u # t => prio'[u] = prio[u]
  BY <1>1, <1>4
<1> QED
  BY <1>2, <1>5, <1>6, <1>7

(* findNextToRun has seen the waiting thread; what it returned before the  *)
(* last tick belongs to a yield that is over.                              *)
LEMMA ChoiceStep ==
  ASSUME KernelTypes, WhoMayRun, PrioInScope, WaitsOnlyReady, ChoiceUrgent, [Next]_vars
  PROVE  ChoiceUrgent'
<1>0. IdleReady /\ ChoiceReady /\ PickedReady
  BY DEF WhoMayRun
<1>1. /\ choice \in [All -> Pick] /\ pc \in [All -> Places] /\ Watched \in All
      /\ stale \subseteq All /\ waited \in Nat
  BY Constant, KernelAssumption DEF KernelTypes, TypeOK
<1>2. ASSUME NEW t \in All, KernelStep(t) \/ AppStep(t) PROVE ChoiceUrgent'
  <2> SUFFICES ASSUME waited' > 0, NEW u \in All, u \notin stale', pc'[u] \in {"check", "lock"}
               PROVE  Urgent(choice[u].thread)'
    BY DEF ChoiceUrgent
  <2>1. /\ isr = "none" /\ current = t /\ waited' = waited
        /\ \A x \in All : x # t => pc'[x] = pc[x] /\ prio'[x] = prio[x]
        /\ YieldStep(t) => prio' = prio
        /\ stale' \in {stale, stale \ {t}}
    BY <1>0, <1>2, OwnStep
  <2>2. u = t
    <3>1. SUFFICES ASSUME u # t PROVE FALSE
      OBVIOUS
    <3>2. u \notin stale /\ pc[u] \in {"check", "lock"}
      BY <2>1, <3>1
    <3> QED
      BY <1>0, <2>1, <3>1, <3>2 DEF ChoiceReady, InYield
  <2>3. pc'[t] \in {"check", "lock"}
    BY <2>2
  <2>4. CASE YieldFind(t)
    <3>1. choice'[t] = FindNextToRun
      BY <1>1, <2>4 DEF YieldFind
    <3>2. Ready(Watched) /\ prio' = prio
      BY <2>1, <2>4 DEF WaitsOnlyReady, YieldStep
    <3>3. prio[FindNextToRun.thread] >= prio[Watched]
      BY <1>0, <1>1, <3>2, FoundForemost
    <3> QED
      BY <2>2, <3>1, <3>2, <3>3 DEF Urgent
  <2>5. CASE YieldCheck(t)
    <3>1. pc[t] = "check" /\ stale' = stale /\ prio' = prio
      BY <2>1, <2>5 DEF YieldCheck, Executes, YieldStep
    <3>2. choice' = choice
      <4>1. pc'[t] # AfterYield(t)
        BY <2>3 DEF AfterYield
      <4>2. Goto(t, AfterYield(t)) => pc'[t] = AfterYield(t)
        BY <1>1 DEF Goto
      <4> QED
        BY <2>5, <4>1, <4>2 DEF YieldCheck
    <3>3. Urgent(choice[t].thread)
      BY <2>1, <2>2, <3>1 DEF ChoiceUrgent
    <3> QED
      BY <2>2, <3>1, <3>2, <3>3 DEF Urgent
  <2>6. CASE ~(YieldFind(t) \/ YieldCheck(t))
    <3>1. \/ pc' = pc /\ pc[t] = "run"
          \/ \E to \in {"ceiled", "set", "yield", "scope", "run", "resume", "count", "find", "nap", "sleep"} :
               Goto(t, to)
      BY <1>2, <2>6 DEF KernelStep, AppStep, YieldStep, SetSuspendedUntil, EndOfSuspendScope, LeaveScope,
         ResumeEnd, YieldReset, YieldCount, YieldSwitch, CallYield, IdleNap, IdleWakeUp, AfterYield,
         SuspendCallerUntil, EnterScope, ResumeBegin, ActivateEvent, OverflowStack, Executes
    <3> QED
      BY <1>1, <2>3, <3>1 DEF Goto
  <2> QED
    BY <2>4, <2>5, <2>6
<1>3. CASE Tick
  <2> SUFFICES ASSUME NEW u \in All, u \notin stale', pc'[u] \in {"check", "lock"} PROVE FALSE
    BY DEF ChoiceUrgent
  <2>1. UNCHANGED <<stale, pc>> /\ pc[current] \in {"run", "scope", "sleep"}
    BY <1>3 DEF Tick
  <2> QED
    BY <1>0, <2>1 DEF ChoiceReady, InYield
<1>4. CASE ScheduleSelect \/ ScheduleCommit
  <2>1. stale' = All
    BY <1>0, <1>4 DEF ScheduleSelect, ScheduleCommit, PickedReady
  <2> QED
    BY <2>1 DEF ChoiceUrgent
<1>5. CASE \/ SysTick \/ WrapperTooEarly \/ WrapperPropagate \/ (\E u \in Interrupted : InterruptResume(u))
           \/ UNCHANGED vars
  <2>1. UNCHANGED <<stale, pc, choice, prio, waited>>
    BY <1>5 DEF SysTick, WrapperTooEarly, WrapperPropagate, InterruptResume, vars, yieldVars, appVars
  <2> QED
    BY <2>1 DEF ChoiceUrgent, Urgent
<1> QED
  BY <1>2, <1>3, <1>4, <1>5 DEF Next, SchedulerStep

(* An outdated preselection is not older than a time slice.                *)
LEMMA OutdatedEarly ==
  ASSUME KernelTypes, Calm \/ Soon PROVE ~Outdated \/ waited <= Slice + 1
<1>1. timer \in Int /\ timer >= 0 /\ waited \in Int /\ Slice \in Nat
  BY Constant DEF KernelTypes, TypeOK
<1>2. CASE Calm
  BY <1>2 DEF Calm
<1>3. CASE Soon /\ Outdated
  <2>0. (IF Outdated THEN Slice + 1 ELSE WaitBound) = Slice + 1
    BY <1>3
  <2>1. timer <= (Slice + 1) - waited
    BY <1>3, <2>0 DEF Soon, Within
  <2> QED
    BY <1>1, <2>1
<1> QED
  BY <1>2, <1>3

(* The running thread's own steps: the idle thread's sleep ends in time,   *)
(* a thread on its way to the switch goes on.                              *)
LEMMA OwnStepEnds ==
  ASSUME KernelTypes, WhoMayRun, PrioInScope, WaitsOnlyReady, ChoiceUrgent, WaitEnds, waited > 0,
         Scoped \subseteq {Watched}, NEW t \in All, KernelStep(t) \/ AppStep(t),
         KernelTypes'
  PROVE  Calm' \/ Soon'
<1>0. IdleReady /\ ChoiceReady /\ PreselReady
  BY DEF WhoMayRun
<1>1. /\ isr = "none" /\ current = t /\ isr' # "commit" /\ current' = t /\ waited' = waited
      /\ \A u \in All : u # t => pc'[u] = pc[u] /\ prio'[u] = prio[u]
      /\ YieldStep(t) => prio' = prio
  BY <1>0, OwnStep
<1>2. /\ t # Watched /\ prio'[Watched] = prio[Watched] /\ Ready(Watched) /\ Watched \in All
  BY <1>1, KernelAssumption DEF WaitsOnlyReady, All
<1>3. /\ pc \in [All -> Places] /\ presel \in Pick /\ NoThread \notin All /\ Idle \in All
      /\ choice \in [All -> Pick]
  BY Constant DEF KernelTypes, TypeOK
<1>t. /\ timeToTry \in Int /\ timer \in Int /\ napUntil \in Int /\ waited \in Int
      /\ timeToTry' \in Int /\ timer' \in Int /\ napUntil' \in Int
      /\ Past = -1 /\ Slice \in Nat /\ WaitBound \in Int
  <2>1. timeToTry \in Past..Slice /\ timer \in 0..EndOfTime /\ napUntil \in Past..EndOfTime
        /\ waited \in 0..WaitBound + 1
    BY DEF KernelTypes, TypeOK
  <2>2. timeToTry' \in Past..Slice /\ timer' \in 0..EndOfTime /\ napUntil' \in Past..EndOfTime
    BY DEF KernelTypes, TypeOK
  <2> QED
    BY <2>1, <2>2, Constant
<1>4. Calm \/ Soon
  BY <1>1 DEF WaitEnds, Decided
<1>5. Outdated' => Outdated
  <2>1. CASE presel' = presel
    <3>1. presel.thread # NoThread => presel.thread \in All /\ presel.thread # t
      BY <1>0, <1>1, <1>3 DEF PreselReady, Pick
    <3> QED
      BY <1>1, <1>2, <2>1, <3>1 DEF Outdated, Urgent
  <2>2. CASE YieldSwitch(t) /\ t \notin stale
    <3>1. presel' = choice[t] /\ prio' = prio /\ pc[t] = "lock"
      BY <1>1, <2>2 DEF YieldSwitch, YieldStep, Executes
    <3>2. Urgent(choice[t].thread)
      BY <2>2, <3>1 DEF ChoiceUrgent
    <3> QED
      BY <3>1, <3>2 DEF Outdated, Urgent
  <2>3. presel' = presel \/ (YieldSwitch(t) /\ t \notin stale)
    BY DEF KernelStep, AppStep, YieldStep, SetSuspendedUntil, EndOfSuspendScope, LeaveScope, ResumeEnd,
       YieldReset, YieldCount, YieldFind, YieldCheck, YieldSwitch, CallYield, IdleNap, IdleWakeUp,
       SuspendCallerUntil, EnterScope, ResumeBegin, ActivateEvent, OverflowStack, yieldVars
  <2> QED
    BY <2>1, <2>2, <2>3
<1>6. ~Outdated' \/ waited' <= Slice + 1
  BY <1>1, <1>4, <1>5, OutdatedEarly
<1>c. ASSUME BasePrio[t] >= prio[Watched] \/ Heading' PROVE Calm'
  BY <1>1, <1>2, <1>6, <1>c DEF Calm
<1> DEFINE n == (IF Outdated THEN Slice + 1 ELSE WaitBound) - waited
<1>n. n \in Int
  BY <1>t
<1>s. ASSUME timer' <= n, timeToTry' > 0 => timeToTry' + 1 <= n, napUntil' <= n PROVE Soon'
  <2> DEFINE m == (IF Outdated' THEN Slice + 1 ELSE WaitBound) - waited
  <2>1. m \in Int /\ n <= m
    <3>1. Slice + 1 <= WaitBound
      BY <1>t DEF WaitBound
    <3> QED
      BY <1>t, <1>5, <3>1
  <2>2. Soon' = (/\ timer' <= m /\ (timeToTry' > 0 => timeToTry' + 1 <= m) /\ napUntil' <= m)
    BY <1>1 DEF Soon, Within
  <2>3. \A x \in Int : (x <= n => x <= m) /\ (x + 1 <= n => x + 1 <= m)
    BY <1>n, <2>1
  <2> HIDE DEF n, m
  <2> QED
    BY <1>t, <1>s, <2>2, <2>3
<1>w. ASSUME Soon PROVE timer <= n /\ (timeToTry > 0 => timeToTry + 1 <= n) /\ napUntil <= n
  BY <1>w DEF Soon, Within
<1>k. ASSUME Soon, timeToTry' \in {timeToTry, Past}, UNCHANGED <<timer, napUntil>> PROVE Soon'
  <2>1. Past + 1 <= 0 /\ ~(Past > 0)
    BY <1>t
  <2> QED
    BY <1>s, <1>w, <1>k, <2>1
<1> HIDE DEF n
<1>7. CASE BasePrio[t] >= prio[Watched]
  BY <1>7, <1>c
<1>8. CASE Heading \/ Soon
  <2>1. CASE SuspendCallerUntil(t) \/ SetSuspendedUntil(t) \/ EndOfSuspendScope(t) \/ CallYield(t)
    <3>1. \E to \in {"ceiled", "set", "yield"} : Goto(t, to)
      BY <2>1 DEF SuspendCallerUntil, SetSuspendedUntil, EndOfSuspendScope, CallYield
    <3>2. pc'[t] \in {"ceiled", "set", "yield"}
      BY <1>3, <3>1 DEF Goto
    <3> QED
      BY <1>1, <1>c, <3>2 DEF Heading
  <2>2. CASE YieldReset(t)
    <3>1. Goto(t, "count") /\ timeToTry' = Past
      BY <2>2 DEF YieldReset
    <3>2. pc'[t] = "count" /\ timeToTry' <= 0
      BY <1>3, <1>t, <3>1 DEF Goto
    <3> QED
      BY <1>1, <1>c, <3>2 DEF Heading
  <2>3. CASE IdleWakeUp /\ t = Idle
    <3>1. pc'[Idle] = "run"
      BY <1>3, <2>3 DEF IdleWakeUp, Goto
    <3> QED
      BY <1>1, <1>c, <2>3, <3>1 DEF Heading
  <2>4. CASE IdleNap /\ t = Idle
    <3>1. pc[t] = "nap" /\ timeToTry' = timeToTry
      BY <2>4 DEF IdleNap, Executes
    <3>2. Soon
      BY <1>1, <1>8, <3>1 DEF Heading, InYield
    <3>3. CASE UNCHANGED <<timer, napUntil>>
      BY <1>k, <3>1, <3>2, <3>3
    <3>4. CASE timeToTry > 0 /\ timer' <= timeToTry /\ napUntil' <= timeToTry
      BY <1>n, <1>s, <1>t, <1>w, <3>1, <3>2, <3>4
    <3> QED
      BY <2>4, <3>3, <3>4, NapSoon
  <2>5. CASE YieldCount(t) \/ YieldFind(t) \/ YieldCheck(t) \/ YieldSwitch(t)
    <3>1. UNCHANGED <<timeToTry, timer, napUntil>>
      BY <2>5 DEF YieldCount, YieldFind, YieldCheck, YieldSwitch, schedVars, appVars
    <3>2. CASE Soon
      BY <1>k, <3>1, <3>2
    <3>3. CASE Heading
      <4>1. pc[t] \in {"count", "find", "check", "lock"}
        BY <2>5 DEF YieldCount, YieldFind, YieldCheck, YieldSwitch, Executes
      <4>2. timeToTry' <= 0 /\ (pc[t] \in InYield => t \notin stale)
        BY <1>1, <3>1, <3>3, <4>1 DEF Heading, InYield
      <4>3. CASE YieldCount(t)
        <5>1. t \notin stale' /\ pc'[t] = "find"
          BY <1>3, <4>3 DEF YieldCount, Goto
        <5> QED
          BY <1>1, <1>c, <4>2, <5>1 DEF Heading, InYield
      <4>4. CASE YieldFind(t)
        <5>1. stale' = stale /\ pc[t] = "find" /\ pc'[t] = "check"
          BY <1>3, <4>4 DEF YieldFind, Goto, Executes
        <5> QED
          BY <1>1, <1>c, <4>2, <5>1 DEF Heading, InYield
      <4>5. CASE YieldCheck(t)
        <5>1. stale' = stale /\ pc[t] = "check" /\ t \notin stale
          BY <4>2, <4>5 DEF YieldCheck, Executes, InYield
        <5>2. CASE choice[t].thread = t
          <6>1. prio[t] >= prio[Watched]
            BY <5>1, <5>2 DEF ChoiceUrgent, Urgent
          <6>2. prio[t] = BasePrio[t]
            BY <5>1 DEF PrioInScope
          <6> QED
            BY <1>c, <6>1, <6>2
        <5>3. CASE choice[t].thread # t
          <6>1. pc'[t] = "lock"
            BY <1>3, <4>5, <5>1, <5>3 DEF YieldCheck, Goto
          <6> QED
            BY <1>1, <1>c, <4>2, <5>1, <6>1 DEF Heading, InYield
        <5> QED
          BY <5>2, <5>3
      <4>6. CASE YieldSwitch(t)
        <5>1. isr' = "wrapper"
          BY <4>6 DEF YieldSwitch
        <5> QED
          BY <1>c, <4>2, <5>1 DEF Heading
      <4> QED
        BY <2>5, <4>3, <4>4, <4>5, <4>6
    <3> QED
      BY <1>8, <3>2, <3>3
  <2>6. CASE EnterScope(t) \/ LeaveScope(t)
    <3>1. t = Watched
      BY <2>6 DEF EnterScope, LeaveScope, Executes, PrioInScope
    <3> QED
      BY <1>2, <3>1
  <2>7. CASE ResumeBegin(t) \/ ResumeEnd(t) \/ ActivateEvent(t) \/ OverflowStack(t)
    <3>1. timeToTry' \in {timeToTry, Past} /\ UNCHANGED <<timer, napUntil>>
      BY <2>7 DEF ResumeBegin, ResumeEnd, ActivateEvent, OverflowStack, schedVars, appVars
    <3>2. t # Idle /\ pc[t] \in {"run", "resume"}
      BY <1>0, <2>7, KernelAssumption
      DEF ResumeBegin, ResumeEnd, ActivateEvent, OverflowStack, Executes, IdleReady, InYield
    <3>3. Soon
      BY <1>1, <1>8, <3>2 DEF Heading, InYield
    <3> QED
      BY <1>k, <3>1, <3>3
  <2> QED
    BY <2>1, <2>2, <2>3, <2>4, <2>5, <2>6, <2>7 DEF KernelStep, AppStep, YieldStep
<1> QED
  BY <1>1, <1>4, <1>7, <1>8 DEF Calm

(* Interrupts that keep the CPU with the running thread.                   *)
LEMMA InterruptEnds ==
  ASSUME KernelTypes, WaitEnds, waited > 0,
         \/ SysTick \/ WrapperTooEarly \/ WrapperPropagate \/ \E u \in Interrupted : InterruptResume(u)
  PROVE  Calm' \/ Soon' \/ Decided'
<1>1. UNCHANGED <<current, prio, presel, stale, pc, napUntil, picked, waited>>
  BY DEF SysTick, WrapperTooEarly, WrapperPropagate, InterruptResume, Activate, schedVars, yieldVars, appVars
<1>2. Outdated' = Outdated
  BY <1>1 DEF Outdated, Urgent
<1>3. /\ timeToTry \in Past..Slice /\ timer \in 0..EndOfTime /\ event \in Past..EndOfTime
      /\ Past = -1 /\ waited \in Int /\ Slice \in Nat /\ EndOfTime \in Nat /\ WaitBound \in Nat
  BY Constant DEF KernelTypes, TypeOK
<1>4. (\E u \in Interrupted : InterruptResume(u)) => isr' = isr /\ timer' = timer /\ timeToTry' = Past
  BY DEF InterruptResume, schedVars
<1>5. CASE Decided
  <2>1. isr = "commit"
    BY <1>5 DEF Decided
  <2>2. \E u \in Interrupted : InterruptResume(u)
    BY <2>1 DEF SysTick, WrapperTooEarly, WrapperPropagate
  <2> QED
    BY <1>1, <1>4, <1>5, <2>2 DEF Decided, Urgent
<1>6. CASE Calm \/ Soon
  <2>0. isr # "commit" /\ (~Outdated' \/ waited' <= Slice + 1)
    BY <1>1, <1>2, <1>6, OutdatedEarly DEF Calm, Soon
  <2>1. isr' # "commit"
    BY <1>4, <2>0 DEF SysTick, WrapperTooEarly, WrapperPropagate, Activate, schedVars
  <2>c. ASSUME BasePrio[current] >= prio[Watched] \/ Heading' PROVE Calm'
    BY <1>1, <2>0, <2>1, <2>c DEF Calm
  <2> DEFINE n == (IF Outdated THEN Slice + 1 ELSE WaitBound) - waited
  <2>s. ASSUME timer' <= n, timeToTry' > 0 => timeToTry' + 1 <= n, napUntil <= n PROVE Soon'
    BY <1>1, <1>2, <2>1, <2>s DEF Soon, Within
  <2>w. ASSUME Soon PROVE timer <= n /\ (timeToTry > 0 => timeToTry + 1 <= n) /\ napUntil <= n
    BY <2>w DEF Soon, Within
  <2>n. n \in Int
    BY <1>3
  <2> HIDE DEF n
  <2>b. CASE BasePrio[current] >= prio[Watched]
    BY <2>b, <2>c
  <2>2. CASE SysTick
    <3>1. isr = "none" /\ UNCHANGED <<timer, timeToTry>>
      BY <2>2 DEF SysTick
    <3>2. CASE Heading
      BY <1>1, <2>c, <3>1, <3>2 DEF Heading
    <3>3. CASE Soon
      BY <2>s, <2>w, <3>1, <3>3
    <3> QED
      BY <1>6, <2>b, <3>2, <3>3 DEF Calm
  <2>3. CASE WrapperTooEarly
    <3>1. timeToTry > 0 /\ timer' = TriggerIn(timeToTry, event) /\ timeToTry' = timeToTry
      BY <2>3 DEF WrapperTooEarly
    <3>2. CASE Heading
      <4>1. pc[current] \in {"ceiled", "set", "yield"} \/ (current = Idle /\ pc[Idle] = "run")
        BY <1>3, <3>1, <3>2 DEF Heading
      <4> QED
        BY <1>1, <2>c, <4>1 DEF Heading
    <3>3. CASE Soon
      <4>1. TriggerIn(timeToTry, event) <= timeToTry + 1 /\ timeToTry + 1 <= n
        BY <1>3, <2>w, <3>1, <3>3, TriggerSoon
      <4>2. TriggerIn(timeToTry, event) \in Int
        BY <1>3 DEF TriggerIn, Max2, Min2
      <4>3. TriggerIn(timeToTry, event) <= n
        BY <1>3, <2>n, <4>1, <4>2
      <4> QED
        BY <2>s, <2>w, <3>1, <3>3, <4>1, <4>3
    <3> QED
      BY <1>6, <2>b, <3>2, <3>3 DEF Calm
  <2>4. CASE WrapperPropagate
    <3>1. isr' = "wrapper" /\ timeToTry' <= 0
      BY <1>3, <2>4 DEF WrapperPropagate, schedVars
    <3> QED
      BY <2>c, <3>1 DEF Heading
  <2>5. CASE \E u \in Interrupted : InterruptResume(u)
    <3>1. isr' = isr /\ timer' = timer /\ timeToTry' <= 0 /\ ~(timeToTry' > 0)
      BY <1>3, <1>4, <2>5
    <3>2. CASE Heading
      BY <1>1, <2>c, <3>1, <3>2 DEF Heading
    <3>3. CASE Soon
      BY <2>s, <2>w, <3>1, <3>3
    <3> QED
      BY <1>6, <2>b, <3>2, <3>3 DEF Calm
  <2> QED
    BY <2>2, <2>3, <2>4, <2>5
<1> QED
  BY <1>5, <1>6 DEF WaitEnds

(* Scheduler::schedule selects an urgent thread or uses up a preselection  *)
(* that is outdated.                                                       *)
LEMMA SelectEnds ==
  ASSUME KernelTypes, IdleReady, WaitsOnlyReady, WaitEnds, waited > 0, ScheduleSelect
  PROVE  Decided'
<1>1. /\ picked' = (IF presel.thread = NoThread THEN FindNextToRun ELSE presel)
      /\ isr = "wrapper" /\ isr' = "commit" /\ UNCHANGED <<prio, waited>>
  BY DEF ScheduleSelect, appVars
<1>2. CASE presel.thread = NoThread
  <2>1. Ready(Watched) /\ Watched \in All
    BY KernelAssumption DEF WaitsOnlyReady, All
  <2>2. Urgent(FindNextToRun.thread)
    BY <2>1, FoundForemost DEF Urgent
  <2> QED
    BY <1>1, <1>2, <2>2 DEF Decided, Urgent
<1>3. CASE presel.thread # NoThread
  <2>1. ~Outdated \/ waited <= Slice + 1
    BY <1>1, OutdatedEarly DEF WaitEnds, Decided
  <2>2. Urgent(presel.thread) \/ waited <= Slice + 1
    BY <1>3, <2>1 DEF Outdated
  <2> QED
    BY <1>1, <1>3, <2>2 DEF Decided, Urgent
<1> QED
  BY <1>2, <1>3

(* The selected thread is activated: it is urgent or about to leave, or    *)
(* the next scheduling is a time slice away.                               *)
LEMMA CommitEnds ==
  ASSUME KernelTypes, WhoMayRun, PrioInScope, WithinSlice', WaitEnds, waited > 0, waited' > 0,
         ScheduleCommit, KernelTypes'
  PROVE  Calm' \/ Soon'
<1>1. /\ isr = "commit" /\ isr' = "none" /\ current' = NextRunner /\ UNCHANGED <<prio, pc, presel>>
      /\ waited' = (IF Watched = NextRunner \/ picked.thread \in badStack THEN 0 ELSE waited)
  BY DEF ScheduleCommit, Activate
<1>2. current' = picked.thread /\ picked.thread # Watched /\ waited' = waited
  BY <1>1 DEF NextRunner
<1>3. picked.thread \in All /\ presel.thread = NoThread
  BY <1>1 DEF WhoMayRun, PickedReady, PreselReady
<1>4. ~Outdated'
  BY <1>1, <1>3 DEF Outdated
<1>5. CASE Urgent(picked.thread)
  <2>1. BasePrio[picked.thread] >= prio[Watched] \/ pc[picked.thread] \in {"ceiled", "set"}
    BY <1>2, <1>3, <1>5 DEF Urgent, PrioInScope
  <2>2. BasePrio[current'] >= prio'[Watched] \/ Heading'
    BY <1>1, <1>2, <2>1 DEF Heading
  <2> QED
    BY <1>1, <1>4, <2>2 DEF Calm
<1>6. CASE waited <= Slice + 1
  <2>1. /\ waited \in Int /\ Slice \in Nat /\ WaitBound = 2 * (Slice + 1)
        /\ Slice + 1 <= WaitBound - waited
    <3>1. waited \in Int /\ Slice \in Nat /\ WaitBound = 2 * (Slice + 1)
      BY Constant DEF KernelTypes, TypeOK, WaitBound
    <3> QED
      BY <1>6, <3>1
  <2>2. timer' \in Int /\ timeToTry' \in Int /\ napUntil' \in Int /\ WaitBound - waited \in Int
    <3>1. timer' \in 0..EndOfTime /\ timeToTry' \in Past..Slice /\ napUntil' \in Past..EndOfTime
      BY DEF KernelTypes, TypeOK
    <3> QED
      BY <2>1, <3>1, Constant
  <2>3. timer' <= Slice + 1 /\ (timeToTry' > 0 => timeToTry' + 1 <= Slice + 1) /\ napUntil' <= Slice + 1
    BY DEF WithinSlice, Within
  <2>4. \A x \in Int : x <= Slice + 1 => x <= WaitBound - waited
    BY <2>1
  <2>5. Soon' = (/\ timer' <= WaitBound - waited /\ napUntil' <= WaitBound - waited
                 /\ timeToTry' > 0 => timeToTry' + 1 <= WaitBound - waited)
    BY <1>1, <1>2, <1>4 DEF Soon, Within
  <2>6. timeToTry' + 1 \in Int
    BY <2>2
  <2> QED
    BY <2>2, <2>3, <2>4, <2>5, <2>6
<1> QED
  BY <1>1, <1>5, <1>6 DEF WaitEnds, Decided, Calm, Soon

(* A tick in which somebody waits brings the scheduler's run a tick        *)
(* nearer.                                                                 *)
LEMMA TickEnds ==
  ASSUME KernelTypes, WhoMayRun, PrioInScope, WaitsOnlyReady, WithinSlice, WaitEnds, waited' > 0, Tick
  PROVE  Soon' /\ waited' <= WaitBound
<1>1. /\ isr = "none" /\ timer > 0 /\ pc[current] \in {"run", "scope", "sleep"}
      /\ current = Idle /\ pc[Idle] = "run" => \A t \in Threads : ~Ready(t)
      /\ timeToTry' = Aged(timeToTry) /\ timer' = timer - 1 /\ napUntil' = Aged(napUntil)
      /\ presel' = AgedPick(presel)
      /\ waited' = (IF Overdue THEN Min2(waited + 1, WaitBound + 1) ELSE 0)
      /\ UNCHANGED <<prio, isr>>
  BY DEF Tick
<1>2. /\ timeToTry \in Past..Slice /\ timer \in 0..EndOfTime /\ napUntil \in Past..EndOfTime
      /\ presel \in Pick /\ waited \in 0..WaitBound + 1
      /\ prio \in [All -> 0..Ceiling] /\ current \in All
  BY DEF KernelTypes, TypeOK
<1>3. Overdue /\ waited' = Min2(waited + 1, WaitBound + 1)
  BY <1>1
<1>4. Outdated' = Outdated
  <2>1. presel'.thread = presel.thread
    BY <1>1, <1>2, AgedTypes
  <2> QED
    BY <1>1, <2>1 DEF Outdated, Urgent
<1> DEFINE n == (IF Outdated THEN Slice + 1 ELSE WaitBound) - waited
<1>5. n \in Int /\ Slice + 1 <= WaitBound /\ WaitBound \in Nat /\ Slice \in Nat
  <2>1. Slice + 1 <= WaitBound
    BY Constant DEF WaitBound
  <2> QED
    BY <1>2, <2>1, Constant
<1>6. timer <= n /\ (timeToTry > 0 => timeToTry + 1 <= n) /\ napUntil <= n
  <2>1. CASE waited = 0
    <3>1. timer <= Slice + 1 /\ (timeToTry > 0 => timeToTry + 1 <= Slice + 1) /\ napUntil <= Slice + 1
      BY DEF WithinSlice, Within
    <3>2. Slice + 1 <= n
      BY <1>5, <2>1
    <3> HIDE DEF n
    <3> QED
      BY <1>2, <1>5, <3>1, <3>2, Constant
  <2>2. CASE waited # 0
    <3>1. Calm \/ Soon
      BY <1>1, <1>2, <2>2, Constant DEF WaitEnds, Decided
    <3>2. CASE Soon
      BY <3>2 DEF Soon, Within
    <3>3. CASE Calm
      <4>1. Ready(Watched) /\ current # Watched /\ Watched \in Threads
        BY <1>2, <2>2, Constant, KernelAssumption DEF WaitsOnlyReady
      <4>2. ~Heading
        BY <1>1, <4>1 DEF Heading, InYield
      <4>3. pc[current] # "scope"
        BY <1>2, <4>1 DEF PrioInScope
      <4>4. prio[current] = BasePrio[current]
        BY <1>1, <1>2, <4>3 DEF PrioInScope
      <4>5. BasePrio[current] >= prio[Watched]
        BY <3>3, <4>2 DEF Calm
      <4>6. ~(prio[Watched] > prio[current])
        <5>1. Watched \in All
          BY <4>1 DEF All
        <5> QED
          BY <1>2, <4>4, <4>5, <5>1, Constant
      <4> QED
        BY <1>3, <4>6 DEF Overdue
    <3> QED
      BY <3>1, <3>2, <3>3
  <2> QED
    BY <2>1, <2>2
<1>7. waited + 1 <= WaitBound
  <2>1. n <= WaitBound - waited
    BY <1>2, <1>5
  <2> HIDE DEF n
  <2> QED
    BY <1>1, <1>2, <1>5, <1>6, <2>1
<1>8. waited' = waited + 1
  BY <1>2, <1>3, <1>5, <1>7 DEF Min2
<1>9. napUntil <= Slice
  BY DEF WithinSlice
<1>10. Soon' = (/\ timer' <= n - 1 /\ (timeToTry' > 0 => timeToTry' + 1 <= n - 1) /\ napUntil' <= n - 1)
  <2>1. (IF Outdated THEN Slice + 1 ELSE WaitBound) - (waited + 1) = n - 1
    BY <1>2, <1>5
  <2> QED
    BY <1>1, <1>4, <1>8, <2>1 DEF Soon, Within
<1> HIDE DEF n
<1>11. Aged(napUntil) <= n - 1 /\ timer - 1 <= n - 1
  BY <1>1, <1>2, <1>5, <1>6, <1>9, Constant DEF Aged
<1>12. Aged(timeToTry) > 0 => Aged(timeToTry) + 1 <= n - 1
  BY <1>2, <1>5, <1>6, Constant DEF Aged
<1> QED
  BY <1>1, <1>7, <1>8, <1>10, <1>11, <1>12

(* The invariant that bounds the wait holds from the start.                *)
LEMMA WaitHolds == ASSUME Scoped \subseteq {Watched} PROVE Spec => []WaitInvariant
<1>1. Init => WaitInvariant
  <2> SUFFICES ASSUME Init PROVE WaitInvariant
    OBVIOUS
  <2>1. PrioInScope
    BY DEF Init, PrioInScope
  <2>2. waited = 0 /\ timer = 2 /\ timeToTry = -1 /\ napUntil = -1
    BY Constant DEF Init
  <2>3. WithinSlice /\ UrgentWaitBounded
    BY <2>2, Constant DEF WithinSlice, Within, UrgentWaitBounded
  <2> QED
    BY <2>1, <2>2, <2>3 DEF WaitInvariant, WaitsOnlyReady, ChoiceUrgent, WaitEnds
<1>2. KernelInvariant /\ KernelInvariant' /\ WaitInvariant /\ [Next]_vars => WaitInvariant'
  <2> SUFFICES ASSUME KernelInvariant, KernelInvariant', WaitInvariant, [Next]_vars PROVE WaitInvariant'
    OBVIOUS
  <2>1. KernelTypes /\ KernelTypes' /\ WhoMayRun /\ IdleReady /\ PickedReady
    BY DEF KernelInvariant, WhoMayRun
  <2>2. PrioInScope /\ WaitsOnlyReady /\ ChoiceUrgent /\ WithinSlice /\ WaitEnds /\ UrgentWaitBounded
    BY DEF WaitInvariant
  <2>3. PrioInScope' /\ WaitsOnlyReady' /\ ChoiceUrgent' /\ WithinSlice'
    BY <2>1, <2>2, PrioStep, WaitsReadyStep, ChoiceStep, WithinStep
  <2>4. waited \in Nat /\ waited' \in Nat /\ waited <= WaitBound /\ WaitBound \in Nat
    <3>1. waited \in 0..WaitBound + 1 /\ waited' \in 0..WaitBound + 1
      BY <2>1 DEF KernelTypes, TypeOK
    <3> QED
      BY <2>2, <3>1, Constant DEF UrgentWaitBounded
  <2> SUFFICES waited' <= WaitBound /\ (waited' > 0 => Calm' \/ Soon' \/ Decided')
    BY <2>3 DEF WaitInvariant, WaitEnds, UrgentWaitBounded
  <2>5. CASE waited' = 0
    BY <2>4, <2>5
  <2>6. CASE waited' > 0
    <3>1. CASE Tick
      BY <2>1, <2>2, <2>6, <3>1, TickEnds
    <3>2. ASSUME NEW t \in All, KernelStep(t) \/ AppStep(t)
          PROVE  waited' = waited /\ (Calm' \/ Soon' \/ Decided')
      <4>1. waited' = waited
        BY <2>1, <2>2, <3>2, OwnStep
      <4> QED
        BY <2>1, <2>2, <2>6, <3>2, <4>1, OwnStepEnds
    <3>3. ASSUME SysTick \/ WrapperTooEarly \/ WrapperPropagate \/ \E u \in Interrupted : InterruptResume(u)
          PROVE  waited' = waited /\ (Calm' \/ Soon' \/ Decided')
      <4>1. waited' = waited
        BY <3>3 DEF SysTick, WrapperTooEarly, WrapperPropagate, InterruptResume, appVars
      <4> QED
        BY <2>1, <2>2, <2>6, <3>3, <4>1, InterruptEnds
    <3>4. ASSUME ScheduleSelect PROVE waited' = waited /\ (Calm' \/ Soon' \/ Decided')
      <4>1. waited' = waited
        BY <3>4 DEF ScheduleSelect, appVars
      <4> QED
        BY <2>1, <2>2, <2>6, <3>4, <4>1, SelectEnds
    <3>5. ASSUME ScheduleCommit PROVE waited' = waited /\ (Calm' \/ Soon' \/ Decided')
      <4>1. waited' = waited
        BY <2>6, <3>5 DEF ScheduleCommit
      <4> QED
        BY <2>1, <2>2, <2>3, <2>6, <3>5, <4>1, CommitEnds
    <3>6. ASSUME UNCHANGED vars PROVE waited' = waited /\ (Calm' \/ Soon' \/ Decided')
      <4>1. waited' = waited
        BY <3>6 DEF vars
      <4>2. (Calm \/ Soon \/ Decided) => (Calm' \/ Soon' \/ Decided')
        BY <3>6 DEF vars, Calm, Soon, Decided, Outdated, Urgent, Heading, Within
      <4> QED
        BY <2>2, <2>6, <4>1, <4>2 DEF WaitEnds
    <3> QED
      BY <2>4, <3>1, <3>2, <3>3, <3>4, <3>5, <3>6 DEF Next, SchedulerStep
  <2> QED
    BY <2>4, <2>5, <2>6
<1> QED
  BY <1>1, <1>2, KernelHolds, PTL DEF Spec

(* A ready thread waits for less urgent ones for two time slices and two   *)
(* ticks at most, whatever is resumed, interrupted or put off meanwhile    *)
(* and however many threads there are, if no other thread enters a         *)
(* PRIORITY_CEILER_IN_SCOPE.                                               *)
THEOREM UrgentWaitIsBounded ==
  ASSUME Scoped \subseteq {Watched} PROVE Spec => []UrgentWaitBounded
<1>1. WaitInvariant => UrgentWaitBounded
  BY DEF WaitInvariant
<1> QED
  BY <1>1, WaitHolds, PTL
=============================================================================
