-------------------------- MODULE Selection_proofs ---------------------------
(***************************************************************************)
(* For every list of threads, all priorities and times and every moment at  *)
(* which interrupts resume threads: what findNextToRun returns.             *)
(***************************************************************************)
EXTENDS Selection, TLAPS

(* Being at most as urgent is kept when a more urgent thread is selected.  *)
LEMMA UrgencyTransitive ==
  ASSUME TypeOK, NEW t \in All, NEW u \in All, NEW v \in All,
         ~MoreUrgent(t, u), MoreUrgent(v, u)
  PROVE  ~MoreUrgent(t, v) /\ priority[v] >= priority[u]
<1>1. \A x \in All : priority[x] \in Nat /\ lastActivation[x] \in Nat
  BY SelectionAssumption DEF TypeOK
<1> QED
  BY <1>1 DEF MoreUrgent

(* The walk begins with nothing visited and the idle thread selected.      *)
LEMMA InitWalk == Init => WalkInvariant
<1> SUFFICES ASSUME Init PROVE WalkInvariant
  OBVIOUS
<1>1. TypeOK
  BY SelectionAssumption DEF Init, TypeOK, All
<1>2. SelectedIsReady
  BY DEF Init, SelectedIsReady
<1>3. VisitedSettled
  BY DEF Init, VisitedSettled
<1>4. OnlyResumed
  BY DEF Init, OnlyResumed
<1> QED
  BY <1>1, <1>2, <1>3, <1>4 DEF WalkInvariant

(* The position points into the list during the walk.                      *)
LEMMA IterInList ==
  ASSUME TypeOK, pos <= Len(List)
  PROVE  pos \in 1..Len(List) /\ Iter \in All /\ Len(List) \in Nat
<1>1. Len(List) \in Nat /\ \A k \in 1..Len(List) : List[k] \in All
  BY SelectionAssumption
<1>2. pos \in 1..Len(List)
  BY <1>1 DEF TypeOK
<1> QED
  BY <1>1, <1>2 DEF Iter

(* A ready thread is compared with the one selected so far.                *)
LEMMA ReadyStep == WalkInvariant /\ VisitReady => WalkInvariant'
<1> SUFFICES ASSUME WalkInvariant, VisitReady PROVE WalkInvariant'
  OBVIOUS
<1>1. TypeOK /\ pos \in 1..Len(List) /\ Iter \in All /\ Len(List) \in Nat
  BY IterInList DEF WalkInvariant, VisitReady
<1>2. TypeOK'
  BY <1>1 DEF TypeOK, VisitReady
<1>3. SelectedIsReady'
  BY DEF WalkInvariant, SelectedIsReady, VisitReady
<1>4. OnlyResumed'
  BY DEF WalkInvariant, OnlyResumed, VisitReady
<1>5. /\ next' = next \/ (next' = Iter /\ MoreUrgent(Iter, next))
      /\ ~MoreUrgent(Iter, next')
  BY <1>1 DEF VisitReady, MoreUrgent, TypeOK
<1>6. VisitedSettled'
  <2> SUFFICES ASSUME NEW k \in 1..Len(List), k < pos'
      PROVE  /\ initially[List[k]] < timeNow => ~MoreUrgent(List[k], next')
             /\ suspendedUntil[List[k]] >= timeNow /\ priority[List[k]] >= priority[next']
                  => earliest <= suspendedUntil[List[k]]
    BY DEF VisitedSettled, VisitReady, MoreUrgent
  <2>1. List[k] \in All
    BY SelectionAssumption
  <2>2. CASE k = pos
    BY <1>1, <1>5, <2>2 DEF VisitReady, Iter, TypeOK
  <2>3. CASE k < pos
    <3>1. /\ initially[List[k]] < timeNow => ~MoreUrgent(List[k], next)
          /\ suspendedUntil[List[k]] >= timeNow /\ priority[List[k]] >= priority[next]
               => earliest <= suspendedUntil[List[k]]
      BY <2>3 DEF WalkInvariant, VisitedSettled
    <3>2. CASE next' = next
      BY <3>1, <3>2
    <3>3. CASE next' = Iter /\ MoreUrgent(Iter, next)
      <4>1. next \in All /\ priority[Iter] >= priority[next]
        BY <1>1, <3>3 DEF TypeOK, MoreUrgent
      <4>2. initially[List[k]] < timeNow => ~MoreUrgent(List[k], Iter)
        BY <1>1, <2>1, <3>1, <3>3, <4>1, UrgencyTransitive
      <4>3. priority[List[k]] >= priority[Iter] => priority[List[k]] >= priority[next]
        <5>1. priority[List[k]] \in Int /\ priority[Iter] \in Int /\ priority[next] \in Int
          BY <1>1, <2>1, <4>1 DEF TypeOK
        <5> QED
          BY <4>1, <5>1
      <4> QED
        BY <3>1, <3>3, <4>2, <4>3
    <3> QED
      BY <1>5, <3>2, <3>3
  <2> QED
    BY <1>1, <2>2, <2>3 DEF VisitReady
<1> QED
  BY <1>2, <1>3, <1>4, <1>6 DEF WalkInvariant

(* The time of a suspended thread is collected.                            *)
LEMMA SuspendedStep == WalkInvariant /\ VisitSuspended => WalkInvariant'
<1> SUFFICES ASSUME WalkInvariant, VisitSuspended PROVE WalkInvariant'
  OBVIOUS
<1>1. TypeOK /\ pos \in 1..Len(List) /\ Iter \in All /\ Len(List) \in Nat
  BY IterInList DEF WalkInvariant, VisitSuspended
<1>2. TypeOK'
  BY <1>1 DEF TypeOK, VisitSuspended
<1>3. SelectedIsReady'
  BY DEF WalkInvariant, SelectedIsReady, VisitSuspended
<1>4. OnlyResumed'
  BY DEF WalkInvariant, OnlyResumed, VisitSuspended
<1>5. earliest' <= earliest
  BY <1>1 DEF VisitSuspended, TypeOK
<1>6. initially[Iter] >= timeNow
  <2>1. suspendedUntil[Iter] >= timeNow /\ timeNow \in Nat /\ timeNow > 0
    BY <1>1, SelectionAssumption DEF VisitSuspended, TypeOK
  <2>2. suspendedUntil[Iter] = initially[Iter] \/ suspendedUntil[Iter] = 0
    BY <1>1 DEF WalkInvariant, OnlyResumed
  <2> QED
    BY <2>1, <2>2
<1>7. VisitedSettled'
  <2> SUFFICES ASSUME NEW k \in 1..Len(List), k < pos'
      PROVE  /\ initially[List[k]] < timeNow => ~MoreUrgent(List[k], next)
             /\ suspendedUntil[List[k]] >= timeNow /\ priority[List[k]] >= priority[next]
                  => earliest' <= suspendedUntil[List[k]]
    BY DEF VisitedSettled, VisitSuspended, MoreUrgent
  <2>1. List[k] \in All
    BY SelectionAssumption
  <2>2. CASE k = pos
    BY <1>1, <1>6, <2>2 DEF VisitSuspended, Iter, TypeOK
  <2>3. CASE k < pos
    <3>1. /\ initially[List[k]] < timeNow => ~MoreUrgent(List[k], next)
          /\ suspendedUntil[List[k]] >= timeNow /\ priority[List[k]] >= priority[next]
               => earliest <= suspendedUntil[List[k]]
      BY <2>3 DEF WalkInvariant, VisitedSettled
    <3>2. earliest \in Int /\ earliest' \in Int /\ suspendedUntil[List[k]] \in Int
      <4>1. earliest \in 0..EndOfTime /\ suspendedUntil \in [All -> 0..EndOfTime]
        BY <1>1 DEF TypeOK
      <4>2. earliest' \in 0..EndOfTime
        BY <1>2 DEF TypeOK
      <4> QED
        BY <2>1, <4>1, <4>2, SelectionAssumption
    <3> QED
      BY <1>5, <3>1, <3>2
  <2> QED
    BY <1>1, <2>2, <2>3 DEF VisitSuspended
<1> QED
  BY <1>2, <1>3, <1>4, <1>7 DEF WalkInvariant

(* An interrupt resumes a thread, visited or not.                          *)
LEMMA ResumeStep ==
  ASSUME NEW t \in Threads, WalkInvariant, Resume(t)
  PROVE  WalkInvariant'
<1>1. TypeOK /\ t \in All
  BY DEF WalkInvariant, All
<1>2. TypeOK'
  <2>1. suspendedUntil' \in [All -> 0..EndOfTime]
    BY <1>1, SelectionAssumption DEF TypeOK, Resume
  <2> QED
    BY <1>1, <2>1 DEF TypeOK, Resume, walkVars
<1>3. SelectedIsReady'
  BY <1>1 DEF WalkInvariant, SelectedIsReady, Resume, walkVars, TypeOK
<1>4. OnlyResumed'
  BY <1>1 DEF WalkInvariant, OnlyResumed, Resume, TypeOK
<1>5. VisitedSettled'
  <2> SUFFICES ASSUME NEW k \in 1..Len(List), k < pos
      PROVE  /\ initially[List[k]] < timeNow => ~MoreUrgent(List[k], next)
             /\ suspendedUntil'[List[k]] >= timeNow /\ priority[List[k]] >= priority[next]
                  => earliest <= suspendedUntil'[List[k]]
    BY DEF VisitedSettled, Resume, walkVars, MoreUrgent
  <2>1. List[k] \in All
    BY SelectionAssumption
  <2>2. suspendedUntil'[List[k]] >= timeNow => suspendedUntil'[List[k]] = suspendedUntil[List[k]]
    BY <1>1, <2>1 DEF Resume, TypeOK
  <2> QED
    BY <2>2 DEF WalkInvariant, VisitedSettled
<1> QED
  BY <1>2, <1>3, <1>4, <1>5 DEF WalkInvariant

(* The invariant of the walk over threadList.                              *)
THEOREM WalkInvariantHolds == Spec => []WalkInvariant
<1>1. WalkInvariant /\ [Next]_vars => WalkInvariant'
  <2> SUFFICES ASSUME WalkInvariant, [Next]_vars PROVE WalkInvariant'
    OBVIOUS
  <2>1. CASE UNCHANGED vars
    BY <2>1 DEF vars, walkVars, WalkInvariant, TypeOK, SelectedIsReady, VisitedSettled,
                OnlyResumed, MoreUrgent
  <2> QED
    BY <2>1, ReadyStep, SuspendedStep, ResumeStep DEF Next
<1> QED
  BY InitWalk, <1>1, PTL DEF Spec

(* Types, and a planned scheduling is never in the past.                   *)
THEOREM SelectionTypeCorrect == Spec => []TypeOK
<1>1. WalkInvariant => TypeOK
  BY DEF WalkInvariant
<1> QED
  BY WalkInvariantHolds, <1>1, PTL

(* findNextToRun never returns a suspended thread.                         *)
THEOREM NeverSelectsSuspended == Spec => []SelectedIsReady
<1>1. WalkInvariant => SelectedIsReady
  BY DEF WalkInvariant
<1> QED
  BY WalkInvariantHolds, <1>1, PTL

(* findNextToRun returns the most urgent of the threads that were ready.   *)
THEOREM SelectsMostUrgent == Spec => []MostUrgentSelected
<1>1. WalkInvariant => MostUrgentSelected
  <2> SUFFICES ASSUME WalkInvariant, Done, NEW t \in All, initially[t] < timeNow
      PROVE  ~MoreUrgent(t, next)
    BY DEF MostUrgentSelected
  <2>1. PICK k \in 1..Len(List) : List[k] = t
    BY SelectionAssumption
  <2>2. k < pos
    BY SelectionAssumption DEF Done
  <2> QED
    BY <2>1, <2>2 DEF WalkInvariant, VisitedSettled
<1> QED
  BY WalkInvariantHolds, <1>1, PTL

(* The time findNextToRun returns is not later than the end of any         *)
(* suspension that will make the selected thread give way.                 *)
THEOREM EarliestIsEarlyEnough == Spec => []EarliestCovers
<1>1. WalkInvariant => EarliestCovers
  <2> SUFFICES ASSUME WalkInvariant, Done, NEW t \in All,
                      suspendedUntil[t] >= timeNow, priority[t] >= priority[next]
      PROVE  earliest <= suspendedUntil[t]
    BY DEF EarliestCovers
  <2>1. PICK k \in 1..Len(List) : List[k] = t
    BY SelectionAssumption
  <2>2. k < pos
    BY SelectionAssumption DEF Done
  <2> QED
    BY <2>1, <2>2 DEF WalkInvariant, VisitedSettled
<1> QED
  BY WalkInvariantHolds, <1>1, PTL

=============================================================================
