------------------------------ MODULE Selection ------------------------------
(***************************************************************************)
(* Thread::findNextToRun and findNextToRunFromISR (thread_on_hw.cpp): the   *)
(* walk over threadList that selects the next thread to run and the time    *)
(* of the next scheduling, one list element per step.  Interrupts resume    *)
(* threads between the steps: the list is never looked at as a whole.       *)
(* Modules Kernel and Semaphore use the selection as one step.              *)
(***************************************************************************)
EXTENDS Integers, Sequences

CONSTANTS
  Threads,     \* the application's threads
  Idle,        \* the idle thread
  List,        \* threadList in iteration order
  EndOfTime,   \* END_OF_TIME
  MaxPrio,     \* highest priority
  MaxCount     \* bound: highest schedule counter

All == Threads \cup {Idle}

ASSUME SelectionAssumption ==
  /\ Idle \notin Threads
  /\ List \in Seq(All) /\ \A t \in All : \E k \in 1..Len(List) : List[k] = t
  /\ EndOfTime \in Nat /\ MaxPrio \in Nat /\ MaxCount \in Nat

VARIABLES
  suspendedUntil, priority, lastActivation,   \* of every thread
  timeNow,     \* NOW() at the beginning of the walk
  pos,         \* position of iter in the list
  next,        \* nextThreadToRun
  earliest,    \* selectedEarliestSuspendedUntil
  initially    \* suspendedUntil at the beginning of the walk

walkVars == <<pos, next, earliest>>
vars == <<suspendedUntil, priority, lastActivation, timeNow, walkVars, initially>>

(* The idle thread is always ready and has priority 0.                     *)
Init ==
  /\ suspendedUntil \in {f \in [All -> 0..EndOfTime] : f[Idle] = 0}
  /\ priority \in {f \in [All -> 0..MaxPrio] : f[Idle] = 0}
  /\ lastActivation \in [All -> 0..MaxCount]
  /\ timeNow \in {n \in 0..EndOfTime : n > 0}
  /\ pos = 1
  /\ next = Idle
  /\ earliest = EndOfTime
  /\ initially = suspendedUntil

(* Mutant: among equals the last one in the list wins.                     *)
MoreUrgentByPlace(t, u) == priority[t] >= priority[u]

MoreUrgent(t, u) ==
  \/ priority[t] > priority[u]
  \/ priority[t] = priority[u] /\ lastActivation[t] < lastActivation[u]

Iter == List[pos]

VisitReady ==
  /\ pos <= Len(List) /\ suspendedUntil[Iter] < timeNow
  /\ next' = IF MoreUrgent(Iter, next) THEN Iter ELSE next
  /\ pos' = pos + 1
  /\ UNCHANGED <<suspendedUntil, priority, lastActivation, timeNow, earliest, initially>>

(* Mutant: who has the same priority as the selected thread is left out.   *)
VisitSuspendedAbove ==
  /\ pos <= Len(List) /\ suspendedUntil[Iter] >= timeNow
  /\ earliest' = IF priority[Iter] > priority[next] /\ suspendedUntil[Iter] < earliest
                 THEN suspendedUntil[Iter] ELSE earliest
  /\ pos' = pos + 1
  /\ UNCHANGED <<suspendedUntil, priority, lastActivation, timeNow, next, initially>>

(* Mutant: the suspended thread itself is selected.                        *)
VisitSuspendedSelects ==
  /\ pos <= Len(List) /\ suspendedUntil[Iter] >= timeNow
  /\ next' = IF MoreUrgent(Iter, next) THEN Iter ELSE next
  /\ pos' = pos + 1
  /\ UNCHANGED <<suspendedUntil, priority, lastActivation, timeNow, earliest, initially>>

VisitSuspended ==
  /\ pos <= Len(List) /\ suspendedUntil[Iter] >= timeNow
  /\ earliest' = IF priority[Iter] >= priority[next] /\ suspendedUntil[Iter] < earliest
                 THEN suspendedUntil[Iter] ELSE earliest
  /\ pos' = pos + 1
  /\ UNCHANGED <<suspendedUntil, priority, lastActivation, timeNow, next, initially>>

(* Thread::resume by the handler of an interrupt, at any moment.           *)
Resume(t) ==
  /\ suspendedUntil' = [suspendedUntil EXCEPT ![t] = 0]
  /\ UNCHANGED <<priority, lastActivation, timeNow, walkVars, initially>>

Next ==
  \/ VisitReady
  \/ VisitSuspended
  \/ \E t \in Threads : Resume(t)

Spec == Init /\ [][Next]_vars

-----------------------------------------------------------------------------
(* Type correctness; the next scheduling is never planned in the past.     *)
TypeOK ==
  /\ suspendedUntil \in [All -> 0..EndOfTime]
  /\ priority \in [All -> 0..MaxPrio]
  /\ lastActivation \in [All -> 0..MaxCount]
  /\ timeNow \in 0..EndOfTime /\ timeNow > 0
  /\ pos \in 1..Len(List) + 1
  /\ next \in All
  /\ earliest \in 0..EndOfTime /\ earliest >= timeNow
  /\ initially \in [All -> 0..EndOfTime]

Done == pos = Len(List) + 1

(* The selected thread may run, even if it was resumed and selected in the *)
(* middle of the walk.                                                     *)
SelectedIsReady == suspendedUntil[next] < timeNow

(* No thread that was ready when the walk began is more urgent than the    *)
(* selected one, whoever was resumed meanwhile.                            *)
MostUrgentSelected ==
  Done => \A t \in All : initially[t] < timeNow => ~MoreUrgent(t, next)

(* "if there is a thread with higher or same priority in the future, we    *)
(* must call the scheduler then" (thread_on_hw.cpp): who is suspended when *)
(* the walk is over, and not less urgent, is not forgotten.                *)
EarliestCovers ==
  Done => \A t \in All :
    suspendedUntil[t] >= timeNow /\ priority[t] >= priority[next] => earliest <= suspendedUntil[t]

(* The same for the part of the list that has been visited; a thread's     *)
(* suspension only ever ends.                                              *)
VisitedSettled ==
  \A k \in 1..Len(List) : k < pos =>
    LET t == List[k]
    IN  /\ initially[t] < timeNow => ~MoreUrgent(t, next)
        /\ suspendedUntil[t] >= timeNow /\ priority[t] >= priority[next]
             => earliest <= suspendedUntil[t]

OnlyResumed == \A t \in All : suspendedUntil[t] \in {initially[t], 0}

WalkInvariant ==
  /\ TypeOK
  /\ SelectedIsReady
  /\ VisitedSettled
  /\ OnlyResumed
=============================================================================
