----------------------------- MODULE Scheduling -----------------------------
(***************************************************************************)
(* The scheduler of module Kernel as the threads see it: a yield or a       *)
(* SysTick gives the CPU to the ready thread of the highest priority, the   *)
(* least recently activated one of several, unless a preselection is left   *)
(* from a yield that was put off.  Every step of a thread is a stretch of   *)
(* code with one access to state that others use; a SysTick may come        *)
(* between any two.  Times are abstracted away: a suspension is "timed" (it *)
(* ends when it may) or "forever" (END_OF_TIME).                            *)
(***************************************************************************)
EXTENDS Integers, Sequences, SequencesExt

CONSTANTS
  Threads,    \* the application's threads
  Idle,       \* the idle thread
  Order,      \* the threads by their place in threadList
  Priorities, \* how the application may distribute priorities over its threads
  Ceiling,    \* CEILING_PRIORITY
  NoThread    \* the null pointer

All == Threads \cup {Idle}

ASSUME SchedulingAssumption ==
  /\ Idle \notin Threads /\ NoThread \notin All
  /\ Ceiling \in Nat \ {0}
  /\ Priorities \subseteq [All -> 0..Ceiling - 1]
  /\ \A p \in Priorities : \A t \in Threads : p[t] > p[Idle]
  /\ Order \in Seq(Threads) /\ ToSet(Order) = Threads /\ IsInjective(Order)

VARIABLES
  running,     \* Thread::currentThread
  prio,        \* priority of every thread
  susp,        \* suspendedUntil: "no", "timed" or "forever"
  activations, \* the application's threads by increasing lastActivation
  presel,      \* preSelectedNextToRun, when a yield is over
  cut,         \* threads to which a SysTick came in the middle of their yield
  pc,          \* where each thread is; "run" is application code
  saved        \* previousPriority of its PRIORITY_CEILER_IN_SCOPE

schedVars == <<running, activations, presel, cut>>

(* Threads of the priorities p, all of them ready.                         *)
SchedulingInit(p) ==
  /\ running = Idle
  /\ prio = p
  /\ susp = [t \in All |-> "no"]
  /\ activations = Order
  /\ presel = NoThread
  /\ cut = {}
  /\ pc = [t \in All |-> "run"]
  /\ saved = [t \in All |-> 0]

(* The idle thread counts as the last, which matters only to a thread that *)
(* has fallen to its priority.                                             *)
Activation(t) ==
  IF t = Idle THEN Len(activations) + 1 ELSE CHOOSE i \in DOMAIN activations : activations[i] = t

(* The first among S by priority, then by lastActivation.                  *)
Foremost(S, priority) ==
  CHOOSE t \in S : \A u \in S \ {t} :
    \/ priority[t] > priority[u]
    \/ priority[t] = priority[u] /\ Activation(t) < Activation(u)

NextToRun == Foremost({t \in All : susp[t] = "no"}, prio)

(* The second half of schedule(): a preselection is used only once.        *)
Activate(t) ==
  /\ running' = t
  /\ activations' = IF t = Idle THEN activations
                    ELSE Append(RemoveAt(activations, Activation(t)), t)
  /\ presel' = NoThread

(* yield() by the running thread t: no switch if t is still the foremost.  *)
(* If a SysTick came after timeToTryAgainToSchedule was cleared, the slice *)
(* is a new one: schedulerWrapper may find it too early and return to t,   *)
(* with the preselection set if the schedule counter had not been read,    *)
(* or yield returns by itself since that counter has changed.  The idle    *)
(* thread only yields: a SysTick may have come before anybody was ready.   *)
Yield(t) ==
  /\ \/ NextToRun = t /\ UNCHANGED <<running, activations, presel>>
     \/ NextToRun # t /\ Activate(NextToRun)
     \/ /\ NextToRun # t /\ t \in cut \cup {Idle}
        /\ presel' \in {presel, NextToRun}
        /\ UNCHANGED <<running, activations>>
  /\ cut' = cut \ {t}

IdleYields ==
  /\ running = Idle
  /\ Yield(Idle)
  /\ UNCHANGED <<prio, susp, pc, saved>>

(* A SysTick that lets the scheduler run: a preselection left by a yield   *)
(* is taken without a comparison.  In the middle of a yield (threads are   *)
(* there at the places yields) it may also choose the running thread again.*)
Chosen == IF presel = NoThread THEN NextToRun ELSE presel
Preempt(yields) ==
  LET yielding == pc[running] \in yields
  IN  /\ Chosen # running \/ yielding
      /\ Activate(Chosen)
      /\ cut' = IF yielding THEN cut \cup {running} ELSE cut
      /\ UNCHANGED <<prio, susp, pc, saved>>

(* The time of a suspension is reached.                                    *)
Expire(t) ==
  /\ susp[t] = "timed"
  /\ susp' = [susp EXCEPT ![t] = "no"]
  /\ UNCHANGED <<schedVars, prio, pc, saved>>

(* suspendCallerUntil() within a ceiler, up to its yield.                  *)
Suspend(t, until) == susp' = [susp EXCEPT ![t] = until]

Executes(t, at) == running = t /\ pc[t] = at
Goto(t, to) == pc' = [pc EXCEPT ![t] = to]

(* Constructor and destructor of PRIORITY_CEILER_IN_SCOPE.                 *)

(* Mutant: the priority is not raised.                                     *)
BeginCeilerWithoutRaise(t) ==
  /\ saved' = [saved EXCEPT ![t] = prio[t]]
  /\ UNCHANGED prio

BeginCeiler(t) ==
  /\ saved' = [saved EXCEPT ![t] = prio[t]]
  /\ prio' = [prio EXCEPT ![t] = Ceiling]
EndCeiler(t) ==
  /\ saved' = [saved EXCEPT ![t] = 0]
  /\ prio' = [prio EXCEPT ![t] = saved[t]]

(* Type correctness of this part of the state, but for pc.                 *)
SchedulingTypeOK ==
  /\ running \in All
  /\ prio \in [All -> 0..Ceiling]
  /\ susp \in [All -> {"no", "timed", "forever"}]
  /\ ToSet(activations) = Threads /\ IsInjective(activations)
  /\ presel \in All \cup {NoThread} /\ cut \subseteq Threads
  /\ saved \in [All -> 0..Ceiling]
=============================================================================
