----------------------------- MODULE Semaphore ------------------------------
(***************************************************************************)
(* Semaphore::enter and Semaphore::leave (rodos-semaphore.cpp) with the     *)
(* thread operations they use: PRIORITY_CEILER_IN_SCOPE, suspendCallerUntil,*)
(* findNextWaitingFor, resume and yield, over the scheduler as threads see  *)
(* it (module Scheduling).                                                  *)
(***************************************************************************)
EXTENDS Scheduling

CONSTANTS
  Sems,       \* the semaphores
  MaxEnter,   \* bound: how often one of the Reenterers enters a semaphore it owns
  Reenterers, \* threads that enter a semaphore they own, the others do so never
  None        \* the null pointer

ASSUME SemaphoreAssumption ==
  /\ None \notin All /\ None \notin Sems
  /\ MaxEnter \in Nat \ {0}
  /\ Reenterers \subseteq Threads

VARIABLES
  basePrio,    \* priority each thread was created with
  waitingFor,  \* the semaphore a thread is suspended on
  owner, enterCnt, ownerPrio,   \* owner, ownerEnterCnt, ownerPriority
  sem,         \* the semaphore whose enter() or leave() it executes
  callerPrio,  \* callerPriority of enter(), currentOwnerPriority of leave()
  waiter,      \* waiter of leave()
  held,        \* how many enter() of each thread are done, without a leave()
  lent,        \* threads that reentered while their priority was raised by a waiting one
  passed,      \* the threads that got the semaphore while this one waits for it
  overtaken    \* the CPU was given to a less urgent thread than one with the ceiling priority

threadVars == <<susp, waitingFor>>
semVars    == <<owner, enterCnt, ownerPrio>>
localVars  == <<sem, callerPrio, saved, waiter>>
ghostVars  == <<basePrio, lent, passed, overtaken>>
vars == <<schedVars, prio, threadVars, semVars, pc, localVars, held, ghostVars>>

Init ==
  /\ basePrio \in Priorities
  /\ SchedulingInit(basePrio)
  /\ waitingFor = [t \in All |-> None]
  /\ owner = [s \in Sems |-> None]
  /\ enterCnt = [s \in Sems |-> 0]
  /\ ownerPrio = [s \in Sems |-> 0]
  /\ sem = [t \in All |-> None]
  /\ callerPrio = [t \in All |-> 0]
  /\ waiter = [t \in All |-> None]
  /\ held = [t \in All |-> [s \in Sems |-> 0]]
  /\ lent = {}
  /\ passed = [t \in Threads |-> {}]
  /\ overtaken = FALSE

-----------------------------------------------------------------------------
(* What may happen at any time.                                            *)

(* Where threads are in the middle of a yield.                             *)
YieldPcs == {"yield", "waitYield"}

(* The scheduler has chosen: a ready thread with the ceiling priority is   *)
(* left waiting for one without.                                           *)
Scheduled ==
  overtaken' = \/ overtaken
               \/ /\ prio[running'] < Ceiling
                  /\ \E t \in Threads : susp[t] = "no" /\ prio[t] = Ceiling

SysTick ==
  /\ Preempt(YieldPcs) /\ Scheduled
  /\ UNCHANGED <<waitingFor, semVars, sem, callerPrio, waiter, held, basePrio, lent, passed>>

IdleLoop ==
  /\ IdleYields /\ Scheduled
  /\ UNCHANGED <<waitingFor, semVars, sem, callerPrio, waiter, held, basePrio, lent, passed>>

(* The application sleeps for a finite time, with or without a semaphore:  *)
(* suspendCallerUntil has a ceiler of its own, that ends before its yield. *)
Sleep(t) ==
  /\ Executes(t, "run") /\ t # Idle
  /\ BeginCeiler(t)
  /\ Suspend(t, "timed")
  /\ Goto(t, "asleep")
  /\ UNCHANGED <<schedVars, waitingFor, semVars, sem, callerPrio, waiter, held, ghostVars>>

SleepScopeEnd(t) ==
  /\ Executes(t, "asleep")
  /\ EndCeiler(t)
  /\ Goto(t, "yield")
  /\ UNCHANGED <<schedVars, threadVars, semVars, sem, callerPrio, waiter, held, ghostVars>>

(* The yield() at the end of suspendCallerUntil, enter and leave.          *)
YieldReturn(t) ==
  /\ Executes(t, "yield")
  /\ Yield(t) /\ Scheduled
  /\ Goto(t, "run")
  /\ UNCHANGED <<prio, threadVars, semVars, localVars, held, basePrio, lent, passed>>

TimeReached(t) ==
  /\ Expire(t)
  /\ UNCHANGED <<waitingFor, semVars, sem, callerPrio, waiter, held, ghostVars>>

-----------------------------------------------------------------------------
(* Semaphore::enter.                                                       *)

Enter(t, s) ==
  /\ Executes(t, "run") /\ t # Idle
  /\ held[t][s] < IF t \in Reenterers THEN MaxEnter ELSE 1
  /\ sem' = [sem EXCEPT ![t] = s]
  /\ callerPrio' = [callerPrio EXCEPT ![t] = prio[t]]
  /\ lent' = IF prio[t] = basePrio[t] THEN lent ELSE lent \cup {t}
  /\ Goto(t, "ceil")
  /\ UNCHANGED <<schedVars, prio, threadVars, semVars, saved, waiter, held, basePrio, passed, overtaken>>

EnterCeil(t) ==
  /\ Executes(t, "ceil")
  /\ BeginCeiler(t)
  /\ Goto(t, "test")
  /\ UNCHANGED <<schedVars, threadVars, semVars, sem, callerPrio, waiter, held, ghostVars>>

OwnedByOther(t) == owner[sem[t]] \notin {None, t}

(* Occupied: lend the caller's priority to the owner, then wait.           *)
EnterTest(t) ==
  /\ Executes(t, "test")
  /\ IF OwnedByOther(t)
     THEN LET o == owner[sem[t]]
          IN  /\ prio' = [prio EXCEPT ![o] = IF callerPrio[t] > @ THEN callerPrio[t] ELSE @]
              /\ Goto(t, "while")
     ELSE Goto(t, "own") /\ UNCHANGED prio
  /\ UNCHANGED <<schedVars, threadVars, semVars, localVars, held, ghostVars>>

(* suspendCallerUntil(END_OF_TIME, this), still with the ceiling priority. *)
EnterWait(t) ==
  /\ Executes(t, "while") /\ OwnedByOther(t)
  /\ waitingFor' = [waitingFor EXCEPT ![t] = sem[t]]
  /\ Suspend(t, "forever")
  /\ Goto(t, "waitYield")
  /\ UNCHANGED <<schedVars, prio, semVars, localVars, held, ghostVars>>

EnterWaitYield(t) ==
  /\ Executes(t, "waitYield")
  /\ Yield(t) /\ Scheduled
  /\ Goto(t, "blocked")
  /\ UNCHANGED <<prio, threadVars, semVars, localVars, held, basePrio, lent, passed>>

EnterWoken(t) ==
  /\ Executes(t, "blocked")
  /\ waitingFor' = [waitingFor EXCEPT ![t] = None]
  /\ Goto(t, "while")
  /\ UNCHANGED <<schedVars, prio, susp, semVars, localVars, held, ghostVars>>

EnterDone(t) ==
  /\ Executes(t, "while") /\ ~OwnedByOther(t)
  /\ enterCnt' = [enterCnt EXCEPT ![sem[t]] = 0]
  /\ Goto(t, "own")
  /\ UNCHANGED <<schedVars, prio, threadVars, owner, ownerPrio, localVars, held, ghostVars>>

(* Others may wait for s while u becomes its owner.                        *)
Gets(u, s) ==
  passed' = [t \in Threads |->
               IF t = u THEN {}
               ELSE IF waitingFor[t] = s THEN passed[t] \cup {u} ELSE passed[t]]

EnterOwn(t) ==
  /\ Executes(t, "own")
  /\ owner' = [owner EXCEPT ![sem[t]] = t]
  /\ ownerPrio' = [ownerPrio EXCEPT ![sem[t]] = callerPrio[t]]
  /\ enterCnt' = [enterCnt EXCEPT ![sem[t]] = @ + 1]
  /\ Gets(t, sem[t])
  /\ Goto(t, "endEnter")
  /\ UNCHANGED <<schedVars, prio, threadVars, localVars, held, basePrio, lent, overtaken>>

(* The semaphore is entered; yield() and return.                           *)
EnterEnd(t) ==
  /\ Executes(t, "endEnter")
  /\ EndCeiler(t)
  /\ held' = [held EXCEPT ![t][sem[t]] = @ + 1]
  /\ sem' = [sem EXCEPT ![t] = None]
  /\ callerPrio' = [callerPrio EXCEPT ![t] = 0]
  /\ Goto(t, "yield")
  /\ UNCHANGED <<schedVars, threadVars, semVars, waiter, ghostVars>>

-----------------------------------------------------------------------------
(* Semaphore::leave, called by a thread that has entered.                  *)

Leave(t, s) ==
  /\ Executes(t, "run") /\ held[t][s] > 0
  /\ held' = [held EXCEPT ![t][s] = @ - 1]
  /\ IF owner[s] # t
     THEN UNCHANGED <<enterCnt, sem, pc>>
     ELSE /\ enterCnt' = [enterCnt EXCEPT ![s] = @ - 1]
          /\ IF enterCnt[s] - 1 > 0
             THEN UNCHANGED <<sem, pc>>
             ELSE sem' = [sem EXCEPT ![t] = s] /\ Goto(t, "leave")
  /\ UNCHANGED <<schedVars, prio, threadVars, owner, ownerPrio, callerPrio, saved, waiter, ghostVars>>

LeaveCeil(t) ==
  /\ Executes(t, "leave")
  /\ BeginCeiler(t)
  /\ Goto(t, "free")
  /\ UNCHANGED <<schedVars, threadVars, semVars, sem, callerPrio, waiter, held, ghostVars>>

LeaveFree(t) ==
  /\ Executes(t, "free")
  /\ owner' = [owner EXCEPT ![sem[t]] = None]
  /\ Goto(t, "find")
  /\ UNCHANGED <<schedVars, prio, threadVars, enterCnt, ownerPrio, localVars, held, ghostVars>>

(* Mutant: the most recently activated waiter of the highest priority.     *)
FindNextWaitingForLatest(s) ==
  LET waiting == {t \in Threads : waitingFor[t] = s}
  IN  IF waiting = {} THEN None
      ELSE CHOOSE t \in waiting : \A u \in waiting \ {t} :
             \/ prio[t] > prio[u]
             \/ prio[t] = prio[u] /\ Activation(t) > Activation(u)

FindNextWaitingFor(s) ==
  LET waiting == {t \in Threads : waitingFor[t] = s}
  IN  IF waiting = {} THEN None ELSE Foremost(waiting, prio)

(* Mutant: nobody looks for a waiting thread.                              *)
LeaveFindNobody(t) ==
  /\ Executes(t, "find")
  /\ callerPrio' = [callerPrio EXCEPT ![t] = ownerPrio[sem[t]]]
  /\ ownerPrio' = [ownerPrio EXCEPT ![sem[t]] = 0]
  /\ Goto(t, "endLeave")
  /\ UNCHANGED <<schedVars, prio, threadVars, owner, enterCnt, sem, saved, waiter, held, ghostVars>>

LeaveFind(t) ==
  /\ Executes(t, "find")
  /\ callerPrio' = [callerPrio EXCEPT ![t] = ownerPrio[sem[t]]]
  /\ ownerPrio' = [ownerPrio EXCEPT ![sem[t]] = 0]
  /\ waiter' = [waiter EXCEPT ![t] = FindNextWaitingFor(sem[t])]
  /\ Goto(t, IF waiter'[t] = None THEN "endLeave" ELSE "hand")
  /\ UNCHANGED <<schedVars, prio, threadVars, owner, enterCnt, sem, saved, held, ghostVars>>

(* The new owner is set before it is resumed.                              *)
LeaveHand(t) ==
  /\ Executes(t, "hand")
  /\ owner' = [owner EXCEPT ![sem[t]] = waiter[t]]
  /\ waitingFor' = [waitingFor EXCEPT ![waiter[t]] = None]
  /\ susp' = [susp EXCEPT ![waiter[t]] = "no"]
  /\ Gets(waiter[t], sem[t])
  /\ Goto(t, "endLeave")
  /\ UNCHANGED <<schedVars, prio, enterCnt, ownerPrio, localVars, held, basePrio, lent, overtaken>>

LeaveEnd(t) ==
  /\ Executes(t, "endLeave")
  /\ EndCeiler(t)
  /\ Goto(t, "restore")
  /\ UNCHANGED <<schedVars, threadVars, semVars, sem, callerPrio, waiter, held, ghostVars>>

(* Mutant: the priority found at the beginning of leave() is kept.         *)
LeaveRestoreForgotten(t) ==
  /\ Executes(t, "restore")
  /\ Goto(t, "left")
  /\ UNCHANGED <<schedVars, prio, threadVars, semVars, localVars, held, ghostVars>>

LeaveRestore(t) ==
  /\ Executes(t, "restore")
  /\ prio' = [prio EXCEPT ![t] = callerPrio[t]]
  /\ Goto(t, "left")
  /\ UNCHANGED <<schedVars, threadVars, semVars, localVars, held, ghostVars>>

(* If the new owner has not run yet, yield().                              *)
LeaveReturn(t) ==
  /\ Executes(t, "left")
  /\ Goto(t, IF waiter[t] # None /\ ownerPrio[sem[t]] = 0 THEN "yield" ELSE "run")
  /\ sem' = [sem EXCEPT ![t] = None]
  /\ callerPrio' = [callerPrio EXCEPT ![t] = 0]
  /\ waiter' = [waiter EXCEPT ![t] = None]
  /\ UNCHANGED <<schedVars, prio, threadVars, semVars, saved, held, ghostVars>>

-----------------------------------------------------------------------------
EnterStep(t) ==
  \/ EnterCeil(t) \/ EnterTest(t) \/ EnterWait(t) \/ EnterWaitYield(t) \/ EnterWoken(t)
  \/ EnterDone(t) \/ EnterOwn(t) \/ EnterEnd(t)

LeaveStep(t) ==
  \/ LeaveCeil(t) \/ LeaveFree(t) \/ LeaveFind(t) \/ LeaveHand(t) \/ LeaveEnd(t)
  \/ LeaveRestore(t) \/ LeaveReturn(t)

Next ==
  \/ \E t \in Threads :
       \/ EnterStep(t) \/ LeaveStep(t)
       \/ \E s \in Sems : Enter(t, s) \/ Leave(t, s)
       \/ Sleep(t) \/ SleepScopeEnd(t) \/ YieldReturn(t) \/ TimeReached(t)
  \/ SysTick \/ IdleLoop

Spec == Init /\ [][Next]_vars

-----------------------------------------------------------------------------
EnterPcs == {"ceil", "test", "while", "waitYield", "blocked", "own", "endEnter"}
LeavePcs == {"leave", "free", "find", "hand", "endLeave", "restore", "left"}

(* Type correctness of the threads and the semaphores.                     *)
TypeOK ==
  /\ SchedulingTypeOK
  /\ basePrio \in Priorities /\ lent \subseteq Threads /\ overtaken \in BOOLEAN
  /\ passed \in [Threads -> SUBSET Threads]
  /\ waitingFor \in [All -> Sems \cup {None}]
  /\ owner \in [Sems -> Threads \cup {None}]
  /\ enterCnt \in [Sems -> Int]
  /\ ownerPrio \in [Sems -> 0..Ceiling]
  /\ pc \in [All -> {"run", "asleep", "yield"} \cup EnterPcs \cup LeavePcs]
  /\ sem \in [All -> Sems \cup {None}]
  /\ callerPrio \in [All -> 0..Ceiling]
  /\ waiter \in [All -> Threads \cup {None}]
  /\ held \in [All -> [Sems -> 0..MaxEnter]]

(* At most one thread is between its enter() and its leave(), it is the    *)
(* owner the semaphore knows, and whenever it is in neither of the two as  *)
(* many enter() are counted as it has made, unless a thread within its     *)
(* ceiler was overtaken.  (With the types of threads and semaphores.)      *)
MutualExclusion ==
  /\ TypeOK
  /\ \A s \in Sems : \A t \in Threads : held[t][s] > 0 /\ ~overtaken =>
       /\ owner[s] = t
       /\ \A u \in Threads \ {t} : held[u][s] = 0
       /\ pc[t] = "run" => enterCnt[s] = held[t][s]

(* No waiting thread is forgotten: when nobody executes enter() or leave() *)
(* and the semaphore is free, nobody is suspended on it, unless a thread   *)
(* within its ceiler was overtaken.                                        *)
NoForgottenWaiter ==
  \A s \in Sems :
    (/\ ~overtaken /\ owner[s] = None
     /\ \A t \in Threads : sem[t] = s => pc[t] \in {"ceil", "waitYield", "blocked"})
      => \A t \in Threads : waitingFor[t] # s

(* A thread without a semaphore runs with the priority it was created with:*)
(* "priority of current thread might have been increased in enter() [...]  *)
(* If so, restore the original priority" (rodos-semaphore.cpp).  Only a    *)
(* thread that called enter() while its priority was raised, and so stored *)
(* the raised one in ownerPriority, keeps it, or one that was overtaken    *)
(* within a ceiler.                                                        *)
WithoutSemaphore(t) == pc[t] = "run" /\ \A s \in Sems : held[t][s] = 0
RestoredUnlessReentered ==
  \A t \in Threads \ lent : WithoutSemaphore(t) /\ ~overtaken => prio[t] = basePrio[t]

(* Nobody starves at a semaphore: while a thread waits for it, no other    *)
(* gets it twice, whatever their priorities are and however often they     *)
(* come back, unless a thread within its ceiler was overtaken.             *)
PassedOnce ==
  [][\A s \in Sems : \A t, u \in Threads :
       waitingFor[t] = s /\ owner[s] # u /\ owner'[s] = u /\ u # t
         => u \notin passed[t] \/ overtaken]_vars

(* "Priority ceiling is used to avoid thread switches in a critical region.*)
(* This is equivalent to atomarity at thread level" (thread.h), and on it  *)
(* rests the "Mutex Semaphore" (rodos-semaphore.h): two threads never have *)
(* the same semaphore at the same time.                                    *)
OneOwner ==
  \A s \in Sems : \A t, u \in Threads : held[t][s] > 0 /\ held[u][s] > 0 => t = u
=============================================================================
