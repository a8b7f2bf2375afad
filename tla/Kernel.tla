------------------------------- MODULE Kernel -------------------------------
(***************************************************************************)
(* The preemptive scheduler of RODOS on bare metal: Thread::yield,          *)
(* Thread::suspendCallerUntil, Thread::resume and the idle thread           *)
(* (thread_on_hw.cpp), schedulerWrapper and Scheduler::schedule             *)
(* (scheduler.cpp) and the arming of the SysTick timer                      *)
(* (hw_specific_generic.cpp).                                               *)
(*                                                                          *)
(* One CPU runs one thread, `current', or the scheduler in the PendSV       *)
(* handler (isr # "none").  Thread code is cut into steps between which a   *)
(* SysTick or a device interrupt can come; a device interrupt can also come *)
(* between the steps of the scheduler, which has the lowest priority.       *)
(*                                                                          *)
(* Times are relative to NOW(): a stored absolute time x is represented by  *)
(* x - NOW(), counted in units of MIN_SYS_TICK_SPACING, so that the clock   *)
(* runs for ever in a finite state space.  Every stored time, in a global   *)
(* or in a local variable, is aged by Tick.  Past stands for every time     *)
(* before now, the value 0 that resume() and yield() store included.        *)
(***************************************************************************)
EXTENDS Integers, Sequences, SequencesExt

CONSTANTS
  Threads,      \* the application's threads
  Idle,         \* the idle thread
  List,         \* threadList in iteration order, the idle thread included
  BasePrio,     \* priority each thread was created with
  Ceiling,      \* CEILING_PRIORITY
  Slice,        \* TIME_SLICE_FOR_SAME_PRIORITY, in ticks
  WakeUp,       \* TIME_WAKEUP_FROM_SLEEP, in ticks
  MaxDelay,     \* bound: longest finite delay a thread or event asks for
  EndOfTime,    \* END_OF_TIME
  Scoped,       \* threads that use PRIORITY_CEILER_IN_SCOPE in their own code
  Resumers,     \* threads that resume others
  Interrupted,  \* threads that handlers of device interrupts resume
  Eventful,     \* threads that arm the TimeEvent, and that its handler resumes
  Overflowing,  \* threads whose stack may overflow
  Watched,      \* the thread whose waiting time is measured
  NoThread      \* the null pointer

All == Threads \cup {Idle}

ASSUME KernelAssumption ==
  /\ Idle \notin Threads /\ NoThread \notin All
  /\ List \in Seq(All) /\ ToSet(List) = All /\ IsInjective(List)
  /\ Ceiling \in Nat /\ EndOfTime \in Nat /\ EndOfTime >= 2
  /\ BasePrio \in [All -> 0..Ceiling - 1] /\ BasePrio[Idle] = 0
  /\ Slice \in Nat \ {0} /\ WakeUp \in Nat /\ MaxDelay \in 0..EndOfTime - 1
  /\ Slice < EndOfTime /\ Watched \in Threads
  /\ UNION {Scoped, Resumers, Interrupted, Eventful, Overflowing} \subseteq Threads

VARIABLES
  current,      \* Thread::currentThread
  prio,         \* priority of every thread
  due,          \* suspendedUntil of every thread
  activations,  \* the threads by increasing lastActivation
  timeToTry,    \* timeToTryAgainToSchedule
  timer,        \* ticks until the armed SysTick fires
  event,        \* eventAt of the application's TimeEvent
  lock,         \* yieldSchedulingLock: SysTick is ignored, the timer stopped
  presel,       \* preSelectedNextToRun and preSelectedEarliestSuspendedUntil
  stale,        \* threads whose startScheduleCounter is out of date
  choice,       \* what findNextToRun returned to each thread's yield
  pc,           \* where each thread is
  target,       \* the thread another thread is about to resume
  napUntil,     \* reactivationTime of the idle thread
  isr,          \* where schedulerWrapper is
  picked,       \* schedule's nextThreadToRun and selectedEarliestSuspendedUntil
  badStack,     \* threads with a stack violation
  waited        \* ticks for which the watched thread has waited for less urgent ones

vars == <<current, prio, due, activations, timeToTry, timer, event, lock, presel, stale,
          choice, pc, target, napUntil, isr, picked, badStack, waited>>

Past == -1
Min2(a, b) == IF a < b THEN a ELSE b
Max2(a, b) == IF a > b THEN a ELSE b

NoPick == [thread |-> NoThread, earliest |-> EndOfTime]
Ready(t) == due[t] < 0

(* One tick later: END_OF_TIME never comes, what is past stays past.       *)
Aged(x) == IF x < 0 \/ x = EndOfTime THEN x ELSE x - 1
AgedPick(p) == [p EXCEPT !.earliest = Aged(@)]

-----------------------------------------------------------------------------
(* Selection of the next thread.                                           *)

Activation(t) == CHOOSE i \in DOMAIN activations : activations[i] = t

(* Mutant: the tie between equal priorities is not broken.                 *)
LessRecentIgnored(t, u) == FALSE

LessRecent(t, u) == Activation(t) < Activation(u)

(* The loop body of findNextToRun and findNextToRunFromISR.                *)
Consider(best, t) ==
  LET bestPrio == prio[best.thread]
  IN  IF Ready(t)
      THEN IF \/ prio[t] > bestPrio
              \/ prio[t] = bestPrio /\ LessRecent(t, best.thread)
           THEN [best EXCEPT !.thread = t]
           ELSE best
      ELSE IF prio[t] >= bestPrio
           THEN [best EXCEPT !.earliest = Min2(@, due[t])]
           ELSE best

(* What has been found after the first k threads of the list.              *)
Walk[k \in 0..Len(List)] ==
  IF k = 0 THEN [thread |-> Idle, earliest |-> EndOfTime] ELSE Consider(Walk[k - 1], List[k])

FindNextToRun == Walk[Len(List)]

(* Timer::updateTriggerToNextTimingEvent: never before the next but one    *)
(* beat of MIN_SYS_TICK_SPACING.                                           *)
TriggerIn(nextSchedulingEvent, nextTimeEvent) ==
  Max2(Min2(nextSchedulingEvent, nextTimeEvent), 2)

-----------------------------------------------------------------------------
(* Scheduler::idle() has activated the idle thread; initializeThreads has  *)
(* made every thread ready.                                                *)
Init ==
  /\ current = Idle
  /\ prio = BasePrio
  /\ due = [t \in All |-> Past]
  /\ activations = <<Idle>> \o RemoveAt(List, CHOOSE k \in DOMAIN List : List[k] = Idle)
  /\ timeToTry = Past
  /\ timer = 2
  /\ event = EndOfTime
  /\ lock = FALSE
  /\ presel = NoPick
  /\ stale = {}
  /\ choice = [t \in All |-> NoPick]
  /\ pc = [t \in All |-> "run"]
  /\ target = [t \in All |-> NoThread]
  /\ napUntil = Past
  /\ isr = "none"
  /\ picked = NoPick
  /\ badStack = {}
  /\ waited = 0

Executes(t, at) == isr = "none" /\ current = t /\ pc[t] = at
Goto(t, to) == pc' = [pc EXCEPT ![t] = to]

(* Where yield returns to: the application, or the idle thread's sleep.    *)
AfterYield(t) == IF t = Idle THEN "nap" ELSE "run"

schedVars == <<current, activations, timer, isr, picked>>
yieldVars == <<lock, presel, stale, choice>>
appVars   == <<event, target, napUntil, badStack, waited>>

-----------------------------------------------------------------------------
(* Thread::suspendCallerUntil.  A finite delay stands for NOW() + d, Past  *)
(* for a time that is over already; the priority is that of the ceiler     *)
(* while suspendedUntil is stored.                                         *)

SuspendCallerUntil(t) ==
  /\ Executes(t, "run") /\ t # Idle
  /\ prio' = [prio EXCEPT ![t] = Ceiling]
  /\ Goto(t, "ceiled")
  /\ UNCHANGED <<schedVars, yieldVars, appVars, due, timeToTry>>

SetSuspendedUntil(t) ==
  /\ Executes(t, "ceiled")
  /\ \E d \in Past..MaxDelay \cup {EndOfTime} : due' = [due EXCEPT ![t] = d]
  /\ Goto(t, "set")
  /\ UNCHANGED <<schedVars, yieldVars, appVars, prio, timeToTry>>

EndOfSuspendScope(t) ==
  /\ Executes(t, "set")
  /\ prio' = [prio EXCEPT ![t] = BasePrio[t]]
  /\ Goto(t, "yield")
  /\ UNCHANGED <<schedVars, yieldVars, appVars, due, timeToTry>>

(* PRIORITY_CEILER_IN_SCOPE around a critical region of the application.   *)
EnterScope(t) ==
  /\ Executes(t, "run") /\ t \in Scoped
  /\ prio' = [prio EXCEPT ![t] = Ceiling]
  /\ Goto(t, "scope")
  /\ UNCHANGED <<schedVars, yieldVars, appVars, due, timeToTry>>

LeaveScope(t) ==
  /\ Executes(t, "scope")
  /\ prio' = [prio EXCEPT ![t] = BasePrio[t]]
  /\ Goto(t, "run")
  /\ UNCHANGED <<schedVars, yieldVars, appVars, due, timeToTry>>

(* Thread::resume called by a thread: timeToTryAgainToSchedule is cleared  *)
(* before suspendedUntil, and a SysTick may come between the two.          *)
ResumeBegin(t) ==
  /\ Executes(t, "run") /\ t \in Resumers
  /\ timeToTry' = Past
  /\ \E u \in Threads : target' = [target EXCEPT ![t] = u]
  /\ Goto(t, "resume")
  /\ UNCHANGED <<schedVars, yieldVars, event, napUntil, badStack, waited, prio, due>>

ResumeEnd(t) ==
  /\ Executes(t, "resume")
  /\ due' = [due EXCEPT ![target[t]] = Past]
  /\ target' = [target EXCEPT ![t] = NoThread]
  /\ Goto(t, "run")
  /\ UNCHANGED <<schedVars, yieldVars, event, napUntil, badStack, waited, prio, timeToTry>>

(* TimeEvent::activateAt(NOW() + d).                                       *)
ActivateEvent(t) ==
  /\ Executes(t, "run") /\ t \in Eventful
  /\ event = EndOfTime
  /\ event' \in 0..MaxDelay
  /\ UNCHANGED <<schedVars, yieldVars, target, napUntil, badStack, waited, prio, due, timeToTry, pc>>

(* The thread uses more stack than it has.                                 *)
OverflowStack(t) ==
  /\ Executes(t, "run") /\ t \in Overflowing
  /\ badStack' = badStack \cup {t}
  /\ UNCHANGED <<schedVars, yieldVars, event, target, napUntil, waited, prio, due, timeToTry, pc>>

-----------------------------------------------------------------------------
(* Thread::yield.                                                          *)

CallYield(t) ==
  /\ Executes(t, "run")
  /\ prio' = IF t = Idle THEN [prio EXCEPT ![Idle] = 0] ELSE prio
  /\ Goto(t, "yield")
  /\ UNCHANGED <<schedVars, yieldVars, appVars, due, timeToTry>>

(* Mutant: the time of the next scheduling is not cleared.                 *)
YieldResetForgotten(t) ==
  /\ Executes(t, "yield")
  /\ Goto(t, "count")
  /\ UNCHANGED <<schedVars, yieldVars, appVars, prio, due, timeToTry>>

YieldReset(t) ==
  /\ Executes(t, "yield")
  /\ timeToTry' = Past
  /\ Goto(t, "count")
  /\ UNCHANGED <<schedVars, yieldVars, appVars, prio, due>>

YieldCount(t) ==
  /\ Executes(t, "count")
  /\ stale' = stale \ {t}
  /\ Goto(t, "find")
  /\ UNCHANGED <<schedVars, lock, presel, choice, appVars, prio, due, timeToTry>>

YieldFind(t) ==
  /\ Executes(t, "find")
  /\ choice' = [choice EXCEPT ![t] = FindNextToRun]
  /\ Goto(t, "check")
  /\ UNCHANGED <<schedVars, lock, presel, stale, appVars, prio, due, timeToTry>>

YieldCheck(t) ==
  /\ Executes(t, "check")
  /\ IF t \in stale \/ choice[t].thread = t
     THEN choice' = [choice EXCEPT ![t] = NoPick] /\ Goto(t, AfterYield(t))
     ELSE UNCHANGED choice /\ Goto(t, "lock")
  /\ UNCHANGED <<schedVars, lock, presel, stale, appVars, prio, due, timeToTry>>

(* Mutant: the schedule counter is not compared again under the lock.      *)
YieldSwitchUnchecked(t) ==
  /\ Executes(t, "lock")
  /\ lock' = TRUE
  /\ presel' = choice[t]
  /\ choice' = [choice EXCEPT ![t] = NoPick]
  /\ isr' = "wrapper"
  /\ Goto(t, AfterYield(t))
  /\ UNCHANGED <<current, activations, timer, picked, stale, appVars, prio, due, timeToTry>>

(* Lock, stop the timer, hand the preselection over if it is still valid,  *)
(* request PendSV.  Only device interrupts can come in between, and what   *)
(* they do commutes with these stores.                                     *)
YieldSwitch(t) ==
  /\ Executes(t, "lock")
  /\ lock' = TRUE
  /\ presel' = IF t \in stale THEN presel ELSE choice[t]
  /\ choice' = [choice EXCEPT ![t] = NoPick]
  /\ isr' = "wrapper"
  /\ Goto(t, AfterYield(t))
  /\ UNCHANGED <<current, activations, timer, picked, stale, appVars, prio, due, timeToTry>>

-----------------------------------------------------------------------------
(* The idle thread after its yield: sleep if the next event is far enough. *)

IdleNap ==
  /\ Executes(Idle, "nap")
  /\ LET reactivation == Min2(timeToTry, event)
         interval     == reactivation - WakeUp - 1
     IN  IF interval > WakeUp /\ interval > 1
         THEN timer' = interval /\ napUntil' = reactivation /\ Goto(Idle, "sleep")
         ELSE Goto(Idle, "run") /\ UNCHANGED <<timer, napUntil>>
  /\ UNCHANGED <<current, activations, isr, picked, yieldVars, event, target, badStack, waited,
                 prio, due, timeToTry>>

(* Any interrupt ends the sleep, the time base's own one included.         *)
IdleWakeUp ==
  /\ Executes(Idle, "sleep")
  /\ timer' = Max2(napUntil, 1)
  /\ napUntil' = Past
  /\ Goto(Idle, "run")
  /\ UNCHANGED <<current, activations, isr, picked, yieldVars, event, target, badStack, waited,
                 prio, due, timeToTry>>

-----------------------------------------------------------------------------
(* Interrupts.                                                             *)

(* The SysTick handler requests PendSV unless a yield holds the lock.      *)
SysTick ==
  /\ isr = "none" /\ timer = 0 /\ ~lock
  /\ isr' = "wrapper"
  /\ UNCHANGED <<current, activations, timer, picked, yieldVars, appVars, prio, due, timeToTry, pc>>

(* Thread::resume called by the handler of a device interrupt.             *)
InterruptResume(u) ==
  /\ due' = [due EXCEPT ![u] = Past]
  /\ timeToTry' = Past
  /\ UNCHANGED <<schedVars, yieldVars, appVars, prio, pc>>

Activate(t) == current' = t /\ lock' = FALSE /\ isr' = "none"

(* schedulerWrapper: TimeEvent::propagate; the handler resumes a thread.   *)
WrapperPropagate ==
  /\ isr = "wrapper" /\ event < 0
  /\ event' = EndOfTime
  /\ \E u \in Eventful : due' = [due EXCEPT ![u] = Past]
  /\ timeToTry' = Past
  /\ UNCHANGED <<schedVars, yieldVars, target, napUntil, badStack, waited, prio, pc>>

(* The SysTick was for a TimeEvent only: re-arm the timer and go on.       *)
WrapperTooEarly ==
  /\ isr = "wrapper" /\ event >= 0 /\ timeToTry > 0
  /\ timer' = TriggerIn(timeToTry, event)
  /\ Activate(current)
  /\ UNCHANGED <<activations, picked, presel, stale, choice, appVars, prio, due, timeToTry, pc>>

(* Scheduler::schedule, first half: count the call and select.             *)
ScheduleSelect ==
  /\ isr = "wrapper" /\ event >= 0 /\ timeToTry <= 0
  /\ stale' = All
  /\ picked' = IF presel.thread = NoThread THEN FindNextToRun ELSE presel
  /\ presel' = NoPick
  /\ isr' = "commit"
  /\ UNCHANGED <<current, activations, timer, lock, choice, appVars, prio, due, timeToTry, pc>>

(* Scheduler::schedule, second half, and Thread::activate.                 *)

NextRunner == IF picked.thread \in badStack THEN Idle ELSE picked.thread

(* Mutant: no time slice, the next scheduling is at the next deadline.     *)
NextTryUnsliced(earliest) == earliest

(* The thread is interrupted after a time slice at the latest.             *)
NextTry(earliest) == Min2(earliest, Slice)

ScheduleCommit ==
  /\ isr = "commit"
  /\ due' = IF picked.thread \in badStack THEN [due EXCEPT ![picked.thread] = EndOfTime] ELSE due
  /\ activations' = Append(RemoveAt(activations, Activation(NextRunner)), NextRunner)
  /\ timeToTry' = NextTry(picked.earliest)
  /\ timer' = TriggerIn(timeToTry', event)
  /\ picked' = NoPick
  /\ Activate(NextRunner)
  /\ waited' = IF Watched = NextRunner \/ picked.thread \in badStack THEN 0 ELSE waited
  /\ UNCHANGED <<presel, stale, choice, event, target, napUntil, badStack, prio, pc>>

(* Time passes.  A due SysTick is taken first, and no path through the     *)
(* kernel lasts a whole tick (MIN_SYS_TICK_SPACING "must be minimally as   *)
(* large to execute a context switch and one complete scheduler run").     *)
(* Awake, the idle thread goes round its loop many times in a tick.        *)
Overdue == Ready(Watched) /\ prio[Watched] > prio[current] /\ Watched \notin badStack
WaitBound == 2 * (Slice + 1)

Tick ==
  /\ isr = "none" /\ timer > 0 /\ pc[current] \in {"run", "scope", "sleep"}
  /\ current = Idle /\ pc[Idle] = "run" => \A t \in Threads : ~Ready(t)
  /\ due' = [t \in All |-> Aged(due[t])]
  /\ timeToTry' = Aged(timeToTry)
  /\ timer' = timer - 1
  /\ event' = Aged(event)
  /\ presel' = AgedPick(presel)
  /\ choice' = [t \in All |-> AgedPick(choice[t])]
  /\ napUntil' = Aged(napUntil)
  /\ waited' = IF Overdue THEN Min2(waited + 1, WaitBound + 1) ELSE 0
  /\ UNCHANGED <<current, prio, activations, lock, stale, pc, target, isr, picked, badStack>>

-----------------------------------------------------------------------------
YieldStep(t) ==
  \/ YieldReset(t) \/ YieldCount(t) \/ YieldFind(t) \/ YieldCheck(t)
  \/ YieldSwitch(t)

(* Kernel code a thread has begun, and the endless loop of the idle one.   *)
KernelStep(t) ==
  \/ SetSuspendedUntil(t) \/ EndOfSuspendScope(t) \/ LeaveScope(t) \/ ResumeEnd(t)
  \/ YieldStep(t)
  \/ t = Idle /\ (CallYield(t) \/ IdleNap \/ IdleWakeUp)

(* What the application's code may choose to do.                           *)
AppStep(t) ==
  \/ SuspendCallerUntil(t) \/ EnterScope(t) \/ ResumeBegin(t) \/ ActivateEvent(t)
  \/ OverflowStack(t)
  \/ t # Idle /\ CallYield(t)

SchedulerStep ==
  \/ WrapperPropagate \/ WrapperTooEarly \/ ScheduleSelect \/ ScheduleCommit

Next ==
  \/ \E t \in All : KernelStep(t) \/ AppStep(t)
  \/ SchedulerStep
  \/ SysTick
  \/ \E u \in Interrupted : InterruptResume(u)
  \/ Tick

Spec == Init /\ [][Next]_vars

(* The CPU goes on executing kernel code it has begun, time passes and a   *)
(* pending SysTick is taken; the application's code need not do anything.  *)
Fairness ==
  /\ WF_vars(\E t \in All : KernelStep(t))
  /\ WF_vars(SchedulerStep)
  /\ SF_vars(SysTick)
  /\ SF_vars(Tick)

FairSpec == Spec /\ Fairness

-----------------------------------------------------------------------------
Places == {"run", "ceiled", "set", "scope", "resume", "yield", "count", "find", "check", "lock",
           "nap", "sleep"}

Pick == [thread : All \cup {NoThread}, earliest : Past..EndOfTime]

(* Type correctness of the scheduler's state.                              *)
TypeOK ==
  /\ current \in All
  /\ prio \in [All -> 0..Ceiling]
  /\ due \in [All -> Past..EndOfTime]
  /\ ToSet(activations) = All /\ IsInjective(activations)
  /\ timeToTry \in Past..Slice
  /\ timer \in 0..EndOfTime
  /\ event \in Past..EndOfTime
  /\ lock \in BOOLEAN
  /\ presel \in Pick /\ picked \in Pick /\ choice \in [All -> Pick]
  /\ stale \subseteq All /\ badStack \subseteq Overflowing
  /\ pc \in [All -> Places]
  /\ target \in [All -> Threads \cup {NoThread}]
  /\ napUntil \in Past..EndOfTime
  /\ isr \in {"none", "wrapper", "commit"}
  /\ waited \in 0..WaitBound + 1

(* suspendCallerUntil (and yield) returns to the application only when the *)
(* thread's suspension is over, whichever SysTick, resume or second        *)
(* schedule came in the middle of it.                                      *)
NoReturnWhileSuspended ==
  isr = "none" /\ pc[current] = "run" => Ready(current)

(* The scheduler switches only to a thread whose time has come, even when  *)
(* it uses the preselection of a yield that was interrupted on its way, and *)
(* never to one that was deactivated for a stack violation, even when      *)
(* somebody resumes it.                                                    *)
SwitchOnlyToReady ==
  [][current' # current => due'[current'] < 0 /\ current' \notin badStack]_vars

(* A ready thread of higher priority than the running one waits for two    *)
(* time slices and a tick for each at most, where less urgent threads use  *)
(* no PRIORITY_CEILER_IN_SCOPE: one slice is the bound that                *)
(* TIME_SLICE_FOR_SAME_PRIORITY puts on every resume() the scheduler       *)
(* overlooked, the second one is lost when that scheduling uses a          *)
(* preselection which an early wrapper put off and time has outdated.  A   *)
(* thread deactivated for a stack violation begins the count anew.         *)
UrgentWaitBounded == waited <= WaitBound

(* "deadlines may be overrun by maximally: 2 * MIN_SYS_TICK_SPACING"        *)
(* (hw_specific_generic.cpp): where threads become ready by their deadline *)
(* only, the thread of the highest priority waits two ticks at most.       *)
DeadlineOverrunBounded == waited <= 2

(* A ready thread than which none has a higher priority gets the CPU, even *)
(* if a thread of the same priority never yields and even if its wake-up   *)
(* fell between the steps of a scheduling already under way.               *)
EventuallyRuns == Ready(Watched) ~> current = Watched

=============================================================================
