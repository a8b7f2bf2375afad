-------------------------------- MODULE Timing ------------------------------
(***************************************************************************)
(* The clock and the time events together: threads activate events relative *)
(* to the time, the scheduler's interrupt reads the clock and propagates    *)
(* (schedulerWrapper of scheduler.cpp, `TimeEvent::propagate(NOW())').      *)
(***************************************************************************)
EXTENDS TimeBase, TimeEvent

CONSTANTS
  Delays,          \* bound: how far ahead events are activated
  Reactivated,     \* events whose handler activates them again
  FromInterrupts   \* events that handlers of device interrupts activate

(* The clock does not run so long that the next beat after now is beyond   *)
(* the range of the code's 64-bit times, which ends at END_OF_TIME.        *)
ASSUME TimingAssumption ==
  /\ EndOfTime > MaxTime /\ \A p \in Periods : MaxTime + p <= EndOfTime
  /\ Delays \subseteq Nat
  /\ Reactivated \subseteq Events /\ FromInterrupts \subseteq Events

VARIABLE
  wrapper   \* the scheduler's interrupt runs

vars == <<baseVars, eventVars, wrapper>>

Init == TimeBaseInit /\ TimeEventInit /\ wrapper = FALSE

Ahead == {now + d : d \in Delays} \cap 0..MaxTime

(* A thread runs while the scheduler's interrupt does not.                 *)
ThreadRuns == ~wrapper /\ NotInterrupted

(* A thread asks for the time, with interrupts enabled or disabled.        *)
ThreadReadsTime ==
  ThreadRuns /\ setting = NoSetting /\ GetNanoseconds /\ UNCHANGED <<eventVars, wrapper>>
ThreadReturns ==
  ~wrapper /\ Return /\ UNCHANGED <<eventVars, wrapper>>
ThreadMasks(m) ==
  ThreadRuns /\ setting = NoSetting /\ npc = "idle" /\ Mask(m) /\ UNCHANGED <<eventVars, wrapper>>

ThreadActivates ==
  /\ ThreadRuns /\ npc = "idle" /\ ~masked
  /\ \/ SecondStore
     \/ \E e \in Events, t \in Ahead :
          ActivateAt(e, t) \/ \E p \in Periods : ActivatePeriodic(e, t, p)
  /\ UNCHANGED <<baseVars, wrapper>>

(* schedulerWrapper: read the clock, propagate, arm the timer.  It may     *)
(* interrupt the thread, but not its own call of hwGetNanoseconds, which   *)
(* has no effect on the thread's.  It masks the timer's interrupt if the   *)
(* two have the same priority (stm32f4), even one that is pending, and     *)
(* otherwise does not.                                                     *)
Wrapper ==
  /\ ~wrapper /\ npc = "idle" /\ ~masked
  /\ masked' \in BOOLEAN /\ (overflowFlag => masked')
  /\ npc' = "overflow"
  /\ called' = now
  /\ hidden' = overflowFlag
  /\ wrapper' = TRUE
  /\ UNCHANGED <<now, overflowFlag, timerOverflowCount, overflow1, ticks, eventVars>>

WrapperPropagates ==
  /\ wrapper /\ npc = "done"
  /\ Propagate(Microseconds)
  /\ Return
  /\ UNCHANGED wrapper

WrapperStep ==
  /\ visiting # 0 /\ NotInterrupted
  /\ \/ PropagatePass \/ PropagateLoad \/ PropagateStore \/ Handle
     \/ Event \in Reactivated /\ \E t \in Ahead : HandleActivatesAt(t)
  /\ UNCHANGED <<baseVars, wrapper>>

WrapperReturns ==
  /\ wrapper /\ npc = "idle" /\ visiting = 0 /\ NotInterrupted
  /\ wrapper' = FALSE
  /\ masked' = FALSE
  /\ UNCHANGED <<now, overflowFlag, timerOverflowCount, npc, overflow1, ticks, called, hidden,
                 eventVars>>

(* A device's interrupt has a higher priority than the scheduler's.        *)
DeviceInterrupt ==
  /\ masked => wrapper
  /\ \E e \in FromInterrupts, t \in Ahead : InterruptActivatesAt(e, t)
  /\ UNCHANGED <<baseVars, wrapper>>

Clock(step) == step /\ UNCHANGED <<eventVars, wrapper>>

Next ==
  \/ Clock(Tick) \/ Clock(OverflowInterrupt) \/ Clock(Reading)
  \/ ThreadReadsTime \/ ThreadReturns \/ \E m \in BOOLEAN : ThreadMasks(m)
  \/ ThreadActivates
  \/ Wrapper \/ WrapperPropagates \/ WrapperStep \/ WrapperReturns
  \/ DeviceInterrupt

Spec == Init /\ [][Next]_vars

(* Time passes, interrupts are served (that of the timer after those that  *)
(* mask it), the scheduler's interrupt comes again and again, and threads  *)
(* do not leave interrupts disabled.                                       *)
Fairness ==
  /\ WF_vars(Clock(Tick)) /\ SF_vars(Clock(OverflowInterrupt)) /\ WF_vars(Clock(Reading))
  /\ SF_vars(Wrapper)
  /\ WF_vars(WrapperPropagates) /\ WF_vars(WrapperStep) /\ WF_vars(WrapperReturns)
  /\ WF_vars(ThreadReturns) /\ SF_vars(ThreadMasks(FALSE))

FairSpec == Spec /\ Fairness

-----------------------------------------------------------------------------
(* "calls all time event handlers which eventAt < now (past)": no handler  *)
(* is called before the time of its event, in true time, however the       *)
(* clock's counter overflows while propagate's caller reads it.            *)
NeverEarly == loaded < EndOfTime => loaded < now

(* An event that was activated stays activated until its handler is called *)
(* for it, also when the handler itself has activated it, a one-shot event *)
(* is called "one time" (timeevent.h) and a periodic one keeps a period.   *)
(* Three orders of steps may spoil an event: propagate comes between the   *)
(* two stores of activateAt and finds the period of an earlier             *)
(* activatePeriodic, or an interrupt activates it between propagate's load *)
(* and its store, or between the two stores of activatePeriodic.           *)
ActivationExact ==
  \A e \in Events \ spoilt :
    /\ calls[e] = 0 => eventAt[e] = start[e]
    /\ eventPeriod[e] = 0 => calls[e] <= 1
    /\ setting.event # e => (eventPeriod[e] # 0 <=> e \in periodic)

(* A periodic event is armed for a beat of its own, for the first one that *)
(* is not over, whatever was late before.  (With the types of the events.) *)
OnBeat ==
  /\ TimeEventTypeOK
  /\ \A e \in Events \ spoilt :
       eventPeriod[e] # 0 /\ calls[e] > 0 /\ setting.event # e /\ eventAt[e] # EndOfTime =>
         /\ (eventAt[e] - start[e]) % eventPeriod[e] = 0
         /\ eventAt[e] - eventPeriod[e] <= now
         /\ handling /\ Event = e => eventAt[e] > timeNow

(* Every event whose time comes is propagated.                             *)
EventuallyPropagated ==
  \A e \in Events : eventAt[e] < MaxTime ~> eventAt[e] >= MaxTime
=============================================================================
