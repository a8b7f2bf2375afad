------------------------------ MODULE TimeEvent -----------------------------
(***************************************************************************)
(* TimeEvent (timeevent.cpp): activateAt and activatePeriodic, two stores   *)
(* each, by a thread that the scheduler's interrupt may preempt between     *)
(* them; propagate(), which calls the handlers of the events whose time has *)
(* come; TimeModel::computeNextBeat (timemodel.cpp).                        *)
(***************************************************************************)
EXTENDS Integers, Sequences, SequencesExt

CONSTANTS
  Events,          \* the time events
  TimeEventList,   \* the same in the order of timeEventList
  EndOfTime,       \* END_OF_TIME
  Periods          \* the periods the application asks for

ASSUME TimeEventAssumption ==
  /\ TimeEventList \in Seq(Events) /\ "none" \notin Events
  /\ ToSet(TimeEventList) = Events /\ IsInjective(TimeEventList)
  /\ EndOfTime \in Nat
  /\ Periods \subseteq 1..EndOfTime

VARIABLES
  eventAt, eventPeriod,
  setting,    \* what a thread is about to store: event, field and value
  visiting,   \* the list iterator of propagate, 0 when it does not run
  loaded,     \* iterEventAt, if propagate is about to store a new time
  handling,   \* propagate is about to call handle()
  timeNow,    \* its parameter
  start,      \* when the last completed activation of each event was to fire
  periodic,   \* the events for which that was an activatePeriodic
  calls,      \* how often propagate has called handle() since then, up to 2
  spoilt      \* events that propagate met between the stores of activateAt, or that
              \* an interrupt activated between propagate's load and store or
              \* between the stores of activatePeriodic

eventVars == <<eventAt, eventPeriod, setting, visiting, loaded, handling, timeNow, start, periodic,
               calls, spoilt>>

NoSetting == [event |-> "none", field |-> "none", value |-> 0]

TimeEventInit ==
  /\ eventAt = [e \in Events |-> EndOfTime]
  /\ eventPeriod = [e \in Events |-> 0]
  /\ setting = NoSetting
  /\ visiting = 0 /\ loaded = EndOfTime /\ handling = FALSE
  /\ timeNow = 0
  /\ start = [e \in Events |-> EndOfTime]
  /\ periodic = {}
  /\ calls = [e \in Events |-> 0]
  /\ spoilt = {}

Event == TimeEventList[visiting]

(* The activation of event e for time t is complete, but for the period.   *)
Activated(e, t) ==
  /\ start' = [start EXCEPT ![e] = t]
  /\ calls' = [calls EXCEPT ![e] = 0]

-----------------------------------------------------------------------------
(* By a thread.                                                            *)

ActivateAt(e, t) ==
  /\ setting = NoSetting /\ visiting = 0
  /\ eventAt' = [eventAt EXCEPT ![e] = t]
  /\ setting' = [event |-> e, field |-> "period", value |-> 0]
  /\ Activated(e, t) /\ periodic' = periodic \ {e}
  /\ spoilt' = spoilt \ {e}
  /\ UNCHANGED <<eventPeriod, visiting, loaded, handling, timeNow>>

ActivatePeriodic(e, t, p) ==
  /\ setting = NoSetting /\ visiting = 0
  /\ eventPeriod' = [eventPeriod EXCEPT ![e] = p]
  /\ setting' = [event |-> e, field |-> "time", value |-> t]
  /\ UNCHANGED <<eventAt, visiting, loaded, handling, timeNow, start, periodic, calls, spoilt>>

(* The second store of either.  The period that activatePeriodic has       *)
(* stored is lost if an interrupt has activated the event meanwhile.       *)
SecondStore ==
  /\ setting # NoSetting /\ visiting = 0
  /\ LET e == setting.event
     IN  IF setting.field = "period"
         THEN /\ eventPeriod' = [eventPeriod EXCEPT ![e] = setting.value]
              /\ UNCHANGED <<eventAt, start, periodic, calls, spoilt>>
         ELSE /\ eventAt' = [eventAt EXCEPT ![e] = setting.value]
              /\ Activated(e, setting.value) /\ periodic' = periodic \cup {e}
              /\ spoilt' = IF eventPeriod[e] = 0 THEN spoilt \cup {e} ELSE spoilt \ {e}
              /\ UNCHANGED eventPeriod
  /\ setting' = NoSetting
  /\ UNCHANGED <<visiting, loaded, handling, timeNow>>

-----------------------------------------------------------------------------
(* TimeModel::computeNextBeat.                                             *)

(* Mutant: a beat that is due now is not passed over.                      *)
ComputeNextBeatNow(begin, period, t) ==
  CASE begin < 0 \/ period < 0 \/ t < 0 -> EndOfTime
    [] begin > t -> begin
    [] period = 0 -> EndOfTime
    [] period >= EndOfTime - begin -> EndOfTime
    [] OTHER -> ((t - begin) \div period) * period + begin

ComputeNextBeat(begin, period, t) ==
  CASE begin < 0 \/ period < 0 \/ t < 0 -> EndOfTime
    [] begin > t -> begin
    [] period = 0 -> EndOfTime
    [] period >= EndOfTime - begin -> EndOfTime
    [] OTHER -> ((t - begin) \div period + 1) * period + begin

(* propagate(t), called by the scheduler's interrupt; there may be nothing *)
(* to propagate.                                                           *)

Propagate(t) ==
  /\ visiting = 0
  /\ IF TimeEventList = <<>> THEN UNCHANGED <<visiting, timeNow>>
     ELSE visiting' = 1 /\ timeNow' = t
  /\ UNCHANGED <<eventAt, eventPeriod, setting, loaded, handling, start, periodic, calls, spoilt>>

(* To the next event, or back to the caller.                               *)
Advance ==
  IF visiting < Len(TimeEventList)
  THEN visiting' = visiting + 1 /\ UNCHANGED timeNow
  ELSE visiting' = 0 /\ timeNow' = 0

PropagatePass ==
  /\ visiting # 0 /\ loaded = EndOfTime /\ ~handling
  /\ eventAt[Event] >= timeNow
  /\ Advance
  /\ UNCHANGED <<eventAt, eventPeriod, setting, loaded, handling, start, periodic, calls, spoilt>>

PropagateLoad ==
  /\ visiting # 0 /\ loaded = EndOfTime /\ ~handling
  /\ eventAt[Event] < timeNow
  /\ loaded' = eventAt[Event]
  /\ UNCHANGED <<eventAt, eventPeriod, setting, visiting, handling, timeNow, start, periodic, calls, spoilt>>

(* A one-shot event is disarmed, a periodic one armed for its next beat.   *)
PropagateStore ==
  /\ visiting # 0 /\ loaded < EndOfTime
  /\ eventAt' = [eventAt EXCEPT ![Event] =
       IF eventPeriod[Event] = 0 THEN EndOfTime
       ELSE ComputeNextBeat(loaded, eventPeriod[Event], timeNow)]
  /\ handling' = TRUE
  /\ loaded' = EndOfTime
  /\ spoilt' = IF setting.event = Event /\ setting.field = "period" /\ eventPeriod[Event] # 0
               THEN spoilt \cup {Event} ELSE spoilt
  /\ calls' = [calls EXCEPT ![Event] = IF @ < 2 THEN @ + 1 ELSE @]
  /\ UNCHANGED <<eventPeriod, setting, visiting, timeNow, start, periodic>>

(* handle(), which may activate its own event again.                       *)
Handle ==
  /\ handling
  /\ handling' = FALSE
  /\ Advance
  /\ UNCHANGED <<eventAt, eventPeriod, setting, loaded, start, periodic, calls, spoilt>>

(* The handler activates its own event, even while a thread is between its *)
(* two stores to it.                                                       *)

(* Mutant: it does so before propagate stores the next time.               *)
HandleActivatesTooEarly(t) ==
  /\ handling
  /\ eventAt' = [eventAt EXCEPT ![Event] = EndOfTime]
  /\ eventPeriod' = [eventPeriod EXCEPT ![Event] = 0]
  /\ Activated(Event, t) /\ periodic' = periodic \ {Event}
  /\ spoilt' = spoilt \ {Event}
  /\ handling' = FALSE
  /\ Advance
  /\ UNCHANGED <<setting, loaded>>

HandleActivatesAt(t) ==
  /\ handling
  /\ eventAt' = [eventAt EXCEPT ![Event] = t]
  /\ eventPeriod' = [eventPeriod EXCEPT ![Event] = 0]
  /\ Activated(Event, t) /\ periodic' = periodic \ {Event}
  /\ spoilt' = spoilt \ {Event}
  /\ handling' = FALSE
  /\ Advance
  /\ UNCHANGED <<setting, loaded>>

(* activateAt by the handler of a device interrupt, even within propagate  *)
(* or between the two stores of a thread.                                  *)
InterruptActivatesAt(e, t) ==
  /\ eventAt' = [eventAt EXCEPT ![e] = t]
  /\ eventPeriod' = [eventPeriod EXCEPT ![e] = 0]
  /\ Activated(e, t) /\ periodic' = periodic \ {e}
  /\ spoilt' = IF visiting # 0 /\ Event = e /\ loaded < EndOfTime
               THEN spoilt \cup {e} ELSE spoilt \ {e}
  /\ UNCHANGED <<setting, visiting, loaded, handling, timeNow>>

-----------------------------------------------------------------------------
(* Type correctness of the events.                                         *)
TimeEventTypeOK ==
  /\ eventAt \in [Events -> 0..EndOfTime]
  /\ eventPeriod \in [Events -> Periods \cup {0}]
  /\ visiting \in 0..Len(TimeEventList) /\ loaded \in 0..EndOfTime
  /\ handling \in BOOLEAN /\ timeNow \in 0..EndOfTime
  /\ start \in [Events -> 0..EndOfTime] /\ calls \in [Events -> 0..2]
  /\ periodic \subseteq Events /\ spoilt \subseteq Events
=============================================================================
