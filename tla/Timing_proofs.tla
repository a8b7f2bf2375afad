---------------------------- MODULE Timing_proofs ---------------------------
(***************************************************************************)
(* For every range of the counter and every number of events: the clock is  *)
(* read right, however often the counter overflows during the reading, and  *)
(* no handler of a time event is called too early.                          *)
(***************************************************************************)
EXTENDS Timing, TLAPS

-----------------------------------------------------------------------------
(* The hardware counter and its overflows.                                 *)

(* Quotient and remainder by the range of the counter.                     *)
LEMMA CounterParts ==
  ASSUME NEW n \in Nat
  PROVE  /\ n \div Wrap \in Nat /\ n % Wrap \in 0..Wrap - 1
         /\ n = (n \div Wrap) * Wrap + (n % Wrap)
BY TimeBaseAssumption

(* Later times have overflowed as often or more often.                     *)
LEMMA OverflowsMonotone ==
  ASSUME NEW m \in Nat, NEW n \in Nat, m <= n
  PROVE  m \div Wrap <= n \div Wrap
BY TimeBaseAssumption

(* One tick overflows the counter or not.                                  *)
LEMMA OverflowStep ==
  ASSUME NEW n \in Nat
  PROVE  (n + 1) \div Wrap = (n \div Wrap) + IF (n + 1) % Wrap = 0 THEN 1 ELSE 0
BY TimeBaseAssumption

-----------------------------------------------------------------------------
(* The invariant of the clock.                                             *)

(* Types; the bounds on the overflows follow from what is below.           *)
ClockTypes ==
  /\ now \in 0..MaxTime /\ timerOverflowCount \in Nat
  /\ overflowFlag \in BOOLEAN /\ masked \in BOOLEAN /\ hidden \in BOOLEAN
  /\ npc \in {"idle", "overflow", "ticks", "again", "done"}
  /\ overflow1 \in Nat /\ ticks \in 0..Wrap - 1 /\ called \in 0..MaxTime
  /\ wrapper \in BOOLEAN

(* The handler has counted every overflow but the one that is pending.     *)
OverflowsCounted ==
  now \div Wrap = timerOverflowCount + IF overflowFlag THEN 1 ELSE 0

(* What hwGetNanoseconds knows at each of its steps: the counter was read  *)
(* at some moment, and the count it has read is not too large; the moment  *)
(* was one of the call, unless an overflow is hidden from it.              *)
ReadAt(m) ==
  /\ ticks = m % Wrap /\ overflow1 <= m \div Wrap
  /\ ~hidden => called <= m /\ m \div Wrap <= timerOverflowCount
ReadingKnows ==
  /\ npc # "idle" => called <= now /\ (masked /\ overflowFlag => hidden)
  /\ overflow1 <= timerOverflowCount
  /\ npc = "again" => \E m \in 0..now : ReadAt(m)
  /\ npc = "done" => Microseconds \in 0..now /\ (~hidden => called <= Microseconds)

ClockInvariant == ClockTypes /\ OverflowsCounted /\ ReadingKnows

(* At the start nothing has overflowed.                                    *)
LEMMA InitClock == Init => ClockInvariant
<1>1. 0 \div Wrap = 0
  BY TimeBaseAssumption
<1> SUFFICES ASSUME Init PROVE ClockInvariant
  OBVIOUS
<1>2. /\ overflowFlag \in BOOLEAN /\ masked \in BOOLEAN /\ hidden \in BOOLEAN
      /\ wrapper \in BOOLEAN /\ ~overflowFlag /\ ~wrapper
  BY Zenon DEF Init, TimeBaseInit
<1>3. /\ now = 0 /\ timerOverflowCount = 0 /\ npc = "idle"
      /\ overflow1 = 0 /\ ticks = 0 /\ called = 0
  BY DEF Init, TimeBaseInit
<1> QED
  BY <1>1, <1>2, <1>3, TimeBaseAssumption
  DEF ClockInvariant, ClockTypes, OverflowsCounted, ReadingKnows

(* Steps that leave the clock alone.                                       *)
LEMMA ClockUnchanged ==
  ClockInvariant /\ UNCHANGED <<baseVars, wrapper>> => ClockInvariant'
BY DEF baseVars, ClockInvariant, ClockTypes, OverflowsCounted, ReadingKnows, ReadAt, Microseconds

(* Every step of the clock, its interrupt, its users and the scheduler     *)
(* preserves the types of the clock.                                       *)
LEMMA NextClockTypes == ClockInvariant /\ [Next]_vars => ClockTypes'
<1> SUFFICES ASSUME ClockInvariant, [Next]_vars PROVE ClockTypes'
  OBVIOUS
<1> USE TimeBaseAssumption DEF ClockInvariant, ClockTypes
<1>1. CASE Clock(Tick)
  BY <1>1 DEF Clock, Tick
<1>2. CASE Clock(OverflowInterrupt)
  <2>1. overflowFlag' \in BOOLEAN
    BY <1>2, Zenon DEF Clock, OverflowInterrupt
  <2> QED
    BY <1>2, <2>1 DEF Clock, OverflowInterrupt
<1>3. CASE Clock(ReadOverflow)
  BY <1>3 DEF Clock, ReadOverflow
<1>4. CASE Clock(ReadTicks)
  BY <1>4 DEF Clock, ReadTicks, CNT
<1>5. CASE Clock(ReadAgain)
  BY <1>5 DEF Clock, ReadAgain
<1>6. CASE ThreadReadsTime
  BY <1>6 DEF ThreadReadsTime, ThreadRuns, GetNanoseconds
<1>7. CASE ThreadReturns
  <2>1. hidden' \in BOOLEAN
    BY <1>7, Zenon DEF ThreadReturns, Return
  <2> QED
    BY <1>7, <2>1 DEF ThreadReturns, Return
<1>8. ASSUME NEW m \in BOOLEAN, ThreadMasks(m) PROVE ClockTypes'
  BY <1>8 DEF ThreadMasks, ThreadRuns, Mask
<1>9. CASE Wrapper
  <2>1. masked' \in BOOLEAN /\ hidden' \in BOOLEAN /\ wrapper' \in BOOLEAN /\ overflowFlag' \in BOOLEAN
    BY <1>9, Zenon DEF Wrapper
  <2> QED
    BY <1>9, <2>1 DEF Wrapper
<1>10. CASE WrapperPropagates
  <2>1. hidden' \in BOOLEAN
    BY <1>10, Zenon DEF WrapperPropagates, Return
  <2> QED
    BY <1>10, <2>1 DEF WrapperPropagates, Return
<1>11. CASE WrapperReturns
  <2>1. masked' \in BOOLEAN /\ wrapper' \in BOOLEAN
    BY <1>11, Zenon DEF WrapperReturns
  <2> QED
    BY <1>11, <2>1 DEF WrapperReturns
<1>12. CASE ThreadActivates \/ WrapperStep \/ DeviceInterrupt \/ UNCHANGED vars
  BY <1>12, ClockUnchanged DEF ThreadActivates, WrapperStep, DeviceInterrupt, vars
<1> QED
  BY <1>1, <1>2, <1>3, <1>4, <1>5, <1>6, <1>7, <1>8, <1>9, <1>10, <1>11, <1>12 DEF Next, Reading, Clock

(* Only the counter and its interrupt change the number of overflows.      *)
LEMMA NextOverflows == ClockInvariant /\ [Next]_vars => OverflowsCounted'
<1> SUFFICES ASSUME ClockInvariant, [Next]_vars PROVE OverflowsCounted'
  OBVIOUS
<1> USE DEF ClockInvariant
<1>1. CASE Clock(Tick)
  <2>1. /\ now' = now + 1 /\ timerOverflowCount' = timerOverflowCount
        /\ ~(overflowFlag /\ (now + 1) % Wrap = 0)
        /\ overflowFlag' <=> overflowFlag \/ (now + 1) % Wrap = 0
    BY <1>1 DEF Clock, Tick
  <2>2. now'\div Wrap = (now \div Wrap) + IF (now + 1) % Wrap = 0 THEN 1 ELSE 0
    BY <2>1, OverflowStep DEF ClockTypes
  <2> QED
    BY <2>1, <2>2 DEF ClockTypes, OverflowsCounted
<1>2. CASE Clock(OverflowInterrupt)
  BY <1>2 DEF Clock, OverflowInterrupt, ClockTypes, OverflowsCounted
<1>3. CASE UNCHANGED <<now, timerOverflowCount, overflowFlag>>
  BY <1>3 DEF OverflowsCounted
<1> QED
  BY <1>1, <1>2, <1>3
  DEF Next, Clock, Reading, ReadOverflow, ReadTicks, ReadAgain, ThreadReadsTime, GetNanoseconds,
      ThreadReturns, Return, ThreadMasks, Mask, ThreadActivates, Wrapper, WrapperPropagates,
      WrapperReturns, WrapperStep, DeviceInterrupt, vars, baseVars

(* The later of two quotients with the same remainder is the larger time.  *)
LEMMA TimesCompare ==
  ASSUME NEW q \in Nat, NEW n \in Nat, q <= n \div Wrap
  PROVE  q * Wrap + (n % Wrap) \in 0..n
<1>1. n \div Wrap \in Nat /\ n % Wrap \in Nat /\ n = (n \div Wrap) * Wrap + (n % Wrap)
  BY CounterParts
<1>2. \A k \in Nat : q * Wrap \in Nat /\ q * Wrap <= (q + k) * Wrap
  BY TimeBaseAssumption
<1>3. PICK k \in Nat : n \div Wrap = q + k
  <2>1. (n \div Wrap) - q \in Nat /\ n \div Wrap = q + ((n \div Wrap) - q)
    BY <1>1
  <2> QED
    BY <2>1
<1>4. q * Wrap \in Nat /\ q * Wrap <= (n \div Wrap) * Wrap
  BY <1>2, <1>3
<1>5. (n \div Wrap) * Wrap \in Nat
  <2>1. \A j \in Nat : j * Wrap \in Nat
    BY TimeBaseAssumption
  <2> QED
    BY <1>1, <2>1
<1> HIDE <1>3
<1> QED
  BY <1>1, <1>4, <1>5

(* What hwGetNanoseconds knows survives its own steps and every overflow.  *)
LEMMA NextReading == ClockInvariant /\ [Next]_vars => ReadingKnows'
<1> SUFFICES ASSUME ClockInvariant, [Next]_vars PROVE ReadingKnows'
  OBVIOUS
<1> USE DEF ClockInvariant, ClockTypes, ReadingKnows
<1>1. CASE Clock(Tick)
  <2>1. \A m \in 0..now : ReadAt(m) => ReadAt(m)'
    BY <1>1 DEF Clock, Tick, ReadAt
  <2> QED
    BY <1>1, <2>1 DEF Clock, Tick, Microseconds
<1>2. CASE Clock(OverflowInterrupt)
  <2>1. ~overflowFlag'
    BY <1>2, Zenon DEF Clock, OverflowInterrupt
  <2>2. ASSUME NEW m \in 0..now, ReadAt(m) PROVE ReadAt(m)'
    <3>1. m \div Wrap \in Nat
      BY CounterParts
    <3> QED
      BY <1>2, <2>2, <3>1 DEF Clock, OverflowInterrupt, ReadAt
  <2> QED
    BY <1>2, <2>1, <2>2 DEF Clock, OverflowInterrupt, Microseconds
<1>3. CASE Clock(ReadOverflow)
  BY <1>3 DEF Clock, ReadOverflow
<1>4. CASE Clock(ReadTicks)
  <2>1. ReadAt(now)'
    <3>1. now \div Wrap \in Nat
      BY CounterParts
    <3> QED
      BY <1>4, <3>1 DEF Clock, ReadTicks, NotInterrupted, CNT, ReadAt, OverflowsCounted
  <2> QED
    BY <1>4, <2>1 DEF Clock, ReadTicks
<1>5. CASE Clock(ReadAgain)
  <2>1. PICK m \in 0..now : ReadAt(m)
    BY <1>5 DEF Clock, ReadAgain
  <2>2. m \in Nat /\ Microseconds \in 0..m
    BY <2>1, TimesCompare DEF ReadAt, Microseconds
  <2>3. ASSUME ~hidden, overflow1 = timerOverflowCount PROVE called <= Microseconds
    <3>1. m \div Wrap = overflow1
      BY <2>1, <2>2, <2>3, CounterParts DEF ReadAt
    <3>2. Microseconds = m
      BY <2>1, <2>2, <3>1, CounterParts DEF Microseconds, ReadAt
    <3> QED
      BY <2>1, <2>3, <3>2 DEF ReadAt
  <2>4. Microseconds' = Microseconds /\ Microseconds \in 0..now
    BY <1>5, <2>2 DEF Clock, ReadAgain, Microseconds
  <2> QED
    BY <1>5, <2>1, <2>3, <2>4 DEF Clock, ReadAgain, ReadAt
<1>6. CASE ThreadReadsTime \/ Wrapper
  BY <1>6 DEF ThreadReadsTime, Wrapper, GetNanoseconds
<1>7. CASE ThreadReturns \/ WrapperPropagates
  BY <1>7 DEF ThreadReturns, WrapperPropagates, Return
<1>8. ASSUME NEW m \in BOOLEAN, ThreadMasks(m) PROVE ReadingKnows'
  BY <1>8 DEF ThreadMasks, Mask
<1>9. CASE WrapperReturns
  BY <1>9 DEF WrapperReturns
<1>10. CASE ThreadActivates \/ WrapperStep \/ DeviceInterrupt \/ UNCHANGED vars
  BY <1>10, ClockUnchanged DEF ThreadActivates, WrapperStep, DeviceInterrupt, vars
<1> QED
  BY <1>1, <1>2, <1>3, <1>4, <1>5, <1>6, <1>7, <1>8, <1>9, <1>10 DEF Next, Reading, Clock

(* The clock's invariant holds always.                                     *)
LEMMA ClockHolds == Spec => []ClockInvariant
<1>1. ClockInvariant /\ [Next]_vars => ClockInvariant'
  BY NextClockTypes, NextOverflows, NextReading DEF ClockInvariant
<1> QED
  BY InitClock, <1>1, PTL DEF Spec

(* The time that hwGetNanoseconds returns was the time at some moment of   *)
(* the call, for every range of the counter and however the call is        *)
(* interrupted, unless an overflow is hidden from it by masked interrupts. *)
THEOREM TimeIsRight == Spec => []ReadingInCall
<1>1. ASSUME ClockInvariant PROVE ReadingInCall
  <2> USE <1>1, TimeBaseAssumption DEF ClockInvariant, ClockTypes
  <2>1. now \div Wrap <= MaxTime \div Wrap /\ MaxTime \div Wrap \in Nat
    BY OverflowsMonotone, CounterParts
  <2>2. timerOverflowCount \in 0..(MaxTime \div Wrap)
    BY <2>1, CounterParts DEF OverflowsCounted
  <2>3. overflow1 \in 0..(MaxTime \div Wrap)
    BY <2>1, <2>2 DEF ReadingKnows
  <2> QED
    BY <2>2, <2>3 DEF ReadingInCall, TimeBaseTypeOK, ReadingKnows
<1> QED
  BY ClockHolds, <1>1, PTL

-----------------------------------------------------------------------------
(* The invariant of the events.                                            *)

SettingTypes ==
  \/ setting = NoSetting
  \/ setting \in [event : Events, field : {"period"}, value : {0}]
  \/ setting \in [event : Events, field : {"time"}, value : 0..MaxTime]

(* propagate() compares with a time that has come, and is about to store   *)
(* only for an event whose time is over; nobody but an interrupt can have  *)
(* changed that time since it was loaded.                                  *)
PropagateKnows ==
  /\ timeNow <= now
  /\ handling => loaded = EndOfTime /\ visiting # 0
  /\ loaded < EndOfTime =>
       /\ visiting # 0 /\ loaded < timeNow
       /\ Event \notin spoilt => loaded = eventAt[Event]

(* A one-shot event that was called is disarmed.  While activateAt has     *)
(* still to clear the period, an event that was called had none before.    *)
OneShotDone(e) == calls[e] > 0 /\ eventPeriod[e] = 0 => calls[e] = 1 /\ eventAt[e] = EndOfTime
ActivationKnows ==
  \A e \in Events \ spoilt :
    /\ calls[e] = 0 => eventAt[e] = start[e]
    /\ OneShotDone(e)
    /\ setting.event = e /\ setting.field = "period" /\ calls[e] > 0 => eventPeriod[e] = 0
    /\ setting.event # e => (eventPeriod[e] # 0 <=> e \in periodic)
    /\ setting.event = e /\ setting.field = "period" => e \notin periodic

EventInvariant == TimeEventTypeOK /\ SettingTypes /\ PropagateKnows /\ ActivationKnows

(* No event is activated at the start.                                     *)
LEMMA InitEvents == Init => EventInvariant
<1> SUFFICES ASSUME Init PROVE EventInvariant
  OBVIOUS
<1> USE TimeEventAssumption, TimeBaseAssumption DEF Init, TimeEventInit
<1>1. handling \in BOOLEAN /\ ~handling
  BY Zenon
<1>2. TimeEventTypeOK
  BY <1>1 DEF TimeEventTypeOK
<1>3. PropagateKnows
  BY <1>1 DEF PropagateKnows, TimeBaseInit
<1>4. ActivationKnows
  BY DEF ActivationKnows, OneShotDone
<1> QED
  BY <1>2, <1>3, <1>4 DEF EventInvariant, SettingTypes

(* The event propagate looks at is one of the list.                        *)
LEMMA EventInList ==
  ASSUME TimeEventTypeOK, visiting # 0
  PROVE  Event \in Events
BY TimeEventAssumption DEF TimeEventTypeOK, Event

(* The next beat is a beat, it is after now, and the one before it is not. *)
LEMMA NextBeat ==
  ASSUME NEW b \in 0..EndOfTime, NEW p \in Periods, NEW t \in 0..MaxTime, b < t,
         ComputeNextBeat(b, p, t) # EndOfTime
  PROVE  LET k == ((t - b) \div p) + 1 IN
         /\ k \in Nat /\ ComputeNextBeat(b, p, t) = b + k * p /\ ComputeNextBeat(b, p, t) \in Nat
         /\ ComputeNextBeat(b, p, t) > t /\ ComputeNextBeat(b, p, t) - p <= t
<1>1. p \in Nat /\ p > 0 /\ t \in Nat /\ b \in Nat
  BY TimeEventAssumption, TimeBaseAssumption
<1>2. ComputeNextBeat(b, p, t) = (((t - b) \div p) + 1) * p + b
  BY <1>1 DEF ComputeNextBeat
<1>3. (t - b) \div p \in Nat /\ ((t - b) \div p) * p <= t - b /\ t - b < ((t - b) \div p) * p + p
  BY <1>1
<1> DEFINE q == (t - b) \div p
<1>4. (q + 1) * p = q * p + p
  BY <1>1, <1>3
<1>5. q * p \in Nat
  BY <1>1, <1>3
<1> HIDE DEF q
<1> QED
  BY <1>1, <1>2, <1>3, <1>4, <1>5 DEF q

(* It does not overflow.                                                   *)
LEMMA BeatInRange ==
  ASSUME NEW b \in 0..EndOfTime, NEW p \in Periods, NEW t \in 0..MaxTime, b < t
  PROVE  ComputeNextBeat(b, p, t) \in 0..EndOfTime
<1> DEFINE beat == ComputeNextBeat(b, p, t)
<1>1. beat # EndOfTime => beat \in Nat /\ beat - p <= t
  BY NextBeat
<1>2. p \in Nat /\ t + p <= EndOfTime /\ EndOfTime \in Nat
  BY TimeBaseAssumption, TimeEventAssumption, TimingAssumption
<1> HIDE DEF beat
<1>3. beat \in 0..EndOfTime
  BY <1>1, <1>2
<1> QED
  BY <1>3 DEF beat

(* What happens to the events, in whichever step of the whole.             *)
EventStep ==
  \/ SecondStore \/ PropagatePass \/ PropagateLoad \/ PropagateStore \/ Handle
  \/ \E t \in 0..now : Propagate(t)
  \/ \E t \in 0..MaxTime :
       \/ HandleActivatesAt(t)
       \/ \E e \in Events :
            \/ ActivateAt(e, t) \/ InterruptActivatesAt(e, t)
            \/ \E p \in Periods : ActivatePeriodic(e, t, p)

(* The clock goes on, or the events change.                                *)
LEMMA EventSteps ==
  ASSUME ClockInvariant, [Next]_vars
  PROVE  \/ UNCHANGED eventVars /\ now' >= now
         \/ now' = now /\ EventStep
<1> USE DEF ClockInvariant, ClockTypes
<1>1. CASE Clock(Tick)
  BY <1>1 DEF Clock, Tick
<1>2. CASE Clock(OverflowInterrupt) \/ Clock(Reading)
  BY <1>2 DEF Clock, OverflowInterrupt, Reading, ReadOverflow, ReadTicks, ReadAgain
<1>3. CASE ThreadReadsTime \/ Wrapper
  BY <1>3 DEF ThreadReadsTime, Wrapper, GetNanoseconds
<1>4. CASE ThreadReturns
  BY <1>4 DEF ThreadReturns, Return
<1>5. CASE \E m \in BOOLEAN : ThreadMasks(m)
  BY <1>5 DEF ThreadMasks, Mask
<1>6. CASE ThreadActivates
  BY <1>6 DEF ThreadActivates, baseVars, Ahead, EventStep
<1>7. CASE WrapperPropagates
  <2>1. Microseconds \in 0..now
    BY <1>7 DEF WrapperPropagates, ReadingKnows
  <2>2. now' = now
    BY <1>7 DEF WrapperPropagates, Return
  <2> QED
    BY <1>7, <2>1, <2>2 DEF WrapperPropagates, EventStep
<1>8. CASE WrapperStep
  BY <1>8 DEF WrapperStep, baseVars, Ahead, EventStep
<1>9. CASE DeviceInterrupt
  BY <1>9, TimingAssumption DEF DeviceInterrupt, baseVars, Ahead, EventStep
<1>10. CASE WrapperReturns
  BY <1>10 DEF WrapperReturns
<1>11. CASE UNCHANGED vars
  BY <1>11 DEF vars, baseVars
<1> QED
  BY <1>1, <1>2, <1>3, <1>4, <1>5, <1>6, <1>7, <1>8, <1>9, <1>10, <1>11 DEF Next

(* The iterator stays in the list.                                         *)
LEMMA AdvanceTypes ==
  ASSUME TimeEventTypeOK, Advance
  PROVE  visiting' \in 0..Len(TimeEventList) /\ timeNow' \in 0..EndOfTime
BY TimeEventAssumption DEF TimeEventTypeOK, Advance

(* Types.                                                                  *)
LEMMA NextEventTypes ==
  ASSUME ClockTypes, EventInvariant, EventStep, now' = now
  PROVE  TimeEventTypeOK' /\ SettingTypes'
<1> USE TimeBaseAssumption, TimeEventAssumption, TimingAssumption
    DEF EventInvariant, TimeEventTypeOK, SettingTypes
<1>1. CASE SecondStore
  <2>1. CASE setting.field = "period"
    BY <1>1, <2>1 DEF SecondStore, NoSetting
  <2>2. CASE setting.field # "period"
    <3>1. setting.event \in Events /\ setting.value \in 0..EndOfTime
      BY <1>1, <2>2 DEF SecondStore
    <3>2. /\ eventAt' \in [Events -> 0..EndOfTime] /\ start' \in [Events -> 0..EndOfTime]
          /\ calls' \in [Events -> 0..2] /\ periodic' \subseteq Events /\ spoilt' \subseteq Events
      <4>1. /\ eventAt' = [eventAt EXCEPT ![setting.event] = setting.value]
            /\ start' = [start EXCEPT ![setting.event] = setting.value]
            /\ calls' = [calls EXCEPT ![setting.event] = 0]
            /\ periodic' = periodic \cup {setting.event}
            /\ spoilt' \subseteq spoilt \cup {setting.event}
        BY <1>1, <2>2 DEF SecondStore, Activated
      <4>2. 0 \in 0..2
        OBVIOUS
      <4> QED
        BY <3>1, <4>1, <4>2
    <3> QED
      BY <1>1, <2>2, <3>2 DEF SecondStore
  <2> QED
    BY <2>1, <2>2
<1>2. CASE PropagatePass
  BY <1>2, AdvanceTypes DEF PropagatePass
<1>3. CASE PropagateLoad
  BY <1>3, EventInList DEF PropagateLoad
<1>4. CASE PropagateStore
  <2>1. Event \in Events
    BY <1>4, EventInList DEF PropagateStore
  <2>2. eventPeriod[Event] # 0 =>
          ComputeNextBeat(loaded, eventPeriod[Event], timeNow) \in 0..EndOfTime
    <3>1. loaded < timeNow /\ timeNow \in 0..MaxTime /\ loaded \in 0..EndOfTime
      BY <1>4 DEF PropagateStore, PropagateKnows, ClockTypes
    <3>2. eventPeriod[Event] # 0 => eventPeriod[Event] \in Periods
      BY <2>1
    <3> QED
      BY <3>1, <3>2, BeatInRange
  <2>3. handling' \in BOOLEAN
    BY <1>4, Zenon DEF PropagateStore
  <2>4. eventAt' \in [Events -> 0..EndOfTime] /\ spoilt' \subseteq Events
    BY <1>4, <2>1, <2>2, SMTT(20) DEF PropagateStore
  <2>5. calls' \in [Events -> 0..2]
    BY <1>4, <2>1 DEF PropagateStore
  <2>6. UNCHANGED <<eventPeriod, setting, visiting, timeNow, start, periodic>> /\ loaded' = EndOfTime
    BY <1>4 DEF PropagateStore
  <2> QED
    BY <2>3, <2>4, <2>5, <2>6
<1>5. CASE Handle
  <2>1. handling' \in BOOLEAN
    BY <1>5, Zenon DEF Handle
  <2> QED
    BY <1>5, <2>1, AdvanceTypes DEF Handle
<1>6. ASSUME NEW t \in 0..now, Propagate(t) PROVE TimeEventTypeOK' /\ SettingTypes'
  BY <1>6 DEF Propagate, ClockTypes
<1>7. ASSUME NEW t \in 0..MaxTime, HandleActivatesAt(t) PROVE TimeEventTypeOK' /\ SettingTypes'
  <2>1. handling' \in BOOLEAN
    BY <1>7, Zenon DEF HandleActivatesAt
  <2>2. /\ eventAt' \in [Events -> 0..EndOfTime] /\ eventPeriod' \in [Events -> Periods \cup {0}]
        /\ start' \in [Events -> 0..EndOfTime] /\ calls' \in [Events -> 0..2]
        /\ spoilt' \subseteq Events
    <3>1. /\ eventAt' = [eventAt EXCEPT ![Event] = t]
          /\ eventPeriod' = [eventPeriod EXCEPT ![Event] = 0]
          /\ start' = [start EXCEPT ![Event] = t]
          /\ calls' = [calls EXCEPT ![Event] = 0]
          /\ spoilt' = spoilt \ {Event}
      BY <1>7 DEF HandleActivatesAt, Activated
    <3>2. t \in 0..EndOfTime /\ 0 \in 0..2
      OBVIOUS
    <3> QED
      BY <3>1, <3>2
  <2> QED
    BY <1>7, <2>1, <2>2, AdvanceTypes DEF HandleActivatesAt
<1>8. ASSUME NEW e \in Events, NEW t \in 0..MaxTime, ActivateAt(e, t)
      PROVE  TimeEventTypeOK' /\ SettingTypes'
  BY <1>8 DEF ActivateAt, Activated
<1>9. ASSUME NEW e \in Events, NEW t \in 0..MaxTime, InterruptActivatesAt(e, t)
      PROVE  TimeEventTypeOK' /\ SettingTypes'
  <2>1. /\ eventAt' = [eventAt EXCEPT ![e] = t] /\ eventPeriod' = [eventPeriod EXCEPT ![e] = 0]
        /\ start' = [start EXCEPT ![e] = t] /\ calls' = [calls EXCEPT ![e] = 0]
        /\ periodic' = periodic \ {e} /\ spoilt' \subseteq spoilt \cup {e}
        /\ UNCHANGED <<setting, visiting, loaded, handling, timeNow>>
    BY <1>9 DEF InterruptActivatesAt, Activated
  <2>2. t \in 0..EndOfTime /\ 0 \in 0..2
    OBVIOUS
  <2>3. /\ eventAt' \in [Events -> 0..EndOfTime] /\ eventPeriod' \in [Events -> Periods \cup {0}]
        /\ start' \in [Events -> 0..EndOfTime] /\ calls' \in [Events -> 0..2]
    BY <2>1, <2>2
  <2> QED
    BY <2>1, <2>3
<1>10. ASSUME NEW e \in Events, NEW t \in 0..MaxTime, NEW p \in Periods, ActivatePeriodic(e, t, p)
      PROVE  TimeEventTypeOK' /\ SettingTypes'
  BY <1>10 DEF ActivatePeriodic
<1> QED
  BY <1>1, <1>2, <1>3, <1>4, <1>5, <1>6, <1>7, <1>8, <1>9, <1>10 DEF EventStep

(* propagate() never has a time that has not come.                         *)
LEMMA NextPropagate ==
  ASSUME ClockTypes, EventInvariant, EventStep, now' = now
  PROVE  PropagateKnows'
<1> USE TimeBaseAssumption, TimeEventAssumption
    DEF EventInvariant, TimeEventTypeOK, PropagateKnows, ClockTypes
<1>1. CASE SecondStore
  BY <1>1 DEF SecondStore
<1>2. CASE PropagatePass
  BY <1>2 DEF PropagatePass, Advance
<1>3. CASE PropagateLoad
  BY <1>3 DEF PropagateLoad, Event
<1>4. CASE PropagateStore
  BY <1>4 DEF PropagateStore
<1>5. CASE Handle
  BY <1>5 DEF Handle, Advance
<1>6. ASSUME NEW t \in 0..now, Propagate(t) PROVE PropagateKnows'
  BY <1>6 DEF Propagate
<1>7. ASSUME NEW t \in 0..MaxTime, HandleActivatesAt(t) PROVE PropagateKnows'
  BY <1>7 DEF HandleActivatesAt, Advance
<1>8. ASSUME NEW e \in Events, NEW t \in 0..MaxTime, ActivateAt(e, t) PROVE PropagateKnows'
  BY <1>8 DEF ActivateAt
<1>9. ASSUME NEW e \in Events, NEW t \in 0..MaxTime, InterruptActivatesAt(e, t)
      PROVE  PropagateKnows'
  BY <1>9 DEF InterruptActivatesAt, Event
<1>10. ASSUME NEW e \in Events, NEW t \in 0..MaxTime, NEW p \in Periods, ActivatePeriodic(e, t, p)
      PROVE  PropagateKnows'
  BY <1>10 DEF ActivatePeriodic
<1> QED
  BY <1>1, <1>2, <1>3, <1>4, <1>5, <1>6, <1>7, <1>8, <1>9, <1>10 DEF EventStep

(* No activation is forgotten, and no one-shot event stays armed.          *)
LEMMA NextActivation ==
  ASSUME ClockTypes, EventInvariant, EventStep, now' = now
  PROVE  ActivationKnows'
<1> USE DEF EventInvariant, TimeEventTypeOK, ActivationKnows, OneShotDone
<1>1. CASE SecondStore
  BY <1>1 DEF SecondStore, Activated, SettingTypes, NoSetting
<1>2. CASE PropagatePass
  BY <1>2 DEF PropagatePass
<1>3. CASE PropagateLoad
  BY <1>3 DEF PropagateLoad
<1>4. CASE PropagateStore
  BY <1>4, EventInList DEF PropagateStore, PropagateKnows
<1>5. CASE Handle
  BY <1>5 DEF Handle
<1>6. ASSUME NEW t \in 0..now, Propagate(t) PROVE ActivationKnows'
  BY <1>6 DEF Propagate
<1>7. ASSUME NEW t \in 0..MaxTime, HandleActivatesAt(t) PROVE ActivationKnows'
  BY <1>7 DEF HandleActivatesAt, Activated
<1>8. ASSUME NEW e \in Events, NEW t \in 0..MaxTime, ActivateAt(e, t) PROVE ActivationKnows'
  <2>1. \A f \in Events : setting.event # f
    BY <1>8, TimeEventAssumption DEF ActivateAt, NoSetting
  <2> QED
    BY <1>8, <2>1 DEF ActivateAt, Activated
<1>9. ASSUME NEW e \in Events, NEW t \in 0..MaxTime, InterruptActivatesAt(e, t)
      PROVE  ActivationKnows'
  BY <1>9 DEF InterruptActivatesAt, Activated
<1>10. ASSUME NEW e \in Events, NEW t \in 0..MaxTime, NEW p \in Periods, ActivatePeriodic(e, t, p)
      PROVE  ActivationKnows'
  <2>1. \A f \in Events : setting.event # f
    BY <1>10, TimeEventAssumption DEF ActivatePeriodic, NoSetting
  <2>2. ASSUME NEW f \in Events \ spoilt', f # e
        PROVE  /\ eventAt'[f] = eventAt[f] /\ eventPeriod'[f] = eventPeriod[f] /\ start'[f] = start[f]
               /\ calls'[f] = calls[f] /\ (f \in periodic <=> f \in periodic') /\ f \notin spoilt
               /\ setting'.event # f
    BY <1>10, <2>2 DEF ActivatePeriodic
  <2>3. eventPeriod'[e] # 0 /\ setting'.event = e /\ setting'.field = "time"
    BY <1>10, TimeEventAssumption DEF ActivatePeriodic
  <2>4. UNCHANGED <<eventAt, start, calls, periodic, spoilt>>
    BY <1>10 DEF ActivatePeriodic
  <2> QED
    BY <2>1, <2>2, <2>3, <2>4
<1> QED
  BY <1>1, <1>2, <1>3, <1>4, <1>5, <1>6, <1>7, <1>8, <1>9, <1>10 DEF EventStep

(* Beats.                                                                  *)

(* A period is positive.                                                   *)
LEMMA PeriodTypes == ASSUME NEW p \in Periods PROVE p \in Nat \ {0}
BY TimeEventAssumption

(* Several periods after a beat is a beat.                                 *)
LEMMA BeatsApart ==
  ASSUME NEW p \in Nat \ {0}, NEW x \in Int, NEW k \in Nat, x % p = 0
  PROVE  (x + k * p) % p = 0
<1>1. PICK q \in Int : x = q * p
  <2>1. x = (x \div p) * p + (x % p) /\ x \div p \in Int
    OBVIOUS
  <2> QED
    BY <2>1
<1>2. x + k * p = (q + k) * p /\ q + k \in Int
  BY <1>1
<1>3. \A n \in Int : (n * p) % p = 0
  OBVIOUS
<1> QED
  BY <1>2, <1>3

(* The beat of one event, as OnBeat states it for all.                     *)
Periodic(e) == eventPeriod[e] # 0 /\ calls[e] > 0 /\ setting.event # e /\ eventAt[e] # EndOfTime
KeepsBeat(e) ==
  /\ (eventAt[e] - start[e]) % eventPeriod[e] = 0
  /\ eventAt[e] - eventPeriod[e] <= now
  /\ handling /\ Event = e => eventAt[e] > timeNow
Beats == \A e \in Events \ spoilt : Periodic(e) => KeepsBeat(e)

(* propagate() arms a periodic event for a beat, the first after now.      *)
LEMMA StoreBeat ==
  ASSUME ClockTypes, EventInvariant, Beats, PropagateStore, now' = now,
         Event \notin spoilt', Periodic(Event)'
  PROVE  KeepsBeat(Event)'
<1> DEFINE p == eventPeriod[Event]
           s == start[Event]
           b == eventAt[Event]
           n == ComputeNextBeat(b, p, timeNow)
<1> USE DEF EventInvariant, TimeEventTypeOK
<1>1. Event \in Events /\ Event \notin spoilt /\ Event' = Event
  BY EventInList DEF PropagateStore, Event
<1>2. p \in Periods /\ setting.event # Event
  BY <1>1 DEF PropagateStore, Periodic
<1>3. loaded = b /\ b < timeNow /\ b # EndOfTime /\ b \in 0..EndOfTime /\ timeNow \in 0..MaxTime
      /\ timeNow <= now
  BY <1>1, TimeBaseAssumption DEF PropagateStore, PropagateKnows, ClockTypes
<1>4. /\ eventAt'[Event] = n /\ eventPeriod'[Event] = p /\ start'[Event] = s
      /\ timeNow' = timeNow /\ n # EndOfTime
  BY <1>1, <1>2, <1>3 DEF PropagateStore, Periodic
<1>5. (b - s) % p = 0
  <2>1. CASE calls[Event] = 0
    <3>1. b = s /\ b \in Int
      BY <1>1, <1>3, <2>1 DEF ActivationKnows
    <3> HIDE DEF p, s, b
    <3>2. p \in Nat \ {0} /\ b - s = 0
      BY <1>2, <3>1, PeriodTypes
    <3> QED
      BY <3>2
  <2>2. CASE calls[Event] # 0
    <3>1. p # 0
      BY <1>2, TimeEventAssumption
    <3>2. calls[Event] > 0
      BY <1>1, <2>2
    <3>3. Periodic(Event)
      BY <1>2, <1>3, <3>1, <3>2 DEF Periodic
    <3> QED
      BY <1>1, <3>3 DEF Beats, KeepsBeat
  <2> QED
    BY <2>1, <2>2
<1>6. PICK k \in Nat : n = b + k * p
  BY <1>2, <1>3, <1>4, NextBeat
<1>7. n > timeNow /\ n - p <= timeNow /\ n \in Nat
  BY <1>2, <1>3, <1>4, NextBeat
<1>8. p \in Nat \ {0} /\ s \in Int /\ b \in Int
  <2>1. p \in Nat \ {0}
    <3> HIDE DEF p
    <3> QED
      BY <1>2, PeriodTypes
  <2>2. s \in Int /\ b \in Int
    BY <1>1, TimeEventAssumption
  <2> QED
    BY <2>1, <2>2
<1>9. (n - s) % p = 0
  <2> HIDE DEF n, p, s, b
  <2>0. b - s \in Int /\ k \in Nat
    BY <1>8
  <2>1. ((b - s) + k * p) % p = 0
    BY <1>5, <1>8, <2>0, BeatsApart
  <2>2. n - s = (b - s) + k * p
    BY <1>6, <1>7, <1>8
  <2> QED
    BY <2>1, <2>2
<1> HIDE DEF n, p, s, b
<1>10. (eventAt'[Event] - start'[Event]) % eventPeriod'[Event] = 0
  BY <1>4, <1>9
<1>11. eventAt'[Event] - eventPeriod'[Event] <= now' /\ eventAt'[Event] > timeNow'
  BY <1>3, <1>4, <1>7, <1>8 DEF ClockTypes
<1> QED
  BY <1>1, <1>10, <1>11 DEF KeepsBeat

(* Every other step leaves an event on its beat.                           *)
LEMMA NextBeats ==
  ASSUME ClockTypes, EventInvariant, Beats, EventStep, now' = now
  PROVE  Beats'
<1> SUFFICES ASSUME NEW e \in Events, e \notin spoilt', Periodic(e)' PROVE KeepsBeat(e)'
  BY DEF Beats
<1> USE DEF EventInvariant, TimeEventTypeOK
<1>0. e \notin spoilt /\ Periodic(e) => KeepsBeat(e)
  BY DEF Beats
<1> USE <1>0, TimeEventAssumption DEF Periodic, KeepsBeat
<1>1. CASE SecondStore
  <2>1. CASE setting.event = e
    BY <1>1, <2>1 DEF SecondStore, Activated, SettingTypes, NoSetting
  <2>2. CASE setting.event # e
    <3>1. /\ eventAt'[e] = eventAt[e] /\ eventPeriod'[e] = eventPeriod[e] /\ start'[e] = start[e]
          /\ calls'[e] = calls[e] /\ handling' = handling /\ timeNow' = timeNow /\ Event' = Event
          /\ (e \in spoilt <=> e \in spoilt')
      BY <1>1, <2>2 DEF SecondStore, Activated, Event
    <3> QED
      BY <2>2, <3>1
  <2> QED
    BY <2>1, <2>2
<1>2. CASE PropagatePass
  BY <1>2 DEF PropagatePass
<1>3. CASE PropagateLoad
  BY <1>3 DEF PropagateLoad
<1>4. CASE PropagateStore
  <2>1. CASE e = Event
    BY <1>4, <2>1, StoreBeat DEF PropagateStore, Event
  <2>2. CASE e # Event
    BY <1>4, <2>2 DEF PropagateStore, Event
  <2> QED
    BY <2>1, <2>2
<1>5. CASE Handle
  BY <1>5 DEF Handle
<1>6. ASSUME NEW t \in 0..now, Propagate(t) PROVE KeepsBeat(e)'
  BY <1>6 DEF Propagate, PropagateKnows
<1>7. ASSUME NEW t \in 0..MaxTime, HandleActivatesAt(t) PROVE KeepsBeat(e)'
  BY <1>7 DEF HandleActivatesAt, Activated
<1>8. ASSUME NEW f \in Events, NEW t \in 0..MaxTime, ActivateAt(f, t) PROVE KeepsBeat(e)'
  <2>1. e # f /\ setting.event # e
    BY <1>8 DEF ActivateAt, NoSetting
  <2>2. /\ eventAt'[e] = eventAt[e] /\ eventPeriod'[e] = eventPeriod[e] /\ start'[e] = start[e]
        /\ calls'[e] = calls[e] /\ handling' = handling /\ timeNow' = timeNow /\ Event' = Event
        /\ (e \in spoilt <=> e \in spoilt')
    BY <1>8, <2>1 DEF ActivateAt, Activated, Event
  <2> QED
    BY <2>1, <2>2
<1>9. ASSUME NEW f \in Events, NEW t \in 0..MaxTime, InterruptActivatesAt(f, t)
      PROVE  KeepsBeat(e)'
  BY <1>9 DEF InterruptActivatesAt, Activated, Event
<1>10. ASSUME NEW f \in Events, NEW t \in 0..MaxTime, NEW p \in Periods, ActivatePeriodic(f, t, p)
      PROVE  KeepsBeat(e)'
  <2>1. e # f /\ setting.event # e
    BY <1>10 DEF ActivatePeriodic, NoSetting
  <2>2. /\ eventAt'[e] = eventAt[e] /\ eventPeriod'[e] = eventPeriod[e] /\ start'[e] = start[e]
        /\ calls'[e] = calls[e] /\ handling' = handling /\ timeNow' = timeNow /\ Event' = Event
        /\ (e \in spoilt <=> e \in spoilt')
    BY <1>10, <2>1 DEF ActivatePeriodic, Activated, Event
  <2> QED
    BY <2>1, <2>2
<1> QED
  BY <1>1, <1>2, <1>3, <1>4, <1>5, <1>6, <1>7, <1>8, <1>9, <1>10 DEF EventStep

(* The events' invariant and their beats hold always.                      *)
LEMMA EventsHold == Spec => [](ClockInvariant /\ EventInvariant /\ Beats)
<1>0. \A p \in Periods \cup {0} : p \in Int
  BY PeriodTypes
<1>1. Init => Beats
  BY DEF Init, TimeEventInit, Beats, Periodic
<1>2. ASSUME ClockInvariant, EventInvariant, Beats, [Next]_vars
      PROVE  EventInvariant' /\ Beats'
  <2>1. CASE UNCHANGED eventVars /\ now' >= now
    <3> USE <1>2, <2>1, TimeEventAssumption
        DEF eventVars, ClockInvariant, ClockTypes, EventInvariant, TimeEventTypeOK
    <3>1. now \in Int /\ now' \in Int
      BY NextClockTypes, TimeBaseAssumption
    <3>2. TimeEventTypeOK' /\ SettingTypes' /\ ActivationKnows'
      BY DEF SettingTypes, ActivationKnows, OneShotDone
    <3>3. PropagateKnows'
      BY <3>1 DEF PropagateKnows, Event
    <3>4. ASSUME NEW e \in Events, e \notin spoilt', Periodic(e)' PROVE KeepsBeat(e)'
      <4>1. KeepsBeat(e)
        BY <3>4 DEF Beats, Periodic
      <4>2. eventAt[e] \in 0..EndOfTime /\ eventPeriod[e] \in Periods \cup {0}
        OBVIOUS
      <4>3. eventPeriod[e] \in Int
        BY <4>2, <1>0
      <4> QED
        BY <3>1, <4>1, <4>2, <4>3 DEF KeepsBeat, Event
    <3> QED
      BY <3>2, <3>3, <3>4 DEF Beats
  <2>2. CASE now' = now /\ EventStep
    BY <1>2, <2>2, NextEventTypes, NextPropagate, NextActivation, NextBeats
       DEF ClockInvariant, EventInvariant
  <2> QED
    BY <1>2, <2>1, <2>2, EventSteps
<1> QED
  BY <1>1, <1>2, ClockHolds, InitEvents, PTL DEF Spec

(* No handler is called before its time: propagate() never takes out an    *)
(* event that is not over in true time, however the counter of the clock   *)
(* overflows while it is read.                                             *)
THEOREM NoHandlerEarly == Spec => []NeverEarly
<1>1. ASSUME ClockInvariant, EventInvariant PROVE NeverEarly
  BY <1>1, TimeBaseAssumption
     DEF ClockInvariant, ClockTypes, EventInvariant, TimeEventTypeOK, PropagateKnows, NeverEarly
<1> QED
  BY EventsHold, <1>1, PTL

(* An activated event stays activated until its handler is called, the     *)
(* handler of a one-shot event is called once and a periodic event keeps a *)
(* period, for any number of events, threads' activations and interrupts,  *)
(* outside the three orders of steps that spoil an event.                  *)
THEOREM NoActivationLost == Spec => []ActivationExact
<1>1. ASSUME EventInvariant PROVE ActivationExact
  <2>1. ASSUME NEW e \in Events \ spoilt
        PROVE  /\ calls[e] = 0 => eventAt[e] = start[e]
               /\ eventPeriod[e] = 0 => calls[e] <= 1
               /\ setting.event # e => (eventPeriod[e] # 0 <=> e \in periodic)
    <3>1. calls[e] \in 0..2
      BY <1>1 DEF EventInvariant, TimeEventTypeOK
    <3>2. /\ calls[e] = 0 => eventAt[e] = start[e]
          /\ OneShotDone(e)
          /\ setting.event # e => (eventPeriod[e] # 0 <=> e \in periodic)
      BY <1>1 DEF EventInvariant, ActivationKnows
    <3> QED
      BY <3>1, <3>2 DEF OneShotDone
  <2> QED
    BY <2>1 DEF ActivationExact
<1> QED
  BY EventsHold, <1>1, PTL

(* A periodic event is armed for a beat of its own and skips none that is  *)
(* still to come, whatever its period and however late propagate() was.    *)
THEOREM BeatsKept == Spec => []OnBeat
<1>1. ASSUME EventInvariant, Beats PROVE OnBeat
  <2>1. TimeEventTypeOK
    BY <1>1 DEF EventInvariant
  <2> QED
    BY <1>1, <2>1 DEF Beats, Periodic, KeepsBeat, OnBeat
<1> QED
  BY EventsHold, <1>1, PTL
=============================================================================
