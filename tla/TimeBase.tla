------------------------------ MODULE TimeBase ------------------------------
(***************************************************************************)
(* The clock of the ports (cm7/hw_timer.cpp of the STM32H7, and             *)
(* stm32f4/hw_timer.cpp): a free-running hardware counter, the count of its *)
(* overflows kept by an interrupt handler, and hwGetNanoseconds(), which    *)
(* reads the two one after the other.                                       *)
(*                                                                          *)
(* A pending interrupt is taken before the next step of the code it         *)
(* interrupts, unless that code runs with interrupts disabled or in a       *)
(* handler of the same priority.  The handler is that of the STM32F4; the   *)
(* H7's is not the one that its vector table names (see README).            *)
(***************************************************************************)
EXTENDS Integers

CONSTANTS
  Wrap,      \* the counter's range, 2^32 in the code
  MaxTime    \* bound: how long the clock runs

ASSUME TimeBaseAssumption == Wrap \in Nat \ {0} /\ MaxTime \in Nat

VARIABLES
  now,           \* true time
  overflowFlag,  \* TIM_FLAG_UPDATE
  timerOverflowCount,
  masked,        \* the running code does not let the timer's interrupt through
  npc,           \* where hwGetNanoseconds is
  overflow1, ticks,  \* its local variables
  called,        \* when it was called
  hidden         \* an overflow was pending and masked during the call

baseVars == <<now, overflowFlag, timerOverflowCount, masked, npc, overflow1, ticks, called, hidden>>

TimeBaseInit ==
  /\ now = 0
  /\ overflowFlag = FALSE /\ timerOverflowCount = 0
  /\ masked = FALSE
  /\ npc = "idle" /\ overflow1 = 0 /\ ticks = 0
  /\ called = 0 /\ hidden = FALSE

(* The hardware.                                                           *)
CNT == now % Wrap

(* The interrupt of an overflow is served before the next one comes.       *)
Tick ==
  /\ now < MaxTime
  /\ ~(overflowFlag /\ (now + 1) % Wrap = 0)
  /\ now' = now + 1
  /\ overflowFlag' = (overflowFlag \/ (now + 1) % Wrap = 0)
  /\ hidden' = (hidden \/ (npc # "idle" /\ masked /\ overflowFlag'))
  /\ UNCHANGED <<timerOverflowCount, masked, npc, overflow1, ticks, called>>

(* Mutant: the overflow is not counted.                                    *)
OverflowInterruptUncounted ==
  /\ overflowFlag /\ ~masked
  /\ overflowFlag' = FALSE
  /\ UNCHANGED <<now, timerOverflowCount, masked, npc, overflow1, ticks, called, hidden>>

(* TIMx_IRQHandler.                                                        *)
OverflowInterrupt ==
  /\ overflowFlag /\ ~masked
  /\ overflowFlag' = FALSE
  /\ timerOverflowCount' = timerOverflowCount + 1
  /\ UNCHANGED <<now, masked, npc, overflow1, ticks, called, hidden>>

NotInterrupted == overflowFlag => masked

(* hwDisableInterrupts and hwEnableInterrupts, or begin and end of another *)
(* handler of the timer's priority.                                        *)
Mask(m) ==
  /\ masked # m /\ (NotInterrupted \/ masked)
  /\ masked' = m
  /\ UNCHANGED <<now, overflowFlag, timerOverflowCount, npc, overflow1, ticks, called, hidden>>

-----------------------------------------------------------------------------
(* hwGetNanoseconds.                                                       *)

GetNanoseconds ==
  /\ npc = "idle" /\ NotInterrupted
  /\ npc' = "overflow"
  /\ called' = now
  /\ hidden' = overflowFlag
  /\ UNCHANGED <<now, overflowFlag, timerOverflowCount, masked, overflow1, ticks>>

ReadOverflow ==
  /\ npc = "overflow" /\ NotInterrupted
  /\ overflow1' = timerOverflowCount
  /\ npc' = "ticks"
  /\ UNCHANGED <<now, overflowFlag, timerOverflowCount, masked, ticks, called, hidden>>

ReadTicks ==
  /\ npc = "ticks" /\ NotInterrupted
  /\ ticks' = CNT
  /\ npc' = "again"
  /\ UNCHANGED <<now, overflowFlag, timerOverflowCount, masked, overflow1, called, hidden>>

(* Mutant: the overflow count is not compared.                             *)
ReadOnce ==
  /\ npc = "again" /\ NotInterrupted
  /\ npc' = "done"
  /\ UNCHANGED <<now, overflowFlag, timerOverflowCount, masked, overflow1, ticks, called, hidden>>

(* Mutant: the count read last is taken instead of reading again.          *)
ReadAgainTakesLast ==
  /\ npc = "again" /\ NotInterrupted
  /\ overflow1' = timerOverflowCount
  /\ npc' = "done"
  /\ UNCHANGED <<now, overflowFlag, timerOverflowCount, masked, ticks, called, hidden>>

ReadAgain ==
  /\ npc = "again" /\ NotInterrupted
  /\ npc' = IF overflow1 = timerOverflowCount THEN "done" ELSE "overflow"
  /\ UNCHANGED <<now, overflowFlag, timerOverflowCount, masked, overflow1, ticks, called, hidden>>

(* The result, and the return with it.                                     *)
Microseconds == overflow1 * Wrap + ticks

Return ==
  /\ npc = "done" /\ NotInterrupted
  /\ npc' = "idle" /\ overflow1' = 0 /\ ticks' = 0 /\ called' = 0 /\ hidden' = FALSE
  /\ UNCHANGED <<now, overflowFlag, timerOverflowCount, masked>>

Reading == ReadOverflow \/ ReadTicks \/ ReadAgain

-----------------------------------------------------------------------------
(* Type correctness of the clock.                                          *)
TimeBaseTypeOK ==
  /\ now \in 0..MaxTime
  /\ timerOverflowCount \in 0..(MaxTime \div Wrap)
  /\ {overflowFlag, masked, hidden} \subseteq BOOLEAN
  /\ npc \in {"idle", "overflow", "ticks", "again", "done"}
  /\ overflow1 \in 0..(MaxTime \div Wrap) /\ ticks \in 0..Wrap - 1
  /\ called \in 0..MaxTime

(* "Guard against timer overflow racing between reading the two values":   *)
(* the result is the time at some moment of the call, however often the    *)
(* counter overflows during it, unless an overflow is hidden from it.      *)
(* (With the types of the clock.)                                          *)
ReadingInCall ==
  /\ TimeBaseTypeOK
  /\ npc = "done" /\ ~hidden => Microseconds \in called..now
=============================================================================
