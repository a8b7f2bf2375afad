------------------------------- MODULE Waiting ------------------------------
(***************************************************************************)
(* Two threads that use everything the kernel offers for waiting, composed  *)
(* of SyncFifo, Barrier and GenericIO: one writes into a SyncFifo and       *)
(* answers requests, the other reads from the fifo, requests and waits for  *)
(* a device.  All of it ends in the same suspendedUntil and the same        *)
(* resume(), so that a wake-up of one kind can reach a wait of another.     *)
(***************************************************************************)
EXTENDS SyncFifo, Barrier, GenericIO

CONSTANTS
  FifoTimeouts, \* the timeouts of syncPut and syncGet
  Timeouts      \* the other timeouts

ASSUME WaitingAssumption ==
  /\ Threads = {Writer, Reader} /\ Writer # Reader
  /\ Client = Reader /\ User = Reader /\ Server = Writer
  /\ Capacity \in Nat \ {0}
  /\ Nobody \notin All /\ NoCaller \notin Conditions \cup All
  /\ FifoTimeouts \subseteq {"zero", "timed", "forever"}
  /\ Timeouts \subseteq {"timed", "forever"}

VARIABLES
  broken,   \* a SysTick took the CPU from a thread in a PRIORITY_CEILER_IN_SCOPE,
            \* for another one that has the ceiling priority or was preselected
  stray     \* the device resumed its user out of another wait

ghosts == <<broken, stray>>
waitingVars == <<schedVars, prio, susp, pc, saved, syncVars, barrierVars, ioVars, ghosts>>

WaitingInit ==
  /\ \E p \in Priorities : SchedulingInit(p)
  /\ SyncInit /\ BarrierInit /\ IoInit
  /\ broken = FALSE
  /\ stray = FALSE

(* Until no thread is in a ceiler, and until the wait is over.             *)
Broken(now) == broken' = ((broken \/ now) /\ \E t \in Threads : prio'[t] = Ceiling)
Stray(now) == stray' = ((stray \/ now) /\ pc'[User] # "run")

(* Where threads are in the middle of a yield.                             *)
WaitYieldPcs == {"yield", "suspendYield", "waitYield", "ioYield"}

TickPreempts ==
  /\ Preempt(WaitYieldPcs)
  /\ Broken(prio[running] = Ceiling /\ susp[running] = "no" /\ running' # running)
  /\ UNCHANGED <<syncVars, barrierVars, ioVars, stray>>

IdleStep ==
  /\ IdleYields
  /\ UNCHANGED <<syncVars, barrierVars, ioVars, ghosts>>

TimeOver(t) ==
  /\ Expire(t)
  /\ UNCHANGED <<syncVars, barrierVars, ioVars, ghosts>>

Interrupt(c) ==
  /\ UpCall(c)
  /\ Stray(caller[c] = User /\ awaited.condition # c /\ susp[User] # "no")
  /\ UNCHANGED <<syncVars, barrierVars, broken>>

FifoStep(t) ==
  /\ \/ SyncStep(t)
     \/ \E until \in FifoTimeouts : Sync(t, until)
     \/ t = Writer /\ PutGeneric
  /\ Broken(FALSE) /\ Stray(FALSE)
  /\ UNCHANGED <<barrierVars, ioVars>>

SignalStep ==
  /\ BarrierStep \/ Respond \/ \E until \in Timeouts : RequestAndWait(until)
  /\ Broken(FALSE) /\ Stray(FALSE)
  /\ UNCHANGED <<syncVars, ioVars>>

IoStep ==
  /\ \/ SuspendYield \/ SuspendBack
     \/ \E c \in Conditions : StartIo(c) \/ \E until \in Timeouts : SuspendUntil(c, until)
  /\ Broken(FALSE) /\ Stray(FALSE)
  /\ UNCHANGED <<syncVars, barrierVars>>

WaitingNext ==
  \/ TickPreempts \/ IdleStep
  \/ \E t \in Threads : TimeOver(t) \/ FifoStep(t)
  \/ SignalStep
  \/ IoStep
  \/ \E c \in Conditions : Interrupt(c)

WaitingSpec == WaitingInit /\ [][WaitingNext]_waitingVars

(* SysTicks keep coming, the CPU goes on with what a thread has begun and  *)
(* time passes; neither devices nor the application need do anything.      *)
Begun == pc[running] # "run" /\ (SignalStep \/ IoStep \/ \E t \in Threads : FifoStep(t))
WaitingFairness ==
  /\ WF_waitingVars(TickPreempts) /\ WF_waitingVars(Begun)
  /\ \A t \in Threads : WF_waitingVars(TimeOver(t))

WaitingFairSpec == WaitingSpec /\ WaitingFairness

-----------------------------------------------------------------------------
(* Nobody waits for the fifo while it could go on, whatever the order of   *)
(* registration, suspension and wake-up: unless the other side is awake    *)
(* and on its way to wake it, or a ceiler was broken.  (With the types of  *)
(* the threads and the fifo.)                                              *)
WaitsForFifo(t) == susp[t] = "forever" /\ pc[t] \in {"suspendYield", "unregister"}
NobodyForgotten ==
  /\ SchedulingTypeOK /\ SyncTypeOK
  /\ pc \in [All -> {"run"} \cup SyncPcs \cup WaitPcs \cup UnblockPcs \cup {"respond"} \cup IoPcs]
  /\ \A t \in Sides :
       WaitsForFifo(t) /\ (pc[Partner(t)] \notin SyncPcs \/ WaitsForFifo(Partner(t)))
         => ~Possible(t) \/ broken

(* Who waits for the fifo without timeout and could go on is woken.        *)
EventuallyWoken ==
  \A t \in Sides : WaitsForFifo(t) /\ Possible(t) ~> susp[t] = "no" \/ broken

(* unblock() calls resume() of the thread that waits, and not through the  *)
(* null pointer that a waiter leaves behind whose time is over.            *)
UnblockFindsOwner ==
  pc[Server] = "unblockResume" /\ ~broken => barrierOwner # Nobody

(* "Returns false in case of time out, else true" (barrier.h): nothing     *)
(* else makes it return false, unless the ceiler was broken between        *)
(* owner->resume() and owner = 0 or the device resumed the thread.         *)
FalseOnlyByTimeOut ==
  pc[Client] = "waitEnd" /\ ~signalled /\ timeOutAt = "forever" => broken \/ stray

(* A client does not sleep when its response has come, unless it came in   *)
(* the moment between reading the flag and the ceiler of waitForSignal.    *)
(* (With the types of the barrier.)                                        *)
ResponseWakes ==
  /\ BarrierTypeOK
  /\ susp[Client] = "forever" /\ pc[Client] \in {"waitYield", "waitWoken"} /\ ~responsePending
       => missed \/ broken \/ pc[Server] \in UnblockPcs

(* suspendUntilX without timeout: sleeps only while the condition is not   *)
(* fulfilled and returns only when it is, unless a stray upcall ended it.  *)
(* A device can resume a thread that does not wait for it only if an       *)
(* earlier wait for that device ended by timeout.  (With the types of the  *)
(* devices.)                                                               *)
IoWaitExact ==
  /\ IoTypeOK
  /\ pc[User] \in IoPcs /\ awaited.until = "forever" =>
       IF susp[User] = "no" THEN awaited.condition \in fulfilled \/ stray
       ELSE awaited.condition \notin fulfilled
  /\ \A c \in Conditions : caller[c] # NoCaller => awaited.condition = c \/ c \in unanswered

(* "If no timeout is given [...] it will wait until the fifo is not        *)
(* empty/full" (fifo.h).  A syncPut or syncGet without timeout is awake    *)
(* for its second attempt only when that is possible, unless the other     *)
(* side woke it for what it had already taken or the device resumed it.    *)
UntimedSucceeds ==
  \A t \in Sides : pc[t] = "retry" /\ timeout[t] = "forever" =>
    Possible(t) \/ t \in futile \/ (t = User /\ stray)
=============================================================================
