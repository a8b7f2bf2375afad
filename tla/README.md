# Formal models of the RODOS core

RODOS is a small real-time operating system for satellites. This repository ports it to
the Arduino Portenta H7 (STM32H7, a Cortex-M7 and a Cortex-M4). This directory holds TLA+
models of the parts that decide whether a RODOS application is correct (the scheduler, the
primitives threads and interrupts share, the clock, and the network between nodes), TLC
configurations and TLAPS proofs.
Paths below are relative to `src/rodos/`.

## The system

| part | state | operations | what is hard |
|---|---|---|---|
| Scheduler and threads: `src/bare-metal-generic/{thread_on_hw,scheduler,hw_specific_generic}.cpp`, `api/thread.h` | `currentThread`; per thread `priority`, `suspendedUntil`, `waitingFor`, `lastActivation`; `timeToTryAgainToSchedule`, `yieldSchedulingLock`, the preselection, the SysTick interval | `yield`, `suspendCallerUntil`, `resume`, the idle thread, `schedulerWrapper`, `schedule` | a SysTick (which requests PendSV and runs the scheduler) comes between any two instructions of `yield`; device interrupts call `resume` even inside the scheduler |
| Semaphore: `src/bare-metal-generic/rodos-semaphore.cpp` | `owner`, `ownerEnterCnt`, `ownerPriority` | `enter`, `leave` | protected by the ceiling priority only, which the threads that wait also have |
| Fifo, SyncFifo, MultipleReaderFifo, BlockFifo: `api/fifo.h` | ring buffer, `readX`, `writeX`; the suspended reader and writer | `put`, `get`, `clear`, `syncPut`, `syncGet`, block access | no lock: reader and writer interrupt each other |
| CommBuffer: `api/commbuffer.h` | three buffers, three pointers, two flags | `put`, `get`, `getOnlyIfNewData` | exchange of buffers during a non-atomic copy |
| TimeEvent: `src/independent/timeevent.cpp` | list of events with time and period | `activateAt`, `activatePeriodic`, `propagate` (in the scheduler interrupt) | two stores per activation; interrupts and the handler itself activate again |
| Barrier: `src/independent/barrier.cpp`; GenericIO: `src/independent/genericIO.cpp` | the one thread that waits | wait with timeout, unblock or upcall | timeout against late signal |
| Time base: `src/bare-metal/stm32h7/cm7/hw_timer.cpp`, `src/bare-metal/stm32f4/hw_timer.cpp` | hardware counter and overflow count | `hwGetNanoseconds`, overflow interrupt | reading the two in two steps |
| Middleware: `src/independent/{topic,subscriber}.cpp`, `src/independent/gateway/` | topics, subscribers, seen messages, routes, partly received CAN messages | publish, forward, reassemble | duplicates, lost frames, an error return with the semaphore entered |

How they interact: everything that waits calls `suspendCallerUntil` (or stores
`suspendedUntil` and calls `yield`) and is woken by `resume`, from a thread, from a
TimeEvent handler inside the scheduler, or from the handler of a device interrupt. Critical
regions of threads raise their own priority (`PRIORITY_CEILER_IN_SCOPE`) and use no lock.
Fifos and CommBuffers are the subscribers of topics and are filled by interrupts, by
threads and by the gateway.

`PROJECT.json` lists every part with its status and every hazard with its line.

## Modules

| module | models |
|---|---|
| `Kernel` (`MCKernel`), `Kernel_proofs` | the scheduler with its interrupts, in relative time |
| `Selection` (`MCSelection`), `Selection_proofs` | `findNextToRun`, one list element per step |
| `Scheduling`, `Scheduling_proofs` | the scheduler as threads see it, the base of the next five; the proofs are about `Semaphore` and `Waiting` |
| `Semaphore` (`MCSemaphore`) | `enter` and `leave` |
| `SyncFifo` | `syncPut`, `syncGet` and `putGeneric` with their timeouts |
| `Barrier` | `waitForSignal` and `unblock`, and requests and responses built on them |
| `GenericIO` | `suspendUntilX` and `upCallX` of the device drivers |
| `Waiting` (`MCWaiting`) | composes `SyncFifo`, `Barrier` and `GenericIO`: two threads use all three |
| `BoundedQueue` | abstract specification: a queue with atomic operations |
| `Fifo` | the ring buffer, shown to implement `BoundedQueue` |
| `BlockFifo`, `Fifo_proofs` | extends `Fifo` by the lending of blocks; the proofs are about both |
| `CommBuffer`, `CommBuffer_proofs` | the three-buffer exchange |
| `TimeBase` | the hardware counter, its overflow interrupt, `hwGetNanoseconds` |
| `TimeEvent` | `activateAt`, `activatePeriodic`, `propagate`, `computeNextBeat` |
| `Timing` (`MCTiming`), `Timing_proofs` | composes `TimeBase` and `TimeEvent`: `propagate(NOW())` |
| `Network` (`MCNetwork`), `Network_proofs` | gateways, router and publishing, over unreliable links, with restarts |
| `CanLink`, `CanLink_proofs` | messages cut into CAN frames and put together again |

**Kernel.** Thread code is cut at every access to state that an interrupt uses: `yield` is
`YieldReset` (clear `timeToTryAgainToSchedule`), `YieldCount` (read the schedule counter),
`YieldFind`, `YieldCheck` (both early returns) and `YieldSwitch` (lock, stop the timer,
preselection, PendSV). `SuspendCallerUntil`, `SetSuspendedUntil` and `EndOfSuspendScope` are
`suspendCallerUntil` with its ceiler, `ResumeBegin`/`ResumeEnd` the two stores of `resume`
by a thread, `InterruptResume` the same by an interrupt that no thread step can divide. Any
thread may be resumed, also a ready one, and times that are over already may be waited for.
PendSV is `WrapperPropagate`/`WrapperTooEarly` (`schedulerWrapper`) and
`ScheduleSelect`/`ScheduleCommit` (`schedule` before and after the selection, between which
device interrupts come). The schedule counter is represented by `stale`, the threads whose
copy of it is out of date; `lastActivation` by the order `activations`. Times are stored
relative to the present and aged by `Tick`, so the clock runs for ever in finitely many
states; one tick is `MIN_SYS_TICK_SPACING`, which the code's comment calls long enough for a
scheduler run, so time passes only in application code and in sleep. Anything in the past is
the same value, which merges "resumed" with "time reached": nothing but the result of
`suspendCallerUntil` tells them apart. The timer is that of the STM32F4 port, since the
functions of `src/bare-metal/stm32h7/timer.cpp` are empty: on the H7 as it is, nothing
preempts.

**Selection.** The same loop with one action per element, and resumes in between. `Kernel`
and `Scheduling` take the selection as one step; what a resume in the middle of it may change
is exactly what the theorems of `Selection_proofs` leave open.

**Scheduling.** What the modules above it need of `Kernel`. `Yield` and `Preempt` (a SysTick
that lets the scheduler run) give the CPU to the most urgent ready thread, the least recently
activated of several, with one exception of the code. A SysTick that comes after `yield` has
stored 0 in `timeToTryAgainToSchedule` (`thread_on_hw.cpp:89`) begins a new slice for the
interrupted thread (such threads are in `cut`). When that thread goes on, it may have read the
schedule counter before or after: in the first case `yield` returns by itself
(`thread_on_hw.cpp:97-119`), in the second it sets the preselection, the wrapper finds it too
early to schedule (`scheduler.cpp:52`) and returns to the thread. Either way the yield is put off,
and in the second the choice is left in `presel` for the SysTick at the end of the slice, which
takes it without comparing priorities (`Chosen`, `scheduler.cpp:103-112`). The same may happen to
the idle thread (`IdleYields`). `Suspend`, `Expire` (a time limit is reached), `BeginCeiler` and
`EndCeiler` (`PRIORITY_CEILER_IN_SCOPE`) are the rest. Times are abstracted to "timed" (ends
when it may) and "forever". Every action of a thread is a stretch of code with one access to
shared state, and a SysTick may come between any two, in the middle of each yield too.

**Semaphore.** `enter` is `EnterCeil` ... `EnterEnd`, `leave` is `LeaveCeil` ...
`LeaveReturn`, in the order of the source; both, and `Sleep`, end in a `YieldReturn`. `held`
counts the `enter` calls that are done; `lent` records who called `enter` while its priority was
raised, `passed` who got the semaphore while the thread waits for it. `overtaken` becomes and
stays true when the scheduler gives the CPU to a thread below the ceiling while a ready one has
the ceiling priority: only a yield that is put off, or the preselection it leaves, does that.

**SyncFifo, Barrier, GenericIO, Waiting.** `put` and `get` are single steps here, which is what
`Fifo` shows of them, and only the number of values is kept. `Sync` ... `SyncRetry` are the two
attempts of `syncPut`/`syncGet` with the wait in between, `Wake` ... `WakeEnd` the waking of
the other side. `RequestAndWait`, `Publish`, `CallWaitForSignal`, `WaitForSignal` ...
`WaitClear`, `Answer` are the client; `Respond` (the test of the flag), `RespondClear`,
`Unblock` ... `UnblockEnd` the server.
`SuspendUntil` is one step because the code disables interrupts; the yield after it is not.
All three end in the same `suspendedUntil`, so `Waiting` lets a wake-up of one kind reach a
wait of another. The ghosts are `broken` (a SysTick took the CPU from a thread within a
ceiler), `stray` (a late upcall ended another wait), `missed` (a response in the window before
the ceiler), `futile` (a side was woken for what it had already taken) and `unanswered` (a wait
for a device ended without its condition).

**Fifo, BlockFifo.** Writer and reader steps end at each access to an index or the buffer;
copying an entry takes two steps between which it is `Garbage`. `clear` is called by whoever
has the fifo for itself. The error counters are represented by the refusals. A block is lent
(`GetBufferToWrite`, `GetBufferToRead`), filled or copied entry by entry, and given back
(`WriteConcluded`, `ReadConcluded`). The order of accesses is the one of the source: the
buffer is not `volatile`, so this trusts the compiler.

**CommBuffer.** A record has two pieces, copied separately. `PutsPerGet` bounds how many
puts may begin during one get.

**TimeBase, TimeEvent, Timing.** The counter has `Wrap` values instead of 2^32 and overflows
while it is read; `Mask` is code with interrupts disabled, or another handler of the same
priority, in which the overflow interrupt waits. `hidden` records that it did so during a
call of `hwGetNanoseconds`. `hwGetNanoseconds` is that of the H7; the overflow interrupt is
served as on the STM32F4 (`hw_timer.cpp:214-231` there). The H7's own handler
(`cm7/hw_timer.cpp:61`, the CM4's likewise) is defined in namespace `RODOS` without
`extern "C"`, so that the vector table keeps the weak `Default_Handler`, an endless loop: as it
is built, the first overflow, after 71 minutes, stops the system. The model shows what holds once
the handler is linked. On the F4 the timer's interrupt and the scheduler's have the same priority
(`hw_specific.cpp:63-66`, `hw_timer.cpp:276` of `src/bare-metal/stm32f4/`), on the H7 it would
have the highest: `Wrapper` masks it or does not. Activations are two stores; `propagate` is a
load, a store and the call of the handler per event (`PropagatePass`, `PropagateLoad`, `PropagateStore`, `Handle`).
A time that is still to be stored is kept in `setting`. `spoilt` names the events that met one
of the three orders of steps described under "What the runs show".

**Network.** `Publish` is `publishMsgPart`; `GetNetworkMsg` is one call of
`getNetworkMsg` and `AnalyseAndDistributeMessagesFromNetwork` with the branches of
`messageSeen` as its disjuncts. A message is its sender, its sending time and the steps left;
the sender's epoch is a ghost that the code does not have. Loss is a message that is never
taken, duplication one that stays after it was taken, and messages in a set have no order. A
node may send two messages within one tick of its clock, which the others cannot tell apart.

**CanLink.** One sender per CAN id. `SendNetworkMsg`, `WriteFrame`, `WriteError` send;
`GetNetworkMsg`, `ScanTake`, `ScanEnd`, `ReadAppend`, `ReadBuffer`, `ReadNothing` are the
receiver, `AppendCANMsg` is `appendCANMsgToCurrentNetMsg`, which keeps the frames of the message
(`assembled`) and counts their bytes (`bytesReceived`). The number of the message is a
ghost: on the bus there are only id, sequence number, bytes and, in the first frame, a length.

## Runs

| run | result | bounds |
|---|---|---|
| `kernel` | passes (3.2 million states) | two threads of different priority and idle; delays over, 0, 1 or for ever; slice of 4 ticks; the urgent thread is resumed by interrupts, by the TimeEvent and by the other thread, and uses ceilers; the other may overflow its stack |
| `kernel_deadline_order` | violated | no resumes; delays up to 2; slice of 5 ticks; the urgent thread is last in `threadList` |
| `kernel_liveness` | passes | two threads of equal priority, slice of 2 ticks |
| `selection` | passes | three threads and idle in every state of times, priorities and activations within two ticks, three priorities and two counts |
| `semaphore` | passes (359 000 states) | three threads of three priorities or of one; the second of them enters twice; up to the state in which one is overtaken (`UntilOvertaken`) |
| `semaphore_overtaken` | violated | three threads of one priority, none enters twice |
| `waiting` | passes (645 000 states) | two threads, the writer less, equally or more urgent, fifo of two entries, every kind of timeout, one device |
| `fifo` | passes | ring of four entries, two values, blocks of every length |
| `commbuffer` | passes | six puts, up to three begun during a get |
| `timing` | passes (384 000 states) | counter of 3 values that overflows twice; one event with one period, activated by thread, handler and interrupt |
| `network` | passes (232 000 states) | three nodes in a cycle of links, tables of one node, two steps, two messages, one restart, one duplicate |
| `canlink` | passes (285 000 states) | two senders, two messages each of 0, 1 or 3 frames, pool of 3 buffers, two faults |

### What the runs show

Scheduler.
- `yield` is safe against every SysTick: `NoReturnWhileSuspended` needs the store of 0 to
  `timeToTryAgainToSchedule` at its beginning, `SwitchOnlyToReady` the second comparison of
  the schedule counter under the lock.
- `resume` is not a wake-up at once: a resume that falls between the selection and the end
  of `schedule` is overwritten. `UrgentWaitBounded` bounds the price by two time slices and a
  tick for each. The first slice ends with a scheduling; the second is lost if that scheduling
  uses an outdated preselection: a SysTick schedules between the store of 0 to
  `timeToTryAgainToSchedule` in `yield` and its reading of the schedule counter, so that the
  wrapper finds the switch that `yield` asks for too early, and the choice stays in
  `preSelectedNextToRun` for the slice in which the urgent thread becomes ready. `schedule`
  prefers a preselection to looking again. This takes three threads. With the two of the run
  TLC finds no wait of more than one slice and a tick; the bound for any number of threads is
  a theorem. A thread with a stack violation begins the count anew, because `schedule` replaces
  it by idle without selecting again. The bound does not hold if a *less* urgent thread uses
  ceilers: leaving one does not yield, and a thread that is in one at the end of every slice
  keeps the CPU (hence `Scoped = {t2}`, and the hypothesis of the theorem).
- `DeadlineOverrunBounded` (the two ticks that the comment in `hw_specific_generic.cpp`
  promises) depends on the place in `threadList`: a schedule or a yield that selects a thread
  still at the ceiling of its own `suspendCallerUntil` collects no deadline of a thread behind
  it, and the early return of `yield` does not re-arm the timer.

Semaphore.
- Mutual exclusion rests on the ceiling priority alone, and on nobody but `leave` resuming
  those who wait. It is not enough against a preselection left by a yield that was put off:
  `schedule` takes it without comparing priorities, although the running thread may by then be
  between the test of `owner` and `owner = caller`. `semaphore_overtaken` shows that two
  threads can then have the semaphore (`OneOwner`). A thread is interrupted in the middle of a
  `yield`; when it has the CPU again it preselects another of the same priority, is not made to
  switch because its slice is new, and is within `enter` when that slice ends.
- Until that happens (`overtaken`) exclusion and counts are exact (`MutualExclusion`), nobody
  who waits is forgotten (`NoForgottenWaiter`) and priorities are given back
  (`RestoredUnlessReentered`). These, and `PassedOnce`, say nothing of what follows; the run stops
  at the first such state, the theorems need no such limit.
- Threads wait *with* the ceiling priority, so `leave` cannot tell their priorities apart and
  hands over to the least recently activated one. Hence `PassedOnce`: no thread gets the
  semaphore twice while another waits for it, so nobody starves at it as long as owners leave.
- `enter` by the owner while its priority is raised stores the raised priority, which `leave`
  then restores for good: `RestoredUnlessReentered` excepts exactly those threads (`lent`).

Waiting.
- A ceiler protects as long as no two threads are within one and no preselection is left. A thread
  that sleeps in its ceiler and is resumed is a second one, and a SysTick may switch between the
  two; a preselected thread is switched to in any case (`broken`). `NobodyForgotten`,
  `EventuallyWoken`, `UnblockFindsOwner`, `FalseOnlyByTimeOut` and `ResponseWakes` say what holds
  as long as that does not happen.
- `fifo.h:150-151` says that `syncPut` and `syncGet` without timeout wait "until the fifo is not
  empty/full". The code waits once, tries a second time and then gives up, whatever woke it.
  `UntimedSucceeds` says when that second attempt fails, and that it never does otherwise, even
  after a broken ceiler: when the other side woke the thread for what it had already taken (the
  writer has read `suspendedReader`, a reader of equal or higher priority takes the value and
  calls `syncGet` again before the `resume`), or when the late upcall of a device, whose wait had
  ended by timeout, resumed it. With timeout 0 nothing waits, although the text says so.
- `waitForSignal` gets its condition by value, read before the ceiler: a response in that moment
  is not noticed and the client sleeps until its timeout (`missed` in `ResponseWakes`).
- After a timeout a driver still has the thread registered; the late upcall ends whatever the
  thread waits for then. `IoWaitExact` shows that nothing else does.

Fifo and CommBuffer.
- The two sides of a fifo need no lock, nor do blocks lent from it (`NoSharedEntry`,
  `BlocksApart`, `TakenFromHead`), and every step is one of the abstract queue
  (`QueueSpec`; a concluded block is several of its puts or gets at once).
- A CommBuffer tolerates one put begun during a get. With two, the record may be torn, against
  "the data will be always consistent" (`commbuffer.h:23-25`): `ConsistentRecord` is stated for at
  most one, and with that condition left out TLC finds the torn record.

Time.
- The second reading of the overflow count makes the time right (`ReadingInCall`), unless the
  overflow interrupt is masked: then the time read is a whole range of the counter too small. The
  scheduler's interrupt may read such a time, so handlers may be late by it, never early.
- Handlers are never early and periodic events keep their beat however late they are
  (`NeverEarly`, `OnBeat`). `ActivationExact` has three exceptions: the scheduler's interrupt
  between the two stores of `activateAt` finds the period of an earlier `activatePeriodic`; an
  interrupt that activates the event between propagate's load and its store is overwritten; and
  one that activates it between the two stores of `activatePeriodic` (`timeevent.cpp:47-48`)
  leaves a one-shot event with the period's time.

Network.
- A message is delivered at most once per node, except after the sender's time was set back (a
  restart, or a message delayed by more than the window) or if the table has no room for its
  sender (`AtMostOnce`). It is dropped only after a later one or one of the same time, or after a
  restart within the window (`NothingNewDropped`).
- The assertion that the table is not full returns with the semaphore entered. The message is
  still distributed, but every other gateway of the node waits for ever at its next message
  (`ProtectorLeft`, `ComesToRest` except for those).
- Not in the model: a CAN hop restores the number of steps and the sending time, so that a
  cycle of CAN links has no protection from them.

CAN.
- No buffer of the pool is lost, messages of a sender are returned in order, and they are whole,
  unless the first frame of a later message with the same id was lost: its other frames may
  complete the earlier one, with a checksum that the receiver computed itself (`Intact`).
- When the pool is used up a buffered frame is given up even if there is nothing to read.
- A message without data is never sent. A lost frame holds up the messages of all senders until
  the next first frame of the same sender comes; `EventuallyDelivered` shows that nothing else
  does.

### Bounds

Two threads and idle are enough for the races of `Kernel` between one running and one other
thread. The second slice of `UrgentWaitBounded` needs a third thread; with all its features that
instance is too large for a run (TLC has checked it, and the invariant of the proof, with
device interrupts as the only source of resumes). A slice of 4 and delays
up to 1 separate deadline, spacing and slice.
Three threads are needed for the semaphore (owner, two waiters), and for two of them to own it.
A SyncFifo has one reader and
one writer. The ring of 4 has every order of the indices, including wrap-around. Six puts let
all three buffers be used twice. Two overflows of a counter with three values come in every
step of a reading. Three nodes with two links are the smallest network with two ways to a node;
a table of one node is full when the second publishes; two messages are one before and one
after a restart, or one faster than the other. Two senders and three buffers let the pool
overflow while a message of three frames is incomplete.

### Fairness and deadlock

- `Kernel`: kernel code that has begun goes on, time passes, a pending SysTick is taken (the
  hardware does all three); the application need not do anything.
- `Semaphore`: none. Its progress is stated as an action property (`PassedOnce`), since the
  state space with puttings-off is too large for TLC's liveness checking.
- `Waiting`: SysTicks keep coming, the CPU goes on with what the running thread has begun, time
  limits are reached. Neither devices nor the application need do anything.
- `Timing`: time passes, interrupts are served, the scheduler's interrupt comes again and
  again, threads do not leave interrupts disabled. The STM32F4 port gives all of it; on the H7 as
  it is, neither the overflow interrupt (see above) nor the SysTick is served
  (`src/bare-metal/stm32h7/timer.cpp` is empty), so `EventuallyPropagated` is a statement about
  the code with that port's interrupts.
- `Network`: the thread of a gateway takes what arrives.
- `CanLink`: the gateway's thread calls `getNetworkMsg` again (at the latest after its
  time-out of a second), a sender within `sendNetworkMsg` goes on.

Deadlock is checked in every run but `network`, where the nodes may have nothing more to say.

Each property of a passing run has a mutant: an operator beside the definition, marked
"Mutant" and describing a plausible error, with which TLC finds the property violated.

## Proofs

TLAPS checks eight modules of proofs. Each finds an inductive invariant, proves that Init
implies it and that every action preserves it, and derives the properties of the runs from it,
for every value of the constants that the module's named ASSUME allows.

**`Kernel_proofs`** (any number of threads, any list, priorities and times):
`KernelTypeCorrect`, `ReturnsWhenReady` (`NoReturnWhileSuspended`), `SwitchesToReady`
(`SwitchOnlyToReady`, an action property) and `UrgentWaitIsBounded` (`UrgentWaitBounded`, under
the hypothesis that nobody but the watched thread enters a ceiler of its own). That the
running thread is ready is not inductive:
it stops being so in `suspendCallerUntil`. `KernelInvariant` says of a running thread that is
suspended where it is on its way to the switch and that `timeToTryAgainToSchedule` is cleared,
so that no SysTick can return to it too early (`CurrentOnWay`); and of the result of a
`findNextToRun`, from the copy of `yield` over the preselection to `schedule`, that it may run
or will be thrown away because the schedule counter has moved (`ChoiceReady`, `PreselReady`,
`PickedReady`). What the selection returns are the lemmas `FoundReady` and
`FoundForemost`, for a list of any length. The bound on the wait has an invariant of its own,
`WaitInvariant`, on top of that one. While somebody waits (`WaitEnds`), either an urgent thread
has the CPU or one that gives it away before the next tick (`Calm`), or the timer and
`timeToTryAgainToSchedule` make the scheduler run before the bound is reached (`Soon`), or it
has selected an urgent thread or lost only the first slice (`Decided`). `Soon` allows one slice
while the preselection is outdated and two otherwise, and a tick takes one from both sides of
it. It needs that the scheduler's next run is never more than a slice and a tick away, also
over the sleep of the idle thread (`WithinSlice`); that what a `yield` has found since the last
schedule is urgent (`ChoiceUrgent`); and that priorities are raised only in ceilers
(`PrioInScope`).

**`Selection_proofs`** (every list that contains every thread, all priorities, times and
resumes): `WalkInvariantHolds` and from it `SelectionTypeCorrect`, `NeverSelectsSuspended`,
`SelectsMostUrgent` and `EarliestIsEarlyEnough`. The invariant states both results for the
visited part of the list, which works because the priority of the selected thread only grows
and a suspension only ends.

**`Scheduling_proofs`** about `Semaphore` (any number of threads and semaphores, any priorities
above that of the idle thread): `SemaphoreExcludes` (`MutualExclusion`, with the types),
`WaitersRemembered` (`NoForgottenWaiter`), `PriorityRestored` (`RestoredUnlessReentered`) and
`WaitersInTurn` (`PassedOnce`, an action property). The invariant has two parts. `SemAlways` holds
in every state: `Selected` says that who is preselected is ready and not running, `Yields` that a
suspended thread that runs is on its way to the end of its yield, without a SysTick in the middle
of it. `Sound` holds until a thread within its ceiler is overtaken. Nothing but the ceiling
priority protects `enter` and `leave`, and threads that wait have it too. `Exclusive` is why it is
enough as long as nobody is overtaken: at most one thread is about to take or to free a semaphore
that is not its own, and while there is one the CPU is with a thread inside a scope; a thread that
`leave` has resumed is already the owner. `Handing` says that a free semaphore has no waiting
thread but one that is being handed it, `Counts` and `Originals` what `leave` will find. `Turns`
is the argument for `PassedOnce`: who got the semaphore since another began to wait has been
activated since that one, or will be before it runs again, and `leave` prefers who was not.

About `Waiting` (any priorities, capacity and devices; a reader and a writer, a client
and a server, as in the code): `NobodyIsForgotten` (`NobodyForgotten`), `UnblockNeverNull`
(`UnblockFindsOwner`), `SignalReported` (`FalseOnlyByTimeOut`), `ResponseIsNotOverlooked`
(`ResponseWakes`), `IoWaitsAreExact` (`IoWaitExact`) and `UntimedWaitsEndRight`
(`UntimedSucceeds`). `Undisturbed` is the use of the ceiler:
unless one was broken, a thread within its scope has the CPU, but for one that has suspended
itself there. `FifoWaits` says that who waits for a fifo that would let it go on has its partner
on the way to wake it. `ResumesFifoWait` says that it is still in that wait when it is resumed,
even after a broken ceiler, because it does not come back from a yield that was not cut while
the other has the ceiling priority and no preselection names it; `AwakeForAReason` builds on it
and says why a wait without timeout is over, from its yield to the second attempt. `BarrierOwned`
and `ResponseComing` say the same of the barrier and of the response, `IoWaits` of the devices. All
of them speak of the same `suspendedUntil`, so each has to be shown of the steps of all three
components.

**`Fifo_proofs`** (every `len >= 2` and every set of values). For put, get and clear:
`InvariantHolds`, `TypeCorrect`, `EntriesNotShared` and `RingImplementsQueue`
(`Spec => QueueSpec`). `TypeOK` is not inductive, since `get` could deliver garbage, so the
invariant adds what each side knows at each step (`WriterKnows`: the tested index stays
different from `readX`, since the reader only moves away from it; `ReaderKnows`: not empty
stays not empty) and that all entries between the indices are written (`ContentsWritten`).
The refinement maps the store of `writeX` to `Put`, the store of `readX` to `Get` and the
failing tests to the refusals. With blocks (`BlockSpec`): `BlockInvariantHolds`,
`BlockEntriesNotShared`, `BlocksStayApart` (`BlocksApart`), `CopiesFromHead` (`TakenFromHead`)
and `BlocksImplementQueue`. The invariant adds that a lent block is not longer than the free
entries (`WriteBlock`) or than the queue (`ReadBlock`), which stays true because the other side
only adds to both, and that what is filled, or taken, is what will be published, or removed.

**`CommBuffer_proofs`** (any number of puts): `BuffersKept`, `RecordsConsistent`,
`RecordsLatest`, `RecordsNotMissed`. `Aside` says where the buffer that `get` copies from is
among put's pointers, and that put reaches it only in its second round.

**`Timing_proofs`** (every range of the counter, any events and periods): `TimeIsRight`
(`ReadingInCall`), `NoHandlerEarly` (`NeverEarly`), `NoActivationLost` (`ActivationExact`),
`BeatsKept` (`OnBeat`). The invariant of the clock counts overflows (`now \div Wrap` is the
count plus the pending one) and says that the counter was read at a moment of the call. The
invariants of the events say what `propagate` has loaded is what is armed, outside the spoilt
events. A time read while an overflow is hidden is never too large, which is enough for
`NoHandlerEarly`. The assumption is that the next beat does not reach `END_OF_TIME`, which in the
code is
292 years away.

**`Network_proofs`** (every set of nodes, links and limits): `DeliveredOnce` (`AtMostOnce`),
`SemaphoreLeft` (`ProtectorLeft`) and `DropsExcused` (`NothingNewDropped`, an action
property). The entry of a sender in the table is the time of a delivered message, the latest
one unless it was set back; a message of a sender without entry is delivered only when the
table is full. `MaxSteps > 0` is assumed: the code starts with 10, or 5 over CAN.

**`CanLink_proofs`** (any number of senders, messages, losses, buffers >= 2): `BuffersExact`
(`PoolExact`), `MessagesInOrder` (`InOrder`) and `MessagesWhole` (`Intact`). First frames
of a sender stay in order on
their way through bus, driver and pool, although the pool is taken from out of order: the pool
holds no frame of the sender whose message is being put together, except while it is scanned
(`PoolScanned`). A message is whole because every frame on its way is one that was sent, its
first frame is ahead of it, was looked at or was lost (`PathGenuine`), so that a frame that fits
by its sequence number is of the message being put together, or the first frame of a later one
was lost (`AssembledWhole`); and the bytes of the first n frames add up to the length exactly
when n is the number of frames, for all lengths and both sizes of frames.

Induction over a list (`findNextToRun`, the search for a frame in the pool, the order of
activations) is done through a least counterexample: the set of the indices at which the
statement fails has a least element, from the well-foundedness of the naturals. This needs no
rule with an operator as its parameter.

Only model-checked:
- liveness (`EventuallyRuns`, `EventuallyWoken`, `EventuallyPropagated`,
  `ComesToRest`, `EventuallyDelivered`): out of the prover's reach.

Every invariant and every action property of a passing run is a theorem. In `network` and
`timing` the theorems use the assumptions named above, in `kernel` the hypothesis on ceilers; the
runs satisfy them. The constraint of `semaphore` is not one of them: the theorems also cover the
states that follow an overtaking.

The inductive invariants themselves are in no run; TLC has checked them with the constants of
the runs.

## Not modelled

- `MultipleReaderFifo`; the copying of semaphores (`operator=`) and `ScopeProtector`; the
  constructors of threads, the stack paint and the periodic beat of a thread; saving registers.
- Filters and local subscriber lists of topics, the lists of topics a gateway forwards (gateways
  forward all), `IOEventReceiver`.
- Printing, strings, checksums, byte streams and the calendar: sequential code without shared
  state. Byte stuffing and sockets: pure input and output.
- The start-up of the chips, vendored code (lwIP, CMSIS, ST HAL), which is nearly all of the
  repository's lines, the hosted ports (the host schedules), and the example applications.

## Plan

1. `MultipleReaderFifo`, where a reader is overtaken by the writer.
2. A bound on the wait with ceilers in less urgent threads, if leaving a ceiler is made to yield.
3. Requests that carry a number, so that a late response is not taken for the answer to the next
   request.
