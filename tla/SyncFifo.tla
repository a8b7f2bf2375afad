------------------------------ MODULE SyncFifo ------------------------------
(***************************************************************************)
(* SyncFifo<Type, len> (fifo.h): a Fifo whose reader waits while it is      *)
(* empty and whose writer waits while it is full, with or without timeout.  *)
(* syncPut and syncGet are the same code for the two sides, so that one set *)
(* of actions models both.                                                  *)
(*                                                                          *)
(* put and get of the Fifo are single steps here, which is what module Fifo *)
(* shows of them, and the values are left out: only their number decides    *)
(* who waits.  Local variables and parameters take their first value again  *)
(* when they are no longer used.                                            *)
(***************************************************************************)
EXTENDS Scheduling

CONSTANTS
  Writer, Reader,  \* the one thread that puts and the one that gets
  Capacity         \* len - 1

VARIABLES
  count,      \* number of values in the fifo
  suspended,  \* the sides that suspendedWriter or suspendedReader points to
  timeout,    \* the parameter of syncPut or syncGet: "zero", "timed" or "forever"
  ok,         \* result of the first attempt
  partner,    \* whom the local variable reader or writer points to
  futile      \* the sides that the other one woke although they could not go on

syncVars == <<count, suspended, timeout, ok, partner, futile>>

Sides == {Writer, Reader}
Partner(t) == IF t = Writer THEN Reader ELSE Writer

SyncInit ==
  /\ count = 0
  /\ suspended = {}
  /\ timeout = [t \in Sides |-> "zero"]
  /\ ok = [t \in Sides |-> FALSE]
  /\ partner = [t \in Sides |-> FALSE]
  /\ futile = {}

(* put by the writer succeeds unless the fifo is full, get by the reader   *)
(* unless it is empty.                                                     *)
Possible(t) == IF t = Writer THEN count < Capacity ELSE count > 0

PutOrGet(t) ==
  count' = IF ~Possible(t) THEN count ELSE IF t = Writer THEN count + 1 ELSE count - 1

-----------------------------------------------------------------------------
(* syncPut and syncGet, up to the first attempt and the wait, with the     *)
(* ceiling priority.                                                       *)

Sync(t, until) ==
  /\ Executes(t, "run")
  /\ timeout' = [timeout EXCEPT ![t] = until]
  /\ BeginCeiler(t)
  /\ Goto(t, "try")
  /\ UNCHANGED <<schedVars, susp, count, suspended, ok, partner, futile>>

SyncTry(t) ==
  /\ Executes(t, "try")
  /\ PutOrGet(t)
  /\ ok' = [ok EXCEPT ![t] = Possible(t)]
  /\ timeout' = [timeout EXCEPT ![t] = IF Possible(t) THEN "zero" ELSE @]
  /\ Goto(t, IF Possible(t) THEN "endScope" ELSE "register")
  /\ UNCHANGED <<schedVars, prio, susp, saved, suspended, partner, futile>>

(* Mutant: the waiting thread is registered when it is awake again.        *)
SyncRegisterLate(t) ==
  /\ Executes(t, "register")
  /\ Goto(t, IF timeout[t] = "zero" THEN "unregister" ELSE "suspend")
  /\ UNCHANGED <<schedVars, prio, susp, saved, count, suspended, timeout, ok, partner, futile>>

SyncRegister(t) ==
  /\ Executes(t, "register")
  /\ suspended' = suspended \cup {t}
  /\ Goto(t, IF timeout[t] = "zero" THEN "unregister" ELSE "suspend")
  /\ UNCHANGED <<schedVars, prio, susp, saved, count, timeout, ok, partner, futile>>

(* Mutant: END_OF_TIME is no case of its own, and NOW() + timeout overflows.*)
SyncSuspendAdds(t) ==
  /\ Executes(t, "suspend")
  /\ Suspend(t, "timed")
  /\ Goto(t, "suspendYield")
  /\ UNCHANGED <<schedVars, prio, saved, syncVars>>

SyncSuspend(t) ==
  /\ Executes(t, "suspend")
  /\ Suspend(t, timeout[t])
  /\ Goto(t, "suspendYield")
  /\ UNCHANGED <<schedVars, prio, saved, syncVars>>

SyncSuspendYield(t) ==
  /\ Executes(t, "suspendYield")
  /\ Yield(t)
  /\ Goto(t, "unregister")
  /\ UNCHANGED <<prio, susp, saved, syncVars>>

SyncUnregister(t) ==
  /\ Executes(t, "unregister")
  /\ suspended' = suspended \ {t}
  /\ Goto(t, "endScope")
  /\ UNCHANGED <<schedVars, prio, susp, saved, count, timeout, ok, partner, futile>>

SyncEndScope(t) ==
  /\ Executes(t, "endScope")
  /\ EndCeiler(t)
  /\ Goto(t, "yield")
  /\ UNCHANGED <<schedVars, susp, syncVars>>

-----------------------------------------------------------------------------
(* Then yield, the second attempt, and waking the other side.              *)

SyncYield(t) ==
  /\ Executes(t, "yield")
  /\ Yield(t)
  /\ Goto(t, IF ok[t] THEN "wake" ELSE IF timeout[t] = "zero" THEN "run" ELSE "retry")
  /\ ok' = [ok EXCEPT ![t] = FALSE]
  /\ UNCHANGED <<prio, susp, saved, count, suspended, timeout, partner, futile>>

SyncRetry(t) ==
  /\ Executes(t, "retry")
  /\ PutOrGet(t)
  /\ timeout' = [timeout EXCEPT ![t] = "zero"]
  /\ futile' = futile \ {t}
  /\ Goto(t, IF Possible(t) THEN "wake" ELSE "run")
  /\ UNCHANGED <<schedVars, prio, susp, saved, suspended, ok, partner>>

(* putGeneric: put, without waiting, and wake the reader.                  *)
PutGeneric ==
  /\ Executes(Writer, "run")
  /\ PutOrGet(Writer)
  /\ Goto(Writer, IF Possible(Writer) THEN "wake" ELSE "run")
  /\ UNCHANGED <<schedVars, prio, susp, saved, suspended, timeout, ok, partner, futile>>

Wake(t) ==
  /\ Executes(t, "wake")
  /\ BeginCeiler(t)
  /\ Goto(t, "partner")
  /\ UNCHANGED <<schedVars, susp, syncVars>>

WakePartner(t) ==
  /\ Executes(t, "partner")
  /\ partner' = [partner EXCEPT ![t] = Partner(t) \in suspended]
  /\ Goto(t, "resume")
  /\ UNCHANGED <<schedVars, prio, susp, saved, count, suspended, timeout, ok, futile>>

(* Mutant: the other side is woken only if it waits with a timeout.        *)
WakeResumeTimed(t) ==
  /\ Executes(t, "resume")
  /\ susp' = IF partner[t] /\ susp[Partner(t)] = "timed"
             THEN [susp EXCEPT ![Partner(t)] = "no"] ELSE susp
  /\ Goto(t, "endWake")
  /\ UNCHANGED <<schedVars, prio, saved, syncVars>>

WakeResume(t) ==
  /\ Executes(t, "resume")
  /\ susp' = IF partner[t] THEN [susp EXCEPT ![Partner(t)] = "no"] ELSE susp
  /\ futile' = IF partner[t] /\ susp[Partner(t)] # "no" /\ ~Possible(Partner(t))
               THEN futile \cup {Partner(t)} ELSE futile
  /\ Goto(t, "endWake")
  /\ UNCHANGED <<schedVars, prio, saved, count, suspended, timeout, ok, partner>>

WakeEnd(t) ==
  /\ Executes(t, "endWake")
  /\ EndCeiler(t)
  /\ partner' = [partner EXCEPT ![t] = FALSE]
  /\ Goto(t, "run")
  /\ UNCHANGED <<schedVars, susp, count, suspended, timeout, ok, futile>>

-----------------------------------------------------------------------------
SyncStep(t) ==
  \/ SyncTry(t) \/ SyncRegister(t) \/ SyncSuspend(t) \/ SyncSuspendYield(t)
  \/ SyncUnregister(t) \/ SyncEndScope(t) \/ SyncYield(t) \/ SyncRetry(t)
  \/ Wake(t) \/ WakePartner(t) \/ WakeResume(t) \/ WakeEnd(t)

SyncPcs == {"try", "register", "suspend", "suspendYield", "unregister", "endScope", "yield", "retry",
            "wake", "partner", "resume", "endWake"}

(* Type correctness of the fifo.                                           *)
SyncTypeOK ==
  /\ count \in 0..Capacity
  /\ suspended \subseteq Sides
  /\ timeout \in [Sides -> {"zero", "timed", "forever"}]
  /\ ok \in [Sides -> BOOLEAN]
  /\ partner \in [Sides -> BOOLEAN]
  /\ futile \subseteq Sides
=============================================================================
