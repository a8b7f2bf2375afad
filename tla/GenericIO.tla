------------------------------ MODULE GenericIO -----------------------------
(***************************************************************************)
(* GenericIOInterface (genericIO.cpp), the part that all device drivers     *)
(* share: a thread suspends itself until the device has finished reading,   *)
(* writing or has data, and the driver's interrupt handler resumes it.  The *)
(* three pairs suspendUntilX and upCallX are the same code.  Drivers and    *)
(* devices are external.                                                    *)
(***************************************************************************)
EXTENDS Scheduling

CONSTANTS
  Conditions,   \* the conditions waited for: ReadFinished, WriteFinished, DataReady
  User,         \* the thread that uses the device
  NoCaller      \* the null pointer

VARIABLES
  fulfilled,    \* the conditions for which isReadFinished, ... return true
  caller,       \* callerReadFinished, callerWriteFinished, callerDataReady
  awaited,      \* the condition the user suspended itself for, and until when
  unanswered    \* conditions whose last wait ended without them: by the timeout or
                \* by a resume that was meant for another wait

ioVars == <<fulfilled, caller, awaited, unanswered>>

NoWait == [condition |-> NoCaller, until |-> "timed"]

IoInit ==
  /\ fulfilled = {}
  /\ caller = [c \in Conditions |-> NoCaller]
  /\ awaited = NoWait
  /\ unanswered = {}

(* The user starts an operation or takes the data.                         *)
StartIo(c) ==
  /\ Executes(User, "run")
  /\ c \in fulfilled
  /\ fulfilled' = fulfilled \ {c}
  /\ UNCHANGED <<schedVars, prio, susp, pc, saved, caller, awaited, unanswered>>

(* Mutant: the condition is not tested again with the interrupts disabled. *)
SuspendUntilUntested(c, until) ==
  /\ Executes(User, "run")
  /\ caller' = [caller EXCEPT ![c] = User]
  /\ susp' = [susp EXCEPT ![User] = until]
  /\ awaited' = [condition |-> c, until |-> until]
  /\ unanswered' = unanswered \ {c}
  /\ Goto(User, "ioYield")
  /\ UNCHANGED <<schedVars, prio, saved, fulfilled>>

(* With the interrupts disabled; returns at once if the condition holds.   *)
SuspendUntil(c, until) ==
  /\ Executes(User, "run")
  /\ c \notin fulfilled
  /\ caller' = [caller EXCEPT ![c] = User]
  /\ susp' = [susp EXCEPT ![User] = until]
  /\ awaited' = [condition |-> c, until |-> until]
  /\ unanswered' = unanswered \ {c}
  /\ Goto(User, "ioYield")
  /\ UNCHANGED <<schedVars, prio, saved, fulfilled>>

(* The yield comes after the interrupts are enabled again.                 *)
SuspendYield ==
  /\ Executes(User, "ioYield")
  /\ Yield(User)
  /\ Goto(User, "ioBack")
  /\ UNCHANGED <<prio, susp, saved, ioVars>>

(* Back from suspendUntil: the registration as a caller is left behind.    *)
SuspendBack ==
  /\ Executes(User, "ioBack")
  /\ awaited' = NoWait
  /\ unanswered' = IF awaited.condition \in fulfilled THEN unanswered
                   ELSE unanswered \cup {awaited.condition}
  /\ Goto(User, "run")
  /\ UNCHANGED <<schedVars, prio, susp, saved, fulfilled, caller>>

(* The device is done: its interrupt handler makes the upcall.             *)
UpCall(c) ==
  /\ fulfilled' = fulfilled \cup {c}
  /\ susp' = IF caller[c] = NoCaller THEN susp ELSE [susp EXCEPT ![caller[c]] = "no"]
  /\ caller' = [caller EXCEPT ![c] = NoCaller]
  /\ UNCHANGED <<schedVars, prio, pc, saved, awaited, unanswered>>

-----------------------------------------------------------------------------
IoPcs == {"ioYield", "ioBack"}

(* Type correctness of the device's interface.                             *)
IoTypeOK ==
  /\ fulfilled \subseteq Conditions
  /\ caller \in [Conditions -> {User, NoCaller}]
  /\ awaited \in [condition : Conditions \cup {NoCaller}, until : {"timed", "forever"}]
  /\ unanswered \subseteq Conditions
=============================================================================
