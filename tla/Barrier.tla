------------------------------- MODULE Barrier ------------------------------
(***************************************************************************)
(* Barrier::waitForSignal and Barrier::unblock (barrier.cpp), and the       *)
(* request and response that are built on them (requestAndWait and put of   *)
(* reqresp.h): the client publishes a request and waits at the barrier      *)
(* until the server's response has come, or for a limited time.             *)
(***************************************************************************)
EXTENDS Scheduling

CONSTANTS
  Client, Server,  \* the threads that request and respond
  Nobody           \* the null pointer

VARIABLES
  barrierOwner,     \* owner: the thread that waits at the barrier
  responsePending,  \* the flag of that name
  asked,            \* the server has a request to answer
  timeOutAt,        \* what the caller of waitForSignal passed: "timed" or "forever"
  signalled,        \* the local variable ok of waitForSignal
  missed            \* the response came after the flag was read and before the ceiler

barrierVars == <<barrierOwner, responsePending, asked, timeOutAt, signalled, missed>>

BarrierInit ==
  /\ barrierOwner = Nobody
  /\ responsePending = FALSE
  /\ asked = FALSE
  /\ timeOutAt = "forever"
  /\ signalled = TRUE
  /\ missed = FALSE

-----------------------------------------------------------------------------
(* requestAndWait: flag, then publish; the server may answer at once.      *)
RequestAndWait(until) ==
  /\ Executes(Client, "run")
  /\ responsePending' = TRUE
  /\ timeOutAt' = until
  /\ Goto(Client, "publish")
  /\ UNCHANGED <<schedVars, prio, susp, saved, barrierOwner, asked, signalled, missed>>

Publish ==
  /\ Executes(Client, "publish")
  /\ asked' = TRUE
  /\ Goto(Client, "pending")
  /\ UNCHANGED <<schedVars, prio, susp, saved, barrierOwner, responsePending, timeOutAt, signalled,
                 missed>>

(* The flag is read and waitForSignal called with it as the condition; it  *)
(* does not wait if the barrier has an owner.                              *)
CallWaitForSignal ==
  /\ Executes(Client, "pending")
  /\ Goto(Client, IF responsePending /\ barrierOwner = Nobody THEN "waitCeil" ELSE "answer")
  /\ UNCHANGED <<schedVars, prio, susp, saved, barrierVars>>

WaitForSignal ==
  /\ Executes(Client, "waitCeil")
  /\ BeginCeiler(Client)
  /\ Goto(Client, "waitOwn")
  /\ UNCHANGED <<schedVars, susp, barrierVars>>

(* Mutant: the owner is known only when it is awake again.                 *)
WaitOwnLate ==
  /\ Executes(Client, "waitOwn")
  /\ Goto(Client, "waitSleep")
  /\ UNCHANGED <<schedVars, prio, susp, saved, barrierVars>>

WaitOwn ==
  /\ Executes(Client, "waitOwn")
  /\ barrierOwner' = Client
  /\ Goto(Client, "waitSleep")
  /\ UNCHANGED <<schedVars, prio, susp, saved, responsePending, asked, timeOutAt, signalled, missed>>

WaitSleep ==
  /\ Executes(Client, "waitSleep")
  /\ Suspend(Client, timeOutAt)
  /\ Goto(Client, "waitYield")
  /\ UNCHANGED <<schedVars, prio, saved, barrierVars>>

WaitYield ==
  /\ Executes(Client, "waitYield")
  /\ Yield(Client)
  /\ Goto(Client, "waitWoken")
  /\ UNCHANGED <<prio, susp, saved, barrierVars>>

WaitWoken ==
  /\ Executes(Client, "waitWoken")
  /\ signalled' = (barrierOwner = Nobody)
  /\ Goto(Client, "waitEnd")
  /\ UNCHANGED <<schedVars, prio, susp, saved, barrierOwner, responsePending, asked, timeOutAt, missed>>

WaitEnd ==
  /\ Executes(Client, "waitEnd")
  /\ EndCeiler(Client)
  /\ Goto(Client, "waitClear")
  /\ UNCHANGED <<schedVars, susp, barrierVars>>

WaitClear ==
  /\ Executes(Client, "waitClear")
  /\ barrierOwner' = Nobody
  /\ Goto(Client, "answer")
  /\ UNCHANGED <<schedVars, prio, susp, saved, responsePending, asked, timeOutAt, signalled, missed>>

(* The end of requestAndWait, whose result is what the flag was.           *)
Answer ==
  /\ Executes(Client, "answer")
  /\ responsePending' = FALSE
  /\ signalled' = TRUE /\ timeOutAt' = "forever" /\ missed' = FALSE
  /\ Goto(Client, "run")
  /\ UNCHANGED <<schedVars, prio, susp, saved, barrierOwner, asked>>

-----------------------------------------------------------------------------
(* The response: put tests the flag of a pending request, then copies the  *)
(* answer, clears the flag and unblocks.                                   *)
Respond ==
  /\ Executes(Server, "run") /\ asked
  /\ asked' = FALSE
  /\ Goto(Server, IF responsePending THEN "respond" ELSE "run")
  /\ UNCHANGED <<schedVars, prio, susp, saved, barrierOwner, responsePending, timeOutAt, signalled,
                 missed>>

RespondClear ==
  /\ Executes(Server, "respond")
  /\ responsePending' = FALSE
  /\ missed' = (missed \/ pc[Client] = "waitCeil")
  /\ Goto(Server, "unblock")
  /\ UNCHANGED <<schedVars, prio, susp, saved, barrierOwner, asked, timeOutAt, signalled>>

Unblock ==
  /\ Executes(Server, "unblock")
  /\ Goto(Server, IF barrierOwner = Nobody THEN "run" ELSE "unblockCeil")
  /\ UNCHANGED <<schedVars, prio, susp, saved, barrierVars>>

UnblockCeil ==
  /\ Executes(Server, "unblockCeil")
  /\ BeginCeiler(Server)
  /\ Goto(Server, "unblockTest")
  /\ UNCHANGED <<schedVars, susp, barrierVars>>

(* Mutant: the owner is not tested again.                                  *)
UnblockTestForgotten ==
  /\ Executes(Server, "unblockTest")
  /\ Goto(Server, "unblockResume")
  /\ UNCHANGED <<schedVars, prio, susp, saved, barrierVars>>

UnblockTest ==
  /\ Executes(Server, "unblockTest")
  /\ Goto(Server, IF barrierOwner = Nobody THEN "unblockEnd" ELSE "unblockResume")
  /\ UNCHANGED <<schedVars, prio, susp, saved, barrierVars>>

(* owner->resume(), with the volatile owner read again.  Through a null    *)
(* pointer it changes no thread.                                           *)
UnblockResume ==
  /\ Executes(Server, "unblockResume")
  /\ susp' = IF barrierOwner = Nobody THEN susp ELSE [susp EXCEPT ![barrierOwner] = "no"]
  /\ Goto(Server, "unblockClear")
  /\ UNCHANGED <<schedVars, prio, saved, barrierVars>>

(* Mutant: the owner stays.                                                *)
UnblockClearForgotten ==
  /\ Executes(Server, "unblockClear")
  /\ Goto(Server, "unblockEnd")
  /\ UNCHANGED <<schedVars, prio, susp, saved, barrierVars>>

UnblockClear ==
  /\ Executes(Server, "unblockClear")
  /\ barrierOwner' = Nobody
  /\ Goto(Server, "unblockEnd")
  /\ UNCHANGED <<schedVars, prio, susp, saved, responsePending, asked, timeOutAt, signalled, missed>>

UnblockEnd ==
  /\ Executes(Server, "unblockEnd")
  /\ EndCeiler(Server)
  /\ Goto(Server, "run")
  /\ UNCHANGED <<schedVars, susp, barrierVars>>

-----------------------------------------------------------------------------
BarrierStep ==
  \/ Publish \/ CallWaitForSignal \/ WaitForSignal \/ WaitOwn \/ WaitSleep
  \/ WaitYield \/ WaitWoken \/ WaitEnd \/ WaitClear \/ Answer
  \/ RespondClear \/ Unblock \/ UnblockCeil \/ UnblockTest \/ UnblockResume \/ UnblockClear \/ UnblockEnd

WaitPcs == {"publish", "pending", "waitCeil", "waitOwn", "waitSleep", "waitYield", "waitWoken", "waitEnd",
            "waitClear", "answer"}
UnblockPcs == {"unblock", "unblockCeil", "unblockTest", "unblockResume", "unblockClear",
               "unblockEnd"}

(* Type correctness of the barrier.                                        *)
BarrierTypeOK ==
  /\ barrierOwner \in {Nobody, Client}
  /\ {responsePending, asked, signalled, missed} \subseteq BOOLEAN
  /\ timeOutAt \in {"timed", "forever"}
=============================================================================
