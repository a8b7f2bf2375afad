----------------------------- MODULE MCSemaphore ----------------------------
EXTENDS Semaphore

CONSTANTS t1, t2, t3

MCOrder == <<t1, t2, t3>>
MCThreads == ToSet(MCOrder)
Different == [t \in MCThreads \cup {Idle} |->
                CASE t = t1 -> 1 [] t = t2 -> 2 [] t = t3 -> 3 [] OTHER -> 0]
Equal == [t \in MCThreads \cup {Idle} |-> IF t = Idle THEN 0 ELSE 1]
MCDifferentOrEqual == {Different, Equal}
MCEqual == {Equal}

(* A state in which a thread was overtaken is a last one: the properties   *)
(* of the run say nothing of what follows it.                              *)
UntilOvertaken == ~overtaken
=============================================================================
