------------------------------ MODULE MCKernel ------------------------------
EXTENDS Kernel

CONSTANTS t1, t2

MCThreads == {t1, t2}
MCList == <<t2, Idle, t1>>
MCBasePrio == [t \in {t1, t2, Idle} |-> IF t = Idle THEN 0 ELSE IF t = t1 THEN 1 ELSE 2]
MCReversedList == <<t1, Idle, t2>>
MCEqualPrio == [t \in {t1, t2, Idle} |-> IF t = Idle THEN 0 ELSE 1]
=============================================================================
