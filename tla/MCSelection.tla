----------------------------- MODULE MCSelection -----------------------------
EXTENDS Selection

CONSTANTS t1, t2, t3

MCThreads == {t1, t2, t3}
MCList == <<t1, Idle, t2, t3>>
=============================================================================
