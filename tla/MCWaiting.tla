------------------------------ MODULE MCWaiting -----------------------------
EXTENDS Waiting

CONSTANTS w, r

MCOrder == <<w, r>>
MCThreads == ToSet(MCOrder)
MCPriorities == {p \in [MCThreads \cup {Idle} -> 0..3] : p[Idle] = 0 /\ p[r] = 2 /\ p[w] > 0}
=============================================================================
