------------------------------ MODULE MCNetwork -----------------------------
EXTENDS Network

CONSTANTS a, b, c

MCNodes == {a, b, c}
MCLinks == {{a, b, c}, {b, c}}
=============================================================================
