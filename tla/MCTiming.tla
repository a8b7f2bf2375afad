------------------------------ MODULE MCTiming ------------------------------
EXTENDS Timing

CONSTANT e1

MCTimeEventList == <<e1>>
=============================================================================
