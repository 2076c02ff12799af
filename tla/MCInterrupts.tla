---------------------------- MODULE MCInterrupts ----------------------------
EXTENDS Interrupts

CONSTANTS t0, g0
=============================================================================
