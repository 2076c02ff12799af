------------------------------- MODULE MCPulse -------------------------------
(***************************************************************************)
(* PULSE0 with a rising edge and no filter, and a falling edge and one, on *)
(* a pin that holds its levels for the filter and on one that does not.    *)
(***************************************************************************)
EXTENDS Pulse

MCSettings == {[falling |-> FALSE, filter |-> 0], [falling |-> TRUE, filter |-> 2]}
=============================================================================
