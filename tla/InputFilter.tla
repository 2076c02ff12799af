----------------------------- MODULE InputFilter -----------------------------
(***************************************************************************)
(* The front end that PULSE0 and TIMER1 give each of their inputs: two     *)
(* flip-flops that synchronise the pin and a filter that accepts a level   *)
(* after n + 1 samples in a row that differ from the one it has.           *)
(***************************************************************************)
EXTENDS Naturals

ClearFront == [meta |-> FALSE, sync |-> FALSE, filtered |-> FALSE, count |-> 0]

\* The sample in c completes a run of n + 1.
Accepts(c, n)  == c.sync # c.filtered /\ c.count = n
Accepted(c, n) == IF Accepts(c, n) THEN c.sync ELSE c.filtered

FilterCount(c, n) ==
  IF c.sync = c.filtered \/ Accepts(c, n) THEN 0 ELSE c.count + 1

\* A clock edge with the pin at the given level.
Sampled(c, n, pin) ==
  [meta |-> pin, sync |-> c.meta, filtered |-> Accepted(c, n), count |-> FilterCount(c, n)]
=============================================================================
