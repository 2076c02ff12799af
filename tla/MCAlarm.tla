------------------------------- MODULE MCAlarm -------------------------------
EXTENDS Alarm

\* A one-shot and a periodic alarm: the SDK needs at least
\* eight clocks to enable one, which is two ticks under the slower prescale.
MCRequests ==
  { [ch |-> 0, delay |-> 2, period |-> 0, periodic |-> FALSE],
    [ch |-> 1, delay |-> 2, period |-> 2, periodic |-> TRUE] }

MCCompares == { [hi |-> 0, lo |-> 1] }
=============================================================================
