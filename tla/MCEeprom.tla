------------------------------ MODULE MCEeprom ------------------------------
EXTENDS Eeprom

\* A write over two pages, a write past the last 8-bit address cut at half
\* pages, a read over two pages and a sequential read.
MCCalls ==
  { [op |-> "write", dev |-> 1, addr |-> 1, page |-> 2, data |-> <<0, 1>>],
    [op |-> "write", dev |-> 1, addr |-> 3, page |-> 1, data |-> <<0, 0>>],
    [op |-> "read", dev |-> 1, addr |-> 1, n |-> 2],
    [op |-> "current", dev |-> 1, addr |-> 0, n |-> 1] }
=============================================================================
