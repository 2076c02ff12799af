------------------------------ MODULE MCClock ------------------------------
EXTENDS Clock

At(hour, weekday, day) ==
    [second |-> 57, minute |-> 9, hour |-> hour, weekday |-> weekday,
     day |-> day, month |-> 12, year |-> 2026]

(* A day that is its own weekday, one that is not, and one past the week.  *)
MCTimes == {At(23, 7, 7), At(8, 2, 3), At(12, 4, 30)}
=============================================================================
