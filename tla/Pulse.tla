-------------------------------- MODULE Pulse --------------------------------
(***************************************************************************)
(* PULSE0 (omcu_pulse.sv): one of several inputs, selected, synchronised   *)
(* and filtered, whose edges it counts and whose period it measures, under *)
(* the calls of the SDK (omcu.h).                                          *)
(*                                                                         *)
(* Every action is a clock edge.  A call is the sequence of its register   *)
(* writes, any number of clocks apart; interrupts are a gate on PENDING    *)
(* and left out.                                                           *)
(***************************************************************************)
EXTENDS Integers, Sequences, InputFilter

CONSTANTS
  Inputs,    \* the selectable pins
  Settings,  \* arguments of omcu_pulse0_configure: [falling, filter]
  Wrap       \* RUN_TICKS, COUNT, PERIOD and LAST_TICK wrap at this; 65536

\* The values of FILTER: what software writes, and 0.
Filters == {s.filter : s \in Settings} \cup {0}
IsLongest(n) == \A k \in Filters : k <= n

ASSUME PulseAssumption ==
  /\ Inputs # {}
  /\ Settings \subseteq [falling : BOOLEAN, filter : Nat] /\ Settings # {}
  /\ \E n \in Filters : IsLongest(n)
  /\ Wrap \in Nat \ {0, 1}

VARIABLES
  pin,         \* the level of each input
  ticks,       \* run_ticks_i
  enable, falling, select, filter,
  front,       \* the synchroniser and the filter
  pending, lastValid, count, period, lastTick,
  writes,      \* the register writes left of the call in progress
  g            \* history, for the properties

regs == <<enable, falling, select, filter, front, pending, lastValid, count, period, lastTick>>
vars == <<pin, ticks, regs, writes, g>>

Longest == CHOOSE n \in Filters : IsLongest(n)
UpTo(k, n) == IF n > k THEN k ELSE n
Two(n)     == UpTo(2, n)

\* The history: of the selected line
\*   clean    it holds every level for the time of the filter, by nature
\*   held     clocks at its level           steady   clocks of the level in sync
\* of the software
\*   quiet    clocks since FILTER or INPUT_SELECT was written
\*   old      the epoch holds an edge from before the end of the latest configuration
\*   acked    COUNT when PENDING went down
\* and of the epoch, or of the part of it since the configuration has settled
\*   surplus  COUNT less the edges of the pin     seen  edges of the pin, up to 2
\*   at       when the last one was               apart ticks between the last two
NewEpoch == [surplus |-> 0, seen |-> 0, at |-> 0, apart |-> 0]

Init ==
  /\ pin \in [Inputs -> BOOLEAN] /\ ticks = 0
  /\ enable = FALSE /\ falling = FALSE /\ filter = 0
  /\ select = CHOOSE i \in Inputs : TRUE
  /\ front = ClearFront
  /\ pending = FALSE /\ lastValid = FALSE
  /\ count = 0 /\ period = 0 /\ lastTick = 0
  /\ writes = <<>>
  /\ \E clean \in BOOLEAN :
       g = [clean |-> clean, held |-> 0, steady |-> 0, quiet |-> 0, old |-> FALSE, acked |-> 0,
            epoch |-> NewEpoch]

-----------------------------------------------------------------------------
(* The engine.                                                             *)

\* Mutant: the samples of an edge are counted before the last of them.
EarlyEdge == enable /\ front.sync # front.filtered /\ front.sync # falling

Edge == enable /\ Accepts(front, filter) /\ front.sync # falling

Write(r, v) == [reg |-> r, value |-> v]
NoWrite     == Write("none", FALSE)

\* Mutant: an acknowledgement wins over an edge.
AckWins(w) == IF w.reg = "status" THEN FALSE ELSE pending \/ Edge

\* INPUT_SELECT, and CLEAR unless there is an edge, empty the epoch.
Empties(w) == w.reg = "select" \/ (w.reg = "clear" /\ ~Edge)

PendingNext(w) == IF w.reg = "status" THEN Edge ELSE pending \/ Edge

FrontNext(w) ==
  LET s == Sampled(front, filter, pin[select])
  IN CASE w.reg = "select" -> [s EXCEPT !.filtered = front.sync, !.count = 0]
       [] w.reg = "filter" -> [s EXCEPT !.count = 0]
       [] OTHER            -> s

PeriodNext == IF lastValid THEN (ticks - lastTick) % Wrap ELSE 0

\* A clock edge with the write w on the bus.
Engine(w) ==
  /\ front' = FrontNext(w)
  /\ enable'  = IF w.reg = "ctrl" THEN w.value ELSE enable
  /\ select'  = IF w.reg = "select" THEN w.value ELSE select
  /\ falling' = IF w.reg = "edge" THEN w.value ELSE falling
  /\ filter'  = IF w.reg = "filter" THEN w.value ELSE filter
  /\ IF Empties(w)
       THEN /\ pending' = FALSE /\ lastValid' = FALSE
            /\ count' = 0 /\ period' = 0 /\ lastTick' = 0
       ELSE /\ pending' = PendingNext(w)
            /\ IF Edge
                 THEN /\ count' = (count + 1) % Wrap /\ period' = PeriodNext
                      /\ lastTick' = ticks /\ lastValid' = TRUE
                 ELSE UNCHANGED <<lastValid, count, period, lastTick>>

-----------------------------------------------------------------------------
(* The history and the pins.                                               *)

\* The line made an edge of the selected direction in the latest sample.
PinEdge == front.meta # pin[select] /\ pin[select] # falling

EpochNext(w) ==
  LET e == g.epoch
      made == IF enable /\ PinEdge THEN 1 ELSE 0
      counted == IF Edge THEN 1 ELSE 0
  IN IF Empties(w) \/ w.reg \in {"ctrl", "edge", "filter"} \/ g.quiet <= filter THEN NewEpoch
     ELSE [surplus |-> (e.surplus + counted - made) % Wrap,
           seen    |-> Two(e.seen + made),
           at      |-> IF made = 1 THEN ticks ELSE e.at,
           apart   |-> IF made = 1 THEN (ticks - e.at) % Wrap ELSE e.apart]

Record(w, starts) ==
  g' = [clean  |-> g.clean,
        held   |-> IF pin'[select'] = pin[select] THEN UpTo(Longest + 3, g.held + 1) ELSE 0,
        steady |-> IF front.sync = front'.sync THEN UpTo(Longest + 1, g.steady + 1) ELSE 0,
        quiet  |-> IF w.reg \in {"filter", "select"} THEN 0 ELSE UpTo(Longest + 1, g.quiet + 1),
        old    |-> lastValid' /\ (g.old \/ starts \/ (Edge /\ Len(writes) > 1)),
        acked  |-> IF pending' \/ Empties(w) THEN 0
                   ELSE IF w.reg = "status" THEN count ELSE g.acked,
        epoch  |-> EpochNext(w)]

PinsMove ==
  /\ pin' \in [Inputs -> BOOLEAN]
  /\ (g.clean /\ pin'[select] # pin[select]) => g.held >= filter

-----------------------------------------------------------------------------
(* The software.                                                           *)

Configure(i, s) ==
  <<Write("ctrl", FALSE), Write("select", i), Write("edge", s.falling), Write("filter", s.filter),
    Write("clear", TRUE), Write("status", TRUE), Write("ctrl", TRUE)>>

Calls ==
  {Configure(i, s) : i \in Inputs, s \in Settings}
    \cup {<<Write("clear", TRUE)>>, <<Write("status", TRUE)>>, <<Write("ctrl", FALSE)>>}

Clocked(w, starts) ==
  /\ Engine(w) /\ PinsMove /\ Record(w, starts)
  /\ ticks' = (ticks + 1) % Wrap

Wait    == Clocked(NoWrite, FALSE) /\ UNCHANGED writes
DoWrite == writes # <<>> /\ Clocked(Head(writes), FALSE) /\ writes' = Tail(writes)
Call    == /\ writes = <<>> /\ writes' \in Calls
           /\ Clocked(NoWrite, Len(writes') > 1)

Next == Wait \/ DoWrite \/ Call
Spec == Init /\ [][Next]_vars

-----------------------------------------------------------------------------
(* Properties.                                                             *)

TypeOK ==
  /\ pin \in [Inputs -> BOOLEAN] /\ ticks \in 0 .. Wrap - 1
  /\ enable \in BOOLEAN /\ falling \in BOOLEAN /\ select \in Inputs
  /\ filter \in Filters
  /\ front \in [meta : BOOLEAN, sync : BOOLEAN, filtered : BOOLEAN, count : 0 .. filter]
  /\ pending \in BOOLEAN /\ lastValid \in BOOLEAN
  /\ {count, period, lastTick} \subseteq 0 .. Wrap - 1

\* A level that stays is accepted in the time of the filter, whatever glitches
\* and changes of FILTER came before it (omcu.h:666-667, "requires N+1
\* mismatched synchronized samples"), and no level that stays for less:
\* glitches never add up to an edge.
OnlyStableLevels ==
  /\ g.steady > filter /\ g.quiet > filter => front.filtered = front.sync
  /\ Accepts(front, filter) => g.steady >= filter

\* A clean pin is counted and timed edge for edge, through any acknowledgement,
\* clear or configuration: once it is quiet, COUNT exceeds the edges since the
\* epoch or the enabling began, or since FILTER has had its time, at most by the one
\* that the front end still held then, and PERIOD is the distance of the last two.
CountsThePin ==
  g.clean /\ enable /\ g.held > filter + 2 =>
    /\ g.epoch.surplus \in 0 .. 1
    /\ g.epoch.seen = 2 => period = g.epoch.apart

\* While PENDING is down, COUNT is the one last acknowledged: no edge goes by
\* unannounced, also not one in the clock of an acknowledgement.  And
\* omcu_pulse0_configure returns with an epoch that holds no edge from before, or
\* from the half of the configuration, although a CLEAR in the clock of an edge is
\* refused.
EpochIsTold ==
  /\ ~pending => count = g.acked
  /\ writes = <<>> => ~g.old
=============================================================================
