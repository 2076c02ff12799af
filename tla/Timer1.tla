------------------------------- MODULE Timer1 -------------------------------
(***************************************************************************)
(* TIMER1 (omcu_timer1.sv): a compare timer, the capture of two filtered   *)
(* inputs and a quadrature decoder on the same inputs, under the calls of  *)
(* the SDK (omcu.h), with the two channels of one shaft on the pins.       *)
(*                                                                         *)
(* Every action is a clock edge.  A call is the sequence of its register   *)
(* writes, any number of clocks apart.                                     *)
(***************************************************************************)
EXTENDS Integers, Sequences, InputFilter

CONSTANTS
  Wrap,       \* COUNT and ENCODER wrap at this; 65536
  Configs,    \* arguments of omcu_timer1_configure: [prescale, compare, filter, ctrl]
  Positions   \* arguments of omcu_timer1_set_encoder_position

\* The bits of CTRL.
Bits == {"timer", "reload", "captureA", "captureB", "fallingA", "fallingB", "encoder", "reverse"}

\* The values of FILTER: what software writes, and 0.
Filters == {k.filter : k \in Configs} \cup {0}
IsLongest(n) == \A k \in Filters : k <= n

ASSUME TimerAssumption ==
  /\ Wrap \in Nat /\ Wrap % 4 = 0 /\ Wrap > 0
  /\ Configs \subseteq [prescale : 0 .. Wrap - 1, compare : 0 .. Wrap - 1, filter : Nat,
                        ctrl : SUBSET Bits]
  /\ \E n \in Filters : IsLongest(n)
  /\ Positions \subseteq 0 .. Wrap - 1

VARIABLES
  shaft,       \* the quarter of the turn, and the edge it crossed last
  ctrl, prescale, prescaleCount, count, compare, filter,
  capture,     \* CAPTURE_A and CAPTURE_B
  front,       \* the synchroniser and the filter of each channel
  position, forwards,   \* ENCODER and the direction bit of STATUS
  pending,     \* the event bits of STATUS
  writes,      \* the register writes left of the call in progress
  g            \* history, for the properties

timerVars == <<shaft, ctrl, prescale, prescaleCount, count, compare, filter, capture, front,
          position, forwards, pending, writes, g>>

Channels == {"A", "B"}
Events   == {"compare", "captureA", "captureB", "step", "illegal"}

Longest == CHOOSE n \in Filters : IsLongest(n)
UpTo(k, n) == IF n > k THEN k ELSE n

\* The levels of the two channels in a quarter of the turn: 00, 01, 11, 10.
Level(k) == [c \in Channels |-> IF c = "A" THEN k \in {2, 3} ELSE k \in {1, 2}]

\* The history:
\*   bounce  a contact may chatter while the shaft is on its edge, by nature
\*   rest    clocks the shaft has stayed      quiet    clocks since FILTER was written
\*   since   clocks of the timer since it was enabled or reloaded, Stopped before
\*   sure    the inputs were quiet when the decoder was last set or enabled
\*   lag     steps of the shaft that ENCODER has not made since
\*   acked   ENCODER when the step event went down
\*   edgeAt  since, at the last edge of each channel since then that it should capture
Stopped == 0 - 1
TimerInit ==
  /\ shaft \in [quarter : 0 .. 3, edge : {0}]
  /\ ctrl = {} /\ prescale = 0 /\ prescaleCount = 0 /\ count = 0
  /\ compare = Wrap - 1 /\ filter = 0
  /\ capture = [c \in Channels |-> 0]
  /\ front = [c \in Channels |-> ClearFront]
  /\ position = 0 /\ forwards = FALSE /\ pending = {}
  /\ writes = <<>>
  /\ \E bounce \in BOOLEAN :
       g = [bounce |-> bounce, rest |-> 0, quiet |-> 0, since |-> Stopped, sure |-> FALSE,
            lag |-> 0, acked |-> 0, edgeAt |-> [c \in Channels |-> Stopped]]

-----------------------------------------------------------------------------
(* The events of a clock.                                                  *)

Tick         == "timer" \in ctrl /\ prescaleCount = prescale
CompareEvent == Tick /\ count = compare

CaptureOn(c) == (IF c = "A" THEN "captureA" ELSE "captureB") \in ctrl
Falling(c)   == (IF c = "A" THEN "fallingA" ELSE "fallingB") \in ctrl

CaptureEvent(c) == CaptureOn(c) /\ Accepts(front[c], filter) /\ front[c].sync # Falling(c)

\* encoder_state_q follows the filtered levels in every clock, so it is them.
Quarter(level) == IF level["A"] THEN IF level["B"] THEN 2 ELSE 3
                                ELSE IF level["B"] THEN 1 ELSE 0

\* Mutant: the decoder looks at the samples before the filter.
TurnedUnfiltered ==
  (Quarter([c \in Channels |-> front[c].sync])
     - Quarter([c \in Channels |-> front[c].filtered])) % 4

Turned ==
  (Quarter([c \in Channels |-> Accepted(front[c], filter)])
     - Quarter([c \in Channels |-> front[c].filtered])) % 4

EncoderStep    == "encoder" \in ctrl /\ Turned \in {1, 3}
Illegal == "encoder" \in ctrl /\ Turned = 2
Increment == (Turned = 1) # ("reverse" \in ctrl)

Happened ==
  {e \in Events : CASE e = "compare"  -> CompareEvent
                    [] e = "captureA" -> CaptureEvent("A")
                    [] e = "captureB" -> CaptureEvent("B")
                    [] e = "step"     -> EncoderStep
                    [] e = "illegal"  -> Illegal}

-----------------------------------------------------------------------------
(* A clock edge with the write w on the bus.                               *)

Write(r, v) == [reg |-> r, value |-> v]
NoWrite     == Write("none", 0)

\* Mutant: an acknowledgement wins over an event.
AckWins(w) ==
  IF w.reg = "status" THEN (pending \cup Happened) \ w.value ELSE pending \cup Happened

PendingNext(w) ==
  (IF w.reg = "status" THEN pending \ w.value ELSE pending) \cup Happened

PrescaleCountNext == IF "timer" \notin ctrl \/ Tick THEN 0 ELSE prescaleCount + 1

CountNext ==
  IF ~Tick THEN count
  ELSE IF CompareEvent THEN (IF "reload" \in ctrl THEN 0 ELSE count)
  ELSE (count + 1) % Wrap

PositionNext == IF EncoderStep THEN (position + (IF Increment THEN 1 ELSE Wrap - 1)) % Wrap ELSE position

\* Mutant: the capture takes the count of the next tick.
CaptureAfter(c) == IF CaptureEvent(c) THEN CountNext ELSE capture[c]

CaptureNext(c) == IF CaptureEvent(c) THEN count ELSE capture[c]

FrontNext(w) ==
  [c \in Channels |->
     LET s == Sampled(front[c], filter, Level(shaft.quarter)[c])
     IN IF w.reg = "filter" THEN [s EXCEPT !.count = 0] ELSE s]

Engine(w) ==
  /\ front' = FrontNext(w)
  /\ ctrl' = IF w.reg = "ctrl" THEN w.value
             ELSE IF CompareEvent /\ "reload" \notin ctrl THEN ctrl \ {"timer"} ELSE ctrl
  /\ prescale' = IF w.reg = "prescale" THEN w.value ELSE prescale
  /\ prescaleCount' = PrescaleCountNext
  /\ count' = IF w.reg = "count" THEN w.value ELSE CountNext
  /\ compare' = IF w.reg = "compare" THEN w.value ELSE compare
  /\ filter' = IF w.reg = "filter" THEN w.value ELSE filter
  /\ capture' = [c \in Channels |-> CaptureNext(c)]
  /\ position' = IF w.reg = "encoder" THEN w.value ELSE PositionNext
  /\ forwards' = IF EncoderStep THEN Increment ELSE forwards
  /\ pending' = PendingNext(w)

-----------------------------------------------------------------------------
(* The shaft, which stays on a quarter for the time of the filter before it *)
(* goes on to the next one, and the history.                                *)

Turns(d) ==
  LET edge == IF d = 1 THEN shaft.quarter ELSE (shaft.quarter + 3) % 4
  IN /\ g.rest >= filter \/ (g.bounce /\ edge = shaft.edge)
     /\ shaft' = [quarter |-> (shaft.quarter + d) % 4, edge |-> edge]

ShaftMoves == UNCHANGED shaft \/ Turns(1) \/ Turns(3)

Quiet == g.rest > filter + 2 /\ g.quiet > filter

\* The next sample is an edge that channel c should capture.
EdgeToCapture(c) ==
  LET level == Level(shaft'.quarter)[c]
  IN CaptureOn(c) /\ level # Level(shaft.quarter)[c] /\ level # Falling(c)

Period == (prescale + 1) * (compare + 1)
SinceNext(w) ==
  IF w.reg = "ctrl" THEN (IF "timer" \in w.value THEN 0 ELSE Stopped)
  ELSE IF "timer" \notin ctrl THEN g.since
  ELSE IF g.since = Period - 1 /\ "reload" \in ctrl THEN 0 ELSE UpTo(Period, g.since + 1)

Directed(d) == IF ("reverse" \in ctrl) THEN (4 - d) % 4 ELSE d
Moved     == LET d == Directed((shaft'.quarter - shaft.quarter) % 4)
             IN IF d = 3 THEN 0 - 1 ELSE d

Record(w) ==
  LET starts == w.reg \in {"ctrl", "encoder"}
  IN g' = [bounce |-> g.bounce,
           rest  |-> IF shaft' = shaft THEN UpTo(Longest + 3, g.rest + 1) ELSE 0,
           quiet |-> IF w.reg = "filter" THEN 0 ELSE UpTo(Longest + 1, g.quiet + 1),
           since |-> SinceNext(w),
           sure  |-> IF starts THEN Quiet /\ shaft' = shaft ELSE g.sure /\ w.reg # "filter",
           lag   |-> IF starts \/ "encoder" \notin ctrl THEN 0
                     ELSE (g.lag + Moved - (position' - position)) % Wrap,
           acked |-> IF "step" \in pending' THEN 0
                     ELSE IF w.reg = "encoder" THEN w.value
                     ELSE IF w.reg = "status" /\ "step" \in w.value THEN position ELSE g.acked,
           edgeAt |-> [c \in Channels |->
                         IF starts THEN Stopped
                         ELSE IF EdgeToCapture(c) /\ g.since # Stopped THEN SinceNext(w)
                         ELSE g.edgeAt[c]]]

-----------------------------------------------------------------------------
(* The software.                                                           *)

Configure(k) ==
  <<Write("ctrl", {}), Write("prescale", k.prescale), Write("count", 0),
    Write("compare", k.compare), Write("filter", k.filter), Write("status", Events),
    Write("ctrl", k.ctrl)>>

Calls ==
  {Configure(k) : k \in Configs}
    \cup {<<Write("status", {"step"})>>}
    \cup {<<Write("encoder", p)>> : p \in Positions}

Clocked(w) == Engine(w) /\ ShaftMoves /\ Record(w)

Wait    == Clocked(NoWrite) /\ UNCHANGED writes
DoWrite == writes # <<>> /\ Clocked(Head(writes)) /\ writes' = Tail(writes)
Call    == writes = <<>> /\ writes' \in Calls /\ Clocked(NoWrite)

TimerNext == Wait \/ DoWrite \/ Call
TimerSpec == TimerInit /\ [][TimerNext]_timerVars

-----------------------------------------------------------------------------
(* Properties.                                                             *)

TimerTypeOK ==
  /\ shaft \in [quarter : 0 .. 3, edge : 0 .. 3]
  /\ ctrl \subseteq Bits /\ pending \subseteq Events
  /\ prescaleCount \in 0 .. Wrap - 1
  /\ {prescale, count, compare, position} \subseteq 0 .. Wrap - 1
  /\ capture \in [Channels -> 0 .. Wrap - 1]
  /\ front \in [Channels -> [meta : BOOLEAN, sync : BOOLEAN, filtered : BOOLEAN,
                             count : 0 .. filter]]
  /\ forwards \in BOOLEAN

\* ENCODER follows the shaft exactly, in both directions, through any chatter of a
\* contact, once the front end has settled; and a shaft that obeys the filter is
\* never reported as an illegal transition.
EncoderFollowsShaft ==
  g.sure => /\ ~Illegal
            /\ Quiet => g.lag = 0

\* While the step event is down, ENCODER is as it was when it was acknowledged.
PendingTellsThePosition == "step" \notin pending => position = g.acked

\* A timer that was configured reaches its compare value after exactly
\* (PRESCALE + 1) * (COMPARE + 1) clocks, whatever it did before, once or, with
\* AUTO_RELOAD, again and again.
CompareOnTime == g.since # Stopped => (CompareEvent <=> g.since = Period - 1)

\* COUNT at t clocks after the enabling.
CountAt(t) ==
  IF "reload" \in ctrl THEN (t % Period) \div (prescale + 1)
  ELSE IF t >= Period THEN compare ELSE t \div (prescale + 1)

\* Of a shaft that does not chatter, a capture is the time of the edge at the pin
\* plus the filter + 3 clocks of the front end, so that differences are exact.
CaptureIsTheEdge ==
  (~g.bounce /\ g.sure /\ Quiet) =>
     \A c \in Channels :
       g.edgeAt[c] # Stopped =>
          capture[c] = CountAt(g.edgeAt[c] + filter + 2)
=============================================================================
