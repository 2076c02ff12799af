-------------------------------- MODULE Alarm --------------------------------
(***************************************************************************)
(* TIMER0 (omcu_timer.sv), the two alarms of ALARM0 (omcu_alarm.sv) that   *)
(* share its count, and the functions of the SDK that program both         *)
(* (sdk/include/omcu.h).                                                   *)
(*                                                                         *)
(* Every action is one rising clock edge.  A function of the SDK is the    *)
(* list of its bus writes; any number of clocks may pass between two of    *)
(* them.  The 32-bit COUNT is a pair of half words, of which ALARM0 sees   *)
(* the lower.  Interrupt enables only gate outputs and are left out.       *)
(***************************************************************************)
EXTENDS Integers, Sequences

CONSTANTS
  Top,           \* the largest lower half word; 2^16 - 1 in the product
  HighTop,       \* the largest upper half word
  PrescaleMax,   \* the largest PRESCALE
  Prescales,     \* values software writes to PRESCALE
  Compares,      \* values software writes to TIMER0.COMPARE
  Requests       \* what software asks of omcu_alarm0_schedule_after

Channels == {0, 1}
Half     == 0 .. Top
Counts   == [hi : 0 .. HighTop, lo : Half]
CtrlBits == {"ENABLE", "RELOAD"}

\* The checks of omcu_alarm0_schedule and omcu_alarm0_schedule_after.
Request == [ch : Channels, delay : 1 .. Top, period : Half, periodic : BOOLEAN]

ASSUME AlarmAssumption ==
  /\ Top \in Nat /\ HighTop \in Nat /\ PrescaleMax \in Nat
  /\ Prescales \subseteq 0 .. PrescaleMax
  /\ Compares \subseteq Counts
  /\ Requests \subseteq {r \in Request : r.periodic => r.period # 0}

VARIABLES
  ctrl, prescale, prescaleCount, count, compare, timerPending,     \* TIMER0
  running, channels, periodic, pending, deadline, period,          \* ALARM0
  todo,      \* writes the SDK function in progress has still to do
  reading,   \* omcu_alarm0_schedule has not yet read CHANNEL_ENABLE
  call,      \* its request, the deadline computed, and history: ticks left
  due,       \* history: ticks until a channel should fire
  fired      \* history: channels that fired since they were scheduled

timer     == <<ctrl, prescale, prescaleCount, count, compare, timerPending>>
alarm     == <<running, channels, periodic, pending, deadline, period>>
sdk       == <<todo, reading, call>>
alarmVars == <<timer, alarm, sdk, due, fired>>

None == -1
Zero == [hi |-> 0, lo |-> 0]
Last == [hi |-> HighTop, lo |-> Top]

Powerup ==
  /\ ctrl = {} /\ prescale = 0 /\ prescaleCount = 0
  /\ count = Zero /\ compare = Last /\ timerPending = FALSE
  /\ running = FALSE /\ channels = {} /\ periodic = {} /\ pending = {}
  /\ deadline = [ch \in Channels |-> Top] /\ period = [ch \in Channels |-> 0]
  /\ todo = << >> /\ reading = FALSE
  /\ call = [ch |-> 0, target |-> 0, period |-> 0, periodic |-> FALSE, left |-> None]
  /\ due = [ch \in Channels |-> None] /\ fired = {}

-----------------------------------------------------------------------------
(* The comparators.                                                        *)

Plus(a, b) == IF a + b <= Top THEN a + b ELSE a + b - (Top + 1)

Successor(c) ==
  [hi |-> IF c.lo < Top THEN c.hi ELSE IF c.hi = HighTop THEN 0 ELSE c.hi + 1,
   lo |-> IF c.lo < Top THEN c.lo + 1 ELSE 0]

Tick         == "ENABLE" \in ctrl /\ prescaleCount = prescale
CompareEvent == Tick /\ count = compare

Event(ch)   == Tick /\ running /\ ch \in channels /\ count.lo = deadline[ch]
Repeats(ch) == ch \in periodic /\ period[ch] # 0

-----------------------------------------------------------------------------
(* The registers at an edge with bus write w.                              *)

Write(reg, data)           == [reg |-> reg, ch |-> 0, data |-> data]
ChannelWrite(reg, ch, data) == [reg |-> reg, ch |-> ch, data |-> data]
NoWrite                    == Write("none", 0)

TimerEdge(w) ==
  /\ ctrl' = IF w.reg = "T_CTRL" THEN w.data
             ELSE IF CompareEvent /\ "RELOAD" \notin ctrl THEN ctrl \ {"ENABLE"}
             ELSE ctrl
  /\ prescale' = IF w.reg = "PRESCALE" THEN w.data ELSE prescale
  /\ prescaleCount' =
       IF "ENABLE" \notin ctrl \/ Tick \/ prescaleCount = PrescaleMax THEN 0
       ELSE prescaleCount + 1
  /\ count' = IF w.reg = "COUNT" THEN w.data
              ELSE IF ~Tick THEN count
              ELSE IF ~CompareEvent THEN Successor(count)
              ELSE IF "RELOAD" \in ctrl THEN Zero ELSE count
  /\ compare' = IF w.reg = "T_COMPARE" THEN w.data ELSE compare
  /\ timerPending' = (CompareEvent \/ (timerPending /\ w.reg # "STATUS"))

PendingAfter(w) ==
  (pending \ (IF w.reg = "PENDING" THEN w.data ELSE {}))
     \cup {ch \in Channels : Event(ch)}

AlarmEdge(w) ==
  /\ running' = IF w.reg = "A_CTRL" THEN w.data ELSE running
  /\ channels' = IF w.reg = "CHANNEL_ENABLE" THEN w.data
                 ELSE {ch \in channels : Event(ch) => Repeats(ch)}
  /\ periodic' = IF w.reg = "PERIODIC" THEN w.data ELSE periodic
  /\ pending' = PendingAfter(w)
  /\ deadline' = [ch \in Channels |->
       IF w.reg = "A_COMPARE" /\ w.ch = ch THEN w.data
       ELSE IF Event(ch) /\ Repeats(ch) THEN Plus(deadline[ch], period[ch])
       ELSE deadline[ch]]
  /\ period' = [ch \in Channels |->
       IF w.reg = "PERIOD" /\ w.ch = ch THEN w.data ELSE period[ch]]

-----------------------------------------------------------------------------
(* History.  A channel is due from the write that enables it, if that is   *)
(* early enough, until TIMER0 or ALARM0 is stopped or set.                 *)

Steady(w) ==
  /\ running /\ w.reg \notin {"A_CTRL", "COUNT"}
  /\ CompareEvent => count = Last /\ "RELOAD" \in ctrl

Left(n) == IF Tick /\ n # None THEN n - 1 ELSE n

Enables(w, ch) == w.reg = "CHANNEL_ENABLE" /\ ch = call.ch /\ ch \in w.data

History(w) ==
  /\ due' = [ch \in Channels |->
       IF ~Steady(w) \/ ch \notin channels' THEN None
       ELSE IF Enables(w, ch) THEN Left(call.left)
       ELSE IF ~Event(ch) THEN Left(due[ch])
       ELSE IF Repeats(ch) /\ due[ch] # None THEN period[ch] - 1 ELSE None]
  /\ fired' = {ch \in Channels :
                 Event(ch) \/ (ch \in fired /\ ~Enables(w, ch))}

Edge(w) == TimerEdge(w) /\ AlarmEdge(w) /\ History(w)

LeftAfter(w) == IF Steady(w) THEN Left(call.left) ELSE None

-----------------------------------------------------------------------------
(* The SDK.                                                                *)

\* Mutant: the timer is not stopped first.
PeriodicWritesRunning(p, c) ==
  << Write("PRESCALE", p), Write("COUNT", Zero), Write("T_COMPARE", c),
     Write("STATUS", 1), Write("T_CTRL", {"ENABLE", "RELOAD"}) >>

\* omcu_timer_start_periodic
PeriodicWrites(p, c) ==
  << Write("T_CTRL", {}), Write("PRESCALE", p), Write("COUNT", Zero),
     Write("T_COMPARE", c), Write("STATUS", 1), Write("T_CTRL", {"ENABLE", "RELOAD"}) >>

\* omcu_alarm0_attach_timer0
AttachWrites ==
  << Write("A_CTRL", FALSE), Write("PENDING", Channels), Write("A_CTRL", TRUE) >>

\* omcu_alarm0_start
StartWrites(p) ==
  << Write("A_CTRL", FALSE) >> \o PeriodicWrites(p, Last)
    \o << Write("PENDING", Channels), Write("A_CTRL", TRUE) >>

PeriodicBits == IF call.periodic THEN periodic \cup {call.ch} ELSE periodic \ {call.ch}

\* Mutant: the flag is cleared before the channel is disabled.
ScheduleWritesClearFirst(enabled) ==
  << Write("PENDING", {call.ch}),
     Write("CHANNEL_ENABLE", enabled \ {call.ch}),
     ChannelWrite("A_COMPARE", call.ch, call.target),
     ChannelWrite("PERIOD", call.ch, call.period),
     Write("PERIODIC", PeriodicBits),
     Write("CHANNEL_ENABLE", enabled \cup {call.ch}) >>

\* Mutant: the channel is not disabled.
ScheduleWritesLive(enabled) ==
  << Write("PENDING", {call.ch}),
     ChannelWrite("A_COMPARE", call.ch, call.target),
     ChannelWrite("PERIOD", call.ch, call.period),
     Write("PERIODIC", PeriodicBits),
     Write("CHANNEL_ENABLE", enabled \cup {call.ch}) >>

\* omcu_alarm0_schedule after it has read CHANNEL_ENABLE.
ScheduleWrites(enabled) ==
  << Write("CHANNEL_ENABLE", enabled \ {call.ch}),
     Write("PENDING", {call.ch}),
     ChannelWrite("A_COMPARE", call.ch, call.target),
     ChannelWrite("PERIOD", call.ch, call.period),
     Write("PERIODIC", PeriodicBits),
     Write("CHANNEL_ENABLE", enabled \cup {call.ch}) >>

AtRest == todo = << >> /\ ~reading

Elapse(w) ==
  Edge(w) /\ call' = [call EXCEPT !.left = LeftAfter(w)]

Idle == Elapse(NoWrite) /\ UNCHANGED <<todo, reading>>

BusWrite ==
  /\ todo # << >>
  /\ Elapse(Head(todo))
  /\ todo' = Tail(todo)
  /\ UNCHANGED reading

Call(writes) ==
  /\ AtRest
  /\ Elapse(NoWrite)
  /\ todo' = writes
  /\ UNCHANGED reading

StartPeriodic == \E p \in Prescales, c \in Compares : Call(PeriodicWrites(p, c))
AlarmStart    == \E p \in Prescales : Call(StartWrites(p))
AlarmAttach   == "ENABLE" \in ctrl /\ Call(AttachWrites)

\* omcu_alarm0_clear_pending, which an interrupt handler may call at any time.
ClearPending ==
  /\ \E mask \in SUBSET Channels : Elapse(Write("PENDING", mask))
  /\ UNCHANGED <<todo, reading>>

\* omcu_alarm0_schedule_after reads COUNT.
ScheduleAfter(r) ==
  /\ AtRest
  /\ Edge(NoWrite)
  /\ reading' = TRUE
  /\ call' = [ch |-> r.ch, target |-> Plus(count.lo, r.delay),
              period |-> r.period, periodic |-> r.periodic,
              left |-> IF Steady(NoWrite) THEN Left(r.delay) ELSE None]
  /\ UNCHANGED todo

ReadEnables ==
  /\ reading
  /\ Elapse(NoWrite)
  /\ reading' = FALSE
  /\ todo' = ScheduleWrites(channels)

Clock ==
  \/ Idle \/ BusWrite
  \/ StartPeriodic \/ AlarmStart \/ AlarmAttach \/ ClearPending
  \/ \E r \in Requests : ScheduleAfter(r)
  \/ ReadEnables

Reset ==
  /\ ctrl' = {} /\ prescale' = 0 /\ prescaleCount' = 0
  /\ count' = Zero /\ compare' = Last /\ timerPending' = FALSE
  /\ running' = FALSE /\ channels' = {} /\ periodic' = {} /\ pending' = {}
  /\ deadline' = [ch \in Channels |-> Top] /\ period' = [ch \in Channels |-> 0]
  /\ todo' = << >> /\ reading' = FALSE
  /\ call' = [ch |-> 0, target |-> 0, period |-> 0, periodic |-> FALSE, left |-> None]
  /\ due' = [ch \in Channels |-> None] /\ fired' = {}

Next == Clock \/ Reset

Spec == Powerup /\ [][Next]_alarmVars

-----------------------------------------------------------------------------
TypeOK ==
  /\ ctrl \in SUBSET CtrlBits
  /\ prescale \in 0 .. PrescaleMax /\ prescaleCount \in 0 .. PrescaleMax
  /\ count \in Counts /\ compare \in Counts /\ timerPending \in BOOLEAN
  /\ running \in BOOLEAN /\ channels \in SUBSET Channels
  /\ periodic \in SUBSET Channels /\ pending \in SUBSET Channels
  /\ deadline \in [Channels -> Half] /\ period \in [Channels -> Half]
  /\ reading \in BOOLEAN
  /\ call \in [ch : Channels, target : Half, period : Half,
               periodic : BOOLEAN, left : {None} \cup Half]
  /\ due \in [Channels -> {None} \cup Half]
  /\ fired \in SUBSET Channels

AtMost(c, d) == c.hi < d.hi \/ (c.hi = d.hi /\ c.lo <= d.lo)

\* The prescaler and the count are compared for equality and are never past
\* what they are compared with, however often the SDK restarts the timer: no
\* period takes a turn of the whole counter.
EqualityIsReached ==
  /\ prescaleCount <= prescale
  /\ "ENABLE" \in ctrl => AtMost(count, compare)

\* A channel that was enabled in time fires in the tick it was asked for, and a
\* periodic one every PERIOD ticks from then on, across the wrap of the half
\* word and whatever is done to the other channel meanwhile.
FiresWhenDue ==
  [][\A ch \in Channels :
       due[ch] # None /\ running /\ Tick /\ Clock => (Event(ch) <=> due[ch] = 0)]_alarmVars

\* The W1C comments of both modules: an event in the clock of an
\* acknowledgement is not lost.
EventStaysPending ==
  [][Clock => /\ CompareEvent => timerPending'
              /\ \A ch \in Channels : Event(ch) => ch \in pending']_alarmVars

\* omcu_alarm0_schedule enables its channel with the flag clear: a flag seen
\* afterwards is of the new deadline, never of the old one.
ScheduledIsFresh ==
  [][\A ch \in Channels :
       ch \in fired /\ ch \notin fired' /\ Clock => ch \notin pending']_alarmVars

\* The comment at channel_enable_q: a one-shot alarm does not fire again at the
\* wrap of the counter.
OneShotFiresOnce ==
  [][\A ch \in Channels : Event(ch) /\ Clock => Repeats(ch) \/ ch \notin fired]_alarmVars
=============================================================================
