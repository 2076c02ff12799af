------------------------------- MODULE Watchdog -------------------------------
(***************************************************************************)
(* WDT0: rtl/peripherals/omcu_wdt.sv.                                      *)
(*                                                                         *)
(* Every action is one rising clock edge together with the bus access that *)
(* happens in that clock; a write that the register file ignores (a partial*)
(* store, another register, a wrong feed word) is an Idle edge.  The       *)
(* timeout, the warning and the window are compared for equality with the  *)
(* counter, so they work only if the counter can never step over them.     *)
(***************************************************************************)
EXTENDS Integers

CONSTANTS
  CountMax,   \* the largest 32-bit value
  Tasks,      \* the tasks with a heartbeat bit
  Settings,   \* the values software writes to the configuration registers
  Modes,      \* the sets of bits software writes to CTRL
  Acks        \* the sets of bits software clears in STATUS

ASSUME WidthAssumption ==
  /\ CountMax \in Nat \ {0}
  /\ Settings \subseteq 0 .. CountMax

VARIABLES
  ctrl,         \* the set bits of CTRL
  timeout, pretimeout, windowMin,
  required,     \* HEARTBEAT_REQUIRED
  count,
  seen,         \* HEARTBEAT_SEEN
  status,       \* the latched bits of STATUS
  windowOpen,   \* window_open_q
  resetReq      \* reset_req_q

config  == <<timeout, pretimeout, windowMin, required>>
wdtVars == <<ctrl, config, count, seen, status, windowOpen, resetReq>>

Counts     == 0 .. CountMax
CtrlBits   == {"ENABLE", "RESET_ENABLE", "IRQ_ENABLE", "PRETIMEOUT_IRQ_ENABLE",
               "WINDOW_ENABLE", "HEARTBEAT_ENABLE"}
StatusBits == {"EXPIRED", "PRETIMEOUT", "WINDOW_VIOLATION", "HEARTBEAT_MISSING",
               "FEED_REJECTED"}

ASSUME SoftwareAssumption ==
  /\ Modes \subseteq SUBSET CtrlBits
  /\ Acks \subseteq SUBSET StatusBits

\* The asynchronous reset of the block.
Powerup ==
  /\ ctrl = {}
  /\ timeout = CountMax /\ pretimeout = 0 /\ windowMin = 0 /\ required = {}
  /\ count = 0 /\ seen = {} /\ status = {}
  /\ windowOpen = FALSE /\ resetReq = FALSE

-----------------------------------------------------------------------------
(* What the comparators say in this clock.                                 *)

Enabled    == "ENABLE" \in ctrl
Windowed   == "WINDOW_ENABLE" \in ctrl

PretimeoutEvent == Enabled /\ pretimeout # 0 /\ count = pretimeout
Expiry          == Enabled /\ count = timeout
WindowOpens     == Enabled /\ Windowed /\ count = windowMin

\* What would be wrong with a feed in this clock.
TooEarly         == Windowed /\ ~windowOpen /\ ~WindowOpens

HeartbeatMissing == "HEARTBEAT_ENABLE" \in ctrl /\ ~(required \subseteq seen)
FeedFails        == TooEarly \/ HeartbeatMissing

\* The STATUS bits the hardware sets at this edge; fed: a feed is written.
Raised(fed) ==
  {b \in StatusBits :
     \/ b = "EXPIRED"           /\ (Expiry \/ (fed /\ FeedFails))
     \/ b = "PRETIMEOUT"        /\ PretimeoutEvent
     \/ b = "WINDOW_VIOLATION"  /\ fed /\ TooEarly
     \/ b = "HEARTBEAT_MISSING" /\ fed /\ HeartbeatMissing
     \/ b = "FEED_REJECTED"     /\ fed /\ (FeedFails \/ Expiry)}

-----------------------------------------------------------------------------
(* The registers at the edge.                                              *)

\* Mutant: only an expiry that is not reported yet requests a reset.
FlagsOnce(fed, cleared) ==
  /\ status' = (status \ cleared) \cup Raised(fed)
  /\ resetReq' = ("RESET_ENABLE" \in ctrl /\ "EXPIRED" \in Raised(fed) \ status)

\* Mutant: an acknowledgement beats the event of the same clock.
FlagsCleared(fed, cleared) ==
  /\ status' = (status \cup Raised(fed)) \ cleared
  /\ resetReq' = ("RESET_ENABLE" \in ctrl /\ "EXPIRED" \in Raised(fed))

Flags(fed, cleared) ==
  /\ status' = (status \ cleared) \cup Raised(fed)
  /\ resetReq' = ("RESET_ENABLE" \in ctrl /\ "EXPIRED" \in Raised(fed))

\* The later assignment of window_open_q wins.
Advance ==
  /\ count' = IF ~Enabled THEN count
              ELSE IF Expiry \/ count = CountMax THEN 0 ELSE count + 1
  /\ windowOpen' = (WindowOpens \/ (windowOpen /\ ~Expiry))

\* Mutant: the window of the old epoch stays open.
RestartWindowKept == count' = 0 /\ seen' = {} /\ UNCHANGED windowOpen

\* Mutant: the heartbeats of the old epoch count in the new one.
RestartSeenKept == count' = 0 /\ windowOpen' = FALSE /\ UNCHANGED seen

Restart == count' = 0 /\ seen' = {} /\ windowOpen' = FALSE

Idle ==
  /\ Flags(FALSE, {}) /\ Advance
  /\ UNCHANGED <<ctrl, config, seen>>

Kick(tasks) ==
  /\ Flags(FALSE, {}) /\ Advance
  /\ seen' = seen \cup tasks
  /\ UNCHANGED <<ctrl, config>>

ClearStatus(bits) ==
  /\ Flags(FALSE, bits) /\ Advance
  /\ UNCHANGED <<ctrl, config, seen>>

\* A refused feed restarts the epoch too; one at the expiry has no effect.
Feed ==
  /\ Flags(TRUE, {})
  /\ IF Expiry /\ ~FeedFails THEN Advance /\ UNCHANGED seen ELSE Restart
  /\ UNCHANGED <<ctrl, config>>

\* While enabled, only a write that disables is accepted.
WriteCtrl(bits) ==
  /\ Flags(FALSE, {})
  /\ UNCHANGED config
  /\ IF Enabled /\ "ENABLE" \in bits THEN Advance /\ UNCHANGED <<ctrl, seen>>
                                     ELSE ctrl' = bits /\ Restart

\* A write of one of the configuration registers: t, p, w, r are its new
\* content, of which at most one differs from the old.
Configure(t, p, w, r) ==
  /\ Flags(FALSE, {}) /\ Advance
  /\ IF Enabled THEN UNCHANGED config
     ELSE timeout' = t /\ pretimeout' = p /\ windowMin' = w /\ required' = r
  /\ UNCHANGED <<ctrl, seen>>

Reset ==
  /\ ctrl' = {}
  /\ timeout' = CountMax /\ pretimeout' = 0 /\ windowMin' = 0 /\ required' = {}
  /\ count' = 0 /\ seen' = {} /\ status' = {}
  /\ windowOpen' = FALSE /\ resetReq' = FALSE

WriteConfig ==
  \/ \E v \in Settings : \/ Configure(v, pretimeout, windowMin, required)
                         \/ Configure(timeout, v, windowMin, required)
                         \/ Configure(timeout, pretimeout, v, required)
  \/ \E tasks \in SUBSET Tasks : Configure(timeout, pretimeout, windowMin, tasks)

\* A clock in which the tasks in alive, and only they, may report progress.
ClockOf(alive) ==
  \/ Idle \/ Feed \/ WriteConfig
  \/ \E tasks \in SUBSET alive : Kick(tasks)
  \/ \E bits \in Acks : ClearStatus(bits)
  \/ \E bits \in Modes : WriteCtrl(bits)

Clock == ClockOf(Tasks)

Next == Clock \/ Reset

Spec == Powerup /\ [][Next]_wdtVars

-----------------------------------------------------------------------------
TypeOK ==
  /\ ctrl \in SUBSET CtrlBits
  /\ timeout \in Counts /\ pretimeout \in Counts /\ windowMin \in Counts
  /\ required \in SUBSET Tasks
  /\ count \in Counts
  /\ seen \in SUBSET Tasks
  /\ status \in SUBSET StatusBits
  /\ windowOpen \in BOOLEAN
  /\ resetReq \in BOOLEAN

\* The comment at expiry_event: equality is sufficient for the expiry, because
\* the counter of a started epoch can never be past the timeout.
CountWithinTimeout == Enabled => count <= timeout

\* What WINDOW_MIN promises: in a clock with this count, a feed is too early
\* exactly if the count has not reached WINDOW_MIN in this epoch.
WindowContract == Enabled /\ Windowed => (TooEarly <=> count < windowMin)

\* The latched flag stands for that comparison, across expiries, feeds and
\* restarts, whenever WINDOW_MIN is not the very clock of the expiry.
SupervisedWindow == windowMin # timeout => WindowContract

\* An expiry is reported, and resets the device if it is meant to, whatever
\* software writes in the same clock: a feed, an acknowledgement, a disable.
ExpiryAlwaysActs ==
  [][Expiry /\ Clock => /\ "EXPIRED" \in status'
                        /\ "RESET_ENABLE" \in ctrl => resetReq']_wdtVars
=============================================================================
