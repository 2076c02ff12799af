----------------------------- MODULE FaultChain -----------------------------
(***************************************************************************)
(* FAULT0 (omcu_fault.sv) with the parts it acts on: the pin claims of     *)
(* omcu_pinmux.sv, the pad multiplexer of omcu_tn9k_bringup_top.sv and the *)
(* diagnostic snapshot of omcu_gpio.sv.                                    *)
(*                                                                         *)
(* Every action is one rising clock edge with the bus access of that clock.*)
(* The environment chooses the level of the fault pin and whether GPIO0    *)
(* sees an enabled edge.  A snapshot is represented by the event it        *)
(* belongs to; its status bits FORCED and OVERFLOW are left out.           *)
(***************************************************************************)
EXTENDS Integers

CONSTANTS
  FilterMax,     \* the largest FILTER; 255 in the product
  FilterWrites,  \* values software writes to FILTER
  Modes,         \* sets of bits software writes to CTRL
  Claims,        \* sets of functions software claims in PINMUX
  Drives         \* sets of pads software drives through GPIO0

Pads      == 0 .. 11
CtrlBits  == {"ENABLE", "ACTIVE_HIGH", "IRQ_ENABLE",
              "GATE_PWM0", "GATE_PWM1", "GATE_GPIO"}
Functions == {"UART1", "PWM1", "TIMER1", "PULSE0", "FAULT0"}
SnapBits  == {"ENABLE", "IRQ_ENABLE", "OVERWRITE"}

ASSUME FaultAssumption ==
  /\ FilterMax \in Nat
  /\ FilterWrites \subseteq 0 .. FilterMax
  /\ Modes \subseteq SUBSET CtrlBits
  /\ Claims \subseteq SUBSET Functions
  /\ Drives \subseteq SUBSET Pads

VARIABLES
  ctrl, faultFilter,
  meta, sync, filtered,   \* the level of the pin on its way in
  filterCount,
  trip,                   \* trip_q
  rejected,               \* clear_rejected_q
  claims,                 \* the enables of PINMUX
  drive,                  \* gpio_oe_q
  snapCtrl, snapValid,
  record,                 \* what the snapshot registers show
  exposed                 \* history: see Exposure

input     == <<meta, sync, filtered, filterCount>>
snapshot  == <<snapValid, record>>
settings  == <<ctrl, faultFilter, claims, drive, snapCtrl>>
faultVars == <<settings, input, trip, rejected, snapshot, exposed>>

Powerup ==
  /\ ctrl = {"ACTIVE_HIGH"} /\ faultFilter = 0
  /\ meta = FALSE /\ sync = FALSE /\ filtered = FALSE /\ filterCount = 0
  /\ trip = FALSE /\ rejected = FALSE
  /\ claims = {} /\ drive = {}
  /\ snapCtrl = {} /\ snapValid = FALSE /\ record = "none"
  /\ exposed = 0

-----------------------------------------------------------------------------
(* What the comparators say in this clock.                                 *)

Accept       == sync # filtered /\ filterCount = faultFilter
FilteredNext == IF Accept THEN sync ELSE filtered

ActiveLevel == "ACTIVE_HIGH" \in ctrl
ActiveNext  == FilteredNext = ActiveLevel
Armed       == "ENABLE" \in ctrl /\ "FAULT0" \in claims

TripEvent == Armed /\ ActiveNext /\ ~trip

\* Mutant: a trip obeys the first-event policy of the GPIO edges.
CaptureEventPolite(edge) ==
  /\ TripEvent \/ (edge /\ "ENABLE" \in snapCtrl)
  /\ ~snapValid \/ "OVERWRITE" \in snapCtrl

\* edge: an edge enabled in GPIO0 arrives.
CaptureEvent(edge) ==
  \/ TripEvent
  \/ edge /\ "ENABLE" \in snapCtrl /\ (~snapValid \/ "OVERWRITE" \in snapCtrl)

-----------------------------------------------------------------------------
(* The pads.                                                               *)

Claimed(function, pads) == IF function \in claims THEN pads ELSE {}

InputPads == Claimed("UART1", {11}) \cup Claimed("TIMER1", {8, 9})
             \cup Claimed("PULSE0", {0, 1, 2}) \cup Claimed("FAULT0", {3})

HizMask == IF trip /\ "GATE_GPIO" \in ctrl THEN Pads ELSE {}

\* The later assignment to gpio_pad_oe wins.
DrivenPads ==
  ((drive \cup Claimed("UART1", {10}) \cup Claimed("PWM1", 4 .. 7)) \ InputPads)
    \ HizMask

-----------------------------------------------------------------------------
(* The registers at the edge.                                              *)

Synchronise(level) ==
  /\ meta' = level
  /\ sync' = meta
  /\ filtered' = FilteredNext

Count == filterCount' = IF sync = filtered \/ Accept THEN 0 ELSE filterCount + 1

Capture(edge) ==
  record' = IF ~CaptureEvent(edge) THEN record
            ELSE IF TripEvent THEN "trip" ELSE "edge"

\* History: for how many edges the pin has shown the active level to an
\* interlock that was armed and not reconfigured, up to a bound.
Exposure(level, reconfigured) ==
  exposed' = IF ~Armed \/ level # ActiveLevel \/ reconfigured THEN 0
             ELSE IF exposed = FilterMax + 4 THEN exposed ELSE exposed + 1

\* An edge in which the bus touches neither trip nor the snapshot status.
Sample(level, edge) ==
  /\ Synchronise(level)
  /\ trip' = (trip \/ TripEvent)
  /\ snapValid' = (snapValid \/ CaptureEvent(edge))
  /\ Capture(edge)

Quiet(level, edge) ==
  /\ Sample(level, edge) /\ Count /\ Exposure(level, FALSE)
  /\ UNCHANGED <<settings, rejected>>

WriteCtrl(level, edge, bits) ==
  /\ Sample(level, edge) /\ Count /\ Exposure(level, TRUE)
  /\ ctrl' = bits
  /\ UNCHANGED <<faultFilter, claims, drive, snapCtrl, rejected>>

\* Mutant: the count of the old filter goes on under the new one.
WriteFilterKeepsCount(level, edge, n) ==
  /\ Sample(level, edge) /\ Count /\ Exposure(level, TRUE)
  /\ faultFilter' = n
  /\ UNCHANGED <<ctrl, claims, drive, snapCtrl, rejected>>

WriteFilter(level, edge, n) ==
  /\ Sample(level, edge) /\ Exposure(level, TRUE)
  /\ faultFilter' = n
  /\ filterCount' = 0
  /\ UNCHANGED <<ctrl, claims, drive, snapCtrl, rejected>>

\* CLEAR: only a claimed and inactive input lets go of the trip.
Clear(level, edge) ==
  /\ Synchronise(level) /\ Count /\ Exposure(level, FALSE)
  /\ snapValid' = (snapValid \/ CaptureEvent(edge))
  /\ Capture(edge)
  /\ IF "FAULT0" \in claims /\ ~ActiveNext
     THEN trip' = FALSE /\ UNCHANGED rejected
     ELSE /\ trip' = (trip \/ TripEvent)
          /\ rejected' = (rejected \/ ~TripEvent)
  /\ UNCHANGED settings

AckRejected(level, edge) ==
  /\ Sample(level, edge) /\ Count /\ Exposure(level, FALSE)
  /\ rejected' = FALSE
  /\ UNCHANGED settings

\* PINMUX takes a store of any width that includes the lowest byte.
WriteClaims(level, edge, functions) ==
  /\ Sample(level, edge) /\ Count /\ Exposure(level, TRUE)
  /\ claims' = functions
  /\ UNCHANGED <<ctrl, faultFilter, drive, snapCtrl, rejected>>

WriteDrive(level, edge, pads) ==
  /\ Sample(level, edge) /\ Count /\ Exposure(level, FALSE)
  /\ drive' = pads
  /\ UNCHANGED <<ctrl, faultFilter, claims, snapCtrl, rejected>>

WriteSnapCtrl(level, edge, bits) ==
  /\ Sample(level, edge) /\ Count /\ Exposure(level, FALSE)
  /\ snapCtrl' = bits
  /\ UNCHANGED <<ctrl, faultFilter, claims, drive, rejected>>

\* SNAPSHOT_STATUS: a capture in the same clock wins.
AckSnapshot(level, edge) ==
  /\ Synchronise(level) /\ Count /\ Exposure(level, FALSE)
  /\ trip' = (trip \/ TripEvent)
  /\ snapValid' = CaptureEvent(edge)
  /\ Capture(edge)
  /\ UNCHANGED <<settings, rejected>>

Reset ==
  /\ ctrl' = {"ACTIVE_HIGH"} /\ faultFilter' = 0
  /\ meta' = FALSE /\ sync' = FALSE /\ filtered' = FALSE /\ filterCount' = 0
  /\ trip' = FALSE /\ rejected' = FALSE
  /\ claims' = {} /\ drive' = {}
  /\ snapCtrl' = {} /\ snapValid' = FALSE /\ record' = "none"
  /\ exposed' = 0

FaultEdge(level, edge) ==
  \/ Quiet(level, edge)
  \/ \E bits \in Modes : WriteCtrl(level, edge, bits)
  \/ \E n \in FilterWrites : WriteFilter(level, edge, n)
  \/ Clear(level, edge)
  \/ AckRejected(level, edge)
  \/ \E functions \in Claims : WriteClaims(level, edge, functions)
  \/ \E pads \in Drives : WriteDrive(level, edge, pads)
  \/ \E bits \in {{}, {"ENABLE"}, {"ENABLE", "OVERWRITE"}} :
       WriteSnapCtrl(level, edge, bits)
  \/ AckSnapshot(level, edge)

Clock == \E level, edge \in BOOLEAN : FaultEdge(level, edge)

FaultNext == Clock \/ Reset

FaultSpec == Powerup /\ [][FaultNext]_faultVars

-----------------------------------------------------------------------------
FaultTypeOK ==
  /\ ctrl \in SUBSET CtrlBits /\ faultFilter \in 0 .. FilterMax
  /\ meta \in BOOLEAN /\ sync \in BOOLEAN /\ filtered \in BOOLEAN
  /\ filterCount \in 0 .. FilterMax
  /\ trip \in BOOLEAN /\ rejected \in BOOLEAN
  /\ claims \in SUBSET Functions /\ drive \in SUBSET Pads
  /\ snapCtrl \in SUBSET SnapBits /\ snapValid \in BOOLEAN
  /\ record \in {"none", "edge", "trip"}
  /\ exposed \in 0 .. FilterMax + 4

\* omcu_fault0_configure: "FILTER=N accepts a changed synchronized input after
\* N+1 samples".  With the two synchroniser stages, an active level trips an
\* armed interlock N+3 edges after it appears, whatever came before it and
\* whatever clears and acknowledgements come meanwhile.
TripsInTime == exposed >= faultFilter + 3 => trip

\* The comments of the pad multiplexer: an input-only function never has its
\* pad driven, and no combination of functions defeats the interlock.
PadsSafe ==
  /\ trip /\ "GATE_GPIO" \in ctrl => DrivenPads = {}
  /\ DrivenPads \cap InputPads = {}

\* The comment at snapshot_capture_event: whatever GPIO0 has captured before,
\* and whatever is acknowledged in that clock, a trip has its own record.
TripIsRecorded ==
  [][trip' /\ ~trip => snapValid' /\ record' = "trip"]_faultVars

\* The comment at omcu_fault0_configure: a trip forces the gated pads to high
\* impedance and "may be released only with omcu_fault0_try_clear()".
ReleasedOnlyByClear ==
  [][trip /\ HizMask # {} /\ trip' => HizMask' # {}]_faultVars
=============================================================================
