---------------------------- MODULE MCFaultChain ----------------------------
(***************************************************************************)
(* The fault interlock and the inputs of GPIO0, one at a time.  They meet  *)
(* in the snapshot: FaultChain has it as the interlock sees it, Gpio as    *)
(* the pins and the SDK do, with a trip as a forced capture.               *)
(*   "fault"   the interlock                                               *)
(*   "filter"  GPIO0, two pins and both filters, no fault                  *)
(*   "events"  GPIO0, one pin, the edge events and the snapshot            *)
(***************************************************************************)
EXTENDS FaultChain, Gpio

\* Off; armed for either polarity, gating the pads or not.
MCModes ==
  { {}, {"ENABLE", "ACTIVE_HIGH", "GATE_GPIO"}, {"ENABLE", "GATE_GPIO"} }

MCClaims == { {}, {"FAULT0"}, Functions }

MCDrives == { Pads }

CONSTANTS p0, p1

MCPins == {p0, p1}

FilterCalls ==
  {ConfigureFilter(1), ConfigureIndependent({p0}, 2), SetFilterMask({p0, p1})}

EventCalls ==
  {SnapshotArm({p0}, f, o) : f \in SUBSET {p0}, o \in BOOLEAN}
    \cup {SnapshotClear, SnapshotRead, Acknowledge({p0})}

MCCalls == FilterCalls \cup EventCalls

VARIABLE unit

mcVars == <<faultVars, gpioVars, unit>>

MCInit ==
  /\ Powerup /\ GpioInit
  /\ unit \in {"fault", "filter", "events"}
  /\ unit = "fault" => pins = {}
  /\ unit = "events" => p1 \notin pins

\* A clock of GPIO0 with calls of C only.
GpioWith(C) == GpioNext /\ (todo = <<>> => todo' \in C \cup {<<>>}) /\ UNCHANGED faultVars

MCNext ==
  /\ UNCHANGED unit
  /\ \/ unit = "fault" /\ FaultNext /\ UNCHANGED gpioVars
     \/ unit = "filter" /\ GpioWith(FilterCalls) /\ UNCHANGED snap
     \/ unit = "events" /\ GpioWith(EventCalls) /\ p1 \notin pins'

MCSpec == MCInit /\ [][MCNext]_mcVars
=============================================================================
