------------------------------ MODULE Interrupts ------------------------------
(***************************************************************************)
(* From a peripheral's event to the C hook and back: the interrupt lines of*)
(* the peripherals, IRQCTRL (omcu_irq_ctrl.sv), the interrupt input of the *)
(* CPU, the entry code (omcu_irq.S), the weak omcu_irq_dispatch of the SDK *)
(* (omcu_irq.c) and the strong one of examples/irq_smoke, and a main       *)
(* program that makes any sequence of the interrupt calls of omcu.h.       *)
(*                                                                         *)
(* Every action is one clock edge and the bus access or the interrupt entry*)
(* that happens in that clock.  The CPU latches its interrupt inputs       *)
(* (LATCHED_IRQ), so a line that the handler silences has been latched     *)
(* again since the entry: a handled interrupt comes back once, with its    *)
(* source idle.                                                            *)
(***************************************************************************)
EXTENDS Integers

CONSTANTS
  Sources,      \* the external interrupt lines
  Timer         \* TIMER0, the one the example handles

ASSUME TimerAssumption == Timer \in Sources

VARIABLES
  linked,    \* the omcu_irq_dispatch of the program
  status,    \* the peripherals whose event is latched in their STATUS
  irqOn,     \* the peripherals that run with their interrupt enabled
  pending,   \* pending_q
  enable,    \* enable_q
  forced,    \* force_q
  latch,     \* the interrupts latched in the CPU
  masked,    \* whether the CPU mask is all ones (else all zeros)
  active,    \* irq_active of the CPU: no second entry
  pc,        \* the next statement of the handler, or "main"
  told,      \* the handler's argument
  entries    \* how often the handler was told of each source since it last
             \* became active (for NoStorm)

periphs == <<status, irqOn>>
cpu     == <<masked, active, pc, told>>
vars    == <<linked, periphs, pending, enable, forced, latch, cpu, entries>>

Programs == {"weak", "smoke"}
Labels   == {"main", "disable", "clear", "stop", "consume", "ackTimer", "mask",
             "ackOthers", "return"}

\* irq_o of the peripherals; active_sources of the controller.
Level  == status \cap irqOn
Active == (pending \cup Level \cup forced) \cap enable
Others == told \ {Timer}

Init ==
  /\ linked \in Programs
  /\ status = {} /\ irqOn = {}
  /\ pending = {} /\ enable = {} /\ forced = {}
  /\ latch = {} /\ masked = TRUE /\ active = FALSE
  /\ pc = "main" /\ told = {}
  /\ entries = [s \in Sources |-> 0]

-----------------------------------------------------------------------------
(* The parts of one clock edge.                                            *)

\* Running peripherals may have an event; one that is acknowledged in the
\* clock of a new event keeps the new event.
Peripherals(served, on) ==
  /\ irqOn' = on
  /\ \E new \in SUBSET irqOn : status' = (status \ served) \cup new

\* CLEAR loses to a live line.
Controller(clear, raise) ==
  /\ pending' = (pending \ clear) \cup Level
  /\ forced' = (forced \ clear) \cup raise

\* Counted from the last clock in which the source became active.
Count(entered) ==
  entries' = [s \in Sources |->
    IF s \in Active' \ Active THEN 0
    ELSE IF s \in entered THEN entries[s] + 1 ELSE entries[s]]

\* A clock in which the CPU goes on with its program.
Clock == latch' = latch \cup Active /\ Count({}) /\ UNCHANGED linked

\* A clock in which it accesses no interrupt register.
NoAccess ==
  /\ Peripherals({}, irqOn) /\ Controller({}, {})
  /\ UNCHANGED enable

SetEnable(mask) == enable' = mask /\ Peripherals({}, irqOn) /\ Controller({}, {})
Ack(mask)       == Controller(mask, {}) /\ Peripherals({}, irqOn) /\ UNCHANGED enable
Raise(mask)     == Controller({}, mask) /\ Peripherals({}, irqOn) /\ UNCHANGED enable

Compute == NoAccess /\ Clock /\ UNCHANGED cpu

-----------------------------------------------------------------------------
(* The CPU and the entry code.                                             *)

\* q1 is every interrupt latched; the latches are cleared, and those of lines
\* that are still up are set again in the next clock.
Enter ==
  /\ ~active /\ ~masked /\ latch # {}
  /\ active' = TRUE /\ told' = latch /\ latch' = {}
  /\ pc' = IF linked = "weak" THEN "disable"
           ELSE IF Timer \in latch THEN "stop" ELSE "mask"
  /\ NoAccess
  /\ Count(latch)
  /\ UNCHANGED <<linked, masked>>

Handler(at, next) ==
  /\ pc = at /\ pc' = next
  /\ Clock
  /\ UNCHANGED <<masked, active, told>>

\* Mutant: the handler returns without RETIRQ.
PlainReturn ==
  /\ pc = "return" /\ pc' = "main" /\ told' = {}
  /\ NoAccess /\ Clock
  /\ UNCHANGED <<masked, active>>

\* RETIRQ.
Return ==
  /\ pc = "return" /\ pc' = "main" /\ told' = {}
  /\ active' = FALSE
  /\ NoAccess /\ Clock
  /\ UNCHANGED masked

-----------------------------------------------------------------------------
(* The weak handler of the SDK.                                            *)

\* Mutant: the weak handler disables what is active now.
DisableActive == SetEnable(enable \ Active) /\ Handler("disable", "clear")

\* enable &= ~active, then clear = active
Disable == SetEnable(enable \ told) /\ Handler("disable", "clear")

Clear == Ack(told) /\ Handler("clear", "return")

-----------------------------------------------------------------------------
(* The handler of examples/irq_smoke.                                      *)

\* OMCU_TIMER0->ctrl = 0
StopTimer ==
  /\ Peripherals({}, irqOn \ {Timer}) /\ Controller({}, {})
  /\ UNCHANGED enable
  /\ Handler("stop", "consume")

\* OMCU_TIMER0->status = OMCU_TIMER_STATUS_PENDING
Consume ==
  /\ Peripherals({Timer}, irqOn) /\ Controller({}, {})
  /\ UNCHANGED enable
  /\ Handler("consume", "ackTimer")

\* Mutant: the controller is not acknowledged.
SkipAck ==
  /\ Ack({})
  /\ Handler("ackTimer", IF Others # {} THEN "mask" ELSE "return")

AckTimer ==
  /\ Ack({Timer})
  /\ Handler("ackTimer", IF Others # {} THEN "mask" ELSE "return")

\* Sources without a handler are disabled.  The mask is that of every source
\* told of, TIMER0 included.
MaskOthers == SetEnable(enable \ told) /\ Handler("mask", "ackOthers")

AckOthers == Ack(Others) /\ Handler("ackOthers", "return")

HandlerStep ==
  \/ Disable \/ Clear
  \/ StopTimer \/ Consume \/ AckTimer \/ MaskOthers \/ AckOthers
  \/ Return

-----------------------------------------------------------------------------
(* The main program: one call of the interrupt API, or one access to a     *)
(* peripheral, in any order.                                               *)

Main == pc = "main" /\ UNCHANGED <<active, pc, told>>

\* omcu_irqctrl_set_enable, omcu_irqctrl_ack, omcu_irqctrl_force
CallSetEnable(mask) == Main /\ SetEnable(mask) /\ Clock /\ UNCHANGED masked
CallAck(mask)       == Main /\ Ack(mask) /\ Clock /\ UNCHANGED masked
CallForce(mask)     == Main /\ Raise(mask) /\ Clock /\ UNCHANGED masked

\* omcu_irq_global_enable, omcu_irq_global_disable, omcu_irq_restore
CallSetMask(all) == Main /\ NoAccess /\ Clock /\ masked' = all

\* The peripheral is started with its interrupt enabled and no event; or the
\* program polls it: the event is consumed and the line falls by itself.
StartPeripheral(s) ==
  /\ Main
  /\ Peripherals({s}, irqOn \cup {s}) /\ Controller({}, {})
  /\ UNCHANGED <<enable, masked>>
  /\ Clock

PollPeripheral(s) ==
  /\ Main
  /\ Peripherals({s}, irqOn) /\ Controller({}, {})
  /\ UNCHANGED <<enable, masked>>
  /\ Clock

MainStep ==
  \/ \E mask \in SUBSET Sources :
       CallSetEnable(mask) \/ CallAck(mask) \/ CallForce(mask)
  \/ \E all \in BOOLEAN : CallSetMask(all)
  \/ \E s \in Sources : StartPeripheral(s) \/ PollPeripheral(s)

Next == Compute \/ Enter \/ HandlerStep \/ MainStep

Spec == Init /\ [][Next]_vars

\* The clock runs, an unmasked latched interrupt is taken and the handler
\* executes; the main program need not do anything.
FairSpec ==
  Spec /\ WF_vars(Compute) /\ WF_vars(Enter) /\ WF_vars(HandlerStep)

-----------------------------------------------------------------------------
\* The types; the handler runs exactly while the CPU is in an interrupt, and
\* it is always told of a source (omcu_irq.S passes q1).
TypeOK ==
  /\ linked \in Programs
  /\ status \in SUBSET Sources /\ irqOn \in SUBSET Sources
  /\ pending \in SUBSET Sources /\ enable \in SUBSET Sources
  /\ forced \in SUBSET Sources /\ latch \in SUBSET Sources
  /\ masked \in BOOLEAN
  /\ pc \in Labels /\ told \in SUBSET Sources
  /\ \/ active = FALSE /\ pc = "main" /\ told = {}
     \/ active = TRUE /\ pc # "main" /\ told # {}
  /\ entries \in [Sources -> Nat]

\* The comment of the weak handler: an unhandled level cannot create an
\* interrupt-return storm.  However long a line stays up, whichever handler is
\* linked and whatever was latched while interrupts were masked, the handler
\* is told of a source at most twice until the source becomes active anew: once
\* for the interrupt and once for its echo in the CPU's latch.
NoStorm == \A s \in Sources : entries[s] =< 2

\* What the required order, peripheral first and controller second, is for:
\* when the handler returns, no source it was told of is still asserted to the
\* CPU, although the controller keeps a source whose line is up while it is
\* acknowledged.
ReturnIsQuiet == pc = "return" => told \cap Active = {}

\* The handler's argument is a snapshot.  A source that becomes active while
\* the handler runs is neither disabled nor acknowledged by it.
UntoldIsKept ==
  [][pc # "main" => Active \ Active' \subseteq told]_vars

\* An enabled source that is up reaches the handler, unless the main program
\* masks interrupts or takes the source back.
Delivered ==
  \A s \in Sources :
    s \in Active /\ ~masked ~> s \in told \/ masked \/ s \notin Active
=============================================================================
