-------------------------------- MODULE Gpio --------------------------------
(***************************************************************************)
(* The inputs of GPIO0 (omcu_gpio.sv): the synchronisers, the shared and   *)
(* the independent filter, the edge events and the snapshot, under the     *)
(* calls of the SDK (omcu.h).  The output enables are in FaultChain.       *)
(*                                                                         *)
(* Every action is a clock edge; a call is the sequence of its register    *)
(* accesses, any number of clocks apart.  A bank of bits is the set of the *)
(* pins whose bit is one.  Which capture the snapshot registers show is    *)
(* represented by the number of that capture.                              *)
(***************************************************************************)
EXTENDS Integers, Sequences

CONSTANTS
  Pins,
  Depths,     \* sample counts of the independent filter; {2, 4, 8}
  Cycles,     \* values of FILTER_CYCLES that software writes
  Shared,     \* FILTER_CTRL with INDEPENDENT_ENABLE clear
  Calls,      \* the calls that the software makes, from those defined below
  Faults      \* TRUE: FAULT0 may force a capture

VARIABLES
  pins, gpioMeta, gpioSync, gpioFiltered, previous,
  filterCtrl,            \* Shared, or the depth of the independent filter
  mask, cycles,
  sample, stable,        \* of the shared filter
  history,               \* of the independent filter: the last samples of all pins
  rise, fall, irqStatus, \* RISE_EN, FALL_EN and IRQ_STATUS
  snap,                  \* the snapshot: its control, its flags and its capture
  todo,                  \* register accesses left of the call in progress
  g                      \* history variables, for the properties

inputs   == <<pins, gpioMeta, gpioSync, gpioFiltered, previous>>
filter   == <<filterCtrl, mask, cycles, sample, stable, history>>
events   == <<rise, fall, irqStatus, snap>>
gpioVars == <<inputs, filter, events, todo, g>>

Most(d, S) == d \in S /\ \A e \in S : e <= d
Deepest == CHOOSE d \in Depths : Most(d, Depths)
Longest == CHOOSE c \in Cycles \cup {0} : Most(c, Cycles \cup {0})
Enough  == IF Deepest > Longest + 2 THEN Deepest ELSE Longest + 2
UpTo(n) == IF n > Enough THEN Enough ELSE n
Ids     == 0 .. 2

Empty == [i \in 1 .. Deepest - 1 |-> {}]

\* The history variables:
\*   run    clocks each pin of gpioSync has had its level
\*   since  clocks since the filter was configured
\*   untold pins with an enabled edge that was not acknowledged
\*   missed an event of the armed snapshot was not captured, or its capture lost,
\*          and that was not acknowledged
\*   stale  the snapshot is of before the end of the latest arming
\*   read   the capture the call in progress reads, and whether it is still the same
NoRead == [id |-> 0, whole |-> TRUE]

GpioInit ==
  /\ pins \in SUBSET Pins
  /\ gpioMeta = {} /\ gpioSync = {} /\ gpioFiltered = {} /\ previous = {}
  /\ filterCtrl = Shared /\ mask = Pins /\ cycles = 0
  /\ sample = {} /\ stable = 0 /\ history = Empty
  /\ rise = {} /\ fall = {} /\ irqStatus = {}
  /\ snap = [enable |-> FALSE, overwrite |-> FALSE, valid |-> FALSE, overflow |-> FALSE,
             forced |-> FALSE, id |-> 0]
  /\ todo = <<>>
  /\ g = [run |-> [p \in Pins |-> 0], since |-> 0, untold |-> {}, missed |-> FALSE,
          stale |-> FALSE, read |-> NoRead]

-----------------------------------------------------------------------------
(* The filters.                                                            *)

Access(r, v)  == [reg |-> r, value |-> v]
NoGpioAccess  == Access("none", {})
ConfiguresFilter(w) == w.reg \in {"filter_mask", "filter_cycles", "filter_ctrl"}

Sampled == IF filterCtrl = Shared THEN gpioFiltered ELSE (gpioFiltered \cap mask) \cup (gpioSync \ mask)

\* Mutant: the present sample and one less of the older ones.
ShortWindow == {gpioSync} \cup {history[i] : i \in 1 .. filterCtrl - 2}

\* The latest samples, as many as the depth.
Window == {gpioSync} \cup {history[i] : i \in 1 .. filterCtrl - 1}

Independent ==
  {p \in Pins :
     IF p \notin mask THEN p \in gpioSync
     ELSE \/ \A s \in Window : p \in s
          \/ p \in gpioFiltered /\ \E s \in Window : p \in s}

Filter(w) ==
  IF ConfiguresFilter(w)
    THEN sample' = gpioSync /\ stable' = 0 /\ history' = Empty /\ UNCHANGED gpioFiltered
  ELSE IF filterCtrl # Shared
    THEN /\ gpioFiltered' = Independent
         /\ history' = [i \in 1 .. Deepest - 1 |-> IF i = 1 THEN gpioSync ELSE history[i - 1]]
         /\ UNCHANGED <<sample, stable>>
  ELSE IF cycles = 0
    THEN gpioFiltered' = gpioSync /\ sample' = gpioSync /\ stable' = 0 /\ UNCHANGED history
  ELSE IF gpioSync # sample
    THEN sample' = gpioSync /\ stable' = 0 /\ UNCHANGED <<gpioFiltered, history>>
  ELSE IF stable # cycles
    THEN stable' = stable + 1 /\ UNCHANGED <<gpioFiltered, sample, history>>
  ELSE gpioFiltered' = gpioSync /\ UNCHANGED <<sample, stable, history>>

-----------------------------------------------------------------------------
(* The events and the snapshot.                                            *)

Events == ((Sampled \ previous) \cap rise) \cup ((previous \ Sampled) \cap fall)

Normal == snap.enable /\ Events # {}

Captures(force) == force \/ (Normal /\ (~snap.valid \/ snap.overwrite))

Overflows(force) == snap.valid /\ (force \/ (Normal /\ ~snap.overwrite))

\* Mutant: an acknowledgement wins over an edge.
AckWins(w) == IF w.reg = "irq_status" THEN (irqStatus \cup Events) \ w.value ELSE irqStatus \cup Events

StatusNext(w) == (IF w.reg = "irq_status" THEN irqStatus \ w.value ELSE irqStatus) \cup Events

\* Every acknowledgement of the SDK is of VALID and OVERFLOW together.
SnapNext(w, force) ==
  LET ack == w.reg = "snapshot_status"
      captured == Captures(force)
  IN [enable    |-> IF w.reg = "snapshot_ctrl" THEN "enable" \in w.value ELSE snap.enable,
      overwrite |-> IF w.reg = "snapshot_ctrl" THEN "overwrite" \in w.value ELSE snap.overwrite,
      valid     |-> captured \/ (snap.valid /\ ~ack),
      overflow  |-> Overflows(force) \/ (snap.overflow /\ ~ack),
      forced    |-> IF captured THEN force ELSE snap.forced /\ ~ack,
      id        |-> IF captured THEN (snap.id + 1) % 3 ELSE snap.id]

Engine(w, force) ==
  /\ gpioMeta' = pins /\ gpioSync' = gpioMeta /\ previous' = Sampled
  /\ Filter(w)
  /\ filterCtrl' = IF w.reg = "filter_ctrl" THEN w.value ELSE filterCtrl
  /\ mask' = IF w.reg = "filter_mask" THEN w.value ELSE mask
  /\ cycles' = IF w.reg = "filter_cycles" THEN w.value ELSE cycles
  /\ rise' = IF w.reg = "rise_en" THEN w.value ELSE rise
  /\ fall' = IF w.reg = "fall_en" THEN w.value ELSE fall
  /\ irqStatus' = StatusNext(w)
  /\ snap' = SnapNext(w, force)

-----------------------------------------------------------------------------
(* The history.                                                            *)

\* A read is of one capture as long as nothing may replace it.
ReadNext(w, force) ==
  LET same == [g.read EXCEPT !.whole = @ /\ g.read.id = snap.id]
  IN CASE w.reg = "read_status" -> [id |-> snap.id, whole |-> TRUE]
       [] w.reg = "read_field"  -> same
       [] OTHER -> IF todo = <<>> THEN NoRead ELSE g.read

Record(w, force) ==
  LET arming == Len(todo) > 1 /\ todo[Len(todo)].reg = "snapshot_ctrl"
  IN g' = [run    |-> [p \in Pins |-> IF (p \in gpioSync') = (p \in gpioSync)
                                        THEN UpTo(g.run[p] + 1) ELSE 0],
           since  |-> IF ConfiguresFilter(w) THEN 0 ELSE UpTo(g.since + 1),
           untold |-> (IF w.reg = "irq_status" THEN g.untold \ w.value ELSE g.untold) \cup Events,
           missed |-> \/ g.missed /\ w.reg # "snapshot_status"
                      \/ Normal /\ ~Captures(force)
                      \/ force /\ snap.valid,
           stale  |-> snap'.valid /\ ~snap'.forced /\ (g.stale \/ arming),
           read   |-> ReadNext(w, force)]

-----------------------------------------------------------------------------
(* The calls.                                                              *)

ConfigureFilter(n) == <<Access("filter_ctrl", Shared), Access("filter_cycles", n)>>

ConfigureIndependent(m, d) ==
  <<Access("filter_ctrl", Shared), Access("filter_mask", m), Access("filter_ctrl", d)>>

SetFilterMask(m) == <<Access("filter_mask", m)>>

Acknowledge(m) == <<Access("irq_status", m)>>

Ctrl(overwrite) == IF overwrite THEN {"enable", "overwrite"} ELSE {"enable"}

SnapshotArm(r, f, overwrite) ==
  <<Access("snapshot_ctrl", {}), Access("snapshot_status", {}), Access("rise_en", r),
    Access("fall_en", f), Access("snapshot_ctrl", Ctrl(overwrite))>>

SnapshotClear == <<Access("snapshot_status", {})>>

\* The status, which must be VALID, and then the fields.
SnapshotRead == <<Access("read_status", {}), Access("read_field", {}), Access("read_field", {})>>

\* What the module expects of its constants.
Sensible ==
  /\ Depths \subseteq Nat \ {0} /\ (\E d \in Depths : Most(d, Depths)) /\ Shared \notin Depths
  /\ Cycles \subseteq Nat /\ (\E c \in Cycles \cup {0} : Most(c, Cycles \cup {0}))
  /\ Faults \in BOOLEAN
  /\ Calls \subseteq
       {SnapshotClear, SnapshotRead}
         \cup {ConfigureFilter(n) : n \in Cycles}
         \cup {ConfigureIndependent(m, d) : m \in SUBSET Pins, d \in Depths}
         \cup {SetFilterMask(m) : m \in SUBSET Pins} \cup {Acknowledge(m) : m \in SUBSET Pins}
         \cup {SnapshotArm(r, f, o) : r \in SUBSET Pins, f \in SUBSET Pins, o \in BOOLEAN}

ASSUME GpioAssumption == Sensible

GpioClock(w) ==
  \E force \in IF Faults THEN BOOLEAN ELSE {FALSE} :
    /\ Engine(w, force)
    /\ Record(w, force)
    /\ pins' \in SUBSET Pins

Wait == GpioClock(NoGpioAccess) /\ UNCHANGED todo

Call == todo = <<>> /\ todo' \in Calls /\ GpioClock(NoGpioAccess)

DoAccess ==
  /\ todo # <<>>
  /\ GpioClock(Head(todo))
  /\ todo' = IF Head(todo).reg = "read_status" /\ ~snap.valid THEN <<>> ELSE Tail(todo)

GpioNext == Wait \/ Call \/ DoAccess

GpioSpec == GpioInit /\ [][GpioNext]_gpioVars

-----------------------------------------------------------------------------
(* Properties.                                                             *)

GpioTypeOK ==
  /\ {pins, gpioMeta, gpioSync, gpioFiltered, previous, mask, sample, rise, fall, irqStatus}
       \subseteq SUBSET Pins
  /\ filterCtrl \in Depths \cup {Shared} /\ cycles \in Cycles \cup {0}
  /\ stable \in 0 .. cycles
  /\ history \in [1 .. Deepest - 1 -> SUBSET Pins]
  /\ snap \in [enable : BOOLEAN, overwrite : BOOLEAN, valid : BOOLEAN, overflow : BOOLEAN,
               forced : BOOLEAN, id : Ids]

\* A level that stays is accepted in the time of the filter (omcu.h:182-192): of
\* one pin under the independent filter, whatever its neighbours do; of the whole
\* port under the shared one.
StableIsSeen ==
  IF filterCtrl # Shared
    THEN \A p \in mask :
           g.run[p] >= filterCtrl /\ g.since >= filterCtrl => (p \in Sampled <=> p \in gpioSync)
    ELSE (g.since > cycles + 1 /\ \A p \in Pins : g.run[p] > cycles + 1) => Sampled = gpioSync

Reconfigured == todo # <<>> /\ todo' # todo /\ ConfiguresFilter(Head(todo))
Changed      == {p \in Pins : (p \in Sampled') # (p \in Sampled)}

\* And no level that stays for less, once the filter has been left alone for its
\* time: not even while the other pins chatter.
RejectsGlitches ==
  ~Reconfigured =>
    IF filterCtrl = Shared THEN Changed # {} => \A p \in Pins : g.run[p] >= cycles
    ELSE g.since >= filterCtrl => \A p \in Changed \cap mask : g.run[p] >= filterCtrl - 1

\* An edge is never lost to an acknowledgement of its clock, and a snapshot that is
\* not the whole story says so by OVERFLOW.
NothingIsMissed == g.untold \subseteq irqStatus /\ (g.missed => snap.overflow)

\* omcu_gpio_snapshot_arm returns without a normal capture from before.
ArmedIsFresh == todo = <<>> => ~g.stale

\* omcu_gpio_snapshot_read returns the fields of one capture, although it reads them
\* one by one, unless the snapshot is armed with OVERWRITE or FAULT0 forces another.
ReadIsWhole == ~snap.overwrite /\ ~snap.forced => g.read.whole

\* No edge is lost unsaid, and the snapshot that the SDK arms and reads is a new
\* one, and a whole one.
SnapshotIsTrue == NothingIsMissed /\ ArmedIsFresh /\ ReadIsWhole

\* Either filter accepts a level that stays for its time, and no other.
GpioFiltersTruly == [](GpioTypeOK /\ StableIsSeen) /\ [][RejectsGlitches]_gpioVars
=============================================================================
