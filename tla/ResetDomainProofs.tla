-------------------------- MODULE ResetDomainProofs --------------------------
(***************************************************************************)
(* Proofs about WDT0 for every width of the counter, every set of tasks    *)
(* and whatever software writes, and about the reset sequencer and the     *)
(* retained boot request for every use of the watchdog.                    *)
(***************************************************************************)
EXTENDS ResetDomain, TLAPS

-----------------------------------------------------------------------------
(* The watchdog.                                                           *)

\* A disabled watchdog holds no epoch.
OffIsIdle == ~Enabled => count = 0 /\ windowOpen = FALSE

\* The latched flag remembers that WINDOW_MIN has been passed.
WindowTracksCount ==
  Enabled /\ Windowed /\ windowMin # timeout => windowOpen = (windowMin < count)

IInv == TypeOK /\ OffIsIdle /\ CountWithinTimeout /\ WindowTracksCount

USE DEF Counts

LEMMA CountBounds == 0 \in Counts /\ CountMax \in Counts
  BY WidthAssumption

LEMMA PowerupInv == Powerup => IInv
<1> SUFFICES ASSUME Powerup PROVE IInv
  OBVIOUS
<1>1. ~Enabled
  BY DEF Powerup, Enabled
<1>2. TypeOK
  BY CountBounds, Zenon DEF Powerup, TypeOK
<1> QED
  BY <1>1, <1>2
  DEF Powerup, IInv, OffIsIdle, CountWithinTimeout, WindowTracksCount

\* The event flags keep their type on every edge.
LEMMA FlagsType ==
  ASSUME TypeOK, NEW fed, NEW cleared, Flags(fed, cleared)
  PROVE  status' \in SUBSET StatusBits /\ resetReq' \in BOOLEAN
<1>1. Raised(fed) \subseteq StatusBits
  BY DEF Raised
<1> QED
  BY <1>1 DEF Flags, TypeOK

\* What an epoch needs of an edge.
EpochKept ==
  /\ count' \in Counts /\ windowOpen' \in BOOLEAN
  /\ OffIsIdle' /\ CountWithinTimeout' /\ WindowTracksCount'

\* The counter advances under an unchanged configuration.
LEMMA AdvanceKeepsEpoch ==
  ASSUME IInv, Advance, UNCHANGED <<ctrl, config>>
  PROVE  EpochKept
<1>1. timeout \in Nat /\ windowMin \in Nat /\ count \in Nat /\ timeout <= CountMax
  BY WidthAssumption DEF IInv, TypeOK
<1>2. Enabled' = Enabled /\ Windowed' = Windowed /\ timeout' = timeout /\ windowMin' = windowMin
  BY DEF Enabled, Windowed, config
<1>3. CASE ~Enabled
  BY <1>1, <1>2, <1>3, WidthAssumption
  DEF EpochKept, IInv, TypeOK, OffIsIdle, CountWithinTimeout, WindowTracksCount,
      Advance, WindowOpens
<1>4. CASE Enabled /\ Expiry
  <2>1. count' = 0 /\ windowOpen' = WindowOpens
    BY <1>4 DEF Advance, IInv, TypeOK, WindowOpens
  <2>2. windowMin # timeout => ~WindowOpens
    BY <1>1, <1>4 DEF WindowOpens, Expiry
  <2> QED
    BY <1>1, <1>2, <1>4, <2>1, <2>2, WidthAssumption
    DEF EpochKept, OffIsIdle, CountWithinTimeout, WindowTracksCount, WindowOpens
<1>5. CASE Enabled /\ ~Expiry
  <2>1. count < timeout
    BY <1>1, <1>5 DEF Expiry, IInv, CountWithinTimeout
  <2>2. count' = count + 1 /\ windowOpen' = (WindowOpens \/ windowOpen)
    BY <1>1, <1>5, <2>1, WidthAssumption DEF Advance
  <2> QED
    BY <1>1, <1>2, <1>5, <2>1, <2>2, WidthAssumption
    DEF EpochKept, IInv, TypeOK, OffIsIdle, CountWithinTimeout,
        WindowTracksCount, WindowOpens
<1> QED
  BY <1>3, <1>4, <1>5

\* A new epoch starts at zero, under any configuration.
LEMMA RestartKeepsEpoch ==
  ASSUME Restart, timeout' \in Counts, windowMin' \in Counts
  PROVE  EpochKept
<1>1. 0 \in Counts /\ 0 <= timeout'
  BY WidthAssumption
<1>2. count' = 0 /\ windowOpen' = FALSE
  BY DEF Restart
<1>3. windowOpen' = (windowMin' < count')
  <2>1. windowMin' \in Int /\ count' = 0 /\ 0 <= windowMin'
    BY <1>2, WidthAssumption
  <2>2. (windowMin' < count') = FALSE
    BY <2>1
  <2> QED
    BY <1>2, <2>2, Zenon
<1>4. WindowTracksCount'
  BY <1>3, Zenon DEF WindowTracksCount
<1> QED
  BY <1>1, <1>2, <1>4, Zenon DEF EpochKept, OffIsIdle, CountWithinTimeout

\* A disabled watchdog does not advance, so its configuration may change.
LEMMA OffKeepsEpoch ==
  ASSUME IInv, Advance, ~Enabled, UNCHANGED ctrl
  PROVE  EpochKept
<1>1. ~Enabled'
  BY DEF Enabled
<1>2. count' = 0 /\ windowOpen' = FALSE
  BY DEF IInv, TypeOK, OffIsIdle, Advance, WindowOpens
<1>3. 0 \in Counts
  BY WidthAssumption
<1> QED
  BY <1>1, <1>2, <1>3, Zenon
  DEF EpochKept, OffIsIdle, CountWithinTimeout, WindowTracksCount

LEMMA ClockInv ==
  ASSUME IInv, NEW tasks \in SUBSET Tasks, ClockOf(tasks)
  PROVE  IInv'
<1> USE DEF IInv, TypeOK, EpochKept
<1>1. CASE Idle
  BY <1>1, FlagsType, AdvanceKeepsEpoch DEF Idle, config
<1>2. CASE Feed
  <2>1. CASE Expiry /\ ~FeedFails
    BY <1>2, <2>1, FlagsType, AdvanceKeepsEpoch DEF Feed, config
  <2>2. CASE ~(Expiry /\ ~FeedFails)
    <3>1. Restart /\ UNCHANGED <<ctrl, config>>
      BY <1>2, <2>2 DEF Feed
    <3> QED
      BY <1>2, <3>1, FlagsType, RestartKeepsEpoch DEF Feed, Restart, config
  <2> QED
    BY <2>1, <2>2
<1>3. CASE WriteConfig
  <2>1. PICK t \in Counts, p \in Counts, w \in Counts, r \in SUBSET Tasks :
          Configure(t, p, w, r)
    BY <1>3, WidthAssumption DEF WriteConfig
  <2>2. CASE Enabled
    BY <2>1, <2>2, FlagsType, AdvanceKeepsEpoch DEF Configure, config
  <2>3. CASE ~Enabled
    BY <2>1, <2>3, FlagsType, OffKeepsEpoch DEF Configure
  <2> QED
    BY <2>2, <2>3
<1>4. ASSUME NEW reported \in SUBSET tasks, Kick(reported) PROVE IInv'
  BY <1>4, FlagsType, AdvanceKeepsEpoch DEF Kick, config
<1>5. ASSUME NEW bits \in Acks, ClearStatus(bits) PROVE IInv'
  BY <1>5, FlagsType, AdvanceKeepsEpoch DEF ClearStatus, config
<1>6. ASSUME NEW bits \in Modes, WriteCtrl(bits) PROVE IInv'
  <2>1. UNCHANGED config
    BY <1>6 DEF WriteCtrl
  <2>2. CASE Enabled /\ "ENABLE" \in bits
    BY <1>6, <2>1, <2>2, FlagsType, AdvanceKeepsEpoch DEF WriteCtrl, config
  <2>3. CASE ~(Enabled /\ "ENABLE" \in bits)
    <3>1. Restart /\ ctrl' = bits
      BY <1>6, <2>3 DEF WriteCtrl
    <3> QED
      BY <1>6, <2>1, <3>1, FlagsType, RestartKeepsEpoch, SoftwareAssumption
      DEF WriteCtrl, Restart, config
  <2> QED
    BY <2>2, <2>3
<1> QED
  BY <1>1, <1>2, <1>3, <1>4, <1>5, <1>6 DEF ClockOf

LEMMA ResetInv == Reset => IInv'
<1> SUFFICES ASSUME Reset PROVE IInv'
  OBVIOUS
<1>1. ~Enabled'
  BY DEF Reset, Enabled
<1>2. TypeOK'
  BY CountBounds, Zenon DEF Reset, TypeOK
<1> QED
  BY <1>1, <1>2
  DEF Reset, IInv, OffIsIdle, CountWithinTimeout, WindowTracksCount

LEMMA SameInv == IInv /\ UNCHANGED wdtVars => IInv'
  BY DEF wdtVars, config, IInv, TypeOK, OffIsIdle, CountWithinTimeout,
         WindowTracksCount, Enabled, Windowed

\* Every reachable state of the watchdog satisfies the invariant.
THEOREM Inductive == Spec => []IInv
<1>1. Powerup => IInv
  BY PowerupInv
<1>2. IInv /\ [Next]_wdtVars => IInv'
  BY ClockInv, ResetInv, SameInv DEF Next, Clock
<1> QED
  BY <1>1, <1>2, PTL DEF Spec

\* Every register keeps its type.
THEOREM TypeCorrect == Spec => []TypeOK
<1>1. IInv => TypeOK
  BY DEF IInv
<1> QED
  BY <1>1, Inductive, PTL

\* The counter of a started epoch is never past the timeout, so that the
\* equality in expiry_event cannot be stepped over.
THEOREM EqualityIsSufficient == Spec => []CountWithinTimeout
<1>1. IInv => CountWithinTimeout
  BY DEF IInv
<1> QED
  BY <1>1, Inductive, PTL

\* window_open_q stands for count >= WINDOW_MIN.
THEOREM WindowIsKept == Spec => []SupervisedWindow
<1>1. ASSUME IInv PROVE SupervisedWindow
  <2> SUFFICES ASSUME windowMin # timeout, Enabled, Windowed
               PROVE  TooEarly <=> count < windowMin
    BY DEF SupervisedWindow, WindowContract
  <2>1. windowMin \in Nat /\ count \in Nat
    BY <1>1, WidthAssumption DEF IInv, TypeOK
  <2>2. windowOpen = (windowMin < count)
    BY <1>1 DEF IInv, WindowTracksCount
  <2>3. TooEarly <=> ~(windowMin < count) /\ count # windowMin
    BY <2>2 DEF TooEarly, WindowOpens
  <2> QED
    BY <2>1, <2>3
<1> QED
  BY <1>1, Inductive, PTL

\* An expiry is reported and acts whatever is written in the same clock.
THEOREM ExpiryActs == Spec => ExpiryAlwaysActs
<1>1. Expiry /\ Clock => /\ "EXPIRED" \in status'
                         /\ "RESET_ENABLE" \in ctrl => resetReq'
  <2>1. ASSUME Expiry, NEW fed, NEW cleared, Flags(fed, cleared)
        PROVE  "EXPIRED" \in status' /\ ("RESET_ENABLE" \in ctrl => resetReq')
    BY <2>1 DEF Flags, Raised, StatusBits
  <2>2. ASSUME Clock PROVE \E fed, cleared : Flags(fed, cleared)
    BY <2>2 DEF Clock, ClockOf, Idle, Feed, WriteConfig, Configure, Kick,
                ClearStatus, WriteCtrl
  <2> QED
    BY <2>1, <2>2
<1> QED
  BY <1>1, PTL DEF ExpiryAlwaysActs

-----------------------------------------------------------------------------
(* The reset sequencer and the boot request.                               *)

\* Before the application runs nothing can request a reset.
BootIsQuiet ==
  software \in {"rom", "ack", "loader"} => ctrl = {} /\ resetReq = FALSE /\ sysReq = FALSE

\* Where the request is while the boot ROM consumes it.
RequestHandedOver ==
  /\ software = "rom"    => sysAck = FALSE /\ pending = (cause = "SOFTWARE")
  /\ software = "ack"    => /\ sysAck = FALSE /\ pending = TRUE
                            /\ force = TRUE /\ cause = "SOFTWARE"
  /\ software = "loader" => force = (cause = "SOFTWARE") /\ (pending => sysAck)
  /\ software \in {"app", "hung"} =>
       force = (cause = "SOFTWARE") /\ pending = FALSE

HeldInReset == ~Running => software = "rom"

RInv == ResetTypeOK /\ IInv /\ BootIsQuiet /\ RequestHandedOver /\ HeldInReset

USE DEF Programs, Running, RInv

\* A reset of the SoC, whatever caused it.
LEMMA AfterReset ==
  ASSUME Reset, SoftwareReset, release' = 0,
         cause' \in {"EXTERNAL", "WATCHDOG", "SOFTWARE"},
         pending' = (cause' = "SOFTWARE")
  PROVE  RInv'
<1>1. IInv'
  BY ResetInv
<1>2. ctrl' = {} /\ resetReq' = FALSE
  BY DEF Reset
<1>3. /\ sysReq' = FALSE /\ sysAck' = FALSE
      /\ software' = "rom" /\ force' = FALSE /\ alive' = Tasks
  BY DEF SoftwareReset
<1>4. ResetTypeOK'
  <2>1. pending' \in BOOLEAN /\ release' \in 0 .. 3
    OBVIOUS
  <2>2. TypeOK'
    BY <1>1 DEF IInv
  <2> QED
    BY <1>3, <2>1, <2>2, Zenon DEF ResetTypeOK
<1> QED
  BY <1>1, <1>2, <1>3, <1>4 DEF BootIsQuiet, RequestHandedOver, HeldInReset

\* An idle clock of the watchdog that is switched off.
LEMMA IdleOff ==
  ASSUME Idle, ctrl = {}
  PROVE  ctrl' = {} /\ resetReq' = FALSE
  BY DEF Idle, Flags

LEMMA IdleInv == ASSUME IInv, Idle PROVE IInv'
  BY ClockInv DEF ClockOf

LEMMA SoftwareInv ==
  ASSUME RInv, SoftwareEdge
  PROVE  RInv'
<1>0. RunningEdge
  BY DEF SoftwareEdge, Compute, ReadPending, AckRequest, EnterApplication,
         RequestLoader, UseWatchdog, Hang, TaskStops
<1>1. /\ release = 3 /\ release' = 3 /\ cause' = cause
      /\ pending' = (pending /\ ~sysAck)
  BY <1>0 DEF RunningEdge, retained
<1>2. pending' \in BOOLEAN
  BY <1>1
<1> USE DEF BootCtrl, ResetTypeOK, BootIsQuiet, RequestHandedOver, HeldInReset
<1>3. CASE Compute
  <2>1. IInv' /\ TypeOK'
    BY <1>3, IdleInv DEF Compute, IInv
  <2>2. UNCHANGED <<software, force, alive>> /\ sysReq' = FALSE /\ sysAck' = FALSE
    BY <1>3 DEF Compute
  <2>3. BootIsQuiet'
    BY <1>3, <2>2, IdleOff DEF Compute
  <2> QED
    BY <1>1, <1>2, <2>1, <2>2, <2>3
<1>4. CASE ReadPending
  <2>1. IInv' /\ TypeOK'
    BY <1>4, IdleInv DEF ReadPending, IInv
  <2>2. BootIsQuiet'
    BY <1>4, IdleOff DEF ReadPending
  <2> QED
    BY <1>1, <1>2, <1>4, <2>1, <2>2 DEF ReadPending
<1>5. CASE AckRequest
  <2>1. IInv' /\ TypeOK'
    BY <1>5, IdleInv DEF AckRequest, IInv
  <2>2. BootIsQuiet'
    BY <1>5, IdleOff DEF AckRequest
  <2> QED
    BY <1>1, <1>2, <1>5, <2>1, <2>2 DEF AckRequest
<1>6. CASE EnterApplication
  <2>1. IInv' /\ TypeOK'
    BY <1>6, IdleInv DEF EnterApplication, IInv
  <2> QED
    BY <1>1, <1>2, <1>6, <2>1 DEF EnterApplication
<1>7. CASE RequestLoader
  <2>1. IInv' /\ TypeOK'
    BY <1>7, IdleInv DEF RequestLoader, IInv
  <2> QED
    BY <1>1, <1>2, <1>7, <2>1 DEF RequestLoader
<1>8. CASE UseWatchdog
  <2>1. IInv' /\ TypeOK'
    BY <1>8, ClockInv DEF UseWatchdog, IInv
  <2> QED
    BY <1>1, <1>2, <1>8, <2>1 DEF UseWatchdog
<1>9. CASE Hang
  <2>1. IInv' /\ TypeOK'
    BY <1>9, IdleInv DEF Hang, IInv
  <2> QED
    BY <1>1, <1>2, <1>9, <2>1 DEF Hang
<1>10. ASSUME NEW task \in Tasks, TaskStops(task) PROVE RInv'
  <2>1. IInv' /\ TypeOK'
    BY <1>10, IdleInv DEF TaskStops, IInv
  <2> QED
    BY <1>1, <1>2, <1>10, <2>1 DEF TaskStops
<1> QED
  BY <1>3, <1>4, <1>5, <1>6, <1>7, <1>8, <1>9, <1>10 DEF SoftwareEdge

\* Every reachable state of the reset domain satisfies the invariant.
THEOREM ResetInductive == ResetSpec => []RInv
<1>1. ResetInit => RInv
  <2> SUFFICES ASSUME ResetInit PROVE RInv
    OBVIOUS
  <2>1. IInv /\ ctrl = {} /\ resetReq = FALSE
    BY PowerupInv DEF ResetInit, Powerup
  <2>2. ResetTypeOK
    <3>1. TypeOK /\ release \in 0 .. 3
      BY <2>1 DEF IInv, ResetInit
    <3> QED
      BY <3>1, Zenon DEF ResetInit, ResetTypeOK
  <2> QED
    BY <2>1, <2>2 DEF ResetInit, BootIsQuiet, RequestHandedOver, HeldInReset
<1>2. RInv /\ [ResetNext]_resetVars => RInv'
  <2> SUFFICES ASSUME RInv, [ResetNext]_resetVars PROVE RInv'
    OBVIOUS
  <2>1. CASE RequestEdge
    <3>1. software \in {"app", "hung"} /\ pending = FALSE
      BY <2>1 DEF RequestEdge, ResetTypeOK, BootIsQuiet, RequestHandedOver
    <3> QED
      BY <2>1, <3>1, AfterReset DEF RequestEdge, ResetTypeOK
  <2>2. CASE ReleaseEdge
    <3>1. IInv'
      BY <2>2, SameInv DEF ReleaseEdge
    <3> QED
      BY <2>2, <3>1
      DEF ReleaseEdge, wdtVars, soc, ResetTypeOK, IInv, BootIsQuiet,
          RequestHandedOver, HeldInReset
  <2>3. CASE SoftwareEdge
    BY <2>3, SoftwareInv
  <2>4. CASE PressReset
    BY <2>4, AfterReset DEF PressReset
  <2>5. CASE UNCHANGED resetVars
    <3>1. IInv'
      BY <2>5, SameInv DEF resetVars
    <3> QED
      BY <2>5, <3>1
      DEF resetVars, wdtVars, retained, soc, ResetTypeOK, IInv, BootIsQuiet,
          RequestHandedOver, HeldInReset
  <2> QED
    BY <2>1, <2>2, <2>3, <2>4, <2>5 DEF ResetNext, Edge
<1> QED
  BY <1>1, <1>2, PTL DEF ResetSpec

\* The sequencer, the boot ROM and the application keep their types.
THEOREM ResetTypeCorrect == ResetSpec => []ResetTypeOK
<1>1. RInv => ResetTypeOK
  OBVIOUS
<1> QED
  BY <1>1, ResetInductive, PTL

\* The loader is held open exactly after a reset that software requested, and
\* the request is found by one boot ROM only.
THEOREM RequestConsumed == ResetSpec => []RequestIsConsumedOnce
<1>1. RInv => RequestIsConsumedOnce
  BY DEF ResetTypeOK, RequestHandedOver, RequestIsConsumedOnce
<1> QED
  BY <1>1, ResetInductive, PTL
=============================================================================
