------------------------------ MODULE PinProofs ------------------------------
(***************************************************************************)
(* Two units that watch pins through a filter.  FAULT0 with the pads it    *)
(* gates: every width of the filter and whatever software writes.  PULSE0: *)
(* every filter, every width of its counters and any sequence of calls;    *)
(* glitches never count, no edge goes by unannounced, and a clean pin is   *)
(* counted and timed edge for edge.                                        *)
(***************************************************************************)
EXTENDS FaultChain, Pulse, TLAPS, SequenceTheorems

-----------------------------------------------------------------------------
(* FAULT0.                                                                 *)

\* The count is compared with FILTER for equality and is never past it, also
\* when FILTER is lowered while a change is being qualified.
FilterBounded == filterCount <= faultFilter

\* How far an active level has come on its way through the synchroniser and
\* the filter after so many edges.
ExposureTracked ==
  /\ exposed >= 1 => meta = ActiveLevel /\ Armed
  /\ exposed >= 2 => sync = ActiveLevel
  /\ exposed >= 3 => \/ filtered = ActiveLevel /\ trip = TRUE
                     \/ filtered # ActiveLevel /\ filterCount >= exposed - 2

FaultInv == FaultTypeOK /\ FilterBounded /\ ExposureTracked

LEMMA Zero ==
  /\ 0 \in 0 .. FilterMax /\ 0 \in 0 .. FilterMax + 4
  /\ 0 <= 0 /\ ~(0 >= 1) /\ ~(0 >= 2) /\ ~(0 >= 3)
  BY FaultAssumption

LEMMA FaultPowerupInv == Powerup => FaultInv
<1> SUFFICES ASSUME Powerup PROVE FaultInv
  OBVIOUS
<1>1. /\ ctrl \in SUBSET CtrlBits /\ claims \in SUBSET Functions
      /\ drive \in SUBSET Pads /\ snapCtrl \in SUBSET SnapBits
      /\ record \in {"none", "edge", "trip"}
  BY DEF Powerup, CtrlBits
<1> QED
  BY <1>1, Zero, Zenon DEF Powerup, FaultInv, FaultTypeOK, FilterBounded, ExposureTracked

\* The count under an unchanged FILTER.
LEMMA CountKept ==
  ASSUME FaultInv, Count, faultFilter' = faultFilter
  PROVE  /\ filterCount' \in 0 .. FilterMax
         /\ filterCount' <= faultFilter'
         /\ sync # filtered /\ ~Accept => filterCount' = filterCount + 1
  BY FaultAssumption DEF Count, Accept, FaultInv, FaultTypeOK, FilterBounded

LEMMA CountArithmetic ==
  ASSUME NEW n \in Nat, NEW c \in Nat, NEW n1 \in Int, NEW c1,
         n1 <= n + 1, c1 = c + 1, n >= 2, n >= 3 => c >= n - 2
  PROVE  c1 >= n1 - 2
  OBVIOUS

\* What every edge does to the trip latch.
TripStep ==
  \/ trip' = (trip \/ TripEvent)
  \/ ~ActiveNext /\ trip' = FALSE

\* The history under an unchanged configuration.
LEMMA ExposureKept ==
  ASSUME FaultInv, NEW level \in BOOLEAN, Synchronise(level), TripStep, Count,
         Exposure(level, FALSE), UNCHANGED <<ctrl, faultFilter, claims>>
  PROVE  exposed' \in 0 .. FilterMax + 4 /\ ExposureTracked'
<1>1. ActiveLevel' = ActiveLevel /\ Armed' = Armed
  BY DEF ActiveLevel, Armed
<1>2. FilterMax \in Nat /\ exposed \in Nat /\ filterCount \in Nat /\ faultFilter \in Nat
      /\ exposed <= FilterMax + 4 /\ faultFilter <= FilterMax /\ filterCount <= faultFilter
  BY FaultAssumption DEF FaultInv, FaultTypeOK, FilterBounded
<1>3. CASE exposed' = 0
  BY <1>2, <1>3, Zero, Zenon DEF ExposureTracked
<1>4. CASE exposed' # 0
  <2>1. /\ Armed /\ level = ActiveLevel
        /\ exposed' \in {exposed, exposed + 1}
        /\ exposed' = exposed => exposed = FilterMax + 4
    <3>1. Armed /\ level = ActiveLevel
      BY <1>4, Zenon DEF Exposure
    <3>2. exposed' = IF exposed = FilterMax + 4 THEN exposed ELSE exposed + 1
      BY <3>1, Zenon DEF Exposure
    <3> QED
      BY <1>2, <3>1, <3>2
  <2>2. exposed' \in 0 .. FilterMax + 4 /\ exposed' <= exposed + 1
    BY <1>2, <2>1 DEF Exposure
  <2>3. meta' = ActiveLevel
    BY <2>1 DEF Synchronise
  <2>4. exposed' >= 2 => sync' = ActiveLevel
    <3>1. exposed' >= 2 => exposed >= 1
      BY <1>2, <2>2
    <3> QED
      BY <3>1, Zenon DEF Synchronise, FaultInv, ExposureTracked
  <2>5. ASSUME exposed' >= 3
        PROVE  \/ filtered' = ActiveLevel /\ trip' = TRUE
               \/ filtered' # ActiveLevel /\ filterCount' >= exposed' - 2
    <3>1. exposed >= 2
      BY <1>2, <2>2, <2>5
    <3>2. sync = ActiveLevel
      BY <3>1, Zenon DEF FaultInv, ExposureTracked
    <3>3. CASE filtered = ActiveLevel \/ Accept
      <4>1. FilteredNext = ActiveLevel
        BY <3>2, <3>3, Zenon DEF FilteredNext, Accept
      <4>2. ActiveNext /\ (TripEvent \/ trip)
        BY <2>1, <4>1, Zenon DEF ActiveNext, TripEvent
      <4>3. trip' = TRUE
        <5>1. trip' = (trip \/ TripEvent)
          BY <4>2, Zenon DEF TripStep
        <5> QED
          BY <4>2, <5>1, Zenon
      <4> QED
        BY <4>1, <4>3, Zenon DEF Synchronise
    <3>4. CASE filtered # ActiveLevel /\ ~Accept
      <4>1. filtered' = filtered
        BY <3>4, Zenon DEF Synchronise, FilteredNext
      <4>2. filterCount' = filterCount + 1
        BY <3>2, <3>4, CountKept, Zenon
      <4>3. exposed >= 3 => filterCount >= exposed - 2
        BY <3>4, Zenon DEF FaultInv, ExposureTracked
      <4>4. filterCount' >= exposed' - 2
        <5>1. exposed' \in Int
          BY <1>2, <2>2
        <5> QED
          BY <1>2, <2>2, <3>1, <4>2, <4>3, <5>1, CountArithmetic, Zenon
      <4> QED
        BY <3>4, <4>1, <4>4, Zenon
    <3> QED
      BY <3>3, <3>4, Zenon
  <2>6. ExposureTracked'
    BY <1>1, <2>1, <2>3, <2>4, <2>5, Zenon DEF ExposureTracked
  <2> QED
    BY <2>2, <2>6
<1> QED
  BY <1>3, <1>4, Zenon

\* A new configuration starts the history again.
LEMMA ExposureReset ==
  ASSUME NEW level, Exposure(level, TRUE)
  PROVE  exposed' \in 0 .. FilterMax + 4 /\ ExposureTracked'
<1>1. exposed' = 0
  BY DEF Exposure
<1> QED
  BY <1>1, Zero, Zenon DEF ExposureTracked

\* The types of what every edge samples.
LEMMA InputType ==
  ASSUME FaultTypeOK, NEW level \in BOOLEAN, Synchronise(level)
  PROVE  meta' \in BOOLEAN /\ sync' \in BOOLEAN /\ filtered' \in BOOLEAN
  BY DEF FaultTypeOK, Synchronise, FilteredNext

LEMMA CaptureType ==
  ASSUME FaultTypeOK, NEW edge \in BOOLEAN, Capture(edge)
  PROVE  record' \in {"none", "edge", "trip"}
  BY DEF FaultTypeOK, Capture

LEMMA SampleType ==
  ASSUME FaultTypeOK, NEW level \in BOOLEAN, NEW edge \in BOOLEAN, Sample(level, edge)
  PROVE  /\ meta' \in BOOLEAN /\ sync' \in BOOLEAN /\ filtered' \in BOOLEAN
         /\ trip' \in BOOLEAN /\ snapValid' \in BOOLEAN
         /\ record' \in {"none", "edge", "trip"}
<1>1. (trip \/ TripEvent) \in BOOLEAN /\ (snapValid \/ CaptureEvent(edge)) \in BOOLEAN
  OBVIOUS
<1> QED
  BY <1>1, InputType, CaptureType, Zenon DEF Sample

LEMMA FaultEdgeInv ==
  ASSUME FaultInv, NEW level \in BOOLEAN, NEW edge \in BOOLEAN, FaultEdge(level, edge)
  PROVE  FaultInv'
<1>0. FaultTypeOK
  BY DEF FaultInv
<1>1. CASE Quiet(level, edge)
  BY <1>0, <1>1, SampleType, CountKept, ExposureKept
  DEF Quiet, settings, FaultInv, FaultTypeOK, FilterBounded, Sample, TripStep
<1>2. ASSUME NEW bits \in Modes, WriteCtrl(level, edge, bits) PROVE FaultInv'
  BY <1>0, <1>2, SampleType, CountKept, ExposureReset, FaultAssumption
  DEF WriteCtrl, FaultInv, FaultTypeOK, FilterBounded
<1>3. ASSUME NEW n \in FilterWrites, WriteFilter(level, edge, n) PROVE FaultInv'
  <2>1. n \in 0 .. FilterMax /\ 0 <= n
    BY FaultAssumption
  <2> QED
    BY <1>0, <1>3, <2>1, Zero, SampleType, ExposureReset, Zenon
    DEF WriteFilter, FaultInv, FaultTypeOK, FilterBounded
<1>4. CASE Clear(level, edge)
  <2>1. TripStep
    BY <1>4 DEF Clear, TripStep
  <2>2. trip' \in BOOLEAN /\ snapValid' \in BOOLEAN /\ rejected' \in BOOLEAN
    BY <1>0, <1>4 DEF Clear, FaultTypeOK
  <2> QED
    BY <1>0, <1>4, <2>1, <2>2, InputType, CaptureType, CountKept, ExposureKept
    DEF Clear, settings, FaultInv, FaultTypeOK, FilterBounded
<1>5. CASE AckRejected(level, edge)
  BY <1>0, <1>5, SampleType, CountKept, ExposureKept
  DEF AckRejected, settings, FaultInv, FaultTypeOK, FilterBounded, Sample, TripStep
<1>6. ASSUME NEW functions \in Claims, WriteClaims(level, edge, functions) PROVE FaultInv'
  BY <1>0, <1>6, SampleType, CountKept, ExposureReset, FaultAssumption
  DEF WriteClaims, FaultInv, FaultTypeOK, FilterBounded
<1>7. ASSUME NEW pads \in Drives, WriteDrive(level, edge, pads) PROVE FaultInv'
  BY <1>0, <1>7, SampleType, CountKept, ExposureKept, FaultAssumption
  DEF WriteDrive, FaultInv, FaultTypeOK, FilterBounded, Sample, TripStep
<1>8. ASSUME NEW bits \in {{}, {"ENABLE"}, {"ENABLE", "OVERWRITE"}},
             WriteSnapCtrl(level, edge, bits)
      PROVE  FaultInv'
  <2>1. bits \in SUBSET SnapBits
    BY DEF SnapBits
  <2> QED
    BY <1>0, <1>8, <2>1, SampleType, CountKept, ExposureKept
    DEF WriteSnapCtrl, FaultInv, FaultTypeOK, FilterBounded, Sample, TripStep
<1>9. CASE AckSnapshot(level, edge)
  <2>1. TripStep /\ trip' \in BOOLEAN /\ snapValid' \in BOOLEAN
    BY <1>0, <1>9 DEF AckSnapshot, TripStep, FaultTypeOK, CaptureEvent
  <2> QED
    BY <1>0, <1>9, <2>1, InputType, CaptureType, CountKept, ExposureKept
    DEF AckSnapshot, settings, FaultInv, FaultTypeOK, FilterBounded
<1> QED
  BY <1>1, <1>2, <1>3, <1>4, <1>5, <1>6, <1>7, <1>8, <1>9 DEF FaultEdge

LEMMA FaultResetInv == Reset => FaultInv'
<1> SUFFICES ASSUME Reset PROVE FaultInv'
  OBVIOUS
<1>1. /\ ctrl' \in SUBSET CtrlBits /\ claims' \in SUBSET Functions
      /\ drive' \in SUBSET Pads /\ snapCtrl' \in SUBSET SnapBits
      /\ record' \in {"none", "edge", "trip"}
  BY DEF Reset, CtrlBits
<1> QED
  BY <1>1, Zero, Zenon DEF Reset, FaultInv, FaultTypeOK, FilterBounded, ExposureTracked

\* Every reachable state of FAULT0 and the pads satisfies the invariant.
THEOREM FaultInductive == FaultSpec => []FaultInv
<1>1. Powerup => FaultInv
  BY FaultPowerupInv
<1>2. FaultInv /\ [FaultNext]_faultVars => FaultInv'
  <2>1. ASSUME FaultInv, UNCHANGED faultVars PROVE FaultInv'
    BY <2>1 DEF faultVars, settings, input, snapshot, FaultInv, FaultTypeOK,
                FilterBounded, ExposureTracked, ActiveLevel, Armed
  <2> QED
    BY <2>1, FaultEdgeInv, FaultResetInv DEF FaultNext, Clock
<1> QED
  BY <1>1, <1>2, PTL DEF FaultSpec

\* Every register keeps its type.
THEOREM FaultTypeCorrect == FaultSpec => []FaultTypeOK
<1>1. FaultInv => FaultTypeOK
  BY DEF FaultInv
<1> QED
  BY <1>1, FaultInductive, PTL

\* An active level on an armed interlock trips it FILTER + 3 edges later.
THEOREM TripTime == FaultSpec => []TripsInTime
<1>1. FaultInv => TripsInTime
  BY FaultAssumption
  DEF FaultInv, FaultTypeOK, FilterBounded, ExposureTracked, TripsInTime
<1> QED
  BY <1>1, FaultInductive, PTL

\* No combination of functions drives an input-only pad or defeats the gate.
THEOREM PadSafety == FaultSpec => []PadsSafe
<1>1. FaultInv => PadsSafe
  <2> SUFFICES ASSUME FaultTypeOK PROVE PadsSafe
    BY DEF FaultInv
  <2>1. drive \cup Claimed("UART1", {10}) \cup Claimed("PWM1", 4 .. 7) \subseteq Pads
    BY DEF FaultTypeOK, Claimed, Pads
  <2>2. trip /\ "GATE_GPIO" \in ctrl => HizMask = Pads
    BY DEF HizMask
  <2> QED
    BY <2>1, <2>2 DEF PadsSafe, DrivenPads
<1> QED
  BY <1>1, FaultInductive, PTL

\* A trip in this clock captures, whatever the bus does to the snapshot.
LEMMA TripCaptures ==
  ASSUME NEW level \in BOOLEAN, NEW edge \in BOOLEAN, FaultEdge(level, edge), trip', ~trip
  PROVE  snapValid' /\ record' = "trip"
<1>1. trip' = (trip \/ TripEvent) \/ trip' = FALSE
  BY Zenon DEF FaultEdge, Quiet, WriteCtrl, WriteFilter, Clear, AckRejected, WriteClaims,
     WriteDrive, WriteSnapCtrl, AckSnapshot, Sample
<1>2. TripEvent /\ CaptureEvent(edge)
  BY <1>1, Zenon DEF CaptureEvent
<1>3. /\ Capture(edge)
      /\ snapValid' = (snapValid \/ CaptureEvent(edge)) \/ snapValid' = CaptureEvent(edge)
  BY Zenon DEF FaultEdge, Quiet, WriteCtrl, WriteFilter, Clear, AckRejected, WriteClaims,
     WriteDrive, WriteSnapCtrl, AckSnapshot, Sample
<1> QED
  BY <1>2, <1>3, Zenon DEF Capture

\* Whatever the snapshot holds and whatever is acknowledged in the clock of a
\* trip, the trip has its own record.
THEOREM TripRecorded == FaultSpec => TripIsRecorded
<1>1. [FaultNext]_faultVars => (trip' /\ ~trip => snapValid' /\ record' = "trip")
  <2>1. ASSUME Clock, trip', ~trip PROVE snapValid' /\ record' = "trip"
    BY <2>1, TripCaptures DEF Clock
  <2>2. ASSUME Reset, trip' PROVE FALSE
    BY <2>2 DEF Reset
  <2>3. ASSUME UNCHANGED faultVars, trip', ~trip PROVE FALSE
    BY <2>3 DEF faultVars
  <2> QED BY <2>1, <2>2, <2>3 DEF FaultNext
<1> QED
  BY <1>1, PTL DEF FaultSpec, TripIsRecorded

-----------------------------------------------------------------------------
(* PULSE0.                                                                 *)

USE PulseAssumption

-----------------------------------------------------------------------------
(* The calls.                                                              *)

\* The n-th last write of omcu_pulse0_configure.
FromLast(i, s, n) ==
  IF n = 7 THEN Write("ctrl", FALSE)
  ELSE IF n = 6 THEN Write("select", i)
  ELSE IF n = 5 THEN Write("edge", s.falling)
  ELSE IF n = 4 THEN Write("filter", s.filter)
  ELSE IF n = 3 THEN Write("clear", TRUE)
  ELSE IF n = 2 THEN Write("status", TRUE) ELSE Write("ctrl", TRUE)

\* Its last n writes.
Rest(i, s, n) == [k \in 1 .. n |-> FromLast(i, s, n + 1 - k)]

Singles == {Write("clear", TRUE), Write("status", TRUE), Write("ctrl", FALSE)}

\* What is left of a call.
Planned ==
  \/ writes = <<>>
  \/ \E w \in Singles : writes = <<w>>
  \/ \E i \in Inputs, s \in Settings, n \in 1 .. 7 : writes = Rest(i, s, n)

\* The writes that are ever made.
AWrite ==
  Singles \cup {FromLast(i, s, n) : i \in Inputs, s \in Settings, n \in 1 .. 7} \cup {NoWrite}

LEMMA ConfigureIs ==
  ASSUME NEW i, NEW s PROVE Configure(i, s) = Rest(i, s, 7)
  <1>1. Len(Configure(i, s)) = 7 /\ DOMAIN Configure(i, s) = 1 .. 7
    BY DEF Configure
  <1>2. /\ Configure(i, s)[1] = FromLast(i, s, 7) /\ Configure(i, s)[2] = FromLast(i, s, 6)
        /\ Configure(i, s)[3] = FromLast(i, s, 5) /\ Configure(i, s)[4] = FromLast(i, s, 4)
        /\ Configure(i, s)[5] = FromLast(i, s, 3) /\ Configure(i, s)[6] = FromLast(i, s, 2)
        /\ Configure(i, s)[7] = FromLast(i, s, 1)
    BY DEF Configure, FromLast
  <1>3. \A k \in 1 .. 7 : Configure(i, s)[k] = FromLast(i, s, 8 - k)
    BY <1>2
  <1>4. \A k \in 1 .. 7 : Configure(i, s)[k] = Rest(i, s, 7)[k]
    BY <1>3 DEF Rest
  <1>5. DOMAIN Rest(i, s, 7) = 1 .. 7
    BY DEF Rest
  <1>6. Configure(i, s) = [k \in 1 .. 7 |-> Configure(i, s)[k]]
    BY <1>1 DEF Configure
  <1>7. Rest(i, s, 7) = [k \in 1 .. 7 |-> Rest(i, s, 7)[k]]
    BY DEF Rest
  <1> QED BY <1>4, <1>6, <1>7

LEMMA RestIs ==
  ASSUME NEW i \in Inputs, NEW s \in Settings, NEW n \in 1 .. 7
  PROVE  /\ Len(Rest(i, s, n)) = n /\ Rest(i, s, n) # <<>>
         /\ Head(Rest(i, s, n)) = FromLast(i, s, n)
         /\ n = 1 => Tail(Rest(i, s, n)) = <<>>
         /\ n > 1 => Tail(Rest(i, s, n)) = Rest(i, s, n - 1)
  <1> DEFINE r == Rest(i, s, n)
             F(k) == FromLast(i, s, n + 1 - k)
             S == {F(k) : k \in 1 .. n}
  <1>1. r = [k \in 1 .. n |-> F(k)]
    BY DEF Rest
  <1>2. r \in Seq(S) /\ Len(r) = n /\ \A k \in 1 .. n : r[k] = F(k)
    <2>1. \A k \in 1 .. n : F(k) \in S
      OBVIOUS
    <2> HIDE DEF F, S, r
    <2>2. r \in [1 .. n -> S]
      BY <1>1, <2>1
    <2>3. r \in Seq(S) /\ Len(r) = n
      BY <1>1, <2>2
    <2> QED BY <1>1, <2>3
  <1>3. F(1) = FromLast(i, s, n)
    OBVIOUS
  <1>4. r # <<>> /\ Head(r) = FromLast(i, s, n)
    BY <1>2, <1>3
  <1>5. Tail(r) = [k \in 1 .. n - 1 |-> r[k + 1]]
    <2> HIDE DEF r, F, S
    <2> DEFINE t == Tail(r)
    <2>1. t \in Seq(S) /\ Len(t) = n - 1 /\ \A k \in 1 .. n - 1 : t[k] = r[k + 1]
      BY <1>2, <1>4, HeadTailProperties
    <2> HIDE DEF t
    <2>2. t = [k \in 1 .. n - 1 |-> t[k]]
      BY <2>1
    <2>3. [k \in 1 .. n - 1 |-> t[k]] = [k \in 1 .. n - 1 |-> r[k + 1]]
      BY <2>1
    <2> QED BY <2>2, <2>3 DEF t
  <1>6. \A k \in 1 .. n - 1 : r[k + 1] = FromLast(i, s, n - k)
    <2>1. \A k \in 1 .. n - 1 : F(k + 1) = FromLast(i, s, n - k)
      OBVIOUS
    <2> HIDE DEF F, r
    <2> QED BY <1>2, <2>1
  <1>7. n > 1 => Tail(r) = Rest(i, s, n - 1)
    <2>1. Rest(i, s, n - 1) = [k \in 1 .. n - 1 |-> FromLast(i, s, n - k)]
      BY DEF Rest
    <2> QED BY <1>5, <1>6, <2>1
  <1>8. n = 1 => Tail(r) = <<>>
    <2> HIDE DEF r, F
    <2> QED BY <1>5
  <1> QED BY <1>2, <1>4, <1>7, <1>8

LEMMA WriteIs == ASSUME NEW r, NEW v PROVE Write(r, v).reg = r /\ Write(r, v).value = v
  BY Zenon DEF Write

\* The value fits the register.
Fits(r, v) ==
  /\ r = "select" => v \in Inputs
  /\ r = "ctrl" => v \in BOOLEAN
  /\ r = "edge" => v \in BOOLEAN
  /\ r = "filter" => v \in Filters

LEMMA WriteTypes == ASSUME NEW w \in AWrite PROVE Fits(w.reg, w.value)
  <1>1. ASSUME NEW r, NEW v, w = Write(r, v), Fits(r, v) PROVE Fits(w.reg, w.value)
    <2>1. w.reg = r /\ w.value = v
      BY <1>1, WriteIs
    <2> QED BY <1>1, <2>1
  <1>2. /\ \A v \in BOOLEAN : Fits("ctrl", v) /\ Fits("edge", v)
        /\ \A i \in Inputs : Fits("select", i)
        /\ \A n \in Filters : Fits("filter", n)
        /\ Fits("clear", TRUE) /\ Fits("status", TRUE) /\ Fits("none", FALSE)
    BY DEF Fits
  <1>3. ASSUME NEW i \in Inputs, NEW s \in Settings, NEW n \in 1 .. 7, w = FromLast(i, s, n)
        PROVE  Fits(w.reg, w.value)
    <2>1. s.falling \in BOOLEAN /\ s.filter \in Filters
      BY DEF Filters
    <2>2. \E r, v : w = Write(r, v) /\ Fits(r, v)
      <3>1. n = 7 \/ n = 6 \/ n = 5 \/ n = 4 \/ n = 3 \/ n = 2 \/ n = 1
        OBVIOUS
      <3>2. /\ n = 7 => w = Write("ctrl", FALSE)
            /\ n = 6 => w = Write("select", i)
            /\ n = 5 => w = Write("edge", s.falling)
            /\ n = 4 => w = Write("filter", s.filter)
            /\ n = 3 => w = Write("clear", TRUE)
            /\ n = 2 => w = Write("status", TRUE)
            /\ n = 1 => w = Write("ctrl", TRUE)
        <4>1. /\ n = 6 => n # 7
              /\ n = 5 => n # 7 /\ n # 6
              /\ n = 4 => n # 7 /\ n # 6 /\ n # 5
              /\ n = 3 => n # 7 /\ n # 6 /\ n # 5 /\ n # 4
              /\ n = 2 => n # 7 /\ n # 6 /\ n # 5 /\ n # 4 /\ n # 3
              /\ n = 1 => n # 7 /\ n # 6 /\ n # 5 /\ n # 4 /\ n # 3 /\ n # 2
          OBVIOUS
        <4> QED BY <1>3, <4>1, Zenon DEF FromLast
      <3>3. TRUE \in BOOLEAN /\ FALSE \in BOOLEAN
        OBVIOUS
      <3> QED BY <1>2, <2>1, <3>1, <3>2, <3>3, Zenon
    <2> QED BY <1>1, <2>2, Zenon
  <1>4. CASE w \in Singles \cup {NoWrite}
    <2>1. \/ w = Write("clear", TRUE) \/ w = Write("status", TRUE)
          \/ w = Write("ctrl", FALSE) \/ w = Write("none", FALSE)
      BY <1>4, Zenon DEF Singles, NoWrite
    <2>2. FALSE \in BOOLEAN
      OBVIOUS
    <2> QED BY <1>1, <1>2, <2>1, <2>2, Zenon
  <1> QED BY <1>3, <1>4 DEF AWrite

LEMMA HeadIsWrite ==
  ASSUME Planned, writes # <<>>
  PROVE  Head(writes) \in AWrite
  <1>1. ASSUME NEW w \in Singles, writes = <<w>> PROVE Head(writes) \in AWrite
    BY <1>1 DEF AWrite
  <1>2. ASSUME NEW i \in Inputs, NEW s \in Settings, NEW n \in 1 .. 7, writes = Rest(i, s, n)
        PROVE  Head(writes) \in AWrite
    <2>1. Head(writes) = FromLast(i, s, n)
      BY <1>2, RestIs
    <2>2. FromLast(i, s, n) \in {FromLast(j, t, m) : j \in Inputs, t \in Settings, m \in 1 .. 7}
      OBVIOUS
    <2> QED BY <2>1, <2>2 DEF AWrite
  <1> QED BY <1>1, <1>2 DEF Planned

-----------------------------------------------------------------------------
(* Types.                                                                  *)

Level == [meta : BOOLEAN, sync : BOOLEAN, filtered : BOOLEAN, count : Nat]

HistoryOK ==
  /\ g.steady \in Nat /\ g.quiet \in Nat /\ g.old \in BOOLEAN

\* What a clock makes of the front end, field by field.
LEMMA FrontStep ==
  ASSUME NEW w, front \in Level, front' = FrontNext(w)
  PROVE  /\ front' = [meta |-> pin[select], sync |-> front.meta,
                      filtered |-> front'.filtered, count |-> front'.count]
         /\ front'.meta = pin[select] /\ front'.sync = front.meta
         /\ w.reg = "select" => front'.filtered = front.sync /\ front'.count = 0
         /\ w.reg = "filter" => front'.count = 0
         /\ w.reg # "select" => front'.filtered = Accepted(front, filter)
         /\ w.reg \notin {"select", "filter"} => front'.count = FilterCount(front, filter)
  <1> DEFINE a == Accepted(front, filter)
             c == FilterCount(front, filter)
             s == [meta |-> pin[select], sync |-> front.meta, filtered |-> a, count |-> c]
  <1>1. Sampled(front, filter, pin[select]) = s
    BY DEF Sampled
  <1> HIDE DEF a, c
  <1>2. CASE w.reg = "select"
    <2>1. front' = [s EXCEPT !.filtered = front.sync, !.count = 0]
      BY <1>1, <1>2 DEF FrontNext
    <2>2. front' = [meta |-> pin[select], sync |-> front.meta, filtered |-> front.sync, count |-> 0]
      BY <2>1
    <2> QED BY <1>2, <2>2
  <1>3. CASE w.reg = "filter"
    <2>1. front' = [meta |-> pin[select], sync |-> front.meta, filtered |-> a, count |-> 0]
      BY <1>1, <1>3 DEF FrontNext
    <2> QED BY <1>3, <2>1 DEF a
  <1>4. CASE w.reg \notin {"select", "filter"}
    <2>1. front' = [meta |-> pin[select], sync |-> front.meta, filtered |-> a, count |-> c]
      BY <1>1, <1>4 DEF FrontNext
    <2> QED BY <1>4, <2>1 DEF a, c
  <1> QED BY <1>2, <1>3, <1>4

\* The filter counts up to FILTER and no further.
LEMMA CountBounded ==
  ASSUME NEW c \in Level, NEW n \in Nat, c.count <= n
  PROVE  /\ FilterCount(c, n) \in 0 .. n
         /\ Accepted(c, n) \in BOOLEAN
  BY DEF Level, FilterCount, Accepts, Accepted

LEMMA TypeStep ==
  ASSUME TypeOK, HistoryOK, NEW w \in AWrite, NEW starts \in BOOLEAN, Clocked(w, starts)
  PROVE  TypeOK' /\ HistoryOK'
  <1>1. /\ Engine(w) /\ pin' \in [Inputs -> BOOLEAN] /\ ticks' = (ticks + 1) % Wrap
    BY DEF Clocked, PinsMove
  <1>2. /\ enable' \in BOOLEAN /\ falling' \in BOOLEAN /\ select' \in Inputs /\ filter' \in Filters
    <2>1. /\ enable' = enable \/ (w.reg = "ctrl" /\ enable' = w.value)
          /\ falling' = falling \/ (w.reg = "edge" /\ falling' = w.value)
          /\ select' = select \/ (w.reg = "select" /\ select' = w.value)
          /\ filter' = filter \/ (w.reg = "filter" /\ filter' = w.value)
      BY <1>1, Zenon DEF Engine
    <2>2. enable \in BOOLEAN /\ falling \in BOOLEAN /\ select \in Inputs /\ filter \in Filters
      BY DEF TypeOK
    <2>3. enable' \in BOOLEAN /\ falling' \in BOOLEAN
      BY <2>1, <2>2, WriteTypes DEF Fits
    <2> QED BY <2>1, <2>2, <2>3, WriteTypes DEF Fits
  <1>3. front' \in [meta : BOOLEAN, sync : BOOLEAN, filtered : BOOLEAN, count : 0 .. filter']
    <2>1. front \in Level /\ front.count <= filter /\ filter \in Nat /\ pin[select] \in BOOLEAN
      BY DEF TypeOK, Level, Filters
    <2>2. front' = FrontNext(w) /\ (w.reg # "filter" => filter' = filter)
      BY <1>1 DEF Engine
    <2>3. filter' \in Nat
      BY <1>2 DEF Filters
    <2>4. front.meta \in BOOLEAN /\ front.sync \in BOOLEAN
      BY <2>1 DEF Level
    <2>5. front'.filtered \in BOOLEAN
      BY <2>1, <2>2, <2>4, FrontStep, CountBounded
    <2>6. front'.count \in 0 .. filter'
      BY <2>1, <2>2, <2>3, FrontStep, CountBounded
    <2>7. front' = [meta |-> pin[select], sync |-> front.meta,
                    filtered |-> front'.filtered, count |-> front'.count]
      BY <2>1, <2>2, FrontStep
    <2> QED BY <2>1, <2>4, <2>5, <2>6, <2>7
  <1>4. Wrap \in Nat /\ Wrap > 1 /\ \A x \in Int : x % Wrap \in 0 .. Wrap - 1
    OBVIOUS
  <1>5. ticks' \in 0 .. Wrap - 1
    BY <1>1, <1>4 DEF TypeOK
  <1>6. /\ pending' \in BOOLEAN /\ lastValid' \in BOOLEAN
    <2>1. pending' \in {FALSE, PendingNext(w)} /\ lastValid' \in {FALSE, TRUE, lastValid}
      BY <1>1, Zenon DEF Engine
    <2>2. PendingNext(w) \in BOOLEAN
      BY DEF PendingNext, Edge, Accepts, TypeOK
    <2> QED BY <2>1, <2>2 DEF TypeOK
  <1>7. {count', period', lastTick'} \subseteq 0 .. Wrap - 1
    <2>1. count \in 0 .. Wrap - 1 /\ period \in 0 .. Wrap - 1 /\ lastTick \in 0 .. Wrap - 1
          /\ ticks \in 0 .. Wrap - 1
      BY DEF TypeOK
    <2>2. /\ count' \in {0, (count + 1) % Wrap, count}
          /\ period' \in {0, PeriodNext, period}
          /\ lastTick' \in {0, ticks, lastTick}
      BY <1>1, Zenon DEF Engine
    <2>3. PeriodNext \in 0 .. Wrap - 1
      BY <1>4, <2>1 DEF PeriodNext
    <2>4. (count + 1) % Wrap \in 0 .. Wrap - 1 /\ 0 \in 0 .. Wrap - 1
      BY <1>4, <2>1
    <2> QED BY <2>1, <2>2, <2>3, <2>4
  <1>8. HistoryOK'
    <2> DEFINE st == IF front.sync = front'.sync THEN UpTo(Longest + 1, g.steady + 1) ELSE 0
               qu == IF w.reg \in {"filter", "select"} THEN 0 ELSE UpTo(Longest + 1, g.quiet + 1)
               ol == lastValid' /\ (g.old \/ starts \/ (Edge /\ Len(writes) > 1))
    <2>1. g'.steady = st /\ g'.quiet = qu /\ g'.old = ol
      BY DEF Clocked, Record
    <2>2. Longest \in Filters
      BY DEF Longest
    <2>3. Longest \in Nat
      BY <2>2 DEF Filters
    <2>4. st \in Nat /\ qu \in Nat
      BY <2>3 DEF HistoryOK, UpTo
    <2>5. ol \in BOOLEAN
      BY <1>6
    <2> HIDE DEF st, qu, ol
    <2> QED BY <2>1, <2>4, <2>5 DEF HistoryOK
  <1> QED BY <1>1, <1>2, <1>3, <1>5, <1>6, <1>7, <1>8 DEF TypeOK

-----------------------------------------------------------------------------
(* What is left of a call, and what may have happened to the epoch when so *)
(* much is left: the configuration goes through a disabled engine with an  *)
(* empty epoch.                                                            *)

LEMMA SingleIs ==
  ASSUME NEW w PROVE Len(<<w>>) = 1 /\ <<w>> # <<>> /\ Head(<<w>>) = w /\ Tail(<<w>>) = <<>>
  OBVIOUS

LEMMA PlannedIs ==
  ASSUME Planned
  PROVE  /\ Len(writes) \in 0 .. 7
         /\ writes = <<>> <=> Len(writes) = 0
         /\ writes # <<>> => Len(Tail(writes)) = Len(writes) - 1
         /\ Len(writes) >= 2 =>
              \E i \in Inputs, s \in Settings : Head(writes) = FromLast(i, s, Len(writes))
         /\ writes # <<>> =>
              \/ Tail(writes) = <<>>
              \/ \E i \in Inputs, s \in Settings, n \in 1 .. 7 : Tail(writes) = Rest(i, s, n)
  <1>0. Len(<<>>) = 0
    OBVIOUS
  <1>1. CASE writes = <<>>
    BY <1>0, <1>1
  <1>2. ASSUME NEW w \in Singles, writes = <<w>> PROVE Len(writes) = 1 /\ Tail(writes) = <<>>
    BY <1>2, SingleIs
  <1>3. ASSUME NEW i \in Inputs, NEW s \in Settings, NEW n \in 1 .. 7, writes = Rest(i, s, n)
        PROVE  /\ Len(writes) = n /\ writes # <<>>
               /\ Head(writes) = FromLast(i, s, n)
               /\ n = 1 => Tail(writes) = <<>>
               /\ n > 1 => Tail(writes) = Rest(i, s, n - 1) /\ Len(Tail(writes)) = n - 1
    <2>1. n > 1 => n - 1 \in 1 .. 7
      OBVIOUS
    <2>2. /\ Len(Rest(i, s, n)) = n /\ Rest(i, s, n) # <<>>
          /\ Head(Rest(i, s, n)) = FromLast(i, s, n)
          /\ n = 1 => Tail(Rest(i, s, n)) = <<>>
          /\ n > 1 => Tail(Rest(i, s, n)) = Rest(i, s, n - 1)
      BY RestIs
    <2>3. n > 1 => Len(Rest(i, s, n - 1)) = n - 1
      BY <2>1, RestIs
    <2> QED BY <1>3, <2>2, <2>3
  <1>4. ASSUME NEW w \in Singles, writes = <<w>>
        PROVE  /\ Len(writes) = 1 /\ writes # <<>> /\ Tail(writes) = <<>>
    BY <1>4, SingleIs
  <1>5. ASSUME NEW i \in Inputs, NEW s \in Settings, NEW n \in 1 .. 7, writes = Rest(i, s, n)
        PROVE  /\ Len(writes) \in 1 .. 7 /\ writes # <<>>
               /\ Len(Tail(writes)) = Len(writes) - 1
               /\ Head(writes) = FromLast(i, s, Len(writes))
               /\ \/ Tail(writes) = <<>>
                  \/ n - 1 \in 1 .. 7 /\ Tail(writes) = Rest(i, s, n - 1)
    <2>0. /\ Len(writes) = n /\ writes # <<>>
          /\ Head(writes) = FromLast(i, s, n)
          /\ n = 1 => Tail(writes) = <<>>
          /\ n > 1 => Tail(writes) = Rest(i, s, n - 1) /\ Len(Tail(writes)) = n - 1
      BY <1>3, <1>5
    <2>1. n = 1 => Len(Tail(writes)) = n - 1
      BY <1>0, <2>0
    <2>2. n = 1 \/ (n > 1 /\ n - 1 \in 1 .. 7)
      OBVIOUS
    <2> HIDE <1>5
    <2> QED BY <2>0, <2>1, <2>2
  <1>6. CASE \E w \in Singles : writes = <<w>>
    BY <1>0, <1>4, <1>6
  <1>7. CASE \E i \in Inputs, s \in Settings, n \in 1 .. 7 : writes = Rest(i, s, n)
    <2>1. PICK i \in Inputs, s \in Settings, n \in 1 .. 7 : writes = Rest(i, s, n)
      BY <1>7
    <2>2. /\ Len(writes) \in 1 .. 7 /\ writes # <<>>
          /\ Len(Tail(writes)) = Len(writes) - 1
          /\ Head(writes) = FromLast(i, s, Len(writes))
          /\ \/ Tail(writes) = <<>>
             \/ n - 1 \in 1 .. 7 /\ Tail(writes) = Rest(i, s, n - 1)
      BY <1>5, <2>1
    <2>3. /\ \E j \in Inputs, t \in Settings : Head(writes) = FromLast(j, t, Len(writes))
          /\ Tail(writes) = <<>> \/ \E j \in Inputs, t \in Settings, k \in 1 .. 7 : Tail(writes) = Rest(j, t, k)
      BY <2>2, Zenon
    <2>4. Len(writes) \in 0 .. 7 /\ Len(writes) # 0
      <3>1. Len(writes) \in 1 .. 7
        BY <2>2, Zenon
      <3>2. \A x \in 1 .. 7 : x \in 0 .. 7 /\ x # 0
        OBVIOUS
      <3> QED BY <3>1, <3>2, Zenon
    <2> QED BY <2>2, <2>3, <2>4, Zenon
  <1> QED BY <1>1, <1>6, <1>7 DEF Planned

LEMMA CallsArePlanned ==
  ASSUME NEW c \in Calls
  PROVE  /\ c # <<>> /\ Len(c) \in {1, 7}
         /\ \/ \E w \in Singles : c = <<w>>
            \/ \E i \in Inputs, s \in Settings, n \in 1 .. 7 : c = Rest(i, s, n)
  <1>1. ASSUME NEW i \in Inputs, NEW s \in Settings, c = Configure(i, s)
        PROVE  /\ c # <<>> /\ Len(c) = 7
               /\ \E j \in Inputs, t \in Settings, n \in 1 .. 7 : c = Rest(j, t, n)
    <2>1. c = Rest(i, s, 7) /\ 7 \in 1 .. 7
      BY <1>1, ConfigureIs
    <2> QED BY <2>1, RestIs
  <1>2. ASSUME NEW w \in Singles, c = <<w>> PROVE c # <<>> /\ Len(c) = 1
    BY <1>2, SingleIs
  <1>3. \/ \E i \in Inputs, s \in Settings : c = Configure(i, s)
        \/ \E w \in Singles : c = <<w>>
    <2> DEFINE Whole == {Configure(i, s) : i \in Inputs, s \in Settings}
               Short == {<<Write("clear", TRUE)>>, <<Write("status", TRUE)>>, <<Write("ctrl", FALSE)>>}
    <2>1. c \in Whole \/ c \in Short
      <3>1. Calls = Whole \cup Short
        BY DEF Calls
      <3> HIDE DEF Whole, Short
      <3> QED BY <3>1
    <2>2. \A w \in {Write("clear", TRUE), Write("status", TRUE), Write("ctrl", FALSE)} : w \in Singles
      BY Zenon DEF Singles
    <2>3. ASSUME c \in Short
          PROVE  \E w \in Singles : c = <<w>>
      <3>1. \E w \in {Write("clear", TRUE), Write("status", TRUE), Write("ctrl", FALSE)} : c = <<w>>
        BY <2>3, Zenon
      <3> QED BY <2>2, <3>1
    <2>4. ASSUME c \in Whole
          PROVE  \E i \in Inputs, s \in Settings : c = Configure(i, s)
      BY <2>4
    <2> HIDE DEF Whole, Short
    <2> QED BY <2>1, <2>3, <2>4
  <1> QED BY <1>1, <1>2, <1>3

\* How much is left, and the epoch that goes with it.
Emptied ==
  /\ Len(writes) <= 5 => ~g.old
  /\ Len(writes) \in 2 .. 6 => ~enable
  /\ Len(writes) \in 2 .. 5 => ~lastValid

EpochInv == Planned /\ Emptied /\ (~pending => count = g.acked)

LEMMA EpochStep ==
  ASSUME TypeOK, HistoryOK, EpochInv, NEW w, NEW starts \in BOOLEAN, Clocked(w, starts)
  PROVE  /\ ~pending' => count' = g'.acked
         /\ g'.old <=> lastValid' /\ (g.old \/ starts \/ (Edge /\ Len(writes) > 1))
         /\ w.reg # "ctrl" => enable' = enable
         /\ w.reg = "ctrl" => enable' = w.value
         /\ w.reg = "select" => ~lastValid'
         /\ ~lastValid /\ ~enable => ~lastValid'
  <1>1. Engine(w) /\ Record(w, starts)
    BY DEF Clocked
  <1>2. /\ g'.old = (lastValid' /\ (g.old \/ starts \/ (Edge /\ Len(writes) > 1)))
        /\ g'.acked = IF pending' \/ Empties(w) THEN 0
                      ELSE IF w.reg = "status" THEN count ELSE g.acked
    BY <1>1 DEF Record
  <1>3. ~enable => ~Edge
    BY DEF Edge
  <1>4. ~pending' => count' = g'.acked
    <2>1. CASE Empties(w)
      BY <1>1, <1>2, <2>1, Zenon DEF Engine
    <2>2. CASE ~Empties(w)
      <3> SUFFICES ASSUME ~pending' PROVE count' = g'.acked
        OBVIOUS
      <3>1. pending' = PendingNext(w)
        BY <1>1, <2>2, Zenon DEF Engine
      <3>2. ~Edge
        BY <3>1, Zenon DEF PendingNext
      <3>3. count' = count
        BY <1>1, <2>2, <3>2, Zenon DEF Engine
      <3>4. w.reg # "status" => ~pending
        BY <3>1, Zenon DEF PendingNext
      <3> QED BY <1>2, <2>2, <3>3, <3>4, Zenon DEF EpochInv
    <2> QED BY <2>1, <2>2
  <1>5. /\ w.reg # "ctrl" => enable' = enable
        /\ w.reg = "ctrl" => enable' = w.value
    BY <1>1, Zenon DEF Engine
  <1>6. w.reg = "select" => lastValid' = FALSE
    BY <1>1, Zenon DEF Engine, Empties
  <1>7. ~lastValid /\ ~enable => ~lastValid'
    BY <1>1, <1>3, Zenon DEF Engine
  <1> QED BY <1>2, <1>4, <1>5, <1>6, <1>7, Zenon

LEMMA FromLastRegs ==
  ASSUME NEW i, NEW s, NEW n \in 2 .. 7, NEW w, w = FromLast(i, s, n)
  PROVE  /\ n = 7 => w.reg = "ctrl" /\ ~w.value
         /\ n = 6 => w.reg = "select"
         /\ n < 7 => w.reg # "ctrl"
  <1>1. n = 7 \/ n = 6 \/ n = 5 \/ n = 4 \/ n = 3 \/ n = 2
    OBVIOUS
  <1>2. /\ n = 6 => n # 7
        /\ n = 5 => n # 7 /\ n # 6
        /\ n = 4 => n # 7 /\ n # 6 /\ n # 5
        /\ n = 3 => n # 7 /\ n # 6 /\ n # 5 /\ n # 4
        /\ n = 2 => n # 7 /\ n # 6 /\ n # 5 /\ n # 4 /\ n # 3
    OBVIOUS
  <1>3. /\ n = 7 => w = Write("ctrl", FALSE)
        /\ n = 6 => w = Write("select", i)
        /\ n = 5 => w = Write("edge", s.falling)
        /\ n = 4 => w = Write("filter", s.filter)
        /\ n = 3 => w = Write("clear", TRUE)
        /\ n = 2 => w = Write("status", TRUE)
    BY <1>2, Zenon DEF FromLast
  <1>4. /\ n = 7 => w.reg = "ctrl" /\ w.value = FALSE
        /\ n = 6 => w.reg = "select"
        /\ n = 5 => w.reg = "edge"
        /\ n = 4 => w.reg = "filter"
        /\ n = 3 => w.reg = "clear"
        /\ n = 2 => w.reg = "status"
    <2>1. /\ Write("ctrl", FALSE).reg = "ctrl" /\ Write("ctrl", FALSE).value = FALSE
          /\ Write("select", i).reg = "select" /\ Write("edge", s.falling).reg = "edge"
          /\ Write("filter", s.filter).reg = "filter" /\ Write("clear", TRUE).reg = "clear"
          /\ Write("status", TRUE).reg = "status"
      BY WriteIs
    <2> QED BY <1>3, <2>1
  <1> QED BY <1>1, <1>4

\* How a clock goes on with the call: not at all, by a write, or with a new one.
Goes(w, starts) ==
  \/ w = NoWrite /\ ~starts /\ writes' = writes
  \/ writes # <<>> /\ w = Head(writes) /\ ~starts /\ writes' = Tail(writes)
  \/ w = NoWrite /\ writes = <<>> /\ writes' \in Calls /\ (starts <=> Len(writes') > 1)

LEMMA NextGoes ==
  ASSUME Planned, Next
  PROVE  \E w \in AWrite, starts \in BOOLEAN : Clocked(w, starts) /\ Goes(w, starts)
  <1>1. NoWrite \in AWrite
    BY DEF AWrite
  <1>2. ASSUME Wait PROVE Clocked(NoWrite, FALSE) /\ Goes(NoWrite, FALSE)
    BY <1>2, Zenon DEF Wait, Goes
  <1>3. ASSUME DoWrite
        PROVE  Head(writes) \in AWrite /\ Clocked(Head(writes), FALSE) /\ Goes(Head(writes), FALSE)
    BY <1>3, HeadIsWrite, Zenon DEF DoWrite, Goes
  <1>4. ASSUME Call
        PROVE  Clocked(NoWrite, Len(writes') > 1) /\ Goes(NoWrite, Len(writes') > 1)
    BY <1>4, Zenon DEF Call, Goes
  <1>5. TRUE \in BOOLEAN /\ FALSE \in BOOLEAN /\ (Len(writes') > 1) \in BOOLEAN
    OBVIOUS
  <1> QED BY <1>1, <1>2, <1>3, <1>4, <1>5, Zenon DEF Next

LEMMA PlannedStep ==
  ASSUME Planned, NEW w, NEW starts, Goes(w, starts)
  PROVE  Planned'
  <1>1. CASE writes' = writes
    BY <1>1 DEF Planned
  <1>2. CASE writes # <<>> /\ writes' = Tail(writes)
    BY <1>2, PlannedIs, Zenon DEF Planned
  <1>3. CASE writes' \in Calls
    BY <1>3, CallsArePlanned, Zenon DEF Planned
  <1> QED BY <1>1, <1>2, <1>3, Zenon DEF Goes

LEMMA EmptiedStep ==
  ASSUME TypeOK, HistoryOK, EpochInv, NEW w, NEW starts \in BOOLEAN, Clocked(w, starts),
         Goes(w, starts)
  PROVE  Emptied'
  <1> DEFINE n == Len(writes)
             m == Len(writes')
  <1>1. n \in 0 .. 7 /\ (writes = <<>> <=> n = 0)
    BY PlannedIs, Zenon DEF EpochInv
  <1>2. /\ g'.old <=> lastValid' /\ (g.old \/ starts \/ (Edge /\ n > 1))
        /\ w.reg # "ctrl" => enable' = enable
        /\ w.reg = "ctrl" => enable' = w.value
        /\ w.reg = "select" => ~lastValid'
        /\ ~lastValid /\ ~enable => ~lastValid'
    BY EpochStep
  <1>3. NoWrite.reg = "none"
    BY WriteIs DEF NoWrite
  <1>4. ~enable => ~Edge
    BY DEF Edge
  <1>5. /\ n <= 5 => ~g.old
        /\ n \in 2 .. 6 => ~enable
        /\ n \in 2 .. 5 => ~lastValid
    BY DEF EpochInv, Emptied
  <1>6. CASE w = NoWrite /\ ~starts /\ writes' = writes
    <2>1. m = n /\ enable' = enable
      BY <1>2, <1>3, <1>6
    <2> HIDE DEF n, m
    <2>2. m <= 5 => ~g'.old
      BY <1>1, <1>2, <1>4, <1>5, <1>6, <2>1
    <2>3. m \in 2 .. 5 => ~lastValid'
      BY <1>1, <1>2, <1>5, <2>1
    <2>4. m \in 2 .. 6 => ~enable'
      BY <1>5, <2>1
    <2> QED BY <2>2, <2>3, <2>4 DEF Emptied, m
  <1>7. CASE writes # <<>> /\ w = Head(writes) /\ ~starts /\ writes' = Tail(writes)
    <2>1. m = n - 1 /\ n \in 1 .. 7
      <3>1. m = n - 1
        BY <1>7, PlannedIs DEF EpochInv
      <3> HIDE DEF n, m
      <3> QED BY <1>1, <1>7, <3>1
    <2>2. /\ n = 7 => w.reg = "ctrl" /\ ~w.value
          /\ n = 6 => w.reg = "select"
          /\ n >= 2 /\ n < 7 => w.reg # "ctrl"
      <3> HIDE DEF n
      <3> SUFFICES ASSUME n >= 2
                   PROVE  /\ n = 7 => w.reg = "ctrl" /\ ~w.value
                          /\ n = 6 => w.reg = "select"
                          /\ n < 7 => w.reg # "ctrl"
        OBVIOUS
      <3>1. PICK i \in Inputs, s \in Settings : w = FromLast(i, s, n)
        BY <1>7, PlannedIs DEF EpochInv, n
      <3>2. n \in 2 .. 7
        BY <2>1
      <3> QED BY <3>1, <3>2, FromLastRegs
    <2> HIDE DEF n, m
    <2>3. m \in 2 .. 6 => ~enable'
      <3>1. CASE n = 7
        BY <1>2, <2>2, <3>1
      <3>2. CASE n \in 3 .. 6
        BY <1>2, <1>5, <2>2, <3>2
      <3> QED BY <2>1, <3>1, <3>2
    <2>4. m \in 2 .. 5 => ~lastValid'
      <3>1. CASE n = 6
        BY <1>2, <2>2, <3>1
      <3>2. CASE n \in 3 .. 5
        BY <1>2, <1>5, <3>2
      <3> QED BY <2>1, <3>1, <3>2
    <2>5. m <= 5 => ~g'.old
      <3>1. CASE n = 6
        BY <1>2, <2>2, <3>1
      <3>2. CASE n \in 2 .. 5
        BY <1>2, <1>5, <3>2
      <3>3. CASE n = 1
        BY <1>2, <1>5, <1>7, <3>3
      <3> QED BY <2>1, <3>1, <3>2, <3>3
    <2> QED BY <2>3, <2>4, <2>5 DEF Emptied, m
  <1>8. CASE w = NoWrite /\ writes = <<>> /\ writes' \in Calls /\ (starts <=> m > 1)
    <2>1. m \in {1, 7} /\ n = 0
      BY <1>1, <1>8, CallsArePlanned
    <2> HIDE DEF n, m
    <2>2. m = 1 => ~g'.old
      <3>1. n <= 5 /\ ~(n > 1) /\ (m = 1 => ~(m > 1))
        BY <2>1
      <3>2. ~g.old
        BY <1>5, <3>1
      <3>3. m = 1 => ~starts
        BY <1>8, <3>1, Zenon
      <3>4. g'.old => g.old \/ starts \/ n > 1
        BY <1>2 DEF n
      <3> QED BY <3>1, <3>2, <3>3, <3>4, Zenon
    <2>3. /\ m <= 5 => m = 1
          /\ m \notin 2 .. 6 /\ m \notin 2 .. 5
      BY <2>1
    <2> QED BY <2>2, <2>3 DEF Emptied, m
  <1> QED BY <1>6, <1>7, <1>8, Zenon DEF Goes

-----------------------------------------------------------------------------
(* The filter.                                                             *)

\* A level in the synchroniser that differs from the accepted one has been
\* counted since it came, or since FILTER or INPUT_SELECT was written.
FilterInv ==
  front.sync # front.filtered =>
    /\ front.count <= g.steady
    /\ g.steady <= front.count \/ g.quiet <= front.count

LEMMA LongestIs == Longest \in Nat /\ \A n \in Filters : n <= Longest
  <1>1. Longest \in Filters /\ IsLongest(Longest)
    BY DEF Longest
  <1>2. Filters \subseteq Nat
    BY DEF Filters
  <1> QED BY <1>1, <1>2 DEF IsLongest

LEMMA FilterStep ==
  ASSUME TypeOK, HistoryOK, FilterInv, NEW w, NEW starts, Clocked(w, starts)
  PROVE  FilterInv'
  <1> DEFINE st == g'.steady
             qu == g'.quiet
             c  == front'.count
  <1>1. /\ front \in Level /\ front.count \in Nat /\ front.count <= filter
        /\ filter \in Nat /\ filter <= Longest /\ Longest \in Nat
        /\ front.sync \in BOOLEAN /\ front.filtered \in BOOLEAN /\ front.meta \in BOOLEAN
    <2>1. filter \in Nat /\ filter <= Longest /\ Longest \in Nat
      BY LongestIs DEF TypeOK, Filters
    <2> QED BY <2>1 DEF TypeOK, Level
  <1>2. front' = FrontNext(w)
    BY DEF Clocked, Engine
  <1>3. /\ st = IF front.sync = front'.sync THEN UpTo(Longest + 1, g.steady + 1) ELSE 0
        /\ qu = IF w.reg \in {"filter", "select"} THEN 0 ELSE UpTo(Longest + 1, g.quiet + 1)
    BY DEF Clocked, Record
  <1>4. g.steady \in Nat /\ g.quiet \in Nat
    BY DEF HistoryOK
  <1>5. /\ front'.sync = front'.sync /\ st \in Nat /\ qu \in Nat
    BY <1>1, <1>3, <1>4 DEF UpTo
  <1> HIDE DEF st, qu, c
  <1>6. CASE w.reg \in {"filter", "select"}
    <2>1. c = 0 /\ qu = 0
      BY <1>1, <1>2, <1>3, <1>6, FrontStep DEF c
    <2> QED BY <1>5, <2>1 DEF FilterInv, st, qu, c
  <1>7. CASE w.reg \notin {"filter", "select"}
    <2>1. /\ front'.sync = front.meta /\ c = FilterCount(front, filter)
          /\ front'.filtered = Accepted(front, filter)
      BY <1>1, <1>2, <1>7, FrontStep DEF c
    <2>2. CASE front.sync = front.filtered
      <3>1. c = 0 /\ front'.filtered = front.filtered
        BY <2>1, <2>2 DEF FilterCount, Accepted, Accepts
      <3>2. front'.sync # front'.filtered => st = 0
        BY <1>3, <2>2, <3>1
      <3> QED BY <3>1, <3>2 DEF FilterInv, st, qu, c
    <2>3. CASE Accepts(front, filter)
      <3>1. c = 0 /\ front'.filtered = front.sync
        BY <2>1, <2>3 DEF FilterCount, Accepted
      <3>2. front'.sync # front'.filtered => st = 0
        BY <1>3, <3>1
      <3> QED BY <3>1, <3>2 DEF FilterInv, st, qu, c
    <2>4. CASE front.sync # front.filtered /\ ~Accepts(front, filter)
      <3>1. c = front.count + 1 /\ front'.filtered = front.filtered /\ front.count < filter
        BY <1>1, <2>1, <2>4 DEF FilterCount, Accepted, Accepts
      <3>2. CASE front'.sync = front.sync
        <4>1. st = UpTo(Longest + 1, g.steady + 1) /\ qu = UpTo(Longest + 1, g.quiet + 1)
          BY <1>3, <1>7, <3>2
        <4>2. /\ front.count <= g.steady
              /\ g.steady <= front.count \/ g.quiet <= front.count
          BY <2>4 DEF FilterInv
        <4>3. c <= st /\ (st <= c \/ qu <= c)
          BY <1>1, <1>4, <3>1, <4>1, <4>2 DEF UpTo
        <4> QED BY <4>3 DEF FilterInv, st, qu, c
      <3>3. CASE front'.sync # front.sync
        <4>1. front'.sync = front'.filtered
          BY <1>1, <2>1, <2>4, <3>1, <3>3
        <4> QED BY <4>1 DEF FilterInv
      <3> QED BY <3>2, <3>3
    <2> QED BY <2>2, <2>3, <2>4 DEF Accepts
  <1> QED BY <1>6, <1>7

-----------------------------------------------------------------------------
(* Counters modulo Wrap.                                                   *)

Alike(a, b) == a % Wrap = b % Wrap

LEMMA QuotientIs ==
  ASSUME NEW n \in Nat \ {0}, NEW t \in Int
  PROVE  t \div n \in Int /\ t % n \in 0 .. n - 1 /\ t = n * (t \div n) + (t % n)
  OBVIOUS

LEMMA RestIsUnique ==
  ASSUME NEW n \in Nat \ {0}, NEW k \in Int, NEW r \in 0 .. n - 1
  PROVE  (n * k + r) % n = r
  OBVIOUS

\* Numbers apart by a multiple of the modulus have one rest.
LEMMA RestMoves ==
  ASSUME NEW n \in Nat \ {0}, NEW t \in Int, NEW d \in Int
  PROVE  (t + n * d) % n = t % n
  <1> DEFINE k == t \div n
             r == t % n
  <1>1. k \in Int /\ r \in 0 .. n - 1 /\ t = n * k + r
    BY QuotientIs
  <1> HIDE DEF k, r
  <1>2. t + n * d = n * (k + d) + r /\ k + d \in Int
    BY <1>1
  <1> QED BY <1>1, <1>2, RestIsUnique DEF r

LEMMA AlikeIs ==
  ASSUME NEW a \in Int, NEW b \in Int
  PROVE  Alike(a, b) <=> \E k \in Int : a = b + Wrap * k
  <1>1. Wrap \in Nat \ {0}
    OBVIOUS
  <1>2. ASSUME NEW k \in Int, a = b + Wrap * k PROVE Alike(a, b)
    BY <1>1, <1>2, RestMoves DEF Alike
  <1>3. ASSUME Alike(a, b) PROVE \E k \in Int : a = b + Wrap * k
    <2> DEFINE i == a \div Wrap
               j == b \div Wrap
               r == a % Wrap
    <2>1. i \in Int /\ j \in Int /\ r \in Int /\ a = Wrap * i + r /\ b = Wrap * j + r
      BY <1>1, <1>3, QuotientIs DEF Alike
    <2> HIDE DEF i, j, r
    <2>2. a = b + Wrap * (i - j) /\ i - j \in Int
      BY <1>1, <2>1
    <2> QED BY <2>2
  <1> QED BY <1>2, <1>3

LEMMA AlikeAdd ==
  ASSUME NEW a \in Int, NEW b \in Int, NEW d \in Int, Alike(a, b)
  PROVE  Alike(a + d, b + d)
  <1>1. PICK k \in Int : a = b + Wrap * k
    BY AlikeIs
  <1>2. a + d = (b + d) + Wrap * k /\ a + d \in Int /\ b + d \in Int
    BY <1>1
  <1> QED BY <1>2, AlikeIs

LEMMA AlikeRest ==
  ASSUME NEW a \in Int
  PROVE  Alike(a % Wrap, a) /\ a % Wrap \in 0 .. Wrap - 1
  <1>1. Wrap \in Nat \ {0}
    OBVIOUS
  <1>2. a % Wrap \in 0 .. Wrap - 1
    BY <1>1, QuotientIs
  <1>3. (Wrap * 0 + (a % Wrap)) % Wrap = a % Wrap
    BY <1>1, <1>2, RestIsUnique
  <1>4. Wrap * 0 + (a % Wrap) = a % Wrap
    BY <1>2
  <1> QED BY <1>2, <1>3, <1>4 DEF Alike

LEMMA AlikeEqual ==
  ASSUME NEW a \in 0 .. Wrap - 1, NEW b \in 0 .. Wrap - 1, Alike(a, b)
  PROVE  a = b
  <1>1. Wrap \in Nat \ {0}
    OBVIOUS
  <1>2. ASSUME NEW x \in 0 .. Wrap - 1 PROVE x % Wrap = x
    <2>1. (Wrap * 0 + x) % Wrap = x
      BY <1>1, RestIsUnique
    <2>2. Wrap * 0 + x = x
      OBVIOUS
    <2> QED BY <2>1, <2>2
  <1> QED BY <1>2 DEF Alike

\* Likeness is an equivalence, and a difference moves with its terms.
LEMMA AlikeChain ==
  ASSUME NEW a, NEW b, NEW c, Alike(a, b), Alike(b, c)
  PROVE  Alike(a, c) /\ Alike(b, a)
  BY DEF Alike

LEMMA AlikeMinus ==
  ASSUME NEW a \in Int, NEW b \in Int, NEW c \in Int, NEW d \in Int, Alike(a, b), Alike(c, d)
  PROVE  Alike(a - c, b - d)
  <1>1. PICK i \in Int : a = b + Wrap * i
    BY AlikeIs
  <1>2. PICK j \in Int : c = d + Wrap * j
    BY AlikeIs
  <1>3. a - c = (b - d) + Wrap * (i - j) /\ i - j \in Int /\ a - c \in Int /\ b - d \in Int
    BY <1>1, <1>2
  <1> QED BY <1>3, AlikeIs

-----------------------------------------------------------------------------
(* The pin, the synchroniser and the epoch.                                *)

\* An edge of the selected direction from the level a to the level b.
Turns(a, b) == a # b /\ b # falling

\* One is on its way from the pin to the counter.
InFlight == Turns(front.filtered, front.sync) \/ Turns(front.sync, front.meta)

WatchOK ==
  /\ g.clean \in BOOLEAN /\ g.held \in 0 .. Longest + 3 /\ g.steady \in 0 .. Longest + 1
  /\ g.epoch \in [surplus : 0 .. Wrap - 1, seen : 0 .. 2, at : 0 .. Wrap - 1, apart : 0 .. Wrap - 1]

\* The level that is held comes through the synchroniser.
Lagging ==
  /\ g.held >= 1 => front.meta = pin[select]
  /\ g.held >= 2 => front.sync = pin[select]
  /\ g.steady >= g.held - 2

\* The edges of a clean pin come through it as far apart as the filter is long.
Spaced ==
  g.clean =>
    /\ g.quiet >= 1 /\ front.meta # pin[select] =>
         g.steady >= filter - 1 /\ (filter >= 1 => front.sync = front.meta)
    /\ g.quiet >= 2 /\ front.meta # front.sync => g.steady >= filter

\* The epoch is counted from when FILTER has had its time.
Settles == g.quiet <= filter => g.epoch = NewEpoch

\* COUNT lacks only the edge that is in flight.
Conserved ==
  g.clean /\ enable =>
    IF InFlight THEN (g.epoch.surplus + 1) % Wrap \in 0 .. 1 ELSE g.epoch.surplus \in 0 .. 1

\* The edge in flight is where its time says, and the one before was counted then.
Timed ==
  LET e == g.epoch
  IN g.clean /\ enable /\ e.seen >= 1 =>
       /\ Turns(front.sync, front.meta) => Alike(ticks, e.at + 1)
       /\ Turns(front.filtered, front.sync) => Alike(ticks, e.at + 2 + front.count)
       /\ InFlight /\ e.seen = 2 => lastValid /\ Alike(lastTick, e.at - e.apart + filter + 2)
       /\ ~InFlight => /\ lastValid /\ Alike(lastTick, e.at + filter + 2)
                       /\ e.seen = 2 => period = e.apart

WatchInv == WatchOK /\ Lagging /\ Spaced /\ Settles /\ Conserved /\ Timed

\* Levels on their way through the front end: r the accepted one, acc whether the
\* one in sync is accepted now.
LEMMA Flight ==
  ASSUME NEW r \in BOOLEAN, NEW s \in BOOLEAN, NEW m \in BOOLEAN, NEW l \in BOOLEAN,
         falling \in BOOLEAN, NEW acc \in BOOLEAN, NEW q, q = (IF acc THEN s ELSE r),
         acc => s # r, s # r /\ m # s => acc
  PROVE  /\ Turns(m, l) => ~Turns(s, m) /\ (Turns(r, s) => acc) /\ ~Turns(q, m)
         /\ Turns(s, m) => Turns(q, m) /\ ~Turns(r, s)
         /\ acc /\ Turns(r, s) => ~Turns(q, m)
         /\ ~acc /\ Turns(r, s) => Turns(q, m) /\ m = s
         /\ ~Turns(r, s) /\ ~Turns(s, m) => ~Turns(q, m)
  BY DEF Turns

\* What a clock does to the history of the line.
LEMMA HistoryStep ==
  ASSUME TypeOK, HistoryOK, WatchOK, NEW w \in AWrite, NEW starts, Clocked(w, starts)
  PROVE  /\ front'.meta = pin[select] /\ front'.sync = front.meta
         /\ g'.clean = g.clean /\ g'.epoch = EpochNext(w)
         /\ g'.held = IF pin'[select'] = pin[select] THEN UpTo(Longest + 3, g.held + 1) ELSE 0
         /\ g'.steady = IF front.sync = front'.sync THEN UpTo(Longest + 1, g.steady + 1) ELSE 0
         /\ g'.quiet = IF w.reg \in {"filter", "select"} THEN 0 ELSE UpTo(Longest + 1, g.quiet + 1)
         /\ g'.clean /\ pin'[select] # pin[select] => g.held >= filter
         /\ g'.held \in 0 .. Longest + 3 /\ g'.steady \in 0 .. Longest + 1 /\ g'.quiet \in Nat
  <1>1. front \in Level /\ front' = FrontNext(w)
    BY DEF TypeOK, Level, Clocked, Engine
  <1>2. Longest \in Nat
    BY LongestIs
  <1> DEFINE he == IF pin'[select'] = pin[select] THEN UpTo(Longest + 3, g.held + 1) ELSE 0
             st == IF front.sync = front'.sync THEN UpTo(Longest + 1, g.steady + 1) ELSE 0
             qu == IF w.reg \in {"filter", "select"} THEN 0 ELSE UpTo(Longest + 1, g.quiet + 1)
             ep == EpochNext(w)
  <1>3. he \in 0 .. Longest + 3 /\ st \in 0 .. Longest + 1 /\ qu \in Nat
    BY <1>2 DEF WatchOK, HistoryOK, UpTo
  <1>4. Record(w, starts) /\ PinsMove
    BY DEF Clocked
  <1> HIDE DEF he, st, qu, ep
  <1>5. g'.held = he /\ g'.steady = st /\ g'.quiet = qu /\ g'.epoch = ep /\ g'.clean = g.clean
    BY <1>4 DEF Record, he, st, qu, ep
  <1>6. g'.clean /\ pin'[select] # pin[select] => g.held >= filter
    BY <1>4, <1>5 DEF PinsMove
  <1>7. front'.meta = pin[select] /\ front'.sync = front.meta
    BY <1>1, FrontStep
  <1> QED BY <1>3, <1>5, <1>6, <1>7 DEF he, st, qu, ep

LEMMA LaggingStep ==
  ASSUME TypeOK, HistoryOK, WatchOK, Lagging, NEW w \in AWrite, NEW starts, Clocked(w, starts)
  PROVE  Lagging'
  <1> DEFINE he == g'.held
             st == g'.steady
  <1>1. /\ front'.meta = pin[select] /\ front'.sync = front.meta
        /\ he = IF pin'[select'] = pin[select] THEN UpTo(Longest + 3, g.held + 1) ELSE 0
        /\ st = IF front.sync = front'.sync THEN UpTo(Longest + 1, g.steady + 1) ELSE 0
        /\ he \in Nat /\ st \in Nat
    <2>1. g'.held \in 0 .. Longest + 3 /\ g'.steady \in 0 .. Longest + 1
      BY HistoryStep
    <2> QED BY <2>1, HistoryStep
  <1>2. Longest \in Nat /\ g.held \in 0 .. Longest + 3 /\ g.steady \in 0 .. Longest + 1
    BY LongestIs DEF WatchOK
  <1> HIDE DEF he, st
  <1>3. he >= 1 => pin'[select'] = pin[select] /\ he <= g.held + 1 /\ he <= Longest + 3
    BY <1>1, <1>2 DEF UpTo
  <1>4. he >= 2 => front.meta = pin[select]
    BY <1>1, <1>2, <1>3 DEF Lagging
  <1>5. st >= he - 2
    <2>1. CASE he <= 2
      BY <1>1, <2>1
    <2>2. CASE he > 2
      <3>1. g.held >= 2 /\ front.sync = front.meta /\ g.steady >= g.held - 2
        BY <1>1, <1>2, <1>3, <2>2 DEF Lagging
      <3>2. st = UpTo(Longest + 1, g.steady + 1)
        BY <1>1, <3>1
      <3> QED BY <1>1, <1>2, <1>3, <2>2, <3>1, <3>2 DEF UpTo
    <2> QED BY <1>1, <2>1, <2>2
  <1> QED BY <1>1, <1>3, <1>4, <1>5 DEF Lagging, he, st

LEMMA SpacedStep ==
  ASSUME TypeOK, HistoryOK, WatchOK, Lagging, Spaced,
         NEW w \in AWrite, NEW starts, Clocked(w, starts)
  PROVE  Spaced'
  <1> SUFFICES ASSUME g'.clean PROVE Spaced'
    BY Zenon DEF Spaced
  <1> DEFINE st == g'.steady
             qu == g'.quiet
  <1>1. /\ front'.meta = pin[select] /\ front'.sync = front.meta
        /\ st = IF front.sync = front'.sync THEN UpTo(Longest + 1, g.steady + 1) ELSE 0
        /\ qu = IF w.reg \in {"filter", "select"} THEN 0 ELSE UpTo(Longest + 1, g.quiet + 1)
        /\ g'.clean = g.clean
        /\ pin'[select] # pin[select] => g.held >= filter
        /\ st \in Nat /\ qu \in Nat
    <2>1. g'.steady \in 0 .. Longest + 1 /\ g'.quiet \in Nat
      BY HistoryStep
    <2>2. g'.steady \in Nat
      BY <2>1, LongestIs
    <2>3. pin'[select] # pin[select] => g.held >= filter
      BY HistoryStep
    <2> QED BY <2>1, <2>2, <2>3, HistoryStep, Zenon
  <1>2. /\ Longest \in Nat /\ filter \in Nat /\ filter <= Longest
        /\ g.held \in Nat /\ g.steady \in 0 .. Longest + 1 /\ g.quiet \in Nat
    BY LongestIs DEF WatchOK, HistoryOK, TypeOK, Filters
  <1>3. qu >= 1 => filter' = filter /\ select' = select /\ qu <= g.quiet + 1
    <2>1. qu >= 1 => w.reg \notin {"filter", "select"}
      BY <1>1
    <2>2. w.reg \notin {"filter", "select"} => filter' = filter /\ select' = select
      BY DEF Clocked, Engine
    <2> HIDE DEF qu
    <2> QED BY <1>1, <1>2, <2>1, <2>2 DEF UpTo
  <1> HIDE DEF st, qu
  <1>4. ASSUME qu >= 1, pin[select] # pin'[select']
        PROVE  st >= filter - 1 /\ (filter >= 1 => front.meta = pin[select])
    <2>1. g.held >= filter
      BY <1>1, <1>3, <1>4
    <2>2. filter >= 1 => front.meta = pin[select]
      BY <1>2, <2>1 DEF Lagging
    <2>3. CASE filter < 2
      BY <1>1, <1>2, <2>2, <2>3
    <2>4. CASE filter >= 2
      <3>1. front.sync = front.meta /\ g.steady >= g.held - 2
        BY <1>2, <2>1, <2>4 DEF Lagging
      <3>2. st = UpTo(Longest + 1, g.steady + 1)
        BY <1>1, <3>1
      <3>3. st >= filter - 1
        BY <1>2, <2>1, <3>1, <3>2 DEF UpTo
      <3> QED BY <2>2, <3>3
    <2> QED BY <1>2, <2>3, <2>4
  <1>5. ASSUME qu >= 2, pin[select] # front.meta
        PROVE  st >= filter
    <2>1. g.clean /\ g.quiet >= 1
      BY <1>1, <1>2, <1>3, <1>5
    <2>2. g.steady >= filter - 1 /\ (filter >= 1 => front.sync = front.meta)
      BY <1>5, <2>1 DEF Spaced
    <2>3. CASE filter = 0
      BY <1>1, <2>3
    <2>4. CASE filter >= 1
      <3>1. st = UpTo(Longest + 1, g.steady + 1)
        BY <1>1, <2>2, <2>4
      <3> QED BY <1>2, <2>2, <3>1 DEF UpTo
    <2> QED BY <1>2, <2>3, <2>4
  <1>6. qu >= 2 => qu >= 1
    BY <1>1
  <1> QED BY <1>1, <1>3, <1>4, <1>5, <1>6 DEF Spaced, st, qu

LEMMA SettlesStep ==
  ASSUME TypeOK, HistoryOK, WatchOK, Settles, NEW w \in AWrite, NEW starts, Clocked(w, starts)
  PROVE  Settles'
  <1> DEFINE qu == g'.quiet
  <1>1. /\ g'.epoch = EpochNext(w) /\ qu \in Nat
        /\ qu = IF w.reg \in {"filter", "select"} THEN 0 ELSE UpTo(Longest + 1, g.quiet + 1)
    BY HistoryStep
  <1>2. /\ Longest \in Nat /\ filter \in Nat /\ filter <= Longest /\ g.quiet \in Nat
    BY LongestIs DEF HistoryOK, TypeOK, Filters
  <1>3. CASE w.reg \in {"filter", "select"}
    <2>1. Empties(w) \/ w.reg = "filter"
      BY <1>3 DEF Empties
    <2>2. EpochNext(w) = NewEpoch
      BY <2>1, Zenon DEF EpochNext
    <2> QED BY <1>1, <2>2 DEF Settles, NewEpoch
  <1>4. CASE w.reg \notin {"filter", "select"}
    <2>1. filter' = filter /\ qu = UpTo(Longest + 1, g.quiet + 1)
      BY <1>1, <1>4 DEF Clocked, Engine
    <2> HIDE DEF qu
    <2>2. qu <= filter' => g.quiet <= filter
      BY <1>2, <2>1 DEF UpTo
    <2>3. g.quiet <= filter => EpochNext(w) = NewEpoch
      BY Zenon DEF EpochNext
    <2> QED BY <1>1, <2>2, <2>3 DEF Settles, NewEpoch, qu
  <1> QED BY <1>3, <1>4

\* The writes, and the time after them, in which the epoch begins anew.
Resets(w) == Empties(w) \/ w.reg \in {"ctrl", "edge", "filter"} \/ g.quiet <= filter

LEMMA EpochIs ==
  ASSUME NEW w
  PROVE  /\ Resets(w) => EpochNext(w) = NewEpoch
         /\ ~Resets(w) =>
              EpochNext(w) =
                [surplus |-> (g.epoch.surplus + (IF Edge THEN 1 ELSE 0)
                                - (IF enable /\ PinEdge THEN 1 ELSE 0)) % Wrap,
                 seen    |-> Two(g.epoch.seen + (IF enable /\ PinEdge THEN 1 ELSE 0)),
                 at      |-> IF enable /\ PinEdge THEN ticks ELSE g.epoch.at,
                 apart   |-> IF enable /\ PinEdge THEN (ticks - g.epoch.at) % Wrap
                             ELSE g.epoch.apart]
  <1> DEFINE made == IF enable /\ PinEdge THEN 1 ELSE 0
             counted == IF Edge THEN 1 ELSE 0
  <1>1. Resets(w) => EpochNext(w) = NewEpoch
    BY Zenon DEF EpochNext, Resets
  <1>2. made = 1 <=> enable /\ PinEdge
    OBVIOUS
  <1>3. ~Resets(w) =>
          EpochNext(w) = [surplus |-> (g.epoch.surplus + counted - made) % Wrap,
                          seen    |-> Two(g.epoch.seen + made),
                          at      |-> IF made = 1 THEN ticks ELSE g.epoch.at,
                          apart   |-> IF made = 1 THEN (ticks - g.epoch.at) % Wrap
                                      ELSE g.epoch.apart]
    BY Zenon DEF EpochNext, Resets
  <1>4. CASE enable /\ PinEdge
    BY <1>1, <1>2, <1>3, <1>4
  <1>5. CASE ~(enable /\ PinEdge)
    BY <1>1, <1>2, <1>3, <1>5
  <1> QED BY <1>4, <1>5

LEMMA WatchOKStep ==
  ASSUME TypeOK, HistoryOK, WatchOK, NEW w \in AWrite, NEW starts, Clocked(w, starts)
  PROVE  WatchOK'
  <1> DEFINE ep == g'.epoch
             edge == IF Edge THEN 1 ELSE 0
             made == IF enable /\ PinEdge THEN 1 ELSE 0
             Epochs == [surplus : 0 .. Wrap - 1, seen : 0 .. 2, at : 0 .. Wrap - 1,
                        apart : 0 .. Wrap - 1]
  <1>1. /\ ep = EpochNext(w) /\ g'.clean = g.clean
        /\ g'.held \in 0 .. Longest + 3 /\ g'.steady \in 0 .. Longest + 1
    BY HistoryStep
  <1>2. /\ g.epoch.surplus \in 0 .. Wrap - 1 /\ g.epoch.seen \in 0 .. 2
        /\ g.epoch.at \in 0 .. Wrap - 1 /\ g.epoch.apart \in 0 .. Wrap - 1
        /\ ticks \in 0 .. Wrap - 1 /\ Wrap \in Nat \ {0, 1}
        /\ edge \in 0 .. 1 /\ made \in 0 .. 1
    BY DEF WatchOK, TypeOK
  <1>3. ep \in Epochs
    <2>1. CASE Resets(w)
      <3>1. ep = [surplus |-> 0, seen |-> 0, at |-> 0, apart |-> 0]
        BY <1>1, <2>1, EpochIs DEF NewEpoch
      <3> HIDE DEF ep
      <3> QED BY <1>2, <3>1
    <2>2. CASE ~Resets(w)
      <3> DEFINE x == (g.epoch.surplus + edge - made) % Wrap
                 y == Two(g.epoch.seen + made)
                 z == IF enable /\ PinEdge THEN ticks ELSE g.epoch.at
                 u == IF enable /\ PinEdge THEN (ticks - g.epoch.at) % Wrap ELSE g.epoch.apart
      <3>1. ep = [surplus |-> x, seen |-> y, at |-> z, apart |-> u]
        BY <1>1, <2>2, EpochIs
      <3>2. x \in 0 .. Wrap - 1
        <4>1. g.epoch.surplus + edge - made \in Int
          <5> HIDE DEF edge, made
          <5> QED BY <1>2
        <4> QED BY <4>1, AlikeRest
      <3>3. y \in 0 .. 2
        <4> HIDE DEF edge, made
        <4> QED BY <1>2 DEF Two, UpTo
      <3>4. z \in 0 .. Wrap - 1
        BY <1>2
      <3>5. u \in 0 .. Wrap - 1
        BY <1>2, AlikeRest
      <3> HIDE DEF ep, x, y, z, u
      <3> QED BY <3>1, <3>2, <3>3, <3>4, <3>5
    <2> QED BY <2>1, <2>2
  <1> HIDE DEF ep
  <1> QED BY <1>1, <1>3 DEF WatchOK, ep

\* With FILTER settled, the synchroniser passes on no level that the filter
\* has not accepted.
LEMMA NoLoss ==
  ASSUME TypeOK, HistoryOK, WatchOK, Spaced, FilterInv, g.clean, g.quiet > filter,
         front.meta # front.sync, front.sync # front.filtered
  PROVE  Accepts(front, filter)
  <1>1. front.count \in 0 .. filter /\ filter \in Nat /\ g.steady \in Nat /\ g.quiet \in Nat
    BY DEF TypeOK, Filters, HistoryOK
  <1>2. CASE filter = 0
    BY <1>1, <1>2 DEF Accepts
  <1>3. CASE filter >= 1
    <2>1. g.steady >= filter
      BY <1>1, <1>3 DEF Spaced
    <2>2. front.count = filter
      BY <1>1, <2>1 DEF FilterInv
    <2> QED BY <2>2 DEF Accepts
  <1> QED BY <1>1, <1>2, <1>3

\* A clock of a settled epoch.
LEMMA EpochClock ==
  ASSUME TypeOK, HistoryOK, WatchOK, Spaced, FilterInv, NEW w \in AWrite, NEW starts,
         Clocked(w, starts), g.clean, enable, ~Resets(w)
  PROVE  /\ enable' /\ filter' = filter /\ falling' = falling
         /\ front'.meta = pin[select] /\ front'.sync = front.meta
         /\ front'.filtered = IF Accepts(front, filter) THEN front.sync ELSE front.filtered
         /\ front'.count = FilterCount(front, filter)
         /\ front.sync # front.filtered /\ front.meta # front.sync => Accepts(front, filter)
         /\ Edge <=> Accepts(front, filter) /\ Turns(front.filtered, front.sync)
         /\ PinEdge <=> Turns(front.meta, pin[select])
         /\ Edge => lastTick' = ticks /\ lastValid' /\ period' = PeriodNext
         /\ ~Edge => lastTick' = lastTick /\ lastValid' = lastValid /\ period' = period
         /\ ticks' = (ticks + 1) % Wrap
  <1>1. /\ ~Empties(w) /\ w.reg \notin {"ctrl", "edge", "filter", "select"} /\ g.quiet > filter
    <2>1. ~Empties(w) /\ w.reg \notin {"ctrl", "edge", "filter"} /\ ~(g.quiet <= filter)
      BY Zenon DEF Resets
    <2>2. w.reg # "select"
      BY <2>1 DEF Empties
    <2>3. g.quiet \in Nat /\ filter \in Nat
      BY DEF HistoryOK, TypeOK, Filters
    <2> QED BY <2>1, <2>2, <2>3
  <1>2. front \in Level /\ front' = FrontNext(w) /\ Engine(w) /\ ticks' = (ticks + 1) % Wrap
    BY DEF TypeOK, Level, Clocked, Engine
  <1>3. enable' /\ filter' = filter /\ falling' = falling
    BY <1>1, <1>2 DEF Engine
  <1>4. /\ front'.meta = pin[select] /\ front'.sync = front.meta
        /\ front'.filtered = Accepted(front, filter)
        /\ front'.count = FilterCount(front, filter)
    BY <1>1, <1>2, FrontStep
  <1>5. front.sync # front.filtered /\ front.meta # front.sync => Accepts(front, filter)
    BY <1>1, NoLoss
  <1>6. Edge <=> Accepts(front, filter) /\ Turns(front.filtered, front.sync)
    BY DEF Edge, Turns, Accepts
  <1>7. PinEdge <=> Turns(front.meta, pin[select])
    BY DEF PinEdge, Turns
  <1>8. /\ Edge => lastTick' = ticks /\ lastValid' /\ period' = PeriodNext
        /\ ~Edge => lastTick' = lastTick /\ lastValid' = lastValid /\ period' = period
    BY <1>1, <1>2, Zenon DEF Engine
  <1> QED BY <1>2, <1>3, <1>4, <1>5, <1>6, <1>7, <1>8 DEF Accepted

LEMMA SurplusIs ==
  ASSUME NEW x \in 0 .. Wrap - 1
  PROVE  /\ (x + 0 - 0) % Wrap = x
         /\ (x + 1 - 0) % Wrap = (x + 1) % Wrap
         /\ (((x + 0 - 1) % Wrap) + 1) % Wrap = x
         /\ (((x + 1 - 1) % Wrap) + 1) % Wrap = (x + 1) % Wrap
         /\ (0 + 1) % Wrap = 1
  <1>1. Wrap \in Nat \ {0, 1} /\ x \in Int /\ x + 1 \in Int /\ x - 1 \in Int
    OBVIOUS
  <1>2. ASSUME NEW y \in 0 .. Wrap - 1 PROVE y % Wrap = y
    <2>1. y \in Int /\ y % Wrap \in 0 .. Wrap - 1 /\ Alike(y % Wrap, y)
      BY AlikeRest
    <2> QED BY <2>1, AlikeEqual
  <1>3. 1 \in 0 .. Wrap - 1 /\ 0 + 1 = 1
    BY <1>1
  <1>4. ASSUME NEW y \in Int PROVE ((y % Wrap) + 1) % Wrap = (y + 1) % Wrap
    <2>1. Alike(y % Wrap, y) /\ y % Wrap \in Int
      BY AlikeRest
    <2>2. Alike((y % Wrap) + 1, y + 1)
      BY <2>1, AlikeAdd
    <2> QED BY <2>2 DEF Alike
  <1>5. /\ x + 0 - 0 = x /\ x + 1 - 0 = x + 1 /\ x + 0 - 1 = x - 1 /\ x + 1 - 1 = x
        /\ (x - 1) + 1 = x
    OBVIOUS
  <1>6. (((x - 1) % Wrap) + 1) % Wrap = ((x - 1) + 1) % Wrap
    BY <1>1, <1>4
  <1> QED BY <1>1, <1>2, <1>3, <1>4, <1>5, <1>6

\* What is in flight before and after a clock of a settled epoch.
LEMMA FlightStep ==
  ASSUME TypeOK, HistoryOK, WatchOK, Spaced, FilterInv, NEW w \in AWrite, NEW starts,
         Clocked(w, starts), g.clean, enable, ~Resets(w),
         NEW a, a <=> Turns(front.sync, front.meta),
         NEW b, b <=> Turns(front.filtered, front.sync),
         NEW a1, a1 <=> Turns(front.sync, front.meta)',
         NEW b1, b1 <=> Turns(front.filtered, front.sync)'
  PROVE  /\ InFlight <=> a \/ b
         /\ InFlight' <=> a1 \/ b1
         /\ PinEdge <=> a1
         /\ Edge => b /\ ~b1
         /\ a1 => ~a /\ ~b1 /\ (b => Edge)
         /\ a => b1 /\ ~b
         /\ b /\ ~Edge => b1
         /\ ~a /\ ~b => ~b1
         /\ a => front'.count = 0
         /\ Edge => front.count = filter
         /\ b /\ ~Edge => front'.count = front.count + 1
  <1> DEFINE r == front.filtered
             s == front.sync
             m == front.meta
             l == pin[select]
             q == front'.filtered
             acc == Accepts(front, filter)
  <1>1. /\ r \in BOOLEAN /\ s \in BOOLEAN /\ m \in BOOLEAN /\ l \in BOOLEAN
        /\ falling \in BOOLEAN /\ acc \in BOOLEAN
    BY DEF TypeOK, Accepts
  <1>2. /\ q = (IF acc THEN s ELSE r) /\ front'.sync = m /\ front'.meta = l /\ falling' = falling
        /\ s # r /\ m # s => acc
        /\ Edge <=> acc /\ Turns(r, s)
        /\ PinEdge <=> Turns(m, l)
        /\ front'.count = FilterCount(front, filter)
    BY EpochClock
  <1>3. acc => s # r /\ front.count = filter
    BY DEF Accepts
  <1>4. a1 <=> Turns(m, l)
    BY <1>2, Zenon DEF Turns
  <1>5. b1 <=> Turns(q, m)
    BY <1>2, Zenon DEF Turns
  <1>6. (InFlight <=> a \/ b) /\ (InFlight' <=> a1 \/ b1)
    BY Zenon DEF InFlight
  <1>7. /\ Turns(s, m) => s # m
        /\ Turns(r, s) => r # s
    BY DEF Turns
  <1>8. /\ s = r => front'.count = 0
        /\ s # r /\ ~acc => front'.count = front.count + 1
        /\ acc => front'.count = 0
    BY <1>2 DEF FilterCount
  <1> HIDE DEF r, s, m, l, q, acc
  <1>9. /\ Turns(m, l) => ~Turns(s, m) /\ (Turns(r, s) => acc) /\ ~Turns(q, m)
        /\ Turns(s, m) => Turns(q, m) /\ ~Turns(r, s)
        /\ acc /\ Turns(r, s) => ~Turns(q, m)
        /\ ~acc /\ Turns(r, s) => Turns(q, m) /\ m = s
        /\ ~Turns(r, s) /\ ~Turns(s, m) => ~Turns(q, m)
    BY <1>1, <1>2, <1>3, Flight
  <1>10. /\ PinEdge <=> a1
         /\ Edge => b /\ ~b1
         /\ a1 => ~a /\ ~b1 /\ (b => Edge)
         /\ a => b1 /\ ~b
         /\ b /\ ~Edge => b1
         /\ ~a /\ ~b => ~b1
         /\ b /\ ~Edge => ~acc
         /\ Edge => acc
    BY <1>2, <1>4, <1>5, <1>9, Zenon DEF r, s, m
  <1>11. a => front'.count = 0
    <2>1. a => s # m
      BY <1>7, Zenon DEF s, m
    <2>2. a => s = r \/ acc
      BY <1>2, <2>1, Zenon
    <2> QED BY <1>8, <2>2, Zenon
  <1>12. b /\ ~Edge => s # r
    BY <1>7, Zenon DEF r, s
  <1> QED BY <1>3, <1>6, <1>8, <1>10, <1>11, <1>12, Zenon

LEMMA ConservedStep ==
  ASSUME TypeOK, HistoryOK, WatchOK, Spaced, FilterInv, Conserved, NEW w \in AWrite, NEW starts,
         Clocked(w, starts)
  PROVE  Conserved'
  <1>1. g'.epoch = EpochNext(w) /\ g'.clean = g.clean
    BY HistoryStep
  <1>2. Wrap \in Nat \ {0, 1} /\ g.epoch.surplus \in 0 .. Wrap - 1 /\ 0 \in 0 .. Wrap - 1
    BY DEF WatchOK
  <1>3. CASE Resets(w)
    <2>1. g'.epoch.surplus = 0
      BY <1>1, <1>3, EpochIs DEF NewEpoch
    <2>2. (g'.epoch.surplus + 1) % Wrap = 1
      BY <1>2, <2>1, SurplusIs
    <2> QED BY <2>1, <2>2 DEF Conserved
  <1>4. CASE ~Resets(w)
    <2> SUFFICES ASSUME g'.clean, enable'
                 PROVE  IF InFlight' THEN (g'.epoch.surplus + 1) % Wrap \in 0 .. 1
                        ELSE g'.epoch.surplus \in 0 .. 1
      BY DEF Conserved
    <2>1. g.clean /\ enable
      <3>1. enable' = enable
        <4>1. w.reg # "ctrl"
          BY <1>4 DEF Resets
        <4> QED BY <4>1, Zenon DEF Clocked, Engine
      <3> QED BY <1>1, <3>1
    <2> DEFINE a == Turns(front.sync, front.meta)
               b == Turns(front.filtered, front.sync)
               a1 == a'
               b1 == b'
               x == g.epoch.surplus
               x1 == g'.epoch.surplus
    <2>2. /\ InFlight <=> a \/ b
          /\ InFlight' <=> a1 \/ b1
          /\ PinEdge <=> a1
          /\ Edge => b /\ ~b1
          /\ a1 => ~a /\ ~b1 /\ (b => Edge)
          /\ a => b1 /\ ~b
          /\ b /\ ~Edge => b1
          /\ ~a /\ ~b => ~b1
      BY <1>4, <2>1, FlightStep
    <2>3. x1 = (x + (IF Edge THEN 1 ELSE 0) - (IF enable /\ PinEdge THEN 1 ELSE 0)) % Wrap
      BY <1>1, <1>4, EpochIs
    <2>4. /\ ~Edge /\ ~PinEdge => x1 = (x + 0 - 0) % Wrap
          /\ Edge /\ ~PinEdge => x1 = (x + 1 - 0) % Wrap
          /\ ~Edge /\ PinEdge => x1 = (x + 0 - 1) % Wrap
          /\ Edge /\ PinEdge => x1 = (x + 1 - 1) % Wrap
      BY <2>1, <2>3
    <2>5. IF InFlight THEN (x + 1) % Wrap \in 0 .. 1 ELSE x \in 0 .. 1
      BY <2>1 DEF Conserved
    <2> HIDE DEF a, b, a1, b1, x, x1
    <2>6. x \in 0 .. Wrap - 1
      BY <1>2 DEF x
    <2>7. /\ ~Edge /\ ~PinEdge => x1 = x
          /\ Edge /\ ~PinEdge => x1 = (x + 1) % Wrap
          /\ ~Edge /\ PinEdge => (x1 + 1) % Wrap = x
          /\ Edge /\ PinEdge => (x1 + 1) % Wrap = (x + 1) % Wrap
      BY <2>4, <2>6, SurplusIs
    <2>8. /\ ~Edge /\ ~PinEdge => (InFlight' <=> InFlight)
          /\ Edge /\ ~PinEdge => InFlight /\ ~InFlight'
          /\ ~Edge /\ PinEdge => ~InFlight /\ InFlight'
          /\ Edge /\ PinEdge => InFlight /\ InFlight'
      BY <2>2, Zenon
    <2>9. IF InFlight' THEN (x1 + 1) % Wrap \in 0 .. 1 ELSE x1 \in 0 .. 1
      BY <2>5, <2>7, <2>8, Zenon
    <2> QED BY <2>9 DEF x1
  <1> QED BY <1>3, <1>4

\* The arithmetic of Timed: times modulo Wrap, n the filter.
LEMMA TimesAre ==
  ASSUME NEW t \in Int, NEW at \in Int, NEW n \in Int, NEW k \in Int
  PROVE  /\ Alike((t + 1) % Wrap, t + 1)
         /\ Alike(t, at + 1) => Alike((t + 1) % Wrap, at + 2 + 0)
         /\ Alike(t, at + 2 + k) => Alike((t + 1) % Wrap, at + 2 + (k + 1))
         /\ \A lt \in Int : Alike(lt, at + n + 2) => Alike(lt, t - ((t - at) % Wrap) + n + 2)
         /\ \A lt \in Int, apart \in 0 .. Wrap - 1 :
              Alike(t, at + 2 + n) /\ Alike(lt, at - apart + n + 2) => (t - lt) % Wrap = apart
  <1>1. Alike((t + 1) % Wrap, t + 1)
    BY AlikeRest
  <1>2. ASSUME Alike(t, at + 1) PROVE Alike((t + 1) % Wrap, at + 2 + 0)
    <2>1. Alike(t + 1, (at + 1) + 1)
      BY <1>2, AlikeAdd
    <2>2. (at + 1) + 1 = at + 2 + 0
      OBVIOUS
    <2> QED BY <1>1, <2>1, <2>2, AlikeChain
  <1>3. ASSUME Alike(t, at + 2 + k) PROVE Alike((t + 1) % Wrap, at + 2 + (k + 1))
    <2>0. t \in Int /\ at + 2 + k \in Int /\ 1 \in Int
      OBVIOUS
    <2>1. Alike(t + 1, (at + 2 + k) + 1)
      BY <1>3, <2>0, AlikeAdd, Zenon
    <2>2. (at + 2 + k) + 1 = at + 2 + (k + 1)
      OBVIOUS
    <2> QED BY <1>1, <2>1, <2>2, AlikeChain
  <1>4. ASSUME NEW lt \in Int, Alike(lt, at + n + 2)
        PROVE  Alike(lt, t - ((t - at) % Wrap) + n + 2)
    <2> DEFINE d == (t - at) % Wrap
    <2>0. t - at \in Int /\ t + n + 2 \in Int
      OBVIOUS
    <2>1. d \in Int /\ Alike(d, t - at)
      <3>1. d \in 0 .. Wrap - 1 /\ Alike(d, t - at)
        BY <2>0, AlikeRest, Zenon
      <3> QED BY <3>1
    <2> HIDE DEF d
    <2>2. Alike((t + n + 2) - d, (t + n + 2) - (t - at))
      <3>1. Alike(t + n + 2, t + n + 2)
        BY Zenon DEF Alike
      <3> QED BY <2>0, <2>1, <3>1, AlikeMinus, Zenon
    <2>3. (t + n + 2) - d = t - d + n + 2 /\ (t + n + 2) - (t - at) = at + n + 2
      BY <2>1
    <2>4. Alike(t - d + n + 2, at + n + 2)
      BY <2>2, <2>3
    <2>5. Alike(at + n + 2, t - d + n + 2)
      BY <2>4, AlikeChain DEF Alike
    <2>6. Alike(lt, t - d + n + 2)
      BY <1>4, <2>5, AlikeChain
    <2> QED BY <2>6 DEF d
  <1>5. ASSUME NEW lt \in Int, NEW apart \in 0 .. Wrap - 1,
               Alike(t, at + 2 + n), Alike(lt, at - apart + n + 2)
        PROVE  (t - lt) % Wrap = apart
    <2>1. apart \in Int /\ t - lt \in Int
      OBVIOUS
    <2>2. Alike(t - lt, (at + 2 + n) - (at - apart + n + 2))
      BY <1>5, <2>1, AlikeMinus
    <2>3. (at + 2 + n) - (at - apart + n + 2) = apart
      BY <2>1
    <2>4. Alike((t - lt) % Wrap, t - lt) /\ (t - lt) % Wrap \in 0 .. Wrap - 1
      BY <2>1, AlikeRest
    <2>5. Alike((t - lt) % Wrap, apart)
      BY <2>2, <2>3, <2>4, AlikeChain
    <2> QED BY <2>4, <2>5, AlikeEqual
  <1> QED BY <1>1, <1>2, <1>3, <1>4, <1>5

LEMMA TimedStep ==
  ASSUME TypeOK, HistoryOK, WatchOK, Spaced, FilterInv, Timed, NEW w \in AWrite, NEW starts,
         Clocked(w, starts)
  PROVE  Timed'
  <1>1. g'.epoch = EpochNext(w) /\ g'.clean = g.clean
    BY HistoryStep
  <1>2. CASE Resets(w)
    <2>1. g'.epoch.seen = 0
      BY <1>1, <1>2, EpochIs DEF NewEpoch
    <2> QED BY <2>1 DEF Timed
  <1>3. CASE ~Resets(w)
    <2> DEFINE a == Turns(front.sync, front.meta)
               b == Turns(front.filtered, front.sync)
               a1 == a'
               b1 == b'
               e == g.epoch
               e1 == g'.epoch
               k == front.count
               k1 == front'.count
               Goal == /\ a1 => Alike(ticks', e1.at + 1)
                       /\ b1 => Alike(ticks', e1.at + 2 + k1)
                       /\ (a1 \/ b1) /\ e1.seen = 2 =>
                            lastValid' /\ Alike(lastTick', e1.at - e1.apart + filter + 2)
                       /\ ~(a1 \/ b1) => /\ lastValid' /\ Alike(lastTick', e1.at + filter + 2)
                                         /\ e1.seen = 2 => period' = e1.apart
    <2>1. enable' = enable
      <3>1. w.reg # "ctrl"
        BY <1>3 DEF Resets
      <3> QED BY <3>1, Zenon DEF Clocked, Engine
    <2>2. SUFFICES ASSUME g.clean, enable, e1.seen >= 1 PROVE Goal
      <3>1. ASSUME g.clean, enable PROVE filter' = filter /\ (InFlight' <=> a1 \/ b1)
        BY <1>3, <3>1, EpochClock, FlightStep
      <3> HIDE DEF a, b, k
      <3>2. /\ a1 <=> Turns(front.sync, front.meta)'
            /\ b1 <=> Turns(front.filtered, front.sync)'
        BY Zenon DEF a, b
      <3>3. ASSUME g'.clean, enable', e1.seen >= 1 PROVE Goal /\ filter' = filter /\ (InFlight' <=> a1 \/ b1)
        BY <1>1, <2>1, <2>2, <3>1, <3>3
      <3> HIDE DEF a1, b1
      <3> QED BY <3>2, <3>3 DEF Timed
    <2>3. /\ InFlight <=> a \/ b
          /\ PinEdge <=> a1
          /\ Edge => b /\ ~b1
          /\ a1 => ~a /\ ~b1 /\ (b => Edge)
          /\ a => b1 /\ ~b
          /\ b /\ ~Edge => b1
          /\ ~a /\ ~b => ~b1
          /\ a => k1 = 0
          /\ Edge => k = filter
          /\ b /\ ~Edge => k1 = k + 1
      BY <1>3, <2>2, FlightStep
    <2>4. /\ Edge => lastTick' = ticks /\ lastValid' /\ period' = PeriodNext
          /\ ~Edge => lastTick' = lastTick /\ lastValid' = lastValid /\ period' = period
          /\ ticks' = (ticks + 1) % Wrap
      BY <1>3, <2>2, EpochClock
    <2>5. /\ e1.seen = Two(e.seen + (IF enable /\ PinEdge THEN 1 ELSE 0))
          /\ e1.at = IF enable /\ PinEdge THEN ticks ELSE e.at
          /\ e1.apart = IF enable /\ PinEdge THEN (ticks - e.at) % Wrap ELSE e.apart
      BY <1>1, <1>3, EpochIs
    <2>6. /\ e.seen \in 0 .. 2 /\ e.at \in Int /\ e.apart \in 0 .. Wrap - 1 /\ e.apart \in Int
          /\ ticks \in Int /\ lastTick \in Int /\ filter \in Int /\ k \in Int
      BY DEF WatchOK, TypeOK, Filters
    <2>7. e.seen >= 1 =>
            /\ a => Alike(ticks, e.at + 1)
            /\ b => Alike(ticks, e.at + 2 + k)
            /\ (a \/ b) /\ e.seen = 2 =>
                 lastValid /\ Alike(lastTick, e.at - e.apart + filter + 2)
            /\ ~(a \/ b) => /\ lastValid /\ Alike(lastTick, e.at + filter + 2)
                            /\ e.seen = 2 => period = e.apart
      BY <2>2, <2>3, Zenon DEF Timed
    <2> HIDE DEF a, b, a1, b1, e, e1, k, k1
    <2>8. CASE PinEdge
      <3>1. e1.at = ticks /\ e1.apart = (ticks - e.at) % Wrap /\ a1 /\ ~a /\ ~b1
        BY <2>2, <2>3, <2>5, <2>8
      <3>2. Alike(ticks', ticks + 1)
        BY <2>4, <2>6, TimesAre
      <3>3. ASSUME e1.seen = 2
            PROVE  lastValid' /\ Alike(lastTick', e1.at - e1.apart + filter + 2)
        <4>1. e.seen >= 1
          BY <2>2, <2>5, <2>6, <2>8, <3>3 DEF Two, UpTo
        <4>2. lastValid' /\ lastTick' \in Int /\ Alike(lastTick', e.at + filter + 2)
          <5>1. CASE b
            <6>1. Edge /\ k = filter /\ Alike(ticks, e.at + 2 + k)
              BY <2>3, <2>7, <2>8, <4>1, <5>1, Zenon
            <6>2. e.at + 2 + filter = e.at + filter + 2
              BY <2>6
            <6> QED BY <2>4, <2>6, <6>1, <6>2
          <5>2. CASE ~b
            BY <2>3, <2>4, <2>6, <2>7, <3>1, <4>1, <5>2
          <5> QED BY <5>1, <5>2
        <4>3. Alike(lastTick', ticks - ((ticks - e.at) % Wrap) + filter + 2)
          BY <2>6, <4>2, TimesAre
        <4> QED BY <3>1, <4>2, <4>3
      <3> QED BY <3>1, <3>2, <3>3 DEF Goal
    <2>9. CASE ~PinEdge
      <3>1. e1.at = e.at /\ e1.apart = e.apart /\ e1.seen = e.seen /\ ~a1 /\ e.seen >= 1
        <4>1. e1.seen = e.seen
          BY <2>5, <2>6, <2>9 DEF Two, UpTo
        <4> QED BY <2>2, <2>3, <2>5, <2>9, <4>1
      <3>2. CASE a
        <4>1. b1 /\ ~b /\ ~Edge /\ k1 = 0 /\ Alike(ticks, e.at + 1)
          BY <2>3, <2>7, <3>1, <3>2, Zenon
        <4>2. Alike(ticks', e.at + 2 + 0)
          BY <2>4, <2>6, <4>1, TimesAre
        <4> QED BY <2>4, <2>7, <3>1, <3>2, <4>1, <4>2 DEF Goal
      <3>3. CASE b /\ ~Edge
        <4>1. b1 /\ k1 = k + 1 /\ Alike(ticks, e.at + 2 + k)
          BY <2>3, <2>7, <3>1, <3>3, Zenon
        <4>2. Alike(ticks', e.at + 2 + (k + 1))
          BY <2>4, <2>6, <4>1, TimesAre
        <4> QED BY <2>4, <2>7, <3>1, <3>3, <4>1, <4>2 DEF Goal
      <3>4. CASE Edge
        <4>1. b /\ ~b1 /\ Alike(ticks, e.at + 2 + filter) /\ lastTick' = ticks /\ lastValid'
              /\ period' = PeriodNext
          BY <2>3, <2>4, <2>7, <3>1, <3>4
        <4>2. e.at + 2 + filter = e.at + filter + 2
          BY <2>6
        <4>3. ASSUME e.seen = 2 PROVE period' = e.apart
          <5>1. lastValid /\ Alike(lastTick, e.at - e.apart + filter + 2)
            BY <2>7, <3>1, <4>1, <4>3
          <5>2. (ticks - lastTick) % Wrap = e.apart
            BY <2>6, <4>1, <5>1, TimesAre
          <5> QED BY <4>1, <5>1, <5>2 DEF PeriodNext
        <4> QED BY <3>1, <4>1, <4>2, <4>3 DEF Goal
      <3>5. CASE ~a /\ ~b
        <4>1. ~b1 /\ ~Edge
          BY <2>3, <3>5, Zenon
        <4> QED BY <2>4, <2>7, <3>1, <3>5, <4>1 DEF Goal
      <3> QED BY <3>2, <3>3, <3>4, <3>5
    <2> QED BY <2>8, <2>9
  <1> QED BY <1>2, <1>3

-----------------------------------------------------------------------------
(* The theorems.                                                           *)

PulseInv == TypeOK /\ HistoryOK /\ EpochInv /\ FilterInv /\ WatchInv

LEMMA InitPulse == Init => PulseInv
  <1> SUFFICES ASSUME Init PROVE PulseInv
    OBVIOUS
  <1>1. select \in Inputs
    BY DEF Init
  <1>2. 0 \in Filters /\ 0 \in 0 .. Wrap - 1 /\ 0 \in 0 .. 0 /\ 0 \in Nat /\ FALSE \in BOOLEAN
    BY DEF Filters
  <1>3. front = [meta |-> FALSE, sync |-> FALSE, filtered |-> FALSE, count |-> 0] /\ filter = 0
    BY DEF Init, ClearFront
  <1>4. front \in [meta : BOOLEAN, sync : BOOLEAN, filtered : BOOLEAN, count : 0 .. filter]
        /\ front.sync = front.filtered
    BY <1>2, <1>3
  <1>5. TypeOK
    BY <1>1, <1>2, <1>4 DEF Init, TypeOK
  <1>6. HistoryOK /\ ~g.old /\ g.acked = 0
    <2>1. PICK clean \in BOOLEAN :
            g = [clean |-> clean, held |-> 0, steady |-> 0, quiet |-> 0, old |-> FALSE,
                 acked |-> 0, epoch |-> NewEpoch]
      BY DEF Init
    <2> QED BY <2>1 DEF HistoryOK
  <1>7. Planned /\ Emptied
    <2>1. writes = <<>> /\ Len(<<>>) = 0
      BY DEF Init
    <2> QED BY <1>6, <2>1 DEF Planned, Emptied
  <1>8. count = g.acked
    BY <1>6 DEF Init
  <1>9. WatchInv
    <2>1. PICK clean \in BOOLEAN :
            g = [clean |-> clean, held |-> 0, steady |-> 0, quiet |-> 0, old |-> FALSE,
                 acked |-> 0, epoch |-> NewEpoch]
      BY DEF Init
    <2>2. /\ g.clean \in BOOLEAN /\ g.held = 0 /\ g.steady = 0 /\ g.quiet = 0
          /\ g.epoch = NewEpoch /\ ~enable
      BY <2>1 DEF Init
    <2>3. 0 \in 0 .. Longest + 3 /\ 0 \in 0 .. Longest + 1 /\ 0 \in 0 .. 2
      BY LongestIs
    <2>4. WatchOK
      BY <1>2, <2>2, <2>3 DEF WatchOK, NewEpoch
    <2>5. Lagging /\ Spaced /\ Settles
      BY <2>2 DEF Lagging, Spaced, Settles
    <2> QED BY <2>2, <2>4, <2>5 DEF WatchInv, Conserved, Timed
  <1> QED BY <1>4, <1>5, <1>6, <1>7, <1>8, <1>9 DEF PulseInv, EpochInv, FilterInv

LEMMA NextPulse == PulseInv /\ [Next]_vars => PulseInv'
  <1>1. ASSUME PulseInv, Next PROVE PulseInv'
    <2>1. TypeOK /\ HistoryOK /\ EpochInv /\ Planned /\ FilterInv
      BY <1>1 DEF PulseInv, EpochInv
    <2>2. PICK w \in AWrite, starts \in BOOLEAN : Clocked(w, starts) /\ Goes(w, starts)
      BY <1>1, <2>1, NextGoes
    <2>3. TypeOK' /\ HistoryOK'
      BY <2>1, <2>2, TypeStep
    <2>4. Planned'
      BY <2>1, <2>2, PlannedStep
    <2>5. Emptied'
      BY <2>1, <2>2, EmptiedStep
    <2>6. ~pending' => count' = g'.acked
      BY <2>1, <2>2, EpochStep
    <2>7. FilterInv'
      BY <2>1, <2>2, FilterStep
    <2>8. WatchOK /\ Lagging /\ Spaced /\ Settles /\ Conserved /\ Timed
      BY <1>1 DEF PulseInv, WatchInv
    <2>9. WatchOK' /\ Lagging' /\ Spaced' /\ Settles'
      BY <2>1, <2>2, <2>8, WatchOKStep, LaggingStep, SpacedStep, SettlesStep
    <2>10. Conserved' /\ Timed'
      BY <2>1, <2>2, <2>8, ConservedStep, TimedStep
    <2> QED BY <2>3, <2>4, <2>5, <2>6, <2>7, <2>9, <2>10 DEF PulseInv, EpochInv, WatchInv
  <1>2. ASSUME PulseInv, UNCHANGED vars PROVE PulseInv'
    <2>1. UNCHANGED <<pin, ticks, enable, falling, select, filter, front, pending, lastValid,
                      count, period, lastTick, writes, g>>
      BY <1>2 DEF vars, regs
    <2> QED BY <1>2, <2>1
            DEF PulseInv, TypeOK, HistoryOK, EpochInv, Planned, Emptied, FilterInv, WatchInv,
                WatchOK, Lagging, Spaced, Settles, Conserved, Timed, InFlight, Turns
  <1> QED BY <1>1, <1>2

\* PULSE0 keeps to its registers, whatever calls come in whatever clocks.
THEOREM PulseInductive == Spec => []PulseInv
  BY InitPulse, NextPulse, PTL DEF Spec

\* No edge goes by unannounced, also in the clock of an acknowledgement; and a
\* configuration returns with an epoch of its own.
THEOREM EpochsAreTold == Spec => []EpochIsTold
  <1>1. PulseInv => EpochIsTold
    <2>1. Len(<<>>) = 0
      OBVIOUS
    <2> QED BY <2>1 DEF PulseInv, EpochInv, Emptied, EpochIsTold
  <1> QED BY <1>1, PulseInductive, PTL

\* A level that stays is accepted in the time of the filter, and no other is.
THEOREM StableLevelsCount == Spec => []OnlyStableLevels
  <1>1. PulseInv => OnlyStableLevels
    <2> SUFFICES ASSUME PulseInv PROVE OnlyStableLevels
      OBVIOUS
    <2>1. filter \in Nat /\ front.count \in 0 .. filter
      BY DEF PulseInv, TypeOK, Filters
    <2>2. g.steady \in Nat /\ g.quiet \in Nat
      BY DEF PulseInv, HistoryOK
    <2>3. FilterInv
      BY DEF PulseInv
    <2> QED BY <2>1, <2>2, <2>3 DEF FilterInv, OnlyStableLevels, Accepts
  <1> QED BY <1>1, PulseInductive, PTL

\* On a pin that holds its levels for the filter COUNT and PERIOD are those of
\* the pin, whatever acknowledgements, clears and configurations come between.
THEOREM CleanPinCounts == Spec => []CountsThePin
  <1>1. PulseInv => CountsThePin
    <2> SUFFICES ASSUME PulseInv, g.clean, enable, g.held > filter + 2
                 PROVE  /\ g.epoch.surplus \in 0 .. 1
                        /\ g.epoch.seen = 2 => period = g.epoch.apart
      BY DEF CountsThePin
    <2>1. TypeOK /\ HistoryOK /\ FilterInv /\ WatchInv
      BY DEF PulseInv
    <2>2. filter \in Nat /\ front.count \in 0 .. filter /\ g.steady \in Nat /\ g.quiet \in Nat
          /\ g.held \in Int
      BY <2>1 DEF TypeOK, Filters, HistoryOK, WatchInv, WatchOK
    <2>3. CASE g.quiet <= filter
      <3>1. g.epoch.surplus = 0 /\ g.epoch.seen = 0
        BY <2>1, <2>3 DEF WatchInv, Settles, NewEpoch
      <3> QED BY <3>1
    <2>4. CASE g.quiet > filter
      <3>1. front.meta = pin[select] /\ front.sync = pin[select] /\ g.steady > filter
        BY <2>1, <2>2 DEF WatchInv, Lagging
      <3>2. front.sync = front.filtered
        BY <2>2, <2>4, <3>1, <2>1 DEF FilterInv
      <3>3. ~InFlight
        BY <3>1, <3>2 DEF InFlight, Turns
      <3>4. g.epoch.surplus \in 0 .. 1
        BY <2>1, <3>3 DEF WatchInv, Conserved
      <3>5. g.epoch.seen = 2 => period = g.epoch.apart
        BY <2>1, <3>3 DEF WatchInv, Timed
      <3> QED BY <3>4, <3>5
    <2> QED BY <2>2, <2>3, <2>4
  <1> QED BY <1>1, PulseInductive, PTL
=============================================================================
