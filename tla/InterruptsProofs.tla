--------------------------- MODULE InterruptsProofs ---------------------------
(***************************************************************************)
(* The safety of the interrupt path for any set of sources; and of the     *)
(* inputs of GPIO0, an edge-triggered source, for any port, any depths of  *)
(* the filters and any sequence of the SDK's calls.  No property below     *)
(* needs fairness.                                                         *)
(***************************************************************************)
EXTENDS Interrupts, Gpio, TLAPS

\* Where the handler of the example serves TIMER0, and which sources can no
\* longer be asserted at each of its points.
Silenced ==
  /\ pc \in {"stop", "consume", "ackTimer"} => Timer \in told
  /\ pc \in {"consume", "ackTimer"} => Timer \notin irqOn
  /\ pc \in {"clear", "ackOthers"} => told \cap enable = {}
  /\ pc = "return" => \/ told \cap enable = {}
                      \/ told \subseteq {Timer} /\ Timer \notin irqOn \cup pending \cup forced

\* A source the handler was told of is asserted only until that handler
\* returns; told of it twice, it is not even latched.
Echo ==
  \A s \in Sources :
    /\ entries[s] =< 2
    /\ entries[s] >= 1 => s \notin Active \/ (pc # "main" /\ s \in told)
    /\ entries[s] = 2 => s \notin Active /\ s \notin latch

Clauses == TypeOK /\ Silenced /\ Echo

-----------------------------------------------------------------------------
(* Every step is a clock: what each of them does to what is counted.       *)

\* One clock of a step that is not an entry.
LEMMA EchoClock ==
  ASSUME TypeOK, Echo, Clock, TypeOK',
         \A s \in Sources : pc # "main" /\ s \in told =>
            s \notin Active \/ (pc' # "main" /\ s \in told')
  PROVE  Echo'
<1> SUFFICES ASSUME NEW s \in Sources
             PROVE  /\ entries'[s] =< 2
                    /\ entries'[s] >= 1 => s \notin Active' \/ (pc' # "main" /\ s \in told')
                    /\ entries'[s] = 2 => s \notin Active' /\ s \notin latch'
    BY DEF Echo
<1>1. /\ entries[s] \in Nat /\ entries[s] =< 2
      /\ entries[s] >= 1 => s \notin Active \/ (pc # "main" /\ s \in told)
      /\ entries[s] = 2 => s \notin Active /\ s \notin latch
    BY DEF TypeOK, Echo
<1>2. latch' = latch \cup Active
    BY DEF Clock
<1>3. entries'[s] = IF s \in Active' \ Active THEN 0 ELSE entries[s]
    BY DEF Clock, Count
<1> QED
    BY <1>1, <1>2, <1>3

\* The clock of an entry.
LEMMA EchoEnter ==
  ASSUME TypeOK, Echo, Enter
  PROVE  Echo'
<1> SUFFICES ASSUME NEW s \in Sources
             PROVE  /\ entries'[s] =< 2
                    /\ entries'[s] >= 1 => s \notin Active' \/ (pc' # "main" /\ s \in told')
                    /\ entries'[s] = 2 => s \notin Active' /\ s \notin latch'
    BY DEF Echo
<1>1. /\ entries[s] \in Nat /\ entries[s] =< 2
      /\ entries[s] >= 1 => s \notin Active \/ (pc # "main" /\ s \in told)
      /\ entries[s] = 2 => s \notin Active /\ s \notin latch
    BY DEF TypeOK, Echo
<1>2. pc = "main" /\ pc' # "main" /\ told' = latch /\ latch' = {}
    BY DEF Enter, TypeOK
<1>3. entries'[s] = IF s \in Active' \ Active THEN 0
                    ELSE IF s \in latch THEN entries[s] + 1 ELSE entries[s]
    BY DEF Enter, Count
<1> QED
    BY <1>1, <1>2, <1>3

-----------------------------------------------------------------------------
\* The reset values have their types.
LEMMA TypeInit == Init => TypeOK
  BY DEF Init, TypeOK, Programs, Labels

\* Every step keeps the types.
LEMMA TypeStep == TypeOK /\ [Next]_vars => TypeOK'
<1> SUFFICES ASSUME TypeOK, [Next]_vars PROVE TypeOK'
    OBVIOUS
<1> USE TimerAssumption
<1>0. ASSUME NEW S \in SUBSET Sources, Count(S)
      PROVE  entries' \in [Sources -> Nat]
    BY <1>0 DEF Count, TypeOK
<1>1. Level \in SUBSET Sources /\ Active \in SUBSET Sources
    BY DEF Level, Active, TypeOK
<1>4. ASSUME Clock
      PROVE  latch' \in SUBSET Sources /\ linked' \in Programs
             /\ entries' \in [Sources -> Nat]
    BY <1>0, <1>1, <1>4 DEF Clock, TypeOK
<1> DEFINE SubsetTypes ==
      /\ status \in SUBSET Sources /\ irqOn \in SUBSET Sources
      /\ pending \in SUBSET Sources /\ forced \in SUBSET Sources
      /\ enable \in SUBSET Sources
<1>5. NoAccess => SubsetTypes'
    BY <1>1 DEF NoAccess, Peripherals, Controller, TypeOK
<1>7. CASE Compute
    BY <1>4, <1>5, <1>7 DEF Compute, cpu, TypeOK
<1>8. CASE Enter
  <2>1. /\ active' = TRUE /\ told' = latch /\ latch' = {} /\ latch # {}
        /\ pc' \in {"disable", "stop", "mask"}
        /\ linked' = linked /\ masked' = masked
      BY <1>8 DEF Enter
  <2>2. entries' \in [Sources -> Nat]
      BY <1>0, <1>8 DEF Enter, TypeOK
  <2> QED
      BY <1>5, <1>8, <2>1, <2>2 DEF Enter, TypeOK, Labels
<1>9. CASE HandlerStep
  <2> /\ told \in SUBSET Sources /\ Others \in SUBSET Sources /\ {Timer} \in SUBSET Sources
      /\ enable \ told \in SUBSET Sources /\ irqOn \ {Timer} \in SUBSET Sources
      /\ irqOn \in SUBSET Sources /\ {} \in SUBSET Sources
      BY DEF Others, TypeOK
  <2>1. CASE Disable
      BY <1>1, <1>4, <2>1 DEF Disable, SetEnable, Handler, Peripherals, Controller,
                      TypeOK, Labels
  <2>2. CASE Clear
      BY <1>1, <1>4, <2>2 DEF Clear, Ack, Handler, Peripherals, Controller,
                      TypeOK, Labels
  <2>3. CASE StopTimer
      BY <1>1, <1>4, <2>3 DEF StopTimer, Handler, Peripherals, Controller,
                      TypeOK, Labels
  <2>4. CASE Consume
      BY <1>1, <1>4, <2>4 DEF Consume, Handler, Peripherals, Controller,
                      TypeOK, Labels
  <2>5. CASE AckTimer
      BY <1>1, <1>4, <2>5 DEF AckTimer, Ack, Handler, Peripherals, Controller,
                      TypeOK, Labels
  <2>6. CASE MaskOthers
      BY <1>1, <1>4, <2>6 DEF MaskOthers, SetEnable, Handler, Peripherals, Controller,
                      TypeOK, Labels
  <2>7. CASE AckOthers
      BY <1>1, <1>4, <2>7 DEF AckOthers, Ack, Handler, Peripherals, Controller,
                      TypeOK, Labels
  <2>8. CASE Return
      BY <1>4, <1>5, <2>8 DEF Return, TypeOK, Labels
  <2> QED
      BY <1>9, <2>1, <2>2, <2>3, <2>4, <2>5, <2>6, <2>7, <2>8 DEF HandlerStep
<1>10. CASE MainStep
  <2>1. Clock /\ Main
      BY <1>10 DEF MainStep, CallSetEnable, CallAck, CallForce, CallSetMask,
                   StartPeripheral, PollPeripheral
  <2>2. masked' \in BOOLEAN
      BY <1>10 DEF MainStep, CallSetEnable, CallAck, CallForce, CallSetMask,
                   StartPeripheral, PollPeripheral, TypeOK
  <2>3. SubsetTypes'
    <3>1. ASSUME NEW bits \in SUBSET Sources,
                 CallSetEnable(bits) \/ CallAck(bits) \/ CallForce(bits)
          PROVE  SubsetTypes'
        BY <1>1, <3>1 DEF CallSetEnable, CallAck, CallForce, SetEnable, Ack, Raise,
                          Peripherals, Controller, TypeOK
    <3>2. ASSUME NEW all \in BOOLEAN, CallSetMask(all)
          PROVE  SubsetTypes'
        BY <1>5, <3>2 DEF CallSetMask
    <3>3. ASSUME NEW s \in Sources, StartPeripheral(s) \/ PollPeripheral(s)
          PROVE  SubsetTypes'
        BY <1>1, <3>3 DEF StartPeripheral, PollPeripheral, Peripherals, Controller, TypeOK
    <3> QED
        BY <1>10, <3>1, <3>2, <3>3 DEF MainStep
  <2> QED
      BY <1>4, <2>1, <2>2, <2>3 DEF Main, TypeOK
<1>11. CASE UNCHANGED vars
    BY <1>11 DEF vars, periphs, cpu, TypeOK
<1> QED
    BY <1>7, <1>8, <1>9, <1>10, <1>11 DEF Next

-----------------------------------------------------------------------------
\* No handler runs at reset.
LEMMA SilencedInit == Init => Silenced
  BY DEF Init, Silenced

\* Interrupt accesses by the main program cannot disturb a handler; a handler's
\* own accesses only remove, and what they removed stays removed.
LEMMA SilencedStep == TypeOK /\ Silenced /\ [Next]_vars => Silenced'
<1> SUFFICES ASSUME TypeOK, Silenced, [Next]_vars PROVE Silenced'
    OBVIOUS
<1>1. CASE Compute
    BY <1>1 DEF Compute, NoAccess, Peripherals, Controller, Level, cpu, Silenced
<1>2. CASE Enter
  <2>1. told' = latch /\ pc' = IF linked = "weak" THEN "disable"
                                ELSE IF Timer \in latch THEN "stop" ELSE "mask"
      BY <1>2 DEF Enter
  <2> QED
      BY <2>1 DEF Silenced
<1>3. CASE HandlerStep
  <2> USE DEF Silenced, Handler, Peripherals, Controller, Level
  <2>1. CASE Disable
      BY <2>1 DEF Disable, SetEnable
  <2>2. CASE Clear
      BY <2>2 DEF Clear, Ack
  <2>3. CASE StopTimer
      BY <2>3 DEF StopTimer
  <2>4. CASE Consume
      BY <2>4 DEF Consume
  <2>5. CASE AckTimer
    <3>1. /\ pc = "ackTimer" /\ pc' = IF Others # {} THEN "mask" ELSE "return"
          /\ irqOn' = irqOn /\ enable' = enable /\ told' = told
          /\ pending' = (pending \ {Timer}) \cup (status \cap irqOn)
          /\ forced' = (forced \ {Timer}) \cup {}
        BY <2>5 DEF AckTimer, Ack
    <3>2. pc' = "return" => told' \subseteq {Timer}
        BY <3>1 DEF Others
    <3> QED
        BY <3>1, <3>2
  <2>6. CASE MaskOthers
      BY <2>6 DEF MaskOthers, SetEnable
  <2>7. CASE AckOthers
      BY <2>7 DEF AckOthers, Ack
  <2>8. CASE Return
      BY <2>8 DEF Return
  <2> QED
      BY <1>3, <2>1, <2>2, <2>3, <2>4, <2>5, <2>6, <2>7, <2>8 DEF HandlerStep
<1>4. CASE MainStep
  <2> pc = "main" /\ pc' = pc
      BY <1>4 DEF MainStep, Main, CallSetEnable, CallAck, CallForce, CallSetMask,
                  StartPeripheral, PollPeripheral
  <2> QED
      BY DEF Silenced
<1>5. CASE UNCHANGED vars
    BY <1>5 DEF vars, periphs, cpu, Silenced
<1> QED
    BY <1>1, <1>2, <1>3, <1>4, <1>5 DEF Next

\* What the handler has silenced when it returns is all it was told of.
LEMMA QuietFromSilenced == Silenced => ReturnIsQuiet
<1> SUFFICES ASSUME Silenced, pc = "return", NEW s \in told, s \in Active PROVE FALSE
    BY DEF ReturnIsQuiet
<1>1. CASE told \cap enable = {}
    BY <1>1 DEF Active
<1>2. CASE told \subseteq {Timer} /\ Timer \notin irqOn \cup pending \cup forced
    BY <1>2 DEF Active, Level
<1>3. \/ told \cap enable = {}
      \/ told \subseteq {Timer} /\ Timer \notin irqOn \cup pending \cup forced
    BY DEF Silenced
<1> QED
    BY <1>1, <1>2, <1>3

\* Nothing has been told at reset.
LEMMA EchoInit == Init => Echo
<1> SUFFICES ASSUME Init, NEW s \in Sources
             PROVE  /\ entries[s] =< 2
                    /\ entries[s] >= 1 => s \notin Active \/ (pc # "main" /\ s \in told)
                    /\ entries[s] = 2 => s \notin Active /\ s \notin latch
    BY DEF Echo
<1>1. entries[s] \in Nat /\ entries[s] = 0
    BY DEF Init
<1> QED
    BY <1>1

\* Every step keeps the count of echoes.
LEMMA EchoStep == TypeOK /\ Silenced /\ Echo /\ [Next]_vars => Echo'
<1> SUFFICES ASSUME TypeOK, Silenced, Echo, [Next]_vars PROVE Echo'
    OBVIOUS
<1> TypeOK'
    BY TypeStep
<1>1. CASE Enter
    BY <1>1, EchoEnter
<1>2. CASE Clock /\ pc' = pc /\ told' = told
    BY <1>2, EchoClock
<1>3. CASE HandlerStep
  <2>1. Clock
      BY <1>3 DEF HandlerStep, Disable, Clear, StopTimer, Consume, AckTimer, MaskOthers,
                  AckOthers, Return, Handler
  <2>2. CASE Return
    <3> \A s \in Sources : s \in told => s \notin Active
        BY <2>2, QuietFromSilenced DEF ReturnIsQuiet, Return
    <3> QED
        BY <2>1, EchoClock
  <2>3. CASE ~Return
    <3> told' = told /\ pc' # "main"
        BY <1>3, <2>3 DEF HandlerStep, Disable, Clear, StopTimer, Consume, AckTimer,
                          MaskOthers, AckOthers, Handler
    <3> QED
        BY <2>1, EchoClock
  <2> QED
      BY <2>2, <2>3
<1>4. CASE Compute \/ MainStep
    BY <1>2, <1>4 DEF Compute, cpu, MainStep, Main, CallSetEnable, CallAck, CallForce,
                      CallSetMask, StartPeripheral, PollPeripheral
<1>5. CASE UNCHANGED vars
  <2> UNCHANGED <<pending, status, irqOn, forced, enable, latch, pc, told, entries>>
      BY <1>5 DEF vars, periphs, cpu
  <2> QED
      BY DEF Echo, Active, Level
<1> QED
    BY <1>1, <1>3, <1>4, <1>5 DEF Next

-----------------------------------------------------------------------------
\* Registers, latches and the handler's mode have their types, and the handler
\* of omcu_irq.S is always told of some source.
THEOREM InterruptTypes == Spec => []TypeOK
<1> QED
    BY TypeInit, TypeStep, PTL DEF Spec

\* The inductive invariant behind the theorems.
LEMMA ClausesInvariant == Spec => []Clauses
<1>1. Init => Clauses
    BY TypeInit, SilencedInit, EchoInit DEF Clauses
<1>2. Clauses /\ [Next]_vars => Clauses'
    BY TypeStep, SilencedStep, EchoStep DEF Clauses
<1> QED
    BY <1>1, <1>2, PTL DEF Spec

\* When a handler returns, what it was told of is no longer asserted to the CPU.
THEOREM HandlersReturnQuiet == Spec => []ReturnIsQuiet
<1>1. Clauses => ReturnIsQuiet
    BY QuietFromSilenced DEF Clauses
<1> QED
    BY <1>1, ClausesInvariant, PTL

\* However many sources there are, whichever handler is linked and whatever the
\* main program does: at most two entries for one activation of a source.
THEOREM NoInterruptStorm == Spec => []NoStorm
<1>1. Clauses => NoStorm
    BY DEF Clauses, Echo, NoStorm
<1> QED
    BY <1>1, ClausesInvariant, PTL

\* No step of a handler silences a source the handler was not told of.
THEOREM HandlersKeepOthers == Spec => UntoldIsKept
<1> DEFINE Keeps == pc # "main" => Active \ Active' \subseteq told
<1>1. Clauses /\ [Next]_vars => [Keeps]_vars
  <2> SUFFICES ASSUME Clauses, Next, pc # "main" PROVE Active \ Active' \subseteq told
      BY DEF Clauses
  <2>1. TypeOK /\ Silenced
      BY DEF Clauses
  <2> USE DEF Active, Level, Peripherals, Controller, Handler
  <2>2. CASE Compute
      BY <2>2 DEF Compute, NoAccess
  <2>3. CASE Enter
      BY <2>1, <2>3 DEF Enter, TypeOK
  <2>4. CASE Disable \/ Clear
      BY <2>4 DEF Disable, Clear, SetEnable, Ack
  <2>5. CASE StopTimer \/ Consume
      BY <2>5 DEF StopTimer, Consume
  <2>6. CASE AckTimer
    <3> Timer \in told
        BY <2>1, <2>6 DEF AckTimer, Silenced
    <3> QED
        BY <2>6 DEF AckTimer, Ack
  <2>7. CASE MaskOthers \/ AckOthers
      BY <2>7 DEF MaskOthers, AckOthers, SetEnable, Ack, Others
  <2>8. CASE Return
      BY <2>8 DEF Return, NoAccess
  <2>9. CASE MainStep
      BY <2>9 DEF MainStep, Main, CallSetEnable, CallAck, CallForce, CallSetMask,
                  StartPeripheral, PollPeripheral
  <2> QED
      BY <2>2, <2>3, <2>4, <2>5, <2>6, <2>7, <2>8, <2>9 DEF Next, HandlerStep
<1> QED
    BY <1>1, ClausesInvariant, PTL DEF Spec, UntoldIsKept

-----------------------------------------------------------------------------
(* GPIO0: the calls.                                                       *)

\* What is left of a call that is not yet over.
Ending(t) ==
  \/ t = <<>>
  \/ \E n \in Cycles : t \in {ConfigureFilter(n), <<Access("filter_cycles", n)>>}
  \/ \E m \in SUBSET Pins, d \in Depths :
       t \in {ConfigureIndependent(m, d), <<Access("filter_mask", m), Access("filter_ctrl", d)>>,
              <<Access("filter_ctrl", d)>>}
  \/ \E m \in SUBSET Pins : t \in {SetFilterMask(m), Acknowledge(m)}
  \/ \E r \in SUBSET Pins, f \in SUBSET Pins, o \in BOOLEAN :
       t \in {SnapshotArm(r, f, o),
              <<Access("snapshot_status", {}), Access("rise_en", r), Access("fall_en", f),
                Access("snapshot_ctrl", Ctrl(o))>>,
              <<Access("rise_en", r), Access("fall_en", f), Access("snapshot_ctrl", Ctrl(o))>>,
              <<Access("fall_en", f), Access("snapshot_ctrl", Ctrl(o))>>,
              <<Access("snapshot_ctrl", Ctrl(o))>>}
  \/ t \in {SnapshotClear, SnapshotRead, <<Access("read_field", {}), Access("read_field", {})>>,
            <<Access("read_field", {})>>}

\* An access within the ranges of its register.
InRange(w) ==
  /\ w.reg = "filter_ctrl" => w.value \in Depths \cup {Shared}
  /\ w.reg = "filter_cycles" => w.value \in Cycles
  /\ w.reg \in {"filter_mask", "rise_en", "fall_en"} => w.value \in SUBSET Pins

ReadRegs == {"read_status", "read_field"}

\* A snapshot_arm is recognised by its last write, a snapshot_read by its next.
Arming(t)  == t # <<>> /\ t[Len(t)].reg = "snapshot_ctrl"
Fetching(t) == t # <<>> /\ t[1].reg = "read_field"

\* The accesses of snapshot_arm, by how many are left.
ArmReg == <<"snapshot_ctrl", "fall_en", "rise_en", "snapshot_status", "snapshot_ctrl">>

\* The beginning and the rest of what is left of a call.
EndingFacts(t) ==
  /\ Len(t) \in 1 .. 5 /\ Head(t) = t[1] /\ Ending(Tail(t)) /\ InRange(t[1])
  /\ Len(Tail(t)) = Len(t) - 1
  /\ \A i \in 1 .. Len(t) - 1 : Tail(t)[i] = t[i + 1]
  /\ Arming(t) => t[1].reg = ArmReg[Len(t)] /\ (Len(t) = 5 => t[1].value = {})
  /\ t[1].reg = "read_status" => Fetching(Tail(t))
  /\ Fetching(Tail(t)) => t[1].reg \in ReadRegs
  /\ Fetching(t) => Tail(t) = <<>> \/ Fetching(Tail(t))
  /\ Len(t) = 1 => Tail(t) = <<>>

\* A call that ends with the access w.
LEMMA LastAccess ==
  ASSUME NEW w, InRange(w), w.reg # "read_status"
  PROVE  EndingFacts(<<w>>)
<1>1. /\ Len(<<w>>) = 1 /\ Head(<<w>>) = <<w>>[1] /\ <<w>>[1] = w /\ Tail(<<w>>) = <<>>
      /\ ArmReg[1] = "snapshot_ctrl" /\ Len(<<>>) = 0
  BY DEF ArmReg
<1>2. Ending(<<>>)
  BY DEF Ending
<1>3. Arming(<<w>>) => w.reg = ArmReg[1]
  BY <1>1 DEF Arming
<1>4. ~Fetching(<<>>)
  BY DEF Fetching
<1> QED BY <1>1, <1>2, <1>3, <1>4 DEF EndingFacts, Fetching

\* A call that goes on with u after the access w.
LEMMA MoreAccesses ==
  ASSUME NEW w, InRange(w), NEW t, NEW u, NEW n \in 1 .. 4,
         Head(t) = w, t[1] = w, Tail(t) = u, Len(t) = n + 1, Len(u) = n,
         \A i \in 1 .. n : u[i] = t[i + 1], Ending(u),
         t[n + 1].reg = "snapshot_ctrl" =>
            w.reg = ArmReg[n + 1] /\ (n = 4 => w.value = {}),
         w.reg \in ReadRegs <=> u[1].reg = "read_field", u # <<>>
  PROVE  EndingFacts(t)
<1>1. Len(t) \in 1 .. 5 /\ Len(t) # 1 /\ Len(u) = Len(t) - 1
  OBVIOUS
<1>2. Arming(t) => t[1].reg = ArmReg[Len(t)] /\ (Len(t) = 5 => t[1].value = {})
  BY DEF Arming
<1>3. \A i \in 1 .. Len(t) - 1 : u[i] = t[i + 1]
  OBVIOUS
<1>4. Fetching(u) <=> w.reg \in ReadRegs
  BY DEF Fetching
<1>5. Fetching(t) => w.reg \in ReadRegs
  BY DEF Fetching, ReadRegs
<1> QED BY <1>1, <1>2, <1>3, <1>4, <1>5 DEF EndingFacts, ReadRegs

\* The next access of a call, and what is left after it.
LEMMA EndingIs ==
  ASSUME NEW t, Ending(t), t # <<>>
  PROVE  EndingFacts(t)
<1>1. ASSUME NEW n \in Cycles, t = ConfigureFilter(n) PROVE EndingFacts(t)
  <2> DEFINE w == Access("filter_ctrl", Shared)
             u == <<Access("filter_cycles", n)>>
  <2>1. /\ Tail(t) = u /\ Len(t) = 1 + 1 /\ Len(u) = 1 /\ Head(t) = w /\ t[1] = w /\ u # <<>>
        /\ t[2] = Access("filter_cycles", n) /\ u[1] = t[2]
    BY <1>1 DEF ConfigureFilter
  <2>2. Ending(u) /\ InRange(w) /\ w.reg \notin ReadRegs /\ t[1 + 1].reg # "snapshot_ctrl"
        /\ u[1].reg # "read_field"
    BY <2>1 DEF Ending, InRange, Access, ReadRegs
  <2> HIDE DEF w, u
  <2> QED BY <2>1, <2>2, MoreAccesses
<1>2. ASSUME NEW n \in Cycles, t = <<Access("filter_cycles", n)>> PROVE EndingFacts(t)
  BY <1>2, LastAccess DEF InRange, Access
<1>3. ASSUME NEW m \in SUBSET Pins, NEW d \in Depths, t = ConfigureIndependent(m, d)
      PROVE  EndingFacts(t)
  <2> DEFINE w == Access("filter_ctrl", Shared)
             u == <<Access("filter_mask", m), Access("filter_ctrl", d)>>
  <2>1. /\ Tail(t) = u /\ Len(t) = 2 + 1 /\ Len(u) = 2 /\ Head(t) = w /\ t[1] = w /\ u # <<>>
        /\ t[2] = Access("filter_mask", m) /\ t[3] = Access("filter_ctrl", d)
        /\ u[1] = t[2] /\ u[2] = t[3]
    BY <1>3 DEF ConfigureIndependent
  <2>2. Ending(u)
    BY Zenon DEF Ending
  <2>4. /\ InRange(w) /\ w.reg \notin ReadRegs /\ t[2 + 1].reg # "snapshot_ctrl"
        /\ u[1].reg # "read_field"
    BY <2>1 DEF InRange, Access, ReadRegs
  <2>3. \A i \in 1 .. 2 : u[i] = t[i + 1]
    BY <2>1
  <2> HIDE DEF w, u
  <2> QED BY <2>1, <2>2, <2>3, <2>4, MoreAccesses
<1>4. ASSUME NEW m \in SUBSET Pins, NEW d \in Depths,
             t = <<Access("filter_mask", m), Access("filter_ctrl", d)>>
      PROVE  EndingFacts(t)
  <2> DEFINE w == Access("filter_mask", m)
             u == <<Access("filter_ctrl", d)>>
  <2>1. /\ Tail(t) = u /\ Len(t) = 1 + 1 /\ Len(u) = 1 /\ Head(t) = w /\ t[1] = w /\ u # <<>>
        /\ t[2] = Access("filter_ctrl", d) /\ u[1] = t[2]
    BY <1>4
  <2>2. Ending(u)
    BY Zenon DEF Ending
  <2>4. /\ InRange(w) /\ w.reg \notin ReadRegs /\ t[1 + 1].reg # "snapshot_ctrl"
        /\ u[1].reg # "read_field"
    BY <2>1 DEF InRange, Access, ReadRegs
  <2> HIDE DEF w, u
  <2> QED BY <2>1, <2>2, <2>4, MoreAccesses
<1>5. ASSUME NEW m \in SUBSET Pins, NEW d \in Depths, t = <<Access("filter_ctrl", d)>>
      PROVE  EndingFacts(t)
  BY <1>5, LastAccess DEF InRange, Access
<1>6. ASSUME NEW m \in SUBSET Pins, t \in {SetFilterMask(m), Acknowledge(m)}
      PROVE  EndingFacts(t)
  BY <1>6, LastAccess DEF InRange, Access, SetFilterMask, Acknowledge
<1>7. ASSUME NEW r \in SUBSET Pins, NEW f \in SUBSET Pins, NEW o \in BOOLEAN
      PROVE  /\ t = SnapshotArm(r, f, o) => EndingFacts(t)
             /\ t = <<Access("snapshot_status", {}), Access("rise_en", r), Access("fall_en", f),
                      Access("snapshot_ctrl", Ctrl(o))>> => EndingFacts(t)
             /\ t = <<Access("rise_en", r), Access("fall_en", f), Access("snapshot_ctrl", Ctrl(o))>>
                  => EndingFacts(t)
             /\ t = <<Access("fall_en", f), Access("snapshot_ctrl", Ctrl(o))>> => EndingFacts(t)
             /\ t = <<Access("snapshot_ctrl", Ctrl(o))>> => EndingFacts(t)
  <2> DEFINE a == Access("snapshot_ctrl", {})
             b == Access("snapshot_status", {})
             c == Access("rise_en", r)
             d == Access("fall_en", f)
             e == Access("snapshot_ctrl", Ctrl(o))
  <2>1. /\ InRange(a) /\ InRange(b) /\ InRange(c) /\ InRange(d) /\ InRange(e)
        /\ a.reg = "snapshot_ctrl" /\ a.value = {} /\ b.reg = "snapshot_status"
        /\ c.reg = "rise_en" /\ d.reg = "fall_en" /\ e.reg = "snapshot_ctrl"
    BY DEF InRange, Access
  <2>2. /\ Ending(<<b, c, d, e>>) /\ Ending(<<c, d, e>>) /\ Ending(<<d, e>>) /\ Ending(<<e>>)
    BY DEF Ending
  <2>3. SnapshotArm(r, f, o) = <<a, b, c, d, e>>
    BY DEF SnapshotArm
  <2>4. /\ ArmReg[1] = "snapshot_ctrl" /\ ArmReg[2] = "fall_en" /\ ArmReg[3] = "rise_en"
        /\ ArmReg[4] = "snapshot_status" /\ ArmReg[5] = "snapshot_ctrl"
    BY DEF ArmReg
  <2> HIDE DEF a, b, c, d, e
  <2>5. EndingFacts(<<a, b, c, d, e>>)
    <3> DEFINE x == <<a, b, c, d, e>>
               u == <<b, c, d, e>>
    <3>1. /\ Tail(x) = u /\ Len(x) = 4 + 1 /\ Len(u) = 4 /\ Head(x) = a /\ x[1] = a /\ u # <<>>
          /\ x[5] = e /\ u[1] = b
      OBVIOUS
    <3>2. \A i \in 1 .. 4 : u[i] = x[i + 1]
      OBVIOUS
    <3>3. Ending(u)
      BY <2>2
    <3> HIDE DEF x, u
    <3>4. x[4 + 1].reg = "snapshot_ctrl" => a.reg = ArmReg[4 + 1] /\ (4 = 4 => a.value = {})
      BY <2>1, <2>4, <3>1
    <3>5. a.reg \in ReadRegs <=> u[1].reg = "read_field"
      BY <2>1, <3>1 DEF ReadRegs
    <3>6. InRange(a) /\ 4 \in 1 .. 4
      BY <2>1
    <3>7. EndingFacts(x)
      BY <3>1, <3>2, <3>3, <3>4, <3>5, <3>6, MoreAccesses
    <3> QED BY <3>7 DEF x
  <2>6. EndingFacts(<<b, c, d, e>>)
    <3> DEFINE x == <<b, c, d, e>>
               u == <<c, d, e>>
    <3>1. /\ Tail(x) = u /\ Len(x) = 3 + 1 /\ Len(u) = 3 /\ Head(x) = b /\ x[1] = b /\ u # <<>>
          /\ x[4] = e /\ u[1] = c
      OBVIOUS
    <3>2. \A i \in 1 .. 3 : u[i] = x[i + 1]
      OBVIOUS
    <3>3. Ending(u)
      BY <2>2
    <3> HIDE DEF x, u
    <3>4. x[3 + 1].reg = "snapshot_ctrl" => b.reg = ArmReg[3 + 1] /\ (3 = 4 => b.value = {})
      BY <2>1, <2>4, <3>1
    <3>5. b.reg \in ReadRegs <=> u[1].reg = "read_field"
      BY <2>1, <3>1 DEF ReadRegs
    <3>6. InRange(b) /\ 3 \in 1 .. 4
      BY <2>1
    <3>7. EndingFacts(x)
      BY <3>1, <3>2, <3>3, <3>4, <3>5, <3>6, MoreAccesses
    <3> QED BY <3>7 DEF x
  <2>7. EndingFacts(<<c, d, e>>)
    <3> DEFINE x == <<c, d, e>>
               u == <<d, e>>
    <3>1. /\ Tail(x) = u /\ Len(x) = 2 + 1 /\ Len(u) = 2 /\ Head(x) = c /\ x[1] = c /\ u # <<>>
          /\ x[3] = e /\ u[1] = d
      OBVIOUS
    <3>2. \A i \in 1 .. 2 : u[i] = x[i + 1]
      OBVIOUS
    <3>3. Ending(u)
      BY <2>2
    <3> HIDE DEF x, u
    <3>4. x[2 + 1].reg = "snapshot_ctrl" => c.reg = ArmReg[2 + 1] /\ (2 = 4 => c.value = {})
      BY <2>1, <2>4, <3>1
    <3>5. c.reg \in ReadRegs <=> u[1].reg = "read_field"
      BY <2>1, <3>1 DEF ReadRegs
    <3>6. InRange(c) /\ 2 \in 1 .. 4
      BY <2>1
    <3>7. EndingFacts(x)
      BY <3>1, <3>2, <3>3, <3>4, <3>5, <3>6, MoreAccesses
    <3> QED BY <3>7 DEF x
  <2>8. EndingFacts(<<d, e>>)
    <3> DEFINE x == <<d, e>>
               u == <<e>>
    <3>1. /\ Tail(x) = u /\ Len(x) = 1 + 1 /\ Len(u) = 1 /\ Head(x) = d /\ x[1] = d /\ u # <<>>
          /\ x[2] = e /\ u[1] = e
      OBVIOUS
    <3>2. \A i \in 1 .. 1 : u[i] = x[i + 1]
      OBVIOUS
    <3>3. Ending(u)
      BY <2>2
    <3> HIDE DEF x, u
    <3>4. x[1 + 1].reg = "snapshot_ctrl" => d.reg = ArmReg[1 + 1] /\ (1 = 4 => d.value = {})
      BY <2>1, <2>4, <3>1
    <3>5. d.reg \in ReadRegs <=> u[1].reg = "read_field"
      BY <2>1, <3>1 DEF ReadRegs
    <3>6. InRange(d) /\ 1 \in 1 .. 4
      BY <2>1
    <3>7. EndingFacts(x)
      BY <3>1, <3>2, <3>3, <3>4, <3>5, <3>6, MoreAccesses
    <3> QED BY <3>7 DEF x
  <2>9. EndingFacts(<<e>>)
    BY <2>1, LastAccess
  <2> QED BY <2>3, <2>5, <2>6, <2>7, <2>8, <2>9 DEF a, b, c, d, e
<1>8. /\ t = SnapshotClear => EndingFacts(t)
      /\ t = SnapshotRead => EndingFacts(t)
      /\ t = <<Access("read_field", {}), Access("read_field", {})>> => EndingFacts(t)
      /\ t = <<Access("read_field", {})>> => EndingFacts(t)
  <2> DEFINE a == Access("read_status", {})
             b == Access("read_field", {})
             c == Access("snapshot_status", {})
  <2>1. /\ InRange(a) /\ InRange(b) /\ InRange(c)
        /\ a.reg = "read_status" /\ b.reg = "read_field" /\ c.reg = "snapshot_status"
    BY DEF InRange, Access
  <2>2. Ending(<<b, b>>) /\ Ending(<<b>>) /\ SnapshotRead = <<a, b, b>> /\ SnapshotClear = <<c>>
    BY DEF Ending, SnapshotRead, SnapshotClear
  <2> HIDE DEF a, b, c
  <2>3. EndingFacts(<<a, b, b>>)
    <3> DEFINE x == <<a, b, b>>
               u == <<b, b>>
    <3>1. /\ Tail(x) = u /\ Len(x) = 2 + 1 /\ Len(u) = 2 /\ Head(x) = a /\ x[1] = a /\ u # <<>>
          /\ x[3] = b /\ u[1] = b
      OBVIOUS
    <3>2. \A i \in 1 .. 2 : u[i] = x[i + 1]
      OBVIOUS
    <3>3. Ending(u)
      BY <2>2
    <3> HIDE DEF x, u
    <3>4. x[2 + 1].reg = "snapshot_ctrl" => a.reg = ArmReg[2 + 1] /\ (2 = 4 => a.value = {})
      BY <2>1, <3>1
    <3>5. a.reg \in ReadRegs <=> u[1].reg = "read_field"
      BY <2>1, <3>1 DEF ReadRegs
    <3>6. InRange(a) /\ 2 \in 1 .. 4
      BY <2>1
    <3>7. EndingFacts(x)
      BY <3>1, <3>2, <3>3, <3>4, <3>5, <3>6, MoreAccesses
    <3> QED BY <3>7 DEF x
  <2>4. EndingFacts(<<b, b>>)
    <3> DEFINE x == <<b, b>>
               u == <<b>>
    <3>1. /\ Tail(x) = u /\ Len(x) = 1 + 1 /\ Len(u) = 1 /\ Head(x) = b /\ x[1] = b /\ u # <<>>
          /\ x[2] = b /\ u[1] = b
      OBVIOUS
    <3>2. \A i \in 1 .. 1 : u[i] = x[i + 1]
      OBVIOUS
    <3>3. Ending(u)
      BY <2>2
    <3> HIDE DEF x, u
    <3>4. x[1 + 1].reg = "snapshot_ctrl" => b.reg = ArmReg[1 + 1] /\ (1 = 4 => b.value = {})
      BY <2>1, <3>1
    <3>5. b.reg \in ReadRegs <=> u[1].reg = "read_field"
      BY <2>1, <3>1 DEF ReadRegs
    <3>6. InRange(b) /\ 1 \in 1 .. 4
      BY <2>1
    <3>7. EndingFacts(x)
      BY <3>1, <3>2, <3>3, <3>4, <3>5, <3>6, MoreAccesses
    <3> QED BY <3>7 DEF x
  <2>5. EndingFacts(<<b>>) /\ EndingFacts(<<c>>)
    BY <2>1, LastAccess
  <2> QED BY <2>2, <2>3, <2>4, <2>5 DEF a, b, c
<1> QED BY <1>1, <1>2, <1>3, <1>4, <1>5, <1>6, <1>7, <1>8 DEF Ending

\* A call of the software, or the next access of one.
AClock(w, force) ==
  /\ Engine(w, force) /\ Record(w, force) /\ pins' \in SUBSET Pins
  /\ \/ /\ w = NoGpioAccess
        /\ todo' = todo \/ (todo = <<>> /\ todo' \in Calls)
     \/ /\ todo # <<>> /\ w = Head(todo)
        /\ todo' = IF w.reg = "read_status" /\ ~snap.valid THEN <<>> ELSE Tail(todo)

\* Every step is a clock with one access or none.
LEMMA GpioSteps ==
  ASSUME Sensible, GpioNext
  PROVE  \E w : \E force \in BOOLEAN : AClock(w, force)
<1>1. \A w : GpioClock(w) => \E force \in BOOLEAN :
                Engine(w, force) /\ Record(w, force) /\ pins' \in SUBSET Pins
  BY DEF GpioClock, Sensible
<1>2. CASE Wait
  <2>1. GpioClock(NoGpioAccess) /\ todo' = todo
    BY <1>2 DEF Wait
  <2>2. PICK force \in BOOLEAN :
          Engine(NoGpioAccess, force) /\ Record(NoGpioAccess, force) /\ pins' \in SUBSET Pins
    BY <1>1, <2>1
  <2>3. AClock(NoGpioAccess, force)
    BY <2>1, <2>2 DEF AClock
  <2> QED BY <2>3
<1>3. CASE Call
  <2>1. GpioClock(NoGpioAccess) /\ todo = <<>> /\ todo' \in Calls
    BY <1>3 DEF Call
  <2>2. PICK force \in BOOLEAN :
          Engine(NoGpioAccess, force) /\ Record(NoGpioAccess, force) /\ pins' \in SUBSET Pins
    BY <1>1, <2>1
  <2>3. AClock(NoGpioAccess, force)
    BY <2>1, <2>2 DEF AClock
  <2> QED BY <2>3
<1>4. CASE DoAccess
  <2>1. /\ GpioClock(Head(todo)) /\ todo # <<>>
        /\ todo' = IF Head(todo).reg = "read_status" /\ ~snap.valid THEN <<>> ELSE Tail(todo)
    BY <1>4 DEF DoAccess
  <2>2. PICK force \in BOOLEAN :
          Engine(Head(todo), force) /\ Record(Head(todo), force) /\ pins' \in SUBSET Pins
    BY <1>1, <2>1
  <2>3. AClock(Head(todo), force)
    BY <2>1, <2>2 DEF AClock
  <2> QED BY <2>3
<1> QED BY <1>2, <1>3, <1>4 DEF GpioNext

\* A call that begins is one of those of the SDK.
LEMMA CallsEnd ==
  ASSUME Sensible, NEW t \in Calls
  PROVE  Ending(t) /\ ~Fetching(t)
<1>1. Ending(t)
  <2>1. \/ t \in {SnapshotClear, SnapshotRead}
        \/ \E n \in Cycles : t = ConfigureFilter(n)
        \/ \E m \in SUBSET Pins, d \in Depths : t = ConfigureIndependent(m, d)
        \/ \E m \in SUBSET Pins : t \in {SetFilterMask(m), Acknowledge(m)}
        \/ \E r \in SUBSET Pins, f \in SUBSET Pins, o \in BOOLEAN : t = SnapshotArm(r, f, o)
    BY DEF Sensible
  <2> QED BY <2>1, Zenon DEF Ending
<1>2. ~Fetching(t)
  <2>1. \A n : ConfigureFilter(n)[1].reg = "filter_ctrl"
    BY DEF ConfigureFilter, Access
  <2>2. \A m, d : ConfigureIndependent(m, d)[1].reg = "filter_ctrl"
    BY DEF ConfigureIndependent, Access
  <2>3. \A m : SetFilterMask(m)[1].reg = "filter_mask" /\ Acknowledge(m)[1].reg = "irq_status"
    BY DEF SetFilterMask, Acknowledge, Access
  <2>4. \A r, f, o : SnapshotArm(r, f, o)[1].reg = "snapshot_ctrl"
    BY DEF SnapshotArm, Access
  <2>5. SnapshotClear[1].reg = "snapshot_status" /\ SnapshotRead[1].reg = "read_status"
    BY DEF SnapshotClear, SnapshotRead, Access
  <2> QED BY <2>1, <2>2, <2>3, <2>4, <2>5 DEF Sensible, Fetching
<1> QED BY <1>1, <1>2

\* The plan of a call, before and after a clock.
LEMMA EndingKept ==
  ASSUME Sensible, Ending(todo), NEW w, NEW force \in BOOLEAN, AClock(w, force)
  PROVE  /\ Ending(todo') /\ InRange(w)
         /\ w.reg = "read_field" => Fetching(todo) /\ (todo' = <<>> \/ Fetching(todo'))
         /\ Fetching(todo') => Fetching(todo) \/ w.reg = "read_status"
         /\ w.reg \notin ReadRegs => (Fetching(todo') <=> Fetching(todo))
         /\ Fetching(todo) => w.reg \in {"none", "read_field"}
         /\ w.reg = "read_status" => ~Fetching(todo) /\ todo # <<>> /\ (Fetching(todo') <=> snap.valid)
<1>1. CASE w = NoGpioAccess /\ todo' = todo
  BY <1>1 DEF NoGpioAccess, Access, InRange, ReadRegs
<1>2. CASE w = NoGpioAccess /\ todo = <<>> /\ todo' \in Calls
  <2>1. Ending(todo') /\ ~Fetching(todo') /\ ~Fetching(todo)
    BY <1>2, CallsEnd DEF Fetching
  <2> QED BY <1>2, <2>1 DEF NoGpioAccess, Access, InRange, ReadRegs
<1>3. CASE /\ todo # <<>> /\ w = Head(todo)
           /\ todo' = IF w.reg = "read_status" /\ ~snap.valid THEN <<>> ELSE Tail(todo)
  <2>1. EndingFacts(todo)
    BY <1>3, EndingIs
  <2>2. Ending(<<>>) /\ ~Fetching(<<>>)
    BY DEF Ending, Fetching
  <2>3. w = todo[1]
    BY <1>3, <2>1 DEF EndingFacts
  <2>4. Fetching(todo) <=> w.reg = "read_field"
    BY <1>3, <2>3 DEF Fetching
  <2> QED BY <1>3, <2>1, <2>2, <2>3, <2>4 DEF EndingFacts, ReadRegs
<1> QED BY <1>1, <1>2, <1>3 DEF AClock

-----------------------------------------------------------------------------
(* GPIO0: types.                                                           *)

HistoryTypes ==
  /\ g.run \in [Pins -> 0 .. Enough] /\ g.since \in 0 .. Enough
  /\ g.untold \in SUBSET Pins /\ g.missed \in BOOLEAN /\ g.stale \in BOOLEAN
  /\ g.read \in [id : Ids, whole : BOOLEAN]

GpioTypes == GpioTypeOK /\ HistoryTypes /\ Ending(todo)

LEMMA DepthsAre ==
  ASSUME Sensible
  PROVE  /\ Deepest \in Nat \ {0} /\ \A d \in Depths : d \in 1 .. Deepest
         /\ Longest \in Nat /\ \A n \in Cycles \cup {0} : n \in 0 .. Longest
         /\ Enough \in Nat /\ Enough >= Deepest /\ Enough >= Longest + 2
         /\ \A n \in Nat : UpTo(n) \in 0 .. Enough /\ UpTo(n) <= n
<1>1. Deepest \in Depths /\ Most(Deepest, Depths)
  BY DEF Sensible, Deepest
<1>2. Longest \in Cycles \cup {0} /\ Most(Longest, Cycles \cup {0})
  BY DEF Sensible, Longest
<1>3. Deepest \in Nat \ {0} /\ \A d \in Depths : d \in Nat \ {0} /\ d <= Deepest
  BY <1>1 DEF Most, Sensible
<1>4. Longest \in Nat /\ \A n \in Cycles \cup {0} : n \in Nat /\ n <= Longest
  BY <1>2 DEF Most, Sensible
<1>5. Enough \in Nat /\ Enough >= Deepest /\ Enough >= Longest + 2
  BY <1>3, <1>4 DEF Enough
<1> HIDE DEF Enough, Deepest, Longest
<1>6. \A n \in Nat : UpTo(n) \in 0 .. Enough /\ UpTo(n) <= n
  BY <1>5 DEF UpTo
<1>7. \A d \in Depths : d \in 1 .. Deepest
  BY <1>3
<1>8. \A n \in Cycles \cup {0} : n \in 0 .. Longest
  BY <1>4
<1> QED BY <1>3, <1>4, <1>5, <1>6, <1>7, <1>8

\* The snapshot after a clock, field by field.
LEMMA SnapIs ==
  ASSUME NEW w, NEW force \in BOOLEAN, AClock(w, force), GpioTypes
  PROVE  /\ snap'.enable = IF w.reg = "snapshot_ctrl" THEN "enable" \in w.value ELSE snap.enable
         /\ snap'.overwrite = IF w.reg = "snapshot_ctrl" THEN "overwrite" \in w.value
                              ELSE snap.overwrite
         /\ snap'.valid = (Captures(force) \/ (snap.valid /\ w.reg # "snapshot_status"))
         /\ snap'.overflow = (Overflows(force) \/ (snap.overflow /\ w.reg # "snapshot_status"))
         /\ snap'.forced = IF Captures(force) THEN force
                           ELSE snap.forced /\ w.reg # "snapshot_status"
         /\ snap'.id = IF Captures(force) THEN (snap.id + 1) % 3 ELSE snap.id
  BY DEF AClock, Engine, SnapNext

\* The history after a clock, field by field.
LEMMA HistoryIs ==
  ASSUME NEW w, NEW force \in BOOLEAN, AClock(w, force)
  PROVE  /\ g'.run = [p \in Pins |-> IF (p \in gpioSync') = (p \in gpioSync) THEN UpTo(g.run[p] + 1) ELSE 0]
         /\ g'.since = IF ConfiguresFilter(w) THEN 0 ELSE UpTo(g.since + 1)
         /\ g'.untold = (IF w.reg = "irq_status" THEN g.untold \ w.value ELSE g.untold) \cup Events
         /\ g'.missed = \/ g.missed /\ w.reg # "snapshot_status"
                        \/ Normal /\ ~Captures(force)
                        \/ force /\ snap.valid
         /\ g'.stale = (snap'.valid /\ ~snap'.forced
                          /\ (g.stale \/ (Len(todo) > 1 /\ todo[Len(todo)].reg = "snapshot_ctrl")))
         /\ g'.read = ReadNext(w, force)
  BY DEF AClock, Record

LEMMA EventsAre ==
  ASSUME GpioTypes
  PROVE  Events \in SUBSET Pins /\ Sampled \in SUBSET Pins
  BY DEF GpioTypes, GpioTypeOK, Events, Sampled

\* The filters keep their types.
LEMMA FilterTypes ==
  ASSUME Sensible, GpioTypes, NEW w, NEW force \in BOOLEAN, AClock(w, force)
  PROVE  /\ gpioFiltered' \in SUBSET Pins /\ sample' \in SUBSET Pins
         /\ filterCtrl' \in Depths \cup {Shared} /\ mask' \in SUBSET Pins
         /\ cycles' \in Cycles \cup {0} /\ stable' \in 0 .. cycles'
         /\ history' \in [1 .. Deepest - 1 -> SUBSET Pins]
<1>1. InRange(w)
  BY EndingKept DEF GpioTypes
<1>2. Filter(w) /\ (cycles' = cycles \/ w.reg = "filter_cycles")
  BY DEF AClock, Engine
<1>3. /\ filterCtrl' \in Depths \cup {Shared} /\ mask' \in SUBSET Pins /\ cycles' \in Cycles \cup {0}
  BY <1>1 DEF AClock, Engine, InRange, GpioTypes, GpioTypeOK
<1>4. cycles \in Nat /\ cycles' \in Nat /\ stable \in 0 .. cycles
  <2>1. Cycles \subseteq Nat
    BY DEF Sensible
  <2>2. cycles \in Cycles \cup {0} /\ stable \in 0 .. cycles
    BY DEF GpioTypes, GpioTypeOK
  <2> QED BY <1>3, <2>1, <2>2
<1>5. Independent \in SUBSET Pins /\ gpioSync \in SUBSET Pins /\ gpioFiltered \in SUBSET Pins
      /\ sample \in SUBSET Pins
  BY DEF Independent, GpioTypes, GpioTypeOK
<1>6. gpioFiltered' \in SUBSET Pins /\ sample' \in SUBSET Pins
  BY <1>2, <1>5 DEF Filter
<1>7. stable' \in 0 .. cycles'
  BY <1>2, <1>4 DEF Filter, ConfiguresFilter
<1>8. history' \in [1 .. Deepest - 1 -> SUBSET Pins]
  <2>1. history \in [1 .. Deepest - 1 -> SUBSET Pins] /\ Deepest \in Nat
    BY DepthsAre DEF GpioTypes, GpioTypeOK
  <2>2. Empty \in [1 .. Deepest - 1 -> SUBSET Pins]
    BY DEF Empty
  <2>3. [i \in 1 .. Deepest - 1 |-> IF i = 1 THEN gpioSync ELSE history[i - 1]]
          \in [1 .. Deepest - 1 -> SUBSET Pins]
    <3> HIDE DEF Deepest
    <3> QED BY <1>5, <2>1
  <2> QED BY <1>2, <2>1, <2>2, <2>3 DEF Filter
<1> QED BY <1>3, <1>6, <1>7, <1>8

LEMMA GpioTypesKept ==
  ASSUME Sensible, GpioTypes, NEW w, NEW force \in BOOLEAN, AClock(w, force)
  PROVE  GpioTypes'
<1>1. Ending(todo') /\ InRange(w)
  BY EndingKept DEF GpioTypes
<1>2. /\ {pins', gpioMeta', gpioSync', previous'} \subseteq SUBSET Pins
      /\ {rise', fall'} \subseteq SUBSET Pins
  BY <1>1, EventsAre DEF AClock, Engine, InRange, GpioTypes, GpioTypeOK
<1>3. irqStatus' \in SUBSET Pins
  BY EventsAre DEF AClock, Engine, StatusNext, GpioTypes, GpioTypeOK
<1>4. snap' \in [enable : BOOLEAN, overwrite : BOOLEAN, valid : BOOLEAN, overflow : BOOLEAN,
                 forced : BOOLEAN, id : Ids]
  <2>1. snap' = SnapNext(w, force)
    BY DEF AClock, Engine
  <2>2. /\ Captures(force) \in BOOLEAN /\ Overflows(force) \in BOOLEAN
        /\ ("enable" \in w.value) \in BOOLEAN /\ ("overwrite" \in w.value) \in BOOLEAN
        /\ {snap.enable, snap.overwrite, snap.valid, snap.overflow, snap.forced} \subseteq BOOLEAN
        /\ snap.id \in Ids /\ (snap.id + 1) % 3 \in Ids
    BY DEF Captures, Overflows, Normal, GpioTypes, GpioTypeOK, Ids
  <2> QED BY <2>1, <2>2, Zenon DEF SnapNext
<1>5. HistoryTypes'
  <2>1. g'.run \in [Pins -> 0 .. Enough]
    <3>1. Enough \in Nat /\ \A p \in Pins : UpTo(g.run[p] + 1) \in 0 .. Enough
      <4>1. Enough \in Nat /\ g.run \in [Pins -> 0 .. Enough]
        BY DepthsAre DEF GpioTypes, HistoryTypes
      <4>2. \A n \in Nat : UpTo(n) \in 0 .. Enough
        BY DepthsAre
      <4> HIDE DEF Enough, UpTo
      <4>3. \A p \in Pins : g.run[p] + 1 \in Nat
        BY <4>1
      <4>4. \A p \in Pins : UpTo(g.run[p] + 1) \in 0 .. Enough
        BY <4>2, <4>3, Zenon
      <4> QED BY <4>1, <4>4
    <3>2. g'.run = [p \in Pins |-> IF (p \in gpioSync') = (p \in gpioSync) THEN UpTo(g.run[p] + 1) ELSE 0]
      BY HistoryIs
    <3>3. 0 \in 0 .. Enough
      BY <3>1
    <3> HIDE DEF UpTo, Enough
    <3> QED BY <3>1, <3>2, <3>3, Zenon
  <2>2. g'.since \in 0 .. Enough
    <3>1. Enough \in Nat /\ g.since \in 0 .. Enough /\ \A n \in Nat : UpTo(n) \in 0 .. Enough
      BY DepthsAre DEF GpioTypes, HistoryTypes
    <3> HIDE DEF Enough, UpTo
    <3>2. UpTo(g.since + 1) \in 0 .. Enough /\ 0 \in 0 .. Enough
      BY <3>1
    <3> QED BY <3>2, HistoryIs
  <2>3. g'.untold \in SUBSET Pins
    BY EventsAre, HistoryIs DEF GpioTypes, HistoryTypes
  <2>4. g'.missed \in BOOLEAN
    BY HistoryIs DEF GpioTypes, HistoryTypes, Normal, GpioTypeOK, Captures
  <2>5. g'.stale \in BOOLEAN
    BY HistoryIs
  <2>6. g'.read \in [id : Ids, whole : BOOLEAN]
    <3>1. g.read \in [id : Ids, whole : BOOLEAN] /\ snap.id \in Ids /\ NoRead \in [id : Ids, whole : BOOLEAN]
      BY DEF GpioTypes, HistoryTypes, GpioTypeOK, NoRead, Ids
    <3>2. [g.read EXCEPT !.whole = @ /\ g.read.id = snap.id] \in [id : Ids, whole : BOOLEAN]
      BY <3>1
    <3>3. [id |-> snap.id, whole |-> TRUE] \in [id : Ids, whole : BOOLEAN]
      BY <3>1
    <3> QED BY <3>1, <3>2, <3>3, HistoryIs, Zenon DEF ReadNext
  <2> QED BY <2>1, <2>2, <2>3, <2>4, <2>5, <2>6 DEF HistoryTypes
<1>6. GpioTypeOK'
  BY <1>2, <1>3, <1>4, FilterTypes DEF GpioTypeOK
<1> QED BY <1>1, <1>5, <1>6 DEF GpioTypes

LEMMA GpioStarts ==
  ASSUME Sensible, GpioInit
  PROVE  GpioTypes
<1>1. Deepest \in Nat \ {0} /\ Enough \in Nat
  BY DepthsAre
<1>2. Empty \in [1 .. Deepest - 1 -> SUBSET Pins]
  BY DEF Empty
<1>3. HistoryTypes
  <2>1. 0 \in 0 .. Enough
    <3> HIDE DEF Enough
    <3> QED BY <1>1
  <2> HIDE DEF Enough
  <2> QED BY <2>1 DEF GpioInit, HistoryTypes, NoRead, Ids
<1>4. GpioTypeOK
  <2> HIDE DEF Deepest
  <2> QED BY <1>2 DEF GpioInit, GpioTypeOK, Ids
<1>5. Ending(todo)
  BY DEF GpioInit, Ending
<1> QED BY <1>3, <1>4, <1>5 DEF GpioTypes

LEMMA GpioTypesStay ==
  ASSUME GpioTypes, UNCHANGED gpioVars
  PROVE  GpioTypes'
<1>1. todo' = todo /\ g' = g /\ inputs' = inputs /\ filter' = filter /\ events' = events
  BY DEF gpioVars
<1>2. GpioTypeOK'
  BY <1>1 DEF GpioTypes, GpioTypeOK, inputs, filter, events
<1>3. HistoryTypes'
  BY <1>1 DEF GpioTypes, HistoryTypes
<1>4. Ending(todo')
  BY <1>1 DEF GpioTypes
<1> QED BY <1>2, <1>3, <1>4 DEF GpioTypes

-----------------------------------------------------------------------------
(* GPIO0: the events and the snapshot.                                     *)

\* How far an arming has come, in terms of the writes it has left.
Armed ==
  /\ g.stale => Arming(todo) /\ Len(todo) >= 4
  /\ Arming(todo) /\ Len(todo) = 4 => ~snap.enable
  /\ Arming(todo) /\ Len(todo) <= 3 => ~snap.enable /\ (snap.valid => snap.forced)

\* What a read has of the snapshot.
Fetched ==
  /\ Fetching(todo) => snap.valid
  /\ Fetching(todo) /\ ~snap.overwrite /\ ~snap.forced => g.read.whole /\ g.read.id = snap.id
  /\ todo # <<>> /\ ~Fetching(todo) => g.read.whole
  /\ ReadIsWhole

SnapshotInv == NothingIsMissed /\ Armed /\ Fetched

LEMMA MissedStep ==
  ASSUME Sensible, GpioTypes, NothingIsMissed, NEW w, NEW force \in BOOLEAN, AClock(w, force)
  PROVE  NothingIsMissed'
<1>1. g'.untold \subseteq irqStatus'
  BY HistoryIs DEF AClock, Engine, StatusNext, NothingIsMissed
<1>2. g'.missed => snap'.overflow
  BY HistoryIs, SnapIs DEF NothingIsMissed, Captures, Overflows
<1> QED BY <1>1, <1>2 DEF NothingIsMissed

LEMMA ArmedStep ==
  ASSUME Sensible, GpioTypes, Armed, NEW w, NEW force \in BOOLEAN, AClock(w, force)
  PROVE  Armed'
<1>1. ~snap.enable => (snap'.valid => (snap.valid /\ w.reg # "snapshot_status" /\ (snap.forced => snap'.forced))
                                         \/ snap'.forced)
  BY SnapIs DEF Captures, Normal
<1>2. g'.stale => /\ snap'.valid /\ ~snap'.forced
                  /\ g.stale \/ (Len(todo) > 1 /\ todo[Len(todo)].reg = "snapshot_ctrl")
  BY HistoryIs
<1>3. w.reg # "snapshot_ctrl" => snap'.enable = snap.enable
  BY SnapIs
<1>4. CASE w = NoGpioAccess /\ (todo' = todo \/ (todo = <<>> /\ todo' \in Calls))
  <2>1. w.reg = "none"
    BY <1>4 DEF NoGpioAccess, Access
  <2>2. CASE todo' = todo
    <3>1. todo = <<>> => Len(todo) = 0
      OBVIOUS
    <3>2. todo # <<>> => Len(todo) \in 1 .. 5
      BY EndingIs DEF GpioTypes, EndingFacts
    <3> QED BY <1>1, <1>2, <1>3, <2>1, <2>2, <3>1, <3>2 DEF Armed, Arming
  <2>3. CASE todo = <<>> /\ todo' \in Calls
    <3>1. ~g.stale /\ Len(todo) = 0
      BY <2>3 DEF Armed, Arming
    <3>2. ~g'.stale
      BY <1>2, <3>1
    <3>3. Arming(todo') => Len(todo') = 5
      <4>1. Sensible /\ todo' \in Calls
        BY <2>3
      <4>2. \A n : ConfigureFilter(n)[2].reg # "snapshot_ctrl" /\ Len(ConfigureFilter(n)) = 2
        BY DEF ConfigureFilter, Access
      <4>3. \A m, d : ConfigureIndependent(m, d)[3].reg # "snapshot_ctrl"
                      /\ Len(ConfigureIndependent(m, d)) = 3
        BY DEF ConfigureIndependent, Access
      <4>4. \A m : /\ SetFilterMask(m)[1].reg # "snapshot_ctrl" /\ Len(SetFilterMask(m)) = 1
                   /\ Acknowledge(m)[1].reg # "snapshot_ctrl" /\ Len(Acknowledge(m)) = 1
        BY DEF SetFilterMask, Acknowledge, Access
      <4>5. \A r, f, o : Len(SnapshotArm(r, f, o)) = 5
        BY DEF SnapshotArm
      <4>6. /\ SnapshotClear[1].reg # "snapshot_ctrl" /\ Len(SnapshotClear) = 1
            /\ SnapshotRead[3].reg # "snapshot_ctrl" /\ Len(SnapshotRead) = 3
        BY DEF SnapshotClear, SnapshotRead, Access
      <4> QED BY <4>1, <4>2, <4>3, <4>4, <4>5, <4>6 DEF Sensible, Arming
    <3> QED BY <3>2, <3>3 DEF Armed
  <2> QED BY <1>4, <2>2, <2>3
<1>5. CASE /\ todo # <<>> /\ w = Head(todo)
           /\ todo' = IF w.reg = "read_status" /\ ~snap.valid THEN <<>> ELSE Tail(todo)
  <2>1. EndingFacts(todo)
    BY <1>5, EndingIs DEF GpioTypes
  <2>2. w = todo[1] /\ Len(todo) \in 1 .. 5
    BY <1>5, <2>1 DEF EndingFacts
  <2>3. /\ ArmReg[1] = "snapshot_ctrl" /\ ArmReg[2] = "fall_en" /\ ArmReg[3] = "rise_en"
        /\ ArmReg[4] = "snapshot_status" /\ ArmReg[5] = "snapshot_ctrl"
    BY DEF ArmReg
  <2>4. CASE Arming(todo)
    <3>1. w.reg = ArmReg[Len(todo)] /\ (Len(todo) = 5 => w.value = {})
      BY <2>1, <2>2, <2>4 DEF EndingFacts
    <3>2. todo' = Tail(todo) /\ Len(todo') = Len(todo) - 1
      BY <1>5, <2>1, <2>2, <2>3, <3>1 DEF EndingFacts
    <3>3. Len(todo) = 5 => ~snap'.enable
      BY <2>3, <3>1, SnapIs
    <3>4. Len(todo) > 1 => todo'[Len(todo')] = todo[Len(todo)]
      BY <2>1, <2>2, <3>2 DEF EndingFacts
    <3>5. Len(todo) = 1 => todo' = <<>>
      BY <2>1, <3>2 DEF EndingFacts
    <3>6. Len(todo) = 4 => ~snap.enable /\ w.reg = "snapshot_status"
      BY <2>3, <2>4, <3>1 DEF Armed
    <3>7. Len(todo) <= 3 => ~snap.enable /\ (snap.valid => snap.forced) /\ w.reg # "snapshot_status"
      BY <2>2, <2>3, <2>4, <3>1 DEF Armed
    <3>8. Len(todo) = 2 \/ Len(todo) = 3 => w.reg # "snapshot_ctrl"
      BY <2>3, <3>1
    <3>9. Len(todo) <= 4 => (snap'.valid => snap'.forced)
      <4>1. Len(todo) <= 4 => Len(todo) <= 3 \/ Len(todo) = 4
        <5> DEFINE n == Len(todo)
        <5>1. n \in 1 .. 5
          BY <2>2
        <5> HIDE DEF n
        <5>2. n <= 4 => n <= 3 \/ n = 4
          BY <5>1
        <5> QED BY <5>2 DEF n
      <4>2. CASE Len(todo) = 4
        BY <1>1, <3>6, <4>2
      <4>3. CASE Len(todo) <= 3
        BY <1>1, <3>7, <4>3
      <4> QED BY <4>1, <4>2, <4>3
    <3>10. g'.stale => Arming(todo') /\ Len(todo') >= 4
      BY <1>2, <2>2, <2>4, <3>2, <3>4, <3>9 DEF Arming
    <3>11. Arming(todo') => Len(todo) > 1
      BY <2>2, <3>5 DEF Arming
    <3>12. Len(todo) \in 2 .. 4 => ~snap'.enable
      <4>1. Len(todo) \in 2 .. 4 => Len(todo) = 4 \/ (Len(todo) <= 3 /\ (Len(todo) = 2 \/ Len(todo) = 3))
        <5> DEFINE n == Len(todo)
        <5>1. n \in 1 .. 5
          BY <2>2
        <5> HIDE DEF n
        <5>2. n \in 2 .. 4 => n = 4 \/ (n <= 3 /\ (n = 2 \/ n = 3))
          BY <5>1
        <5> QED BY <5>2 DEF n
      <4> QED BY <1>3, <3>6, <3>7, <3>8, <4>1
    <3> QED BY <2>2, <3>2, <3>3, <3>9, <3>10, <3>11, <3>12 DEF Armed
  <2>5. CASE ~Arming(todo)
    <3>1. ~g.stale /\ ~(todo[Len(todo)].reg = "snapshot_ctrl")
      BY <1>5, <2>5 DEF Armed, Arming
    <3>2. ~g'.stale
      BY <1>2, <3>1
    <3>3. ~Arming(todo')
      <4>1. CASE Len(todo) = 1 \/ todo' = <<>>
        BY <1>5, <2>1, <4>1 DEF EndingFacts, Arming
      <4>2. CASE Len(todo) > 1 /\ todo' = Tail(todo)
        <5>1. Len(todo') = Len(todo) - 1 /\ todo'[Len(todo')] = todo[Len(todo)]
          BY <2>1, <2>2, <4>2 DEF EndingFacts
        <5> QED BY <3>1, <5>1 DEF Arming
      <4> QED BY <1>5, <2>2, <4>1, <4>2
    <3> QED BY <3>2, <3>3 DEF Armed
  <2> QED BY <2>4, <2>5
<1> QED BY <1>4, <1>5 DEF AClock

LEMMA FetchedStep ==
  ASSUME Sensible, GpioTypes, Fetched, NEW w, NEW force \in BOOLEAN, AClock(w, force)
  PROVE  Fetched'
<1> DEFINE kept == snap.valid /\ ~snap'.overwrite /\ ~snap'.forced
<1>1. /\ w.reg = "read_field" => Fetching(todo)
      /\ Fetching(todo') => Fetching(todo) \/ w.reg = "read_status"
      /\ w.reg \notin ReadRegs => (Fetching(todo') <=> Fetching(todo))
      /\ Fetching(todo) => w.reg \in {"none", "read_field"}
      /\ w.reg = "read_status" => ~Fetching(todo) /\ todo # <<>> /\ (Fetching(todo') <=> snap.valid)
  BY EndingKept DEF GpioTypes
<1>2. w.reg \in {"none", "read_field", "read_status"} =>
        /\ snap'.valid = (snap.valid \/ Captures(force)) /\ snap'.overwrite = snap.overwrite
        /\ snap.valid /\ ~snap'.overwrite /\ ~snap'.forced => ~snap.forced /\ snap'.id = snap.id
  BY SnapIs DEF Captures
<1>3. /\ w.reg = "read_status" => g'.read.whole /\ g'.read.id = snap.id
      /\ w.reg = "read_field" => /\ g'.read.whole = (g.read.whole /\ g.read.id = snap.id)
                                 /\ g'.read.id = g.read.id
      /\ w.reg \notin ReadRegs => g'.read = IF todo = <<>> THEN NoRead ELSE g.read
  <2>1. g'.read = ReadNext(w, force) /\ g.read \in [id : Ids, whole : BOOLEAN]
    BY HistoryIs DEF GpioTypes, HistoryTypes
  <2>2. CASE w.reg = "read_status"
    <3>1. g'.read = [id |-> snap.id, whole |-> TRUE]
      BY <2>1, <2>2, Zenon DEF ReadNext
    <3> QED BY <2>2, <3>1 DEF ReadRegs
  <2>3. CASE w.reg = "read_field"
    <3>1. g'.read = [g.read EXCEPT !.whole = @ /\ g.read.id = snap.id]
      BY <2>1, <2>3, Zenon DEF ReadNext
    <3> QED BY <2>1, <2>3, <3>1 DEF ReadRegs
  <2>4. CASE w.reg \notin ReadRegs
    <3>1. g'.read = IF todo = <<>> THEN NoRead ELSE g.read
      BY <2>1, <2>4 DEF ReadNext, ReadRegs
    <3> QED BY <2>4, <3>1 DEF ReadRegs
  <2> QED BY <2>2, <2>3, <2>4 DEF ReadRegs
<1>4. NoRead.whole
  BY DEF NoRead
<1>5. CASE w.reg = "read_status"
  BY <1>1, <1>2, <1>3, <1>5 DEF Fetched, ReadIsWhole
<1>6. CASE w.reg = "read_field"
  <2>1. Fetching(todo) /\ snap.valid
    BY <1>1, <1>6 DEF Fetched
  <2>2. snap'.valid /\ (~snap'.overwrite /\ ~snap'.forced => g'.read.whole /\ g'.read.id = snap'.id)
    BY <1>2, <1>3, <1>6, <2>1 DEF Fetched
  <2>3. todo' = <<>> \/ Fetching(todo')
    BY <1>6, EndingKept DEF GpioTypes
  <2> QED BY <2>2, <2>3 DEF Fetched, ReadIsWhole
<1>7. CASE w.reg \notin ReadRegs
  <2>1. CASE todo = <<>>
    BY <1>1, <1>3, <1>4, <1>7, <2>1 DEF Fetched, ReadIsWhole, Fetching
  <2>2. CASE Fetching(todo)
    <3>1. w.reg = "none" /\ todo # <<>> /\ g'.read = g.read /\ snap.valid
      BY <1>1, <1>3, <1>7, <2>2 DEF Fetched, Fetching, ReadRegs
    <3> QED BY <1>1, <1>2, <1>7, <2>2, <3>1 DEF Fetched, ReadIsWhole
  <2>3. CASE todo # <<>> /\ ~Fetching(todo)
    BY <1>1, <1>3, <1>7, <2>3 DEF Fetched, ReadIsWhole
  <2> QED BY <2>1, <2>2, <2>3
<1> QED BY <1>5, <1>6, <1>7 DEF ReadRegs

THEOREM SnapshotIsTold == GpioSpec => []SnapshotIsTrue
<1> DEFINE IInv == GpioTypes /\ NothingIsMissed /\ Armed /\ Fetched
<1>0. Sensible
  BY GpioAssumption
<1>1. GpioInit => IInv
  <2> SUFFICES ASSUME GpioInit PROVE IInv
    OBVIOUS
  <2>1. GpioTypes
    BY <1>0, GpioStarts
  <2>2. /\ todo = <<>> /\ ~snap.valid /\ irqStatus = {} /\ g.untold = {} /\ ~g.missed /\ ~g.stale
        /\ g.read.whole
    BY DEF GpioInit, NoRead
  <2> QED BY <2>1, <2>2 DEF NothingIsMissed, Armed, Fetched, ReadIsWhole, Arming, Fetching
<1>2. IInv /\ [GpioNext]_gpioVars => IInv'
  <2> SUFFICES ASSUME IInv, [GpioNext]_gpioVars PROVE IInv'
    OBVIOUS
  <2>1. CASE GpioNext
    <3>1. PICK w : \E force \in BOOLEAN : AClock(w, force)
      BY <2>1, <1>0, GpioSteps
    <3>2. PICK force \in BOOLEAN : AClock(w, force)
      BY <3>1
    <3> QED BY <3>2, <1>0, GpioTypesKept, MissedStep, ArmedStep, FetchedStep
  <2>2. CASE UNCHANGED gpioVars
    <3>1. GpioTypes'
      BY <2>2, GpioTypesStay
    <3>2. todo' = todo /\ snap' = snap /\ irqStatus' = irqStatus /\ g' = g
      BY <2>2 DEF gpioVars, events
    <3> QED BY <3>1, <3>2 DEF NothingIsMissed, Armed, Fetched, ReadIsWhole, Arming, Fetching
  <2> QED BY <2>1, <2>2
<1>3. IInv => SnapshotIsTrue
  <2> SUFFICES ASSUME IInv, todo = <<>> PROVE ~g.stale
    BY DEF SnapshotIsTrue, ArmedIsFresh, Fetched
  <2> QED BY DEF Armed, Arming
<1> QED BY <1>1, <1>2, <1>3, PTL DEF GpioSpec

-----------------------------------------------------------------------------
(* GPIO0: the filters.                                                     *)

\* The whole port has had its level for n clocks, and the filter been left alone.
Steady(n) == g.since >= n /\ \A p \in Pins : g.run[p] >= n

SharedInv ==
  filterCtrl = Shared =>
    /\ \A n \in 1 .. cycles + 1 : Steady(n) => sample = gpioSync /\ (cycles = 0 \/ stable >= n - 1)
    /\ Steady(cycles + 2) => gpioFiltered = gpioSync
    /\ gpioSync = sample => \A p \in Pins : stable <= g.run[p]

\* The history holds the level that each pin has, as far back as it has had it, and
\* the other one before.
HistoryInv ==
  filterCtrl # Shared =>
    \A i \in 1 .. Deepest - 1, p \in Pins : i <= g.since =>
      /\ i <= g.run[p] => (p \in history[i] <=> p \in gpioSync)
      /\ i = g.run[p] + 1 => ~(p \in history[i] <=> p \in gpioSync)

IndependentInv ==
  filterCtrl # Shared =>
    \A p \in mask :
      g.run[p] >= filterCtrl /\ g.since >= filterCtrl => (p \in gpioFiltered <=> p \in gpioSync)

\* The level of a pin after a clock.
LEMMA RunIs ==
  ASSUME Sensible, GpioTypes, NEW w, NEW force \in BOOLEAN, AClock(w, force), NEW p \in Pins
  PROVE  /\ Enough \in Nat /\ g.run[p] \in 0 .. Enough
         /\ \/ (p \in gpioSync' <=> p \in gpioSync) /\ g'.run[p] = UpTo(g.run[p] + 1)
            \/ ~(p \in gpioSync' <=> p \in gpioSync) /\ g'.run[p] = 0
<1>1. Enough \in Nat /\ g.run \in [Pins -> 0 .. Enough]
  BY DepthsAre DEF GpioTypes, HistoryTypes
<1>2. g'.run[p] = IF (p \in gpioSync') = (p \in gpioSync) THEN UpTo(g.run[p] + 1) ELSE 0
  <2>1. g'.run = [q \in Pins |-> IF (q \in gpioSync') = (q \in gpioSync) THEN UpTo(g.run[q] + 1) ELSE 0]
    BY HistoryIs
  <2> HIDE DEF UpTo
  <2> QED BY <2>1
<1> HIDE DEF Enough, UpTo
<1> QED BY <1>1, <1>2

\* The time since the filter was configured, after a clock.
LEMMA SinceIs ==
  ASSUME Sensible, GpioTypes, NEW w, NEW force \in BOOLEAN, AClock(w, force)
  PROVE  /\ g.since \in 0 .. Enough
         /\ \/ ConfiguresFilter(w) /\ g'.since = 0
            \/ /\ ~ConfiguresFilter(w) /\ g'.since = UpTo(g.since + 1)
               /\ filterCtrl' = filterCtrl /\ mask' = mask /\ cycles' = cycles
<1>1. g.since \in 0 .. Enough
  BY DEF GpioTypes, HistoryTypes
<1>2. g'.since = IF ConfiguresFilter(w) THEN 0 ELSE UpTo(g.since + 1)
  BY HistoryIs
<1>3. ~ConfiguresFilter(w) => filterCtrl' = filterCtrl /\ mask' = mask /\ cycles' = cycles
  BY DEF AClock, Engine, ConfiguresFilter
<1> QED BY <1>1, <1>2, <1>3

\* What the bound of the history variables does to one clock more.
LEMMA OneMore ==
  ASSUME Sensible, NEW k \in 0 .. Enough
  PROVE  UpTo(k + 1) \in 0 .. Enough /\ (UpTo(k + 1) = k + 1 \/ (UpTo(k + 1) = Enough /\ k = Enough))
<1>1. Enough \in Nat
  BY DepthsAre
<1> HIDE DEF Enough
<1> QED BY <1>1 DEF UpTo

\* A port that is steady was so before.
LEMMA SteadyBefore ==
  ASSUME Sensible, GpioTypes, NEW w, NEW force \in BOOLEAN, AClock(w, force),
         NEW n \in Nat \ {0}, g'.since >= n, \A p \in Pins : g'.run[p] >= n
  PROVE  /\ Steady(n - 1) /\ gpioSync' = gpioSync /\ ~ConfiguresFilter(w)
         /\ filterCtrl' = filterCtrl /\ cycles' = cycles
<1>1. g'.since >= n /\ \A p \in Pins : g'.run[p] >= n
  OBVIOUS
<1>2. Enough \in Nat
  BY DepthsAre
<1>3. /\ ~ConfiguresFilter(w) /\ filterCtrl' = filterCtrl /\ cycles' = cycles
      /\ g.since >= n - 1
  <2>1. ~(g'.since = 0)
    BY <1>1
  <2>2. g'.since = UpTo(g.since + 1) /\ g.since \in 0 .. Enough /\ ~ConfiguresFilter(w)
        /\ filterCtrl' = filterCtrl /\ cycles' = cycles
    BY <2>1, SinceIs
  <2>3. UpTo(g.since + 1) \in 0 .. Enough /\ UpTo(g.since + 1) <= g.since + 1
    <3>1. UpTo(g.since + 1) \in 0 .. Enough
          /\ (UpTo(g.since + 1) = g.since + 1 \/ (UpTo(g.since + 1) = Enough /\ g.since = Enough))
      BY <2>2, OneMore
    <3> HIDE DEF UpTo, Enough
    <3> QED BY <1>2, <2>2, <3>1
  <2> HIDE DEF UpTo, Enough
  <2> QED BY <1>1, <1>2, <2>2, <2>3
<1>4. ASSUME NEW p \in Pins PROVE g.run[p] >= n - 1 /\ (p \in gpioSync' <=> p \in gpioSync)
  <2>1. ~(g'.run[p] = 0)
    BY <1>1
  <2>2. g'.run[p] = UpTo(g.run[p] + 1) /\ g.run[p] \in 0 .. Enough /\ (p \in gpioSync' <=> p \in gpioSync)
    BY <2>1, RunIs
  <2>3. UpTo(g.run[p] + 1) \in 0 .. Enough
        /\ (UpTo(g.run[p] + 1) = g.run[p] + 1 \/ (UpTo(g.run[p] + 1) = Enough /\ g.run[p] = Enough))
    BY <2>2, OneMore
  <2> HIDE DEF UpTo, Enough
  <2> QED BY <1>1, <1>2, <2>2, <2>3
<1>5. gpioSync' = gpioSync
  <2>1. gpioSync \in SUBSET Pins /\ gpioSync' \in SUBSET Pins
    BY GpioTypesKept DEF GpioTypes, GpioTypeOK
  <2> QED BY <1>4, <2>1
<1> QED BY <1>3, <1>4, <1>5 DEF Steady

LEMMA SharedStep ==
  ASSUME Sensible, GpioTypes, SharedInv, NEW w, NEW force \in BOOLEAN, AClock(w, force)
  PROVE  SharedInv'
<1> SUFFICES ASSUME filterCtrl' = Shared
             PROVE  /\ \A n \in 1 .. cycles' + 1 : Steady(n)' =>
                          sample' = gpioSync' /\ (cycles' = 0 \/ stable' >= n - 1)
                    /\ Steady(cycles + 2)' => gpioFiltered' = gpioSync'
                    /\ gpioSync' = sample' => \A p \in Pins : stable' <= g'.run[p]
  BY DEF SharedInv
<1>1. Filter(w)
  BY DEF AClock, Engine
<1>2. cycles \in Nat /\ cycles' \in Nat /\ stable \in 0 .. cycles /\ cycles + 2 <= Enough
      /\ Enough \in Nat
  <2>1. Cycles \subseteq Nat
    BY DEF Sensible
  <2>2. cycles \in Cycles \cup {0} /\ stable \in 0 .. cycles /\ cycles' \in Cycles \cup {0}
    BY GpioTypesKept DEF GpioTypes, GpioTypeOK
  <2>3. Enough \in Nat /\ Longest \in Nat /\ Enough >= Longest + 2 /\ cycles \in 0 .. Longest
    BY <2>2, DepthsAre
  <2> HIDE DEF Enough, Longest
  <2> QED BY <2>1, <2>2, <2>3
<1>3. ASSUME ~ConfiguresFilter(w)
      PROVE  /\ filterCtrl = Shared /\ cycles' = cycles
             /\ \/ cycles = 0 /\ gpioFiltered' = gpioSync /\ sample' = gpioSync /\ stable' = 0
                \/ cycles # 0 /\ gpioSync # sample /\ sample' = gpioSync /\ stable' = 0
                \/ cycles # 0 /\ gpioSync = sample /\ stable # cycles /\ stable' = stable + 1
                   /\ sample' = sample
                \/ cycles # 0 /\ gpioSync = sample /\ stable = cycles /\ gpioFiltered' = gpioSync
                   /\ sample' = sample /\ stable' = stable
  <2>1. filterCtrl = Shared /\ cycles' = cycles
    BY <1>3 DEF AClock, Engine, ConfiguresFilter
  <2> QED BY <1>1, <1>3, <2>1 DEF Filter
<1>4. ASSUME NEW n \in 1 .. cycles' + 1, Steady(n)'
      PROVE  sample' = gpioSync' /\ (cycles' = 0 \/ stable' >= n - 1)
  <2>1. n \in Nat \ {0}
    BY <1>2
  <2>2. Steady(n - 1) /\ gpioSync' = gpioSync /\ ~ConfiguresFilter(w)
    <3>1. g'.since >= n /\ \A p \in Pins : g'.run[p] >= n
      BY <1>4 DEF Steady
    <3> QED BY <2>1, <3>1, SteadyBefore
  <2>3. CASE n = 1
    <3>1. stable' \in Nat
      BY <1>2, <1>3, <2>2
    <3> QED BY <1>3, <2>2, <2>3, <3>1
  <2>4. CASE n # 1
    <3>1. n - 1 \in 1 .. cycles + 1 /\ cycles' = cycles
      BY <1>2, <1>3, <2>1, <2>2, <2>4
    <3>2. sample = gpioSync /\ (cycles = 0 \/ stable >= (n - 1) - 1)
      BY <1>3, <2>2, <3>1 DEF SharedInv
    <3> QED BY <1>2, <1>3, <2>1, <2>2, <3>1, <3>2
  <2> QED BY <2>3, <2>4
<1>5. ASSUME Steady(cycles + 2)' PROVE gpioFiltered' = gpioSync'
  <2>1. g'.since >= cycles' + 2 /\ \A p \in Pins : g'.run[p] >= cycles' + 2
    BY <1>5 DEF Steady
  <2>2. ~ConfiguresFilter(w) /\ cycles' = cycles
    <3>1. ~(g'.since = 0)
      BY <1>2, <2>1
    <3> QED BY <3>1, SinceIs
  <2>3. Steady(cycles + 1) /\ gpioSync' = gpioSync
    <3> DEFINE n == cycles + 2
    <3>1. n \in Nat \ {0} /\ n - 1 = cycles + 1
      BY <1>2
    <3>2. g'.since >= n /\ \A p \in Pins : g'.run[p] >= n
      BY <2>1, <2>2
    <3> HIDE DEF n
    <3>3. Steady(n - 1) /\ gpioSync' = gpioSync
      BY <3>1, <3>2, SteadyBefore
    <3> QED BY <3>1, <3>3
  <2>4. cycles + 1 \in 1 .. cycles + 1
    BY <1>2
  <2>5. sample = gpioSync /\ (cycles = 0 \/ stable >= cycles)
    <3>1. \A n \in 1 .. cycles + 1 : Steady(n) => sample = gpioSync /\ (cycles = 0 \/ stable >= n - 1)
      BY <1>3, <2>2 DEF SharedInv
    <3> DEFINE n == cycles + 1
    <3>2. n \in 1 .. cycles + 1 /\ Steady(n) /\ n - 1 = cycles
      BY <1>2, <2>3, <2>4
    <3> HIDE DEF n
    <3>3. sample = gpioSync /\ (cycles = 0 \/ stable >= n - 1)
      BY <3>1, <3>2
    <3> QED BY <3>2, <3>3
  <2>6. cycles = 0 \/ stable = cycles
    BY <1>2, <2>5
  <2> QED BY <1>3, <2>2, <2>3, <2>5, <2>6
<1>6. ASSUME gpioSync' = sample', NEW p \in Pins PROVE stable' <= g'.run[p]
  <2>1. g'.run[p] \in Nat
    <3>1. g'.run[p] \in 0 .. Enough
      BY GpioTypesKept DEF GpioTypes, HistoryTypes
    <3> HIDE DEF Enough
    <3> QED BY <1>2, <3>1
  <2>2. CASE stable' = 0
    BY <2>1, <2>2
  <2>3. CASE stable' # 0
    <3>1. ~ConfiguresFilter(w)
      BY <1>1, <2>3 DEF Filter
    <3>2. /\ filterCtrl = Shared /\ gpioSync = sample /\ sample' = sample
          /\ stable' \in {stable, stable + 1} /\ stable' <= cycles
      BY <1>2, <1>3, <2>3, <3>1
    <3>3. stable <= g.run[p] /\ (p \in gpioSync' <=> p \in gpioSync)
      BY <1>6, <3>2 DEF SharedInv
    <3>4. g.run[p] \in 0 .. Enough /\ g'.run[p] = UpTo(g.run[p] + 1)
      BY <3>3, RunIs
    <3>5. UpTo(g.run[p] + 1) = g.run[p] + 1 \/ (UpTo(g.run[p] + 1) = Enough /\ g.run[p] = Enough)
      BY <3>4, OneMore
    <3> HIDE DEF Enough, UpTo
    <3> QED BY <1>2, <3>2, <3>3, <3>4, <3>5
  <2> QED BY <2>2, <2>3
<1> QED BY <1>4, <1>5, <1>6

LEMMA HistoryStep ==
  ASSUME Sensible, GpioTypes, HistoryInv, NEW w, NEW force \in BOOLEAN, AClock(w, force)
  PROVE  HistoryInv'
<1> SUFFICES ASSUME filterCtrl' # Shared, NEW i \in 1 .. Deepest - 1, NEW p \in Pins,
                    i <= g'.since
             PROVE  /\ i <= g'.run[p] => (p \in history'[i] <=> p \in gpioSync')
                    /\ i = g'.run[p] + 1 => ~(p \in history'[i] <=> p \in gpioSync')
  BY DEF HistoryInv
<1>1. Deepest \in Nat \ {0} /\ Enough \in Nat /\ Enough >= Deepest
  BY DepthsAre
<1>2. g.since \in 0 .. Enough /\ i - 1 <= g.since /\ ~ConfiguresFilter(w) /\ filterCtrl' = filterCtrl
  <2> HIDE DEF Enough, Deepest, UpTo
  <2>1. ~(g'.since = 0)
    BY <1>1
  <2>2. g'.since = UpTo(g.since + 1) /\ g.since \in 0 .. Enough /\ ~ConfiguresFilter(w)
        /\ filterCtrl' = filterCtrl
    BY <2>1, SinceIs
  <2>3. UpTo(g.since + 1) = g.since + 1 \/ (UpTo(g.since + 1) = Enough /\ g.since = Enough)
    BY <2>2, OneMore
  <2> QED BY <1>1, <2>2, <2>3
<1>3. history' = [j \in 1 .. Deepest - 1 |-> IF j = 1 THEN gpioSync ELSE history[j - 1]]
  BY <1>2 DEF AClock, Engine, Filter
<1>4. history'[i] = IF i = 1 THEN gpioSync ELSE history[i - 1]
  <2> HIDE DEF Deepest
  <2> QED BY <1>3
<1>5. g.run[p] \in 0 .. Enough
      /\ \/ /\ p \in gpioSync' <=> p \in gpioSync
            /\ g'.run[p] = g.run[p] + 1 \/ (g'.run[p] = Enough /\ g.run[p] = Enough)
         \/ ~(p \in gpioSync' <=> p \in gpioSync) /\ g'.run[p] = 0
  BY RunIs, OneMore
<1>6. i # 1 => /\ i - 1 \in 1 .. Deepest - 1
               /\ i - 1 <= g.run[p] => (p \in history[i - 1] <=> p \in gpioSync)
               /\ i - 1 = g.run[p] + 1 => ~(p \in history[i - 1] <=> p \in gpioSync)
  <2>1. i # 1 => i - 1 \in 1 .. Deepest - 1
    <3> HIDE DEF Deepest
    <3> QED BY <1>1
  <2> QED BY <1>2, <2>1 DEF HistoryInv
<1> HIDE DEF Deepest, Enough
<1>7. CASE i = 1
  BY <1>1, <1>4, <1>5, <1>7
<1>8. CASE i # 1
  <2>1. history'[i] = history[i - 1]
    BY <1>4, <1>8
  <2>2. ASSUME i <= g'.run[p] PROVE p \in history'[i] <=> p \in gpioSync'
    <3>1. i - 1 <= g.run[p] /\ (p \in gpioSync' <=> p \in gpioSync)
      BY <1>1, <1>5, <2>2
    <3> QED BY <1>6, <1>8, <2>1, <3>1
  <2>3. ASSUME i = g'.run[p] + 1 PROVE ~(p \in history'[i] <=> p \in gpioSync')
    <3>1. i - 1 = g.run[p] + 1 /\ (p \in gpioSync' <=> p \in gpioSync)
      BY <1>1, <1>5, <1>8, <2>3
    <3> QED BY <1>6, <1>8, <2>1, <3>1
  <2> QED BY <2>2, <2>3
<1> QED BY <1>7, <1>8

\* What the depth of the independent filter is.
DepthFacts ==
  /\ filterCtrl \in Nat /\ filterCtrl >= 1 /\ Deepest \in Nat /\ Enough \in Nat
  /\ \A i \in 1 .. filterCtrl - 1 : i \in 1 .. Deepest - 1
  /\ Deepest <= Enough /\ filterCtrl <= Enough

LEMMA DepthIs ==
  ASSUME Sensible, GpioTypes, filterCtrl # Shared
  PROVE  DepthFacts
<1>1. filterCtrl \in 1 .. Deepest /\ Deepest \in Nat \ {0} /\ Enough \in Nat /\ Enough >= Deepest
  BY DepthsAre DEF GpioTypes, GpioTypeOK
<1> HIDE DEF Deepest, Enough
<1> QED BY <1>1 DEF DepthFacts

LEMMA IndependentStep ==
  ASSUME Sensible, GpioTypes, HistoryInv, IndependentInv, NEW w, NEW force \in BOOLEAN,
         AClock(w, force)
  PROVE  IndependentInv'
<1> SUFFICES ASSUME filterCtrl' # Shared, NEW p \in mask',
                    g'.run[p] >= filterCtrl', g'.since >= filterCtrl'
             PROVE  p \in gpioFiltered' <=> p \in gpioSync'
  BY DEF IndependentInv
<1>1. p \in Pins
  BY GpioTypesKept DEF GpioTypes, GpioTypeOK
<1>2. filterCtrl' \in Nat /\ filterCtrl' >= 1
  <2>1. GpioTypes' /\ filterCtrl' \in Depths
    BY GpioTypesKept DEF GpioTypes, GpioTypeOK
  <2>2. filterCtrl' \in Nat \ {0}
    <3>1. Depths \subseteq Nat \ {0}
      BY DEF Sensible
    <3> QED BY <2>1, <3>1
  <2> QED BY <2>2
<1>3. ~ConfiguresFilter(w) /\ filterCtrl' = filterCtrl /\ mask' = mask
      /\ g'.since = UpTo(g.since + 1) /\ g.since \in 0 .. Enough
  <2>1. ~(g'.since = 0)
    BY <1>2
  <2> QED BY <2>1, SinceIs
<1>4. gpioFiltered' = Independent /\ filterCtrl # Shared
  BY <1>3 DEF AClock, Engine, Filter
<1>5. DepthFacts
  BY <1>4, DepthIs DEF DepthFacts
<1>6. g.since >= filterCtrl - 1
  <2>1. UpTo(g.since + 1) = g.since + 1 \/ (UpTo(g.since + 1) = Enough /\ g.since = Enough)
    BY <1>3, OneMore
  <2> HIDE DEF UpTo, Enough
  <2> QED BY <1>3, <1>5, <2>1 DEF DepthFacts
<1>7. g.run[p] \in 0 .. Enough /\ g.run[p] >= filterCtrl - 1 /\ (p \in gpioSync' <=> p \in gpioSync)
  <2>1. ~(g'.run[p] = 0)
    BY <1>2
  <2>2. g'.run[p] = UpTo(g.run[p] + 1) /\ g.run[p] \in 0 .. Enough /\ (p \in gpioSync' <=> p \in gpioSync)
    BY <1>1, <2>1, RunIs
  <2>3. UpTo(g.run[p] + 1) = g.run[p] + 1 \/ (UpTo(g.run[p] + 1) = Enough /\ g.run[p] = Enough)
    BY <2>2, OneMore
  <2> HIDE DEF UpTo, Enough
  <2> QED BY <1>3, <1>5, <2>2, <2>3 DEF DepthFacts
<1>8. \A i \in 1 .. filterCtrl - 1 : p \in history[i] <=> p \in gpioSync
  <2> SUFFICES ASSUME NEW i \in 1 .. filterCtrl - 1 PROVE p \in history[i] <=> p \in gpioSync
    OBVIOUS
  <2>1. i \in 1 .. Deepest - 1
    BY <1>5 DEF DepthFacts
  <2>2. i <= g.since /\ i <= g.run[p]
    <3> HIDE DEF Enough
    <3> QED BY <1>3, <1>5, <1>6, <1>7 DEF DepthFacts
  <2> QED BY <1>1, <1>4, <2>1, <2>2 DEF HistoryInv
<1>9. \A s \in Window : p \in s <=> p \in gpioSync
  BY <1>8 DEF Window
<1>10. gpioSync \in Window
  BY DEF Window
<1>11. p \in Independent <=> p \in gpioSync
  BY <1>1, <1>3, <1>9, <1>10 DEF Independent
<1> QED BY <1>4, <1>7, <1>11

LEMMA SeenWhenStable ==
  ASSUME Sensible, GpioTypes, SharedInv, IndependentInv
  PROVE  StableIsSeen
<1>1. CASE filterCtrl # Shared
  BY <1>1 DEF StableIsSeen, IndependentInv, Sampled
<1>2. CASE filterCtrl = Shared
  <2>1. cycles \in Nat /\ g.since \in Nat /\ \A p \in Pins : g.run[p] \in Nat
    <3>1. Cycles \subseteq Nat /\ Enough \in Nat
      BY DepthsAre DEF Sensible
    <3>2. cycles \in Cycles \cup {0} /\ g.since \in 0 .. Enough /\ \A p \in Pins : g.run[p] \in 0 .. Enough
      BY DEF GpioTypes, GpioTypeOK, HistoryTypes
    <3> HIDE DEF Enough
    <3> QED BY <3>1, <3>2
  <2>2. g.since > cycles + 1 /\ (\A p \in Pins : g.run[p] > cycles + 1) => Steady(cycles + 2)
    BY <2>1 DEF Steady
  <2> QED BY <1>2, <2>2 DEF StableIsSeen, SharedInv, Sampled
<1> QED BY <1>1, <1>2

LEMMA GlitchesFail ==
  ASSUME Sensible, GpioTypes, SharedInv, HistoryInv, IndependentInv, GpioNext
  PROVE  RejectsGlitches
<1> SUFFICES ASSUME ~Reconfigured
             PROVE  /\ filterCtrl = Shared /\ Changed # {} => \A p \in Pins : g.run[p] >= cycles
                    /\ filterCtrl # Shared /\ g.since >= filterCtrl =>
                         \A p \in Changed \cap mask : g.run[p] >= filterCtrl - 1
  BY DEF RejectsGlitches
<1>1. PICK w : \E force \in BOOLEAN : AClock(w, force)
  BY GpioSteps
<1>2. PICK force \in BOOLEAN : AClock(w, force)
  BY <1>1
<1>3. ~ConfiguresFilter(w)
  <2>1. CASE w = NoGpioAccess
    BY <2>1 DEF ConfiguresFilter, NoGpioAccess, Access
  <2>2. CASE /\ todo # <<>> /\ w = Head(todo)
             /\ todo' = IF w.reg = "read_status" /\ ~snap.valid THEN <<>> ELSE Tail(todo)
    <3>1. EndingFacts(todo)
      BY <2>2, EndingIs DEF GpioTypes
    <3>2. Len(todo) \in 1 .. 5 /\ Len(Tail(todo)) = Len(todo) - 1
      BY <3>1 DEF EndingFacts
    <3>3. Tail(todo) # todo
      BY <3>2
    <3>4. todo' # todo
      BY <2>2, <3>3
    <3> QED BY <2>2, <3>4 DEF Reconfigured
  <2> QED BY <1>2, <2>1, <2>2 DEF AClock
<1>4. filterCtrl' = filterCtrl /\ mask' = mask /\ cycles' = cycles /\ Filter(w)
  BY <1>2, <1>3 DEF AClock, Engine, ConfiguresFilter
<1>5. ASSUME filterCtrl = Shared, Changed # {}, NEW p \in Pins PROVE g.run[p] >= cycles
  <2>1. gpioFiltered' # gpioFiltered
    BY <1>4, <1>5 DEF Changed, Sampled
  <2>2. cycles = 0 \/ (gpioSync = sample /\ stable = cycles)
    BY <1>3, <1>4, <1>5, <2>1 DEF Filter
  <2>3. g.run[p] \in Nat /\ cycles \in Nat /\ stable \in Nat
    <3>1. Cycles \subseteq Nat /\ Enough \in Nat
      BY DepthsAre DEF Sensible
    <3>2. cycles \in Cycles \cup {0} /\ g.run[p] \in 0 .. Enough /\ stable \in 0 .. cycles
      BY DEF GpioTypes, GpioTypeOK, HistoryTypes
    <3> HIDE DEF Enough
    <3> QED BY <3>1, <3>2
  <2>4. gpioSync = sample => stable <= g.run[p]
    BY <1>5 DEF SharedInv
  <2> QED BY <2>2, <2>3, <2>4
<1>6. ASSUME filterCtrl # Shared, g.since >= filterCtrl, NEW p \in Changed \cap mask
      PROVE  g.run[p] >= filterCtrl - 1
  <2>1. gpioFiltered' = Independent /\ p \in Pins /\ p \in mask
    BY <1>3, <1>4, <1>6 DEF Filter, Changed
  <2>2. ~(p \in Independent <=> p \in gpioFiltered)
    BY <1>4, <1>6, <2>1 DEF Changed, Sampled
  <2>3. \A s \in Window : p \in s <=> p \in Independent
    BY <2>1, <2>2 DEF Independent
  <2>4. /\ p \in gpioSync <=> p \in Independent
        /\ \A i \in 1 .. filterCtrl - 1 : p \in history[i] <=> p \in Independent
    BY <2>3 DEF Window
  <2>5. DepthFacts
    BY <1>6, DepthIs
  <2>6. g.run[p] \in Nat /\ g.since \in Nat
    <3>1. Enough \in Nat
      BY DepthsAre
    <3>2. g.run[p] \in 0 .. Enough /\ g.since \in 0 .. Enough
      BY <2>1 DEF GpioTypes, HistoryTypes
    <3> HIDE DEF Enough
    <3> QED BY <3>1, <3>2
  <2>7. SUFFICES ASSUME g.run[p] < filterCtrl - 1 PROVE FALSE
    <3> HIDE DEF Deepest, Enough
    <3> QED BY <2>5, <2>6 DEF DepthFacts
  <2> DEFINE i == g.run[p] + 1
  <2>8. i \in 1 .. filterCtrl - 1 /\ i <= g.since
    BY <1>6, <2>5, <2>6, <2>7 DEF DepthFacts
  <2>9. i \in 1 .. Deepest - 1 /\ i = g.run[p] + 1
    BY <2>5, <2>8 DEF DepthFacts
  <2> HIDE DEF i
  <2>10. ~(p \in history[i] <=> p \in gpioSync)
    BY <1>6, <2>1, <2>8, <2>9 DEF HistoryInv
  <2> QED BY <2>4, <2>8, <2>10
<1> QED BY <1>5, <1>6

THEOREM GpioFiltersAreTrue == GpioSpec => GpioFiltersTruly
<1> DEFINE IInv == GpioTypes /\ SharedInv /\ HistoryInv /\ IndependentInv
<1>0. Sensible
  BY GpioAssumption
<1>1. GpioInit => IInv
  <2> SUFFICES ASSUME GpioInit PROVE IInv
    OBVIOUS
  <2>1. GpioTypes
    BY <1>0, GpioStarts
  <2>2. /\ filterCtrl = Shared /\ cycles = 0 /\ sample = gpioSync /\ gpioFiltered = gpioSync /\ stable = 0
        /\ \A p \in Pins : stable <= g.run[p]
    BY DEF GpioInit
  <2> QED BY <2>1, <2>2 DEF SharedInv, HistoryInv, IndependentInv
<1>2. IInv /\ [GpioNext]_gpioVars => IInv'
  <2> SUFFICES ASSUME IInv, [GpioNext]_gpioVars PROVE IInv'
    OBVIOUS
  <2>1. CASE GpioNext
    <3>1. PICK w : \E force \in BOOLEAN : AClock(w, force)
      BY <2>1, <1>0, GpioSteps
    <3>2. PICK force \in BOOLEAN : AClock(w, force)
      BY <3>1
    <3> QED BY <3>2, <1>0, GpioTypesKept, SharedStep, HistoryStep, IndependentStep
  <2>2. CASE UNCHANGED gpioVars
    <3>1. GpioTypes'
      BY <2>2, GpioTypesStay
    <3>2. /\ gpioSync' = gpioSync /\ gpioFiltered' = gpioFiltered /\ filterCtrl' = filterCtrl /\ mask' = mask
          /\ cycles' = cycles /\ sample' = sample /\ stable' = stable /\ history' = history /\ g' = g
      BY <2>2 DEF gpioVars, inputs, filter
    <3>3. SharedInv'
      BY <3>2 DEF SharedInv, Steady
    <3>4. HistoryInv' /\ IndependentInv'
      BY <3>2 DEF HistoryInv, IndependentInv
    <3> QED BY <3>1, <3>3, <3>4
  <2> QED BY <2>1, <2>2
<1>3. IInv => GpioTypeOK /\ StableIsSeen
  BY <1>0, SeenWhenStable DEF GpioTypes
<1>4. IInv /\ [GpioNext]_gpioVars => [RejectsGlitches]_gpioVars
  BY <1>0, GlitchesFail
<1> QED BY <1>1, <1>2, <1>3, <1>4, PTL DEF GpioSpec, GpioFiltersTruly
=============================================================================
