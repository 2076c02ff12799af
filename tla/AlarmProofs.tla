------------------------------ MODULE AlarmProofs ------------------------------
(***************************************************************************)
(* TIMER0, ALARM0 and the SDK's programming of both, for counters of any   *)
(* width.  No property below needs fairness.                               *)
(***************************************************************************)
EXTENDS Alarm, TLAPS, SequenceTheorems

\* The bus writes of the SDK.
Regs == {"none", "T_CTRL", "PRESCALE", "COUNT", "T_COMPARE", "STATUS", "A_CTRL",
         "PENDING", "CHANNEL_ENABLE", "PERIODIC", "A_COMPARE", "PERIOD"}

Legal(w) ==
  /\ w.reg \in Regs /\ w.ch \in Channels
  /\ w.reg = "T_CTRL" => w.data \in SUBSET CtrlBits
  /\ w.reg = "PRESCALE" => w.data \in 0 .. PrescaleMax
  /\ w.reg = "COUNT" => w.data = Zero
  /\ w.reg = "T_COMPARE" => w.data \in Counts
  /\ w.reg = "A_CTRL" => w.data \in BOOLEAN
  /\ w.reg \in {"PENDING", "CHANNEL_ENABLE", "PERIODIC"} => w.data \in SUBSET Channels
  /\ w.reg \in {"A_COMPARE", "PERIOD"} => w.data \in Half

Data == UNION {SUBSET CtrlBits, 0 .. PrescaleMax, Counts, BOOLEAN, SUBSET Channels, Half, {1}}

Writes == [reg : Regs, ch : Channels, data : Data]

TodoOK == todo \in Seq(Writes) /\ \A i \in 1 .. Len(todo) : Legal(todo[i])

-----------------------------------------------------------------------------
(* The registers keep their types over one edge.                           *)

\* The special values are in their ranges, and COUNT + 1 and COMPARE + PERIOD
\* stay in theirs when they wrap.
LEMMA ConstantTypes ==
  /\ Top \in Nat /\ HighTop \in Nat /\ PrescaleMax \in Nat
  /\ Zero \in Counts /\ Last \in Counts /\ None = -1
  /\ \A c \in Counts : Successor(c) \in Counts
  /\ \A a, b \in Half : Plus(a, b) \in Half
  BY AlarmAssumption DEF Zero, Last, Counts, Half, None, Successor, Plus

\* One edge keeps the types of TIMER0's registers.
LEMMA TimerTypes ==
  ASSUME TypeOK, NEW w, Legal(w), TimerEdge(w)
  PROVE  /\ ctrl' \in SUBSET CtrlBits
         /\ prescale' \in 0 .. PrescaleMax /\ prescaleCount' \in 0 .. PrescaleMax
         /\ count' \in Counts /\ compare' \in Counts /\ timerPending' \in BOOLEAN
<1>1. ctrl' \in SUBSET CtrlBits
    BY DEF TimerEdge, TypeOK, Legal
<1>2. prescale' \in 0 .. PrescaleMax
    BY DEF TimerEdge, TypeOK, Legal
<1>3. prescaleCount' \in 0 .. PrescaleMax
    BY ConstantTypes DEF TimerEdge, TypeOK
<1>4. count' \in Counts
    BY ConstantTypes DEF TimerEdge, TypeOK, Legal
<1>5. compare' \in Counts
    BY DEF TimerEdge, TypeOK, Legal
<1>6. timerPending' \in BOOLEAN
    BY DEF TimerEdge
<1> QED
    BY <1>1, <1>2, <1>3, <1>4, <1>5, <1>6

\* One edge keeps the types of ALARM0's registers.
LEMMA AlarmTypes ==
  ASSUME TypeOK, NEW w, Legal(w), AlarmEdge(w)
  PROVE  /\ running' \in BOOLEAN /\ channels' \in SUBSET Channels
         /\ periodic' \in SUBSET Channels /\ pending' \in SUBSET Channels
         /\ deadline' \in [Channels -> Half] /\ period' \in [Channels -> Half]
<1>1. running' \in BOOLEAN
    BY DEF AlarmEdge, TypeOK, Legal
<1>2. channels' \in SUBSET Channels /\ periodic' \in SUBSET Channels
    BY DEF AlarmEdge, TypeOK, Legal
<1>3. pending' \in SUBSET Channels
    BY DEF AlarmEdge, PendingAfter, TypeOK
<1>4. deadline' \in [Channels -> Half]
    BY ConstantTypes DEF AlarmEdge, TypeOK, Legal
<1>5. period' \in [Channels -> Half]
    BY DEF AlarmEdge, TypeOK, Legal
<1> QED
    BY <1>1, <1>2, <1>3, <1>4, <1>5

\* A distance to a deadline is one of the representable ones, or none.
LEMMA LeftType ==
  ASSUME NEW n \in {None} \cup Half
  PROVE  Left(n) \in {None} \cup Half
  BY ConstantTypes DEF Left, Half

\* The history variables keep their types.
LEMMA HistoryTypes ==
  ASSUME TypeOK, NEW w, History(w)
  PROVE  due' \in [Channels -> {None} \cup Half] /\ fired' \in SUBSET Channels
<1>1. \A ch \in Channels : Left(due[ch]) \in {None} \cup Half
    BY LeftType DEF TypeOK
<1>2. Left(call.left) \in {None} \cup Half
    BY LeftType DEF TypeOK
<1>3. ASSUME NEW ch \in Channels, Repeats(ch)
      PROVE  period[ch] - 1 \in Half
  <2> Top \in Nat /\ period[ch] \in 0 .. Top /\ period[ch] # 0
      BY <1>3, AlarmAssumption DEF TypeOK, Repeats, Half
  <2> QED
      BY DEF Half
<1>4. ASSUME NEW ch \in Channels
      PROVE  (IF ~Steady(w) \/ ch \notin channels' THEN None
              ELSE IF Enables(w, ch) THEN Left(call.left)
              ELSE IF ~Event(ch) THEN Left(due[ch])
              ELSE IF Repeats(ch) /\ due[ch] # None THEN period[ch] - 1 ELSE None)
             \in {None} \cup Half
    BY <1>1, <1>2, <1>3
<1>5. due' \in [Channels -> {None} \cup Half]
    BY <1>4 DEF History
<1>6. fired' \in SUBSET Channels
    BY DEF History
<1> QED
    BY <1>5, <1>6
-----------------------------------------------------------------------------
(* What the SDK has still to write.                                        *)

\* What is left after the first of the writes is again a list of writes.
LEMMA TodoTail ==
  ASSUME TodoOK, todo # << >>
  PROVE  /\ Head(todo) = todo[1] /\ 1 \in 1 .. Len(todo) /\ Head(todo) \in Writes
         /\ Len(todo) \in Nat /\ Len(todo) >= 1
         /\ Tail(todo) \in Seq(Writes) /\ Len(Tail(todo)) = Len(todo) - 1
         /\ \A i \in 1 .. Len(Tail(todo)) : i + 1 \in 1 .. Len(todo) /\ Tail(todo)[i] = todo[i + 1]
  BY DEF TodoOK

\* Short lists are sequences.
LEMMA TupleTypes ==
  ASSUME NEW S
  PROVE  /\ \A x \in S : << x >> \in Seq(S)
         /\ \A x, y \in S : << x, y >> \in Seq(S)
         /\ \A x, y, z \in S : << x, y, z >> \in Seq(S)
  OBVIOUS

\* The writes the SDK makes, one register after the other.
LEMMA LegalWrites ==
  /\ \A d \in SUBSET CtrlBits : Write("T_CTRL", d) \in Writes /\ Legal(Write("T_CTRL", d))
  /\ \A d \in 0 .. PrescaleMax : Write("PRESCALE", d) \in Writes /\ Legal(Write("PRESCALE", d))
  /\ Write("COUNT", Zero) \in Writes /\ Legal(Write("COUNT", Zero))
  /\ \A d \in Counts : Write("T_COMPARE", d) \in Writes /\ Legal(Write("T_COMPARE", d))
  /\ Write("STATUS", 1) \in Writes /\ Legal(Write("STATUS", 1))
  /\ \A d \in BOOLEAN : Write("A_CTRL", d) \in Writes /\ Legal(Write("A_CTRL", d))
  /\ \A r \in {"PENDING", "CHANNEL_ENABLE", "PERIODIC"}, d \in SUBSET Channels :
       Write(r, d) \in Writes /\ Legal(Write(r, d))
  /\ \A r \in {"A_COMPARE", "PERIOD"}, ch \in Channels, d \in Half :
       ChannelWrite(r, ch, d) \in Writes /\ Legal(ChannelWrite(r, ch, d))
  /\ Legal(NoWrite)
<1>0. /\ SUBSET CtrlBits \subseteq Data /\ 0 .. PrescaleMax \subseteq Data
      /\ Counts \subseteq Data /\ BOOLEAN \subseteq Data /\ SUBSET Channels \subseteq Data
      /\ Half \subseteq Data /\ 1 \in Data /\ Zero \in Counts
    BY ConstantTypes DEF Data
<1>10. \A r \in Regs, d \in Data : Write(r, d) \in Writes
    BY DEF Write, Writes, Channels
<1>11. \A r \in Regs, ch \in Channels, d \in Data : ChannelWrite(r, ch, d) \in Writes
    BY DEF ChannelWrite, Writes
<1>12. \A r \in Regs, d \in Data :
        Write(r, d).reg = r /\ Write(r, d).data = d /\ Write(r, d).ch \in Channels
    BY DEF Write, Channels
<1>13. \A r \in Regs, ch \in Channels, d \in Data :
        /\ ChannelWrite(r, ch, d).reg = r /\ ChannelWrite(r, ch, d).data = d
        /\ ChannelWrite(r, ch, d).ch \in Channels
    BY DEF ChannelWrite
<1>1. ASSUME NEW d \in SUBSET CtrlBits
      PROVE  Write("T_CTRL", d) \in Writes /\ Legal(Write("T_CTRL", d))
    BY <1>0, <1>10, <1>12 DEF Legal, Regs
<1>2. ASSUME NEW d \in 0 .. PrescaleMax
      PROVE  Write("PRESCALE", d) \in Writes /\ Legal(Write("PRESCALE", d))
    BY <1>0, <1>10, <1>12 DEF Legal, Regs
<1>3. Write("COUNT", Zero) \in Writes /\ Legal(Write("COUNT", Zero))
    BY <1>0, <1>10, <1>12 DEF Legal, Regs
<1>4. ASSUME NEW d \in Counts
      PROVE  Write("T_COMPARE", d) \in Writes /\ Legal(Write("T_COMPARE", d))
    BY <1>0, <1>10, <1>12 DEF Legal, Regs
<1>5. Write("STATUS", 1) \in Writes /\ Legal(Write("STATUS", 1))
    BY <1>0, <1>10, <1>12 DEF Legal, Regs
<1>6. ASSUME NEW d \in BOOLEAN
      PROVE  Write("A_CTRL", d) \in Writes /\ Legal(Write("A_CTRL", d))
    BY <1>0, <1>10, <1>12 DEF Legal, Regs
<1>7. ASSUME NEW r \in {"PENDING", "CHANNEL_ENABLE", "PERIODIC"}, NEW d \in SUBSET Channels
      PROVE  Write(r, d) \in Writes /\ Legal(Write(r, d))
    BY <1>0, <1>10, <1>12 DEF Legal, Regs
<1>8. ASSUME NEW r \in {"A_COMPARE", "PERIOD"}, NEW ch \in Channels, NEW d \in Half
      PROVE  ChannelWrite(r, ch, d) \in Writes /\ Legal(ChannelWrite(r, ch, d))
    BY <1>0, <1>11, <1>13 DEF Legal, Regs
<1>9. Legal(NoWrite)
    BY DEF NoWrite, Legal, Write, Regs, Channels
<1> QED
    BY <1>1, <1>2, <1>3, <1>4, <1>5, <1>6, <1>7, <1>8, <1>9

\* omcu_timer_start_periodic
LEMMA PeriodicList ==
  ASSUME NEW p \in 0 .. PrescaleMax, NEW c \in Counts
  PROVE  /\ PeriodicWrites(p, c) \in Seq(Writes)
         /\ Len(PeriodicWrites(p, c)) = 6
         /\ \A i \in 1 .. 6 : Legal(PeriodicWrites(p, c)[i])
<1> DEFINE s == PeriodicWrites(p, c)
<1>1. /\ s[1] = Write("T_CTRL", {}) /\ s[2] = Write("PRESCALE", p) /\ s[3] = Write("COUNT", Zero)
      /\ s[4] = Write("T_COMPARE", c) /\ s[5] = Write("STATUS", 1)
      /\ s[6] = Write("T_CTRL", {"ENABLE", "RELOAD"}) /\ Len(s) = 6
    BY DEF PeriodicWrites
<1>2. {} \in SUBSET CtrlBits /\ {"ENABLE", "RELOAD"} \in SUBSET CtrlBits
    BY DEF CtrlBits
<1>3. /\ Write("T_CTRL", {}) \in Writes /\ Write("PRESCALE", p) \in Writes
      /\ Write("COUNT", Zero) \in Writes /\ Write("T_COMPARE", c) \in Writes
      /\ Write("STATUS", 1) \in Writes /\ Write("T_CTRL", {"ENABLE", "RELOAD"}) \in Writes
    BY <1>2, LegalWrites
<1>4. s \in Seq(Writes)
    BY <1>3 DEF PeriodicWrites
<1>5. /\ Legal(s[1]) /\ Legal(s[2]) /\ Legal(s[3]) /\ Legal(s[4]) /\ Legal(s[5]) /\ Legal(s[6])
    BY <1>1, <1>2, LegalWrites
<1>6. \A i \in 1 .. 6 : i \in {1, 2, 3, 4, 5, 6}
    OBVIOUS
<1> QED
    BY <1>1, <1>4, <1>5, <1>6
\* omcu_alarm0_attach_timer0
LEMMA AttachList ==
  /\ AttachWrites \in Seq(Writes) /\ Len(AttachWrites) = 3
  /\ \A i \in 1 .. 3 : Legal(AttachWrites[i])
<1> DEFINE s == AttachWrites
<1>1. /\ s[1] = Write("A_CTRL", FALSE) /\ s[2] = Write("PENDING", Channels)
      /\ s[3] = Write("A_CTRL", TRUE) /\ Len(s) = 3
    BY DEF AttachWrites
<1>2. Channels \in SUBSET Channels /\ TRUE \in BOOLEAN /\ FALSE \in BOOLEAN
    OBVIOUS
<1>3. /\ Write("A_CTRL", FALSE) \in Writes /\ Write("PENDING", Channels) \in Writes
      /\ Write("A_CTRL", TRUE) \in Writes
    BY <1>2, LegalWrites
<1>4. Legal(s[1]) /\ Legal(s[2]) /\ Legal(s[3])
    BY <1>1, <1>2, LegalWrites
<1>5. \A i \in 1 .. 3 : i \in {1, 2, 3}
    OBVIOUS
<1>6. s \in Seq(Writes)
    BY <1>3, TupleTypes DEF AttachWrites
<1> QED
    BY <1>1, <1>4, <1>5, <1>6

\* omcu_alarm0_start
LEMMA StartList ==
  ASSUME NEW p \in 0 .. PrescaleMax
  PROVE  LET s == StartWrites(p) IN
         /\ s \in Seq(Writes) /\ Len(s) = 9
         /\ s[1] = Write("A_CTRL", FALSE) /\ s[2] = Write("T_CTRL", {})
         /\ s[3] = Write("PRESCALE", p) /\ s[4] = Write("COUNT", Zero)
         /\ s[5] = Write("T_COMPARE", Last) /\ s[6] = Write("STATUS", 1)
         /\ s[7] = Write("T_CTRL", {"ENABLE", "RELOAD"})
         /\ s[8] = Write("PENDING", Channels) /\ s[9] = Write("A_CTRL", TRUE)
         /\ \A i \in 1 .. 9 : Legal(s[i])
<1> DEFINE s == StartWrites(p)
<1>1. /\ Channels \in SUBSET Channels /\ TRUE \in BOOLEAN /\ FALSE \in BOOLEAN
      /\ {} \in SUBSET CtrlBits /\ {"ENABLE", "RELOAD"} \in SUBSET CtrlBits
    BY DEF CtrlBits
<1>2. /\ s \in Seq(Writes)
      /\ << Write("A_CTRL", FALSE) >> \o PeriodicWrites(p, Last) \in Seq(Writes)
      /\ << Write("PENDING", Channels), Write("A_CTRL", TRUE) >> \in Seq(Writes)
  <2>1. /\ Write("A_CTRL", FALSE) \in Writes /\ Write("PENDING", Channels) \in Writes
        /\ Write("A_CTRL", TRUE) \in Writes
      BY <1>1, LegalWrites
  <2>2. /\ << Write("A_CTRL", FALSE) >> \in Seq(Writes)
        /\ << Write("PENDING", Channels), Write("A_CTRL", TRUE) >> \in Seq(Writes)
      BY <2>1, TupleTypes
  <2>3. PeriodicWrites(p, Last) \in Seq(Writes)
      BY PeriodicList, ConstantTypes
  <2>4. << Write("A_CTRL", FALSE) >> \o PeriodicWrites(p, Last) \in Seq(Writes)
      BY <2>2, <2>3, ConcatProperties
  <2>5. s = (<< Write("A_CTRL", FALSE) >> \o PeriodicWrites(p, Last))
              \o << Write("PENDING", Channels), Write("A_CTRL", TRUE) >>
      BY DEF StartWrites
  <2> HIDE DEF s
  <2> QED
      BY <2>2, <2>4, <2>5, ConcatProperties
<1>3. /\ Len(s) = 9 /\ s[1] = Write("A_CTRL", FALSE) /\ s[2] = Write("T_CTRL", {})
      /\ s[3] = Write("PRESCALE", p) /\ s[4] = Write("COUNT", Zero)
      /\ s[5] = Write("T_COMPARE", Last) /\ s[6] = Write("STATUS", 1)
      /\ s[7] = Write("T_CTRL", {"ENABLE", "RELOAD"})
      /\ s[8] = Write("PENDING", Channels) /\ s[9] = Write("A_CTRL", TRUE)
  <2> USE DEF StartWrites, PeriodicWrites
  <2>1. Len(s) = 9  OBVIOUS
  <2>2. s[1] = Write("A_CTRL", FALSE)  OBVIOUS
  <2>3. s[2] = Write("T_CTRL", {})  OBVIOUS
  <2>4. s[3] = Write("PRESCALE", p)  OBVIOUS
  <2>5. s[4] = Write("COUNT", Zero)  OBVIOUS
  <2>6. s[5] = Write("T_COMPARE", Last)  OBVIOUS
  <2>7. s[6] = Write("STATUS", 1)  OBVIOUS
  <2>8. s[7] = Write("T_CTRL", {"ENABLE", "RELOAD"})  OBVIOUS
  <2>9. s[8] = Write("PENDING", Channels)  OBVIOUS
  <2>10. s[9] = Write("A_CTRL", TRUE)
    <3> DEFINE a == << Write("A_CTRL", FALSE) >> \o PeriodicWrites(p, Last)
               b == << Write("PENDING", Channels), Write("A_CTRL", TRUE) >>
    <3>1. Len(a) = 7 /\ Len(b) = 2 /\ b[2] = Write("A_CTRL", TRUE)
        OBVIOUS
    <3>2. a \in Seq(Writes) /\ b \in Seq(Writes) /\ s = a \o b
        BY <1>2
    <3> HIDE DEF s, a, b
    <3>3. \A i \in 1 .. Len(a) + Len(b) : s[i] = IF i <= Len(a) THEN a[i] ELSE b[i - Len(a)]
        BY <3>2, ConcatProperties
    <3>4. 9 \in 1 .. Len(a) + Len(b) /\ ~(9 <= Len(a)) /\ 9 - Len(a) = 2
        BY <3>1
    <3> QED
        BY <3>1, <3>3, <3>4
  <2> HIDE DEF s
  <2> QED
      BY <2>1, <2>2, <2>3, <2>4, <2>5, <2>6, <2>7, <2>8, <2>9, <2>10
<1>4. /\ Legal(s[1]) /\ Legal(s[2]) /\ Legal(s[3]) /\ Legal(s[4]) /\ Legal(s[5])
      /\ Legal(s[6]) /\ Legal(s[7]) /\ Legal(s[8]) /\ Legal(s[9])
  <2> Last \in Counts
      BY ConstantTypes
  <2> HIDE DEF s
  <2> QED
      BY <1>1, <1>3, LegalWrites
<1>5. \A i \in 1 .. 9 : i \in {1, 2, 3, 4, 5, 6, 7, 8, 9}
    OBVIOUS
<1> HIDE DEF s
<1>6. \A i \in 1 .. 9 : Legal(s[i])
    BY <1>4, <1>5
<1> QED
    BY <1>2, <1>3, <1>6 DEF s

\* omcu_alarm0_schedule
LEMMA ScheduleList ==
  ASSUME TypeOK, NEW e \in SUBSET Channels
  PROVE  LET s == ScheduleWrites(e) IN
         /\ s \in Seq(Writes) /\ Len(s) = 6
         /\ s[1] = Write("CHANNEL_ENABLE", e \ {call.ch})
         /\ s[2] = Write("PENDING", {call.ch})
         /\ s[3] = ChannelWrite("A_COMPARE", call.ch, call.target)
         /\ s[4] = ChannelWrite("PERIOD", call.ch, call.period)
         /\ s[5] = Write("PERIODIC", PeriodicBits)
         /\ s[6] = Write("CHANNEL_ENABLE", e \cup {call.ch})
         /\ \A i \in 1 .. 6 : Legal(s[i])
<1> DEFINE s == ScheduleWrites(e)
<1>1. /\ s[1] = Write("CHANNEL_ENABLE", e \ {call.ch})
      /\ s[2] = Write("PENDING", {call.ch})
      /\ s[3] = ChannelWrite("A_COMPARE", call.ch, call.target)
      /\ s[4] = ChannelWrite("PERIOD", call.ch, call.period)
      /\ s[5] = Write("PERIODIC", PeriodicBits)
      /\ s[6] = Write("CHANNEL_ENABLE", e \cup {call.ch}) /\ Len(s) = 6
    BY DEF ScheduleWrites
<1>2. call.ch \in Channels /\ call.target \in Half /\ call.period \in Half
    BY DEF TypeOK
<1>3. /\ e \ {call.ch} \in SUBSET Channels /\ e \cup {call.ch} \in SUBSET Channels
      /\ {call.ch} \in SUBSET Channels /\ PeriodicBits \in SUBSET Channels
    BY <1>2 DEF PeriodicBits, TypeOK
<1>4. /\ Write("CHANNEL_ENABLE", e \ {call.ch}) \in Writes
      /\ Write("PENDING", {call.ch}) \in Writes
      /\ ChannelWrite("A_COMPARE", call.ch, call.target) \in Writes
      /\ ChannelWrite("PERIOD", call.ch, call.period) \in Writes
      /\ Write("PERIODIC", PeriodicBits) \in Writes
      /\ Write("CHANNEL_ENABLE", e \cup {call.ch}) \in Writes
    BY <1>2, <1>3, LegalWrites
<1>5. /\ Legal(s[1]) /\ Legal(s[2]) /\ Legal(s[3]) /\ Legal(s[4]) /\ Legal(s[5]) /\ Legal(s[6])
    BY <1>1, <1>2, <1>3, LegalWrites
<1>6. s \in Seq(Writes)
    BY <1>4 DEF ScheduleWrites
<1>7. \A i \in 1 .. 6 : i \in {1, 2, 3, 4, 5, 6}
    OBVIOUS
<1> QED
    BY <1>1, <1>5, <1>6, <1>7
-----------------------------------------------------------------------------
(* The order of those writes.                                              *)

Off == "ENABLE" \notin ctrl

Sets(w)   == w.reg \in {"PRESCALE", "COUNT", "T_COMPARE"}
Stops(w)  == w.reg = "T_CTRL" /\ w.data = {}
Starts(w) == w.reg = "T_CTRL" /\ w.data # {}

\* TIMER0 is set, and started again, only after it was stopped, and started
\* only with COUNT at zero.
TimerOrder ==
  \A i \in 1 .. Len(todo) :
    /\ Sets(todo[i]) \/ Starts(todo[i]) => Off \/ \E j \in 1 .. i - 1 : Stops(todo[j])
    /\ Starts(todo[i]) =>
         /\ (Off /\ count = Zero) \/ \E j \in 1 .. i - 1 : todo[j].reg = "COUNT"
         /\ \A j \in i + 1 .. Len(todo) : ~Sets(todo[j]) /\ ~Starts(todo[j])

\* What that says of the next write.
TimerReady(w) == (Sets(w) \/ Starts(w) => Off) /\ (Starts(w) => count = Zero)

Shut      == call.ch \notin channels
Shuts(w)  == w.reg = "CHANNEL_ENABLE" /\ call.ch \notin w.data
Opens(w)  == w.reg = "CHANNEL_ENABLE" /\ call.ch \in w.data
Clears(w) == w.reg = "PENDING" /\ call.ch \in w.data
Aims(w)   == w.reg = "A_COMPARE"

\* A channel is set, cleared and opened only after it was shut, and what opens
\* it is the last write, with its flag clear and its deadline set.
AlarmOrder ==
  \A i \in 1 .. Len(todo) :
    /\ Aims(todo[i]) => todo[i].ch = call.ch /\ todo[i].data = call.target
    /\ Aims(todo[i]) \/ Opens(todo[i]) => Shut \/ \E j \in 1 .. i - 1 : Shuts(todo[j])
    /\ Opens(todo[i]) =>
         /\ i = Len(todo)
         /\ (Shut /\ call.ch \notin pending) \/ \E j \in 1 .. i - 1 : Clears(todo[j])
         /\ (Shut /\ deadline[call.ch] = call.target) \/ \E j \in 1 .. i - 1 : Aims(todo[j])
         /\ \A j \in 1 .. i - 1 :
              Clears(todo[j]) => Shut \/ \E k \in 1 .. j - 1 : Shuts(todo[k])

\* What that says of the next write.
AlarmReady(w) ==
  /\ Aims(w) => w.ch = call.ch /\ w.data = call.target /\ Shut
  /\ Opens(w) => Shut /\ call.ch \notin pending /\ deadline[call.ch] = call.target

Plan == TodoOK /\ (reading => todo = << >>) /\ TimerOrder /\ AlarmOrder

\* The next write of the SDK finds the registers as its function left them.
LEMMA HeadReady ==
  ASSUME Plan, todo # << >>
  PROVE  Legal(Head(todo)) /\ TimerReady(Head(todo)) /\ AlarmReady(Head(todo))
<1>1. Head(todo) = todo[1] /\ 1 \in 1 .. Len(todo)
    BY TodoTail DEF Plan
<1>2. \A j : j \notin 1 .. 1 - 1
    OBVIOUS
<1>3. Legal(todo[1])
    BY <1>1 DEF Plan, TodoOK
<1>4. TimerReady(todo[1])
    BY <1>1, <1>2 DEF Plan, TimerOrder, TimerReady
<1>5. AlarmReady(todo[1])
    BY <1>1, <1>2 DEF Plan, AlarmOrder, AlarmReady
<1> QED
    BY <1>1, <1>3, <1>4, <1>5

\* Neither no write nor an acknowledgement needs the registers prepared.
LEMMA NoWriteReady ==
  ASSUME NEW w, w.reg \in {"none", "PENDING"}
  PROVE  TimerReady(w) /\ AlarmReady(w)
  BY DEF TimerReady, AlarmReady, Sets, Starts, Aims, Opens

\* An edge with a write that is in order keeps off what is off and shut what is shut.
LEMMA EdgeKeeps ==
  ASSUME TypeOK, NEW w, Legal(w), TimerReady(w), AlarmReady(w), Edge(w)
  PROVE  /\ Off /\ ~Starts(w) => Off'
         /\ Off /\ count = Zero => count' = Zero
         /\ w.reg = "COUNT" => count' = Zero
         /\ call.ch \notin channels /\ ~Opens(w) => call.ch \notin channels'
         /\ call.ch \notin channels /\ call.ch \notin pending => call.ch \notin pending'
         /\ call.ch \notin channels /\ Clears(w) => call.ch \notin pending'
         /\ call.ch \notin channels /\ ~Aims(w) => deadline'[call.ch] = deadline[call.ch]
         /\ Aims(w) => deadline'[call.ch] = call.target
<1>1. Off /\ ~Starts(w) => Off'
    BY DEF Edge, TimerEdge, Off, Starts
<1>2. (Off /\ count = Zero => count' = Zero) /\ (w.reg = "COUNT" => count' = Zero)
    BY DEF Edge, TimerEdge, Off, Tick, Legal
<1>3. call.ch \in Channels
    BY DEF TypeOK
<1>4. call.ch \notin channels => ~Event(call.ch)
    BY DEF Event
<1>5. call.ch \notin channels /\ ~Opens(w) => call.ch \notin channels'
    BY DEF Edge, AlarmEdge, Opens
<1>6. /\ call.ch \notin channels /\ call.ch \notin pending => call.ch \notin pending'
      /\ call.ch \notin channels /\ Clears(w) => call.ch \notin pending'
    BY <1>4 DEF Edge, AlarmEdge, PendingAfter, Clears
<1>7. /\ call.ch \notin channels /\ ~Aims(w) => deadline'[call.ch] = deadline[call.ch]
      /\ Aims(w) => deadline'[call.ch] = call.target
    BY <1>3, <1>4 DEF Edge, AlarmEdge, Aims, AlarmReady
<1> QED
    BY <1>1, <1>2, <1>5, <1>6, <1>7
\* The next write is made.
LEMMA PlanTail ==
  ASSUME TypeOK, Plan, todo # << >>, Edge(Head(todo)), todo' = Tail(todo),
         reading' = reading, call'.ch = call.ch, call'.target = call.target
  PROVE  Plan'
<1> DEFINE w == Head(todo)
<1>1. /\ w = todo[1] /\ Len(todo) \in Nat /\ Len(todo') = Len(todo) - 1
      /\ \A i \in 1 .. Len(todo') : i + 1 \in 1 .. Len(todo) /\ todo'[i] = todo[i + 1]
      /\ todo' \in Seq(Writes)
    BY TodoTail DEF Plan
<1>2. Legal(w) /\ TimerReady(w) /\ AlarmReady(w)
    BY HeadReady
<1> HIDE DEF w
<1>3. Edge(w)
    BY DEF w
<1>4. TodoOK'
    BY <1>1 DEF Plan, TodoOK, Legal
<1>5. reading' => todo' = << >>
    BY DEF Plan
<1>6. ASSUME NEW i \in 1 .. Len(todo')
      PROVE  /\ i \in Nat /\ i >= 1 /\ i + 1 \in 1 .. Len(todo) /\ todo'[i] = todo[i + 1]
             /\ \A j \in 1 .. i : j = 1 \/ (j - 1 \in 1 .. i - 1 /\ todo'[j - 1] = todo[j])
             /\ \A j \in 1 .. i - 1 : j + 1 \in 1 .. i /\ todo'[j] = todo[j + 1]
  <2>1. i + 1 \in 1 .. Len(todo) /\ todo'[i] = todo[i + 1] /\ Len(todo') \in Nat
      BY <1>1
  <2>2. ASSUME NEW j \in 1 .. i, j # 1
        PROVE  j - 1 \in 1 .. i - 1 /\ todo'[j - 1] = todo[j]
    <3>1. j - 1 \in 1 .. Len(todo') /\ (j - 1) + 1 = j /\ j - 1 \in 1 .. i - 1
        BY <2>1, <2>2
    <3> QED
        BY <1>1, <3>1
  <2>3. ASSUME NEW j \in 1 .. i - 1
        PROVE  j + 1 \in 1 .. i /\ todo'[j] = todo[j + 1]
    <3>1. j \in 1 .. Len(todo') /\ j + 1 \in 1 .. i
        BY <2>1
    <3> QED
        BY <1>1, <3>1
  <2> QED
      BY <2>1, <2>2, <2>3
<1>7. TimerOrder'
  <2> SUFFICES ASSUME NEW i \in 1 .. Len(todo')
               PROVE  /\ Sets(todo'[i]) \/ Starts(todo'[i]) =>
                            Off' \/ \E j \in 1 .. i - 1 : Stops(todo'[j])
                      /\ Starts(todo'[i]) =>
                           /\ (Off' /\ count' = Zero) \/ \E j \in 1 .. i - 1 : todo'[j].reg = "COUNT"
                           /\ \A j \in i + 1 .. Len(todo') : ~Sets(todo'[j]) /\ ~Starts(todo'[j])
      BY DEF TimerOrder, Sets, Starts, Stops
  <2>1. /\ i \in Nat /\ i + 1 \in 1 .. Len(todo) /\ todo'[i] = todo[i + 1]
        /\ \A j \in 1 .. i : j = 1 \/ (j - 1 \in 1 .. i - 1 /\ todo'[j - 1] = todo[j])
      BY <1>6
  <2>2. Starts(w) => ~Sets(todo[i + 1]) /\ ~Starts(todo[i + 1])
    <3>1. 1 \in 1 .. Len(todo) /\ i + 1 \in 1 + 1 .. Len(todo)
        BY <1>1, <2>1
    <3> QED
        BY <1>1, <3>1 DEF Plan, TimerOrder
  <2>3. Sets(todo[i + 1]) \/ Starts(todo[i + 1]) => Off \/ \E j \in 1 .. i : Stops(todo[j])
    <3>1. (i + 1) - 1 = i
        BY <2>1
    <3> QED
        BY <2>1, <3>1 DEF Plan, TimerOrder
  <2>4. Starts(todo[i + 1]) => (Off /\ count = Zero) \/ \E j \in 1 .. i : todo[j].reg = "COUNT"
    <3>1. (i + 1) - 1 = i
        BY <2>1
    <3> QED
        BY <2>1, <3>1 DEF Plan, TimerOrder
  <2>5. Stops(w) => Off'
      BY <1>3 DEF Stops, Edge, TimerEdge, Off
  <2>6. Off /\ ~Starts(w) => Off'
      BY <1>2, <1>3, EdgeKeeps
  <2>7. Sets(todo'[i]) \/ Starts(todo'[i]) => Off' \/ \E j \in 1 .. i - 1 : Stops(todo'[j])
      BY <1>1, <2>1, <2>2, <2>3, <2>5, <2>6
  <2>8. (Off /\ count = Zero => count' = Zero) /\ (w.reg = "COUNT" => Off /\ count' = Zero)
      BY <1>2, <1>3, EdgeKeeps DEF TimerReady, Sets
  <2>9. Starts(todo'[i]) => (Off' /\ count' = Zero) \/ \E j \in 1 .. i - 1 : todo'[j].reg = "COUNT"
      BY <1>1, <2>1, <2>2, <2>4, <2>6, <2>8
  <2>10. ASSUME Starts(todo'[i]), NEW j \in i + 1 .. Len(todo')
         PROVE  ~Sets(todo'[j]) /\ ~Starts(todo'[j])
    <3>1. j \in 1 .. Len(todo') /\ j + 1 \in (i + 1) + 1 .. Len(todo)
        BY <1>1, <2>1
    <3>2. todo'[j] = todo[j + 1]
        BY <1>1, <3>1
    <3> QED
        BY <2>1, <2>10, <3>1, <3>2 DEF Plan, TimerOrder
  <2> QED
      BY <2>7, <2>9, <2>10
<1>8. AlarmOrder'
  <2> DEFINE c == call'.ch
             InOrder(i) ==
               /\ todo'[i].reg = "A_COMPARE" => todo'[i].ch = c /\ todo'[i].data = call'.target
               /\ todo'[i].reg = "A_COMPARE" \/ (todo'[i].reg = "CHANNEL_ENABLE" /\ c \in todo'[i].data) =>
                    \/ c \notin channels'
                    \/ \E j \in 1 .. i - 1 : todo'[j].reg = "CHANNEL_ENABLE" /\ c \notin todo'[j].data
               /\ todo'[i].reg = "CHANNEL_ENABLE" /\ c \in todo'[i].data =>
                    /\ i = Len(todo')
                    /\ \/ c \notin channels' /\ c \notin pending'
                       \/ \E j \in 1 .. i - 1 : todo'[j].reg = "PENDING" /\ c \in todo'[j].data
                    /\ \/ c \notin channels' /\ deadline'[c] = call'.target
                       \/ \E j \in 1 .. i - 1 : todo'[j].reg = "A_COMPARE"
                    /\ \A j \in 1 .. i - 1 : todo'[j].reg = "PENDING" /\ c \in todo'[j].data =>
                         \/ c \notin channels'
                         \/ \E k \in 1 .. j - 1 :
                               todo'[k].reg = "CHANNEL_ENABLE" /\ c \notin todo'[k].data
  <2> SUFFICES ASSUME NEW i \in 1 .. Len(todo') PROVE InOrder(i)
      BY DEF AlarmOrder, Aims, Opens, Shuts, Clears, Shut
  <2>1. /\ i \in Nat /\ i + 1 \in 1 .. Len(todo) /\ todo'[i] = todo[i + 1] /\ (i + 1) - 1 = i
        /\ \A j \in 1 .. i : j = 1 \/ (j - 1 \in 1 .. i - 1 /\ todo'[j - 1] = todo[j])
        /\ \A j \in 1 .. i - 1 : j + 1 \in 1 .. i /\ todo'[j] = todo[j + 1]
      BY <1>6
  <2>2. ~Opens(w)
    <3> SUFFICES ASSUME Opens(w) PROVE FALSE
        OBVIOUS
    <3> 1 \in 1 .. Len(todo) /\ 1 # Len(todo)
        BY <1>1, <2>1
    <3> QED
        BY <1>1 DEF Plan, AlarmOrder
  <2>3. /\ call.ch \notin channels => call.ch \notin channels'
        /\ call.ch \notin channels /\ call.ch \notin pending => call.ch \notin pending'
        /\ call.ch \notin channels /\ Clears(w) => call.ch \notin pending'
        /\ call.ch \notin channels /\ ~Aims(w) => deadline'[call.ch] = deadline[call.ch]
        /\ Aims(w) => deadline'[call.ch] = call.target
      BY <1>2, <1>3, <2>2, EdgeKeeps
  <2>4. Shuts(w) => call.ch \notin channels'
      BY <1>3 DEF Shuts, Edge, AlarmEdge
  <2>5. /\ Aims(todo[i + 1]) => todo[i + 1].ch = call.ch /\ todo[i + 1].data = call.target
        /\ Aims(todo[i + 1]) \/ Opens(todo[i + 1]) => Shut \/ \E j \in 1 .. i : Shuts(todo[j])
      BY <2>1 DEF Plan, AlarmOrder
  <2>6. Opens(todo[i + 1]) =>
          /\ i + 1 = Len(todo)
          /\ (Shut /\ call.ch \notin pending) \/ \E j \in 1 .. i : Clears(todo[j])
          /\ (Shut /\ deadline[call.ch] = call.target) \/ \E j \in 1 .. i : Aims(todo[j])
          /\ \A j \in 1 .. i : Clears(todo[j]) => Shut \/ \E k \in 1 .. j - 1 : Shuts(todo[k])
      BY <2>1 DEF Plan, AlarmOrder
  <2>7. Aims(todo'[i]) \/ Opens(todo'[i]) =>
          call.ch \notin channels' \/ \E j \in 1 .. i - 1 : Shuts(todo'[j])
      BY <1>1, <2>1, <2>3, <2>4, <2>5 DEF Shut
  <2>8. ASSUME Opens(todo'[i])
        PROVE  i = Len(todo')
      BY <1>1, <2>1, <2>6, <2>8
  <2>9. ASSUME Opens(todo'[i])
        PROVE  \/ call.ch \notin channels' /\ call.ch \notin pending'
               \/ \E j \in 1 .. i - 1 : Clears(todo'[j])
    <3>1. CASE Shut /\ call.ch \notin pending
        BY <2>3, <3>1 DEF Shut
    <3>2. ASSUME NEW j \in 1 .. i, Clears(todo[j])
          PROVE  <2>9!2
      <4>1. CASE j = 1
        <5> \A k : k \notin 1 .. 1 - 1
            OBVIOUS
        <5> Shut
            BY <2>1, <2>6, <2>9, <3>2, <4>1
        <5> QED
            BY <1>1, <2>3, <3>2, <4>1 DEF Shut
      <4>2. CASE j # 1
          BY <2>1, <3>2, <4>2
      <4> QED
          BY <4>1, <4>2
    <3> QED
        BY <2>1, <2>6, <2>9, <3>1, <3>2
  <2>10. ASSUME Opens(todo'[i])
         PROVE  \/ call.ch \notin channels' /\ deadline'[call.ch] = call.target
                \/ \E j \in 1 .. i - 1 : Aims(todo'[j])
    <3>1. CASE Shut /\ deadline[call.ch] = call.target
        BY <2>3, <3>1 DEF Shut
    <3>2. ASSUME NEW j \in 1 .. i, Aims(todo[j])
          PROVE  <2>10!2
      <4>1. CASE j = 1
          BY <1>1, <1>2, <2>3, <3>2, <4>1 DEF Shut, AlarmReady
      <4>2. CASE j # 1
          BY <2>1, <3>2, <4>2
      <4> QED
          BY <4>1, <4>2
    <3> QED
        BY <2>1, <2>6, <2>10, <3>1, <3>2
  <2>11. ASSUME Opens(todo'[i]), NEW j \in 1 .. i - 1, Clears(todo'[j])
         PROVE  call.ch \notin channels' \/ \E k \in 1 .. j - 1 : Shuts(todo'[k])
    <3>1. j \in Nat /\ j + 1 \in 1 .. i /\ todo'[j] = todo[j + 1] /\ (j + 1) - 1 = j
        BY <2>1
    <3>2. Shut \/ \E k \in 1 .. j : Shuts(todo[k])
        BY <2>1, <2>6, <2>11, <3>1
    <3>3. CASE Shut
        BY <2>3, <3>3 DEF Shut
    <3>4. ASSUME NEW k \in 1 .. j, Shuts(todo[k])
          PROVE  <2>11!4
      <4>1. CASE k = 1
          BY <1>1, <2>4, <3>4, <4>1
      <4>2. CASE k # 1
        <5>1. k \in 1 .. i /\ k - 1 \in 1 .. j - 1
            BY <2>1, <3>1, <4>2
        <5> QED
            BY <2>1, <3>4, <4>2, <5>1
      <4> QED
          BY <4>1, <4>2
    <3> QED
        BY <3>2, <3>3, <3>4
  <2>12. c = call.ch /\ call'.target = call.target
      OBVIOUS
  <2> QED
      BY <2>1, <2>5, <2>7, <2>8, <2>9, <2>10, <2>11, <2>12
         DEF Aims, Opens, Shuts, Clears
<1> QED
    BY <1>4, <1>5, <1>7, <1>8 DEF Plan
\* No planned write is made.
LEMMA PlanSame ==
  ASSUME TypeOK, Plan, NEW w, Legal(w), w.reg \in {"none", "PENDING"}, Edge(w),
         todo' = todo, reading' = reading, call'.ch = call.ch, call'.target = call.target
  PROVE  Plan'
<1>1. /\ Off => Off'
      /\ Off /\ count = Zero => Off' /\ count' = Zero
      /\ call.ch \notin channels => call.ch \notin channels'
      /\ call.ch \notin channels /\ call.ch \notin pending =>
           call.ch \notin channels' /\ call.ch \notin pending'
      /\ call.ch \notin channels /\ deadline[call.ch] = call.target =>
           call.ch \notin channels' /\ deadline'[call.ch] = call.target
  <2> TimerReady(w) /\ AlarmReady(w)
      BY NoWriteReady
  <2> ~Starts(w) /\ ~Opens(w) /\ ~Aims(w)
      BY DEF Starts, Opens, Aims
  <2> QED
      BY EdgeKeeps
<1>2. TodoOK' /\ (reading' => todo' = << >>)
    BY DEF Plan, TodoOK, Legal
<1>3. TimerOrder'
  <2> SUFFICES ASSUME NEW i \in 1 .. Len(todo)
               PROVE  /\ Sets(todo[i]) \/ Starts(todo[i]) =>
                            Off' \/ \E j \in 1 .. i - 1 : Stops(todo[j])
                      /\ Starts(todo[i]) =>
                           /\ (Off' /\ count' = Zero) \/ \E j \in 1 .. i - 1 : todo[j].reg = "COUNT"
                           /\ \A j \in i + 1 .. Len(todo) : ~Sets(todo[j]) /\ ~Starts(todo[j])
      BY DEF TimerOrder, Sets, Starts, Stops
  <2> QED
      BY <1>1 DEF Plan, TimerOrder
<1>4. AlarmOrder'
  <2> DEFINE c == call'.ch
             InOrder(i) ==
               /\ todo'[i].reg = "A_COMPARE" => todo'[i].ch = c /\ todo'[i].data = call'.target
               /\ todo'[i].reg = "A_COMPARE" \/ (todo'[i].reg = "CHANNEL_ENABLE" /\ c \in todo'[i].data) =>
                    \/ c \notin channels'
                    \/ \E j \in 1 .. i - 1 : todo'[j].reg = "CHANNEL_ENABLE" /\ c \notin todo'[j].data
               /\ todo'[i].reg = "CHANNEL_ENABLE" /\ c \in todo'[i].data =>
                    /\ i = Len(todo')
                    /\ \/ c \notin channels' /\ c \notin pending'
                       \/ \E j \in 1 .. i - 1 : todo'[j].reg = "PENDING" /\ c \in todo'[j].data
                    /\ \/ c \notin channels' /\ deadline'[c] = call'.target
                       \/ \E j \in 1 .. i - 1 : todo'[j].reg = "A_COMPARE"
                    /\ \A j \in 1 .. i - 1 : todo'[j].reg = "PENDING" /\ c \in todo'[j].data =>
                         \/ c \notin channels'
                         \/ \E k \in 1 .. j - 1 :
                               todo'[k].reg = "CHANNEL_ENABLE" /\ c \notin todo'[k].data
  <2> SUFFICES ASSUME NEW i \in 1 .. Len(todo') PROVE InOrder(i)
      BY DEF AlarmOrder, Aims, Opens, Shuts, Clears, Shut
  <2>1. c = call.ch /\ call'.target = call.target /\ todo' = todo
      OBVIOUS
  <2>2. i \in 1 .. Len(todo)
      OBVIOUS
  <2> QED
      BY <1>1, <2>1, <2>2 DEF Plan, AlarmOrder, Aims, Opens, Shuts, Clears, Shut
<1> QED
    BY <1>2, <1>3, <1>4 DEF Plan

\* Nothing is left to write, or the list of a function that does not open a channel.
LEMMA PlanEmpty ==
  ASSUME todo' = << >>
  PROVE  Plan'
<1>1. todo' \in Seq(Writes) /\ Len(todo') = 0 /\ \A i : i \notin 1 .. 0
    OBVIOUS
<1> QED
    BY <1>1 DEF Plan, TodoOK, TimerOrder, AlarmOrder

\* omcu_timer_start_periodic stops the timer before it touches COUNT.
LEMMA PlanPeriodic ==
  ASSUME NEW p \in 0 .. PrescaleMax, NEW c \in Counts,
         todo' = PeriodicWrites(p, c), ~reading'
  PROVE  Plan'
<1> DEFINE s == PeriodicWrites(p, c)
<1>1. /\ s[1] = Write("T_CTRL", {}) /\ s[2] = Write("PRESCALE", p) /\ s[3] = Write("COUNT", Zero)
      /\ s[4] = Write("T_COMPARE", c) /\ s[5] = Write("STATUS", 1)
      /\ s[6] = Write("T_CTRL", {"ENABLE", "RELOAD"}) /\ Len(s) = 6
    BY DEF PeriodicWrites
<1>2. s \in Seq(Writes) /\ \A i \in 1 .. 6 : Legal(s[i])
    BY PeriodicList
<1> HIDE DEF s
<1>3. todo' = s
    BY DEF s
<1>4. /\ s[1].reg = "T_CTRL" /\ s[1].data = {}
      /\ s[2].reg = "PRESCALE" /\ s[3].reg = "COUNT" /\ s[4].reg = "T_COMPARE"
      /\ s[5].reg = "STATUS" /\ s[6].reg = "T_CTRL"
    BY <1>1 DEF Write
<1>5. \A i \in 1 .. 6 : i = 1 \/ i = 2 \/ i = 3 \/ i = 4 \/ i = 5 \/ i = 6
    OBVIOUS
<1>6. TodoOK'
    BY <1>1, <1>2, <1>3 DEF TodoOK, Legal
<1>7. TimerOrder'
  <2> SUFFICES ASSUME NEW i \in 1 .. Len(todo')
               PROVE  /\ Sets(todo'[i]) \/ Starts(todo'[i]) => Off' \/ \E j \in 1 .. i - 1 : Stops(todo'[j])
                      /\ Starts(todo'[i]) =>
                           /\ (Off' /\ count' = Zero) \/ \E j \in 1 .. i - 1 : todo'[j].reg = "COUNT"
                           /\ \A j \in i + 1 .. Len(todo') : ~Sets(todo'[j]) /\ ~Starts(todo'[j])
      BY DEF TimerOrder, Sets, Starts, Stops
  <2>0. i \in 1 .. 6 /\ todo'[i] = s[i] /\ Len(todo') = 6
      BY <1>1, <1>3
  <2>1. Stops(s[1]) /\ ~Sets(s[1]) /\ ~Starts(s[1])
      BY <1>4 DEF Stops, Sets, Starts
  <2>2. Starts(s[i]) => i = 6
      BY <1>4, <1>5, <2>0, <2>1 DEF Starts
  <2>3. i # 1 => 1 \in 1 .. i - 1
      BY <2>0
  <2>4. i = 6 => 3 \in 1 .. i - 1 /\ \A j : j \notin i + 1 .. 6
      BY <2>0
  <2> QED
      BY <1>3, <1>4, <2>0, <2>1, <2>2, <2>3, <2>4
<1>8. AlarmOrder'
  <2>1. \A i \in 1 .. 6 : s[i].reg # "A_COMPARE" /\ s[i].reg # "CHANNEL_ENABLE"
      BY <1>4, <1>5
  <2> QED
      BY <1>1, <1>3, <2>1 DEF AlarmOrder, Aims, Opens
<1> QED
    BY <1>6, <1>7, <1>8 DEF Plan

\* omcu_alarm0_start stops both blocks before it touches COUNT.
LEMMA PlanStart ==
  ASSUME NEW p \in 0 .. PrescaleMax, todo' = StartWrites(p), ~reading'
  PROVE  Plan'
<1> DEFINE s == StartWrites(p)
<1>1. /\ s \in Seq(Writes) /\ Len(s) = 9
      /\ s[1] = Write("A_CTRL", FALSE) /\ s[2] = Write("T_CTRL", {})
      /\ s[3] = Write("PRESCALE", p) /\ s[4] = Write("COUNT", Zero)
      /\ s[5] = Write("T_COMPARE", Last) /\ s[6] = Write("STATUS", 1)
      /\ s[7] = Write("T_CTRL", {"ENABLE", "RELOAD"})
      /\ s[8] = Write("PENDING", Channels) /\ s[9] = Write("A_CTRL", TRUE)
      /\ \A i \in 1 .. 9 : Legal(s[i])
    BY StartList
<1> HIDE DEF s
<1>3. todo' = s
    BY DEF s
<1>4. /\ s[1].reg = "A_CTRL" /\ s[2].reg = "T_CTRL" /\ s[2].data = {}
      /\ s[3].reg = "PRESCALE" /\ s[4].reg = "COUNT" /\ s[5].reg = "T_COMPARE"
      /\ s[6].reg = "STATUS" /\ s[7].reg = "T_CTRL" /\ s[8].reg = "PENDING"
      /\ s[9].reg = "A_CTRL"
    BY <1>1 DEF Write
<1>5. \A i \in 1 .. 9 : i = 1 \/ i = 2 \/ i = 3 \/ i = 4 \/ i = 5 \/ i = 6 \/ i = 7 \/ i = 8 \/ i = 9
    OBVIOUS
<1>6. TodoOK'
    BY <1>1, <1>3 DEF TodoOK, Legal
<1>7. TimerOrder'
  <2> SUFFICES ASSUME NEW i \in 1 .. Len(todo')
               PROVE  /\ Sets(todo'[i]) \/ Starts(todo'[i]) => Off' \/ \E j \in 1 .. i - 1 : Stops(todo'[j])
                      /\ Starts(todo'[i]) =>
                           /\ (Off' /\ count' = Zero) \/ \E j \in 1 .. i - 1 : todo'[j].reg = "COUNT"
                           /\ \A j \in i + 1 .. Len(todo') : ~Sets(todo'[j]) /\ ~Starts(todo'[j])
      BY DEF TimerOrder, Sets, Starts, Stops
  <2>0. i \in 1 .. 9 /\ todo'[i] = s[i] /\ Len(todo') = 9
      BY <1>1, <1>3
  <2>1. /\ Stops(s[2]) /\ ~Sets(s[2]) /\ ~Starts(s[2]) /\ ~Sets(s[1]) /\ ~Starts(s[1])
        /\ ~Sets(s[8]) /\ ~Starts(s[8]) /\ ~Sets(s[9]) /\ ~Starts(s[9])
      BY <1>4 DEF Stops, Sets, Starts
  <2>2. Starts(s[i]) => i = 7
      BY <1>4, <1>5, <2>0, <2>1 DEF Starts
  <2>3. i # 1 /\ i # 2 => 2 \in 1 .. i - 1
      BY <2>0
  <2>4. i = 7 => 4 \in 1 .. i - 1 /\ \A j \in i + 1 .. 9 : j = 8 \/ j = 9
      BY <2>0
  <2> QED
      BY <1>3, <1>4, <2>0, <2>1, <2>2, <2>3, <2>4
<1>8. AlarmOrder'
  <2>1. \A i \in 1 .. 9 : s[i].reg # "A_COMPARE" /\ s[i].reg # "CHANNEL_ENABLE"
      BY <1>4, <1>5
  <2> QED
      BY <1>1, <1>3, <2>1 DEF AlarmOrder, Aims, Opens
<1> QED
    BY <1>6, <1>7, <1>8 DEF Plan

\* omcu_alarm0_attach_timer0 leaves the running timer alone.
LEMMA PlanAttach ==
  ASSUME todo' = AttachWrites, ~reading'
  PROVE  Plan'
<1> DEFINE s == AttachWrites
<1>1. /\ s[1] = Write("A_CTRL", FALSE) /\ s[2] = Write("PENDING", Channels)
      /\ s[3] = Write("A_CTRL", TRUE) /\ Len(s) = 3
    BY DEF AttachWrites
<1>2. s \in Seq(Writes) /\ \A i \in 1 .. 3 : Legal(s[i])
    BY AttachList
<1> HIDE DEF s
<1>3. todo' = s
    BY DEF s
<1>4. s[1].reg = "A_CTRL" /\ s[2].reg = "PENDING" /\ s[3].reg = "A_CTRL"
    BY <1>1 DEF Write
<1>5. \A i \in 1 .. 3 : i = 1 \/ i = 2 \/ i = 3
    OBVIOUS
<1>6. TodoOK'
    BY <1>1, <1>2, <1>3 DEF TodoOK, Legal
<1>7. \A i \in 1 .. 3 : /\ ~Sets(s[i]) /\ ~Starts(s[i])
                        /\ s[i].reg # "A_COMPARE" /\ s[i].reg # "CHANNEL_ENABLE"
    BY <1>4, <1>5 DEF Sets, Starts
<1>8. TimerOrder'
    BY <1>1, <1>3, <1>7 DEF TimerOrder, Sets, Starts
<1>9. AlarmOrder'
    BY <1>1, <1>3, <1>7 DEF AlarmOrder, Aims, Opens
<1> QED
    BY <1>6, <1>8, <1>9 DEF Plan
\* omcu_alarm0_schedule aims a channel only between disabling and enabling it.
LEMMA PlanSchedule ==
  ASSUME TypeOK, NEW e \in SUBSET Channels, todo' = ScheduleWrites(e), ~reading',
         call'.ch = call.ch, call'.target = call.target
  PROVE  Plan'
<1> DEFINE s == ScheduleWrites(e)
<1>1. /\ s \in Seq(Writes) /\ Len(s) = 6
      /\ s[1] = Write("CHANNEL_ENABLE", e \ {call.ch})
      /\ s[2] = Write("PENDING", {call.ch})
      /\ s[3] = ChannelWrite("A_COMPARE", call.ch, call.target)
      /\ s[4] = ChannelWrite("PERIOD", call.ch, call.period)
      /\ s[5] = Write("PERIODIC", PeriodicBits)
      /\ s[6] = Write("CHANNEL_ENABLE", e \cup {call.ch})
      /\ \A i \in 1 .. 6 : Legal(s[i])
    BY ScheduleList
<1> HIDE DEF s
<1>3. todo' = s
    BY DEF s
<1>4. /\ s[1].reg = "CHANNEL_ENABLE" /\ call.ch \notin s[1].data
      /\ s[2].reg = "PENDING" /\ call.ch \in s[2].data
      /\ s[3].reg = "A_COMPARE" /\ s[3].ch = call.ch /\ s[3].data = call.target
      /\ s[4].reg = "PERIOD" /\ s[5].reg = "PERIODIC" /\ s[6].reg = "CHANNEL_ENABLE"
    BY <1>1 DEF Write, ChannelWrite
<1>5. \A i \in 1 .. 6 : i = 1 \/ i = 2 \/ i = 3 \/ i = 4 \/ i = 5 \/ i = 6
    OBVIOUS
<1>6. TodoOK'
    BY <1>1, <1>3 DEF TodoOK, Legal
<1>7. TimerOrder'
  <2>1. \A i \in 1 .. 6 : ~Sets(s[i]) /\ ~Starts(s[i])
      BY <1>4, <1>5 DEF Sets, Starts
  <2> QED
      BY <1>1, <1>3, <2>1 DEF TimerOrder, Sets, Starts
<1>8. AlarmOrder'
  <2> DEFINE c == call'.ch
             InOrder(i) ==
               /\ todo'[i].reg = "A_COMPARE" => todo'[i].ch = c /\ todo'[i].data = call'.target
               /\ todo'[i].reg = "A_COMPARE" \/ (todo'[i].reg = "CHANNEL_ENABLE" /\ c \in todo'[i].data) =>
                    \/ c \notin channels'
                    \/ \E j \in 1 .. i - 1 : todo'[j].reg = "CHANNEL_ENABLE" /\ c \notin todo'[j].data
               /\ todo'[i].reg = "CHANNEL_ENABLE" /\ c \in todo'[i].data =>
                    /\ i = Len(todo')
                    /\ \/ c \notin channels' /\ c \notin pending'
                       \/ \E j \in 1 .. i - 1 : todo'[j].reg = "PENDING" /\ c \in todo'[j].data
                    /\ \/ c \notin channels' /\ deadline'[c] = call'.target
                       \/ \E j \in 1 .. i - 1 : todo'[j].reg = "A_COMPARE"
                    /\ \A j \in 1 .. i - 1 : todo'[j].reg = "PENDING" /\ c \in todo'[j].data =>
                         \/ c \notin channels'
                         \/ \E k \in 1 .. j - 1 :
                               todo'[k].reg = "CHANNEL_ENABLE" /\ c \notin todo'[k].data
  <2> SUFFICES ASSUME NEW i \in 1 .. Len(todo') PROVE InOrder(i)
      BY DEF AlarmOrder, Aims, Opens, Shuts, Clears, Shut
  <2>1. c = call.ch /\ call'.target = call.target /\ todo' = s /\ Len(todo') = 6 /\ i \in 1 .. 6
      BY <1>1, <1>3
  <2> HIDE DEF c
  <2>2. CASE i = 3
    <3> 1 \in 1 .. i - 1
        BY <2>2
    <3> QED
        BY <1>4, <2>1, <2>2
  <2>3. CASE i = 6
    <3>1. 1 \in 1 .. i - 1 /\ 2 \in 1 .. i - 1 /\ 3 \in 1 .. i - 1
        BY <2>3
    <3>2. \A j \in 1 .. i - 1 : s[j].reg = "PENDING" => 1 \in 1 .. j - 1
        BY <1>4, <1>5, <2>3
    <3> QED
        BY <1>4, <2>1, <2>3, <3>1, <3>2
  <2>4. CASE i \notin {3, 6}
      BY <1>4, <1>5, <2>1, <2>4
  <2> QED
      BY <2>2, <2>3, <2>4
<1> QED
    BY <1>6, <1>7, <1>8 DEF Plan

-----------------------------------------------------------------------------
(* The invariant over the steps.                                           *)

\* Every clock is an edge with a legal write that is in order.
LEMMA ClockEdge ==
  ASSUME TypeOK, Plan, Clock
  PROVE  \E w : /\ Legal(w) /\ TimerReady(w) /\ AlarmReady(w) /\ Edge(w)
                /\ \/ call' = [call EXCEPT !.left = LeftAfter(w)]
                   \/ \E r \in Requests : ScheduleAfter(r) /\ w = NoWrite
<1>1. Legal(NoWrite) /\ TimerReady(NoWrite) /\ AlarmReady(NoWrite)
    BY LegalWrites, NoWriteReady DEF NoWrite, Write
<1>2. CASE Idle \/ StartPeriodic \/ AlarmStart \/ AlarmAttach \/ ReadEnables
    BY <1>1, <1>2 DEF Idle, StartPeriodic, AlarmStart, AlarmAttach, ReadEnables, Call, Elapse
<1>3. CASE BusWrite
    BY <1>3, HeadReady DEF BusWrite, Elapse
<1>4. CASE ClearPending
  <2> PICK mask \in SUBSET Channels : Elapse(Write("PENDING", mask))
      BY <1>4 DEF ClearPending
  <2>1. Write("PENDING", mask).reg = "PENDING" /\ Legal(Write("PENDING", mask))
      BY LegalWrites DEF Write
  <2> QED
      BY <2>1, NoWriteReady DEF Elapse
<1>5. CASE \E r \in Requests : ScheduleAfter(r)
    BY <1>1, <1>5 DEF ScheduleAfter
<1> QED
    BY <1>2, <1>3, <1>4, <1>5 DEF Clock

\* Every step keeps the order of the writes that are still to come.
LEMMA PlanStep == TypeOK /\ Plan /\ Clock => Plan'
<1> SUFFICES ASSUME TypeOK, Plan, Clock PROVE Plan'
    OBVIOUS
<1>1. CASE Idle
  <2>1. Legal(NoWrite) /\ NoWrite.reg = "none"
      BY LegalWrites DEF NoWrite, Write
  <2> QED
      BY <1>1, <2>1, PlanSame DEF Idle, Elapse, TypeOK
<1>2. CASE BusWrite
    BY <1>2, PlanTail DEF BusWrite, Elapse, TypeOK
<1>3. CASE StartPeriodic
  <2> PICK p \in Prescales, c \in Compares : Call(PeriodicWrites(p, c))
      BY <1>3 DEF StartPeriodic
  <2> p \in 0 .. PrescaleMax /\ c \in Counts
      BY AlarmAssumption
  <2> QED
      BY PlanPeriodic DEF Call, AtRest
<1>4. CASE AlarmStart
  <2> PICK p \in Prescales : Call(StartWrites(p))
      BY <1>4 DEF AlarmStart
  <2> p \in 0 .. PrescaleMax
      BY AlarmAssumption
  <2> QED
      BY PlanStart DEF Call, AtRest
<1>5. CASE AlarmAttach
    BY <1>5, PlanAttach DEF AlarmAttach, Call, AtRest
<1>6. CASE ClearPending
  <2> PICK mask \in SUBSET Channels : Elapse(Write("PENDING", mask))
      BY <1>6 DEF ClearPending
  <2>1. Write("PENDING", mask).reg = "PENDING" /\ Legal(Write("PENDING", mask))
      BY LegalWrites DEF Write
  <2> QED
      BY <1>6, <2>1, PlanSame DEF ClearPending, Elapse, TypeOK
<1>7. CASE \E r \in Requests : ScheduleAfter(r)
    BY <1>7, PlanEmpty DEF ScheduleAfter, AtRest
<1>8. CASE ReadEnables
  <2> channels \in SUBSET Channels
      BY DEF TypeOK
  <2> QED
      BY <1>8, PlanSchedule DEF ReadEnables, Elapse, TypeOK
<1> QED
    BY <1>1, <1>2, <1>3, <1>4, <1>5, <1>6, <1>7, <1>8 DEF Clock

\* A call is a record of its fields.
LEMMA CallType ==
  ASSUME NEW ch \in Channels, NEW target \in Half, NEW p \in Half, NEW b \in BOOLEAN,
         NEW left \in {None} \cup Half
  PROVE  [ch |-> ch, target |-> target, period |-> p, periodic |-> b, left |-> left]
           \in [ch : Channels, target : Half, period : Half,
                periodic : BOOLEAN, left : {None} \cup Half]
  OBVIOUS

\* The reset values have their types.
LEMMA TypeInit == Powerup => TypeOK
<1> SUFFICES ASSUME Powerup PROVE TypeOK
    OBVIOUS
<1> 0 \in Half /\ Top \in Half /\ 0 \in Channels /\ 0 \in 0 .. PrescaleMax
    BY AlarmAssumption DEF Half, Channels
<1>1. /\ ctrl \in SUBSET CtrlBits /\ prescale \in 0 .. PrescaleMax
      /\ prescaleCount \in 0 .. PrescaleMax /\ count \in Counts /\ compare \in Counts
    BY ConstantTypes DEF Powerup
<1>2. timerPending \in BOOLEAN /\ running \in BOOLEAN /\ reading \in BOOLEAN
    BY DEF Powerup
<1>3. /\ channels \in SUBSET Channels /\ periodic \in SUBSET Channels
      /\ pending \in SUBSET Channels /\ fired \in SUBSET Channels
    BY DEF Powerup
<1>4. /\ deadline \in [Channels -> Half] /\ period \in [Channels -> Half]
      /\ due \in [Channels -> {None} \cup Half]
    BY DEF Powerup
<1>5. call \in [ch : Channels, target : Half, period : Half,
                periodic : BOOLEAN, left : {None} \cup Half]
    BY CallType DEF Powerup
<1> QED
    BY <1>1, <1>2, <1>3, <1>4, <1>5 DEF TypeOK

\* Every clock keeps the types.
LEMMA TypeClock == TypeOK /\ Plan /\ Clock => TypeOK'
<1> SUFFICES ASSUME TypeOK, Plan, Clock PROVE TypeOK'
    OBVIOUS
<1>1. PICK w : /\ Legal(w) /\ Edge(w)
               /\ \/ call' = [call EXCEPT !.left = LeftAfter(w)]
                  \/ \E r \in Requests : ScheduleAfter(r) /\ w = NoWrite
    BY ClockEdge
<1>2. /\ ctrl' \in SUBSET CtrlBits
      /\ prescale' \in 0 .. PrescaleMax /\ prescaleCount' \in 0 .. PrescaleMax
      /\ count' \in Counts /\ compare' \in Counts /\ timerPending' \in BOOLEAN
    BY <1>1, TimerTypes DEF Edge
<1>3. /\ running' \in BOOLEAN /\ channels' \in SUBSET Channels
      /\ periodic' \in SUBSET Channels /\ pending' \in SUBSET Channels
      /\ deadline' \in [Channels -> Half] /\ period' \in [Channels -> Half]
    BY <1>1, AlarmTypes DEF Edge
<1>4. due' \in [Channels -> {None} \cup Half] /\ fired' \in SUBSET Channels
    BY <1>1, HistoryTypes DEF Edge
<1>5. reading' \in BOOLEAN
    BY DEF Clock, Idle, BusWrite, StartPeriodic, AlarmStart, AlarmAttach, ClearPending,
           ScheduleAfter, ReadEnables, Call, TypeOK
<1> DEFINE CallRecords == [ch : Channels, target : Half, period : Half,
                           periodic : BOOLEAN, left : {None} \cup Half]
<1>6. call' \in CallRecords
  <2>1. CASE call' = [call EXCEPT !.left = LeftAfter(w)]
    <3>1. LeftAfter(w) \in {None} \cup Half
        BY LeftType DEF LeftAfter, TypeOK
    <3> QED
        BY <2>1, <3>1 DEF TypeOK
  <2>2. ASSUME NEW r \in Requests, ScheduleAfter(r)
        PROVE  call' \in CallRecords
    <3>1. /\ r.ch \in Channels /\ r.delay \in 1 .. Top /\ r.period \in Half
          /\ r.periodic \in BOOLEAN /\ r.delay \in Half
        BY AlarmAssumption DEF Request, Half
    <3>2. count.lo \in Half
        BY DEF TypeOK, Counts
    <3>3. Plus(count.lo, r.delay) \in Half
        BY <3>1, <3>2, ConstantTypes
    <3>4. (IF Steady(NoWrite) THEN Left(r.delay) ELSE None) \in {None} \cup Half
        BY <3>1, LeftType
    <3>5. call' = [ch |-> r.ch, target |-> Plus(count.lo, r.delay),
                   period |-> r.period, periodic |-> r.periodic,
                   left |-> IF Steady(NoWrite) THEN Left(r.delay) ELSE None]
        BY <2>2 DEF ScheduleAfter
    <3> QED
        BY <3>1, <3>3, <3>4, <3>5, CallType
  <2> QED
      BY <1>1, <2>1, <2>2
<1> QED
    BY <1>2, <1>3, <1>4, <1>5, <1>6 DEF TypeOK
-----------------------------------------------------------------------------
(* The comparators of TIMER0.                                              *)

\* No edge steps over a value that a running counter is compared with.
LEMMA EqualityEdge ==
  ASSUME TypeOK, EqualityIsReached, NEW w, Legal(w), TimerReady(w), TimerEdge(w)
  PROVE  EqualityIsReached'
<1>1. Top \in Nat /\ HighTop \in Nat /\ PrescaleMax \in Nat
    BY AlarmAssumption
<1>2. prescaleCount' <= prescale'
  <2>1. /\ prescale \in 0 .. PrescaleMax /\ prescaleCount \in 0 .. PrescaleMax
        /\ prescaleCount <= prescale
      BY DEF TypeOK, EqualityIsReached
  <2>2. CASE w.reg = "PRESCALE"
    <3> Off /\ w.data \in 0 .. PrescaleMax
        BY <2>2 DEF TimerReady, Sets, Legal
    <3> QED
        BY <1>1, <2>2 DEF TimerEdge, Off
  <2>3. CASE w.reg # "PRESCALE"
      BY <1>1, <2>1, <2>3 DEF TimerEdge, Tick
  <2> QED
      BY <2>2, <2>3
<1>3. ASSUME "ENABLE" \in ctrl'
      PROVE  AtMost(count, compare)'
  <2>1. /\ count \in Counts /\ compare \in Counts
        /\ "ENABLE" \in ctrl => AtMost(count, compare)
      BY DEF TypeOK, EqualityIsReached
  <2>2. CASE w.reg = "T_CTRL"
    <3>1. Off /\ count = Zero
        BY <1>3, <2>2 DEF TimerReady, Starts, TimerEdge
    <3>2. count' = Zero /\ compare' = compare
        BY <2>2, <3>1 DEF TimerEdge, Off, Tick
    <3> QED
        BY <1>1, <2>1, <3>2 DEF AtMost, Zero, Counts, Half
  <2>3. CASE w.reg # "T_CTRL"
    <3>1. "ENABLE" \in ctrl
        BY <1>3, <2>3 DEF TimerEdge
    <3>2. ~Sets(w)
        BY <3>1 DEF TimerReady, Off
    <3>3. compare' = compare /\ w.reg # "COUNT"
        BY <3>2 DEF Sets, TimerEdge
    <3>4. CASE ~Tick
        BY <2>1, <3>1, <3>3, <3>4 DEF TimerEdge, AtMost
    <3>5. CASE Tick /\ CompareEvent
      <4>1. "RELOAD" \in ctrl
          BY <1>3, <2>3, <3>5 DEF TimerEdge
      <4>2. count' = Zero
          BY <3>3, <3>5, <4>1 DEF TimerEdge
      <4> QED
          BY <1>1, <2>1, <3>3, <4>2 DEF AtMost, Zero, Counts, Half
    <3>6. CASE Tick /\ ~CompareEvent
      <4>1. count' = Successor(count)
          BY <3>3, <3>6 DEF TimerEdge
      <4>2. count # compare /\ AtMost(count, compare)
          BY <2>1, <3>1, <3>6 DEF CompareEvent
      <4>3. /\ count.hi \in 0 .. HighTop /\ count.lo \in 0 .. Top
            /\ compare.hi \in 0 .. HighTop /\ compare.lo \in 0 .. Top
            /\ count.hi # compare.hi \/ count.lo # compare.lo
          BY <2>1, <4>2 DEF Counts, Half
      <4>4. AtMost(Successor(count), compare)
          BY <1>1, <4>2, <4>3 DEF AtMost, Successor
      <4> QED
          BY <3>3, <4>1, <4>4 DEF AtMost
    <3> QED
        BY <3>4, <3>5, <3>6
  <2> QED
      BY <2>2, <2>3
<1> QED
    BY <1>2, <1>3 DEF EqualityIsReached

-----------------------------------------------------------------------------
(* The deadlines of ALARM0.                                                *)

\* How many ticks are left, as the registers and the call in progress have it.
DueInRegisters ==
  /\ call.left # None => call.target = Plus(count.lo, call.left)
  /\ \A ch \in Channels : due[ch] # None =>
       ch \in channels /\ deadline[ch] = Plus(count.lo, due[ch])

\* While nothing disturbs TIMER0, the lower half word moves with the ticks.
LEMMA SteadyCount ==
  ASSUME TypeOK, NEW w, Steady(w), TimerEdge(w)
  PROVE  /\ ~Tick => count'.lo = count.lo
         /\ Tick => count'.lo = Plus(count.lo, 1) \/ (Top = 0 /\ count'.lo = 0)
<1>1. w.reg # "COUNT" /\ (CompareEvent => count = Last /\ "RELOAD" \in ctrl)
    BY DEF Steady
<1>2. Top \in Nat /\ count.lo \in 0 .. Top
    BY AlarmAssumption DEF TypeOK, Counts, Half
<1>3. CASE ~Tick
    BY <1>1, <1>3 DEF TimerEdge
<1>4. CASE Tick /\ ~CompareEvent
  <2> count' = Successor(count)
      BY <1>1, <1>4 DEF TimerEdge
  <2> QED
      BY <1>2, <1>4 DEF Successor, Plus
<1>5. CASE Tick /\ CompareEvent
  <2> count' = Zero /\ count.lo = Top
      BY <1>1, <1>5 DEF TimerEdge, Last
  <2> QED
      BY <1>2, <1>5 DEF Zero, Plus
<1> QED
    BY <1>3, <1>4, <1>5

\* So what is due in n ticks is due in one less after a tick.
LEMMA SteadyLeft ==
  ASSUME TypeOK, NEW w, Steady(w), TimerEdge(w), NEW n \in {None} \cup Half, Left(n) # None
  PROVE  n # None /\ Plus(count'.lo, Left(n)) = Plus(count.lo, n)
<1>1. Top \in Nat /\ count.lo \in 0 .. Top /\ n \in 0 .. Top
    BY AlarmAssumption DEF TypeOK, Counts, Half, Left, None
<1>2. CASE ~Tick
    BY <1>1, <1>2, SteadyCount DEF Left, None
<1>3. CASE Tick
  <2>1. Left(n) = n - 1 /\ n >= 1
      BY <1>1, <1>3 DEF Left, None
  <2>2. count'.lo = Plus(count.lo, 1)
      BY <1>1, <1>3, <2>1, SteadyCount
  <2> QED
      BY <1>1, <2>1, <2>2 DEF Plus, None
<1> QED
    BY <1>2, <1>3

\* After an edge, the compare value of a due channel is as many ticks ahead of
\* COUNT as the history says.
LEMMA DueEdge ==
  ASSUME TypeOK, DueInRegisters, NEW w, Legal(w), AlarmReady(w), Edge(w),
         NEW ch \in Channels, due'[ch] # None
  PROVE  ch \in channels' /\ deadline'[ch] = Plus(count'.lo, due'[ch])
<1>1. /\ Steady(w) /\ ch \in channels' /\ TimerEdge(w)
      /\ due'[ch] = IF Enables(w, ch) THEN Left(call.left)
                    ELSE IF ~Event(ch) THEN Left(due[ch])
                    ELSE IF Repeats(ch) /\ due[ch] # None THEN period[ch] - 1 ELSE None
    BY DEF Edge, History
<1>2. deadline'[ch] = IF w.reg = "A_COMPARE" /\ w.ch = ch THEN w.data
                      ELSE IF Event(ch) /\ Repeats(ch) THEN Plus(deadline[ch], period[ch])
                      ELSE deadline[ch]
    BY DEF Edge, AlarmEdge
<1>3. /\ call.left \in {None} \cup Half /\ due[ch] \in {None} \cup Half
      /\ Top \in Nat /\ count.lo \in 0 .. Top /\ period[ch] \in 0 .. Top
    BY AlarmAssumption DEF TypeOK, Counts, Half
<1>4. CASE Enables(w, ch)
  <2>1. Opens(w) /\ ch = call.ch /\ w.reg # "A_COMPARE"
      BY <1>4 DEF Enables, Opens
  <2>2. ch \notin channels /\ deadline[ch] = call.target
      BY <2>1 DEF AlarmReady, Shut
  <2>3. deadline'[ch] = call.target
      BY <1>2, <2>1, <2>2 DEF Event
  <2>4. call.left # None /\ Plus(count'.lo, Left(call.left)) = Plus(count.lo, call.left)
      BY <1>1, <1>3, <1>4, SteadyLeft
  <2> QED
      BY <1>1, <1>4, <2>3, <2>4 DEF DueInRegisters
<1>5. CASE ~Enables(w, ch)
  <2>1. due[ch] # None
      BY <1>1, <1>5 DEF Left
  <2>2. ch \in channels /\ deadline[ch] = Plus(count.lo, due[ch])
      BY <2>1 DEF DueInRegisters
  <2>3. ~(w.reg = "A_COMPARE" /\ w.ch = ch)
      BY <2>2 DEF AlarmReady, Aims, Shut
  <2>4. CASE ~Event(ch)
    <3> Plus(count'.lo, Left(due[ch])) = Plus(count.lo, due[ch])
        BY <1>1, <1>3, <1>5, <2>4, SteadyLeft
    <3> QED
        BY <1>1, <1>2, <1>5, <2>2, <2>3, <2>4
  <2>5. CASE Event(ch)
    <3>1. Tick /\ count.lo = deadline[ch] /\ Repeats(ch) /\ period[ch] # 0
        BY <1>1, <1>5, <2>5 DEF Event, Repeats
    <3>2. deadline'[ch] = Plus(count.lo, period[ch]) /\ due'[ch] = period[ch] - 1
        BY <1>1, <1>2, <1>5, <2>1, <2>3, <2>5, <3>1
    <3>3. count'.lo = Plus(count.lo, 1)
        BY <1>1, <1>3, <3>1, SteadyCount
    <3> QED
        BY <1>1, <1>3, <3>1, <3>2, <3>3 DEF Plus
  <2> QED
      BY <2>4, <2>5
<1> QED
    BY <1>4, <1>5

\* Every clock keeps the history of deadlines in the registers.
LEMMA DueStep == TypeOK /\ Plan /\ DueInRegisters /\ Clock => DueInRegisters'
<1> SUFFICES ASSUME TypeOK, Plan, DueInRegisters, Clock PROVE DueInRegisters'
    OBVIOUS
<1>1. PICK w : /\ Legal(w) /\ AlarmReady(w) /\ Edge(w)
               /\ \/ call' = [call EXCEPT !.left = LeftAfter(w)]
                  \/ \E r \in Requests : ScheduleAfter(r) /\ w = NoWrite
    BY ClockEdge
<1>2. \A ch \in Channels : due'[ch] # None =>
        ch \in channels' /\ deadline'[ch] = Plus(count'.lo, due'[ch])
    BY <1>1, DueEdge
<1>3. ASSUME call'.left # None
      PROVE  call'.target = Plus(count'.lo, call'.left)
  <2>1. CASE call' = [call EXCEPT !.left = LeftAfter(w)]
    <3>1. /\ call'.left = LeftAfter(w) /\ call'.target = call.target
          /\ call.left \in {None} \cup Half
        BY <2>1 DEF TypeOK
    <3>2. Steady(w) /\ call'.left = Left(call.left)
        BY <1>3, <3>1 DEF LeftAfter
    <3>3. call.left # None /\ Plus(count'.lo, Left(call.left)) = Plus(count.lo, call.left)
        BY <1>1, <1>3, <3>1, <3>2, SteadyLeft DEF Edge
    <3> QED
        BY <3>1, <3>2, <3>3 DEF DueInRegisters
  <2>2. ASSUME NEW r \in Requests, ScheduleAfter(r), w = NoWrite
        PROVE  call'.target = Plus(count'.lo, call'.left)
    <3>1. /\ call'.target = Plus(count.lo, r.delay)
          /\ call'.left = IF Steady(NoWrite) THEN Left(r.delay) ELSE None
        BY <2>2 DEF ScheduleAfter
    <3>2. r.delay \in {None} \cup Half
        BY AlarmAssumption DEF Request, Half
    <3>3. Steady(w) /\ call'.left = Left(r.delay)
        BY <1>3, <2>2, <3>1
    <3> QED
        BY <1>1, <1>3, <3>1, <3>2, <3>3, SteadyLeft DEF Edge
  <2> QED
      BY <1>1, <2>1, <2>2
<1> QED
    BY <1>2, <1>3 DEF DueInRegisters
-----------------------------------------------------------------------------
(* The theorems.                                                           *)

AlarmInvariant == TypeOK /\ Plan /\ EqualityIsReached /\ DueInRegisters

\* The reset values satisfy the invariant.
LEMMA InvariantInit == Powerup => AlarmInvariant
<1> SUFFICES ASSUME Powerup PROVE AlarmInvariant
    OBVIOUS
<1>1. TypeOK
    BY TypeInit
<1>2. Plan
  <2>1. todo \in Seq(Writes) /\ Len(todo) = 0 /\ \A i : i \notin 1 .. 0
      BY DEF Powerup
  <2> QED
      BY <2>1 DEF Plan, TodoOK, TimerOrder, AlarmOrder, Powerup
<1>3. EqualityIsReached
    BY DEF Powerup, EqualityIsReached
<1>4. DueInRegisters
    BY DEF Powerup, DueInRegisters
<1> QED
    BY <1>1, <1>2, <1>3, <1>4 DEF AlarmInvariant

\* The values after a reset are those of power up.
LEMMA InvariantReset == Reset => AlarmInvariant'
<1> SUFFICES ASSUME Reset PROVE AlarmInvariant'
    OBVIOUS
<1> 0 \in Half /\ Top \in Half /\ 0 \in Channels /\ 0 \in 0 .. PrescaleMax
    BY AlarmAssumption DEF Half, Channels
<1>1. TypeOK'
  <2>1. /\ ctrl' \in SUBSET CtrlBits /\ prescale' \in 0 .. PrescaleMax
        /\ prescaleCount' \in 0 .. PrescaleMax /\ count' \in Counts /\ compare' \in Counts
      BY ConstantTypes DEF Reset
  <2>2. timerPending' \in BOOLEAN /\ running' \in BOOLEAN /\ reading' \in BOOLEAN
      BY DEF Reset
  <2>3. /\ channels' \in SUBSET Channels /\ periodic' \in SUBSET Channels
        /\ pending' \in SUBSET Channels /\ fired' \in SUBSET Channels
      BY DEF Reset
  <2>4. /\ deadline' \in [Channels -> Half] /\ period' \in [Channels -> Half]
        /\ due' \in [Channels -> {None} \cup Half]
      BY DEF Reset
  <2>5. call' \in [ch : Channels, target : Half, period : Half,
                   periodic : BOOLEAN, left : {None} \cup Half]
      BY CallType DEF Reset
  <2> QED
      BY <2>1, <2>2, <2>3, <2>4, <2>5 DEF TypeOK
<1>2. Plan'
    BY PlanEmpty DEF Reset
<1>3. EqualityIsReached'
    BY DEF Reset, EqualityIsReached
<1>4. DueInRegisters'
    BY DEF Reset, DueInRegisters
<1> QED
    BY <1>1, <1>2, <1>3, <1>4 DEF AlarmInvariant

\* Every step keeps the invariant.
LEMMA InvariantStep == AlarmInvariant /\ [Next]_alarmVars => AlarmInvariant'
<1> SUFFICES ASSUME AlarmInvariant, [Next]_alarmVars PROVE AlarmInvariant'
    OBVIOUS
<1>1. TypeOK /\ Plan /\ EqualityIsReached /\ DueInRegisters
    BY DEF AlarmInvariant
<1>2. CASE Clock
  <2>1. EqualityIsReached'
    <3> PICK w : Legal(w) /\ TimerReady(w) /\ Edge(w)
        BY <1>1, <1>2, ClockEdge
    <3> QED
        BY <1>1, EqualityEdge DEF Edge
  <2> QED
      BY <1>1, <1>2, <2>1, TypeClock, PlanStep, DueStep DEF AlarmInvariant
<1>3. CASE Reset
    BY <1>3, InvariantReset
<1>4. CASE UNCHANGED alarmVars
  <2> UNCHANGED <<ctrl, prescale, prescaleCount, count, compare, timerPending, running,
                  channels, periodic, pending, deadline, period, todo, reading, call, due, fired>>
      BY <1>4 DEF alarmVars, timer, alarm, sdk
  <2>1. TypeOK'
      BY <1>1 DEF TypeOK
  <2>2. Plan'
      BY <1>1 DEF Plan, TodoOK, TimerOrder, AlarmOrder, Legal, Off, Sets, Starts, Stops,
                  Shut, Shuts, Opens, Clears, Aims
  <2>3. EqualityIsReached' /\ DueInRegisters'
      BY <1>1 DEF EqualityIsReached, AtMost, DueInRegisters
  <2> QED
      BY <2>1, <2>2, <2>3 DEF AlarmInvariant
<1> QED
    BY <1>2, <1>3, <1>4 DEF Next

\* The inductive invariant behind the theorems.
LEMMA AlarmInvariantHolds == Spec => []AlarmInvariant
<1> QED
    BY InvariantInit, InvariantStep, PTL DEF Spec

\* The registers and the SDK's request keep their types.
THEOREM AlarmTypesHold == Spec => []TypeOK
<1>1. AlarmInvariant => TypeOK
    BY DEF AlarmInvariant
<1> QED
    BY <1>1, AlarmInvariantHolds, PTL

\* With counters of any width, neither comparator of TIMER0 is ever passed.
THEOREM ComparatorsAreReached == Spec => []EqualityIsReached
<1>1. AlarmInvariant => EqualityIsReached
    BY DEF AlarmInvariant
<1> QED
    BY <1>1, AlarmInvariantHolds, PTL

\* An alarm enabled in time fires in the tick it was asked for, at any width of
\* the counter and for any request the SDK accepts.
THEOREM AlarmsFireWhenDue == Spec => FiresWhenDue
<1> DEFINE OnTime == \A ch \in Channels :
             due[ch] # None /\ running /\ Tick /\ Clock => (Event(ch) <=> due[ch] = 0)
<1>1. AlarmInvariant => OnTime
  <2> SUFFICES ASSUME TypeOK, DueInRegisters, NEW ch \in Channels,
                      due[ch] # None, running, Tick
               PROVE  Event(ch) <=> due[ch] = 0
      BY DEF AlarmInvariant
  <2>1. /\ Top \in Nat /\ count.lo \in 0 .. Top /\ due[ch] \in 0 .. Top
        /\ ch \in channels /\ deadline[ch] = Plus(count.lo, due[ch])
      BY AlarmAssumption DEF TypeOK, Counts, Half, DueInRegisters
  <2>2. count.lo = Plus(count.lo, due[ch]) <=> due[ch] = 0
      BY <2>1 DEF Plus
  <2> QED
      BY <2>1, <2>2 DEF Event
<1> QED
    BY <1>1, AlarmInvariantHolds, PTL DEF FiresWhenDue

\* A flag is set by its event whatever is acknowledged in that clock.
THEOREM EventsStayPending == Spec => EventStaysPending
<1> DEFINE Stays == Clock => /\ CompareEvent => timerPending'
                             /\ \A ch \in Channels : Event(ch) => ch \in pending'
<1>1. AlarmInvariant => Stays
  <2> SUFFICES ASSUME AlarmInvariant, Clock
               PROVE  /\ CompareEvent => timerPending'
                      /\ \A ch \in Channels : Event(ch) => ch \in pending'
      OBVIOUS
  <2> PICK w : Edge(w)
      BY ClockEdge DEF AlarmInvariant
  <2> QED
      BY DEF Edge, TimerEdge, AlarmEdge, PendingAfter
<1> QED
    BY <1>1, AlarmInvariantHolds, PTL DEF EventStaysPending

\* What omcu_alarm0_schedule enables has its flag clear.
THEOREM SchedulesAreFresh == Spec => ScheduledIsFresh
<1> DEFINE Fresh == \A ch \in Channels :
             ch \in fired /\ ch \notin fired' /\ Clock => ch \notin pending'
<1>1. AlarmInvariant => Fresh
  <2> SUFFICES ASSUME TypeOK, Plan, Clock, NEW ch \in Channels, ch \in fired, ch \notin fired'
               PROVE  ch \notin pending'
      BY DEF AlarmInvariant
  <2> PICK w : AlarmReady(w) /\ Edge(w)
      BY ClockEdge
  <2>1. ~Event(ch) /\ Enables(w, ch)
      BY DEF Edge, History
  <2>2. Opens(w) /\ ch = call.ch /\ w.reg # "PENDING"
      BY <2>1 DEF Enables, Opens
  <2>3. ch \notin pending
      BY <2>2 DEF AlarmReady
  <2> QED
      BY <2>1, <2>2, <2>3 DEF Edge, AlarmEdge, PendingAfter
<1> QED
    BY <1>1, AlarmInvariantHolds, PTL DEF ScheduledIsFresh
=============================================================================
