---------------------------- MODULE DeviceProofs ----------------------------
(***************************************************************************)
(* The drivers of omcu_devices.c.  The W5500, for rings and pointers of any *)
(* size, any calls and any outcome of the waits: the bytes of either stream *)
(* keep their order, success is told only of bytes that left, and none that *)
(* waits is written over.  The conversions of the other devices, for every  *)
(* value.                                                                   *)
(***************************************************************************)
EXTENDS W5500, DeviceCodecs, TLAPS, SequenceTheorems

-----------------------------------------------------------------------------
(* The frame under way.                                                    *)

\* The byte in the shift register and the header, before and after the exchange.
Pending ==
  IF busy THEN /\ shift = units[k]
               /\ window = IF k = 1 THEN <<>> ELSE <<units[1], k - 2>>
  ELSE window = <<units[1], k - 1>>

Framed ==
  /\ {enable, busy, hold, cs} \subseteq BOOLEAN /\ k \in Nat \ {0}
  /\ fpc \in {"none", "byte", "poll", "end"}
  /\ hold <=> fpc # "none"
  /\ reply = [i \in 1 .. k - 1 |-> reply[i]]
  /\ busy => cs
  /\ fpc = "none" => /\ k = 1
                     /\ busy => step = 1
                     /\ ~busy => ~cs /\ window = <<>>
  /\ fpc # "none" => Calling /\ units = Access(Name)
  /\ fpc = "byte" => /\ ~busy /\ k <= Len(units)
                     /\ IF k = 1 THEN ~cs /\ window = <<>>
                        ELSE cs /\ window = <<units[1], k - 2>>
  /\ fpc = "poll" => k <= Len(units) /\ cs /\ Pending
  /\ fpc = "end"  => /\ k <= Len(units) + 1 /\ cs
                     /\ IF k > Len(units) THEN ~busy /\ window = <<units[1], k - 2>>
                        ELSE Pending

\* The data bytes that have been exchanged, and what the chip answered to them.
Moved  == IF fpc = "none" \/ window = <<>> THEN 0 ELSE window[2]
Ans(j) == IF j + 2 < k THEN reply[j + 2] ELSE shift

-----------------------------------------------------------------------------
(* Types.                                                                  *)

Ops      == {"initialize", "open", "connect", "send", "receive"}
Commands == {"CLOSE", "OPEN", "CONNECT", "SEND", "RECV"}
Flags    == {"SENDOK", "TIMEOUT"}
Pointers == 0 .. M - 1

ChipType ==
  [mr : BOOLEAN, cr : Commands \cup {"none"}, ir : SUBSET Flags,
   sr : {"closed", "init", "established"}, set : SUBSET Configs,
   txWr : Pointers, txRd : Pointers, txEnd : Pointers,
   rxWr : Pointers, rxRd : Pointers, rxRdReg : Pointers]

Steps == [op \in Ops |-> Len(Program(op))]

Typed ==
  /\ chip \in ChipType
  /\ txRing \in [Ring -> Nat] /\ rxRing \in [Ring -> Nat] /\ arrived \in Nat
  /\ up \in {"initialize", "open", "connect", "run"}
  /\ next \in Nat \ {0} /\ ptr \in Pointers /\ sent \in Seq(Nat)
  /\ {torn, lost, abandoned} \subseteq BOOLEAN
  /\ call \in [op : Ops \cup {"none"}, n : Nat]
  /\ ~Calling => call = Idle /\ step = 1
  /\ Calling => /\ call.n \in 1 .. Buf /\ step \in 1 .. Steps[call.op]
                /\ IF call.op \in {"send", "receive"} THEN up = "run"
                   ELSE up = call.op /\ call.n = 1
                /\ ret.op = "none"
  /\ call.op = "send" => call.n < next

-----------------------------------------------------------------------------
(* What a read has brought.                                                *)

Reading(name) == Calling /\ Name = name /\ fpc # "none"

\* The register v, digit by digit.
Shows(v) == /\ Moved >= 1 => Ans(0) = v \div B
            /\ Moved >= 2 => Ans(1) = v % B

\* A size, which may have grown since.
AtMost(v) == /\ Moved >= 1 => Ans(0) * B <= v
             /\ Moved >= 2 => Ans(0) * B + Ans(1) <= v

Read ==
  /\ \A name \in {"FSR", "RSR"} : Reading(name) =>
       \A j \in 0 .. 1 : j < Moved => Ans(j) \in 0 .. B - 1
  /\ Reading("TX_WR") => Shows(chip.txWr)
  /\ Reading("RX_RD") => Shows(chip.rxRdReg)
  /\ Reading("FSR") /\ ~(torn /\ abandoned) => AtMost(Free)
  /\ Reading("RSR") /\ ~lost => AtMost(Received)
  /\ Reading("CR?") /\ Moved >= 1 /\ Ans(0) = 0 => chip.cr = "none"
  /\ Reading("MR?") /\ Moved >= 1 /\ Ans(0) = 0 => ~chip.mr
  /\ Reading("IR?") /\ Moved >= 1 => Ans(0) \subseteq chip.ir

\* The chip is reset before anything else happens, and never again.
ResetOnce ==
  /\ up = "initialize" => chip = [Reset EXCEPT !.mr = chip.mr, !.set = chip.set]
  /\ up # "initialize" => ~chip.mr
  /\ call.op = "initialize" /\ step >= 3 => ~chip.mr

-----------------------------------------------------------------------------
(* The pointers of a call.                                                 *)

Sends    == call.op = "send"
Receives == call.op = "receive"

\* The register while PUT_WR or PUT_RD replaces ptr by Target.
Between(m) == CASE m = 0 -> ptr
                [] m = 1 -> (Target \div B) * B + (ptr % B)
                [] OTHER -> Target
Put == Between(IF step < 5 THEN 0 ELSE IF step = 5 THEN Moved ELSE 2)

\* The command has reached the chip, which has still to take it or has done so.
Commanded == step >= 7 \/ (step = 6 /\ Moved = 1)
SendTaken == Sends /\ Commanded /\ chip.cr # "SEND"
RecvTaken == Receives /\ Commanded /\ chip.cr # "RECV"

Commands6 ==
  /\ chip.cr = "SEND" => (Sends /\ Commanded) \/ (torn /\ abandoned)
  /\ chip.cr = "RECV" => (Receives /\ Commanded) \/ lost
  /\ Sends /\ step >= 8 => chip.cr # "SEND"

\* Where this send or receive begins.
TxBase == IF Sends /\ step >= 3 THEN ptr ELSE chip.txWr
RxBase == IF Receives /\ step >= 3 THEN ptr ELSE chip.rxRdReg

Slot(p, i) == (p + i) % Buf
Waiting == Dist(chip.txRd, chip.txEnd)

\* How much of the call is in the ring, or has been read from it.
Filled == CASE step = 3 -> Moved [] step = 4 -> First + Moved [] OTHER -> call.n
Held   == CASE step <= 3 -> 0 [] step = 4 -> First [] OTHER -> call.n

Sending ==
  /\ Sends /\ step >= 3 =>
       /\ chip.txWr = Put
       /\ \A i \in 0 .. Filled - 1 : txRing[Slot(ptr, i)] = next - call.n + i
  /\ Sends /\ step >= 2 /\ ~SendTaken /\ ~(torn /\ abandoned) =>
       Dist(chip.txRd, TxBase) + call.n <= Buf
  /\ Sends /\ step = 4 => First < call.n
  /\ Sends /\ step = 9 => val \subseteq Flags

\* The first number that has not been handed to the chip.
Limit == IF Sends /\ ~SendTaken THEN next - call.n ELSE next

\* The chip is transmitting up to the byte with this number.
Order(last) ==
  /\ last < Limit /\ last >= Waiting
  /\ \A i \in 0 .. Waiting - 1 : txRing[Slot(chip.txRd, i)] = last - Waiting + 1 + i
  /\ \A j \in 1 .. Len(sent) : sent[j] \in 1 .. last - Waiting
  /\ \A i, j \in 1 .. Len(sent) : i < j => sent[i] < sent[j]

InOrder ==
  ~torn => /\ chip.txEnd = IF SendTaken THEN chip.txWr ELSE TxBase
           /\ Waiting <= Buf
           /\ \E last \in 0 .. next : Order(last)

\* The bytes of this send are on the wire, or still waiting.
OnTheirWay ==
  \A j \in 1 .. call.n :
    \/ next - j \in Numbers(sent)
    \/ j <= Waiting /\ txRing[Slot(chip.txRd, Waiting - j)] = next - j

Told ==
  ~abandoned =>
    /\ ~SendTaken => Waiting = 0 /\ chip.ir = {}
    /\ SendTaken /\ step < 9 =>
         \/ chip.ir = {"TIMEOUT"} /\ Waiting = 0
         \/ chip.ir = {} /\ Waiting # 0 /\ OnTheirWay
         \/ chip.ir = {"SENDOK"} /\ Waiting = 0 /\ OnTheirWay
    /\ Sends /\ step = 9 =>
         /\ Waiting = 0 /\ chip.ir = IF Moved = 0 THEN val ELSE {}
         /\ "SENDOK" \in val => OnTheirWay
    /\ ret.op = "send" /\ ret.v => next - ret.n .. next - 1 \subseteq Numbers(sent)

Receiving ==
  /\ Receives /\ step >= 3 => chip.rxRdReg = Put
  /\ Receives /\ step = 4 => First < call.n
  /\ ~lost =>
       /\ chip.rxRd = IF RecvTaken THEN chip.rxRdReg ELSE RxBase
       /\ Received <= Buf /\ Received <= arrived
       /\ \A i \in 0 .. Received - 1 :
            rxRing[Slot(chip.rxRd, i)] = arrived - Received + 1 + i
       /\ taken \in Seq(Nat) /\ taken = [i \in 1 .. Len(taken) |-> i]
       /\ Len(taken) + (IF RecvTaken THEN call.n ELSE 0) = arrived - Received
       /\ Receives /\ step >= 2 /\ ~RecvTaken => call.n <= Received
       /\ Receives =>
            got = [j \in 1 .. Held |-> Len(taken) + j]
       /\ Receives /\ step \in {3, 4} =>
            \A j \in 0 .. Moved - 1 : Ans(j) = Len(taken) + Held + 1 + j

-----------------------------------------------------------------------------
(* A byte that moves on after its frame was given up.                      *)

FreeSlot(p) == \E i \in Waiting .. Buf - 1 : p = Slot(chip.txRd, i)

Harmless(h, i, d) ==
  /\ h.reg = "TXBUF" => d \in Nat /\ h.off + i \in Ring /\ (torn \/ FreeSlot(h.off + i))
  /\ h.reg = "TX_WR" => torn /\ i \in {0, 1} /\ d \in 0 .. B - 1
  /\ h.reg = "RX_RD" => lost /\ i \in {0, 1} /\ d \in 0 .. B - 1
  /\ h.reg = "CR" => d \in Commands /\ (d = "SEND" => torn /\ abandoned) /\ (d = "RECV" => lost)
  /\ h.reg = "IR" => abandoned
  /\ h.reg = "MR" => up = "initialize"
  /\ up = "initialize" => h.reg \in {"MR"} \cup Configs

Left == fpc = "none" /\ busy /\ window # <<>> /\ ~window[1].read
          => Harmless(window[1], window[2], shift)

W5Inv ==
  /\ Framed /\ Typed /\ Read /\ ResetOnce /\ Commands6
  /\ Sending /\ InOrder /\ Told /\ Receiving /\ Left

-----------------------------------------------------------------------------
(* Sequences.                                                              *)

\* A sequence with one more element in front.
LEMMA Prefixed ==
  ASSUME NEW h, NEW n \in Nat, NEW f, f = [i \in 1 .. n |-> f[i]]
  PROVE  /\ Len(<<h>> \o f) = n + 1
         /\ (<<h>> \o f)[1] = h
         /\ \A j \in 0 .. n - 1 : (<<h>> \o f)[j + 2] = f[j + 1]
<1> DEFINE S == {h} \cup {f[i] : i \in 1 .. n}
<1>1. f \in Seq(S) /\ Len(f) = n
  <2>1. f \in [1 .. n -> S]
    OBVIOUS
  <2> QED BY <2>1, SeqDef
<1>2. <<h>> \in Seq(S) /\ Len(<<h>>) = 1 /\ <<h>>[1] = h
  OBVIOUS
<1> HIDE DEF S
<1>3. /\ Len(<<h>> \o f) = 1 + n
      /\ \A i \in 1 .. 1 + n : (<<h>> \o f)[i] = IF i <= 1 THEN <<h>>[i] ELSE f[i - 1]
  BY <1>1, <1>2, ConcatProperties
<1>4. (<<h>> \o f)[1] = h
  BY <1>2, <1>3
<1>5. ASSUME NEW j \in 0 .. n - 1 PROVE (<<h>> \o f)[j + 2] = f[j + 1]
  <2>1. j + 2 \in 1 .. 1 + n /\ ~(j + 2 <= 1) /\ (j + 2) - 1 = j + 1
    OBVIOUS
  <2> QED BY <1>3, <2>1
<1> QED BY <1>3, <1>4, <1>5

\* A sequence with one more element behind.
LEMMA Appended ==
  ASSUME NEW s, NEW n \in Nat, s = [i \in 1 .. n |-> s[i]], NEW e
  PROVE  /\ Append(s, e) = [i \in 1 .. n + 1 |-> Append(s, e)[i]]
         /\ \A i \in 1 .. n : Append(s, e)[i] = s[i]
         /\ Append(s, e)[n + 1] = e
<1> DEFINE S == {e} \cup {s[i] : i \in 1 .. n}
<1>1. s \in Seq(S) /\ Len(s) = n /\ e \in S
  <2>1. s \in [1 .. n -> S]
    OBVIOUS
  <2> QED BY <2>1, SeqDef
<1> HIDE DEF S
<1>2. /\ Append(s, e) \in Seq(S) /\ Len(Append(s, e)) = n + 1
      /\ \A i \in 1 .. n : Append(s, e)[i] = s[i]
      /\ Append(s, e)[n + 1] = e
  BY <1>1, AppendProperties
<1>3. Append(s, e) \in [1 .. n + 1 -> S]
  BY <1>2, LenProperties
<1> QED BY <1>2, <1>3

-----------------------------------------------------------------------------
(* The accesses.                                                           *)

\* What an access reads or writes: where, and which bytes.
Reads == {"FSR", "TX_WR", "RSR", "RX_RD", "MR?", "CR?", "IR?", "SR", "VERSIONR",
          "TAKE", "TAKE2"}
Doubles == {"FSR", "TX_WR", "RSR", "RX_RD", "PUT_WR", "PUT_RD"}

RegOf(name) ==
  IF name = "MR?" THEN "MR" ELSE IF name = "CR?" \/ name \in Commands THEN "CR"
  ELSE IF name = "IR?" \/ name = "ACK" THEN "IR"
  ELSE IF name = "FILL" \/ name = "FILL2" THEN "TXBUF"
  ELSE IF name = "TAKE" \/ name = "TAKE2" THEN "RXBUF"
  ELSE IF name = "PUT_WR" THEN "TX_WR" ELSE IF name = "PUT_RD" THEN "RX_RD" ELSE name

OffOf(name) == IF name = "FILL" \/ name = "TAKE" THEN Offset ELSE 0

LenOf(name) ==
  IF name \in Doubles THEN 2 ELSE IF name = "FILL" \/ name = "TAKE" THEN First
  ELSE IF name = "FILL2" \/ name = "TAKE2" THEN call.n - First ELSE 1

DataOf(name, j) ==
  IF name = "FILL" THEN next - call.n + j
  ELSE IF name = "FILL2" THEN next - call.n + First + j
  ELSE IF name = "PUT_WR" \/ name = "PUT_RD" THEN Digit(Target, j)
  ELSE IF name = "ACK" THEN val ELSE IF name \in Commands THEN name ELSE 1

Names == Reads \cup Commands \cup Configs
           \cup {"MR", "ACK", "FILL", "FILL2", "PUT_WR", "PUT_RD"}

\* The ring is smaller than the range of its pointers.
LEMMA MFacts == B \in Nat /\ B >= 2 /\ Buf \in Nat /\ Buf >= 1 /\ M \in Nat /\ M > Buf
<1>1. B \in Nat /\ Buf \in Nat /\ Buf >= 1 /\ Buf < M
  BY RingAssumption
<1>2. B # 0 /\ B # 1
  BY <1>1 DEF M
<1>3. M \in Nat
  BY <1>1 DEF M
<1> QED BY <1>1, <1>2, <1>3

\* The part of a transfer before the end of the ring.
LEMMA FirstIs ==
  ASSUME Typed, Calling
  PROVE  /\ Offset \in 0 .. Buf - 1 /\ First \in 1 .. call.n
         /\ First + Offset <= Buf /\ (First < call.n => First + Offset = Buf)
         /\ call.n \in 1 .. Buf
<1>1. ptr \in Nat /\ call.n \in 1 .. Buf
  BY MFacts DEF Typed, Pointers
<1>2. Offset \in 0 .. Buf - 1
  BY <1>1, MFacts DEF Offset
<1> HIDE DEF Offset
<1> QED BY <1>1, <1>2, MFacts DEF First

\* A read frame is its header and the bytes to be clocked in.
LEMMA ReadOfIs ==
  ASSUME NEW reg, NEW off, NEW n \in Nat
  PROVE  /\ Len(ReadOf(reg, off, n)) = n + 1
         /\ ReadOf(reg, off, n)[1] = [reg |-> reg, off |-> off, read |-> TRUE]
<1> DEFINE f == [i \in 1 .. n |-> 0]
<1>1. f = [i \in 1 .. n |-> f[i]]
  OBVIOUS
<1> HIDE DEF f
<1>2. Len(<<[reg |-> reg, off |-> off, read |-> TRUE]>> \o f) = n + 1
  BY <1>1, Prefixed
<1>3. (<<[reg |-> reg, off |-> off, read |-> TRUE]>> \o f)[1]
        = [reg |-> reg, off |-> off, read |-> TRUE]
  BY <1>1, Prefixed
<1> QED BY <1>2, <1>3, Zenon DEF ReadOf, f

\* A write frame is its header and its data.
LEMMA WriteOfIs ==
  ASSUME NEW reg, NEW off, NEW n \in Nat, NEW ds, ds = [i \in 1 .. n |-> ds[i]]
  PROVE  /\ Len(WriteOf(reg, off, ds)) = n + 1
         /\ WriteOf(reg, off, ds)[1] = [reg |-> reg, off |-> off, read |-> FALSE]
         /\ \A j \in 0 .. n - 1 : WriteOf(reg, off, ds)[j + 2] = ds[j + 1]
<1> DEFINE h == [reg |-> reg, off |-> off, read |-> FALSE]
<1> HIDE DEF h
<1>a. \A f : f = [i \in 1 .. n |-> f[i]] =>
        /\ Len(<<h>> \o f) = n + 1 /\ (<<h>> \o f)[1] = h
        /\ \A j \in 0 .. n - 1 : (<<h>> \o f)[j + 2] = f[j + 1]
  BY Prefixed
<1>1. /\ Len(<<h>> \o ds) = n + 1 /\ (<<h>> \o ds)[1] = h
      /\ \A j \in 0 .. n - 1 : (<<h>> \o ds)[j + 2] = ds[j + 1]
  BY <1>a, Zenon
<1>2. WriteOf(reg, off, ds) = <<h>> \o ds
  BY Zenon DEF WriteOf, h
<1>3. h = [reg |-> reg, off |-> off, read |-> FALSE]
  BY DEF h
<1> QED BY <1>1, <1>2, <1>3

\* Every access has a length.
LEMMA LenIs ==
  ASSUME Typed, Calling, NEW name
  PROVE  LenOf(name) \in Nat
BY FirstIs DEF LenOf

\* The bytes of every access are those of the table above.
LEMMA AccessIs ==
  ASSUME Typed, Calling, NEW name \in Names
  PROVE  /\ Len(Access(name)) = LenOf(name) + 1
         /\ Access(name)[1] = [reg |-> RegOf(name), off |-> OffOf(name), read |-> name \in Reads]
         /\ name \notin Reads =>
              \A j \in 0 .. LenOf(name) - 1 : Access(name)[j + 2] = DataOf(name, j)
<1>n. LenOf(name) \in Nat
  BY LenIs
<1>f. First \in Nat /\ call.n \in Nat /\ call.n - First \in Nat /\ next \in Int
  BY FirstIs DEF Typed
<1>r. ASSUME name \in Reads
      PROVE  Access(name) = ReadOf(RegOf(name), OffOf(name), LenOf(name))
  BY <1>r DEF Access, Reads, RegOf, OffOf, LenOf, Doubles, Commands
<1>1. CASE name \in Reads
  <2>1. (name \in Reads) = TRUE
    BY <1>1
  <2> QED BY <1>1, <1>r, <1>n, <2>1, ReadOfIs
<1>2. CASE name \notin Reads
  <2>0. (name \in Reads) = FALSE
    BY <1>2
  <2> SUFFICES ASSUME NEW ds, ds = [i \in 1 .. LenOf(name) |-> ds[i]],
                      Access(name) = WriteOf(RegOf(name), OffOf(name), ds),
                      \A j \in 0 .. LenOf(name) - 1 : ds[j + 1] = DataOf(name, j)
               PROVE  /\ Len(Access(name)) = LenOf(name) + 1
                      /\ Access(name)[1]
                           = [reg |-> RegOf(name), off |-> OffOf(name), read |-> FALSE]
                      /\ \A j \in 0 .. LenOf(name) - 1 : Access(name)[j + 2] = DataOf(name, j)
    <3> SUFFICES \E ds : /\ ds = [i \in 1 .. LenOf(name) |-> ds[i]]
                         /\ Access(name) = WriteOf(RegOf(name), OffOf(name), ds)
                         /\ \A j \in 0 .. LenOf(name) - 1 : ds[j + 1] = DataOf(name, j)
      BY <2>0, <1>2, Zenon
    <3>1. CASE name = "FILL"
      <4> DEFINE ds == [i \in 1 .. First |-> Number(i)]
      <4>1. Access(name) = WriteOf(RegOf(name), OffOf(name), ds) /\ LenOf(name) = First
        BY <3>1 DEF Access, RegOf, OffOf, LenOf, Doubles, Commands
      <4>2. \A j \in 0 .. First - 1 : ds[j + 1] = DataOf(name, j)
        BY <3>1, <1>f DEF Number, DataOf
      <4> QED BY <4>1, <4>2
    <3>2. CASE name = "FILL2"
      <4> DEFINE ds == [i \in 1 .. call.n - First |-> Number(First + i)]
      <4>1. Access(name) = WriteOf(RegOf(name), OffOf(name), ds) /\ LenOf(name) = call.n - First
        BY <3>2 DEF Access, RegOf, OffOf, LenOf, Doubles, Commands
      <4>2. \A j \in 0 .. call.n - First - 1 : ds[j + 1] = DataOf(name, j)
        <5> DEFINE l == call.n - First
        <5>1. l \in Nat
          BY <1>f
        <5> SUFFICES ASSUME NEW j \in 0 .. l - 1 PROVE ds[j + 1] = DataOf(name, j)
          OBVIOUS
        <5>2. j + 1 \in 1 .. l /\ j \in Int
          BY <5>1
        <5>3. ds[j + 1] = Number(First + (j + 1))
          BY <5>2
        <5>4. DataOf(name, j) = next - call.n + First + j
          BY <3>2 DEF DataOf
        <5> QED BY <5>2, <5>3, <5>4, <1>f DEF Number
      <4>3. ds = [i \in 1 .. call.n - First |-> ds[i]]
        OBVIOUS
      <4> HIDE DEF ds
      <4> QED BY <4>1, <4>2, <4>3
    <3>3. CASE name \in {"PUT_WR", "PUT_RD"}
      <4> DEFINE ds == Pair(Target)
      <4>1. Access(name) = WriteOf(RegOf(name), OffOf(name), ds) /\ LenOf(name) = 2
        BY <3>3 DEF Access, RegOf, OffOf, LenOf, Doubles, Commands
      <4>2. ds[1] = DataOf(name, 0) /\ ds[2] = DataOf(name, 1)
        BY <3>3 DEF DataOf, Pair, Digit
      <4>3. ds = [i \in 1 .. 2 |-> ds[i]]
        BY DEF Pair
      <4>4. \A j \in 0 .. 2 - 1 : ds[j + 1] = DataOf(name, j)
        BY <4>2
      <4> QED BY <4>1, <4>3, <4>4
    <3>4. CASE name \notin {"FILL", "FILL2", "PUT_WR", "PUT_RD"}
      <4> DEFINE d == IF name = "ACK" THEN val ELSE IF name \in Commands THEN name ELSE 1
                 ds == <<d>>
      <4>1. Access(name) = WriteOf(RegOf(name), OffOf(name), ds) /\ LenOf(name) = 1
        BY <3>4, <1>2 DEF Access, RegOf, OffOf, LenOf, Doubles, Commands, Clears, Names, Reads, Configs
      <4>2. ds[1] = DataOf(name, 0)
        BY <3>4 DEF DataOf
      <4>3. ds = [i \in 1 .. 1 |-> ds[i]]
        OBVIOUS
      <4> HIDE DEF ds
      <4>4. \A j \in 0 .. 1 - 1 : ds[j + 1] = DataOf(name, j)
        <5> SUFFICES ASSUME NEW j \in 0 .. 1 - 1 PROVE ds[j + 1] = DataOf(name, j)
          OBVIOUS
        <5>1. j = 0 /\ j + 1 = 1
          OBVIOUS
        <5> QED BY <4>2, <5>1
      <4> QED BY <4>1, <4>3, <4>4
    <3> QED BY <3>1, <3>2, <3>3, <3>4
  <2>1. /\ Len(Access(name)) = LenOf(name) + 1
        /\ Access(name)[1] = [reg |-> RegOf(name), off |-> OffOf(name), read |-> FALSE]
        /\ \A j \in 0 .. LenOf(name) - 1 : Access(name)[j + 2] = ds[j + 1]
    BY <1>n, WriteOfIs
  <2> QED BY <2>1
<1> QED BY <1>1, <1>2

\* Which access each call has reached.
LEMMA Programs ==
  /\ Program("initialize") = <<"MR", "MR?", "GAR", "SUBR", "SHAR", "SIPR", "VERSIONR">>
  /\ Program("open") = <<"CLOSE", "CR?", "SIZES", "MODE", "PORT", "OPEN", "CR?", "SR">>
  /\ Program("connect") = <<"DIPR", "DPORT", "CONNECT", "CR?">>
  /\ Program("send")
       = <<"FSR", "TX_WR", "FILL", "FILL2", "PUT_WR", "SEND", "CR?", "IR?", "ACK">>
  /\ Program("receive") = <<"RSR", "RX_RD", "TAKE", "TAKE2", "PUT_RD", "RECV", "CR?">>
BY DEF Program

\* How many accesses each call makes.
LEMMA Lengths ==
  /\ Steps["initialize"] = 7 /\ Steps["open"] = 8 /\ Steps["connect"] = 4
  /\ Steps["send"] = 9 /\ Steps["receive"] = 7
  /\ \A op \in Ops : Steps[op] = Len(Program(op)) /\ Steps[op] \in 4 .. 9
BY Programs DEF Steps, Ops

\* The accesses of omcu_w5500_initialize, by step.
LEMMA InitializeNames ==
  ASSUME call.op = "initialize", step \in 1 .. 7
  PROVE  /\ (step = 1 => Name = "MR")
         /\ (step = 2 => Name = "MR?")
         /\ (step = 3 => Name = "GAR")
         /\ (step = 4 => Name = "SUBR")
         /\ (step = 5 => Name = "SHAR")
         /\ (step = 6 => Name = "SIPR")
         /\ (step = 7 => Name = "VERSIONR")
BY Programs DEF Name

\* The accesses of omcu_w5500_socket_open, by step.
LEMMA OpenNames ==
  ASSUME call.op = "open", step \in 1 .. 8
  PROVE  /\ (step = 1 => Name = "CLOSE")
         /\ (step = 2 => Name = "CR?")
         /\ (step = 3 => Name = "SIZES")
         /\ (step = 4 => Name = "MODE")
         /\ (step = 5 => Name = "PORT")
         /\ (step = 6 => Name = "OPEN")
         /\ (step = 7 => Name = "CR?")
         /\ (step = 8 => Name = "SR")
BY Programs DEF Name

\* The accesses of omcu_w5500_socket_connect, by step.
LEMMA ConnectNames ==
  ASSUME call.op = "connect", step \in 1 .. 4
  PROVE  /\ (step = 1 => Name = "DIPR")
         /\ (step = 2 => Name = "DPORT")
         /\ (step = 3 => Name = "CONNECT")
         /\ (step = 4 => Name = "CR?")
BY Programs DEF Name

\* The accesses of omcu_w5500_socket_send, by step.
LEMMA SendNames ==
  ASSUME call.op = "send", step \in 1 .. 9
  PROVE  /\ (step = 1 => Name = "FSR")
         /\ (step = 2 => Name = "TX_WR")
         /\ (step = 3 => Name = "FILL")
         /\ (step = 4 => Name = "FILL2")
         /\ (step = 5 => Name = "PUT_WR")
         /\ (step = 6 => Name = "SEND")
         /\ (step = 7 => Name = "CR?")
         /\ (step = 8 => Name = "IR?")
         /\ (step = 9 => Name = "ACK")
BY Programs DEF Name

\* The accesses of omcu_w5500_socket_receive, by step.
LEMMA ReceiveNames ==
  ASSUME call.op = "receive", step \in 1 .. 7
  PROVE  /\ (step = 1 => Name = "RSR")
         /\ (step = 2 => Name = "RX_RD")
         /\ (step = 3 => Name = "TAKE")
         /\ (step = 4 => Name = "TAKE2")
         /\ (step = 5 => Name = "PUT_RD")
         /\ (step = 6 => Name = "RECV")
         /\ (step = 7 => Name = "CR?")
BY Programs DEF Name

\* A call under way is one of the five and at one of its steps.
LEMMA CallRange ==
  ASSUME Typed, Calling
  PROVE  /\ call.op \in Ops
         /\ step \in 1 .. Steps[call.op]
         /\ (call.op = "initialize" => step \in 1 .. 7)
         /\ (call.op = "open" => step \in 1 .. 8)
         /\ (call.op = "connect" => step \in 1 .. 4)
         /\ (call.op = "send" => step \in 1 .. 9)
         /\ (call.op = "receive" => step \in 1 .. 7)
<1>1. call.op \in Ops /\ step \in 1 .. Steps[call.op]
  BY DEF Typed, Calling
<1> QED BY <1>1, Lengths

\* Every step of a call makes one of the accesses.
LEMMA NameIn ==
  ASSUME Typed, Calling
  PROVE  Name \in Names
<1>1. CASE call.op = "initialize"
  BY <1>1, CallRange, InitializeNames DEF Names, Reads, Configs
<1>2. CASE call.op = "open"
  BY <1>2, CallRange, OpenNames DEF Names, Reads, Configs, Commands
<1>3. CASE call.op = "connect"
  BY <1>3, CallRange, ConnectNames DEF Names, Reads, Configs, Commands
<1>4. CASE call.op = "send"
  BY <1>4, CallRange, SendNames DEF Names, Reads, Commands
<1>5. CASE call.op = "receive"
  BY <1>5, CallRange, ReceiveNames DEF Names, Reads, Commands
<1> QED BY <1>1, <1>2, <1>3, <1>4, <1>5, CallRange DEF Ops

\* Which accesses belong to which call.
LEMMA NameTells ==
  ASSUME Typed, Calling
  PROVE  /\ (Name = "FSR" <=> call.op = "send" /\ step = 1)
         /\ (Name = "TX_WR" <=> call.op = "send" /\ step = 2)
         /\ (Name = "FILL" <=> call.op = "send" /\ step = 3)
         /\ (Name = "FILL2" <=> call.op = "send" /\ step = 4)
         /\ (Name = "PUT_WR" <=> call.op = "send" /\ step = 5)
         /\ (Name = "SEND" <=> call.op = "send" /\ step = 6)
         /\ (Name = "IR?" <=> call.op = "send" /\ step = 8)
         /\ (Name = "ACK" <=> call.op = "send" /\ step = 9)
         /\ (Name = "RSR" <=> call.op = "receive" /\ step = 1)
         /\ (Name = "RX_RD" <=> call.op = "receive" /\ step = 2)
         /\ (Name = "TAKE" <=> call.op = "receive" /\ step = 3)
         /\ (Name = "TAKE2" <=> call.op = "receive" /\ step = 4)
         /\ (Name = "PUT_RD" <=> call.op = "receive" /\ step = 5)
         /\ (Name = "RECV" <=> call.op = "receive" /\ step = 6)
         /\ (Name = "MR?" <=> call.op = "initialize" /\ step = 2)
         /\ (Name = "MR" <=> call.op = "initialize" /\ step = 1)
         /\ (Name = "SR" <=> call.op = "open" /\ step = 8)
         /\ (Name = "CR?" => call.op \in {"send", "receive", "open", "connect"})
         /\ (Name = "CR?" /\ call.op \in {"send", "receive"} => step = 7)
<1>1. CASE call.op = "initialize"
  <2>1. CASE step = 1
    BY <1>1, <2>1, InitializeNames
  <2>2. CASE step = 2
    BY <1>1, <2>2, InitializeNames
  <2>3. CASE step = 3
    BY <1>1, <2>3, InitializeNames
  <2>4. CASE step = 4
    BY <1>1, <2>4, InitializeNames
  <2>5. CASE step = 5
    BY <1>1, <2>5, InitializeNames
  <2>6. CASE step = 6
    BY <1>1, <2>6, InitializeNames
  <2>7. CASE step = 7
    BY <1>1, <2>7, InitializeNames
  <2> QED BY <1>1, <2>1, <2>2, <2>3, <2>4, <2>5, <2>6, <2>7, CallRange
<1>2. CASE call.op = "open"
  <2>1. CASE step = 1
    BY <1>2, <2>1, OpenNames
  <2>2. CASE step = 2
    BY <1>2, <2>2, OpenNames
  <2>3. CASE step = 3
    BY <1>2, <2>3, OpenNames
  <2>4. CASE step = 4
    BY <1>2, <2>4, OpenNames
  <2>5. CASE step = 5
    BY <1>2, <2>5, OpenNames
  <2>6. CASE step = 6
    BY <1>2, <2>6, OpenNames
  <2>7. CASE step = 7
    BY <1>2, <2>7, OpenNames
  <2>8. CASE step = 8
    BY <1>2, <2>8, OpenNames
  <2> QED BY <1>2, <2>1, <2>2, <2>3, <2>4, <2>5, <2>6, <2>7, <2>8, CallRange
<1>3. CASE call.op = "connect"
  <2>1. CASE step = 1
    BY <1>3, <2>1, ConnectNames
  <2>2. CASE step = 2
    BY <1>3, <2>2, ConnectNames
  <2>3. CASE step = 3
    BY <1>3, <2>3, ConnectNames
  <2>4. CASE step = 4
    BY <1>3, <2>4, ConnectNames
  <2> QED BY <1>3, <2>1, <2>2, <2>3, <2>4, CallRange
<1>4. CASE call.op = "send"
  <2>1. CASE step = 1
    BY <1>4, <2>1, SendNames
  <2>2. CASE step = 2
    BY <1>4, <2>2, SendNames
  <2>3. CASE step = 3
    BY <1>4, <2>3, SendNames
  <2>4. CASE step = 4
    BY <1>4, <2>4, SendNames
  <2>5. CASE step = 5
    BY <1>4, <2>5, SendNames
  <2>6. CASE step = 6
    BY <1>4, <2>6, SendNames
  <2>7. CASE step = 7
    BY <1>4, <2>7, SendNames
  <2>8. CASE step = 8
    BY <1>4, <2>8, SendNames
  <2>9. CASE step = 9
    BY <1>4, <2>9, SendNames
  <2> QED BY <1>4, <2>1, <2>2, <2>3, <2>4, <2>5, <2>6, <2>7, <2>8, <2>9, CallRange
<1>5. CASE call.op = "receive"
  <2>1. CASE step = 1
    BY <1>5, <2>1, ReceiveNames
  <2>2. CASE step = 2
    BY <1>5, <2>2, ReceiveNames
  <2>3. CASE step = 3
    BY <1>5, <2>3, ReceiveNames
  <2>4. CASE step = 4
    BY <1>5, <2>4, ReceiveNames
  <2>5. CASE step = 5
    BY <1>5, <2>5, ReceiveNames
  <2>6. CASE step = 6
    BY <1>5, <2>6, ReceiveNames
  <2>7. CASE step = 7
    BY <1>5, <2>7, ReceiveNames
  <2> QED BY <1>5, <2>1, <2>2, <2>3, <2>4, <2>5, <2>6, <2>7, CallRange
<1> QED BY <1>1, <1>2, <1>3, <1>4, <1>5, CallRange DEF Ops

-----------------------------------------------------------------------------
(* What a step of the frame does.                                          *)

\* The frame under way is the access of the step the call is at.
LEMMA FrameIs ==
  ASSUME Framed, Typed, fpc # "none"
  PROVE  /\ Calling /\ Name \in Names /\ LenOf(Name) \in Nat
         /\ Len(units) = LenOf(Name) + 1
         /\ units[1] = [reg |-> RegOf(Name), off |-> OffOf(Name), read |-> Name \in Reads]
         /\ Name \notin Reads =>
              \A j \in 0 .. LenOf(Name) - 1 : units[j + 2] = DataOf(Name, j)
<1>1. Calling /\ units = Access(Name)
  BY DEF Framed
<1>2. Name \in Names
  BY <1>1, NameIn
<1> QED BY <1>1, <1>2, LenIs, AccessIs

\* Outside of a frame there is nothing to count.
LEMMA NotMoved ==
  ASSUME fpc = "none" \/ window = <<>>
  PROVE  Moved = 0
BY DEF Moved

\* How many data bytes have been exchanged.
LEMMA MovedIs ==
  ASSUME Framed, Typed, fpc # "none"
  PROVE  /\ Moved \in 0 .. LenOf(Name)
         /\ busy => fpc \in {"poll", "end"} /\ k <= Len(units)
         /\ busy => Moved = IF k = 1 THEN 0 ELSE k - 2
         /\ fpc = "byte" => Moved = IF k = 1 THEN 0 ELSE k - 2
         /\ fpc = "poll" /\ ~busy => Moved = k - 1
         /\ fpc = "end" /\ k > Len(units) => ~busy /\ k = LenOf(Name) + 2 /\ Moved = LenOf(Name)
         /\ fpc = "end" /\ k <= Len(units) /\ ~busy => Moved = k - 1
         /\ k \in Nat \ {0}
<1>1. Len(units) = LenOf(Name) + 1 /\ LenOf(Name) \in Nat
  BY FrameIs
<1>2. k \in Nat \ {0} /\ fpc \in {"byte", "poll", "end"} /\ busy \in BOOLEAN
  BY DEF Framed
<1>3. ASSUME NEW n \in Nat, window = <<units[1], n>> PROVE Moved = n
  BY <1>3 DEF Moved
<1>4. CASE fpc = "byte"
  <2>1. ~busy /\ k <= Len(units) /\ IF k = 1 THEN window = <<>> ELSE window = <<units[1], k - 2>>
    BY <1>4 DEF Framed
  <2>2. CASE k = 1
    BY <2>1, <2>2, <1>1, <1>4, NotMoved
  <2>3. CASE k # 1
    <3>1. k - 2 \in Nat
      BY <1>2, <2>3
    <3> QED BY <2>1, <2>3, <3>1, <1>1, <1>2, <1>3, <1>4
  <2> QED BY <2>2, <2>3
<1>5. ASSUME k <= Len(units), Pending, fpc \in {"poll", "end"}
      PROVE  /\ Moved \in 0 .. LenOf(Name)
             /\ busy => Moved = IF k = 1 THEN 0 ELSE k - 2
             /\ ~busy => Moved = k - 1
  <2>1. CASE busy /\ k = 1
    BY <2>1, <1>5, <1>1, NotMoved DEF Pending
  <2>2. CASE busy /\ k # 1
    <3>1. k - 2 \in Nat /\ window = <<units[1], k - 2>>
      BY <1>2, <1>5, <2>2 DEF Pending
    <3> QED BY <2>2, <3>1, <1>1, <1>2, <1>3, <1>5
  <2>3. CASE ~busy
    <3>1. k - 1 \in Nat /\ window = <<units[1], k - 1>>
      BY <1>2, <1>5, <2>3 DEF Pending
    <3> QED BY <2>3, <3>1, <1>1, <1>2, <1>3, <1>5
  <2> QED BY <2>1, <2>2, <2>3
<1>6. CASE fpc = "poll"
  <2>1. k <= Len(units) /\ Pending
    BY <1>6 DEF Framed
  <2> QED BY <2>1, <1>2, <1>5, <1>6
<1>7. CASE fpc = "end" /\ k <= Len(units)
  <2>1. Pending
    <3>1. ~(k > Len(units))
      BY <1>1, <1>2, <1>7
    <3> QED BY <3>1, <1>7 DEF Framed
  <2> QED BY <2>1, <1>1, <1>2, <1>5, <1>7
<1>8. CASE fpc = "end" /\ ~(k <= Len(units))
  <2>1. k <= Len(units) + 1 /\ k > Len(units)
    BY <1>1, <1>2, <1>8 DEF Framed
  <2>2. ~busy /\ window = <<units[1], k - 2>>
    BY <2>1, <1>8 DEF Framed
  <2>3. k = LenOf(Name) + 2 /\ k - 2 \in Nat
    BY <2>1, <1>1, <1>2
  <2>4. Moved = k - 2
    BY <2>2, <2>3, <1>3
  <2> QED BY <2>1, <2>2, <2>3, <2>4, <1>1, <1>2, <1>8
<1> QED BY <1>2, <1>4, <1>6, <1>7, <1>8

Data == <<chip, txRing, rxRing, sent, arrived>>

\* A unit is exchanged outside of a frame: the byte of a frame that was given up.
LEMMA StrayExchange ==
  ASSUME Framed, Device, fpc = "none"
  PROVE  /\ Framed' /\ Moved = 0 /\ Moved' = 0 /\ busy /\ ~busy' /\ window' = <<>>
         /\ \/ UNCHANGED Data
            \/ /\ window # <<>> /\ ~window[1].read
               /\ RegWrite(window[1].reg, window[1].off, window[2], shift)
<1>1. /\ busy /\ ~busy' /\ cs' = hold /\ UNCHANGED <<enable, hold, frameVars, cpuVars>>
      /\ busy' \in BOOLEAN
  BY DEF Device, Exchange, ByteDone
<1>2. hold = FALSE /\ fpc' = "none"
  BY <1>1 DEF Framed, frameVars
<1>3. window' = <<>>
  BY <1>1, <1>2 DEF Device, Exchange
<1>4. Framed'
  BY <1>1, <1>2, <1>3 DEF Framed, frameVars
<1>5. \/ UNCHANGED Data
      \/ /\ window # <<>> /\ ~window[1].read
         /\ RegWrite(window[1].reg, window[1].off, window[2], shift)
  BY DEF Device, Exchange, Data
<1> QED BY <1>1, <1>2, <1>3, <1>4, <1>5, NotMoved DEF Moved

\* The header is exchanged.
LEMMA HeaderExchange ==
  ASSUME Framed, Typed, Device, fpc # "none", k = 1
  PROVE  /\ Framed' /\ Moved = 0 /\ Moved' = 0 /\ fpc' = fpc
         /\ UNCHANGED Data
<1>1. /\ busy /\ ~busy' /\ cs' = hold /\ UNCHANGED <<enable, hold, frameVars, cpuVars>>
      /\ busy' \in BOOLEAN
  BY DEF Device, Exchange, ByteDone
<1>2. hold = TRUE /\ fpc \in {"poll", "end"} /\ k <= Len(units) /\ k \in Nat
  BY <1>1, MovedIs DEF Framed
<1>p. Pending
  <2>1. Len(units) \in Nat
    BY FrameIs
  <2> QED BY <1>2, <2>1 DEF Framed
<1>3. window = <<>> /\ shift = units[1]
  BY <1>1, <1>p DEF Pending
<1>4. window' = <<units[1], 0>> /\ UNCHANGED Data
  BY <1>1, <1>2, <1>3 DEF Device, Exchange, Data
<1>5. fpc' = fpc /\ k' = k /\ units' = units /\ reply' = reply
  BY <1>1 DEF frameVars
<1>6. Pending'
  BY <1>1, <1>4, <1>5 DEF Pending
<1>7. (Name)' = Name /\ (Access(Name))' = Access(Name) /\ Calling' = Calling
  <2>1. UNCHANGED <<call, step, ptr, next, val>>
    BY <1>1 DEF cpuVars, callVars
  <2> QED BY <2>1 DEF Name, Access, Offset, First, Number, Target, Pair, Clears, Calling
<1>8. Framed'
  BY <1>1, <1>2, <1>5, <1>6, <1>7 DEF Framed
<1>9. Moved = 0 /\ Moved' = 0
  BY <1>3, <1>4 DEF Moved
<1> QED BY <1>4, <1>5, <1>8, <1>9

\* A data byte is exchanged.
LEMMA DataExchange ==
  ASSUME Framed, Typed, Device, fpc # "none", k # 1
  PROVE  /\ Framed' /\ fpc' = fpc /\ Moved \in 0 .. LenOf(Name) - 1 /\ Moved' = Moved + 1
         /\ \A j \in Nat : j < Moved => (Ans(j))' = Ans(j)
         /\ IF Name \in Reads
            THEN /\ \A j \in Nat : j = Moved =>
                      (Ans(j))' = RegByte(RegOf(Name), OffOf(Name), j)
                 /\ UNCHANGED Data
            ELSE RegWrite(RegOf(Name), OffOf(Name), Moved, DataOf(Name, Moved))
<1>1. /\ busy /\ ~busy' /\ cs' = hold /\ UNCHANGED <<enable, hold, frameVars, cpuVars>>
      /\ busy' \in BOOLEAN
  BY DEF Device, Exchange, ByteDone
<1>2. hold = TRUE /\ fpc \in {"poll", "end"} /\ k <= Len(units) /\ k \in Nat \ {0}
  BY <1>1, MovedIs DEF Framed
<1>0. Len(units) = LenOf(Name) + 1 /\ LenOf(Name) \in Nat
  BY FrameIs
<1>p. Pending
  BY <1>0, <1>2 DEF Framed
<1>3. window = <<units[1], k - 2>> /\ shift = units[k]
  BY <1>1, <1>p DEF Pending
<1>m. Moved = k - 2 /\ Moved \in 0 .. LenOf(Name) - 1 /\ k = Moved + 2
  BY <1>0, <1>1, <1>2, MovedIs
<1>w. window # <<>> /\ window[1] = units[1] /\ window[2] = k - 2
  BY <1>3
<1>4. /\ window' = <<units[1], (k - 2) + 1>>
      /\ shift' = IF units[1].read THEN RegByte(units[1].reg, units[1].off, k - 2) ELSE 0
      /\ IF units[1].read THEN UNCHANGED Data
         ELSE RegWrite(units[1].reg, units[1].off, k - 2, units[k])
  BY <1>1, <1>2, <1>3, <1>w DEF Device, Exchange, ByteDone, Data
<1>5. fpc' = fpc /\ k' = k /\ units' = units /\ reply' = reply
  BY <1>1 DEF frameVars
<1>6. Pending'
  <2>1. (k - 2) + 1 = k - 1
    BY <1>2
  <2> QED BY <1>1, <1>4, <1>5, <2>1 DEF Pending
<1>7. (Name)' = Name /\ (Access(Name))' = Access(Name) /\ Calling' = Calling
  <2>1. UNCHANGED <<call, step, ptr, next, val>>
    BY <1>1 DEF cpuVars, callVars
  <2> QED BY <2>1 DEF Name, Access, Offset, First, Number, Target, Pair, Clears, Calling
<1>8. Framed'
  BY <1>1, <1>2, <1>5, <1>6, <1>7 DEF Framed
<1>9. Moved' = Moved + 1
  <2>1. window'[2] = (k - 2) + 1 /\ window' # <<>>
    BY <1>4
  <2> QED BY <1>m, <2>1, <1>5 DEF Moved
<1>10. ASSUME NEW j \in Nat, j < Moved PROVE (Ans(j))' = Ans(j)
  BY <1>10, <1>m, <1>5, <1>2 DEF Ans
<1>11. units[1].reg = RegOf(Name) /\ units[1].off = OffOf(Name) /\ units[1].read = (Name \in Reads)
  BY FrameIs
<1>12. CASE Name \in Reads
  <2>1. UNCHANGED Data
    BY <1>4, <1>11, <1>12
  <2>2. ASSUME NEW j \in Nat, j = Moved
        PROVE  (Ans(j))' = RegByte(RegOf(Name), OffOf(Name), j)
    <3>1. ~(j + 2 < k) /\ j = k - 2
      BY <2>2, <1>m
    <3>2. (Ans(j))' = shift'
      BY <3>1, <1>5 DEF Ans
    <3> QED BY <3>1, <3>2, <1>4, <1>11, <1>12
  <2> QED BY <1>12, <2>1, <2>2, <1>8, <1>9, <1>10, <1>5, <1>m
<1>13. CASE Name \notin Reads
  <2>1. units[k] = DataOf(Name, Moved)
    BY FrameIs, <1>13, <1>m
  <2>2. RegWrite(RegOf(Name), OffOf(Name), Moved, DataOf(Name, Moved))
    BY <1>4, <1>11, <1>13, <1>m, <2>1
  <2> QED BY <1>13, <2>2, <1>8, <1>9, <1>10, <1>5, <1>m
<1> QED BY <1>12, <1>13

\* While the call does not move, its access stays what it is.
LEMMA SameAccess ==
  ASSUME UNCHANGED cpuVars
  PROVE  Name' = Name /\ (Access(Name))' = Access(Name) /\ Calling' = Calling
<1>1. UNCHANGED <<call, step, ptr, next, val>>
  BY DEF cpuVars, callVars
<1> QED BY <1>1 DEF Name, Access, Offset, First, Number, Target, Pair, Clears, Calling

\* A frame is opened only with the engine idle, and has moved nothing.
LEMMA BeginStep ==
  ASSUME Framed, Typed, Begins
  PROVE  /\ Framed' /\ fpc = "none" /\ fpc' = "byte" /\ ~busy /\ Moved = 0 /\ Moved' = 0
         /\ Calling /\ UNCHANGED <<chipVars, cpuVars>>
<1>1. /\ Calling /\ fpc = "none" /\ ~busy /\ units' = Access(Name) /\ fpc' = "byte"
      /\ hold' = TRUE /\ cs' = (cs /\ TRUE)
      /\ UNCHANGED <<k, reply, enable, busy, done, shift>>
      /\ UNCHANGED <<chipVars, cpuVars>>
  BY DEF Begins, FrameBegin, WriteHold
<1>2. ~cs /\ window = <<>> /\ k = 1
  BY <1>1 DEF Framed
<1>3. window' = <<>>
  BY <1>1, <1>2 DEF chipVars
<1>4. Name \in Names
  BY <1>1, NameIn
<1>5. Len(Access(Name)) >= 1
  <2>1. Len(Access(Name)) = LenOf(Name) + 1
    BY <1>1, <1>4, AccessIs
  <2>2. LenOf(Name) \in Nat
    BY <1>1, LenIs
  <2> QED BY <2>1, <2>2
<1>6. Framed'
  BY <1>1, <1>2, <1>3, <1>5, SameAccess DEF Framed
<1> QED BY <1>1, <1>2, <1>3, <1>6, NotMoved DEF Moved

\* Filling the engine and taking its answer move no byte of the frame.
LEMMA MoveStep ==
  ASSUME Framed, Typed, Moves
  PROVE  /\ Framed' /\ fpc # "none" /\ fpc' # "none" /\ Moved' = Moved
         /\ \A j \in Nat : j < Moved => (Ans(j))' = Ans(j)
         /\ UNCHANGED <<chipVars, cpuVars>>
<1>1. UNCHANGED <<chipVars, cpuVars>> /\ window' = window
  BY DEF Moves, chipVars
<1>2. fpc # "none" /\ fpc' # "none"
  BY DEF Moves, StartByte, ByteRead
<1>3. Len(units) = LenOf(Name) + 1 /\ LenOf(Name) \in Nat
  BY <1>2, FrameIs
<1>4. CASE StartByte
  <2>1. /\ fpc = "byte" /\ ~busy /\ fpc' = "poll" /\ busy' = TRUE /\ cs' = TRUE
        /\ shift' = units[k] /\ UNCHANGED <<enable, hold, units, k, reply>>
    BY <1>4 DEF StartByte
  <2>2. k <= Len(units) /\ IF k = 1 THEN window = <<>> ELSE window = <<units[1], k - 2>>
    BY <2>1 DEF Framed
  <2>3. Pending'
    BY <1>1, <2>1, <2>2 DEF Pending
  <2>4. Framed'
    BY <1>1, <2>1, <2>2, <2>3, SameAccess DEF Framed
  <2>5. Moved' = Moved
    BY <1>1, <1>2 DEF Moved
  <2>6. Moved = (IF k = 1 THEN 0 ELSE k - 2) /\ k \in Nat \ {0}
    BY <1>2, <2>1, MovedIs
  <2>7. ASSUME NEW j \in Nat, j < Moved PROVE (Ans(j))' = Ans(j)
    <3>1. j + 2 < k
      BY <2>6, <2>7
    <3> QED BY <2>1, <3>1 DEF Ans
  <2> QED BY <1>1, <1>2, <2>4, <2>5, <2>7
<1>5. CASE ByteRead
  <2>1. /\ fpc = "poll" /\ ~busy /\ reply' = Append(reply, shift) /\ k' = k + 1
        /\ fpc' = (IF k = Len(units) THEN "end" ELSE "byte")
        /\ UNCHANGED <<enable, busy, hold, cs, shift, units>>
    BY <1>5 DEF ByteRead
  <2>2. k <= Len(units) /\ cs /\ Pending
    BY <2>1 DEF Framed
  <2>3. k \in Nat \ {0} /\ Moved = k - 1
    BY <1>2, <2>1, MovedIs
  <2>4. window = <<units[1], k - 1>>
    BY <2>1, <2>2 DEF Pending
  <2>5. reply = [i \in 1 .. k - 1 |-> reply[i]] /\ k - 1 \in Nat
    BY <2>3 DEF Framed
  <2>6. /\ reply' = [i \in 1 .. (k - 1) + 1 |-> reply'[i]]
        /\ \A i \in 1 .. k - 1 : reply'[i] = reply[i]
        /\ reply'[(k - 1) + 1] = shift
    BY <2>1, <2>5, Appended
  <2>7. reply' = [i \in 1 .. k' - 1 |-> reply'[i]]
    <3>1. (k - 1) + 1 = k' - 1
      BY <2>1, <2>3
    <3> QED BY <2>6, <3>1
  <2>8. window' = <<units'[1], k' - 2>>
    <3>1. k' - 2 = k - 1
      BY <2>1, <2>3
    <3> QED BY <1>1, <2>1, <2>4, <3>1
  <2>a. /\ {enable', busy', hold', cs'} \subseteq BOOLEAN /\ k' \in Nat \ {0}
        /\ hold' = TRUE /\ cs' = TRUE /\ busy' = FALSE
    <3>1. /\ {enable, busy, hold, cs} \subseteq BOOLEAN /\ hold
      BY <1>2 DEF Framed
    <3> QED BY <2>1, <2>2, <2>3, <3>1
  <2>b. Calling' /\ units' = (Access(Name))'
    <3>1. Calling /\ units = Access(Name)
      BY <1>2 DEF Framed
    <3> QED BY <1>1, <2>1, <3>1, SameAccess
  <2>9. ASSUME k = Len(units) PROVE Framed'
    <3>1. fpc' = "end" /\ k' <= Len(units') + 1 /\ k' > Len(units')
      BY <1>3, <2>1, <2>3, <2>9
    <3>2. /\ fpc' \in {"none", "byte", "poll", "end"} /\ (hold' <=> fpc' # "none")
          /\ (busy' => cs') /\ fpc' # "none" /\ fpc' # "byte" /\ fpc' # "poll"
      BY <2>a, <3>1
    <3> QED BY <2>7, <2>8, <2>a, <2>b, <3>1, <3>2, Zenon DEF Framed
  <2>10. ASSUME k # Len(units) PROVE Framed'
    <3>1. fpc' = "byte" /\ k' <= Len(units') /\ k' # 1
      BY <1>3, <2>1, <2>2, <2>3, <2>10
    <3>2. /\ fpc' \in {"none", "byte", "poll", "end"} /\ (hold' <=> fpc' # "none")
          /\ (busy' => cs') /\ fpc' # "none" /\ fpc' # "end" /\ fpc' # "poll"
      BY <2>a, <3>1
    <3> QED BY <2>7, <2>8, <2>a, <2>b, <3>1, <3>2, Zenon DEF Framed
  <2>11. Moved' = Moved
    BY <1>1, <1>2 DEF Moved
  <2>12. ASSUME NEW j \in Nat, j < Moved PROVE (Ans(j))' = Ans(j)
    <3>1. j + 2 < k' /\ j + 2 \in 1 .. (k - 1) + 1
      BY <2>1, <2>3, <2>12
    <3>2. (Ans(j))' = reply'[j + 2]
      BY <3>1 DEF Ans
    <3>3. CASE j + 2 < k
      <4>1. j + 2 \in 1 .. k - 1
        BY <2>3, <3>3
      <4> QED BY <2>6, <3>2, <3>3, <4>1 DEF Ans
    <3>4. CASE ~(j + 2 < k)
      <4>1. j + 2 = (k - 1) + 1
        BY <2>3, <3>1, <3>4
      <4> QED BY <2>6, <3>2, <3>4, <4>1 DEF Ans
    <3> QED BY <3>3, <3>4
  <2> QED BY <1>1, <1>2, <2>9, <2>10, <2>11, <2>12
<1> QED BY <1>4, <1>5 DEF Moves

\* A wait that runs out ends the frame, but not what has been read.
LEMMA GiveUpStep ==
  ASSUME Framed, Typed, ByteGivenUp,
         UNCHANGED <<chipVars, up, callVars, next, taken, ret, torn, lost, abandoned>>
  PROVE  /\ Framed' /\ fpc # "none" /\ fpc' # "none" /\ Moved' = Moved
         /\ \A j \in Nat : (Ans(j))' = Ans(j)
<1>1. /\ fpc = "poll" /\ busy /\ fpc' = "end"
      /\ UNCHANGED <<enable, busy, hold, cs, shift, units, k, reply, window>>
  BY DEF ByteGivenUp, engVars, chipVars
<1>2. k <= Len(units) /\ cs /\ Pending
  BY <1>1 DEF Framed
<1>3. Len(units) \in Nat /\ k \in Nat
  BY <1>1, FrameIs DEF Framed
<1>4. Name' = Name /\ (Access(Name))' = Access(Name) /\ Calling' = Calling
  <2>1. UNCHANGED <<call, step, ptr, next, val>>
    BY DEF callVars
  <2> QED BY <2>1 DEF Name, Access, Offset, First, Number, Target, Pair, Clears, Calling
<1>5. Pending'
  BY <1>1, <1>2 DEF Pending
<1>6. k' <= Len(units') + 1 /\ ~(k' > Len(units'))
  BY <1>1, <1>2, <1>3
<1>7. Framed'
  BY <1>1, <1>2, <1>4, <1>5, <1>6 DEF Framed
<1>8. Moved' = Moved /\ \A j \in Nat : (Ans(j))' = Ans(j)
  BY <1>1 DEF Moved, Ans
<1> QED BY <1>1, <1>7, <1>8

\* A call that returns leaves no call behind.
LEMMA ReturnIs ==
  ASSUME NEW v, NEW ok, Return(v, ok)
  PROVE  call' = Idle /\ step' = 1 /\ next' = next /\ ~Calling'
BY DEF Return, Calling, Idle

\* The access came back complete: its bytes are the answers.
LEMMA EndStep ==
  ASSUME Framed, Typed, Ends, FrameOk
  PROVE  /\ Framed' /\ fpc = "end" /\ ~busy /\ ~busy' /\ fpc' = "none" /\ Calling
         /\ Moved = LenOf(Name) /\ Moved' = 0 /\ window' = <<>>
         /\ \A j \in 0 .. LenOf(Name) - 1 : reply[j + 2] = Ans(j)
         /\ reply = [i \in 1 .. LenOf(Name) + 1 |-> reply[i]]
         /\ Exchanged /\ UNCHANGED Data
<1>1. /\ fpc = "end" /\ hold' = FALSE /\ cs' = (cs /\ (FALSE \/ busy))
      /\ UNCHANGED <<enable, busy, done, shift>>
      /\ k' = 1 /\ fpc' = "none" /\ reply' = <<>>
      /\ window' = (IF cs' THEN window ELSE <<>>)
      /\ UNCHANGED <<chip, txRing, rxRing, sent, arrived>>
      /\ Exchanged /\ k > Len(units)
  BY DEF Ends, FrameEnd, WriteHold, NoFrame, FrameOk
<1>2. ~busy /\ k = LenOf(Name) + 2 /\ Moved = LenOf(Name) /\ LenOf(Name) \in Nat /\ Calling
  BY <1>1, MovedIs, FrameIs
<1>3. cs' = FALSE /\ window' = <<>> /\ busy' = FALSE
  BY <1>1, <1>2 DEF Framed
<1>4. reply' = [i \in 1 .. k' - 1 |-> reply'[i]]
  <2>1. 1 .. k' - 1 = {}
    BY <1>1
  <2>2. <<>> = [i \in {} |-> <<>>[i]]
    OBVIOUS
  <2> QED BY <1>1, <2>1, <2>2
<1>5. Framed'
  <2>1. enable' \in BOOLEAN
    BY <1>1 DEF Framed
  <2>2. hold' \in BOOLEAN /\ cs' \in BOOLEAN /\ busy' \in BOOLEAN /\ k' \in Nat \ {0} /\ k' = 1
    <3>1. k' = 1 /\ hold' = FALSE
      BY <1>1
    <3>2. cs' \in BOOLEAN /\ busy' \in BOOLEAN
      BY <1>3, Zenon
    <3>3. 1 \in Nat \ {0}
      OBVIOUS
    <3> QED BY <3>1, <3>2, <3>3, Zenon
  <2>3. /\ {enable', busy', hold', cs'} \subseteq BOOLEAN
        /\ fpc' \in {"none", "byte", "poll", "end"} /\ (hold' <=> fpc' # "none")
        /\ (busy' => cs') /\ (busy' => step' = 1) /\ ~cs'
        /\ fpc' = "none" /\ fpc' # "byte" /\ fpc' # "poll" /\ fpc' # "end"
    BY <2>1, <2>2, <1>1, <1>3
  <2> QED BY <2>2, <2>3, <1>3, <1>4, Zenon DEF Framed
<1>6. ASSUME NEW j \in 0 .. LenOf(Name) - 1 PROVE reply[j + 2] = Ans(j)
  <2>1. j + 2 < k
    BY <1>2
  <2> QED BY <2>1 DEF Ans
<1>7. reply = [i \in 1 .. LenOf(Name) + 1 |-> reply[i]]
  <2>1. k - 1 = LenOf(Name) + 1
    BY <1>2
  <2> QED BY <2>1 DEF Framed
<1> QED BY <1>1, <1>2, <1>3, <1>5, <1>6, <1>7, NotMoved DEF Data, Moved

\* It did not: the call fails, and the byte under way may stay behind.
LEMMA FailStep ==
  ASSUME Framed, Typed, Ends, ~FrameOk
  PROVE  /\ Framed' /\ fpc = "end" /\ fpc' = "none" /\ Calling
         /\ Moved \in 0 .. LenOf(Name) /\ Moved' = 0
         /\ busy' /\ window' # <<>> /\ ~window'[1].read =>
              /\ Name \notin Reads /\ Moved < LenOf(Name)
              /\ window'[1].reg = RegOf(Name) /\ window'[1].off = OffOf(Name)
              /\ window'[2] = Moved /\ shift' = DataOf(Name, Moved)
         /\ Failed /\ UNCHANGED Data
<1>1. /\ fpc = "end" /\ hold' = FALSE /\ cs' = (cs /\ (FALSE \/ busy))
      /\ UNCHANGED <<enable, busy, done, shift>>
      /\ k' = 1 /\ fpc' = "none" /\ reply' = <<>>
      /\ window' = (IF cs' THEN window ELSE <<>>)
      /\ UNCHANGED <<chip, txRing, rxRing, sent, arrived>>
      /\ Failed /\ ~(k > Len(units))
  BY DEF Ends, FrameEnd, WriteHold, NoFrame, FrameOk
<1>2. /\ LenOf(Name) \in Nat /\ Len(units) = LenOf(Name) + 1 /\ Calling
      /\ units[1] = [reg |-> RegOf(Name), off |-> OffOf(Name), read |-> Name \in Reads]
      /\ (Name \notin Reads => \A j \in 0 .. LenOf(Name) - 1 : units[j + 2] = DataOf(Name, j))
  BY <1>1, FrameIs
<1>3. Pending /\ cs /\ k \in Nat \ {0} /\ k <= Len(units)
  BY <1>1, <1>2 DEF Framed
<1>4. cs' = busy' /\ busy' = busy /\ busy \in BOOLEAN
  BY <1>1, <1>3 DEF Framed
<1>5. reply' = [i \in 1 .. k' - 1 |-> reply'[i]]
  <2>1. 1 .. k' - 1 = {}
    BY <1>1
  <2>2. <<>> = [i \in {} |-> <<>>[i]]
    OBVIOUS
  <2> QED BY <1>1, <2>1, <2>2
<1>6. step' = 1
  BY <1>1, ReturnIs DEF Failed
<1>7. Framed'
  <2>1. enable' \in BOOLEAN
    BY <1>1 DEF Framed
  <2>2. hold' \in BOOLEAN /\ cs' \in BOOLEAN /\ busy' \in BOOLEAN /\ k' \in Nat \ {0} /\ k' = 1
    <3>1. k' = 1 /\ hold' = FALSE
      BY <1>1
    <3>2. cs' \in BOOLEAN /\ busy' \in BOOLEAN
      BY <1>4, Zenon
    <3>3. 1 \in Nat \ {0}
      OBVIOUS
    <3> QED BY <3>1, <3>2, <3>3, Zenon
  <2>3. /\ {enable', busy', hold', cs'} \subseteq BOOLEAN
        /\ fpc' \in {"none", "byte", "poll", "end"} /\ (hold' <=> fpc' # "none")
        /\ (busy' => cs') /\ (busy' => step' = 1) /\ (~busy' => ~cs' /\ window' = <<>>)
        /\ fpc' = "none" /\ fpc' # "byte" /\ fpc' # "poll" /\ fpc' # "end"
    BY <2>1, <2>2, <1>1, <1>4, <1>6
  <2> QED BY <2>2, <2>3, <1>5, Zenon DEF Framed
<1>8. ASSUME busy', window' # <<>>, ~window'[1].read
      PROVE  /\ Name \notin Reads /\ Moved < LenOf(Name)
             /\ window'[1].reg = RegOf(Name) /\ window'[1].off = OffOf(Name)
             /\ window'[2] = Moved /\ shift' = DataOf(Name, Moved)
  <2>1. window' = window /\ busy
    BY <1>1, <1>4, <1>8
  <2>2. k # 1 /\ window = <<units[1], k - 2>> /\ shift = units[k]
    BY <2>1, <1>3, <1>8 DEF Pending
  <2>3. Moved = k - 2 /\ Moved < LenOf(Name) /\ k = Moved + 2 /\ Moved \in 0 .. LenOf(Name) - 1
    BY <2>1, <2>2, <1>1, <1>2, <1>3, MovedIs
  <2>4. window'[1] = units[1] /\ window'[2] = k - 2
    BY <2>1, <2>2
  <2>5. Name \notin Reads
    <3>1. units[1].read = (Name \in Reads)
      BY <1>2
    <3>2. ~units[1].read
      BY <2>4, <1>8
    <3> QED BY <3>1, <3>2, Zenon
  <2> QED BY <2>1, <2>2, <2>3, <2>4, <2>5, <1>1, <1>2
<1> QED BY <1>1, <1>2, <1>7, <1>8, MovedIs, NotMoved DEF Data, Moved

\* The wait for the byte of the call before runs out.
LEMMA LateStep ==
  ASSUME Framed, Typed, Calling, fpc = "none", busy, Failed,
         UNCHANGED <<engVars, frameVars, chipVars>>
  PROVE  Framed' /\ Moved = 0 /\ Moved' = 0 /\ step = 1 /\ UNCHANGED <<window, shift, busy, fpc>>
<1>1. step = 1
  BY DEF Framed
<1>2. step' = 1
  BY ReturnIs DEF Failed
<1>3. UNCHANGED <<enable, busy, hold, cs, shift, units, k, fpc, reply, window>>
  BY DEF engVars, frameVars, chipVars
<1>4. Framed'
  BY <1>1, <1>2, <1>3 DEF Framed
<1> QED BY <1>1, <1>3, <1>4, NotMoved DEF Moved

\* omcu_spi0_init leaves the engine idle, CS up and no late byte.
LEMMA OpenStep ==
  ASSUME Framed, Opens
  PROVE  /\ Framed' /\ Moved = 0 /\ Moved' = 0 /\ ~busy' /\ fpc = "none" /\ fpc' = "none"
         /\ UNCHANGED <<Data, cpuVars>>
<1>1. /\ fpc = "none" /\ hold = FALSE
  BY DEF Opens, Framed
<1>2. /\ enable' = TRUE /\ busy' = FALSE /\ hold' = FALSE /\ cs' = FALSE /\ window' = <<>>
      /\ UNCHANGED <<units, k, fpc, reply>>
      /\ UNCHANGED <<Data, cpuVars>>
  BY DEF Opens, SpiInit, frameVars, Data
<1>3. Framed'
  BY <1>1, <1>2 DEF Framed
<1> QED BY <1>1, <1>2, <1>3, NotMoved DEF Moved

\* A new call has no frame yet.
LEMMA CallStep ==
  ASSUME Framed, NEW op, NEW n, Call(op, n)
  PROVE  /\ Framed' /\ Moved = 0 /\ Moved' = 0 /\ fpc = "none"
         /\ UNCHANGED <<engVars, frameVars, chipVars>>
<1>1. fpc = "none" /\ step' = 1
  BY DEF Call, Framed
<1>2. UNCHANGED <<enable, busy, hold, cs, shift, units, k, fpc, reply, window>>
      /\ UNCHANGED <<engVars, frameVars, chipVars>>
  BY DEF Call, engVars, frameVars, chipVars
<1>3. Framed'
  BY <1>1, <1>2 DEF Framed
<1> QED BY <1>1, <1>2, <1>3, NotMoved DEF Moved

\* What the chip does by itself does not touch the frame.
LEMMA ChipFrame ==
  ASSUME Framed, ChipStep
  PROVE  /\ Framed' /\ Moved' = Moved /\ \A j \in Nat : (Ans(j))' = Ans(j)
         /\ UNCHANGED <<engVars, frameVars, window, cpuVars>>
<1>1. UNCHANGED <<enable, busy, hold, cs, shift, units, k, fpc, reply, window, step, cpuVars>>
      /\ UNCHANGED <<engVars, frameVars>>
  BY DEF ChipStep, engVars, frameVars, cpuVars, callVars
<1>2. Framed'
  BY <1>1, SameAccess DEF Framed, Pending
<1> QED BY <1>1, <1>2 DEF Moved, Ans

-----------------------------------------------------------------------------
(* Arithmetic of pointers, slots and digits.                               *)

\* Quotient and remainder of a number.
LEMMA Split ==
  ASSUME NEW n \in Nat \ {0}, NEW t \in Nat
  PROVE  t \div n \in Nat /\ t % n \in 0 .. n - 1 /\ t = n * (t \div n) + (t % n)
OBVIOUS

\* A number has one quotient and one remainder.
LEMMA SplitIs ==
  ASSUME NEW n \in Nat \ {0}, NEW t \in Int, NEW q \in Int, NEW r \in 0 .. n - 1, t = n * q + r
  PROVE  t % n = r /\ t \div n = q
OBVIOUS

\* The remainder of a multiple and a rest.
LEMMA Remains ==
  ASSUME NEW n \in Nat \ {0}, NEW q \in Nat, NEW r \in 0 .. n - 1
  PROVE  (n * q + r) % n = r
OBVIOUS

\* One turn more is no turn.
LEMMA Once ==
  ASSUME NEW n \in Nat \ {0}, NEW r \in 0 .. n - 1
  PROVE  (r + n) % n = r
OBVIOUS

\* The remainder of a number less than a turn away.
LEMMA Rounds ==
  ASSUME NEW n \in Nat \ {0}, NEW t \in Int
  PROVE  /\ t \in 0 .. n - 1 => t % n = t
         /\ t \in -n .. -1 => t % n = t + n
OBVIOUS

\* Pointers go round.
LEMMA DistIs ==
  ASSUME NEW a \in Pointers, NEW b \in Pointers
  PROVE  /\ Dist(a, b) = IF b >= a THEN b - a ELSE b - a + M
         /\ Dist(a, b) \in Pointers
         /\ a \in Nat /\ b \in Nat /\ a < M /\ b < M
<1>1. M \in Nat \ {0} /\ a \in 0 .. M - 1 /\ b \in 0 .. M - 1
  BY MFacts DEF Pointers
<1>2. CASE b >= a
  <2>1. b - a \in 0 .. M - 1 /\ b - a \in Int
    BY <1>1, <1>2
  <2>2. (b - a) % M = b - a
    BY <1>1, <2>1, Rounds
  <2> QED BY <1>1, <1>2, <2>1, <2>2 DEF Dist, Pointers
<1>3. CASE ~(b >= a)
  <2>1. b - a + M \in 0 .. M - 1 /\ b - a \in Int /\ b - a \in -M .. -1
    BY <1>1, <1>3
  <2>2. (b - a) % M = b - a + M
    BY <1>1, <2>1, Rounds
  <2> QED BY <1>1, <1>3, <2>1, <2>2 DEF Dist, Pointers
<1> QED BY <1>2, <1>3

\* A pointer moved ahead wraps at most once.
LEMMA AheadIs ==
  ASSUME NEW a \in Pointers, NEW n \in Nat, n < M
  PROVE  /\ (a + n) % M = IF a + n < M THEN a + n ELSE a + n - M
         /\ (a + n) % M \in Pointers
<1>1. M \in Nat \ {0} /\ a \in 0 .. M - 1
  BY MFacts DEF Pointers
<1>2. CASE a + n < M
  <2>1. a + n \in 0 .. M - 1 /\ a + n \in Int
    BY <1>1, <1>2
  <2>2. (a + n) % M = a + n
    BY <1>1, <2>1, Rounds
  <2> QED BY <1>2, <2>1, <2>2 DEF Pointers
<1>3. CASE ~(a + n < M)
  <2> DEFINE r == a + n - M
  <2>1. r \in 0 .. M - 1 /\ a + n = r + M
    BY <1>1, <1>3
  <2> HIDE DEF r
  <2>3. (r + M) % M = r
    BY <1>1, <2>1, Once
  <2>4. (a + n) % M = r
    BY <2>1, <2>3, Zenon
  <2>2. (a + n) % M = a + n - M
    BY <2>4, Zenon DEF r
  <2> QED BY <1>3, <2>1, <2>2, <2>4, Zenon DEF Pointers
<1> QED BY <1>2, <1>3

\* A pointer moved ahead by n is n ahead.
LEMMA DistAhead ==
  ASSUME NEW a \in Pointers, NEW n \in Nat, n < M
  PROVE  Dist(a, (a + n) % M) = n
<1> DEFINE b == (a + n) % M
<1>1. b \in Pointers /\ b = IF a + n < M THEN a + n ELSE a + n - M
  BY AheadIs
<1>2. a \in Nat /\ a < M /\ M \in Nat
  BY MFacts DEF Pointers
<1> HIDE DEF b
<1>3. Dist(a, b) = n
  BY <1>1, <1>2, DistIs
<1> QED BY <1>3 DEF b

\* A pointer moved ahead by the distance to another reaches it.
LEMMA AheadDist ==
  ASSUME NEW a \in Pointers, NEW b \in Pointers
  PROVE  (a + Dist(a, b)) % M = b /\ Dist(a, b) \in Nat /\ Dist(a, b) < M
<1> DEFINE n == Dist(a, b)
<1>1. n = (IF b >= a THEN b - a ELSE b - a + M) /\ n \in Pointers /\ a \in Nat /\ b \in Nat /\ a < M /\ b < M
  BY DistIs
<1>2. n \in Nat /\ n < M /\ M \in Nat
  BY <1>1, MFacts DEF Pointers
<1> HIDE DEF n
<1>3. (a + n) % M = IF a + n < M THEN a + n ELSE a + n - M
  BY <1>2, AheadIs
<1>4. (a + n) % M = b
  BY <1>1, <1>2, <1>3
<1> QED BY <1>2, <1>4 DEF n

\* Pointers at no distance are equal.
LEMMA DistZero ==
  ASSUME NEW a \in Pointers, NEW b \in Pointers
  PROVE  (a = b <=> Dist(a, b) = 0) /\ Dist(a, a) = 0
<1>1. Dist(a, b) = (IF b >= a THEN b - a ELSE b - a + M) /\ a \in Nat /\ b \in Nat /\ a < M /\ b < M
  BY DistIs
<1>2. Dist(a, a) = (IF a >= a THEN a - a ELSE a - a + M)
  BY DistIs
<1> QED BY <1>1, <1>2, MFacts

\* The one behind catches up, the one in front moves on.
LEMMA DistStep ==
  ASSUME NEW a \in Pointers, NEW b \in Pointers
  PROVE  /\ a # b => Dist((a + 1) % M, b) = Dist(a, b) - 1
         /\ Dist(a, b) < M - 1 => Dist(a, (b + 1) % M) = Dist(a, b) + 1
         /\ (a + 1) % M \in Pointers
<1>0. 1 < M /\ M \in Nat
  BY MFacts
<1> DEFINE c == (a + 1) % M
           d == (b + 1) % M
<1>1. c \in Pointers /\ c = IF a + 1 < M THEN a + 1 ELSE a + 1 - M
  BY <1>0, AheadIs
<1>2. d \in Pointers /\ d = IF b + 1 < M THEN b + 1 ELSE b + 1 - M
  BY <1>0, AheadIs
<1> HIDE DEF c, d
<1>3. Dist(a, b) = (IF b >= a THEN b - a ELSE b - a + M) /\ a \in Nat /\ b \in Nat /\ a < M /\ b < M
  BY DistIs
<1>4. Dist(c, b) = (IF b >= c THEN b - c ELSE b - c + M) /\ c \in Nat
  BY <1>1, DistIs
<1>5. Dist(a, d) = (IF d >= a THEN d - a ELSE d - a + M) /\ d \in Nat
  BY <1>2, DistIs
<1>6. a # b => Dist(c, b) = Dist(a, b) - 1
  BY <1>0, <1>1, <1>3, <1>4
<1>7. Dist(a, b) < M - 1 => Dist(a, d) = Dist(a, b) + 1
  BY <1>0, <1>2, <1>3, <1>5
<1> QED BY <1>1, <1>6, <1>7 DEF c, d

\* Distances add up while they stay below a turn.
LEMMA DistSum ==
  ASSUME NEW a \in Pointers, NEW b \in Pointers, NEW n \in Nat, Dist(a, b) + n < M
  PROVE  Dist(a, (b + n) % M) = Dist(a, b) + n
<1> DEFINE d == (b + n) % M
<1>3. Dist(a, b) = (IF b >= a THEN b - a ELSE b - a + M) /\ a \in Nat /\ b \in Nat /\ a < M /\ b < M
  BY DistIs
<1>1. n < M /\ M \in Nat
  BY <1>3, MFacts
<1>2. d \in Pointers /\ d = IF b + n < M THEN b + n ELSE b + n - M
  BY <1>1, AheadIs
<1> HIDE DEF d
<1>4. Dist(a, d) = (IF d >= a THEN d - a ELSE d - a + M) /\ d \in Nat
  BY <1>2, DistIs
<1>5. Dist(a, d) = Dist(a, b) + n
  BY <1>1, <1>2, <1>3, <1>4
<1> QED BY <1>5 DEF d

\* Slots do not notice that pointers start over, as the rings fit into the pointers.
LEMMA SlotRound ==
  ASSUME NEW x \in Nat
  PROVE  (x + M) % Buf = x % Buf
<1>1. M \in Nat /\ Buf \in Nat \ {0} /\ M % Buf = 0
  BY MFacts, RingAssumption
<1> DEFINE q == M \div Buf
           j == x \div Buf
           r == x % Buf
<1>2. q \in Nat /\ M = Buf * q + 0
  BY <1>1, Split
<1>3. j \in Nat /\ r \in 0 .. Buf - 1 /\ x = Buf * j + r
  BY <1>1, Split
<1> HIDE DEF q, j, r
<1>4. x + M = Buf * (j + q) + r /\ j + q \in Int /\ x + M \in Int
  BY <1>1, <1>2, <1>3
<1>5. (x + M) % Buf = r
  BY <1>1, <1>3, <1>4, SplitIs
<1> QED BY <1>5 DEF r

\* The slot of a byte does not depend on the pointer it is counted from.
LEMMA SlotAhead ==
  ASSUME NEW p \in Pointers, NEW n \in Nat, n < M, NEW i \in Nat
  PROVE  Slot((p + n) % M, i) = Slot(p, n + i)
<1>1. p \in Nat /\ M \in Nat
  BY MFacts DEF Pointers
<1>2. CASE p + n < M
  <2>1. (p + n) % M = p + n /\ (p + n) + i = p + (n + i)
    BY <1>1, <1>2, AheadIs
  <2> QED BY <2>1 DEF Slot
<1>3. CASE ~(p + n < M)
  <2> DEFINE x == p + n - M + i
  <2>1. (p + n) % M = p + n - M /\ x \in Nat /\ x + M = p + (n + i)
    BY <1>1, <1>3, AheadIs
  <2>2. ((p + n) % M) + i = x
    BY <2>1
  <2> HIDE DEF x
  <2>3. (x + M) % Buf = x % Buf
    BY <2>1, SlotRound
  <2> QED BY <2>1, <2>2, <2>3 DEF Slot
<1> QED BY <1>2, <1>3

\* Every slot is in the ring, and wraps at most once.
LEMMA SlotIn ==
  ASSUME NEW p \in Pointers, NEW i \in Nat
  PROVE  /\ Slot(p, i) \in Ring
         /\ p % Buf \in 0 .. Buf - 1
         /\ (p % Buf) + i < Buf => Slot(p, i) = (p % Buf) + i
         /\ (p % Buf) + i >= Buf /\ (p % Buf) + i < 2 * Buf => Slot(p, i) = (p % Buf) + i - Buf
<1>1. p \in Nat /\ Buf \in Nat \ {0}
  BY MFacts DEF Pointers
<1> DEFINE o == p % Buf
           q == p \div Buf
<1>2. q \in Nat /\ o \in 0 .. Buf - 1 /\ p = Buf * q + o
  BY <1>1, Split
<1> HIDE DEF o, q
<1>3. p + i \in Nat
  BY <1>1
<1>4. (p + i) % Buf \in 0 .. Buf - 1
  BY <1>1, <1>3, Split
<1>5. ASSUME o + i < Buf PROVE (p + i) % Buf = o + i
  <2>1. p + i = Buf * q + (o + i) /\ o + i \in 0 .. Buf - 1
    BY <1>1, <1>2, <1>5
  <2>2. (Buf * q + (o + i)) % Buf = o + i
    BY <1>1, <1>2, <2>1, Remains
  <2> QED BY <2>1, <2>2
<1>6. ASSUME o + i >= Buf, o + i < 2 * Buf PROVE (p + i) % Buf = o + i - Buf
  <2>1. p + i = Buf * (q + 1) + (o + i - Buf) /\ o + i - Buf \in 0 .. Buf - 1
    BY <1>1, <1>2, <1>6
  <2>2. (Buf * (q + 1) + (o + i - Buf)) % Buf = o + i - Buf
    <3>1. q + 1 \in Nat
      BY <1>2
    <3> QED BY <1>1, <2>1, <3>1, Remains
  <2> QED BY <2>1, <2>2
<1> QED BY <1>2, <1>4, <1>5, <1>6 DEF Slot, Ring, o

\* Bytes less than a ring apart have different slots.
LEMMA SlotsApart ==
  ASSUME NEW p \in Pointers, NEW i \in Nat, NEW j \in Nat, i < j, j < i + Buf
  PROVE  Slot(p, i) # Slot(p, j)
<1>1. p \in Nat /\ Buf \in Nat \ {0} /\ p + i \in Nat /\ p + j \in Nat
  BY MFacts DEF Pointers
<1> SUFFICES ASSUME Slot(p, i) = Slot(p, j) PROVE FALSE
  OBVIOUS
<1> DEFINE q == (p + i) \div Buf
           s == (p + j) \div Buf
           r == (p + i) % Buf
<1>2. q \in Nat /\ p + i = Buf * q + r /\ r \in 0 .. Buf - 1
  BY <1>1, Split
<1>3. s \in Nat /\ p + j = Buf * s + r
  BY <1>1, Split DEF Slot
<1> HIDE DEF q, s, r
<1>4. Buf * s > Buf * q /\ Buf * s < Buf * q + Buf
  BY <1>1, <1>2, <1>3
<1>5. s > q
  <2> SUFFICES ASSUME s <= q PROVE FALSE
    BY <1>2, <1>3
  <2>1. Buf * s <= Buf * q
    BY <1>1, <1>2, <1>3
  <2> QED BY <1>1, <1>2, <1>3, <1>4, <2>1
<1>6. s >= q + 1
  BY <1>2, <1>3, <1>5
<1>7. Buf * s >= Buf * (q + 1) /\ Buf * (q + 1) = Buf * q + Buf
  BY <1>1, <1>2, <1>3, <1>6
<1> QED BY <1>1, <1>2, <1>3, <1>4, <1>7

\* A pointer and its digits.
LEMMA Digits ==
  ASSUME NEW v \in Pointers
  PROVE  /\ Digit(v, 0) \in 0 .. B - 1 /\ Digit(v, 1) \in 0 .. B - 1
         /\ Digit(v, 0) = v \div B /\ Digit(v, 1) = v % B
         /\ (v \div B) * B + (v % B) = v
<1>1. v \in Nat /\ v < B * B /\ B \in Nat \ {0}
  <2>1. v \in Nat /\ v < M
    BY MFacts DEF Pointers
  <2> QED BY <2>1, MFacts DEF M
<1> DEFINE q == v \div B
           r == v % B
<1>2. q \in Nat /\ r \in 0 .. B - 1 /\ v = B * q + r
  BY <1>1, Split
<1>3. Digit(v, 0) = q /\ Digit(v, 1) = r
  BY DEF Digit
<1> HIDE DEF q, r
<1>4. q < B
  <2> SUFFICES ASSUME q >= B PROVE FALSE
    BY <1>1, <1>2
  <2>1. B * q >= B * B
    BY <1>1, <1>2
  <2> QED BY <1>1, <1>2, <2>1
<1>5. q * B + r = v
  BY <1>1, <1>2
<1> QED BY <1>1, <1>2, <1>3, <1>4, <1>5 DEF q, r

\* A pointer of two digits, and what writing one of them makes of it.
LEMMA WithDigitIs ==
  ASSUME NEW a \in 0 .. B - 1, NEW c \in 0 .. B - 1, NEW d \in 0 .. B - 1
  PROVE  /\ a * B + c \in Pointers
         /\ (a * B + c) \div B = a /\ (a * B + c) % B = c
         /\ WithDigit(a * B + c, 0, d) = d * B + c
         /\ WithDigit(a * B + c, 1, d) = a * B + d
<1>1. B \in Nat \ {0} /\ M = B * B
  BY MFacts DEF M
<1> DEFINE v == a * B + c
<1>2. v \in Nat /\ v = B * a + c
  BY <1>1
<1>3. v < B * B
  <2>1. a + 1 <= B /\ a + 1 \in Nat
    BY <1>1
  <2>2. (a + 1) * B <= B * B
    BY <1>1, <2>1
  <2>3. (a + 1) * B = a * B + B
    BY <1>1
  <2> QED BY <1>1, <2>2, <2>3
<1>4. v \in Pointers
  BY <1>1, <1>2, <1>3 DEF Pointers
<1>5. v % B = c /\ v \div B = a
  BY <1>1, <1>2, SplitIs
<1>6. WithDigit(v, 0, d) = d * B + c
  BY <1>5 DEF WithDigit
<1>7. WithDigit(v, 1, d) = a * B + d
  BY <1>1, <1>5 DEF WithDigit
<1> QED BY <1>4, <1>5, <1>6, <1>7

\* A size that has grown between its digits is not overrated.
LEMMA Underrated ==
  ASSUME NEW a \in 0 .. B - 1, NEW f \in Pointers, a * B <= f
  PROVE  a * B + (f % B) <= f
<1>1. B \in Nat \ {0} /\ f \in Nat
  BY MFacts DEF Pointers
<1> DEFINE q == f \div B
           r == f % B
<1>2. q \in Nat /\ r \in 0 .. B - 1 /\ f = B * q + r
  BY <1>1, Split
<1> HIDE DEF q, r
<1>3. a <= q
  <2> SUFFICES ASSUME a >= q + 1 PROVE FALSE
    BY <1>1, <1>2
  <2>1. a * B >= (q + 1) * B /\ (q + 1) * B = B * q + B
    BY <1>1, <1>2
  <2> QED BY <1>1, <1>2, <2>1
<1>4. a * B <= q * B
  BY <1>1, <1>2, <1>3
<1>5. a * B + r <= f
  BY <1>1, <1>2, <1>4
<1> QED BY <1>5 DEF r

-----------------------------------------------------------------------------
(* The kinds of steps.                                                     *)

App == <<up, call, step, val, ptr, got, next, taken, ret, torn, lost, abandoned>>

\* Nothing happens but to the frame.
Quiet ==
  /\ UNCHANGED Data /\ UNCHANGED App /\ Moved' = Moved
  /\ \A j \in Nat : j < Moved => (Ans(j))' = Ans(j)
  /\ fpc' # "none" => fpc # "none" \/ Moved = 0
  /\ fpc' # "none" \/ ~busy' \/ UNCHANGED <<fpc, busy, window, shift>>

ReadsByte ==
  /\ UNCHANGED Data /\ UNCHANGED App /\ fpc # "none" /\ fpc' = fpc /\ Name \in Reads
  /\ Moved \in 0 .. LenOf(Name) - 1 /\ Moved' = Moved + 1
  /\ \A j \in Nat : j < Moved => (Ans(j))' = Ans(j)
  /\ \A j \in Nat : j = Moved => (Ans(j))' = RegByte(RegOf(Name), OffOf(Name), j)

WritesByte ==
  /\ UNCHANGED App /\ fpc # "none" /\ fpc' = fpc /\ Name \notin Reads
  /\ Moved \in 0 .. LenOf(Name) - 1 /\ Moved' = Moved + 1
  /\ RegWrite(RegOf(Name), OffOf(Name), Moved, DataOf(Name, Moved))

\* The byte of a frame that was given up reaches its register.
Strays ==
  /\ UNCHANGED App /\ fpc = "none" /\ fpc' = "none" /\ Moved = 0 /\ Moved' = 0
  /\ step = 1 /\ busy /\ ~busy' /\ window # <<>>
  /\ Harmless(window[1], window[2], shift)
  /\ RegWrite(window[1].reg, window[1].off, window[2], shift)

ChipMoves ==
  /\ UNCHANGED App /\ UNCHANGED <<fpc, busy, window, shift>> /\ Moved' = Moved
  /\ \A j \in Nat : (Ans(j))' = Ans(j)
  /\ \/ (ResetEnds \/ TakesCommand) /\ UNCHANGED <<sent, arrived, rxRing>>
     \/ (Transmits \/ Drops) /\ UNCHANGED <<arrived, rxRing>>
     \/ Arrives /\ UNCHANGED sent
  /\ UNCHANGED txRing

Completes ==
  /\ Exchanged /\ UNCHANGED Data /\ fpc = "end" /\ fpc' = "none" /\ ~busy'
  /\ Calling /\ Moved = LenOf(Name) /\ Moved' = 0
  /\ \A j \in 0 .. LenOf(Name) - 1 : reply[j + 2] = Ans(j)
  /\ reply = [i \in 1 .. LenOf(Name) + 1 |-> reply[i]]

Leaves ==
  busy' /\ window' # <<>> /\ ~window'[1].read =>
    /\ Name \notin Reads /\ Moved < LenOf(Name)
    /\ window'[1].reg = RegOf(Name) /\ window'[1].off = OffOf(Name)
    /\ window'[2] = Moved /\ shift' = DataOf(Name, Moved)

Fails ==
  /\ Failed /\ UNCHANGED Data /\ fpc' = "none" /\ Calling
  /\ Moved \in 0 .. LenOf(Name) /\ Moved' = 0
  /\ \/ fpc = "none" /\ step = 1 /\ Moved = 0 /\ UNCHANGED <<window, shift, busy>>
     \/ fpc = "end" /\ Leaves

Calls ==
  /\ UNCHANGED Data /\ fpc = "none" /\ Moved = 0 /\ Moved' = 0
  /\ UNCHANGED <<fpc, busy, window, shift>>
  /\ \E op \in Ops, n \in 1 .. Buf : Call(op, n)

Kinds ==
  Quiet \/ ReadsByte \/ WritesByte \/ Strays \/ ChipMoves \/ Completes \/ Fails \/ Calls

\* Every step is of one of them.
LEMMA KindsAre ==
  ASSUME W5Inv, [Next]_vars
  PROVE  Framed' /\ Kinds
<1> USE DEF W5Inv
<1>a. ASSUME UNCHANGED cpuVars PROVE UNCHANGED App
  BY <1>a DEF cpuVars, callVars, App
<1>d. ASSUME UNCHANGED chipVars PROVE UNCHANGED Data
  BY <1>d DEF chipVars, Data
<1>1. CASE Opens
  <2>1. UNCHANGED App /\ UNCHANGED Data
    BY <1>1, <1>a, OpenStep
  <2>2. Framed' /\ Moved = 0 /\ Moved' = 0 /\ ~busy' /\ fpc = "none" /\ fpc' = "none"
    BY <1>1, OpenStep
  <2>3. Quiet
    BY <2>1, <2>2 DEF Quiet
  <2> QED BY <2>2, <2>3 DEF Kinds
<1>2. CASE \E op \in Ops, n \in 1 .. Buf : Call(op, n)
  <2>1. PICK op \in Ops, n \in 1 .. Buf : Call(op, n)
    BY <1>2
  <2>2. Framed' /\ Moved = 0 /\ Moved' = 0 /\ fpc = "none"
        /\ UNCHANGED <<engVars, frameVars, chipVars>>
    BY <2>1, CallStep
  <2>3. UNCHANGED <<fpc, busy, window, shift>> /\ UNCHANGED Data
    BY <2>2, <1>d DEF engVars, frameVars, chipVars
  <2> QED BY <1>2, <2>2, <2>3 DEF Kinds, Calls
<1>3. CASE Begins
  <2>1. /\ Framed' /\ fpc' = "byte" /\ Moved = 0 /\ Moved' = 0
        /\ UNCHANGED <<chipVars, cpuVars>>
    BY <1>3, BeginStep
  <2>2. UNCHANGED App /\ UNCHANGED Data
    BY <2>1, <1>a, <1>d
  <2>3. Quiet
    BY <2>1, <2>2 DEF Quiet
  <2> QED BY <2>1, <2>3 DEF Kinds
<1>4. CASE Moves
  <2>1. /\ Framed' /\ fpc # "none" /\ fpc' # "none" /\ Moved' = Moved
        /\ \A j \in Nat : j < Moved => (Ans(j))' = Ans(j)
        /\ UNCHANGED <<chipVars, cpuVars>>
    BY <1>4, MoveStep
  <2>2. UNCHANGED App /\ UNCHANGED Data
    BY <2>1, <1>a, <1>d
  <2>3. Quiet
    BY <2>1, <2>2 DEF Quiet
  <2> QED BY <2>1, <2>3 DEF Kinds
<1>5. CASE Ends
  <2>1. CASE FrameOk
    <3>1. Framed' /\ Completes
      BY <1>5, <2>1, EndStep DEF Completes
    <3> QED BY <3>1 DEF Kinds
  <2>2. CASE ~FrameOk
    <3>1. Framed' /\ Fails
      BY <1>5, <2>2, FailStep DEF Fails, Leaves
    <3> QED BY <3>1 DEF Kinds
  <2> QED BY <2>1, <2>2
<1>6. CASE RunsOut
  <2>1. CASE ByteGivenUp /\ UNCHANGED <<chipVars, up, callVars, next, taken, ret, torn, lost, abandoned>>
    <3>1. /\ Framed' /\ fpc # "none" /\ fpc' # "none" /\ Moved' = Moved
          /\ \A j \in Nat : (Ans(j))' = Ans(j)
      BY <2>1, GiveUpStep
    <3>2. UNCHANGED App /\ UNCHANGED Data
      BY <2>1, <1>d DEF App, callVars
    <3>3. Quiet
      BY <3>1, <3>2 DEF Quiet
    <3> QED BY <3>1, <3>3 DEF Kinds
  <2>2. CASE Calling /\ fpc = "none" /\ busy /\ Failed /\ UNCHANGED <<engVars, frameVars, chipVars>>
    <3>1. Framed' /\ Moved = 0 /\ Moved' = 0 /\ step = 1 /\ UNCHANGED <<window, shift, busy, fpc>>
      BY <2>2, LateStep
    <3>2. Moved \in 0 .. LenOf(Name)
      BY <3>1, <2>2, LenIs
    <3>3. UNCHANGED Data
      BY <2>2, <1>d
    <3>4. Fails
      BY <3>1, <3>2, <3>3, <2>2 DEF Fails
    <3> QED BY <3>1, <3>4 DEF Kinds
  <2> QED BY <1>6, <2>1, <2>2 DEF RunsOut
<1>7. CASE Device
  <2>0. UNCHANGED App
    BY <1>7, <1>a DEF Device
  <2>1. CASE fpc = "none"
    <3>1. /\ Framed' /\ Moved = 0 /\ Moved' = 0 /\ busy /\ ~busy' /\ window' = <<>>
          /\ \/ UNCHANGED Data
             \/ /\ window # <<>> /\ ~window[1].read
                /\ RegWrite(window[1].reg, window[1].off, window[2], shift)
      BY <1>7, <2>1, StrayExchange
    <3>2. fpc' = "none"
      BY <1>7, <2>1 DEF Device, Exchange, ByteDone, frameVars
    <3>3. CASE UNCHANGED Data
      <4>0. Moved' = Moved /\ \A j \in Nat : j < Moved => (Ans(j))' = Ans(j)
        BY <3>1
      <4>1. Quiet
        BY <2>0, <2>1, <3>1, <3>2, <3>3, <4>0, Zenon DEF Quiet
      <4> QED BY <3>1, <4>1 DEF Kinds
    <3>4. CASE window # <<>> /\ ~window[1].read
               /\ RegWrite(window[1].reg, window[1].off, window[2], shift)
      <4>1. Harmless(window[1], window[2], shift) /\ step = 1
        BY <2>1, <3>1, <3>4 DEF Left, Framed
      <4>2. Strays
        BY <2>0, <2>1, <3>1, <3>2, <3>4, <4>1 DEF Strays
      <4> QED BY <3>1, <4>2 DEF Kinds
    <3> QED BY <3>1, <3>3, <3>4
  <2>2. CASE fpc # "none" /\ k = 1
    <3>1. Framed' /\ Moved = 0 /\ Moved' = 0 /\ fpc' = fpc /\ UNCHANGED Data
      BY <1>7, <2>2, HeaderExchange
    <3>2. Quiet
      BY <2>0, <2>2, <3>1 DEF Quiet
    <3> QED BY <3>1, <3>2 DEF Kinds
  <2>3. CASE fpc # "none" /\ k # 1
    <3>1. CASE Name \in Reads
      <4>1. ReadsByte /\ Framed'
        BY <1>7, <2>0, <2>3, <3>1, DataExchange DEF ReadsByte
      <4> QED BY <4>1 DEF Kinds
    <3>2. CASE Name \notin Reads
      <4>1. WritesByte /\ Framed'
        BY <1>7, <2>0, <2>3, <3>2, DataExchange DEF WritesByte
      <4> QED BY <4>1 DEF Kinds
    <3> QED BY <3>1, <3>2
  <2> QED BY <2>1, <2>2, <2>3
<1>8. CASE ChipStep
  <2>1. /\ Framed' /\ Moved' = Moved /\ \A j \in Nat : (Ans(j))' = Ans(j)
        /\ UNCHANGED <<engVars, frameVars, window, cpuVars>>
    BY <1>8, ChipFrame
  <2>2. UNCHANGED App /\ UNCHANGED <<fpc, busy, window, shift>>
    BY <2>1, <1>a DEF engVars, frameVars
  <2>3. ChipMoves
    BY <1>8, <2>1, <2>2 DEF ChipMoves, ChipStep
  <2> QED BY <2>1, <2>3 DEF Kinds
<1>9. CASE UNCHANGED vars
  <2>1. UNCHANGED <<engVars, frameVars, chipVars, cpuVars>>
    BY <1>9 DEF vars
  <2>2. UNCHANGED <<enable, busy, hold, cs, shift, units, k, fpc, reply, window, step>>
    BY <2>1 DEF engVars, frameVars, chipVars, cpuVars, callVars
  <2>3. Framed'
    BY <2>1, <2>2, SameAccess DEF Framed, Pending
  <2>4. Moved' = Moved /\ \A j \in Nat : (Ans(j))' = Ans(j)
    BY <2>2 DEF Moved, Ans
  <2>5. Quiet
    BY <2>1, <2>2, <2>4, <1>a, <1>d DEF Quiet
  <2> QED BY <2>3, <2>5 DEF Kinds
<1> QED
  BY <1>1, <1>2, <1>3, <1>4, <1>5, <1>6, <1>7, <1>8, <1>9 DEF Next, Ops

-----------------------------------------------------------------------------
(* What is written.                                                        *)

Fills ==
  /\ Sends /\ step \in {3, 4} /\ Filled \in 0 .. call.n - 1 /\ Filled' = Filled + 1
  /\ chip' = chip /\ txRing' = [txRing EXCEPT ![Slot(ptr, Filled)] = next - call.n + Filled]

PutsWr ==
  /\ Sends /\ step = 5 /\ Moved \in 0 .. 1
  /\ txRing' = txRing /\ chip' = [chip EXCEPT !.txWr = Between(Moved + 1)]

PutsRd ==
  /\ Receives /\ step = 5 /\ Moved \in 0 .. 1
  /\ txRing' = txRing /\ chip' = [chip EXCEPT !.rxRdReg = Between(Moved + 1)]

Commanding ==
  /\ Moved = 0 /\ txRing' = txRing /\ Name \in Commands /\ chip' = [chip EXCEPT !.cr = Name]
  /\ \/ Name = "SEND" /\ Sends /\ step = 6
     \/ Name = "RECV" /\ Receives /\ step = 6
     \/ Name \in {"CLOSE", "OPEN", "CONNECT"} /\ call.op \in {"open", "connect"}

Acks ==
  /\ Sends /\ step = 9 /\ Moved = 0
  /\ txRing' = txRing /\ chip' = [chip EXCEPT !.ir = @ \ val]

Configures ==
  /\ ~Sends /\ ~Receives /\ txRing' = txRing
  /\ \E m \in BOOLEAN, s \in SUBSET Configs :
       /\ chip' = [chip EXCEPT !.mr = m, !.set = s]
       /\ m # chip.mr => call.op = "initialize" /\ step = 1

\* The pointer a call writes back is a pointer.
LEMMA TargetIs ==
  ASSUME Typed, Calling
  PROVE  Target \in Pointers /\ ptr \in Pointers /\ call.n \in Nat /\ call.n < M
<1>1. ptr \in Pointers /\ call.n \in 1 .. Buf
  BY DEF Typed
<1>2. call.n \in Nat /\ call.n < M
  BY <1>1, MFacts
<1> QED BY <1>1, <1>2, AheadIs DEF Target

\* A pointer is replaced digit by digit.
LEMMA BetweenIs ==
  ASSUME Typed, Calling
  PROVE  /\ Between(0) = ptr /\ Between(2) = Target
         /\ \A m \in 0 .. 2 : Between(m) \in Pointers
         /\ \A m \in 0 .. 1 : WithDigit(Between(m), m, Digit(Target, m)) = Between(m + 1)
<1> DEFINE t1 == Target \div B   t0 == Target % B   p1 == ptr \div B   p0 == ptr % B
<1>1. Target \in Pointers /\ ptr \in Pointers
  BY TargetIs
<1>2. /\ t1 \in 0 .. B - 1 /\ t0 \in 0 .. B - 1 /\ t1 * B + t0 = Target
      /\ Digit(Target, 0) = t1 /\ Digit(Target, 1) = t0
  BY <1>1, Digits
<1>3. p1 \in 0 .. B - 1 /\ p0 \in 0 .. B - 1 /\ p1 * B + p0 = ptr
  BY <1>1, Digits
<1>4. Between(0) = ptr /\ Between(1) = t1 * B + p0 /\ Between(2) = Target
  BY DEF Between
<1> HIDE DEF t1, t0, p1, p0
<1>5. t1 * B + p0 \in Pointers /\ WithDigit(t1 * B + p0, 1, t0) = t1 * B + t0
  BY <1>2, <1>3, WithDigitIs
<1>6. WithDigit(p1 * B + p0, 0, t1) = t1 * B + p0
  BY <1>2, <1>3, WithDigitIs
<1>7. ASSUME NEW m \in 0 .. 2 PROVE Between(m) \in Pointers
  <2>1. m = 0 \/ m = 1 \/ m = 2
    OBVIOUS
  <2> QED BY <2>1, <1>1, <1>4, <1>5
<1>8. ASSUME NEW m \in 0 .. 1
      PROVE  WithDigit(Between(m), m, Digit(Target, m)) = Between(m + 1)
  <2>1. CASE m = 0
    <3>1. WithDigit(Between(0), 0, Digit(Target, 0)) = Between(1)
      BY <1>2, <1>3, <1>4, <1>6, Zenon
    <3> QED BY <2>1, <3>1
  <2>2. CASE m = 1
    <3>1. WithDigit(Between(1), 1, Digit(Target, 1)) = Between(2)
      BY <1>2, <1>4, <1>5, Zenon
    <3> QED BY <2>2, <3>1
  <2> QED BY <2>1, <2>2
<1> QED BY <1>4, <1>7, <1>8

\* Which calls write which settings and commands.
LEMMA ConfigTells ==
  ASSUME Typed, Calling
  PROVE  /\ Name \in Configs \cup {"MR"} => call.op \notin {"send", "receive"}
         /\ Name \in {"CLOSE", "OPEN", "CONNECT"} => call.op \in {"open", "connect"}
<1>1. CASE call.op = "initialize"
  <2>1. Name \notin {"CLOSE", "OPEN", "CONNECT"}
    <3>1. step = 1 \/ step = 2 \/ step = 3 \/ step = 4 \/ step = 5 \/ step = 6 \/ step = 7
      BY <1>1, CallRange
    <3>2. Name \in {"MR", "MR?", "GAR", "SUBR", "SHAR", "SIPR", "VERSIONR"}
      BY <1>1, <3>1, InitializeNames
    <3> QED BY <3>2
  <2> QED BY <1>1, <2>1
<1>2. CASE call.op \in {"open", "connect"}
  BY <1>2
<1>3. CASE call.op = "send"
  <2>1. step = 1 \/ step = 2 \/ step = 3 \/ step = 4 \/ step = 5 \/ step = 6 \/ step = 7
        \/ step = 8 \/ step = 9
    BY <1>3, CallRange
  <2>2. Name \in {"FSR", "TX_WR", "FILL", "FILL2", "PUT_WR", "SEND", "CR?", "IR?", "ACK"}
    BY <1>3, <2>1, SendNames
  <2> QED BY <1>3, <2>2 DEF Configs
<1>4. CASE call.op = "receive"
  <2>1. step = 1 \/ step = 2 \/ step = 3 \/ step = 4 \/ step = 5 \/ step = 6 \/ step = 7
    BY <1>4, CallRange
  <2>2. Name \in {"RSR", "RX_RD", "TAKE", "TAKE2", "PUT_RD", "RECV", "CR?"}
    BY <1>4, <2>1, ReceiveNames
  <2> QED BY <1>4, <2>2 DEF Configs
<1> QED BY <1>1, <1>2, <1>3, <1>4, CallRange DEF Ops

\* Where the bytes of a send lie, and what they are.
LEMMA SendPlaceIs ==
  ASSUME Typed, Calling, Moved \in 0 .. LenOf(Name) - 1, Name \in {"FILL", "FILL2"}
  PROVE  /\ Sends /\ step = (IF Name = "FILL" THEN 3 ELSE 4) /\ RegOf(Name) = "TXBUF"
         /\ Moved \in Nat /\ Filled \in 0 .. call.n - 1
         /\ Filled = IF Name = "FILL" THEN Moved ELSE First + Moved
         /\ OffOf(Name) + Moved = Slot(ptr, Filled) /\ Slot(ptr, Filled) \in Ring
         /\ DataOf(Name, Moved) = next - call.n + Filled
<1>1. call.n \in 1 .. Buf /\ next \in Nat /\ Buf \in Nat /\ ptr \in Pointers
  BY MFacts DEF Typed
<1>2. First \in 1 .. call.n /\ First + Offset <= Buf /\ (First < call.n => First + Offset = Buf)
      /\ Offset \in 0 .. Buf - 1 /\ Offset = ptr % Buf
  BY FirstIs DEF Offset
<1>3. CASE Name = "FILL"
  <2>1. Sends /\ step = 3 /\ Filled = Moved
    BY <1>3, NameTells DEF Sends, Filled
  <2>2. LenOf(Name) = First /\ RegOf(Name) = "TXBUF" /\ OffOf(Name) = Offset
        /\ DataOf(Name, Moved) = next - call.n + Moved
    BY <1>3 DEF LenOf, RegOf, OffOf, DataOf, Doubles, Commands
  <2>3. Moved \in Nat /\ Moved \in 0 .. call.n - 1 /\ Offset + Moved < Buf
    BY <1>1, <1>2, <2>2
  <2>4. Slot(ptr, Moved) = Offset + Moved /\ Slot(ptr, Moved) \in Ring
    BY <1>1, <1>2, <2>3, SlotIn
  <2> QED BY <1>3, <2>1, <2>2, <2>3, <2>4
<1>4. CASE Name = "FILL2"
  <2>1. Sends /\ step = 4 /\ Filled = First + Moved
    BY <1>4, NameTells DEF Sends, Filled
  <2>2. LenOf(Name) = call.n - First /\ RegOf(Name) = "TXBUF" /\ OffOf(Name) = 0
        /\ DataOf(Name, Moved) = next - call.n + First + Moved
    BY <1>4 DEF LenOf, RegOf, OffOf, DataOf, Doubles, Commands
  <2>3. Moved \in Nat /\ First + Moved \in 0 .. call.n - 1 /\ First + Offset = Buf
        /\ next - call.n + First + Moved = next - call.n + (First + Moved)
        /\ Moved < Buf /\ 0 + Moved = Moved
    BY <1>1, <1>2, <2>2
  <2>4. /\ Offset + (First + Moved) >= Buf /\ Offset + (First + Moved) < 2 * Buf
        /\ Offset + (First + Moved) - Buf = Moved
    BY <1>1, <1>2, <2>3
  <2>5. Slot(ptr, First + Moved) = Moved /\ Slot(ptr, First + Moved) \in Ring
    <3>1. First + Moved \in Nat
      BY <2>3
    <3> QED BY <1>1, <1>2, <2>4, <3>1, SlotIn
  <2> QED BY <1>4, <2>1, <2>2, <2>3, <2>5
<1> QED BY <1>3, <1>4

\* A byte that arrives in the chip is one of six things.
LEMMA WritesAre ==
  ASSUME W5Inv, WritesByte
  PROVE  /\ Calling /\ UNCHANGED <<rxRing, sent, arrived>>
         /\ Fills \/ PutsWr \/ PutsRd \/ Commanding \/ Acks \/ Configures
<1> USE DEF W5Inv
<1>0. /\ Calling /\ Name \in Names /\ Name \notin Reads
      /\ Moved \in 0 .. LenOf(Name) - 1 /\ Moved' = Moved + 1 /\ fpc # "none"
      /\ UNCHANGED <<call, step, ptr, next, val>>
  BY FrameIs DEF WritesByte, App
<1>1. UNCHANGED <<rxRing, sent, arrived>>
  BY DEF WritesByte, RegWrite
<1>2. ASSUME NEW r, NEW o, NEW d, RegOf(Name) = r, OffOf(Name) = o, DataOf(Name, Moved) = d
      PROVE  RegWrite(r, o, Moved, d)
  BY <1>2 DEF WritesByte
<1>3. step \in Nat /\ call.n \in 1 .. Buf /\ next \in Nat /\ Buf \in Nat
  BY <1>0, CallRange, Lengths, MFacts DEF Typed
<1>4. CASE Name \in {"FILL", "FILL2"}
  <2>1. /\ Sends /\ step \in {3, 4} /\ RegOf(Name) = "TXBUF" /\ Moved \in Nat
        /\ Filled \in 0 .. call.n - 1
        /\ Filled = IF step = 3 THEN Moved ELSE First + Moved
        /\ OffOf(Name) + Moved = Slot(ptr, Filled) /\ Slot(ptr, Filled) \in Ring
        /\ DataOf(Name, Moved) = next - call.n + Filled
    BY <1>0, <1>4, SendPlaceIs
  <2>2. /\ txRing' = [txRing EXCEPT ![Slot(ptr, Filled)] = next - call.n + Filled]
        /\ chip' = chip
    <3>1. RegWrite("TXBUF", OffOf(Name), Moved, next - call.n + Filled)
      BY <1>2, <2>1
    <3> QED BY <2>1, <3>1 DEF RegWrite, Configs
  <2>3. Filled' = Filled + 1
    <3>1. Filled' = IF step = 3 THEN Moved' ELSE First + Moved'
      BY <1>0, <2>1 DEF Filled, First, Offset
    <3>2. First \in Nat
      BY <1>0, FirstIs
    <3> QED BY <1>0, <2>1, <3>1, <3>2
  <2> QED BY <1>0, <1>1, <2>1, <2>2, <2>3 DEF Fills
<1>6. CASE Name = "PUT_WR"
  <2>1. Sends /\ step = 5 /\ Moved \in 0 .. 1
    BY <1>0, <1>6, NameTells DEF Sends, LenOf, Doubles
  <2>2. RegWrite("TX_WR", 0, Moved, Digit(Target, Moved))
    <3>1. RegOf(Name) = "TX_WR" /\ OffOf(Name) = 0 /\ DataOf(Name, Moved) = Digit(Target, Moved)
      BY <1>6 DEF RegOf, OffOf, DataOf, Commands
    <3> QED BY <3>1, <1>2
  <2>3. chip.txWr = Between(Moved)
    BY <2>1 DEF Sending, Put
  <2>4. WithDigit(chip.txWr, Moved, Digit(Target, Moved)) = Between(Moved + 1)
    BY <1>0, <2>1, <2>3, BetweenIs
  <2>5. txRing' = txRing
        /\ chip' = [chip EXCEPT !.txWr = WithDigit(chip.txWr, Moved, Digit(Target, Moved))]
    BY <2>2 DEF RegWrite, Configs
  <2> QED BY <1>0, <1>1, <2>1, <2>4, <2>5 DEF PutsWr
<1>7. CASE Name = "PUT_RD"
  <2>1. Receives /\ step = 5 /\ Moved \in 0 .. 1
    BY <1>0, <1>7, NameTells DEF Receives, LenOf, Doubles
  <2>2. RegWrite("RX_RD", 0, Moved, Digit(Target, Moved))
    <3>1. RegOf(Name) = "RX_RD" /\ OffOf(Name) = 0 /\ DataOf(Name, Moved) = Digit(Target, Moved)
      BY <1>7 DEF RegOf, OffOf, DataOf, Commands
    <3> QED BY <3>1, <1>2
  <2>3. chip.rxRdReg = Between(Moved)
    BY <2>1 DEF Receiving, Put
  <2>4. WithDigit(chip.rxRdReg, Moved, Digit(Target, Moved)) = Between(Moved + 1)
    BY <1>0, <2>1, <2>3, BetweenIs
  <2>5. txRing' = txRing
        /\ chip' = [chip EXCEPT !.rxRdReg = WithDigit(chip.rxRdReg, Moved, Digit(Target, Moved))]
    BY <2>2 DEF RegWrite, Configs
  <2> QED BY <1>0, <1>1, <2>1, <2>4, <2>5 DEF PutsRd
<1>8. CASE Name = "ACK"
  <2>1. Sends /\ step = 9 /\ Moved = 0
    BY <1>0, <1>8, NameTells DEF Sends, LenOf, Doubles
  <2>2. RegWrite("IR", 0, Moved, val)
    <3>1. RegOf(Name) = "IR" /\ OffOf(Name) = 0 /\ DataOf(Name, Moved) = val
      BY <1>8 DEF RegOf, OffOf, DataOf, Commands
    <3> QED BY <3>1, <1>2
  <2>3. txRing' = txRing /\ chip' = [chip EXCEPT !.ir = @ \ val]
    BY <2>2 DEF RegWrite, Configs
  <2> QED BY <1>0, <1>1, <2>1, <2>3 DEF Acks
<1>9. CASE Name \in Commands
  <2>1. Moved = 0
    BY <1>0, <1>9 DEF LenOf, Doubles, Commands
  <2>2. RegWrite("CR", 0, Moved, Name)
    <3>1. RegOf(Name) = "CR" /\ OffOf(Name) = 0 /\ DataOf(Name, Moved) = Name
      BY <1>9 DEF RegOf, OffOf, DataOf, Commands
    <3> QED BY <3>1, <1>2
  <2>3. txRing' = txRing /\ chip' = [chip EXCEPT !.cr = Name]
    BY <2>2 DEF RegWrite, Configs
  <2>4. \/ Name = "SEND" /\ Sends /\ step = 6
        \/ Name = "RECV" /\ Receives /\ step = 6
        \/ Name \in {"CLOSE", "OPEN", "CONNECT"} /\ call.op \in {"open", "connect"}
    <3>1. Name = "SEND" => Sends /\ step = 6
      BY <1>0, NameTells DEF Sends
    <3>2. Name = "RECV" => Receives /\ step = 6
      BY <1>0, NameTells DEF Receives
    <3>3. Name \in {"CLOSE", "OPEN", "CONNECT"} => call.op \in {"open", "connect"}
      BY <1>0, ConfigTells
    <3> QED BY <1>9, <3>1, <3>2, <3>3 DEF Commands
  <2> QED BY <1>0, <1>1, <1>9, <2>1, <2>3, <2>4 DEF Commanding
<1>10. CASE Name = "MR"
  <2>1. ~Sends /\ ~Receives /\ call.op = "initialize" /\ step = 1
    BY <1>0, <1>10, NameTells DEF Sends, Receives
  <2>2. RegWrite("MR", 0, Moved, 1)
    <3>1. RegOf(Name) = "MR" /\ OffOf(Name) = 0 /\ DataOf(Name, Moved) = 1
      BY <1>10 DEF RegOf, OffOf, DataOf, Commands
    <3> QED BY <3>1, <1>2
  <2>3. txRing' = txRing /\ chip' = [chip EXCEPT !.mr = TRUE]
    BY <2>2 DEF RegWrite, Configs
  <2>4. chip \in ChipType /\ chip.set \in SUBSET Configs
    BY DEF Typed, ChipType
  <2>5. chip' = [chip EXCEPT !.mr = TRUE, !.set = chip.set]
    BY <2>3, <2>4 DEF ChipType
  <2> QED BY <1>0, <1>1, <2>1, <2>3, <2>4, <2>5 DEF Configures
<1>11. CASE Name \in Configs
  <2>1. ~Sends /\ ~Receives
    BY <1>0, <1>11, ConfigTells DEF Sends, Receives
  <2>2. RegWrite(Name, 0, Moved, 1)
    <3>1. RegOf(Name) = Name /\ OffOf(Name) = 0 /\ DataOf(Name, Moved) = 1
      BY <1>11 DEF RegOf, OffOf, DataOf, Commands, Configs
    <3> QED BY <3>1, <1>2
  <2>3. txRing' = txRing /\ chip' = [chip EXCEPT !.set = @ \cup {Name}]
    BY <2>2, <1>11 DEF RegWrite, Configs
  <2>4. chip \in ChipType /\ chip.set \cup {Name} \in SUBSET Configs /\ chip.mr \in BOOLEAN
    BY <1>11 DEF Typed, ChipType
  <2>5. chip' = [chip EXCEPT !.mr = chip.mr, !.set = chip.set \cup {Name}]
    BY <2>3, <2>4 DEF ChipType
  <2> QED BY <1>0, <1>1, <2>1, <2>3, <2>4, <2>5 DEF Configures
<1> QED
  BY <1>0, <1>4, <1>6, <1>7, <1>8, <1>9, <1>10, <1>11 DEF Names

-----------------------------------------------------------------------------
(* Steps of the frame.                                                     *)

\* While the variables of the calls stay, so does all that is said of them.
LEMMA AppSame ==
  ASSUME UNCHANGED App
  PROVE  /\ UNCHANGED <<up, call, step, val, ptr, got, next, taken, ret, torn, lost, abandoned>>
         /\ Name' = Name /\ (Calling' <=> Calling) /\ (Sends' <=> Sends)
         /\ (Receives' <=> Receives)
         /\ Offset' = Offset /\ First' = First /\ Target' = Target /\ Held' = Held
<1>1. UNCHANGED <<up, call, step, val, ptr, got, next, taken, ret, torn, lost, abandoned>>
  BY DEF App
<1>2. Offset' = Offset
  BY <1>1 DEF Offset
<1>3. First' = First
  BY <1>1, <1>2 DEF First
<1>4. Held' = Held
  BY <1>1, <1>3 DEF Held
<1>5. Name' = Name /\ Target' = Target /\ (Calling' <=> Calling) /\ (Sends' <=> Sends)
      /\ (Receives' <=> Receives)
  BY <1>1 DEF Name, Target, Calling, Sends, Receives
<1> QED BY <1>1, <1>2, <1>3, <1>4, <1>5

\* What counts the bytes of a write does not notice those of a read.
LEMMA CountsSame ==
  ASSUME Typed, UNCHANGED App, Moved' = Moved \/ (Calling /\ Name \in Reads)
  PROVE  /\ Sends \/ Receives => (Commanded' <=> Commanded) /\ Put' = Put
         /\ Sends => Filled' = Filled
         /\ Sends /\ step = 9 => Moved' = Moved
<1>1. /\ UNCHANGED <<call, step, ptr>> /\ First' = First /\ Target' = Target
  BY AppSame
<1>2. ASSUME NEW m, NEW n, m = n PROVE (Between(m))' = Between(n)
  BY <1>1, <1>2 DEF Between
<1>3. ASSUME Sends \/ Receives, step \in {5, 6} PROVE Moved' = Moved
  <2>1. Calling /\ Name \in {"PUT_WR", "PUT_RD", "SEND", "RECV"}
    BY <1>3, SendNames, ReceiveNames DEF Calling, Sends, Receives
  <2> QED BY <2>1 DEF Reads
<1>4. ASSUME Sends, step \in {3, 4, 9} PROVE Moved' = Moved
  <2>1. Calling /\ Name \in {"FILL", "FILL2", "ACK"}
    BY <1>4, SendNames DEF Calling, Sends
  <2> QED BY <2>1 DEF Reads
<1>5. ASSUME Sends \/ Receives PROVE Commanded' <=> Commanded
  BY <1>1, <1>3, <1>5 DEF Commanded
<1>6. ASSUME Sends \/ Receives PROVE Put' = Put
  <2> DEFINE m == IF step < 5 THEN 0 ELSE IF step = 5 THEN Moved ELSE 2
  <2>1. m' = m
    BY <1>1, <1>3, <1>6
  <2> HIDE DEF m
  <2>2. (Between(m))' = Between(m)
    BY <1>1, <2>1 DEF Between
  <2> QED BY <2>2 DEF Put, m
<1>7. ASSUME Sends PROVE Filled' = Filled
  BY <1>1, <1>4, <1>7 DEF Filled
<1> QED BY <1>4, <1>5, <1>6, <1>7

\* While the chip's data stays, so do the sizes it shows.
LEMMA DataSame ==
  ASSUME UNCHANGED Data
  PROVE  /\ UNCHANGED <<chip, txRing, rxRing, sent, arrived>>
         /\ Waiting' = Waiting /\ Unsent' = Unsent /\ Free' = Free /\ Received' = Received
BY DEF Data, Waiting, Unsent, Free, Received

\* While the call and the pointer registers stay, so do the bases.
LEMMA BasesSame ==
  ASSUME UNCHANGED <<call, step, ptr>>, chip'.txWr = chip.txWr, chip'.rxRdReg = chip.rxRdReg
  PROVE  TxBase' = TxBase /\ RxBase' = RxBase
BY DEF TxBase, RxBase, Sends, Receives

\* A command is taken when the chip clears CR, not before.
LEMMA TakenSame ==
  ASSUME UNCHANGED call, chip'.cr = chip.cr, Sends \/ Receives => (Commanded' <=> Commanded)
  PROVE  (SendTaken' <=> SendTaken) /\ (RecvTaken' <=> RecvTaken)
BY DEF SendTaken, RecvTaken, Sends, Receives

\* The stream to the peer depends on these only.
LEMMA TxSame ==
  ASSUME W5Inv, UNCHANGED App, UNCHANGED <<txRing, sent>>,
         chip'.txWr = chip.txWr, chip'.txRd = chip.txRd, chip'.txEnd = chip.txEnd,
         chip'.ir = chip.ir, SendTaken' <=> SendTaken,
         Sends => Put' = Put /\ Filled' = Filled, Sends /\ step = 9 => Moved' = Moved
  PROVE  Sending' /\ InOrder' /\ Told'
<1> USE DEF W5Inv
<1>1. /\ UNCHANGED <<up, call, step, val, ptr, got, next, taken, ret, torn, lost, abandoned>>
      /\ (Sends' <=> Sends) /\ First' = First
  BY AppSame
<1>2. Waiting' = Waiting
  BY DEF Waiting
<1>3. TxBase' = TxBase
  BY <1>1 DEF TxBase
<1>5. Sending'
  <2>1. (Dist(chip.txRd, TxBase))' = Dist(chip.txRd, TxBase)
    BY <1>3 DEF Dist
  <2> QED BY <1>1, <2>1 DEF Sending, Slot
<1>6. InOrder'
  <2>1. Limit' = Limit
    BY <1>1 DEF Limit
  <2>2. ASSUME NEW l, Order(l) PROVE (Order(l))'
    BY <1>2, <2>1, <2>2 DEF Order, Slot
  <2> QED BY <1>1, <1>2, <1>3, <2>2 DEF InOrder
<1>7. Told'
  <2>1. OnTheirWay => OnTheirWay'
    BY <1>1, <1>2 DEF OnTheirWay, Numbers, Slot
  <2>2. (Numbers(sent))' = Numbers(sent)
    BY DEF Numbers
  <2> QED BY <1>1, <1>2, <2>1, <2>2 DEF Told
<1> QED BY <1>5, <1>6, <1>7

\* What nothing but the frame moves leaves alone.
LEMMA Unmoved ==
  ASSUME W5Inv, UNCHANGED Data, UNCHANGED App, Moved' = Moved \/ (Calling /\ Name \in Reads)
  PROVE  /\ Typed' /\ ResetOnce' /\ Commands6' /\ Sending' /\ InOrder' /\ Told'
         /\ (SendTaken' <=> SendTaken) /\ (RecvTaken' <=> RecvTaken)
         /\ TxBase' = TxBase /\ RxBase' = RxBase
         /\ Sends \/ Receives => Put' = Put
<1> USE DEF W5Inv
<1>1. /\ UNCHANGED <<up, call, step, val, ptr, got, next, taken, ret, torn, lost, abandoned>>
      /\ (Calling' <=> Calling) /\ (Sends' <=> Sends) /\ (Receives' <=> Receives)
      /\ First' = First
  BY AppSame
<1>2. /\ UNCHANGED <<chip, txRing, rxRing, sent, arrived>>
      /\ Waiting' = Waiting /\ Unsent' = Unsent /\ Free' = Free /\ Received' = Received
  BY DataSame
<1>3. /\ Sends \/ Receives => (Commanded' <=> Commanded) /\ Put' = Put
      /\ Sends => Filled' = Filled
      /\ Sends /\ step = 9 => Moved' = Moved
  BY CountsSame
<1>4. (SendTaken' <=> SendTaken) /\ (RecvTaken' <=> RecvTaken)
  BY <1>1, <1>2, <1>3, TakenSame
<1>5. TxBase' = TxBase /\ RxBase' = RxBase
  BY <1>1, <1>2, BasesSame
<1>6. Typed'
  BY <1>1, <1>2 DEF Typed
<1>7. ResetOnce'
  BY <1>1, <1>2 DEF ResetOnce
<1>8. Commands6'
  BY <1>1, <1>2, <1>3 DEF Commands6
<1>9. Sending' /\ InOrder' /\ Told'
  BY <1>2, <1>3, <1>4, TxSame
<1> QED BY <1>3, <1>4, <1>5, <1>6, <1>7, <1>8, <1>9

\* What has been read stays read.
LEMMA ReadStays ==
  ASSUME Read, UNCHANGED chip, UNCHANGED App, Moved' = Moved,
         \A j \in Nat : j < Moved => (Ans(j))' = Ans(j),
         fpc' # "none" => fpc # "none" \/ Moved = 0, Moved \in Nat
  PROVE  Read'
<1>1. /\ UNCHANGED <<call, step, torn, lost, abandoned, chip>> /\ Name' = Name /\ (Calling' <=> Calling)
  BY AppSame
<1>2. ASSUME NEW name, (Reading(name))', Moved # 0 PROVE Reading(name)
  BY <1>1, <1>2 DEF Reading
<1>3. (Free)' = Free /\ Received' = Received
  BY <1>1 DEF Free, Unsent, Received
<1>4. ASSUME NEW v, Shows(v) \/ Moved = 0
      PROVE  /\ Moved' >= 1 => (Ans(0))' = v \div B
             /\ Moved' >= 2 => (Ans(1))' = v % B
  BY <1>4 DEF Shows
<1>5. ASSUME NEW v, AtMost(v) \/ Moved = 0
      PROVE  /\ Moved' >= 1 => (Ans(0))' * B <= v
             /\ Moved' >= 2 => (Ans(0))' * B + (Ans(1))' <= v
  BY <1>5 DEF AtMost
<1>a. \A name \in {"FSR", "RSR"} : (Reading(name))' =>
        \A j \in 0 .. 1 : j < Moved' => (Ans(j))' \in 0 .. B - 1
  BY <1>2 DEF Read
<1>b. (Reading("TX_WR"))' => (Shows(chip.txWr))'
  <2> HAVE (Reading("TX_WR"))'
  <2>1. Shows(chip.txWr) \/ Moved = 0
    BY <1>2 DEF Read
  <2> QED BY <1>1, <1>4, <2>1 DEF Shows
<1>c. (Reading("RX_RD"))' => (Shows(chip.rxRdReg))'
  <2> HAVE (Reading("RX_RD"))'
  <2>1. Shows(chip.rxRdReg) \/ Moved = 0
    BY <1>2 DEF Read
  <2> QED BY <1>1, <1>4, <2>1 DEF Shows
<1>d. (Reading("FSR") /\ ~(torn /\ abandoned))' => (AtMost(Free))'
  <2> HAVE (Reading("FSR") /\ ~(torn /\ abandoned))'
  <2>1. AtMost(Free) \/ Moved = 0
    BY <1>1, <1>2 DEF Read
  <2> QED BY <1>3, <1>5, <2>1 DEF AtMost
<1>e. (Reading("RSR") /\ ~lost)' => (AtMost(Received))'
  <2> HAVE (Reading("RSR") /\ ~lost)'
  <2>1. AtMost(Received) \/ Moved = 0
    BY <1>1, <1>2 DEF Read
  <2> QED BY <1>3, <1>5, <2>1 DEF AtMost
<1>f. (Reading("CR?") /\ Moved >= 1 /\ Ans(0) = 0)' => chip'.cr = "none"
  BY <1>1, <1>2 DEF Read
<1>g. (Reading("MR?") /\ Moved >= 1 /\ Ans(0) = 0)' => ~chip'.mr
  BY <1>1, <1>2 DEF Read
<1>h. (Reading("IR?") /\ Moved >= 1)' => (Ans(0))' \subseteq chip'.ir
  BY <1>1, <1>2 DEF Read
<1> QED BY <1>a, <1>b, <1>c, <1>d, <1>e, <1>f, <1>g, <1>h DEF Read

\* The stream from the peer depends on these only.
LEMMA RxSame ==
  ASSUME W5Inv, UNCHANGED App, UNCHANGED <<rxRing, arrived>>,
         chip'.rxRd = chip.rxRd, chip'.rxWr = chip.rxWr, chip'.rxRdReg = chip.rxRdReg,
         RecvTaken' <=> RecvTaken, Receives => Put' = Put,
         ~lost /\ Receives /\ step \in {3, 4} =>
           \A j \in 0 .. Moved' - 1 : (Ans(j))' = Len(taken) + Held + 1 + j
  PROVE  Receiving'
<1>1. /\ UNCHANGED <<call, step, ptr, got, taken, lost>> /\ (Receives' <=> Receives)
      /\ First' = First /\ Held' = Held
  BY AppSame
<1>2. UNCHANGED <<rxRing, arrived>> /\ Received' = Received
      /\ chip'.rxRd = chip.rxRd /\ chip'.rxRdReg = chip.rxRdReg
  BY DEF Received
<1>3. (RecvTaken' <=> RecvTaken) /\ RxBase' = RxBase /\ (Receives => Put' = Put)
  BY <1>1, <1>2 DEF RxBase
<1>4. Receiving
  BY DEF W5Inv
<1>5. /\ (Receives /\ step >= 3 => chip.rxRdReg = Put)'
      /\ (Receives /\ step = 4 => First < call.n)'
  BY <1>1, <1>2, <1>3, <1>4 DEF Receiving
<1>6. ASSUME ~lost
      PROVE  /\ (chip.rxRd = IF RecvTaken THEN chip.rxRdReg ELSE RxBase)'
             /\ (Received <= Buf /\ Received <= arrived)'
             /\ (\A i \in 0 .. Received - 1 :
                   rxRing[Slot(chip.rxRd, i)] = arrived - Received + 1 + i)'
             /\ (taken \in Seq(Nat) /\ taken = [i \in 1 .. Len(taken) |-> i])'
             /\ (Len(taken) + (IF RecvTaken THEN call.n ELSE 0) = arrived - Received)'
             /\ (Receives /\ step >= 2 /\ ~RecvTaken => call.n <= Received)'
             /\ (Receives => got = [j \in 1 .. Held |-> Len(taken) + j])'
             /\ (Receives /\ step \in {3, 4} =>
                   \A j \in 0 .. Moved - 1 : Ans(j) = Len(taken) + Held + 1 + j)'
  <2>1. /\ chip.rxRd = IF RecvTaken THEN chip.rxRdReg ELSE RxBase
        /\ Received <= Buf /\ Received <= arrived
        /\ \A i \in 0 .. Received - 1 :
             rxRing[Slot(chip.rxRd, i)] = arrived - Received + 1 + i
        /\ taken \in Seq(Nat) /\ taken = [i \in 1 .. Len(taken) |-> i]
        /\ Len(taken) + (IF RecvTaken THEN call.n ELSE 0) = arrived - Received
        /\ Receives /\ step >= 2 /\ ~RecvTaken => call.n <= Received
        /\ Receives => got = [j \in 1 .. Held |-> Len(taken) + j]
    BY <1>4, <1>6, Zenon DEF Receiving
  <2>2. (chip.rxRd = IF RecvTaken THEN chip.rxRdReg ELSE RxBase)'
    BY <1>2, <1>3, <2>1
  <2>3. (\A i \in 0 .. Received - 1 : rxRing[Slot(chip.rxRd, i)] = arrived - Received + 1 + i)'
    BY <1>2, <2>1 DEF Slot
  <2>4. (taken \in Seq(Nat) /\ taken = [i \in 1 .. Len(taken) |-> i])'
    BY <1>1, <2>1
  <2>5. (Len(taken) + (IF RecvTaken THEN call.n ELSE 0) = arrived - Received)'
    BY <1>1, <1>2, <1>3, <2>1
  <2>6. (Receives /\ step >= 2 /\ ~RecvTaken => call.n <= Received)'
    BY <1>1, <1>2, <1>3, <2>1
  <2>7. (Receives => got = [j \in 1 .. Held |-> Len(taken) + j])'
    BY <1>1, <2>1
  <2>8. (Receives /\ step \in {3, 4} =>
                   \A j \in 0 .. Moved - 1 : Ans(j) = Len(taken) + Held + 1 + j)'
    BY <1>1, <1>6
  <2>9. (Received <= Buf /\ Received <= arrived)'
    BY <1>2, <2>1
  <2> QED BY <2>2, <2>3, <2>4, <2>5, <2>6, <2>7, <2>8, <2>9
<1> QED BY <1>1, <1>5, <1>6, Zenon DEF Receiving

\* The byte that stays behind.
LEMMA LeftStays ==
  ASSUME Left, UNCHANGED <<fpc, busy, window, shift, up, torn, lost, abandoned>>,
         chip'.txRd = chip.txRd, chip'.txEnd = chip.txEnd
  PROVE  Left'
<1>1. \A p : (FreeSlot(p))' <=> FreeSlot(p)
  BY DEF FreeSlot, Waiting, Slot
<1>2. \A h, i, d : Harmless(h, i, d) => (Harmless(h, i, d))'
  BY <1>1 DEF Harmless
<1> QED BY <1>2 DEF Left

\* A frame has moved no more bytes than it has.
LEMMA MovedIn ==
  ASSUME Framed, Typed
  PROVE  Moved \in Nat /\ (fpc # "none" => Moved \in 0 .. LenOf(Name))
<1>1. CASE fpc = "none"
  BY <1>1, NotMoved
<1>2. CASE fpc # "none"
  BY <1>2, MovedIs, FrameIs
<1> QED BY <1>1, <1>2

\* Steps that touch neither data nor calls keep the invariant.
LEMMA QuietKeeps ==
  ASSUME W5Inv, Framed', Quiet
  PROVE  W5Inv'
<1>0. /\ UNCHANGED Data /\ UNCHANGED App /\ Moved' = Moved
      /\ \A j \in Nat : j < Moved => (Ans(j))' = Ans(j)
      /\ fpc' # "none" => fpc # "none" \/ Moved = 0
      /\ fpc' # "none" \/ ~busy' \/ UNCHANGED <<fpc, busy, window, shift>>
      /\ chip' = chip
  BY DEF Quiet, Data
<1>1. Typed' /\ ResetOnce' /\ Commands6' /\ Sending' /\ InOrder' /\ Told'
  BY <1>0, Unmoved
<1>2. Moved \in Nat
  BY MovedIn DEF W5Inv
<1>3. Read'
  BY <1>0, <1>2, ReadStays DEF W5Inv
<1>4. Receiving'
  <2>1. ~lost /\ Receives /\ step \in {3, 4} =>
           \A j \in 0 .. Moved' - 1 : (Ans(j))' = Len(taken) + Held + 1 + j
    BY <1>0, <1>2 DEF W5Inv, Receiving
  <2> QED BY <1>0, <2>1, Unmoved, DataSame, RxSame
<1>5. Left'
  <2>1. CASE fpc' # "none" \/ ~busy'
    BY <2>1 DEF Left
  <2>2. CASE UNCHANGED <<fpc, busy, window, shift>>
    BY <1>0, <2>2, AppSame, LeftStays DEF W5Inv
  <2> QED BY <1>0, <2>1, <2>2
<1> QED BY <1>1, <1>3, <1>4, <1>5 DEF W5Inv

\* The sizes and pointers the chip shows.
LEMMA ShownIs ==
  ASSUME Typed
  PROVE  /\ Free \in Pointers /\ Received \in Pointers /\ Unsent \in Pointers /\ Waiting \in Pointers
         /\ Free <= Buf /\ (Unsent <= Buf => Free = Buf - Unsent)
         /\ chip.txWr \in Pointers /\ chip.txRd \in Pointers /\ chip.txEnd \in Pointers
         /\ chip.rxWr \in Pointers /\ chip.rxRd \in Pointers /\ chip.rxRdReg \in Pointers
<1>1. /\ chip.txWr \in Pointers /\ chip.txRd \in Pointers /\ chip.txEnd \in Pointers
      /\ chip.rxWr \in Pointers /\ chip.rxRd \in Pointers /\ chip.rxRdReg \in Pointers
  BY DEF Typed, ChipType
<1>2. Unsent \in Pointers /\ Received \in Pointers /\ Waiting \in Pointers
  BY <1>1, DistIs DEF Unsent, Received, Waiting
<1>3. Free \in Pointers /\ Free <= Buf /\ (Unsent <= Buf => Free = Buf - Unsent)
  BY <1>2, MFacts DEF Free, Pointers
<1> QED BY <1>1, <1>2, <1>3

\* What is read, byte by byte.
LEMMA ReadByteIs ==
  ASSUME W5Inv, ReadsByte
  PROVE  /\ Moved \in Nat /\ Moved' = Moved + 1 /\ Calling
         /\ Name \in {"FSR", "TX_WR", "RSR", "RX_RD"} => Moved \in {0, 1}
         /\ Name \in {"CR?", "MR?", "IR?"} => Moved = 0
         /\ \A j \in Nat : j = Moved =>
              /\ Name = "FSR" => (Ans(j))' = Digit(Free, j)
              /\ Name = "TX_WR" => (Ans(j))' = Digit(chip.txWr, j)
              /\ Name = "RSR" => (Ans(j))' = Digit(Received, j)
              /\ Name = "RX_RD" => (Ans(j))' = Digit(chip.rxRdReg, j)
              /\ Name \in {"TAKE", "TAKE2"} =>
                   (Ans(j))' = IF OffOf(Name) + j \in Ring THEN rxRing[OffOf(Name) + j] ELSE 0
         /\ Name = "CR?" => (Ans(0))' = IF chip.cr = "none" THEN 0 ELSE 1
         /\ Name = "MR?" => (Ans(0))' = IF chip.mr THEN 1 ELSE 0
         /\ Name = "IR?" => (Ans(0))' = chip.ir
<1>1. /\ Moved \in 0 .. LenOf(Name) - 1 /\ Moved' = Moved + 1
      /\ \A j \in Nat : j = Moved => (Ans(j))' = RegByte(RegOf(Name), OffOf(Name), j)
      /\ Moved \in Nat /\ Calling
  BY MovedIn DEF ReadsByte, W5Inv, Framed
<1>2. \A j \in Nat : \A r : j = Moved /\ RegOf(Name) = r => (Ans(j))' = RegByte(r, OffOf(Name), j)
  BY <1>1
<1>3. Name \in {"FSR", "TX_WR", "RSR", "RX_RD"} => LenOf(Name) = 2 /\ RegOf(Name) = Name
  BY DEF LenOf, Doubles, RegOf, Commands
<1>4. Name \in {"CR?", "MR?", "IR?"} => LenOf(Name) = 1
  BY DEF LenOf, Doubles
<1>5. /\ Name = "CR?" => RegOf(Name) = "CR"
      /\ Name = "MR?" => RegOf(Name) = "MR"
      /\ Name = "IR?" => RegOf(Name) = "IR"
      /\ Name \in {"TAKE", "TAKE2"} => RegOf(Name) = "RXBUF"
  BY DEF RegOf, Commands
<1>6. /\ Name \in {"FSR", "TX_WR", "RSR", "RX_RD"} => Moved \in {0, 1}
      /\ Name \in {"CR?", "MR?", "IR?"} => Moved = 0
  BY <1>1, <1>3, <1>4
<1>7. ASSUME NEW o, NEW j
      PROVE  /\ RegByte("FSR", o, j) = Digit(Free, j) /\ RegByte("TX_WR", o, j) = Digit(chip.txWr, j)
             /\ RegByte("RSR", o, j) = Digit(Received, j)
             /\ RegByte("RX_RD", o, j) = Digit(chip.rxRdReg, j)
             /\ RegByte("CR", o, j) = (IF chip.cr = "none" THEN 0 ELSE 1)
             /\ RegByte("MR", o, j) = (IF chip.mr THEN 1 ELSE 0)
             /\ RegByte("IR", o, j) = chip.ir
             /\ RegByte("RXBUF", o, j) = (IF o + j \in Ring THEN rxRing[o + j] ELSE 0)
  BY DEF RegByte
<1>8. ASSUME NEW j \in Nat, j = Moved
      PROVE  /\ Name = "FSR" => (Ans(j))' = Digit(Free, j)
             /\ Name = "TX_WR" => (Ans(j))' = Digit(chip.txWr, j)
             /\ Name = "RSR" => (Ans(j))' = Digit(Received, j)
             /\ Name = "RX_RD" => (Ans(j))' = Digit(chip.rxRdReg, j)
             /\ Name \in {"TAKE", "TAKE2"} =>
                  (Ans(j))' = IF OffOf(Name) + j \in Ring THEN rxRing[OffOf(Name) + j] ELSE 0
  <2>1. \A r : RegOf(Name) = r => (Ans(j))' = RegByte(r, OffOf(Name), j)
    BY <1>2, <1>8
  <2> QED BY <1>3, <1>5, <1>7, <2>1, Zenon
<1>9. /\ Name = "CR?" => (Ans(0))' = (IF chip.cr = "none" THEN 0 ELSE 1)
      /\ Name = "MR?" => (Ans(0))' = (IF chip.mr THEN 1 ELSE 0)
      /\ Name = "IR?" => (Ans(0))' = chip.ir
  <2>1. ASSUME Name \in {"CR?", "MR?", "IR?"}
        PROVE  \A r : RegOf(Name) = r => (Ans(0))' = RegByte(r, OffOf(Name), 0)
    <3>1. 0 \in Nat /\ 0 = Moved
      BY <1>6, <2>1
    <3> QED BY <1>2, <3>1, Zenon
  <2>2. ASSUME Name = "CR?" PROVE (Ans(0))' = (IF chip.cr = "none" THEN 0 ELSE 1)
    <3>1. (Ans(0))' = RegByte("CR", OffOf(Name), 0)
      BY <1>5, <2>1, <2>2
    <3> QED BY <1>7, <3>1, Zenon
  <2>3. ASSUME Name = "MR?" PROVE (Ans(0))' = (IF chip.mr THEN 1 ELSE 0)
    <3>1. (Ans(0))' = RegByte("MR", OffOf(Name), 0)
      BY <1>5, <2>1, <2>3
    <3> QED BY <1>7, <3>1, Zenon
  <2>4. ASSUME Name = "IR?" PROVE (Ans(0))' = chip.ir
    <3>1. (Ans(0))' = RegByte("IR", OffOf(Name), 0)
      BY <1>5, <2>1, <2>4
    <3> QED BY <1>7, <3>1, Zenon
  <2> QED BY <2>2, <2>3, <2>4
<1> QED BY <1>1, <1>6, <1>8, <1>9, Zenon

\* What a read has seen so far stays true with its next byte.
LEMMA ReadKeepsRead ==
  ASSUME W5Inv, ReadsByte
  PROVE  Read'
<1> USE DEF W5Inv
<1>0. /\ UNCHANGED Data /\ UNCHANGED App /\ fpc # "none" /\ fpc' = fpc /\ Calling
      /\ Moved \in Nat /\ Moved' = Moved + 1
      /\ \A j \in Nat : j < Moved => (Ans(j))' = Ans(j)
  BY ReadByteIs DEF ReadsByte
<1>1. /\ UNCHANGED <<call, step, torn, lost, abandoned>> /\ Name' = Name /\ (Calling' <=> Calling)
  BY <1>0, AppSame
<1>2. ASSUME NEW name PROVE (Reading(name))' <=> Reading(name)
  BY <1>0, <1>1 DEF Reading
<1>r. ASSUME NEW name PROVE Reading(name) => Name = name
  BY DEF Reading
<1>3. chip' = chip /\ Free' = Free /\ Received' = Received
  BY <1>0, DataSame
<1>4. ASSUME NEW v \in Pointers, Moved \in {0, 1}, Shows(v),
             \A j \in Nat : j = Moved => (Ans(j))' = Digit(v, j)
      PROVE  /\ Moved' >= 1 => (Ans(0))' = v \div B
             /\ Moved' >= 2 => (Ans(1))' = v % B
  <2>1. Digit(v, 0) = v \div B /\ Digit(v, 1) = v % B
    BY Digits
  <2> QED BY <1>0, <1>4, <2>1 DEF Shows
<1>5. ASSUME NEW v \in Pointers, Moved \in {0, 1}, AtMost(v),
             \A j \in Nat : j = Moved => (Ans(j))' = Digit(v, j),
             Moved = 1 => Ans(0) \in 0 .. B - 1
      PROVE  /\ Moved' >= 1 => (Ans(0))' * B <= v
             /\ Moved' >= 2 => (Ans(0))' * B + (Ans(1))' <= v
  <2>1. /\ Digit(v, 0) = v \div B /\ Digit(v, 1) = v % B /\ (v \div B) * B + (v % B) = v
        /\ Digit(v, 0) \in 0 .. B - 1 /\ Digit(v, 1) \in 0 .. B - 1
    BY Digits
  <2>2. CASE Moved = 0
    <3>1. (Ans(0))' = v \div B /\ Moved' = 1
      BY <1>0, <1>5, <2>1, <2>2
    <3>2. (v \div B) * B <= v
      <4> DEFINE p == (v \div B) * B   q == v % B
      <4>1. p + q = v /\ q \in 0 .. B - 1 /\ p \in Nat /\ B \in Nat
        BY <2>1, MFacts
      <4> HIDE DEF p, q
      <4>2. p <= v
        BY <4>1
      <4> QED BY <4>2 DEF p
    <3> QED BY <3>1, <3>2
  <2>3. CASE Moved = 1
    <3>1. (Ans(0))' = Ans(0) /\ (Ans(1))' = v % B /\ Moved' = 2 /\ Ans(0) * B <= v
      BY <1>0, <1>5, <2>1, <2>3 DEF AtMost
    <3>2. Ans(0) * B + (v % B) <= v
      BY <1>5, <2>3, <3>1, Underrated
    <3> QED BY <1>5, <2>3, <3>1, <3>2
  <2> QED BY <1>5, <2>2, <2>3
<1>6. /\ Free \in Pointers /\ Received \in Pointers
      /\ chip.txWr \in Pointers /\ chip.rxRdReg \in Pointers
  BY ShownIs
<1>a. ASSUME NEW name \in {"FSR", "RSR"}, (Reading(name))', NEW j \in 0 .. 1, j < Moved'
      PROVE  (Ans(j))' \in 0 .. B - 1
  <2>1. Reading(name) /\ Name = name /\ Moved \in {0, 1}
    BY <1>a, <1>2, <1>r, ReadByteIs
  <2>2. CASE j < Moved
    BY <1>0, <2>1, <2>2 DEF Read
  <2>3. CASE j = Moved
    <3>1. (Ans(j))' = Digit(Free, j) \/ (Ans(j))' = Digit(Received, j)
      BY <2>1, <2>3, ReadByteIs
    <3>2. \A v \in Pointers : Digit(v, 0) \in 0 .. B - 1 /\ Digit(v, 1) \in 0 .. B - 1
      BY Digits
    <3> QED BY <1>6, <3>1, <3>2
  <2> QED BY <1>0, <1>a, <2>2, <2>3
<1>b. (Reading("TX_WR"))' => (Shows(chip.txWr))'
  <2> HAVE (Reading("TX_WR"))'
  <2>1. Shows(chip.txWr) /\ Name = "TX_WR"
    BY <1>2, <1>r DEF Read
  <2>2. Moved \in {0, 1} /\ \A j \in Nat : j = Moved => (Ans(j))' = Digit(chip.txWr, j)
    BY <2>1, ReadByteIs
  <2> QED BY <1>3, <1>4, <1>6, <2>1, <2>2 DEF Shows
<1>c. (Reading("RX_RD"))' => (Shows(chip.rxRdReg))'
  <2> HAVE (Reading("RX_RD"))'
  <2>1. Shows(chip.rxRdReg) /\ Name = "RX_RD"
    BY <1>2, <1>r DEF Read
  <2>2. Moved \in {0, 1} /\ \A j \in Nat : j = Moved => (Ans(j))' = Digit(chip.rxRdReg, j)
    BY <2>1, ReadByteIs
  <2> QED BY <1>3, <1>4, <1>6, <2>1, <2>2 DEF Shows
<1>d. (Reading("FSR") /\ ~(torn /\ abandoned))' => (AtMost(Free))'
  <2> HAVE (Reading("FSR") /\ ~(torn /\ abandoned))'
  <2>1. Reading("FSR") /\ AtMost(Free) /\ Name = "FSR"
    BY <1>1, <1>2, <1>r DEF Read
  <2>2. Moved \in {0, 1} /\ \A j \in Nat : j = Moved => (Ans(j))' = Digit(Free, j)
    BY <2>1, ReadByteIs
  <2>3. Moved = 1 => Ans(0) \in 0 .. B - 1
    BY <2>1 DEF Read
  <2> QED BY <1>3, <1>5, <1>6, <2>1, <2>2, <2>3 DEF AtMost
<1>e. (Reading("RSR") /\ ~lost)' => (AtMost(Received))'
  <2> HAVE (Reading("RSR") /\ ~lost)'
  <2>1. Reading("RSR") /\ AtMost(Received) /\ Name = "RSR"
    BY <1>1, <1>2, <1>r DEF Read
  <2>2. Moved \in {0, 1} /\ \A j \in Nat : j = Moved => (Ans(j))' = Digit(Received, j)
    BY <2>1, ReadByteIs
  <2>3. Moved = 1 => Ans(0) \in 0 .. B - 1
    BY <2>1 DEF Read
  <2> QED BY <1>3, <1>5, <1>6, <2>1, <2>2, <2>3 DEF AtMost
<1>f. (Reading("CR?") /\ Moved >= 1 /\ Ans(0) = 0)' => chip'.cr = "none"
  BY <1>2, <1>3, <1>r, ReadByteIs
<1>g. (Reading("MR?") /\ Moved >= 1 /\ Ans(0) = 0)' => ~chip'.mr
  BY <1>2, <1>3, <1>r, ReadByteIs
<1>h. (Reading("IR?") /\ Moved >= 1)' => (Ans(0))' \subseteq chip'.ir
  BY <1>2, <1>3, <1>r, ReadByteIs
<1> QED BY <1>a, <1>b, <1>c, <1>d, <1>e, <1>f, <1>g, <1>h DEF Read

\* Where the bytes of an access to the ring lie.
LEMMA PlaceIs ==
  ASSUME Typed, Calling, Moved \in 0 .. LenOf(Name) - 1, Receives, step \in {3, 4}
  PROVE  /\ OffOf(Name) + Moved \in Ring /\ OffOf(Name) + Moved = Slot(ptr, Held + Moved)
         /\ Held + Moved \in 0 .. call.n - 1 /\ Held \in Nat /\ Name \in {"TAKE", "TAKE2"}
<1>1. /\ Offset \in 0 .. Buf - 1 /\ First \in 1 .. call.n
      /\ First + Offset <= Buf /\ (First < call.n => First + Offset = Buf)
      /\ call.n \in 1 .. Buf /\ Buf \in Nat /\ ptr \in Pointers /\ Offset = ptr % Buf
  BY FirstIs, MFacts DEF Typed, Offset
<1>2. CASE step = 3
  <2>1. Name = "TAKE"
    BY <1>2, NameTells DEF Receives
  <2>2. OffOf(Name) = Offset /\ LenOf(Name) = First /\ Held = 0
    BY <1>2, <2>1 DEF OffOf, LenOf, Held, Doubles
  <2>3. Moved \in 0 .. First - 1 /\ Moved \in Nat /\ (ptr % Buf) + Moved < Buf
    BY <1>1, <2>2
  <2>4. Slot(ptr, Moved) = Offset + Moved
    BY <1>1, <2>3, SlotIn
  <2> QED BY <1>1, <2>1, <2>2, <2>3, <2>4 DEF Ring
<1>3. CASE step = 4
  <2>1. Name = "TAKE2"
    BY <1>3, NameTells DEF Receives
  <2>2. OffOf(Name) = 0 /\ LenOf(Name) = call.n - First /\ Held = First
    BY <1>3, <2>1 DEF OffOf, LenOf, Held, Doubles
  <2>3. Moved \in 0 .. call.n - First - 1 /\ First < call.n
    BY <1>1, <2>2
  <2>4. /\ First + Moved \in Nat /\ (ptr % Buf) + (First + Moved) >= Buf
        /\ (ptr % Buf) + (First + Moved) < 2 * Buf
        /\ (ptr % Buf) + (First + Moved) - Buf = Moved
    BY <1>1, <2>3
  <2>5. Slot(ptr, First + Moved) = (ptr % Buf) + (First + Moved) - Buf
    BY <1>1, <2>4, SlotIn
  <2> QED BY <1>1, <2>1, <2>2, <2>3, <2>4, <2>5 DEF Ring
<1> QED BY <1>2, <1>3

\* A byte read keeps the invariant.
LEMMA ReadsKeep ==
  ASSUME W5Inv, Framed', ReadsByte
  PROVE  W5Inv'
<1>0. /\ UNCHANGED Data /\ UNCHANGED App /\ fpc # "none" /\ fpc' = fpc /\ Calling
      /\ Moved \in Nat /\ Moved' = Moved + 1 /\ Name \in Reads
      /\ \A j \in Nat : j < Moved => (Ans(j))' = Ans(j)
      /\ Moved \in 0 .. LenOf(Name) - 1
  BY ReadByteIs DEF ReadsByte
<1>1. Typed' /\ ResetOnce' /\ Commands6' /\ Sending' /\ InOrder' /\ Told'
  BY <1>0, Unmoved
<1>2. Read'
  BY ReadKeepsRead
<1>3. Left'
  BY <1>0 DEF Left
<1>4. Receiving'
  <2>1. ASSUME ~lost, Receives, step \in {3, 4}, NEW j \in 0 .. Moved' - 1
        PROVE  (Ans(j))' = Len(taken) + Held + 1 + j
    <3>1. CASE j < Moved
      BY <1>0, <2>1, <3>1 DEF W5Inv, Receiving
    <3>2. CASE j = Moved
      <4>1. /\ OffOf(Name) + Moved \in Ring /\ OffOf(Name) + Moved = Slot(ptr, Held + Moved)
            /\ Held + Moved \in 0 .. call.n - 1 /\ Held \in Nat /\ Name \in {"TAKE", "TAKE2"}
        BY <1>0, <2>1, PlaceIs DEF W5Inv
      <4>2. (Ans(j))' = rxRing[Slot(ptr, Held + Moved)]
        BY <3>2, <4>1, ReadByteIs
      <4>3. ~RecvTaken /\ RxBase = ptr
        BY <2>1 DEF RecvTaken, Commanded, RxBase
      <4>4. /\ chip.rxRd = ptr /\ call.n <= Received /\ Len(taken) = arrived - Received
            /\ taken \in Seq(Nat)
            /\ \A i \in 0 .. Received - 1 :
                 rxRing[Slot(chip.rxRd, i)] = arrived - Received + 1 + i
        BY <2>1, <4>3 DEF W5Inv, Receiving
      <4>5. Received \in Nat /\ arrived \in Nat /\ call.n \in Nat /\ Len(taken) \in Nat
        BY <4>4, ShownIs, TargetIs, <1>0, MFacts DEF Pointers, W5Inv, Typed
      <4>6. Held + Moved \in 0 .. Received - 1
        BY <4>1, <4>4, <4>5
      <4>7. rxRing[Slot(ptr, Held + Moved)] = arrived - Received + 1 + (Held + Moved)
        BY <4>4, <4>6
      <4> QED BY <1>0, <3>2, <4>1, <4>2, <4>4, <4>5, <4>7
    <3> QED BY <1>0, <3>1, <3>2
  <2> QED BY <1>0, <2>1, Unmoved, DataSame, RxSame
<1> QED BY <1>1, <1>2, <1>3, <1>4 DEF W5Inv

-----------------------------------------------------------------------------
(* Writes.                                                                 *)

\* A write leaves nothing behind, and nothing is being read.
LEMMA WriteFacts ==
  ASSUME W5Inv, WritesByte
  PROVE  /\ Read' /\ Left' /\ Calling
         /\ UNCHANGED <<up, call, step, val, ptr, got, next, taken, ret, torn, lost, abandoned>>
         /\ (Calling' <=> Calling) /\ (Sends' <=> Sends) /\ (Receives' <=> Receives)
         /\ First' = First /\ Target' = Target /\ Held' = Held
         /\ UNCHANGED <<rxRing, sent, arrived>> /\ Moved' = Moved + 1
<1>1. /\ UNCHANGED App /\ fpc # "none" /\ fpc' = fpc /\ Name \notin Reads
      /\ Moved' = Moved + 1 /\ Calling /\ UNCHANGED <<rxRing, sent, arrived>>
  BY WritesAre DEF WritesByte
<1>2. Left'
  BY <1>1 DEF Left
<1>3. Name' = Name
  BY <1>1, AppSame
<1>4. Read'
  <2>1. ASSUME NEW name \in Reads PROVE ~(Reading(name))'
    BY <1>1, <1>3 DEF Reading
  <2>2. /\ ~(Reading("FSR"))' /\ ~(Reading("RSR"))' /\ ~(Reading("TX_WR"))'
        /\ ~(Reading("RX_RD"))' /\ ~(Reading("CR?"))' /\ ~(Reading("MR?"))' /\ ~(Reading("IR?"))'
    BY <2>1 DEF Reads
  <2> QED BY <2>2 DEF Read
<1> QED BY <1>1, <1>2, <1>4, AppSame

\* The pointer register, by the step of the call.
LEMMA StepsOfPut ==
  ASSUME Typed, Calling
  PROVE  /\ step < 5 => Put = ptr
         /\ step = 5 => Put = Between(Moved)
         /\ step > 5 => Put = Target
         /\ step \in Nat
<1>1. step \in Nat /\ Between(0) = ptr /\ Between(2) = Target
  BY CallRange, Lengths, BetweenIs
<1> QED BY <1>1 DEF Put

\* The ring is filled.
LEMMA FillsKeep ==
  ASSUME W5Inv, WritesByte, Fills, Framed'
  PROVE  W5Inv'
<1> USE DEF W5Inv
<1>0. /\ Read' /\ Left' /\ Calling /\ UNCHANGED <<rxRing, sent, arrived>> /\ UNCHANGED App
      /\ UNCHANGED <<up, call, step, val, ptr, got, next, taken, ret, torn, lost, abandoned>>
      /\ (Calling' <=> Calling) /\ (Sends' <=> Sends) /\ (Receives' <=> Receives)
      /\ First' = First
  BY WriteFacts DEF WritesByte
<1>1. /\ Sends /\ step \in {3, 4} /\ Filled \in 0 .. call.n - 1 /\ Filled' = Filled + 1
      /\ chip' = chip /\ txRing' = [txRing EXCEPT ![Slot(ptr, Filled)] = next - call.n + Filled]
      /\ ~Receives
  BY DEF Fills, Sends, Receives
<1>2. /\ next \in Nat /\ call.n \in 1 .. Buf /\ call.n < next /\ ptr \in Pointers /\ Buf \in Nat
      /\ txRing \in [Ring -> Nat]
  BY <1>0, <1>1, MFacts DEF Typed, Sends
<1>3. Filled \in Nat /\ next - call.n + Filled \in Nat /\ Slot(ptr, Filled) \in Ring
      /\ Filled < call.n
  BY <1>1, <1>2, SlotIn
<1>4. /\ txRing' \in [Ring -> Nat]
      /\ txRing'[Slot(ptr, Filled)] = next - call.n + Filled
      /\ \A p \in Ring : p # Slot(ptr, Filled) => txRing'[p] = txRing[p]
  BY <1>1, <1>2, <1>3
<1>5. Typed'
  BY <1>0, <1>1, <1>4 DEF Typed
<1>6. ResetOnce'
  BY <1>0, <1>1 DEF ResetOnce
<1>7. ~Commanded /\ ~Commanded' /\ ~SendTaken /\ ~SendTaken' /\ ~RecvTaken /\ ~RecvTaken'
  BY <1>0, <1>1 DEF Commanded, SendTaken, RecvTaken
<1>8. Commands6'
  BY <1>0, <1>1, <1>7 DEF Commands6
<1>9. Put' = ptr /\ chip.txWr = ptr /\ TxBase = ptr /\ TxBase' = ptr
  <2>1. Put' = (Between(0))' /\ (Between(0))' = ptr'
    BY <1>0, <1>1 DEF Put, Between
  <2>2. Put = ptr
    BY <1>0, <1>1, StepsOfPut
  <2> QED BY <1>0, <1>1, <2>1, <2>2 DEF Sending, TxBase
<1>10. Waiting' = Waiting /\ Waiting \in Nat
  BY <1>1, ShownIs, MFacts DEF Waiting, Pointers
<1>11. Sending'
  <2>1. ASSUME NEW i \in 0 .. Filled' - 1
        PROVE  txRing'[Slot(ptr, i)] = next - call.n + i
    <3>1. i \in Nat /\ Slot(ptr, i) \in Ring
      BY <1>1, <1>2, <1>3, SlotIn
    <3>2. CASE i < Filled
      <4>1. Slot(ptr, i) # Slot(ptr, Filled)
        BY <1>2, <1>3, <3>1, <3>2, SlotsApart
      <4>2. txRing[Slot(ptr, i)] = next - call.n + i
        BY <1>1, <1>3, <3>1, <3>2 DEF Sending
      <4> QED BY <1>4, <3>1, <4>1, <4>2
    <3>3. CASE i = Filled
      BY <1>4, <3>3
    <3> QED BY <1>1, <1>3, <2>1, <3>1, <3>2, <3>3
  <2>2. (Dist(chip.txRd, TxBase))' = Dist(chip.txRd, TxBase)
    BY <1>1, <1>9 DEF Dist
  <2>3. (\A i \in 0 .. Filled - 1 : txRing[Slot(ptr, i)] = next - call.n + i)'
    BY <1>0, <2>1 DEF Slot
  <2>4. /\ chip.txWr = Put'
        /\ Sends /\ step >= 2 /\ ~SendTaken /\ ~(torn /\ abandoned) =>
             Dist(chip.txRd, TxBase) + call.n <= Buf
        /\ Sends /\ step = 4 => First < call.n
        /\ step # 9
    BY <1>1, <1>9 DEF Sending
  <2> QED BY <1>0, <1>1, <1>7, <2>2, <2>3, <2>4 DEF Sending
<1>12. InOrder'
  <2> SUFFICES ASSUME ~torn
               PROVE  /\ (chip.txEnd = IF SendTaken THEN chip.txWr ELSE TxBase)'
                      /\ (Waiting <= Buf)'
                      /\ (\E last \in 0 .. next : Order(last))'
    BY <1>0 DEF InOrder
  <2>1. chip.txEnd = ptr /\ Waiting <= Buf
    BY <1>7, <1>9 DEF InOrder
  <2>2. PICK last \in 0 .. next : Order(last)
    BY DEF InOrder
  <2>3. Waiting + call.n <= Buf /\ (chip.txRd + Waiting) % M = ptr
    <3>1. Dist(chip.txRd, TxBase) + call.n <= Buf
      BY <1>1, <1>7 DEF Sending
    <3>2. (chip.txRd + Dist(chip.txRd, chip.txEnd)) % M = chip.txEnd
      BY ShownIs, AheadDist
    <3> QED BY <1>9, <2>1, <3>1, <3>2 DEF Waiting
  <2>4. Slot(ptr, Filled) = Slot(chip.txRd, Waiting + Filled)
    <3>1. Slot((chip.txRd + Waiting) % M, Filled) = Slot(chip.txRd, Waiting + Filled)
      <4>1. chip.txRd \in Pointers /\ Waiting \in Nat /\ Waiting < M
        BY <1>10, <2>1, ShownIs, MFacts
      <4> QED BY <1>3, <4>1, SlotAhead
    <3> QED BY <2>3, <3>1
  <2>5. ASSUME NEW i \in 0 .. Waiting - 1
        PROVE  txRing'[Slot(chip.txRd, i)] = txRing[Slot(chip.txRd, i)]
    <3>1. i \in Nat /\ Waiting + Filled \in Nat /\ i < Waiting + Filled /\ Waiting + Filled < i + Buf
          /\ chip.txRd \in Pointers
      BY <1>2, <1>3, <1>10, <2>3, ShownIs
    <3>2. Slot(chip.txRd, i) # Slot(chip.txRd, Waiting + Filled) /\ Slot(chip.txRd, i) \in Ring
      BY <3>1, SlotsApart, SlotIn
    <3> QED BY <1>4, <2>4, <3>2
  <2>6. Limit' = Limit
    BY <1>0, <1>1, <1>7 DEF Limit
  <2>7. (Order(last))'
    BY <1>0, <1>1, <1>10, <2>2, <2>5, <2>6 DEF Order, Slot
  <2> QED BY <1>0, <1>1, <1>7, <1>9, <1>10, <2>1, <2>7
<1>13. Told'
  <2>1. ret.op = "none" /\ step # 9
    BY <1>0, <1>1 DEF Typed
  <2>2. ~abandoned => Waiting = 0 /\ chip.ir = {}
    BY <1>7 DEF Told
  <2> QED BY <1>0, <1>1, <1>7, <1>10, <2>1, <2>2 DEF Told
<1>14. Receiving'
  BY <1>0, <1>1, <1>7, RxSame
<1> QED BY <1>0, <1>5, <1>6, <1>8, <1>11, <1>12, <1>13, <1>14

\* The pointer of the transmit ring moves on, a digit at a time.
LEMMA PutsWrKeep ==
  ASSUME W5Inv, WritesByte, PutsWr, Framed'
  PROVE  W5Inv'
<1> USE DEF W5Inv
<1>0. /\ Read' /\ Left' /\ Calling /\ UNCHANGED <<rxRing, sent, arrived>> /\ UNCHANGED App
      /\ UNCHANGED <<up, call, step, val, ptr, got, next, taken, ret, torn, lost, abandoned>>
      /\ (Calling' <=> Calling) /\ (Sends' <=> Sends) /\ (Receives' <=> Receives)
      /\ First' = First /\ Target' = Target /\ Moved' = Moved + 1
  BY WriteFacts DEF WritesByte
<1>1. /\ Sends /\ step = 5 /\ Moved \in 0 .. 1 /\ txRing' = txRing /\ ~Receives
      /\ chip' = [chip EXCEPT !.txWr = Between(Moved + 1)]
  BY DEF PutsWr, Sends, Receives
<1>2. Between(Moved + 1) \in Pointers /\ chip \in ChipType
  <2>1. Moved + 1 \in 0 .. 2
    BY <1>1
  <2> QED BY <1>0, <2>1, BetweenIs DEF Typed
<1>3. /\ chip' \in ChipType /\ chip'.txWr = Between(Moved + 1)
      /\ chip'.mr = chip.mr /\ chip'.cr = chip.cr /\ chip'.ir = chip.ir
      /\ chip'.txRd = chip.txRd /\ chip'.txEnd = chip.txEnd
      /\ chip'.rxWr = chip.rxWr /\ chip'.rxRd = chip.rxRd /\ chip'.rxRdReg = chip.rxRdReg
  BY <1>1, <1>2 DEF ChipType
<1>4. Typed'
  BY <1>0, <1>1, <1>3 DEF Typed
<1>5. up = "run"
  BY <1>0, <1>1 DEF Typed, Sends
<1>6. ResetOnce'
  BY <1>0, <1>1, <1>3, <1>5 DEF ResetOnce, Sends
<1>7. ~Commanded /\ ~Commanded' /\ ~SendTaken /\ ~SendTaken' /\ ~RecvTaken /\ ~RecvTaken'
  BY <1>0, <1>1 DEF Commanded, SendTaken, RecvTaken
<1>8. Commands6'
  BY <1>0, <1>1, <1>3, <1>7 DEF Commands6
<1>9. Put' = Between(Moved + 1) /\ TxBase = ptr /\ TxBase' = ptr
  <2>1. Put' = (Between(Moved))'
    BY <1>0, <1>1 DEF Put
  <2>2. (Between(Moved))' = Between(Moved + 1)
    BY <1>0 DEF Between
  <2> QED BY <1>0, <1>1, <2>1, <2>2 DEF TxBase
<1>10. Waiting' = Waiting
  BY <1>3 DEF Waiting
<1>f. Filled' = Filled
  BY <1>0, <1>1 DEF Filled
<1>11. Sending'
  <2>1. (Dist(chip.txRd, TxBase))' = Dist(chip.txRd, TxBase)
    BY <1>3, <1>9 DEF Dist
  <2>2. (\A i \in 0 .. Filled - 1 : txRing[Slot(ptr, i)] = next - call.n + i)'
    BY <1>0, <1>1, <1>f DEF Sending, Slot
  <2>3. Sends /\ step >= 2 /\ ~SendTaken /\ ~(torn /\ abandoned) =>
             Dist(chip.txRd, TxBase) + call.n <= Buf
    BY DEF Sending
  <2> QED BY <1>0, <1>1, <1>3, <1>7, <1>9, <2>1, <2>2, <2>3 DEF Sending
<1>12. InOrder'
  <2>1. Limit' = Limit
    BY <1>0, <1>1, <1>7 DEF Limit
  <2>2. ASSUME NEW l, Order(l) PROVE (Order(l))'
    BY <1>0, <1>1, <1>3, <1>10, <2>1, <2>2 DEF Order, Slot
  <2> QED BY <1>0, <1>3, <1>7, <1>9, <1>10, <2>2 DEF InOrder
<1>13. Told'
  <2>1. ret.op = "none" /\ step # 9
    BY <1>0, <1>1 DEF Typed
  <2>2. ~abandoned => Waiting = 0 /\ chip.ir = {}
    BY <1>7 DEF Told
  <2> QED BY <1>0, <1>1, <1>3, <1>7, <1>10, <2>1, <2>2 DEF Told
<1>14. Receiving'
  BY <1>0, <1>1, <1>3, <1>7, RxSame
<1> QED BY <1>0, <1>4, <1>6, <1>8, <1>11, <1>12, <1>13, <1>14

\* The pointer of the receive ring moves on, a digit at a time.
LEMMA PutsRdKeep ==
  ASSUME W5Inv, WritesByte, PutsRd, Framed'
  PROVE  W5Inv'
<1> USE DEF W5Inv
<1>0. /\ Read' /\ Left' /\ Calling /\ UNCHANGED <<rxRing, sent, arrived>> /\ UNCHANGED App
      /\ UNCHANGED <<up, call, step, val, ptr, got, next, taken, ret, torn, lost, abandoned>>
      /\ (Calling' <=> Calling) /\ (Sends' <=> Sends) /\ (Receives' <=> Receives)
      /\ First' = First /\ Target' = Target /\ Held' = Held /\ Moved' = Moved + 1
  BY WriteFacts DEF WritesByte
<1>1. /\ Receives /\ step = 5 /\ Moved \in 0 .. 1 /\ txRing' = txRing /\ ~Sends
      /\ chip' = [chip EXCEPT !.rxRdReg = Between(Moved + 1)]
  BY DEF PutsRd, Sends, Receives
<1>2. Between(Moved + 1) \in Pointers /\ chip \in ChipType
  <2>1. Moved + 1 \in 0 .. 2
    BY <1>1
  <2> QED BY <1>0, <2>1, BetweenIs DEF Typed
<1>3. /\ chip' \in ChipType /\ chip'.rxRdReg = Between(Moved + 1)
      /\ chip'.mr = chip.mr /\ chip'.cr = chip.cr /\ chip'.ir = chip.ir
      /\ chip'.txRd = chip.txRd /\ chip'.txEnd = chip.txEnd /\ chip'.txWr = chip.txWr
      /\ chip'.rxWr = chip.rxWr /\ chip'.rxRd = chip.rxRd
  BY <1>1, <1>2 DEF ChipType
<1>4. Typed'
  BY <1>0, <1>1, <1>3 DEF Typed
<1>5. up = "run"
  BY <1>0, <1>1 DEF Typed, Receives
<1>6. ResetOnce'
  BY <1>0, <1>1, <1>3, <1>5 DEF ResetOnce, Receives
<1>7. ~Commanded /\ ~Commanded' /\ ~SendTaken /\ ~SendTaken' /\ ~RecvTaken /\ ~RecvTaken'
  BY <1>0, <1>1 DEF Commanded, SendTaken, RecvTaken
<1>8. Commands6'
  BY <1>0, <1>1, <1>3, <1>7 DEF Commands6
<1>9. Put' = Between(Moved + 1) /\ RxBase = ptr /\ RxBase' = ptr
  <2>1. Put' = (Between(Moved))'
    BY <1>0, <1>1 DEF Put
  <2>2. (Between(Moved))' = Between(Moved + 1)
    BY <1>0 DEF Between
  <2> QED BY <1>0, <1>1, <2>1, <2>2 DEF RxBase
<1>10. Received' = Received
  BY <1>3 DEF Received
<1>11. Sending' /\ InOrder' /\ Told'
  BY <1>0, <1>1, <1>3, <1>7, TxSame
<1>12. Receiving'
  <2>1. ~lost =>
          /\ chip.rxRd = RxBase /\ Received <= Buf /\ Received <= arrived
          /\ \A i \in 0 .. Received - 1 :
               rxRing[Slot(chip.rxRd, i)] = arrived - Received + 1 + i
          /\ taken \in Seq(Nat) /\ taken = [i \in 1 .. Len(taken) |-> i]
          /\ Len(taken) + 0 = arrived - Received
          /\ call.n <= Received
          /\ got = [j \in 1 .. Held |-> Len(taken) + j]
    BY <1>1, <1>7 DEF Receiving
  <2>2. (\A i \in 0 .. Received - 1 :
           rxRing[Slot(chip.rxRd, i)] = arrived - Received + 1 + i)'
        <=> \A i \in 0 .. Received - 1 :
               rxRing[Slot(chip.rxRd, i)] = arrived - Received + 1 + i
    BY <1>0, <1>3, <1>10 DEF Slot
  <2>3. (got = [j \in 1 .. Held |-> Len(taken) + j])'
         <=> got = [j \in 1 .. Held |-> Len(taken) + j]
    BY <1>0
  <2>4. ~lost' =>
          /\ chip'.rxRd = RxBase' /\ Received' <= Buf /\ Received' <= arrived'
          /\ (\A i \in 0 .. Received - 1 :
               rxRing[Slot(chip.rxRd, i)] = arrived - Received + 1 + i)'
          /\ taken' \in Seq(Nat) /\ taken' = [i \in 1 .. Len(taken') |-> i]
          /\ Len(taken') + 0 = arrived' - Received'
          /\ call'.n <= Received'
          /\ (got = [j \in 1 .. Held |-> Len(taken) + j])'
    BY <1>0, <1>3, <1>9, <1>10, <2>1, <2>2, <2>3
  <2>5. chip'.rxRdReg = Put' /\ step' = 5
    BY <1>0, <1>1, <1>3, <1>9
  <2> QED BY <1>7, <2>4, <2>5 DEF Receiving
<1> QED BY <1>0, <1>4, <1>6, <1>8, <1>11, <1>12

\* A command.
LEMMA CommandingKeep ==
  ASSUME W5Inv, WritesByte, Commanding, Framed'
  PROVE  W5Inv'
<1> USE DEF W5Inv
<1>0. /\ Read' /\ Left' /\ Calling /\ UNCHANGED <<rxRing, sent, arrived>> /\ UNCHANGED App
      /\ UNCHANGED <<up, call, step, val, ptr, got, next, taken, ret, torn, lost, abandoned>>
      /\ (Calling' <=> Calling) /\ (Sends' <=> Sends) /\ (Receives' <=> Receives)
      /\ First' = First /\ Target' = Target /\ Held' = Held /\ Moved' = Moved + 1
  BY WriteFacts DEF WritesByte
<1>1. /\ Moved = 0 /\ txRing' = txRing /\ Name \in Commands /\ chip' = [chip EXCEPT !.cr = Name]
      /\ \/ Name = "SEND" /\ Sends /\ step = 6
         \/ Name = "RECV" /\ Receives /\ step = 6
         \/ Name \in {"CLOSE", "OPEN", "CONNECT"} /\ ~Sends /\ ~Receives
                /\ call.op \in {"open", "connect"}
  BY DEF Commanding, Sends, Receives
<1>2. /\ chip' \in ChipType /\ chip'.cr = Name /\ chip'.txWr = chip.txWr
      /\ chip'.mr = chip.mr /\ chip'.ir = chip.ir
      /\ chip'.txRd = chip.txRd /\ chip'.txEnd = chip.txEnd
      /\ chip'.rxWr = chip.rxWr /\ chip'.rxRd = chip.rxRd /\ chip'.rxRdReg = chip.rxRdReg
  BY <1>1 DEF ChipType, Typed
<1>3. Typed'
  BY <1>0, <1>1, <1>2 DEF Typed
<1>4. up # "initialize" /\ call.op # "initialize"
  BY <1>0, <1>1 DEF Typed, Sends, Receives
<1>5. ResetOnce'
  BY <1>0, <1>2, <1>4 DEF ResetOnce
<1>6. step = 6 => ~Commanded /\ Commanded'
  BY <1>0, <1>1 DEF Commanded
<1>7. ~SendTaken /\ ~SendTaken' /\ ~RecvTaken /\ ~RecvTaken'
  BY <1>0, <1>1, <1>2, <1>6 DEF SendTaken, RecvTaken, Sends, Receives
<1>8. Commands6'
  BY <1>0, <1>1, <1>2, <1>6 DEF Commands6
<1>9. Sends \/ Receives => Put' = Put
  <2> HAVE Sends \/ Receives
  <2>1. step = 6
    BY <1>1 DEF Sends, Receives
  <2> QED BY <1>0, <2>1 DEF Put, Between
<1>10. Sends => Filled' = Filled /\ step # 9
  BY <1>0, <1>1 DEF Filled, Sends, Receives
<1>11. Sending' /\ InOrder' /\ Told'
  BY <1>0, <1>1, <1>2, <1>3, <1>7, <1>9, <1>10, TxSame
<1>12. Receiving'
  <2>1. ~lost /\ Receives /\ step \in {3, 4} =>
           \A j \in 0 .. Moved' - 1 : (Ans(j))' = Len(taken) + Held + 1 + j
    BY <1>1 DEF Sends, Receives
  <2> QED BY <1>0, <1>2, <1>7, <1>9, <2>1, RxSame
<1> QED BY <1>0, <1>3, <1>5, <1>8, <1>11, <1>12

\* The flags are cleared as they were read.
LEMMA AcksKeep ==
  ASSUME W5Inv, WritesByte, Acks, Framed'
  PROVE  W5Inv'
<1> USE DEF W5Inv
<1>0. /\ Read' /\ Left' /\ Calling /\ UNCHANGED <<rxRing, sent, arrived>> /\ UNCHANGED App
      /\ UNCHANGED <<up, call, step, val, ptr, got, next, taken, ret, torn, lost, abandoned>>
      /\ (Calling' <=> Calling) /\ (Sends' <=> Sends) /\ (Receives' <=> Receives)
      /\ First' = First /\ Target' = Target /\ Held' = Held /\ Moved' = Moved + 1
  BY WriteFacts DEF WritesByte
<1>1. /\ Moved = 0 /\ Moved' = 1 /\ txRing' = txRing /\ Sends /\ step = 9 /\ ~Receives
      /\ chip' = [chip EXCEPT !.ir = @ \ val]
  BY <1>0 DEF Acks, Sends, Receives
<1>2. /\ chip' \in ChipType /\ chip'.ir = chip.ir \ val /\ chip'.txWr = chip.txWr
      /\ chip'.mr = chip.mr /\ chip'.cr = chip.cr
      /\ chip'.txRd = chip.txRd /\ chip'.txEnd = chip.txEnd
      /\ chip'.rxWr = chip.rxWr /\ chip'.rxRd = chip.rxRd /\ chip'.rxRdReg = chip.rxRdReg
  <2>1. chip \in ChipType /\ chip.ir \ val \in SUBSET Flags
    BY DEF ChipType, Typed
  <2> QED BY <1>1, <2>1 DEF ChipType
<1>3. Typed'
  BY <1>0, <1>1, <1>2 DEF Typed
<1>4. up # "initialize" /\ call.op # "initialize"
  BY <1>0, <1>1 DEF Typed, Sends
<1>5. ResetOnce'
  BY <1>0, <1>2, <1>4 DEF ResetOnce
<1>6. Commanded /\ Commanded' /\ chip.cr # "SEND"
  BY <1>0, <1>1 DEF Commanded, Commands6
<1>7. SendTaken /\ SendTaken' /\ ~RecvTaken /\ ~RecvTaken'
  BY <1>0, <1>1, <1>2, <1>6 DEF SendTaken, RecvTaken
<1>8. Commands6'
  BY <1>0, <1>1, <1>2, <1>6 DEF Commands6
<1>9. Put' = Put /\ TxBase' = TxBase /\ Waiting' = Waiting /\ Filled' = Filled /\ Limit' = Limit
  <2>1. Put' = Put
    BY <1>0, <1>1 DEF Put, Between
  <2>2. TxBase' = TxBase /\ Waiting' = Waiting
    BY <1>0, <1>2 DEF TxBase, Waiting
  <2>3. Filled' = Filled /\ Limit' = Limit
    BY <1>0, <1>1, <1>7 DEF Filled, Limit
  <2> QED BY <2>1, <2>2, <2>3
<1>10. Sending'
  <2>1. (Dist(chip.txRd, TxBase))' = Dist(chip.txRd, TxBase)
    BY <1>2, <1>9 DEF Dist
  <2> QED BY <1>0, <1>1, <1>2, <1>7, <1>9, <2>1 DEF Sending, Slot
<1>11. InOrder'
  <2>2. ASSUME NEW l, Order(l) PROVE (Order(l))'
    BY <1>0, <1>1, <1>2, <1>9, <2>2 DEF Order, Slot
  <2> QED BY <1>0, <1>2, <1>7, <1>9, <2>2 DEF InOrder
<1>12. Told'
  <2>1. OnTheirWay => OnTheirWay'
    BY <1>0, <1>1, <1>2, <1>9 DEF OnTheirWay, Numbers, Slot
  <2>2. ~abandoned => Waiting = 0 /\ chip'.ir = {} /\ ("SENDOK" \in val => OnTheirWay)
    BY <1>1, <1>2 DEF Told
  <2>3. ret.op = "none"
    BY <1>0 DEF Typed
  <2> QED BY <1>0, <1>1, <1>7, <1>9, <2>1, <2>2, <2>3 DEF Told
<1>13. Receiving'
  BY <1>0, <1>1, <1>2, <1>7, RxSame
<1> QED BY <1>0, <1>3, <1>5, <1>8, <1>10, <1>11, <1>12, <1>13

\* The other registers.
LEMMA ConfiguresKeep ==
  ASSUME W5Inv, WritesByte, Configures, Framed'
  PROVE  W5Inv'
<1> USE DEF W5Inv
<1>0. /\ Read' /\ Left' /\ Calling /\ UNCHANGED <<rxRing, sent, arrived>> /\ UNCHANGED App
      /\ UNCHANGED <<up, call, step, val, ptr, got, next, taken, ret, torn, lost, abandoned>>
      /\ (Calling' <=> Calling) /\ (Sends' <=> Sends) /\ (Receives' <=> Receives)
  BY WriteFacts DEF WritesByte
<1>1. PICK m \in BOOLEAN, s \in SUBSET Configs :
        /\ chip' = [chip EXCEPT !.mr = m, !.set = s]
        /\ m # chip.mr => call.op = "initialize" /\ step = 1
  BY DEF Configures
<1>2. txRing' = txRing /\ ~Sends /\ ~Receives
  BY DEF Configures
<1>3. /\ chip' \in ChipType /\ chip'.mr = m /\ chip'.set = s
      /\ chip'.cr = chip.cr /\ chip'.ir = chip.ir /\ chip'.txWr = chip.txWr
      /\ chip'.txRd = chip.txRd /\ chip'.txEnd = chip.txEnd
      /\ chip'.rxWr = chip.rxWr /\ chip'.rxRd = chip.rxRd /\ chip'.rxRdReg = chip.rxRdReg
      /\ chip = [Reset EXCEPT !.mr = chip.mr, !.set = chip.set] =>
           chip' = [Reset EXCEPT !.mr = m, !.set = s]
  BY <1>1 DEF ChipType, Typed, Reset
<1>4. Typed'
  BY <1>0, <1>2, <1>3 DEF Typed
<1>5. m # chip.mr => up = "initialize"
  BY <1>0, <1>1 DEF Typed
<1>6. ResetOnce'
  BY <1>0, <1>1, <1>3, <1>5 DEF ResetOnce
<1>7. ~SendTaken /\ ~SendTaken' /\ ~RecvTaken /\ ~RecvTaken'
  BY <1>0, <1>2 DEF SendTaken, RecvTaken
<1>8. Commands6'
  BY <1>0, <1>2, <1>3 DEF Commands6
<1>9. Sending' /\ InOrder' /\ Told'
  BY <1>0, <1>2, <1>3, <1>7, TxSame
<1>10. Receiving'
  BY <1>0, <1>2, <1>3, <1>7, RxSame
<1> QED BY <1>0, <1>4, <1>6, <1>8, <1>9, <1>10

\* A byte written keeps the invariant.
LEMMA WritesKeep ==
  ASSUME W5Inv, WritesByte, Framed'
  PROVE  W5Inv'
BY WritesAre, FillsKeep, PutsWrKeep, PutsRdKeep, CommandingKeep, AcksKeep, ConfiguresKeep

-----------------------------------------------------------------------------
(* The byte of a frame that was given up.                                  *)

\* What a late byte of a frame that gave up leaves alone.
LEMMA StrayFacts ==
  ASSUME W5Inv, Strays
  PROVE  /\ Read' /\ Left' /\ Commands6 /\ Sending'
         /\ UNCHANGED <<up, call, step, val, ptr, got, next, taken, ret, torn, lost, abandoned>>
         /\ (Calling' <=> Calling) /\ (Sends' <=> Sends) /\ (Receives' <=> Receives)
         /\ Held' = Held /\ step = 1 /\ Moved = 0 /\ Moved' = 0
         /\ ~Commanded /\ ~Commanded' /\ ~SendTaken /\ ~SendTaken' /\ ~RecvTaken /\ ~RecvTaken'
         /\ Put' = Put /\ Limit' = Limit /\ RxBase = chip.rxRdReg /\ RxBase' = chip'.rxRdReg
         /\ UNCHANGED <<rxRing, sent, arrived>>
<1>1. /\ UNCHANGED App /\ fpc' = "none" /\ ~busy' /\ step = 1 /\ Moved = 0 /\ Moved' = 0
      /\ UNCHANGED <<rxRing, sent, arrived>>
  BY DEF Strays, RegWrite
<1>2. /\ UNCHANGED <<up, call, step, val, ptr, got, next, taken, ret, torn, lost, abandoned>>
      /\ (Calling' <=> Calling) /\ (Sends' <=> Sends) /\ (Receives' <=> Receives)
      /\ Held' = Held
  BY <1>1, AppSame
<1>3. Read' /\ Left'
  BY <1>1 DEF Read, Reading, Left
<1>4. ~Commanded /\ ~Commanded'
  BY <1>1, <1>2 DEF Commanded
<1>5. ~SendTaken /\ ~SendTaken' /\ ~RecvTaken /\ ~RecvTaken'
  BY <1>4 DEF SendTaken, RecvTaken
<1>6. Put' = Put /\ Limit' = Limit /\ RxBase = chip.rxRdReg /\ RxBase' = chip'.rxRdReg
  BY <1>1, <1>2, <1>5 DEF Put, Between, Limit, RxBase
<1>7. Sending'
  BY <1>1, <1>2 DEF Sending
<1> QED BY <1>1, <1>2, <1>3, <1>4, <1>5, <1>6, <1>7 DEF W5Inv

\* What a byte that strays can do.
StrayFill ==
  /\ chip' = chip
  /\ \E p \in Ring, d \in Nat :
       /\ torn \/ FreeSlot(p)
       /\ txRing' = [txRing EXCEPT ![p] = d]

StraySet ==
  /\ txRing' = txRing
  /\ \/ torn /\ \E w \in Pointers : chip' = [chip EXCEPT !.txWr = w]
     \/ lost /\ \E w \in Pointers : chip' = [chip EXCEPT !.rxRdReg = w]
     \/ \E c \in Commands : /\ chip' = [chip EXCEPT !.cr = c]
                            /\ c = "SEND" => torn /\ abandoned
                            /\ c = "RECV" => lost
     \/ abandoned /\ \E f \in SUBSET Flags : chip' = [chip EXCEPT !.ir = f]

StrayConfig ==
  /\ txRing' = txRing
  /\ \E m \in BOOLEAN, s \in SUBSET Configs :
       /\ chip' = [chip EXCEPT !.mr = m, !.set = s]
       /\ m # chip.mr => up = "initialize"

\* A late byte writes a setting, a free slot or a pointer marked as torn.
LEMMA StraysAre ==
  ASSUME W5Inv, Strays
  PROVE  StrayConfig \/ (up # "initialize" /\ (StrayFill \/ StraySet))
<1> USE DEF W5Inv
<1> DEFINE h == window[1]   i == window[2]
<1>1. Harmless(h, i, shift) /\ RegWrite(h.reg, h.off, i, shift) /\ chip \in ChipType
  BY DEF Strays, Typed
<1> HIDE DEF h, i
<1>0. ASSUME NEW v \in Pointers, NEW d \in 0 .. B - 1, i \in {0, 1}
      PROVE  WithDigit(v, i, d) \in Pointers
  <2>1. /\ v \div B \in 0 .. B - 1 /\ v % B \in 0 .. B - 1 /\ (v \div B) * B + (v % B) = v
    BY Digits
  <2> DEFINE a == v \div B   c == v % B
  <2> HIDE DEF a, c
  <2>2. a \in 0 .. B - 1 /\ c \in 0 .. B - 1 /\ a * B + c = v
    BY <2>1 DEF a, c
  <2>3. /\ d * B + c \in Pointers /\ a * B + d \in Pointers
        /\ WithDigit(a * B + c, 0, d) = d * B + c
        /\ WithDigit(a * B + c, 1, d) = a * B + d
    BY <1>0, <2>2, WithDigitIs
  <2>4. WithDigit(v, 0, d) \in Pointers /\ WithDigit(v, 1, d) \in Pointers
    BY <2>2, <2>3, Zenon
  <2> QED BY <1>0, <2>4
<1>2. h.reg \notin {"MR"} \cup Configs => up # "initialize"
  BY <1>1 DEF Harmless
<1>3. CASE h.reg = "TXBUF"
  <2>1. shift \in Nat /\ h.off + i \in Ring /\ (torn \/ FreeSlot(h.off + i))
    BY <1>1, <1>3 DEF Harmless
  <2>2. chip' = chip /\ txRing' = [txRing EXCEPT ![h.off + i] = shift]
    BY <1>1, <1>3, <2>1 DEF RegWrite, Configs
  <2>3. StrayFill
    BY <2>1, <2>2 DEF StrayFill
  <2> QED BY <1>2, <1>3, <2>3 DEF Configs
<1>4. CASE h.reg = "TX_WR"
  <2>1. torn /\ i \in {0, 1} /\ shift \in 0 .. B - 1
    BY <1>1, <1>4 DEF Harmless
  <2>2. txRing' = txRing /\ chip' = [chip EXCEPT !.txWr = WithDigit(chip.txWr, i, shift)]
    BY <1>1, <1>4 DEF RegWrite, Configs
  <2>3. WithDigit(chip.txWr, i, shift) \in Pointers
    BY <1>0, <2>1, ShownIs
  <2>4. StraySet
    BY <2>1, <2>2, <2>3 DEF StraySet
  <2> QED BY <1>2, <1>4, <2>4 DEF Configs
<1>5. CASE h.reg = "RX_RD"
  <2>1. lost /\ i \in {0, 1} /\ shift \in 0 .. B - 1
    BY <1>1, <1>5 DEF Harmless
  <2>2. txRing' = txRing /\ chip' = [chip EXCEPT !.rxRdReg = WithDigit(chip.rxRdReg, i, shift)]
    BY <1>1, <1>5 DEF RegWrite, Configs
  <2>3. WithDigit(chip.rxRdReg, i, shift) \in Pointers
    BY <1>0, <2>1, ShownIs
  <2>4. StraySet
    BY <2>1, <2>2, <2>3 DEF StraySet
  <2> QED BY <1>2, <1>5, <2>4 DEF Configs
<1>6. CASE h.reg = "CR"
  <2>1. shift \in Commands /\ (shift = "SEND" => torn /\ abandoned) /\ (shift = "RECV" => lost)
    BY <1>1, <1>6 DEF Harmless
  <2>2. txRing' = txRing /\ chip' = [chip EXCEPT !.cr = shift]
    BY <1>1, <1>6 DEF RegWrite, Configs
  <2>4. StraySet
    BY <2>1, <2>2 DEF StraySet
  <2> QED BY <1>2, <1>6, <2>4 DEF Configs
<1>7. CASE h.reg = "IR"
  <2>1. abandoned
    BY <1>1, <1>7 DEF Harmless
  <2>2. txRing' = txRing /\ chip' = [chip EXCEPT !.ir = @ \ shift]
    BY <1>1, <1>7 DEF RegWrite, Configs
  <2>3. chip.ir \ shift \in SUBSET Flags
    BY <1>1 DEF ChipType
  <2>4. StraySet
    BY <2>1, <2>2, <2>3 DEF StraySet
  <2> QED BY <1>2, <1>7, <2>4 DEF Configs
<1>8. CASE h.reg = "MR"
  <2>1. up = "initialize"
    BY <1>1, <1>8 DEF Harmless
  <2>2. txRing' = txRing /\ chip' = [chip EXCEPT !.mr = TRUE]
    BY <1>1, <1>8 DEF RegWrite, Configs
  <2>3. chip.set \in SUBSET Configs /\ chip' = [chip EXCEPT !.mr = TRUE, !.set = chip.set]
    BY <1>1, <2>2 DEF ChipType
  <2> QED BY <2>1, <2>2, <2>3 DEF StrayConfig
<1>9. CASE h.reg \in Configs
  <2>2. txRing' = txRing /\ chip' = [chip EXCEPT !.set = @ \cup {h.reg}]
    BY <1>1, <1>9 DEF RegWrite, Configs
  <2>3. /\ chip.set \cup {h.reg} \in SUBSET Configs /\ chip.mr \in BOOLEAN
        /\ chip' = [chip EXCEPT !.mr = chip.mr, !.set = chip.set \cup {h.reg}]
    BY <1>1, <1>9, <2>2 DEF ChipType
  <2> QED BY <2>2, <2>3 DEF StrayConfig
<1>10. CASE h.reg \notin {"TXBUF", "TX_WR", "RX_RD", "CR", "IR", "MR"} \cup Configs
  <2>2. txRing' = txRing /\ chip' = chip
    BY <1>1, <1>10 DEF RegWrite
  <2>3. /\ chip.set \in SUBSET Configs /\ chip.mr \in BOOLEAN
        /\ chip = [chip EXCEPT !.mr = chip.mr, !.set = chip.set]
    BY <1>1 DEF ChipType
  <2> QED BY <2>2, <2>3 DEF StrayConfig
<1> QED BY <1>3, <1>4, <1>5, <1>6, <1>7, <1>8, <1>9, <1>10

\* A late byte in a free slot keeps the invariant.
LEMMA StrayFillKeeps ==
  ASSUME W5Inv, Strays, StrayFill, up # "initialize", Framed'
  PROVE  W5Inv'
<1> USE DEF W5Inv
<1>0. /\ Read' /\ Left' /\ Commands6 /\ Sending'
      /\ UNCHANGED <<up, call, step, val, ptr, got, next, taken, ret, torn, lost, abandoned>>
      /\ (Calling' <=> Calling) /\ (Sends' <=> Sends) /\ (Receives' <=> Receives)
      /\ step = 1
      /\ ~Commanded /\ ~Commanded' /\ ~SendTaken /\ ~SendTaken' /\ ~RecvTaken /\ ~RecvTaken'
      /\ Put' = Put /\ Limit' = Limit
      /\ UNCHANGED <<rxRing, sent, arrived>> /\ UNCHANGED App
  BY StrayFacts DEF Strays
<1>1. PICK p \in Ring, d \in Nat :
        (torn \/ FreeSlot(p)) /\ txRing' = [txRing EXCEPT ![p] = d]
  BY DEF StrayFill
<1>2. chip' = chip /\ txRing' \in [Ring -> Nat] /\ \A q \in Ring : q # p => txRing'[q] = txRing[q]
  BY <1>1 DEF StrayFill, Typed
<1>3. Typed'
  BY <1>0, <1>2 DEF Typed
<1>4. ResetOnce'
  BY <1>0, <1>2 DEF ResetOnce
<1>5. Commands6'
  BY <1>0, <1>2 DEF Commands6
<1>6. Waiting' = Waiting /\ TxBase' = TxBase /\ Waiting \in Nat /\ chip.txRd \in Pointers
  BY <1>0, <1>2, ShownIs, MFacts DEF Waiting, TxBase, Pointers
<1>7. InOrder'
  <2> SUFFICES ASSUME ~torn
               PROVE  /\ (chip.txEnd = IF SendTaken THEN chip.txWr ELSE TxBase)'
                      /\ (Waiting <= Buf)'
                      /\ (\E last \in 0 .. next : Order(last))'
    BY <1>0 DEF InOrder
  <2>1. PICK last \in 0 .. next : Order(last)
    BY DEF InOrder
  <2>2. PICK n \in Waiting .. Buf - 1 : p = Slot(chip.txRd, n)
    BY <1>0, <1>1 DEF FreeSlot
  <2>3. ASSUME NEW i \in 0 .. Waiting - 1
        PROVE  txRing'[Slot(chip.txRd, i)] = txRing[Slot(chip.txRd, i)]
    <3>1. i \in Nat /\ n \in Nat /\ i < n /\ n < i + Buf
      BY <1>6, <2>2, MFacts
    <3>2. Slot(chip.txRd, i) # p /\ Slot(chip.txRd, i) \in Ring
      BY <1>6, <2>2, <3>1, SlotsApart, SlotIn
    <3> QED BY <1>2, <3>2
  <2>4. (Order(last))'
    BY <1>0, <1>2, <1>6, <2>1, <2>3 DEF Order, Slot
  <2>5. chip.txEnd = TxBase /\ Waiting <= Buf
    BY <1>0 DEF InOrder
  <2> QED BY <1>0, <1>2, <1>6, <2>1, <2>4, <2>5
<1>8. Told'
  BY <1>0, <1>2, <1>6 DEF Told
<1>9. Receiving'
  BY <1>0, <1>2, RxSame
<1> QED BY <1>0, <1>3, <1>4, <1>5, <1>7, <1>8, <1>9

\* A late digit of a pointer marked as torn or lost keeps the invariant.
LEMMA StraySetKeeps ==
  ASSUME W5Inv, Strays, StraySet, up # "initialize", Framed'
  PROVE  W5Inv'
<1> USE DEF W5Inv
<1>0. /\ Read' /\ Left' /\ Commands6 /\ Sending'
      /\ UNCHANGED <<up, call, step, val, ptr, got, next, taken, ret, torn, lost, abandoned>>
      /\ (Calling' <=> Calling) /\ (Sends' <=> Sends) /\ (Receives' <=> Receives)
      /\ step = 1 /\ Held' = Held
      /\ ~Commanded /\ ~Commanded' /\ ~SendTaken /\ ~SendTaken' /\ ~RecvTaken /\ ~RecvTaken'
      /\ Put' = Put /\ Limit' = Limit
      /\ UNCHANGED <<rxRing, sent, arrived>> /\ UNCHANGED App /\ txRing' = txRing
  BY StrayFacts DEF Strays, StraySet
<1>c. call.op # "initialize"
  BY DEF Typed, Calling
<1>1. /\ chip' \in ChipType /\ chip'.mr = chip.mr
      /\ chip'.txRd = chip.txRd /\ chip'.txEnd = chip.txEnd
      /\ chip'.rxWr = chip.rxWr /\ chip'.rxRd = chip.rxRd
      /\ chip'.txWr # chip.txWr => torn
      /\ chip'.rxRdReg # chip.rxRdReg => lost
      /\ chip'.ir # chip.ir => abandoned
      /\ chip'.cr = "SEND" => chip.cr = "SEND" \/ (torn /\ abandoned)
      /\ chip'.cr = "RECV" => chip.cr = "RECV" \/ lost
  <2>0. chip \in ChipType
    BY DEF Typed
  <2>1. CASE torn /\ \E w \in Pointers : chip' = [chip EXCEPT !.txWr = w]
    <3>1. PICK w \in Pointers : chip' = [chip EXCEPT !.txWr = w]
      BY <2>1
    <3> QED BY <2>0, <2>1, <3>1 DEF ChipType
  <2>2. CASE lost /\ \E w \in Pointers : chip' = [chip EXCEPT !.rxRdReg = w]
    <3>1. PICK w \in Pointers : chip' = [chip EXCEPT !.rxRdReg = w]
      BY <2>2
    <3> QED BY <2>0, <2>2, <3>1 DEF ChipType
  <2>3. CASE \E c \in Commands : /\ chip' = [chip EXCEPT !.cr = c]
                                 /\ c = "SEND" => torn /\ abandoned
                                 /\ c = "RECV" => lost
    BY <2>0, <2>3 DEF ChipType
  <2>4. CASE abandoned /\ \E f \in SUBSET Flags : chip' = [chip EXCEPT !.ir = f]
    BY <2>0, <2>4 DEF ChipType
  <2> QED BY <2>1, <2>2, <2>3, <2>4 DEF StraySet
<1>3. Typed'
  BY <1>0, <1>1 DEF Typed
<1>4. ResetOnce'
  BY <1>0, <1>1, <1>c DEF ResetOnce
<1>5. Commands6'
  BY <1>0, <1>1 DEF Commands6
<1>6. Waiting' = Waiting /\ (~torn => TxBase' = TxBase)
  BY <1>0, <1>1 DEF Waiting, TxBase
<1>7. InOrder'
  <2>1. ASSUME NEW l, Order(l) PROVE (Order(l))'
    BY <1>0, <1>1, <1>6, <2>1 DEF Order, Slot
  <2> QED BY <1>0, <1>1, <1>6, <2>1 DEF InOrder
<1>8. Told'
  BY <1>0, <1>1, <1>6 DEF Told
<1>9. Receiving'
  <2>1. CASE lost
    BY <1>0, <2>1 DEF Receiving
  <2>2. CASE ~lost
    BY <1>0, <1>1, <2>2, RxSame
  <2> QED BY <2>1, <2>2
<1> QED BY <1>0, <1>3, <1>4, <1>5, <1>7, <1>8, <1>9

\* A late setting or command keeps the invariant.
LEMMA StrayConfigKeeps ==
  ASSUME W5Inv, Strays, StrayConfig, Framed'
  PROVE  W5Inv'
<1> USE DEF W5Inv
<1>0. /\ Read' /\ Left' /\ Commands6 /\ Sending'
      /\ UNCHANGED <<up, call, step, val, ptr, got, next, taken, ret, torn, lost, abandoned>>
      /\ (Calling' <=> Calling) /\ (Sends' <=> Sends) /\ (Receives' <=> Receives)
      /\ step = 1 /\ Held' = Held /\ Moved' = Moved
      /\ ~Commanded /\ ~Commanded' /\ ~SendTaken /\ ~SendTaken' /\ ~RecvTaken /\ ~RecvTaken'
      /\ Put' = Put
      /\ UNCHANGED <<rxRing, sent, arrived>> /\ UNCHANGED App /\ txRing' = txRing
  BY StrayFacts DEF Strays, StrayConfig
<1>1. PICK m \in BOOLEAN, s \in SUBSET Configs :
        /\ chip' = [chip EXCEPT !.mr = m, !.set = s]
        /\ m # chip.mr => up = "initialize"
  BY DEF StrayConfig
<1>3. /\ chip' \in ChipType /\ chip'.mr = m /\ chip'.set = s
      /\ chip'.cr = chip.cr /\ chip'.ir = chip.ir /\ chip'.txWr = chip.txWr
      /\ chip'.txRd = chip.txRd /\ chip'.txEnd = chip.txEnd
      /\ chip'.rxWr = chip.rxWr /\ chip'.rxRd = chip.rxRd /\ chip'.rxRdReg = chip.rxRdReg
      /\ chip = [Reset EXCEPT !.mr = chip.mr, !.set = chip.set] =>
           chip' = [Reset EXCEPT !.mr = m, !.set = s]
  BY <1>1 DEF ChipType, Typed, Reset
<1>4. Typed'
  BY <1>0, <1>3 DEF Typed
<1>6. ResetOnce'
  BY <1>0, <1>1, <1>3 DEF ResetOnce
<1>8. Commands6'
  BY <1>0, <1>3 DEF Commands6
<1>f. Filled' = Filled
  <2>1. First' = First
    BY <1>0, AppSame
  <2> QED BY <1>0, <2>1 DEF Filled
<1>9. Sending' /\ InOrder' /\ Told'
  BY <1>0, <1>3, <1>f, TxSame
<1>10. Receiving'
  BY <1>0, <1>3, RxSame
<1> QED BY <1>0, <1>4, <1>6, <1>8, <1>9, <1>10

\* The late byte of a frame that gave up keeps the invariant.
LEMMA StraysKeep ==
  ASSUME W5Inv, Strays, Framed'
  PROVE  W5Inv'
BY StraysAre, StrayFillKeeps, StraySetKeeps, StrayConfigKeeps

-----------------------------------------------------------------------------
(* Calls.                                                                  *)

\* A new call keeps the invariant.
LEMMA CallsKeep ==
  ASSUME W5Inv, Calls, Framed'
  PROVE  W5Inv'
<1> USE DEF W5Inv
<1>1. PICK op \in Ops, n \in 1 .. Buf : Call(op, n)
  BY DEF Calls
<1>2. /\ ~Calling /\ call = Idle /\ step = 1
      /\ (op = up /\ n = 1) \/ (up = "run" /\ op \in {"send", "receive"})
      /\ call' = [op |-> op, n |-> n] /\ next' = IF op = "send" THEN next + n ELSE next
      /\ step' = 1 /\ val' = 0 /\ ptr' = 0 /\ got' = <<>>
      /\ ret' = [op |-> "none", n |-> 0, v |-> FALSE]
      /\ UNCHANGED <<up, taken, torn, lost, abandoned>>
  BY <1>1 DEF Call, Typed
<1>3. /\ UNCHANGED <<chip, txRing, rxRing, sent, arrived, fpc, busy, window, shift>>
      /\ fpc' = "none" /\ Moved' = 0
  BY DEF Calls, Data
<1>4. call'.op = op /\ call'.n = n /\ Calling' /\ op # "none"
  BY <1>2 DEF Calling, Ops
<1>5. n \in Nat /\ n >= 1 /\ next \in Nat /\ next >= 1 /\ 0 \in Pointers /\ Buf \in Nat
  BY MFacts DEF Typed, Pointers
<1>6. Typed'
  <2>1. next' \in Nat \ {0} /\ (op = "send" => n < next')
    BY <1>2, <1>5
  <2>2. IF op \in {"send", "receive"} THEN up = "run" ELSE up = op /\ n = 1
    <3>1. up \in {"initialize", "open", "connect", "run"} /\ "run" \notin Ops
      BY DEF Typed, Ops
    <3> QED BY <1>2, <3>1
  <2>3. 1 \in 1 .. Steps[op]
    BY Lengths
  <2>4. Calling' => /\ call'.n \in 1 .. Buf /\ step' \in 1 .. Steps[call'.op]
                    /\ IF call'.op \in {"send", "receive"} THEN up' = "run"
                       ELSE up' = call'.op /\ call'.n = 1
                    /\ ret'.op = "none"
    BY <1>2, <1>4, <2>2, <2>3
  <2> QED BY <1>2, <1>3, <1>4, <1>5, <2>1, <2>4 DEF Typed
<1>7. Read'
  BY <1>3 DEF Read, Reading
<1>8. ResetOnce'
  BY <1>2, <1>3 DEF ResetOnce
<1>9. ~Sends /\ ~Receives
  BY <1>2 DEF Sends, Receives, Calling
<1>10. ~Commanded' /\ ~SendTaken /\ ~SendTaken' /\ ~RecvTaken /\ ~RecvTaken'
  BY <1>2, <1>9 DEF Commanded, SendTaken, RecvTaken
<1>11. Commands6'
  BY <1>2, <1>3, <1>9 DEF Commands6
<1>12. Sending'
  BY <1>2 DEF Sending
<1>13. Waiting' = Waiting /\ TxBase' = TxBase /\ RxBase' = RxBase /\ Received' = Received
  BY <1>2, <1>3, <1>9 DEF Waiting, TxBase, RxBase, Received
<1>14. InOrder'
  <2>1. Limit = next /\ Limit' = next
    <3>1. (Sends' <=> op = "send") /\ next + n - n = next
      BY <1>4, <1>5 DEF Sends
    <3>3. Limit = next
      BY <1>9 DEF Limit
    <3>5. CASE op = "send"
      <4>1. next' = next + n /\ call'.n = n /\ Sends' /\ ~SendTaken'
        BY <1>2, <1>4, <1>10, <3>1, <3>5
      <4>2. Limit' = next' - call'.n
        BY <4>1 DEF Limit
      <4> QED BY <1>5, <3>1, <3>3, <4>1, <4>2
    <3>6. CASE op # "send"
      <4>1. next' = next /\ ~Sends'
        BY <1>2, <3>1, <3>6
      <4>2. Limit' = next'
        BY <4>1 DEF Limit
      <4> QED BY <3>3, <4>1, <4>2
    <3> QED BY <3>5, <3>6
  <2>2. ASSUME NEW l, Order(l) PROVE (Order(l))'
    BY <1>2, <1>3, <1>13, <2>1, <2>2 DEF Order, Slot
  <2>3. \A l \in 0 .. next : l \in 0 .. next'
    BY <1>2, <1>5
  <2> QED BY <1>2, <1>3, <1>10, <1>13, <2>2, <2>3 DEF InOrder
<1>15. Told'
  BY <1>2, <1>3, <1>10, <1>13 DEF Told
<1>16. Receiving'
  <2>1. ~lost =>
       /\ chip.rxRd = RxBase
       /\ Received <= Buf /\ Received <= arrived
       /\ \A i \in 0 .. Received - 1 :
            rxRing[Slot(chip.rxRd, i)] = arrived - Received + 1 + i
       /\ taken \in Seq(Nat) /\ taken = [i \in 1 .. Len(taken) |-> i]
       /\ Len(taken) + 0 = arrived - Received
    BY <1>10 DEF Receiving
  <2>2. Held' = 0 /\ <<>> = [j \in 1 .. 0 |-> Len(taken) + j]
    BY <1>2 DEF Held
  <2>3. (\A i \in 0 .. Received - 1 :
           rxRing[Slot(chip.rxRd, i)] = arrived - Received + 1 + i)'
        <=> \A i \in 0 .. Received - 1 :
               rxRing[Slot(chip.rxRd, i)] = arrived - Received + 1 + i
    BY <1>3, <1>13 DEF Slot
  <2>4. (got = [j \in 1 .. Held |-> Len(taken) + j])'
    BY <1>2, <2>2
  <2>5. ~lost' =>
       /\ chip'.rxRd = RxBase'
       /\ Received' <= Buf /\ Received' <= arrived'
       /\ (\A i \in 0 .. Received - 1 :
            rxRing[Slot(chip.rxRd, i)] = arrived - Received + 1 + i)'
       /\ taken' \in Seq(Nat) /\ taken' = [i \in 1 .. Len(taken') |-> i]
       /\ Len(taken') + 0 = arrived' - Received'
    BY <1>2, <1>3, <1>13, <2>1, <2>3
  <2> QED BY <1>2, <1>10, <2>4, <2>5 DEF Receiving
<1>17. Left'
  BY <1>2, <1>3, LeftStays
<1> QED BY <1>6, <1>7, <1>8, <1>11, <1>12, <1>14, <1>15, <1>16, <1>17

-----------------------------------------------------------------------------
(* The chip at work.                                                       *)

\* What the chip leaves alone when it moves by itself.
LEMMA ChipFacts ==
  ASSUME W5Inv, ChipMoves
  PROVE  /\ UNCHANGED <<up, call, step, val, ptr, got, next, taken, ret, torn, lost, abandoned>>
         /\ UNCHANGED <<fpc, busy, window, shift, txRing>> /\ UNCHANGED App
         /\ Name' = Name /\ (Calling' <=> Calling) /\ (Sends' <=> Sends)
         /\ (Receives' <=> Receives) /\ First' = First /\ Target' = Target /\ Held' = Held
         /\ Moved' = Moved /\ \A j \in Nat : (Ans(j))' = Ans(j)
         /\ (Commanded' <=> Commanded) /\ Put' = Put /\ Filled' = Filled
<1>1. /\ UNCHANGED App /\ UNCHANGED <<fpc, busy, window, shift, txRing>>
      /\ Moved' = Moved /\ \A j \in Nat : (Ans(j))' = Ans(j)
  BY DEF ChipMoves
<1>2. /\ UNCHANGED <<up, call, step, val, ptr, got, next, taken, ret, torn, lost, abandoned>>
      /\ Name' = Name /\ (Calling' <=> Calling) /\ (Sends' <=> Sends)
      /\ (Receives' <=> Receives) /\ First' = First /\ Target' = Target /\ Held' = Held
  BY <1>1, AppSame
<1>3. Commanded' <=> Commanded
  BY <1>1, <1>2 DEF Commanded
<1>4. Put' = Put
  BY <1>1, <1>2 DEF Put, Between
<1>5. Filled' = Filled
  BY <1>1, <1>2 DEF Filled
<1> QED BY <1>1, <1>2, <1>3, <1>4, <1>5

\* What has been read stays true while the chip works.
LEMMA ReadGrows ==
  ASSUME W5Inv, ChipMoves, Typed',
         chip'.txWr = chip.txWr, chip'.rxRdReg = chip.rxRdReg,
         Sends /\ step = 1 /\ ~(torn /\ abandoned) => Free <= Free',
         Receives /\ step = 1 /\ ~lost => Received <= Received',
         chip'.cr \in {chip.cr, "none"}, chip.mr \/ ~chip'.mr, chip.ir \subseteq chip'.ir
  PROVE  Read'
<1> USE DEF W5Inv
<1>1. /\ UNCHANGED <<call, step, torn, lost, abandoned, fpc>> /\ Name' = Name
      /\ (Calling' <=> Calling) /\ Moved' = Moved /\ \A j \in Nat : (Ans(j))' = Ans(j)
  BY ChipFacts
<1>2. (Ans(0))' = Ans(0) /\ (Ans(1))' = Ans(1)
  BY <1>1
<1>3. \A name : (Reading(name))' <=> Reading(name)
  BY <1>1 DEF Reading
<1>4. ASSUME NEW v \in Nat, NEW w \in Nat, v <= w, AtMost(v), Moved \in Nat,
             \A j \in 0 .. 1 : j < Moved => Ans(j) \in 0 .. B - 1
      PROVE  /\ Moved' >= 1 => (Ans(0))' * B <= w
             /\ Moved' >= 2 => (Ans(0))' * B + (Ans(1))' <= w
  <2> DEFINE x == Ans(0) * B
  <2>1. Moved >= 1 => x \in Nat /\ x <= v
    BY <1>4, MFacts DEF AtMost
  <2>2. Moved >= 2 => x + Ans(1) <= v /\ Ans(1) \in Nat
    BY <1>4, MFacts DEF AtMost
  <2> HIDE DEF x
  <2>3. Moved >= 1 => x <= w
    BY <1>4, <2>1
  <2>4. Moved >= 2 => x + Ans(1) <= w
    BY <1>4, <2>1, <2>2
  <2>5. (Ans(0))' * B = x
    BY <1>2 DEF x
  <2> QED BY <1>1, <1>2, <2>3, <2>4, <2>5
<1>5. Free \in Nat /\ Received \in Nat /\ (Free)' \in Nat /\ Received' \in Nat
  <2>1. (Free \in Pointers /\ Received \in Pointers)'
    BY ShownIs, PTL
  <2>2. M' = M
    OBVIOUS
  <2> QED BY <2>1, ShownIs, MFacts DEF Pointers
<1>6. Moved \in Nat
  BY MovedIn
<1>7. ASSUME NEW v PROVE (Shows(v))' <=> /\ Moved' >= 1 => (Ans(0))' = v' \div B
                                         /\ Moved' >= 2 => (Ans(1))' = v' % B
  BY DEF Shows
<1>a. \A name \in {"FSR", "RSR"} : (Reading(name))' =>
        \A j \in 0 .. 1 : j < Moved' => (Ans(j))' \in 0 .. B - 1
  BY <1>1, <1>3 DEF Read
<1>b. (Reading("TX_WR"))' => (Shows(chip.txWr))'
  BY <1>1, <1>2, <1>3 DEF Read, Shows
<1>c. (Reading("RX_RD"))' => (Shows(chip.rxRdReg))'
  BY <1>1, <1>2, <1>3 DEF Read, Shows
<1>d. (Reading("FSR") /\ ~(torn /\ abandoned))' => (AtMost(Free))'
  <2> HAVE (Reading("FSR") /\ ~(torn /\ abandoned))'
  <2>1. Reading("FSR") /\ ~(torn /\ abandoned) /\ AtMost(Free)
        /\ \A j \in 0 .. 1 : j < Moved => Ans(j) \in 0 .. B - 1
    BY <1>1, <1>3 DEF Read
  <2>2. Sends /\ step = 1
    BY <2>1, NameTells DEF Reading, Sends
  <2> QED BY <1>4, <1>5, <1>6, <2>1, <2>2 DEF AtMost
<1>e. (Reading("RSR") /\ ~lost)' => (AtMost(Received))'
  <2> HAVE (Reading("RSR") /\ ~lost)'
  <2>1. Reading("RSR") /\ ~lost /\ AtMost(Received)
        /\ \A j \in 0 .. 1 : j < Moved => Ans(j) \in 0 .. B - 1
    BY <1>1, <1>3 DEF Read
  <2>2. Receives /\ step = 1
    BY <2>1, NameTells DEF Reading, Receives
  <2> QED BY <1>4, <1>5, <1>6, <2>1, <2>2 DEF AtMost
<1>f. (Reading("CR?") /\ Moved >= 1 /\ Ans(0) = 0)' => chip'.cr = "none"
  BY <1>1, <1>2, <1>3 DEF Read
<1>g. (Reading("MR?") /\ Moved >= 1 /\ Ans(0) = 0)' => ~chip'.mr
  BY <1>1, <1>2, <1>3 DEF Read
<1>h. (Reading("IR?") /\ Moved >= 1)' => (Ans(0))' \subseteq chip'.ir
  BY <1>1, <1>2, <1>3 DEF Read
<1> QED BY <1>a, <1>b, <1>c, <1>d, <1>e, <1>f, <1>g, <1>h DEF Read

\* The end of the chip's reset keeps the invariant.
LEMMA ResetEndsKeeps ==
  ASSUME W5Inv, ChipMoves, ResetEnds, UNCHANGED <<sent, arrived, rxRing>>, Framed'
  PROVE  W5Inv'
<1> USE DEF W5Inv
<1>0. /\ UNCHANGED <<up, call, step, val, ptr, got, next, taken, ret, torn, lost, abandoned>>
      /\ UNCHANGED <<fpc, busy, window, shift, txRing>> /\ UNCHANGED App
      /\ (Calling' <=> Calling) /\ (Sends' <=> Sends) /\ (Receives' <=> Receives)
      /\ Moved' = Moved /\ \A j \in Nat : (Ans(j))' = Ans(j)
      /\ (Commanded' <=> Commanded) /\ Put' = Put /\ Filled' = Filled
      /\ First' = First /\ Held' = Held
  BY ChipFacts
<1>1. chip' = Reset /\ chip.mr /\ up = "initialize" /\ chip = [Reset EXCEPT !.mr = chip.mr, !.set = chip.set]
  BY DEF ResetEnds, ResetOnce, Typed
<1>2. /\ chip'.mr = FALSE
      /\ chip'.cr = chip.cr /\ chip'.ir = chip.ir /\ chip'.txWr = chip.txWr
      /\ chip'.txRd = chip.txRd /\ chip'.txEnd = chip.txEnd
      /\ chip'.rxWr = chip.rxWr /\ chip'.rxRd = chip.rxRd /\ chip'.rxRdReg = chip.rxRdReg
      /\ chip' = [Reset EXCEPT !.mr = chip'.mr, !.set = chip'.set]
  BY <1>1 DEF Reset
<1>3. chip' \in ChipType
  BY <1>1, RingAssumption DEF Reset, ChipType, Pointers
<1>4. Typed'
  BY <1>0, <1>3 DEF Typed
<1>5. ResetOnce'
  BY <1>0, <1>1, <1>2 DEF ResetOnce
<1>6. Commands6'
  BY <1>0, <1>2 DEF Commands6
<1>7. (SendTaken' <=> SendTaken) /\ (RecvTaken' <=> RecvTaken)
  BY <1>0, <1>2, TakenSame
<1>8. Sending' /\ InOrder' /\ Told'
  BY <1>0, <1>2, <1>7, TxSame
<1>9. Receiving'
  <2>1. ~lost /\ Receives /\ step \in {3, 4} =>
           \A j \in 0 .. Moved' - 1 : (Ans(j))' = Len(taken) + Held + 1 + j
    BY <1>0, MovedIn DEF Receiving
  <2> QED BY <1>0, <1>2, <1>7, <2>1, RxSame
<1>10. Free' = Free /\ Received' = Received /\ Free \in Nat /\ Received \in Nat
  <2>1. Free' = Free /\ Received' = Received
    BY <1>2 DEF Free, Unsent, Received
  <2> QED BY <2>1, ShownIs, MFacts DEF Pointers
<1>11. Read'
  BY <1>2, <1>4, <1>10, ReadGrows
<1>12. Left'
  BY <1>0, <1>2, LeftStays
<1> QED BY <1>4, <1>5, <1>6, <1>8, <1>9, <1>11, <1>12

\* A pointer that moves towards another comes nearer by as much.
LEMMA DistLess ==
  ASSUME NEW a \in Pointers, NEW b \in Pointers, NEW n \in Nat, n <= Dist(a, b)
  PROVE  Dist((a + n) % M, b) = Dist(a, b) - n /\ (a + n) % M \in Pointers
<1> DEFINE c == (a + n) % M
<1>1. /\ Dist(a, b) = IF b >= a THEN b - a ELSE b - a + M
      /\ a \in Nat /\ b \in Nat /\ a < M /\ b < M /\ M \in Nat
  BY DistIs, MFacts
<1>2. n < M
  BY <1>1
<1>3. c = (IF a + n < M THEN a + n ELSE a + n - M) /\ c \in Pointers
  BY <1>2, AheadIs
<1> HIDE DEF c
<1>4. Dist(c, b) = IF b >= c THEN b - c ELSE b - c + M
  BY <1>3, DistIs
<1>5. Dist(c, b) = Dist(a, b) - n
  BY <1>1, <1>2, <1>3, <1>4
<1> QED BY <1>3, <1>5 DEF c

\* A byte comes in.
LEMMA ArrivesKeeps ==
  ASSUME W5Inv, ChipMoves, Arrives, UNCHANGED sent, Framed'
  PROVE  W5Inv'
<1> USE DEF W5Inv
<1>0. /\ UNCHANGED <<up, call, step, val, ptr, got, next, taken, ret, torn, lost, abandoned>>
      /\ UNCHANGED <<fpc, busy, window, shift, txRing>> /\ UNCHANGED App
      /\ (Calling' <=> Calling) /\ (Sends' <=> Sends) /\ (Receives' <=> Receives)
      /\ Moved' = Moved /\ \A j \in Nat : (Ans(j))' = Ans(j)
      /\ (Commanded' <=> Commanded) /\ Put' = Put /\ Filled' = Filled
      /\ First' = First /\ Held' = Held
  BY ChipFacts
<1> DEFINE p == Slot(chip.rxWr, 0)
<1>1. /\ chip.sr = "established" /\ Received < Buf /\ arrived' = arrived + 1
      /\ chip' = [chip EXCEPT !.rxWr = (@ + 1) % M] /\ chip \in ChipType
      /\ arrived \in Nat /\ rxRing \in [Ring -> Nat] /\ Received \in Nat
      /\ rxRing' = [rxRing EXCEPT ![p] = arrived + 1]
  <2>1. chip.rxWr + 0 = chip.rxWr /\ Received \in Nat
    BY ShownIs, MFacts DEF Pointers
  <2> QED BY <2>1 DEF Arrives, Typed, Slot
<1>2. /\ chip.rxWr \in Pointers /\ chip.rxRd \in Pointers
      /\ (chip.rxWr + 1) % M \in Pointers
      /\ Dist(chip.rxRd, (chip.rxWr + 1) % M) = Received + 1
      /\ Slot(chip.rxRd, Received) = p /\ p \in Ring
  <2>1. chip.rxWr \in Pointers /\ chip.rxRd \in Pointers
    BY ShownIs
  <2>2. Dist(chip.rxRd, chip.rxWr) < M - 1
    BY <1>1, MFacts DEF Received
  <2>3. /\ Dist(chip.rxRd, (chip.rxWr + 1) % M) = Dist(chip.rxRd, chip.rxWr) + 1
        /\ (chip.rxWr + 1) % M \in Pointers
    BY <2>1, <2>2, DistStep
  <2>4. (chip.rxRd + Received) % M = chip.rxWr /\ Received < M
    BY <2>1, AheadDist DEF Received
  <2>5. Slot((chip.rxRd + Received) % M, 0) = Slot(chip.rxRd, Received + 0)
    BY <1>1, <2>1, <2>4, SlotAhead
  <2>6. p \in Ring /\ Received + 0 = Received
    BY <1>1, <2>1, SlotIn
  <2> HIDE DEF p
  <2> QED BY <2>1, <2>3, <2>4, <2>5, <2>6 DEF Received, p
<1> HIDE DEF p
<1>3. /\ chip' \in ChipType /\ chip'.rxWr = (chip.rxWr + 1) % M
      /\ chip'.mr = chip.mr /\ chip'.cr = chip.cr /\ chip'.ir = chip.ir /\ chip'.txWr = chip.txWr
      /\ chip'.txRd = chip.txRd /\ chip'.txEnd = chip.txEnd
      /\ chip'.rxRd = chip.rxRd /\ chip'.rxRdReg = chip.rxRdReg
  <2> DEFINE w == (chip.rxWr + 1) % M
  <2>1. w \in Pointers /\ chip' = [chip EXCEPT !.rxWr = w]
    BY <1>1, <1>2
  <2> HIDE DEF w
  <2> QED BY <1>1, <2>1 DEF ChipType, w
<1>4. /\ rxRing' \in [Ring -> Nat] /\ rxRing'[p] = arrived + 1
      /\ \A q \in Ring : q # p => rxRing'[q] = rxRing[q]
      /\ Received' = Received + 1
  BY <1>1, <1>2, <1>3 DEF Received
<1>5. Typed'
  BY <1>0, <1>1, <1>3, <1>4 DEF Typed
<1>6. up # "initialize" /\ call.op # "initialize"
  BY <1>1 DEF ResetOnce, Reset, Typed, Calling
<1>7. ResetOnce'
  BY <1>0, <1>3, <1>6 DEF ResetOnce
<1>8. Commands6'
  BY <1>0, <1>3 DEF Commands6
<1>9. (SendTaken' <=> SendTaken) /\ (RecvTaken' <=> RecvTaken)
  BY <1>0, <1>3, TakenSame
<1>10. Sending' /\ InOrder' /\ Told'
  BY <1>0, <1>3, <1>9, TxSame
<1>11. Free' = Free /\ Free \in Nat
  <2>1. Free' = Free
    BY <1>3 DEF Free, Unsent
  <2> QED BY <2>1, ShownIs, MFacts DEF Pointers
<1>12. Read'
  BY <1>1, <1>3, <1>4, <1>5, <1>11, ReadGrows
<1>13. Left'
  BY <1>0, <1>3, LeftStays
<1>14. Receiving'
  <2>1. /\ (Receives /\ step >= 3 => chip.rxRdReg = Put)'
        /\ (Receives /\ step = 4 => First < call.n)'
    BY <1>0, <1>3 DEF Receiving
  <2>2. ASSUME ~lost
        PROVE  /\ (chip.rxRd = IF RecvTaken THEN chip.rxRdReg ELSE RxBase)'
               /\ (Received <= Buf /\ Received <= arrived)'
               /\ (\A i \in 0 .. Received - 1 :
                     rxRing[Slot(chip.rxRd, i)] = arrived - Received + 1 + i)'
               /\ (taken \in Seq(Nat) /\ taken = [i \in 1 .. Len(taken) |-> i])'
               /\ (Len(taken) + (IF RecvTaken THEN call.n ELSE 0) = arrived - Received)'
               /\ (Receives /\ step >= 2 /\ ~RecvTaken => call.n <= Received)'
               /\ (Receives => got = [j \in 1 .. Held |-> Len(taken) + j])'
               /\ (Receives /\ step \in {3, 4} =>
                     \A j \in 0 .. Moved - 1 : Ans(j) = Len(taken) + Held + 1 + j)'
    <3>1. /\ chip.rxRd = IF RecvTaken THEN chip.rxRdReg ELSE RxBase
          /\ Received <= arrived
          /\ \A i \in 0 .. Received - 1 :
               rxRing[Slot(chip.rxRd, i)] = arrived - Received + 1 + i
          /\ taken \in Seq(Nat) /\ taken = [i \in 1 .. Len(taken) |-> i]
          /\ Len(taken) + (IF RecvTaken THEN call.n ELSE 0) = arrived - Received
          /\ Receives /\ step >= 2 /\ ~RecvTaken => call.n <= Received
          /\ Receives => got = [j \in 1 .. Held |-> Len(taken) + j]
          /\ Receives /\ step \in {3, 4} =>
               \A j \in 0 .. Moved - 1 : Ans(j) = Len(taken) + Held + 1 + j
      BY <2>2, Zenon DEF Receiving
    <3>2. RxBase' = RxBase
      BY <1>0, <1>3 DEF RxBase
    <3>3. ASSUME NEW i \in 0 .. Received' - 1
          PROVE  rxRing'[Slot(chip.rxRd, i)] = arrived' - Received' + 1 + i
      <4>1. i \in Nat /\ Slot(chip.rxRd, i) \in Ring /\ arrived' - Received' = arrived - Received
        <5>1. Received \in Nat /\ Received' = Received + 1 /\ arrived \in Nat /\ arrived' = arrived + 1
          BY <1>1, <1>4
        <5>2. i \in Nat /\ arrived' - Received' = arrived - Received
          BY <3>3, <5>1
        <5> QED BY <1>2, <5>2, SlotIn
      <4>2. CASE i < Received
        <5>1. Slot(chip.rxRd, i) # Slot(chip.rxRd, Received)
          <6>1. i < Received /\ Received < i + Buf
            BY <1>1, <4>1, <4>2, MFacts
          <6> QED BY <1>1, <1>2, <4>1, <6>1, SlotsApart
        <5>2. rxRing[Slot(chip.rxRd, i)] = arrived - Received + 1 + i
          <6>1. i \in 0 .. Received - 1
            BY <1>1, <4>1, <4>2
          <6> QED BY <3>1, <6>1
        <5> QED BY <1>2, <1>4, <4>1, <5>1, <5>2
      <4>3. CASE i = Received
        <5>1. arrived - Received + 1 + i = arrived + 1
          BY <1>1, <4>3
        <5> QED BY <1>2, <1>4, <4>1, <4>3, <5>1
      <4> QED BY <1>1, <1>4, <3>3, <4>1, <4>2, <4>3
    <3>4. (\A i \in 0 .. Received - 1 :
             rxRing[Slot(chip.rxRd, i)] = arrived - Received + 1 + i)'
      BY <1>3, <3>3 DEF Slot
    <3>5. (chip.rxRd = IF RecvTaken THEN chip.rxRdReg ELSE RxBase)'
      BY <1>3, <1>9, <3>1, <3>2
    <3>6. (Received <= Buf /\ Received <= arrived)'
      BY <1>1, <1>4, <3>1, MFacts
    <3>7. (Len(taken) + (IF RecvTaken THEN call.n ELSE 0) = arrived - Received)'
      <4>1. arrived' - Received' = arrived - Received
        BY <1>1, <1>4
      <4> QED BY <1>0, <1>9, <3>1, <4>1
    <3>8. (Receives /\ step >= 2 /\ ~RecvTaken => call.n <= Received)'
      <4> HAVE (Receives /\ step >= 2 /\ ~RecvTaken)'
      <4>1. Receives /\ call.n <= Received
        BY <1>0, <1>9, <3>1
      <4>2. call.n \in Nat
        BY <4>1, TargetIs DEF Receives, Calling
      <4> QED BY <1>0, <1>1, <1>4, <4>1, <4>2
    <3>9. (Receives => got = [j \in 1 .. Held |-> Len(taken) + j])'
      BY <1>0, <3>1
    <3>10. (Receives /\ step \in {3, 4} =>
              \A j \in 0 .. Moved - 1 : Ans(j) = Len(taken) + Held + 1 + j)'
      BY <1>0, <3>1, MovedIn
    <3>11. (taken \in Seq(Nat) /\ taken = [i \in 1 .. Len(taken) |-> i])'
      BY <1>0, <3>1
    <3> QED BY <3>4, <3>5, <3>6, <3>7, <3>8, <3>9, <3>10, <3>11
  <2> QED BY <1>0, <2>1, <2>2, Zenon DEF Receiving
<1> QED BY <1>5, <1>7, <1>8, <1>10, <1>12, <1>13, <1>14

\* The chip takes a command.
LEMMA TakesCommandIs ==
  ASSUME W5Inv, TakesCommand
  PROVE  /\ chip' \in ChipType /\ chip'.cr = "none" /\ chip.cr # "none"
         /\ chip'.mr = chip.mr /\ chip'.ir = chip.ir /\ chip'.txWr = chip.txWr
         /\ chip'.txRd = chip.txRd /\ chip'.rxWr = chip.rxWr /\ chip'.rxRdReg = chip.rxRdReg
         /\ chip'.txEnd = IF chip.cr = "SEND" THEN chip.txWr ELSE chip.txEnd
         /\ chip'.rxRd = IF chip.cr = "RECV" THEN chip.rxRdReg ELSE chip.rxRd
         /\ chip.txRd = chip.txEnd /\ Waiting = 0
         /\ up # "initialize" /\ call.op # "initialize"
<1> DEFINE t == IF chip.cr = "SEND" THEN chip.txWr ELSE chip.txEnd
           r == IF chip.cr = "RECV" THEN chip.rxRdReg ELSE chip.rxRd
           s == CASE chip.cr = "OPEN" -> "init" [] chip.cr = "CLOSE" -> "closed"
                  [] chip.cr = "CONNECT" -> "established" [] OTHER -> chip.sr
<1>1. chip' = [chip EXCEPT !.cr = "none", !.txEnd = t, !.rxRd = r, !.sr = s]
  BY DEF TakesCommand
<1>2. chip.cr # "none" /\ chip.txRd = chip.txEnd /\ chip \in ChipType
  BY DEF TakesCommand, W5Inv, Typed
<1>3. t \in Pointers /\ r \in Pointers
  BY ShownIs DEF W5Inv
<1>4. s \in {"closed", "init", "established"}
  BY <1>2 DEF ChipType
<1> HIDE DEF s
<1>5. up # "initialize"
  BY <1>2 DEF W5Inv, ResetOnce, Reset
<1>6. call.op # "initialize"
  BY <1>5 DEF W5Inv, Typed, Calling
<1>7. Waiting = 0
  BY <1>2, ShownIs, DistZero DEF Waiting, W5Inv
<1>8. t = (IF chip.cr = "SEND" THEN chip.txWr ELSE chip.txEnd)
      /\ r = (IF chip.cr = "RECV" THEN chip.rxRdReg ELSE chip.rxRd)
  OBVIOUS
<1> HIDE DEF t, r
<1>9. /\ chip' \in ChipType /\ chip'.cr = "none"
      /\ chip'.mr = chip.mr /\ chip'.ir = chip.ir /\ chip'.txWr = chip.txWr
      /\ chip'.txRd = chip.txRd /\ chip'.rxWr = chip.rxWr /\ chip'.rxRdReg = chip.rxRdReg
      /\ chip'.txEnd = t /\ chip'.rxRd = r
  BY <1>1, <1>2, <1>3, <1>4 DEF ChipType
<1> QED BY <1>2, <1>5, <1>6, <1>7, <1>8, <1>9

\* SEND is taken.
LEMMA SendIsTaken ==
  ASSUME W5Inv, ChipMoves, TakesCommand, UNCHANGED <<sent, arrived, rxRing>>,
         chip.cr = "SEND", Sends, Commanded
  PROVE  Sending' /\ InOrder' /\ Told'
<1> USE DEF W5Inv
<1>0. /\ UNCHANGED <<up, call, step, val, ptr, got, next, taken, ret, torn, lost, abandoned>>
      /\ UNCHANGED <<txRing, sent>>
      /\ (Calling' <=> Calling) /\ (Sends' <=> Sends) /\ (Receives' <=> Receives)
      /\ (Commanded' <=> Commanded) /\ Put' = Put /\ Filled' = Filled /\ First' = First
  BY ChipFacts
<1>1. /\ chip' \in ChipType /\ chip'.cr = "none"
      /\ chip'.ir = chip.ir /\ chip'.txWr = chip.txWr /\ chip'.txRd = chip.txRd
      /\ chip'.txEnd = chip.txWr /\ chip.txRd = chip.txEnd /\ Waiting = 0
  BY TakesCommandIs
<1>2. Calling /\ step \in {6, 7} /\ call.op = "send"
  <2>1. Calling /\ call.op = "send" /\ step \in 1 .. 9
    BY CallRange DEF Sends, Calling
  <2> QED BY <2>1 DEF Commanded, Commands6
<1>3. /\ ptr \in Pointers /\ call.n \in 1 .. Buf /\ next \in Nat /\ call.n < next /\ Buf \in Nat
      /\ call.n \in Nat /\ call.n < M /\ Buf < M /\ M \in Nat
  BY <1>2, MFacts, TargetIs DEF Typed
<1>4. chip.txWr = Target /\ ~SendTaken /\ SendTaken' /\ TxBase = ptr
  BY <1>0, <1>1, <1>2, StepsOfPut DEF Sending, SendTaken, TxBase
<1>5. Filled = call.n
  BY <1>2 DEF Filled
<1>6. \A i \in 0 .. call.n - 1 : txRing[Slot(ptr, i)] = next - call.n + i
  BY <1>2, <1>5 DEF Sending
<1> DEFINE d == Dist(chip.txRd, ptr)
<1>7. d \in Nat /\ d < M /\ (chip.txRd + d) % M = ptr /\ chip.txRd \in Pointers
  BY <1>3, ShownIs, AheadDist
<1> HIDE DEF d
<1>8. ASSUME d + call.n <= Buf
      PROVE  /\ Waiting' = d + call.n
             /\ \A i \in 0 .. call.n - 1 :
                  txRing[Slot(chip.txRd, d + i)] = next - call.n + i
  <2>1. Dist(chip.txRd, Target) = d + call.n
    <3>1. d + call.n < M
      BY <1>3, <1>7, <1>8
    <3> QED BY <1>3, <1>7, <3>1, DistSum DEF Target, d
  <2>2. Waiting' = d + call.n
    BY <1>1, <1>4, <2>1 DEF Waiting
  <2>3. ASSUME NEW i \in 0 .. call.n - 1
        PROVE  txRing[Slot(chip.txRd, d + i)] = next - call.n + i
    <3>1. Slot((chip.txRd + d) % M, i) = Slot(chip.txRd, d + i)
      <4>1. i \in Nat
        BY <1>3, <2>3
      <4> QED BY <1>7, <4>1, SlotAhead
    <3> QED BY <1>6, <1>7, <2>3, <3>1
  <2> QED BY <2>2, <2>3
<1>9. Sending'
  BY <1>0, <1>1, <1>2, <1>4 DEF Sending, Slot
<1>10. InOrder'
  <2> SUFFICES ASSUME ~torn
               PROVE  /\ (chip.txEnd = IF SendTaken THEN chip.txWr ELSE TxBase)'
                      /\ (Waiting <= Buf)'
                      /\ (\E last \in 0 .. next : Order(last))'
    BY <1>0 DEF InOrder
  <2>1. chip.txEnd = ptr
    BY <1>4 DEF InOrder
  <2>2. d = 0
    BY <1>1, <1>3, <2>1, DistZero DEF d
  <2>3. Waiting' = call.n /\ \A i \in 0 .. call.n - 1 :
          txRing[Slot(chip.txRd, i)] = next - call.n + i
    <3>1. d + call.n = call.n /\ d + call.n <= Buf /\ \A i \in 0 .. call.n - 1 : d + i = i
      BY <1>3, <2>2
    <3> QED BY <1>8, <3>1
  <2>4. PICK last \in 0 .. next : Order(last)
    BY DEF InOrder
  <2>5. /\ last < next - call.n
        /\ \A j \in 1 .. Len(sent) : sent[j] \in 1 .. last
        /\ \A i, j \in 1 .. Len(sent) : i < j => sent[i] < sent[j]
    <3>1. Limit = next - call.n
      BY <1>4 DEF Limit
    <3>2. last - Waiting = last
      BY <1>1, <1>3, <2>4
    <3> QED BY <2>4, <3>1, <3>2 DEF Order
  <2>6. Limit' = next'
    BY <1>4 DEF Limit
  <2>z. PICK z \in 0 .. next : z = next - 1
    <3>1. next - 1 \in 0 .. next
      BY <1>3
    <3> QED BY <3>1
  <2>7. z \in 0 .. next /\ z < next /\ z >= call.n /\ z - call.n >= last
        /\ z - call.n \in Nat /\ last \in Nat
        /\ \A i \in 0 .. call.n - 1 : next - call.n + i = z - call.n + 1 + i
    BY <1>3, <2>z, <2>4, <2>5
  <2>8. \A j \in 1 .. Len(sent) : sent[j] \in 1 .. z - call.n
    BY <2>5, <2>7
  <2>9. \A i \in 0 .. call.n - 1 : txRing[Slot(chip.txRd, i)] = z - call.n + 1 + i
    BY <2>3, <2>7
  <2>10. (Order(z))'
    <3>1. z < Limit' /\ z >= Waiting'
      BY <1>0, <2>3, <2>6, <2>7
    <3>2. (\A i \in 0 .. Waiting - 1 : txRing[Slot(chip.txRd, i)] = z - Waiting + 1 + i)'
      BY <1>0, <1>1, <2>3, <2>9 DEF Slot
    <3>3. (\A j \in 1 .. Len(sent) : sent[j] \in 1 .. z - Waiting)'
      BY <1>0, <2>3, <2>8
    <3>4. (\A i, j \in 1 .. Len(sent) : i < j => sent[i] < sent[j])'
      BY <1>0, <2>5
    <3> QED BY <3>1, <3>2, <3>3, <3>4 DEF Order
  <2>11. Waiting' <= Buf
    BY <1>3, <2>3
  <2>12. \E l \in 0 .. next' : (Order(l))'
    BY <1>0, <2>7, <2>10
  <2>13. (chip.txEnd = IF SendTaken THEN chip.txWr ELSE TxBase)'
    BY <1>1, <1>4
  <2> QED BY <2>11, <2>12, <2>13
<1>11. Told'
  <2> SUFFICES ASSUME ~abandoned
               PROVE  chip'.ir = {} /\ Waiting' # 0 /\ OnTheirWay'
    <3>1. ret'.op = "none"
      BY <1>0, <1>2 DEF Typed
    <3> QED BY <1>0, <1>2, <1>4, <3>1 DEF Told
  <2>1. chip.ir = {}
    BY <1>4 DEF Told
  <2>2. d + call.n <= Buf
    BY <1>2, <1>4 DEF Sending, d
  <2>3. Waiting' = d + call.n /\ Waiting' # 0 /\ Waiting' \in Nat
    BY <1>3, <1>7, <1>8, <2>2
  <2>4. ASSUME NEW j \in 1 .. call.n
        PROVE  j <= Waiting' /\ txRing[Slot(chip.txRd, Waiting' - j)] = next - j
    <3>1. /\ call.n - j \in 0 .. call.n - 1 /\ Waiting' - j = d + (call.n - j)
          /\ next - call.n + (call.n - j) = next - j /\ j <= Waiting'
      BY <1>3, <1>7, <2>3, <2>4
    <3>2. txRing[Slot(chip.txRd, d + (call.n - j))] = next - call.n + (call.n - j)
      BY <1>8, <2>2, <3>1
    <3> QED BY <3>1, <3>2
  <2>5. OnTheirWay'
    BY <1>0, <1>1, <2>4 DEF OnTheirWay, Slot
  <2> QED BY <1>1, <2>1, <2>3, <2>5
<1> QED BY <1>9, <1>10, <1>11

\* RECV is taken.
LEMMA RecvIsTaken ==
  ASSUME W5Inv, ChipMoves, TakesCommand, UNCHANGED <<sent, arrived, rxRing>>,
         chip.cr = "RECV", Receives, Commanded
  PROVE  Receiving'
<1> USE DEF W5Inv
<1>0. /\ UNCHANGED <<up, call, step, val, ptr, got, next, taken, ret, torn, lost, abandoned>>
      /\ (Calling' <=> Calling) /\ (Receives' <=> Receives)
      /\ (Commanded' <=> Commanded) /\ Put' = Put /\ First' = First /\ Held' = Held
  BY ChipFacts
<1>1. /\ chip'.cr = "none" /\ chip'.rxWr = chip.rxWr /\ chip'.rxRdReg = chip.rxRdReg
      /\ chip'.rxRd = chip.rxRdReg
  BY TakesCommandIs
<1>2. Calling /\ step \in {6, 7} /\ call.op = "receive"
  <2>1. Calling /\ call.op = "receive" /\ step \in 1 .. 7
    BY CallRange DEF Receives, Calling
  <2> QED BY <2>1 DEF Commanded
<1>3. /\ ptr \in Pointers /\ call.n \in 1 .. Buf /\ Buf \in Nat /\ arrived \in Nat
      /\ call.n \in Nat /\ call.n < M /\ Buf < M /\ M \in Nat
  BY <1>2, MFacts, TargetIs DEF Typed
<1>4. chip.rxRdReg = Target /\ ~RecvTaken /\ RecvTaken' /\ RxBase = ptr
  BY <1>0, <1>1, <1>2, StepsOfPut DEF Receiving, RecvTaken, RxBase
<1>5. ASSUME ~lost
      PROVE  /\ (chip.rxRd = IF RecvTaken THEN chip.rxRdReg ELSE RxBase)'
             /\ (Received <= Buf /\ Received <= arrived)'
             /\ (\A i \in 0 .. Received - 1 :
                   rxRing[Slot(chip.rxRd, i)] = arrived - Received + 1 + i)'
             /\ (taken \in Seq(Nat) /\ taken = [i \in 1 .. Len(taken) |-> i])'
             /\ (Len(taken) + (IF RecvTaken THEN call.n ELSE 0) = arrived - Received)'
             /\ (Receives => got = [j \in 1 .. Held |-> Len(taken) + j])'
  <2>1. /\ chip.rxRd = ptr
        /\ Received <= Buf /\ Received <= arrived
        /\ \A i \in 0 .. Received - 1 :
             rxRing[Slot(ptr, i)] = arrived - Received + 1 + i
        /\ taken \in Seq(Nat) /\ taken = [i \in 1 .. Len(taken) |-> i]
        /\ Len(taken) + 0 = arrived - Received
        /\ call.n <= Received
        /\ got = [j \in 1 .. Held |-> Len(taken) + j]
    BY <1>2, <1>4, <1>5 DEF Receiving
  <2>2. Received \in Nat /\ chip.rxWr \in Pointers /\ Len(taken) \in Nat
    BY <2>1, ShownIs, MFacts DEF Pointers
  <2>3. Received' = Received - call.n
    <3>1. Dist((ptr + call.n) % M, chip.rxWr) = Dist(ptr, chip.rxWr) - call.n
      BY <1>3, <2>1, <2>2, DistLess DEF Received
    <3> QED BY <1>1, <1>4, <2>1, <3>1 DEF Received, Target
  <2>4. ASSUME NEW i \in 0 .. Received' - 1
        PROVE  rxRing[Slot(Target, i)] = arrived - Received' + 1 + i
    <3>1. i \in Nat /\ call.n + i \in 0 .. Received - 1
          /\ arrived - Received + 1 + (call.n + i) = arrived - Received' + 1 + i
      <4>1. i \in Nat /\ i < Received' /\ Received' = Received - call.n
        BY <1>3, <2>2, <2>3, <2>4
      <4> DEFINE q == Received'   x == call.n
      <4>2. i \in Nat /\ i < q /\ q = Received - x /\ x \in Nat /\ Received \in Nat /\ arrived \in Nat
        BY <1>3, <2>2, <4>1
      <4> HIDE DEF q, x
      <4>3. x + i \in 0 .. Received - 1 /\ arrived - Received + 1 + (x + i) = arrived - q + 1 + i
        BY <4>2
      <4> QED BY <4>2, <4>3 DEF q, x
    <3>2. Slot((ptr + call.n) % M, i) = Slot(ptr, call.n + i)
      BY <1>3, <3>1, SlotAhead
    <3>3. rxRing[Slot(ptr, call.n + i)] = arrived - Received + 1 + (call.n + i)
      BY <2>1, <3>1
    <3> QED BY <3>1, <3>2, <3>3 DEF Target
  <2>5. (\A i \in 0 .. Received - 1 :
           rxRing[Slot(chip.rxRd, i)] = arrived - Received + 1 + i)'
    BY <1>1, <1>4, <2>4 DEF Slot
  <2>6. Received' <= Buf /\ Received' <= arrived
        /\ Len(taken) + call.n = arrived - Received'
    BY <1>3, <2>1, <2>2, <2>3
  <2>7. (chip.rxRd = IF RecvTaken THEN chip.rxRdReg ELSE RxBase)'
    BY <1>1, <1>4
  <2>8. (Len(taken) + (IF RecvTaken THEN call.n ELSE 0) = arrived - Received)'
    BY <1>0, <1>4, <2>6
  <2> QED BY <1>0, <2>1, <2>5, <2>6, <2>7, <2>8
<1>6. chip'.rxRdReg = Put' /\ step' \in {6, 7}
  BY <1>0, <1>1, <1>2 DEF Receiving
<1>7. lost' = lost /\ step' # 3 /\ step' # 4
  BY <1>0, <1>6
<1> QED BY <1>4, <1>5, <1>6, <1>7 DEF Receiving

\* A command taken by the chip keeps the invariant.
LEMMA TakesCommandKeeps ==
  ASSUME W5Inv, ChipMoves, TakesCommand, UNCHANGED <<sent, arrived, rxRing>>, Framed'
  PROVE  W5Inv'
<1> USE DEF W5Inv
<1>0. /\ UNCHANGED <<up, call, step, val, ptr, got, next, taken, ret, torn, lost, abandoned>>
      /\ UNCHANGED <<fpc, busy, window, shift, txRing>> /\ UNCHANGED App
      /\ (Calling' <=> Calling) /\ (Sends' <=> Sends) /\ (Receives' <=> Receives)
      /\ Moved' = Moved /\ \A j \in Nat : (Ans(j))' = Ans(j)
      /\ (Commanded' <=> Commanded) /\ Put' = Put /\ Filled' = Filled
      /\ First' = First /\ Held' = Held
  BY ChipFacts
<1>1. /\ chip' \in ChipType /\ chip'.cr = "none" /\ chip.cr # "none"
      /\ chip'.mr = chip.mr /\ chip'.ir = chip.ir /\ chip'.txWr = chip.txWr
      /\ chip'.txRd = chip.txRd /\ chip'.rxWr = chip.rxWr /\ chip'.rxRdReg = chip.rxRdReg
      /\ chip'.txEnd = IF chip.cr = "SEND" THEN chip.txWr ELSE chip.txEnd
      /\ chip'.rxRd = IF chip.cr = "RECV" THEN chip.rxRdReg ELSE chip.rxRd
      /\ up # "initialize" /\ call.op # "initialize"
  BY TakesCommandIs
<1>2. Typed'
  BY <1>0, <1>1 DEF Typed
<1>3. ResetOnce'
  BY <1>0, <1>1 DEF ResetOnce
<1>4. Commands6'
  BY <1>0, <1>1 DEF Commands6
<1>5. Free' = Free /\ Free \in Nat /\ Received \in Nat
  <2>1. Free' = Free
    BY <1>1 DEF Free, Unsent
  <2> QED BY <2>1, ShownIs, MFacts DEF Pointers
<1>6. Receives /\ step = 1 /\ ~lost => Received' = Received
  <2> HAVE Receives /\ step = 1 /\ ~lost
  <2>1. chip.cr # "RECV"
    BY DEF Commands6, Commanded
  <2> QED BY <1>1, <2>1 DEF Received
<1>7. Read'
  BY <1>1, <1>2, <1>5, <1>6, ReadGrows
<1>8. Left'
  <2>1. CASE chip.cr = "SEND"
    <3>1. Left
      OBVIOUS
    <3>2. fpc = "none" /\ busy => torn
      <4>1. fpc = "none" /\ busy => step = 1
        BY DEF Framed
      <4> QED BY <2>1, <4>1 DEF Commands6, Commanded
    <3>3. ASSUME NEW h, NEW i, NEW d, torn, Harmless(h, i, d) PROVE (Harmless(h, i, d))'
      BY <1>0, <3>3 DEF Harmless
    <3> QED BY <1>0, <3>1, <3>2, <3>3 DEF Left
  <2>2. CASE chip.cr # "SEND"
    BY <1>0, <1>1, <2>2, LeftStays
  <2> QED BY <2>1, <2>2
<1>9. Sending' /\ InOrder' /\ Told'
  <2>1. CASE chip.cr = "SEND" /\ Sends /\ Commanded
    BY <2>1, SendIsTaken
  <2>2. CASE chip.cr = "SEND" /\ ~(Sends /\ Commanded)
    <3>1. torn /\ abandoned
      BY <2>2 DEF Commands6
    <3>2. InOrder' /\ Told'
      BY <1>0, <3>1 DEF InOrder, Told
    <3>3. Sending'
      BY <1>0, <1>1, <3>1 DEF Sending, Slot
    <3> QED BY <3>2, <3>3
  <2>3. CASE chip.cr # "SEND"
    <3>1. SendTaken' <=> SendTaken
      BY <1>0, <1>1, <2>3 DEF SendTaken
    <3> QED BY <1>0, <1>1, <2>3, <3>1, TxSame
  <2> QED BY <2>1, <2>2, <2>3
<1>10. Receiving'
  <2>1. CASE chip.cr = "RECV" /\ Receives /\ Commanded
    BY <2>1, RecvIsTaken
  <2>2. CASE chip.cr = "RECV" /\ ~(Receives /\ Commanded)
    <3>1. lost
      BY <2>2 DEF Commands6
    <3> QED BY <1>0, <1>1, <3>1 DEF Receiving
  <2>3. CASE chip.cr # "RECV"
    <3>1. RecvTaken' <=> RecvTaken
      BY <1>0, <1>1, <2>3 DEF RecvTaken
    <3>2. ~lost /\ Receives /\ step \in {3, 4} =>
             \A j \in 0 .. Moved' - 1 : (Ans(j))' = Len(taken) + Held + 1 + j
      BY <1>0, MovedIn DEF Receiving
    <3> QED BY <1>0, <1>1, <2>3, <3>1, <3>2, RxSame
  <2> QED BY <2>1, <2>2, <2>3
<1> QED BY <1>2, <1>3, <1>4, <1>7, <1>8, <1>9, <1>10

\* The chip transmits only what it was told to, and only then.
LEMMA Transmitting ==
  ASSUME W5Inv, chip.txRd # chip.txEnd
  PROVE  /\ Waiting \in Nat /\ Waiting # 0 /\ Waiting < M
         /\ (chip.txRd + Waiting) % M = chip.txEnd
         /\ Dist((chip.txRd + 1) % M, chip.txEnd) = Waiting - 1
         /\ (chip.txRd + 1) % M \in Pointers
         /\ up # "initialize" /\ call.op # "initialize"
         /\ ~abandoned => SendTaken /\ Sends /\ step < 9 /\ chip.ir = {} /\ OnTheirWay
         /\ ~torn /\ ~SendTaken => chip.txEnd = TxBase
         /\ Sends /\ step = 1 => ~SendTaken
<1> USE DEF W5Inv
<1>1. chip.txRd \in Pointers /\ chip.txEnd \in Pointers
  BY ShownIs
<1>2. Waiting \in Nat /\ Waiting # 0 /\ Waiting < M /\ (chip.txRd + Waiting) % M = chip.txEnd
  BY <1>1, AheadDist, DistZero DEF Waiting
<1>3. /\ Dist((chip.txRd + 1) % M, chip.txEnd) = Waiting - 1
      /\ (chip.txRd + 1) % M \in Pointers
  BY <1>1, DistStep DEF Waiting
<1>4. up # "initialize" /\ call.op # "initialize"
  <2>1. up # "initialize"
    BY DEF ResetOnce, Reset
  <2> QED BY <2>1 DEF Typed, Calling
<1>5. ~abandoned => SendTaken /\ Sends /\ step < 9 /\ chip.ir = {} /\ OnTheirWay
  <2> HAVE ~abandoned
  <2>1. SendTaken /\ Sends
    BY <1>2 DEF Told, SendTaken
  <2>2. step \in 1 .. 9
    BY <2>1, CallRange DEF Sends, Calling
  <2>3. step # 9
    BY <1>2, <2>1 DEF Told
  <2> QED BY <1>2, <2>1, <2>2, <2>3 DEF Told
<1>6. ~torn /\ ~SendTaken => chip.txEnd = TxBase
  BY DEF InOrder
<1>7. Sends /\ step = 1 => ~SendTaken
  BY DEF SendTaken, Commanded
<1> QED BY <1>2, <1>3, <1>4, <1>5, <1>6, <1>7

\* A byte leaves.
LEMMA TransmitsKeeps ==
  ASSUME W5Inv, ChipMoves, Transmits, UNCHANGED <<arrived, rxRing>>, Framed'
  PROVE  W5Inv'
<1> USE DEF W5Inv
<1>0. /\ UNCHANGED <<up, call, step, val, ptr, got, next, taken, ret, torn, lost, abandoned>>
      /\ UNCHANGED <<fpc, busy, window, shift, txRing>> /\ UNCHANGED App
      /\ (Calling' <=> Calling) /\ (Sends' <=> Sends) /\ (Receives' <=> Receives)
      /\ Moved' = Moved /\ \A j \in Nat : (Ans(j))' = Ans(j)
      /\ (Commanded' <=> Commanded) /\ Put' = Put /\ Filled' = Filled
      /\ First' = First /\ Held' = Held
  BY ChipFacts
<1> DEFINE x == txRing[Slot(chip.txRd, 0)]
           f == IF (chip.txRd + 1) % M = chip.txEnd THEN chip.ir \cup {"SENDOK"} ELSE chip.ir
           t == (chip.txRd + 1) % M
<1>1. /\ chip.txRd # chip.txEnd /\ sent' = Append(sent, x)
      /\ chip' = [chip EXCEPT !.txRd = t, !.ir = f]
  <2>1. chip.txRd + 0 = chip.txRd
    BY ShownIs, MFacts DEF Pointers
  <2> QED BY <2>1 DEF Transmits, Slot
<1>2. /\ Waiting \in Nat /\ Waiting # 0 /\ Waiting < M
      /\ (chip.txRd + Waiting) % M = chip.txEnd
      /\ Dist(t, chip.txEnd) = Waiting - 1 /\ t \in Pointers
      /\ up # "initialize" /\ call.op # "initialize"
      /\ ~abandoned => SendTaken /\ Sends /\ step < 9 /\ chip.ir = {} /\ OnTheirWay
      /\ ~torn /\ ~SendTaken => chip.txEnd = TxBase
      /\ Sends /\ step = 1 => ~SendTaken
  BY <1>1, Transmitting
<1>3. x \in Nat
  <2>1. Slot(chip.txRd, 0) \in Ring /\ txRing \in [Ring -> Nat]
    BY ShownIs, SlotIn DEF Typed
  <2> QED BY <2>1
<1>4. f \in SUBSET Flags /\ chip.ir \subseteq f /\ (t = chip.txEnd => f = chip.ir \cup {"SENDOK"})
      /\ (t # chip.txEnd => f = chip.ir)
  BY DEF Typed, ChipType, Flags
<1>x. x = txRing[Slot(chip.txRd, 0)]
  OBVIOUS
<1>t. ASSUME NEW i \in Nat PROVE Slot(t, i) = Slot(chip.txRd, 1 + i)
  BY ShownIs, SlotAhead, MFacts
<1> HIDE DEF x, f, t
<1>5. /\ chip' \in ChipType /\ chip'.txRd = t /\ chip'.ir = f
      /\ chip'.mr = chip.mr /\ chip'.cr = chip.cr /\ chip'.txWr = chip.txWr
      /\ chip'.txEnd = chip.txEnd /\ chip'.rxWr = chip.rxWr
      /\ chip'.rxRd = chip.rxRd /\ chip'.rxRdReg = chip.rxRdReg
  <2>1. chip \in ChipType
    BY DEF Typed
  <2> QED BY <1>1, <1>2, <1>4, <2>1 DEF ChipType
<1>6. /\ sent \in Seq(Nat) /\ sent' \in Seq(Nat) /\ Len(sent') = Len(sent) + 1 /\ Len(sent) \in Nat
      /\ \A i \in 1 .. Len(sent) : sent'[i] = sent[i]
      /\ sent'[Len(sent) + 1] = x
  <2>1. sent \in Seq(Nat)
    BY DEF Typed
  <2> QED BY <1>1, <1>3, <2>1, AppendProperties, LenProperties
<1>7. Waiting' = Waiting - 1 /\ Waiting' \in Nat
  BY <1>2, <1>5 DEF Waiting
<1>8. Typed'
  BY <1>0, <1>5, <1>6 DEF Typed
<1>9. ResetOnce'
  BY <1>0, <1>2, <1>5 DEF ResetOnce
<1>10. Commands6'
  BY <1>0, <1>5 DEF Commands6
<1>11. (SendTaken' <=> SendTaken) /\ (RecvTaken' <=> RecvTaken)
  BY <1>0, <1>5, TakenSame
<1>12. TxBase' = TxBase
  BY <1>0, <1>5 DEF TxBase
<1>13. Receiving'
  <2>1. ~lost /\ Receives /\ step \in {3, 4} =>
           \A j \in 0 .. Moved' - 1 : (Ans(j))' = Len(taken) + Held + 1 + j
    BY <1>0, MovedIn DEF Receiving
  <2> QED BY <1>0, <1>5, <1>11, <2>1, RxSame
<1>14. Received' = Received /\ Received \in Nat /\ Free \in Nat
  <2>1. Received' = Received
    BY <1>5 DEF Received
  <2> QED BY <2>1, ShownIs, MFacts DEF Pointers
<1>15. Sends /\ step = 1 /\ ~(torn /\ abandoned) => Free <= Free'
  <2> HAVE Sends /\ step = 1 /\ ~(torn /\ abandoned)
  <2>1. ~torn /\ chip.txEnd = chip.txWr /\ Waiting <= Buf
    BY <1>2 DEF TxBase, InOrder
  <2>2. Unsent = Waiting /\ Unsent' = Waiting - 1
    BY <1>5, <1>2, <2>1 DEF Unsent, Waiting
  <2>3. Free = Buf - Waiting /\ Free' = Buf - (Waiting - 1)
    BY <1>2, <2>1, <2>2, MFacts DEF Free
  <2> QED BY <1>2, <2>3, MFacts
<1>16. Read'
  BY <1>4, <1>5, <1>8, <1>14, <1>15, ReadGrows
<1>17. Sending'
  <2>1. Sends /\ step >= 2 /\ ~SendTaken /\ ~(torn /\ abandoned) =>
          Dist(t, TxBase) + call.n <= Buf
    <3> HAVE Sends /\ step >= 2 /\ ~SendTaken /\ ~(torn /\ abandoned)
    <3>1. chip.txEnd = TxBase /\ Dist(chip.txRd, TxBase) + call.n <= Buf
      BY <1>2 DEF Sending
    <3>2. Dist(chip.txRd, TxBase) = Waiting /\ Dist(t, TxBase) = Waiting - 1
      BY <1>2, <3>1 DEF Waiting
    <3>3. call.n \in Nat
      BY TargetIs DEF Sends, Calling
    <3> QED BY <1>2, <3>1, <3>2, <3>3, MFacts
  <2>2. (Dist(chip.txRd, TxBase))' = Dist(t, TxBase)
    BY <1>5, <1>12 DEF Dist
  <2>3. (\A i \in 0 .. Filled - 1 : txRing[Slot(ptr, i)] = next - call.n + i)'
        <=> (\A i \in 0 .. Filled - 1 : txRing[Slot(ptr, i)] = next - call.n + i)
    BY <1>0 DEF Slot
  <2> QED BY <1>0, <1>5, <1>11, <2>1, <2>2, <2>3 DEF Sending
<1>18. InOrder'
  <2> SUFFICES ASSUME ~torn
               PROVE  /\ (chip.txEnd = IF SendTaken THEN chip.txWr ELSE TxBase)'
                      /\ (Waiting <= Buf)'
                      /\ (\E last \in 0 .. next : Order(last))'
    BY <1>0 DEF InOrder
  <2>1. PICK last \in 0 .. next : Order(last)
    BY DEF InOrder
  <2>2. /\ last < Limit /\ last >= Waiting /\ last \in Nat
        /\ \A i \in 0 .. Waiting - 1 : txRing[Slot(chip.txRd, i)] = last - Waiting + 1 + i
        /\ \A j \in 1 .. Len(sent) : sent[j] \in 1 .. last - Waiting
        /\ \A i, j \in 1 .. Len(sent) : i < j => sent[i] < sent[j]
    BY <2>1 DEF Order
  <2>3. x = last - Waiting + 1
    <3>1. 0 \in 0 .. Waiting - 1
      BY <1>2
    <3>2. x = last - Waiting + 1 + 0
      BY <1>x, <2>2, <3>1
    <3> QED BY <1>2, <2>2, <3>2
  <2>4. Limit' = Limit
    BY <1>0, <1>11 DEF Limit
  <2>5. ASSUME NEW i \in 0 .. Waiting' - 1
        PROVE  txRing[Slot(t, i)] = last - Waiting' + 1 + i
    <3>1. i \in Nat /\ 1 + i \in 0 .. Waiting - 1
          /\ last - Waiting + 1 + (1 + i) = last - (Waiting - 1) + 1 + i
      BY <1>2, <1>7, <2>2, <2>5
    <3>2. txRing[Slot(chip.txRd, 1 + i)] = last - Waiting + 1 + (1 + i)
      BY <2>2, <3>1
    <3> QED BY <1>7, <1>t, <3>1, <3>2
  <2>6. ASSUME NEW j \in 1 .. Len(sent')
        PROVE  sent'[j] \in 1 .. last - Waiting'
    <3>1. last - Waiting' = last - Waiting + 1 /\ last - Waiting \in Nat
      BY <1>2, <1>7, <2>2
    <3>2. CASE j \in 1 .. Len(sent)
      <4>1. sent'[j] \in 1 .. last - Waiting
        BY <1>6, <2>2, <3>2
      <4> QED BY <3>1, <4>1
    <3>3. CASE j = Len(sent) + 1
      BY <1>6, <2>3, <3>1, <3>3
    <3> QED BY <1>6, <2>6, <3>2, <3>3
  <2>7. ASSUME NEW i \in 1 .. Len(sent'), NEW j \in 1 .. Len(sent'), i < j
        PROVE  sent'[i] < sent'[j]
    <3>1. i \in 1 .. Len(sent)
      BY <1>6, <2>7
    <3>2. CASE j \in 1 .. Len(sent)
      BY <1>6, <2>2, <2>7, <3>1, <3>2
    <3>3. CASE j = Len(sent) + 1
      <4>1. sent'[i] = sent[i] /\ sent[i] \in 1 .. last - Waiting /\ sent'[j] = x
        BY <1>6, <2>2, <3>1, <3>3
      <4>2. last - Waiting \in Nat
        BY <1>2, <2>2
      <4> QED BY <2>3, <4>1, <4>2
    <3> QED BY <1>6, <2>7, <3>2, <3>3
  <2>8. (\A i \in 0 .. Waiting - 1 : txRing[Slot(chip.txRd, i)] = last - Waiting + 1 + i)'
    BY <1>0, <1>5, <2>5 DEF Slot
  <2>9. (Order(last))'
    <3>1. last < Limit' /\ last >= Waiting'
      BY <1>2, <1>7, <2>2, <2>4
    <3> QED BY <2>6, <2>7, <2>8, <3>1 DEF Order
  <2>10. (chip.txEnd = IF SendTaken THEN chip.txWr ELSE TxBase)'
    BY <1>5, <1>11, <1>12 DEF InOrder
  <2>11. Waiting' <= Buf
    <3>1. Waiting <= Buf
      BY DEF InOrder
    <3> QED BY <1>2, <1>7, <3>1, MFacts
  <2>12. \E l \in 0 .. next' : (Order(l))'
    BY <1>0, <2>1, <2>9
  <2> QED BY <2>10, <2>11, <2>12
<1>19. Told'
  <2> SUFFICES ASSUME ~abandoned
               PROVE  /\ Waiting' = 0 => chip'.ir = {"SENDOK"}
                      /\ Waiting' # 0 => chip'.ir = {}
                      /\ OnTheirWay'
    <3>1. ~abandoned => /\ SendTaken' /\ Sends' /\ step' < 9 /\ ret'.op = "none" /\ step' # 9
      BY <1>0, <1>2, <1>11 DEF Typed, Calling, Sends
    <3> QED BY <1>0, <3>1 DEF Told
  <2>1. SendTaken /\ Sends /\ step < 9 /\ chip.ir = {} /\ OnTheirWay
    BY <1>2
  <2>2. t = chip.txEnd <=> Waiting' = 0
    <3>1. t = chip.txEnd <=> Dist(t, chip.txEnd) = 0
      BY <1>2, ShownIs, DistZero
    <3> QED BY <1>2, <1>7, <3>1
  <2>3. /\ Waiting' = 0 => chip'.ir = {"SENDOK"}
        /\ Waiting' # 0 => chip'.ir = {}
    BY <1>4, <1>5, <2>1, <2>2
  <2>4. call.n \in Nat
    BY <2>1, TargetIs DEF Sends, Calling
  <2>5. ASSUME NEW j \in 1 .. call.n
        PROVE  \/ next - j \in Numbers(sent')
               \/ j <= Waiting' /\ txRing[Slot(t, Waiting' - j)] = next - j
    <3>1. CASE next - j \in Numbers(sent)
      <4>1. PICK i \in 1 .. Len(sent) : next - j = sent[i]
        BY <3>1 DEF Numbers
      <4>2. i \in 1 .. Len(sent') /\ sent'[i] = next - j
        BY <1>6, <4>1
      <4> QED BY <4>2 DEF Numbers
    <3>2. CASE j <= Waiting /\ txRing[Slot(chip.txRd, Waiting - j)] = next - j
      <4>1. CASE j = Waiting
        <5>1. Waiting - j = 0
          BY <1>2, <4>1
        <5>2. x = next - j
          BY <1>x, <3>2, <5>1
        <5>3. Len(sent) + 1 \in 1 .. Len(sent') /\ sent'[Len(sent) + 1] = next - j
          BY <1>6, <5>2
        <5> QED BY <5>3 DEF Numbers
      <4>2. CASE j # Waiting
        <5>1. j <= Waiting' /\ Waiting' - j \in Nat /\ 1 + (Waiting' - j) = Waiting - j
          BY <1>2, <1>7, <2>4, <2>5, <3>2, <4>2
        <5>2. Slot(t, Waiting' - j) = Slot(chip.txRd, Waiting - j)
          BY <1>t, <5>1
        <5> QED BY <3>2, <5>1, <5>2
      <4> QED BY <4>1, <4>2
    <3> QED BY <2>1, <2>5, <3>1, <3>2 DEF OnTheirWay
  <2>6. OnTheirWay'
    BY <1>0, <1>5, <2>5 DEF OnTheirWay, Slot, Numbers
  <2> QED BY <2>3, <2>6
<1>20. Left'
  <2>1. ASSUME NEW p, FreeSlot(p) PROVE (FreeSlot(p))'
    <3>1. PICK i \in Waiting .. Buf - 1 : p = Slot(chip.txRd, i)
      BY <2>1 DEF FreeSlot
    <3>2. i - 1 \in Waiting' .. Buf - 1 /\ i - 1 \in Nat /\ 1 + (i - 1) = i
      BY <1>2, <1>7, <3>1, MFacts
    <3>3. p = Slot(t, i - 1)
      BY <1>t, <3>1, <3>2
    <3>4. (Slot(chip.txRd, i - 1))' = Slot(t, i - 1)
      BY <1>5 DEF Slot
    <3> QED BY <3>2, <3>3, <3>4 DEF FreeSlot
  <2>2. \A h, i, d : Harmless(h, i, d) => (Harmless(h, i, d))'
    BY <1>0, <2>1 DEF Harmless
  <2> QED BY <1>0, <2>2 DEF Left
<1> QED BY <1>8, <1>9, <1>10, <1>13, <1>16, <1>17, <1>18, <1>19, <1>20

\* The rest is dropped.
LEMMA DropsKeeps ==
  ASSUME W5Inv, ChipMoves, Drops, UNCHANGED <<arrived, rxRing>>, Framed'
  PROVE  W5Inv'
<1> USE DEF W5Inv
<1>0. /\ UNCHANGED <<up, call, step, val, ptr, got, next, taken, ret, torn, lost, abandoned>>
      /\ UNCHANGED <<fpc, busy, window, shift, txRing>> /\ UNCHANGED App
      /\ (Calling' <=> Calling) /\ (Sends' <=> Sends) /\ (Receives' <=> Receives)
      /\ Moved' = Moved /\ \A j \in Nat : (Ans(j))' = Ans(j)
      /\ (Commanded' <=> Commanded) /\ Put' = Put /\ Filled' = Filled
      /\ First' = First /\ Held' = Held
  BY ChipFacts
<1>1. /\ chip.txRd # chip.txEnd /\ sent' = sent
      /\ chip' = [chip EXCEPT !.txRd = chip.txEnd, !.ir = chip.ir \cup {"TIMEOUT"}]
  BY DEF Drops
<1>2. /\ Waiting \in Nat /\ Waiting # 0 /\ Waiting < M
      /\ (chip.txRd + Waiting) % M = chip.txEnd
      /\ up # "initialize" /\ call.op # "initialize"
      /\ ~abandoned => SendTaken /\ Sends /\ step < 9 /\ chip.ir = {}
      /\ ~torn /\ ~SendTaken => chip.txEnd = TxBase
      /\ Sends /\ step = 1 => ~SendTaken
  BY <1>1, Transmitting
<1>5. /\ chip' \in ChipType /\ chip'.txRd = chip.txEnd /\ chip'.ir = chip.ir \cup {"TIMEOUT"}
      /\ chip'.mr = chip.mr /\ chip'.cr = chip.cr /\ chip'.txWr = chip.txWr
      /\ chip'.txEnd = chip.txEnd /\ chip'.rxWr = chip.rxWr
      /\ chip'.rxRd = chip.rxRd /\ chip'.rxRdReg = chip.rxRdReg
  <2>1. chip \in ChipType
    BY DEF Typed
  <2>2. chip.ir \cup {"TIMEOUT"} \in SUBSET Flags
    BY <2>1 DEF ChipType, Flags
  <2> DEFINE f == chip.ir \cup {"TIMEOUT"}
  <2> HIDE DEF f
  <2>3. f \in SUBSET Flags /\ chip' = [chip EXCEPT !.txRd = chip.txEnd, !.ir = f]
    BY <1>1, <2>2 DEF f
  <2>4. /\ chip' \in ChipType /\ chip'.txRd = chip.txEnd /\ chip'.ir = f
        /\ chip'.mr = chip.mr /\ chip'.cr = chip.cr /\ chip'.txWr = chip.txWr
        /\ chip'.txEnd = chip.txEnd /\ chip'.rxWr = chip.rxWr
        /\ chip'.rxRd = chip.rxRd /\ chip'.rxRdReg = chip.rxRdReg
    BY <2>1, <2>3 DEF ChipType
  <2> QED BY <2>4 DEF f
<1>7. Waiting' = 0
  BY <1>5, ShownIs, DistZero DEF Waiting
<1>8. Typed'
  BY <1>0, <1>1, <1>5 DEF Typed
<1>9. ResetOnce'
  BY <1>0, <1>2, <1>5 DEF ResetOnce
<1>10. Commands6'
  BY <1>0, <1>5 DEF Commands6
<1>11. (SendTaken' <=> SendTaken) /\ (RecvTaken' <=> RecvTaken)
  BY <1>0, <1>5, TakenSame
<1>12. TxBase' = TxBase
  BY <1>0, <1>5 DEF TxBase
<1>13. Receiving'
  <2>1. ~lost /\ Receives /\ step \in {3, 4} =>
           \A j \in 0 .. Moved' - 1 : (Ans(j))' = Len(taken) + Held + 1 + j
    BY <1>0, MovedIn DEF Receiving
  <2> QED BY <1>0, <1>5, <1>11, <2>1, RxSame
<1>14. Received' = Received /\ Received \in Nat /\ Free \in Nat /\ Free <= Buf
  <2>1. Received' = Received
    BY <1>5 DEF Received
  <2> QED BY <2>1, ShownIs, MFacts DEF Pointers
<1>15. Sends /\ step = 1 /\ ~(torn /\ abandoned) => Free <= Free'
  <2> HAVE Sends /\ step = 1 /\ ~(torn /\ abandoned)
  <2>1. chip.txEnd = chip.txWr
    BY <1>2 DEF TxBase
  <2>2. Unsent' = 0
    BY <1>5, <2>1, ShownIs, DistZero DEF Unsent
  <2>3. Free' = Buf
    BY <2>2, MFacts DEF Free
  <2> QED BY <1>14, <2>3
<1>16. Read'
  <2>1. chip.ir \subseteq chip'.ir
    BY <1>5
  <2> QED BY <1>5, <1>8, <1>14, <1>15, <2>1, MFacts, ReadGrows
<1>17. Sending'
  <2>1. Sends /\ step >= 2 /\ ~SendTaken /\ ~(torn /\ abandoned) =>
          Dist(chip.txEnd, TxBase) + call.n <= Buf
    <3> HAVE Sends /\ step >= 2 /\ ~SendTaken /\ ~(torn /\ abandoned)
    <3>1. chip.txEnd = TxBase
      BY <1>2
    <3>2. Dist(chip.txEnd, TxBase) = 0
      BY <3>1, ShownIs, DistZero
    <3>3. call.n \in 1 .. Buf
      BY FirstIs DEF Sends, Calling
    <3> QED BY <3>2, <3>3, MFacts
  <2>2. (Dist(chip.txRd, TxBase))' = Dist(chip.txEnd, TxBase)
    BY <1>5, <1>12 DEF Dist
  <2>3. (\A i \in 0 .. Filled - 1 : txRing[Slot(ptr, i)] = next - call.n + i)'
        <=> (\A i \in 0 .. Filled - 1 : txRing[Slot(ptr, i)] = next - call.n + i)
    BY <1>0 DEF Slot
  <2> QED BY <1>0, <1>5, <1>11, <2>1, <2>2, <2>3 DEF Sending
<1>18. InOrder'
  <2> SUFFICES ASSUME ~torn
               PROVE  /\ (chip.txEnd = IF SendTaken THEN chip.txWr ELSE TxBase)'
                      /\ (Waiting <= Buf)'
                      /\ (\E last \in 0 .. next : Order(last))'
    BY <1>0 DEF InOrder
  <2>1. PICK last \in 0 .. next : Order(last)
    BY DEF InOrder
  <2>2. /\ last < Limit /\ last \in Nat
        /\ \A j \in 1 .. Len(sent) : sent[j] \in 1 .. last - Waiting
        /\ \A i, j \in 1 .. Len(sent) : i < j => sent[i] < sent[j]
    BY <2>1 DEF Order
  <2>4. Limit' = Limit
    BY <1>0, <1>11 DEF Limit
  <2>6. \A j \in 1 .. Len(sent) : sent[j] \in 1 .. last - Waiting'
    BY <1>2, <1>7, <2>2
  <2>7. (\A i, j \in 1 .. Len(sent) : i < j => sent[i] < sent[j])'
    BY <1>1, <2>2
  <2>8. (\A i \in 0 .. Waiting - 1 : txRing[Slot(chip.txRd, i)] = last - Waiting + 1 + i)'
    BY <1>7
  <2>9. (Order(last))'
    <3>1. last < Limit' /\ last >= Waiting'
      BY <1>7, <2>2, <2>4
    <3>2. (\A j \in 1 .. Len(sent) : sent[j] \in 1 .. last - Waiting)'
      BY <1>1, <2>6
    <3> QED BY <2>7, <2>8, <3>1, <3>2 DEF Order
  <2>10. (chip.txEnd = IF SendTaken THEN chip.txWr ELSE TxBase)'
    BY <1>5, <1>11, <1>12 DEF InOrder
  <2>11. Waiting' <= Buf
    BY <1>7, MFacts
  <2>12. \E l \in 0 .. next' : (Order(l))'
    BY <1>0, <2>1, <2>9
  <2> QED BY <2>10, <2>11, <2>12
<1>19. Told'
  <2> SUFFICES ASSUME ~abandoned
               PROVE  Waiting' = 0 /\ chip'.ir = {"TIMEOUT"}
    <3>1. ~abandoned => /\ SendTaken' /\ Sends' /\ step' < 9 /\ ret'.op = "none" /\ step' # 9
      BY <1>0, <1>2, <1>11 DEF Typed, Calling, Sends
    <3> QED BY <1>0, <3>1 DEF Told
  <2> QED BY <1>2, <1>5, <1>7
<1>20. Left'
  <2>1. ASSUME NEW p, FreeSlot(p) PROVE (FreeSlot(p))'
    <3>1. PICK i \in Waiting .. Buf - 1 : p = Slot(chip.txRd, i)
      BY <2>1 DEF FreeSlot
    <3>2. i - Waiting \in 0 .. Buf - 1 /\ i - Waiting \in Nat /\ Waiting + (i - Waiting) = i
      BY <1>2, <3>1, MFacts
    <3>3. p = Slot(chip.txEnd, i - Waiting)
      BY <1>2, <3>1, <3>2, ShownIs, SlotAhead
    <3>4. PICK z \in 0 .. Buf - 1 : z = i - Waiting
      BY <3>2
    <3>5. (Slot(chip.txRd, z))' = Slot(chip.txEnd, z) /\ z \in Waiting' .. Buf - 1
      BY <1>5, <1>7, <3>4 DEF Slot
    <3> QED BY <3>3, <3>4, <3>5 DEF FreeSlot
  <2>2. \A h, i, d : Harmless(h, i, d) => (Harmless(h, i, d))'
    BY <1>0, <2>1 DEF Harmless
  <2> QED BY <1>0, <2>2 DEF Left
<1> QED BY <1>8, <1>9, <1>10, <1>13, <1>16, <1>17, <1>18, <1>19, <1>20

\* All the chip does by itself keeps the invariant.
LEMMA ChipMovesKeep ==
  ASSUME W5Inv, ChipMoves, Framed'
  PROVE  W5Inv'
BY ResetEndsKeeps, TakesCommandKeeps, TransmitsKeeps, DropsKeeps, ArrivesKeeps DEF ChipMoves

-----------------------------------------------------------------------------
(* What follows an access.                                                 *)

\* The stream to the peer rests between two sends.
LEMMA TxRests ==
  ASSUME W5Inv, UNCHANGED Data, ~Sends, ~Sends', next' = next, torn => torn',
         abandoned => abandoned', ret'.op # "send"
  PROVE  Sending' /\ InOrder' /\ Told'
<1> USE DEF W5Inv
<1>1. /\ UNCHANGED <<chip, txRing, rxRing, sent, arrived>> /\ Waiting' = Waiting
  BY DataSame
<1>2. ~SendTaken /\ ~SendTaken' /\ TxBase = chip.txWr /\ TxBase' = chip.txWr
      /\ Limit = next /\ Limit' = next
  BY <1>1 DEF SendTaken, TxBase, Limit
<1>3. Sending'
  BY DEF Sending
<1>4. InOrder'
  <2>2. ASSUME NEW l, Order(l) PROVE (Order(l))'
    BY <1>1, <1>2, <2>2 DEF Order, Slot
  <2> QED BY <1>1, <1>2, <2>2 DEF InOrder
<1>5. Told'
  BY <1>1, <1>2 DEF Told
<1> QED BY <1>3, <1>4, <1>5

\* The stream from the peer rests between two receives.
LEMMA RxRests ==
  ASSUME W5Inv, UNCHANGED Data, ~Receives, ~Receives', taken' = taken, lost => lost'
  PROVE  Receiving'
<1> USE DEF W5Inv
<1>1. UNCHANGED <<chip, txRing, rxRing, sent, arrived>> /\ Received' = Received
  BY DataSame
<1>2. ~RecvTaken /\ ~RecvTaken' /\ RxBase = chip.rxRdReg /\ RxBase' = chip.rxRdReg
  BY <1>1 DEF RecvTaken, RxBase
<1>3. ~lost =>
       /\ chip.rxRd = chip.rxRdReg
       /\ Received <= Buf /\ Received <= arrived
       /\ \A i \in 0 .. Received - 1 :
            rxRing[Slot(chip.rxRd, i)] = arrived - Received + 1 + i
       /\ taken \in Seq(Nat) /\ taken = [i \in 1 .. Len(taken) |-> i]
       /\ Len(taken) + 0 = arrived - Received
  BY <1>2 DEF Receiving
<1>4. (\A i \in 0 .. Received - 1 :
         rxRing[Slot(chip.rxRd, i)] = arrived - Received + 1 + i)'
        <=> \A i \in 0 .. Received - 1 :
               rxRing[Slot(chip.rxRd, i)] = arrived - Received + 1 + i
  BY <1>1 DEF Slot
<1>5. ~lost' =>
       /\ chip'.rxRd = chip'.rxRdReg
       /\ Received' <= Buf /\ Received' <= arrived'
       /\ (\A i \in 0 .. Received - 1 :
            rxRing[Slot(chip.rxRd, i)] = arrived - Received + 1 + i)'
       /\ taken' \in Seq(Nat) /\ taken' = [i \in 1 .. Len(taken') |-> i]
       /\ Len(taken') + 0 = arrived' - Received'
  BY <1>1, <1>3, <1>4
<1> QED BY <1>1, <1>2, <1>5 DEF Receiving

\* A call is over.
LEMMA ReturnFacts ==
  ASSUME W5Inv, Calling, UNCHANGED Data, ptr' = ptr, NEW v \in BOOLEAN, NEW ok \in BOOLEAN,
         Return(v, ok), v /\ call.op = "initialize" => ~chip.mr
  PROVE  /\ Typed' /\ ResetOnce' /\ call' = Idle /\ step' = 1 /\ next' = next
         /\ ~Calling' /\ ~Sends' /\ ~Receives' /\ ret'.op = call.op /\ ret'.n = call.n /\ ret'.v = v
         /\ torn \in BOOLEAN /\ lost \in BOOLEAN /\ abandoned \in BOOLEAN
         /\ torn' = (torn \/ (~v /\ Sends /\ step \in 5 .. 7))
         /\ lost' = (lost \/ (~v /\ Receives /\ step >= 5))
         /\ abandoned' = (abandoned \/ (Sends /\ step >= 6 /\ ~(ok /\ Name = "ACK")))
         /\ taken' = IF v /\ Receives THEN taken \o got' ELSE taken
<1> USE DEF W5Inv
<1>1. /\ UNCHANGED <<chip, txRing, rxRing, sent, arrived>>
  BY DataSame
<1>2. /\ ret' = [op |-> call.op, n |-> call.n, v |-> v] /\ call' = Idle /\ step' = 1
      /\ up' = (IF v THEN UpAfter(call.op) ELSE up) /\ next' = next
      /\ torn' = (torn \/ (~v /\ Sends /\ step \in 5 .. 7))
      /\ lost' = (lost \/ (~v /\ Receives /\ step >= 5))
      /\ abandoned' = (abandoned \/ (Sends /\ step >= 6 /\ ~(ok /\ Name = "ACK")))
      /\ taken' = IF v /\ Receives THEN taken \o got' ELSE taken
  BY DEF Return, Sends, Receives
<1>3. ~Calling' /\ ~Sends' /\ ~Receives' /\ ret'.op = call.op /\ ret'.n = call.n /\ ret'.v = v
      /\ call'.op = "none"
  BY <1>2 DEF Calling, Sends, Receives, Idle
<1>4. torn \in BOOLEAN /\ lost \in BOOLEAN /\ abandoned \in BOOLEAN
      /\ up \in {"initialize", "open", "connect", "run"}
  BY DEF Typed
<1>5. up' \in {"initialize", "open", "connect", "run"}
      /\ (up' = "initialize" => up = "initialize")
      /\ (up' # up => v /\ call.op \in {"initialize", "open", "connect"})
      /\ (call.op = "initialize" => up = "initialize")
      /\ (call.op \in {"open", "connect"} => up # "initialize")
  BY <1>2, <1>4 DEF UpAfter, Typed, Calling, Ops
<1>6. Typed'
  <2>1. torn' \in BOOLEAN /\ lost' \in BOOLEAN /\ abandoned' \in BOOLEAN
    BY <1>2, <1>4, Zenon
  <2>2. call' \in [op : Ops \cup {"none"}, n : Nat]
    BY <1>2 DEF Idle
  <2> QED BY <1>1, <1>2, <1>3, <1>5, <2>1, <2>2 DEF Typed
<1>7. ResetOnce'
  <2>1. up' # "initialize" => ~chip'.mr
    BY <1>1, <1>4, <1>5 DEF ResetOnce
  <2>2. up' = "initialize" => (chip = [Reset EXCEPT !.mr = chip.mr, !.set = chip.set])'
    BY <1>1, <1>5 DEF ResetOnce
  <2> QED BY <1>3, <2>1, <2>2 DEF ResetOnce
<1> QED BY <1>2, <1>3, <1>4, <1>6, <1>7, Zenon

\* A call that moves no bytes is over.
LEMMA OtherReturns ==
  ASSUME W5Inv, Calling, UNCHANGED Data, ptr' = ptr, NEW v \in BOOLEAN, NEW ok \in BOOLEAN,
         Return(v, ok), v /\ call.op = "initialize" => ~chip.mr, ~Sends, ~Receives
  PROVE  Typed' /\ ResetOnce' /\ Commands6' /\ Sending' /\ InOrder' /\ Told' /\ Receiving'
<1>1. /\ Typed' /\ ResetOnce' /\ next' = next /\ ~Sends' /\ ~Receives' /\ ret'.op = call.op
      /\ torn \in BOOLEAN /\ lost \in BOOLEAN /\ abandoned \in BOOLEAN
      /\ torn' = (torn \/ (~v /\ Sends /\ step \in 5 .. 7))
      /\ lost' = (lost \/ (~v /\ Receives /\ step >= 5))
      /\ abandoned' = (abandoned \/ (Sends /\ step >= 6 /\ ~(ok /\ Name = "ACK")))
      /\ taken' = IF v /\ Receives THEN taken \o got' ELSE taken
  BY ReturnFacts
<1>2. (torn => torn') /\ (lost => lost') /\ (abandoned => abandoned') /\ taken' = taken
  BY <1>1
<1>3. ret'.op # "send"
  BY <1>1 DEF Sends
<1>4. Sending' /\ InOrder' /\ Told'
  BY <1>1, <1>2, <1>3, TxRests
<1>5. Receiving'
  BY <1>1, <1>2, RxRests
<1>6. Commands6'
  BY <1>1, <1>2, DataSame DEF W5Inv, Commands6
<1> QED BY <1>1, <1>4, <1>5, <1>6

\* Where a send has left the pointers of the chip.
LEMMA SendLeaves ==
  ASSUME W5Inv, Sends, step < 5 \/ step >= 8, ~torn
  PROVE  chip.txEnd = chip.txWr
<1> USE DEF W5Inv
<1>0. step \in 1 .. 9 /\ Calling
  BY CallRange DEF Sends, Calling
<1>1. CASE step < 5
  <2>1. ~SendTaken
    BY <1>0, <1>1 DEF SendTaken, Commanded
  <2>2. chip.txEnd = TxBase
    BY <2>1 DEF InOrder
  <2>3. step >= 3 => chip.txWr = ptr
    BY <1>0, <1>1, StepsOfPut DEF Sending
  <2> QED BY <1>0, <2>2, <2>3 DEF TxBase
<1>2. CASE step >= 8
  <2>1. SendTaken
    BY <1>0, <1>2 DEF SendTaken, Commanded, Commands6
  <2> QED BY <2>1 DEF InOrder
<1> QED BY <1>1, <1>2

\* A send is over.
LEMMA SendReturns ==
  ASSUME W5Inv, Sends, UNCHANGED Data, ptr' = ptr, NEW v \in BOOLEAN, NEW ok \in BOOLEAN,
         Return(v, ok), v => step = 9 /\ "SENDOK" \in val, ok /\ step = 9 => Moved = 1
  PROVE  Typed' /\ ResetOnce' /\ Commands6' /\ Sending' /\ InOrder' /\ Told' /\ Receiving'
<1> USE DEF W5Inv
<1>0. step \in 1 .. 9 /\ Calling /\ call.op = "send" /\ ~Receives /\ (Name = "ACK" <=> step = 9)
  BY CallRange, NameTells DEF Sends, Receives, Calling
<1>1. /\ Typed' /\ ResetOnce' /\ next' = next /\ ~Sends' /\ ~Receives'
      /\ ret'.op = call.op /\ ret'.n = call.n /\ ret'.v = v
      /\ torn \in BOOLEAN /\ lost \in BOOLEAN /\ abandoned \in BOOLEAN
      /\ torn' = (torn \/ (~v /\ Sends /\ step \in 5 .. 7))
      /\ lost' = (lost \/ (~v /\ Receives /\ step >= 5))
      /\ abandoned' = (abandoned \/ (Sends /\ step >= 6 /\ ~(ok /\ Name = "ACK")))
      /\ taken' = IF v /\ Receives THEN taken \o got' ELSE taken
  BY <1>0, ReturnFacts
<1>2. /\ (torn => torn') /\ (abandoned => abandoned') /\ (lost => lost') /\ taken' = taken
      /\ (~v /\ step \in 5 .. 7 => torn')
      /\ (step >= 6 /\ ~(ok /\ step = 9) => abandoned')
  <2>1. taken' = taken
    BY <1>0, <1>1
  <2> QED BY <1>0, <1>1, <2>1, Zenon
<1>v. v => step = 9
  OBVIOUS
<1>3. UNCHANGED <<chip, txRing, rxRing, sent, arrived>> /\ Waiting' = Waiting
  BY DataSame
<1>4. ~SendTaken' /\ TxBase' = chip.txWr /\ Limit' = next
  BY <1>1, <1>3 DEF SendTaken, TxBase, Limit
<1>5. Sending'
  BY <1>1 DEF Sending
<1>6. Receiving'
  BY <1>0, <1>1, <1>2, RxRests
<1>7. Commands6'
  <2>1. ASSUME chip.cr = "SEND" PROVE torn' /\ abandoned'
    <3>1. CASE torn /\ abandoned
      BY <1>2, <3>1
    <3>2. CASE Commanded
      <4>1. step \in 6 .. 7
        BY <1>0, <2>1, <3>2 DEF Commanded, Commands6
      <4>2. step \in 5 .. 7 /\ step >= 6 /\ step # 9 /\ ~v
        BY <1>v, <4>1
      <4> QED BY <1>2, <4>2, Zenon
    <3> QED BY <2>1, <3>1, <3>2 DEF Commands6
  <2>2. chip.cr = "RECV" => lost'
    BY <1>0, <1>2 DEF Commands6
  <2> QED BY <1>1, <1>3, <2>1, <2>2 DEF Commands6
<1>8. InOrder'
  <2> SUFFICES ASSUME ~torn'
               PROVE  /\ chip'.txEnd = TxBase' /\ Waiting' <= Buf
                      /\ (\E last \in 0 .. next : Order(last))'
    BY <1>4 DEF InOrder
  <2>a. ~torn /\ (v \/ ~(step \in 5 .. 7))
    BY <1>2, Zenon
  <2>1. ~torn /\ (step < 5 \/ step >= 8)
    BY <1>0, <1>v, <2>a
  <2>2. chip.txEnd = chip.txWr
    BY <2>1, SendLeaves
  <2>3. Waiting <= Buf
    BY <2>1 DEF InOrder
  <2>4. PICK last \in 0 .. next : Order(last)
    BY <2>1 DEF InOrder
  <2>5. Limit <= next
    <3>1. call.n \in Nat /\ next \in Nat
      BY <1>0, TargetIs DEF Typed
    <3> QED BY <3>1 DEF Limit
  <2>6. last < next
    <3>1. last < Limit /\ Limit \in Int /\ next \in Nat
      <4>1. call.n \in Nat /\ next \in Nat
        BY <1>0, TargetIs DEF Typed
      <4> QED BY <2>4, <4>1 DEF Order, Limit
    <3> QED BY <2>5, <3>1
  <2>7. (Order(last))'
    BY <1>1, <1>3, <1>4, <2>4, <2>6 DEF Order, Slot
  <2> QED BY <1>1, <1>3, <1>4, <2>2, <2>3, <2>7
<1>9. Told'
  <2> SUFFICES ASSUME ~abandoned'
               PROVE  /\ Waiting = 0 /\ chip.ir = {}
                      /\ v => next - call.n .. next - 1 \subseteq Numbers(sent)
    <3>1. (Numbers(sent))' = Numbers(sent)
      BY <1>3 DEF Numbers
    <3> QED BY <1>1, <1>3, <1>4, <3>1 DEF Told
  <2>a. ~abandoned /\ (~(step >= 6) \/ (ok /\ step = 9))
    BY <1>2, Zenon
  <2>1. ~abandoned /\ (step < 6 \/ (ok /\ step = 9))
    BY <1>0, <2>a
  <2>2. CASE step < 6
    <3>1. ~SendTaken /\ ~v
      BY <1>0, <2>2 DEF SendTaken, Commanded
    <3> QED BY <2>1, <3>1 DEF Told
  <2>3. CASE ok /\ step = 9
    <3>1. Waiting = 0 /\ chip.ir = {} /\ ("SENDOK" \in val => OnTheirWay)
      BY <2>1, <2>3 DEF Told
    <3>2. ASSUME v PROVE next - call.n .. next - 1 \subseteq Numbers(sent)
      <4>1. OnTheirWay
        BY <3>1, <3>2
      <4>2. call.n \in Nat /\ next \in Nat
        BY <1>0, TargetIs DEF Typed
      <4>3. ASSUME NEW x \in next - call.n .. next - 1 PROVE x \in Numbers(sent)
        <5>1. next - x \in 1 .. call.n /\ next - (next - x) = x /\ ~(next - x <= 0)
          BY <4>2
        <5> QED BY <3>1, <4>1, <5>1 DEF OnTheirWay
      <4> QED BY <4>3
    <3> QED BY <3>1, <3>2
  <2> QED BY <2>1, <2>2, <2>3
<1> QED BY <1>1, <1>5, <1>6, <1>7, <1>8, <1>9

\* A call that moves no bytes goes on.
LEMMA OtherGoesOn ==
  ASSUME W5Inv, Calling, UNCHANGED Data, ~Sends, ~Receives,
         UNCHANGED <<up, call, ptr, next, taken, ret, torn, lost, abandoned>>,
         step' \in 1 .. Steps[call.op],
         call.op = "initialize" /\ step' >= 3 => ~chip.mr
  PROVE  Typed' /\ ResetOnce' /\ Commands6' /\ Sending' /\ InOrder' /\ Told' /\ Receiving'
<1> USE DEF W5Inv
<1>1. UNCHANGED <<chip, txRing, rxRing, sent, arrived>>
  BY DataSame
<1>2. ~Sends' /\ ~Receives' /\ Calling' /\ ret'.op # "send"
  BY DEF Sends, Receives, Calling, Typed
<1>3. Typed'
  BY <1>1, <1>2 DEF Typed, Calling
<1>4. ResetOnce'
  BY <1>1 DEF ResetOnce
<1>5. Commands6'
  BY <1>1, <1>2 DEF Commands6
<1>6. Sending' /\ InOrder' /\ Told'
  BY <1>2, TxRests
<1>7. Receiving'
  BY <1>2, RxRests
<1> QED BY <1>3, <1>4, <1>5, <1>6, <1>7

\* A send goes on.
LEMMA SendGoesOn ==
  ASSUME W5Inv, Sends, UNCHANGED Data, Moved' = 0,
         UNCHANGED <<up, call, next, taken, ret, torn, lost, abandoned>>,
         step' \in 2 .. 9, ptr' \in Pointers, SendTaken' <=> SendTaken, TxBase' = TxBase,
         step' >= 3 => chip.txWr = Put',
         step' >= 3 => \A i \in 0 .. Filled' - 1 : txRing[Slot(ptr', i)] = next - call.n + i,
         step = 1 /\ ~(torn /\ abandoned) => Dist(chip.txRd, TxBase) + call.n <= Buf,
         step' = 4 => First' < call.n, step' >= 8 => chip.cr # "SEND", Commanded => Commanded',
         step' = 9 => /\ val' \subseteq Flags
                      /\ ~abandoned => /\ Waiting = 0 /\ chip.ir = val'
                                       /\ "SENDOK" \in val' => OnTheirWay,
         step' < 9 => step < 9
  PROVE  Typed' /\ ResetOnce' /\ Commands6' /\ Sending' /\ InOrder' /\ Told' /\ Receiving'
<1> USE DEF W5Inv
<1>0. step \in 1 .. 9 /\ Calling /\ ~Receives /\ call.op = "send" /\ Steps["send"] = 9
  BY CallRange, Lengths DEF Sends, Receives, Calling
<1>1. UNCHANGED <<chip, txRing, rxRing, sent, arrived>> /\ Waiting' = Waiting
  BY DataSame
<1>2. Sends' /\ ~Receives' /\ Calling' /\ ret'.op = "none"
  BY <1>0 DEF Sends, Receives, Calling, Typed
<1>3. Typed'
  BY <1>0, <1>1, <1>2 DEF Typed, Calling
<1>4. ResetOnce'
  BY <1>0, <1>1 DEF ResetOnce
<1>5. Commands6'
  <2>1. chip.cr = "SEND" => (Sends /\ Commanded) \/ (torn /\ abandoned)
    BY DEF Commands6
  <2>2. chip.cr = "RECV" => lost
    BY <1>0 DEF Commands6
  <2>3. chip'.cr = "SEND" => (Sends' /\ Commanded') \/ (torn' /\ abandoned')
    BY <1>1, <1>2, <2>1
  <2>4. chip'.cr = "RECV" => lost'
    BY <1>1, <2>2
  <2> QED BY <1>1, <1>2, <2>3, <2>4 DEF Commands6
<1>6. Sending'
  <2>1. step >= 2 /\ ~SendTaken /\ ~(torn /\ abandoned) => Dist(chip.txRd, TxBase) + call.n <= Buf
    BY DEF Sending
  <2>2. (Dist(chip.txRd, TxBase))' = Dist(chip.txRd, TxBase)
    BY <1>1 DEF Dist
  <2>3. ~SendTaken' /\ ~(torn' /\ abandoned') => (Dist(chip.txRd, TxBase))' + call'.n <= Buf
    BY <1>0, <2>1, <2>2
  <2>4. (\A i \in 0 .. Filled - 1 : txRing[Slot(ptr, i)] = next - call.n + i)'
          <=> \A i \in 0 .. Filled' - 1 : txRing[Slot(ptr', i)] = next - call.n + i
    BY <1>1 DEF Slot
  <2> QED BY <1>1, <2>3, <2>4 DEF Sending
<1>7. InOrder'
  <2>1. Limit' = Limit
    BY <1>2 DEF Limit
  <2>2. ASSUME NEW l, Order(l) PROVE (Order(l))'
    BY <1>1, <2>1, <2>2 DEF Order, Slot
  <2> QED BY <1>1, <2>2 DEF InOrder
<1>8. Told'
  <2>1. OnTheirWay => OnTheirWay'
    BY <1>1 DEF OnTheirWay, Numbers, Slot
  <2> SUFFICES ASSUME ~abandoned
               PROVE  /\ ~SendTaken => Waiting = 0 /\ chip.ir = {}
                      /\ SendTaken /\ step' < 9 =>
                           \/ chip.ir = {"TIMEOUT"} /\ Waiting = 0
                           \/ chip.ir = {} /\ Waiting # 0 /\ OnTheirWay
                           \/ chip.ir = {"SENDOK"} /\ Waiting = 0 /\ OnTheirWay
                      /\ step' = 9 =>
                           /\ Waiting = 0 /\ chip.ir = val'
                           /\ "SENDOK" \in val' => OnTheirWay
    BY <1>1, <1>2, <2>1 DEF Told
  <2> QED BY DEF Told
<1>9. Receiving'
  BY <1>0, <1>2, RxRests
<1> QED BY <1>3, <1>4, <1>5, <1>6, <1>7, <1>8, <1>9

\* A receive is over.
LEMMA ReceiveReturns ==
  ASSUME W5Inv, Receives, UNCHANGED Data, ptr' = ptr, got' = got,
         NEW v \in BOOLEAN, NEW ok \in BOOLEAN, Return(v, ok),
         v => step = 7 /\ chip.cr = "none"
  PROVE  Typed' /\ ResetOnce' /\ Commands6' /\ Sending' /\ InOrder' /\ Told' /\ Receiving'
<1> USE DEF W5Inv
<1>0. step \in 1 .. 7 /\ Calling /\ call.op = "receive" /\ ~Sends /\ call.n \in Nat
  BY CallRange, TargetIs DEF Sends, Receives, Calling
<1>1. /\ Typed' /\ ResetOnce' /\ next' = next /\ ~Sends' /\ ~Receives'
      /\ ret'.op = call.op
      /\ torn \in BOOLEAN /\ lost \in BOOLEAN /\ abandoned \in BOOLEAN
      /\ torn' = (torn \/ (~v /\ Sends /\ step \in 5 .. 7))
      /\ lost' = (lost \/ (~v /\ Receives /\ step >= 5))
      /\ abandoned' = (abandoned \/ (Sends /\ step >= 6 /\ ~(ok /\ Name = "ACK")))
      /\ taken' = IF v /\ Receives THEN taken \o got' ELSE taken
  BY <1>0, ReturnFacts
<1>2. /\ (torn => torn') /\ (abandoned => abandoned') /\ (lost => lost')
      /\ (~v /\ step >= 5 => lost')
  BY <1>0, <1>1, Zenon
<1>3. taken' = IF v THEN taken \o got ELSE taken
  BY <1>1
<1>4. UNCHANGED <<chip, txRing, rxRing, sent, arrived>> /\ Received' = Received
  BY DataSame
<1>5. Sending' /\ InOrder' /\ Told'
  <2>1. ret'.op # "send"
    BY <1>0, <1>1
  <2> QED BY <1>0, <1>1, <1>2, <2>1, TxRests
<1>6. Commands6'
  <2>1. chip.cr = "SEND" => torn /\ abandoned
    BY <1>0 DEF Commands6
  <2>2. ASSUME chip.cr = "RECV" PROVE lost'
    <3>1. CASE lost
      BY <1>2, <3>1
    <3>2. CASE Commanded
      <4>1. ~v /\ step >= 5
        BY <1>0, <2>2, <3>2 DEF Commanded
      <4> QED BY <1>2, <4>1, Zenon
    <3> QED BY <2>2, <3>1, <3>2 DEF Commands6
  <2> QED BY <1>1, <1>2, <1>4, <2>1, <2>2 DEF Commands6
<1>7. ~RecvTaken' /\ RxBase' = chip.rxRdReg
  BY <1>1, <1>4 DEF RecvTaken, RxBase
<1>8. ASSUME ~lost'
      PROVE  /\ chip.rxRd = chip.rxRdReg
             /\ Received <= Buf /\ Received <= arrived
             /\ \A i \in 0 .. Received - 1 :
                  rxRing[Slot(chip.rxRd, i)] = arrived - Received + 1 + i
             /\ taken' \in Seq(Nat) /\ taken' = [i \in 1 .. Len(taken') |-> i]
             /\ Len(taken') = arrived - Received
  <2>a. ~lost /\ (v \/ ~(step >= 5))
    BY <1>2, <1>8, Zenon
  <2>1. ~lost /\ (v \/ step < 5)
    BY <1>0, <2>a
  <2>2. /\ chip.rxRd = IF RecvTaken THEN chip.rxRdReg ELSE RxBase
        /\ Received <= Buf /\ Received <= arrived
        /\ \A i \in 0 .. Received - 1 :
             rxRing[Slot(chip.rxRd, i)] = arrived - Received + 1 + i
        /\ taken \in Seq(Nat) /\ taken = [i \in 1 .. Len(taken) |-> i]
        /\ Len(taken) + (IF RecvTaken THEN call.n ELSE 0) = arrived - Received
        /\ got = [j \in 1 .. Held |-> Len(taken) + j]
    BY <2>1 DEF Receiving
  <2>3. Len(taken) \in Nat /\ arrived \in Nat /\ Received \in Nat
    BY <2>2, ShownIs, LenProperties, MFacts DEF Typed, Pointers
  <2>4. CASE v
    <3>1. RecvTaken /\ Held = call.n
      BY <1>0, <2>4 DEF RecvTaken, Commanded, Held
    <3>2. taken' = taken \o got
      BY <1>3, <2>4
    <3>3. got = [j \in 1 .. call.n |-> Len(taken) + j]
      BY <2>2, <3>1
    <3>4. got \in Seq(Nat) /\ Len(got) = call.n /\ \A j \in 1 .. call.n : got[j] = Len(taken) + j
      <4>1. got \in [1 .. call.n -> Nat]
        BY <1>0, <2>3, <3>3
      <4>2. got \in Seq(Nat)
        BY <1>0, <4>1, SeqDef
      <4>3. Len(got) = call.n
        BY <1>0, <4>1, <4>2, LenProperties
      <4> QED BY <3>3, <4>2, <4>3
    <3>5. /\ taken' \in Seq(Nat) /\ Len(taken') = Len(taken) + call.n
          /\ \A i \in 1 .. Len(taken) + call.n :
               taken'[i] = IF i <= Len(taken) THEN taken[i] ELSE got[i - Len(taken)]
      <4>1. /\ taken \o got \in Seq(Nat) /\ Len(taken \o got) = Len(taken) + Len(got)
            /\ \A i \in 1 .. Len(taken) + Len(got) :
                 (taken \o got)[i] = IF i <= Len(taken) THEN taken[i] ELSE got[i - Len(taken)]
        <5>1. taken \in Seq(Nat) /\ got \in Seq(Nat)
          BY <2>2, <3>4
        <5> QED BY ONLY <5>1, ConcatProperties
      <4> QED BY <3>2, <3>4, <4>1
    <3>6. ASSUME NEW i \in 1 .. Len(taken) + call.n PROVE taken'[i] = i
      <4>1. CASE i <= Len(taken)
        <5>1. i \in 1 .. Len(taken)
          BY <2>3, <4>1
        <5>2. \A j \in 1 .. Len(taken) : taken[j] = j
          BY <2>2
        <5> QED BY <3>5, <4>1, <5>1, <5>2
      <4>2. CASE ~(i <= Len(taken))
        <5>1. i - Len(taken) \in 1 .. call.n /\ Len(taken) + (i - Len(taken)) = i
          BY <1>0, <2>3, <4>2
        <5> QED BY <3>4, <3>5, <4>2, <5>1
      <4> QED BY <4>1, <4>2
    <3>7. taken' = [i \in 1 .. Len(taken') |-> i]
      <4>1. taken' = [i \in 1 .. Len(taken') |-> taken'[i]]
        BY <3>5, LenProperties
      <4> QED BY <3>5, <3>6, <4>1
    <3> QED BY <2>2, <3>1, <3>5, <3>7
  <2>5. CASE ~v
    <3>1. step < 5 /\ ~RecvTaken
      BY <1>0, <2>1, <2>5 DEF RecvTaken, Commanded
    <3>2. taken' = taken
      BY <1>3, <2>5
    <3>3. step >= 3 => chip.rxRdReg = ptr
      BY <1>0, <3>1, StepsOfPut DEF Receiving
    <3>4. chip.rxRd = chip.rxRdReg
      BY <1>0, <2>2, <3>1, <3>3 DEF RxBase
    <3> QED BY <2>2, <2>3, <3>1, <3>2, <3>4
  <2> QED BY <2>4, <2>5
<1>9. Receiving'
  <2>1. (\A i \in 0 .. Received - 1 :
         rxRing[Slot(chip.rxRd, i)] = arrived - Received + 1 + i)'
        <=> \A i \in 0 .. Received - 1 :
               rxRing[Slot(chip.rxRd, i)] = arrived - Received + 1 + i
    BY <1>4 DEF Slot
  <2>2. ~lost' =>
       /\ chip'.rxRd = chip'.rxRdReg
       /\ Received' <= Buf /\ Received' <= arrived'
       /\ (\A i \in 0 .. Received - 1 :
            rxRing[Slot(chip.rxRd, i)] = arrived - Received + 1 + i)'
       /\ taken' \in Seq(Nat) /\ taken' = [i \in 1 .. Len(taken') |-> i]
       /\ Len(taken') + 0 = arrived' - Received'
    <3>1. ~lost' => taken' \in Seq(Nat) /\ Len(taken') + 0 = Len(taken')
      BY <1>8, LenProperties
    <3> QED BY <1>4, <1>8, <2>1, <3>1
  <2> QED BY <1>1, <1>4, <1>7, <2>2 DEF Receiving
<1> QED BY <1>1, <1>5, <1>6, <1>9

\* A receive goes on.
LEMMA ReceiveGoesOn ==
  ASSUME W5Inv, Receives, UNCHANGED Data, Moved' = 0, Receives',
         UNCHANGED <<up, next, taken, ret, torn, lost, abandoned>>,
         call' \in [op : Ops \cup {"none"}, n : 1 .. Buf], step = 1 \/ call' = call, step' \in 2 .. 7, ptr' \in Pointers,
         RecvTaken' <=> RecvTaken, RxBase' = RxBase, Commanded => Commanded',
         step' >= 3 => chip.rxRdReg = Put', step' = 4 => First' < call'.n,
         ~lost /\ ~RecvTaken => call'.n <= Received,
         ~lost => got' = [j \in 1 .. Held' |-> Len(taken) + j]
  PROVE  Typed' /\ ResetOnce' /\ Commands6' /\ Sending' /\ InOrder' /\ Told' /\ Receiving'
<1> USE DEF W5Inv
<1>0. step \in 1 .. 7 /\ Calling /\ ~Sends /\ call.op = "receive" /\ Steps["receive"] = 7
      /\ call'.op = "receive" /\ ~Sends' /\ Calling' /\ ret'.op = "none"
  BY CallRange, Lengths DEF Sends, Receives, Calling, Typed
<1>1. UNCHANGED <<chip, txRing, rxRing, sent, arrived>> /\ Received' = Received
  BY DataSame
<1>3. Typed'
  <2>1. call' \in [op : Ops \cup {"none"}, n : Nat] /\ call'.n \in 1 .. Buf
    BY MFacts
  <2> QED BY <1>0, <1>1, <2>1 DEF Typed, Calling
<1>4. ResetOnce'
  BY <1>0, <1>1 DEF ResetOnce
<1>5. Commands6'
  <2>1. chip.cr = "RECV" => (Receives /\ Commanded) \/ lost
    BY DEF Commands6
  <2>2. chip.cr = "SEND" => torn /\ abandoned
    BY <1>0 DEF Commands6
  <2>3. chip'.cr = "RECV" => (Receives' /\ Commanded') \/ lost'
    BY <1>1, <2>1
  <2>4. chip'.cr = "SEND" => torn' /\ abandoned'
    BY <1>1, <2>2
  <2> QED BY <1>0, <2>3, <2>4 DEF Commands6
<1>6. Sending' /\ InOrder' /\ Told'
  <2>1. ret'.op # "send"
    BY <1>0
  <2> QED BY <1>0, <2>1, TxRests
<1>7. RecvTaken => call' = call
  BY <1>0 DEF RecvTaken, Commanded
<1>8. Receiving'
  <2>1. (\A i \in 0 .. Received - 1 :
         rxRing[Slot(chip.rxRd, i)] = arrived - Received + 1 + i)'
        <=> \A i \in 0 .. Received - 1 :
               rxRing[Slot(chip.rxRd, i)] = arrived - Received + 1 + i
    BY <1>1 DEF Slot
  <2>2. ~lost =>
       /\ chip.rxRd = IF RecvTaken THEN chip.rxRdReg ELSE RxBase
       /\ Received <= Buf /\ Received <= arrived
       /\ \A i \in 0 .. Received - 1 :
            rxRing[Slot(chip.rxRd, i)] = arrived - Received + 1 + i
       /\ taken \in Seq(Nat) /\ taken = [i \in 1 .. Len(taken) |-> i]
       /\ Len(taken) + (IF RecvTaken THEN call.n ELSE 0) = arrived - Received
    BY DEF Receiving
  <2>3. (IF RecvTaken THEN call.n ELSE 0)' = IF RecvTaken THEN call.n ELSE 0
    BY <1>7
  <2>4. ASSUME ~lost'
        PROVE  /\ (chip.rxRd = IF RecvTaken THEN chip.rxRdReg ELSE RxBase)'
               /\ (Received <= Buf /\ Received <= arrived)'
               /\ (\A i \in 0 .. Received - 1 :
                    rxRing[Slot(chip.rxRd, i)] = arrived - Received + 1 + i)'
               /\ (taken \in Seq(Nat) /\ taken = [i \in 1 .. Len(taken) |-> i])'
    BY <1>1, <2>1, <2>2, <2>4
  <2>5. ~lost' => (Len(taken) + (IF RecvTaken THEN call.n ELSE 0) = arrived - Received)'
    BY <1>1, <2>2, <2>3
  <2>6. ~lost' => (~RecvTaken => call.n <= Received)'
    BY <1>1
  <2>7. ~lost' => (got = [j \in 1 .. Held |-> Len(taken) + j])'
    OBVIOUS
  <2>8. ASSUME NEW j \in 0 .. Moved' - 1 PROVE FALSE
    BY <2>8
  <2>9. /\ (step >= 3 => chip.rxRdReg = Put)' /\ (step = 4 => First < call.n)'
    BY <1>1
  <2> QED BY <2>4, <2>5, <2>6, <2>7, <2>8, <2>9 DEF Receiving
<1> QED BY <1>3, <1>4, <1>5, <1>6, <1>8

\* What the driver puts together of two bytes, and what it does with it.
LEMMA PolledIs ==
  ASSUME NEW over \in BOOLEAN, Polled(over)
  PROVE  IF over THEN Done ELSE Advance(0) \/ Return(FALSE, TRUE)
BY DEF Polled

\* An access that succeeded ends the call or leads to the next.
LEMMA DoneIs ==
  ASSUME Typed, Calling, Done
  PROVE  IF step = Steps[call.op] THEN Return(TRUE, TRUE) ELSE Advance(1)
BY Lengths, CallRange DEF Done

\* The reply to an access, byte by byte.
LEMMA ReplyIs ==
  ASSUME W5Inv, Completes
  PROVE  /\ Moved = LenOf(Name) /\ Calling /\ Name \in Names
         /\ LenOf(Name) = 2 => /\ reply[2] = Ans(0) /\ reply[3] = Ans(1)
                               /\ Value16 = Ans(0) * B + Ans(1)
         /\ LenOf(Name) = 1 => reply[2] = Ans(0)
         /\ Reading(Name)
<1> USE DEF W5Inv
<1>1. /\ Moved = LenOf(Name) /\ Calling /\ fpc = "end"
      /\ \A j \in 0 .. LenOf(Name) - 1 : reply[j + 2] = Ans(j)
  BY DEF Completes
<1>2. LenOf(Name) = 2 => reply[2] = Ans(0) /\ reply[3] = Ans(1)
  <2> HAVE LenOf(Name) = 2
  <2>1. 0 \in 0 .. LenOf(Name) - 1 /\ 1 \in 0 .. LenOf(Name) - 1
    OBVIOUS
  <2>2. reply[0 + 2] = Ans(0) /\ reply[1 + 2] = Ans(1)
    BY <1>1, <2>1
  <2> QED BY <2>2
<1>3. LenOf(Name) = 1 => reply[2] = Ans(0)
  <2> HAVE LenOf(Name) = 1
  <2>1. 0 \in 0 .. LenOf(Name) - 1
    OBVIOUS
  <2>2. reply[0 + 2] = Ans(0)
    BY <1>1, <2>1
  <2> QED BY <2>2
<1> QED BY <1>1, <1>2, <1>3, NameIn DEF Value16, Reading

\* Both sizes, as the driver puts them together, are safe.
LEMMA SizesAre ==
  ASSUME W5Inv, Calling, fpc # "none", Moved = 2
  PROVE  /\ Name = "FSR" => /\ Ans(0) * B + Ans(1) \in Nat
                            /\ Ans(0) * B + Ans(1) <= Free \/ (torn /\ abandoned)
         /\ Name = "RSR" => /\ Ans(0) * B + Ans(1) \in Nat
                            /\ Ans(0) * B + Ans(1) <= Received \/ lost
         /\ Name = "TX_WR" => Ans(0) * B + Ans(1) = chip.txWr
         /\ Name = "RX_RD" => Ans(0) * B + Ans(1) = chip.rxRdReg
<1> USE DEF W5Inv
<1>1. ASSUME Name \in {"FSR", "RSR"} PROVE Ans(0) * B + Ans(1) \in Nat
  <2>1. Ans(0) \in 0 .. B - 1 /\ Ans(1) \in 0 .. B - 1
    BY <1>1 DEF Read, Reading
  <2>2. Ans(0) * B + Ans(1) \in Pointers
    BY <2>1, WithDigitIs
  <2> QED BY <2>2, MFacts DEF Pointers
<1>2. /\ Name = "FSR" => Ans(0) * B + Ans(1) <= Free \/ (torn /\ abandoned)
      /\ Name = "RSR" => Ans(0) * B + Ans(1) <= Received \/ lost
  BY DEF Read, Reading, AtMost
<1>3. Name = "TX_WR" => Ans(0) * B + Ans(1) = chip.txWr
  <2> HAVE Name = "TX_WR"
  <2>1. Ans(0) = chip.txWr \div B /\ Ans(1) = chip.txWr % B
    BY DEF Read, Reading, Shows
  <2> QED BY <2>1, ShownIs, Digits
<1>4. Name = "RX_RD" => Ans(0) * B + Ans(1) = chip.rxRdReg
  <2> HAVE Name = "RX_RD"
  <2>1. Ans(0) = chip.rxRdReg \div B /\ Ans(1) = chip.rxRdReg % B
    BY DEF Read, Reading, Shows
  <2> QED BY <2>1, ShownIs, Digits
<1> QED BY <1>1, <1>2, <1>3, <1>4

\* An access of a call that moves no bytes.
LEMMA OtherCompletes ==
  ASSUME W5Inv, Completes, ~Sends, ~Receives
  PROVE  Typed' /\ ResetOnce' /\ Commands6' /\ Sending' /\ InOrder' /\ Told' /\ Receiving'
<1> USE DEF W5Inv
<1>1. /\ Calling /\ UNCHANGED Data /\ Exchanged /\ call.op \in {"initialize", "open", "connect"}
      /\ step \in 1 .. Steps[call.op] /\ Steps[call.op] \in 4 .. 9
  BY CallRange, Lengths DEF Completes, Sends, Receives, Ops
<1>2. ASSUME ptr' = ptr, NEW v \in BOOLEAN, Return(v, TRUE),
             v /\ call.op = "initialize" => ~chip.mr
      PROVE  Typed' /\ ResetOnce' /\ Commands6' /\ Sending' /\ InOrder' /\ Told' /\ Receiving'
  <2>1. TRUE \in BOOLEAN
    OBVIOUS
  <2> QED BY <1>1, <1>2, <2>1, OtherReturns
<1>3. ASSUME ptr' = ptr, NEW d \in 0 .. 1, Advance(d), step + d <= Steps[call.op],
             call.op = "initialize" /\ step + d >= 3 => ~chip.mr
      PROVE  Typed' /\ ResetOnce' /\ Commands6' /\ Sending' /\ InOrder' /\ Told' /\ Receiving'
  <2>1. step' = step + d /\ step' \in 1 .. Steps[call.op]
        /\ UNCHANGED <<up, call, next, taken, ret, torn, lost, abandoned>>
    BY <1>1, <1>3 DEF Advance
  <2> QED BY <1>1, <1>3, <2>1, OtherGoesOn
<1>4. ASSUME Done, ptr' = ptr, call.op = "initialize" /\ step >= 2 => ~chip.mr
      PROVE  Typed' /\ ResetOnce' /\ Commands6' /\ Sending' /\ InOrder' /\ Told' /\ Receiving'
  <2>1. CASE step = Steps[call.op]
    <3>0. step >= 2
      BY <1>1, <2>1
    <3>1. Return(TRUE, TRUE) /\ (call.op = "initialize" => ~chip.mr)
      BY <1>1, <1>4, <2>1, <3>0, DoneIs
    <3>2. TRUE \in BOOLEAN
      OBVIOUS
    <3> QED BY <1>2, <1>4, <3>1, <3>2
  <2>2. CASE step # Steps[call.op]
    <3>1. Advance(1)
      BY <1>1, <1>4, <2>2, DoneIs
    <3>2. step + 1 <= Steps[call.op] /\ (call.op = "initialize" /\ step + 1 >= 3 => ~chip.mr)
      BY <1>1, <1>4, <2>2
    <3> QED BY <1>3, <1>4, <3>1, <3>2
  <2> QED BY <2>1, <2>2
<1>5. call.op = "initialize" /\ step >= 3 => ~chip.mr
  BY DEF ResetOnce
<1>6. Name \in {"MR?", "CR?", "SR"} \/
      Name \notin {"FSR", "RSR", "TX_WR", "RX_RD", "FILL", "TAKE", "TAKE2", "MR?", "CR?", "IR?", "ACK", "SR"}
  BY <1>1, NameTells DEF Sends, Receives
<1>7. CASE Name \in {"MR?", "CR?"}
  <2>1. ptr' = ptr /\ Polled(reply[2] = 0)
    BY <1>1, <1>7 DEF Exchanged, Keep
  <2>2. reply[2] = Ans(0) /\ Moved = 1 /\ Reading(Name)
    BY <1>7, ReplyIs DEF LenOf, Doubles
  <2>3. CASE reply[2] = 0
    <3>1. Done
      BY <2>1, <2>3 DEF Polled
    <3>2. call.op = "initialize" /\ step >= 2 => ~chip.mr
      <4>1. Name = "MR?" => ~chip.mr
        BY <2>2, <2>3 DEF Read
      <4>2. call.op = "initialize" => Name = "MR?"
        BY <1>1, <1>7, NameTells
      <4> QED BY <4>1, <4>2
    <3> QED BY <1>4, <2>1, <3>1, <3>2
  <2>4. CASE reply[2] # 0
    <3>1. Advance(0) \/ Return(FALSE, TRUE)
      BY <2>1, <2>4 DEF Polled
    <3>2. CASE Advance(0)
      <4>1. step + 0 <= Steps[call.op] /\ step + 0 = step
        BY <1>1
      <4> QED BY <1>3, <1>5, <2>1, <3>2, <4>1
    <3>3. CASE Return(FALSE, TRUE)
      <4>1. FALSE \in BOOLEAN
        OBVIOUS
      <4> QED BY <1>2, <2>1, <3>3, <4>1
    <3> QED BY <3>1, <3>2, <3>3
  <2> QED BY <2>3, <2>4
<1>8. CASE Name = "SR"
  <2>1. ptr' = ptr /\ Return(reply[2] = "init", TRUE) /\ (reply[2] = "init") \in BOOLEAN
    BY <1>1, <1>8 DEF Exchanged, Keep
  <2>2. call.op # "initialize"
    BY <1>1, <1>8, NameTells
  <2> QED BY <1>2, <2>1, <2>2
<1>9. CASE Name \notin {"FSR", "RSR", "TX_WR", "RX_RD", "FILL", "TAKE", "TAKE2", "MR?", "CR?", "IR?", "ACK", "SR"}
  <2>1. ptr' = ptr /\ Done
    BY <1>1, <1>9 DEF Exchanged, Keep
  <2>2. call.op = "initialize" /\ step >= 2 => ~chip.mr
    <3>1. call.op = "initialize" => step # 2
      BY <1>1, <1>9, NameTells
    <3> QED BY <1>1, <1>5, <3>1
  <2> QED BY <1>4, <2>1, <2>2
<1> QED BY <1>6, <1>7, <1>8, <1>9

\* A send goes on with the pointer it has.
LEMMA SendAdvances ==
  ASSUME W5Inv, Sends, Completes, ptr' = ptr,
         UNCHANGED <<up, call, next, taken, ret, torn, lost, abandoned>>,
         step \in 3 .. 8, step' \in step .. step + 2, step' \in 3 .. 9, step < 6 => step' <= 6,
         step = 3 => step' = IF First = call.n THEN 5 ELSE 4, step \in {4, 5, 6} => step' = step + 1,
         step' >= 8 => chip.cr # "SEND",
         step' = 9 => /\ val' \subseteq Flags
                      /\ ~abandoned => /\ Waiting = 0 /\ chip.ir = val'
                                       /\ "SENDOK" \in val' => OnTheirWay
  PROVE  Typed' /\ ResetOnce' /\ Commands6' /\ Sending' /\ InOrder' /\ Told' /\ Receiving'
<1> USE DEF W5Inv
<1>1. /\ Calling /\ UNCHANGED Data /\ Moved = LenOf(Name) /\ Moved' = 0
      /\ UNCHANGED <<chip, txRing, rxRing, sent, arrived>>
  BY DataSame DEF Completes
<1>2. /\ (step = 3 => Name = "FILL") /\ (step = 4 => Name = "FILL2") /\ (step = 5 => Name = "PUT_WR")
      /\ (step = 6 => Name = "SEND")
  BY <1>1, NameTells DEF Sends
<1>3. /\ (step = 3 => Moved = First) /\ (step = 4 => Moved = call.n - First)
      /\ (step = 5 => Moved = 2) /\ (step = 6 => Moved = 1)
  BY <1>1, <1>2 DEF LenOf, Doubles, Commands
<1>4. First \in 1 .. call.n /\ call.n \in Nat /\ ptr \in Pointers
  BY <1>1, FirstIs, TargetIs
<1>5. First' = First /\ Target' = Target /\ (Sends' <=> Sends)
  BY DEF First, Offset, Target, Sends
<1>6. Commanded' <=> Commanded
  BY <1>1, <1>3 DEF Commanded
<1>7. SendTaken' <=> SendTaken
  BY <1>1, <1>5, <1>6 DEF SendTaken
<1>8. TxBase' = TxBase
  BY <1>5 DEF TxBase
<1>9. chip.txWr = Put /\ \A i \in 0 .. Filled - 1 : txRing[Slot(ptr, i)] = next - call.n + i
  BY DEF Sending
<1>10. Put' = Put
  <2>1. /\ step < 5 => Put = ptr
        /\ step = 5 => Put = Between(2)
        /\ step > 5 => Put = Target
    BY <1>1, <1>3, StepsOfPut
  <2>2. Between(2) = Target
    BY DEF Between
  <2>3. step' <= 5 => Put' = ptr
    BY <1>1 DEF Put, Between
  <2>4. step' > 5 => Put' = Target
    BY <1>5 DEF Put, Between
  <2>5. (step < 5 <=> step' <= 5) /\ step' \in Nat /\ step \in Nat
    <3>1. step \in {3, 4, 5, 6, 7, 8}
      OBVIOUS
    <3> QED BY <3>1
  <2> QED BY <2>1, <2>2, <2>3, <2>4, <2>5
<1>11. Filled' = Filled
  <2>1. CASE step = 3
    BY <1>1, <1>3, <1>4, <1>5, <2>1 DEF Filled
  <2>2. CASE step # 3
    <3>1. Filled = call.n
      BY <1>3, <1>4, <2>2 DEF Filled
    <3>2. step' # 3 /\ step' # 4
      <4>1. step \in {4, 5, 6, 7, 8}
        BY <2>2
      <4> QED BY <4>1
    <3> QED BY <3>1, <3>2 DEF Filled
  <2> QED BY <2>1, <2>2
<1>12. step' = 4 => First' < call.n
  <2>1. step' = 4 => step = 3 /\ First # call.n
    <3>1. step \in {3, 4, 5, 6, 7, 8}
      OBVIOUS
    <3> QED BY <3>1
  <2> QED BY <1>4, <1>5, <2>1
<1>13. \A i \in 0 .. Filled' - 1 : txRing[Slot(ptr', i)] = next - call.n + i
  BY <1>9, <1>11
<1>14. /\ chip.txWr = Put' /\ step' \in 2 .. 9 /\ ptr' \in Pointers /\ step # 1 /\ step < 9
       /\ (Commanded => Commanded')
  BY <1>4, <1>6, <1>9, <1>10
<1> QED BY <1>1, <1>7, <1>8, <1>12, <1>13, <1>14, SendGoesOn

\* The first access of a send, and its second.
LEMMA SendBegins ==
  ASSUME W5Inv, Sends, Completes, step \in {1, 2}
  PROVE  Typed' /\ ResetOnce' /\ Commands6' /\ Sending' /\ InOrder' /\ Told' /\ Receiving'
<1> USE DEF W5Inv
<1>1. /\ Calling /\ UNCHANGED Data /\ Moved = LenOf(Name) /\ Moved' = 0 /\ Exchanged
      /\ UNCHANGED <<chip, txRing, rxRing, sent, arrived>>
  BY DataSame DEF Completes
<1>2. (step = 1 => Name = "FSR") /\ (step = 2 => Name = "TX_WR")
  BY <1>1, NameTells DEF Sends
<1>3. Moved = 2 /\ Value16 = Ans(0) * B + Ans(1) /\ fpc # "none"
  BY <1>1, <1>2, ReplyIs DEF LenOf, Doubles, Completes
<1>4. call.n \in 1 .. Buf /\ call.n \in Nat /\ Buf \in Nat
  BY <1>1, FirstIs, MFacts
<1>5. ~Commanded /\ ~SendTaken /\ TxBase = chip.txWr
  BY <1>1 DEF Commanded, SendTaken, TxBase
<1>6. CASE step = 1
  <2>1. ptr' = ptr /\ IF Fits THEN Advance(1) ELSE Return(FALSE, TRUE)
    BY <1>1, <1>2, <1>6 DEF Exchanged, Keep
  <2>2. CASE Fits
    <3>1. step' = 2 /\ ptr' = ptr /\ UNCHANGED <<up, call, next, taken, ret, torn, lost, abandoned>>
      BY <1>6, <2>1, <2>2 DEF Advance
    <3>2. ~Commanded' /\ ~SendTaken' /\ TxBase' = chip.txWr
      BY <1>1, <3>1 DEF Commanded, SendTaken, TxBase
    <3>3. ~(torn /\ abandoned) => Dist(chip.txRd, TxBase) + call.n <= Buf
      <4> HAVE ~(torn /\ abandoned)
      <4>1. Value16 \in Nat /\ Value16 <= Free
        BY <1>1, <1>2, <1>3, <1>6, SizesAre
      <4>2. call.n <= Value16
        BY <1>4, <2>2, <4>1 DEF Fits
      <4>3. Unsent \in Nat /\ Free \in Nat
        BY ShownIs, MFacts DEF Pointers
      <4>4. Free = Buf - Unsent
        <5>1. Free # 0
          BY <1>4, <4>1, <4>2, <4>3
        <5> QED BY <5>1 DEF Free
      <4>5. Unsent + call.n <= Buf
        BY <1>4, <4>1, <4>2, <4>3, <4>4
      <4> QED BY <1>5, <4>5 DEF Unsent
    <3>4. ptr \in Pointers
      BY DEF Typed
    <3> QED BY <1>1, <1>5, <1>6, <3>1, <3>2, <3>3, <3>4, SendGoesOn
  <2>3. CASE ~Fits
    <3>1. Return(FALSE, TRUE)
      BY <2>1, <2>3, Zenon
    <3>2. FALSE \in BOOLEAN /\ TRUE \in BOOLEAN /\ step # 9
      BY <1>6
    <3> QED BY <1>1, <2>1, <3>1, <3>2, SendReturns
  <2> QED BY <2>2, <2>3
<1>7. CASE step = 2
  <2>1. ptr' = Value16 /\ Advance(1)
    BY <1>1, <1>2, <1>7 DEF Exchanged
  <2>2. step' = 3 /\ UNCHANGED <<up, call, next, taken, ret, torn, lost, abandoned>>
    BY <1>7, <2>1 DEF Advance
  <2>3. ptr' = chip.txWr /\ chip.txWr \in Pointers
    BY <1>1, <1>2, <1>3, <1>7, <2>1, SizesAre, ShownIs
  <2>4. ~Commanded' /\ ~SendTaken' /\ TxBase' = chip.txWr
    BY <1>1, <2>2, <2>3 DEF Commanded, SendTaken, TxBase
  <2>5. Put' = ptr' /\ Filled' = 0
    BY <1>1, <2>2 DEF Put, Between, Filled
  <2>6. \A i \in 0 .. Filled' - 1 : txRing[Slot(ptr', i)] = next - call.n + i
    BY <2>5
  <2> QED BY <1>1, <1>5, <1>7, <2>2, <2>3, <2>4, <2>5, <2>6, SendGoesOn
<1> QED BY <1>6, <1>7

\* Every access of omcu_w5500_socket_send that succeeds keeps the invariant.
LEMMA SendCompletes ==
  ASSUME W5Inv, Sends, Completes
  PROVE  Typed' /\ ResetOnce' /\ Commands6' /\ Sending' /\ InOrder' /\ Told' /\ Receiving'
<1> USE DEF W5Inv
<1>1. /\ Calling /\ UNCHANGED Data /\ Moved = LenOf(Name) /\ Moved' = 0 /\ Exchanged
      /\ step \in 1 .. 9 /\ TRUE \in BOOLEAN /\ FALSE \in BOOLEAN /\ Steps[call.op] = 9
  BY CallRange, Lengths DEF Completes, Sends
<1>2. /\ (step = 3 => Name = "FILL") /\ (step = 4 => Name = "FILL2") /\ (step = 5 => Name = "PUT_WR")
      /\ (step = 6 => Name = "SEND") /\ (step = 7 => Name = "CR?") /\ (step = 8 => Name = "IR?")
      /\ (step = 9 => Name = "ACK")
  BY <1>1, SendNames DEF Sends
<1>3. step = 9 => Moved = 1
  BY <1>1, <1>2 DEF LenOf, Doubles
<1>4. step < 8 \/ chip.cr # "SEND"
  BY <1>1 DEF Commands6
<1>5. CASE step \in {1, 2}
  BY <1>5, SendBegins
<1>6. CASE step = 3
  <2>1. ptr' = ptr /\ Skip(First)
    BY <1>1, <1>2, <1>6 DEF Exchanged, Keep
  <2>2. /\ step' = IF First = call.n THEN 5 ELSE 4
        /\ UNCHANGED <<up, call, next, taken, ret, torn, lost, abandoned>>
    BY <1>6, <2>1 DEF Skip, Advance
  <2> QED BY <1>6, <2>1, <2>2, SendAdvances
<1>7. CASE step \in {4, 5, 6}
  <2>1. ptr' = ptr /\ Done
    BY <1>1, <1>2, <1>7 DEF Exchanged, Keep
  <2>a. step # Steps[call.op]
    BY <1>1, <1>7
  <2>2. Advance(1)
    BY <1>1, <2>a, <2>1, DoneIs
  <2>3. /\ step' = step + 1
        /\ UNCHANGED <<up, call, next, taken, ret, torn, lost, abandoned>>
    BY <2>2 DEF Advance
  <2> QED BY <1>7, <2>1, <2>3, SendAdvances
<1>8. CASE step = 7
  <2>1. ptr' = ptr /\ Polled(reply[2] = 0)
    BY <1>1, <1>2, <1>8 DEF Exchanged, Keep
  <2>2. reply[2] = Ans(0) /\ Moved = 1 /\ Reading("CR?")
    BY <1>2, <1>8, ReplyIs DEF LenOf, Doubles
  <2>3. CASE reply[2] = 0
    <3>1. Done
      BY <2>1, <2>3 DEF Polled
    <3>2. Advance(1)
      BY <1>1, <1>8, <3>1, DoneIs
    <3>3. /\ step' = 8 /\ UNCHANGED <<up, call, next, taken, ret, torn, lost, abandoned>>
      BY <1>8, <3>2 DEF Advance
    <3>4. chip.cr # "SEND"
      BY <2>2, <2>3 DEF Read
    <3> QED BY <1>8, <2>1, <3>3, <3>4, SendAdvances
  <2>4. CASE reply[2] # 0
    <3>1. Advance(0) \/ Return(FALSE, TRUE)
      BY <2>1, <2>4 DEF Polled
    <3>2. CASE Advance(0)
      <4>1. /\ step' = 7 /\ UNCHANGED <<up, call, next, taken, ret, torn, lost, abandoned>>
        BY <1>8, <3>2 DEF Advance
      <4> QED BY <1>8, <2>1, <4>1, SendAdvances
    <3>3. CASE Return(FALSE, TRUE)
      <4>1. step # 9
        BY <1>8
      <4> QED BY <1>1, <2>1, <3>3, <4>1, SendReturns
    <3> QED BY <3>1, <3>2, <3>3
  <2> QED BY <2>3, <2>4
<1>9. CASE step = 8
  <2>1. ptr' = ptr /\ val' = reply[2] /\ Polled(reply[2] # {})
    BY <1>1, <1>2, <1>9 DEF Exchanged
  <2>2. reply[2] = Ans(0) /\ Moved = 1 /\ Reading("IR?")
    BY <1>2, <1>9, ReplyIs DEF LenOf, Doubles
  <2>3. val' \subseteq chip.ir /\ chip.ir \subseteq Flags
    BY <2>1, <2>2 DEF Read, Typed, ChipType
  <2>4. CASE reply[2] # {}
    <3>1. Done
      BY <2>1, <2>4 DEF Polled
    <3>2. Advance(1)
      BY <1>1, <1>9, <3>1, DoneIs
    <3>3. /\ step' = 9 /\ UNCHANGED <<up, call, next, taken, ret, torn, lost, abandoned>>
      BY <1>9, <3>2 DEF Advance
    <3>4. SendTaken
      BY <1>4, <1>9 DEF SendTaken, Commanded
    <3>5. ~abandoned => /\ Waiting = 0 /\ chip.ir = val'
                        /\ "SENDOK" \in val' => OnTheirWay
      <4> HAVE ~abandoned
      <4>1. \/ chip.ir = {"TIMEOUT"} /\ Waiting = 0
            \/ chip.ir = {} /\ Waiting # 0 /\ OnTheirWay
            \/ chip.ir = {"SENDOK"} /\ Waiting = 0 /\ OnTheirWay
        BY <1>9, <3>4 DEF Told
      <4>2. val' # {}
        BY <2>1, <2>4
      <4>3. \E f : f \in val'
        BY <4>2
      <4>4. chip.ir = val'
        BY <2>3, <4>1, <4>3
      <4> QED BY <4>1, <4>2, <4>4
    <3>6. val' \subseteq Flags
      BY <2>3
    <3> QED BY <1>4, <1>9, <2>1, <3>3, <3>5, <3>6, SendAdvances
  <2>5. CASE reply[2] = {}
    <3>1. Advance(0) \/ Return(FALSE, TRUE)
      BY <2>1, <2>5 DEF Polled
    <3>2. CASE Advance(0)
      <4>1. /\ step' = 8 /\ UNCHANGED <<up, call, next, taken, ret, torn, lost, abandoned>>
        BY <1>9, <3>2 DEF Advance
      <4> QED BY <1>4, <1>9, <2>1, <4>1, SendAdvances
    <3>3. CASE Return(FALSE, TRUE)
      <4>1. step # 9
        BY <1>9
      <4> QED BY <1>1, <2>1, <3>3, <4>1, SendReturns
    <3> QED BY <3>1, <3>2, <3>3
  <2> QED BY <2>4, <2>5
<1>10. CASE step = 9
  <2>a. Keep /\ Return("SENDOK" \in val, TRUE)
    BY <1>1, <1>2, <1>10 DEF Exchanged
  <2>b. ptr' = ptr
    BY <2>a DEF Keep
  <2>c. ("SENDOK" \in val) \in BOOLEAN
    OBVIOUS
  <2>1. ptr' = ptr /\ Return("SENDOK" \in val, TRUE) /\ ("SENDOK" \in val) \in BOOLEAN
    BY <2>a, <2>b, <2>c, Zenon
  <2> QED BY <1>1, <1>3, <1>10, <2>1, SendReturns
<1> QED BY <1>1, <1>5, <1>6, <1>7, <1>8, <1>9, <1>10

\* The bytes of the reply join those of the call.
LEMMA TakeIs ==
  ASSUME W5Inv, Completes, Receives, step \in {3, 4}, ~lost,
         got' = got \o SubSeq(reply, 2, Len(reply))
  PROVE  got' = [j \in 1 .. Held + Moved |-> Len(taken) + j] /\ Held \in Nat /\ Moved \in Nat
<1> USE DEF W5Inv
<1>1. /\ Moved = LenOf(Name) /\ Calling
      /\ \A j \in 0 .. LenOf(Name) - 1 : reply[j + 2] = Ans(j)
      /\ reply = [i \in 1 .. LenOf(Name) + 1 |-> reply[i]]
  BY DEF Completes
<1>2. Moved \in Nat
  BY <1>1, LenIs
<1>3. /\ \A j \in 0 .. Moved - 1 : Ans(j) = Len(taken) + Held + 1 + j
      /\ got = [j \in 1 .. Held |-> Len(taken) + j] /\ taken \in Seq(Nat)
  BY DEF Receiving
<1>4. Held \in Nat /\ Len(taken) \in Nat
  BY <1>1, <1>3, FirstIs, LenProperties DEF Held
<1> DEFINE S == {reply[i] : i \in 1 .. Moved + 1}
           r == SubSeq(reply, 2, Moved + 1)
<1>5. reply \in Seq(S) /\ Len(reply) = Moved + 1
  <2>1. reply \in [1 .. Moved + 1 -> S]
    BY <1>1
  <2>2. Moved + 1 \in Nat
    BY <1>2
  <2> HIDE DEF S
  <2>3. reply \in Seq(S)
    BY <2>1, <2>2, SeqDef
  <2> QED BY <2>1, <2>2, <2>3, LenProperties
<1> HIDE DEF S
<1>6. r = [i \in 1 .. Moved |-> reply[i + 1]]
  <2>1. r = [i \in 1 .. Moved + 1 - 2 + 1 |-> reply[i + 2 - 1]]
    BY <1>2, <1>5 DEF r
  <2>2. Moved + 1 - 2 + 1 = Moved
    BY <1>2
  <2>3. \A i \in 1 .. Moved : i + 2 - 1 = i + 1
    BY <1>2
  <2> QED BY <2>1, <2>2, <2>3
<1>7. got' = got \o r
  BY <1>5 DEF r
<1> HIDE DEF r
<1>8. \A i \in 1 .. Moved : r[i] = Len(taken) + Held + i
  <2> SUFFICES ASSUME NEW i \in 1 .. Moved PROVE reply[i + 1] = Len(taken) + Held + i
    BY <1>6
  <2>1. i - 1 \in 0 .. Moved - 1 /\ (i - 1) + 2 = i + 1
        /\ Len(taken) + Held + 1 + (i - 1) = Len(taken) + Held + i
    BY <1>2, <1>4
  <2> QED BY <1>1, <1>3, <2>1
<1>9. r \in Seq(Nat) /\ Len(r) = Moved
  <2>1. r \in [1 .. Moved -> Nat]
    BY <1>4, <1>6, <1>8
  <2>2. r \in Seq(Nat)
    BY <1>2, <2>1, SeqDef
  <2> QED BY <1>2, <2>1, <2>2, LenProperties
<1>10. got \in Seq(Nat) /\ Len(got) = Held
  <2>1. got \in [1 .. Held -> Nat]
    BY <1>3, <1>4
  <2>2. got \in Seq(Nat)
    BY <1>4, <2>1, SeqDef
  <2> QED BY <1>4, <2>1, <2>2, LenProperties
<1>11. /\ got \o r \in Seq(Nat) /\ Len(got \o r) = Held + Moved
       /\ \A i \in 1 .. Held + Moved : (got \o r)[i] = IF i <= Held THEN got[i] ELSE r[i - Held]
  <2>1. /\ got \o r \in Seq(Nat) /\ Len(got \o r) = Len(got) + Len(r)
        /\ \A i \in 1 .. Len(got) + Len(r) :
             (got \o r)[i] = IF i <= Len(got) THEN got[i] ELSE r[i - Len(got)]
    BY ONLY <1>9, <1>10, ConcatProperties
  <2> QED BY <1>9, <1>10, <2>1
<1>12. ASSUME NEW i \in 1 .. Held + Moved PROVE (got \o r)[i] = Len(taken) + i
  <2>1. CASE i <= Held
    <3>1. i \in 1 .. Held
      BY <1>4, <2>1
    <3> QED BY <1>3, <1>11, <2>1, <3>1
  <2>2. CASE ~(i <= Held)
    <3>1. i - Held \in 1 .. Moved /\ Len(taken) + Held + (i - Held) = Len(taken) + i
      BY <1>2, <1>4, <2>2
    <3> QED BY <1>8, <1>11, <2>2, <3>1
  <2> QED BY <2>1, <2>2
<1>13. got \o r = [i \in 1 .. Held + Moved |-> (got \o r)[i]]
  BY <1>11, LenProperties
<1> QED BY <1>2, <1>4, <1>7, <1>12, <1>13

\* A receive goes on with the pointer it has.
LEMMA ReceiveAdvances ==
  ASSUME W5Inv, Receives, Completes, ptr' = ptr,
         UNCHANGED <<up, call, next, taken, ret, torn, lost, abandoned>>,
         step \in 3 .. 7, step' \in 3 .. 7, step = 7 => step' = 7,
         step = 3 => step' = IF First = call.n THEN 5 ELSE 4, step \in {4, 5, 6} => step' = step + 1,
         IF step \in {3, 4} THEN got' = got \o SubSeq(reply, 2, Len(reply)) ELSE got' = got
  PROVE  Typed' /\ ResetOnce' /\ Commands6' /\ Sending' /\ InOrder' /\ Told' /\ Receiving'
<1> USE DEF W5Inv
<1>1. /\ Calling /\ UNCHANGED Data /\ Moved = LenOf(Name) /\ Moved' = 0
      /\ UNCHANGED <<chip, txRing, rxRing, sent, arrived>>
  BY DataSame DEF Completes
<1>2. /\ (step = 3 => Name = "TAKE") /\ (step = 4 => Name = "TAKE2") /\ (step = 5 => Name = "PUT_RD")
      /\ (step = 6 => Name = "RECV")
  BY <1>1, NameTells DEF Receives
<1>3. /\ (step = 3 => Moved = First) /\ (step = 4 => Moved = call.n - First)
      /\ (step = 5 => Moved = 2) /\ (step = 6 => Moved = 1)
  BY <1>1, <1>2 DEF LenOf, Doubles, Commands
<1>4. First \in 1 .. call.n /\ call.n \in Nat /\ ptr \in Pointers /\ call.n \in 1 .. Buf
  BY <1>1, FirstIs, TargetIs
<1>5. First' = First /\ Target' = Target /\ Receives'
  BY DEF First, Offset, Target, Receives
<1>6. step \in {3, 4, 5, 6, 7} /\ step' \in {4, 5, 6, 7}
  <2>1. step \in {3, 4, 5, 6, 7}
    OBVIOUS
  <2> QED BY <2>1
<1>7. Commanded' <=> Commanded
  BY <1>1, <1>3, <1>6 DEF Commanded
<1>8. RecvTaken' <=> RecvTaken
  BY <1>1, <1>5, <1>7 DEF RecvTaken, Receives
<1>9. RxBase' = RxBase
  BY <1>1, <1>5 DEF RxBase
<1>10. chip.rxRdReg = Put'
  <2>0. chip.rxRdReg = Put
    BY <1>6 DEF Receiving
  <2>1. /\ step < 5 => Put = ptr
        /\ step = 5 => Put = Between(2)
        /\ step > 5 => Put = Target
    BY <1>1, <1>3, StepsOfPut
  <2>2. Between(2) = Target
    BY DEF Between
  <2>3. step' <= 5 => Put' = ptr
    BY <1>1 DEF Put, Between
  <2>4. step' > 5 => Put' = Target
    BY <1>5 DEF Put, Between
  <2>5. step < 5 <=> step' <= 5
    BY <1>6
  <2> QED BY <1>6, <2>0, <2>1, <2>2, <2>3, <2>4, <2>5
<1>11. step' = 4 => First' < call.n
  BY <1>4, <1>5, <1>6
<1>12. ~lost /\ ~RecvTaken => call.n <= Received
  BY <1>6 DEF Receiving
<1>13. ~lost => got' = [j \in 1 .. Held' |-> Len(taken) + j]
  <2> HAVE ~lost
  <2>1. CASE step \in {3, 4}
    <3>1. got' = [j \in 1 .. Held + Moved |-> Len(taken) + j]
      BY <2>1, TakeIs
    <3>2. Held + Moved = Held'
      <4>1. CASE step = 3
        BY <1>3, <1>4, <1>5, <4>1 DEF Held
      <4>2. CASE step = 4
        BY <1>3, <1>4, <4>2 DEF Held
      <4> QED BY <2>1, <4>1, <4>2
    <3> QED BY <3>1, <3>2
  <2>2. CASE step \notin {3, 4}
    <3>1. got = [j \in 1 .. Held |-> Len(taken) + j]
      BY DEF Receiving
    <3>2. Held = call.n /\ Held' = call.n
      BY <1>6, <2>2 DEF Held
    <3> QED BY <2>2, <3>1, <3>2
  <2> QED BY <2>1, <2>2
<1>14. step' \in 2 .. 7 /\ ptr' \in Pointers /\ (Commanded => Commanded')
       /\ call' \in [op : Ops \cup {"none"}, n : 1 .. Buf]
  BY <1>4, <1>7 DEF Typed
<1> QED BY <1>1, <1>5, <1>8, <1>9, <1>10, <1>11, <1>12, <1>13, <1>14, ReceiveGoesOn

\* The first access of a receive, and its second.
LEMMA ReceiveBegins ==
  ASSUME W5Inv, Receives, Completes, step \in {1, 2}
  PROVE  Typed' /\ ResetOnce' /\ Commands6' /\ Sending' /\ InOrder' /\ Told' /\ Receiving'
<1> USE DEF W5Inv
<1>1. /\ Calling /\ UNCHANGED Data /\ Moved = LenOf(Name) /\ Moved' = 0 /\ Exchanged
      /\ TRUE \in BOOLEAN /\ FALSE \in BOOLEAN /\ fpc # "none" /\ call.op = "receive"
  BY DEF Completes, Receives
<1>2. (step = 1 => Name = "RSR") /\ (step = 2 => Name = "RX_RD")
  BY <1>1, NameTells
<1>3. Moved = 2 /\ Value16 = Ans(0) * B + Ans(1)
  BY <1>1, <1>2, ReplyIs DEF LenOf, Doubles
<1>4. call.n \in 1 .. Buf /\ call.n \in Nat /\ Buf \in Nat /\ ptr \in Pointers
      /\ UNCHANGED <<chip, txRing, rxRing, sent, arrived>>
  BY <1>1, FirstIs, MFacts, DataSame DEF Typed
<1>5. /\ ~Commanded /\ ~RecvTaken /\ RxBase = chip.rxRdReg
      /\ ~lost => got = [j \in 1 .. 0 |-> Len(taken) + j] /\ (step = 2 => call.n <= Received)
  <2>1. ~Commanded /\ ~RecvTaken /\ RxBase = chip.rxRdReg /\ Held = 0
    BY DEF Commanded, RecvTaken, RxBase, Held
  <2> QED BY <2>1 DEF Receiving
<1>6. CASE step = 1
  <2>1. Value16 \in Nat /\ (Value16 <= Received \/ lost)
    BY <1>1, <1>2, <1>3, <1>6, SizesAre
  <2>2. CASE Value16 = 0
    <3>1. Keep /\ Return(FALSE, TRUE)
      BY <1>1, <1>2, <1>6, <2>2 DEF Exchanged
    <3>2. ptr' = ptr /\ got' = got
      BY <3>1 DEF Keep
    <3> QED BY <1>1, <3>1, <3>2, ReceiveReturns
  <2>3. CASE Value16 # 0
    <3> DEFINE n == IF Value16 < call.n THEN Value16 ELSE call.n
    <3>1. call' = [call EXCEPT !.n = n] /\ Keep /\ step' = 2
          /\ UNCHANGED <<up, next, taken, ret, torn, lost, abandoned>>
      BY <1>1, <1>2, <1>6, <2>3 DEF Exchanged
    <3>2. n \in 1 .. Buf /\ (n <= Received \/ lost)
      <4>1. Received \in Nat
        BY ShownIs, MFacts DEF Pointers
      <4> QED BY <1>4, <2>1, <2>3, <4>1
    <3> HIDE DEF n
    <3>3. ptr' = ptr /\ got' = got
      BY <3>1 DEF Keep
    <3>4. call'.op = "receive" /\ call'.n = n /\ call' \in [op : Ops \cup {"none"}, n : 1 .. Buf]
      BY <1>1, <3>1, <3>2 DEF Typed
    <3>5. Receives' /\ ~Commanded' /\ ~RecvTaken' /\ RxBase' = chip.rxRdReg /\ Held' = 0
      BY <1>1, <1>4, <3>1, <3>4 DEF Receives, Commanded, RecvTaken, RxBase, Held
    <3> QED BY <1>1, <1>4, <1>5, <1>6, <3>1, <3>2, <3>3, <3>4, <3>5, ReceiveGoesOn
  <2> QED BY <2>2, <2>3
<1>7. CASE step = 2
  <2>1. ptr' = Value16 /\ got' = got /\ Advance(1)
    BY <1>1, <1>2, <1>7 DEF Exchanged
  <2>2. step' = 3 /\ UNCHANGED <<up, call, next, taken, ret, torn, lost, abandoned>>
    BY <1>7, <2>1 DEF Advance
  <2>3. ptr' = chip.rxRdReg /\ chip.rxRdReg \in Pointers
    BY <1>1, <1>2, <1>3, <1>7, <2>1, SizesAre, ShownIs
  <2>4. ~Commanded' /\ ~RecvTaken' /\ RxBase' = chip.rxRdReg /\ Held' = 0 /\ Receives'
    BY <1>1, <2>2, <2>3 DEF Receives, Commanded, RecvTaken, RxBase, Held
  <2>5. Put' = ptr' /\ call' \in [op : Ops \cup {"none"}, n : 1 .. Buf]
    BY <1>1, <1>4, <2>2 DEF Put, Between, Typed
  <2> QED BY <1>1, <1>4, <1>5, <1>7, <2>1, <2>2, <2>3, <2>4, <2>5, ReceiveGoesOn
<1> QED BY <1>6, <1>7

\* Every access of omcu_w5500_socket_receive that succeeds keeps the invariant.
LEMMA ReceiveCompletes ==
  ASSUME W5Inv, Receives, Completes
  PROVE  Typed' /\ ResetOnce' /\ Commands6' /\ Sending' /\ InOrder' /\ Told' /\ Receiving'
<1> USE DEF W5Inv
<1>1. /\ Calling /\ UNCHANGED Data /\ Moved = LenOf(Name) /\ Moved' = 0 /\ Exchanged
      /\ step \in 1 .. 7 /\ TRUE \in BOOLEAN /\ FALSE \in BOOLEAN /\ Steps[call.op] = 7
  BY CallRange, Lengths DEF Completes, Receives
<1>2. /\ (step = 3 => Name = "TAKE") /\ (step = 4 => Name = "TAKE2") /\ (step = 5 => Name = "PUT_RD")
      /\ (step = 6 => Name = "RECV") /\ (step = 7 => Name = "CR?")
  BY <1>1, ReceiveNames DEF Receives
<1>3. CASE step \in {1, 2}
  BY <1>3, ReceiveBegins
<1>4. CASE step = 3
  <2>1. ptr' = ptr /\ got' = got \o SubSeq(reply, 2, Len(reply)) /\ Skip(First)
    BY <1>1, <1>2, <1>4 DEF Exchanged
  <2>2. /\ step' = IF First = call.n THEN 5 ELSE 4
        /\ UNCHANGED <<up, call, next, taken, ret, torn, lost, abandoned>>
    BY <1>4, <2>1 DEF Skip, Advance
  <2> QED BY <1>4, <2>1, <2>2, ReceiveAdvances
<1>5. CASE step = 4
  <2>1. ptr' = ptr /\ got' = got \o SubSeq(reply, 2, Len(reply)) /\ Advance(1)
    BY <1>1, <1>2, <1>5 DEF Exchanged
  <2>2. step' = 5 /\ UNCHANGED <<up, call, next, taken, ret, torn, lost, abandoned>>
    BY <1>5, <2>1 DEF Advance
  <2> QED BY <1>5, <2>1, <2>2, ReceiveAdvances
<1>6. CASE step \in {5, 6}
  <2>1. ptr' = ptr /\ got' = got /\ Done
    BY <1>1, <1>2, <1>6 DEF Exchanged, Keep
  <2>a. step # Steps[call.op]
    BY <1>1, <1>6
  <2>2. Advance(1)
    BY <1>1, <2>a, <2>1, DoneIs
  <2>3. step' = step + 1 /\ UNCHANGED <<up, call, next, taken, ret, torn, lost, abandoned>>
    BY <2>2 DEF Advance
  <2> QED BY <1>6, <2>1, <2>3, ReceiveAdvances
<1>7. CASE step = 7
  <2>1. ptr' = ptr /\ got' = got /\ Polled(reply[2] = 0)
    BY <1>1, <1>2, <1>7 DEF Exchanged, Keep
  <2>2. reply[2] = Ans(0) /\ Moved = 1 /\ Reading("CR?")
    BY <1>2, <1>7, ReplyIs DEF LenOf, Doubles
  <2>3. CASE reply[2] = 0
    <3>1. Done
      BY <2>1, <2>3 DEF Polled
    <3>2. Return(TRUE, TRUE)
      BY <1>1, <1>7, <3>1, DoneIs
    <3>3. chip.cr = "none"
      BY <2>2, <2>3 DEF Read
    <3> QED BY <1>1, <1>7, <2>1, <3>2, <3>3, ReceiveReturns
  <2>4. CASE reply[2] # 0
    <3>1. Advance(0) \/ Return(FALSE, TRUE)
      BY <2>1, <2>4 DEF Polled
    <3>2. CASE Advance(0)
      <4>1. step' = 7 /\ UNCHANGED <<up, call, next, taken, ret, torn, lost, abandoned>>
        BY <1>7, <3>2 DEF Advance
      <4> QED BY <1>7, <2>1, <4>1, ReceiveAdvances
    <3>3. CASE Return(FALSE, TRUE)
      BY <1>1, <2>1, <3>3, ReceiveReturns
    <3> QED BY <3>1, <3>2, <3>3
  <2> QED BY <2>3, <2>4
<1> QED BY <1>1, <1>3, <1>4, <1>5, <1>6, <1>7

\* Every access that succeeds keeps the invariant.
LEMMA CompletesKeep ==
  ASSUME W5Inv, Completes, Framed'
  PROVE  W5Inv'
<1>1. Typed' /\ ResetOnce' /\ Commands6' /\ Sending' /\ InOrder' /\ Told' /\ Receiving'
  BY SendCompletes, ReceiveCompletes, OtherCompletes
<1>2. Read'
  BY DEF Completes, Read, Reading
<1>3. Left'
  BY DEF Completes, Left
<1> QED BY <1>1, <1>2, <1>3 DEF W5Inv

-----------------------------------------------------------------------------
(* A call that fails.                                                      *)

\* A send writes where nothing waits to be transmitted.
LEMMA SendSlotFree ==
  ASSUME W5Inv, Sends, step \in {3, 4}, ~torn, Filled \in 0 .. call.n - 1
  PROVE  FreeSlot(Slot(ptr, Filled))
<1> USE DEF W5Inv
<1>1. Calling /\ ~SendTaken /\ TxBase = ptr /\ call.n \in 1 .. Buf /\ Buf \in Nat
  BY FirstIs, MFacts DEF Sends, Calling, SendTaken, Commanded, TxBase
<1>2. chip.txEnd = ptr /\ Dist(chip.txRd, ptr) + call.n <= Buf
  BY <1>1 DEF InOrder, Sending
<1>3. chip.txRd \in Pointers /\ chip.txEnd \in Pointers
  BY ShownIs
<1>4. Waiting \in Nat /\ Waiting < M /\ (chip.txRd + Waiting) % M = ptr
  BY <1>2, <1>3, AheadDist DEF Waiting
<1>5. Waiting + call.n <= Buf
  BY <1>2 DEF Waiting
<1>6. Filled \in Nat /\ Waiting + Filled \in Waiting .. Buf - 1
  BY <1>1, <1>4, <1>5
<1>7. Slot(ptr, Filled) = Slot(chip.txRd, Waiting + Filled)
  BY <1>3, <1>4, <1>6, SlotAhead
<1> QED BY <1>6, <1>7 DEF FreeSlot

\* The byte a failed call may leave in the shift register.
LEMMA LeavesHarmless ==
  ASSUME W5Inv, Calling, Name \notin Reads, Moved \in 0 .. LenOf(Name) - 1, chip' = chip,
         up' = "initialize" => up = "initialize", up = "initialize" => up' = "initialize",
         torn => torn', lost => lost', abandoned => abandoned',
         Sends /\ step \in 5 .. 7 => torn', Receives /\ step >= 5 => lost',
         Sends /\ step >= 6 => abandoned',
         NEW r, r = RegOf(Name), NEW o, o = OffOf(Name), NEW d, d = DataOf(Name, Moved)
  PROVE  /\ r = "TXBUF" => d \in Nat /\ o + Moved \in Ring /\ (torn' \/ FreeSlot(o + Moved))
         /\ r = "TX_WR" => torn' /\ Moved \in {0, 1} /\ d \in 0 .. B - 1
         /\ r = "RX_RD" => lost' /\ Moved \in {0, 1} /\ d \in 0 .. B - 1
         /\ r = "CR" => d \in Commands /\ (d = "SEND" => torn' /\ abandoned') /\ (d = "RECV" => lost')
         /\ r = "IR" => abandoned'
         /\ r = "MR" => up' = "initialize"
         /\ up' = "initialize" => r \in {"MR"} \cup Configs
<1> USE DEF W5Inv
<1>0. Name \in Names /\ LenOf(Name) \in Nat /\ (up = "initialize" <=> call.op = "initialize")
  BY NameIn, LenIs DEF Typed, Ops, Calling
<1>1. CASE Name \in {"FILL", "FILL2"}
  <2>1. /\ Sends /\ step \in {3, 4} /\ Filled \in 0 .. call.n - 1 /\ r = "TXBUF"
        /\ o + Moved = Slot(ptr, Filled) /\ Slot(ptr, Filled) \in Ring
        /\ d = next - call.n + Filled
    BY <1>1, SendPlaceIs
  <2>2. torn' \/ FreeSlot(o + Moved)
    BY <2>1, SendSlotFree
  <2>3. d \in Nat
    BY <2>1, TargetIs DEF Typed, Sends
  <2>4. up' # "initialize"
    BY <1>0, <2>1 DEF Sends
  <2> QED BY <2>1, <2>2, <2>3, <2>4
<1>2. CASE Name \in {"PUT_WR", "PUT_RD"}
  <2>1. /\ Moved \in {0, 1} /\ d = Digit(Target, Moved)
        /\ r = IF Name = "PUT_WR" THEN "TX_WR" ELSE "RX_RD"
    BY <1>2 DEF LenOf, Doubles, RegOf, DataOf, Commands
  <2>2. d \in 0 .. B - 1
    BY <2>1, TargetIs, Digits
  <2>3. (Name = "PUT_WR" => Sends /\ step = 5) /\ (Name = "PUT_RD" => Receives /\ step = 5)
    BY NameTells DEF Sends, Receives
  <2>4. up' # "initialize"
    BY <1>0, <1>2, <2>3 DEF Sends, Receives
  <2>5. (Name = "PUT_WR" => torn') /\ (Name = "PUT_RD" => lost')
    BY <2>3
  <2> QED BY <1>2, <2>1, <2>2, <2>4, <2>5
<1>3. CASE Name \in Commands
  <2>1. r = "CR" /\ d = Name
    BY <1>3 DEF RegOf, DataOf, Commands
  <2>2. (Name = "SEND" => Sends /\ step = 6) /\ (Name = "RECV" => Receives /\ step = 6)
    BY NameTells DEF Sends, Receives
  <2>3. (Name = "SEND" => torn' /\ abandoned') /\ (Name = "RECV" => lost')
    BY <2>2
  <2>4. up' # "initialize"
    <3>1. Name \in {"CLOSE", "OPEN", "CONNECT"} => call.op \in {"open", "connect"}
      BY ConfigTells
    <3> QED BY <1>0, <1>3, <2>2, <3>1 DEF Commands, Sends, Receives
  <2> QED BY <1>3, <2>1, <2>3, <2>4
<1>4. CASE Name = "ACK"
  <2>1. Sends /\ step = 9 /\ r = "IR"
    BY <1>4, NameTells DEF Sends, RegOf, Commands
  <2>2. up' # "initialize"
    BY <1>0, <2>1 DEF Sends
  <2> QED BY <2>1, <2>2
<1>5. CASE Name \in {"MR"} \cup Configs
  <2>1. r = Name
    BY <1>5 DEF RegOf, Commands, Configs
  <2>2. Name = "MR" => up' = "initialize"
    BY <1>0, NameTells
  <2> QED BY <1>5, <2>1, <2>2 DEF Configs
<1> QED BY <1>0, <1>1, <1>2, <1>3, <1>4, <1>5 DEF Names

\* Every access that fails keeps the invariant: the call returns, marked.
LEMMA FailsKeep ==
  ASSUME W5Inv, Fails, Framed'
  PROVE  W5Inv'
<1> USE DEF W5Inv
<1> DEFINE v == Name = "ACK" /\ "SENDOK" \in val
<1>1. /\ Calling /\ UNCHANGED Data /\ Moved \in 0 .. LenOf(Name) /\ Moved' = 0 /\ fpc' = "none"
      /\ Return(v, FALSE) /\ ptr' = ptr /\ got' = got /\ v \in BOOLEAN /\ FALSE \in BOOLEAN
  BY DEF Fails, Failed, Keep
<1>2. UNCHANGED <<chip, txRing, rxRing, sent, arrived>> /\ Waiting' = Waiting
  BY <1>1, DataSame
<1>3. /\ v => Sends /\ step = 9 /\ "SENDOK" \in val
      /\ Sends /\ step \in 5 .. 7 => ~v
      /\ Receives => ~v
      /\ call.op = "initialize" => ~v
      /\ step = 1 => ~v
  BY <1>1, NameTells DEF Sends, Receives
<1> HIDE DEF v
<1>4. Typed' /\ ResetOnce' /\ Commands6' /\ Sending' /\ InOrder' /\ Told' /\ Receiving'
  <2>1. CASE Sends
    BY <1>1, <1>3, <2>1, SendReturns
  <2>2. CASE Receives
    BY <1>1, <1>3, <2>2, ReceiveReturns
  <2>3. CASE ~Sends /\ ~Receives
    BY <1>1, <1>3, <2>3, OtherReturns
  <2> QED BY <2>1, <2>2, <2>3
<1>5. Read'
  BY <1>1 DEF Read, Reading
<1>6. /\ (torn => torn') /\ (lost => lost') /\ (abandoned => abandoned')
      /\ (Sends /\ step \in 5 .. 7 => torn')
      /\ (Receives /\ step >= 5 => lost')
      /\ (Sends /\ step >= 6 => abandoned')
  <2>1. /\ torn \in BOOLEAN /\ lost \in BOOLEAN /\ abandoned \in BOOLEAN
        /\ torn' = (torn \/ (~v /\ Sends /\ step \in 5 .. 7))
        /\ lost' = (lost \/ (~v /\ Receives /\ step >= 5))
        /\ abandoned' = (abandoned \/ (Sends /\ step >= 6 /\ ~(FALSE /\ Name = "ACK")))
    <3>1. v /\ call.op = "initialize" => ~chip.mr
      BY <1>3
    <3> QED BY <1>1, <3>1, ReturnFacts
  <2> QED BY <1>3, <2>1, Zenon
<1>7. up' = up
  <2>1. v => call.op = "send"
    BY <1>3 DEF Sends
  <2> QED BY <1>1, <2>1 DEF Return, UpAfter
<1>8. Left'
  <2>0. \A p : FreeSlot(p) => (FreeSlot(p))'
    BY <1>2 DEF FreeSlot, Slot
  <2>1. CASE fpc = "none" /\ UNCHANGED <<window, shift, busy>>
    <3>1. \A h, i, d : Harmless(h, i, d) => (Harmless(h, i, d))'
      BY <1>6, <1>7, <2>0 DEF Harmless
    <3> QED BY <1>1, <2>1, <3>1 DEF Left
  <2>2. CASE Leaves
    <3> SUFFICES ASSUME busy', window' # <<>>, ~window'[1].read
                 PROVE  (Harmless(window[1], window[2], shift))'
      BY DEF Left
    <3>1. /\ Name \notin Reads /\ Moved < LenOf(Name)
          /\ window'[1].reg = RegOf(Name) /\ window'[1].off = OffOf(Name)
          /\ window'[2] = Moved /\ shift' = DataOf(Name, Moved)
      BY <2>2 DEF Leaves
    <3>2. Moved \in 0 .. LenOf(Name) - 1
      BY <1>1, <3>1, LenIs
    <3> DEFINE h == window'[1]  i == window'[2]  d == shift'
    <3>3. /\ h.reg = "TXBUF" => d \in Nat /\ h.off + i \in Ring
                                /\ (torn' \/ FreeSlot(h.off + i))
          /\ h.reg = "TX_WR" => torn' /\ i \in {0, 1} /\ d \in 0 .. B - 1
          /\ h.reg = "RX_RD" => lost' /\ i \in {0, 1} /\ d \in 0 .. B - 1
          /\ h.reg = "CR" => /\ d \in Commands /\ (d = "SEND" => torn' /\ abandoned')
                             /\ (d = "RECV" => lost')
          /\ h.reg = "IR" => abandoned'
          /\ h.reg = "MR" => up' = "initialize"
          /\ up' = "initialize" => h.reg \in {"MR"} \cup Configs
      BY <1>1, <1>2, <1>6, <1>7, <3>1, <3>2, LeavesHarmless
    <3>4. \A p : FreeSlot(p) => \E j \in Waiting' .. Buf - 1 : p = Slot(chip'.txRd, j)
      BY <1>2 DEF FreeSlot
    <3> QED BY <3>3, <3>4 DEF Harmless, FreeSlot, Slot
  <2> QED BY <2>1, <2>2 DEF Fails
<1> QED BY <1>4, <1>5, <1>8

-----------------------------------------------------------------------------
(* The theorems.                                                           *)

\* The invariant holds before initialize.
LEMMA InitHolds ==
  ASSUME Init
  PROVE  W5Inv
<1>1. /\ enable = FALSE /\ busy = FALSE /\ hold = FALSE /\ cs = FALSE /\ k = 1 /\ fpc = "none"
      /\ reply = <<>> /\ window = <<>> /\ chip = Reset
      /\ txRing = [i \in Ring |-> 0] /\ rxRing = [i \in Ring |-> 0]
      /\ sent = <<>> /\ arrived = 0 /\ up = "initialize" /\ call = Idle /\ step = 1
      /\ ptr = 0 /\ next = 1 /\ taken = <<>>
      /\ ret = [op |-> "none", n |-> 0, v |-> FALSE]
      /\ torn = FALSE /\ lost = FALSE /\ abandoned = FALSE
  BY DEF Init, BusInit
<1>2. ~Calling /\ ~Sends /\ ~Receives
  BY <1>1 DEF Calling, Sends, Receives, Idle
<1>3. Start \in Pointers /\ 0 \in Pointers
  BY MFacts, RingAssumption DEF Pointers
<1>4. /\ Reset \in ChipType /\ Reset.cr = "none" /\ Reset.mr = FALSE /\ Reset.ir = {}
      /\ Reset.txWr = Start /\ Reset.txRd = Start /\ Reset.txEnd = Start
      /\ Reset.rxWr = Start /\ Reset.rxRd = Start /\ Reset.rxRdReg = Start
  BY <1>3 DEF Reset, ChipType
<1>5. Framed
  <2>1. reply = [i \in 1 .. k - 1 |-> reply[i]]
    BY <1>1
  <2>2. {enable, busy, hold, cs} \subseteq BOOLEAN
    BY <1>1
  <2>3. fpc = "none" /\ k \in Nat \ {0} /\ ~busy /\ ~cs /\ ~hold /\ window = <<>> /\ k = 1
    BY <1>1
  <2> QED BY <2>1, <2>2, <2>3 DEF Framed
<1>6. Typed
  <2>1. call \in [op : Ops \cup {"none"}, n : Nat]
    BY <1>1 DEF Idle
  <2>2. sent \in Seq(Nat)
    BY <1>1
  <2>3. chip \in ChipType /\ txRing \in [Ring -> Nat] /\ rxRing \in [Ring -> Nat] /\ arrived \in Nat
    BY <1>1, <1>4
  <2>4. {torn, lost, abandoned} \subseteq BOOLEAN
    BY <1>1
  <2>5. call = Idle /\ step = 1 /\ call.op # "send" /\ next \in Nat \ {0} /\ ptr \in Pointers
        /\ up \in {"initialize", "open", "connect", "run"}
    BY <1>1, <1>3 DEF Idle
  <2> QED BY <1>2, <2>1, <2>2, <2>3, <2>4, <2>5 DEF Typed
<1>7. Read
  BY <1>1 DEF Read, Reading
<1>8. ResetOnce
  <2>1. chip = [Reset EXCEPT !.mr = chip.mr, !.set = chip.set]
    BY <1>1 DEF Reset
  <2> QED BY <1>1, <1>2, <2>1 DEF ResetOnce, Idle
<1>9. Commands6
  BY <1>1, <1>2, <1>4 DEF Commands6
<1>10. Sending
  BY <1>2 DEF Sending
<1>11. ~SendTaken /\ ~RecvTaken /\ TxBase = Start /\ RxBase = Start /\ Waiting = 0 /\ Received = 0
  BY <1>1, <1>2, <1>3, <1>4, DistZero DEF SendTaken, RecvTaken, TxBase, RxBase, Waiting, Received
<1>12. InOrder
  <2>1. Limit = 1
    BY <1>1, <1>2 DEF Limit
  <2>2. Order(0)
    BY <1>1, <1>11, <2>1 DEF Order
  <2> QED BY <1>1, <1>4, <1>11, <2>2, MFacts DEF InOrder
<1>13. Told
  BY <1>1, <1>2, <1>4, <1>11 DEF Told
<1>14. Receiving
  <2>1. taken \in Seq(Nat) /\ taken = [i \in 1 .. Len(taken) |-> i] /\ Len(taken) = 0
    BY <1>1
  <2> QED BY <1>1, <1>2, <1>4, <1>11, <2>1, MFacts DEF Receiving
<1>15. Left
  BY <1>1 DEF Left
<1> QED BY <1>5, <1>6, <1>7, <1>8, <1>9, <1>10, <1>12, <1>13, <1>14, <1>15 DEF W5Inv

\* Every step keeps the invariant.
LEMMA StepKeeps ==
  ASSUME W5Inv, [Next]_vars
  PROVE  W5Inv'
<1>1. Framed' /\ Kinds
  BY KindsAre
<1> QED
  BY <1>1, QuietKeeps, ReadsKeep, WritesKeep, StraysKeep, ChipMovesKeep, CompletesKeep,
     FailsKeep, CallsKeep DEF Kinds

(* The invariant of the driver and its chip: what a frame has exchanged, how  *)
(* far each pointer has moved, what waits in either ring and what a call that *)
(* failed may have left in the shift register.                                *)
THEOREM W5Inductive == Spec => []W5Inv
<1>1. Init => W5Inv
  BY InitHolds
<1>2. W5Inv /\ [Next]_vars => W5Inv'
  BY StepKeeps
<1> QED BY <1>1, <1>2, PTL DEF Spec

(* omcu_spi0_frame_begin never joins two frames, whatever the last one left.  *)
THEOREM FramesAreApart == Spec => []FramesApart
<1>1. W5Inv => FramesApart
  BY DEF W5Inv, Framed, FramesApart
<1> QED BY <1>1, W5Inductive, PTL

(* omcu_w5500_socket_send returns true only when its bytes have left the chip,   *)
(* unless an earlier send left its SENDOK behind.                             *)
THEOREM SentWhenTold == Spec => []SuccessIsSent
<1>1. W5Inv => SuccessIsSent
  BY DEF W5Inv, Told, SuccessIsSent
<1> QED BY <1>1, W5Inductive, PTL

\* The size that a frame has brought.
LEMMA SizesHold ==
  ASSUME W5Inv
  PROVE  SizesAreSafe
<1> USE DEF W5Inv
<1> SUFFICES ASSUME Calling, fpc = "end", FrameOk, Name \in {"FSR", "RSR"}
             PROVE  /\ Name = "FSR" => Value16 <= Free \/ torn
                    /\ Name = "RSR" => Value16 <= Received \/ lost
  BY DEF SizesAreSafe
<1>1. LenOf(Name) = 2
  BY DEF LenOf, Doubles
<1>2. Moved = 2 /\ k = 4
  <2>1. k > Len(units)
    BY DEF FrameOk
  <2> QED BY <1>1, <2>1, MovedIs
<1>3. Value16 = Ans(0) * B + Ans(1)
  <2>1. Ans(0) = reply[2] /\ Ans(1) = reply[3]
    BY <1>2 DEF Ans
  <2> QED BY <2>1 DEF Value16
<1> QED BY <1>2, <1>3, SizesAre

(* Neither stream loses, repeats or reorders a byte, through every wrap of    *)
(* its ring and of its pointers and every call that fails where it can be     *)
(* made up for; and no size the driver puts together of two bytes is more     *)
(* than there is.                                                             *)
THEOREM StreamsKeepOrder == Spec => []StreamsInOrder
<1>1. W5Inv => StreamsInOrder
  <2> SUFFICES ASSUME W5Inv PROVE StreamsInOrder
    OBVIOUS
  <2> USE DEF W5Inv
  <2>1. torn \/ SentInOrder
    <3> SUFFICES ASSUME ~torn PROVE SentInOrder
      OBVIOUS
    <3>1. PICK last \in 0 .. next : Order(last)
      BY DEF InOrder
    <3>2. /\ \A i, j \in 1 .. Len(sent) : i < j => sent[i] < sent[j]
          /\ \A j \in 1 .. Len(sent) : sent[j] \in 1 .. last - Waiting
          /\ last < Limit
      BY <3>1 DEF Order
    <3>3. Limit <= next /\ Limit \in Int /\ next \in Nat /\ Waiting \in Nat
      <4>1. Sends => call.n \in Nat
        BY TargetIs DEF Sends, Calling
      <4> QED BY <4>1, ShownIs, MFacts DEF Limit, Typed, Pointers
    <3>4. last - Waiting <= next - 1
      BY <3>2, <3>3
    <3>5. Numbers(sent) \subseteq 1 .. next - 1
      BY <3>2, <3>3, <3>4 DEF Numbers
    <3> QED BY <3>2, <3>5 DEF SentInOrder
  <2>2. lost \/ TakenInOrder
    <3> SUFFICES ASSUME ~lost PROVE TakenInOrder
      OBVIOUS
    <3>1. /\ taken \in Seq(Nat) /\ taken = [i \in 1 .. Len(taken) |-> i]
          /\ Len(taken) + (IF RecvTaken THEN call.n ELSE 0) = arrived - Received
      BY DEF Receiving
    <3>2. Len(taken) \in Nat /\ arrived \in Nat /\ Received \in Nat
      BY <3>1, ShownIs, LenProperties, MFacts DEF Typed, Pointers
    <3>3. RecvTaken => call.n \in Nat
      BY TargetIs DEF RecvTaken, Receives, Calling
    <3>4. Len(taken) <= arrived
      BY <3>1, <3>2, <3>3
    <3> QED BY <3>1, <3>4 DEF TakenInOrder
  <2>3. SizesAreSafe
    BY SizesHold
  <2> QED BY <2>1, <2>2, <2>3 DEF StreamsInOrder
<1> QED BY <1>1, W5Inductive, PTL

\* Only a send, or the byte one left behind, writes the transmit ring.
LEMMA RingKept ==
  ASSUME W5Inv, [Next]_vars, NEW i \in 0 .. Waiting - 1, ~torn
  PROVE  txRing'[Slot(chip.txRd, i)] = txRing[Slot(chip.txRd, i)]
<1> USE DEF W5Inv
<1>1. chip.txRd \in Pointers /\ Waiting \in Nat /\ Buf \in Nat
  BY ShownIs, MFacts DEF Pointers
<1>2. ASSUME NEW p, FreeSlot(p) PROVE Slot(chip.txRd, i) # p
  <2>1. PICK j \in Waiting .. Buf - 1 : p = Slot(chip.txRd, j)
    BY <1>2 DEF FreeSlot
  <2>2. i \in Nat /\ j \in Nat /\ i < j /\ j < i + Buf
    BY <1>1, <2>1
  <2> QED BY <1>1, <2>1, <2>2, SlotsApart
<1>3. CASE txRing' = txRing
  BY <1>3
<1>4. CASE WritesByte /\ Fills
  <2>1. FreeSlot(Slot(ptr, Filled))
    BY <1>4, SendSlotFree DEF Fills
  <2> QED BY <1>2, <1>4, <2>1 DEF Fills, Typed
<1>5. CASE StrayFill
  <2>1. PICK p \in Ring, d \in Nat : FreeSlot(p) /\ txRing' = [txRing EXCEPT ![p] = d]
    BY <1>5 DEF StrayFill
  <2> QED BY <1>2, <2>1 DEF Typed
<1>6. Kinds
  BY KindsAre
<1>7. Quiet \/ ReadsByte \/ Completes \/ Fails \/ Calls => UNCHANGED Data
  BY DEF Quiet, ReadsByte, Completes, Fails, Calls
<1>8. ChipMoves => txRing' = txRing
  BY DEF ChipMoves
<1>9. WritesByte => txRing' = txRing \/ (WritesByte /\ Fills)
  BY WritesAre DEF PutsWr, PutsRd, Commanding, Acks, Configures
<1>10. Strays => txRing' = txRing \/ StrayFill
  BY StraysAre DEF StraySet, StrayConfig
<1> QED BY <1>3, <1>4, <1>5, <1>6, <1>7, <1>8, <1>9, <1>10 DEF Kinds, Data

(* A byte that waits to be transmitted is never written over.                 *)
THEOREM UnsentStays == Spec => UnsentIsKept
<1>1. W5Inv /\ [Next]_vars =>
        [\A i \in 0 .. Dist(chip.txRd, chip.txEnd) - 1 :
           torn \/ LET p == (chip.txRd + i) % Buf IN txRing'[p] = txRing[p]]_vars
  <2> SUFFICES ASSUME W5Inv, [Next]_vars, NEW i \in 0 .. Dist(chip.txRd, chip.txEnd) - 1, ~torn
               PROVE  txRing'[(chip.txRd + i) % Buf] = txRing[(chip.txRd + i) % Buf]
    OBVIOUS
  <2>1. i \in 0 .. Waiting - 1
    BY DEF Waiting
  <2>2. txRing'[Slot(chip.txRd, i)] = txRing[Slot(chip.txRd, i)]
    BY <2>1, RingKept
  <2> QED BY <2>2 DEF Slot
<1> QED BY <1>1, W5Inductive, PTL DEF Spec, UnsentIsKept

-----------------------------------------------------------------------------
(* The conversions.                                                        *)

(* omcu_decimal_to_bcd and omcu_bcd_to_decimal are inverse to each other,   *)
(* and the encoding of a value below a maximum passes its check.           *)
LEMMA BcdRoundTrip ==
  ASSUME NEW v \in 0 .. 99, NEW maximum \in Nat, v <= maximum
  PROVE  /\ Bcd(v) \in Byte
         /\ Decimal(Bcd(v)) = v
         /\ IsBcd(Bcd(v), maximum)
<1>1. /\ (16 * (v \div 10) + (v % 10)) \div 16 = v \div 10
      /\ (16 * (v \div 10) + (v % 10)) % 16 = v % 10
      /\ v \div 10 \in 0 .. 9 /\ v % 10 \in 0 .. 9
      /\ 10 * (v \div 10) + (v % 10) = v
  BY SMT
<1> QED
  BY <1>1, SMT DEF Bcd, Decimal, IsBcd, Byte

(* The encodings that the masks of omcu_ds3231_read_time leave alone: those *)
(* of seconds and minutes, of hours, of months and of years.               *)
LEMMA SixtyKept ==
  ASSUME NEW v \in 0 .. 59, NEW x, x = Bcd(v)
  PROVE  Decimal(x % 128) = v /\ IsBcd(x % 128, 59)
<1>1. Bcd(v) % 128 = Bcd(v)
  BY SMT DEF Bcd
<1> QED BY <1>1, BcdRoundTrip, SMT

\* The same for hours, through the mask of the 24-hour form.
LEMMA HourKept ==
  ASSUME NEW v \in 0 .. 23, NEW x, x = Bcd(v)
  PROVE  x \in 0 .. 41 /\ Decimal(x % 64) = v /\ IsBcd(x % 64, 23)
<1>1. Bcd(v) % 64 = Bcd(v) /\ Bcd(v) \in 0 .. 41
  BY SMT DEF Bcd
<1> QED BY <1>1, BcdRoundTrip, SMT

\* The same for months, without the century bit.
LEMMA MonthKept ==
  ASSUME NEW v \in 1 .. 12, NEW x, x = Bcd(v)
  PROVE  Decimal(x % 32) = v /\ IsBcd(x % 32, 12)
<1>1. Bcd(v) % 32 = Bcd(v)
  BY SMT DEF Bcd
<1> QED BY <1>1, BcdRoundTrip, SMT

\* The same for years, which have no mask.
LEMMA YearKept ==
  ASSUME NEW v \in 0 .. 99, NEW x, x = Bcd(v)
  PROVE  Decimal(x) = v /\ IsBcd(x, 99)
BY BcdRoundTrip, SMT

(* What omcu_ds3231_write_time puts into the registers, as                 *)
(* omcu_ds3231_read_time sees them through its masks.                      *)
LEMMA WrittenRegisters ==
  ASSUME NEW t \in Time, Writable(t), NEW b, b = Stored(Frame(t))
  PROVE  /\ Decimal(b[0] % 128) = t.second /\ IsBcd(b[0] % 128, 59)
         /\ Decimal(b[1] % 128) = t.minute /\ IsBcd(b[1] % 128, 59)
         /\ Decimal(b[2] % 64) = t.hour /\ IsBcd(b[2] % 64, 23)
         /\ b[2] \in 0 .. 41
         /\ b[3] = t.weekday /\ b[4] = Bcd(t.day)
         /\ Decimal(b[5] % 32) = t.month /\ IsBcd(b[5] % 32, 12)
         /\ Decimal(b[6]) = t.year - 2000 /\ IsBcd(b[6], 99)
<1> DEFINE f == Frame(t)
<1>1. b = [i \in 0 .. 6 |-> f[i + 2]]
  BY DEF Stored
<1>2. /\ f[2] = Bcd(t.second) /\ f[3] = Bcd(t.minute)
      /\ f[4] = Bcd(t.hour) /\ f[5] = t.weekday /\ f[6] = Bcd(t.day)
      /\ f[7] = Bcd(t.month) /\ f[8] = Bcd(t.year - 2000)
  BY DEF Frame
<1> HIDE DEF f
<1>3. /\ b[0] = f[2] /\ b[1] = f[3] /\ b[2] = f[4] /\ b[3] = f[5]
      /\ b[4] = f[6] /\ b[5] = f[7] /\ b[6] = f[8]
  BY <1>1, SMT
<1>4. /\ t.second \in 0 .. 59 /\ t.minute \in 0 .. 59 /\ t.hour \in 0 .. 23
      /\ t.month \in 1 .. 12 /\ t.year - 2000 \in 0 .. 99
  BY SMT DEF Time, Writable
<1>5. Decimal(b[0] % 128) = t.second /\ IsBcd(b[0] % 128, 59)
  BY <1>2, <1>3, <1>4, SixtyKept
<1>6. Decimal(b[1] % 128) = t.minute /\ IsBcd(b[1] % 128, 59)
  BY <1>2, <1>3, <1>4, SixtyKept
<1>7. Decimal(b[2] % 64) = t.hour /\ IsBcd(b[2] % 64, 23) /\ b[2] \in 0 .. 41
  BY <1>2, <1>3, <1>4, HourKept
<1>8. Decimal(b[5] % 32) = t.month /\ IsBcd(b[5] % 32, 12)
  BY <1>2, <1>3, <1>4, MonthKept
<1>9. Decimal(b[6]) = t.year - 2000 /\ IsBcd(b[6], 99)
  BY <1>2, <1>3, <1>4, YearKept
<1> QED BY <1>2, <1>3, <1>5, <1>6, <1>7, <1>8, <1>9

(* What omcu_ds3231_read_time makes of a time omcu_ds3231_write_time has    *)
(* written, for every such time: it takes the register of the weekday for  *)
(* the day and that of the day for the weekday.  From the eighth of a      *)
(* month on it refuses the clock's registers.                              *)
THEOREM ClockExchangesDays ==
  ASSUME NEW t \in Time, Writable(t), NEW old \in Time
  PROVE  /\ Readable(Stored(Frame(t))) <=> t.day <= 7
         /\ t.day <= 7 =>
              ReadTime(old, Stored(Frame(t))) =
                [second |-> t.second, minute |-> t.minute, hour |-> t.hour,
                 weekday |-> t.day, day |-> t.weekday, month |-> t.month,
                 year |-> t.year]
<1> DEFINE b == Stored(Frame(t))
<1>1. /\ Decimal(b[0] % 128) = t.second /\ IsBcd(b[0] % 128, 59)
      /\ Decimal(b[1] % 128) = t.minute /\ IsBcd(b[1] % 128, 59)
      /\ Decimal(b[2] % 64) = t.hour /\ IsBcd(b[2] % 64, 23)
      /\ b[2] \in 0 .. 41
      /\ b[3] = t.weekday /\ b[4] = Bcd(t.day)
      /\ Decimal(b[5] % 32) = t.month /\ IsBcd(b[5] % 32, 12)
      /\ Decimal(b[6]) = t.year - 2000 /\ IsBcd(b[6], 99)
  BY WrittenRegisters
<1> HIDE DEF b
<1>2. /\ t.weekday \in 1 .. 7 /\ t.day \in 1 .. 31 /\ t.year \in Nat
  BY SMT DEF Time, Writable
<1>3. ~TwelveHours(b) /\ b[2] # 255
  BY <1>1, SMT DEF TwelveHours
<1>4. IsBcd(b[3] % 64, 31) /\ Decimal(b[3] % 64) = t.weekday
  BY <1>1, <1>2, SMT DEF IsBcd, Decimal
<1>5. (b[4] \in 1 .. 7 <=> t.day <= 7) /\ (t.day <= 7 => b[4] = t.day)
  BY <1>1, <1>2, SMT DEF Bcd
<1>6. SecondRead(b) /\ MinuteRead(b) /\ DayRead(b) /\ HourRead(b)
  <2>1. SecondRead(b)
    BY <1>1 DEF SecondRead
  <2>2. MinuteRead(b)
    BY <1>1, <2>1 DEF MinuteRead
  <2>3. DayRead(b)
    BY <1>4, <2>2 DEF DayRead
  <2>4. HourRead(b)
    BY <1>1, <1>3 DEF HourRead
  <2> QED BY <2>1, <2>2, <2>3, <2>4
<1>7. Readable(b) <=> t.day <= 7
  <2>1. Readable(b) <=> b[4] \in 1 .. 7
    BY <1>1, <1>3, <1>6 DEF Readable
  <2> QED BY <1>5, <2>1
<1>8. ASSUME t.day <= 7
      PROVE  ReadTime(old, b) =
          [second |-> t.second, minute |-> t.minute, hour |-> t.hour,
           weekday |-> t.day, day |-> t.weekday, month |-> t.month,
           year |-> t.year]
  <2>1. Hour(b) = t.hour
    BY <1>1, <1>3 DEF Hour
  <2>2. 2000 + Decimal(b[6]) = t.year
    BY <1>1, <1>2, SMT
  <2>3. Readable(b) /\ b[4] = t.day
    BY <1>5, <1>7, <1>8
  <2> QED BY <1>1, <1>4, <1>6, <2>1, <2>2, <2>3 DEF ReadTime
<1> QED BY <1>7, <1>8 DEF b

(* A decoded value respects its maximum.                                   *)
LEMMA BcdValue ==
  ASSUME NEW x \in Byte, NEW maximum \in Nat, IsBcd(x, maximum)
  PROVE  Decimal(x) \in 0 .. maximum
BY SMT DEF IsBcd, Decimal, Byte

(* Whatever the registers hold, a reading that omcu_ds3231_read_time       *)
(* accepts has a second, minute, hour, weekday and year that               *)
(* omcu_ds3231_write_time accepts back; only a day and a month of zero     *)
(* pass the reader's checks and not the writer's.                          *)
THEOREM AcceptedIsWritable ==
  ASSUME NEW old \in Time, NEW b \in [0 .. 6 -> Byte], Readable(b),
         ReadTime(old, b).day # 0, ReadTime(old, b).month # 0
  PROVE  Writable(ReadTime(old, b))
<1> DEFINE r == ReadTime(old, b)
<1>1. \A i \in 0 .. 6 : b[i] \in 0 .. 255
  BY SMT DEF Byte
<1>2. /\ b[0] % 128 \in Byte /\ b[1] % 128 \in Byte
      /\ b[2] % 32 \in Byte /\ b[2] % 64 \in Byte
      /\ b[3] % 64 \in Byte /\ b[5] % 32 \in Byte /\ b[6] \in Byte
  <2>1. /\ b[0] \in 0 .. 255 /\ b[1] \in 0 .. 255 /\ b[2] \in 0 .. 255
        /\ b[3] \in 0 .. 255 /\ b[5] \in 0 .. 255 /\ b[6] \in 0 .. 255
    BY <1>1, SMT
  <2> QED BY <2>1, SMT DEF Byte
<1>4. /\ SecondRead(b) /\ MinuteRead(b) /\ DayRead(b) /\ HourRead(b)
      /\ IsBcd(b[0] % 128, 59) /\ IsBcd(b[1] % 128, 59)
      /\ IsBcd(b[3] % 64, 31) /\ IsBcd(b[5] % 32, 12) /\ IsBcd(b[6], 99)
      /\ b[4] \in 1 .. 7
  BY DEF Readable, DayRead, MinuteRead, SecondRead
<1>5. /\ r.second = Decimal(b[0] % 128) /\ r.minute = Decimal(b[1] % 128)
      /\ r.day = Decimal(b[3] % 64) /\ r.month = Decimal(b[5] % 32)
      /\ r.year = 2000 + Decimal(b[6]) /\ r.weekday = b[4]
      /\ r.hour = Hour(b)
  BY <1>4 DEF ReadTime
<1>6. Hour(b) \in 0 .. 23
  <2>1. CASE TwelveHours(b)
    <3>1. IsBcd(b[2] % 32, 12)
      BY <1>4, <2>1 DEF HourRead
    <3>2. Decimal(b[2] % 32) \in 0 .. 12
      BY <1>2, <3>1, 12 \in Nat, BcdValue, Zenon
    <3> QED BY <2>1, <3>2, SMT DEF Hour
  <2>2. CASE ~TwelveHours(b)
    <3>1. IsBcd(b[2] % 64, 23)
      BY <1>4, <2>2 DEF HourRead
    <3>2. Decimal(b[2] % 64) \in 0 .. 23
      BY <1>2, <3>1, BcdValue, SMT
    <3> QED BY <2>2, <3>2, SMT DEF Hour
  <2> QED BY <2>1, <2>2
<1>7. /\ Decimal(b[0] % 128) \in 0 .. 59 /\ Decimal(b[1] % 128) \in 0 .. 59
      /\ Decimal(b[3] % 64) \in 0 .. 31 /\ Decimal(b[5] % 32) \in 0 .. 12
      /\ Decimal(b[6]) \in 0 .. 99
  <2>1. Decimal(b[0] % 128) \in 0 .. 59 /\ Decimal(b[1] % 128) \in 0 .. 59
    BY <1>2, <1>4, BcdValue, SMT
  <2>2. Decimal(b[3] % 64) \in 0 .. 31 /\ Decimal(b[5] % 32) \in 0 .. 12
    BY <1>2, <1>4, BcdValue, SMT
  <2>3. Decimal(b[6]) \in 0 .. 99
    BY <1>2, <1>4, BcdValue, SMT
  <2> QED BY <2>1, <2>2, <2>3
<1>8. r.day # 0 /\ r.month # 0
  OBVIOUS
<1> HIDE DEF r
<1>9. Writable(r)
  BY <1>4, <1>5, <1>6, <1>7, <1>8, SMT DEF Writable
<1> QED BY <1>9 DEF r

(* The sign extension of omcu_tmp102_read_temperature_milli_c undoes the   *)
(* chip's two's complement for every twelve-bit reading.                   *)
THEOREM TemperatureIsSigned ==
  ASSUME NEW t \in -2048 .. 2047, NEW spare \in 0 .. 15
  PROVE  LET bits == IF t < 0 THEN t + 4096 ELSE t
         IN  Raw(bits \div 16, 16 * (bits % 16) + spare) = t
<1> DEFINE bits == IF t < 0 THEN t + 4096 ELSE t
<1>1. bits \in 0 .. 4095
  BY SMT
<1>2. (16 * (bits % 16) + spare) \div 16 = bits % 16
  <2> HIDE DEF bits
  <2> QED BY <1>1, SMT
<1>3. 16 * (bits \div 16) + (bits % 16) = bits
  <2> HIDE DEF bits
  <2> QED BY <1>1, SMT
<1>4. (bits >= 2048) <=> (t < 0)
  BY SMT
<1> QED BY <1>2, <1>3, <1>4, SMT DEF Raw

(* The fraction of raw * 625 / 10 that m leaves out points away from zero. *)
Cut(raw, m) ==
    /\ m \in Int
    /\ raw >= 0 => 10 * m <= 625 * raw /\ 625 * raw < 10 * m + 10
    /\ raw < 0 => 10 * m >= 625 * raw /\ 625 * raw > 10 * m - 10

(* The conversion to thousandths of a degree cuts towards zero.            *)
LEMMA MilliIsCut ==
  ASSUME NEW x \in Int
  PROVE  Cut(x, MilliCelsius(x))
<1>1. \A n \in Nat : /\ n \div 10 \in Nat
                     /\ 10 * (n \div 10) <= n /\ n < 10 * (n \div 10) + 10
  BY SMT
<1>2. CASE x >= 0
  <2>1. 625 * x \in Nat
    BY <1>2, SMT
  <2>2. MilliCelsius(x) = (625 * x) \div 10
    BY <1>2 DEF MilliCelsius
  <2> QED BY <1>1, <1>2, <2>1, <2>2, SMT DEF Cut
<1>3. CASE x < 0
  <2>1. 625 * (-x) \in Nat /\ ~(x >= 0)
    BY <1>3, SMT
  <2>2. MilliCelsius(x) = -((625 * (-x)) \div 10)
    BY <2>1 DEF MilliCelsius
  <2> QED BY <1>1, <1>3, <2>1, <2>2, SMT DEF Cut
<1> QED BY <1>2, <1>3, SMT

(* The conversion keeps the order of readings, also across zero, loses     *)
(* less than one unit, and is exact for whole eighths of a degree.         *)
THEOREM TemperatureKeepsOrder ==
  ASSUME NEW r \in -2048 .. 2047, NEW s \in -2048 .. 2047
  PROVE  /\ r < s => MilliCelsius(r) < MilliCelsius(s)
         /\ 10 * MilliCelsius(r) - 625 * r \in -9 .. 9
         /\ r % 2 = 0 => 10 * MilliCelsius(r) = 625 * r
<1> DEFINE m == MilliCelsius(r)
           n == MilliCelsius(s)
<1> HIDE DEF m, n
<1>1. Cut(r, m)
  <2>1. r \in Int
    BY SMT
  <2>2. Cut(r, MilliCelsius(r))
    BY <2>1, MilliIsCut
  <2> QED BY <2>2 DEF m
<1>2. Cut(s, n)
  <2>1. s \in Int
    BY SMT
  <2>2. Cut(s, MilliCelsius(s))
    BY <2>1, MilliIsCut
  <2> QED BY <2>2 DEF n
<1>3. r < s => m < n
  BY <1>1, <1>2, SMT DEF Cut
<1>4. 10 * m - 625 * r \in -9 .. 9
  BY <1>1, SMT DEF Cut
<1>5. ASSUME r % 2 = 0
      PROVE  10 * m = 625 * r
  <2>1. PICK h \in Int : r = 2 * h
    <3>1. r \div 2 \in Int /\ r = 2 * (r \div 2)
      BY <1>5, SMT
    <3> QED BY <3>1
  <2>2. m - 125 * h \in Int /\ 10 * (m - 125 * h) \in -9 .. 9
    BY <1>1, <1>4, <2>1, SMT DEF Cut
  <2>3. m = 125 * h
    BY <1>1, <2>2, SMT DEF Cut
  <2> QED BY <2>1, <2>3, SMT
<1> QED BY <1>3, <1>4, <1>5 DEF m, n

(* The request of omcu_mcp3008_read_channel carries the start bit, the     *)
(* single-ended bit and the channel, and the ten bits of the answer are    *)
(* found whatever the chip leaves on the lines above them.                 *)
THEOREM SampleIsComplete ==
  ASSUME NEW channel \in 0 .. 7, NEW s \in 0 .. 1023, NEW noise \in 0 .. 63
  PROVE  /\ Mcp3008Request(channel)[1] = 1
         /\ Mcp3008Request(channel)[2] \in Byte
         /\ Mcp3008Request(channel)[2] \div 128 = 1
         /\ (Mcp3008Request(channel)[2] \div 16) % 8 = channel
         /\ Sample(4 * noise + s \div 256, s % 256) = s
<1>1. /\ Mcp3008Request(channel)[1] = 1
      /\ Mcp3008Request(channel)[2] = 128 + 16 * channel
  BY DEF Mcp3008Request
<1>2. s \div 256 \in 0 .. 3 /\ 256 * (s \div 256) + (s % 256) = s
  BY SMT
<1>3. (4 * noise + s \div 256) % 4 = s \div 256
  BY <1>2, SMT
<1> QED BY <1>1, <1>2, <1>3, SMT DEF Sample, Byte

(* The two bytes of omcu_mcp4921_write hold the value, never the "ignore"  *)
(* bit, always the "active" bit, and each option in its own bit.           *)
THEOREM OutputIsActive ==
  ASSUME NEW value \in 0 .. 4095, NEW buffered \in BOOLEAN,
         NEW gain1x \in BOOLEAN
  PROVE  LET f == Mcp4921Frame(value, buffered, gain1x)
         IN  /\ f[1] \in Byte /\ f[2] \in Byte
             /\ 256 * (f[1] % 16) + f[2] = value
             /\ f[1] \div 128 = 0 /\ (f[1] \div 16) % 2 = 1
             /\ (f[1] \div 64) % 2 = (IF buffered THEN 1 ELSE 0)
             /\ (f[1] \div 32) % 2 = (IF gain1x THEN 1 ELSE 0)
<1> DEFINE w == Mcp4921Word(value, buffered, gain1x)
           f == Mcp4921Frame(value, buffered, gain1x)
<1>1. f[1] = w \div 256 /\ f[2] = w % 256
  BY DEF Mcp4921Frame
<1>2. \E o \in 0 .. 3 : /\ w = 4096 + value + 8192 * o
                        /\ o \div 2 = (IF buffered THEN 1 ELSE 0)
                        /\ o % 2 = (IF gain1x THEN 1 ELSE 0)
  <2>1. CASE buffered /\ gain1x
    BY <2>1, 3 \in 0 .. 3, 3 \div 2 = 1, 3 % 2 = 1, SMT DEF Mcp4921Word
  <2>2. CASE buffered /\ ~gain1x
    BY <2>2, 2 \in 0 .. 3, SMT DEF Mcp4921Word
  <2>3. CASE ~buffered /\ gain1x
    BY <2>3, 1 \in 0 .. 3, SMT DEF Mcp4921Word
  <2>4. CASE ~buffered /\ ~gain1x
    BY <2>4, 0 \in 0 .. 3, SMT DEF Mcp4921Word
  <2> QED BY <2>1, <2>2, <2>3, <2>4
<1>3. PICK o \in 0 .. 3 : /\ w = 4096 + value + 8192 * o
                          /\ o \div 2 = (IF buffered THEN 1 ELSE 0)
                          /\ o % 2 = (IF gain1x THEN 1 ELSE 0)
  BY <1>2
<1> HIDE DEF w, f
<1>4. PICK h \in 0 .. 15, l \in 0 .. 255 : value = 256 * h + l
  <2>1. /\ value \div 256 \in 0 .. 15 /\ value % 256 \in 0 .. 255
        /\ value = 256 * (value \div 256) + (value % 256)
    BY SMT
  <2> QED BY <2>1
<1>5. f[1] = 16 + h + 32 * o /\ f[2] = l
  BY <1>1, <1>3, <1>4, SMT
<1>6. /\ f[1] \in Byte /\ f[2] \in Byte
      /\ 256 * (f[1] % 16) + f[2] = value
      /\ f[1] \div 128 = 0
  BY <1>4, <1>5, SMT DEF Byte
<1>7. /\ f[1] \div 16 = 1 + 2 * o /\ f[1] \div 64 = o \div 2
      /\ f[1] \div 32 = o
  BY <1>5, SMT
<1>8. /\ (f[1] \div 16) % 2 = 1 /\ (f[1] \div 64) % 2 = o \div 2
      /\ (f[1] \div 32) % 2 = o % 2
  BY <1>7, SMT
<1> QED BY <1>3, <1>6, <1>8 DEF f
=============================================================================
