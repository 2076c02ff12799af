-------------------------------- MODULE W5500 --------------------------------
(***************************************************************************)
(* The W5500 driver of sdk/drivers/omcu_devices.c over SpiBus, with one    *)
(* TCP socket of the chip (external: its registers as the driver uses      *)
(* them).                                                                  *)
(*                                                                         *)
(* A call is a program of register accesses, each one a frame: the three   *)
(* header bytes as one unit, for they act only together, then the data.    *)
(* Registers of 16 bits are two digits, exchanged high digit first while   *)
(* the chip goes on working.  The bytes of either stream are numbered.     *)
(***************************************************************************)
EXTENDS SpiBus, Integers

CONSTANTS
  B,          \* the values of a byte of a pointer
  Buf,        \* the size of either ring of the socket
  Start,      \* where its pointers stand, which never start over
  MaxTx,      \* bound: bytes the application sends
  MaxRx,      \* bound: bytes that arrive
  MaxGiveUps  \* bound: waits and polling loops that run out

M == B * B

ASSUME RingAssumption ==
  /\ B \in Nat /\ Buf \in Nat \ {0} /\ M % Buf = 0 /\ Buf < M /\ Start \in 0 .. M - 1
  /\ {MaxTx, MaxRx, MaxGiveUps} \subseteq Nat

VARIABLES
  window,   \* what the chip takes the next data byte for
  chip,     \* the registers
  txRing, rxRing,
  sent,     \* the numbers of the bytes that left the chip
  arrived,  \* how many bytes have come in
  up,       \* how far the application has brought the chip
  call, step,   \* the call and its access
  val, ptr, got,   \* the flags, the pointer and the data it read
  next,     \* the number of the byte the application sends next
  taken,    \* the numbers of the bytes the application has received
  ret,
  giveUps,  \* waits that ran out
  torn, lost, abandoned   \* what failed calls left behind

chipVars == <<window, chip, txRing, rxRing, sent, arrived>>
callVars == <<call, step, val, ptr, got>>
cpuVars  == <<up, callVars, next, taken, ret, giveUps, torn, lost, abandoned>>
vars == <<engVars, frameVars, chipVars, cpuVars>>

-----------------------------------------------------------------------------
(* The chip.                                                               *)

Ring == 0 .. Buf - 1
Dist(a, b) == (b - a) % M

Unsent   == Dist(chip.txRd, chip.txWr)
Free     == IF Unsent > Buf THEN 0 ELSE Buf - Unsent
Received == Dist(chip.rxRd, chip.rxWr)

Digit(v, i) == IF i = 0 THEN v \div B ELSE v % B
WithDigit(v, i, d) == IF i = 0 THEN d * B + (v % B) ELSE (v - (v % B)) + d

Reset == [mr |-> FALSE, cr |-> "none", ir |-> {}, sr |-> "closed", set |-> {},
          txWr |-> Start, txRd |-> Start, txEnd |-> Start,
          rxWr |-> Start, rxRd |-> Start, rxRdReg |-> Start]

\* What the chip answers to data byte i of an access to reg.
RegByte(reg, off, i) ==
  CASE reg = "FSR"    -> Digit(Free, i)
    [] reg = "TX_WR"  -> Digit(chip.txWr, i)
    [] reg = "RSR"    -> Digit(Received, i)
    [] reg = "RX_RD"  -> Digit(chip.rxRdReg, i)
    [] reg = "RXBUF"  -> IF off + i \in Ring THEN rxRing[off + i] ELSE 0
    [] reg = "CR"     -> IF chip.cr = "none" THEN 0 ELSE 1
    [] reg = "IR"     -> chip.ir
    [] reg = "SR"     -> chip.sr
    [] reg = "MR"     -> IF chip.mr THEN 1 ELSE 0
    [] OTHER          -> 0

Configs == {"GAR", "SUBR", "SHAR", "SIPR", "SIZES", "MODE", "PORT", "DIPR", "DPORT"}

\* The data byte d of a write.  A ring is not written past its end.
RegWrite(reg, off, i, d) ==
  /\ txRing' = IF reg = "TXBUF" /\ off + i \in Ring THEN [txRing EXCEPT ![off + i] = d] ELSE txRing
  /\ chip' = CASE reg = "TX_WR" -> [chip EXCEPT !.txWr = WithDigit(@, i, d)]
               [] reg = "RX_RD" -> [chip EXCEPT !.rxRdReg = WithDigit(@, i, d)]
               [] reg = "CR"    -> [chip EXCEPT !.cr = d]
               [] reg = "IR"    -> [chip EXCEPT !.ir = @ \ d]
               [] reg = "MR"    -> [chip EXCEPT !.mr = TRUE]
               [] reg \in Configs -> [chip EXCEPT !.set = @ \cup {reg}]
               [] OTHER         -> chip
  /\ UNCHANGED <<rxRing, sent, arrived>>

\* A unit has been exchanged: the header of a frame, or a byte for its register.
Exchange ==
  \/ /\ window = <<>>
     /\ ByteDone(0)
     /\ window' = IF cs' THEN <<shift, 0>> ELSE <<>>
     /\ UNCHANGED <<chip, txRing, rxRing, sent, arrived>>
  \/ /\ window # <<>>
     /\ LET h == window[1]  i == window[2] IN
        /\ ByteDone(IF h.read THEN RegByte(h.reg, h.off, i) ELSE 0)
        /\ window' = IF cs' THEN <<h, i + 1>> ELSE <<>>
        /\ IF h.read THEN UNCHANGED <<chip, txRing, rxRing, sent, arrived>>
           ELSE RegWrite(h.reg, h.off, i, shift)

ResetEnds == chip.mr /\ chip' = Reset

\* The chip takes a command when it has dealt with the one before.
TakesCommand ==
  /\ chip.cr # "none" /\ chip.txRd = chip.txEnd
  /\ chip' = [chip EXCEPT !.cr = "none",
       !.txEnd = IF chip.cr = "SEND" THEN chip.txWr ELSE @,
       !.rxRd  = IF chip.cr = "RECV" THEN chip.rxRdReg ELSE @,
       !.sr    = CASE chip.cr = "OPEN" -> "init" [] chip.cr = "CLOSE" -> "closed"
                   [] chip.cr = "CONNECT" -> "established" [] OTHER -> @]

\* One byte leaves; with the last one SENDOK.
Transmits ==
  /\ chip.txRd # chip.txEnd
  /\ sent' = Append(sent, txRing[chip.txRd % Buf])
  /\ chip' = [chip EXCEPT !.txRd = (@ + 1) % M,
                !.ir = IF (chip.txRd + 1) % M = chip.txEnd THEN @ \cup {"SENDOK"} ELSE @]

\* The peer does not answer: the rest is dropped.
Drops ==
  /\ chip.txRd # chip.txEnd
  /\ chip' = [chip EXCEPT !.txRd = chip.txEnd, !.ir = @ \cup {"TIMEOUT"}]
  /\ UNCHANGED sent

Arrives ==
  /\ chip.sr = "established" /\ Received < Buf /\ arrived < MaxRx
  /\ arrived' = arrived + 1
  /\ rxRing' = [rxRing EXCEPT ![chip.rxWr % Buf] = arrived + 1]
  /\ chip' = [chip EXCEPT !.rxWr = (@ + 1) % M]

ChipStep ==
  /\ \/ (ResetEnds \/ TakesCommand) /\ UNCHANGED <<sent, arrived, rxRing>>
     \/ (Transmits \/ Drops) /\ UNCHANGED <<arrived, rxRing>>
     \/ Arrives /\ UNCHANGED sent
  /\ UNCHANGED <<engVars, frameVars, window, txRing, cpuVars>>

-----------------------------------------------------------------------------
(* The accesses of a call, in order.  A name with a ? polls.              *)

Program(op) ==
  CASE op = "initialize" -> <<"MR", "MR?", "GAR", "SUBR", "SHAR", "SIPR", "VERSIONR">>
    [] op = "open"       -> <<"CLOSE", "CR?", "SIZES", "MODE", "PORT", "OPEN", "CR?", "SR">>
    [] op = "connect"    -> <<"DIPR", "DPORT", "CONNECT", "CR?">>
    [] op = "send"       -> <<"FSR", "TX_WR", "FILL", "FILL2", "PUT_WR", "SEND", "CR?", "IR?", "ACK">>
    [] op = "receive"    -> <<"RSR", "RX_RD", "TAKE", "TAKE2", "PUT_RD", "RECV", "CR?">>
    [] OTHER             -> <<>>

\* A header, and so many dummies to read or the data to write.
ReadOf(reg, off, n)   == <<[reg |-> reg, off |-> off, read |-> TRUE]>> \o [i \in 1 .. n |-> 0]
WriteOf(reg, off, ds) == <<[reg |-> reg, off |-> off, read |-> FALSE]>> \o ds

Offset == ptr % Buf

\* Mutant: the ring is written as if it did not end.
Unsplit == call.n

\* omcu_w5500_ring_write and _read: the part before the end of the ring.
First == IF Buf - Offset < call.n THEN Buf - Offset ELSE call.n

Number(i) == next - call.n + i - 1
Target == (ptr + call.n) % M

Pair(v) == <<v \div B, v % B>>

\* Mutant: the flag of a send that was sent stays.
OnlyTimeout == val \ {"SENDOK"}

\* Both flags are cleared as they were read.
Clears == val

Access(name) ==
  CASE name \in {"FSR", "TX_WR", "RSR", "RX_RD"} -> ReadOf(name, 0, 2)
    [] name = "MR?"    -> ReadOf("MR", 0, 1)
    [] name = "CR?"    -> ReadOf("CR", 0, 1)
    [] name = "IR?"    -> ReadOf("IR", 0, 1)
    [] name \in {"SR", "VERSIONR"} -> ReadOf(name, 0, 1)
    [] name = "FILL"   -> WriteOf("TXBUF", Offset, [i \in 1 .. First |-> Number(i)])
    [] name = "FILL2"  -> WriteOf("TXBUF", 0, [i \in 1 .. call.n - First |-> Number(First + i)])
    [] name = "TAKE"   -> ReadOf("RXBUF", Offset, First)
    [] name = "TAKE2"  -> ReadOf("RXBUF", 0, call.n - First)
    [] name = "PUT_WR" -> WriteOf("TX_WR", 0, Pair(Target))
    [] name = "PUT_RD" -> WriteOf("RX_RD", 0, Pair(Target))
    [] name = "ACK"    -> WriteOf("IR", 0, <<Clears>>)
    [] name \in {"CLOSE", "OPEN", "CONNECT", "SEND", "RECV"} -> WriteOf("CR", 0, <<name>>)
    [] name = "MR"     -> WriteOf("MR", 0, <<1>>)
    [] OTHER           -> WriteOf(name, 0, <<1>>)

-----------------------------------------------------------------------------
(* What follows an access.                                                 *)

Name == Program(call.op)[step]

Value16 == reply[2] * B + reply[3]

\* Mutant: some room is enough.
AnyRoom == Value16 > 0

Fits == Value16 >= call.n

\* The call goes on, with the access n places further on.
Advance(n) == /\ step' = step + n
              /\ UNCHANGED <<up, call, next, taken, ret, torn, lost, abandoned>>

Idle == [op |-> "none", n |-> 0]

UpAfter(op) == CASE op = "initialize" -> "open" [] op = "open" -> "connect"
                 [] op = "connect" -> "run" [] OTHER -> up

\* A failed call leaves behind what it had begun; ok: the last access was
\* exchanged completely.
Return(v, ok) ==
  /\ ret' = [op |-> call.op, n |-> call.n, v |-> v]
  /\ call' = Idle /\ step' = 1
  /\ up' = IF v THEN UpAfter(call.op) ELSE up
  /\ taken' = IF v /\ call.op = "receive" THEN taken \o got' ELSE taken
  /\ torn' = (torn \/ (~v /\ call.op = "send" /\ step \in 5 .. 7))
  /\ lost' = (lost \/ (~v /\ call.op = "receive" /\ step >= 5))
  /\ abandoned' = (abandoned \/ (call.op = "send" /\ step >= 6 /\ ~(ok /\ Name = "ACK")))
  /\ UNCHANGED next

Done == IF step = Len(Program(call.op)) THEN Return(TRUE, TRUE) ELSE Advance(1)

\* A poll has read whether it is over; if not it is read again, so many times.
Polled(over) ==
  IF over THEN Done /\ UNCHANGED giveUps
  ELSE \/ Advance(0) /\ UNCHANGED giveUps
       \/ giveUps < MaxGiveUps /\ giveUps' = giveUps + 1 /\ Return(FALSE, TRUE)

Keep == UNCHANGED <<val, ptr, got>>

Skip(n) == Advance(IF n = call.n THEN 2 ELSE 1)

Polls == {"MR?", "CR?", "IR?"}

\* The access Name came back complete.
Exchanged ==
  /\ Name \notin Polls => UNCHANGED giveUps
  /\ CASE Name = "FSR" -> Keep /\ IF Fits THEN Advance(1) ELSE Return(FALSE, TRUE)
       [] Name = "RSR" ->
            IF Value16 = 0 THEN Keep /\ Return(FALSE, TRUE)
            ELSE /\ call' = [call EXCEPT !.n = IF Value16 < @ THEN Value16 ELSE @]
                 /\ Keep /\ step' = 2 /\ UNCHANGED <<up, next, taken, ret, torn, lost, abandoned>>
       [] Name \in {"TX_WR", "RX_RD"} -> ptr' = Value16 /\ UNCHANGED <<val, got>> /\ Advance(1)
       [] Name = "FILL" -> Keep /\ Skip(First)
       [] Name \in {"TAKE", "TAKE2"} ->
            /\ got' = got \o SubSeq(reply, 2, Len(reply)) /\ UNCHANGED <<val, ptr>>
            /\ IF Name = "TAKE" THEN Skip(First) ELSE Advance(1)
       [] Name \in {"MR?", "CR?"} -> Keep /\ Polled(reply[2] = 0)
       [] Name = "IR?" -> val' = reply[2] /\ UNCHANGED <<ptr, got>> /\ Polled(reply[2] # {})
       [] Name = "ACK" -> Keep /\ Return("SENDOK" \in val, TRUE)
       [] Name = "SR"  -> Keep /\ Return(reply[2] = "init", TRUE)
       [] OTHER -> Keep /\ Done

\* It did not.  The result of clearing IR is ignored.
Failed == Keep /\ Return(Name = "ACK" /\ "SENDOK" \in val, FALSE)

-----------------------------------------------------------------------------
(* The application and the driver.                                         *)

Calling == call.op # "none"

Call(op, n) ==
  /\ ~Calling /\ enable
  /\ (op = up /\ n = 1) \/ (up = "run" /\ op \in {"send", "receive"})
  /\ op = "send" => next + n - 1 <= MaxTx
  /\ call' = [op |-> op, n |-> n] /\ next' = IF op = "send" THEN next + n ELSE next
  /\ step' = 1 /\ val' = 0 /\ ptr' = 0 /\ got' = <<>>
  /\ ret' = [op |-> "none", n |-> 0, v |-> FALSE]
  /\ UNCHANGED <<engVars, frameVars, chipVars, up, taken, giveUps, torn, lost, abandoned>>

Begins == Calling /\ FrameBegin(Access(Name)) /\ UNCHANGED <<chipVars, cpuVars>>

Moves == (StartByte \/ ByteRead) /\ UNCHANGED <<chipVars, cpuVars>>

Ends ==
  /\ FrameEnd /\ NoFrame
  /\ window' = IF cs' THEN window ELSE <<>>
  /\ IF FrameOk THEN Exchanged ELSE Failed /\ UNCHANGED giveUps
  /\ UNCHANGED <<chip, txRing, rxRing, sent, arrived>>

\* A wait runs out: for a byte of the frame, or for one the last call left.
RunsOut ==
  /\ giveUps < MaxGiveUps /\ giveUps' = giveUps + 1
  /\ \/ /\ ByteGivenUp
        /\ UNCHANGED <<chipVars, up, callVars, next, taken, ret, torn, lost, abandoned>>
     \/ /\ Calling /\ fpc = "none" /\ busy
        /\ Failed
        /\ UNCHANGED <<engVars, frameVars, chipVars>>

Opens == ~Calling /\ SpiInit /\ window' = <<>>
         /\ UNCHANGED <<frameVars, chip, txRing, rxRing, sent, arrived, cpuVars>>

Init ==
  /\ BusInit
  /\ window = <<>> /\ chip = Reset
  /\ txRing = [i \in Ring |-> 0] /\ rxRing = [i \in Ring |-> 0]
  /\ sent = <<>> /\ arrived = 0
  /\ up = "initialize" /\ call = Idle /\ step = 1
  /\ val = 0 /\ ptr = 0 /\ got = <<>>
  /\ next = 1 /\ taken = <<>> /\ ret = [op |-> "none", n |-> 0, v |-> FALSE]
  /\ giveUps = 0 /\ torn = FALSE /\ lost = FALSE /\ abandoned = FALSE

Device == Exchange /\ UNCHANGED cpuVars

Next ==
  \/ Opens
  \/ \E op \in {"initialize", "open", "connect", "send", "receive"}, n \in 1 .. Buf : Call(op, n)
  \/ Begins \/ Moves \/ Ends \/ RunsOut
  \/ Device \/ ChipStep

Spec == Init /\ [][Next]_vars

-----------------------------------------------------------------------------

Numbers(s) == {s[i] : i \in 1 .. Len(s)}

(* A send that reports success has put its bytes on the wire, unless an      *)
(* earlier send left the chip's SENDOK behind: it is the flag of the socket, *)
(* not of one send.                                                          *)
SuccessIsSent ==
  (ret.op = "send" /\ ret.v /\ ~abandoned) => next - ret.n .. next - 1 \subseteq Numbers(sent)

(* What is sent keeps its order, has no byte twice and none that was never   *)
(* given.                                                                    *)
SentInOrder ==
  /\ \A i, j \in 1 .. Len(sent) : i < j => sent[i] < sent[j]
  /\ Numbers(sent) \subseteq 1 .. next - 1

(* The application gets the bytes that arrived, all of them and in order.    *)
TakenInOrder == taken = [i \in 1 .. Len(taken) |-> i] /\ Len(taken) <= arrived

(* Both sizes are read a byte at a time while the chip moves them; what the  *)
(* driver puts together is never more than there is.                         *)
SizesAreSafe ==
  (Calling /\ fpc = "end" /\ FrameOk) =>
    /\ Name = "FSR" => Value16 <= Free \/ torn
    /\ Name = "RSR" => Value16 <= Received \/ lost

(* Neither stream is disturbed by its ring, by the other stream or by calls  *)
(* that fail.  The exceptions are a send that failed between the first byte  *)
(* of its pointer and the moment the chip took its command, for a pointer    *)
(* may be half written when the chip uses it, and a receive that failed from *)
(* the move of its pointer on.  Nor is a size of a ring ever overrated.       *)
StreamsInOrder ==
  /\ torn \/ SentInOrder
  /\ lost \/ TakenInOrder
  /\ SizesAreSafe

(* A send never writes over bytes the chip has still to transmit.            *)
UnsentIsKept ==
  [][\A i \in 0 .. Dist(chip.txRd, chip.txEnd) - 1 :
       torn \/ LET p == (chip.txRd + i) % Buf IN txRing'[p] = txRing[p]]_vars
=============================================================================
