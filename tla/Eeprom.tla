-------------------------------- MODULE Eeprom --------------------------------
(***************************************************************************)
(* The bounded I2C driver (sdk/drivers/omcu_bus.c) and the AT24 calls of   *)
(* sdk/drivers/omcu_devices.c, over I2cBus.                                *)
(*                                                                         *)
(* A bus function is a script of commands; every command waits for BUSY to *)
(* fall, writes CMD and polls STATUS.  Each of the two waits may use up    *)
(* its spin budget at any moment.                                          *)
(***************************************************************************)
EXTENDS I2cBus, Sequences

CONSTANTS
  Calls,      \* the calls the application makes
  Attempts    \* ready_poll_attempts

\* address_7bit, memory_address and the lengths the drivers accept; the caller
\* gives the page size of the chip or a part of it, and 8-bit addresses reach
\* no further than the chip.
Devices   == {d \in Byte : 2 * d + 1 \in Byte}
Addresses == 0 .. Base * Base - 1
Lengths   == Nat \ {0}

ASSUME CallsAssumption ==
  /\ Attempts \in Nat \ {0}
  /\ Calls \subseteq
       [op : {"write"}, dev : Devices, addr : Addresses, page : Lengths, data : Seq(Byte)]
       \cup [op : {"read"}, dev : Devices, addr : Addresses, n : Lengths]
       \cup [op : {"current"}, dev : Devices, addr : Addresses, n : Lengths]
  /\ \A c \in Calls : c.op = "write" => Page % c.page = 0
  /\ 1 \in Widths => Base <= Size

VARIABLES
  call,       \* the current or the last call
  pc, script, at,       \* the bus function: its commands and the next one
  got,                  \* the bytes it has read
  stage, written, tries,  \* omcu_at24cxx_write
  ret,        \* what the call returned
  was,        \* the chip and its cells when the call reached the bus
  gaveUp,     \* this call ran out of budget
  everGaveUp  \* some call did

cpuVars == <<call, pc, script, at, got, stage, written, tries, ret, was, gaveUp, everGaveUp>>
vars == <<busVars, cpuVars>>

-----------------------------------------------------------------------------
(* The bus functions.                                                      *)

Cmd(c) == <<[cmd |-> c, byte |-> 0]>>
Writes(bytes) == [i \in 1 .. Len(bytes) |-> [cmd |-> "WRITE", byte |-> bytes[i]]]

\* The last byte of a read is not acknowledged; that makes the chip let go.
Reads(n) == [i \in 1 .. n |->
               [cmd |-> IF i = n THEN "READ_NACK" ELSE "READ_ACK", byte |-> 0]]

I2cWrite(dev, bytes) == Cmd("START") \o Writes(<<2 * dev>> \o bytes) \o Cmd("STOP")
I2cRead(dev, n) ==
  Cmd("START") \o Writes(<<2 * dev + 1>>) \o Reads(n) \o Cmd("STOP")
I2cWriteRead(dev, bytes, n) ==
  Cmd("START") \o Writes(<<2 * dev>> \o bytes) \o I2cRead(dev, n)

-----------------------------------------------------------------------------
(* The memory address on the wire, and the pieces of a long write.         *)

Addressable(a) == chip.width = 2 \/ a < Base
MakeAddress(a) == IF chip.width = 1 THEN <<a>> ELSE <<a \div Base, a % Base>>

\* Mutant: every piece is a full page, wherever it starts.
FullPages(c, w) == LET rest == Len(c.data) - w
                   IN  IF c.page < rest THEN c.page ELSE rest

\* No piece crosses a page of the chip.
Chunk(c, w) == LET room == c.page - ((c.addr + w) % c.page)
                   rest == Len(c.data) - w
               IN  IF room < rest THEN room ELSE rest

Piece(c, w) == I2cWrite(c.dev, MakeAddress(c.addr + w) \o SubSeq(c.data, w + 1, w + Chunk(c, w)))

\* What the drivers refuse before they touch the bus is not enumerated.
Accepted(c) ==
  /\ Addressable(c.addr)
  /\ c.op = "write" => c.data # <<>> /\ Len(c.data) <= Base * Base - c.addr

\* A chip with two address bytes may be smaller than they can say; the caller
\* knows its size.
InsideChip(c) == chip.width = 2 /\ c.op = "write" => c.addr + Len(c.data) <= Size

-----------------------------------------------------------------------------
(* Starting and ending a bus function.                                     *)

Run(s) == script' = s /\ at' = 1 /\ got' = <<>> /\ pc' = "issue"

Return(v) == /\ ret' = v /\ pc' = "idle" /\ script' = <<>> /\ at' = 1
             /\ got' = IF v = "true" THEN got ELSE <<>>

Begin(c) ==
  /\ pc = "idle" /\ enable /\ Accepted(c) /\ InsideChip(c)
  /\ call' = c /\ ret' = "none" /\ gaveUp' = FALSE
  /\ stage' = "piece" /\ written' = 0 /\ tries' = 0
  /\ Run(CASE c.op = "read"    -> I2cWriteRead(c.dev, MakeAddress(c.addr), c.n)
           [] c.op = "current" -> I2cRead(c.dev, c.n)
           [] c.op = "write"   -> Piece(c, 0))
  /\ UNCHANGED <<busVars, was, everGaveUp>>

\* A piece went out: poll with empty writes until the chip answers again.
PollChip == /\ stage' = "ready" /\ tries' = 0 /\ UNCHANGED <<written, ret>>
            /\ Run(I2cWrite(call.dev, <<>>))

\* The chip answers: the next piece, if there is one and it has an address.
NextPiece ==
  LET w == written + Chunk(call, written) IN
  /\ written' = w /\ stage' = "piece" /\ tries' = 0
  /\ IF w = Len(call.data) THEN Return("true")
     ELSE IF ~Addressable(call.addr + w) THEN Return("false")
     ELSE Run(Piece(call, w)) /\ UNCHANGED ret

PollAgain == /\ tries' = tries + 1 /\ UNCHANGED <<written, stage, ret>>
             /\ Run(I2cWrite(call.dev, <<>>))

\* A bus function returned ok.
FunctionEnds(ok) ==
  CASE call.op # "write" ->
         Return(IF ok THEN "true" ELSE "false") /\ UNCHANGED <<stage, written, tries>>
    [] call.op = "write" /\ stage = "piece" /\ ok -> PollChip
    [] call.op = "write" /\ stage = "ready" /\ ok -> NextPiece
    [] call.op = "write" /\ stage = "ready" /\ ~ok /\ tries + 1 < Attempts -> PollAgain
    [] OTHER -> Return("false") /\ UNCHANGED <<stage, written, tries>>

\* Mutant: a command that fails ends the function, and the bus stays held.
NoStop == FunctionEnds(FALSE)

\* A command failed: without a bus there is nothing to stop, and a STOP is not
\* repeated; anything else is followed by a STOP whose result is ignored.
CommandFailed ==
  IF at \in {1, Len(script)} THEN FunctionEnds(FALSE)
  ELSE pc' = "stop" /\ UNCHANGED <<script, at, got, stage, written, tries, ret>>

\* A command succeeded; DATA holds what a read brought.
CommandDone ==
  IF at = Len(script) THEN FunctionEnds(TRUE)
  ELSE /\ at' = at + 1 /\ pc' = "issue"
       /\ got' = IF script[at].cmd \in {"READ_ACK", "READ_NACK"} THEN Append(got, rx) ELSE got
       /\ UNCHANGED <<script, stage, written, tries, ret>>

-----------------------------------------------------------------------------
(* The steps of the CPU.                                                   *)

\* Mutant: BUSY is not waited for; the engine drops the command.
Ungated ==
  /\ pc = "issue"
  /\ pc' = "poll"
  /\ IF job = "idle" THEN Command(script[at].cmd, script[at].byte)
     ELSE stat' = {} /\ UNCHANGED <<enable, job, owned, tx, rx, ackBit, chip, mem, cycling>>
  /\ UNCHANGED <<call, script, at, got, stage, written, tries, ret, was, gaveUp, everGaveUp>>

\* BUSY is low: clear STATUS, write DATA and CMD.  The first command of a call
\* marks what the chip held when the call reached it.
Issue ==
  /\ pc = "issue" /\ job = "idle"
  /\ Command(script[at].cmd, script[at].byte)
  /\ pc' = "poll"
  /\ was' = IF at = 1 /\ stage = "piece" /\ written = 0
            THEN [mem |-> mem, ptr |-> chip.ptr, page |-> chip.page, call |-> call] ELSE was
  /\ UNCHANGED <<call, script, at, got, stage, written, tries, ret, gaveUp, everGaveUp>>

IssueStop ==
  /\ pc = "stop" /\ job = "idle"
  /\ Command("STOP", 0)
  /\ pc' = "stopping"
  /\ UNCHANGED <<call, script, at, got, stage, written, tries, ret, was, gaveUp, everGaveUp>>

\* The first terminal bit decides, even while BUSY is still high.
Poll ==
  /\ pc = "poll" /\ stat # {}
  /\ IF stat = {"DONE"} THEN CommandDone ELSE CommandFailed
  /\ UNCHANGED <<busVars, call, was, gaveUp, everGaveUp>>

PollStop ==
  /\ pc = "stopping" /\ stat # {}
  /\ FunctionEnds(FALSE)
  /\ UNCHANGED <<busVars, call, was, gaveUp, everGaveUp>>

\* Mutant: a START that does not come is tried again.
RetryStart ==
  /\ \/ pc \in {"issue", "stop"} /\ job # "idle"
     \/ pc \in {"poll", "stopping"} /\ stat = {}
  /\ IF pc \in {"issue", "poll"} THEN
       IF at > 1 THEN CommandFailed
       ELSE /\ pc' = IF pc = "issue" THEN "poll" ELSE "issue"
            /\ UNCHANGED <<script, at, got, stage, written, tries, ret>>
     ELSE FunctionEnds(FALSE)
  /\ gaveUp' = TRUE /\ everGaveUp' = TRUE
  /\ UNCHANGED <<busVars, call, was>>

\* The spin budget runs out while the engine is busy with something.
GiveUp ==
  /\ \/ pc \in {"issue", "stop"} /\ job # "idle"
     \/ pc \in {"poll", "stopping"} /\ stat = {}
  /\ IF pc \in {"issue", "poll"} THEN CommandFailed ELSE FunctionEnds(FALSE)
  /\ gaveUp' = TRUE /\ everGaveUp' = TRUE
  /\ UNCHANGED <<busVars, call, was>>

\* omcu_i2c0_init, between calls.  An engine that is moving a byte is left to
\* finish it first.
I2cInit ==
  /\ pc = "idle" /\ job \in {"idle", "start_wait", "restart"}
  /\ Reopen
  /\ UNCHANGED cpuVars

Driver == Issue \/ IssueStop \/ Poll \/ PollStop \/ GiveUp

Init ==
  /\ BusInit /\ mem \in [Cells -> {Base - 1}]
  /\ pc = "idle" /\ call = [op |-> "none"] /\ script = <<>> /\ at = 1 /\ got = <<>>
  /\ stage = "piece" /\ written = 0 /\ tries = 0 /\ ret = "none"
  /\ was = [mem |-> mem, ptr |-> 0, page |-> <<>>, call |-> call]
  /\ gaveUp = FALSE /\ everGaveUp = FALSE

Hardware == (EngineStep \/ CycleEnds) /\ UNCHANGED cpuVars

Next == Hardware \/ Driver \/ I2cInit \/ \E c \in Calls : Begin(c)

\* The engine is clocked and the loops of the driver run on.
Spec == Init /\ [][Next]_vars
        /\ WF_vars(EngineStep /\ UNCHANGED cpuVars) /\ WF_vars(Driver)

-----------------------------------------------------------------------------

\* The cells a write is about, and what it puts there.
Range(c) == IF c.op = "write" THEN c.addr .. c.addr + Len(c.data) - 1 ELSE {}
Value(c, p) == c.data[p - c.addr + 1]

(* A call changes only the cells it names, and only to the bytes it was      *)
(* given, whatever fails on the way: omcu_at24cxx_write cuts its data at the *)
(* pages, where the chip would wrap around.  The exception is what an earlier *)
(* call left in the chip's buffer when it gave up before its STOP.           *)
OnlyItsCells ==
  was.call = call =>
    \A p \in Cells : mem[p] # was.mem[p] =>
      \/ p \in Range(call) /\ mem[p] = Value(call, p)
      \/ p \in DOMAIN was.page /\ mem[p] = was.page[p]

(* A write that reports success has every byte in its cell, with the chip    *)
(* answering again; a read that reports success has the bytes of the cells   *)
(* it asked for.  Commands that were given up finish late, and none of their *)
(* status reaches a later command.                                           *)
SuccessIsTrue ==
  ret = "true" =>
    IF call.op = "write" THEN \A p \in Range(call) : mem[p] = Value(call, p)
    ELSE LET first == IF call.op = "read" THEN call.addr ELSE was.ptr IN
         got = [i \in 1 .. call.n |-> was.mem[(first + i - 1) % Size]]

(* Whatever the chip answers, a call that did not run out of budget leaves   *)
(* the bus released and the chip asleep.  The bus is only ever lost, with    *)
(* the chip holding SDA and no command that could make it let go, after a    *)
(* call ran out of budget.                                                   *)
ReturnsTheBus ==
  /\ (pc = "idle" /\ ret # "none" /\ ~gaveUp) =>
       job = "idle" /\ ~owned /\ chip.mode = "idle"
  /\ (PullsSda /\ (~owned \/ Wedged)) => everGaveUp

(* Every call returns, even on a lost bus.                                   *)
CallReturns == pc # "idle" ~> pc = "idle"
=============================================================================
