-------------------------------- MODULE I2cBus --------------------------------
(***************************************************************************)
(* I2C0, rtl/peripherals/omcu_i2c.sv, and one AT24-style EEPROM on its     *)
(* wires (external: the chip as sdk/drivers/omcu_devices.c uses it).       *)
(*                                                                         *)
(* The engine moves one byte per command.  Its bit states are grouped into *)
(* the phases that software or the chip can tell apart; a stretched clock  *)
(* is a phase that takes long.                                             *)
(***************************************************************************)
EXTENDS Integers

CONSTANTS
  Base,       \* the number of values of a byte
  ChipAddr,   \* the 7-bit address the chip answers to
  Size,       \* the cells of the chip
  Page,       \* the cells of one of its pages
  Widths,     \* the numbers of address bytes the fitted chip may take
  PullsFirst  \* the bytes whose first bit is zero

Byte  == 0 .. Base - 1
Cells == 0 .. Size - 1

ASSUME BusAssumption ==
  /\ Base \in Nat /\ ChipAddr \in Nat /\ 2 * ChipAddr + 1 \in Byte
  /\ Size \in Nat \ {0} /\ Page \in Nat \ {0} /\ Size % Page = 0
  /\ Widths \subseteq {1, 2} /\ PullsFirst \subseteq Byte

VARIABLES
  enable,     \* enable_q
  job,        \* state_q in groups; "idle" is BUSY low
  stat,       \* done_q, ack_error_q, command_error_q
  owned,      \* bus_owned_q
  tx, rx,     \* tx_data_q, rx_data_q
  ackBit,     \* read_ack_q
  chip,       \* what the chip takes the next byte for
  mem,        \* its cells
  cycling     \* it is programming itself and answers nobody

engVars == <<enable, job, stat, owned, tx, rx, ackBit>>
busVars == <<engVars, chip, mem, cycling>>

-----------------------------------------------------------------------------
(* The chip.                                                               *)

\* Nothing buffered, bus released.
Asleep(c) == [c EXCEPT !.mode = "idle", !.need = 0, !.page = <<>>]

\* A START drops whatever was buffered and makes the next byte an address.
Selecting(c) == [c EXCEPT !.mode = "select", !.need = 0, !.page = <<>>]

NextInPage(p) == (p - (p % Page)) + ((p + 1) % Page)

\* The byte b has been shifted out: what the chip is then, and whether it
\* pulls SDA low in the ninth clock.
Answers(b) ==
  \/ chip.mode = "select" /\ b \div 2 = ChipAddr /\ ~cycling
  \/ chip.mode = "receive"

Taken(b) ==
  IF ~Answers(b) THEN Asleep(chip)
  ELSE CASE chip.mode = "select" /\ b % 2 = 1 -> [chip EXCEPT !.mode = "send"]
         [] chip.mode = "select" /\ b % 2 = 0 ->
              [chip EXCEPT !.mode = "receive", !.need = chip.width]
         [] chip.mode = "receive" /\ chip.need > 0 ->
              [chip EXCEPT !.need = @ - 1,
                 !.ptr = (IF chip.need = 1 /\ chip.width = 2 THEN @ * Base + b ELSE b) % Size]
         [] OTHER ->
              [chip EXCEPT !.ptr = NextInPage(@),
                 !.page = [p \in DOMAIN @ \cup {chip.ptr} |->
                             IF p = chip.ptr THEN b ELSE chip.page[p]]]

\* Between bytes a sending chip already drives the first bit of its next one.
PullsSda == chip.mode = "send" /\ mem[chip.ptr] \in PullsFirst

\* A STOP on the wires: the buffered bytes are programmed.  A chip that holds
\* SDA low sees no STOP.
SeesStop ==
  IF PullsSda THEN UNCHANGED <<chip, mem, cycling>>
  ELSE /\ chip' = Asleep(chip)
       /\ mem' = [p \in Cells |-> IF p \in DOMAIN chip.page THEN chip.page[p] ELSE mem[p]]
       /\ cycling' = (cycling \/ chip.page # <<>>)

\* The chip's own programming cycle ends.
CycleEnds ==
  /\ cycling
  /\ cycling' = FALSE
  /\ UNCHANGED <<engVars, chip, mem>>

-----------------------------------------------------------------------------
(* The engine between commands.                                            *)

Finish(bits) == job' = "idle" /\ stat' = stat \cup bits \cup {"DONE"}

\* A START needs both lines high, however long that takes.
StartWait ==
  /\ job \in {"start_wait", "restart"}
  /\ ~PullsSda
  /\ job' = "start" /\ owned' = TRUE
  /\ chip' = Selecting(chip)
  /\ UNCHANGED <<enable, stat, tx, rx, ackBit, mem, cycling>>

StartEnds ==
  /\ job = "start"
  /\ Finish({})
  /\ UNCHANGED <<enable, owned, tx, rx, ackBit, chip, mem, cycling>>

\* ACK_ERROR rises with the ninth clock, DONE only after it.
WriteByte ==
  /\ job = "write"
  /\ job' = "write_ack"
  /\ stat' = IF Answers(tx) THEN stat ELSE stat \cup {"ACK_ERROR"}
  /\ chip' = Taken(tx)
  /\ UNCHANGED <<enable, owned, tx, rx, ackBit, mem, cycling>>

WriteEnds ==
  /\ job = "write_ack"
  /\ Finish({})
  /\ UNCHANGED <<enable, owned, tx, rx, ackBit, chip, mem, cycling>>

\* Nobody sending reads as ones.
ReadByte ==
  /\ job = "read"
  /\ job' = "read_ack"
  /\ rx' = IF chip.mode = "send" THEN mem[chip.ptr] ELSE Base - 1
  /\ UNCHANGED <<enable, stat, owned, tx, ackBit, chip, mem, cycling>>

ReadEnds ==
  /\ job = "read_ack"
  /\ Finish({})
  /\ chip' = IF chip.mode # "send" THEN chip
             ELSE IF ackBit THEN [chip EXCEPT !.ptr = (@ + 1) % Size] ELSE Asleep(chip)
  /\ UNCHANGED <<enable, owned, tx, rx, ackBit, mem, cycling>>

StopEnds ==
  /\ job = "stop"
  /\ Finish({})
  /\ owned' = FALSE
  /\ SeesStop
  /\ UNCHANGED <<enable, tx, rx, ackBit>>

EngineStep == \/ StartWait \/ StartEnds \/ WriteByte \/ WriteEnds
              \/ ReadByte \/ ReadEnds \/ StopEnds

-----------------------------------------------------------------------------
(* Register writes.  The driver clears STATUS, sets DATA and writes CMD    *)
(* while BUSY is low, when nothing else can change: one step.              *)

JobOf(c) ==
  CASE c = "START" -> (IF owned THEN "restart" ELSE "start_wait")
    [] c = "WRITE" -> "write"
    [] c = "STOP" -> "stop"
    [] OTHER -> "read"

\* A byte to write goes to DATA first.  A command for a bus the engine does
\* not own is refused at once.
Command(c, byte) ==
  /\ tx' = IF c = "WRITE" THEN byte ELSE tx
  /\ IF enable /\ (c = "START" \/ owned)
     THEN /\ job' = JobOf(c) /\ stat' = {}
          /\ ackBit' = IF c \in {"READ_ACK", "READ_NACK"} THEN c = "READ_ACK" ELSE ackBit
     ELSE /\ stat' = {"DONE", "COMMAND_ERROR"}
          /\ UNCHANGED <<job, ackBit>>
  /\ UNCHANGED <<enable, owned, rx, chip, mem, cycling>>

\* CTRL off and on again: the engine lets go of both lines.  Letting go of a
\* held bus may look like a STOP to the chip.
Reopen ==
  /\ enable' = TRUE /\ job' = "idle" /\ stat' = {} /\ owned' = FALSE
  /\ UNCHANGED <<tx, rx, ackBit>>
  /\ \/ UNCHANGED <<chip, mem, cycling>>
     \/ owned /\ SeesStop

Wedged == job \in {"start_wait", "restart"} /\ PullsSda

BusInit ==
  /\ enable = FALSE /\ job = "idle" /\ stat = {} /\ owned = FALSE
  /\ tx = 0 /\ rx = 0 /\ ackBit = FALSE
  /\ \E w \in Widths :
       chip = [mode |-> "idle", need |-> 0, ptr |-> 0, page |-> <<>>, width |-> w]
  /\ cycling = FALSE
=============================================================================
