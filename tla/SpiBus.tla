-------------------------------- MODULE SpiBus --------------------------------
(***************************************************************************)
(* SPI0, rtl/peripherals/omcu_spi.sv, and the framed transfers of          *)
(* sdk/drivers/omcu_bus.c: several bytes under one assertion of CS, each   *)
(* with a bounded wait.                                                    *)
(*                                                                         *)
(* A unit is what one omcu_spi0_frame_transfer exchanges.  The device that *)
(* is selected is the business of the module that extends this one.        *)
(***************************************************************************)
EXTENDS Naturals, Sequences

VARIABLES
  enable,   \* enable_q
  busy, done, hold,   \* busy_q, done_q, cs_hold_q
  cs,       \* CS asserted
  shift,    \* the shift register: the unit going out, then the one that came in
  units,    \* the frame being transferred
  k,        \* the unit it is at
  fpc,      \* where the frame is
  reply     \* what it has read

engVars   == <<enable, busy, done, hold, cs, shift>>
frameVars == <<units, k, fpc, reply>>

-----------------------------------------------------------------------------
(* The engine.                                                             *)

\* The last clock of a byte; answer is what the device shifted in.
ByteDone(answer) ==
  /\ busy
  /\ busy' = FALSE /\ done' = TRUE /\ cs' = hold /\ shift' = answer
  /\ UNCHANGED <<enable, hold, frameVars>>

\* CTRL with another CS_HOLD.  CS is let go at once unless a byte is moving.
WriteHold(h) ==
  /\ hold' = h
  /\ cs' = (cs /\ (h \/ busy))
  /\ UNCHANGED <<enable, busy, done, shift>>

\* omcu_spi0_init: off, which drops a byte that is moving, and on again.
SpiInit ==
  /\ enable' = TRUE
  /\ busy' = FALSE /\ done' = FALSE /\ hold' = FALSE /\ cs' = FALSE
  /\ UNCHANGED shift

-----------------------------------------------------------------------------
(* omcu_spi0_frame_begin, _frame_transfer and _frame_end.                  *)

NoFrame == units' = <<>> /\ k' = 1 /\ fpc' = "none" /\ reply' = <<>>

\* Mutant: the frame is opened under a byte that is still moving.
HastyBegin(us) ==
  /\ fpc = "none" /\ enable
  /\ units' = us /\ fpc' = "byte" /\ WriteHold(TRUE)
  /\ UNCHANGED <<k, reply>>

FrameBegin(us) ==
  /\ fpc = "none" /\ enable /\ ~busy
  /\ units' = us /\ fpc' = "byte" /\ WriteHold(TRUE)
  /\ UNCHANGED <<k, reply>>

\* STATUS, DATA and START, with BUSY low.
StartByte ==
  /\ fpc = "byte" /\ ~busy
  /\ fpc' = "poll"
  /\ busy' = TRUE /\ done' = FALSE /\ cs' = TRUE /\ shift' = units[k]
  /\ UNCHANGED <<enable, hold, units, k, reply>>

\* BUSY fell: take DATA and acknowledge DONE.
ByteRead ==
  /\ fpc = "poll" /\ ~busy
  /\ reply' = Append(reply, shift) /\ k' = k + 1
  /\ fpc' = IF k = Len(units) THEN "end" ELSE "byte"
  /\ done' = FALSE
  /\ UNCHANGED <<enable, busy, hold, cs, shift, units>>

\* The wait for a byte runs out; the byte goes on.
ByteGivenUp ==
  /\ fpc = "poll" /\ busy
  /\ fpc' = "end"
  /\ UNCHANGED <<engVars, units, k, reply>>

\* omcu_spi0_frame_end, on every path.
FrameEnd == fpc = "end" /\ WriteHold(FALSE)

FrameOk == k > Len(units)

BusInit ==
  /\ enable = FALSE /\ busy = FALSE /\ done = FALSE /\ hold = FALSE /\ cs = FALSE
  /\ shift = 0
  /\ units = <<>> /\ k = 1 /\ fpc = "none" /\ reply = <<>>

(* CS never spans two frames: a frame starts from a released CS, however the *)
(* last one ended and whatever it left in the shift register.                *)
FramesApart == (fpc = "byte" /\ k = 1) => ~cs /\ hold
=============================================================================
