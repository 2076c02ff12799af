------------------------------- MODULE Clock -------------------------------
(***************************************************************************)
(* An application that sets and reads a DS3231 clock on I2C0 through       *)
(* omcu_devices.c.  The chip is modelled from how the driver uses it: it   *)
(* keeps the bytes written to its registers and counts seconds in the      *)
(* first of them.  A transfer of omcu_bus.c succeeds, or it fails after    *)
(* some of its bytes.                                                      *)
(***************************************************************************)
EXTENDS DeviceCodecs

CONSTANTS Times        \* the times the application tries to set

VARIABLES registers,   \* the chip's registers 0 to 6
          known,       \* the time the chip shows: one, or none after a fault
          time,        \* the caller's structure
          taken        \* what the chip showed at the last accepted transfer

vars == << registers, known, time, taken >>

(* What the chip holds at power-up: midnight of 1 January 2000, day one of *)
(* the week.                                                               *)
Blank == [second |-> 0, minute |-> 0, hour |-> 0, weekday |-> 1,
          day |-> 1, month |-> 1, year |-> 2000]

Init ==
    /\ registers = Stored(Frame(Blank))
    /\ known = {}
    /\ time = Blank
    /\ taken = {}

(* A second passes inside a minute.                                        *)
Tick ==
    /\ Decimal(registers[0]) < 59
    /\ registers' = [registers EXCEPT ![0] = Bcd(Decimal(@) + 1)]
    /\ known' = {[t EXCEPT !.second = @ + 1] : t \in known}
    /\ taken' = {}
    /\ UNCHANGED time

(* omcu_ds3231_write_time: an unacceptable time is refused before the bus  *)
(* is used; a transfer that fails has written a first part of the frame.   *)
WriteTime(t) ==
    /\ Writable(t)
    /\ registers' = Stored(Frame(t))
    /\ known' = {t}
    /\ taken' = {}
    /\ UNCHANGED time

WriteFails(t) ==
    /\ Writable(t)
    /\ \E n \in 0 .. 6 :
           registers' = [i \in 0 .. 6 |->
               IF i < n THEN Stored(Frame(t))[i] ELSE registers[i]]
    /\ known' = IF registers' = registers THEN known ELSE {}
    /\ taken' = {}
    /\ UNCHANGED time

(* omcu_ds3231_read_time: a transfer that fails leaves the caller's        *)
(* structure alone.                                                        *)
Read ==
    /\ time' = ReadTime(time, registers)
    /\ taken' = known
    /\ UNCHANGED << registers, known >>

ReadFails ==
    /\ taken' = {}
    /\ UNCHANGED << registers, known, time >>

Next ==
    \/ Tick \/ Read \/ ReadFails
    \/ \E t \in Times : WriteTime(t) \/ WriteFails(t)

Spec == Init /\ [][Next]_vars

(* A time that was written to the clock is read back, with the seconds     *)
(* that have passed since: omcu_ds3231_read_time accepts the registers and *)
(* hands over that time (the minimum acceptance of the DS3231 driver).     *)
ReadsBack ==
    \A t \in taken : Readable(registers) /\ time = t
=============================================================================
