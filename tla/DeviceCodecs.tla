---------------------------- MODULE DeviceCodecs ----------------------------
(***************************************************************************)
(* The conversions of omcu_devices.c between the registers of external     *)
(* chips and the values an application sees: the DS3231 clock, the TMP102  *)
(* thermometer, the MCP3008 converter and the MCP4921 output.  A byte is   *)
(* a number in 0..255; a mask of low bits is a remainder.                  *)
(***************************************************************************)
EXTENDS Integers, Sequences

Byte == 0 .. 255

-----------------------------------------------------------------------------
(* Binary coded decimals. *)

Decimal(bcd) == 10 * (bcd \div 16) + (bcd % 16)

IsBcd(bcd, maximum) ==
    bcd \div 16 <= 9 /\ bcd % 16 <= 9 /\ Decimal(bcd) <= maximum

Bcd(value) == 16 * (value \div 10) + (value % 10)

-----------------------------------------------------------------------------
(* The DS3231: registers 0 to 6 hold the time. *)

Time == [second : Nat, minute : Nat, hour : Nat, weekday : Nat,
         day : Nat, month : Nat, year : Nat]

Writable(t) ==
    /\ t.second <= 59 /\ t.minute <= 59 /\ t.hour <= 23
    /\ t.weekday \in 1 .. 7 /\ t.day \in 1 .. 31 /\ t.month \in 1 .. 12
    /\ t.year \in 2000 .. 2099

Frame(t) == << 0, Bcd(t.second), Bcd(t.minute), Bcd(t.hour), t.weekday,
               Bcd(t.day), Bcd(t.month), Bcd(t.year - 2000) >>

(* The chip stores what follows the register address.                      *)
Stored(frame) == [i \in 0 .. 6 |-> frame[i + 2]]

SecondRead(b) == IsBcd(b[0] % 128, 59)
MinuteRead(b) == SecondRead(b) /\ IsBcd(b[1] % 128, 59)
DayRead(b) == MinuteRead(b) /\ IsBcd(b[3] % 64, 31)

TwelveHours(b) == (b[2] \div 64) % 2 = 1
Afternoon(b) == (b[2] \div 32) % 2 = 1

HourRead(b) ==
    IF TwelveHours(b) THEN IsBcd(b[2] % 32, 12) /\ Decimal(b[2] % 32) # 0
                      ELSE IsBcd(b[2] % 64, 23)

Hour(b) ==
    IF TwelveHours(b)
    THEN (Decimal(b[2] % 32) % 12) + (IF Afternoon(b) THEN 12 ELSE 0)
    ELSE Decimal(b[2] % 64)

Readable(b) ==
    /\ DayRead(b) /\ HourRead(b)
    /\ IsBcd(b[5] % 32, 12) /\ IsBcd(b[6], 99)
    /\ b[2] # 255 /\ b[4] \in 1 .. 7

(* What the caller's structure holds afterwards: a refused reading has     *)
(* already replaced the fields that were decoded before the refusal.       *)
ReadTime(t, b) ==
    [second |-> IF SecondRead(b) THEN Decimal(b[0] % 128) ELSE t.second,
     minute |-> IF MinuteRead(b) THEN Decimal(b[1] % 128) ELSE t.minute,
     hour |-> IF Readable(b) THEN Hour(b) ELSE t.hour,
     weekday |-> IF Readable(b) THEN b[4] ELSE t.weekday,
     day |-> IF DayRead(b) THEN Decimal(b[3] % 64) ELSE t.day,
     month |-> IF Readable(b) THEN Decimal(b[5] % 32) ELSE t.month,
     year |-> IF Readable(b) THEN 2000 + Decimal(b[6]) ELSE t.year]

-----------------------------------------------------------------------------
(* The TMP102: twelve bits in two's complement, sixteenths of a degree.    *)

Raw(b0, b1) ==
    LET bits == 16 * b0 + b1 \div 16
    IN  IF bits >= 2048 THEN bits - 4096 ELSE bits

(* The division of C discards the fraction towards zero.                   *)
MilliCelsius(raw) ==
    IF raw >= 0 THEN (625 * raw) \div 10 ELSE -((625 * (-raw)) \div 10)

-----------------------------------------------------------------------------
(* The converters on SPI. *)

Mcp3008Request(channel) == << 1, 128 + 16 * channel, 0 >>

Sample(rx1, rx2) == 256 * (rx1 % 4) + rx2

Mcp4921Word(value, buffered, gain1x) ==
    4096 + value + (IF buffered THEN 16384 ELSE 0)
                 + (IF gain1x THEN 8192 ELSE 0)

Mcp4921Frame(value, buffered, gain1x) ==
    << Mcp4921Word(value, buffered, gain1x) \div 256,
       Mcp4921Word(value, buffered, gain1x) % 256 >>
=============================================================================
