# OpenMCU-TN9K in TLA+

OpenMCU-TN9K is a small microcontroller (PicoRV32, User Flash boot, a dozen
peripherals) for the Tang Nano 9K, with its boot ROM, SDK and host tools. This
directory holds TLA+ models of its core logic, the TLC configurations that
check them on small instances, and TLAPS proofs of the properties that matter
most. Paths below are relative to the repository.

## The system

| Part | State it keeps | Operations | Talks to |
| --- | --- | --- | --- |
| Boot ROM (`sdk/bootloader`) | update session, cached selection, `force_loader` | HELLO, BEGIN, DATA, END, BOOT, listening window, image start | User Flash, UART0, BOOT_CTRL |
| Image slots (`sdk/include/omcu_image.h`) | two slots: header, STATE, payload, over erase pages | erase page, program word, scan | boot ROM |
| Host tool (`tools/omcu_flash.py`) | position in the image, frame number, attempts | stop-and-wait exchange with retries | UART0 |
| User Flash controller (`omcu_user_flash.sv`) | FSM, wait counters, address and data latches | read, program, erase with timed strobes | CPU bus, flash macro |
| Reset sequencer (`omcu_tn9k_bringup_top.sv`) and BOOT_CTRL (`omcu_sysctrl.sv`) | release shift register, cause, count, pending request | key, watchdog and software reset, acknowledge | WDT0, boot ROM, application |
| WDT0 | epoch counter, window, heartbeats, latched STATUS | feed, kick, configure, expiry | sequencer, IRQCTRL, application |
| FAULT0, PINMUX, PWM0/1, GPIO0 | filter, latched trip, snapshot, pad selection | trip, clear, gate outputs | pads, IRQCTRL |
| IRQCTRL and sources (TIMER0/1, ALARM0, PULSE0, GPIO0, WDT0, UART, SPI, I2C) | sticky pending, enable, force | set, acknowledge | CPU, `omcu_irq.S` |
| I2C0, SPI0, UART0/1 | shift engines, DONE and error flags | commands | SDK drivers |
| CPU system, MMIO fabric, divider | handshake and decode state | bus accesses | everything |
| SDK bus drivers (`omcu_bus.c`) | where a transfer is, its spin budgets | bounded transfers, STOP after a failure | I2C0, SPI0 |
| SDK device drivers (`omcu_devices.c`) | where a call is | AT24 and W5500 calls, DS3231, TMP102, MCP3008, MCP4921 | bus drivers, external chips |
| Interrupt path (`omcu_irq.S`, `omcu_irq.c`, applications) | the handler's argument, the CPU's latch and mask | entry, dispatch, RETIRQ | IRQCTRL, peripherals |

What is hard here: power loss and resets between and inside flash operations;
frames and answers lost, late or repeated; a cached selection used long after
it was computed; registers whose hardware event and software acknowledge fall
on the same clock; comparisons for equality with counters that must not be
stepped over; requests that outlive the reset they cause; interrupts that are
latched in three places; a driver that gives up while the engine or the chip
goes on; 16-bit registers read a byte at a time while a chip moves them. The list with source
lines and the properties that cover each is `hazards` in `PROJECT.json`.

## Modules

| Module | Models | Checked by |
| --- | --- | --- |
| `ImageStore` | the abstract promise of a field update: one current image, replaced in one step | property `UpdatesAreAtomic` |
| `ImageSlots` | the flash as bits: erase empties, programming only adds, both may stop short | through `Bootloader` |
| `Bootloader`, `BootloaderSafety` | the boot ROM, one action per handler, page, word and reset; its properties and the mapping onto `ImageStore` | `MCUpdateLink` |
| `UpdateLink` | `omcu_flash.py` and the line, composed with the ROM | `MCUpdateLink` |
| `Watchdog` | WDT0, one action per bus access in a clock | through `ResetDomain` |
| `ResetDomain` | sequencer, BOOT_CTRL, ROM start, application, composed with the watchdog | `MCResetDomain` |
| `FaultChain` | FAULT0 with the pin claims, the pad multiplexer and GPIO0's snapshot | `MCFaultChain` |
| `Gpio` | the inputs of GPIO0: synchronisers, both filters, edge events, snapshot, and the SDK calls on them | `MCFaultChain` |
| `Alarm` | TIMER0, ALARM0 and the SDK functions that program them | `MCAlarm` |
| `Interrupts` | event, IRQCTRL, the CPU's latch, entry code, the weak handler and that of `irq_smoke`, the interrupt calls of `omcu.h` | `MCInterrupts` |
| `I2cBus` | I2C0 and an AT24 EEPROM on its wires | through `Eeprom` |
| `Eeprom` | the I2C part of `omcu_bus.c` and the AT24 calls, composed with `I2cBus` | `MCEeprom` |
| `SpiBus` | SPI0 and the framed transfers of `omcu_bus.c` | through `W5500` |
| `W5500` | the W5500 calls and the chip, composed with `SpiBus` | itself |
| `DeviceCodecs` | the conversions of DS3231, TMP102, MCP3008 and MCP4921 | `DeviceProofs`, and `Clock` |
| `Clock` | an application that sets and reads the DS3231 | `MCClock` |
| `Divider` | the RV32M divider and its handshake with the CPU | `MCUnits` |
| `FlashStore` | the abstract promise of the User Flash window: each access performed once, or refused | property `ImplementsStore` |
| `UserFlash` | the User Flash controller, clock by clock, with the pins of the macro | `MCUnits` |
| `InputFilter` | the synchroniser and filter that PULSE0 and TIMER1 share in design | through `Pulse` and `Timer1` |
| `Pulse` | PULSE0 and its SDK calls | `MCPulse` |
| `Timer1` | TIMER1 and its SDK calls, with a shaft on its pins | `MCUnits` |
| `BootloaderProofs` (ROM and line), `ResetDomainProofs` (with the watchdog), `PinProofs` (FAULT0 and PULSE0), `AlarmProofs`, `InterruptsProofs` (with GPIO0's inputs), `EepromProofs`, `UnitProofs` (divider, TIMER1 and User Flash), `DeviceProofs` (the W5500 and the conversions) | the theorems | TLAPS |

### Boot ROM and slots

`pc` names what the ROM does. A handler that ends without touching the flash is
one action (`Hello`, `Boot`, refused frames, replays); one that changes it moves
`pc` through `erase`, `header`, `data` or `commit`, one page or word per step, with
its locals in `job`. `session`, `cache` (`has_image` and `selected`), `force` and
`saw` are the variables of `omcu_bootloader_main`. A response is `reply` until its
last byte has left; meanwhile the ROM hears nothing.

A flash word is the set of its programmed bits (the inverse of the electrical
value). Every operation comes in a *loose* form that leaves any intermediate set
of bits: `CutOff` uses it for a reset in mid-operation, and with `WeakCells` the
operations themselves may do so. The header is one cell that is blank, torn or
complete, because its own CRC-32 tells these apart; a CRC-32 of a payload is
represented by the payload (no collisions). A committed image does not decay.
Frames are chosen by the environment without any assumption on the host, so the
ROM's properties hold for any host.

### Host and line

The tool resends until an answer carries the number of its frame. The line may
lose frames and answers of the commands in `Lossy`, the tool's timeout may elapse
while the ROM still works for commands in `Impatient`, and a frame that meets a
busy ROM is lost, as UART0 holds one byte. Answers are read in order. Two
remarks that the runs made precise: a late answer costs an attempt in the *next*
exchange as well, so with `--retries 3` one early timeout and one loss together
can exhaust the attempts of END (the kind line of the run `update` therefore has
four); and BEGIN is never resent by the tool, so the kind line does not lose it.

### Watchdog and resets

Every action of `Watchdog` is one rising clock edge with the bus access of that
clock. `Raised` is the set of STATUS bits the hardware sets on the edge, `Flags`
the order in which acknowledgement and event are applied, `Advance` and `Restart`
the two fates of the epoch. Interrupt enables only gate outputs and are not
varied in the runs. `ResetDomain` adds the outer clock domain. Its software is a
program counter over "rom, ack, loader, app, hung" that uses the watchdog
freely; `alive` is the set of tasks that still report progress. `RESET_COUNT` is
left out.

### Fault interlock

`FaultChain` is clocked like `Watchdog`: an action is an edge with its bus access,
and the environment chooses the level of the fault pin and whether GPIO0 sees an
enabled edge. `FilteredNext`, `ActiveNext`, `TripEvent` and `CaptureEvent` are the
combinational signals of that name; `DrivenPads` is `gpio_pad_oe` after the last
assignment of the pad multiplexer, as a set of pads. `record` says whose event the
snapshot registers hold. `exposed` is a history variable: for how many edges the
pin has shown the active level to an armed interlock whose configuration did not
change. Output levels and the PWM kill outputs are left out.

### Timer and alarms

In `Alarm` a function of the SDK is the list of its bus writes (`todo`); any number
of clocks may pass between two of them, an interrupt handler may acknowledge in
any clock, and what a function reads is read at the edge where it reads it. COUNT
is a pair of half words, because ALARM0 sees only the lower one. `due` is a history
variable: the ticks until a channel should fire, from the write that enables it;
it is `None` when the channel was enabled too late (the SDK's comment leaves the
choice of the delay to the caller) and after the timebase was stopped or set. Interrupt
enables only gate outputs and are left out.

### Interrupts

Every action of `Interrupts` is one clock with the bus access of that clock, or an
interrupt entry. A line is up while `status` and `irqOn` say so; IRQCTRL makes it
sticky (`pending`), adds `forced` and gates with `enable` (`Active`); PicoRV32,
external and built with `LATCHED_IRQ`, latches what is active (`latch`) and clears
its latch on entry. `told` is the handler's argument, `q1` in `omcu_irq.S`. The
handlers are statement by statement, as between two of their bus writes other
sources come and go. The main program makes any call of the interrupt API in any
clock. `entries` is a history variable. Left out: saving and restoring registers,
`omcu_irq_wait`, and PicoRV32's own three sources.

### I2C and the EEPROM

`I2cBus` groups the bit states of `omcu_i2c.sv` into the phases software or the
chip can tell apart; a stretched clock is a phase that takes long. ACK_ERROR rises a
phase before BUSY falls, because the driver's poll can see it there. Writes of
DATA, STATUS and CMD while BUSY is low are one step, as nothing else can change
then. The chip takes one or two address bytes, buffers a page, programs itself
after a STOP and does not answer meanwhile, and holds SDA low when it is sending
a byte that starts with a zero. In `Eeprom` a bus function is its `script` of
commands; each wait for BUSY and each poll may run out of budget whenever what it
waits for has not come (`GiveUp`), which abstracts the spin counts. Arguments the
drivers refuse before they touch the bus are not enumerated;
`omcu_i2c0_init` is called between calls, not while the engine moves a byte.
`was` is a history variable: chip and cells when the call reached the bus.

### SPI and the W5500

`SpiBus` has a byte as its unit of time, and CS, CS_HOLD, BUSY and DONE as in
`omcu_spi.sv`. A W5500 call is a `Program` of register accesses, each one a frame
of a header (its three bytes act only together: one unit) and data. A pointer is
two digits, exchanged one by one while the chip transmits, receives and drops. The
bytes of either stream are numbered, so order, loss and duplication are
visible. The waits of a frame and the polling loops may run out. One socket, TCP; the
socket number only selects a block. `torn`, `lost` and `abandoned` are history
variables: what calls that failed left behind.

### Divider

A step of the restoring division is one clock. `bit` is the weight of the bit that
`bit_index_q` points at, so that no power has to be computed. The CPU keeps the
instruction and its operands until it sees `ready`, and may raise the next one in
any later clock; it may also present an instruction that belongs to another
coprocessor, and a reset may come in any clock.

### User Flash

`UserFlash` has the state machine of the controller with one action per shape of
state: `Following` says what comes after a phase, `Interval` which boundary of the
free-running RUN_TICKS ends it. The counter is kept modulo the longest interval.
`Pins` are the pins of the macro as a function of the state. `error` doubles, as
`error_q` does, as the answer in DONE and as the marker of the first clock of a
setup. The words change where the simulation model of the macro changes them, at
the end of YE and of the erase; a reset while the high voltage is on leaves any part
of the change (`Interrupted`). `held` is a history variable, the clocks since the
pins last changed during an access. `FlashStore` is the view of the program: an access is performed
once between start and answer, and `ImageSlots` starts from the same two
operations.

### Inputs: PULSE0, TIMER1, GPIO0

An action is a clock with the write of that clock. A call of the SDK is the list of
its register accesses (`writes`, `todo`), any number of clocks apart; the pins move
freely unless the run says that they obey the filter. Counters and the time wrap
at `Wrap`. What a property compares with the registers is kept in `g`, described
where it is declared: how long a line has had its level, the edges the pin has
made since the epoch began, the steps of the shaft that ENCODER has still to make
(`lag`), when a channel had its edge (`edgeAt`), the events nobody acknowledged.

`Timer1` has a shaft on its pins: a quarter of a turn, from which it goes on after
the time of the filter; with `g.bounce` one contact may chatter for as long as the
shaft stands on its edge. In `Gpio` the snapshot registers are represented by the
number of the capture they show, so a read that mixes two captures is visible;
FAULT0 may force a capture in any clock. Interrupt enables only gate outputs and are
left out.

### Device conversions

`DeviceCodecs` translates the arithmetic of `omcu_devices.c` on bytes as numbers;
`ReadTime` is what the caller's structure holds afterwards also when the reading
is refused. `Clock` adds the chip's registers, transfers that fail half-way and
the seconds that pass; `known` is what the chip shows.

## Runs

| Run | Bounds | Shows |
| --- | --- | --- |
| `update` | one bit per word, three payload words over two pages, sequence numbers modulo 4. *Wild* line: no host, three headers, chunks of one and two words at every offset, failing flash operations. *Hostile* line: three attempts, two losses of any frame or answer, early timeouts, one reset, weak cells, any starting slot and number. *Kind* line: four attempts, one loss of DATA or END, one early timeout per exchange, cells that obey | order of the two images, the cached selection, refinement of `ImageStore`; what the tool reports written or committed is in the flash; on the kind line it fails only for a cause, finishes, and programs no word twice between two erases |
| `reset_domain` | counter of 0..3, one task, settings 0 to 2 of each register, four modes, two acknowledge masks | the watchdog's contract under any bus access; a request handed over once; hang and stopped task end in a reset |
| `fault_chain` | interlock: filter of 0..2, written with 0 and 2; both polarities, gated or not; no claim, FAULT0, all functions. GPIO0: two pins under both filters (depth 2, one cycle); one pin with edge events, snapshot calls and forced captures | trips in time and records the fault; what either filter accepts and rejects; no edge lost unsaid, snapshots fresh and whole |
| `fault_released` | the interlock of `fault_chain` | the finding below |
| `alarm` | half words of 0..2 and 0..1, prescale 0 and 3, one TIMER0 period, a one-shot on one channel and a periodic alarm on the other | comparisons are reached, alarms fire when due, no stale flag |
| `alarm_one_shot` | the same | the finding below |
| `interrupts` | TIMER0 and one other source, both handlers, any interrupt call in any clock | a quiet return, nothing lost that the handler was not told of; delivery |
| `eeprom` | four cells in pages of two, bytes of 0..3, chips with one and two address bytes, four calls, two polls for readiness | only the cells of a call change, success is true, the bus is returned; every call returns |
| `w5500` | rings of two bytes, pointers of 0..3 that start at 1, three bytes to send and two to receive, two waits that run out | frames apart, success means sent, both streams in order and sizes safe, unsent bytes kept |
| `units` | the divider on words of three bits, all operands of all four instructions; a flash of three words in two pages, intervals of 2, 4 and 8 clocks, an erase of three crossings, all kinds of access; TIMER1 with counters modulo 4: the decoder without a filter, and with one in reverse, on a chattering shaft; a periodic and a one-shot timer, each with a capture, on a clean one | right quotients and remainders; setup and hold times of the flash pins, refinement of `FlashStore`; neither of these units stalls the CPU for ever; ENCODER follows the shaft and no step goes by unannounced; captures on time |
| `pulse` | one pin that holds its levels for the filter, or that does not; rising edges without a filter and falling edges with one of two; counters and time modulo 3 | a clean pin counted and timed edge for edge; an epoch that is told |
| `clock` | three times: weekday and day equal, different, and a day past 7 | the finding below |

Three runs hold several settings, or several units that share no state; a
variable chosen in the initial state (`line`, `unit`) says which one runs, and the
others rest. In `update` the kind line is the same module under friendlier
constants, since liveness needs cells that obey and fewer losses. In `fault_chain`
FAULT0 and GPIO0 meet only in the snapshot, which each of the two models has as
seen from its side.

Three payload words give a first page shared with the header, a second page, a
word that is zero in the image and a partial last frame; modulo-4 numbers make
the wrap happen every four updates; a watchdog counter of four values with three
settings has every order of warning, window and timeout, equal ones included, and
a count past all of them; a
filter of three values has one to qualify, one to be lowered past and none. The
SDK needs at least eight clocks to enable an alarm: with prescale 3 a delay of two
ticks leaves time for it, with prescale 0 it does not, so both cases occur. Two
interrupt sources are one with and one without a handler in `irq_smoke`. Pages of two
cells in a memory of four give a write that crosses a page, one that wraps past
the last 8-bit address and a read that wraps around the chip; bytes 0 and 1 begin with
a zero, 2 and 3 do not. Rings of two bytes under pointers of two digits make every
other transfer cross the end of the ring, and the pointers wrap. Words of three bits
have the most negative number, its division by -1, and division by zero. The
intervals of the flash divide each other as those of the RTL do, and an access may
begin in any phase of them; three words over pages of two give a page of its own
and a word past the end. A filter of one is the least that can be restarted
half-way, two shows that glitches do not add up; every counter of `pulse` and of TIMER1 wraps
several times within a run. The theorems remove the bounds of the runs they are
about.

Deadlock is not checked in the run `update` only: the tool ends.

### Fairness

On its kind line `update` assumes weak fairness of the host program, of the ROM's
own steps and of delivery of what the line does not lose. The ROM is a polling
loop and the host a sequential program, so each has a step it keeps being able to
take. Nothing is assumed of losses or resets, which are bounded instead, nor of the
listening window: a device that booted before the host spoke is allowed
(`MissedWindow`). `reset_domain` assumes only that the oscillator ticks
(`WF(Edge)`); software, hung or not, need not do anything. `interrupts` assumes
that the clock runs, that an unmasked latched interrupt is taken and that the
handler executes; the main program need not do anything. `eeprom` assumes that the
engine is clocked and that the loops of the driver run on (one of poll, give-up and
issue); the chip need not end its programming cycle, and what it holds on the
wires it may hold for ever. `units` assumes that the clock of the
divider and of the User Flash controller runs. `fault_chain`, `alarm`, `w5500` and
`pulse` assume nothing.

### Findings

* `fault_released`: a write of FAULT0's CTRL drives the gated pads again while the
  trip is latched, and `omcu_fault0_configure` starts with one; its comment
  promises high impedance until `omcu_fault0_try_clear()`.
* `alarm_one_shot`: `omcu_alarm0_schedule` writes back a copy of CHANNEL_ENABLE
  that is older than the writes; a one-shot of the other channel that fires in
  between is enabled again and fires a second time after a turn of the 16-bit count.
* `clock`: `omcu_ds3231_write_time` puts the weekday into the chip's register 3 and
  the day into 4, `omcu_ds3231_read_time` takes them the other way round. What was
  written comes back with the two exchanged, and is refused from the eighth of
  a month on; `ClockExchangesDays` proves it for every time. The minimum
  acceptance in `docs/zh-CN/mcu-peripheral-qualification.md:152` is to write and
  read the time.

Remarks without a run of their own:

* With cells that fail their read-back, a DATA frame that is resent programs words
  of it again, which the comment at `omcu_bootloader.c:351-353` warns of;
  `ProgramsErasedWords` is therefore checked on the kind line, where cells obey.
* With `WINDOW_MIN = TIMEOUT` the expiry leaves the window flag of WDT0 set
  (`omcu_wdt.sv:176`, the later assignment), and feeds before `WINDOW_MIN` are accepted
  from then on; `SupervisedWindow` excepts that setting, which the SDK refuses.
* An I2C wait that runs out while the chip sends can leave it holding SDA, with a
  bus no command of the engine gets back. `docs/registers.md:115` says there is no
  bus recovery; `ReturnsTheBus` says that nothing else loses the bus.
* SENDOK of the W5500 belongs to the socket. A send that gives up before it cleared the
  flag lets the next one succeed at once; `SuccessIsSent` excepts that case.
* The line that disables unhandled sources in `irq_smoke` (`main.c:29`) disables TIMER0
  as well when both came together.
* An edge of GPIO0 with OVERWRITE, or the next trip, replaces the record of the first
  fault in the snapshot (`omcu_gpio.sv:169`), which `omcu.h:463` says remains until
  reset; `TripIsRecorded` is about the time up to the next capture.
* INPUT_SELECT of PULSE0 empties the epoch but not the synchroniser
  (`omcu_pulse.sv:166`), so a sample of the former pin can still be counted as an edge
  of the new one; hence the one edge `CountsThePin` allows at the start.
* A write of FILTER starts the count of the filter anew (`omcu_pulse.sv:177`), and so
  an edge that comes within FILTER clocks of a configuration can be lost when FILTER is
  6 or more: of the level that it ends, the filter has seen only the part after the
  write. `CountsThePin` counts from when FILTER has had its time.
* PERIOD_VALID of PULSE0 is up after the first edge already, with a PERIOD of zero
  (`omcu_pulse.sv:151`; `omcu.h:668` speaks of two), and CLEAR is refused in the clock of an
  edge (`omcu_pulse.sv:182`). `EpochIsTold` shows that the order of writes in
  `omcu_pulse0_configure` makes up for the second.
* Configuring the independent filter of GPIO0 fills its history with zeros
  (`omcu_gpio.sv:290`), so an accepted high level falls after a single low sample in the
  first clocks; `RejectsGlitches` begins one depth later.
* `omcu_ds3231_read_time` overwrites second, minute and day of the caller before it
  refuses a reading, and accepts a day or a month of zero.

## Proofs

`BootloaderProofs` proves type correctness, that the current slot is never touched,
and the safety properties of the wild line of `update` (`SequenceOrder`,
`CacheIsCurrent`, `UpdatesAreAtomic`) for every
geometry, every set of frames and both kinds of cells. None of them is inductive
by itself. The invariant `IInv` adds, for the flash: STATE is either erased or
committed and a committed slot holds no bit its header does not announce
(`NothingBeyond`), so a partly erased image cannot match its CRC by accident;
for the ROM: the slot a handler works on is the one a scan does not find, the
words below `next` are those of the announced image, and in `commit` all of them
are. The key notion is a `Quiet` operation, after which a scan finds what it
found before; every flash operation on the other slot but the commit is quiet.
`CurrentSlotUntouched` and the refinement follow from the same lemmas. With cells
that obey, `ErasedOnly` proves `ProgramsErasedWords` for any frames: `ErasedAhead`
says that while a session is active the words from the one to be written on are
erased, because BEGIN erases the pages of the header and of the whole payload.

The same module proves the safety of `update` on its other two lines, for every
image, chunk size, number of attempts and any line. The line adds no step to the
ROM, so `IInv` carries over (`LinkKeepsRom`, `LinkUpdateIsAtomic`, `LinkErasedOnly`);
`LinkInv` adds that no frame or answer on its way has a number above the host's, that
an answer under the current number can only come from the command the host waits
for (`Opening`, `Sending`), and that the session stands at the chunk of the exchange
in progress or just behind it. `ReportIsTrue` and `AckIsTrue` follow.

`NoFailureWithoutCause` proves that on such a line nothing but a loss, a reset or a host
that came too late can make the tool fail (`FailsOnlyForCause`): the protocol and its
attempts are never the cause themselves. Its invariant `KindInv` counts. An early
timeout leaves an answer owed that still comes, and the repeated frame gets one of its own,
so a stale answer may precede the awaited one, but never two: `Owed + Coming` stays 1 or 2.
As the ROM takes frames in order, only the first answer can belong to an exchange that is
over (`FirstStale`, `InOrder`), and one with the current number says what the tool
waits for (`Truthful`): a repeated DATA or END is acknowledged as the duplicate it
is, never refused. An exchange needs one attempt for each timeout that comes early, one for a
stale answer, and the one that succeeds. `Phase` follows the update from
the missed or heard HELLO (`Missed`, `Calling`) over the open session (`Opened`, `Ready`)
to its chunks (`Underway`). The theorem has hypotheses of its own: cells obey, and
`Patient`: `Early + 2 <= Retries`, two HELLOs at least, and no early timeout of HELLO
or of BEGIN, which is sent only once (`omcu_flash.py:261`; this ROM does not declare
that it may be repeated). The kind line of the run meets them. Its property `KindFailsOnlyForCause` is `FailsOnlyForCause` on that line,
as `KindProgramsErasedWords` is what `LinkErasedOnly` proves.

`ResetDomainProofs` proves, for every counter width, type correctness, that the count
stays within the timeout, and the properties of the watchdog in `reset_domain`; its
invariant says that a disabled watchdog holds no epoch and that the window
flag is `WINDOW_MIN < count`. Of the reset domain it proves type correctness and
`RequestIsConsumedOnce`; that invariant says where the request is while the ROM
consumes it, and that nothing can request a reset before the application runs.

`PinProofs` proves of FAULT0 type correctness, `PadsSafe`, `TripsInTime` and
`TripIsRecorded` for every filter width. `TripsInTime` needs to know where an active
level stands on its way in: after one edge in `meta`, after two in `sync`, and from
then on either accepted, with the trip latched, or counted in `filterCount` at least
once per edge (`ExposureTracked`). With the count never past FILTER
(`FilterBounded`, because a write of FILTER clears it) it cannot be waiting after
`FILTER + 3` edges. `TripIsRecorded` holds because no write that shares the clock of a
trip, not even the acknowledgement of the snapshot, is applied after the capture.

Of PULSE0 it proves `EpochIsTold`, `OnlyStableLevels` and `CountsThePin` for every filter,
wrap and set of inputs. `Planned` says that what is left of a call is an end of
`omcu_pulse0_configure`, or one of the single writes; `Emptied` says which registers
of the epoch are already clean when so many of its writes are left. CLEAR is refused in
the clock of an edge, and the proof shows why that does no harm: CTRL is written to 0
first, a disabled source has no edges, and INPUT_SELECT empties the epoch before CLEAR
does. `FilterInv` ties the filter's count to how long the level has stayed: a sample
that differs from the accepted level has been counted for no longer than it has been
steady, and for as long as that or as FILTER has stayed. `CountsThePin` is about an edge
on its way from the pin to the counter (`InFlight`): edges of one direction alternate
with the others, so there is at most one. `Lagging` and `Spaced` carry the pin's spacing through
the synchroniser, so that no level gives way to the next before the filter has
accepted it (`NoLoss`); then every clock conserves COUNT plus the edge in flight
less the edges made (`Conserved`), and `Timed` knows when the one in flight was made,
from where it stands, modulo `Wrap`.

`AlarmProofs` proves all of `alarm`, and that an event stays pending until it is
acknowledged, for counters of any width and any requests. Its
invariant is `TypeOK`, `Plan` (which writes the function under way has still to
make, in which order, and in which state they find the registers),
`EqualityIsReached` and `DueInRegisters`: a channel due in n ticks has its compare
value n ahead of COUNT. `Plan` is needed because the SDK is only right as a
sequence: COUNT is written with the timer off, a channel aimed while disabled.

`InterruptsProofs` proves the two safety properties of `interrupts`, and that an
interrupt does not storm, for any set of sources. `Silenced` says, at each statement of the two handlers, why what
the handler was told of can no longer be asserted; `Echo` counts: told of a source
once, it is inactive unless that handler still runs; told twice, it is not even
latched.

The same module proves `SnapshotIsTrue` and `GpioFiltersTruly` of GPIO0, an edge-triggered
source, for any port, any depths and cycle counts, and any sequence of the SDK's calls.
A call is known by the accesses it has left (`Ending`): a `snapshot_arm` by its last
write, a `snapshot_read` by its next. `Armed` says how far an arming has come: disabled
before the old capture is acknowledged, and from then on empty or holding a fault.
`Fetched` says what a read has of the capture so far, and that nothing but OVERWRITE or
FAULT0 can have replaced it. The filters are tied to how long each level has lasted:
under the independent one, the history holds the present level as far back as it has
lasted and the other one before (`HistoryInv`); under the shared one, the count
never exceeds the age of the youngest level and keeps up with it while the whole port is
steady (`SharedInv`).

`DeviceProofs` proves the four properties of `w5500` for rings and pointers of any
size, any calls, and whatever wait runs out. Its invariant `W5Inv` has three
layers. `Framed` is about one frame: the units are those of the access the call is
at, the byte in the shift register is the one at the counter, `Moved` bytes have been
exchanged and `Ans(j)` is the answer to the j-th. With it every step is one of
eight (`KindsAre`): quiet, a byte read, a byte written, a late byte of a frame that was
given up, a move of the chip, an access that succeeds, one that fails, a new call. The
second layer is what an access achieves byte by byte: `Read` says that a size is
*underrated* while its two digits are put together, because it can only grow meanwhile and
a digit that overflows leaves a smaller number behind; `Between(m)` is a pointer
register of which `m` digits have been replaced. The third is the rings: `Sending` and
`Order` say which numbers stand in which slots between the pointers, `Told` what
SENDOK can mean, `Receiving` the same for the other direction. Their arithmetic, modulo
the ring and modulo the pointers, is proved once in lemmas about `Dist` and `Slot`.
A call that fails leaves `torn`, `lost` or `abandoned` behind if it may have damaged a
pointer, a stream or the meaning of SENDOK, and one byte in the shift register;
`Harmless` says what that byte can still do before the next frame opens, which is
why the next call may start at all.

The conversions in the same module need no state: it proves what they do for every
byte and value, among them the exchange of the two clock registers, the sign of a
temperature across zero, and that no converter frame sets a wrong bit.

`EepromProofs` proves the three safety properties of `eeprom` for every memory, page
size, address width and set of calls, and any outcome of any wait. A call is the script
of its bus functions, and `Did(k)` says how the chip and the bus stand after `k` of its
commands: which address bytes have arrived, which cells the page buffer holds, what
the next byte read is. `EeInv` says for every state of the engine how much of the
command under way has been done (`Polls`), what follows when one fails (`Stops`), that
a byte on the wire, in the buffer or in a cell since the call reached the bus belongs
to it (`Feeds`, `Buffers`, `Changes`), and that before any wait ran out the bus is free
between two functions (`Calm`). After a wait has run out little is known of the chip,
and the proof needs little: whatever it buffered belongs to some call that reached it.

`UnitProofs` proves of the divider type correctness, `AnswerIsRight` and `StaysClaimed` (an
instruction that began is answered before the unit rests) for every word width. Its
invariant `PartlyDivided` says that at each step the bits of the dividend processed so
far are quotient times divisor plus remainder, with a remainder below the divisor; the
signs and the two exceptional cases come in at the start and at the end only. Of the
User Flash controller it proves `ImplementsStore`, step by step: `StoreInv` says
that the access on the bus is the one the phase belongs to, and that in DONE flag
and data are its answer; and `PinTiming`: `PinsHeld` and `CrossingsCounted` say
how long the pins have been as they are, as a function of RUN_TICKS and of the
crossings counted, for any spacing of boundaries that divide each other.

Of TIMER1 it proves four properties, the three of the run and `CompareOnTime`, for every setting, filter, wrap and any
sequence of calls. A configuration is known by how many of its writes are `Left`, and
`Emptied` says that the timer stands, and from which write on its prescaler and COUNT are
zero; so `OnTime`, which makes the clocks since the enabling
COUNT * (PRESCALE + 1) + the prescaler's phase, needs nothing of what the timer did before. The
front end is followed stage by stage (`Contact`, `Meta`, `Sync`, `Out` with its `Run` of
samples). `Rested` says what has come through while the shaft stayed. `InTurn` is
why chatter cannot be counted: only the channel of the edge the shaft is on may move, and the
last sample of the other one is accepted before a sample of this one arrives, so
no two stages differ in both channels. `Lagging` then makes the lag of ENCODER the
steps still `Underway` between the stages, modulo the wrap, and none are underway when the shaft
has been quiet. For the captures `Unlost` says that a shaft that does not chatter loses no
change in the filter, and `Timed(c)` where the last edge is and that it has been on its
way for as many clocks as it has stages and samples behind it (`After`), until
COUNT is captured.

The proofs assume the named ASSUMEs of the modules: a geometry with at least one
payload word and page, header values distinct from `Blank` and `Torn`, requests
whose CRC content is empty beyond their length, register settings within the
counter's range, weights that are powers of two, boundaries that are multiples of each
other, memories of whole pages and calls with at least one byte to read, a choice
of filters for PULSE0 and for TIMER1 of which one is the longest, and a finite one of depths
and cycle counts for GPIO0, a wrap of TIMER1 that whole turns fit into, calls of
GPIO0 that are those of the SDK, and a ring that divides the range of its
pointers and is smaller than it. Some of what is proved is not in a
run, because the proof covers it for every instance: the type invariants,
`CurrentSlotUntouched`, `CountWithinTimeout`, `PadsSafe`, `StaysClaimed`,
`EventStaysPending`, `NoStorm`, `OnlyStableLevels` and `CompareOnTime`. Only model-checked
are the liveness properties, which are outside what the prover does: of every safety
property of the runs there is a theorem.

## Plan

1. Boot ROM, slots, host, line (done).
2. WDT0 and the reset domain (done).
3. FAULT0 and the pads, GPIO0's inputs (done, proved; the PWM kill is left).
4. TIMER0, ALARM0 and their SDK functions (done, proved).
5. `Interrupts` (done, proved but for delivery).
6. `UserFlash` implementing `FlashStore` (done, proved).
7. I2C0, SPI0 and the drivers over them (done, proved).
8. The divider, GPIO0's filters, TIMER1 and PULSE0 (done, proved).
9. Proofs of `ProgramsErasedWords` for sound cells, of the `UpdateLink` safety and of
   `ImplementsStore`, of GPIO0's inputs, of PULSE0 and of
   TIMER1, and that an update fails only for a cause (done).

## Not modelled

PWM0/1 compare a running counter with registers that take effect at once, and no
document promises anything of a change in mid-period. The MMIO fabric and the memories answer every
access from its address alone, and UART framing is a byte at a time: no contract of
the repository's documents depends on their state. Build scripts, tests, the other examples, bench tools,
documentation and the image packer keep no run-time state. PicoRV32 is an external
submodule. Real time is outside the models: the duration of a flash scan against the tool's
0.35 s HELLO timeout, that of a page erase against the timeout of a running watchdog
(`omcu_user_flash.sv:301`), and a noisy line that restarts the listening window for as
long as it lasts (`omcu_bootloader.c:268`).
