------------------------------ MODULE UserFlash ------------------------------
(***************************************************************************)
(* The User Flash controller (omcu_user_flash.sv) behind the bus of the    *)
(* CPU: the state machine that drives the pins of the FLASH608K, its waits *)
(* for boundaries of the free-running RUN_TICKS counter, and the words.    *)
(*                                                                         *)
(* Every action is one clock edge.  The CPU holds an access until it sees  *)
(* READY and then leaves the bus idle for a clock.                         *)
(***************************************************************************)
EXTENDS Integers

CONSTANTS
  Bit, FlashWords, PageWords, Access, NoAccess,   \* as in FlashStore
  Short,       \* clocks between two of the boundaries boundary_256
  Medium,      \* ... boundary_512
  Long,        \* ... boundary_262k
  EraseCount   \* crossings of a long boundary that an erase lasts; 12

Strobes == {"none", "byte0", "half", "word"}

ASSUME AccessAssumption ==
  /\ FlashWords \in Nat /\ PageWords \in Nat \ {0}
  /\ Access \subseteq [word : Nat, strobe : Strobes, aligned : BOOLEAN, data : SUBSET Bit]
  /\ NoAccess \notin Access

ASSUME BoundaryAssumption ==
  /\ Short \in Nat \ {0, 1} /\ Medium \in Nat /\ Long \in Nat
  /\ Short < Medium /\ Medium < Long
  /\ Medium % Short = 0 /\ Long % Medium = 0
  /\ EraseCount \in Nat \ {0, 1}

VARIABLES
  access,      \* what the CPU holds on the bus, NoAccess while it is idle
  ticks,       \* run_ticks_i, as far as the boundaries depend on it
  state,       \* state_q
  taken,       \* addr_q and write_data_q: the access taken from the bus
  readData,    \* read_data_q
  crossings,   \* erase_boundary_count_q
  error,       \* error_q: the answer in DONE, the first clock of a phase elsewhere
  cells,       \* the words of the flash
  held         \* clocks since the pins last changed, 0 without XE (for PinTiming)

flashVars == <<access, ticks, state, taken, readData, crossings, error, cells, held>>

Index == 0 .. FlashWords - 1
Word  == SUBSET Bit

HeldMax == EraseCount * Long + 1

FlashInit ==
  /\ access = NoAccess /\ taken = NoAccess
  /\ ticks = 0 /\ state = "idle"
  /\ readData = {} /\ crossings = 0 /\ error = FALSE
  /\ cells \in [Index -> Word]
  /\ held = 0

-----------------------------------------------------------------------------
(* The phases.                                                             *)

\* The state that follows each phase of an erase and of a program.
Following ==
  [eraseSetupAlign     |-> "eraseSetupWait",     eraseSetupWait     |-> "eraseNvstr",
   eraseReleaseAlign   |-> "eraseReleaseWait",   eraseReleaseWait   |-> "eraseFinishAlign",
   eraseFinishAlign    |-> "eraseFinishWait",    eraseFinishWait    |-> "done",
   programSetupAlign   |-> "programSetupWait",   programSetupWait   |-> "programNvstrAlign",
   programNvstrAlign   |-> "programNvstrWait",   programNvstrWait   |-> "programYe",
   programYe           |-> "programHold",
   programReleaseAlign |-> "programReleaseWait", programReleaseWait |-> "programFinishAlign",
   programFinishAlign  |-> "programFinishWait",  programFinishWait  |-> "done"]

ErasePhases   == {"eraseSetupAlign", "eraseSetupWait", "eraseNvstr", "eraseReleaseAlign",
                  "eraseReleaseWait", "eraseFinishAlign", "eraseFinishWait"}
ProgramPhases == {"programSetupAlign", "programSetupWait", "programNvstrAlign",
                  "programNvstrWait", "programYe", "programHold", "programReleaseAlign",
                  "programReleaseWait", "programFinishAlign", "programFinishWait"}
States == {"idle", "readAssert", "readCapture", "done"} \cup ErasePhases \cup ProgramPhases

Finish == {"eraseFinishAlign", "eraseFinishWait", "programFinishAlign", "programFinishWait"}
Nvstr  == {"programNvstrAlign", "programNvstrWait"}

\* The interval whose boundary ends phase s.
Interval(s) == IF s = "eraseNvstr" THEN Long
               ELSE IF s \in Finish \cup Nvstr THEN Medium ELSE Short

AtBoundary(n) == ticks % n = n - 1

\* The pins of the FLASH608K in state s, where e is error_q.
Pins(s, e) ==
  LET programming == {"programNvstrAlign", "programNvstrWait", "programYe", "programHold"}
      releasing   == {"eraseReleaseAlign", "eraseReleaseWait",
                      "programReleaseAlign", "programReleaseWait"}
  IN [XE    |-> s \notin {"idle", "done"},
      YE    |-> s \in {"readAssert", "readCapture", "programYe"},
      SE    |-> s = "readCapture" /\ ~e,
      PROG  |-> \/ s = "programSetupAlign" /\ e
                \/ s \in {"programSetupWait"} \cup programming,
      ERASE |-> \/ s = "eraseSetupAlign" /\ e
                \/ s \in {"eraseSetupWait", "eraseNvstr"},
      NVSTR |-> s \in {"eraseNvstr"} \cup programming \cup releasing]

Ready == state = "done"

-----------------------------------------------------------------------------
(* The words, as the simulation model and the primitive keep them.         *)

PageOf(a) == {i \in Index : i \div PageWords = a.word \div PageWords}

Erased(c, a)     == [i \in Index |-> IF i \in PageOf(a) THEN {} ELSE c[i]]
Programmed(c, a) == [c EXCEPT ![a.word] = @ \cup a.data]

\* A reset while the high voltage is on leaves any part of the change.
Interrupted ==
  IF state = "programYe"
    THEN {[cells EXCEPT ![taken.word] = @ \cup b] : b \in SUBSET taken.data}
  ELSE IF state \in ErasePhases \ {"eraseSetupAlign", "eraseSetupWait"}
    THEN {c \in [Index -> Word] : \A i \in Index :
            IF i \in PageOf(taken) THEN c[i] \subseteq cells[i] ELSE c[i] = cells[i]}
  ELSE {cells}

-----------------------------------------------------------------------------
(* A clock edge of the controller.                                         *)

\* Where an access starts; "done" is a refusal.
FirstPhase(a) ==
  IF a.word \notin Index THEN "done"
  ELSE IF a.strobe = "none" THEN "readAssert"
  ELSE IF a.strobe = "word" /\ a.aligned THEN "programSetupAlign"
  ELSE IF a.strobe = "byte0" THEN "eraseSetupAlign"
  ELSE "done"

Idle ==
  /\ state = "idle"
  /\ crossings' = 0
  /\ IF access = NoAccess
       THEN state' = "idle" /\ error' = FALSE /\ UNCHANGED taken
       ELSE /\ taken' = access
            /\ state' = FirstPhase(access)
            /\ error' = (state' = "done")
  /\ UNCHANGED <<readData, cells>>

ReadAssert ==
  /\ state = "readAssert" /\ state' = "readCapture"
  /\ UNCHANGED <<taken, readData, crossings, error, cells>>

\* SE is up for one clock; the data are taken in the next one.
ReadCapture ==
  /\ state = "readCapture"
  /\ IF ~error THEN error' = TRUE /\ UNCHANGED <<state, readData>>
     ELSE error' = FALSE /\ state' = "done" /\ readData' = cells[taken.word]
  /\ UNCHANGED <<taken, crossings, cells>>

LastCrossing == crossings = EraseCount - 1

\* Mutant: a counter too narrow for the last crossing.
NarrowCount == (crossings + 1) % (EraseCount - 1)

Counted == crossings + 1

\* Twelve crossings, whatever the phase of the first.
EraseNvstr ==
  /\ state = "eraseNvstr"
  /\ IF ~AtBoundary(Long) THEN UNCHANGED <<state, crossings>>
     ELSE IF LastCrossing THEN state' = "eraseReleaseAlign" /\ crossings' = 0
     ELSE crossings' = Counted /\ UNCHANGED state
  /\ UNCHANGED <<taken, readData, error, cells>>

ProgramHold ==
  /\ state = "programHold" /\ state' = "programReleaseAlign"
  /\ UNCHANGED <<taken, readData, crossings, error, cells>>

\* Mutant: the wait after PROG has fallen ends at the first boundary.
ShortRelease(s) ==
  IF s = "programReleaseAlign" THEN "programFinishAlign" ELSE Following[s]

NextPhase(s) == Following[s]

\* Mutant: the phase flag is still up in DONE.
FlagSticks(s) == error \/ s \in {"eraseSetupAlign", "programSetupAlign"}

\* Up after the first clock of a setup, down with the answer.
FlagNext(s) ==
  IF s \in {"eraseSetupAlign", "programSetupAlign"} THEN TRUE
  ELSE IF state' = "done" THEN FALSE ELSE error

\* A phase that ends at a boundary.
Phase ==
  /\ state \in DOMAIN Following
  /\ IF ~AtBoundary(Interval(state)) THEN UNCHANGED <<state, cells>>
     ELSE /\ state' = NextPhase(state)
          /\ cells' = IF state = "programYe" THEN Programmed(cells, taken)
                      ELSE IF state = "eraseFinishWait" THEN Erased(cells, taken) ELSE cells
  /\ error' = FlagNext(state)
  /\ crossings' = IF state' = "eraseNvstr" THEN 0 ELSE crossings
  /\ UNCHANGED <<taken, readData>>

Done ==
  /\ state = "done" /\ state' = "idle"
  /\ UNCHANGED <<taken, readData, crossings, error, cells>>

Controller ==
  Idle \/ ReadAssert \/ ReadCapture \/ EraseNvstr \/ ProgramHold \/ Phase \/ Done

-----------------------------------------------------------------------------
(* A clock edge of the system.                                             *)

\* mem_valid of the CPU, selected by the address of the window.
Cpu ==
  \/ access = NoAccess /\ access' \in Access
  \/ access # NoAccess /\ Ready /\ access' = NoAccess
  \/ (access = NoAccess \/ ~Ready) /\ UNCHANGED access

FlashClock ==
  /\ Controller /\ Cpu
  /\ ticks' = (ticks + 1) % Long
  /\ held' = IF ~Pins(state', error').XE THEN 0
             ELSE IF Pins(state', error') # Pins(state, error) THEN 1
             ELSE IF held = HeldMax THEN HeldMax ELSE held + 1

\* rst_ni: the watchdog, the reset button or the loss of power.
FlashReset ==
  /\ cells' \in Interrupted
  /\ access' = NoAccess /\ taken' = NoAccess
  /\ ticks' = 0 /\ state' = "idle"
  /\ readData' = {} /\ crossings' = 0 /\ error' = FALSE
  /\ held' = 0

FlashNext == FlashClock \/ FlashReset

FlashSpec == FlashInit /\ [][FlashNext]_flashVars

-----------------------------------------------------------------------------
(* Properties.                                                             *)

FlashTypeOK ==
  /\ access \in Access \cup {NoAccess} /\ taken \in Access \cup {NoAccess}
  /\ ticks \in 0 .. Long - 1 /\ state \in States
  /\ readData \in Word /\ crossings \in 0 .. EraseCount - 1 /\ error \in BOOLEAN
  /\ cells \in [Index -> Word]
  /\ held \in 0 .. HeldMax

Rises(p) == ~Pins(state, error)[p] /\ Pins(state', error')[p]
Falls(p) == Pins(state, error)[p] /\ ~Pins(state', error')[p]

\* The setup and hold times of the FLASH608K, from whatever phase of RUN_TICKS
\* an access begins in (omcu_user_flash.sv:98-109 and the comments of the
\* states): a complete interval before and after the high voltage, a YE pulse of
\* exactly one short interval, an erase of one interval less than EraseCount or more.
PinTiming ==
  [][FlashClock =>
     /\ Rises("PROG") \/ Rises("ERASE") => held >= 1
     /\ Rises("NVSTR") => held >= Short
     /\ Rises("YE") /\ Pins(state, error).NVSTR => held >= Medium
     /\ Falls("YE") /\ Pins(state, error).NVSTR => held = Short
     /\ Falls("ERASE") => held >= (EraseCount - 1) * Long /\ held <= EraseCount * Long
     /\ Falls("PROG") => held >= 1
     /\ Falls("NVSTR") => held >= Short
     /\ Falls("XE") /\ state \in Finish => held >= Medium]_flashVars

\* What the program sees of the controller: the words have changed, the answer.
Applied == state \in {"done", "programHold", "programReleaseAlign", "programReleaseWait",
                      "programFinishAlign", "programFinishWait"}
Reply ==
  [error |-> Ready /\ error,
   data |-> IF Ready /\ FirstPhase(access) = "readAssert" THEN readData ELSE {},
   offered |-> Ready]

Store == INSTANCE FlashStore WITH op <- access, applied <- Applied, reply <- Reply

\* Whatever it does with the pins, the controller is a FlashStore: an access
\* changes the words once, only its own words, and an error means it was refused.
\* Its registers keep their types.
ImplementsStore == Store!Spec
=============================================================================
