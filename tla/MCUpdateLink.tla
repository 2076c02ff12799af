---------------------------- MODULE MCUpdateLink ----------------------------
(***************************************************************************)
(* Three lines in one run, chosen once and for all in the initial state.   *)
(* On the wild one there is no host: any frame arrives at any time.  The   *)
(* hostile one, with the constants of the configuration, has the host, but *)
(* loses anything, delays any answer and resets the device anywhere.  The  *)
(* kind one delays one answer of an exchange, loses one DATA or END frame  *)
(* or its answer, and never resets the device: on it an update has no      *)
(* excuse to fail.                                                         *)
(***************************************************************************)
EXTENDS UpdateLink

CONSTANT b0

MCBit == {b0}

\* Three words over two pages, so two DATA frames; the second word is zero.
MCUpdate == [len |-> 3, crc |-> [i \in Offsets |-> IF i = 1 THEN {} ELSE {b0}]]

\* One word in one page.
MCOlder == [len |-> 1, crc |-> [i \in Offsets |-> IF i = 0 THEN {b0} ELSE {}]]

MCRequests == {MCUpdate, MCOlder}

\* Frames of no host in its right mind: a third image, too long for the slot,
\* and chunks of any words at any place.
MCTooLong == [len |-> 4, crc |-> [i \in Offsets |-> {b0}]]
MCChunks ==
  [off : {0, 1, 2}, w : {<<v>> : v \in Word} \cup {<<{b0}, {}>>, <<{b0}, {b0}>>}]

VARIABLE line

mcVars == <<allVars, line>>

Wild == INSTANCE Bootloader WITH
  Tags <- {1}, Requests <- MCRequests \cup {MCTooLong}, Chunks <- MCChunks

Kind == INSTANCE UpdateLink WITH
  WeakCells <- FALSE, Retries <- 4, Impatient <- {"END", "DATA"}, Early <- 1,
  Lossy <- {"DATA", "END"}, MaxLosses <- 1, MaxResets <- 0

WildLine    == line = "wild"    /\ Wild!Next /\ UNCHANGED <<linkVars, line>>
HostileLine == line = "hostile" /\ LinkNext /\ UNCHANGED line
KindLine(A) == line = "kind"    /\ A /\ UNCHANGED line

\* On the wild line the flash starts blank and the host is out of the way.
MCInit ==
  /\ LinkInit
  /\ line \in {"wild", "hostile", "kind"}
  /\ line = "wild" => FlashInit

MCNext == WildLine \/ HostileLine \/ KindLine(Kind!LinkNext)

\* The host program and the ROM keep running, and the line delivers what it does
\* not lose.  Nobody has to reset the device.
MCFairness ==
  /\ WF_mcVars(KindLine(Kind!HostSteps))
  /\ WF_mcVars(KindLine(Kind!Arrive \/ Kind!FrameOverrun))
  /\ WF_mcVars(KindLine(Kind!Respond))
  /\ WF_mcVars(KindLine(Kind!DeviceWorks))

MCSpec == MCInit /\ [][MCNext]_mcVars /\ MCFairness

\* ProgramsErasedWords on the kind line (without a reset no cell is weak).
KindProgramsErasedWords == line = "kind" => ProgramsErasedWords

\* FailsOnlyForCause on the kind line: four attempts and one early timeout
\* leave exchange() no reason of its own to give up.
KindFailsOnlyForCause == line = "kind" => FailsOnlyForCause

\* On the kind line a host that found the ROM in time completes the update:
\* neither the protocol nor the two retry loops stop for ever half way.
KindUpdateCompletes == <>(line = "kind" => host.cmd = "done" \/ MissedWindow)
=============================================================================
