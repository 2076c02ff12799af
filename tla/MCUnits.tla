------------------------------- MODULE MCUnits -------------------------------
(***************************************************************************)
(* Three units that share no state, each exercised on its own while the    *)
(* others rest.                                                            *)
(*   "divider"  the divider coprocessor                                    *)
(*   "flash"    the User Flash controller                                  *)
(*   "decoder"  TIMER1's decoder on a shaft whose contacts chatter         *)
(*   "timer"    its timer and captures on a shaft that does not            *)
(***************************************************************************)
EXTENDS Divider, UserFlash, Timer1

CONSTANT b0

\* Words of three bits.
MCHalf    == 4
MCWeights == {1, 2, 4}

\* A flash of three words in two pages; word 3 is outside of it.
Reads  == [word : {2, 3}, strobe : {"none"}, aligned : {TRUE}, data : {{}}]
Writes == [word : {1, 3}, strobe : {"word"}, aligned : BOOLEAN, data : {{b0}}]
Erases == [word : {0, 2}, strobe : {"byte0", "half"}, aligned : {TRUE}, data : {{}}]
MCAccess == Reads \cup Writes \cup Erases

Config(p, c, f, k) == [prescale |-> p, compare |-> c, filter |-> f, ctrl |-> k]

\* Without a filter, and with one that counts the other way.
Decoders == {Config(0, 0, 0, {"encoder"}), Config(0, 0, 1, {"encoder", "reverse"})}

\* Periodic with a prescaler, and one-shot without; each with a capture.
Timers ==
  {Config(1, 1, 1, {"timer", "reload", "captureB", "fallingB"}),
   Config(0, 2, 0, {"timer", "captureA"})}

MCConfigs == Decoders \cup Timers

\* The calls of each setting of TIMER1; the timer's leaves ENCODER alone.
CallsOf(u) ==
  IF u = "decoder"
    THEN {c \in Calls : c[1].reg = "ctrl" => \E k \in Decoders : c = Configure(k)}
    ELSE {c \in Calls : c[1].reg = "status" \/ \E k \in Timers : c = Configure(k)}

VARIABLE unit

mcVars == <<vars, flashVars, timerVars, unit>>

FlashRests == cells = [i \in Index |-> {}]
TimerRests == shaft.quarter = 0 /\ ~g.bounce

MCInit ==
  /\ Init /\ FlashInit /\ TimerInit
  /\ \/ unit = "divider" /\ FlashRests /\ TimerRests
     \/ unit = "flash" /\ TimerRests
     \/ unit \in {"decoder", "timer"} /\ FlashRests /\ (g.bounce <=> unit = "decoder")

DividerStep(A) == unit = "divider" /\ A /\ UNCHANGED <<flashVars, timerVars, unit>>
FlashStep(A)   == unit = "flash" /\ A /\ UNCHANGED <<vars, timerVars, unit>>
TimerStep(A)   == unit \in {"decoder", "timer"} /\ A /\ UNCHANGED <<vars, flashVars, unit>>

MCNext ==
  \/ DividerStep(Next)
  \/ FlashStep(FlashNext)
  \/ TimerStep(Wait \/ DoWrite \/ (Call /\ writes' \in CallsOf(unit)))

\* The clock runs.
MCSpec ==
  /\ MCInit /\ [][MCNext]_mcVars
  /\ WF_mcVars(DividerStep(Clock)) /\ WF_mcVars(FlashStep(FlashClock))

\* Neither unit stalls the CPU for ever: every division and every access is
\* answered, unless the system is reset.
Stalled == (Claims /\ ~ready) \/ access # NoAccess
NoStall == Stalled ~> ~Stalled
=============================================================================
