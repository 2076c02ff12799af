----------------------------- MODULE UpdateLink -----------------------------
(***************************************************************************)
(* tools/omcu_flash.py programming one image through the boot ROM over     *)
(* UART0.  The host is strictly stop-and-wait: it sends a frame, reads one *)
(* response and compares its sequence number; a timeout or a response with *)
(* another number costs an attempt and resends the same frame.             *)
(*                                                                         *)
(* UART0 holds one byte, so a frame that arrives while the ROM is not      *)
(* listening is lost.  On the way back the operating system buffers        *)
(* responses in order, so a late answer is read by a later exchange.       *)
(***************************************************************************)
EXTENDS BootloaderSafety

CONSTANTS
  Update,       \* the image to program: [len, crc]
  Older,        \* the image the device may already hold: [len, crc]
  ChunkWords,   \* words per DATA frame  (DATA_BYTES_PER_FRAME)
  Retries,      \* --retries: attempts for DATA, END and BOOT
  HelloTries,   \* HELLO attempts that fit in --connect-timeout
  Impatient,    \* commands whose timeout can elapse while the ROM still works
  Early,        \* how many such timeouts one exchange may see
  Lossy,        \* commands whose frame or response the line may lose
  MaxLosses,    \* bound on the losses
  MaxResets     \* bound on resets of the device during the update

ASSUME LinkAssumption ==
  /\ {Update, Older} \subseteq {r \in Requests : r.len \in 1 .. MaxPayload}
  /\ ChunkWords \in Nat \ {0}
  /\ Retries \in Nat \ {0}
  /\ HelloTries \in Nat \ {0}
  /\ Early \in Nat
  /\ MaxLosses \in Nat
  /\ MaxResets \in Nat

VARIABLES
  host,     \* the tool: exchange in progress, attempts, position in the image
  down,     \* the frame on its way to the device
  up,       \* responses not yet read by the host
  losses,
  resets

linkVars == <<host, down, up, losses, resets>>
allVars  == <<vars, linkVars>>

NoFrame == [cmd |-> "none", tag |-> 0, off |-> 0]

Ended == {"done", "failed"}

-----------------------------------------------------------------------------
(* The host.                                                               *)

HostInit == host = [cmd |-> "HELLO", tag |-> 1, off |-> 0, tries |-> 0, sent |-> FALSE]

Attempts(cmd) == CASE cmd = "HELLO" -> HelloTries
                   [] cmd = "BEGIN" -> 1
                   [] OTHER         -> Retries

Expected(cmd) == IF cmd = "HELLO" THEN "HELLO" ELSE "ACK"

HostSend ==
  /\ host.cmd \notin Ended
  /\ ~host.sent /\ down = NoFrame
  /\ down' = [cmd |-> host.cmd, tag |-> host.tag, off |-> host.off]
  /\ host' = [host EXCEPT !.sent = TRUE]
  /\ UNCHANGED <<vars, up, losses, resets>>

\* The next exchange, always under a fresh sequence number.
Advance(cmd, off) ==
  host' = [cmd |-> cmd, tag |-> host.tag + 1, off |-> off,
           tries |-> 0, sent |-> FALSE]

\* wait_for_bootloader takes a fresh number for every HELLO; exchange resends
\* the same packet.
AttemptFails ==
  IF host.tries + 1 = Attempts(host.cmd)
  THEN host' = [host EXCEPT !.cmd = "failed", !.sent = FALSE]
  ELSE host' = [host EXCEPT !.tries = @ + 1, !.sent = FALSE,
                            !.tag = IF host.cmd = "HELLO" THEN @ + 1 ELSE @]

HostRefused ==
  IF host.cmd = "HELLO" THEN AttemptFails
  ELSE host' = [host EXCEPT !.cmd = "failed", !.sent = FALSE]

HostAccepted ==
  LET next == host.off + ChunkWords
  IN  CASE host.cmd = "HELLO" -> Advance("BEGIN", 0)
        [] host.cmd = "BEGIN" -> Advance("DATA", 0)
        [] host.cmd = "DATA"  -> IF next < Update.len THEN Advance("DATA", next)
                                                      ELSE Advance("END", 0)
        [] host.cmd = "END"   -> Advance("BOOT", 0)
        [] host.cmd = "BOOT"  -> host' = [host EXCEPT !.cmd = "done", !.sent = FALSE]

\* Mutant: any acknowledgement is taken for the one awaited.
HostReceiveAny ==
  /\ host.sent /\ down = NoFrame /\ up # << >>
  /\ up' = Tail(up)
  /\ IF Head(up).type # Expected(host.cmd) THEN HostRefused ELSE HostAccepted
  /\ UNCHANGED <<vars, down, losses, resets>>

\* Mutant: an answer with another number ends the exchange.
HostReceiveStrict ==
  /\ host.sent /\ down = NoFrame /\ up # << >>
  /\ up' = Tail(up)
  /\ IF Head(up).tag # host.tag \/ Head(up).type # Expected(host.cmd)
     THEN HostRefused ELSE HostAccepted
  /\ UNCHANGED <<vars, down, losses, resets>>

HostReceive ==
  /\ host.sent /\ down = NoFrame /\ up # << >>
  /\ up' = Tail(up)
  /\ IF Head(up).tag # host.tag THEN AttemptFails
     ELSE IF Head(up).type # Expected(host.cmd) THEN HostRefused
     ELSE HostAccepted
  /\ UNCHANGED <<vars, down, losses, resets>>

HostTimeout ==
  /\ host.sent /\ down = NoFrame /\ up = << >>
  /\ \/ Listening \/ pc = "app"
     \/ host.cmd \in Impatient /\ host.tries < Early
  /\ AttemptFails
  /\ UNCHANGED <<vars, down, up, losses, resets>>

-----------------------------------------------------------------------------
(* The line and the device.                                                *)

ChunkAt(off) ==
  LET n == IF off + ChunkWords <= Update.len THEN ChunkWords ELSE Update.len - off
  IN  [off |-> off, w |-> [j \in 1 .. n |-> Update.crc[off + j - 1]]]

Arrive ==
  /\ down' = NoFrame
  /\ \/ down.cmd = "HELLO" /\ Hello(down.tag, TRUE)
     \/ down.cmd = "BEGIN" /\ Begin(down.tag, TRUE, Update)
     \/ down.cmd = "DATA"  /\ Data(down.tag, TRUE, ChunkAt(down.off))
     \/ down.cmd = "END"   /\ End(down.tag, TRUE)
     \/ down.cmd = "BOOT"  /\ Boot(down.tag, TRUE)
  /\ UNCHANGED <<host, up, losses, resets>>

MayLose(cmd) == cmd \in Lossy /\ losses < MaxLosses

\* Lost or corrupted on the line.
FrameLost ==
  /\ down # NoFrame
  /\ MayLose(down.cmd)
  /\ losses' = losses + 1
  /\ down' = NoFrame
  /\ UNCHANGED <<vars, host, up, resets>>

\* Overrun: nobody reads UART0, or the application owns it.
FrameOverrun ==
  /\ down # NoFrame
  /\ ~Listening
  /\ down' = NoFrame
  /\ UNCHANGED <<vars, host, up, losses, resets>>

Respond ==
  /\ Sent
  /\ up' = IF host.cmd \in Ended THEN up ELSE Append(up, reply)
  /\ UNCHANGED <<host, down, losses, resets>>

ResponseLost ==
  /\ Sent
  /\ MayLose(host.cmd)
  /\ losses' = losses + 1
  /\ UNCHANGED <<host, down, up, resets>>

\* 750 ms may pass before the host is started; the 10 s of a session do not
\* pass between two attempts of one exchange, except the 30 s one of BEGIN.
WindowExpires ==
  /\ down = NoFrame
  /\ \/ Window = "listen"
     \/ host.cmd \in Ended
     \/ host.cmd = "BEGIN" /\ host.sent /\ up = << >>
  /\ TimeoutBoot \/ TimeoutSession
  /\ UNCHANGED linkVars

DeviceWorks ==
  /\ Startup \/ FlashSteps \/ BootAfterAck
  /\ UNCHANGED linkVars

DeviceReset ==
  /\ resets < MaxResets
  /\ resets' = resets + 1
  /\ ExternalReset
  /\ UNCHANGED <<host, down, up, losses>>

-----------------------------------------------------------------------------
(* The device starts blank, or with an older image committed in either     *)
(* slot under any sequence number, after a reset key or a software request.*)

Holding(s, h) ==
  /\ hdr = [t \in Slots |-> IF t = s THEN h ELSE Blank]
  /\ state = [t \in Slots |-> IF t = s THEN COMMITTED ELSE ERASED]
  /\ data = [t \in Slots |-> IF t = s THEN h.crc ELSE [i \in Offsets |-> {}]]

LinkInit ==
  /\ \/ FlashInit
     \/ \E s \in Slots, q \in Seqs :
          Holding(s, [seq |-> q, len |-> Older.len, crc |-> Older.crc])
  /\ RomInit
  /\ bootReq \in BOOLEAN
  /\ HostInit
  /\ down = NoFrame
  /\ up = << >>
  /\ losses = 0
  /\ resets = 0

HostSteps == HostSend \/ HostReceive \/ HostTimeout

LinkNext ==
  \/ HostSteps
  \/ Arrive \/ FrameLost \/ FrameOverrun
  \/ Respond \/ ResponseLost
  \/ WindowExpires \/ DeviceWorks
  \/ DeviceReset

LinkSpec == LinkInit /\ [][LinkNext]_allVars

-----------------------------------------------------------------------------
UpdateImage == ImageOf(Update.len, Update.crc)

\* When the tool reports the commit (an ACK of END under its own number, be it
\* the first answer, a replay or a late one) the device would boot exactly the
\* image it sent, and it keeps doing so through any later reset.
ReportedMeansCommitted ==
  host.cmd \in {"BOOT", "done"} => CurrentImage = UpdateImage

\* While DATA is being sent, everything the host believes written is in the
\* flash: an acknowledged chunk is never missing, whatever was replayed.
AcknowledgedIsWritten ==
  host.cmd = "DATA" /\ session.active =>
    /\ session.next \in {host.off, host.off + Len(ChunkAt(host.off).w)}
    /\ \A i \in Offsets : i < session.next =>
         data[session.slot][i] = Update.crc[i]

\* exchange() reports a failure only for a reason: without a lost frame and
\* without a reset, neither a late answer nor a replay makes it give up.
FailsOnlyForCause ==
  host.cmd = "failed" => losses > 0 \/ resets > 0 \/ running = ImageOf(Older.len, Older.crc)

\* The application runs, and the host has found no ROM to talk to.
MissedWindow == pc = "app" /\ host.cmd = "HELLO"
=============================================================================
