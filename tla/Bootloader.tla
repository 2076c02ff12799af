----------------------------- MODULE Bootloader -----------------------------
(***************************************************************************)
(* The boot ROM: sdk/bootloader/omcu_bootloader.c.                         *)
(*                                                                         *)
(* One thread polls UART0 for a frame, handles it, answers it and listens  *)
(* again; a listening window that expires boots the selected image or ends *)
(* the update session.  The handlers that change the flash do so one page  *)
(* or one word at a time, and power can fail or a reset can strike between *)
(* and inside those operations.  The frames are chosen by the environment: *)
(* this module makes no assumption on the host.                            *)
(***************************************************************************)
EXTENDS ImageSlots, Sequences

CONSTANTS
  Tags,         \* frame sequence numbers
  Requests,     \* headers a BEGIN frame may carry: [len, crc]
  Chunks,       \* payloads a DATA frame may carry: [off, w]
  WeakCells     \* whether a flash operation may fail although power holds

ASSUME FrameAssumption ==
  /\ Tags \subseteq Nat
  /\ Requests \subseteq [len : Nat, crc : Content]
  /\ \A r \in Requests, i \in Offsets : r.len <= i => r.crc[i] = {}
  /\ Chunks \subseteq [off : Nat, w : Seq(Word)]
  /\ WeakCells \in BOOLEAN

VARIABLES
  pc,        \* what the ROM is doing
  session,   \* omcu_boot_session_t
  cache,     \* has_image and selected of omcu_bootloader_main
  force,     \* force_loader
  saw,       \* saw_valid_frame
  job,       \* locals of the handler that is changing the flash
  reply,     \* the response being transmitted
  bootReq,   \* SYSCTRL.BOOT_CTRL request, held outside the SoC reset
  running    \* the image in SRAM once the application was entered

romVars == <<pc, session, cache, force, saw, job, reply, bootReq, running>>
vars    == <<flashVars, romVars>>

PCs == {"reset", "listen", "erase", "header", "data", "commit", "boot", "app"}

NoImage    == [len |-> 0, word |-> [i \in Offsets |-> {}]]
NoReply    == [type |-> "none", tag |-> 0]
NoSession  == [active |-> FALSE, hdr |-> Blank, slot |-> 0, next |-> 0]
NoCache    == [has |-> FALSE, hdr |-> Blank, slot |-> 0]
Idle       == [slot |-> 0, hdr |-> Blank, page |-> 0, off |-> 0,
               w |-> << >>, k |-> 0, tag |-> 0]

\* The words 0 .. len-1 of content c, as an image.
ImageOf(len, c) ==
  [len |-> len, word |-> [i \in Offsets |-> IF i < len THEN c[i] ELSE {}]]

\* The ROM out of reset, whatever the flash holds.
RomInit ==
  /\ pc = "reset"
  /\ session = NoSession
  /\ cache = NoCache
  /\ force = FALSE
  /\ saw = FALSE
  /\ job = Idle
  /\ reply = NoReply
  /\ running = NoImage

Init ==
  /\ FlashInit
  /\ RomInit
  /\ bootReq = FALSE

\* find_valid_image overwrites *selected only when it finds an image.
Selected == [has |-> TRUE, hdr |-> hdr[FindValid], slot |-> FindValid]

Rescanned == IF FindValid = NoSlot THEN [cache EXCEPT !.has = FALSE] ELSE Selected

-----------------------------------------------------------------------------
(* Start-up and the listening window.                                      *)

Startup ==
  /\ pc = "reset"
  /\ force' = bootReq
  /\ bootReq' = FALSE
  /\ cache' = Rescanned
  /\ pc' = "listen"
  /\ UNCHANGED <<flashVars, session, saw, job, reply, running>>

Listening == pc = "listen" /\ reply = NoReply

\* The timeout omcu_bootloader_main gives to receive_frame.
Window == IF cache.has /\ ~force /\ ~saw /\ ~session.active
          THEN "listen" ELSE "session"

StartApplication ==
  /\ running' = ImageOf(cache.hdr.len, data[cache.slot])
  /\ pc' = "app"
  /\ UNCHANGED <<flashVars, session, cache, force, saw, job, reply, bootReq>>

TimeoutBoot ==
  /\ Listening
  /\ cache.has /\ ~force /\ ~session.active
  /\ StartApplication

TimeoutSession ==
  /\ Listening
  /\ session.active
  /\ session' = [session EXCEPT !.active = FALSE]
  /\ UNCHANGED <<flashVars, pc, cache, force, saw, job, reply, bootReq, running>>

\* Sending blocks: the ROM hears nothing until the last byte has left.
Sent ==
  /\ reply # NoReply
  /\ reply' = NoReply
  /\ UNCHANGED <<flashVars, pc, session, cache, force, saw, job, bootReq, running>>

\* The ACK of BOOT has left and the drain time is over.
BootAfterAck ==
  /\ pc = "boot" /\ reply = NoReply
  /\ StartApplication

-----------------------------------------------------------------------------
(* Frame handlers.                                                         *)

Answer(type, tag) == reply' = [type |-> type, tag |-> tag]

\* A handler that ends within one step and leaves the flash alone.
Handled ==
  /\ Listening
  /\ saw' = TRUE
  /\ UNCHANGED <<flashVars, force, job, bootReq, running>>

Reject(tag) ==
  /\ Handled
  /\ Answer("NACK", tag)
  /\ UNCHANGED <<pc, session, cache>>

\* ok: the frame has the length its command requires.
Hello(tag, ok) ==
  IF ~ok THEN Reject(tag)
  ELSE /\ Handled
       /\ cache' = Rescanned
       /\ Answer("HELLO", tag)
       /\ UNCHANGED <<pc, session>>

\* A handler that goes on to change the flash step by step.
Engage(step, work) ==
  /\ Listening
  /\ saw' = TRUE
  /\ pc' = step
  /\ job' = work
  /\ UNCHANGED <<flashVars, session, cache, force, reply, bootReq, running>>

\* The slot an update is staged in, and the number it is staged under.
Target == IF FindValid = NoSlot THEN 0 ELSE 1 - FindValid

\* Mutant: the number of the current image is used again.
NumberKept == IF FindValid = NoSlot THEN 1 ELSE hdr[FindValid].seq

Number == IF FindValid = NoSlot THEN 1 ELSE NextSeq(hdr[FindValid].seq)

PayloadFits(len) == len \in 1 .. MaxPayload

\* ok: every check of omcu_boot_header_error except the payload size passes.
Begin(tag, ok, req) ==
  IF ~ok \/ ~PayloadFits(req.len) \/ session.active
  THEN Reject(tag)
  ELSE Engage("erase", [Idle EXCEPT !.slot = Target, !.tag = tag,
                          !.hdr = [seq |-> Number, len |-> req.len,
                                   crc |-> req.crc]])

\* The handler is over: answer and listen again.
Finish(type) ==
  /\ pc' = "listen"
  /\ job' = Idle
  /\ Answer(type, job.tag)
  /\ UNCHANGED <<force, saw, bootReq, running>>

Proceed(step, work) ==
  /\ pc' = step
  /\ job' = work
  /\ UNCHANGED <<session, cache, force, saw, reply, bootReq, running>>

BeginErase ==
  /\ pc = "erase"
  /\ ErasePage(job.slot, job.page, WeakCells)
  /\ IF ~PageIsErased(job.page, hdr'[job.slot], state'[job.slot], data'[job.slot])
     THEN Finish("NACK") /\ UNCHANGED <<session, cache>>
     ELSE IF job.page + 1 < ErasePages(job.hdr.len)
     THEN Proceed("erase", [job EXCEPT !.page = @ + 1])
     ELSE Proceed("header", [job EXCEPT !.page = 0])

\* Mutant: STATE is written with the header, before the payload.
BeginHeaderCommitted ==
  /\ pc = "header"
  /\ hdr' = [hdr EXCEPT ![job.slot] = job.hdr]
  /\ state' = [state EXCEPT ![job.slot] = COMMITTED]
  /\ session' = [active |-> TRUE, hdr |-> job.hdr, slot |-> job.slot, next |-> 0]
  /\ UNCHANGED <<data, cache>>
  /\ Finish("ACK")

BeginHeader ==
  /\ pc = "header"
  /\ WriteHeader(job.slot, job.hdr, WeakCells)
  /\ UNCHANGED cache
  /\ IF hdr'[job.slot] = job.hdr /\ state'[job.slot] = ERASED
     THEN /\ session' = [active |-> TRUE, hdr |-> job.hdr,
                         slot |-> job.slot, next |-> 0]
          /\ Finish("ACK")
     ELSE Finish("NACK") /\ UNCHANGED session

\* Mutant: a retransmitted DATA frame is out of sequence.
ReplayRefused(chunk) == FALSE

\* A retransmitted DATA frame is compared with the flash, not rejected.
IsReplay(chunk) ==
  /\ chunk.off + Len(chunk.w) <= session.next
  /\ \A j \in 1 .. Len(chunk.w) :
       data[session.slot][chunk.off + j - 1] = chunk.w[j]

\* Mutant: a retransmitted DATA frame is programmed like a new one.
DataAgain(tag, ok, chunk) ==
  IF \/ ~session.active \/ ~ok \/ Len(chunk.w) = 0
     \/ chunk.off + Len(chunk.w) > session.hdr.len
     \/ chunk.off > session.next
  THEN Reject(tag)
  ELSE Engage("data", [Idle EXCEPT !.off = chunk.off, !.w = chunk.w, !.tag = tag])

Data(tag, ok, chunk) ==
  IF \/ ~session.active \/ ~ok \/ Len(chunk.w) = 0
     \/ chunk.off + Len(chunk.w) > session.hdr.len
     \/ chunk.off < session.next /\ ~IsReplay(chunk)
     \/ chunk.off > session.next
  THEN Reject(tag)
  ELSE IF chunk.off < session.next
  THEN /\ Handled
       /\ Answer("ACK", tag)
       /\ UNCHANGED <<pc, session, cache>>
  ELSE Engage("data", [Idle EXCEPT !.off = chunk.off, !.w = chunk.w, !.tag = tag])

\* Mutant: programmed words are not read back.
DataWordUnverified ==
  /\ pc = "data"
  /\ ProgramWord(session.slot, job.off + job.k, job.w[job.k + 1], WeakCells)
  /\ UNCHANGED cache
  /\ IF job.k + 1 < Len(job.w)
     THEN Proceed("data", [job EXCEPT !.k = @ + 1])
     ELSE /\ session' = [session EXCEPT !.next = @ + Len(job.w)]
          /\ Finish("ACK")

DataWord ==
  LET at   == job.off + job.k
      word == job.w[job.k + 1]
  IN  /\ pc = "data"
      /\ IF word = {} THEN UNCHANGED flashVars
                      ELSE ProgramWord(session.slot, at, word, WeakCells)
      /\ UNCHANGED cache
      /\ IF data'[session.slot][at] # word
         THEN Finish("NACK") /\ UNCHANGED session
         ELSE IF job.k + 1 < Len(job.w)
         THEN Proceed("data", [job EXCEPT !.k = @ + 1])
         ELSE /\ session' = [session EXCEPT !.next = @ + Len(job.w)]
              /\ Finish("ACK")

\* The newest valid image is the one of this session: END is idempotent.
SessionIsCommitted == FindValid = session.slot /\ hdr[FindValid] = session.hdr

End(tag, ok) ==
  IF ok /\ ~session.active /\ SessionIsCommitted
  THEN /\ Handled
       /\ Answer("ACK", tag)
       /\ UNCHANGED <<pc, session, cache>>
  ELSE IF \/ ~ok \/ ~session.active
          \/ session.next # session.hdr.len
          \/ ~PayloadMatches(session.slot, session.hdr)
  THEN Reject(tag)
  ELSE Engage("commit", [Idle EXCEPT !.tag = tag])

\* Mutant: the cached image is not refreshed before the ACK.
EndCommitStale ==
  /\ pc = "commit"
  /\ ProgramState(session.slot, WeakCells)
  /\ session' = [session EXCEPT !.active = state'[session.slot] # COMMITTED]
  /\ UNCHANGED cache
  /\ Finish(IF session'.active THEN "NACK" ELSE "ACK")

\* The only commit point.  A failed read-back leaves the session active.
EndCommit ==
  /\ pc = "commit"
  /\ ProgramState(session.slot, WeakCells)
  /\ IF state'[session.slot] # COMMITTED
     THEN Finish("NACK") /\ UNCHANGED <<session, cache>>
     ELSE /\ session' = [session EXCEPT !.active = FALSE]
          /\ IF FindValid' = session.slot
             THEN cache' = Selected' /\ Finish("ACK")
             ELSE UNCHANGED cache /\ Finish("NACK")

Boot(tag, ok) ==
  IF ~ok THEN Reject(tag)
  ELSE /\ Handled
       /\ cache' = Rescanned
       /\ UNCHANGED session
       /\ IF FindValid # NoSlot
          THEN Answer("ACK", tag) /\ pc' = "boot"
          ELSE Answer("NACK", tag) /\ UNCHANGED pc

-----------------------------------------------------------------------------
(* Resets.                                                                 *)

\* What an operation that is cut off leaves in the flash.
CutOff ==
  CASE pc = "erase"  -> ErasePage(job.slot, job.page, TRUE)
    [] pc = "header" -> WriteHeader(job.slot, job.hdr, TRUE)
    [] pc = "data"   -> ProgramWord(session.slot, job.off + job.k,
                                    job.w[job.k + 1], TRUE)
    [] pc = "commit" -> ProgramState(session.slot, TRUE)
    [] OTHER         -> UNCHANGED flashVars

\* SRAM, .bss and .data are initialised again on the way to Startup.
Restart ==
  /\ pc' = "reset"
  /\ session' = NoSession
  /\ cache' = NoCache
  /\ force' = FALSE
  /\ saw' = FALSE
  /\ job' = Idle
  /\ reply' = NoReply
  /\ running' = NoImage

\* The reset key or a power failure, at any instant.
ExternalReset ==
  /\ CutOff
  /\ Restart
  /\ bootReq' = FALSE

\* omcu_tn9k_request_bootloader in the application.
AppRequestsLoader ==
  /\ pc = "app"
  /\ UNCHANGED flashVars
  /\ Restart
  /\ bootReq' = TRUE

\* A watchdog reset of the application keeps a pending request.
AppWatchdogReset ==
  /\ pc = "app"
  /\ UNCHANGED <<flashVars, bootReq>>
  /\ Restart

Frames ==
  \E tag \in Tags, ok \in BOOLEAN :
    \/ Hello(tag, ok)
    \/ \E req \in Requests : Begin(tag, ok, req)
    \/ \E chunk \in Chunks : Data(tag, ok, chunk)
    \/ End(tag, ok)
    \/ Boot(tag, ok)
    \/ Reject(tag)

FlashSteps == BeginErase \/ BeginHeader \/ DataWord \/ EndCommit

Resets == ExternalReset \/ AppRequestsLoader \/ AppWatchdogReset

Next ==
  \/ Startup \/ TimeoutBoot \/ TimeoutSession \/ Sent \/ BootAfterAck
  \/ Frames
  \/ FlashSteps
  \/ Resets

Spec == Init /\ [][Next]_vars
=============================================================================
