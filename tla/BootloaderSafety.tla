-------------------------- MODULE BootloaderSafety --------------------------
(***************************************************************************)
(* What must be true of the boot ROM and its flash, and the refinement     *)
(* mapping onto ImageStore.                                                *)
(***************************************************************************)
EXTENDS Bootloader

Session == [active : BOOLEAN, hdr : Header \cup {Blank}, slot : Slots,
            next : 0 .. MaxPayload]
Cache   == [has : BOOLEAN, hdr : Header \cup {Blank}, slot : Slots]
Job     == [slot : Slots, hdr : Header \cup {Blank}, page : Nat, off : Nat,
            w : Seq(Word), k : Nat, tag : Nat]
Reply   == [type : {"none", "ACK", "NACK", "HELLO"}, tag : Nat]

\* Every variable stays in its declared range, whatever frames arrive and
\* wherever a reset strikes.
TypeOK ==
  /\ FlashTypeOK
  /\ pc \in PCs
  /\ session \in Session
  /\ cache \in Cache
  /\ force \in BOOLEAN
  /\ saw \in BOOLEAN
  /\ job \in Job
  /\ reply \in Reply
  /\ bootReq \in BOOLEAN
  /\ running \in [len : 0 .. MaxPayload, word : Content]

\* Two valid images are never ambiguous: one is the direct successor of the
\* other, so the signed comparison of omcu_boot_sequence_is_newer orders them
\* also where the sequence number wraps.
SequenceOrder ==
  Valid(0) /\ Valid(1) => \/ hdr[1].seq = NextSeq(hdr[0].seq)
                          \/ hdr[0].seq = NextSeq(hdr[1].seq)

\* The cached (has_image, selected), which the timeout path boots without
\* another scan, is what a scan would find now.  It is refreshed only by HELLO,
\* END and BOOT, while BEGIN erases and END commits slots behind it.
CacheIsCurrent ==
  pc # "reset" =>
    /\ cache.has <=> FindValid # NoSlot
    /\ cache.has => cache.slot = FindValid /\ cache.hdr = hdr[FindValid]

\* The comment at omcu_boot_flash_write_header: between two erases no word is
\* programmed twice, whatever is resent, replayed or abandoned half-way.
ProgramsErasedWords ==
  /\ pc = "header" => hdr[job.slot] = Blank /\ state[job.slot] = ERASED
  /\ pc = "data" /\ job.w[job.k + 1] # {} =>
       data[session.slot][job.off + job.k] = {}
  /\ pc = "commit" => state[session.slot] = ERASED

\* No step of an update, and no cut-off operation, touches the slot that a
\* reset at that moment would boot.
CurrentSlotUntouched ==
  [][FindValid # NoSlot =>
       /\ hdr'[FindValid] = hdr[FindValid]
       /\ state'[FindValid] = state[FindValid]
       /\ data'[FindValid] = data[FindValid]]_flashVars

-----------------------------------------------------------------------------
(* Refinement of ImageStore.                                               *)

AllImages == {ImageOf(len, c) : len \in 1 .. MaxPayload, c \in Content}

CurrentImage ==
  IF FindValid = NoSlot THEN NoImage
  ELSE ImageOf(hdr[FindValid].len, data[FindValid])

OfferedImage ==
  IF session.active THEN ImageOf(session.hdr.len, session.hdr.crc) ELSE NoImage

Store == INSTANCE ImageStore WITH
  Image   <- AllImages,
  current <- CurrentImage,
  offered <- OfferedImage

\* docs/zh-CN/mcu-firmware-update.md, storage and power-loss behaviour, items
\* 5 and 6: an update is atomic under every interruption, and only the current
\* image ever runs.
UpdatesAreAtomic == Store!Spec
=============================================================================
