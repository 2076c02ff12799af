-------------------------- MODULE BootloaderProofs --------------------------
(***************************************************************************)
(* Proofs about the boot ROM for every geometry, every set of frames and   *)
(* both kinds of flash cells: the type invariant, the order of the two     *)
(* images, the cached selection, the untouched current slot, and that the  *)
(* ROM implements ImageStore.  Then about an update over the line, for     *)
(* every image, chunk size, number of retries, losses and resets.          *)
(*                                                                         *)
(* The flash is treated first: every operation the ROM applies to a slot   *)
(* keeps FlashInv and, except the commit, is Quiet: a scan finds the same  *)
(* image afterwards.  The handlers are then shown to apply the operations  *)
(* only to Target, the slot a scan does not find.                          *)
(***************************************************************************)
EXTENDS UpdateLink, TLAPS

USE GeometryAssumption, HeaderAssumption

-----------------------------------------------------------------------------
(* The flash.                                                              *)

\* No cell of STATE but the COMMITTED bit is ever programmed.
StateWordOK == \A s \in Slots : state[s] \in {ERASED, COMMITTED}

\* A committed slot, also a half-erased one, holds no bit its header does not
\* announce; a partial erase can therefore never make a payload match.
NothingBeyond ==
  \A s \in Slots : hdr[s] \in Header /\ state[s] = COMMITTED =>
    \A i \in Offsets : i < hdr[s].len => data[s][i] \subseteq hdr[s].crc[i]

FlashInv == FlashTypeOK /\ StateWordOK /\ NothingBeyond /\ SequenceOrder

\* A step after which a scan finds what it found before.
Quiet ==
  /\ FindValid' = FindValid
  /\ FindValid # NoSlot =>
       /\ hdr'[FindValid] = hdr[FindValid]
       /\ state'[FindValid] = state[FindValid]
       /\ data'[FindValid] = data[FindValid]

\* A step that leaves every slot but t alone.
OnlySlot(t) ==
  \A s \in Slots : s # t => /\ hdr'[s] = hdr[s]
                            /\ state'[s] = state[s]
                            /\ data'[s] = data[s]

\* A valid slot holds a proper header.
LEMMA ValidHeader ==
  ASSUME FlashTypeOK, NEW s \in Slots, Valid(s)
  PROVE  hdr[s] \in Header
  BY DEF FlashTypeOK, Valid

\* What a scan returns.
LEMMA FindValidResult ==
  /\ FindValid \in Slots \cup {NoSlot}
  /\ FindValid = NoSlot <=> ~Valid(0) /\ ~Valid(1)
  /\ FindValid # NoSlot => Valid(FindValid)
  BY DEF FindValid, Slots, NoSlot

\* The slot an update is staged in is never the one a scan finds.
LEMMA TargetResult == Target \in Slots /\ Target # FindValid
  BY FindValidResult DEF Target, Slots, NoSlot

\* The successor is newer than its predecessor, and never the other way round,
\* also where the number wraps.
LEMMA NextIsNewer ==
  ASSUME NEW q \in Seqs
  PROVE  NextSeq(q) \in Seqs /\ IsNewer(NextSeq(q), q) /\ ~IsNewer(q, NextSeq(q))
  BY DEF Seqs, NextSeq, IsNewer

LEMMA NumberInRange == ASSUME FlashTypeOK PROVE Number \in Seqs
<1>1. CASE FindValid = NoSlot
  BY <1>1 DEF Number, Seqs
<1>2. CASE FindValid # NoSlot
  <2>1. FindValid \in Slots /\ Valid(FindValid)
    BY <1>2, FindValidResult
  <2>2. hdr[FindValid] \in Header
    BY <2>1, ValidHeader
  <2>3. hdr[FindValid].seq \in Seqs
    BY <2>2 DEF Header
  <2> QED
    BY <1>2, <2>3, NextIsNewer DEF Number
<1> QED
  BY <1>1, <1>2

\* A step on the other slot that validates nothing is quiet.
LEMMA StillCurrent ==
  ASSUME NEW t \in Slots, t = Target, OnlySlot(t),
         Valid(t)' => Valid(t) /\ hdr'[t] = hdr[t]
  PROVE  Quiet
<1>1. PICK o \in Slots : o = 1 - t
  BY DEF Slots
<1>2. Valid(o)' <=> Valid(o)
  BY <1>1 DEF OnlySlot, Valid, PayloadMatches, Slots
<1>3. hdr'[o] = hdr[o] /\ state'[o] = state[o] /\ data'[o] = data[o]
  BY <1>1 DEF OnlySlot, Slots
<1>4. FindValid = NoSlot \/ FindValid = o
  BY <1>1, TargetResult, FindValidResult DEF Slots, NoSlot
<1>5. FindValid' = FindValid
  <2>1. CASE FindValid = NoSlot
    <3>1. ~Valid(0)' /\ ~Valid(1)'
      BY <2>1, <1>1, <1>2, FindValidResult DEF Slots
    <3> QED
      BY <2>1, <3>1 DEF FindValid
  <2>2. CASE t = 0
    BY <2>2, <1>1, <1>2, <1>3, <1>4, <2>1 DEF FindValid, NoSlot
  <2>3. CASE t = 1
    BY <2>3, <1>1, <1>2, <1>3, <1>4, <2>1 DEF FindValid, NoSlot
  <2> QED
    BY <2>2, <2>3 DEF Slots
<1> QED
  BY <1>3, <1>4, <1>5 DEF Quiet

\* Taking bits away from a slot that a scan does not find, or leaving its STATE
\* erased, keeps the flash invariant and is quiet.
LEMMA RetireQuiet ==
  ASSUME FlashInv, FlashTypeOK', NEW t \in Slots, t = Target, OnlySlot(t),
         state'[t] = ERASED \/ /\ state[t] = COMMITTED /\ state'[t] = COMMITTED
                               /\ hdr'[t] \in Header => hdr'[t] = hdr[t]
                               /\ \A i \in Offsets : data'[t][i] \subseteq data[t][i]
  PROVE  FlashInv' /\ Quiet
<1>1. StateWordOK'
  BY DEF FlashInv, StateWordOK, OnlySlot
<1>2. NothingBeyond'
  <2> SUFFICES ASSUME NEW s \in Slots, hdr'[s] \in Header, state'[s] = COMMITTED,
                      NEW i \in Offsets, i < hdr'[s].len
               PROVE  data'[s][i] \subseteq hdr'[s].crc[i]
    BY DEF NothingBeyond
  <2>1. CASE s # t
    BY <2>1 DEF OnlySlot, FlashInv, NothingBeyond
  <2>2. CASE s = t
    <3>1. state[t] = COMMITTED /\ hdr'[t] = hdr[t] /\ data'[t][i] \subseteq data[t][i]
      BY <2>2 DEF ERASED, COMMITTED
    <3>2. data[t][i] \subseteq hdr[t].crc[i]
      BY <2>2, <3>1 DEF FlashInv, NothingBeyond
    <3> QED
      BY <2>2, <3>1, <3>2
  <2> QED
    BY <2>1, <2>2
<1>3. ASSUME Valid(t)' PROVE Valid(t) /\ hdr'[t] = hdr[t]
  <2>1. hdr'[t] \in Header /\ state'[t] = COMMITTED
    BY <1>3 DEF Valid, FlashTypeOK
  <2>2. /\ state[t] = COMMITTED /\ hdr'[t] = hdr[t]
        /\ \A i \in Offsets : data'[t][i] \subseteq data[t][i]
    BY <2>1 DEF ERASED, COMMITTED
  <2>3. \A i \in Offsets : i < hdr[t].len => data'[t][i] = hdr[t].crc[i]
    BY <1>3, <2>2 DEF Valid, PayloadMatches
  <2>4. \A i \in Offsets : i < hdr[t].len => data[t][i] \subseteq hdr[t].crc[i]
    BY <2>1, <2>2 DEF FlashInv, NothingBeyond
  <2>5. PayloadMatches(t, hdr[t])
    BY <2>2, <2>3, <2>4 DEF PayloadMatches
  <2> QED
    BY <1>3, <2>2, <2>5 DEF Valid
<1>4. Quiet
  BY <1>3, StillCurrent
<1>5. SequenceOrder'
  <2> SUFFICES ASSUME Valid(0)', Valid(1)' PROVE SequenceOrder'
    BY DEF SequenceOrder
  <2>1. PICK o \in Slots : o = 1 - t
    BY DEF Slots
  <2>2. Valid(o) /\ hdr'[o] = hdr[o]
    BY <2>1 DEF OnlySlot, Valid, PayloadMatches, Slots
  <2>3. Valid(t) /\ hdr'[t] = hdr[t]
    BY <1>3 DEF Slots
  <2>4. Valid(0) /\ Valid(1) /\ hdr'[0] = hdr[0] /\ hdr'[1] = hdr[1]
    BY <2>1, <2>2, <2>3 DEF Slots
  <2> QED
    BY <2>4 DEF FlashInv, SequenceOrder
<1> QED
  BY <1>1, <1>2, <1>4, <1>5 DEF FlashInv

\* What an erase leaves, whole or cut off.
LEMMA EraseEffect ==
  ASSUME FlashTypeOK, NEW t \in Slots, NEW p, NEW loose \in BOOLEAN,
         ErasePage(t, p, loose)
  PROVE  /\ FlashTypeOK' /\ OnlySlot(t)
         /\ hdr'[t] \in {hdr[t], Blank, Torn}
         /\ state'[t] \subseteq state[t]
         /\ p # 0 => hdr'[t] = hdr[t] /\ state'[t] = state[t]
         /\ hdr[t] = Blank => hdr'[t] = Blank
         /\ \A i \in Offsets : data'[t][i] \subseteq data[t][i]
<1>1. PICK h \in IF p # 0 THEN {hdr[t]} ELSE IF loose THEN Remains(hdr[t]) ELSE {Blank},
           b \in IF p # 0 THEN {state[t]} ELSE IF loose THEN SUBSET state[t] ELSE {ERASED},
           d \in Content :
        /\ \A i \in Offsets : IF PageOf(i) # p THEN d[i] = data[t][i]
                              ELSE d[i] \subseteq (IF loose THEN data[t][i] ELSE {})
        /\ hdr' = [hdr EXCEPT ![t] = h]
        /\ state' = [state EXCEPT ![t] = b]
        /\ data' = [data EXCEPT ![t] = d]
  BY DEF ErasePage
<1>2. /\ h \in {hdr[t], Blank, Torn}
      /\ hdr[t] = Blank => h = Blank
      /\ p # 0 => h = hdr[t] /\ b = state[t]
  BY <1>1 DEF Remains
<1>3. b \subseteq state[t]
  BY <1>1 DEF ERASED
<1>4. \A i \in Offsets : d[i] \subseteq data[t][i]
  BY <1>1
<1>5. FlashTypeOK'
  BY <1>1, <1>2, <1>3 DEF FlashTypeOK
<1> QED
  BY <1>1, <1>2, <1>3, <1>4, <1>5 DEF FlashTypeOK, OnlySlot

LEMMA EraseQuiet ==
  ASSUME FlashInv, NEW t \in Slots, t = Target, NEW p, NEW loose \in BOOLEAN,
         ErasePage(t, p, loose)
  PROVE  FlashInv' /\ Quiet
<1>1. /\ FlashTypeOK' /\ OnlySlot(t)
      /\ hdr'[t] \in {hdr[t], Blank, Torn}
      /\ state'[t] \subseteq state[t]
      /\ \A i \in Offsets : data'[t][i] \subseteq data[t][i]
  BY EraseEffect DEF FlashInv
<1>2. hdr'[t] \in Header => hdr'[t] = hdr[t]
  BY <1>1
<1>3. state[t] \in {ERASED, COMMITTED}
  BY DEF FlashInv, StateWordOK
<1>4. state'[t] = ERASED \/ (state[t] = COMMITTED /\ state'[t] = COMMITTED)
  BY <1>1, <1>3 DEF ERASED, COMMITTED
<1> QED
  BY <1>1, <1>2, <1>4, RetireQuiet

LEMMA HeaderQuiet ==
  ASSUME FlashInv, NEW t \in Slots, t = Target, state[t] = ERASED,
         NEW h \in Header, NEW loose \in BOOLEAN, WriteHeader(t, h, loose)
  PROVE  FlashInv' /\ Quiet /\ OnlySlot(t) /\ state' = state /\ data' = data
<1>1. PICK r \in {Blank, Torn, h} : hdr' = [hdr EXCEPT ![t] = r]
  BY DEF WriteHeader
<1>2. state' = state /\ data' = data
  BY DEF WriteHeader
<1>3. FlashTypeOK' /\ OnlySlot(t)
  BY <1>1, <1>2 DEF FlashInv, FlashTypeOK, OnlySlot
<1> QED
  BY <1>2, <1>3, RetireQuiet

LEMMA WordQuiet ==
  ASSUME FlashInv, NEW t \in Slots, t = Target, state[t] = ERASED,
         NEW i, NEW w \in Word, NEW loose \in BOOLEAN, ProgramWord(t, i, w, loose)
  PROVE  FlashInv' /\ Quiet /\ OnlySlot(t) /\ hdr' = hdr /\ state' = state
<1>1. PICK v \in Programmed(data[t][i], w, loose, Bit) :
        data' = [data EXCEPT ![t] = [data[t] EXCEPT ![i] = v]]
  BY DEF ProgramWord, FlashInv, FlashTypeOK
<1>2. hdr' = hdr /\ state' = state
  BY DEF ProgramWord
<1>3. data[t] \in Content
  BY DEF FlashInv, FlashTypeOK
<1>4. [data[t] EXCEPT ![i] = v] \in Content
  <2>1. CASE i \in Offsets
    <3>1. data[t][i] \in Word
      BY <1>3, <2>1 DEF Content
    <3>2. v \in Word
      BY <1>1, <3>1 DEF Programmed, Word
    <3> QED
      BY <1>3, <3>2 DEF Content
  <2>2. CASE i \notin Offsets
    BY <1>3, <2>2 DEF Content
  <2> QED
    BY <2>1, <2>2
<1>5. FlashTypeOK' /\ OnlySlot(t)
  BY <1>1, <1>2, <1>4 DEF FlashInv, FlashTypeOK, OnlySlot
<1> QED
  BY <1>2, <1>5, RetireQuiet

\* The commit: nothing, or the staged slot becomes the one a scan finds.
LEMMA CommitEffect ==
  ASSUME FlashInv, NEW t \in Slots, t = Target, state[t] = ERASED,
         hdr[t] \in Header, hdr[t].seq = Number, PayloadMatches(t, hdr[t]),
         NEW loose \in BOOLEAN, ProgramState(t, loose)
  PROVE  /\ FlashInv' /\ OnlySlot(t) /\ hdr' = hdr /\ data' = data
         /\ \/ state'[t] = ERASED /\ Quiet
            \/ state'[t] = COMMITTED /\ FindValid' = t
<1>1. PICK b \in Programmed(state[t], COMMITTED, loose, StateBit) :
        state' = [state EXCEPT ![t] = b]
  BY DEF ProgramState
<1>2. hdr' = hdr /\ data' = data
  BY DEF ProgramState
<1>3. b \in {ERASED, COMMITTED}
  BY <1>1 DEF Programmed, ERASED, COMMITTED
<1>4. FlashTypeOK' /\ OnlySlot(t) /\ state'[t] = b
  BY <1>1, <1>2, <1>3 DEF FlashInv, FlashTypeOK, OnlySlot, ERASED, COMMITTED, StateBit
<1>5. CASE b = ERASED
  BY <1>2, <1>4, <1>5, RetireQuiet
<1>6. CASE b = COMMITTED
  <2>1. PICK o \in Slots : o = 1 - t
    BY DEF Slots
  <2>2. Valid(t)'
    BY <1>2, <1>4, <1>6 DEF Valid, PayloadMatches
  <2>3. Valid(o)' <=> Valid(o)
    BY <1>4, <2>1 DEF OnlySlot, Valid, PayloadMatches, Slots
  <2>4. ~Valid(t)
    BY DEF Valid, ERASED, COMMITTED
  <2>5. ASSUME Valid(o)
        PROVE  hdr[o].seq \in Seqs /\ hdr[t].seq = NextSeq(hdr[o].seq)
    <3>1. FindValid = o
      BY <2>1, <2>4, <2>5, FindValidResult DEF Slots, NoSlot
    <3>2. hdr[o] \in Header
      BY <2>5, ValidHeader DEF FlashInv
    <3> QED
      BY <3>1, <3>2 DEF Number, Header, Slots, NoSlot
  <2>6. FindValid' = t
    <3>1. Valid(o) => /\ IsNewer(hdr[t].seq, hdr[o].seq)
                      /\ ~IsNewer(hdr[o].seq, hdr[t].seq)
      BY <2>5, NextIsNewer
    <3>2. CASE t = 0
      BY <3>1, <3>2, <1>2, <2>1, <2>2, <2>3 DEF FindValid
    <3>3. CASE t = 1
      BY <3>1, <3>3, <1>2, <2>1, <2>2, <2>3 DEF FindValid
    <3> QED
      BY <3>2, <3>3 DEF Slots
  <2>7. SequenceOrder'
    BY <1>2, <2>1, <2>3, <2>5 DEF SequenceOrder, Slots
  <2>8. StateWordOK'
    BY <1>3, <1>4 DEF FlashInv, StateWordOK, OnlySlot
  <2>9. NothingBeyond'
    <3>1. \A s \in Slots : s # t => state'[s] = state[s]
      BY <1>4 DEF OnlySlot
    <3>2. \A i \in Offsets : i < hdr[t].len => data[t][i] \subseteq hdr[t].crc[i]
      BY DEF PayloadMatches
    <3> QED
      BY <1>2, <3>1, <3>2 DEF NothingBeyond, FlashInv
  <2> QED
    BY <1>2, <1>4, <1>6, <2>6, <2>7, <2>8, <2>9 DEF FlashInv
<1> QED
  BY <1>3, <1>5, <1>6

-----------------------------------------------------------------------------
(* The handlers: the inductive invariant.                                  *)

RunInv ==
  /\ pc # "app" => running = NoImage
  /\ pc = "boot" => cache.has

\* An active session owns the slot a scan does not find.
SessionInv ==
  session.active =>
    /\ pc \in {"listen", "data", "commit", "boot", "app"}
    /\ session.hdr \in Header
    /\ session.hdr.seq = Number
    /\ session.slot = Target
    /\ hdr[session.slot] = session.hdr
    /\ state[session.slot] = ERASED

\* BEGIN prepares that slot, and header and STATE stay erased after page 0.
StageInv ==
  pc \in {"erase", "header"} =>
    /\ ~session.active
    /\ job.hdr \in Header
    /\ job.hdr.seq = Number
    /\ job.slot = Target
    /\ pc = "header" \/ job.page # 0 =>
         hdr[job.slot] = Blank /\ state[job.slot] = ERASED

WriteInv ==
  pc = "data" =>
    /\ session.active
    /\ job.off = session.next
    /\ job.off + Len(job.w) <= session.hdr.len
    /\ job.k < Len(job.w)

CommitInv ==
  pc = "commit" => session.active /\ PayloadMatches(session.slot, session.hdr)

IInv ==
  /\ TypeOK /\ FlashInv
  /\ CacheIsCurrent
  /\ RunInv /\ SessionInv /\ StageInv /\ WriteInv /\ CommitInv

USE FrameAssumption

\* What a BEGIN or a DATA frame may carry; the lemmas about the handlers hold for
\* every frame of this shape and under every sequence number.
RequestType == [len : Nat, crc : Content]
ChunkType   == [off : Nat, w : Seq(Word)]

LEMMA SameFlash ==
  ASSUME FlashInv, UNCHANGED flashVars
  PROVE  /\ FlashInv' /\ Quiet
         /\ hdr' = hdr /\ state' = state /\ data' = data
<1>1. hdr' = hdr /\ state' = state /\ data' = data
  BY DEF flashVars
<1>2. FindValid' = FindValid
  BY <1>1 DEF FindValid, Valid, PayloadMatches
<1>3. SequenceOrder'
  BY <1>1 DEF FlashInv, SequenceOrder, Valid, PayloadMatches
<1> QED
  BY <1>1, <1>2, <1>3 DEF FlashInv, FlashTypeOK, StateWordOK, NothingBeyond, Quiet

LEMMA QuietKeeps ==
  ASSUME Quiet
  PROVE  /\ Target' = Target /\ Number' = Number /\ CurrentImage' = CurrentImage
         /\ FindValid' = FindValid
         /\ FindValid # NoSlot => hdr'[FindValid] = hdr[FindValid]
  BY FindValidResult DEF Quiet, Target, Number, CurrentImage

\* The cache that HELLO, BOOT and start-up compute is current.
LEMMA RescannedIsCurrent ==
  ASSUME FlashInv, cache \in Cache
  PROVE  /\ Rescanned \in Cache
         /\ Rescanned.has <=> FindValid # NoSlot
         /\ Rescanned.has => /\ Rescanned.slot = FindValid
                             /\ Rescanned.hdr = hdr[FindValid]
<1>1. CASE FindValid = NoSlot
  BY <1>1 DEF Rescanned, Cache
<1>2. CASE FindValid # NoSlot
  <2>1. FindValid \in Slots /\ hdr[FindValid] \in Header
    BY <1>2, FindValidResult, ValidHeader DEF FlashInv
  <2> QED
    BY <1>2, <2>1 DEF Rescanned, Selected, Cache
<1> QED
  BY <1>1, <1>2

LEMMA ImageOfType ==
  ASSUME NEW len \in 0 .. MaxPayload, NEW c \in Content
  PROVE  ImageOf(len, c) \in [len : 0 .. MaxPayload, word : Content]
  BY DEF ImageOf, Content, Word

\* The records a reset starts from.
LEMMA IdleJob ==
  /\ Idle \in Job /\ Idle.page = 0 /\ Idle.k = 0
  /\ NoSession \in Session /\ ~NoSession.active
  /\ NoCache \in Cache /\ NoReply \in Reply
<1>1. << >> \in Seq(Word)
  OBVIOUS
<1> QED
  BY <1>1 DEF Idle, Job, NoSession, Session, NoCache, Cache, NoReply, Reply, Slots

LEMMA InitInv == Init => IInv
<1> SUFFICES ASSUME Init PROVE IInv
  OBVIOUS
<1>1. ~Valid(0) /\ ~Valid(1)
  BY DEF Init, FlashInit, Valid, Slots
<1>2. FlashInv
  BY <1>1 DEF Init, FlashInit, FlashInv, FlashTypeOK, StateWordOK, NothingBeyond,
              SequenceOrder, ERASED, Content, Word
<1>3. NoImage \in [len : 0 .. MaxPayload, word : Content]
  BY DEF NoImage, Content, Word
<1>4. TypeOK
  BY <1>2, <1>3, IdleJob DEF Init, RomInit, TypeOK, FlashInv, PCs
<1> QED
  BY <1>2, <1>4 DEF Init, RomInit, IInv, CacheIsCurrent, RunInv, SessionInv, StageInv,
                    WriteInv, CommitInv, NoSession

LEMMA StartupInv == ASSUME IInv, Startup PROVE IInv' /\ Quiet
<1>1. /\ FlashInv' /\ Quiet /\ hdr' = hdr /\ state' = state /\ data' = data
  BY SameFlash DEF IInv, Startup
<1>2. TypeOK'
  BY <1>1, RescannedIsCurrent DEF IInv, TypeOK, FlashInv, Startup, PCs
<1>3. CacheIsCurrent'
  BY <1>1, QuietKeeps, RescannedIsCurrent DEF IInv, TypeOK, CacheIsCurrent, Startup
<1> QED
  BY <1>1, <1>2, <1>3 DEF IInv, Startup, RunInv, SessionInv, StageInv, WriteInv, CommitInv

\* Whatever the ROM starts is the image a scan finds.
LEMMA StartApplicationInv ==
  ASSUME IInv, StartApplication, cache.has, pc # "reset", pc # "app"
  PROVE  IInv' /\ Quiet /\ FindValid # NoSlot /\ running' = CurrentImage
<1>1. /\ FlashInv' /\ Quiet /\ hdr' = hdr /\ state' = state /\ data' = data
  BY SameFlash DEF IInv, StartApplication
<1>2. FindValid # NoSlot /\ cache.slot = FindValid /\ cache.hdr = hdr[FindValid]
  BY DEF IInv, CacheIsCurrent
<1>3. cache.hdr \in Header /\ data[cache.slot] \in Content
  BY <1>2, FindValidResult, ValidHeader DEF IInv, FlashInv, FlashTypeOK
<1>4. running' \in [len : 0 .. MaxPayload, word : Content]
  BY <1>3, ImageOfType DEF StartApplication, Header
<1>5. TypeOK'
  BY <1>1, <1>4 DEF IInv, TypeOK, FlashInv, StartApplication, PCs
<1>6. CacheIsCurrent'
  BY <1>1, QuietKeeps DEF IInv, CacheIsCurrent, StartApplication
<1>7. SessionInv'
  BY <1>1, QuietKeeps DEF IInv, SessionInv, StageInv, StartApplication
<1>8. running' = CurrentImage
  BY <1>2 DEF StartApplication, CurrentImage
<1> QED
  BY <1>1, <1>2, <1>5, <1>6, <1>7, <1>8
     DEF IInv, StartApplication, RunInv, StageInv, WriteInv, CommitInv

\* Handlers that leave flash and job alone and go on listening, or boot.
LEMMA HandledInv ==
  ASSUME IInv, UNCHANGED <<flashVars, force, job, bootReq, running>>,
         saw' \in BOOLEAN,
         pc' = pc \/ (pc = "listen" /\ pc' = "boot" /\ cache'.has),
         \/ session' = session
         \/ pc = "listen" /\ session' = [session EXCEPT !.active = FALSE],
         cache' = cache \/ (pc # "reset" /\ cache' = Rescanned),
         reply' \in Reply,
         pc = "boot" => cache'.has
  PROVE  IInv' /\ Quiet
<1>1. /\ FlashInv' /\ Quiet /\ hdr' = hdr /\ state' = state /\ data' = data
  BY SameFlash DEF IInv
<1>2. TypeOK'
  <2>1. session' \in Session
    BY DEF IInv, TypeOK, Session
  <2>2. cache' \in Cache
    BY RescannedIsCurrent DEF IInv, TypeOK
  <2>3. pc' \in PCs
    BY DEF IInv, TypeOK, PCs
  <2> QED
    BY <1>1, <2>1, <2>2, <2>3 DEF IInv, TypeOK, FlashInv
<1>3. CacheIsCurrent'
  BY <1>1, QuietKeeps, RescannedIsCurrent DEF IInv, TypeOK, CacheIsCurrent
<1>4. SessionInv'
  BY <1>1, QuietKeeps DEF IInv, TypeOK, Session, SessionInv
<1>5. StageInv'
  BY <1>1, QuietKeeps DEF IInv, TypeOK, Session, StageInv
<1>6. WriteInv' /\ CommitInv'
  BY <1>1 DEF IInv, TypeOK, Session, WriteInv, CommitInv, PayloadMatches
<1>7. RunInv'
  BY DEF IInv, RunInv
<1> QED
  BY <1>1, <1>2, <1>3, <1>4, <1>5, <1>6, <1>7 DEF IInv

LEMMA RejectInv ==
  ASSUME IInv, NEW tag \in Nat, Reject(tag) PROVE IInv' /\ Quiet
  BY HandledInv DEF Reject, Handled, Answer, Reply, Listening

LEMMA HelloInv ==
  ASSUME IInv, NEW tag \in Nat, NEW ok, Hello(tag, ok) PROVE IInv' /\ Quiet
<1>1. CASE ~ok
  BY <1>1, RejectInv DEF Hello
<1>2. CASE ok
  BY <1>2, HandledInv DEF Hello, Handled, Answer, Reply, Listening
<1> QED
  BY <1>1, <1>2

LEMMA BootInv ==
  ASSUME IInv, NEW tag \in Nat, NEW ok, Boot(tag, ok) PROVE IInv' /\ Quiet
<1>1. CASE ~ok
  BY <1>1, RejectInv DEF Boot
<1>2. CASE ok
  <2>1. FindValid # NoSlot => Rescanned.has
    BY RescannedIsCurrent DEF IInv, TypeOK
  <2> QED
    BY <1>2, <2>1, HandledInv DEF Boot, Handled, Answer, Reply, Listening
<1> QED
  BY <1>1, <1>2

LEMMA TimeoutSessionInv == ASSUME IInv, TimeoutSession PROVE IInv' /\ Quiet
  BY HandledInv DEF TimeoutSession, Listening, IInv, TypeOK

LEMMA SentInv == ASSUME IInv, Sent PROVE IInv' /\ Quiet
  BY HandledInv, IdleJob DEF Sent, IInv, TypeOK, RunInv

\* Handlers that go on to change the flash.
LEMMA EngageInv ==
  ASSUME IInv, NEW step \in {"erase", "data", "commit"}, NEW work, Engage(step, work),
         work \in Job,
         step = "erase" => /\ ~session.active /\ work.page = 0 /\ work.hdr \in Header
                           /\ work.hdr.seq = Number /\ work.slot = Target,
         step = "data" => /\ session.active /\ work.off = session.next
                          /\ work.off + Len(work.w) <= session.hdr.len
                          /\ work.k < Len(work.w),
         step = "commit" => session.active /\ PayloadMatches(session.slot, session.hdr)
  PROVE  IInv' /\ Quiet
<1>1. /\ FlashInv' /\ Quiet /\ hdr' = hdr /\ state' = state /\ data' = data
  BY SameFlash DEF IInv, Engage
<1>2. pc = "listen" /\ pc' = step /\ job' = work /\ session' = session
  BY DEF Engage, Listening
<1>3. TypeOK'
  BY <1>1 DEF IInv, TypeOK, FlashInv, Engage, PCs
<1>4. CacheIsCurrent' /\ RunInv'
  BY <1>1, QuietKeeps DEF IInv, CacheIsCurrent, RunInv, Engage, Listening
<1>5. SessionInv'
  BY <1>1, <1>2, QuietKeeps DEF IInv, SessionInv
<1>6. StageInv'
  BY <1>1, <1>2, QuietKeeps DEF IInv, StageInv
<1>7. WriteInv' /\ CommitInv'
  BY <1>1, <1>2 DEF WriteInv, CommitInv, PayloadMatches
<1> QED
  BY <1>1, <1>3, <1>4, <1>5, <1>6, <1>7 DEF IInv

LEMMA FramesInType ==
  Tags \subseteq Nat /\ Requests \subseteq RequestType /\ Chunks \subseteq ChunkType
  BY DEF RequestType, ChunkType

LEMMA BeginInv ==
  ASSUME IInv, NEW tag \in Nat, NEW ok, NEW req \in RequestType,
         Begin(tag, ok, req)
  PROVE  IInv' /\ Quiet
<1>1. CASE ~ok \/ ~PayloadFits(req.len) \/ session.active
  BY <1>1, RejectInv DEF Begin
<1>2. CASE ~(~ok \/ ~PayloadFits(req.len) \/ session.active)
  <2> DEFINE h == [seq |-> Number, len |-> req.len, crc |-> req.crc]
             work == [Idle EXCEPT !.slot = Target, !.tag = tag, !.hdr = h]
  <2>1. Engage("erase", work)
    BY <1>2 DEF Begin
  <2>2. Number \in Seqs
    BY NumberInRange DEF IInv, FlashInv
  <2>3. h \in Header
    BY <1>2, <2>2 DEF Header, PayloadFits, RequestType
  <2>4. Target \in Slots
    BY TargetResult
  <2>5. h.seq = Number
    OBVIOUS
  <2> HIDE DEF h
  <2>6. work \in Job
    BY <2>3, <2>4, IdleJob DEF Job
  <2>7. work.page = 0 /\ work.hdr = h /\ work.slot = Target
    BY IdleJob DEF Job
  <2> HIDE DEF work
  <2> QED
    BY <1>2, <2>1, <2>3, <2>5, <2>6, <2>7, EngageInv
<1> QED
  BY <1>1, <1>2

LEMMA DataInv ==
  ASSUME IInv, NEW tag \in Nat, NEW ok, NEW chunk \in ChunkType,
         Data(tag, ok, chunk)
  PROVE  IInv' /\ Quiet
<1> DEFINE refused == \/ ~session.active \/ ~ok \/ Len(chunk.w) = 0
                      \/ chunk.off + Len(chunk.w) > session.hdr.len
                      \/ chunk.off < session.next /\ ~IsReplay(chunk)
                      \/ chunk.off > session.next
<1>1. CASE refused
  BY <1>1, RejectInv DEF Data
<1>2. CASE ~refused /\ chunk.off < session.next
  BY <1>2, HandledInv DEF Data, Handled, Answer, Reply, Listening
<1>3. CASE ~refused /\ ~(chunk.off < session.next)
  <2> DEFINE work == [Idle EXCEPT !.off = chunk.off, !.w = chunk.w, !.tag = tag]
  <2>1. Engage("data", work)
    BY <1>3 DEF Data
  <2>2. chunk.off \in Nat /\ chunk.w \in Seq(Word) /\ Len(chunk.w) \in Nat
    BY DEF ChunkType
  <2>3. session.next \in Nat /\ (session.active => session.hdr.len \in Nat)
    BY DEF IInv, TypeOK, Session, SessionInv, Header
  <2>4. /\ session.active /\ chunk.off = session.next
        /\ chunk.off + Len(chunk.w) <= session.hdr.len /\ 0 < Len(chunk.w)
    BY <1>3, <2>2, <2>3
  <2>5. work \in Job
    BY <2>2, IdleJob DEF Job
  <2>6. work.off = chunk.off /\ work.w = chunk.w /\ work.k = 0
    BY IdleJob DEF Job
  <2> HIDE DEF work
  <2> QED
    BY <2>1, <2>4, <2>5, <2>6, EngageInv
<1> QED
  BY <1>1, <1>2, <1>3

LEMMA EndInv ==
  ASSUME IInv, NEW tag \in Nat, NEW ok, End(tag, ok) PROVE IInv' /\ Quiet
<1> DEFINE again == ok /\ ~session.active /\ SessionIsCommitted
           refused == \/ ~ok \/ ~session.active
                      \/ session.next # session.hdr.len
                      \/ ~PayloadMatches(session.slot, session.hdr)
<1>1. CASE again
  BY <1>1, HandledInv DEF End, Handled, Answer, Reply, Listening
<1>2. CASE ~again /\ refused
  BY <1>2, RejectInv DEF End
<1>3. CASE ~again /\ ~refused
  <2> DEFINE work == [Idle EXCEPT !.tag = tag]
  <2>1. Engage("commit", work)
    BY <1>3 DEF End
  <2>2. work \in Job
    BY IdleJob DEF Job
  <2> HIDE DEF work
  <2> QED
    BY <1>3, <2>1, <2>2, EngageInv
<1> QED
  BY <1>1, <1>2, <1>3

\* Handlers that change the flash.
LEMMA QuietCache ==
  ASSUME IInv, Quiet, pc # "reset", cache' = cache
  PROVE  CacheIsCurrent'
  BY QuietKeeps DEF IInv, CacheIsCurrent

LEMMA FinishInv ==
  ASSUME IInv, FlashInv', pc # "app", NEW type \in {"ACK", "NACK"}, Finish(type),
         session' \in Session, cache' \in Cache, SessionInv', CacheIsCurrent'
  PROVE  IInv'
<1>1. job.tag \in Nat
  BY DEF IInv, TypeOK, Job
<1>2. TypeOK'
  BY <1>1, IdleJob DEF IInv, TypeOK, FlashInv, Finish, Answer, Reply, PCs
<1> QED
  BY <1>2 DEF IInv, Finish, RunInv, StageInv, WriteInv, CommitInv

LEMMA ProceedInv ==
  ASSUME IInv, FlashInv', Quiet, NEW step, NEW work \in Job, Proceed(step, work),
         pc \in {"erase", "data"}, step \in {"erase", "header", "data"},
         SessionInv', StageInv', WriteInv'
  PROVE  IInv'
<1>1. TypeOK'
  BY DEF IInv, TypeOK, FlashInv, Proceed, PCs
<1>2. CacheIsCurrent'
  BY QuietCache DEF Proceed
<1> QED
  BY <1>1, <1>2 DEF IInv, Proceed, RunInv, CommitInv

LEMMA BeginEraseInv == ASSUME IInv, BeginErase PROVE IInv' /\ Quiet
<1>1. PICK t \in Slots : t = job.slot
  BY DEF IInv, TypeOK, Job
<1>2. ErasePage(t, job.page, WeakCells) /\ pc = "erase" /\ WeakCells \in BOOLEAN
  BY <1>1 DEF BeginErase
<1>3. t = Target /\ ~session.active /\ job.hdr \in Header /\ job.hdr.seq = Number
  BY <1>1, <1>2 DEF IInv, StageInv
<1>4. FlashInv' /\ Quiet
  BY <1>2, <1>3, EraseQuiet DEF IInv
<1>5. Target' = Target /\ Number' = Number
  BY <1>4, QuietKeeps
<1>6. job.page # 0 => hdr'[t] = Blank /\ state'[t] = ERASED
  <2>1. FlashTypeOK
    BY DEF IInv, FlashInv
  <2>2. job.page # 0 => hdr'[t] = hdr[t] /\ state'[t] = state[t]
    BY <1>2, <2>1, EraseEffect
  <2> QED
    BY <1>1, <1>2, <2>2 DEF IInv, StageInv
<1> DEFINE erased == PageIsErased(job.page, hdr'[job.slot], state'[job.slot],
                                  data'[job.slot])
<1>7. erased => hdr'[t] = Blank /\ state'[t] = ERASED
  BY <1>1, <1>6 DEF PageIsErased
<1>8. job \in Job
  BY DEF IInv, TypeOK
<1>9. CASE ~erased
  <2>1. Finish("NACK") /\ session' = session /\ cache' = cache
    BY <1>9 DEF BeginErase
  <2>2. CacheIsCurrent'
    BY <1>2, <1>4, <2>1, QuietCache
  <2>3. SessionInv'
    BY <1>3, <2>1 DEF SessionInv
  <2> QED
    BY <1>2, <1>4, <2>1, <2>2, <2>3, FinishInv DEF IInv, TypeOK
<1>10. CASE erased /\ job.page + 1 < ErasePages(job.hdr.len)
  <2> DEFINE work == [job EXCEPT !.page = @ + 1]
  <2>1. Proceed("erase", work)
    BY <1>10 DEF BeginErase
  <2>2. work \in Job /\ work.hdr = job.hdr /\ work.slot = t
    BY <1>1, <1>8 DEF Job
  <2>3. SessionInv' /\ WriteInv'
    BY <1>3, <2>1 DEF Proceed, SessionInv, WriteInv
  <2>4. StageInv'
    BY <1>3, <1>5, <1>7, <1>10, <2>1, <2>2 DEF Proceed, StageInv
  <2> HIDE DEF work
  <2> QED
    BY <1>2, <1>4, <2>1, <2>2, <2>3, <2>4, ProceedInv
<1>11. CASE erased /\ ~(job.page + 1 < ErasePages(job.hdr.len))
  <2> DEFINE work == [job EXCEPT !.page = 0]
  <2>1. Proceed("header", work)
    BY <1>11 DEF BeginErase
  <2>2. work \in Job /\ work.hdr = job.hdr /\ work.slot = t
    BY <1>1, <1>8 DEF Job
  <2>3. SessionInv' /\ WriteInv'
    BY <1>3, <2>1 DEF Proceed, SessionInv, WriteInv
  <2>4. StageInv'
    BY <1>3, <1>5, <1>7, <1>11, <2>1, <2>2 DEF Proceed, StageInv
  <2> HIDE DEF work
  <2> QED
    BY <1>2, <1>4, <2>1, <2>2, <2>3, <2>4, ProceedInv
<1> QED
  BY <1>4, <1>9, <1>10, <1>11

LEMMA BeginHeaderInv == ASSUME IInv, BeginHeader PROVE IInv' /\ Quiet
<1>1. PICK t \in Slots : t = job.slot
  BY DEF IInv, TypeOK, Job
<1>2. pc = "header" /\ WriteHeader(t, job.hdr, WeakCells) /\ WeakCells \in BOOLEAN
  BY <1>1 DEF BeginHeader
<1>3. /\ t = Target /\ ~session.active /\ job.hdr \in Header /\ job.hdr.seq = Number
      /\ state[t] = ERASED
  BY <1>1, <1>2 DEF IInv, StageInv
<1>4. FlashInv' /\ Quiet /\ state' = state /\ data' = data
  BY <1>2, <1>3, HeaderQuiet DEF IInv
<1>5. Target' = Target /\ Number' = Number
  BY <1>4, QuietKeeps
<1>6. CacheIsCurrent' /\ cache' \in Cache
  BY <1>2, <1>4, QuietCache DEF BeginHeader, IInv, TypeOK
<1>7. CASE hdr'[job.slot] = job.hdr /\ state'[job.slot] = ERASED
  <2>1. /\ session' = [active |-> TRUE, hdr |-> job.hdr, slot |-> job.slot, next |-> 0]
        /\ Finish("ACK")
    BY <1>7 DEF BeginHeader
  <2>2. session' \in Session
    <3>1. job.hdr \in Header \cup {Blank} /\ job.slot \in Slots /\ 0 \in 0 .. MaxPayload
      BY <1>1, <1>3
    <3>2. [active |-> TRUE, hdr |-> job.hdr, slot |-> job.slot, next |-> 0] \in Session
      BY <3>1 DEF Session
    <3> QED
      BY <2>1, <3>2
  <2>3. SessionInv'
    BY <1>1, <1>3, <1>4, <1>5, <1>7, <2>1 DEF SessionInv, Finish
  <2> QED
    BY <1>2, <1>4, <1>6, <2>1, <2>2, <2>3, FinishInv
<1>8. CASE ~(hdr'[job.slot] = job.hdr /\ state'[job.slot] = ERASED)
  <2>1. session' = session /\ Finish("NACK")
    BY <1>8 DEF BeginHeader
  <2>2. session' \in Session /\ SessionInv'
    BY <1>3, <2>1 DEF IInv, TypeOK, SessionInv
  <2> QED
    BY <1>2, <1>4, <1>6, <2>1, <2>2, FinishInv
<1> QED
  BY <1>4, <1>7, <1>8

\* Where a DATA handler writes, and what.
LEMMA DataJob ==
  ASSUME IInv, pc = "data"
  PROVE  /\ session.active /\ session.slot = Target /\ session.slot \in Slots
         /\ state[session.slot] = ERASED
         /\ job.w[job.k + 1] \in Word
         /\ session.next + Len(job.w) \in 0 .. MaxPayload
         /\ Len(job.w) \in Nat /\ job.k \in Nat
<1>1. session.active /\ job.k < Len(job.w) /\ job.off = session.next
      /\ job.off + Len(job.w) <= session.hdr.len
  BY DEF IInv, WriteInv
<1>2. job.w \in Seq(Word) /\ job.k \in Nat /\ session.next \in 0 .. MaxPayload
  BY DEF IInv, TypeOK, Job, Session
<1>3. session.hdr.len \in 1 .. MaxPayload
  BY <1>1 DEF IInv, SessionInv, Header
<1>4. Len(job.w) \in Nat /\ job.w[job.k + 1] \in Word
  BY <1>1, <1>2
<1>5. session.next + Len(job.w) \in 0 .. MaxPayload
  BY <1>1, <1>2, <1>3, <1>4
<1> QED
  BY <1>1, <1>2, <1>4, <1>5 DEF IInv, SessionInv, TypeOK, Session

LEMMA DataWordInv == ASSUME IInv, DataWord PROVE IInv' /\ Quiet
<1> DEFINE at == job.off + job.k
           word == job.w[job.k + 1]
<1>1. pc = "data" /\ cache' = cache
  BY DEF DataWord
<1>2. PICK t \in Slots : t = session.slot
  BY <1>1, DataJob
<1>3. /\ session.active /\ t = Target /\ state[t] = ERASED /\ word \in Word
      /\ session.next + Len(job.w) \in 0 .. MaxPayload
      /\ Len(job.w) \in Nat /\ job.k \in Nat
  BY <1>1, <1>2, DataJob
<1>4. FlashInv' /\ Quiet /\ hdr' = hdr /\ state' = state
  <2>1. CASE word = {}
    BY <2>1, SameFlash DEF DataWord, IInv
  <2>2. CASE word # {}
    BY <1>2, <1>3, <2>2, WordQuiet DEF DataWord, IInv
  <2> QED
    BY <2>1, <2>2
<1>5. Target' = Target /\ Number' = Number
  BY <1>4, QuietKeeps
<1>6. CacheIsCurrent' /\ cache' \in Cache
  BY <1>1, <1>4, QuietCache DEF IInv, TypeOK
<1>7. ASSUME session'.active, session'.hdr = session.hdr, session'.slot = session.slot,
             pc' \in {"listen", "data"}
      PROVE  SessionInv'
  BY <1>2, <1>3, <1>4, <1>5, <1>7 DEF IInv, SessionInv
<1>8. CASE data'[session.slot][at] # word
  <2>1. Finish("NACK") /\ session' = session
    BY <1>8 DEF DataWord
  <2>2. SessionInv'
    BY <1>3, <1>7, <2>1 DEF Finish
  <2> QED
    BY <1>1, <1>4, <1>6, <2>1, <2>2, FinishInv DEF IInv, TypeOK
<1>9. CASE data'[session.slot][at] = word /\ job.k + 1 < Len(job.w)
  <2> DEFINE work == [job EXCEPT !.k = @ + 1]
  <2>1. Proceed("data", work)
    BY <1>9 DEF DataWord
  <2>2. work \in Job /\ work.off = job.off /\ work.w = job.w /\ work.k = job.k + 1
    <3>1. job \in Job
      BY DEF IInv, TypeOK
    <3> QED
      BY <3>1 DEF Job
  <2>3. SessionInv'
    BY <1>3, <1>7, <2>1 DEF Proceed
  <2>4. StageInv'
    BY <2>1 DEF Proceed, StageInv
  <2>5. WriteInv'
    BY <1>1, <1>3, <1>9, <2>1, <2>2 DEF IInv, Proceed, WriteInv
  <2> HIDE DEF work
  <2> QED
    BY <1>1, <1>4, <2>1, <2>2, <2>3, <2>4, <2>5, ProceedInv
<1>10. CASE data'[session.slot][at] = word /\ ~(job.k + 1 < Len(job.w))
  <2>1. session' = [session EXCEPT !.next = @ + Len(job.w)] /\ Finish("ACK")
    BY <1>10 DEF DataWord
  <2>2. session' \in Session /\ session'.active
        /\ session'.hdr = session.hdr /\ session'.slot = session.slot
    BY <1>3, <2>1 DEF IInv, TypeOK, Session
  <2>3. SessionInv'
    BY <1>7, <2>1, <2>2 DEF Finish
  <2> QED
    BY <1>1, <1>4, <1>6, <2>1, <2>2, <2>3, FinishInv
<1> QED
  BY <1>4, <1>8, <1>9, <1>10

\* What a commit, whole or cut off, does to the flash: nothing a scan would
\* notice, or the offered image becomes the current one.
Commits ==
  /\ session.active
  /\ OnlySlot(Target)
  /\ FindValid' = session.slot
  /\ hdr'[session.slot] = session.hdr
  /\ CurrentImage' = OfferedImage

LEMMA CommitStep ==
  ASSUME IInv, pc = "commit", NEW loose \in BOOLEAN, ProgramState(session.slot, loose)
  PROVE  /\ FlashInv' /\ hdr' = hdr
         /\ \/ state'[session.slot] = ERASED /\ Quiet
            \/ state'[session.slot] = COMMITTED /\ Commits
<1>1. PICK t \in Slots : t = session.slot
  BY DEF IInv, TypeOK, Session
<1>2. /\ session.active /\ t = Target /\ state[t] = ERASED
      /\ hdr[t] = session.hdr /\ session.hdr \in Header /\ hdr[t].seq = Number
      /\ PayloadMatches(t, hdr[t])
  BY <1>1 DEF IInv, SessionInv, CommitInv
<1>3. /\ FlashInv' /\ OnlySlot(t) /\ hdr' = hdr /\ data' = data
      /\ \/ state'[t] = ERASED /\ Quiet
         \/ state'[t] = COMMITTED /\ FindValid' = t
  BY <1>1, <1>2, CommitEffect DEF IInv
<1>4. FindValid' = t => CurrentImage' = OfferedImage
  <2>1. ImageOf(session.hdr.len, data[t]) = ImageOf(session.hdr.len, session.hdr.crc)
    <3> DEFINE n == session.hdr.len
               staged == session.hdr.crc
    <3>1. \A i \in Offsets : (IF i < n THEN data[t][i] ELSE {})
                           = (IF i < n THEN staged[i] ELSE {})
      BY <1>2 DEF PayloadMatches
    <3> HIDE DEF n, staged
    <3>2. [i \in Offsets |-> IF i < n THEN data[t][i] ELSE {}]
          = [i \in Offsets |-> IF i < n THEN staged[i] ELSE {}]
      BY <3>1
    <3> QED
      BY <3>2 DEF ImageOf, n, staged
  <2> QED
    BY <1>1, <1>2, <1>3, <2>1 DEF CurrentImage, OfferedImage, Slots, NoSlot
<1> QED
  BY <1>1, <1>2, <1>3, <1>4 DEF Commits

LEMMA EndCommitInv ==
  ASSUME IInv, EndCommit
  PROVE  /\ IInv'
         /\ (Quiet /\ session' = session) \/ (Commits /\ ~session'.active)
<1>1. /\ pc = "commit" /\ ProgramState(session.slot, WeakCells) /\ WeakCells \in BOOLEAN
  BY DEF EndCommit
<1>2. /\ FlashInv' /\ hdr' = hdr
      /\ \/ state'[session.slot] = ERASED /\ Quiet
         \/ state'[session.slot] = COMMITTED /\ Commits
  BY <1>1, CommitStep
<1>3. CASE state'[session.slot] # COMMITTED
  <2>1. Finish("NACK") /\ session' = session /\ cache' = cache
    BY <1>3 DEF EndCommit
  <2>2. Quiet /\ state'[session.slot] = ERASED
    BY <1>2, <1>3
  <2>3. CacheIsCurrent'
    BY <1>1, <2>1, <2>2, QuietCache
  <2>4. SessionInv'
    BY <1>2, <2>1, <2>2, QuietKeeps DEF IInv, SessionInv, Finish
  <2> QED
    BY <1>1, <1>2, <2>1, <2>2, <2>3, <2>4, FinishInv DEF IInv, TypeOK
<1>4. CASE state'[session.slot] = COMMITTED
  <2>1. Commits
    BY <1>2, <1>4 DEF ERASED, COMMITTED
  <2>2. /\ session' = [session EXCEPT !.active = FALSE]
        /\ cache' = Selected' /\ Finish("ACK")
    BY <1>4, <2>1 DEF EndCommit, Commits
  <2>3. session' \in Session /\ ~session'.active
    BY <2>2 DEF IInv, TypeOK, Session
  <2>4. session.slot \in Slots /\ session.hdr \in Header
    BY <2>1 DEF Commits, IInv, TypeOK, Session, SessionInv
  <2>5. cache' = [has |-> TRUE, hdr |-> session.hdr, slot |-> session.slot]
    BY <2>1, <2>2 DEF Selected, Commits
  <2>6. cache' \in Cache /\ CacheIsCurrent'
    BY <2>1, <2>4, <2>5 DEF Cache, CacheIsCurrent, Commits, Slots, NoSlot
  <2>7. SessionInv'
    BY <2>3 DEF SessionInv
  <2> QED
    BY <1>1, <1>2, <2>1, <2>2, <2>3, <2>6, <2>7, FinishInv
<1> QED
  BY <1>3, <1>4

\* Resets.
LEMMA RestartInv ==
  ASSUME IInv, FlashInv', Restart, bootReq' \in BOOLEAN
  PROVE  IInv'
<1>1. NoImage \in [len : 0 .. MaxPayload, word : Content]
  BY DEF NoImage, Content, Word
<1>2. TypeOK'
  BY <1>1, IdleJob DEF IInv, TypeOK, FlashInv, Restart, PCs
<1> QED
  BY <1>2, IdleJob DEF IInv, Restart, CacheIsCurrent, RunInv, SessionInv, StageInv,
                       WriteInv, CommitInv

\* An operation cut off at any point is quiet, or it was the commit.
LEMMA CutOffEffect ==
  ASSUME IInv, CutOff
  PROVE  FlashInv' /\ (Quiet \/ (pc = "commit" /\ Commits))
<1>1. CASE pc = "erase"
  <2>1. PICK t \in Slots : t = job.slot
    BY DEF IInv, TypeOK, Job
  <2>2. ErasePage(t, job.page, TRUE) /\ t = Target
    BY <1>1, <2>1 DEF CutOff, IInv, StageInv
  <2> QED
    BY <2>2, EraseQuiet DEF IInv
<1>2. CASE pc = "header"
  <2>1. PICK t \in Slots : t = job.slot
    BY DEF IInv, TypeOK, Job
  <2>2. /\ WriteHeader(t, job.hdr, TRUE) /\ t = Target
        /\ state[t] = ERASED /\ job.hdr \in Header
    BY <1>2, <2>1 DEF CutOff, IInv, StageInv
  <2> QED
    BY <2>2, HeaderQuiet DEF IInv
<1>3. CASE pc = "data"
  <2>1. PICK t \in Slots : t = session.slot
    BY DEF IInv, TypeOK, Session
  <2>2. ProgramWord(t, job.off + job.k, job.w[job.k + 1], TRUE)
    BY <1>3, <2>1 DEF CutOff
  <2>3. t = Target /\ state[t] = ERASED /\ job.w[job.k + 1] \in Word
    BY <1>3, <2>1, DataJob
  <2> QED
    BY <2>2, <2>3, WordQuiet DEF IInv
<1>4. CASE pc = "commit"
  BY <1>4, CommitStep DEF CutOff
<1>5. CASE pc \notin {"erase", "header", "data", "commit"}
  BY <1>5, SameFlash DEF CutOff, IInv
<1> QED
  BY <1>1, <1>2, <1>3, <1>4, <1>5

LEMMA ResetInv ==
  ASSUME IInv, Resets
  PROVE  IInv' /\ Restart /\ (Quiet \/ (pc = "commit" /\ Commits))
<1>1. CASE ExternalReset
  BY <1>1, CutOffEffect, RestartInv DEF ExternalReset
<1>2. CASE AppRequestsLoader \/ AppWatchdogReset
  <2>1. FlashInv' /\ Quiet
    BY <1>2, SameFlash DEF AppRequestsLoader, AppWatchdogReset, IInv
  <2> QED
    BY <1>2, <2>1, RestartInv DEF AppRequestsLoader, AppWatchdogReset, IInv, TypeOK
<1> QED
  BY <1>1, <1>2 DEF Resets

-----------------------------------------------------------------------------
(* The inductive invariant and what follows from it.                       *)

\* A step of the ROM whatever frame reaches it.
AnyFrame ==
  \E tag \in Nat, ok \in BOOLEAN :
    \/ Hello(tag, ok) \/ End(tag, ok) \/ Boot(tag, ok) \/ Reject(tag)
    \/ \E req \in RequestType : Begin(tag, ok, req)
    \/ \E chunk \in ChunkType : Data(tag, ok, chunk)

AnyNext ==
  \/ Startup \/ TimeoutBoot \/ TimeoutSession \/ Sent \/ BootAfterAck
  \/ AnyFrame \/ FlashSteps \/ Resets

LEMMA NextIsAny == Next => AnyNext
  BY FramesInType DEF Next, Frames, AnyNext, AnyFrame

\* Every step but a commit is quiet.
LEMMA StepInv ==
  ASSUME IInv, [AnyNext]_vars
  PROVE  IInv' /\ (Quiet \/ Commits)
<1>1. CASE Startup
  BY <1>1, StartupInv
<1>2. CASE TimeoutBoot \/ BootAfterAck
  <2>1. StartApplication /\ cache.has /\ pc # "reset" /\ pc # "app"
    BY <1>2 DEF TimeoutBoot, BootAfterAck, Listening, IInv, RunInv
  <2> QED
    BY <2>1, StartApplicationInv
<1>3. CASE TimeoutSession \/ Sent
  BY <1>3, TimeoutSessionInv, SentInv
<1>4. CASE AnyFrame
  BY <1>4, HelloInv, BeginInv, DataInv, EndInv, BootInv, RejectInv DEF AnyFrame
<1>5. CASE FlashSteps
  BY <1>5, BeginEraseInv, BeginHeaderInv, DataWordInv, EndCommitInv DEF FlashSteps
<1>6. CASE Resets
  BY <1>6, ResetInv
<1>7. CASE UNCHANGED vars
  <2>1. FlashInv' /\ Quiet
    BY <1>7, SameFlash DEF vars, IInv
  <2> QED
    BY <1>7, <2>1, HandledInv DEF vars, romVars, IInv, TypeOK, RunInv
<1> QED
  BY <1>1, <1>2, <1>3, <1>4, <1>5, <1>6, <1>7 DEF AnyNext

\* Flash, session and job fit together in every reachable state.
THEOREM Inductive == Spec => []IInv
<1>1. Init => IInv
  BY InitInv
<1>2. IInv /\ [Next]_vars => IInv'
  BY StepInv, NextIsAny
<1> QED
  BY <1>1, <1>2, PTL DEF Spec

\* omcu_bootloader.c: every variable keeps its range under any frames, weak
\* cells and resets.
THEOREM TypeCorrect == Spec => []TypeOK
<1>1. IInv => TypeOK
  BY DEF IInv
<1> QED
  BY <1>1, Inductive, PTL

\* Two valid images always have consecutive sequence numbers.
THEOREM ImagesAreOrdered == Spec => []SequenceOrder
<1>1. IInv => SequenceOrder
  BY DEF IInv, FlashInv
<1> QED
  BY <1>1, Inductive, PTL

\* What the timeout path boots is what a scan would find.
THEOREM CachedSelection == Spec => []CacheIsCurrent
<1>1. IInv => CacheIsCurrent
  BY DEF IInv
<1> QED
  BY <1>1, Inductive, PTL

CurrentKept ==
  FindValid # NoSlot => /\ hdr'[FindValid] = hdr[FindValid]
                        /\ state'[FindValid] = state[FindValid]
                        /\ data'[FindValid] = data[FindValid]

LEMMA CurrentKeptStep == ASSUME IInv, [AnyNext]_vars PROVE CurrentKept
<1>1. CASE Quiet
  BY <1>1 DEF Quiet, CurrentKept
<1>2. CASE Commits
  BY <1>2, TargetResult, FindValidResult DEF Commits, OnlySlot, CurrentKept
<1> QED
  BY <1>1, <1>2, StepInv

\* The slot a reset would boot is never erased or programmed.
THEOREM CurrentSlotKept == Spec => CurrentSlotUntouched
<1>1. IInv /\ [Next]_vars => [CurrentKept]_flashVars
  BY CurrentKeptStep, NextIsAny
<1> QED
  BY <1>1, Inductive, PTL DEF Spec, CurrentSlotUntouched, CurrentKept

-----------------------------------------------------------------------------
(* The ROM implements ImageStore.                                          *)

StoreStep == [Store!Next]_(Store!vars)

LEMMA OfferedIsImage ==
  ASSUME NEW h \in Header
  PROVE  ImageOf(h.len, h.crc) \in AllImages /\ ImageOf(h.len, h.crc) # NoImage
<1>1. h.len \in 1 .. MaxPayload /\ h.crc \in Content
  BY DEF Header
<1>2. ImageOf(h.len, h.crc) \in AllImages
  BY <1>1 DEF AllImages
<1>3. ImageOf(h.len, h.crc).len # NoImage.len
  BY <1>1 DEF ImageOf, NoImage
<1> QED
  BY <1>2, <1>3

LEMMA Stutters ==
  ASSUME Quiet, OfferedImage' = OfferedImage, running' = running
  PROVE  StoreStep
  BY QuietKeeps DEF StoreStep, Store!vars

LEMMA SameSession ==
  ASSUME session' = session
  PROVE  OfferedImage' = OfferedImage
  BY DEF OfferedImage

LEMMA FramesRefine == ASSUME IInv, AnyFrame PROVE StoreStep
<1>1. Quiet
  BY HelloInv, BeginInv, DataInv, EndInv, BootInv, RejectInv DEF AnyFrame
<1>2. \/ Handled /\ session' = session
      \/ \E step, work : Engage(step, work)
  BY Zenon DEF AnyFrame, Hello, Begin, Data, End, Boot, Reject
<1>3. session' = session /\ running' = running
  BY <1>2 DEF Handled, Engage
<1> QED
  BY <1>1, <1>3, SameSession, Stutters

LEMMA BeginHeaderRefines == ASSUME IInv, BeginHeader PROVE StoreStep
<1>1. Quiet /\ running' = running /\ running = NoImage
  BY BeginHeaderInv DEF BeginHeader, Finish, IInv, RunInv
<1>2. CASE hdr'[job.slot] = job.hdr /\ state'[job.slot] = ERASED
  <2>1. session' = [active |-> TRUE, hdr |-> job.hdr, slot |-> job.slot, next |-> 0]
    BY <1>2 DEF BeginHeader
  <2>2. ~session.active /\ job.hdr \in Header
    BY DEF BeginHeader, IInv, StageInv
  <2> DEFINE img == ImageOf(job.hdr.len, job.hdr.crc)
  <2>3. img \in AllImages
    BY <2>2, OfferedIsImage
  <2>4. OfferedImage = NoImage /\ OfferedImage' = img
    BY <2>1, <2>2 DEF OfferedImage
  <2>5. CurrentImage' = CurrentImage
    BY <1>1, QuietKeeps
  <2>6. Store!Offer(img)
    BY <1>1, <2>4, <2>5 DEF Store!Offer
  <2> QED
    BY <2>3, <2>6 DEF StoreStep, Store!Next
<1>3. CASE ~(hdr'[job.slot] = job.hdr /\ state'[job.slot] = ERASED)
  BY <1>1, <1>3, SameSession, Stutters DEF BeginHeader
<1> QED
  BY <1>2, <1>3

\* A commit makes the offered image current.
LEMMA CommitRefines ==
  ASSUME IInv, Commits, ~session'.active, running' = running
  PROVE  StoreStep
<1>1. session.active /\ session.hdr \in Header /\ CurrentImage' = OfferedImage
  BY DEF Commits, IInv, SessionInv
<1>2. OfferedImage # NoImage /\ OfferedImage' = NoImage
  BY <1>1, OfferedIsImage DEF OfferedImage
<1> QED
  BY <1>1, <1>2 DEF StoreStep, Store!Next, Store!Commit

LEMMA FlashStepsRefine == ASSUME IInv, FlashSteps PROVE StoreStep
<1>1. CASE BeginErase
  <2>1. session' = session /\ running' = running
    BY <1>1 DEF BeginErase, Finish, Proceed
  <2> QED
    BY <1>1, <2>1, BeginEraseInv, SameSession, Stutters
<1>2. CASE BeginHeader
  BY <1>2, BeginHeaderRefines
<1>3. CASE DataWord
  <2>1. /\ \/ session' = session
           \/ session' = [session EXCEPT !.next = @ + Len(job.w)]
        /\ running' = running
    BY <1>3 DEF DataWord, Finish, Proceed
  <2>2. OfferedImage' = OfferedImage
    BY <2>1 DEF OfferedImage, IInv, TypeOK, Session
  <2> QED
    BY <1>3, <2>1, <2>2, DataWordInv, Stutters
<1>4. CASE EndCommit
  <2>1. running' = running
    BY <1>4 DEF EndCommit, Finish
  <2>2. (Quiet /\ session' = session) \/ (Commits /\ ~session'.active)
    BY <1>4, EndCommitInv
  <2> QED
    BY <2>1, <2>2, SameSession, Stutters, CommitRefines
<1> QED
  BY <1>1, <1>2, <1>3, <1>4 DEF FlashSteps

LEMMA StartRefines ==
  ASSUME IInv, StartApplication, cache.has, pc # "reset", pc # "app"
  PROVE  StoreStep
<1>1. Quiet /\ FindValid # NoSlot /\ running' = CurrentImage
  BY StartApplicationInv
<1>2. CurrentImage # NoImage
  <2>1. hdr[FindValid] \in Header
    BY <1>1, FindValidResult, ValidHeader DEF IInv, FlashInv
  <2> QED
    BY <1>1, <2>1 DEF CurrentImage, ImageOf, NoImage, Header
<1>3. OfferedImage' = OfferedImage /\ running = NoImage
  BY SameSession DEF StartApplication, IInv, RunInv
<1>4. CurrentImage' = CurrentImage
  BY <1>1, QuietKeeps
<1> QED
  BY <1>1, <1>2, <1>3, <1>4 DEF StoreStep, Store!Next, Store!Start

LEMMA ResetsRefine == ASSUME IInv, Resets PROVE StoreStep
<1>1. Restart /\ (Quiet \/ (pc = "commit" /\ Commits))
  BY ResetInv
<1>2. ~session'.active /\ running' = NoImage
  BY <1>1, IdleJob DEF Restart
<1>3. CASE Quiet
  <2>1. OfferedImage' = NoImage /\ CurrentImage' = CurrentImage
    BY <1>2, <1>3, QuietKeeps DEF OfferedImage
  <2> QED
    BY <1>2, <2>1 DEF StoreStep, Store!Next, Store!Abandon
<1>4. CASE pc = "commit" /\ Commits
  <2>1. running = NoImage
    BY <1>4 DEF IInv, RunInv
  <2> QED
    BY <1>2, <1>4, <2>1, CommitRefines
<1> QED
  BY <1>1, <1>3, <1>4

LEMMA StepRefines == ASSUME IInv, [AnyNext]_vars PROVE StoreStep
<1>1. CASE Startup
  <2>1. session' = session /\ running' = running
    BY <1>1 DEF Startup
  <2> QED
    BY <1>1, <2>1, StartupInv, SameSession, Stutters
<1>2. CASE TimeoutBoot \/ BootAfterAck
  <2>1. StartApplication /\ cache.has /\ pc # "reset" /\ pc # "app"
    BY <1>2 DEF TimeoutBoot, BootAfterAck, Listening, IInv, RunInv
  <2> QED
    BY <2>1, StartRefines
<1>3. CASE TimeoutSession
  <2>1. Quiet
    BY <1>3, TimeoutSessionInv
  <2>2. ~session'.active /\ running' = running /\ running = NoImage
    BY <1>3 DEF TimeoutSession, Listening, IInv, RunInv, TypeOK, Session
  <2>3. OfferedImage' = NoImage /\ CurrentImage' = CurrentImage
    BY <2>1, <2>2, QuietKeeps DEF OfferedImage
  <2> QED
    BY <2>2, <2>3 DEF StoreStep, Store!Next, Store!Abandon
<1>4. CASE Sent
  <2>1. session' = session /\ running' = running
    BY <1>4 DEF Sent
  <2> QED
    BY <1>4, <2>1, SentInv, SameSession, Stutters
<1>5. CASE AnyFrame
  BY <1>5, FramesRefine
<1>6. CASE FlashSteps
  BY <1>6, FlashStepsRefine
<1>7. CASE Resets
  BY <1>7, ResetsRefine
<1>8. CASE UNCHANGED vars
  <2>1. Quiet
    BY <1>8, SameFlash DEF vars, IInv
  <2> QED
    BY <1>8, <2>1, SameSession, Stutters DEF vars, romVars
<1> QED
  BY <1>1, <1>2, <1>3, <1>4, <1>5, <1>6, <1>7, <1>8 DEF AnyNext

\* docs/zh-CN/mcu-firmware-update.md items 5 and 6: every behaviour of the ROM,
\* resets and weak cells included, is one of the atomic image store.
THEOREM UpdateIsAtomic == Spec => UpdatesAreAtomic
<1>1. Init => Store!Init
  <2> SUFFICES ASSUME Init PROVE Store!Init
    OBVIOUS
  <2>1. FindValid = NoSlot
    BY FindValidResult DEF Init, FlashInit, Valid, Slots
  <2>2. CurrentImage = NoImage /\ OfferedImage = NoImage /\ running = NoImage
    BY <2>1 DEF Init, RomInit, CurrentImage, OfferedImage, NoSession
  <2> QED
    BY <2>2 DEF Store!Init, Store!MaybeImage
<1>2. IInv /\ [Next]_vars => [Store!Next]_(Store!vars)
  BY StepRefines, NextIsAny DEF StoreStep
<1> QED
  BY <1>1, <1>2, Inductive, PTL DEF Spec, UpdatesAreAtomic, Store!Spec

-----------------------------------------------------------------------------
(* Without weak cells no word is programmed twice between two erases.      *)

LEMMA DivBounds ==
  ASSUME NEW a \in Nat, NEW p \in Nat \ {0}
  PROVE  a \div p \in Nat /\ p * (a \div p) <= a /\ a < p * (a \div p) + p
  OBVIOUS

LEMMA DivStep ==
  ASSUME NEW a \in Nat, NEW b \in Nat, NEW p \in Nat \ {0}, a + p <= b
  PROVE  a \div p < b \div p
<1> DEFINE q == a \div p
           r == b \div p
<1>1. q \in Nat /\ p * q <= a /\ a < p * q + p
  BY DivBounds
<1>2. r \in Nat /\ p * r <= b /\ b < p * r + p
  BY DivBounds
<1> HIDE DEF q, r
<1>3. p * q < p * r
  BY <1>1, <1>2
<1>4. q < r
  BY <1>1, <1>2, <1>3
<1> QED
  BY <1>4 DEF q, r

\* The erased pages hold every word of a payload of that length.
LEMMA PagesCover ==
  ASSUME NEW len \in Nat, NEW i \in Offsets, i < len
  PROVE  PageOf(i) \in Nat /\ ErasePages(len) \in Nat /\ PageOf(i) < ErasePages(len)
<1>1. /\ HeaderWords + i \in Nat /\ HeaderWords + len + PageWords - 1 \in Nat
      /\ (HeaderWords + i) + PageWords <= HeaderWords + len + PageWords - 1
  BY DEF Offsets
<1> QED
  BY <1>1, DivBounds, DivStep DEF PageOf, ErasePages

LEMMA PageInNat == \A i \in Offsets : PageOf(i) \in Nat
<1>1. \A i \in Offsets : i \in Nat /\ i < i + 1 /\ i + 1 \in Nat
  BY DEF Offsets
<1> QED
  BY <1>1, PagesCover

\* The next payload word to be programmed.
Reached == IF pc = "data" THEN session.next + job.k ELSE session.next

ErasedAhead ==
  /\ pc = "erase" =>
       \A i \in Offsets : PageOf(i) < job.page => data[job.slot][i] = {}
  /\ pc = "header" =>
       \A i \in Offsets : i < job.hdr.len => data[job.slot][i] = {}
  /\ session.active =>
       \A i \in Offsets : Reached <= i /\ i < session.hdr.len =>
         data[session.slot][i] = {}

\* Steps that leave the flash alone.
LEMMA CalmErased ==
  ASSUME IInv, ErasedAhead, data' = data,
         \/ pc' = pc /\ job' = job
         \/ pc' \notin {"erase", "header", "data"} /\ pc # "data"
         \/ pc' = "erase" /\ job'.page = 0 /\ pc = "listen"
         \/ pc' = "data" /\ job'.k = 0 /\ pc = "listen",
         session' = session \/ session' = [session EXCEPT !.active = FALSE]
                            \/ session' = NoSession
  PROVE  ErasedAhead'
<1>1. session.next \in Nat
  BY DEF IInv, TypeOK, Session
<1>2. session' = session \/ ~session'.active
  BY DEF IInv, TypeOK, Session, NoSession
<1>3. session'.active => Reached' = Reached
  BY <1>1, <1>2 DEF Reached
<1>4. \A i \in Offsets : ~(PageOf(i) < 0)
  <2>1. \A n \in Nat : ~(n < 0)
    OBVIOUS
  <2> QED
    BY <2>1, PageInNat
<1> QED
  BY <1>2, <1>3, <1>4 DEF ErasedAhead

LEMMA EraseErased ==
  ASSUME IInv, ErasedAhead, ~WeakCells, BeginErase PROVE ErasedAhead'
<1>1. PICK t \in Slots : t = job.slot
  BY DEF IInv, TypeOK, Job
<1>2. /\ pc = "erase" /\ session' = session /\ ~session.active /\ job.page \in Nat
      /\ job.hdr.len \in Nat
  BY DEF BeginErase, Finish, Proceed, IInv, StageInv, TypeOK, Job, Header
<1>3. \A i \in Offsets : PageOf(i) \in Nat
  BY PageInNat
<1>4. \A i \in Offsets : PageOf(i) < job.page + 1 => data'[t][i] = {}
  <2>1. PICK d \in Content :
          /\ \A i \in Offsets : IF PageOf(i) # job.page THEN d[i] = data[t][i]
                                                        ELSE d[i] \subseteq {}
          /\ data' = [data EXCEPT ![t] = d]
    BY <1>1 DEF BeginErase, ErasePage
  <2>2. data'[t] = d
    BY <2>1 DEF IInv, TypeOK, FlashTypeOK
  <2>3. \A i \in Offsets : PageOf(i) < job.page => data[t][i] = {}
    BY <1>1, <1>2 DEF ErasedAhead
  <2>4. \A i \in Offsets : PageOf(i) < job.page + 1 => PageOf(i) < job.page
                                                       \/ PageOf(i) = job.page
    BY <1>2, <1>3
  <2> QED
    BY <2>1, <2>2, <2>3, <2>4
<1>5. CASE pc' = "listen"
  BY <1>2, <1>5 DEF ErasedAhead
<1>6. CASE pc' = "erase" /\ job' = [job EXCEPT !.page = @ + 1]
  <2>1. job'.slot = t /\ job'.page = job.page + 1
    BY <1>1, <1>6 DEF IInv, TypeOK, Job
  <2> QED
    BY <1>2, <1>4, <1>6, <2>1 DEF ErasedAhead
<1>7. CASE /\ pc' = "header" /\ job' = [job EXCEPT !.page = 0]
           /\ ~(job.page + 1 < ErasePages(job.hdr.len))
  <2>1. job'.slot = t /\ job'.hdr = job.hdr
    BY <1>1, <1>7 DEF IInv, TypeOK, Job
  <2>2. ASSUME NEW i \in Offsets, i < job.hdr.len PROVE PageOf(i) < job.page + 1
    BY <1>2, <1>7, <2>2, PagesCover
  <2> QED
    BY <1>2, <1>4, <1>7, <2>1, <2>2 DEF ErasedAhead
<1> QED
  BY <1>5, <1>6, <1>7 DEF BeginErase, Finish, Proceed

LEMMA HeaderErased == ASSUME IInv, ErasedAhead, BeginHeader PROVE ErasedAhead'
<1>1. /\ pc = "header" /\ pc' = "listen" /\ data' = data /\ ~session.active
      /\ \/ session' = session
         \/ session' = [active |-> TRUE, hdr |-> job.hdr, slot |-> job.slot, next |-> 0]
  BY DEF BeginHeader, WriteHeader, Finish, IInv, StageInv
<1> QED
  BY <1>1 DEF ErasedAhead

\* Cells that take what is programmed: the word that was sent is read back.
LEMMA WordReadBack ==
  ASSUME IInv, ErasedAhead, ~WeakCells, DataWord
  PROVE  data'[session.slot][job.off + job.k] = job.w[job.k + 1]
<1> DEFINE at == job.off + job.k
           word == job.w[job.k + 1]
<1>1. /\ pc = "data" /\ session.active /\ session.slot \in Slots
      /\ job.off = session.next /\ job.k \in Nat /\ session.next \in Nat
      /\ Len(job.w) \in Nat /\ job.k < Len(job.w)
      /\ data \in [Slots -> Content]
  BY DataJob DEF DataWord, IInv, WriteInv, TypeOK, FlashTypeOK, Session
<1>2. Reached = at /\ at \in Offsets /\ at < session.hdr.len
  <2>1. session.hdr.len \in 1 .. MaxPayload /\ job.off + Len(job.w) <= session.hdr.len
    BY <1>1 DEF IInv, SessionInv, WriteInv, Header
  <2> QED
    BY <1>1, <2>1 DEF Reached, Offsets
<1>3. data[session.slot][at] = {}
  BY <1>1, <1>2 DEF ErasedAhead, Offsets
<1>4. CASE word = {}
  <2>1. data' = data
    BY <1>4 DEF DataWord, flashVars
  <2> QED
    BY <1>3, <1>4, <2>1
<1>5. CASE word # {}
  <2>1. PICK v \in Programmed(data[session.slot][at], word, WeakCells, Bit) :
          data' = [data EXCEPT ![session.slot] =
                     [data[session.slot] EXCEPT ![at] = v]]
    BY <1>1, <1>5 DEF DataWord, ProgramWord
  <2>2. v = word
    BY <1>3, <2>1 DEF Programmed
  <2> QED
    BY <1>1, <1>2, <2>1, <2>2 DEF Content
<1> QED
  BY <1>4, <1>5

\* So the words ahead of it are still erased.
LEMMA WordErased ==
  ASSUME IInv, ErasedAhead, ~WeakCells, DataWord PROVE ErasedAhead'
<1> DEFINE at == job.off + job.k
           word == job.w[job.k + 1]
<1>1. /\ pc = "data" /\ session.active /\ session.slot \in Slots
      /\ job.off = session.next /\ job.k \in Nat /\ session.next \in Nat
      /\ Len(job.w) \in Nat /\ job.k < Len(job.w)
      /\ data \in [Slots -> Content]
  BY DataJob DEF DataWord, IInv, WriteInv, TypeOK, FlashTypeOK, Session
<1>2. Reached = at /\ at \in Offsets /\ at < session.hdr.len
  <2>1. session.hdr.len \in 1 .. MaxPayload /\ job.off + Len(job.w) <= session.hdr.len
    BY <1>1 DEF IInv, SessionInv, WriteInv, Header
  <2> QED
    BY <1>1, <2>1 DEF Reached, Offsets
<1>3. /\ \A i \in Offsets : i # at => data'[session.slot][i] = data[session.slot][i]
      /\ data'[session.slot][at] = word
  <2>1. CASE data' = data
    BY <2>1, WordReadBack
  <2>2. CASE ProgramWord(session.slot, at, word, WeakCells)
    <3>1. PICK v : data' = [data EXCEPT ![session.slot] =
                              [data[session.slot] EXCEPT ![at] = v]]
      BY <1>1, <2>2 DEF ProgramWord
    <3> QED
      BY <1>1, <3>1, WordReadBack DEF Content
  <2> QED
    BY <2>1, <2>2 DEF DataWord, flashVars
<1>4. /\ pc' \in {"data", "listen"}
      /\ pc' = "data" => session' = session /\ job' = [job EXCEPT !.k = @ + 1]
      /\ pc' = "listen" => session' = [session EXCEPT !.next = @ + Len(job.w)]
                           /\ ~(job.k + 1 < Len(job.w))
  BY <1>3 DEF DataWord, Finish, Proceed
<1>5. /\ session'.slot = session.slot /\ session'.hdr = session.hdr
      /\ pc' = "data" => session'.next = session.next /\ job'.k = job.k + 1
      /\ pc' = "listen" => session'.next = session.next + Len(job.w)
  BY <1>4 DEF IInv, TypeOK, Session, Job
<1>6. Reached' = at + 1
  <2>1. CASE pc' = "data"
    <3>1. Reached' = session.next + (job.k + 1)
      BY <1>5, <2>1 DEF Reached
    <3> QED
      BY <1>1, <3>1
  <2>2. CASE pc' = "listen"
    <3>1. Reached' = session.next + Len(job.w)
      BY <1>5, <2>2 DEF Reached
    <3>2. Len(job.w) = job.k + 1
      BY <1>1, <1>4, <2>2
    <3> QED
      BY <1>1, <3>1, <3>2
  <2> QED
    BY <1>4, <2>1, <2>2
<1>7. ASSUME NEW i \in Offsets, at + 1 <= i, i < session.hdr.len
      PROVE  data'[session.slot][i] = {}
  <2>1. at <= i /\ i # at
    BY <1>2, <1>7 DEF Offsets
  <2> QED
    BY <1>1, <1>2, <1>3, <1>7, <2>1 DEF ErasedAhead
<1> QED
  BY <1>4, <1>5, <1>6, <1>7 DEF ErasedAhead

LEMMA CommitErased == ASSUME IInv, ErasedAhead, EndCommit PROVE ErasedAhead'
<1>1. /\ pc = "commit" /\ pc' = "listen" /\ data' = data
      /\ session' = session \/ session' = [session EXCEPT !.active = FALSE]
  BY DEF EndCommit, ProgramState, Finish
<1> QED
  BY <1>1, CalmErased

LEMMA FrameErased == ASSUME IInv, ErasedAhead, AnyFrame PROVE ErasedAhead'
<1>1. pc = "listen" /\ data' = data /\ session' = session
  <2>1. \/ Handled /\ session' = session
        \/ \E step, work : Engage(step, work)
    BY Zenon DEF AnyFrame, Hello, Begin, Data, End, Boot, Reject
  <2> QED
    BY <2>1 DEF Handled, Engage, Listening, flashVars
<1>2. CASE pc' \in {"listen", "boot", "commit"}
  BY <1>1, <1>2, CalmErased
<1>3. CASE pc' \notin {"listen", "boot", "commit"}
  <2>1. PICK tag \in Nat, ok \in BOOLEAN :
          \/ \E req \in RequestType : Begin(tag, ok, req)
          \/ \E chunk \in ChunkType : Data(tag, ok, chunk)
    BY <1>1, <1>3 DEF AnyFrame, Hello, End, Boot, Reject, Handled, Engage
  <2>2. CASE \E req \in RequestType : Begin(tag, ok, req)
    <3>1. PICK h : Engage("erase", [Idle EXCEPT !.slot = Target, !.tag = tag, !.hdr = h])
      BY <1>1, <1>3, <2>2 DEF Begin, Reject
    <3>2. pc' = "erase" /\ job'.page = 0
      BY <3>1 DEF Engage, Idle
    <3> QED
      BY <1>1, <3>2, CalmErased
  <2>3. CASE \E chunk \in ChunkType : Data(tag, ok, chunk)
    <3>1. PICK o, w : Engage("data", [Idle EXCEPT !.off = o, !.w = w, !.tag = tag])
      BY <1>1, <1>3, <2>3 DEF Data, Reject
    <3>2. pc' = "data" /\ job'.k = 0
      BY <3>1 DEF Engage, Idle
    <3> QED
      BY <1>1, <3>2, CalmErased
  <2> QED
    BY <2>1, <2>2, <2>3
<1> QED
  BY <1>2, <1>3

\* A reset ends the session, so what it cut off no longer matters.
LEMMA ResetErased == ASSUME IInv, Resets PROVE ErasedAhead'
<1>1. pc' = "reset" /\ ~session'.active
  BY ResetInv, IdleJob DEF Restart
<1> QED
  BY <1>1 DEF ErasedAhead

LEMMA StepErased ==
  ASSUME IInv, ErasedAhead, ~WeakCells, [AnyNext]_vars PROVE ErasedAhead'
<1>1. CASE Startup \/ TimeoutBoot \/ BootAfterAck
  <2>1. /\ data' = data /\ session' = session /\ pc' \in {"listen", "app"}
        /\ pc \notin {"erase", "header", "data"}
    BY <1>1 DEF Startup, TimeoutBoot, BootAfterAck, StartApplication, Listening, flashVars
  <2> QED
    BY <2>1, CalmErased
<1>2. CASE TimeoutSession \/ Sent \/ UNCHANGED vars
  <2>1. /\ data' = data /\ pc' = pc /\ job' = job
        /\ session' = session \/ session' = [session EXCEPT !.active = FALSE]
    BY <1>2 DEF TimeoutSession, Sent, vars, romVars, flashVars
  <2> QED
    BY <2>1, CalmErased
<1>3. CASE AnyFrame
  BY <1>3, FrameErased
<1>4. CASE FlashSteps
  BY <1>4, EraseErased, HeaderErased, WordErased, CommitErased DEF FlashSteps
<1>5. CASE Resets
  BY <1>5, ResetErased
<1> QED
  BY <1>1, <1>2, <1>3, <1>4, <1>5 DEF AnyNext

LEMMA ErasedProgrammed == ASSUME IInv, ErasedAhead PROVE ProgramsErasedWords
<1>1. ASSUME pc = "data" PROVE data[session.slot][job.off + job.k] = {}
  <2>1. /\ session.active /\ job.off = session.next /\ job.k \in Nat
        /\ session.next \in Nat /\ Len(job.w) \in Nat /\ job.k < Len(job.w)
        /\ session.hdr.len \in 1 .. MaxPayload
        /\ job.off + Len(job.w) <= session.hdr.len
    BY <1>1, DataJob DEF IInv, WriteInv, TypeOK, Session, SessionInv, Header
  <2>2. /\ Reached = job.off + job.k /\ job.off + job.k \in Offsets
        /\ job.off + job.k < session.hdr.len
    BY <1>1, <2>1 DEF Reached, Offsets
  <2> QED
    BY <2>1, <2>2 DEF ErasedAhead, Offsets
<1> QED
  BY <1>1 DEF ProgramsErasedWords, IInv, StageInv, CommitInv, SessionInv

\* omcu_boot_flash_write_header: between two erases no word is programmed twice,
\* if the cells take what is programmed; frames and resets are any.
THEOREM ErasedOnly == ASSUME ~WeakCells PROVE Spec => []ProgramsErasedWords
<1>1. Init => ErasedAhead
  BY DEF Init, RomInit, NoSession, ErasedAhead
<1>2. IInv /\ ErasedAhead /\ [Next]_vars => ErasedAhead'
  BY StepErased, NextIsAny
<1>3. IInv /\ ErasedAhead => ProgramsErasedWords
  BY ErasedProgrammed
<1> QED
  BY <1>1, <1>2, <1>3, Inductive, PTL DEF Spec

-----------------------------------------------------------------------------
(* An update over the line: what tools/omcu_flash.py reports committed is    *)
(* committed, and what was acknowledged to it is written.  The line adds no  *)
(* step of its own to the ROM, so the ROM's invariant carries over.  On top  *)
(* of it the proof follows the sequence numbers: an answer under the host's  *)
(* current number can only come from the command the host is waiting for.    *)

Commands == {"HELLO", "BEGIN", "DATA", "END", "BOOT"}

\* The answers the host may still read.
InFlight == {reply} \cup {up[i] : i \in 1 .. Len(up)}

\* An acknowledgement of the exchange in progress.
Acked == [type |-> "ACK", tag |-> host.tag] \in InFlight

\* The handlers that change the flash step by step.
Busy == pc \in {"erase", "header", "data", "commit"}

HostOK ==
  /\ host \in [cmd : Commands \cup Ended, tag : Nat, off : Nat, tries : Nat,
               sent : BOOLEAN]
  /\ host.tag # 0
  /\ host.off < Update.len
  /\ host.sent => host.cmd \in Commands
  /\ host.cmd = "BEGIN" => host.tries = 0

\* The frame on the line is the one of the exchange in progress.
LineOK ==
  /\ down # NoFrame =>
       /\ host.sent /\ host.cmd \in Commands
       /\ down = [cmd |-> host.cmd, tag |-> host.tag, off |-> host.off]
  /\ up \in Seq(Reply)

\* No answer is ahead of the host.
TagsBelow == job.tag <= host.tag /\ \A a \in InFlight : a.tag <= host.tag

\* The host offers one image, so every session is about that one.
OnlyUpdate ==
  /\ session.hdr # Blank => session.hdr.len = Update.len /\ session.hdr.crc = Update.crc
  /\ job.hdr # Blank => job.hdr.len = Update.len /\ job.hdr.crc = Update.crc

\* An acknowledged END means the update is the image a reset would boot.
EndMeansCommitted ==
  /\ host.cmd = "END" /\ job.tag = host.tag => pc = "commit"
  /\ host.cmd = "END" /\ Acked => CurrentImage = UpdateImage

\* Before BEGIN has arrived there is no session; it arrives once, and while it
\* is at work nothing has acknowledged it.
Opening ==
  /\ \/ host.cmd = "HELLO"
     \/ host.cmd = "BEGIN" /\ (~host.sent \/ down # NoFrame)
     => ~session.active /\ ~Busy
  /\ host.cmd = "BEGIN" /\ (~host.sent \/ down # NoFrame) => ~Acked
  /\ host.cmd = "BEGIN" => pc \notin {"data", "commit"}
                           /\ (session.active => session.next = 0)
  /\ pc \in {"erase", "header"} => host.cmd \in {"BEGIN", "failed"}
                                   /\ (host.cmd = "BEGIN" => ~Acked)

ChunkLen == Len(ChunkAt(host.off).w)

\* Words of the staged payload that are programmed and read back.
Written == IF pc = "data" THEN session.next + job.k ELSE session.next

\* The session is at the chunk of the exchange in progress, or just behind it.
Sending ==
  host.cmd = "DATA" =>
    /\ pc # "commit"
    /\ session.active => session.next \in {host.off, host.off + ChunkLen}
    /\ session.active /\ Acked => session.next = host.off + ChunkLen
    /\ pc = "data" => job.off = host.off /\ job.w = ChunkAt(host.off).w
    /\ session.active =>
         \A i \in Offsets : i < Written => data[session.slot][i] = Update.crc[i]

LinkInv ==
  /\ IInv
  /\ HostOK /\ LineOK /\ TagsBelow /\ OnlyUpdate
  /\ EndMeansCommitted /\ ReportedMeansCommitted
  /\ Opening /\ Sending

USE GeometryAssumption, HeaderAssumption, FrameAssumption, LinkAssumption

-----------------------------------------------------------------------------
(* Chunks, answers and the current image.                                  *)

LEMMA UpdateType ==
  /\ Update \in RequestType /\ Update.len \in 1 .. MaxPayload
  /\ Older \in RequestType /\ Older.len \in 1 .. MaxPayload
  BY DEF RequestType

\* A chunk is not empty, lies within the image and carries its words; the next
\* one starts where it ends.
LEMMA ChunkFacts ==
  ASSUME NEW off \in Nat, off < Update.len
  PROVE  /\ ChunkAt(off) \in ChunkType /\ ChunkAt(off).off = off
         /\ Len(ChunkAt(off).w) \in Nat \ {0}
         /\ off + Len(ChunkAt(off).w) <= Update.len
         /\ off + ChunkWords < Update.len => Len(ChunkAt(off).w) = ChunkWords
         /\ \A j \in 1 .. Len(ChunkAt(off).w) :
              ChunkAt(off).w[j] = Update.crc[off + j - 1]
<1> DEFINE n == IF off + ChunkWords <= Update.len THEN ChunkWords ELSE Update.len - off
           w == [j \in 1 .. n |-> Update.crc[off + j - 1]]
<1>1. n \in Nat \ {0} /\ off + n <= Update.len
      /\ (off + ChunkWords < Update.len => n = ChunkWords)
  BY UpdateType
<1>2. ASSUME NEW j \in 1 .. n PROVE Update.crc[off + j - 1] \in Word
  <2>1. off + j - 1 \in Offsets
    BY <1>1, UpdateType DEF Offsets
  <2> QED
    BY <2>1, UpdateType DEF RequestType, Content
<1>3. ChunkAt(off) = [off |-> off, w |-> w]
  BY DEF ChunkAt
<1> HIDE DEF n
<1>4. w \in Seq(Word) /\ Len(w) = n
  BY <1>1, <1>2
<1> QED
  BY <1>1, <1>3, <1>4 DEF ChunkType

\* Answers that are read or lost leave the others, an answer that is sent stays
\* in flight.
LEMMA SentInFlight ==
  ASSUME up \in Seq(Reply), reply \in Reply, Sent,
         up' = up \/ up' = Append(up, reply)
  PROVE  up' \in Seq(Reply) /\ InFlight' \subseteq InFlight \cup {NoReply}
<1>1. CASE up' = up
  BY <1>1 DEF InFlight, Sent
<1>2. CASE up' = Append(up, reply)
  <2>1. up' \in Seq(Reply) /\ Len(up') = Len(up) + 1
    BY <1>2
  <2>2. \A i \in 1 .. Len(up') : \/ up'[i] = reply
                                 \/ i \in 1 .. Len(up) /\ up'[i] = up[i]
    BY <1>2, <2>1
  <2> QED
    BY <2>1, <2>2 DEF InFlight, Sent
<1> QED
  BY <1>1, <1>2

LEMMA ReadInFlight ==
  ASSUME up \in Seq(Reply), up # << >>, up' = Tail(up), reply' = reply
  PROVE  /\ up' \in Seq(Reply) /\ InFlight' \subseteq InFlight
         /\ Head(up) \in InFlight /\ Head(up) \in Reply
<1>1. up' \in Seq(Reply) /\ Len(up') = Len(up) - 1 /\ Len(up) \in Nat \ {0}
  OBVIOUS
<1>2. \A i \in 1 .. Len(up') : i + 1 \in 1 .. Len(up) /\ up'[i] = up[i + 1]
  BY <1>1
<1>3. Head(up) = up[1] /\ 1 \in 1 .. Len(up)
  BY <1>1
<1> QED
  BY <1>1, <1>2, <1>3 DEF InFlight

LEMMA AnswerInFlight ==
  ASSUME up' = up
  PROVE  InFlight' \subseteq InFlight \cup {reply'}
  BY DEF InFlight

\* The image that is offered is the update.
LEMMA OfferedUpdate ==
  ASSUME IInv, OnlyUpdate, session.active
  PROVE  OfferedImage = UpdateImage
  BY DEF OfferedImage, UpdateImage, IInv, SessionInv, OnlyUpdate

\* Once the update is the current image it stays so.
LEMMA ImageKept ==
  ASSUME IInv, OnlyUpdate, Quiet \/ Commits, CurrentImage = UpdateImage
  PROVE  CurrentImage' = UpdateImage
  BY QuietKeeps, OfferedUpdate DEF Commits

\* The idempotent END acknowledges only the update.
LEMMA CommittedSession ==
  ASSUME IInv, OnlyUpdate, SessionIsCommitted
  PROVE  CurrentImage = UpdateImage
<1>1. FindValid = session.slot /\ hdr[FindValid] = session.hdr /\ session.slot \in Slots
  BY DEF SessionIsCommitted, IInv, TypeOK, Session
<1>2. FindValid # NoSlot /\ Valid(FindValid)
  BY <1>1, FindValidResult DEF Slots, NoSlot
<1>3. session.hdr \in Header /\ PayloadMatches(FindValid, session.hdr)
  BY <1>1, <1>2, ValidHeader DEF IInv, FlashInv, Valid
<1>4. session.hdr.len = Update.len /\ session.hdr.crc = Update.crc
  BY <1>3 DEF OnlyUpdate
<1>5. ImageOf(Update.len, data[FindValid]) = ImageOf(Update.len, Update.crc)
  <2> DEFINE n == Update.len
             c == Update.crc
             d == data[FindValid]
  <2>1. \A i \in Offsets : (IF i < n THEN d[i] ELSE {}) = (IF i < n THEN c[i] ELSE {})
    BY <1>3, <1>4 DEF PayloadMatches
  <2> HIDE DEF n, c, d
  <2>2. [i \in Offsets |-> IF i < n THEN d[i] ELSE {}]
        = [i \in Offsets |-> IF i < n THEN c[i] ELSE {}]
    BY <2>1
  <2> QED
    BY <2>2 DEF ImageOf, n, c, d
<1> QED
  BY <1>1, <1>2, <1>4, <1>5 DEF CurrentImage, UpdateImage

-----------------------------------------------------------------------------
(* The host.                                                               *)

\* A step of the host that leaves the ROM alone.
LEMMA RomUntouched ==
  ASSUME LinkInv, UNCHANGED vars
  PROVE  /\ IInv' /\ OnlyUpdate' /\ CurrentImage' = CurrentImage
         /\ flashVars' = flashVars /\ session' = session /\ pc' = pc /\ job' = job
         /\ reply' = reply /\ Busy' = Busy
<1>1. IInv' /\ Quiet
  <2>1. FlashInv' /\ Quiet
    BY SameFlash DEF vars, LinkInv, IInv
  <2> QED
    BY <2>1, HandledInv DEF vars, romVars, LinkInv, IInv, TypeOK, RunInv
<1> QED
  BY <1>1, QuietKeeps DEF vars, romVars, LinkInv, OnlyUpdate, Busy

LEMMA HostSendInv == ASSUME LinkInv, HostSend PROVE LinkInv'
<1>1. UNCHANGED vars /\ up' = up /\ InFlight' = InFlight
  BY DEF HostSend, InFlight, vars, romVars
<1>2. /\ host' = [host EXCEPT !.sent = TRUE] /\ host.cmd \in Commands
      /\ host' \in [cmd : Commands \cup Ended, tag : Nat, off : Nat, tries : Nat,
                    sent : BOOLEAN]
      /\ host'.cmd = host.cmd /\ host'.tag = host.tag /\ host'.off = host.off
      /\ host'.tries = host.tries /\ host'.sent
  BY DEF HostSend, LinkInv, HostOK
<1>3. HostOK' /\ LineOK' /\ TagsBelow'
  BY <1>1, <1>2, RomUntouched DEF HostSend, LinkInv, HostOK, LineOK, TagsBelow
<1>4. EndMeansCommitted' /\ ReportedMeansCommitted'
  BY <1>1, <1>2, RomUntouched
     DEF LinkInv, EndMeansCommitted, ReportedMeansCommitted, Acked
<1>5. Opening'
  BY <1>1, <1>2, RomUntouched DEF HostSend, LinkInv, Opening, Acked
<1>6. Sending'
  <2>1. /\ ChunkLen' = ChunkLen /\ ChunkAt(host.off)' = ChunkAt(host.off)
        /\ Acked' = Acked
    BY <1>1, <1>2 DEF ChunkLen, ChunkAt, Acked
  <2>2. Written' = Written /\ data' = data
    BY <1>1 DEF vars, romVars, flashVars, Written
  <2>3. /\ UNCHANGED <<host.cmd, host.off, pc, session, job, data>>
    BY <1>1, <1>2 DEF vars, romVars, flashVars
  <2> QED
    BY <2>1, <2>2, <2>3 DEF LinkInv, Sending
<1> QED
  BY <1>1, <1>3, <1>4, <1>5, <1>6, RomUntouched DEF LinkInv

\* The host after an exchange ended: the line is empty, answers may be gone.
HostTurn ==
  /\ UNCHANGED vars
  /\ down = NoFrame /\ down' = NoFrame
  /\ up' \in Seq(Reply) /\ InFlight' \subseteq InFlight

HostType == [cmd : Commands \cup Ended, tag : Nat, off : Nat, tries : Nat, sent : BOOLEAN]

\* No answer carries a number the host has not used yet.
LEMMA FreshTag ==
  ASSUME LinkInv, HostTurn, host'.tag = host.tag + 1
  PROVE  ~Acked' /\ TagsBelow' /\ job'.tag # host'.tag
<1>1. reply \in Reply /\ up \in Seq(Reply) /\ job.tag \in Nat /\ host.tag \in Nat
  BY DEF LinkInv, IInv, TypeOK, LineOK, HostOK, Job
<1>2. \A a \in InFlight : a.tag \in Nat
  <2>1. \A i \in 1 .. Len(up) : up[i] \in Reply
    BY <1>1
  <2> QED
    BY <1>1, <2>1 DEF InFlight, Reply
<1>3. job' = job
  BY RomUntouched DEF HostTurn
<1> QED
  BY <1>1, <1>2, <1>3 DEF LinkInv, HostTurn, TagsBelow, Acked

\* The host gives up.
LEMMA FailedInv ==
  ASSUME LinkInv, HostTurn, host' = [host EXCEPT !.cmd = "failed", !.sent = FALSE]
  PROVE  LinkInv'
<1>1. /\ host' \in HostType
      /\ host'.cmd = "failed" /\ host'.tag = host.tag /\ host'.off = host.off
  BY DEF LinkInv, HostOK, HostType, Ended
<1>2. HostOK' /\ LineOK' /\ TagsBelow'
  BY <1>1, RomUntouched DEF HostTurn, HostType, LinkInv, HostOK, LineOK, TagsBelow
<1>3. EndMeansCommitted' /\ ReportedMeansCommitted' /\ Opening' /\ Sending'
  BY <1>1, RomUntouched
     DEF HostTurn, LinkInv, EndMeansCommitted, ReportedMeansCommitted, Opening, Sending
<1> QED
  BY <1>2, <1>3, RomUntouched DEF LinkInv, HostTurn

\* The host sends the same frame again, a HELLO under a fresh number.
LEMMA RetryInv ==
  ASSUME LinkInv, HostTurn, host.cmd # "BEGIN", host.cmd \in Commands,
         NEW tag \in Nat \ {0}, tag \in {host.tag, host.tag + 1},
         host.cmd # "HELLO" => tag = host.tag,
         host' = [host EXCEPT !.tries = @ + 1, !.sent = FALSE, !.tag = tag]
  PROVE  LinkInv'
<1>1. /\ host' \in HostType
      /\ host'.cmd = host.cmd /\ host'.off = host.off /\ ~host'.sent
      /\ host'.tag = tag
  <2>1. host \in HostType
    BY DEF LinkInv, HostOK, HostType
  <2>2. host' = [cmd |-> host.cmd, tag |-> tag, off |-> host.off,
                 tries |-> host.tries + 1, sent |-> FALSE]
    BY <2>1 DEF HostType
  <2>3. host.cmd \in Commands \cup Ended /\ host.off \in Nat /\ host.tries + 1 \in Nat
    BY <2>1 DEF HostType
  <2> QED
    BY <2>2, <2>3 DEF HostType
<1>2. HostOK' /\ LineOK'
  BY <1>1, RomUntouched DEF HostTurn, HostType, LinkInv, HostOK, LineOK
<1>3. TagsBelow'
  <2>1. CASE host'.tag = host.tag
    BY <2>1, RomUntouched DEF HostTurn, LinkInv, TagsBelow
  <2> QED
    BY <1>1, <2>1, FreshTag
<1>4. host.cmd # "HELLO" => (Acked' => Acked)
  BY <1>1 DEF HostTurn, Acked
<1>5. EndMeansCommitted' /\ ReportedMeansCommitted'
  BY <1>1, <1>4, RomUntouched
     DEF HostTurn, LinkInv, EndMeansCommitted, ReportedMeansCommitted
<1>6. Opening'
  BY <1>1, <1>4, RomUntouched DEF HostTurn, LinkInv, Opening
<1>7. Sending'
  BY <1>1, <1>4, RomUntouched
     DEF HostTurn, flashVars, LinkInv, Sending, ChunkLen, ChunkAt, Written
<1> QED
  BY <1>2, <1>3, <1>5, <1>6, <1>7, RomUntouched DEF LinkInv, HostTurn

\* The next command under a fresh number.
LEMMA AdvanceInv ==
  ASSUME LinkInv, HostTurn, NEW cmd, NEW off, Advance(cmd, off),
         \/ host.cmd = "HELLO" /\ cmd = "BEGIN" /\ off = 0
         \/ host.cmd = "BEGIN" /\ cmd = "DATA" /\ off = 0 /\ Acked /\ host.sent
         \/ /\ host.cmd = "DATA" /\ cmd = "DATA" /\ off = host.off + ChunkWords
            /\ off < Update.len /\ Acked
         \/ host.cmd = "DATA" /\ cmd = "END" /\ off = 0
         \/ host.cmd = "END" /\ cmd = "BOOT" /\ off = 0 /\ Acked
  PROVE  LinkInv'
<1>1. /\ host.off \in Nat /\ host.off < Update.len /\ Update.len \in Nat \ {0}
      /\ off \in Nat /\ off < Update.len /\ ChunkWords \in Nat
  BY UpdateType DEF LinkInv, HostOK
<1>2. /\ host' \in HostType
      /\ host'.cmd = cmd /\ host'.off = off /\ host'.tag = host.tag + 1
      /\ host'.tries = 0 /\ ~host'.sent
  BY <1>1 DEF LinkInv, HostOK, HostType, Advance, Commands
<1>3. HostOK' /\ LineOK' /\ TagsBelow' /\ ~Acked'
  BY <1>1, <1>2, FreshTag DEF HostTurn, HostType, LinkInv, HostOK, LineOK
<1>4. EndMeansCommitted'
  BY <1>2, <1>3, FreshTag DEF EndMeansCommitted
<1>5. ReportedMeansCommitted'
  BY <1>2, RomUntouched
     DEF HostTurn, LinkInv, EndMeansCommitted, ReportedMeansCommitted
<1>6. Opening'
  BY <1>2, <1>3, RomUntouched DEF HostTurn, LinkInv, Opening, Busy
<1>7. Sending'
  <2>1. CASE host.cmd = "BEGIN" /\ cmd = "DATA"
    <3>1. ~Busy /\ (session.active => session.next = 0)
      BY <2>1 DEF HostTurn, LinkInv, Opening, Busy
    <3>2. session.active => Written = 0
      BY <3>1 DEF Written, Busy
    <3>3. session' = session /\ ~Busy' /\ Written' = Written
      BY <3>1, RomUntouched DEF HostTurn, Written
    <3>4. \A i \in Offsets : ~(i < 0)
      BY DEF Offsets
    <3> QED
      BY <1>2, <1>3, <2>1, <3>1, <3>2, <3>3, <3>4 DEF Sending, Busy
  <2>2. CASE host.cmd = "DATA" /\ cmd = "DATA"
    <3>1. ChunkLen = ChunkWords
      BY <1>1, <2>2, ChunkFacts DEF ChunkLen
    <3>2. pc # "data" /\ (session.active => session.next = off)
      BY <1>1, <2>2, <3>1 DEF LinkInv, Sending, IInv, WriteInv
    <3> QED
      BY <1>2, <1>3, <2>2, <3>2, RomUntouched
         DEF HostTurn, flashVars, LinkInv, Sending, Written
  <2>3. CASE cmd # "DATA"
    BY <1>2, <2>3 DEF Sending
  <2> QED
    BY <2>1, <2>2, <2>3
<1> QED
  BY <1>3, <1>4, <1>5, <1>6, <1>7, RomUntouched DEF LinkInv, HostTurn

LEMMA DoneInv ==
  ASSUME LinkInv, HostTurn, host.cmd = "BOOT",
         host' = [host EXCEPT !.cmd = "done", !.sent = FALSE]
  PROVE  LinkInv'
<1>1. /\ host' \in HostType
      /\ host'.cmd = "done" /\ host'.tag = host.tag /\ host'.off = host.off
  BY DEF LinkInv, HostOK, HostType, Ended
<1>2. HostOK' /\ LineOK' /\ TagsBelow'
  BY <1>1, RomUntouched DEF HostTurn, HostType, LinkInv, HostOK, LineOK, TagsBelow
<1>3. EndMeansCommitted' /\ ReportedMeansCommitted' /\ Sending'
  BY <1>1, RomUntouched
     DEF HostTurn, LinkInv, EndMeansCommitted, ReportedMeansCommitted, Sending
<1>4. Opening'
  BY <1>1, RomUntouched DEF HostTurn, LinkInv, Opening, Busy
<1> QED
  BY <1>2, <1>3, <1>4, RomUntouched DEF LinkInv, HostTurn

LEMMA AttemptFailsInv ==
  ASSUME LinkInv, HostTurn, host.sent, AttemptFails PROVE LinkInv'
<1>1. CASE host.tries + 1 = Attempts(host.cmd)
  BY <1>1, FailedInv DEF AttemptFails
<1>2. CASE host.tries + 1 # Attempts(host.cmd)
  <2>1. host.cmd # "BEGIN" /\ host.cmd \in Commands
    BY <1>2 DEF LinkInv, HostOK, Attempts
  <2> DEFINE tag == IF host.cmd = "HELLO" THEN host.tag + 1 ELSE host.tag
  <2>2. /\ tag \in Nat \ {0} /\ tag \in {host.tag, host.tag + 1}
        /\ host.cmd # "HELLO" => tag = host.tag
    BY DEF LinkInv, HostOK
  <2>3. host' = [host EXCEPT !.tries = @ + 1, !.sent = FALSE, !.tag = tag]
    BY <1>2, Zenon DEF AttemptFails
  <2> HIDE DEF tag
  <2> QED
    BY <2>1, <2>2, <2>3, RetryInv
<1> QED
  BY <1>1, <1>2

LEMMA HostRefusedInv ==
  ASSUME LinkInv, HostTurn, host.sent, HostRefused PROVE LinkInv'
  BY AttemptFailsInv, FailedInv DEF HostRefused

LEMMA HostAcceptedInv ==
  ASSUME LinkInv, HostTurn, host.sent, HostAccepted,
         host.cmd # "HELLO" => Acked
  PROVE  LinkInv'
<1>1. host.off \in Nat /\ Update.len \in Nat
  BY UpdateType DEF LinkInv, HostOK
<1>2. CASE host.cmd = "HELLO"
  BY <1>2, AdvanceInv DEF HostAccepted
<1>3. CASE host.cmd = "BEGIN"
  BY <1>3, AdvanceInv DEF HostAccepted
<1>4. CASE host.cmd = "DATA"
  <2>1. CASE host.off + ChunkWords < Update.len
    BY <1>4, <2>1, AdvanceInv DEF HostAccepted
  <2>2. CASE ~(host.off + ChunkWords < Update.len)
    BY <1>4, <2>2, AdvanceInv DEF HostAccepted
  <2> QED
    BY <2>1, <2>2
<1>5. CASE host.cmd = "END"
  BY <1>5, AdvanceInv DEF HostAccepted
<1>6. CASE host.cmd = "BOOT"
  BY <1>6, DoneInv DEF HostAccepted
<1> QED
  BY <1>2, <1>3, <1>4, <1>5, <1>6 DEF LinkInv, HostOK, Commands

LEMMA HostReceiveInv == ASSUME LinkInv, HostReceive PROVE LinkInv'
<1>1. /\ up' \in Seq(Reply) /\ InFlight' \subseteq InFlight
      /\ Head(up) \in InFlight /\ Head(up) \in Reply
  <2>1. up \in Seq(Reply) /\ up # << >> /\ up' = Tail(up) /\ reply' = reply
    BY DEF LinkInv, LineOK, HostReceive, vars, romVars
  <2> QED
    BY <2>1, ReadInFlight
<1>2. HostTurn /\ host.sent
  BY <1>1 DEF HostReceive, HostTurn
<1>3. CASE Head(up).tag # host.tag \/ Head(up).type # Expected(host.cmd)
  BY <1>2, <1>3, AttemptFailsInv, HostRefusedInv DEF HostReceive
<1>4. CASE Head(up).tag = host.tag /\ Head(up).type = Expected(host.cmd)
  <2>1. HostAccepted
    BY <1>4 DEF HostReceive
  <2>2. ASSUME host.cmd # "HELLO" PROVE Acked
    <3>1. Head(up) = [type |-> "ACK", tag |-> host.tag]
      BY <1>1, <1>4, <2>2 DEF Expected, Reply
    <3> QED
      BY <1>1, <3>1 DEF Acked
  <2> QED
    BY <1>2, <2>1, <2>2, HostAcceptedInv
<1> QED
  BY <1>3, <1>4

LEMMA HostTimeoutInv == ASSUME LinkInv, HostTimeout PROVE LinkInv'
<1>1. HostTurn /\ host.sent
  BY DEF HostTimeout, HostTurn, LinkInv, LineOK, InFlight, vars, romVars
<1> QED
  BY <1>1, AttemptFailsInv DEF HostTimeout

-----------------------------------------------------------------------------
(* The device and the line.                                                *)

\* A step of the device: the host does not move, and the frame on the line may
\* be taken.
DeviceTurn ==
  /\ host' = host
  /\ down' \in {down, NoFrame}

LEMMA TurnKeepsHost ==
  ASSUME LinkInv, DeviceTurn, up' \in Seq(Reply)
  PROVE  /\ HostOK' /\ LineOK' /\ ChunkLen' = ChunkLen
         /\ ChunkAt(host.off)' = ChunkAt(host.off)
  BY DEF LinkInv, DeviceTurn, HostOK, LineOK, ChunkLen, ChunkAt, Ended, Commands

\* Steps that leave the flash and the job of a handler alone: `a' is the answer
\* they give, if any.
LEMMA CalmInv ==
  ASSUME LinkInv, DeviceTurn, IInv', UNCHANGED flashVars, Quiet, job' = job,
         up' \in Seq(Reply), NEW a \in Reply, InFlight' \subseteq InFlight \cup {a},
         a.tag <= host.tag,
         \/ session' = session
         \/ session' = [session EXCEPT !.active = FALSE],
         pc' = pc \/ (~Busy /\ ~Busy'),
         a = [type |-> "ACK", tag |-> host.tag] =>
           /\ ~Busy /\ host.cmd # "BEGIN"
           /\ host.cmd = "DATA" /\ session.active => session.next = host.off + ChunkLen
           /\ host.cmd = "END" => CurrentImage = UpdateImage
  PROVE  LinkInv'
<1>1. /\ HostOK' /\ LineOK' /\ ChunkLen' = ChunkLen
      /\ ChunkAt(host.off)' = ChunkAt(host.off)
  BY TurnKeepsHost
<1>2. /\ session'.hdr = session.hdr /\ session'.next = session.next
      /\ session'.slot = session.slot /\ (session'.active => session.active)
  BY DEF LinkInv, IInv, TypeOK, Session
<1>3. host' = host /\ CurrentImage' = CurrentImage
  BY QuietKeeps DEF DeviceTurn
<1>4. TagsBelow' /\ OnlyUpdate'
  BY <1>2, <1>3 DEF LinkInv, TagsBelow, OnlyUpdate
<1>5. Acked' => Acked \/ a = [type |-> "ACK", tag |-> host.tag]
  BY <1>3 DEF Acked
<1>6. EndMeansCommitted' /\ ReportedMeansCommitted'
  BY <1>3, <1>5 DEF LinkInv, EndMeansCommitted, ReportedMeansCommitted, Busy
<1>7. Opening'
  BY <1>2, <1>3, <1>5 DEF LinkInv, Opening, DeviceTurn, Busy
<1>8. Sending'
  BY <1>1, <1>2, <1>3, <1>5 DEF LinkInv, Sending, Busy, flashVars, Written
<1> QED
  BY <1>1, <1>4, <1>6, <1>7, <1>8 DEF LinkInv

\* A handler that goes on to change the flash, for the frame the host sent.
LEMMA EngageLink ==
  ASSUME LinkInv, IInv', Quiet, host' = host, down # NoFrame, down' = NoFrame,
         up' = up, NEW step, NEW work, Engage(step, work), work.tag = host.tag,
         \/ /\ host.cmd = "BEGIN" /\ step = "erase"
            /\ work.hdr.len = Update.len /\ work.hdr.crc = Update.crc
         \/ /\ host.cmd = "DATA" /\ step = "data" /\ work.hdr = Blank /\ work.k = 0
            /\ work.off = host.off /\ work.w = ChunkAt(host.off).w
         \/ host.cmd = "END" /\ step = "commit" /\ work.hdr = Blank
  PROVE  LinkInv'
<1>1. /\ pc' = step /\ job' = work /\ session' = session /\ reply' = reply
      /\ pc = "listen" /\ data' = data
  BY DEF Engage, Listening, flashVars
<1>2. /\ InFlight' = InFlight /\ Acked' = Acked /\ CurrentImage' = CurrentImage
      /\ up \in Seq(Reply) /\ host.sent
  BY <1>1, QuietKeeps DEF InFlight, Acked, LinkInv, LineOK
<1>3. /\ HostOK' /\ LineOK' /\ ChunkLen' = ChunkLen
      /\ ChunkAt(host.off)' = ChunkAt(host.off)
  BY <1>2, TurnKeepsHost DEF DeviceTurn
<1>4. TagsBelow' /\ OnlyUpdate'
  BY <1>1, <1>2 DEF LinkInv, TagsBelow, OnlyUpdate, HostOK
<1>5. EndMeansCommitted' /\ ReportedMeansCommitted'
  BY <1>1, <1>2 DEF LinkInv, EndMeansCommitted, ReportedMeansCommitted
<1>6. Opening'
  BY <1>1, <1>2 DEF LinkInv, Opening, Busy
<1>7. Sending'
  <2>1. CASE host.cmd = "DATA"
    <3>1. session.next \in Nat
      BY DEF LinkInv, IInv, TypeOK, Session
    <3>2. Written' = Written
      BY <1>1, <2>1, <3>1 DEF Written
    <3> QED
      BY <1>1, <1>2, <1>3, <2>1, <3>2 DEF LinkInv, Sending
  <2> QED
    BY <2>1 DEF Sending
<1> QED
  BY <1>3, <1>4, <1>5, <1>6, <1>7 DEF LinkInv

\* What every step of such a handler leaves alone.
WorkTurn == IInv' /\ UNCHANGED linkVars

LEMMA WorkKeeps ==
  ASSUME LinkInv, WorkTurn
  PROVE  /\ HostOK' /\ LineOK' /\ host' = host /\ down' = down
         /\ ChunkLen' = ChunkLen /\ ChunkAt(host.off)' = ChunkAt(host.off)
         /\ InFlight' \subseteq InFlight \cup {reply'}
  BY TurnKeepsHost, AnswerInFlight DEF WorkTurn, DeviceTurn, linkVars, LinkInv, LineOK

LEMMA BehindBoth ==
  ASSUME NEW a \in Nat, NEW b \in Nat, NEW i \in Offsets, i < a
  PROVE  i < a + b
  BY DEF Offsets

\* A handler that reports a failure ends.
LEMMA NackLink ==
  ASSUME LinkInv, WorkTurn, Quiet \/ Commits, Finish("NACK"), Busy,
         session' = session \/ session' = [session EXCEPT !.active = FALSE],
         \/ data'[session.slot] = data[session.slot]
         \/ /\ pc = "data"
            /\ \A i \in Offsets : i < session.next + job.k =>
                 data'[session.slot][i] = data[session.slot][i]
  PROVE  LinkInv'
<1>1. /\ HostOK' /\ LineOK' /\ host' = host /\ down' = down
      /\ ChunkLen' = ChunkLen /\ ChunkAt(host.off)' = ChunkAt(host.off)
      /\ InFlight' \subseteq InFlight \cup {reply'}
  BY WorkKeeps
<1>2. /\ session'.hdr = session.hdr /\ session'.next = session.next
      /\ session'.slot = session.slot /\ (session'.active => session.active)
  BY DEF LinkInv, IInv, TypeOK, Session
<1>0. session.next \in Nat /\ job.k \in Nat /\ host.tag \in Nat
  BY DEF LinkInv, IInv, TypeOK, Session, Job, HostOK
<1>3. /\ pc' = "listen" /\ job' = Idle /\ reply' = [type |-> "NACK", tag |-> job.tag]
      /\ Idle.tag = 0 /\ Idle.hdr = Blank
  BY DEF Finish, Answer, Idle
<1>4. Acked' => Acked
  BY <1>1, <1>3 DEF Acked
<1>5. TagsBelow' /\ OnlyUpdate'
  BY <1>0, <1>1, <1>2, <1>3 DEF LinkInv, TagsBelow, OnlyUpdate
<1>6. EndMeansCommitted' /\ ReportedMeansCommitted'
  BY <1>1, <1>3, <1>4, ImageKept
     DEF LinkInv, EndMeansCommitted, ReportedMeansCommitted, HostOK
<1>7. Opening'
  BY <1>1, <1>2, <1>3, <1>4 DEF LinkInv, Opening, Busy
<1>8. Sending'
  <2>1. Written' = session.next
    BY <1>2, <1>3 DEF Written
  <2>2. ASSUME NEW i \in Offsets, i < session.next
        PROVE  i < Written /\ data'[session.slot][i] = data[session.slot][i]
    <3>1. i < session.next + job.k
      BY <1>0, <2>2, BehindBoth
    <3>2. i < Written
      BY <2>2, <3>1 DEF Written
    <3> QED
      BY <3>1, <3>2
  <2> QED
    BY <1>1, <1>2, <1>3, <1>4, <2>1, <2>2 DEF LinkInv, Sending
<1> QED
  BY <1>1, <1>5, <1>6, <1>7, <1>8 DEF LinkInv, WorkTurn

LEMMA BeginEraseLink == ASSUME LinkInv, WorkTurn, BeginErase PROVE LinkInv'
<1>1. /\ HostOK' /\ LineOK' /\ host' = host /\ down' = down
      /\ InFlight' \subseteq InFlight \cup {reply'}
  BY WorkKeeps
<1>2. pc = "erase" /\ session' = session /\ Quiet /\ ~session.active
  BY BeginEraseInv DEF BeginErase, Finish, Proceed, LinkInv, IInv, StageInv
<1>3. CurrentImage' = CurrentImage
  BY <1>2, QuietKeeps
<1>4. host.cmd \in {"BEGIN", "failed"}
  BY <1>2 DEF LinkInv, Opening
<1>5. EndMeansCommitted' /\ ReportedMeansCommitted' /\ Sending'
  BY <1>1, <1>4 DEF EndMeansCommitted, ReportedMeansCommitted, Sending
<1>6. CASE Finish("NACK")
  <2>1. /\ pc' = "listen" /\ job' = Idle /\ reply' = [type |-> "NACK", tag |-> job.tag]
        /\ Idle.tag = 0 /\ Idle.hdr = Blank
    BY <1>6 DEF Finish, Answer, Idle
  <2>2. Acked' => Acked
    BY <1>1, <2>1 DEF Acked
  <2>3. TagsBelow' /\ OnlyUpdate' /\ Opening'
    BY <1>1, <1>2, <2>1, <2>2 DEF LinkInv, TagsBelow, OnlyUpdate, Opening, Busy, HostOK
  <2> QED
    BY <1>1, <1>5, <2>3 DEF LinkInv, WorkTurn
<1>7. CASE ~Finish("NACK")
  <2>1. /\ pc' \in {"erase", "header"} /\ reply' = reply
        /\ job' = [job EXCEPT !.page = @ + 1] \/ job' = [job EXCEPT !.page = 0]
    BY <1>7 DEF BeginErase, Proceed
  <2>2. job'.tag = job.tag /\ job'.hdr = job.hdr
    BY <2>1 DEF LinkInv, IInv, TypeOK, Job
  <2>3. InFlight' \subseteq InFlight /\ (Acked' => Acked)
    BY <1>1, <2>1 DEF InFlight, Acked
  <2>4. TagsBelow' /\ OnlyUpdate' /\ Opening'
    BY <1>1, <1>2, <2>1, <2>2, <2>3 DEF LinkInv, TagsBelow, OnlyUpdate, Opening, Busy
  <2> QED
    BY <1>1, <1>5, <2>4 DEF LinkInv, WorkTurn
<1> QED
  BY <1>6, <1>7

LEMMA BeginHeaderLink == ASSUME LinkInv, WorkTurn, BeginHeader PROVE LinkInv'
<1>1. /\ HostOK' /\ LineOK' /\ host' = host /\ down' = down
      /\ InFlight' \subseteq InFlight \cup {reply'}
  BY WorkKeeps
<1>2. pc = "header" /\ Quiet /\ ~session.active /\ job.hdr \in Header
  BY BeginHeaderInv DEF BeginHeader, LinkInv, IInv, StageInv
<1>3. host.cmd \in {"BEGIN", "failed"}
  BY <1>2 DEF LinkInv, Opening
<1>4. EndMeansCommitted' /\ ReportedMeansCommitted' /\ Sending'
  BY <1>1, <1>3 DEF EndMeansCommitted, ReportedMeansCommitted, Sending
<1>5. /\ pc' = "listen" /\ job' = Idle /\ reply'.tag = job.tag
      /\ Idle.tag = 0 /\ Idle.hdr = Blank
  BY DEF BeginHeader, Finish, Answer, Idle
<1>6. session' = session \/ (session'.hdr = job.hdr /\ session'.next = 0)
  BY DEF BeginHeader
<1>7. TagsBelow' /\ OnlyUpdate'
  BY <1>1, <1>2, <1>5, <1>6 DEF LinkInv, TagsBelow, OnlyUpdate, HostOK
<1>8. Opening'
  BY <1>1, <1>2, <1>3, <1>5, <1>6 DEF LinkInv, Opening, Busy
<1> QED
  BY <1>1, <1>4, <1>7, <1>8 DEF LinkInv, WorkTurn

\* A word that is read back extends the written prefix; no other word moves.
LEMMA WordLink ==
  ASSUME LinkInv, DataWord
  PROVE  /\ \A i \in Offsets : i # job.off + job.k =>
              data'[session.slot][i] = data[session.slot][i]
         /\ job.off = session.next /\ session.active /\ session.slot \in Slots
<1>1. /\ job.off = session.next /\ session.active /\ session.slot \in Slots
      /\ data[session.slot] \in Content /\ data \in [Slots -> Content]
  BY DEF DataWord, LinkInv, IInv, WriteInv, TypeOK, FlashTypeOK, Session
<1>2. CASE data' = data
  BY <1>1, <1>2
<1>3. CASE ProgramWord(session.slot, job.off + job.k, job.w[job.k + 1], WeakCells)
  <2>1. PICK v : data' = [data EXCEPT ![session.slot] =
                            [data[session.slot] EXCEPT ![job.off + job.k] = v]]
    BY <1>1, <1>3 DEF ProgramWord
  <2> QED
    BY <1>1, <2>1 DEF Content
<1> QED
  BY <1>1, <1>2, <1>3 DEF DataWord, flashVars

LEMMA DataWordLink == ASSUME LinkInv, WorkTurn, DataWord PROVE LinkInv'
<1> DEFINE at == job.off + job.k
           word == job.w[job.k + 1]
<1>1. /\ HostOK' /\ LineOK' /\ host' = host /\ down' = down
      /\ ChunkLen' = ChunkLen /\ ChunkAt(host.off)' = ChunkAt(host.off)
      /\ InFlight' \subseteq InFlight \cup {reply'}
  BY WorkKeeps
<1>2. /\ pc = "data" /\ Quiet /\ session.active /\ job.off = session.next
      /\ session.slot \in Slots /\ job.k < Len(job.w) /\ host.tag \in Nat
      /\ \A i \in Offsets : i # at => data'[session.slot][i] = data[session.slot][i]
  BY DataWordInv, WordLink DEF DataWord, LinkInv, IInv, WriteInv, HostOK
<1>3. CurrentImage' = CurrentImage
  BY <1>2, QuietKeeps
<1>4. session.next \in Nat /\ job.k \in Nat /\ Len(job.w) \in Nat
  BY <1>2, DataJob DEF LinkInv, IInv, TypeOK, Session
<1>5. host.cmd \notin {"HELLO", "BEGIN"}
  BY <1>2 DEF LinkInv, Opening, Busy
<1>6. CASE data'[session.slot][at] # word
  <2>1. session' = session /\ Finish("NACK")
    BY <1>6 DEF DataWord
  <2>2. \A i \in Offsets : i < session.next + job.k =>
          data'[session.slot][i] = data[session.slot][i]
    BY <1>2, <1>4 DEF Offsets
  <2> QED
    BY <1>2, <2>1, <2>2, NackLink DEF Busy
<1>7. CASE data'[session.slot][at] = word /\ job.k + 1 < Len(job.w)
  <2>1. /\ pc' = "data" /\ reply' = reply /\ session' = session
        /\ job' = [job EXCEPT !.k = @ + 1]
    BY <1>7 DEF DataWord, Proceed
  <2>2. /\ job'.tag = job.tag /\ job'.hdr = job.hdr /\ job'.off = job.off
        /\ job'.w = job.w /\ job'.k = job.k + 1
    BY <2>1 DEF LinkInv, IInv, TypeOK, Job
  <2>3. InFlight' \subseteq InFlight /\ (Acked' => Acked)
    BY <1>1, <2>1 DEF InFlight, Acked
  <2>4. TagsBelow' /\ OnlyUpdate' /\ Opening'
    BY <1>1, <1>2, <1>5, <2>1, <2>2, <2>3
       DEF LinkInv, TagsBelow, OnlyUpdate, Opening, Busy
  <2>5. EndMeansCommitted' /\ ReportedMeansCommitted'
    BY <1>1, <1>2, <1>3, <2>1, <2>2, <2>3
       DEF LinkInv, EndMeansCommitted, ReportedMeansCommitted
  <2>6. Sending'
    <3> SUFFICES ASSUME host.cmd = "DATA" PROVE Sending'
      BY <1>1 DEF Sending
    <3>1. job.off = host.off /\ job.w = ChunkAt(host.off).w
      BY <1>2 DEF LinkInv, Sending
    <3>2. word = Update.crc[at]
      <4>1. host.off \in Nat /\ host.off < Update.len
        BY DEF LinkInv, HostOK
      <4>2. job.k + 1 \in 1 .. Len(ChunkAt(host.off).w)
        BY <1>2, <1>4, <3>1
      <4>3. \A j \in 1 .. Len(ChunkAt(host.off).w) :
              ChunkAt(host.off).w[j] = Update.crc[host.off + j - 1]
        BY <4>1, ChunkFacts
      <4>4. host.off + (job.k + 1) - 1 = at
        BY <1>4, <3>1, <4>1
      <4> QED
        BY <3>1, <4>2, <4>3, <4>4
    <3>3. Written = at /\ Written' = at + 1
      <4>1. Written = session.next + job.k /\ Written' = session.next + (job.k + 1)
        BY <1>2, <2>1, <2>2 DEF Written
      <4> QED
        BY <1>2, <1>4, <4>1
    <3>4. ASSUME NEW i \in Offsets, i < Written'
          PROVE  data'[session.slot][i] = Update.crc[i]
      <4>1. i < at \/ i = at
        BY <1>2, <1>4, <3>3, <3>4 DEF Offsets
      <4> QED
        BY <1>2, <1>7, <3>2, <3>3, <4>1 DEF LinkInv, Sending
    <3> QED
      BY <1>1, <1>2, <2>1, <2>2, <2>3, <3>1, <3>4 DEF LinkInv, Sending
  <2> QED
    BY <1>1, <2>4, <2>5, <2>6 DEF LinkInv, WorkTurn
<1>8. CASE data'[session.slot][at] = word /\ ~(job.k + 1 < Len(job.w))
  <2>1. Finish("ACK") /\ session' = [session EXCEPT !.next = @ + Len(job.w)]
    BY <1>8 DEF DataWord
  <2>2. /\ pc' = "listen" /\ job' = Idle /\ reply' = [type |-> "ACK", tag |-> job.tag]
        /\ Idle.tag = 0 /\ Idle.hdr = Blank
    BY <2>1 DEF Finish, Answer, Idle
  <2>3. /\ session'.hdr = session.hdr /\ session'.slot = session.slot
        /\ session'.active = session.active /\ session'.next = session.next + Len(job.w)
    BY <2>1 DEF LinkInv, IInv, TypeOK, Session
  <2>4. TagsBelow' /\ OnlyUpdate' /\ Opening'
    BY <1>1, <1>2, <1>5, <2>2, <2>3
       DEF LinkInv, TagsBelow, OnlyUpdate, Opening, Busy, HostOK
  <2>5. EndMeansCommitted' /\ ReportedMeansCommitted'
    <3>1. host.cmd = "END" => (Acked' => Acked)
      BY <1>1, <1>2, <2>2 DEF LinkInv, EndMeansCommitted, Acked
    <3> QED
      BY <1>1, <1>3, <2>2, <3>1
         DEF LinkInv, EndMeansCommitted, ReportedMeansCommitted, HostOK
  <2>6. Sending'
    <3> SUFFICES ASSUME host.cmd = "DATA" PROVE Sending'
      BY <1>1 DEF Sending
    <3>1. job.off = host.off /\ job.w = ChunkAt(host.off).w
      BY <1>2 DEF LinkInv, Sending
    <3>2. word = Update.crc[at]
      <4>1. host.off \in Nat /\ host.off < Update.len
        BY DEF LinkInv, HostOK
      <4>2. job.k + 1 \in 1 .. Len(ChunkAt(host.off).w)
        BY <1>2, <1>4, <3>1
      <4>3. \A j \in 1 .. Len(ChunkAt(host.off).w) :
              ChunkAt(host.off).w[j] = Update.crc[host.off + j - 1]
        BY <4>1, ChunkFacts
      <4>4. host.off + (job.k + 1) - 1 = at
        BY <1>4, <3>1, <4>1
      <4> QED
        BY <3>1, <4>2, <4>3, <4>4
    <3>3. Written = at /\ Written' = at + 1 /\ session'.next = host.off + ChunkLen
      <4>1. Written = session.next + job.k /\ Written' = session.next + Len(job.w)
        BY <1>2, <2>2, <2>3 DEF Written
      <4>2. Len(job.w) = job.k + 1
        BY <1>2, <1>4, <1>8
      <4>3. Written = at /\ Written' = at + 1
        BY <1>2, <1>4, <4>1, <4>2
      <4> QED
        BY <1>2, <2>3, <3>1, <4>3 DEF ChunkLen
    <3>4. ASSUME NEW i \in Offsets, i < Written'
          PROVE  data'[session.slot][i] = Update.crc[i]
      <4>1. i < at \/ i = at
        BY <1>2, <1>4, <3>3, <3>4 DEF Offsets
      <4> QED
        BY <1>2, <1>8, <3>2, <3>3, <4>1 DEF LinkInv, Sending
    <3> QED
      BY <1>1, <2>2, <2>3, <3>3, <3>4 DEF Sending
  <2> QED
    BY <1>1, <2>4, <2>5, <2>6 DEF LinkInv, WorkTurn
<1> QED
  BY <1>6, <1>7, <1>8

LEMMA EndCommitLink == ASSUME LinkInv, WorkTurn, EndCommit PROVE LinkInv'
<1>1. /\ HostOK' /\ LineOK' /\ host' = host /\ down' = down
      /\ InFlight' \subseteq InFlight \cup {reply'}
  BY WorkKeeps
<1>2. /\ pc = "commit" /\ data' = data
      /\ (Quiet /\ session' = session) \/ (Commits /\ ~session'.active)
  BY EndCommitInv DEF EndCommit, ProgramState, LinkInv
<1>3. CASE state'[session.slot] # COMMITTED
  BY <1>2, <1>3, NackLink DEF EndCommit, Busy
<1>4. CASE state'[session.slot] = COMMITTED
  <2>1. session' = [session EXCEPT !.active = FALSE]
    BY <1>4 DEF EndCommit
  <2>2. Quiet \/ Commits
    BY <1>2
  <2>3. ~session'.active /\ session'.hdr = session.hdr
    BY <2>1 DEF LinkInv, IInv, TypeOK, Session
  <2>4. CASE ~(FindValid' = session.slot)
    BY <1>2, <1>4, <2>1, <2>2, <2>4, NackLink DEF EndCommit, Busy
  <2>5. CASE FindValid' = session.slot
    <3>1. /\ pc' = "listen" /\ job' = Idle /\ reply' = [type |-> "ACK", tag |-> job.tag]
          /\ Idle.tag = 0 /\ Idle.hdr = Blank
      BY <1>4, <2>5 DEF EndCommit, Finish, Answer, Idle
    <3>2. Commits
      <4>1. session.slot = Target /\ session.slot \in Slots
        BY <1>2 DEF LinkInv, IInv, CommitInv, SessionInv, TypeOK, Session
      <4>2. ~Quiet
        BY <2>5, <4>1, TargetResult DEF Quiet
      <4> QED
        BY <2>2, <4>2
    <3>3. CurrentImage' = UpdateImage
      BY <3>2, OfferedUpdate DEF Commits, LinkInv
    <3>4. TagsBelow' /\ OnlyUpdate'
      BY <1>1, <2>3, <3>1 DEF LinkInv, TagsBelow, OnlyUpdate, HostOK
    <3>5. EndMeansCommitted' /\ ReportedMeansCommitted'
      BY <1>1, <3>1, <3>3
         DEF LinkInv, EndMeansCommitted, ReportedMeansCommitted, HostOK
    <3>6. Opening' /\ Sending'
      BY <1>1, <1>2, <2>3, <3>1 DEF LinkInv, Opening, Sending, Busy
    <3> QED
      BY <1>1, <3>4, <3>5, <3>6 DEF LinkInv, WorkTurn
  <2> QED
    BY <2>4, <2>5
<1> QED
  BY <1>3, <1>4

LEMMA DeviceWorksLink == ASSUME LinkInv, DeviceWorks PROVE LinkInv'
<1>1. CASE Startup
  <2>1. IInv' /\ Quiet /\ UNCHANGED flashVars
    BY <1>1, StartupInv DEF LinkInv, Startup
  <2>2. /\ DeviceTurn /\ up' \in Seq(Reply) /\ InFlight' = InFlight
        /\ session' = session /\ job' = job /\ ~Busy /\ ~Busy'
    BY <1>1 DEF Startup, DeviceWorks, linkVars, DeviceTurn, LinkInv, LineOK, InFlight, Busy
  <2>3. NoReply \in Reply /\ NoReply.tag = 0 /\ NoReply.type # "ACK"
    BY IdleJob DEF NoReply
  <2> QED
    BY <2>1, <2>2, <2>3, CalmInv DEF LinkInv, HostOK
<1>2. CASE BootAfterAck
  <2>1. IInv' /\ Quiet /\ UNCHANGED flashVars
    BY <1>2, StartApplicationInv
       DEF LinkInv, BootAfterAck, StartApplication, IInv, RunInv
  <2>2. /\ DeviceTurn /\ up' \in Seq(Reply) /\ InFlight' = InFlight
        /\ session' = session /\ job' = job /\ ~Busy /\ ~Busy'
    BY <1>2 DEF BootAfterAck, StartApplication, DeviceWorks, linkVars, DeviceTurn,
                LinkInv, LineOK, InFlight, Busy
  <2>3. NoReply \in Reply /\ NoReply.tag = 0 /\ NoReply.type # "ACK"
    BY IdleJob DEF NoReply
  <2> QED
    BY <2>1, <2>2, <2>3, CalmInv DEF LinkInv, HostOK
<1>3. CASE FlashSteps
  <2>1. WorkTurn
    BY <1>3, BeginEraseInv, BeginHeaderInv, DataWordInv, EndCommitInv
       DEF FlashSteps, DeviceWorks, WorkTurn, LinkInv
  <2> QED
    BY <1>3, <2>1, BeginEraseLink, BeginHeaderLink, DataWordLink, EndCommitLink
       DEF FlashSteps
<1> QED
  BY <1>1, <1>2, <1>3 DEF DeviceWorks

LEMMA WindowExpiresLink == ASSUME LinkInv, WindowExpires PROVE LinkInv'
<1>1. NoReply \in Reply /\ NoReply.tag = 0 /\ NoReply.type # "ACK"
  BY IdleJob DEF NoReply
<1>2. DeviceTurn /\ up' \in Seq(Reply)
  BY DEF WindowExpires, linkVars, DeviceTurn, LinkInv, LineOK
<1>3. CASE TimeoutBoot
  <2>1. IInv' /\ Quiet /\ UNCHANGED flashVars
    BY <1>3, StartApplicationInv
       DEF LinkInv, TimeoutBoot, Listening, StartApplication, IInv, RunInv
  <2>2. /\ InFlight' = InFlight /\ session' = session /\ job' = job /\ ~Busy /\ ~Busy'
    BY <1>3 DEF WindowExpires, TimeoutBoot, Listening, StartApplication, linkVars,
                InFlight, Busy
  <2> QED
    BY <1>1, <1>2, <2>1, <2>2, CalmInv DEF LinkInv, HostOK
<1>4. CASE TimeoutSession
  <2>1. IInv' /\ Quiet /\ UNCHANGED flashVars
    BY <1>4, TimeoutSessionInv DEF LinkInv, TimeoutSession
  <2>2. /\ InFlight' = InFlight /\ session' = [session EXCEPT !.active = FALSE]
        /\ job' = job /\ pc' = pc
    BY <1>4 DEF WindowExpires, TimeoutSession, linkVars, InFlight
  <2> QED
    BY <1>1, <1>2, <2>1, <2>2, CalmInv DEF LinkInv, HostOK
<1> QED
  BY <1>3, <1>4 DEF WindowExpires

LEMMA AnsweredLink == ASSUME LinkInv, Respond \/ ResponseLost PROVE LinkInv'
<1>1. Sent /\ up \in Seq(Reply) /\ reply \in Reply /\ host.tag \in Nat
  BY DEF Respond, ResponseLost, LinkInv, LineOK, IInv, TypeOK, HostOK
<1>2. up' \in Seq(Reply) /\ InFlight' \subseteq InFlight \cup {NoReply}
  BY <1>1, SentInFlight DEF Respond, ResponseLost
<1>3. IInv' /\ Quiet
  BY <1>1, SentInv DEF LinkInv
<1>4. NoReply \in Reply /\ NoReply.tag = 0 /\ NoReply.type # "ACK"
  BY IdleJob DEF NoReply
<1>5. /\ DeviceTurn /\ UNCHANGED flashVars /\ session' = session /\ job' = job
      /\ pc' = pc
  BY <1>1 DEF Respond, ResponseLost, DeviceTurn, Sent
<1> QED
  BY <1>1, <1>2, <1>3, <1>4, <1>5, CalmInv

LEMMA FrameGoneLink == ASSUME LinkInv, FrameLost \/ FrameOverrun PROVE LinkInv'
<1>1. /\ UNCHANGED vars /\ DeviceTurn /\ up' = up /\ up \in Seq(Reply)
      /\ host.tag \in Nat
  BY DEF FrameLost, FrameOverrun, DeviceTurn, LinkInv, LineOK, HostOK
<1>2. IInv' /\ Quiet
  <2>1. FlashInv' /\ Quiet
    BY <1>1, SameFlash DEF vars, LinkInv, IInv
  <2> QED
    BY <1>1, <2>1, RomUntouched
<1>3. NoReply \in Reply /\ NoReply.tag = 0 /\ NoReply.type # "ACK"
  BY IdleJob DEF NoReply
<1>4. /\ InFlight' = InFlight /\ session' = session /\ job' = job /\ pc' = pc
      /\ UNCHANGED flashVars
  BY <1>1 DEF InFlight, vars, romVars
<1> QED
  BY <1>1, <1>2, <1>3, <1>4, CalmInv

\* A handler that answers at once.
LEMMA HandledLink ==
  ASSUME LinkInv, IInv', Quiet, host' = host, down # NoFrame, down' = NoFrame,
         up' = up, Handled, session' = session, pc' = pc \/ pc' = "boot",
         NEW type \in {"ACK", "NACK", "HELLO"}, Answer(type, host.tag),
         type = "ACK" =>
           /\ host.cmd # "BEGIN"
           /\ host.cmd = "DATA" /\ session.active => session.next = host.off + ChunkLen
           /\ host.cmd = "END" => CurrentImage = UpdateImage
  PROVE  LinkInv'
<1>1. /\ up' \in Seq(Reply) /\ host.tag \in Nat /\ job' = job /\ UNCHANGED flashVars
      /\ pc = "listen" /\ DeviceTurn
  BY DEF LinkInv, LineOK, HostOK, Handled, Listening, DeviceTurn
<1> DEFINE a == [type |-> type, tag |-> host.tag]
<1>2. a \in Reply /\ a.tag = host.tag /\ a.type = type /\ reply' = a
  BY <1>1 DEF Reply, Answer
<1>3. InFlight' \subseteq InFlight \cup {a}
  BY <1>2, AnswerInFlight
<1>4. ~Busy /\ (~Busy' \/ pc' = pc)
  BY <1>1 DEF Busy
<1>5. ~Busy
  BY <1>1 DEF Busy
<1>6. a = [type |-> "ACK", tag |-> host.tag] => type = "ACK"
  BY <1>2
<1> HIDE DEF a
<1> QED
  BY <1>1, <1>2, <1>3, <1>4, <1>5, <1>6, CalmInv

LEMMA RejectLink ==
  ASSUME LinkInv, host' = host, down # NoFrame, down' = NoFrame, up' = up,
         Reject(host.tag)
  PROVE  LinkInv'
<1>1. host.tag \in Nat
  BY DEF LinkInv, HostOK
<1>2. IInv' /\ Quiet
  BY <1>1, RejectInv DEF LinkInv
<1> QED
  BY <1>2, HandledLink DEF Reject

LEMMA ArriveLink == ASSUME LinkInv, Arrive PROVE LinkInv'
<1>1. /\ down # NoFrame /\ down' = NoFrame /\ host' = host /\ up' = up
      /\ down.cmd = host.cmd /\ down.tag = host.tag /\ down.off = host.off
      /\ host.tag \in Nat
  <2>1. down.cmd # "none" /\ down' = NoFrame /\ host' = host /\ up' = up
    BY DEF Arrive
  <2>2. down # NoFrame
    BY <2>1 DEF NoFrame
  <2>3. down = [cmd |-> host.cmd, tag |-> host.tag, off |-> host.off]
    BY <2>2 DEF LinkInv, LineOK
  <2> QED
    BY <2>1, <2>2, <2>3 DEF LinkInv, HostOK
<1>2. CASE host.cmd = "HELLO" /\ Hello(host.tag, TRUE)
  <2>1. IInv' /\ Quiet
    BY <1>1, <1>2, HelloInv DEF LinkInv
  <2> QED
    BY <1>1, <1>2, <2>1, HandledLink DEF Hello
<1>3. CASE host.cmd = "BEGIN" /\ Begin(host.tag, TRUE, Update)
  <2>1. IInv' /\ Quiet
    BY <1>1, <1>3, BeginInv, UpdateType DEF LinkInv
  <2>2. CASE Reject(host.tag)
    BY <1>1, <2>2, RejectLink
  <2>3. CASE ~Reject(host.tag)
    <3> DEFINE h == [seq |-> Number, len |-> Update.len, crc |-> Update.crc]
               work == [Idle EXCEPT !.slot = Target, !.tag = host.tag, !.hdr = h]
    <3>1. Engage("erase", work)
      BY <1>3, <2>3 DEF Begin
    <3>2. h.len = Update.len /\ h.crc = Update.crc
      OBVIOUS
    <3> HIDE DEF h
    <3>3. work.tag = host.tag /\ work.hdr = h
      BY DEF Idle
    <3> HIDE DEF work
    <3> QED
      BY <1>1, <1>3, <2>1, <3>1, <3>2, <3>3, EngageLink
  <2> QED
    BY <2>2, <2>3
<1>4. CASE host.cmd = "DATA" /\ Data(host.tag, TRUE, ChunkAt(host.off))
  <2> DEFINE chunk == ChunkAt(host.off)
             work == [Idle EXCEPT !.off = chunk.off, !.w = chunk.w, !.tag = host.tag]
  <2>1. chunk \in ChunkType /\ chunk.off = host.off /\ host.off \in Nat
    BY ChunkFacts DEF LinkInv, HostOK
  <2>2. IInv' /\ Quiet
    BY <1>1, <1>4, <2>1, DataInv DEF LinkInv
  <2>3. CASE Reject(host.tag)
    BY <1>1, <2>3, RejectLink
  <2>4. CASE Handled /\ Answer("ACK", host.tag) /\ UNCHANGED <<pc, session, cache>>
             /\ session.active /\ chunk.off < session.next
    <3>1. session.active => session.next = host.off + ChunkLen
      BY <1>4, <2>1, <2>4 DEF LinkInv, Sending
    <3> QED
      BY <1>1, <1>4, <2>2, <2>4, <3>1, HandledLink
  <2>5. CASE Engage("data", work)
    <3>1. work.off = host.off /\ work.w = chunk.w /\ work.tag = host.tag
          /\ work.hdr = Blank /\ work.k = 0
      BY <2>1 DEF Idle
    <3> HIDE DEF work
    <3> QED
      BY <1>1, <1>4, <2>2, <2>5, <3>1, EngageLink
  <2> QED
    BY <1>4, <2>3, <2>4, <2>5 DEF Data
<1>5. CASE host.cmd = "END" /\ End(host.tag, TRUE)
  <2> DEFINE work == [Idle EXCEPT !.tag = host.tag]
  <2>1. IInv' /\ Quiet
    BY <1>1, <1>5, EndInv DEF LinkInv
  <2>2. CASE Reject(host.tag)
    BY <1>1, <2>2, RejectLink
  <2>3. CASE SessionIsCommitted /\ Handled /\ Answer("ACK", host.tag)
             /\ UNCHANGED <<pc, session, cache>>
    <3>1. CurrentImage = UpdateImage
      BY <2>3, CommittedSession DEF LinkInv
    <3> QED
      BY <1>1, <1>5, <2>1, <2>3, <3>1, HandledLink
  <2>4. CASE Engage("commit", work)
    <3>1. work.tag = host.tag /\ work.hdr = Blank
      BY DEF Idle
    <3> HIDE DEF work
    <3> QED
      BY <1>1, <1>5, <2>1, <2>4, <3>1, EngageLink
  <2> QED
    BY <1>5, <2>2, <2>3, <2>4 DEF End
<1>6. CASE host.cmd = "BOOT" /\ Boot(host.tag, TRUE)
  <2>1. IInv' /\ Quiet
    BY <1>1, <1>6, BootInv DEF LinkInv
  <2> QED
    BY <1>1, <1>6, <2>1, HandledLink DEF Boot
<1> QED
  BY <1>1, <1>2, <1>3, <1>4, <1>5, <1>6 DEF Arrive

\* A reset ends the session; the answers on their way stay.
LEMMA DeviceResetLink == ASSUME LinkInv, DeviceReset PROVE LinkInv'
<1>1. /\ IInv' /\ (Quiet \/ Commits) /\ host' = host /\ down' = down /\ up' = up
      /\ Restart
  BY ResetInv DEF DeviceReset, LinkInv, Resets, ExternalReset
<1>2. /\ pc' = "reset" /\ ~session'.active /\ session'.hdr = Blank
      /\ job'.tag = 0 /\ job'.hdr = Blank /\ reply' = NoReply
      /\ NoReply.tag = 0 /\ NoReply.type # "ACK"
  BY <1>1 DEF Restart, NoSession, Idle, NoReply
<1>3. /\ HostOK' /\ LineOK' /\ InFlight' \subseteq InFlight \cup {NoReply}
      /\ host.tag \in Nat \ {0}
  BY <1>1, <1>2, TurnKeepsHost, AnswerInFlight DEF DeviceTurn, LinkInv, LineOK, HostOK
<1>4. Acked' => Acked
  BY <1>1, <1>2, <1>3 DEF Acked
<1>5. TagsBelow' /\ OnlyUpdate'
  BY <1>1, <1>2, <1>3 DEF LinkInv, TagsBelow, OnlyUpdate
<1>6. EndMeansCommitted' /\ ReportedMeansCommitted'
  BY <1>1, <1>2, <1>3, <1>4, ImageKept
     DEF LinkInv, EndMeansCommitted, ReportedMeansCommitted
<1>7. Opening' /\ Sending'
  BY <1>1, <1>2, <1>4 DEF LinkInv, Opening, Sending, Busy
<1> QED
  BY <1>1, <1>3, <1>5, <1>6, <1>7 DEF LinkInv

-----------------------------------------------------------------------------
(* The inductive invariant and what follows from it.                       *)

\* A flash that holds an older image satisfies what the proofs ask of it.
LEMMA HoldingInv ==
  ASSUME NEW s \in Slots, NEW h \in Header, Holding(s, h) PROVE FlashInv
<1>1. FlashTypeOK
  <2>1. [i \in Offsets |-> {}] \in Content /\ h.crc \in Content
    BY DEF Content, Word, Header
  <2> QED
    BY <2>1 DEF Holding, FlashTypeOK, ERASED, COMMITTED, StateBit
<1>2. StateWordOK /\ NothingBeyond
  BY DEF Holding, StateWordOK, NothingBeyond, ERASED, COMMITTED
<1>3. \A t \in Slots : t # s => ~Valid(t)
  BY DEF Holding, Valid
<1>4. SequenceOrder
  BY <1>3 DEF SequenceOrder, Slots
<1> QED
  BY <1>1, <1>2, <1>4 DEF FlashInv

LEMMA LinkInitInv == LinkInit => LinkInv
<1> SUFFICES ASSUME LinkInit PROVE LinkInv
  OBVIOUS
<1>1. FlashInv
  <2>1. CASE FlashInit
    <3>1. ~Valid(0) /\ ~Valid(1)
      BY <2>1 DEF FlashInit, Valid, Slots
    <3> QED
      BY <2>1, <3>1 DEF FlashInit, FlashInv, FlashTypeOK, StateWordOK, NothingBeyond,
                        SequenceOrder, ERASED, Content, Word
  <2>2. ASSUME NEW s \in Slots, NEW q \in Seqs,
               Holding(s, [seq |-> q, len |-> Older.len, crc |-> Older.crc])
        PROVE  FlashInv
    <3>1. [seq |-> q, len |-> Older.len, crc |-> Older.crc] \in Header
      BY UpdateType DEF Header, RequestType
    <3> QED
      BY <2>2, <3>1, HoldingInv
  <2> QED
    BY <2>1, <2>2 DEF LinkInit
<1>2. NoImage \in [len : 0 .. MaxPayload, word : Content]
  BY DEF NoImage, Content, Word
<1>3. TypeOK
  BY <1>1, <1>2, IdleJob DEF LinkInit, RomInit, TypeOK, FlashInv, PCs
<1>4. IInv
  BY <1>1, <1>3 DEF LinkInit, RomInit, IInv, CacheIsCurrent, RunInv, SessionInv,
                    StageInv, WriteInv, CommitInv, NoSession
<1>5. HostOK
  BY UpdateType DEF LinkInit, HostInit, HostOK, Commands
<1>6. LineOK /\ InFlight = {NoReply}
  BY DEF LinkInit, RomInit, LineOK, InFlight
<1>7. TagsBelow /\ OnlyUpdate
  BY <1>6 DEF LinkInit, RomInit, HostInit, TagsBelow, OnlyUpdate, Idle, NoSession, NoReply
<1>8. EndMeansCommitted /\ ReportedMeansCommitted /\ Opening /\ Sending
  BY DEF LinkInit, HostInit, RomInit, NoSession, EndMeansCommitted,
         ReportedMeansCommitted, Opening, Sending, Busy
<1> QED
  BY <1>4, <1>5, <1>6, <1>7, <1>8 DEF LinkInv

LEMMA LinkSameInv == ASSUME LinkInv, UNCHANGED allVars PROVE LinkInv'
<1>1. /\ UNCHANGED vars /\ DeviceTurn /\ up' = up /\ up \in Seq(Reply)
      /\ host.tag \in Nat
  BY DEF allVars, linkVars, DeviceTurn, LinkInv, LineOK, HostOK
<1>2. FlashInv' /\ Quiet
  BY <1>1, SameFlash DEF vars, LinkInv, IInv
<1>3. NoReply \in Reply /\ NoReply.tag = 0 /\ NoReply.type # "ACK"
  BY IdleJob DEF NoReply
<1>4. /\ InFlight' = InFlight /\ session' = session /\ job' = job /\ pc' = pc
      /\ UNCHANGED flashVars
  BY <1>1 DEF InFlight, vars, romVars
<1> QED
  BY <1>1, <1>2, <1>3, <1>4, RomUntouched, CalmInv

\* Every step of the host, the line and the device keeps the invariant.
LEMMA LinkStepInv == ASSUME LinkInv, [LinkNext]_allVars PROVE LinkInv'
<1>1. CASE HostSteps
  BY <1>1, HostSendInv, HostReceiveInv, HostTimeoutInv DEF HostSteps
<1>2. CASE Arrive \/ FrameLost \/ FrameOverrun \/ Respond \/ ResponseLost
  BY <1>2, ArriveLink, FrameGoneLink, AnsweredLink
<1>3. CASE WindowExpires \/ DeviceWorks \/ DeviceReset
  BY <1>3, WindowExpiresLink, DeviceWorksLink, DeviceResetLink
<1>4. CASE UNCHANGED allVars
  BY <1>4, LinkSameInv
<1> QED
  BY <1>1, <1>2, <1>3, <1>4 DEF LinkNext

\* So do the host, the frames and answers on their way and the ROM.
THEOREM LinkInductive == LinkSpec => []LinkInv
<1>1. LinkInit => LinkInv
  BY LinkInitInv
<1>2. LinkInv /\ [LinkNext]_allVars => LinkInv'
  BY LinkStepInv
<1> QED
  BY <1>1, <1>2, PTL DEF LinkSpec

\* tools/omcu_flash.py program(): when the ACK of END is in, the update is the
\* image every later reset boots, whatever was lost, replayed or cut off.
THEOREM ReportIsTrue == LinkSpec => []ReportedMeansCommitted
<1>1. LinkInv => ReportedMeansCommitted
  BY DEF LinkInv
<1> QED
  BY <1>1, LinkInductive, PTL

\* tools/omcu_flash.py exchange(): a chunk the host takes for written is in the
\* flash, and the session is at that chunk.
THEOREM AckIsTrue == LinkSpec => []AcknowledgedIsWritten
<1>1. LinkInv => AcknowledgedIsWritten
  <2> SUFFICES ASSUME LinkInv, host.cmd = "DATA", session.active
               PROVE  /\ session.next \in {host.off, host.off + ChunkLen}
                      /\ \A i \in Offsets : i < session.next =>
                           data[session.slot][i] = Update.crc[i]
    BY DEF AcknowledgedIsWritten, ChunkLen
  <2>1. session.next \in Nat /\ job.k \in Nat
    BY DEF LinkInv, IInv, TypeOK, Session, Job
  <2>2. \A i \in Offsets : i < session.next => i < session.next + job.k
    BY <2>1, BehindBoth
  <2> QED
    BY <2>2 DEF LinkInv, Sending, Written
<1> QED
  BY <1>1, LinkInductive, PTL

\* The ROM invariants hold for the update over the line too, whatever image the
\* device holds at the start.
THEOREM LinkKeepsRom == LinkSpec => [](TypeOK /\ SequenceOrder /\ CacheIsCurrent)
<1>1. LinkInv => TypeOK /\ SequenceOrder /\ CacheIsCurrent
  BY DEF LinkInv, IInv, FlashInv
<1> QED
  BY <1>1, LinkInductive, PTL

-----------------------------------------------------------------------------
(* The update over the line implements ImageStore too.                     *)

\* The line and the host add no step of their own to the ROM.
LEMMA LinkIsRom == ASSUME LinkInv, [LinkNext]_allVars PROVE [AnyNext]_vars
<1>1. CASE Arrive
  <2>1. host.tag \in Nat /\ host.off \in Nat /\ host.off < Update.len
    BY DEF LinkInv, HostOK
  <2>2. down.cmd # "none" => down.tag = host.tag /\ down.off = host.off
    BY DEF LinkInv, LineOK, NoFrame
  <2>3. down.cmd # "none"
    BY <1>1 DEF Arrive
  <2>4. ChunkAt(down.off) \in ChunkType /\ down.tag \in Nat /\ TRUE \in BOOLEAN
    BY <2>1, <2>2, <2>3, ChunkFacts
  <2>5. AnyFrame
    BY <1>1, <2>4, UpdateType DEF Arrive, AnyFrame
  <2> QED
    BY <2>5 DEF AnyNext
<1>2. CASE HostSteps \/ FrameLost \/ FrameOverrun
  BY <1>2 DEF HostSteps, HostSend, HostReceive, HostTimeout, FrameLost, FrameOverrun
<1>3. CASE Respond \/ ResponseLost
  BY <1>3 DEF Respond, ResponseLost, AnyNext
<1>4. CASE WindowExpires \/ DeviceWorks \/ DeviceReset
  BY <1>4 DEF WindowExpires, DeviceWorks, DeviceReset, AnyNext, Resets
<1>5. CASE UNCHANGED allVars
  BY <1>5 DEF allVars
<1> QED
  BY <1>1, <1>2, <1>3, <1>4, <1>5 DEF LinkNext

LEMMA LinkInitRefines == ASSUME LinkInit PROVE Store!Init
<1>1. FlashInv
  BY LinkInitInv DEF LinkInv, IInv
<1>2. CurrentImage \in AllImages \cup {NoImage}
  <2>1. CASE FindValid = NoSlot
    BY <2>1 DEF CurrentImage
  <2>2. CASE FindValid # NoSlot
    <3>1. hdr[FindValid] \in Header /\ FindValid \in Slots
      BY <1>1, <2>2, FindValidResult, ValidHeader DEF FlashInv
    <3>2. hdr[FindValid].len \in 1 .. MaxPayload /\ data[FindValid] \in Content
      BY <1>1, <3>1 DEF FlashInv, FlashTypeOK, Header
    <3> QED
      BY <2>2, <3>2 DEF CurrentImage, AllImages
  <2> QED
    BY <2>1, <2>2
<1>3. OfferedImage = NoImage /\ running = NoImage
  BY DEF LinkInit, RomInit, OfferedImage, NoSession
<1> QED
  BY <1>2, <1>3 DEF Store!Init, Store!MaybeImage

\* docs/zh-CN/mcu-firmware-update.md items 5 and 6, for an update over the line
\* to a device that may already hold an image.
THEOREM LinkUpdateIsAtomic == LinkSpec => UpdatesAreAtomic
<1>1. LinkInit => Store!Init
  BY LinkInitRefines
<1>2. LinkInv /\ [LinkNext]_allVars => [Store!Next]_(Store!vars)
  BY LinkIsRom, StepRefines DEF StoreStep, LinkInv
<1> QED
  BY <1>1, <1>2, LinkInductive, PTL DEF LinkSpec, UpdatesAreAtomic, Store!Spec

\* omcu_boot_flash_write_header, for an update over the line: while the cells take
\* what is programmed, no retry, replay or reset programs a word twice.
THEOREM LinkErasedOnly == ASSUME ~WeakCells PROVE LinkSpec => []ProgramsErasedWords
<1>1. LinkInit => ErasedAhead
  BY DEF LinkInit, RomInit, NoSession, ErasedAhead
<1>2. LinkInv /\ ErasedAhead /\ [LinkNext]_allVars => ErasedAhead'
  BY LinkIsRom, StepErased DEF LinkInv
<1>3. LinkInv /\ ErasedAhead => ProgramsErasedWords
  BY ErasedProgrammed DEF LinkInv
<1> QED
  BY <1>1, <1>2, <1>3, LinkInductive, PTL DEF LinkSpec

-----------------------------------------------------------------------------
(* Without a loss and without a reset the host gives up only if it found the *)
(* application of the older image.  What is under way between the two is     *)
(* counted: at most one answer is owed beyond the one that is awaited.       *)

\* The answers the host will read, in order.
Answers == IF reply = NoReply THEN up ELSE Append(up, reply)

\* Answers that exist or that a handler at work will give.
Owed == Len(Answers) + (IF Busy THEN 1 ELSE 0)

\* The frame of the exchange in progress, until the device has taken it.
Coming == IF host.sent /\ down = NoFrame THEN 0 ELSE 1

\* An answer to the exchange in progress is the one the host expects.
Truthful ==
  \A i \in 1 .. Len(Answers) :
    Answers[i].tag = host.tag => Answers[i].type = Expected(host.cmd)

\* Only the oldest answer can belong to an exchange that is over.
FirstStale == Answers # << >> /\ Answers[1].tag # host.tag

InOrder ==
  /\ \A i \in 2 .. Len(Answers) : Answers[i].tag = host.tag
  /\ Busy => job.tag = host.tag /\ reply = NoReply

OlderImage == ImageOf(Older.len, Older.crc)

\* The listening window was over before the host was heard.
Missed ==
  /\ host.cmd \in {"HELLO", "failed"}
  /\ pc = "app" /\ running = OlderImage
  /\ Answers = << >>

Calling ==
  /\ host.cmd = "HELLO" /\ pc \in {"reset", "listen"}
  /\ Owed + Coming <= 1
  /\ \/ host.tries = 0
     \/ host.tries = 1 /\ pc = "listen" /\ Owed + Coming = 1
  /\ Owed # 0 => pc = "listen" /\ saw
  /\ Truthful /\ InOrder /\ ~FirstStale
  /\ FindValid # NoSlot => CurrentImage = OlderImage

Opened ==
  /\ host.cmd = "BEGIN" /\ saw /\ pc \in {"listen", "erase", "header"}
  /\ Owed + Coming = 1
  /\ Truthful /\ InOrder /\ ~FirstStale
  /\ Acked => session.active

\* The device can take the command the host is at.
Ready ==
  \/ host.cmd = "DATA" /\ pc \in {"listen", "data"} /\ session.active
  \/ /\ host.cmd = "END" /\ pc \in {"listen", "commit"}
     /\ \/ /\ session.active /\ ~Acked /\ session.next = session.hdr.len
           /\ PayloadMatches(session.slot, session.hdr)
        \/ ~session.active /\ SessionIsCommitted
  \/ /\ host.cmd = "BOOT" /\ pc \in {"listen", "boot", "app"}
     /\ pc # "listen" => Acked
     /\ pc = "app" => reply = NoReply

Underway ==
  /\ saw /\ Ready
  /\ Owed + Coming \in {1, 2}
  /\ host.tries <= Early + 1 /\ (FirstStale => host.tries <= Early)
  /\ Truthful /\ InOrder

Unhurt == losses = 0 /\ resets = 0

Phase == Missed \/ Calling \/ Opened \/ Underway \/ host.cmd = "done"

\* What the tool must allow for: as many attempts as timeouts may come early, a
\* spare one for the answer that is then late, and a second HELLO.
Patient ==
  /\ Early + 2 <= Retries /\ HelloTries >= 2
  /\ "HELLO" \notin Impatient /\ "BEGIN" \notin Impatient

\* The answers in order are the answers in flight.
LEMMA AnswerSet ==
  ASSUME NEW u \in Seq(Reply), NEW r \in Reply, NEW s,
         s = IF r = NoReply THEN u ELSE Append(u, r)
  PROVE  /\ s \in Seq(Reply) /\ Len(s) \in Nat
         /\ \A a : a # NoReply =>
              (a \in {r} \cup {u[i] : i \in 1 .. Len(u)} <=> \E i \in 1 .. Len(s) : s[i] = a)
<1>1. CASE r = NoReply
  BY <1>1
<1>2. CASE r # NoReply
  <2>1. s \in Seq(Reply) /\ Len(s) = Len(u) + 1 /\ Len(u) \in Nat /\ s[Len(s)] = r
    BY <1>2
  <2>2. \A i \in 1 .. Len(u) : i \in 1 .. Len(s) /\ s[i] = u[i]
    BY <1>2, <2>1
  <2>3. \A i \in 1 .. Len(s) : i = Len(s) \/ i \in 1 .. Len(u)
    BY <2>1
  <2>4. Len(s) \in 1 .. Len(s)
    BY <2>1
  <2> QED
    BY <2>1, <2>2, <2>3, <2>4
<1> QED
  BY <1>1, <1>2

LEMMA AnswersAre ==
  ASSUME LinkInv
  PROVE  /\ Answers \in Seq(Reply) /\ Len(Answers) \in Nat
         /\ Acked <=> \E i \in 1 .. Len(Answers) :
                        Answers[i] = [type |-> "ACK", tag |-> host.tag]
         /\ \A i \in 1 .. Len(Answers) :
              Answers[i] \in Reply /\ Answers[i].tag \in Nat /\ Answers[i].tag <= host.tag
         /\ Owed \in Nat /\ Coming \in {0, 1} /\ host.tag \in Nat /\ host.tries \in Nat
         /\ Len(Answers) <= Owed /\ (Busy => Len(Answers) < Owed)
         /\ ~Busy => Owed = Len(Answers)
         /\ Answers = << >> <=> Len(Answers) = 0
         /\ reply # NoReply \/ up # << >> => Len(Answers) # 0
<1>1. up \in Seq(Reply) /\ reply \in Reply
  BY DEF LinkInv, LineOK, IInv, TypeOK
<1>2. [type |-> "ACK", tag |-> host.tag] # NoReply
  BY DEF NoReply
<1>3. /\ Answers \in Seq(Reply) /\ Len(Answers) \in Nat
      /\ \A a : a # NoReply => (a \in InFlight <=> \E i \in 1 .. Len(Answers) : Answers[i] = a)
  BY <1>1, AnswerSet DEF Answers, InFlight
<1>4. \A i \in 1 .. Len(Answers) : Answers[i] \in Reply /\ Answers[i].tag \in Nat
  <2>1. \A i \in 1 .. Len(Answers) : Answers[i] \in Reply
    BY <1>3
  <2>2. \A a \in Reply : a.tag \in Nat
    BY DEF Reply
  <2> QED
    BY <2>1, <2>2
<1>5. \A i \in 1 .. Len(Answers) : Answers[i].tag <= host.tag
  <2>1. NoReply.tag = 0 /\ host.tag \in Nat
    BY DEF NoReply, LinkInv, HostOK
  <2> TAKE i \in 1 .. Len(Answers)
  <2>2. CASE Answers[i] = NoReply
    BY <2>1, <2>2
  <2>3. CASE Answers[i] # NoReply
    BY <1>3, <2>3 DEF LinkInv, TagsBelow
  <2> QED
    BY <2>2, <2>3
<1>6. /\ Owed \in Nat /\ Coming \in {0, 1} /\ host.tag \in Nat /\ host.tries \in Nat
      /\ Len(Answers) <= Owed /\ (Busy => Len(Answers) < Owed)
      /\ ~Busy => Owed = Len(Answers)
  BY <1>3 DEF Owed, Coming, LinkInv, HostOK
<1>7. Answers = << >> <=> Len(Answers) = 0
  BY <1>3
<1>8. reply # NoReply \/ up # << >> => Len(Answers) # 0
  BY <1>1 DEF Answers
<1> QED
  BY <1>2, <1>3, <1>4, <1>5, <1>6, <1>7, <1>8 DEF Acked

\* The same after a step.
LEMMA AnswersAreNext ==
  ASSUME LinkInv'
  PROVE  /\ Answers' \in Seq(Reply) /\ Len(Answers') \in Nat
         /\ Acked' <=> \E i \in 1 .. Len(Answers') :
                         Answers'[i] = [type |-> "ACK", tag |-> host'.tag]
         /\ Owed' \in Nat /\ Coming' \in {0, 1} /\ host'.tries \in Nat
         /\ ~Busy' => Owed' = Len(Answers')
         /\ Busy' => Owed' = Len(Answers') + 1
         /\ Answers' = << >> <=> Len(Answers') = 0
<1>1. up' \in Seq(Reply) /\ reply' \in Reply
  BY DEF LinkInv, LineOK, IInv, TypeOK
<1>2. [type |-> "ACK", tag |-> host'.tag] # NoReply
  BY DEF NoReply
<1>3. /\ Answers' \in Seq(Reply) /\ Len(Answers') \in Nat
      /\ \A a : a # NoReply => (a \in InFlight' <=> \E i \in 1 .. Len(Answers') : Answers'[i] = a)
  BY <1>1, AnswerSet DEF Answers, InFlight
<1> QED
  BY <1>2, <1>3 DEF Owed, Coming, LinkInv, HostOK, Acked

\* Reading takes the first answer away.
LEMMA ReadFirst ==
  ASSUME NEW u \in Seq(Reply), u # << >>, NEW r \in Reply
  PROVE  LET s == Append(u, r)
             t == Append(Tail(u), r)
         IN  /\ Head(u) = s[1] /\ 1 \in 1 .. Len(s)
             /\ Len(t) = Len(s) - 1
             /\ \A i \in 1 .. Len(t) : i + 1 \in 2 .. Len(s) /\ t[i] = s[i + 1]
<1> DEFINE s == Append(u, r)
           t == Append(Tail(u), r)
           n == Len(u)
<1>1. n \in Nat \ {0} /\ Tail(u) \in Seq(Reply) /\ Len(Tail(u)) = n - 1
  OBVIOUS
<1>2. Len(s) = n + 1 /\ Len(t) = n /\ s[n + 1] = r /\ t[n] = r
  BY <1>1
<1>3. ASSUME NEW i \in 1 .. n, i # n
      PROVE  s[i + 1] = u[i + 1] /\ t[i] = u[i + 1]
  <2>1. i \in 1 .. n - 1 /\ i + 1 \in 1 .. n
    <3> HIDE DEF n
    <3>1. i \in Int /\ 1 <= i /\ i <= n /\ n \in Nat
      BY <1>1
    <3> QED
      BY <1>3, <3>1
  <2>2. s[i + 1] = u[i + 1]
    BY <2>1
  <2>3. t[i] = Tail(u)[i]
    BY <1>1, <2>1
  <2>4. Tail(u)[i] = u[i + 1]
    BY <1>1, <2>1
  <2> QED
    BY <2>2, <2>3, <2>4
<1>4. Head(u) = s[1]
  OBVIOUS
<1> HIDE DEF s, t, n
<1>5. 1 \in 1 .. Len(s) /\ Len(t) = Len(s) - 1
  BY <1>1, <1>2
<1>6. \A i \in 1 .. Len(t) : i + 1 \in 2 .. Len(s) /\ t[i] = s[i + 1]
  BY <1>1, <1>2, <1>3
<1> QED
  BY <1>4, <1>5, <1>6 DEF s, t

LEMMA ReadAnswer ==
  ASSUME LinkInv, up # << >>, up' = Tail(up), reply' = reply
  PROVE  /\ Head(up) = Answers[1] /\ 1 \in 1 .. Len(Answers)
         /\ Len(Answers') = Len(Answers) - 1
         /\ \A i \in 1 .. Len(Answers') :
              i + 1 \in 2 .. Len(Answers) /\ Answers'[i] = Answers[i + 1]
<1>1. up \in Seq(Reply) /\ reply \in Reply
  BY DEF LinkInv, LineOK, IInv, TypeOK
<1>2. CASE reply = NoReply
  BY <1>1, <1>2 DEF Answers
<1>3. CASE reply # NoReply
  <2>1. /\ Answers = Append(up, reply) /\ Answers' = Append(Tail(up), reply)
    BY <1>3 DEF Answers
  <2> QED
    BY <1>1, <2>1, ReadFirst
<1> QED
  BY <1>2, <1>3

\* A new answer is the last.
LEMMA NewAnswer ==
  ASSUME LinkInv, up' = up, reply = NoReply, reply' # NoReply
  PROVE  /\ Len(Answers') = Len(Answers) + 1 /\ Len(Answers) \in Nat
         /\ Answers'[Len(Answers) + 1] = reply'
         /\ \A i \in 1 .. Len(Answers) : Answers'[i] = Answers[i]
<1>1. up \in Seq(Reply)
  BY DEF LinkInv, LineOK
<1>2. Answers = up /\ Answers' = Append(up, reply')
  BY DEF Answers
<1> QED
  BY <1>1, <1>2

\* A step that moves a frame or an answer along, or nothing.
Moves ==
  /\ UNCHANGED <<flashVars, pc, session, job, saw, running>>
  /\ host'.cmd = host.cmd /\ host'.tag = host.tag /\ host'.tries = host.tries
  /\ Answers' = Answers /\ reply' \in {reply, NoReply}

LEMMA FlashSame ==
  ASSUME LinkInv, UNCHANGED flashVars
  PROVE  /\ FindValid' = FindValid /\ CurrentImage' = CurrentImage
         /\ hdr' = hdr /\ state' = state /\ data' = data
  BY SameFlash, QuietKeeps DEF LinkInv, IInv

LEMMA MovesKeep ==
  ASSUME LinkInv, LinkInv', Moves
  PROVE  /\ Owed' = Owed /\ (Acked' <=> Acked) /\ (Busy' <=> Busy)
         /\ Truthful => Truthful'
         /\ FirstStale' <=> FirstStale
         /\ InOrder => InOrder'
         /\ Ready => Ready'
<1>1. UNCHANGED <<flashVars, pc, session, job>> /\ Answers' = Answers
      /\ host'.cmd = host.cmd /\ host'.tag = host.tag /\ reply' \in {reply, NoReply}
  BY DEF Moves
<1>2. (Busy' <=> Busy) /\ Owed' = Owed
  BY <1>1 DEF Busy, Owed
<1>3. Acked' <=> Acked
  BY <1>1, AnswersAre, AnswersAreNext
<1>4. /\ Truthful => Truthful'
      /\ FirstStale' <=> FirstStale
      /\ InOrder => InOrder'
  BY <1>1, <1>2 DEF Truthful, FirstStale, InOrder, Expected
<1>5. Ready => Ready'
  BY <1>1, <1>3, FlashSame DEF Ready, PayloadMatches, SessionIsCommitted
<1> QED
  BY <1>2, <1>3, <1>4, <1>5

LEMMA SamePhase ==
  ASSUME LinkInv, LinkInv', Moves, Coming' = Coming, Phase
  PROVE  Phase'
<1>1. /\ Owed' = Owed /\ (Acked' <=> Acked) /\ (Truthful => Truthful')
      /\ FirstStale' <=> FirstStale
      /\ (InOrder => InOrder') /\ (Ready => Ready')
  BY MovesKeep
<1>2. /\ UNCHANGED <<pc, session, saw, running>> /\ Answers' = Answers
      /\ host'.cmd = host.cmd /\ host'.tries = host.tries
      /\ FindValid' = FindValid /\ CurrentImage' = CurrentImage
  BY FlashSame DEF Moves
<1>3. Missed => Missed'
  BY <1>2 DEF Missed, OlderImage, ImageOf
<1>4. Calling => Calling'
  BY <1>1, <1>2 DEF Calling, OlderImage, ImageOf
<1>5. Opened => Opened'
  BY <1>1, <1>2 DEF Opened
<1>6. Underway => Underway'
  BY <1>1, <1>2 DEF Underway
<1> QED
  BY <1>2, <1>3, <1>4, <1>5, <1>6 DEF Phase

LEMMA SendKind == ASSUME LinkInv, LinkInv', HostSend, Phase PROVE Phase'
<1>1. /\ UNCHANGED vars /\ up' = up /\ down' # NoFrame /\ ~host.sent
      /\ host'.cmd = host.cmd /\ host'.tag = host.tag /\ host'.tries = host.tries
  BY DEF HostSend, LinkInv, HostOK, LineOK, NoFrame, Commands, Ended
<1>2. Moves /\ Coming' = Coming
  BY <1>1 DEF Moves, vars, romVars, Answers, Coming
<1> QED
  BY <1>2, SamePhase

LEMMA RespondKind == ASSUME LinkInv, LinkInv', Respond, Phase PROVE Phase'
<1>1. CASE host.cmd = "done"
  BY <1>1 DEF Respond, Phase
<1>2. CASE host.cmd # "done"
  <2>1. host.cmd # "failed"
    BY <1>2, AnswersAre DEF Respond, Sent, Phase, Missed, Calling, Opened, Underway, Ready
  <2>2. /\ up' = Append(up, reply) /\ reply # NoReply /\ reply' = NoReply
        /\ UNCHANGED <<host, down, flashVars, pc, session, job, saw, running>>
    BY <1>2, <2>1 DEF Respond, Sent, Ended
  <2>3. Moves /\ Coming' = Coming
    BY <2>2 DEF Moves, Answers, Coming
  <2> QED
    BY <2>3, SamePhase
<1> QED
  BY <1>1, <1>2

LEMMA StutterKind == ASSUME LinkInv, LinkInv', UNCHANGED allVars, Phase PROVE Phase'
<1>1. Moves /\ Coming' = Coming
  BY DEF allVars, vars, romVars, linkVars, Moves, Answers, Coming
<1> QED
  BY <1>1, SamePhase

\* A frame is overrun only while a handler or an answer is under way.
LEMMA OverrunKind == ASSUME LinkInv, LinkInv', FrameOverrun, Phase PROVE Phase'
<1>1. /\ UNCHANGED vars /\ up' = up /\ host' = host /\ down # NoFrame /\ down' = NoFrame
      /\ ~Listening /\ host.sent
  BY DEF FrameOverrun, LinkInv, LineOK
<1>2. Moves /\ Coming = 1 /\ Coming' = 0
  BY <1>1 DEF Moves, vars, romVars, Answers, Coming
<1>3. /\ Owed' = Owed /\ (Acked' <=> Acked) /\ (Truthful => Truthful')
      /\ FirstStale' <=> FirstStale
      /\ (InOrder => InOrder') /\ (Ready => Ready')
  BY <1>2, MovesKeep
<1>4. /\ UNCHANGED <<pc, session, saw, running>> /\ Answers' = Answers
      /\ host'.cmd = host.cmd /\ host'.tries = host.tries
      /\ FindValid' = FindValid /\ CurrentImage' = CurrentImage
  BY <1>2, FlashSame DEF Moves
<1>5. /\ Owed \in Nat /\ Len(Answers) \in Nat /\ Len(Answers) <= Owed
      /\ reply # NoReply => Len(Answers) # 0
      /\ Busy => Len(Answers) < Owed
      /\ Acked => Len(Answers) # 0
  BY AnswersAre
<1>6. Missed => Missed'
  BY <1>4 DEF Missed, OlderImage, ImageOf
<1>7. Calling => Calling'
  BY <1>1, <1>2, <1>3, <1>4, <1>5 DEF Calling, OlderImage, ImageOf, Listening
<1>8. Opened => Opened'
  BY <1>1, <1>2, <1>3, <1>4, <1>5 DEF Opened, Listening, Busy
<1>9. Underway => Underway'
  <2> SUFFICES ASSUME Underway PROVE Underway'
    OBVIOUS
  <2>1. Owed # 0
    <3>1. pc = "listen" => reply # NoReply
      BY <1>1 DEF Listening
    <3> QED
      BY <1>5, <3>1 DEF Underway, Ready, Busy
  <2> QED
    BY <1>2, <1>3, <1>4, <1>5, <2>1 DEF Underway
<1> QED
  BY <1>4, <1>6, <1>7, <1>8, <1>9 DEF Phase

-----------------------------------------------------------------------------
(* The host reads an answer, or no longer waits for it.                    *)

\* The next exchange starts with what is still owed to the one before.
LEMMA NextExchange ==
  ASSUME LinkInv, LinkInv', HostReceive, host'.tag = host.tag + 1, ~Busy,
         Owed + Coming \in {1, 2}
  PROVE  /\ Truthful' /\ InOrder' /\ ~Acked' /\ ~Busy'
         /\ ~host'.sent => Owed' + Coming' = Owed + Coming
         /\ Owed + Coming = 1 => ~FirstStale'
<1>1. /\ up # << >> /\ up' = Tail(up) /\ reply' = reply /\ UNCHANGED vars
      /\ host.sent /\ down = NoFrame
  BY DEF HostReceive, vars, romVars
<1>2. /\ Len(Answers') = Len(Answers) - 1
      /\ \A i \in 1 .. Len(Answers') :
           i + 1 \in 2 .. Len(Answers) /\ Answers'[i] = Answers[i + 1]
  BY <1>1, ReadAnswer
<1>3. /\ Len(Answers) \in Nat /\ Owed = Len(Answers) /\ Coming = 0
      /\ \A i \in 1 .. Len(Answers) : Answers[i].tag \in Nat /\ Answers[i].tag <= host.tag
      /\ host.tag \in Nat
  BY <1>1, AnswersAre DEF Coming
<1>4. ~Busy' /\ Owed' = Len(Answers') /\ (~host'.sent => Coming' = 1)
  BY <1>1, AnswersAreNext DEF vars, romVars, Busy, Coming
<1>5. \A i \in 1 .. Len(Answers') : Answers'[i].tag # host'.tag
  <2> TAKE i \in 1 .. Len(Answers')
  <2>1. i + 1 \in 1 .. Len(Answers) /\ Answers'[i] = Answers[i + 1]
    BY <1>2, <1>3
  <2>2. Answers'[i].tag \in Nat /\ Answers'[i].tag <= host.tag
    BY <1>3, <2>1
  <2> QED
    BY <1>3, <2>2
<1>6. Truthful' /\ ~Acked'
  BY <1>5, AnswersAreNext DEF Truthful
<1>7. Len(Answers') <= 1 /\ (Owed + Coming = 1 => Len(Answers') = 0)
  BY <1>2, <1>3
<1>8. InOrder'
  BY <1>2, <1>3, <1>4, <1>7 DEF InOrder
<1>9. Owed + Coming = 1 => ~FirstStale'
  BY <1>7, AnswersAreNext DEF FirstStale
<1>10. ~host'.sent => Owed' + Coming' = Owed + Coming
  BY <1>2, <1>3, <1>4
<1> QED
  BY <1>4, <1>6, <1>8, <1>9, <1>10

\* A late answer costs one of the attempts that are left.
LEMMA StaleKind ==
  ASSUME LinkInv, LinkInv', Patient, HostReceive, Underway, Answers[1].tag # host.tag
  PROVE  Underway'
<1>1. /\ up # << >> /\ up' = Tail(up) /\ UNCHANGED vars /\ reply' = reply
      /\ host.sent /\ down = NoFrame /\ down' = NoFrame
  BY DEF HostReceive, vars, romVars
<1>2. /\ Head(up) = Answers[1] /\ 1 \in 1 .. Len(Answers)
      /\ Len(Answers') = Len(Answers) - 1
      /\ \A i \in 1 .. Len(Answers') :
           i + 1 \in 2 .. Len(Answers) /\ Answers'[i] = Answers[i + 1]
  BY <1>1, ReadAnswer
<1>3. Len(Answers) \in Nat /\ Owed \in Nat /\ host.tries \in Nat /\ Coming = 0
  BY <1>1, AnswersAre DEF Coming
<1>4. FirstStale /\ Answers # << >>
  BY <1>2, <1>3, AnswersAre DEF FirstStale
<1>5. host.cmd \in {"DATA", "END", "BOOT"} /\ host.tries + 1 < Retries
  BY <1>3, <1>4 DEF Underway, Ready, Patient
<1>6. host' = [host EXCEPT !.tries = @ + 1, !.sent = FALSE,
                           !.tag = IF host.cmd = "HELLO" THEN @ + 1 ELSE @]
  <2>1. AttemptFails
    BY <1>2 DEF HostReceive
  <2>2. host.tries + 1 # Attempts(host.cmd)
    <3>1. Attempts(host.cmd) = Retries
      BY <1>5 DEF Attempts
    <3> QED
      BY <1>5, <3>1
  <2> QED
    BY <2>1, <2>2, Zenon DEF AttemptFails
<1>7. /\ host'.cmd = host.cmd /\ host'.tag = host.tag /\ ~host'.sent
      /\ host'.tries = host.tries + 1
  BY <1>5, <1>6 DEF LinkInv, HostOK
<1>8. /\ UNCHANGED <<flashVars, pc, session, job, saw, reply>> /\ (Busy' <=> Busy)
  BY <1>1 DEF vars, romVars, Busy
<1>9. Owed' + Coming' = Owed + Coming
  <2>1. Coming' = 1
    BY <1>7 DEF Coming
  <2>2. Owed' = Owed - 1
    BY <1>2, <1>3, <1>8 DEF Owed
  <2> QED
    BY <1>3, <2>1, <2>2
<1>10. Truthful'
  <2>1. \A i \in 1 .. Len(Answers') : i + 1 \in 1 .. Len(Answers)
                                      /\ Answers'[i] = Answers[i + 1]
    BY <1>2, <1>3
  <2> QED
    BY <1>7, <2>1 DEF Underway, Truthful, Expected
<1>11. \A i \in 1 .. Len(Answers') : Answers'[i].tag = host'.tag
  <2>1. \A i \in 2 .. Len(Answers) : Answers[i].tag = host.tag
    BY DEF Underway, InOrder
  <2> TAKE i \in 1 .. Len(Answers')
  <2>2. i + 1 \in 2 .. Len(Answers) /\ Answers'[i] = Answers[i + 1]
    BY <1>2
  <2> QED
    BY <1>7, <2>1, <2>2
<1>12. InOrder' /\ ~FirstStale'
  <2>1. \A i \in 2 .. Len(Answers') : i \in 1 .. Len(Answers')
    BY <1>2, <1>3
  <2>2. Answers' # << >> => 1 \in 1 .. Len(Answers')
    BY AnswersAreNext
  <2> QED
    BY <1>7, <1>8, <1>11, <2>1, <2>2 DEF Underway, InOrder, FirstStale
<1>13. Acked' <=> Acked
  <2>1. Acked => Acked'
    <3> SUFFICES ASSUME Acked PROVE Acked'
      OBVIOUS
    <3>1. PICK i \in 1 .. Len(Answers) : Answers[i] = [type |-> "ACK", tag |-> host.tag]
      BY AnswersAre
    <3>2. i # 1 /\ Answers[i].tag = host.tag
      BY <3>1
    <3>3. i - 1 \in 1 .. Len(Answers') /\ (i - 1) + 1 = i
      BY <1>2, <1>3, <3>2
    <3>4. Answers'[i - 1] = Answers[i]
      BY <1>2, <3>3
    <3> QED
      BY <1>7, <3>1, <3>3, <3>4, AnswersAreNext
  <2>2. Acked' => Acked
    <3> SUFFICES ASSUME Acked' PROVE Acked
      OBVIOUS
    <3>1. PICK i \in 1 .. Len(Answers') : Answers'[i] = [type |-> "ACK", tag |-> host.tag]
      BY <1>7, AnswersAreNext
    <3>2. i + 1 \in 1 .. Len(Answers) /\ Answers[i + 1] = Answers'[i]
      BY <1>2, <1>3
    <3> QED
      BY <3>1, <3>2, AnswersAre
  <2> QED
    BY <2>1, <2>2
<1>14. Ready'
  BY <1>7, <1>8, <1>13, FlashSame
     DEF Underway, Ready, PayloadMatches, SessionIsCommitted
<1>15. saw' /\ host'.tries <= Early + 1
  BY <1>3, <1>4, <1>7, <1>8 DEF Underway
<1> QED
  BY <1>9, <1>10, <1>12, <1>14, <1>15 DEF Underway

\* The answer to HELLO or BEGIN is followed by the next command.
LEMMA HelloAnswered ==
  ASSUME LinkInv, LinkInv', HostReceive, HostAccepted, Calling
  PROVE  Opened'
<1>1. /\ host'.cmd = "BEGIN" /\ host'.tag = host.tag + 1 /\ ~host'.sent
      /\ UNCHANGED vars /\ up # << >> /\ host.sent /\ down = NoFrame
  BY DEF Calling, HostAccepted, Advance, HostReceive
<1>2. pc = "listen" /\ saw /\ ~Busy /\ Owed + Coming = 1
  BY <1>1, AnswersAre DEF Calling, Busy
<1>3. /\ Truthful' /\ InOrder' /\ ~Acked' /\ ~FirstStale' /\ Owed' + Coming' = 1
  BY <1>1, <1>2, NextExchange
<1> QED
  BY <1>1, <1>2, <1>3 DEF Opened, vars, romVars

LEMMA BeginAnswered ==
  ASSUME LinkInv, LinkInv', HostReceive, HostAccepted, Opened, Acked
  PROVE  Underway'
<1>1. /\ host'.cmd = "DATA" /\ host'.tag = host.tag + 1 /\ ~host'.sent /\ host'.tries = 0
      /\ UNCHANGED vars /\ up # << >> /\ host.sent /\ down = NoFrame
  BY DEF Opened, HostAccepted, Advance, HostReceive
<1>2. Owed + Coming = 1 /\ ~Busy
  BY AnswersAre, <1>1 DEF Opened
<1>3. /\ Truthful' /\ InOrder' /\ ~FirstStale' /\ Owed' + Coming' = 1
  BY <1>1, <1>2, NextExchange
<1>4. pc = "listen" /\ session.active /\ saw
  BY <1>2 DEF Opened, Busy
<1> QED
  BY <1>1, <1>3, <1>4 DEF Underway, Ready, vars, romVars

\* The last chunk ends the payload.
LEMMA LastChunk ==
  ASSUME NEW off \in Nat, off < Update.len, ~(off + ChunkWords < Update.len)
  PROVE  off + Len(ChunkAt(off).w) = Update.len
<1> DEFINE n == IF off + ChunkWords <= Update.len THEN ChunkWords ELSE Update.len - off
           w == [j \in 1 .. n |-> Update.crc[off + j - 1]]
<1>1. n \in Nat \ {0} /\ off + n = Update.len
  BY UpdateType
<1>2. ChunkAt(off).w = w
  BY DEF ChunkAt
<1>3. Len(w) = n
  <2>1. ChunkAt(off).w \in Seq(Word)
    BY ChunkFacts DEF ChunkType
  <2> HIDE DEF n
  <2>2. w \in Seq(Word) /\ DOMAIN w = 1 .. n
    BY <1>2, <2>1
  <2> QED
    BY <1>1, <2>2
<1> QED
  BY <1>1, <1>2, <1>3

\* The answer to DATA is followed by the next chunk, or by END.
LEMMA DataAnswered ==
  ASSUME LinkInv, LinkInv', HostReceive, HostAccepted, Underway, Acked, host.cmd = "DATA"
  PROVE  Underway'
<1>1. /\ host'.cmd \in {"DATA", "END"} /\ host'.tag = host.tag + 1 /\ ~host'.sent
      /\ host'.tries = 0
      /\ host'.cmd = "END" => ~(host.off + ChunkWords < Update.len)
      /\ UNCHANGED vars /\ up # << >> /\ host.sent /\ down = NoFrame
  BY DEF HostAccepted, Advance, HostReceive
<1>2. /\ session.active /\ pc \in {"listen", "data"} /\ saw /\ host.off \in Nat
      /\ host.off < Update.len
  BY <1>1 DEF Underway, Ready, LinkInv, HostOK
<1>3. session.next = host.off + ChunkLen /\ ChunkLen \in Nat \ {0}
  BY <1>2, ChunkFacts DEF LinkInv, Sending, ChunkLen
<1>4. pc = "listen" /\ ~Busy
  BY <1>2, <1>3 DEF LinkInv, Sending, IInv, WriteInv, Busy
<1>5. /\ Truthful' /\ InOrder' /\ ~Acked' /\ Owed' + Coming' = Owed + Coming
  BY <1>1, <1>4, NextExchange DEF Underway
<1>6. host'.cmd = "END" => /\ session.next = session.hdr.len
                           /\ PayloadMatches(session.slot, session.hdr)
  <2> SUFFICES ASSUME host'.cmd = "END"
               PROVE  /\ session.next = session.hdr.len
                      /\ PayloadMatches(session.slot, session.hdr)
    OBVIOUS
  <2>1. session.hdr.len = Update.len /\ session.hdr.crc = Update.crc
    BY <1>2 DEF LinkInv, OnlyUpdate, IInv, SessionInv
  <2>2. session.next = Update.len
    BY <1>1, <1>2, <1>3, LastChunk DEF ChunkLen
  <2>3. Written = Update.len
    BY <1>4, <2>2 DEF Written
  <2> QED
    BY <1>2, <2>1, <2>2, <2>3 DEF PayloadMatches, LinkInv, Sending
<1>7. UNCHANGED <<pc, session, saw, data>>
  BY <1>1 DEF vars, romVars, flashVars
<1>8. Ready'
  BY <1>1, <1>2, <1>4, <1>5, <1>6, <1>7 DEF Ready, PayloadMatches
<1>9. FirstStale' => host'.tries <= Early
  BY <1>1
<1> QED
  BY <1>1, <1>2, <1>5, <1>7, <1>8, <1>9 DEF Underway

LEMMA EndAnswered ==
  ASSUME LinkInv, LinkInv', HostReceive, HostAccepted, Underway, Acked, host.cmd = "END"
  PROVE  Underway'
<1>1. /\ host'.cmd = "BOOT" /\ host'.tag = host.tag + 1 /\ ~host'.sent /\ host'.tries = 0
      /\ UNCHANGED vars /\ up # << >> /\ host.sent /\ down = NoFrame
  BY DEF HostAccepted, Advance, HostReceive
<1>2. pc = "listen" /\ saw /\ ~Busy
  BY DEF Underway, Ready, LinkInv, IInv, CommitInv, Busy
<1>3. /\ Truthful' /\ InOrder' /\ Owed' + Coming' = Owed + Coming
  BY <1>1, <1>2, NextExchange DEF Underway
<1>4. Ready' /\ saw'
  BY <1>1, <1>2 DEF Ready, vars, romVars
<1> QED
  BY <1>1, <1>3, <1>4 DEF Underway

LEMMA ReceiveKind ==
  ASSUME LinkInv, LinkInv', Patient, HostReceive, Phase PROVE Phase'
<1>1. /\ up # << >> /\ up' = Tail(up) /\ reply' = reply /\ host.sent
      /\ host.cmd \in Commands
  BY DEF HostReceive, vars, romVars, LinkInv, HostOK
<1>2. Head(up) = Answers[1] /\ 1 \in 1 .. Len(Answers) /\ Answers # << >>
  BY <1>1, ReadAnswer, AnswersAre
<1>3. CASE Answers[1].tag # host.tag
  <2>1. Underway
    BY <1>1, <1>2, <1>3 DEF Phase, Missed, Calling, Opened, FirstStale, Commands
  <2> QED
    BY <1>3, <2>1, StaleKind DEF Phase
<1>4. CASE Answers[1].tag = host.tag
  <2>1. Truthful
    BY <1>1, <1>2 DEF Phase, Missed, Calling, Opened, Underway, Commands
  <2>2. Answers[1].type = Expected(host.cmd)
    BY <1>2, <1>4, <2>1 DEF Truthful
  <2>3. HostAccepted
    BY <1>2, <1>4, <2>2 DEF HostReceive
  <2>4. host.cmd # "HELLO" => Acked
    <3>1. Answers[1] \in Reply
      BY <1>2, AnswersAre
    <3>2. host.cmd # "HELLO" => Answers[1] = [type |-> "ACK", tag |-> host.tag]
      BY <1>4, <2>2, <3>1 DEF Expected, Reply
    <3> QED
      BY <1>2, <3>2, AnswersAre
  <2>5. CASE Calling
    BY <2>3, <2>5, HelloAnswered DEF Phase
  <2>6. CASE Opened
    BY <2>3, <2>4, <2>6, BeginAnswered DEF Phase, Opened
  <2>7. CASE Underway
    <3>1. CASE host.cmd = "BOOT"
      BY <2>3, <3>1 DEF HostAccepted, Phase, LinkInv, HostOK
    <3> QED
      BY <2>3, <2>4, <2>7, <3>1, DataAnswered, EndAnswered DEF Phase, Underway, Ready
  <2> QED
    BY <1>1, <1>2, <2>5, <2>6, <2>7 DEF Phase, Missed, Commands
<1> QED
  BY <1>3, <1>4

\* A timeout comes early, or the frame was never answered.
LEMMA TimeoutKind ==
  ASSUME LinkInv, LinkInv', Patient, HostTimeout, Phase PROVE Phase'
<1>1. /\ host.sent /\ down = NoFrame /\ down' = NoFrame /\ up = << >> /\ up' = << >>
      /\ UNCHANGED vars /\ host.cmd \in Commands /\ AttemptFails
      /\ Listening \/ pc = "app" \/ (host.cmd \in Impatient /\ host.tries < Early)
  BY DEF HostTimeout, LinkInv, HostOK
<1>2. /\ UNCHANGED <<flashVars, pc, session, job, saw, reply, running>> /\ (Busy' <=> Busy)
      /\ Answers' = Answers /\ Owed' = Owed
  BY <1>1 DEF vars, romVars, Busy, Answers, Owed
<1>3. /\ Coming = 0 /\ Owed \in Nat /\ host.tries \in Nat /\ host.tag \in Nat
      /\ Len(Answers) \in Nat
      /\ Listening => Owed = 0
      /\ reply = NoReply => Answers = << >> /\ Len(Answers) = 0
      /\ Len(Answers) <= 1
  BY <1>1, AnswersAre DEF Coming, Listening, Busy, Answers, Owed
<1>4. FindValid' = FindValid /\ CurrentImage' = CurrentImage
  BY <1>2, FlashSame
<1>5. CASE Missed
  <2>1. host'.cmd \in {"HELLO", "failed"}
    BY <1>1, <1>5 DEF Missed, AttemptFails, LinkInv, HostOK, Commands
  <2> QED
    BY <1>2, <1>5, <2>1 DEF Missed, Phase, OlderImage, ImageOf
<1>6. CASE Calling
  <2>1. Listening /\ Owed = 0 /\ host.tries = 0 /\ host.cmd = "HELLO" /\ pc = "listen"
    BY <1>1, <1>3, <1>6 DEF Calling, Patient, Listening
  <2>2. host' = [host EXCEPT !.tries = @ + 1, !.sent = FALSE,
                             !.tag = IF host.cmd = "HELLO" THEN @ + 1 ELSE @]
    BY <1>1, <2>1 DEF AttemptFails, Attempts, Patient
  <2>3. host'.cmd = "HELLO" /\ host'.tries = 1 /\ ~host'.sent
    BY <2>1, <2>2 DEF LinkInv, HostOK
  <2>4. Answers' = << >> /\ Len(Answers') = 0 /\ Owed' + Coming' = 1
    BY <1>2, <1>3, <2>1, <2>3 DEF Listening, Coming
  <2>5. Truthful' /\ InOrder' /\ ~FirstStale'
    BY <1>2, <2>1, <2>4 DEF Truthful, InOrder, FirstStale, Busy
  <2>6. (FindValid # NoSlot => CurrentImage = OlderImage)'
    BY <1>4, <1>6 DEF Calling, OlderImage, ImageOf
  <2> QED
    BY <1>2, <2>1, <2>3, <2>4, <2>5, <2>6 DEF Calling, Phase
<1>7. CASE Opened
  BY <1>1, <1>3, <1>7 DEF Opened, Patient
<1>8. CASE Underway
  <2>1. /\ host.cmd \in {"DATA", "END", "BOOT"} /\ Owed # 0 /\ ~Listening
    BY <1>3, <1>8 DEF Underway, Ready
  <2>2. pc # "app"
    <3>1. pc = "app" => Acked /\ reply = NoReply
      BY <1>8 DEF Underway, Ready
    <3> QED
      BY <1>3, <3>1, AnswersAre
  <2>3. host.tries < Early /\ host.tries + 1 < Retries
    BY <1>1, <1>3, <2>1, <2>2 DEF Patient
  <2>4. host' = [host EXCEPT !.tries = @ + 1, !.sent = FALSE,
                             !.tag = IF host.cmd = "HELLO" THEN @ + 1 ELSE @]
    <3>1. host.tries + 1 # Attempts(host.cmd)
      <4>1. Attempts(host.cmd) = Retries
        BY <2>1 DEF Attempts
      <4> QED
        BY <2>3, <4>1
    <3> QED
      BY <1>1, <3>1, Zenon DEF AttemptFails
  <2>5. /\ host'.cmd = host.cmd /\ host'.tag = host.tag /\ ~host'.sent
        /\ host'.tries = host.tries + 1
    BY <2>1, <2>4 DEF LinkInv, HostOK
  <2>6. Owed' + Coming' \in {1, 2}
    <3>1. Owed <= 1
      BY <1>3, <1>8, AnswersAre DEF Underway, InOrder, Owed
    <3> QED
      BY <1>2, <1>3, <2>1, <2>5, <3>1 DEF Coming
  <2>7. Acked' <=> Acked
    BY <1>2, <2>5, AnswersAre, AnswersAreNext
  <2>8. Ready'
    BY <1>2, <1>8, <2>5, <2>7, FlashSame
       DEF Underway, Ready, PayloadMatches, SessionIsCommitted
  <2>9. Truthful' /\ InOrder'
    BY <1>2, <1>8, <2>5 DEF Underway, Truthful, InOrder, Expected
  <2>10. host'.tries <= Early /\ saw'
    BY <1>2, <1>3, <1>8, <2>3, <2>5 DEF Underway
  <2> QED
    BY <1>3, <2>5, <2>6, <2>8, <2>9, <2>10 DEF Underway, Phase
<1> QED
  BY <1>1, <1>5, <1>6, <1>7, <1>8 DEF Phase, Commands

-----------------------------------------------------------------------------
(* The device takes the frame.                                             *)

\* The frame leaves the line, for an idle ROM.
Taken ==
  /\ host' = host /\ host.sent /\ up' = up
  /\ down # NoFrame /\ down' = NoFrame
  /\ Listening /\ saw'

\* An answer at once takes the place of the frame.
LEMMA AnsweredAtOnce ==
  ASSUME LinkInv, LinkInv', Taken, Truthful, InOrder, ~Busy', UNCHANGED flashVars,
         reply' = [type |-> Expected(host.cmd), tag |-> host.tag]
  PROVE  /\ Truthful' /\ InOrder' /\ Owed' + Coming' = Owed + Coming
         /\ FirstStale' => FirstStale
         /\ host.cmd # "HELLO" => Acked'
<1>1. /\ Owed = Len(Answers) /\ Owed' = Len(Answers') /\ Coming = 1 /\ Coming' = 0
      /\ up' = up /\ reply = NoReply /\ host' = host
  BY AnswersAre, AnswersAreNext DEF Taken, Listening, Busy, Coming
<1>2. reply' # NoReply /\ reply'.tag = host.tag /\ reply'.type = Expected(host.cmd)
  BY DEF NoReply, Expected
<1>3. /\ Len(Answers') = Len(Answers) + 1 /\ Len(Answers) \in Nat
      /\ Answers'[Len(Answers) + 1] = reply'
      /\ \A i \in 1 .. Len(Answers) : Answers'[i] = Answers[i]
  BY <1>1, <1>2, NewAnswer
<1>4. \A i \in 1 .. Len(Answers') : \/ i = Len(Answers) + 1
                                    \/ i \in 1 .. Len(Answers)
  BY <1>3
<1>5. Truthful'
  BY <1>1, <1>2, <1>3, <1>4 DEF Truthful, Expected
<1>6. InOrder'
  <2>1. ASSUME NEW i \in 2 .. Len(Answers') PROVE Answers'[i].tag = host'.tag
    <3>1. i = Len(Answers) + 1 \/ i \in 2 .. Len(Answers)
      BY <1>3
    <3>2. i \in 2 .. Len(Answers) => i \in 1 .. Len(Answers)
      OBVIOUS
    <3> QED
      BY <1>1, <1>2, <1>3, <3>1, <3>2 DEF InOrder
  <2> QED
    BY <2>1 DEF InOrder
<1>7. FirstStale' => FirstStale
  <2> SUFFICES ASSUME FirstStale' PROVE FirstStale
    OBVIOUS
  <2>1. Len(Answers) # 0
    BY <1>1, <1>2, <1>3 DEF FirstStale
  <2>2. Answers'[1] = Answers[1]
    BY <1>3, <2>1
  <2> QED
    BY <1>1, <2>1, <2>2, AnswersAre DEF FirstStale
<1>8. host.cmd # "HELLO" => Acked'
  <2>1. Len(Answers) + 1 \in 1 .. Len(Answers')
    BY <1>3
  <2>2. host.cmd # "HELLO" => reply' = [type |-> "ACK", tag |-> host'.tag]
    BY <1>1 DEF Expected
  <2> QED
    BY <1>3, <2>1, <2>2, AnswersAreNext
<1>9. Owed' + Coming' = Owed + Coming
  BY <1>1, <1>3
<1> QED
  BY <1>5, <1>6, <1>7, <1>8, <1>9

\* So does the handler that goes to work.
LEMMA WorkBegun ==
  ASSUME LinkInv, LinkInv', Taken, Truthful, InOrder, Busy', reply' = reply,
         job'.tag = host.tag
  PROVE  /\ Truthful' /\ InOrder' /\ Owed' + Coming' = Owed + Coming
         /\ FirstStale' <=> FirstStale
         /\ Acked' <=> Acked
<1>1. /\ Owed = Len(Answers) /\ Owed' = Len(Answers') + 1 /\ Coming = 1 /\ Coming' = 0
      /\ Answers' = Answers /\ reply' = NoReply /\ host' = host /\ Len(Answers) \in Nat
  BY AnswersAre, AnswersAreNext DEF Taken, Listening, Busy, Coming, Answers
<1>2. Acked' <=> Acked
  BY <1>1, AnswersAre, AnswersAreNext
<1> QED
  BY <1>1, <1>2 DEF Truthful, InOrder, FirstStale, Expected

LEMMA HelloTaken ==
  ASSUME LinkInv, LinkInv', Taken, Calling, Hello(host.tag, TRUE) PROVE Calling'
<1>1. /\ reply' = [type |-> Expected(host.cmd), tag |-> host.tag] /\ UNCHANGED flashVars
      /\ pc' = "listen" /\ saw' /\ host' = host /\ ~Busy'
  BY DEF Hello, Handled, Answer, Calling, Expected, Taken, Listening, Busy
<1>2. FindValid' = FindValid /\ CurrentImage' = CurrentImage
  BY <1>1, FlashSame
<1>3. Truthful' /\ InOrder' /\ Owed' + Coming' = Owed + Coming /\ ~FirstStale'
  BY <1>1, AnsweredAtOnce DEF Calling
<1> QED
  BY <1>1, <1>2, <1>3 DEF Calling, Taken, Listening, OlderImage, ImageOf

LEMMA BeginTaken ==
  ASSUME LinkInv, LinkInv', Taken, Opened, Begin(host.tag, TRUE, Update) PROVE Opened'
<1>1. ~session.active /\ PayloadFits(Update.len)
  BY UpdateType DEF LinkInv, Opening, Opened, Taken, PayloadFits
<1>2. PICK h : Engage("erase", [Idle EXCEPT !.slot = Target, !.tag = host.tag, !.hdr = h])
  BY <1>1 DEF Begin
<1>3. /\ pc' = "erase" /\ job'.tag = host.tag /\ reply' = reply /\ session' = session
      /\ saw' /\ host' = host /\ Busy'
  BY <1>2 DEF Engage, Idle, Taken, Busy
<1>4. /\ Truthful' /\ InOrder' /\ Owed' + Coming' = Owed + Coming /\ ~FirstStale'
      /\ Acked' <=> Acked
  BY <1>3, WorkBegun DEF Opened
<1> QED
  BY <1>3, <1>4 DEF Opened

\* The chunk is the next one, or one that is written already.
LEMMA ChunkTaken ==
  ASSUME LinkInv, Listening, session.active, host.cmd = "DATA", host.sent,
         Data(host.tag, TRUE, ChunkAt(host.off))
  PROVE  \/ Handled /\ Answer("ACK", host.tag) /\ UNCHANGED <<pc, session, cache>>
         \/ Engage("data", [Idle EXCEPT !.off = ChunkAt(host.off).off,
                                        !.w = ChunkAt(host.off).w, !.tag = host.tag])
<1> DEFINE chunk == ChunkAt(host.off)
<1>1. /\ host.off \in Nat /\ host.off < Update.len /\ session.next \in Nat
      /\ session.hdr.len = Update.len
  BY DEF LinkInv, HostOK, IInv, TypeOK, Session, SessionInv, OnlyUpdate
<1>2. /\ chunk.off = host.off /\ Len(chunk.w) \in Nat \ {0}
      /\ chunk.off + Len(chunk.w) <= session.hdr.len
      /\ \A j \in 1 .. Len(chunk.w) : chunk.w[j] = Update.crc[host.off + j - 1]
  BY <1>1, ChunkFacts
<1>3. session.next \in {host.off, host.off + Len(chunk.w)}
  BY DEF LinkInv, Sending, ChunkLen
<1>4. ~(chunk.off > session.next)
  BY <1>1, <1>2, <1>3
<1>5. chunk.off < session.next => IsReplay(chunk)
  <2> SUFFICES ASSUME chunk.off < session.next PROVE IsReplay(chunk)
    OBVIOUS
  <2>1. session.next = host.off + Len(chunk.w)
    BY <1>1, <1>2, <1>3
  <2>2. ASSUME NEW j \in 1 .. Len(chunk.w)
        PROVE  data[session.slot][chunk.off + j - 1] = chunk.w[j]
    <3>1. host.off + j - 1 \in Offsets /\ host.off + j - 1 < session.next
      <4>1. Update.len <= MaxPayload
        BY UpdateType
      <4> HIDE DEF chunk
      <4> QED
        BY <1>1, <1>2, <2>1, <4>1 DEF Offsets
    <3>2. Written = session.next
      BY DEF Written, Listening
    <3>3. data[session.slot][host.off + j - 1] = Update.crc[host.off + j - 1]
      BY <3>1, <3>2 DEF LinkInv, Sending
    <3> QED
      BY <1>2, <3>3
  <2> QED
    BY <1>1, <1>2, <2>1, <2>2 DEF IsReplay
<1> HIDE DEF chunk
<1>6. /\ session.active /\ TRUE /\ Len(chunk.w) # 0
      /\ ~(chunk.off + Len(chunk.w) > session.hdr.len)
  BY <1>1, <1>2
<1>7. Data(host.tag, TRUE, chunk)
  BY DEF chunk
<1>8. \/ Handled /\ Answer("ACK", host.tag) /\ UNCHANGED <<pc, session, cache>>
      \/ Engage("data", [Idle EXCEPT !.off = chunk.off, !.w = chunk.w, !.tag = host.tag])
  BY <1>4, <1>5, <1>6, <1>7 DEF Data
<1> QED
  BY <1>8 DEF chunk

LEMMA DataTaken ==
  ASSUME LinkInv, LinkInv', Taken, Underway, host.cmd = "DATA",
         Data(host.tag, TRUE, ChunkAt(host.off))
  PROVE  Underway'
<1>1. /\ session.active /\ Listening /\ host.sent /\ saw' /\ host' = host
      /\ Truthful /\ InOrder
  BY DEF Underway, Ready, Taken
<1>2. CASE Handled /\ Answer("ACK", host.tag) /\ UNCHANGED <<pc, session, cache>>
  <2>1. /\ reply' = [type |-> Expected(host.cmd), tag |-> host.tag] /\ UNCHANGED flashVars
        /\ pc' = "listen" /\ session' = session /\ ~Busy'
    BY <1>1, <1>2 DEF Handled, Answer, Expected, Listening, Busy
  <2>2. /\ Truthful' /\ InOrder' /\ Owed' + Coming' = Owed + Coming
        /\ FirstStale' => FirstStale
    BY <1>1, <2>1, AnsweredAtOnce
  <2> QED
    BY <1>1, <2>1, <2>2 DEF Underway, Ready
<1>3. CASE Engage("data", [Idle EXCEPT !.off = ChunkAt(host.off).off,
                                       !.w = ChunkAt(host.off).w, !.tag = host.tag])
  <2>1. /\ pc' = "data" /\ job'.tag = host.tag /\ reply' = reply /\ session' = session
        /\ Busy'
    BY <1>3 DEF Engage, Idle, Busy
  <2>2. /\ Truthful' /\ InOrder' /\ Owed' + Coming' = Owed + Coming
        /\ FirstStale' <=> FirstStale
    BY <1>1, <2>1, WorkBegun
  <2> QED
    BY <1>1, <2>1, <2>2 DEF Underway, Ready
<1> QED
  BY <1>1, <1>2, <1>3, ChunkTaken

LEMMA EndTaken ==
  ASSUME LinkInv, LinkInv', Taken, Underway, host.cmd = "END", End(host.tag, TRUE)
  PROVE  Underway'
<1>1. /\ Listening /\ host.sent /\ saw' /\ host' = host /\ Truthful /\ InOrder
  BY DEF Underway, Taken
<1>2. CASE ~session.active
  <2>1. SessionIsCommitted
    BY <1>2 DEF Underway, Ready
  <2>2. Handled /\ Answer("ACK", host.tag) /\ UNCHANGED <<pc, session, cache>>
    BY <1>2, <2>1 DEF End
  <2>3. /\ reply' = [type |-> Expected(host.cmd), tag |-> host.tag] /\ UNCHANGED flashVars
        /\ pc' = "listen" /\ session' = session /\ ~Busy'
    BY <1>1, <2>2 DEF Handled, Answer, Expected, Listening, Busy
  <2>4. /\ Truthful' /\ InOrder' /\ Owed' + Coming' = Owed + Coming
        /\ FirstStale' => FirstStale
    BY <1>1, <2>3, AnsweredAtOnce
  <2>5. SessionIsCommitted'
    BY <2>1, <2>3, FlashSame DEF SessionIsCommitted
  <2> QED
    BY <1>1, <1>2, <2>3, <2>4, <2>5 DEF Underway, Ready
<1>3. CASE session.active
  <2>1. /\ ~Acked /\ session.next = session.hdr.len
        /\ PayloadMatches(session.slot, session.hdr)
    BY <1>3 DEF Underway, Ready
  <2>2. Engage("commit", [Idle EXCEPT !.tag = host.tag])
    BY <1>3, <2>1 DEF End
  <2>3. /\ pc' = "commit" /\ job'.tag = host.tag /\ reply' = reply /\ session' = session
        /\ Busy' /\ UNCHANGED flashVars
    BY <2>2 DEF Engage, Idle, Busy
  <2>4. /\ Truthful' /\ InOrder' /\ Owed' + Coming' = Owed + Coming
        /\ FirstStale' <=> FirstStale
        /\ ~Acked'
    BY <1>1, <2>1, <2>3, WorkBegun
  <2>5. PayloadMatches(session.slot, session.hdr)'
    BY <2>1, <2>3, FlashSame DEF PayloadMatches
  <2> QED
    BY <1>1, <1>3, <2>1, <2>3, <2>4, <2>5 DEF Underway, Ready
<1> QED
  BY <1>2, <1>3

LEMMA BootTaken ==
  ASSUME LinkInv, LinkInv', Taken, Underway, host.cmd = "BOOT", Boot(host.tag, TRUE)
  PROVE  Underway'
<1>1. /\ Listening /\ host.sent /\ saw' /\ host' = host /\ Truthful /\ InOrder
  BY DEF Underway, Taken
<1>2. FindValid # NoSlot
  <2>1. CurrentImage = UpdateImage
    BY DEF LinkInv, ReportedMeansCommitted
  <2>2. UpdateImage.len # NoImage.len
    BY UpdateType DEF UpdateImage, ImageOf, NoImage
  <2> QED
    BY <2>1, <2>2 DEF CurrentImage
<1>3. /\ reply' = [type |-> Expected(host.cmd), tag |-> host.tag] /\ UNCHANGED flashVars
      /\ pc' = "boot" /\ ~Busy'
  BY <1>1, <1>2 DEF Boot, Handled, Answer, Expected, Busy
<1>4. /\ Truthful' /\ InOrder' /\ Owed' + Coming' = Owed + Coming
      /\ FirstStale' => FirstStale
      /\ Acked'
  BY <1>1, <1>3, AnsweredAtOnce
<1> QED
  BY <1>1, <1>3, <1>4 DEF Underway, Ready

LEMMA ArriveKind == ASSUME LinkInv, LinkInv', Arrive, Phase PROVE Phase'
<1>1. /\ down # NoFrame /\ down' = NoFrame /\ host' = host /\ up' = up
      /\ down.cmd = host.cmd /\ down.tag = host.tag /\ down.off = host.off
      /\ host.sent
  <2>1. down.cmd # "none" /\ down' = NoFrame /\ host' = host /\ up' = up
    BY DEF Arrive
  <2>2. down # NoFrame
    BY <2>1 DEF NoFrame
  <2>3. down = [cmd |-> host.cmd, tag |-> host.tag, off |-> host.off] /\ host.sent
    BY <2>2 DEF LinkInv, LineOK
  <2> QED
    BY <2>1, <2>2, <2>3
<1>2. \/ host.cmd = "HELLO" /\ Hello(host.tag, TRUE)
      \/ host.cmd = "BEGIN" /\ Begin(host.tag, TRUE, Update)
      \/ host.cmd = "DATA"  /\ Data(host.tag, TRUE, ChunkAt(host.off))
      \/ host.cmd = "END"   /\ End(host.tag, TRUE)
      \/ host.cmd = "BOOT"  /\ Boot(host.tag, TRUE)
  BY <1>1 DEF Arrive
<1>3. Listening /\ saw'
  BY <1>2 DEF Hello, Begin, Data, End, Boot, Reject, Handled, Engage
<1>4. Taken
  BY <1>1, <1>3 DEF Taken
<1>5. ~Missed
  BY <1>3 DEF Missed, Listening
<1>6. CASE host.cmd = "HELLO" /\ Hello(host.tag, TRUE)
  BY <1>4, <1>5, <1>6, HelloTaken DEF Phase, Opened, Underway, Ready
<1>7. CASE host.cmd = "BEGIN" /\ Begin(host.tag, TRUE, Update)
  BY <1>4, <1>5, <1>7, BeginTaken DEF Phase, Calling, Underway, Ready
<1>8. CASE host.cmd \in {"DATA", "END", "BOOT"}
  <2>1. Underway
    BY <1>5, <1>8 DEF Phase, Calling, Opened
  <2> QED
    BY <1>2, <1>4, <1>8, <2>1, DataTaken, EndTaken, BootTaken DEF Phase
<1> QED
  BY <1>2, <1>6, <1>7, <1>8

-----------------------------------------------------------------------------
(* The device on its own.                                                  *)

\* A handler at work: the answer takes the place of the work.
LEMMA WorkAnswered ==
  ASSUME LinkInv, LinkInv', UNCHANGED linkVars, Busy, ~Busy', Truthful, InOrder,
         host.cmd # "HELLO", reply' = [type |-> "ACK", tag |-> job.tag]
  PROVE  /\ Truthful' /\ InOrder' /\ Owed' + Coming' = Owed + Coming
         /\ FirstStale' => FirstStale
<1>1. /\ Owed' = Len(Answers') /\ Coming' = Coming /\ Coming \in {0, 1}
      /\ up' = up /\ reply = NoReply /\ host' = host /\ job.tag = host.tag
      /\ host.tag \in Nat
  BY AnswersAre, AnswersAreNext DEF linkVars, InOrder, Coming
<1>2. reply' # NoReply /\ reply'.tag = host.tag /\ reply'.type = Expected(host.cmd)
  BY <1>1 DEF NoReply, Expected
<1>3. /\ Len(Answers') = Len(Answers) + 1 /\ Len(Answers) \in Nat
      /\ Answers'[Len(Answers) + 1] = reply'
      /\ \A i \in 1 .. Len(Answers) : Answers'[i] = Answers[i]
  BY <1>1, <1>2, NewAnswer
<1>4. Owed = Len(Answers) + 1
  BY DEF Owed
<1>5. \A i \in 1 .. Len(Answers') : \/ i = Len(Answers) + 1
                                    \/ i \in 1 .. Len(Answers)
  BY <1>3
<1>6. Truthful'
  BY <1>1, <1>2, <1>3, <1>5 DEF Truthful, Expected
<1>7. InOrder'
  <2>1. ASSUME NEW i \in 2 .. Len(Answers') PROVE Answers'[i].tag = host'.tag
    <3>1. i = Len(Answers) + 1 \/ i \in 2 .. Len(Answers)
      BY <1>3
    <3>2. i \in 2 .. Len(Answers) => i \in 1 .. Len(Answers)
      OBVIOUS
    <3> QED
      BY <1>1, <1>2, <1>3, <3>1, <3>2 DEF InOrder
  <2> QED
    BY <2>1 DEF InOrder
<1>8. FirstStale' => FirstStale
  <2> SUFFICES ASSUME FirstStale' PROVE FirstStale
    OBVIOUS
  <2>1. Len(Answers) # 0
    BY <1>1, <1>2, <1>3 DEF FirstStale
  <2>2. Answers'[1] = Answers[1]
    BY <1>3, <2>1
  <2> QED
    BY <1>1, <2>1, <2>2, AnswersAre DEF FirstStale
<1>9. Owed' + Coming' = Owed + Coming
  BY <1>1, <1>3, <1>4
<1> QED
  BY <1>6, <1>7, <1>8, <1>9

LEMMA WorkGoesOn ==
  ASSUME LinkInv, LinkInv', UNCHANGED linkVars, Busy, Busy', Truthful, InOrder,
         reply' = reply, job'.tag = job.tag
  PROVE  /\ Truthful' /\ InOrder' /\ Owed' + Coming' = Owed + Coming
         /\ FirstStale' <=> FirstStale
         /\ Acked' <=> Acked
<1>1. Answers' = Answers /\ Owed' = Owed /\ Coming' = Coming /\ host' = host
  BY DEF linkVars, Answers, Owed, Coming
<1>2. Acked' <=> Acked
  BY <1>1, AnswersAre, AnswersAreNext
<1> QED
  BY <1>1, <1>2 DEF Truthful, InOrder, FirstStale, Expected

\* Cells that take what is programmed make every handler succeed.
LEMMA EraseSucceeds ==
  ASSUME IInv, ~WeakCells, BeginErase
  PROVE  \/ Proceed("erase", [job EXCEPT !.page = @ + 1])
         \/ Proceed("header", [job EXCEPT !.page = 0])
<1>1. PICK t \in Slots : t = job.slot
  BY DEF IInv, TypeOK, Job
<1>2. PICK h \in IF job.page # 0 THEN {hdr[t]} ELSE {Blank},
           b \in IF job.page # 0 THEN {state[t]} ELSE {ERASED},
           d \in Content :
        /\ \A i \in Offsets : IF PageOf(i) # job.page THEN d[i] = data[t][i]
                                                      ELSE d[i] \subseteq {}
        /\ hdr' = [hdr EXCEPT ![t] = h]
        /\ state' = [state EXCEPT ![t] = b]
        /\ data' = [data EXCEPT ![t] = d]
  BY <1>1 DEF BeginErase, ErasePage
<1>3. hdr'[t] = h /\ state'[t] = b /\ data'[t] = d
  BY <1>2 DEF IInv, TypeOK, FlashTypeOK
<1>4. PageIsErased(job.page, hdr'[t], state'[t], data'[t])
  BY <1>2, <1>3 DEF PageIsErased
<1> QED
  BY <1>1, <1>4 DEF BeginErase

LEMMA HeaderSucceeds ==
  ASSUME IInv, ~WeakCells, BeginHeader
  PROVE  /\ Finish("ACK")
         /\ session' = [active |-> TRUE, hdr |-> job.hdr, slot |-> job.slot, next |-> 0]
<1>1. PICK t \in Slots : t = job.slot
  BY DEF IInv, TypeOK, Job
<1>2. hdr[t] = Blank /\ state[t] = ERASED
  BY <1>1 DEF BeginHeader, IInv, StageInv
<1>3. hdr' = [hdr EXCEPT ![t] = job.hdr] /\ state' = state
  BY <1>1, <1>2 DEF BeginHeader, WriteHeader
<1>4. hdr'[t] = job.hdr /\ state'[t] = ERASED
  BY <1>2, <1>3 DEF IInv, TypeOK, FlashTypeOK
<1> QED
  BY <1>1, <1>4 DEF BeginHeader

LEMMA CommitSucceeds ==
  ASSUME IInv, ~WeakCells, EndCommit
  PROVE  /\ Finish("ACK") /\ session' = [session EXCEPT !.active = FALSE]
         /\ SessionIsCommitted'
<1>1. /\ pc = "commit" /\ ProgramState(session.slot, WeakCells) /\ WeakCells \in BOOLEAN
      /\ session.active
  BY DEF EndCommit, IInv, CommitInv
<1>2. PICK t \in Slots : t = session.slot
  BY DEF IInv, TypeOK, Session
<1>3. state'[t] = COMMITTED
  <2>1. state[t] = ERASED
    BY <1>1, <1>2 DEF IInv, SessionInv
  <2>2. PICK b \in Programmed(ERASED, COMMITTED, WeakCells, StateBit) :
          state' = [state EXCEPT ![t] = b]
    BY <1>1, <1>2, <2>1 DEF ProgramState
  <2>3. b = COMMITTED
    BY <2>2 DEF Programmed, ERASED, COMMITTED
  <2> QED
    BY <2>2, <2>3 DEF IInv, TypeOK, FlashTypeOK
<1>4. Commits
  <2>1. \/ state'[session.slot] = ERASED /\ Quiet
        \/ state'[session.slot] = COMMITTED /\ Commits
    BY <1>1, CommitStep
  <2> QED
    BY <1>2, <1>3, <2>1 DEF ERASED, COMMITTED
<1>5. /\ Finish("ACK") /\ session' = [session EXCEPT !.active = FALSE]
  BY <1>2, <1>3, <1>4 DEF EndCommit, Commits
<1>6. session'.slot = session.slot /\ session'.hdr = session.hdr
  BY <1>5 DEF IInv, TypeOK, Session
<1> QED
  BY <1>4, <1>5, <1>6 DEF Commits, SessionIsCommitted

LEMMA EraseKind ==
  ASSUME LinkInv, LinkInv', ~WeakCells, UNCHANGED linkVars, BeginErase, Opened
  PROVE  Opened'
<1>1. \/ Proceed("erase", [job EXCEPT !.page = @ + 1])
      \/ Proceed("header", [job EXCEPT !.page = 0])
  BY EraseSucceeds DEF LinkInv
<1>2. /\ pc' \in {"erase", "header"} /\ job'.tag = job.tag /\ reply' = reply
      /\ session' = session /\ saw' = saw /\ host' = host /\ Busy /\ Busy'
  BY <1>1 DEF Proceed, LinkInv, IInv, TypeOK, Job, BeginErase, Busy, linkVars
<1>3. /\ Truthful' /\ InOrder' /\ Owed' + Coming' = Owed + Coming
      /\ FirstStale' <=> FirstStale
      /\ Acked' <=> Acked
  BY <1>2, WorkGoesOn DEF Opened
<1> QED
  BY <1>2, <1>3 DEF Opened

LEMMA HeaderKind ==
  ASSUME LinkInv, LinkInv', ~WeakCells, UNCHANGED linkVars, BeginHeader, Opened
  PROVE  Opened'
<1>1. /\ Finish("ACK") /\ session'.active
  BY HeaderSucceeds DEF LinkInv
<1>2. /\ pc' = "listen" /\ reply' = [type |-> "ACK", tag |-> job.tag]
      /\ saw' = saw /\ host' = host /\ Busy /\ ~Busy'
  BY <1>1 DEF Finish, Answer, BeginHeader, Busy, linkVars
<1>3. /\ Truthful' /\ InOrder' /\ Owed' + Coming' = Owed + Coming
      /\ FirstStale' => FirstStale
  BY <1>2, WorkAnswered DEF Opened
<1> QED
  BY <1>1, <1>2, <1>3 DEF Opened

LEMMA WordKind ==
  ASSUME LinkInv, LinkInv', ErasedAhead, ~WeakCells, UNCHANGED linkVars, DataWord, Underway
  PROVE  Underway'
<1>1. data'[session.slot][job.off + job.k] = job.w[job.k + 1]
  BY WordReadBack DEF LinkInv
<1>2. pc = "data" /\ Busy /\ host.cmd = "DATA" /\ session.active /\ host' = host
  BY DEF DataWord, Busy, Underway, Ready, linkVars
<1>3. CASE job.k + 1 < Len(job.w)
  <2>1. Proceed("data", [job EXCEPT !.k = @ + 1]) /\ UNCHANGED session
    BY <1>1, <1>3 DEF DataWord, Proceed
  <2>2. /\ pc' = "data" /\ job'.tag = job.tag /\ reply' = reply
        /\ session' = session /\ saw' = saw /\ Busy'
    BY <2>1 DEF Proceed, LinkInv, IInv, TypeOK, Job, Busy
  <2>3. /\ Truthful' /\ InOrder' /\ Owed' + Coming' = Owed + Coming
        /\ FirstStale' <=> FirstStale
    BY <1>2, <2>2, WorkGoesOn DEF Underway
  <2> QED
    BY <1>2, <2>2, <2>3 DEF Underway, Ready
<1>4. CASE ~(job.k + 1 < Len(job.w))
  <2>1. Finish("ACK") /\ session' = [session EXCEPT !.next = @ + Len(job.w)]
    BY <1>1, <1>4 DEF DataWord
  <2>2. /\ pc' = "listen" /\ reply' = [type |-> "ACK", tag |-> job.tag]
        /\ session'.active /\ saw' = saw /\ ~Busy'
    BY <1>2, <2>1 DEF Finish, Answer, LinkInv, IInv, TypeOK, Session, Busy
  <2>3. /\ Truthful' /\ InOrder' /\ Owed' + Coming' = Owed + Coming
        /\ FirstStale' => FirstStale
    BY <1>2, <2>2, WorkAnswered DEF Underway
  <2> QED
    BY <1>2, <2>2, <2>3 DEF Underway, Ready
<1> QED
  BY <1>3, <1>4

LEMMA CommitKind ==
  ASSUME LinkInv, LinkInv', ~WeakCells, UNCHANGED linkVars, EndCommit, Underway
  PROVE  Underway'
<1>1. /\ Finish("ACK") /\ session' = [session EXCEPT !.active = FALSE]
      /\ SessionIsCommitted'
  BY CommitSucceeds DEF LinkInv
<1>2. pc = "commit" /\ Busy /\ host.cmd = "END" /\ host' = host
  BY DEF EndCommit, Busy, Underway, Ready, linkVars
<1>3. /\ pc' = "listen" /\ reply' = [type |-> "ACK", tag |-> job.tag]
      /\ ~session'.active /\ saw' = saw /\ ~Busy'
  BY <1>1 DEF Finish, Answer, LinkInv, IInv, TypeOK, Session, Busy
<1>4. /\ Truthful' /\ InOrder' /\ Owed' + Coming' = Owed + Coming
      /\ FirstStale' => FirstStale
  BY <1>2, <1>3, WorkAnswered DEF Underway
<1> QED
  BY <1>1, <1>2, <1>3, <1>4 DEF Underway, Ready

\* Start-up, and the jump to the application after the ACK of BOOT.
LEMMA StartupKind ==
  ASSUME LinkInv, LinkInv', UNCHANGED linkVars, Startup, Phase PROVE Phase'
<1>1. /\ pc = "reset" /\ pc' = "listen" /\ UNCHANGED flashVars /\ host' = host
      /\ UNCHANGED <<job, reply, saw, up, down>> /\ ~Busy /\ ~Busy'
  BY DEF Startup, linkVars, Busy
<1>2. /\ Answers' = Answers /\ Owed' = Owed /\ Coming' = Coming
      /\ FindValid' = FindValid /\ CurrentImage' = CurrentImage
  BY <1>1, FlashSame DEF Answers, Owed, Coming
<1>3. Calling => Calling'
  BY <1>1, <1>2
     DEF Calling, Truthful, InOrder, FirstStale, Expected, OlderImage, ImageOf
<1> QED
  BY <1>1, <1>3 DEF Phase, Missed, Opened, Underway, Ready

LEMMA BootKind ==
  ASSUME LinkInv, LinkInv', UNCHANGED linkVars, BootAfterAck, Phase PROVE Phase'
<1>1. /\ pc = "boot" /\ pc' = "app" /\ reply = NoReply /\ reply' = NoReply /\ host' = host
      /\ UNCHANGED <<job, saw, up, down>> /\ ~Busy /\ ~Busy'
  BY DEF BootAfterAck, StartApplication, linkVars, Busy
<1>2. Answers' = Answers /\ Owed' = Owed /\ Coming' = Coming
  BY <1>1 DEF Answers, Owed, Coming
<1>3. Acked' <=> Acked
  BY <1>1, <1>2, AnswersAre, AnswersAreNext
<1>4. Underway => Underway'
  BY <1>1, <1>2, <1>3
     DEF Underway, Ready, Truthful, InOrder, FirstStale, Expected
<1> QED
  BY <1>1, <1>4 DEF Phase, Missed, Calling, Opened

LEMMA WorksKind ==
  ASSUME LinkInv, LinkInv', ErasedAhead, ~WeakCells, DeviceWorks, Phase PROVE Phase'
<1>1. CASE FlashSteps
  <2>1. /\ UNCHANGED linkVars
        /\ BeginErase \/ BeginHeader \/ DataWord \/ EndCommit
        /\ BeginErase => pc = "erase"
        /\ BeginHeader => pc = "header"
        /\ DataWord => pc = "data"
        /\ EndCommit => pc = "commit"
    <3>1. UNCHANGED linkVars /\ (BeginErase \/ BeginHeader \/ DataWord \/ EndCommit)
      BY <1>1 DEF DeviceWorks, FlashSteps
    <3>2. (BeginErase => pc = "erase") /\ (BeginHeader => pc = "header")
      BY DEF BeginErase, BeginHeader
    <3>3. (DataWord => pc = "data") /\ (EndCommit => pc = "commit")
      BY DEF DataWord, EndCommit
    <3> QED
      BY <3>1, <3>2, <3>3
  <2>2. CASE host.cmd = "done"
    BY <2>1, <2>2 DEF linkVars, Phase
  <2>3. CASE Opened
    BY <2>1, <2>3, EraseKind, HeaderKind DEF Opened, Phase
  <2>4. CASE Underway
    BY <2>1, <2>4, WordKind, CommitKind DEF Underway, Ready, Phase
  <2> QED
    BY <2>1, <2>2, <2>3, <2>4 DEF Phase, Missed, Calling
<1> QED
  BY <1>1, StartupKind, BootKind DEF DeviceWorks

\* Only the listening window can expire, before the host was heard.
LEMMA ExpiresKind == ASSUME LinkInv, LinkInv', WindowExpires, Phase PROVE Phase'
<1>1. /\ Listening /\ down = NoFrame /\ UNCHANGED linkVars
      /\ saw => \/ host.cmd \in Ended
                \/ host.cmd = "BEGIN" /\ host.sent /\ up = << >>
  BY DEF WindowExpires, TimeoutBoot, TimeoutSession, Window
<1>2. CASE host.cmd = "done"
  BY <1>1, <1>2 DEF linkVars, Phase
<1>3. CASE Calling
  <2>1. /\ ~session.active /\ host.cmd = "HELLO" /\ host' = host
    BY <1>1, <1>3 DEF LinkInv, Opening, Calling, linkVars
  <2>2. TimeoutBoot /\ cache.has /\ StartApplication /\ pc = "listen"
    BY <2>1 DEF WindowExpires, TimeoutBoot, TimeoutSession, Listening
  <2>3. FindValid # NoSlot /\ running' = CurrentImage
    BY <2>2, StartApplicationInv DEF LinkInv
  <2>4. CurrentImage = OlderImage
    BY <1>3, <2>3 DEF Calling
  <2>5. Answers' = << >>
    <3>1. Owed = 0
      BY <1>1, <1>3, <2>1 DEF Calling, Ended
    <3>2. Answers = << >> /\ Len(Answers) = 0
      BY <3>1, AnswersAre
    <3> QED
      BY <1>1, <2>2, <3>2 DEF StartApplication, linkVars, Answers
  <2>6. pc' = "app"
    BY <2>2 DEF StartApplication
  <2> QED
    BY <2>1, <2>3, <2>4, <2>5, <2>6 DEF Missed, OlderImage, ImageOf, Phase
<1>4. ~Missed
  BY <1>1 DEF Missed, Listening
<1>5. ~Opened
  <2> SUFFICES ASSUME Opened PROVE FALSE
    OBVIOUS
  <2>1. host.sent /\ up = << >> /\ reply = NoReply /\ pc = "listen"
    BY <1>1 DEF Opened, Ended, Listening
  <2>2. Owed = 0 /\ Coming = 0
    BY <1>1, <2>1 DEF Owed, Coming, Answers, Busy
  <2> QED
    BY <2>2 DEF Opened
<1>6. ~Underway
  BY <1>1 DEF Underway, Ready, Ended
<1> QED
  BY <1>2, <1>3, <1>4, <1>5, <1>6 DEF Phase

-----------------------------------------------------------------------------
(* The invariant, and why the host gives up.                               *)

KindInv ==
  /\ losses \in Nat /\ resets \in Nat
  /\ Unhurt => Phase

LEMMA KindInit == LinkInit => KindInv
<1>0. LinkInit => losses = 0 /\ resets = 0
  BY DEF LinkInit
<1> SUFFICES ASSUME LinkInit PROVE Calling
  BY <1>0 DEF KindInv, Phase
<1>1. /\ host.cmd = "HELLO" /\ host.tries = 0 /\ ~host.sent
      /\ pc = "reset" /\ up = << >> /\ reply = NoReply
  BY DEF LinkInit, HostInit, RomInit
<1>2. Answers = << >> /\ Len(Answers) = 0 /\ Owed = 0 /\ Coming = 1
  BY <1>1 DEF Answers, Owed, Coming, Busy
<1>3. Truthful /\ InOrder /\ ~FirstStale
  BY <1>1, <1>2 DEF Truthful, InOrder, FirstStale, Busy
<1>4. FindValid # NoSlot => CurrentImage = OlderImage
  <2> SUFFICES ASSUME FindValid # NoSlot PROVE CurrentImage = OlderImage
    OBVIOUS
  <2>1. FindValid \in Slots /\ Valid(FindValid)
    BY FindValidResult
  <2>2. PICK s \in Slots, q \in Seqs :
          Holding(s, [seq |-> q, len |-> Older.len, crc |-> Older.crc])
    BY <2>1 DEF LinkInit, FlashInit, Valid
  <2>3. FindValid = s
    BY <2>1, <2>2 DEF Holding, Valid
  <2>4. hdr[s].len = Older.len /\ data[s] = Older.crc
    BY <2>2 DEF Holding
  <2> QED
    BY <2>3, <2>4 DEF CurrentImage, OlderImage, NoSlot
<1> QED
  BY <1>1, <1>2, <1>3, <1>4 DEF Calling

LEMMA KindStep ==
  ASSUME LinkInv, LinkInv', ErasedAhead, ~WeakCells, Patient, KindInv, [LinkNext]_allVars
  PROVE  KindInv'
<1>0. /\ losses' \in Nat /\ resets' \in Nat
      /\ Unhurt' => Unhurt /\ ~FrameLost /\ ~ResponseLost /\ ~DeviceReset
  <2>1. losses \in Nat /\ resets \in Nat
    BY DEF KindInv
  <2>2. CASE FrameLost \/ ResponseLost
    BY <2>1, <2>2 DEF FrameLost, ResponseLost, Unhurt
  <2>3. CASE DeviceReset
    BY <2>1, <2>3 DEF DeviceReset, Unhurt
  <2>4. CASE ~(FrameLost \/ ResponseLost \/ DeviceReset)
    <3>1. losses' = losses /\ resets' = resets
      BY <2>4 DEF LinkNext, HostSteps, HostSend, HostReceive, HostTimeout, Arrive,
                  FrameOverrun, Respond, WindowExpires, DeviceWorks, allVars, linkVars
    <3> QED
      BY <2>1, <2>4, <3>1 DEF Unhurt
  <2> QED
    BY <2>2, <2>3, <2>4
<1> SUFFICES ASSUME Unhurt' PROVE Phase'
  BY <1>0 DEF KindInv
<1>1. Phase /\ ~FrameLost /\ ~ResponseLost /\ ~DeviceReset
  BY <1>0 DEF KindInv
<1> QED
  BY <1>1, SendKind, ReceiveKind, TimeoutKind, ArriveKind, OverrunKind, RespondKind,
     ExpiresKind, WorksKind, StutterKind DEF LinkNext, HostSteps

\* tools/omcu_flash.py exchange(): without a loss and without a reset the tool
\* gives up only if the older image was running before it was heard, however
\* many chunks there are and however the early timeouts fall, provided that it
\* makes two attempts more than timeouts can come early.
THEOREM NoFailureWithoutCause ==
  ASSUME ~WeakCells, Patient PROVE LinkSpec => []FailsOnlyForCause
<1>1. LinkInit => ErasedAhead /\ KindInv
  BY KindInit DEF LinkInit, RomInit, NoSession, ErasedAhead
<1>2. LinkInv /\ LinkInv' /\ ErasedAhead /\ KindInv /\ [LinkNext]_allVars
        => ErasedAhead' /\ KindInv'
  BY LinkIsRom, StepErased, KindStep DEF LinkInv
<1>3. LinkInv /\ KindInv => FailsOnlyForCause
  <2> SUFFICES ASSUME LinkInv, KindInv, host.cmd = "failed", ~(losses > 0), ~(resets > 0)
               PROVE  running = ImageOf(Older.len, Older.crc)
    BY DEF FailsOnlyForCause
  <2>1. Unhurt
    BY DEF KindInv, Unhurt
  <2> QED
    BY <2>1 DEF KindInv, Phase, Missed, Calling, Opened, Underway, Ready, OlderImage
<1> QED
  BY <1>1, <1>2, <1>3, LinkInductive, PTL DEF LinkSpec
=============================================================================
