----------------------------- MODULE ImageSlots -----------------------------
(***************************************************************************)
(* The User Flash as the boot ROM uses it: two image slots, each a header, *)
(* a STATE word and payload words, laid out over erase pages.  A word is   *)
(* the set of its one-bits: erasing a page empties every word in it, and   *)
(* programming a word adds bits to it and can never take one away.         *)
(*                                                                         *)
(* An interrupted or a weak operation leaves any intermediate set of bits. *)
(* The header words are one cell here: their own CRC-32 tells a complete   *)
(* header from a torn one.  A CRC-32 over the payload is represented by    *)
(* the payload it was computed from (no collisions).                       *)
(***************************************************************************)
EXTENDS Integers

CONSTANTS
  Bit,          \* the bits of one payload word
  MaxPayload,   \* payload words a slot can hold  (OMCU_IMAGE_PAYLOAD_MAX_BYTES)
  HeaderWords,  \* words of the header, STATE included  (OMCU_IMAGE_HEADER_BYTES)
  PageWords,    \* words of an erase page  (OMCU_USER_FLASH_PAGE_BYTES)
  HalfSeq,      \* half the range of a sequence number; 2^31 in the product
  Blank,        \* a header whose words are all erased
  Torn          \* any other header that fails its checks

Word    == SUBSET Bit
Offsets == 0 .. MaxPayload - 1
Content == [Offsets -> Word]
Seqs    == 0 .. 2 * HalfSeq - 1
Header  == [seq : Seqs, len : 1 .. MaxPayload, crc : Content]

ASSUME GeometryAssumption ==
  /\ MaxPayload \in Nat \ {0}
  /\ HeaderWords \in Nat \ {0}
  /\ PageWords \in Nat \ {0}
  /\ HeaderWords <= PageWords
  /\ HalfSeq \in Nat \ {0, 1}

ASSUME HeaderAssumption ==
  /\ Blank \notin Header
  /\ Torn \notin Header
  /\ Blank # Torn

VARIABLES
  hdr,    \* hdr[s]: Blank, Torn, or the header programmed into slot s
  state,  \* state[s]: the bits of the STATE word of slot s
  data    \* data[s]: the payload words of slot s

flashVars == <<hdr, state, data>>

Slots  == {0, 1}
NoSlot == 2

\* OMCU_IMAGE_STATE_*: bit 0 is STAGING, bit 1 is COMMITTED.
StateBit  == {0, 1}
ERASED    == {}
COMMITTED == {1}

FlashTypeOK ==
  /\ hdr \in [Slots -> Header \cup {Blank, Torn}]
  /\ state \in [Slots -> SUBSET StateBit]
  /\ data \in [Slots -> Content]

FlashInit ==
  /\ hdr = [s \in Slots |-> Blank]
  /\ state = [s \in Slots |-> ERASED]
  /\ data = [s \in Slots |-> [i \in Offsets |-> {}]]

-----------------------------------------------------------------------------
(* The catalogue of images.                                                *)

\* omcu_boot_payload_crc32 compared with the CRC recorded in header h.
PayloadMatches(s, h) == \A i \in Offsets : i < h.len => data[s][i] = h.crc[i]

Valid(s) ==
  /\ hdr[s] \notin {Blank, Torn}
  /\ state[s] = COMMITTED
  /\ PayloadMatches(s, hdr[s])

\* (int32_t)(candidate - current) > 0
IsNewer(candidate, now) ==
  LET d == IF candidate >= now THEN candidate - now
                               ELSE candidate - now + 2 * HalfSeq
  IN  0 < d /\ d < HalfSeq

NextSeq(q) == IF q = 2 * HalfSeq - 1 THEN 0 ELSE q + 1

\* Slot A is scanned first; slot B replaces it only if strictly newer.
FindValid ==
  IF Valid(1) /\ (Valid(0) => IsNewer(hdr[1].seq, hdr[0].seq)) THEN 1
  ELSE IF Valid(0) THEN 0
  ELSE NoSlot

-----------------------------------------------------------------------------
(* Flash operations.  `loose' tells whether the operation may stop short.  *)

PageOf(i) == (HeaderWords + i) \div PageWords

ErasePages(len) == (HeaderWords + len + PageWords - 1) \div PageWords

\* What may be left of header h when an erase stops short.
Remains(h) == IF h = Blank THEN {Blank} ELSE {h, Torn, Blank}

ErasePage(s, p, loose) ==
  \E h \in IF p # 0 THEN {hdr[s]} ELSE IF loose THEN Remains(hdr[s]) ELSE {Blank},
     b \in IF p # 0 THEN {state[s]} ELSE IF loose THEN SUBSET state[s] ELSE {ERASED},
     d \in Content :
    /\ \A i \in Offsets :
         IF PageOf(i) # p THEN d[i] = data[s][i]
         ELSE d[i] \subseteq (IF loose THEN data[s][i] ELSE {})
    /\ hdr' = [hdr EXCEPT ![s] = h]
    /\ state' = [state EXCEPT ![s] = b]
    /\ data' = [data EXCEPT ![s] = d]

\* The page p of a slot that holds header h, STATE b and payload d.
PageIsErased(p, h, b, d) ==
  /\ p = 0 => h = Blank /\ b = ERASED
  /\ \A i \in Offsets : PageOf(i) = p => d[i] = {}

\* Every word but STATE is written once; a cut-off write is no valid header.
WriteHeader(s, h, loose) ==
  /\ \E result \in IF hdr[s] # Blank THEN {Torn}
                   ELSE IF loose THEN {Blank, Torn, h} ELSE {h} :
       hdr' = [hdr EXCEPT ![s] = result]
  /\ UNCHANGED <<state, data>>

\* Programming can only add the bits of w to a word that held old.
Programmed(old, w, loose, bits) ==
  IF loose THEN {v \in SUBSET bits : old \subseteq v /\ v \subseteq old \cup w}
           ELSE {old \cup w}

ProgramWord(s, i, w, loose) ==
  /\ \E v \in Programmed(data[s][i], w, loose, Bit) :
       data' = [data EXCEPT ![s] = [@ EXCEPT ![i] = v]]
  /\ UNCHANGED <<hdr, state>>

ProgramState(s, loose) ==
  /\ \E b \in Programmed(state[s], COMMITTED, loose, StateBit) :
       state' = [state EXCEPT ![s] = b]
  /\ UNCHANGED <<hdr, data>>
=============================================================================
