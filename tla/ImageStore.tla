----------------------------- MODULE ImageStore -----------------------------
(***************************************************************************)
(* What the field-update path of OpenMCU promises, without slots, pages,   *)
(* headers or frames.  The device holds at most one current image.  A host *)
(* may offer a complete image; the offer is either abandoned or becomes    *)
(* the current image in one indivisible step; and the only image that ever *)
(* runs is the current one.  A reset or a power failure abandons what was  *)
(* under way and never changes what is current.                            *)
(***************************************************************************)

CONSTANTS
  Image,     \* the set of complete application images
  NoImage    \* no image: a blank device, nothing offered, nothing running

VARIABLES
  current,   \* the image a reset would boot
  offered,   \* the image whose transfer is in progress
  running    \* the image the CPU executes

vars == <<current, offered, running>>

MaybeImage == Image \cup {NoImage}

TypeOK ==
  /\ current \in MaybeImage
  /\ offered \in MaybeImage
  /\ running \in MaybeImage

Init ==
  /\ current \in MaybeImage
  /\ offered = NoImage
  /\ running = NoImage

Offer(img) ==
  /\ running = NoImage
  /\ offered = NoImage
  /\ offered' = img
  /\ UNCHANGED <<current, running>>

\* The single commit point: all of the offered image, or nothing of it.
Commit ==
  /\ offered # NoImage
  /\ current' = offered
  /\ offered' = NoImage
  /\ UNCHANGED running

Start ==
  /\ current # NoImage
  /\ running = NoImage
  /\ running' = current
  /\ UNCHANGED <<current, offered>>

\* A reset, a power failure, or a transfer given up.
Abandon ==
  /\ offered' = NoImage
  /\ running' = NoImage
  /\ UNCHANGED current

Next ==
  \/ \E img \in Image : Offer(img)
  \/ Commit
  \/ Start
  \/ Abandon

Spec == Init /\ [][Next]_vars
=============================================================================
