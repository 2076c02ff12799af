------------------------------ MODULE FlashStore ------------------------------
(***************************************************************************)
(* What the User Flash window promises to the program: an access is        *)
(* performed once, between its start and its answer; a refused one is      *)
(* answered with an error and changes nothing; and a reset during an       *)
(* access may leave it half done, but touches only the words it was about. *)
(***************************************************************************)
EXTENDS Integers

CONSTANTS
  Bit,         \* the bits of a word
  FlashWords,  \* the number of words; none in a build without a User Flash
  PageWords,   \* words of an erase page
  Access,      \* what a program can ask for; see Kind
  NoAccess

Index == 0 .. FlashWords - 1
Word  == SUBSET Bit

VARIABLES
  cells,       \* the contents of the flash
  op,          \* the access under way
  applied,     \* whether it has been performed
  reply        \* its answer, if the CPU is offered one

vars == <<cells, op, applied, reply>>

\* An access of the word with the lane of its first byte and its byte strobes.
Kind(a) ==
  IF a.word \notin Index THEN "refused"
  ELSE IF a.strobe = "none" THEN "read"
  ELSE IF a.strobe = "word" /\ a.aligned THEN "program"
  ELSE IF a.strobe = "byte0" THEN "erase"
  ELSE "refused"

Page(a) == {i \in Index : i \div PageWords = a.word \div PageWords}

\* The words after access a: programming adds bits, erasing empties a page.
After(a) ==
  IF Kind(a) = "program" THEN [cells EXCEPT ![a.word] = @ \cup a.data]
  ELSE IF Kind(a) = "erase" THEN [i \in Index |-> IF i \in Page(a) THEN {} ELSE cells[i]]
  ELSE cells

\* What may be left when it is cut short.
Partly(a) ==
  IF Kind(a) = "program"
    THEN {[cells EXCEPT ![a.word] = @ \cup b] : b \in SUBSET a.data}
  ELSE IF Kind(a) = "erase"
    THEN {c \in [Index -> Word] : \A i \in Index :
            IF i \in Page(a) THEN c[i] \subseteq cells[i] ELSE c[i] = cells[i]}
  ELSE {cells}

None == [error |-> FALSE, data |-> {}, offered |-> FALSE]

Answer(a) ==
  [error |-> Kind(a) = "refused",
   data |-> IF Kind(a) = "read" THEN cells[a.word] ELSE {},
   offered |-> TRUE]

TypeOK ==
  /\ cells \in [Index -> Word]
  /\ op \in Access \cup {NoAccess}
  /\ applied \in BOOLEAN
  /\ reply \in [error : BOOLEAN, data : Word, offered : BOOLEAN]

Init ==
  /\ cells \in [Index -> Word]
  /\ op = NoAccess /\ applied = FALSE /\ reply = None

Start ==
  /\ op = NoAccess
  /\ op' \in Access
  /\ UNCHANGED <<cells, applied, reply>>

Perform ==
  /\ op # NoAccess /\ ~applied
  /\ cells' = After(op) /\ applied' = TRUE
  /\ UNCHANGED <<op, reply>>

Offer ==
  /\ op # NoAccess /\ reply = None
  /\ cells' = IF applied THEN cells ELSE After(op)
  /\ applied' = TRUE /\ reply' = Answer(op)
  /\ UNCHANGED op

Take ==
  /\ reply # None
  /\ op' = NoAccess /\ applied' = FALSE /\ reply' = None
  /\ UNCHANGED cells

Cut ==
  /\ cells' \in IF op = NoAccess \/ applied THEN {cells} ELSE Partly(op)
  /\ op' = NoAccess /\ applied' = FALSE /\ reply' = None

Next == Start \/ Perform \/ Offer \/ Take \/ Cut

Spec == Init /\ [][Next]_vars
=============================================================================
