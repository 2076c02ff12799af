------------------------------- MODULE Divider -------------------------------
(***************************************************************************)
(* The RV32M divider (omcu_pcpi_divider.sv): one step of a restoring       *)
(* division per clock, and the PCPI handshake with PicoRV32, which keeps   *)
(* the instruction and its operands until it sees the answer.              *)
(*                                                                         *)
(* A word is a number below Modulus.  bit_index_q is represented by the    *)
(* weight of the bit it points at, so that it is halved and not lowered.   *)
(***************************************************************************)
EXTENDS Integers

CONSTANTS
  Half,       \* the weight of the sign bit; 2^31 in the product
  Weights     \* the weights of all bits

ASSUME WeightsAssumption ==
  /\ Weights \subseteq Nat \ {0}
  /\ 1 \in Weights /\ Half \in Weights
  /\ \A w \in Weights : w = 1 \/ (w % 2 = 0 /\ w \div 2 \in Weights)

VARIABLES
  valid,      \* pcpi_valid: the CPU waits for a coprocessor
  insn,       \* what it asks for
  rs1, rs2,   \* the operands
  running,    \* running_q
  completed,  \* completed_q
  ready,      \* pcpi_ready_o and pcpi_wr_o
  rd,         \* pcpi_rd_o
  dividend, divisor, quotient, remainder,
  bit,        \* the weight of bit_index_q
  negQuotient, negRemainder

cpu  == <<valid, insn, rs1, rs2>>
work == <<dividend, divisor, quotient, remainder, bit, negQuotient, negRemainder>>
vars == <<cpu, running, completed, ready, rd, work>>

Modulus   == 2 * Half
Words     == 0 .. Modulus - 1
Divisions == {"DIV", "DIVU", "REM", "REMU"}
Other     == "other"                \* an instruction of another coprocessor
Signed    == {"DIV", "REM"}
Quotients == {"DIV", "DIVU"}

Init ==
  /\ valid = FALSE /\ insn = Other /\ rs1 = 0 /\ rs2 = 0
  /\ running = FALSE /\ completed = FALSE /\ ready = FALSE /\ rd = 0
  /\ dividend = 0 /\ divisor = 0 /\ quotient = 0 /\ remainder = 0 /\ bit = 1
  /\ negQuotient = FALSE /\ negRemainder = FALSE

-----------------------------------------------------------------------------
(* The datapath.                                                           *)

Negative(x) == x >= Half

Negated(x)  == (Modulus - x) % Modulus
Magnitude(x) == IF insn \in Signed /\ Negative(x) THEN Negated(x) ELSE x

\* One bit of the dividend moves into the remainder.
Trial         == 2 * (remainder % Modulus) + ((dividend \div bit) % 2)

\* Mutant: the divisor itself does not fit.
TrialExceeds == Trial > divisor

TrialFits     == Trial >= divisor
RemainderNext == IF TrialFits THEN Trial - divisor ELSE Trial
QuotientNext  == IF TrialFits THEN quotient + bit ELSE quotient

-----------------------------------------------------------------------------
(* A clock edge of the divider.                                            *)

Claims  == valid /\ insn \in Divisions
Waits   == Claims /\ ~ready /\ ~completed         \* pcpi_wait_o

Unclaimed ==
  /\ ~Claims
  /\ running' = FALSE /\ completed' = FALSE /\ ready' = FALSE
  /\ UNCHANGED <<rd, work>>

ByZero ==
  /\ Claims /\ ~running /\ ~completed /\ rs2 = 0
  /\ rd' = IF insn \in Quotients THEN Modulus - 1 ELSE rs1
  /\ ready' = TRUE /\ completed' = TRUE
  /\ UNCHANGED <<running, work>>

Load ==
  /\ Claims /\ ~running /\ ~completed /\ rs2 # 0
  /\ running' = TRUE /\ ready' = FALSE
  /\ dividend' = Magnitude(rs1)
  /\ divisor' = Magnitude(rs2)
  /\ quotient' = 0 /\ remainder' = 0 /\ bit' = Half
  /\ negQuotient' = (insn = "DIV" /\ ~(Negative(rs1) <=> Negative(rs2)))
  /\ negRemainder' = (insn = "REM" /\ Negative(rs1))
  /\ UNCHANGED <<completed, rd>>

Step ==
  /\ Claims /\ running /\ bit # 1
  /\ remainder' = RemainderNext
  /\ quotient' = QuotientNext
  /\ bit' = bit \div 2
  /\ ready' = FALSE
  /\ UNCHANGED <<running, completed, rd, dividend, divisor, negQuotient, negRemainder>>

Last ==
  /\ Claims /\ running /\ bit = 1
  /\ running' = FALSE /\ completed' = TRUE /\ ready' = TRUE
  /\ rd' = IF insn \in Quotients
             THEN IF negQuotient THEN Negated(QuotientNext) ELSE QuotientNext
             ELSE IF negRemainder THEN Negated(RemainderNext)
                                  ELSE RemainderNext % Modulus
  /\ UNCHANGED work

\* The clock in which the CPU takes the answer.
HandOff ==
  /\ Claims /\ ~running /\ completed
  /\ ready' = FALSE
  /\ UNCHANGED <<running, completed, rd, work>>

Coprocessor == Unclaimed \/ ByZero \/ Load \/ Step \/ Last \/ HandOff

-----------------------------------------------------------------------------
(* A clock edge of the CPU.                                                *)

Ask ==
  /\ ~valid /\ valid' = TRUE
  /\ insn' \in Divisions \cup {Other}
  /\ rs1' \in Words /\ rs2' \in Words

\* It drops PCPI_VALID for at least one clock; the answer to another
\* instruction comes from elsewhere, at any time.  What the operand lines carry
\* while it does not ask is of no interest.
Take ==
  /\ valid /\ (ready \/ insn = Other)
  /\ valid' = FALSE
  /\ insn' = Other /\ rs1' = 0 /\ rs2' = 0

Stay ==
  /\ valid => ~ready
  /\ UNCHANGED cpu

Clock == Coprocessor /\ (Ask \/ Take \/ Stay)

\* rst_ni clears the CPU and the divider together.
Reset ==
  /\ valid' = FALSE /\ insn' = Other /\ rs1' = 0 /\ rs2' = 0
  /\ running' = FALSE /\ completed' = FALSE /\ ready' = FALSE /\ rd' = 0
  /\ dividend' = 0 /\ divisor' = 0 /\ quotient' = 0 /\ remainder' = 0 /\ bit' = 1
  /\ negQuotient' = FALSE /\ negRemainder' = FALSE

Next == Clock \/ Reset

Spec == Init /\ [][Next]_vars

-----------------------------------------------------------------------------
(* Properties.                                                             *)

TypeOK ==
  /\ valid \in BOOLEAN /\ insn \in Divisions \cup {Other}
  /\ rs1 \in Words /\ rs2 \in Words
  /\ running \in BOOLEAN /\ completed \in BOOLEAN /\ ready \in BOOLEAN
  /\ rd \in Words
  /\ dividend \in Words /\ divisor \in Words
  /\ quotient \in Words /\ remainder \in Words
  /\ bit \in Weights
  /\ negQuotient \in BOOLEAN /\ negRemainder \in BOOLEAN

\* Division of the integers a by b, rounded towards zero.
IsDivision(a, b, q, r) ==
  /\ a = q * b + r
  /\ (-b < r /\ r < b) \/ (b < r /\ r < -b)
  /\ r = 0 \/ (r < 0 <=> a < 0)

SignedValue(x) == IF Negative(x) THEN x - Modulus ELSE x
ValueOf(op, x) == IF op \in Signed THEN SignedValue(x) ELSE x

\* What RV32M asks for, division by zero and the signed overflow included.
RightAnswer(op, a, b, x) ==
  IF b = 0 THEN x = IF op \in Quotients THEN Modulus - 1 ELSE a
  ELSE \E q, r \in -Modulus .. Modulus :
         /\ IsDivision(ValueOf(op, a), ValueOf(op, b), q, r)
         /\ x = (IF op \in Quotients THEN q ELSE r) % Modulus

\* Whenever the divider answers, the CPU is waiting for it and the word it
\* writes back is what RV32M defines for the operands the CPU still holds
\* (omcu_pcpi_divider.sv: a claimed instruction has a single response cycle).
AnswerIsRight == ready => Claims /\ RightAnswer(insn, rs1, rs2, rd)

\* A division is claimed in every clock until its answer: the flag of the last
\* instruction is never left over (completed_q closes the handoff window).
StaysClaimed == Claims => ready \/ Waits
=============================================================================
