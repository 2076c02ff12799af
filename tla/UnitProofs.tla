----------------------------- MODULE UnitProofs -----------------------------
(***************************************************************************)
(* Three units of the chip.  The divider computes RV32M division for every *)
(* width of a word.  TIMER1 is on time, follows its shaft and times its    *)
(* edges, for every setting, filter and width of its counters.  The User   *)
(* Flash controller is a FlashStore and keeps the timing of the            *)
(* primitive's pins for every spacing of the boundaries.                   *)
(***************************************************************************)
EXTENDS Divider, UserFlash, Timer1, TLAPS, SequenceTheorems

-----------------------------------------------------------------------------
(* The divider.                                                            *)

\* The answer is given once, to the instruction that is still claimed.
Handshake ==
  /\ running => Claims /\ ~completed /\ ~ready /\ rs2 # 0
  /\ ready => Claims /\ completed
  /\ completed /\ Claims => ready

\* What was loaded belongs to the instruction the CPU holds.
OperandsLoaded ==
  running =>
    /\ dividend = Magnitude(rs1)
    /\ divisor = Magnitude(rs2)
    /\ negQuotient <=> insn = "DIV" /\ ~(Negative(rs1) <=> Negative(rs2))
    /\ negRemainder <=> insn = "REM" /\ Negative(rs1)

\* The bits of the dividend above 2 * bit are divided; those below are not yet.
PartlyDivided ==
  running =>
    /\ remainder < divisor
    /\ dividend = quotient * divisor + remainder * (2 * bit) + (dividend % (2 * bit))

DInv == TypeOK /\ Handshake /\ OperandsLoaded /\ PartlyDivided
             /\ (ready => RightAnswer(insn, rs1, rs2, rd))

-----------------------------------------------------------------------------
(* Arithmetic.                                                             *)

\* Every bit has a weight of at least one, and a word has at least two values.
LEMMA WordBounds ==
  /\ Half \in Nat \ {0}
  /\ Modulus \in Nat \ {0} /\ Modulus = 2 * Half
  /\ \A w \in Weights : w \in Nat \ {0}
  BY WeightsAssumption DEF Modulus

\* A quotient and a remainder that fit are the quotient and the remainder.
LEMMA RemainderIsUnique ==
  ASSUME NEW j \in Nat, NEW m \in Nat \ {0}, NEW s \in Nat, s < m
  PROVE  (j * m + s) % m = s
  BY SMT

\* The next bit of a number: what is below 2 * w splits at w.
LEMMA BitSplit ==
  ASSUME NEW n \in Nat, NEW w \in Nat \ {0}
  PROVE  /\ (n \div w) % 2 \in {0, 1}
         /\ n % w \in Nat /\ n % w < w
         /\ n % (2 * w) = ((n \div w) % 2) * w + (n % w)
  <1> DEFINE k == n \div w
             b == k % 2
             j == k \div 2
             s == n % w
  <1>1. k \in Nat /\ s \in Nat /\ s < w /\ n = k * w + s
    BY SMT
  <1>2. j \in Nat /\ b \in {0, 1} /\ k = 2 * j + b
    BY <1>1, SMT
  <1> HIDE DEF k, b, j, s
  <1>3. n = j * (2 * w) + (b * w + s)
    BY <1>1, <1>2, SMT
  <1>4. b * w + s \in Nat /\ b * w + s < 2 * w
    BY <1>1, <1>2, SMT
  <1>5. (j * (2 * w) + (b * w + s)) % (2 * w) = b * w + s
    <2>1. 2 * w \in Nat \ {0}
      BY SMT
    <2> QED BY <1>2, <1>4, <2>1, RemainderIsUnique, Zenon
  <1> QED BY <1>1, <1>2, <1>3, <1>5 DEF k, b, s

\* A partial result never exceeds the dividend.
LEMMA PartIsSmall ==
  ASSUME NEW n \in Nat, NEW d \in Nat \ {0}, NEW q \in Nat, NEW r \in Nat,
         NEW w \in Nat \ {0}, NEW s \in Nat, n = q * d + r * w + s
  PROVE  q <= n /\ r <= n
  BY SMT

\* Negating a word is negating its value, and a word is its own remainder.
LEMMA Residues ==
  ASSUME NEW x \in Words
  PROVE  /\ x % Modulus = x /\ Negated(x) \in Words
         /\ Negated(x) = (-x) % Modulus
         /\ x # 0 => Negated(x) = Modulus - x
  <1> DEFINE m == Modulus
  <1>1. m \in Nat \ {0} /\ x \in Nat /\ x < m
    BY WordBounds DEF Words
  <1>2. m % m = 0 /\ 0 % m = 0 /\ x % m = x
    BY <1>1, SMT
  <1>3. x # 0 => (m - x) % m = m - x /\ (-x) % m = m - x
    BY <1>1, SMT
  <1> QED BY <1>1, <1>2, <1>3 DEF Words, Negated

\* The magnitude of an operand is the absolute value RV32M gives it.
LEMMA MagnitudeIsAbsolute ==
  ASSUME NEW x \in Words, insn \in Divisions
  PROVE  /\ Magnitude(x) \in Words
         /\ x # 0 => Magnitude(x) # 0
         /\ ValueOf(insn, x) \in Int
         /\ ValueOf(insn, x) < 0 <=> insn \in Signed /\ Negative(x)
         /\ Magnitude(x) = IF ValueOf(insn, x) < 0 THEN -ValueOf(insn, x)
                                                  ELSE ValueOf(insn, x)
  BY WordBounds, Residues
  DEF Magnitude, ValueOf, SignedValue, Negative, Words

\* The signs RV32M gives to the quotient and to the remainder.
LEMMA SignsAreRight ==
  ASSUME NEW a \in Int, NEW b \in Int, b # 0,
         NEW q \in Nat, NEW r \in Nat,
         r < (IF b < 0 THEN -b ELSE b),
         (IF a < 0 THEN -a ELSE a) = q * (IF b < 0 THEN -b ELSE b) + r
  PROVE  IsDivision(a, b, IF ~(a < 0 <=> b < 0) THEN -q ELSE q,
                          IF a < 0 THEN -r ELSE r)
  <1>1. CASE a < 0 /\ b < 0
    BY <1>1, SMT DEF IsDivision
  <1>2. CASE a < 0 /\ ~(b < 0)
    BY <1>2, SMT DEF IsDivision
  <1>3. CASE ~(a < 0) /\ b < 0
    BY <1>3, SMT DEF IsDivision
  <1>4. CASE ~(a < 0) /\ ~(b < 0)
    BY <1>4, SMT DEF IsDivision
  <1> QED BY <1>1, <1>2, <1>3, <1>4

\* What the last step writes back from a finished division of the magnitudes.
LEMMA WriteBackIsRight ==
  ASSUME insn \in Divisions, rs1 \in Words, rs2 \in Words, rs2 # 0,
         NEW q \in Nat, NEW r \in Nat, r < Magnitude(rs2),
         Magnitude(rs1) = q * Magnitude(rs2) + r,
         NEW nq \in BOOLEAN, nq <=> insn = "DIV" /\ ~(Negative(rs1) <=> Negative(rs2)),
         NEW nr \in BOOLEAN, nr <=> insn = "REM" /\ Negative(rs1)
  PROVE  /\ q \in Words /\ r \in Words
         /\ insn \in Quotients =>
              RightAnswer(insn, rs1, rs2, IF nq THEN Negated(q) ELSE q)
         /\ insn \notin Quotients =>
              RightAnswer(insn, rs1, rs2, IF nr THEN Negated(r) ELSE r % Modulus)
  <1> DEFINE a == ValueOf(insn, rs1)
             b == ValueOf(insn, rs2)
             qs == IF ~(a < 0 <=> b < 0) THEN -q ELSE q
             rs == IF a < 0 THEN -r ELSE r
  <1>1. /\ Magnitude(rs1) \in Words /\ Magnitude(rs2) \in Words /\ Magnitude(rs2) # 0
        /\ a \in Int /\ b \in Int
        /\ a < 0 <=> insn \in Signed /\ Negative(rs1)
        /\ b < 0 <=> insn \in Signed /\ Negative(rs2)
        /\ Magnitude(rs1) = (IF a < 0 THEN -a ELSE a)
        /\ Magnitude(rs2) = (IF b < 0 THEN -b ELSE b)
    BY MagnitudeIsAbsolute
  <1>2. q <= Magnitude(rs1) /\ r < Magnitude(rs2)
    <2>1. Magnitude(rs1) \in Nat /\ Magnitude(rs2) \in Nat \ {0}
      BY <1>1, WordBounds DEF Words
    <2>2. Magnitude(rs1) = q * Magnitude(rs2) + r * 1 + 0
      BY <2>1
    <2> QED BY <2>1, <2>2, PartIsSmall
  <1>3. q \in Words /\ r \in Words
    BY <1>1, <1>2, WordBounds DEF Words
  <1>4. b # 0
    BY <1>1
  <1> HIDE DEF a, b
  <1>5. IsDivision(a, b, qs, rs)
    BY <1>1, <1>2, <1>4, SignsAreRight
  <1>6. qs \in -Modulus .. Modulus /\ rs \in -Modulus .. Modulus
    BY <1>3, WordBounds DEF Words
  <1>7. insn \in Quotients => (IF nq THEN Negated(q) ELSE q) = qs % Modulus
    <2>1. ASSUME insn \in Quotients PROVE nq <=> ~(a < 0 <=> b < 0)
      <3>1. CASE insn = "DIV"
        BY <3>1, <1>1, Zenon DEF Signed
      <3>2. CASE insn = "DIVU"
        BY <3>2, <1>1 DEF Signed
      <3> QED BY <2>1, <3>1, <3>2 DEF Quotients
    <2>2. -q \in Int /\ Negated(q) = (-q) % Modulus /\ q = q % Modulus
      BY <1>3, Residues
    <2> QED BY <2>1, <2>2 DEF qs
  <1>8. insn \notin Quotients => (IF nr THEN Negated(r) ELSE r % Modulus) = rs % Modulus
    BY <1>1, <1>3, Residues DEF Quotients, Signed, Divisions
  <1> HIDE DEF qs, rs
  <1> QED BY <1>3, <1>5, <1>6, <1>7, <1>8 DEF RightAnswer, a, b

-----------------------------------------------------------------------------
(* The invariant.                                                          *)

\* After a reset nothing is claimed.
LEMMA InitInv == Init => DInv
  <1> SUFFICES ASSUME Init PROVE DInv
    OBVIOUS
  <1>1. 0 \in Words
    BY WordBounds DEF Words
  <1> QED BY <1>1, WeightsAssumption DEF Init, DInv, TypeOK, Handshake, OperandsLoaded,
             PartlyDivided, Claims, Divisions, Other

\* One step of the division, as the registers make it.
LEMMA StepKeepsDivision ==
  ASSUME DInv, running
  PROVE  /\ RemainderNext \in Words /\ RemainderNext < divisor
         /\ QuotientNext \in Words
         /\ dividend = QuotientNext * divisor + RemainderNext * bit + (dividend % bit)
  <1>1. /\ dividend \in Nat /\ divisor \in Nat \ {0} /\ quotient \in Nat
        /\ remainder \in Words /\ remainder \in Nat /\ remainder < divisor
        /\ bit \in Nat \ {0} /\ dividend \in Words /\ divisor \in Words
        /\ dividend = quotient * divisor + remainder * (2 * bit) + (dividend % (2 * bit))
    BY WordBounds DEF DInv, TypeOK, PartlyDivided, Words
  <1>2. Trial = 2 * remainder + ((dividend \div bit) % 2)
    BY <1>1, Residues DEF Trial
  <1> DEFINE b == (dividend \div bit) % 2
             s == dividend % bit
  <1>3. b \in {0, 1} /\ s \in Nat /\ dividend % (2 * bit) = b * bit + s
    BY <1>1, BitSplit
  <1>4. Trial = 2 * remainder + b
    BY <1>2
  <1> HIDE DEF b, s
  <1>5. Trial \in Nat /\ dividend = quotient * divisor + Trial * bit + s
    <2>1. dividend = quotient * divisor + remainder * (2 * bit) + (b * bit + s)
      BY <1>1, <1>3
    <2> QED BY <1>1, <1>3, <1>4, <2>1, SMT
  <1>6. (quotient + bit) * divisor + (Trial - divisor) * bit = quotient * divisor + Trial * bit
    BY <1>1, <1>5, SMT
  <1>7. Trial < 2 * divisor
    BY <1>1, <1>3, <1>4, SMT
  <1>8. /\ RemainderNext \in Nat /\ RemainderNext < divisor /\ QuotientNext \in Nat
        /\ dividend = QuotientNext * divisor + RemainderNext * bit + (dividend % bit)
    <2>1. CASE Trial >= divisor
      BY <1>1, <1>5, <1>6, <1>7, <2>1 DEF RemainderNext, QuotientNext, TrialFits, s
    <2>2. CASE ~(Trial >= divisor)
      BY <1>1, <1>5, <2>2 DEF RemainderNext, QuotientNext, TrialFits, s
    <2> QED BY <2>1, <2>2
  <1>9. dividend % bit \in Nat
    BY <1>3 DEF s
  <1>10. QuotientNext <= dividend
    BY <1>1, <1>8, <1>9, PartIsSmall
  <1> QED BY <1>1, <1>8, <1>10, WordBounds DEF Words

\* The clock edges of the divider while the CPU holds its request.
LEMMA CoprocessorKeepsInv ==
  ASSUME DInv, Coprocessor, UNCHANGED cpu, ~ready
  PROVE  DInv'
  <1> USE DEF cpu
  <1>1. CASE Unclaimed
    BY <1>1 DEF Unclaimed, DInv, TypeOK, Handshake, OperandsLoaded, PartlyDivided,
                Claims, work
  <1>2. CASE ByZero
    <2>1. rd' \in Words
      BY <1>2, WordBounds DEF ByZero, DInv, TypeOK, Words
    <2>2. RightAnswer(insn, rs1, rs2, rd)'
      BY <1>2 DEF ByZero, RightAnswer
    <2> QED BY <1>2, <2>1, <2>2
        DEF ByZero, DInv, TypeOK, Handshake, OperandsLoaded, PartlyDivided, Claims, work
  <1>3. CASE Load
    <2>1. Magnitude(rs1) \in Words /\ Magnitude(rs2) \in Words /\ Magnitude(rs2) # 0
      BY <1>3, MagnitudeIsAbsolute DEF Load, Claims, DInv, TypeOK
    <2>2. 0 \in Words /\ Half \in Weights /\ Half \in Nat \ {0}
      BY WordBounds, WeightsAssumption DEF Words
    <2>3. Magnitude(rs1) = 0 * Magnitude(rs2) + 0 * (2 * Half) + (Magnitude(rs1) % (2 * Half))
      <3>1. Magnitude(rs1) % (2 * Half) = Magnitude(rs1)
        BY <2>1, Residues DEF Modulus
      <3>2. Magnitude(rs1) \in Int /\ Magnitude(rs2) \in Int
        BY <2>1, WordBounds DEF Words
      <3> QED BY <2>2, <3>1, <3>2, SMT
    <2>4. 0 < Magnitude(rs2)
      BY <2>1, WordBounds DEF Words
    <2> QED BY <1>3, <2>1, <2>2, <2>3, <2>4
        DEF Load, DInv, TypeOK, Handshake, OperandsLoaded, PartlyDivided, Claims, Magnitude
  <1>4. CASE Step
    <2>1. /\ RemainderNext \in Words /\ RemainderNext < divisor
          /\ QuotientNext \in Words
          /\ dividend = QuotientNext * divisor + RemainderNext * bit + (dividend % bit)
      BY <1>4, StepKeepsDivision DEF Step
    <2>2. bit \div 2 \in Weights /\ 2 * (bit \div 2) = bit
      BY <1>4, WeightsAssumption, WordBounds DEF Step, DInv, TypeOK
    <2> QED BY <1>4, <2>1, <2>2
        DEF Step, DInv, TypeOK, Handshake, OperandsLoaded, PartlyDivided, Claims, Magnitude
  <1>5. CASE Last
    <2>1. /\ RemainderNext \in Words /\ RemainderNext < divisor
          /\ QuotientNext \in Words
          /\ dividend = QuotientNext * divisor + RemainderNext * 1 + (dividend % 1)
      BY <1>5, StepKeepsDivision DEF Last
    <2>2. /\ QuotientNext \in Nat /\ RemainderNext \in Nat
          /\ dividend = QuotientNext * divisor + RemainderNext
      <3>1. dividend \in Nat /\ divisor \in Nat /\ QuotientNext \in Nat /\ RemainderNext \in Nat
        BY <2>1, WordBounds DEF DInv, TypeOK, Words
      <3>2. dividend % 1 = 0
        BY <3>1, SMT
      <3> QED BY <2>1, <3>1, <3>2, SMT
    <2>3. /\ insn \in Divisions /\ rs1 \in Words /\ rs2 \in Words /\ rs2 # 0
          /\ dividend = Magnitude(rs1) /\ divisor = Magnitude(rs2)
          /\ negQuotient \in BOOLEAN /\ negRemainder \in BOOLEAN
          /\ negQuotient <=> insn = "DIV" /\ ~(Negative(rs1) <=> Negative(rs2))
          /\ negRemainder <=> insn = "REM" /\ Negative(rs1)
      BY <1>5 DEF Last, Claims, DInv, TypeOK, Handshake, OperandsLoaded
    <2>4. RightAnswer(insn, rs1, rs2, rd')
      BY <1>5, <2>1, <2>2, <2>3, WriteBackIsRight DEF Last
    <2>5. rd' \in Words
      BY <1>5, <2>1, Residues, WordBounds DEF Last
    <2>6. RightAnswer(insn, rs1, rs2, rd)'
      BY <2>4
    <2> QED BY <1>5, <2>5, <2>6
        DEF Last, DInv, TypeOK, Handshake, OperandsLoaded, PartlyDivided, Claims, work
  <1>6. CASE HandOff
    BY <1>6 DEF HandOff, DInv, Handshake, Claims
  <1> QED BY <1>1, <1>2, <1>3, <1>4, <1>5, <1>6 DEF Coprocessor

\* Every clock edge, the CPU's part included, and every reset.
LEMMA NextKeepsInv == DInv /\ [Next]_vars => DInv'
  <1> SUFFICES ASSUME DInv, [Next]_vars PROVE DInv'
    OBVIOUS
  <1>1. ASSUME Coprocessor, Ask PROVE DInv'
    <2>1. Unclaimed
      BY <1>1 DEF Ask, Coprocessor, Claims, ByZero, Load, Step, Last, HandOff
    <2> QED BY <1>1, <2>1
        DEF Ask, Unclaimed, work, DInv, TypeOK, Handshake, OperandsLoaded, PartlyDivided
  <1>2. ASSUME Coprocessor, Take PROVE DInv'
    <2>1. Unclaimed \/ HandOff
      <3>1. ByZero \/ Load \/ Step \/ Last => Claims /\ ~completed
        BY DEF ByZero, Load, Step, Last, DInv, Handshake
      <3>2. Claims => completed
        BY <1>2 DEF Take, Claims, DInv, Handshake, Divisions, Other
      <3> QED BY <1>2, <3>1, <3>2 DEF Coprocessor
    <2>2. running' = FALSE /\ ready' = FALSE /\ completed' \in BOOLEAN /\ UNCHANGED <<rd, work>>
      BY <2>1 DEF Unclaimed, HandOff, DInv, TypeOK
    <2>3. 0 \in Words /\ valid' = FALSE
      BY <1>2, WordBounds DEF Take, Words
    <2> QED BY <1>2, <2>2, <2>3
        DEF Take, work, DInv, TypeOK, Handshake, OperandsLoaded, PartlyDivided, Claims
  <1>3. ASSUME Coprocessor, Stay PROVE DInv'
    BY <1>3, CoprocessorKeepsInv DEF Stay, DInv, Handshake, Claims
  <1>4. CASE Reset
    <2>1. 0 \in Words
      BY WordBounds DEF Words
    <2> QED BY <1>4, <2>1, WeightsAssumption
        DEF Reset, DInv, TypeOK, Handshake, OperandsLoaded, PartlyDivided, Claims,
            Divisions, Other
  <1>5. CASE UNCHANGED vars
    BY <1>5 DEF vars, cpu, work, DInv, TypeOK, Handshake, OperandsLoaded, PartlyDivided,
                Claims, Magnitude, RightAnswer
  <1> QED BY <1>1, <1>2, <1>3, <1>4, <1>5 DEF Next, Clock

\* The invariant holds in every reachable state.
LEMMA DividerInvariant == Spec => []DInv
  BY InitInv, NextKeepsInv, PTL DEF Spec

-----------------------------------------------------------------------------
(* Theorems.                                                               *)

\* The registers of the divider keep their width, whatever the CPU asks.
THEOREM DividerTypes == Spec => []TypeOK
  <1>1. DInv => TypeOK
    BY DEF DInv
  <1> QED BY <1>1, DividerInvariant, PTL

\* Every answer is the one RV32M defines, for every pair of operands of every
\* width, and the instruction it belongs to is still waiting for it.
THEOREM DividesLikeRV32M == Spec => []AnswerIsRight
  <1>1. DInv => AnswerIsRight
    BY DEF DInv, Handshake, AnswerIsRight
  <1> QED BY <1>1, DividerInvariant, PTL

\* A division is claimed until it is answered.
THEOREM DivisionStaysClaimed == Spec => []StaysClaimed
  <1>1. DInv => StaysClaimed
    BY DEF DInv, Handshake, StaysClaimed, Waits
  <1> QED BY <1>1, DividerInvariant, PTL

-----------------------------------------------------------------------------
(* The calls of TIMER1.                                                    *)

\* The n-th last write of omcu_timer1_configure.
FromLast(k, n) ==
  IF n = 7 THEN Write("ctrl", {})
  ELSE IF n = 6 THEN Write("prescale", k.prescale)
  ELSE IF n = 5 THEN Write("count", 0)
  ELSE IF n = 4 THEN Write("compare", k.compare)
  ELSE IF n = 3 THEN Write("filter", k.filter)
  ELSE IF n = 2 THEN Write("status", Events) ELSE Write("ctrl", k.ctrl)

\* Its last n writes.
Rest(k, n) == [i \in 1 .. n |-> FromLast(k, n + 1 - i)]

Singles == {Write("status", {"step"})} \cup {Write("encoder", p) : p \in Positions}

\* What is left of a call.
Planned ==
  \/ writes = <<>>
  \/ \E w \in Singles : writes = <<w>>
  \/ \E k \in Configs, n \in 1 .. 7 : writes = Rest(k, n)

\* How many writes of a configuration are left.
Left == IF Len(writes) \in 2 .. 7 THEN Len(writes)
        ELSE IF Len(writes) = 1 /\ Head(writes).reg = "ctrl" THEN 1 ELSE 0

LEMMA WriteIs == ASSUME NEW r, NEW v PROVE Write(r, v).reg = r /\ Write(r, v).value = v
  BY Zenon DEF Write

LEMMA ConfigureIs ==
  ASSUME NEW k PROVE Configure(k) = Rest(k, 7)
  <1>1. Len(Configure(k)) = 7 /\ DOMAIN Configure(k) = 1 .. 7
    BY DEF Configure
  <1>2. /\ Configure(k)[1] = FromLast(k, 7) /\ Configure(k)[2] = FromLast(k, 6)
        /\ Configure(k)[3] = FromLast(k, 5) /\ Configure(k)[4] = FromLast(k, 4)
        /\ Configure(k)[5] = FromLast(k, 3) /\ Configure(k)[6] = FromLast(k, 2)
        /\ Configure(k)[7] = FromLast(k, 1)
    BY DEF Configure, FromLast
  <1>3. \A i \in 1 .. 7 : Configure(k)[i] = FromLast(k, 8 - i)
    BY <1>2
  <1>4. \A i \in 1 .. 7 : Configure(k)[i] = Rest(k, 7)[i]
    BY <1>3 DEF Rest
  <1>5. DOMAIN Rest(k, 7) = 1 .. 7
    BY DEF Rest
  <1>6. Configure(k) = [i \in 1 .. 7 |-> Configure(k)[i]]
    BY <1>1 DEF Configure
  <1>7. Rest(k, 7) = [i \in 1 .. 7 |-> Rest(k, 7)[i]]
    BY DEF Rest
  <1> QED BY <1>4, <1>6, <1>7

LEMMA RestIs ==
  ASSUME NEW k \in Configs, NEW n \in 1 .. 7
  PROVE  /\ Len(Rest(k, n)) = n /\ Rest(k, n) # <<>>
         /\ Head(Rest(k, n)) = FromLast(k, n)
         /\ n = 1 => Tail(Rest(k, n)) = <<>>
         /\ n > 1 => Tail(Rest(k, n)) = Rest(k, n - 1)
  <1> DEFINE r == Rest(k, n)
             F(i) == FromLast(k, n + 1 - i)
             S == {F(i) : i \in 1 .. n}
  <1>1. r = [i \in 1 .. n |-> F(i)]
    BY DEF Rest
  <1>2. r \in Seq(S) /\ Len(r) = n /\ \A i \in 1 .. n : r[i] = F(i)
    <2>1. \A i \in 1 .. n : F(i) \in S
      OBVIOUS
    <2> HIDE DEF F, S, r
    <2>2. r \in [1 .. n -> S]
      BY <1>1, <2>1
    <2>3. r \in Seq(S) /\ Len(r) = n
      BY <1>1, <2>2
    <2> QED BY <1>1, <2>3
  <1>3. F(1) = FromLast(k, n)
    OBVIOUS
  <1>4. r # <<>> /\ Head(r) = FromLast(k, n)
    BY <1>2, <1>3
  <1>5. Tail(r) = [i \in 1 .. n - 1 |-> r[i + 1]]
    <2> HIDE DEF r, F, S
    <2> DEFINE t == Tail(r)
    <2>1. t \in Seq(S) /\ Len(t) = n - 1 /\ \A i \in 1 .. n - 1 : t[i] = r[i + 1]
      BY <1>2, <1>4, HeadTailProperties
    <2> HIDE DEF t
    <2>2. t = [i \in 1 .. n - 1 |-> t[i]]
      BY <2>1
    <2>3. [i \in 1 .. n - 1 |-> t[i]] = [i \in 1 .. n - 1 |-> r[i + 1]]
      BY <2>1
    <2> QED BY <2>2, <2>3 DEF t
  <1>6. \A i \in 1 .. n - 1 : r[i + 1] = FromLast(k, n - i)
    <2>1. \A i \in 1 .. n - 1 : F(i + 1) = FromLast(k, n - i)
      OBVIOUS
    <2> HIDE DEF F, r
    <2> QED BY <1>2, <2>1
  <1>7. n > 1 => Tail(r) = Rest(k, n - 1)
    <2>1. Rest(k, n - 1) = [i \in 1 .. n - 1 |-> FromLast(k, n - i)]
      BY DEF Rest
    <2> QED BY <1>5, <1>6, <2>1
  <1>8. n = 1 => Tail(r) = <<>>
    <2> HIDE DEF r, F
    <2> QED BY <1>5
  <1> QED BY <1>2, <1>4, <1>7, <1>8

IsFromLast(k, n, w) ==
  /\ n = 7 => w.reg = "ctrl" /\ w.value = {}
  /\ n = 6 => w.reg = "prescale" /\ w.value = k.prescale
  /\ n = 5 => w.reg = "count" /\ w.value = 0
  /\ n = 4 => w.reg = "compare" /\ w.value = k.compare
  /\ n = 3 => w.reg = "filter" /\ w.value = k.filter
  /\ n = 2 => w.reg = "status" /\ w.value = Events
  /\ n = 1 => w.reg = "ctrl" /\ w.value = k.ctrl

LEMMA FromLastIs ==
  ASSUME NEW k, NEW n \in 1 .. 7, NEW w, w = FromLast(k, n)
  PROVE  IsFromLast(k, n, w)
  <1>1. n = 7 \/ n = 6 \/ n = 5 \/ n = 4 \/ n = 3 \/ n = 2 \/ n = 1
    OBVIOUS
  <1>2. /\ n = 6 => n # 7
        /\ n = 5 => n # 7 /\ n # 6
        /\ n = 4 => n # 7 /\ n # 6 /\ n # 5
        /\ n = 3 => n # 7 /\ n # 6 /\ n # 5 /\ n # 4
        /\ n = 2 => n # 7 /\ n # 6 /\ n # 5 /\ n # 4 /\ n # 3
        /\ n = 1 => n # 7 /\ n # 6 /\ n # 5 /\ n # 4 /\ n # 3 /\ n # 2
    OBVIOUS
  <1>3. /\ n = 7 => w = Write("ctrl", {})
        /\ n = 6 => w = Write("prescale", k.prescale)
        /\ n = 5 => w = Write("count", 0)
        /\ n = 4 => w = Write("compare", k.compare)
        /\ n = 3 => w = Write("filter", k.filter)
        /\ n = 2 => w = Write("status", Events)
        /\ n = 1 => w = Write("ctrl", k.ctrl)
    <2>1. n = 7 => w = Write("ctrl", {})
      BY Zenon DEF FromLast
    <2>2. n = 6 => w = Write("prescale", k.prescale)
      BY <1>2, Zenon DEF FromLast
    <2>3. n = 5 => w = Write("count", 0)
      BY <1>2, Zenon DEF FromLast
    <2>4. n = 4 => w = Write("compare", k.compare)
      BY <1>2, Zenon DEF FromLast
    <2>5. n = 3 => w = Write("filter", k.filter)
      BY <1>2, Zenon DEF FromLast
    <2>6. n = 2 => w = Write("status", Events)
      BY <1>2, Zenon DEF FromLast
    <2>7. n = 1 => w = Write("ctrl", k.ctrl)
      BY <1>2, Zenon DEF FromLast
    <2> QED BY <2>1, <2>2, <2>3, <2>4, <2>5, <2>6, <2>7
  <1>4. \A r, v : w = Write(r, v) => w.reg = r /\ w.value = v
    BY WriteIs
  <1> HIDE DEF Write
  <1> QED BY <1>3, <1>4 DEF IsFromLast

\* A write of a call, or none, and what it leaves of a configuration.
Goes(w) ==
  \/ w = NoWrite /\ Left' = Left
  \/ w = NoWrite /\ Left = 0 /\ Left' \in {0, 7}
  \/ w \in Singles /\ Left = 0 /\ Left' = 0
  \/ Left \in 1 .. 7 /\ Left' = Left - 1 /\ \E k \in Configs : w = FromLast(k, Left)

LEMMA SingleIs ==
  ASSUME NEW w \in Singles, NEW s, s = <<w>>
  PROVE  /\ Len(s) = 1 /\ s # <<>> /\ Head(s) = w /\ Tail(s) = <<>>
         /\ w.reg \in {"status", "encoder"}
  <1>1. Len(s) = 1 /\ s # <<>> /\ Head(s) = w /\ Tail(s) = <<>>
    OBVIOUS
  <1>2. w = Write("status", {"step"}) \/ \E p \in Positions : w = Write("encoder", p)
    BY DEF Singles
  <1>3. w.reg = "status" \/ w.reg = "encoder"
    <2>1. CASE w = Write("status", {"step"})
      BY <2>1, WriteIs, Zenon
    <2>2. CASE \E p \in Positions : w = Write("encoder", p)
      <3>1. PICK p \in Positions : w = Write("encoder", p)
        BY <2>2
      <3> QED BY <3>1, WriteIs, Zenon
    <2> QED BY <1>2, <2>1, <2>2
  <1> QED BY <1>1, <1>3

\* The writes left, by the form of what is left.
LEMMA LeftIs ==
  /\ writes = <<>> => Left = 0
  /\ \A w \in Singles : writes = <<w>> => Left = 0
  /\ \A k \in Configs, n \in 1 .. 7 : writes = Rest(k, n) => Left = n
  <1>1. Len(<<>>) = 0
    OBVIOUS
  <1>2. writes = <<>> => Left = 0
    BY <1>1 DEF Left
  <1>3. ASSUME NEW w \in Singles, writes = <<w>> PROVE Left = 0
    <2>1. Len(writes) = 1 /\ Head(writes) = w /\ w.reg \in {"status", "encoder"}
      BY <1>3, SingleIs
    <2> QED BY <2>1 DEF Left
  <1>4. ASSUME NEW k \in Configs, NEW n \in 1 .. 7, writes = Rest(k, n) PROVE Left = n
    <2>1. Len(writes) = n /\ Head(writes) = FromLast(k, n)
      BY <1>4, RestIs
    <2>2. \A w : w = FromLast(k, n) => (n = 1 => w.reg = "ctrl")
      <3> SUFFICES ASSUME NEW w, w = FromLast(k, n), n = 1 PROVE w.reg = "ctrl"
        OBVIOUS
      <3>1. IsFromLast(k, n, w)
        BY FromLastIs
      <3> QED BY <3>1 DEF IsFromLast
    <2>3. n = 1 => Head(writes).reg = "ctrl"
      BY <2>1, <2>2
    <2>4. n = 1 \/ n \in 2 .. 7
      OBVIOUS
    <2> QED BY <2>1, <2>3, <2>4 DEF Left
  <1> QED BY <1>2, <1>3, <1>4

LEMMA LeftIsNext ==
  /\ writes' = <<>> => Left' = 0
  /\ \A w \in Singles : writes' = <<w>> => Left' = 0
  /\ \A k \in Configs, n \in 1 .. 7 : writes' = Rest(k, n) => Left' = n
  <1>1. Len(<<>>) = 0
    OBVIOUS
  <1>2. writes' = <<>> => Left' = 0
    BY <1>1 DEF Left
  <1>3. ASSUME NEW w \in Singles, writes' = <<w>> PROVE Left' = 0
    <2>1. Len(writes') = 1 /\ Head(writes') = w /\ w.reg \in {"status", "encoder"}
      BY <1>3, SingleIs
    <2> QED BY <2>1 DEF Left
  <1>4. ASSUME NEW k \in Configs, NEW n \in 1 .. 7, writes' = Rest(k, n) PROVE Left' = n
    <2>1. Len(writes') = n /\ Head(writes') = FromLast(k, n)
      BY <1>4, RestIs
    <2>2. \A w : w = FromLast(k, n) => (n = 1 => w.reg = "ctrl")
      <3> SUFFICES ASSUME NEW w, w = FromLast(k, n), n = 1 PROVE w.reg = "ctrl"
        OBVIOUS
      <3>1. IsFromLast(k, n, w)
        BY FromLastIs
      <3> QED BY <3>1 DEF IsFromLast
    <2>3. n = 1 => Head(writes').reg = "ctrl"
      BY <2>1, <2>2
    <2>4. n = 1 \/ n \in 2 .. 7
      OBVIOUS
    <2> QED BY <2>1, <2>3, <2>4 DEF Left
  <1> QED BY <1>2, <1>3, <1>4

LEMMA CallsAre ==
  ASSUME NEW c \in Calls
  PROVE  (\E w \in Singles : c = <<w>>) \/ (\E k \in Configs : c = Rest(k, 7))
  <1>1. \/ \E k \in Configs : c = Configure(k)
        \/ c = <<Write("status", {"step"})>>
        \/ \E p \in Positions : c = <<Write("encoder", p)>>
    BY DEF Calls
  <1>2. Write("status", {"step"}) \in Singles /\ \A p \in Positions : Write("encoder", p) \in Singles
    BY DEF Singles
  <1> QED BY <1>1, <1>2, ConfigureIs

LEMMA TimerGoes ==
  ASSUME Planned, TimerNext
  PROVE  Planned' /\ \E w : Clocked(w) /\ Goes(w)
  <1>1. ASSUME Wait PROVE Planned' /\ Clocked(NoWrite) /\ Goes(NoWrite)
    <2>1. writes' = writes /\ Clocked(NoWrite)
      BY <1>1 DEF Wait
    <2>2. Left' = Left
      BY <2>1 DEF Left
    <2> QED BY <2>1, <2>2 DEF Planned, Goes
  <1>2. ASSUME DoWrite PROVE Planned' /\ Clocked(Head(writes)) /\ Goes(Head(writes))
    <2>1. writes # <<>> /\ Clocked(Head(writes)) /\ writes' = Tail(writes)
      BY <1>2 DEF DoWrite
    <2>2. ASSUME NEW w \in Singles, writes = <<w>> PROVE Planned' /\ Goes(Head(writes))
      <3>1. Head(writes) = w /\ writes' = <<>>
        BY <2>1, <2>2, SingleIs
      <3> QED BY <2>2, <3>1, LeftIs, LeftIsNext DEF Planned, Goes
    <2>3. ASSUME NEW k \in Configs, NEW n \in 1 .. 7, writes = Rest(k, n)
          PROVE  Planned' /\ Goes(Head(writes))
      <3>1. /\ Head(writes) = FromLast(k, n) /\ Left = n
            /\ n = 1 => writes' = <<>>
            /\ n > 1 => writes' = Rest(k, n - 1)
        BY <2>1, <2>3, RestIs, LeftIs
      <3>2. CASE n = 1
        BY <3>1, <3>2, LeftIsNext DEF Planned, Goes
      <3>3. CASE n > 1
        <4>1. n - 1 \in 1 .. 7
          BY <3>3
        <4> QED BY <3>1, <3>3, <4>1, LeftIsNext DEF Planned, Goes
      <3> QED BY <3>2, <3>3
    <2> QED BY <2>1, <2>2, <2>3 DEF Planned
  <1>3. ASSUME Call PROVE Planned' /\ Clocked(NoWrite) /\ Goes(NoWrite)
    <2>1. writes = <<>> /\ writes' \in Calls /\ Clocked(NoWrite)
      BY <1>3 DEF Call
    <2>2. CASE \E w \in Singles : writes' = <<w>>
      BY <2>1, <2>2, LeftIs, LeftIsNext DEF Planned, Goes
    <2>3. CASE \E k \in Configs : writes' = Rest(k, 7)
      <3>1. Left' = 7 /\ 7 \in 1 .. 7
        BY <2>3, LeftIsNext
      <3> QED BY <2>1, <2>3, <3>1, LeftIs DEF Planned, Goes
    <2> QED BY <2>1, <2>2, <2>3, CallsAre
  <1> QED BY <1>1, <1>2, <1>3 DEF TimerNext

\* What a step may write, and when.
Typed(w) ==
  /\ w.reg \in {"none", "status", "encoder", "ctrl", "prescale", "count", "compare", "filter"}
  /\ w.reg = "ctrl" => w.value \in SUBSET Bits
  /\ w.reg \in {"encoder", "prescale", "count", "compare"} => w.value \in 0 .. Wrap - 1
  /\ w.reg = "filter" => w.value \in Filters

Ordered(w) ==
  /\ w.reg = "none" => Left' = Left \/ (Left = 0 /\ Left' = 7)
  /\ w.reg = "encoder" => Left = 0 /\ Left' = 0
  /\ w.reg = "status" => Left' = 0 \/ (Left = 2 /\ Left' = 1)
  /\ w.reg = "ctrl" => (Left = 7 /\ Left' = 6 /\ w.value = {}) \/ (Left = 1 /\ Left' = 0)
  /\ w.reg = "prescale" => Left = 6 /\ Left' = 5
  /\ w.reg = "count" => Left = 5 /\ Left' = 4 /\ w.value = 0
  /\ w.reg = "compare" => Left = 4 /\ Left' = 3
  /\ w.reg = "filter" => Left = 3 /\ Left' = 2

LEMMA SingleValues ==
  ASSUME NEW w \in Singles
  PROVE  w.reg = "encoder" => w.value \in 0 .. Wrap - 1
  <1>1. CASE w = Write("status", {"step"})
    <2>1. w.reg = "status"
      BY <1>1, WriteIs, Zenon
    <2> QED BY <2>1
  <1>2. CASE \E p \in Positions : w = Write("encoder", p)
    <2>1. PICK p \in Positions : w = Write("encoder", p)
      BY <1>2
    <2>2. w.value = p
      BY <2>1, WriteIs, Zenon
    <2> QED BY <2>2, TimerAssumption
  <1>3. w = Write("status", {"step"}) \/ \E p \in Positions : w = Write("encoder", p)
    BY DEF Singles
  <1> QED BY <1>1, <1>2, <1>3

LEMMA ConfigTypes ==
  ASSUME NEW k \in Configs
  PROVE  /\ k.prescale \in 0 .. Wrap - 1 /\ k.compare \in 0 .. Wrap - 1
         /\ k.filter \in Filters /\ k.ctrl \in SUBSET Bits
  <1>1. k \in [prescale : 0 .. Wrap - 1, compare : 0 .. Wrap - 1, filter : Nat,
               ctrl : SUBSET Bits]
    BY TimerAssumption
  <1>2. k.filter \in Filters
    BY DEF Filters
  <1> QED BY <1>1, <1>2

LEMMA FiltersAre == Filters \subseteq Nat /\ Longest \in Filters /\ Longest \in Nat
                    /\ \A n \in Filters : n \in Nat /\ n <= Longest
  <1>1. \A k \in Configs : k.filter \in Nat
    BY TimerAssumption
  <1>2. Filters \subseteq Nat
    BY <1>1 DEF Filters
  <1>3. \E n \in Filters : IsLongest(n)
    BY TimerAssumption
  <1>4. Longest \in Filters /\ IsLongest(Longest)
    BY <1>3, Zenon DEF Longest
  <1> QED BY <1>2, <1>4 DEF IsLongest

LEMMA LeftType == Planned => Left \in 0 .. 7
  <1>1. CASE writes = <<>>
    BY <1>1, LeftIs
  <1>2. ASSUME NEW w \in Singles, writes = <<w>> PROVE Left \in 0 .. 7
    BY <1>2, LeftIs
  <1>3. ASSUME NEW k \in Configs, NEW n \in 1 .. 7, writes = Rest(k, n) PROVE Left \in 0 .. 7
    BY <1>3, LeftIs
  <1> QED BY <1>1, <1>2, <1>3 DEF Planned

LEMMA GoesIs ==
  ASSUME NEW w, Goes(w)
  PROVE  Typed(w) /\ Ordered(w)
  <1>0. NoWrite.reg = "none"
    BY WriteIs, Zenon DEF NoWrite
  <1>1. CASE w = NoWrite /\ (Left' = Left \/ (Left = 0 /\ Left' \in {0, 7}))
    BY <1>0, <1>1 DEF Typed, Ordered
  <1>2. CASE w \in Singles /\ Left = 0 /\ Left' = 0
    <2>1. w.reg = "status" \/ w.reg = "encoder"
      BY <1>2, SingleIs
    <2>2. w.reg = "encoder" => w.value \in 0 .. Wrap - 1
      BY <1>2, SingleValues
    <2> QED BY <1>2, <2>1, <2>2 DEF Typed, Ordered
  <1>3. ASSUME Left \in 1 .. 7, Left' = Left - 1, NEW k \in Configs, w = FromLast(k, Left)
        PROVE  Typed(w) /\ Ordered(w)
    <2>2. PICK n \in 1 .. 7 : Left = n
      BY <1>3
    <2>1. Left' = n - 1 /\ w = FromLast(k, n)
      BY <1>3, <2>2
    <2>3. IsFromLast(k, n, w)
      BY <2>1, FromLastIs
    <2>4. n = 7 \/ n = 6 \/ n = 5 \/ n = 4 \/ n = 3 \/ n = 2 \/ n = 1
      BY <2>1
    <2>5. 0 \in 0 .. Wrap - 1
      BY TimerAssumption
    <2>6. Typed(w)
      BY <2>3, <2>4, <2>5, ConfigTypes DEF Typed, IsFromLast
    <2>7. /\ n = 7 => Left' = 6
          /\ n = 6 => Left' = 5
          /\ n = 5 => Left' = 4
          /\ n = 4 => Left' = 3
          /\ n = 3 => Left' = 2
          /\ n = 2 => Left' = 1
          /\ n = 1 => Left' = 0
      BY <2>1
    <2>8. Ordered(w)
      BY <2>2, <2>3, <2>4, <2>7 DEF Ordered, IsFromLast
    <2> QED BY <2>6, <2>8
  <1> QED BY <1>1, <1>2, <1>3 DEF Goes

-----------------------------------------------------------------------------
(* The types, the timer and what the step event tells.                     *)

\* While a configuration is under way the timer stands, and counts from zero.
Emptied ==
  /\ Left \in 1 .. 6 => /\ ctrl = {} /\ g.since = Stopped
                        /\ \A c \in Channels : g.edgeAt[c] = Stopped
  /\ Left \in 1 .. 5 => prescaleCount = 0
  /\ Left \in 1 .. 4 => count = 0

HistoryTypeOK ==
  /\ g.bounce \in BOOLEAN /\ g.sure \in BOOLEAN
  /\ g.rest \in 0 .. Longest + 3 /\ g.quiet \in 0 .. Longest + 1
  /\ g.since \in Int /\ g.since >= Stopped
  /\ g.lag \in 0 .. Wrap - 1
  /\ g.edgeAt \in [Channels -> Int]

\* How far the timer has come since it was enabled.
OnTime ==
  /\ "timer" \in ctrl =>
       /\ count <= compare /\ prescaleCount <= prescale
       /\ g.since = count * (prescale + 1) + prescaleCount
  /\ ("timer" \notin ctrl /\ g.since # Stopped) =>
       g.since = Period /\ count = compare /\ "reload" \notin ctrl

LevelsTypeOK ==
  /\ shaft \in [quarter : 0 .. 3, edge : 0 .. 3]
  /\ filter \in Filters
  /\ front \in [Channels -> [meta : BOOLEAN, sync : BOOLEAN, filtered : BOOLEAN,
                             count : 0 .. filter]]

ClockTypeOK ==
  /\ ctrl \in SUBSET Bits
  /\ prescaleCount \in 0 .. Wrap - 1 /\ prescale \in 0 .. Wrap - 1
  /\ count \in 0 .. Wrap - 1 /\ compare \in 0 .. Wrap - 1

OutputTypeOK ==
  /\ position \in 0 .. Wrap - 1 /\ pending \in SUBSET Events
  /\ forwards \in BOOLEAN /\ capture \in [Channels -> 0 .. Wrap - 1]

BaseInv ==
  /\ LevelsTypeOK /\ ClockTypeOK /\ OutputTypeOK /\ HistoryTypeOK
  /\ Planned /\ Emptied /\ OnTime /\ PendingTellsThePosition

LEMMA HistoryIs ==
  ASSUME NEW w, Record(w)
  PROVE  /\ g'.bounce = g.bounce
         /\ g'.rest = IF shaft' = shaft THEN UpTo(Longest + 3, g.rest + 1) ELSE 0
         /\ g'.quiet = IF w.reg = "filter" THEN 0 ELSE UpTo(Longest + 1, g.quiet + 1)
         /\ g'.since = SinceNext(w)
         /\ g'.sure = IF w.reg \in {"ctrl", "encoder"} THEN Quiet /\ shaft' = shaft
                                    ELSE g.sure /\ w.reg # "filter"
         /\ g'.lag = IF w.reg \in {"ctrl", "encoder"} \/ "encoder" \notin ctrl THEN 0
                     ELSE (g.lag + Moved - (position' - position)) % Wrap
         /\ g'.acked = IF "step" \in pending' THEN 0
                       ELSE IF w.reg = "encoder" THEN w.value
                       ELSE IF w.reg = "status" /\ "step" \in w.value THEN position
                       ELSE g.acked
         /\ g'.edgeAt = [c \in Channels |->
                         IF w.reg \in {"ctrl", "encoder"} THEN Stopped
                         ELSE IF EdgeToCapture(c) /\ g.since # Stopped THEN SinceNext(w)
                         ELSE g.edgeAt[c]]
  BY Zenon DEF Record

LEMMA UpToIs ==
  ASSUME NEW k \in Nat, NEW n \in Nat
  PROVE  UpTo(k, n) \in 0 .. k /\ UpTo(k, n) <= n /\ (n <= k => UpTo(k, n) = n)
  BY DEF UpTo

\* What a clock makes of the front end of a channel.
LEMMA FrontIs ==
  ASSUME NEW w, front' = FrontNext(w), NEW c \in Channels
  PROVE  /\ front'[c] = [meta |-> Level(shaft.quarter)[c], sync |-> front[c].meta,
                         filtered |-> Accepted(front[c], filter),
                         count |-> IF w.reg = "filter" THEN 0 ELSE FilterCount(front[c], filter)]
         /\ DOMAIN front' = Channels /\ front' = [d \in Channels |-> front'[d]]
  <1> DEFINE l == Level(shaft.quarter)[c]
             a == Accepted(front[c], filter)
             n == FilterCount(front[c], filter)
             s == [meta |-> l, sync |-> front[c].meta, filtered |-> a, count |-> n]
  <1>1. Sampled(front[c], filter, l) = s
    BY DEF Sampled
  <1>2. front'[c] = IF w.reg = "filter" THEN [s EXCEPT !.count = 0] ELSE s
    BY <1>1 DEF FrontNext
  <1>3. DOMAIN front' = Channels /\ front' = [d \in Channels |-> front'[d]]
    BY DEF FrontNext
  <1> HIDE DEF l, a, n
  <1>4. CASE w.reg = "filter"
    <2>1. front'[c] = [meta |-> l, sync |-> front[c].meta, filtered |-> a, count |-> 0]
      BY <1>2, <1>4
    <2> QED BY <1>3, <1>4, <2>1 DEF l, a
  <1>5. CASE w.reg # "filter"
    <2>1. front'[c] = [meta |-> l, sync |-> front[c].meta, filtered |-> a, count |-> n]
      BY <1>2, <1>5
    <2> QED BY <1>3, <1>5, <2>1 DEF l, a, n
  <1> QED BY <1>4, <1>5

LEMMA CountBounded ==
  ASSUME NEW n \in Nat, NEW c \in [meta : BOOLEAN, sync : BOOLEAN, filtered : BOOLEAN, count : 0 .. n]
  PROVE  FilterCount(c, n) \in 0 .. n /\ Accepted(c, n) \in BOOLEAN
  BY DEF FilterCount, Accepts, Accepted

LEMMA LevelsAre ==
  ASSUME NEW q, NEW c \in Channels
  PROVE  /\ Level(q)[c] \in BOOLEAN
         /\ c = "A" => Level(q)[c] = (q \in {2, 3})
         /\ c = "B" => Level(q)[c] = (q \in {1, 2})
  <1> DEFINE a == (q \in {2, 3})
             b == (q \in {1, 2})
  <1>1. a \in BOOLEAN /\ b \in BOOLEAN
    OBVIOUS
  <1>2. Level(q) = [d \in Channels |-> IF d = "A" THEN a ELSE b]
    BY DEF Level
  <1>3. c = "A" \/ c = "B"
    BY DEF Channels
  <1>4. "A" # "B"
    OBVIOUS
  <1> HIDE DEF a, b
  <1>5. Level(q)[c] = IF c = "A" THEN a ELSE b
    BY <1>2
  <1>6. (c = "A" => Level(q)[c] = a) /\ (c = "B" => Level(q)[c] = b)
    BY <1>4, <1>5
  <1> QED BY <1>1, <1>3, <1>6 DEF a, b

LEMMA ShaftStep ==
  ASSUME LevelsTypeOK, ShaftMoves
  PROVE  shaft' \in [quarter : 0 .. 3, edge : 0 .. 3]
  <1>1. CASE UNCHANGED shaft
    BY <1>1 DEF LevelsTypeOK
  <1>2. ASSUME NEW d \in {1, 3}, Turns(d) PROVE shaft' \in [quarter : 0 .. 3, edge : 0 .. 3]
    <2> DEFINE e == IF d = 1 THEN shaft.quarter ELSE (shaft.quarter + 3) % 4
               q == (shaft.quarter + d) % 4
    <2>1. shaft' = [quarter |-> q, edge |-> e]
      BY <1>2 DEF Turns
    <2>2. q \in 0 .. 3 /\ e \in 0 .. 3
      BY DEF LevelsTypeOK
    <2> HIDE DEF q, e
    <2> QED BY <2>1, <2>2
  <1> QED BY <1>1, <1>2 DEF ShaftMoves

LEMMA LevelsStep ==
  ASSUME LevelsTypeOK, NEW w, Typed(w), Clocked(w)
  PROVE  LevelsTypeOK'
  <1>1. shaft' \in [quarter : 0 .. 3, edge : 0 .. 3]
    BY ShaftStep DEF Clocked
  <1>2. filter' = IF w.reg = "filter" THEN w.value ELSE filter
    BY DEF Clocked, Engine
  <1>3. filter \in Filters /\ filter' \in Filters
    BY <1>2 DEF LevelsTypeOK, Typed
  <1>4. filter \in Nat /\ filter' \in Nat
    BY <1>3, FiltersAre
  <1>5. front' = FrontNext(w)
    BY DEF Clocked, Engine
  <1>6. ASSUME NEW c \in Channels
        PROVE  front'[c] \in [meta : BOOLEAN, sync : BOOLEAN, filtered : BOOLEAN, count : 0 .. filter']
    <2> DEFINE l == Level(shaft.quarter)[c]
               a == Accepted(front[c], filter)
               n == IF w.reg = "filter" THEN 0 ELSE FilterCount(front[c], filter)
    <2>1. front'[c] = [meta |-> l, sync |-> front[c].meta, filtered |-> a, count |-> n]
      BY <1>5, FrontIs
    <2>2. front[c] \in [meta : BOOLEAN, sync : BOOLEAN, filtered : BOOLEAN, count : 0 .. filter]
      BY DEF LevelsTypeOK
    <2>3. l \in BOOLEAN
      BY LevelsAre
    <2>4. a \in BOOLEAN /\ FilterCount(front[c], filter) \in 0 .. filter
      BY <1>4, <2>2, CountBounded
    <2>5. n \in 0 .. filter'
      BY <1>2, <1>4, <2>4
    <2> HIDE DEF l, a, n
    <2> QED BY <2>1, <2>2, <2>3, <2>4, <2>5
  <1>7. front' = [c \in Channels |-> front'[c]]
    BY <1>5 DEF FrontNext
  <1>8. front' \in [Channels -> [meta : BOOLEAN, sync : BOOLEAN, filtered : BOOLEAN, count : 0 .. filter']]
    BY <1>6, <1>7
  <1> QED BY <1>1, <1>3, <1>8 DEF LevelsTypeOK

LEMMA WrapIs == Wrap \in Nat /\ Wrap > 0 /\ Wrap % 4 = 0 /\ \A x \in Int : x % Wrap \in 0 .. Wrap - 1
  BY TimerAssumption

LEMMA ClockStep ==
  ASSUME ClockTypeOK, OnTime, NEW w, Typed(w), Clocked(w)
  PROVE  ClockTypeOK'
  <1>1. /\ ctrl' = w.value \/ ctrl' = ctrl \/ ctrl' = ctrl \ {"timer"}
        /\ w.reg # "ctrl" => ctrl' = ctrl \/ ctrl' = ctrl \ {"timer"}
    BY Zenon DEF Clocked, Engine
  <1>2. ctrl' \in SUBSET Bits
    BY <1>1 DEF ClockTypeOK, Typed
  <1>3. /\ prescale' = IF w.reg = "prescale" THEN w.value ELSE prescale
        /\ compare' = IF w.reg = "compare" THEN w.value ELSE compare
        /\ count' = IF w.reg = "count" THEN w.value ELSE CountNext
        /\ prescaleCount' = PrescaleCountNext
    BY Zenon DEF Clocked, Engine
  <1>4. prescale' \in 0 .. Wrap - 1 /\ compare' \in 0 .. Wrap - 1
    BY <1>3 DEF ClockTypeOK, Typed
  <1>5. CountNext \in 0 .. Wrap - 1
    BY WrapIs DEF ClockTypeOK, CountNext
  <1>6. count' \in 0 .. Wrap - 1
    BY <1>3, <1>5 DEF Typed
  <1>7. PrescaleCountNext \in 0 .. Wrap - 1
    BY WrapIs DEF ClockTypeOK, PrescaleCountNext, OnTime, Tick
  <1> QED BY <1>2, <1>3, <1>4, <1>6, <1>7 DEF ClockTypeOK

LEMMA OutputStep ==
  ASSUME ClockTypeOK, OutputTypeOK, NEW w, Typed(w), Clocked(w)
  PROVE  OutputTypeOK'
  <1>1. /\ position' = IF w.reg = "encoder" THEN w.value ELSE PositionNext
        /\ forwards' = IF EncoderStep THEN Increment ELSE forwards
        /\ pending' = PendingNext(w)
        /\ capture' = [c \in Channels |-> CaptureNext(c)]
    BY Zenon DEF Clocked, Engine
  <1>2. PositionNext \in 0 .. Wrap - 1
    BY WrapIs DEF OutputTypeOK, PositionNext
  <1>3. Increment \in BOOLEAN
    BY DEF Increment
  <1>4. pending' \in SUBSET Events
    <2>1. Happened \subseteq Events
      BY DEF Happened
    <2> QED BY <1>1, <2>1 DEF PendingNext, OutputTypeOK
  <1>5. \A c \in Channels : CaptureNext(c) \in 0 .. Wrap - 1
    BY DEF CaptureNext, OutputTypeOK, ClockTypeOK
  <1> QED BY <1>1, <1>2, <1>3, <1>4, <1>5 DEF OutputTypeOK, Typed

\* Only a step moves ENCODER, and a step raises its event.
LEMMA ToldStep ==
  ASSUME PendingTellsThePosition, NEW w, Clocked(w)
  PROVE  PendingTellsThePosition'
  <1>1. /\ position' = IF w.reg = "encoder" THEN w.value ELSE PositionNext
        /\ pending' = PendingNext(w)
    BY Zenon DEF Clocked, Engine
  <1>2. g'.acked = IF "step" \in pending' THEN 0
                   ELSE IF w.reg = "encoder" THEN w.value
                   ELSE IF w.reg = "status" /\ "step" \in w.value THEN position
                   ELSE g.acked
    BY HistoryIs, Zenon DEF Clocked
  <1>3. EncoderStep => "step" \in Happened
    BY DEF Happened, Events
  <1>4. ASSUME "step" \notin pending' PROVE position' = g'.acked
    <2>1. ~EncoderStep
      BY <1>1, <1>3, <1>4 DEF PendingNext
    <2>2. PositionNext = position
      BY <2>1 DEF PositionNext
    <2>3. (w.reg = "status" /\ "step" \in w.value) \/ "step" \notin pending
      BY <1>1, <1>4 DEF PendingNext
    <2> QED BY <1>1, <1>2, <1>4, <2>2, <2>3 DEF PendingTellsThePosition
  <1> QED BY <1>4 DEF PendingTellsThePosition

-----------------------------------------------------------------------------
(* TIMER1: the timer.                                                      *)

LEMMA PeriodIs ==
  ASSUME NEW p \in Nat, NEW m \in Nat, NEW k \in 0 .. m, NEW r \in 0 .. p
  PROVE  /\ (p + 1) * (m + 1) \in Nat \ {0}
         /\ k * (p + 1) + r \in 0 .. (p + 1) * (m + 1) - 1
         /\ k = m /\ r = p <=> k * (p + 1) + r = (p + 1) * (m + 1) - 1
         /\ (k + 1) * (p + 1) = k * (p + 1) + (p + 1)
  <1> DEFINE x == k * (p + 1)
             y == m * (p + 1)
  <1>1. x \in Nat /\ y \in Nat
    OBVIOUS
  <1>2. (p + 1) * (m + 1) = y + (p + 1)
    OBVIOUS
  <1>3. k = m => x = y
    OBVIOUS
  <1>4. (k + 1) * (p + 1) = x + (p + 1)
    OBVIOUS
  <1>5. k # m => x + (p + 1) <= y
    <2>1. k # m => m - k - 1 \in Nat
      OBVIOUS
    <2>2. k # m => (m - k - 1) * (p + 1) \in Nat
      BY <2>1
    <2>3. (m - k - 1) * (p + 1) = y - x - (p + 1)
      OBVIOUS
    <2> QED BY <1>1, <2>2, <2>3
  <1> HIDE DEF x, y
  <1>6. (p + 1) * (m + 1) \in Nat \ {0} /\ x + r \in 0 .. y + p
    BY <1>1, <1>2, <1>3, <1>5
  <1>7. k = m /\ r = p <=> x + r = y + p
    BY <1>1, <1>3, <1>5
  <1>8. k * (p + 1) = x
    BY DEF x
  <1> QED BY <1>1, <1>2, <1>4, <1>6, <1>7, <1>8

\* The clocks since the enabling, in the running timer and in the stopped one.
LEMMA SinceIs ==
  ASSUME ClockTypeOK, OnTime
  PROVE  /\ Period \in Nat \ {0}
         /\ "timer" \in ctrl => /\ g.since \in 0 .. Period - 1
                                /\ g.since # Stopped
                                /\ CompareEvent <=> g.since = Period - 1
  <1>1. prescale \in Nat /\ compare \in Nat /\ count \in Nat /\ prescaleCount \in Nat
    BY WrapIs DEF ClockTypeOK
  <1>2. Period \in Nat \ {0}
    BY <1>1, PeriodIs DEF Period
  <1>3. ASSUME "timer" \in ctrl
        PROVE  /\ g.since \in 0 .. Period - 1 /\ g.since # Stopped
               /\ CompareEvent <=> g.since = Period - 1
    <2>1. count \in 0 .. compare /\ prescaleCount \in 0 .. prescale
          /\ g.since = count * (prescale + 1) + prescaleCount
      BY <1>1, <1>3 DEF OnTime
    <2>2. /\ g.since \in 0 .. Period - 1
          /\ count = compare /\ prescaleCount = prescale <=> g.since = Period - 1
      BY <1>1, <2>1, PeriodIs DEF Period
    <2>3. g.since # Stopped
      BY <1>2, <2>2 DEF Stopped
    <2> QED BY <1>3, <2>2, <2>3 DEF CompareEvent, Tick
  <1> QED BY <1>2, <1>3

LEMMA SinceStep ==
  ASSUME ClockTypeOK, HistoryTypeOK, OnTime, NEW w
  PROVE  SinceNext(w) \in Int /\ SinceNext(w) >= Stopped
  <1>1. Period \in Nat \ {0} /\ g.since \in Int /\ g.since >= Stopped
    BY SinceIs DEF HistoryTypeOK
  <1>2. Stopped \in Int /\ Stopped < 0
    BY DEF Stopped
  <1>3. UpTo(Period, g.since + 1) \in Int /\ UpTo(Period, g.since + 1) >= Stopped
    BY <1>1, <1>2 DEF UpTo
  <1> HIDE DEF UpTo, Period, Stopped
  <1> QED BY <1>1, <1>2, <1>3 DEF SinceNext

LEMMA DifferenceIs ==
  ASSUME NEW a \in 0 .. 3, NEW b \in 0 .. 3
  PROVE  (a - b) % 4 \in 0 .. 3
  OBVIOUS

LEMMA MovedIs ==
  ASSUME LevelsTypeOK, LevelsTypeOK'
  PROVE  Moved \in Int
  <1> DEFINE x == (shaft'.quarter - shaft.quarter) % 4
  <1>1. x \in 0 .. 3
    BY DifferenceIs DEF LevelsTypeOK
  <1> HIDE DEF x
  <1>2. Directed(x) \in 0 .. 3
    BY <1>1 DEF Directed
  <1> QED BY <1>2 DEF Moved, x

LEMMA HistoryTypeStep ==
  ASSUME LevelsTypeOK, LevelsTypeOK', ClockTypeOK, OutputTypeOK, OutputTypeOK',
         HistoryTypeOK, OnTime, NEW w, Typed(w), Clocked(w)
  PROVE  HistoryTypeOK'
  <1>1. g'.bounce = g.bounce
    BY HistoryIs, Zenon DEF Clocked
  <1>2. g'.rest \in 0 .. Longest + 3
    <2>1. g'.rest = IF shaft' = shaft THEN UpTo(Longest + 3, g.rest + 1) ELSE 0
      BY HistoryIs, Zenon DEF Clocked
    <2>2. Longest + 3 \in Nat /\ g.rest + 1 \in Nat
      BY FiltersAre DEF HistoryTypeOK
    <2>3. UpTo(Longest + 3, g.rest + 1) \in 0 .. Longest + 3
      BY <2>2, UpToIs
    <2> QED BY <2>1, <2>2, <2>3
  <1>3. g'.quiet \in 0 .. Longest + 1
    <2>1. g'.quiet = IF w.reg = "filter" THEN 0 ELSE UpTo(Longest + 1, g.quiet + 1)
      BY HistoryIs, Zenon DEF Clocked
    <2>2. Longest + 1 \in Nat /\ g.quiet + 1 \in Nat
      BY FiltersAre DEF HistoryTypeOK
    <2>3. UpTo(Longest + 1, g.quiet + 1) \in 0 .. Longest + 1
      BY <2>2, UpToIs
    <2> QED BY <2>1, <2>2, <2>3
  <1>4. SinceNext(w) \in Int /\ SinceNext(w) >= Stopped
    BY SinceStep
  <1>5. g'.since \in Int /\ g'.since >= Stopped
    BY <1>4, HistoryIs DEF Clocked
  <1>6. g'.sure \in BOOLEAN
    <2> DEFINE a == Quiet /\ shaft' = shaft
               b == g.sure /\ w.reg # "filter"
    <2>1. a \in BOOLEAN /\ b \in BOOLEAN
      OBVIOUS
    <2>2. g'.sure = a \/ g'.sure = b
      BY HistoryIs, Zenon DEF Clocked
    <2> HIDE DEF a, b
    <2> QED BY <2>1, <2>2
  <1>7. g'.lag \in 0 .. Wrap - 1
    <2> DEFINE x == (g.lag + Moved - (position' - position)) % Wrap
    <2>1. g'.lag = 0 \/ g'.lag = x
      BY HistoryIs, Zenon DEF Clocked
    <2>2. g.lag + Moved - (position' - position) \in Int
      BY MovedIs DEF HistoryTypeOK, OutputTypeOK
    <2>3. x \in 0 .. Wrap - 1 /\ 0 \in 0 .. Wrap - 1
      BY <2>2, WrapIs
    <2> QED BY <2>1, <2>3
  <1>8. g'.edgeAt \in [Channels -> Int]
    <2>1. g'.edgeAt = [c \in Channels |->
                         IF w.reg \in {"ctrl", "encoder"} THEN Stopped
                         ELSE IF EdgeToCapture(c) /\ g.since # Stopped THEN SinceNext(w)
                         ELSE g.edgeAt[c]]
      BY HistoryIs, Zenon DEF Clocked
    <2>2. Stopped \in Int /\ \A c \in Channels : g.edgeAt[c] \in Int
      BY DEF HistoryTypeOK, Stopped
    <2> HIDE DEF Stopped
    <2> QED BY <1>4, <2>1, <2>2
  <1> QED BY <1>1, <1>2, <1>3, <1>5, <1>6, <1>7, <1>8 DEF HistoryTypeOK

LEMMA LeftBefore ==
  ASSUME Left \in 0 .. 7, NEW w, Typed(w), Ordered(w)
  PROVE  /\ (Left' \in 1 .. 6 /\ w.reg # "ctrl") => Left \in 1 .. 6
         /\ (Left' \in 1 .. 6 /\ w.reg = "ctrl") => w.value = {}
         /\ Left' \in 1 .. 5 => Left \in 1 .. 6 /\ w.reg # "ctrl"
         /\ (Left' \in 1 .. 4 /\ w.reg # "count") => Left \in 1 .. 4 /\ w.reg # "ctrl"
  BY DEF Typed, Ordered

LEMMA EmptiedStep ==
  ASSUME Emptied, Left \in 0 .. 7, NEW w, Typed(w), Ordered(w), Clocked(w)
  PROVE  Emptied'
  <1>1. g'.since = SinceNext(w)
    BY HistoryIs, Zenon DEF Clocked
  <1>2. /\ ctrl' = IF w.reg = "ctrl" THEN w.value
                   ELSE IF CompareEvent /\ "reload" \notin ctrl THEN ctrl \ {"timer"} ELSE ctrl
        /\ count' = IF w.reg = "count" THEN w.value ELSE CountNext
        /\ prescaleCount' = PrescaleCountNext
    BY Zenon DEF Clocked, Engine
  <1>3. \A c \in Channels : g'.edgeAt[c] = IF w.reg \in {"ctrl", "encoder"} THEN Stopped
                         ELSE IF EdgeToCapture(c) /\ g.since # Stopped THEN SinceNext(w)
                         ELSE g.edgeAt[c]
    BY HistoryIs DEF Clocked
  <1>4. ASSUME Left' \in 1 .. 6
        PROVE  ctrl' = {} /\ g'.since = Stopped /\ \A c \in Channels : g'.edgeAt[c] = Stopped
    <2>1. CASE w.reg = "ctrl"
      <3>1. w.value = {}
        BY <1>4, <2>1, LeftBefore
      <3> QED BY <1>1, <1>2, <1>3, <2>1, <3>1 DEF SinceNext
    <2>2. CASE w.reg # "ctrl"
      <3>1. ctrl = {} /\ g.since = Stopped /\ \A c \in Channels : g.edgeAt[c] = Stopped
        BY <1>4, <2>2, LeftBefore DEF Emptied
      <3> QED BY <1>1, <1>2, <1>3, <2>2, <3>1 DEF SinceNext
    <2> QED BY <2>1, <2>2
  <1>5. ASSUME Left' \in 1 .. 5 PROVE prescaleCount' = 0
    <2>1. ctrl = {}
      BY <1>5, LeftBefore DEF Emptied
    <2> QED BY <1>2, <2>1 DEF PrescaleCountNext
  <1>6. ASSUME Left' \in 1 .. 4 PROVE count' = 0
    <2>1. CASE w.reg = "count"
      BY <1>2, <2>1 DEF Ordered
    <2>2. CASE w.reg # "count"
      <3>1. Left \in 1 .. 4
        BY <1>6, <2>2, LeftBefore
      <3>2. Left \in 1 .. 6
        BY <3>1
      <3>3. count = 0 /\ ctrl = {}
        BY <3>1, <3>2 DEF Emptied
      <3> QED BY <1>2, <2>2, <3>3 DEF CountNext, Tick
    <2> QED BY <2>1, <2>2
  <1> QED BY <1>4, <1>5, <1>6 DEF Emptied

\* Nothing of the timer is written while it runs.
LEMMA UndisturbedIs ==
  ASSUME Emptied, Left \in 0 .. 7, NEW w, Typed(w), Ordered(w), Clocked(w), w.reg # "ctrl",
         "timer" \in ctrl \/ g.since # Stopped
  PROVE  /\ prescale' = prescale /\ compare' = compare /\ Period' = Period
         /\ w.reg # "count" /\ count' = CountNext /\ Left \notin 1 .. 6
  <1>1. /\ prescale' = IF w.reg = "prescale" THEN w.value ELSE prescale
        /\ compare' = IF w.reg = "compare" THEN w.value ELSE compare
        /\ count' = IF w.reg = "count" THEN w.value ELSE CountNext
    BY Zenon DEF Clocked, Engine
  <1>2. Left \notin 1 .. 6
    BY DEF Emptied
  <1>3. w.reg \notin {"prescale", "compare", "count"}
    BY <1>2 DEF Ordered
  <1> QED BY <1>1, <1>2, <1>3 DEF Period

LEMMA TimeStep ==
  ASSUME ClockTypeOK, HistoryTypeOK, OnTime, Emptied, Left \in 0 .. 7,
         NEW w, Typed(w), Ordered(w), Clocked(w)
  PROVE  OnTime'
  <1>1. g'.since = SinceNext(w)
    BY HistoryIs, Zenon DEF Clocked
  <1>2. /\ ctrl' = IF w.reg = "ctrl" THEN w.value
                   ELSE IF CompareEvent /\ "reload" \notin ctrl THEN ctrl \ {"timer"} ELSE ctrl
        /\ prescaleCount' = PrescaleCountNext
    BY Zenon DEF Clocked, Engine
  <1>3. prescale \in Nat /\ compare \in Nat /\ count \in Nat /\ prescaleCount \in Nat
        /\ compare <= Wrap - 1 /\ g.since \in Int
    BY WrapIs DEF ClockTypeOK, HistoryTypeOK
  <1>4. Period \in Nat \ {0}
    BY SinceIs
  <1>5. CASE w.reg = "ctrl" /\ "timer" \notin w.value
    <2>1. "timer" \notin ctrl' /\ g'.since = Stopped
      BY <1>1, <1>2, <1>5 DEF SinceNext
    <2>2. Stopped' = Stopped
      BY DEF Stopped
    <2> QED BY <2>1, <2>2 DEF OnTime
  <1>6. CASE w.reg = "ctrl" /\ "timer" \in w.value
    <2>1. g'.since = 0
      BY <1>1, <1>6 DEF SinceNext
    <2>2. Left = 1
      BY <1>6 DEF Ordered
    <2>3. ctrl = {} /\ count = 0
      BY <2>2 DEF Emptied
    <2>4. count' = CountNext
      BY <1>6, Zenon DEF Clocked, Engine
    <2>5. count' = 0 /\ prescaleCount' = 0
      BY <1>2, <2>3, <2>4 DEF CountNext, Tick, PrescaleCountNext
    <2>6. prescale' = prescale /\ compare' = compare
      BY <1>6 DEF Clocked, Engine
    <2>7. "timer" \in ctrl'
      BY <1>2, <1>6
    <2>8. 0 <= compare' /\ 0 <= prescale' /\ 0 = 0 * (prescale' + 1) + 0
      BY <1>3, <2>6
    <2> QED BY <2>1, <2>5, <2>7, <2>8 DEF OnTime
  <1>7. CASE w.reg # "ctrl" /\ "timer" \notin ctrl
    <2>1. "timer" \notin ctrl'
      BY <1>2, <1>7
    <2>2. g'.since = g.since
      BY <1>1, <1>7 DEF SinceNext
    <2>3. ASSUME g'.since # Stopped
          PROVE  g'.since = Period' /\ count' = compare' /\ "reload" \notin ctrl'
      <3>1. g.since = Period /\ count = compare /\ "reload" \notin ctrl
        BY <1>7, <2>2, <2>3 DEF OnTime
      <3>2. prescale' = prescale /\ compare' = compare /\ Period' = Period /\ count' = CountNext
        BY <1>7, <2>2, <2>3, UndisturbedIs
      <3>3. CountNext = count
        BY <1>7 DEF CountNext, Tick
      <3> QED BY <1>2, <1>7, <2>2, <3>1, <3>2, <3>3
    <2>4. Stopped' = Stopped
      BY DEF Stopped
    <2> QED BY <2>1, <2>3, <2>4 DEF OnTime
  <1>8. CASE w.reg # "ctrl" /\ "timer" \in ctrl
    <2>1. prescale' = prescale /\ compare' = compare /\ Period' = Period /\ count' = CountNext
      BY <1>8, UndisturbedIs
    <2>2. /\ count <= compare /\ prescaleCount <= prescale
          /\ g.since = count * (prescale + 1) + prescaleCount
      BY <1>8 DEF OnTime
    <2>3. g.since \in 0 .. Period - 1 /\ (CompareEvent <=> g.since = Period - 1)
      BY <1>8, SinceIs
    <2>4. CASE CompareEvent /\ "reload" \in ctrl
      <3>1. "timer" \in ctrl' /\ g'.since = 0
        BY <1>1, <1>2, <1>8, <2>3, <2>4 DEF SinceNext
      <3>2. count' = 0 /\ prescaleCount' = 0
        BY <1>2, <1>8, <2>1, <2>4 DEF CountNext, PrescaleCountNext, CompareEvent
      <3>3. 0 <= compare' /\ 0 <= prescale' /\ 0 = 0 * (prescale' + 1) + 0
        BY <1>3, <2>1
      <3> QED BY <3>1, <3>2, <3>3 DEF OnTime
    <2>5. CASE CompareEvent /\ "reload" \notin ctrl
      <3>1. "timer" \notin ctrl' /\ "reload" \notin ctrl'
        BY <1>2, <1>8, <2>5
      <3>2. g'.since = UpTo(Period, g.since + 1)
        BY <1>1, <1>8, <2>5 DEF SinceNext
      <3>3. g.since + 1 = Period /\ Period \in Nat
        BY <1>4, <2>3, <2>5
      <3>4. g'.since = Period'
        BY <2>1, <3>2, <3>3, UpToIs
      <3>5. count' = compare'
        BY <2>1, <2>5 DEF CountNext, CompareEvent
      <3> QED BY <3>1, <3>4, <3>5 DEF OnTime
    <2>6. CASE ~CompareEvent
      <3>1. "timer" \in ctrl'
        BY <1>2, <1>8, <2>6
      <3>2. g'.since = UpTo(Period, g.since + 1)
        BY <1>1, <1>8, <2>3, <2>6 DEF SinceNext
      <3>3. g.since + 1 <= Period /\ Period \in Nat /\ g.since + 1 \in Nat
        BY <1>4, <2>3, <2>6
      <3>4. g'.since = g.since + 1
        BY <3>2, <3>3, UpToIs
      <3>5. CASE Tick
        <4>1. count # compare /\ prescaleCount = prescale
          BY <2>6, <3>5 DEF CompareEvent, Tick
        <4>2. count + 1 <= compare /\ count + 1 \in Nat /\ count + 1 < Wrap
          BY <1>3, <2>2, <4>1, WrapIs
        <4>3. (count + 1) % Wrap = count + 1
          BY <4>2, WrapIs
        <4>4. count' = count + 1 /\ prescaleCount' = 0
          BY <1>2, <2>1, <2>6, <3>5, <4>3 DEF CountNext, PrescaleCountNext
        <4>5. (count + 1) * (prescale + 1) = count * (prescale + 1) + (prescale + 1)
          BY <1>3
        <4>6. g'.since = count' * (prescale' + 1) + prescaleCount'
          <5> DEFINE x == count * (prescale + 1)
                     y == (count + 1) * (prescale + 1)
          <5>1. x \in Int /\ y \in Int /\ y = x + (prescale + 1)
            BY <1>3, <4>5
          <5>2. g.since = x + prescale
            BY <2>2, <4>1
          <5>3. count' * (prescale' + 1) = y
            BY <2>1, <4>4
          <5> HIDE DEF x, y
          <5> QED BY <1>3, <3>4, <4>4, <5>1, <5>2, <5>3
        <4> QED BY <1>3, <2>1, <3>1, <4>2, <4>4, <4>6 DEF OnTime
      <3>6. CASE ~Tick
        <4>1. count' = count /\ prescaleCount' = prescaleCount + 1
          BY <1>2, <1>8, <2>1, <3>6 DEF CountNext, PrescaleCountNext
        <4>2. prescaleCount + 1 <= prescale
          BY <1>3, <1>8, <2>2, <3>6 DEF Tick
        <4>3. g'.since = count' * (prescale' + 1) + prescaleCount'
          <5> DEFINE x == count * (prescale + 1)
          <5>1. x \in Int /\ count' * (prescale' + 1) = x
            BY <1>3, <2>1, <4>1
          <5>2. g.since = x + prescaleCount
            BY <2>2
          <5> HIDE DEF x
          <5> QED BY <1>3, <3>4, <4>1, <5>1, <5>2
        <4> QED BY <2>1, <2>2, <3>1, <4>1, <4>2, <4>3 DEF OnTime
      <3> QED BY <3>5, <3>6
    <2> QED BY <2>4, <2>5, <2>6
  <1> QED BY <1>5, <1>6, <1>7, <1>8

LEMMA BaseInit == TimerInit => BaseInv
  <1> SUFFICES ASSUME TimerInit PROVE BaseInv
    OBVIOUS
  <1>1. PICK bounce \in BOOLEAN :
          g = [bounce |-> bounce, rest |-> 0, quiet |-> 0, since |-> Stopped, sure |-> FALSE,
               lag |-> 0, acked |-> 0, edgeAt |-> [c \in Channels |-> Stopped]]
    BY DEF TimerInit
  <1>2. Longest \in Nat /\ 0 \in Filters /\ Stopped \in Int
    BY FiltersAre DEF Filters, Stopped
  <1>3. LevelsTypeOK
    <2>1. ClearFront \in [meta : BOOLEAN, sync : BOOLEAN, filtered : BOOLEAN, count : 0 .. 0]
      BY DEF ClearFront
    <2>2. shaft \in [quarter : 0 .. 3, edge : 0 .. 3]
      BY DEF TimerInit
    <2> QED BY <1>2, <2>1, <2>2 DEF TimerInit, LevelsTypeOK
  <1>4. ClockTypeOK /\ OutputTypeOK
    <2>1. 0 \in 0 .. Wrap - 1 /\ Wrap - 1 \in 0 .. Wrap - 1
      BY WrapIs
    <2>2. ClockTypeOK
      BY <2>1 DEF TimerInit, ClockTypeOK
    <2>3. capture \in [Channels -> 0 .. Wrap - 1]
      BY <2>1 DEF TimerInit
    <2>4. position = 0 /\ pending = {} /\ forwards = FALSE
      BY Zenon DEF TimerInit
    <2> QED BY <2>1, <2>2, <2>3, <2>4 DEF OutputTypeOK
  <1>5. HistoryTypeOK
    BY <1>1, <1>2, WrapIs DEF HistoryTypeOK
  <1>6. Planned /\ Left = 0
    BY LeftIs DEF TimerInit, Planned
  <1>7. Emptied
    BY <1>6 DEF Emptied
  <1>8. OnTime
    BY <1>1 DEF TimerInit, OnTime
  <1>9. PendingTellsThePosition
    BY <1>1 DEF TimerInit, PendingTellsThePosition
  <1> QED BY <1>3, <1>4, <1>5, <1>6, <1>7, <1>8, <1>9 DEF BaseInv

LEMMA BaseClock ==
  ASSUME BaseInv, NEW w, Typed(w), Ordered(w), Clocked(w), Planned'
  PROVE  BaseInv'
  <1>1. Left \in 0 .. 7
    BY LeftType DEF BaseInv
  <1>2. LevelsTypeOK'
    BY LevelsStep DEF BaseInv
  <1>3. ClockTypeOK'
    BY ClockStep DEF BaseInv
  <1>4. OutputTypeOK'
    BY OutputStep DEF BaseInv
  <1>5. HistoryTypeOK'
    BY <1>2, <1>4, HistoryTypeStep DEF BaseInv
  <1>6. Emptied'
    BY <1>1, EmptiedStep DEF BaseInv
  <1>7. OnTime'
    BY <1>1, TimeStep DEF BaseInv
  <1>8. PendingTellsThePosition'
    BY ToldStep DEF BaseInv
  <1> QED BY <1>2, <1>3, <1>4, <1>5, <1>6, <1>7, <1>8 DEF BaseInv

LEMMA BaseStutter ==
  ASSUME BaseInv, UNCHANGED timerVars
  PROVE  BaseInv'
  <1>1. LevelsTypeOK' /\ ClockTypeOK' /\ OutputTypeOK' /\ HistoryTypeOK'
    BY DEF timerVars, BaseInv, LevelsTypeOK, ClockTypeOK, OutputTypeOK, HistoryTypeOK
  <1>2. Planned' /\ Emptied' /\ PendingTellsThePosition'
    BY DEF timerVars, BaseInv, Planned, Emptied, Left, PendingTellsThePosition
  <1>3. OnTime'
    BY DEF timerVars, BaseInv, OnTime, Period
  <1> QED BY <1>1, <1>2, <1>3 DEF BaseInv

LEMMA BaseInvariant == TimerSpec => []BaseInv
  <1>1. BaseInv /\ [TimerNext]_timerVars => BaseInv'
    <2> SUFFICES ASSUME BaseInv, [TimerNext]_timerVars PROVE BaseInv'
      OBVIOUS
    <2>1. CASE UNCHANGED timerVars
      BY <2>1, BaseStutter
    <2>2. CASE TimerNext
      <3>1. Planned' /\ \E w : Clocked(w) /\ Goes(w)
        BY <2>2, TimerGoes DEF BaseInv
      <3>2. PICK w : Clocked(w) /\ Goes(w)
        BY <3>1
      <3> QED BY <3>1, <3>2, GoesIs, BaseClock
    <2> QED BY <2>1, <2>2
  <1> QED BY <1>1, BaseInit, PTL DEF TimerSpec

\* TimerTypeOK, whatever the configurations.
THEOREM TimerTypes == TimerSpec => []TimerTypeOK
  <1>1. BaseInv => TimerTypeOK
    BY DEF BaseInv, LevelsTypeOK, ClockTypeOK, OutputTypeOK, TimerTypeOK
  <1> QED BY <1>1, BaseInvariant, PTL

\* PendingTellsThePosition: no step of the decoder goes by without its event,
\* also in the clock in which software acknowledges the one before.
THEOREM StepsAreTold == TimerSpec => []PendingTellsThePosition
  <1>1. BaseInv => PendingTellsThePosition
    BY DEF BaseInv
  <1> QED BY <1>1, BaseInvariant, PTL

\* CompareOnTime, for every prescaler and compare value and whatever the timer
\* did before omcu_timer1_configure was called.
THEOREM TimerIsOnTime == TimerSpec => []CompareOnTime
  <1>1. BaseInv => CompareOnTime
    <2> SUFFICES ASSUME BaseInv, g.since # Stopped PROVE CompareEvent <=> g.since = Period - 1
      BY DEF CompareOnTime
    <2>1. CASE "timer" \in ctrl
      BY <2>1, SinceIs DEF BaseInv
    <2>2. CASE "timer" \notin ctrl
      <3>1. g.since = Period /\ Period \in Nat \ {0}
        BY <2>2, SinceIs DEF BaseInv, OnTime
      <3> QED BY <2>2, <3>1 DEF CompareEvent, Tick
    <2> QED BY <2>1, <2>2
  <1> QED BY <1>1, BaseInvariant, PTL

-----------------------------------------------------------------------------
(* The shaft through the front ends.                                       *)

\* A channel at its contact and in the stages of its front end.
Contact(c) == Level(shaft.quarter)[c]
Meta(c)    == front[c].meta
Sync(c)    == front[c].sync
Out(c)     == front[c].filtered
Run(c)     == front[c].count

\* The channel that changes on an edge of the shaft.
EdgeChannel(e) == IF e \in {0, 2} THEN "B" ELSE "A"

\* What has come through while the shaft stayed.
Rested ==
  \A c \in Channels :
    /\ g.rest >= 1 => Meta(c) = Contact(c)
    /\ g.rest >= 2 => /\ Sync(c) = Contact(c)
                      /\ Sync(c) = Out(c) \/ Run(c) >= g.rest - 2 \/ Run(c) >= g.quiet

\* Only the channel of the last edge may move; the other one is through, and
\* its last sample is accepted before a sample of the first arrives.
InTurn ==
  g.sure =>
    /\ g.quiet > filter
    /\ \A c \in Channels : Contact(c) # Meta(c) => c = EdgeChannel(shaft.edge)
    /\ \A c \in Channels : c # EdgeChannel(shaft.edge) =>
         /\ filter >= 1 => Contact(c) = Meta(c) /\ Meta(c) = Sync(c)
         /\ Sync(c) = Out(c) \/ Run(c) >= filter - 1
    /\ \A c, d \in Channels : (c # d /\ Meta(c) # Sync(c)) =>
         Meta(d) = Sync(d) /\ (Sync(d) = Out(d) \/ Run(d) >= filter)
    /\ \A c, d \in Channels : (c # d /\ Sync(c) # Out(c)) => Sync(d) = Out(d)

\* All stages of both channels show the contacts.
Settled == \A c \in Channels : Meta(c) = Contact(c) /\ Sync(c) = Contact(c) /\ Out(c) = Contact(c)

LEMMA StagesAre ==
  ASSUME LevelsTypeOK, NEW c \in Channels
  PROVE  /\ Contact(c) \in BOOLEAN /\ Meta(c) \in BOOLEAN /\ Sync(c) \in BOOLEAN /\ Out(c) \in BOOLEAN
         /\ Run(c) \in Nat /\ Run(c) <= filter /\ filter \in Nat
  <1>1. front[c] \in [meta : BOOLEAN, sync : BOOLEAN, filtered : BOOLEAN, count : 0 .. filter]
    BY DEF LevelsTypeOK
  <1>2. filter \in Nat
    BY FiltersAre DEF LevelsTypeOK
  <1>3. Contact(c) \in BOOLEAN
    BY LevelsAre DEF Contact
  <1> QED BY <1>1, <1>2, <1>3 DEF Meta, Sync, Out, Run

LEMMA StagesStep ==
  ASSUME LevelsTypeOK, NEW w, Clocked(w), NEW c \in Channels
  PROVE  /\ Meta(c)' = Contact(c) /\ Sync(c)' = Meta(c)
         /\ Out(c)' = Accepted(front[c], filter)
         /\ Sync(c) = Out(c) => Out(c)' = Out(c) /\ Run(c)' = 0
         /\ (Sync(c) # Out(c) /\ Run(c) = filter) => Out(c)' = Sync(c) /\ Run(c)' = 0
         /\ (Sync(c) # Out(c) /\ Run(c) # filter) =>
              Out(c)' = Out(c) /\ (w.reg # "filter" => Run(c)' = Run(c) + 1)
         /\ w.reg = "filter" => Run(c)' = 0
  <1> DEFINE l == Level(shaft.quarter)[c]
             a == Accepted(front[c], filter)
             n == IF w.reg = "filter" THEN 0 ELSE FilterCount(front[c], filter)
  <1>1. front'[c] = [meta |-> l, sync |-> front[c].meta, filtered |-> a, count |-> n]
    BY FrontIs DEF Clocked, Engine
  <1>2. Meta(c)' = l /\ Sync(c)' = front[c].meta /\ Out(c)' = a /\ Run(c)' = n
    <2> HIDE DEF l, a, n
    <2> QED BY <1>1 DEF Meta, Sync, Out, Run
  <1>3. /\ Sync(c) = Out(c) => a = Out(c) /\ n = 0
        /\ (Sync(c) # Out(c) /\ Run(c) = filter) => a = Sync(c) /\ n = 0
        /\ (Sync(c) # Out(c) /\ Run(c) # filter) =>
             a = Out(c) /\ (w.reg # "filter" => n = Run(c) + 1)
        /\ w.reg = "filter" => n = 0
    BY DEF Sync, Out, Run, Accepted, Accepts, FilterCount
  <1>4. l = Contact(c) /\ front[c].meta = Meta(c)
    BY DEF Contact, Meta
  <1> QED BY <1>2, <1>3, <1>4, Zenon

LEMMA ContactsMove ==
  ASSUME LevelsTypeOK, ShaftMoves
  PROVE  /\ shaft' = shaft => \A c \in Channels : Contact(c)' = Contact(c)
         /\ shaft' # shaft => /\ g.rest >= filter \/ (g.bounce /\ shaft'.edge = shaft.edge)
                              /\ \A c \in Channels : Contact(c)' # Contact(c) => c = EdgeChannel(shaft'.edge)
                              /\ \A c \in Channels : c = EdgeChannel(shaft'.edge) => Contact(c)' # Contact(c)
  <1>1. shaft' = shaft => \A c \in Channels : Contact(c)' = Contact(c)
    BY DEF Contact
  <1>2. ASSUME NEW d \in {1, 3}, Turns(d)
        PROVE  /\ g.rest >= filter \/ (g.bounce /\ shaft'.edge = shaft.edge)
               /\ \A c \in Channels : Contact(c)' # Contact(c) => c = EdgeChannel(shaft'.edge)
               /\ \A c \in Channels : c = EdgeChannel(shaft'.edge) => Contact(c)' # Contact(c)
    <2> DEFINE e == IF d = 1 THEN shaft.quarter ELSE (shaft.quarter + 3) % 4
               q == (shaft.quarter + d) % 4
    <2>1. shaft' = [quarter |-> q, edge |-> e] /\ (g.rest >= filter \/ (g.bounce /\ e = shaft.edge))
      BY <1>2 DEF Turns
    <2>2. shaft'.quarter = q /\ shaft'.edge = e
      <3> HIDE DEF q, e
      <3> QED BY <2>1
    <2>3. shaft.quarter \in 0 .. 3
      BY DEF LevelsTypeOK
    <2>4. /\ Contact("A") = (shaft.quarter \in {2, 3}) /\ Contact("B") = (shaft.quarter \in {1, 2})
          /\ Contact("A")' = (shaft'.quarter \in {2, 3}) /\ Contact("B")' = (shaft'.quarter \in {1, 2})
      <3>1. "A" \in Channels /\ "B" \in Channels
        BY DEF Channels
      <3> QED BY <3>1, LevelsAre DEF Contact
    <2>5. /\ EdgeChannel(e) = "A" => Contact("A")' # Contact("A") /\ Contact("B")' = Contact("B")
          /\ EdgeChannel(e) = "B" => Contact("B")' # Contact("B") /\ Contact("A")' = Contact("A")
          /\ EdgeChannel(e) \in {"A", "B"}
      <3>1. CASE d = 1
        BY <2>2, <2>3, <2>4, <3>1 DEF EdgeChannel
      <3>2. CASE d = 3
        BY <2>2, <2>3, <2>4, <3>2 DEF EdgeChannel
      <3> QED BY <3>1, <3>2
    <2> HIDE DEF q, e
    <2>6. \A c \in Channels : c = "A" \/ c = "B"
      BY DEF Channels
    <2> QED BY <2>1, <2>2, <2>5, <2>6
  <1> QED BY <1>1, <1>2 DEF ShaftMoves

LEMMA RestedStep ==
  ASSUME LevelsTypeOK, HistoryTypeOK, Rested, NEW w, Clocked(w)
  PROVE  Rested'
  <1>1. /\ g'.rest = IF shaft' = shaft THEN UpTo(Longest + 3, g.rest + 1) ELSE 0
        /\ g'.quiet = IF w.reg = "filter" THEN 0 ELSE UpTo(Longest + 1, g.quiet + 1)
    BY HistoryIs, Zenon DEF Clocked
  <1>2. g.rest \in Nat /\ g.quiet \in Nat /\ Longest \in Nat
    BY FiltersAre DEF HistoryTypeOK
  <1>3. /\ shaft' # shaft => g'.rest = 0
        /\ g'.rest <= g.rest + 1 /\ g'.rest \in Nat
        /\ g'.quiet <= g.quiet + 1 /\ g'.quiet \in Nat
        /\ w.reg = "filter" => g'.quiet = 0
    BY <1>1, <1>2 DEF UpTo
  <1>4. ASSUME NEW c \in Channels, g'.rest >= 1 PROVE Meta(c)' = Contact(c)'
    BY <1>3, <1>4, StagesStep, ContactsMove DEF Clocked
  <1>5. ASSUME NEW c \in Channels, g'.rest >= 2
        PROVE  /\ Sync(c)' = Contact(c)'
               /\ Sync(c)' = Out(c)' \/ Run(c)' >= g'.rest - 2 \/ Run(c)' >= g'.quiet
    <2>1. g.rest >= 1 /\ shaft' = shaft
      BY <1>2, <1>3, <1>5
    <2>2. Meta(c) = Contact(c) /\ Contact(c)' = Contact(c)
      BY <2>1, ContactsMove DEF Rested, Clocked
    <2>3. Sync(c)' = Contact(c)'
      BY <2>2, StagesStep
    <2>4. Run(c) \in Nat /\ filter \in Nat
      BY StagesAre
    <2>5. Run(c)' = 0 \/ Run(c)' = Run(c) + 1
      BY StagesStep
    <2>6. CASE g'.rest = 2
      BY <2>3, <2>4, <2>5, <2>6
    <2>7. CASE g'.rest # 2
      <3>1. g.rest >= 2
        BY <1>2, <1>3, <1>5, <2>7
      <3>2. Sync(c) = Contact(c) /\ (Sync(c) = Out(c) \/ Run(c) >= g.rest - 2 \/ Run(c) >= g.quiet)
        BY <3>1 DEF Rested
      <3>3. Sync(c)' = Sync(c)
        BY <2>2, <3>2, StagesStep
      <3>4. CASE Sync(c) = Out(c) \/ Run(c) = filter
        BY <2>3, <3>3, <3>4, StagesStep
      <3>5. CASE w.reg = "filter"
        BY <1>3, <2>3, <3>5, StagesStep
      <3>6. CASE Sync(c) # Out(c) /\ Run(c) # filter /\ w.reg # "filter"
        <4>1. Run(c)' = Run(c) + 1
          BY <3>6, StagesStep
        <4>2. Run(c) >= g.rest - 2 \/ Run(c) >= g.quiet
          BY <3>2, <3>6
        <4> QED BY <1>2, <1>3, <2>3, <2>4, <4>1, <4>2
      <3> QED BY <3>4, <3>5, <3>6
    <2> QED BY <2>6, <2>7
  <1> QED BY <1>4, <1>5 DEF Rested

\* A shaft that stays long enough is through to the outputs.
LEMMA QuietIsSettled ==
  ASSUME LevelsTypeOK, HistoryTypeOK, Rested, Quiet
  PROVE  Settled
  <1>1. filter \in Nat /\ g.rest \in Nat /\ g.quiet \in Nat
    BY FiltersAre DEF LevelsTypeOK, HistoryTypeOK
  <1>2. g.rest >= 2 /\ g.rest > filter + 2 /\ g.quiet > filter
    BY <1>1 DEF Quiet
  <1>3. ASSUME NEW c \in Channels
        PROVE  Meta(c) = Contact(c) /\ Sync(c) = Contact(c) /\ Out(c) = Contact(c)
    <2>1. Run(c) \in Nat /\ Run(c) <= filter
      BY StagesAre
    <2>2. Meta(c) = Contact(c) /\ Sync(c) = Contact(c)
          /\ (Sync(c) = Out(c) \/ Run(c) >= g.rest - 2 \/ Run(c) >= g.quiet)
      BY <1>1, <1>2 DEF Rested
    <2> QED BY <1>1, <1>2, <2>1, <2>2
  <1> QED BY <1>3 DEF Settled

\* The decoder may be trusted from a clock in which everything is settled.
LEMMA SettledStep ==
  ASSUME LevelsTypeOK, Settled, NEW w, Clocked(w), shaft' = shaft
  PROVE  Settled' /\ \A c \in Channels : Contact(c)' = Contact(c)
  <1>1. ASSUME NEW c \in Channels
        PROVE  Meta(c)' = Contact(c)' /\ Sync(c)' = Contact(c)' /\ Out(c)' = Contact(c)'
               /\ Contact(c)' = Contact(c)
    <2>1. Contact(c)' = Contact(c)
      BY ContactsMove DEF Clocked
    <2> QED BY <2>1, StagesStep DEF Settled
  <1> QED BY <1>1 DEF Settled

\* How sure begins and goes on.
LEMMA SureIs ==
  ASSUME LevelsTypeOK, HistoryTypeOK, Rested, NEW w, Typed(w), Clocked(w), g'.sure
  PROVE  \/ w.reg \in {"ctrl", "encoder"} /\ Quiet /\ Settled /\ Settled' /\ shaft' = shaft
         \/ w.reg \notin {"ctrl", "encoder", "filter"} /\ g.sure
  <1>1. g'.sure = IF w.reg \in {"ctrl", "encoder"} THEN Quiet /\ shaft' = shaft
                                    ELSE g.sure /\ w.reg # "filter"
    BY HistoryIs, Zenon DEF Clocked
  <1>2. CASE w.reg \in {"ctrl", "encoder"}
    <2>1. Quiet /\ shaft' = shaft
      BY <1>1, <1>2
    <2>2. Settled
      BY <2>1, QuietIsSettled
    <2> QED BY <1>2, <2>1, <2>2, SettledStep
  <1>3. CASE w.reg \notin {"ctrl", "encoder"}
    BY <1>1, <1>3
  <1> QED BY <1>2, <1>3

LEMMA QuietGoesOn ==
  ASSUME LevelsTypeOK, HistoryTypeOK, NEW w, Clocked(w), w.reg # "filter", g.quiet > filter
  PROVE  g'.quiet > filter' /\ filter' = filter
  <1>1. g'.quiet = UpTo(Longest + 1, g.quiet + 1)
    BY HistoryIs, Zenon DEF Clocked
  <1>2. filter \in Nat /\ filter <= Longest /\ Longest \in Nat /\ g.quiet \in Nat
    BY FiltersAre DEF LevelsTypeOK, HistoryTypeOK
  <1>3. filter' = filter
    BY DEF Clocked, Engine
  <1> QED BY <1>1, <1>2, <1>3 DEF UpTo

LEMMA SettledInTurn ==
  ASSUME LevelsTypeOK, Settled, g.quiet > filter
  PROVE  InTurn
  BY DEF Settled, InTurn

\* A channel that is not on its edge passes its level on.
LEMMA ResterStep ==
  ASSUME LevelsTypeOK, HistoryTypeOK, Rested, InTurn, g.sure, NEW w, Typed(w), Clocked(w),
         w.reg # "filter", NEW c \in Channels, c # EdgeChannel(shaft'.edge)
  PROVE  /\ filter >= 1 => Contact(c)' = Meta(c)' /\ Meta(c)' = Sync(c)'
         /\ Sync(c)' = Out(c)' \/ Run(c)' >= filter - 1
  <1>1. /\ Meta(c)' = Contact(c) /\ Sync(c)' = Meta(c)
        /\ Sync(c) = Out(c) => Out(c)' = Out(c) /\ Run(c)' = 0
        /\ (Sync(c) # Out(c) /\ Run(c) = filter) => Out(c)' = Sync(c) /\ Run(c)' = 0
        /\ (Sync(c) # Out(c) /\ Run(c) # filter) => Out(c)' = Out(c) /\ Run(c)' = Run(c) + 1
    BY StagesStep
  <1>2. Run(c) \in Nat /\ filter \in Nat /\ Run(c) <= filter /\ Run(c)' \in Nat
    <2>1. Run(c) \in Nat /\ filter \in Nat /\ Run(c) <= filter
      BY StagesAre
    <2> QED BY <1>1, <2>1
  <1>3. Contact(c)' = Contact(c)
    BY ContactsMove DEF Clocked
  <1>4. g.rest \in Nat /\ g.quiet \in Nat /\ g.quiet > filter
    BY DEF HistoryTypeOK, InTurn
  <1>5. CASE c # EdgeChannel(shaft.edge)
    <2>1. /\ filter >= 1 => Contact(c) = Meta(c) /\ Meta(c) = Sync(c)
          /\ Sync(c) = Out(c) \/ Run(c) >= filter - 1
      BY <1>5 DEF InTurn
    <2> QED BY <1>1, <1>2, <1>3, <2>1
  <1>6. CASE c = EdgeChannel(shaft.edge)
    <2>1. g.rest >= filter
      <3>1. shaft' # shaft /\ shaft'.edge # shaft.edge
        BY <1>6
      <3> QED BY <3>1, ContactsMove DEF Clocked
    <2>2. filter >= 1 => Meta(c) = Contact(c)
      BY <1>2, <1>4, <2>1 DEF Rested
    <2>3. filter >= 2 => Sync(c) = Contact(c) /\ (Sync(c) = Out(c) \/ Run(c) >= filter - 2)
      <3>1. filter >= 2 => Sync(c) = Contact(c)
                           /\ (Sync(c) = Out(c) \/ Run(c) >= g.rest - 2 \/ Run(c) >= g.quiet)
        BY <1>2, <1>4, <2>1 DEF Rested
      <3> QED BY <1>2, <1>4, <2>1, <3>1
    <2>4. filter >= 1 => Contact(c)' = Meta(c)' /\ Meta(c)' = Sync(c)'
      BY <1>1, <1>3, <2>2
    <2>5. Sync(c)' = Out(c)' \/ Run(c)' >= filter - 1
      <3>1. CASE filter < 2
        BY <1>2, <3>1
      <3>2. CASE filter >= 2
        <4>1. Sync(c)' = Sync(c)
          BY <1>1, <1>2, <2>2, <2>3, <3>2
        <4> QED BY <1>1, <1>2, <2>3, <3>2, <4>1
      <3> QED BY <1>2, <3>1, <3>2
    <2> QED BY <2>4, <2>5
  <1> QED BY <1>5, <1>6

LEMMA InTurnStep ==
  ASSUME LevelsTypeOK, LevelsTypeOK', HistoryTypeOK, Rested, InTurn, NEW w, Typed(w), Clocked(w)
  PROVE  InTurn'
  <1> SUFFICES ASSUME g'.sure PROVE InTurn'
    BY DEF InTurn
  <1>1. CASE w.reg \in {"ctrl", "encoder"} /\ Quiet /\ Settled /\ Settled' /\ shaft' = shaft
    <2>1. w.reg # "filter" /\ g.quiet > filter
      BY <1>1 DEF Quiet
    <2>2. g'.quiet > filter'
      BY <2>1, QuietGoesOn
    <2>3. \A c \in Channels : Contact(c)' = Meta(c)' /\ Sync(c)' = Meta(c)' /\ Out(c)' = Sync(c)'
      BY <1>1 DEF Settled
    <2> QED BY <2>2, <2>3 DEF InTurn
  <1>2. CASE w.reg \notin {"ctrl", "encoder", "filter"} /\ g.sure
    <2>1. w.reg # "filter" /\ g.quiet > filter
      BY <1>2 DEF InTurn
    <2>2. g'.quiet > filter' /\ filter' = filter
      BY <2>1, QuietGoesOn
    <2>3. \A c \in Channels :
            /\ Meta(c)' = Contact(c) /\ Sync(c)' = Meta(c)
            /\ Sync(c) = Out(c) => Out(c)' = Out(c) /\ Run(c)' = 0
            /\ (Sync(c) # Out(c) /\ Run(c) = filter) => Out(c)' = Sync(c) /\ Run(c)' = 0
            /\ (Sync(c) # Out(c) /\ Run(c) # filter) => Out(c)' = Out(c) /\ Run(c)' = Run(c) + 1
      BY <2>1, StagesStep
    <2>4. \A c \in Channels : Contact(c)' # Meta(c)' => c = EdgeChannel(shaft'.edge)
      BY <2>3, ContactsMove DEF Clocked
    <2>5. \A c \in Channels : c # EdgeChannel(shaft'.edge) =>
         /\ filter' >= 1 => Contact(c)' = Meta(c)' /\ Meta(c)' = Sync(c)'
         /\ Sync(c)' = Out(c)' \/ Run(c)' >= filter' - 1
      BY <1>2, <2>1, <2>2, ResterStep
    <2>6. \A c \in Channels : Run(c) \in Nat /\ Run(c) <= filter /\ filter \in Nat
                              /\ Meta(c) \in BOOLEAN /\ Sync(c) \in BOOLEAN /\ Out(c) \in BOOLEAN
      BY StagesAre
    <2>7. /\ \A c \in Channels : Contact(c) # Meta(c) => c = EdgeChannel(shaft.edge)
          /\ \A c \in Channels : c # EdgeChannel(shaft.edge) =>
               /\ filter >= 1 => Contact(c) = Meta(c) /\ Meta(c) = Sync(c)
               /\ Sync(c) = Out(c) \/ Run(c) >= filter - 1
          /\ \A c, d \in Channels : (c # d /\ Meta(c) # Sync(c)) =>
               Meta(d) = Sync(d) /\ (Sync(d) = Out(d) \/ Run(d) >= filter)
          /\ \A c, d \in Channels : (c # d /\ Sync(c) # Out(c)) => Sync(d) = Out(d)
      BY <1>2 DEF InTurn
    <2>8. ASSUME NEW c \in Channels, NEW d \in Channels, c # d, Meta(c)' # Sync(c)'
          PROVE  Meta(d)' = Sync(d)' /\ (Sync(d)' = Out(d)' \/ Run(d)' >= filter')
      <3>1. c = EdgeChannel(shaft.edge) /\ d # EdgeChannel(shaft.edge)
        BY <2>3, <2>7, <2>8
      <3>2. Contact(d) = Meta(d)
        BY <2>7, <3>1
      <3>3. /\ filter >= 1 => Meta(d) = Sync(d)
            /\ Sync(d) = Out(d) \/ Run(d) >= filter - 1
        BY <2>7, <3>1
      <3>4. CASE filter = 0
        <4>1. Run(d)' \in Nat
          BY <2>3, <2>6
        <4> QED BY <2>2, <2>3, <3>2, <3>4, <4>1
      <3>5. CASE filter # 0
        <4>1. filter >= 1
          BY <2>6, <3>5
        <4>2. Sync(d)' = Sync(d)
          BY <2>3, <3>3, <4>1
        <4> QED BY <2>2, <2>3, <2>6, <3>2, <3>3, <4>1, <4>2
      <3> QED BY <3>4, <3>5
    <2>9. ASSUME NEW c \in Channels, NEW d \in Channels, c # d, Sync(c)' # Out(c)', Sync(d)' # Out(d)'
          PROVE  FALSE
      <3>1. ASSUME NEW x \in Channels, Meta(x) = Sync(x), Sync(x)' # Out(x)'
            PROVE  Sync(x) # Out(x) /\ Run(x) # filter
        BY <2>3, <3>1
      <3>2. CASE Meta(c) # Sync(c)
        <4>1. Meta(d) = Sync(d) /\ (Sync(d) = Out(d) \/ Run(d) >= filter)
          BY <2>7, <2>9, <3>2
        <4> QED BY <2>6, <2>9, <3>1, <4>1
      <3>3. CASE Meta(d) # Sync(d)
        <4>1. Meta(c) = Sync(c) /\ (Sync(c) = Out(c) \/ Run(c) >= filter)
          BY <2>7, <2>9, <3>3
        <4> QED BY <2>6, <2>9, <3>1, <4>1
      <3>4. CASE Meta(c) = Sync(c) /\ Meta(d) = Sync(d)
        BY <2>7, <2>9, <3>1, <3>4
      <3> QED BY <3>2, <3>3, <3>4
    <2> QED BY <2>2, <2>4, <2>5, <2>8, <2>9 DEF InTurn
  <1> QED BY <1>1, <1>2, SureIs

-----------------------------------------------------------------------------
(* Counters modulo Wrap.                                                   *)

Alike(a, b) == a % Wrap = b % Wrap

LEMMA QuotientIs ==
  ASSUME NEW n \in Nat \ {0}, NEW t \in Int
  PROVE  t \div n \in Int /\ t % n \in 0 .. n - 1 /\ t = n * (t \div n) + (t % n)
  OBVIOUS

LEMMA RestIsUnique ==
  ASSUME NEW n \in Nat \ {0}, NEW k \in Int, NEW r \in 0 .. n - 1
  PROVE  (n * k + r) % n = r
  OBVIOUS

\* Numbers apart by a multiple of the modulus have one rest.
LEMMA RestMoves ==
  ASSUME NEW n \in Nat \ {0}, NEW t \in Int, NEW d \in Int
  PROVE  (t + n * d) % n = t % n
  <1> DEFINE k == t \div n
             r == t % n
  <1>1. k \in Int /\ r \in 0 .. n - 1 /\ t = n * k + r
    BY QuotientIs
  <1> HIDE DEF k, r
  <1>2. t + n * d = n * (k + d) + r /\ k + d \in Int
    BY <1>1
  <1> QED BY <1>1, <1>2, RestIsUnique DEF r

LEMMA AlikeIs ==
  ASSUME NEW a \in Int, NEW b \in Int
  PROVE  Alike(a, b) <=> \E k \in Int : a = b + Wrap * k
  <1>1. Wrap \in Nat \ {0}
    BY WrapIs
  <1>2. ASSUME NEW k \in Int, a = b + Wrap * k PROVE Alike(a, b)
    BY <1>1, <1>2, RestMoves DEF Alike
  <1>3. ASSUME Alike(a, b) PROVE \E k \in Int : a = b + Wrap * k
    <2> DEFINE i == a \div Wrap
               j == b \div Wrap
               r == a % Wrap
    <2>1. i \in Int /\ j \in Int /\ r \in Int /\ a = Wrap * i + r /\ b = Wrap * j + r
      BY <1>1, <1>3, QuotientIs DEF Alike
    <2> HIDE DEF i, j, r
    <2>2. a = b + Wrap * (i - j) /\ i - j \in Int
      BY <1>1, <2>1
    <2> QED BY <2>2
  <1> QED BY <1>2, <1>3

LEMMA AlikeRest ==
  ASSUME NEW a \in Int
  PROVE  Alike(a % Wrap, a) /\ a % Wrap \in 0 .. Wrap - 1
  <1>1. Wrap \in Nat \ {0}
    BY WrapIs
  <1>2. a % Wrap \in 0 .. Wrap - 1
    BY <1>1, QuotientIs
  <1>3. (Wrap * 0 + (a % Wrap)) % Wrap = a % Wrap
    BY <1>1, <1>2, RestIsUnique
  <1>4. Wrap * 0 + (a % Wrap) = a % Wrap
    BY <1>1, <1>2
  <1> QED BY <1>2, <1>3, <1>4 DEF Alike

LEMMA AlikeZero ==
  ASSUME NEW a \in 0 .. Wrap - 1, Alike(a, 0)
  PROVE  a = 0
  <1>1. Wrap \in Nat \ {0}
    BY WrapIs
  <1>2. ASSUME NEW x \in 0 .. Wrap - 1 PROVE x % Wrap = x
    <2>1. (Wrap * 0 + x) % Wrap = x
      BY <1>1, RestIsUnique
    <2>2. Wrap * 0 + x = x
      BY <1>1
    <2> QED BY <2>1, <2>2
  <1>3. 0 \in 0 .. Wrap - 1
    BY <1>1
  <1> QED BY <1>2, <1>3 DEF Alike

\* The lag of a counter that makes the step t while its goal makes the step m.
LEMMA LagMoves ==
  ASSUME NEW lag \in Int, NEW e \in Int, NEW m \in Int, NEW t \in Int,
         NEW x \in Int, NEW y \in Int, Alike(lag, e), Alike(y, x + t)
  PROVE  Alike((lag + m - (y - x)) % Wrap, e + m - t)
  <1>1. PICK i \in Int : lag = e + Wrap * i
    BY AlikeIs
  <1>2. x + t \in Int
    OBVIOUS
  <1>3. PICK j \in Int : y = (x + t) + Wrap * j
    BY <1>2, AlikeIs
  <1>4. Wrap \in Nat
    BY WrapIs
  <1> DEFINE a == lag + m - (y - x)
             b == e + m - t
  <1>5. a = b + Wrap * (i - j) /\ i - j \in Int /\ a \in Int /\ b \in Int
    <2>1. Wrap * (i - j) = Wrap * i - Wrap * j
      BY <1>4
    <2>2. Wrap * i \in Int /\ Wrap * j \in Int
      BY <1>4
    <2> DEFINE wi == Wrap * i
               wj == Wrap * j
    <2> HIDE DEF wi, wj
    <2>3. lag = e + wi /\ y = (x + t) + wj /\ wi \in Int /\ wj \in Int
          /\ Wrap * (i - j) = wi - wj
      BY <1>1, <1>3, <2>1, <2>2 DEF wi, wj
    <2> QED BY <2>3
  <1> HIDE DEF a, b
  <1>6. Alike(a, b)
    BY <1>5, AlikeIs
  <1>7. Alike(a % Wrap, a)
    BY <1>5, AlikeRest
  <1> QED BY <1>6, <1>7 DEF Alike, a, b

-----------------------------------------------------------------------------
(* The decoder.                                                            *)

\* The quarter that two levels show, and the way from a quarter to the next.
QuarterOf(a, b) == IF a THEN IF b THEN 2 ELSE 3 ELSE IF b THEN 1 ELSE 0
Way(x, y) == IF x = (y + 1) % 4 THEN 1 ELSE IF y = (x + 1) % 4 THEN 0 - 1 ELSE 0

InDirection(x) == IF "reverse" \in ctrl THEN 0 - x ELSE x

MetaQuarter == QuarterOf(Meta("A"), Meta("B"))
SyncQuarter == QuarterOf(Sync("A"), Sync("B"))
OutQuarter  == QuarterOf(Out("A"), Out("B"))

\* The steps of the shaft that are still in the front ends.
Underway == Way(shaft.quarter, MetaQuarter) + Way(MetaQuarter, SyncQuarter)
              + Way(SyncQuarter, OutQuarter)

Lagging ==
  /\ "encoder" \notin ctrl => g.lag = 0
  /\ (g.sure /\ "encoder" \in ctrl) => Alike(g.lag, InDirection(Underway))

LEMMA QuartersAre ==
  ASSUME NEW a \in BOOLEAN, NEW b \in BOOLEAN
  PROVE  QuarterOf(a, b) \in 0 .. 3
  BY DEF QuarterOf

LEMMA WaysAre ==
  ASSUME NEW x \in 0 .. 3, NEW y \in 0 .. 3
  PROVE  /\ Way(x, y) \in {0 - 1, 0, 1}
         /\ (x - y) % 4 = 1 <=> Way(x, y) = 1
         /\ (x - y) % 4 = 3 <=> Way(x, y) = 0 - 1
         /\ x = y => Way(x, y) = 0
  BY DEF Way

LEMMA NoLeap ==
  ASSUME NEW fa \in BOOLEAN, NEW fb \in BOOLEAN, NEW ha \in BOOLEAN, NEW hb \in BOOLEAN,
         ha = fa \/ hb = fb
  PROVE  (QuarterOf(ha, hb) - QuarterOf(fa, fb)) % 4 # 2
  BY DEF QuarterOf

LEMMA QuarterIs ==
  ASSUME NEW level
  PROVE  Quarter(level) = QuarterOf(level["A"], level["B"])
  BY DEF Quarter, QuarterOf

LEMMA StageQuarters ==
  ASSUME LevelsTypeOK
  PROVE  /\ shaft.quarter \in 0 .. 3 /\ MetaQuarter \in 0 .. 3
         /\ SyncQuarter \in 0 .. 3 /\ OutQuarter \in 0 .. 3
         /\ shaft.quarter = QuarterOf(Contact("A"), Contact("B"))
  <1>1. "A" \in Channels /\ "B" \in Channels
    BY DEF Channels
  <1>2. MetaQuarter \in 0 .. 3 /\ SyncQuarter \in 0 .. 3 /\ OutQuarter \in 0 .. 3
    BY <1>1, StagesAre, QuartersAre DEF MetaQuarter, SyncQuarter, OutQuarter
  <1>3. shaft.quarter \in 0 .. 3
    BY DEF LevelsTypeOK
  <1>4. Contact("A") = (shaft.quarter \in {2, 3}) /\ Contact("B") = (shaft.quarter \in {1, 2})
    BY <1>1, LevelsAre DEF Contact
  <1>5. shaft.quarter = QuarterOf(Contact("A"), Contact("B"))
    <2>1. shaft.quarter = 0 \/ shaft.quarter = 1 \/ shaft.quarter = 2 \/ shaft.quarter = 3
      BY <1>3
    <2>2. CASE shaft.quarter = 0
      <3>1. ~(shaft.quarter \in {2, 3}) /\ ~(shaft.quarter \in {1, 2})
        BY <2>2
      <3>2. ~Contact("A") /\ ~Contact("B")
        BY <1>4, <3>1, Zenon
      <3> QED BY <2>2, <3>2 DEF QuarterOf
    <2>3. CASE shaft.quarter = 1
      <3>1. ~(shaft.quarter \in {2, 3}) /\ (shaft.quarter \in {1, 2})
        BY <2>3
      <3>2. ~Contact("A") /\ Contact("B")
        BY <1>4, <3>1, Zenon
      <3> QED BY <2>3, <3>2 DEF QuarterOf
    <2>4. CASE shaft.quarter = 2
      <3>1. (shaft.quarter \in {2, 3}) /\ (shaft.quarter \in {1, 2})
        BY <2>4
      <3>2. Contact("A") /\ Contact("B")
        BY <1>4, <3>1, Zenon
      <3> QED BY <2>4, <3>2 DEF QuarterOf
    <2>5. CASE shaft.quarter = 3
      <3>1. (shaft.quarter \in {2, 3}) /\ ~(shaft.quarter \in {1, 2})
        BY <2>5
      <3>2. Contact("A") /\ ~Contact("B")
        BY <1>4, <3>1, Zenon
      <3> QED BY <2>5, <3>2 DEF QuarterOf
    <2> QED BY <2>1, <2>2, <2>3, <2>4, <2>5
  <1> QED BY <1>2, <1>3, <1>5

\* The quarters go from stage to stage.
LEMMA QuartersStep ==
  ASSUME LevelsTypeOK, NEW w, Clocked(w)
  PROVE  /\ MetaQuarter' = shaft.quarter /\ SyncQuarter' = MetaQuarter
         /\ Turned = (OutQuarter' - OutQuarter) % 4
  <1>1. "A" \in Channels /\ "B" \in Channels
    BY DEF Channels
  <1>2. MetaQuarter' = shaft.quarter /\ SyncQuarter' = MetaQuarter
    BY <1>1, StagesStep, StageQuarters DEF MetaQuarter, SyncQuarter
  <1> DEFINE x == [c \in Channels |-> Accepted(front[c], filter)]
             y == [c \in Channels |-> front[c].filtered]
  <1>3. Turned = (Quarter(x) - Quarter(y)) % 4
    BY DEF Turned
  <1>4. x["A"] = Out("A")' /\ x["B"] = Out("B")'
    BY <1>1, StagesStep
  <1>5. y["A"] = Out("A") /\ y["B"] = Out("B")
    BY <1>1 DEF Out
  <1> HIDE DEF x, y
  <1>6. Quarter(x) = QuarterOf(x["A"], x["B"]) /\ Quarter(y) = QuarterOf(y["A"], y["B"])
    BY QuarterIs
  <1>7. Quarter(x) = OutQuarter' /\ Quarter(y) = OutQuarter
    BY <1>4, <1>5, <1>6 DEF OutQuarter
  <1> QED BY <1>2, <1>3, <1>7

\* A decoder that is sure sees one channel change at a time.
LEMMA TurnsByOne ==
  ASSUME LevelsTypeOK, LevelsTypeOK', InTurn, g.sure, NEW w, Clocked(w)
  PROVE  Turned # 2
  <1>1. "A" \in Channels /\ "B" \in Channels /\ "A" # "B"
    BY DEF Channels
  <1>2. Sync("A") = Out("A") \/ Sync("B") = Out("B")
    BY <1>1 DEF InTurn
  <1>3. Out("A")' = Out("A") \/ Out("B")' = Out("B")
    BY <1>1, <1>2, StagesStep
  <1>4. Out("A") \in BOOLEAN /\ Out("B") \in BOOLEAN
    BY <1>1, StagesAre
  <1>5. Out("A")' \in BOOLEAN /\ Out("B")' \in BOOLEAN
    BY <1>1, <1>4, StagesStep, StagesAre
  <1>6. (OutQuarter' - OutQuarter) % 4 # 2
    BY <1>3, <1>4, <1>5, NoLeap DEF OutQuarter
  <1> QED BY <1>6, QuartersStep

LEMMA UnderwayStep ==
  ASSUME LevelsTypeOK, LevelsTypeOK', InTurn, InTurn', g.sure, g'.sure, NEW w, Clocked(w)
  PROVE  Underway' = Underway + Way(shaft'.quarter, shaft.quarter) - Way(OutQuarter', OutQuarter)
  <1>1. "A" \in Channels /\ "B" \in Channels /\ "A" # "B"
    BY DEF Channels
  <1>2. \A c \in Channels : /\ Meta(c) \in BOOLEAN /\ Sync(c) \in BOOLEAN /\ Out(c) \in BOOLEAN
    BY StagesAre
  <1>3. \A c \in Channels : (Out(c)' = Sync(c) \/ Out(c)' = Out(c)) /\ Sync(c)' = Meta(c)
    BY StagesStep
  <1>4. \A c \in Channels : Out(c)' \in BOOLEAN
    BY <1>2, <1>3
  <1>5. /\ Meta("A") = Sync("A") \/ Meta("B") = Sync("B")
        /\ Sync("A") = Out("A") \/ Sync("B") = Out("B")
    BY <1>1 DEF InTurn
  <1>6. Out("A")' = Meta("A") \/ Out("B")' = Meta("B")
    <2>1. Sync("A")' = Out("A")' \/ Sync("B")' = Out("B")'
      BY <1>1 DEF InTurn
    <2> QED BY <1>1, <1>3, <2>1
  <1>7. Way(MetaQuarter, SyncQuarter) + Way(SyncQuarter, OutQuarter)
          = Way(MetaQuarter, OutQuarter') + Way(OutQuarter', OutQuarter)
    <2> DEFINE ma == Meta("A")
               mb == Meta("B")
               sa == Sync("A")
               sb == Sync("B")
               fa == Out("A")
               fb == Out("B")
               ha == Out("A")'
               hb == Out("B")'
    <2>1. /\ ma \in BOOLEAN /\ mb \in BOOLEAN /\ sa \in BOOLEAN /\ sb \in BOOLEAN
          /\ fa \in BOOLEAN /\ fb \in BOOLEAN /\ ha \in BOOLEAN /\ hb \in BOOLEAN
      BY <1>1, <1>2, <1>4
    <2>2. /\ (ha = sa \/ ha = fa) /\ (hb = sb \/ hb = fb)
          /\ (ma = sa \/ mb = sb) /\ (sa = fa \/ sb = fb) /\ (ha = ma \/ hb = mb)
      BY <1>1, <1>3, <1>5, <1>6
    <2>3. MetaQuarter = QuarterOf(ma, mb) /\ SyncQuarter = QuarterOf(sa, sb)
          /\ OutQuarter = QuarterOf(fa, fb) /\ OutQuarter' = QuarterOf(ha, hb)
      BY DEF MetaQuarter, SyncQuarter, OutQuarter
    <2> HIDE DEF ma, mb, sa, sb, fa, fb, ha, hb
    \* The steps add up when no two channels change at once.
    <2>4. Way(QuarterOf(ma, mb), QuarterOf(sa, sb)) + Way(QuarterOf(sa, sb), QuarterOf(fa, fb))
            = Way(QuarterOf(ma, mb), QuarterOf(ha, hb)) + Way(QuarterOf(ha, hb), QuarterOf(fa, fb))
      BY <2>1, <2>2 DEF Way, QuarterOf
    <2> QED BY <2>3, <2>4
  <1>8. MetaQuarter' = shaft.quarter /\ SyncQuarter' = MetaQuarter
    BY QuartersStep
  <1>9. /\ shaft.quarter \in 0 .. 3 /\ MetaQuarter \in 0 .. 3 /\ SyncQuarter \in 0 .. 3
        /\ OutQuarter \in 0 .. 3 /\ shaft'.quarter \in 0 .. 3 /\ OutQuarter' \in 0 .. 3
    <2>1. OutQuarter' \in 0 .. 3 /\ shaft'.quarter \in 0 .. 3
      BY <1>1, <1>4, QuartersAre DEF OutQuarter, LevelsTypeOK
    <2> QED BY <2>1, StageQuarters
  <1> DEFINE a == Way(shaft.quarter, MetaQuarter)
             b == Way(MetaQuarter, SyncQuarter)
             c == Way(SyncQuarter, OutQuarter)
             d == Way(shaft'.quarter, shaft.quarter)
             e == Way(MetaQuarter, OutQuarter')
             h == Way(OutQuarter', OutQuarter)
  <1>10. a \in Int /\ b \in Int /\ c \in Int /\ d \in Int /\ e \in Int /\ h \in Int
    BY <1>9, WaysAre
  <1>11. Underway = a + b + c
    BY DEF Underway
  <1>12. Underway' = d + a + e
    BY <1>8 DEF Underway
  <1> HIDE DEF a, b, c, d, e, h
  <1>13. b + c = e + h
    BY <1>7 DEF b, c, e, h
  <1>14. Underway' = Underway + d - h
    BY <1>10, <1>11, <1>12, <1>13
  <1> QED BY <1>14 DEF d, h

LEMMA MovedIsSigned ==
  ASSUME LevelsTypeOK, LevelsTypeOK', ShaftMoves
  PROVE  Moved = InDirection(Way(shaft'.quarter, shaft.quarter))
  <1> DEFINE x == shaft'.quarter
             y == shaft.quarter
             d == (x - y) % 4
  <1>1. x \in 0 .. 3 /\ y \in 0 .. 3
    BY DEF LevelsTypeOK
  <1>2. d \in {0, 1, 3}
    <2>1. CASE shaft' = shaft
      BY <1>1, <2>1
    <2>2. ASSUME NEW k \in {1, 3}, Turns(k) PROVE d \in {0, 1, 3}
      <3>1. x = (y + k) % 4
        <4> DEFINE q == (y + k) % 4
                   e == IF k = 1 THEN shaft.quarter ELSE (shaft.quarter + 3) % 4
        <4>1. shaft' = [quarter |-> q, edge |-> e]
          BY <2>2 DEF Turns
        <4> HIDE DEF q, e
        <4> QED BY <4>1 DEF q
      <3> QED BY <1>1, <3>1
    <2> QED BY <2>1, <2>2 DEF ShaftMoves
  <1> HIDE DEF x, y
  <1>3. /\ d = 0 => Way(x, y) = 0
        /\ d = 1 => Way(x, y) = 1
        /\ d = 3 => Way(x, y) = 0 - 1
    <2>1. d = 0 => Way(x, y) \notin {1, 0 - 1}
      BY <1>1, WaysAre
    <2> QED BY <1>1, <2>1, WaysAre
  <1>4. Moved = IF Directed(d) = 3 THEN 0 - 1 ELSE Directed(d)
    BY DEF Moved, x, y
  <1> HIDE DEF d
  <1>5. CASE "reverse" \in ctrl
    BY <1>2, <1>3, <1>4, <1>5 DEF Directed, InDirection, x, y
  <1>6. CASE "reverse" \notin ctrl
    BY <1>2, <1>3, <1>4, <1>6 DEF Directed, InDirection, x, y
  <1> QED BY <1>5, <1>6

LEMMA PositionSteps ==
  ASSUME LevelsTypeOK, LevelsTypeOK', OutputTypeOK, "encoder" \in ctrl, Turned # 2,
         NEW w, Clocked(w), w.reg # "encoder"
  PROVE  Alike(position', position + InDirection(Way(OutQuarter', OutQuarter)))
  <1>1. position' = PositionNext
    BY Zenon DEF Clocked, Engine
  <1>2. position \in Int /\ Wrap \in Nat
    BY WrapIs DEF OutputTypeOK
  <1>3. /\ OutQuarter \in 0 .. 3 /\ OutQuarter' \in 0 .. 3
    <2>1. "A" \in Channels /\ "B" \in Channels
      BY DEF Channels
    <2>2. Out("A")' \in BOOLEAN /\ Out("B")' \in BOOLEAN
      BY <2>1, StagesAre, StagesStep
    <2> QED BY <2>2, StageQuarters, QuartersAre DEF OutQuarter
  <1> DEFINE way == Way(OutQuarter', OutQuarter)
  <1>4. /\ way \in {0 - 1, 0, 1} /\ (Turned = 1 <=> way = 1) /\ (Turned = 3 <=> way = 0 - 1)
    BY <1>3, QuartersStep, WaysAre
  <1> HIDE DEF way
  <1>5. EncoderStep <=> way # 0
    BY <1>4 DEF EncoderStep
  <1>6. Alike(position + (Wrap - 1), position - 1)
    <2>1. position + (Wrap - 1) = (position - 1) + Wrap * 1
      BY <1>2
    <2>2. position + (Wrap - 1) \in Int /\ position - 1 \in Int
      BY <1>2
    <2> QED BY <2>1, <2>2, AlikeIs
  <1>7. \A x \in Int : Alike(x % Wrap, x)
    BY AlikeRest
  <1>8. CASE way = 0
    <2>1. InDirection(way) = 0
      BY <1>8 DEF InDirection
    <2>2. position' = position
      BY <1>1, <1>5, <1>8 DEF PositionNext
    <2>3. position + InDirection(way) = position
      BY <1>2, <2>1
    <2> QED BY <2>2, <2>3 DEF Alike, way
  <1>9. CASE way # 0 /\ Increment
    <2>1. InDirection(way) = 1
      BY <1>4, <1>9 DEF InDirection, Increment
    <2>2. position' = (position + 1) % Wrap
      BY <1>1, <1>5, <1>9 DEF PositionNext
    <2>3. position + 1 \in Int
      BY <1>2
    <2> QED BY <1>7, <2>1, <2>2, <2>3 DEF way
  <1>10. CASE way # 0 /\ ~Increment
    <2>1. InDirection(way) = 0 - 1
      BY <1>4, <1>10 DEF InDirection, Increment
    <2>2. position' = (position + (Wrap - 1)) % Wrap
      BY <1>1, <1>5, <1>10 DEF PositionNext
    <2>3. position + (Wrap - 1) \in Int /\ position + InDirection(way) = position - 1
      BY <1>2, <2>1
    <2>4. Alike((position + (Wrap - 1)) % Wrap, position + (Wrap - 1))
      BY <1>7, <2>3
    <2> QED BY <1>6, <2>2, <2>3, <2>4 DEF Alike, way
  <1> QED BY <1>8, <1>9, <1>10

LEMMA SettledUnderway ==
  ASSUME LevelsTypeOK, Settled
  PROVE  InDirection(Underway) = 0
  <1>1. "A" \in Channels /\ "B" \in Channels
    BY DEF Channels
  <1>2. /\ MetaQuarter = shaft.quarter /\ SyncQuarter = shaft.quarter
        /\ OutQuarter = shaft.quarter /\ shaft.quarter \in 0 .. 3
    BY <1>1, StageQuarters DEF Settled, MetaQuarter, SyncQuarter, OutQuarter
  <1>3. Underway = 0
    BY <1>2, WaysAre DEF Underway
  <1> QED BY <1>3 DEF InDirection

LEMMA LagStep ==
  ASSUME LevelsTypeOK, LevelsTypeOK', OutputTypeOK, OutputTypeOK', HistoryTypeOK, Rested,
         InTurn, InTurn', Lagging, NEW w, Typed(w), Clocked(w)
  PROVE  Lagging'
  <1>1. /\ g'.lag = IF w.reg \in {"ctrl", "encoder"} \/ "encoder" \notin ctrl THEN 0
                    ELSE (g.lag + Moved - (position' - position)) % Wrap
        /\ ctrl' = IF w.reg = "ctrl" THEN w.value
                   ELSE IF CompareEvent /\ "reload" \notin ctrl THEN ctrl \ {"timer"} ELSE ctrl
    BY HistoryIs, Zenon DEF Clocked, Engine
  <1>2. w.reg # "ctrl" => /\ "encoder" \in ctrl' <=> "encoder" \in ctrl
                          /\ "reverse" \in ctrl' <=> "reverse" \in ctrl
    BY <1>1
  <1>3. "encoder" \notin ctrl' => g'.lag = 0
    BY <1>1, <1>2
  <1>4. ASSUME g'.sure, "encoder" \in ctrl' PROVE Alike(g'.lag, InDirection(Underway)')
    <2>1. CASE w.reg \in {"ctrl", "encoder"} /\ Settled /\ Settled' /\ shaft' = shaft
      <3>1. g'.lag = 0
        BY <1>1, <2>1
      <3>2. InDirection(Underway)' = 0
        <4>1. "A" \in Channels /\ "B" \in Channels
          BY DEF Channels
        <4>2. \A c \in Channels : Meta(c) = Contact(c) /\ Out(c)' = Contact(c)
          BY <2>1, ContactsMove DEF Settled, Clocked
        <4>3. shaft.quarter = QuarterOf(Contact("A"), Contact("B")) /\ shaft.quarter \in 0 .. 3
          BY StageQuarters
        <4>4. /\ MetaQuarter' = shaft.quarter /\ SyncQuarter' = shaft.quarter
              /\ OutQuarter' = shaft.quarter /\ shaft'.quarter = shaft.quarter
          BY <2>1, <4>1, <4>2, <4>3, QuartersStep DEF MetaQuarter, OutQuarter
        <4>5. Way(shaft.quarter, shaft.quarter) = 0
          BY <4>3, WaysAre
        <4>6. Underway' = 0
          BY <4>4, <4>5 DEF Underway
        <4> QED BY <4>6 DEF InDirection
      <3> QED BY <3>1, <3>2 DEF Alike
    <2>2. CASE w.reg \notin {"ctrl", "encoder", "filter"} /\ g.sure
      <3>1. "encoder" \in ctrl /\ ("reverse" \in ctrl' <=> "reverse" \in ctrl)
        BY <1>2, <1>4, <2>2
      <3>2. Alike(g.lag, InDirection(Underway))
        BY <2>2, <3>1 DEF Lagging
      <3>3. Turned # 2
        BY <2>2, TurnsByOne
      <3> DEFINE u == Underway
                 m == Way(shaft'.quarter, shaft.quarter)
                 t == Way(OutQuarter', OutQuarter)
                 v == Underway'
      <3>4. Alike(position', position + InDirection(t))
        BY <2>2, <3>1, <3>3, PositionSteps
      <3>5. Moved = InDirection(m)
        BY MovedIsSigned DEF Clocked
      <3>6. v = u + m - t
        BY <1>4, <2>2, UnderwayStep
      <3>7. u \in Int /\ m \in Int /\ t \in Int
        <4>1. "A" \in Channels /\ "B" \in Channels
          BY DEF Channels
        <4>2. OutQuarter' \in 0 .. 3 /\ shaft'.quarter \in 0 .. 3
          <5>1. Out("A")' \in BOOLEAN /\ Out("B")' \in BOOLEAN
            BY <4>1, StagesAre, StagesStep
          <5> QED BY <5>1, QuartersAre DEF OutQuarter, LevelsTypeOK
        <4>3. /\ Way(shaft.quarter, MetaQuarter) \in Int /\ Way(MetaQuarter, SyncQuarter) \in Int
              /\ Way(SyncQuarter, OutQuarter) \in Int /\ m \in Int /\ t \in Int
          BY <4>2, StageQuarters, WaysAre
        <4> QED BY <4>3 DEF Underway
      <3> HIDE DEF u, m, t, v
      <3>8. \A x \in Int : InDirection(x) \in Int
        BY DEF InDirection
      <3>9. Alike((g.lag + InDirection(m) - (position' - position)) % Wrap, InDirection(u) + InDirection(m) - InDirection(t))
        <4>1. InDirection(u) \in Int /\ InDirection(m) \in Int /\ InDirection(t) \in Int
          BY <3>7, <3>8
        <4>2. g.lag \in Int /\ position \in Int /\ position' \in Int
          BY DEF HistoryTypeOK, OutputTypeOK
        <4>3. Alike(g.lag, InDirection(u))
          BY <3>2 DEF u
        <4> QED BY <3>4, <4>1, <4>2, <4>3, LagMoves
      <3>10. InDirection(u) + InDirection(m) - InDirection(t) = InDirection(v)
        BY <3>6, <3>7 DEF InDirection
      <3>11. g'.lag = (g.lag + InDirection(m) - (position' - position)) % Wrap
        BY <1>1, <2>2, <3>1, <3>5
      <3>12. InDirection(Underway)' = InDirection(v)
        BY <3>1 DEF InDirection, v
      <3> QED BY <3>9, <3>10, <3>11, <3>12
    <2> QED BY <1>4, <2>1, <2>2, SureIs
  <1> QED BY <1>3, <1>4 DEF Lagging

FrontInv == Rested /\ InTurn /\ Lagging

LEMMA FrontInit == TimerInit => FrontInv
  <1> SUFFICES ASSUME TimerInit PROVE FrontInv
    OBVIOUS
  <1>1. PICK bounce \in BOOLEAN :
          g = [bounce |-> bounce, rest |-> 0, quiet |-> 0, since |-> Stopped, sure |-> FALSE,
               lag |-> 0, acked |-> 0, edgeAt |-> [c \in Channels |-> Stopped]]
    BY DEF TimerInit
  <1>2. g.rest = 0 /\ g.sure = FALSE /\ g.lag = 0
    BY <1>1
  <1> QED BY <1>2 DEF FrontInv, Rested, InTurn, Lagging

LEMMA FrontStutter ==
  ASSUME FrontInv, UNCHANGED timerVars
  PROVE  FrontInv'
  <1>1. shaft' = shaft /\ front' = front /\ g' = g /\ ctrl' = ctrl /\ filter' = filter
    BY DEF timerVars
  <1>2. \A c \in Channels : Contact(c)' = Contact(c) /\ Meta(c)' = Meta(c) /\ Sync(c)' = Sync(c)
                            /\ Out(c)' = Out(c) /\ Run(c)' = Run(c)
    BY <1>1 DEF Contact, Meta, Sync, Out, Run
  <1>3. Rested' /\ InTurn'
    BY <1>1, <1>2 DEF FrontInv, Rested, InTurn
  <1>4. InDirection(Underway)' = InDirection(Underway)
    BY <1>1 DEF InDirection, Underway, MetaQuarter, SyncQuarter, OutQuarter, Meta, Sync, Out
  <1> QED BY <1>1, <1>3, <1>4 DEF FrontInv, Lagging

LEMMA FrontInvariant == TimerSpec => [](BaseInv /\ FrontInv)
  <1>1. BaseInv /\ BaseInv' /\ FrontInv /\ [TimerNext]_timerVars => FrontInv'
    <2> SUFFICES ASSUME BaseInv, BaseInv', FrontInv, [TimerNext]_timerVars PROVE FrontInv'
      OBVIOUS
    <2>1. CASE UNCHANGED timerVars
      BY <2>1, FrontStutter
    <2>2. CASE TimerNext
      <3>1. PICK w : Clocked(w) /\ Goes(w)
        BY <2>2, TimerGoes DEF BaseInv
      <3>2. Typed(w)
        BY <3>1, GoesIs
      <3>3. Rested'
        BY <3>1, RestedStep DEF BaseInv, FrontInv
      <3>4. InTurn'
        BY <3>1, <3>2, InTurnStep DEF BaseInv, FrontInv
      <3>5. Lagging'
        BY <3>1, <3>2, <3>4, LagStep DEF BaseInv, FrontInv
      <3> QED BY <3>3, <3>4, <3>5 DEF FrontInv
    <2> QED BY <2>1, <2>2
  <1> QED BY <1>1, FrontInit, BaseInvariant, PTL DEF TimerSpec

\* EncoderFollowsShaft, for every filter, every width of ENCODER and any chatter
\* of the contacts.
THEOREM ShaftIsFollowed == TimerSpec => []EncoderFollowsShaft
  <1>1. ASSUME BaseInv, FrontInv, g.sure PROVE ~Illegal /\ (Quiet => g.lag = 0)
    <2>1. LevelsTypeOK /\ HistoryTypeOK /\ Rested /\ InTurn /\ Lagging
      BY <1>1 DEF BaseInv, FrontInv
    <2>2. Turned # 2
      <3>1. "A" \in Channels /\ "B" \in Channels /\ "A" # "B"
        BY DEF Channels
      <3> DEFINE x == [c \in Channels |-> Accepted(front[c], filter)]
                 y == [c \in Channels |-> front[c].filtered]
      <3>2. Turned = (Quarter(x) - Quarter(y)) % 4
        BY DEF Turned
      <3>3. /\ y["A"] \in BOOLEAN /\ y["B"] \in BOOLEAN /\ x["A"] \in BOOLEAN /\ x["B"] \in BOOLEAN
            /\ x["A"] = y["A"] \/ x["B"] = y["B"]
        <4>1. Sync("A") = Out("A") \/ Sync("B") = Out("B")
          BY <1>1, <2>1, <3>1 DEF InTurn
        <4>2. \A c \in Channels : /\ Sync(c) \in BOOLEAN /\ Out(c) \in BOOLEAN
                                  /\ Accepted(front[c], filter) \in {Sync(c), Out(c)}
                                  /\ Sync(c) = Out(c) => Accepted(front[c], filter) = Out(c)
          BY <2>1, StagesAre DEF Accepted, Accepts, Sync, Out
        <4>3. y["A"] = Out("A") /\ y["B"] = Out("B")
          BY <3>1 DEF Out
        <4>4. x["A"] = Accepted(front["A"], filter) /\ x["B"] = Accepted(front["B"], filter)
          BY <3>1
        <4> HIDE DEF x, y
        <4> QED BY <3>1, <4>1, <4>2, <4>3, <4>4
      <3> HIDE DEF x, y
      <3>4. Quarter(x) = QuarterOf(x["A"], x["B"]) /\ Quarter(y) = QuarterOf(y["A"], y["B"])
        BY QuarterIs
      <3> QED BY <3>2, <3>3, <3>4, NoLeap
    <2>3. ASSUME Quiet PROVE g.lag = 0
      <3>1. CASE "encoder" \notin ctrl
        BY <2>1, <3>1 DEF Lagging
      <3>2. CASE "encoder" \in ctrl
        <4>1. InDirection(Underway) = 0
          BY <2>1, <2>3, QuietIsSettled, SettledUnderway
        <4>2. Alike(g.lag, 0) /\ g.lag \in 0 .. Wrap - 1
          BY <1>1, <2>1, <3>2, <4>1 DEF Lagging, HistoryTypeOK
        <4> QED BY <4>2, AlikeZero
      <3> QED BY <3>1, <3>2
    <2> QED BY <2>2, <2>3 DEF Illegal
  <1>2. BaseInv /\ FrontInv => EncoderFollowsShaft
    BY <1>1 DEF EncoderFollowsShaft
  <1> QED BY <1>2, FrontInvariant, PTL

-----------------------------------------------------------------------------
(* The captures.                                                           *)

\* A change of channel c from the level x to the level y that it captures.
Captured(c, x, y) == x # y /\ y # Falling(c)

\* The time k clocks after the time t.
After(t, k) == IF "reload" \in ctrl THEN (t + k) % Period ELSE UpTo(Period, t + k)

\* A shaft that does not chatter loses no change in the filter.
Unlost ==
  (~g.bounce /\ g.sure) =>
    \A c \in Channels :
      /\ Contact(c) # Meta(c) => /\ filter >= 1 => Meta(c) = Sync(c)
                                 /\ Sync(c) = Out(c) \/ Run(c) >= filter - 1
      /\ Meta(c) # Sync(c) => Sync(c) = Out(c) \/ Run(c) >= filter

AtContact(c) == Captured(c, Meta(c), Contact(c))
AtMeta(c)    == ~AtContact(c) /\ Captured(c, Sync(c), Meta(c))
AtSync(c)    == ~AtContact(c) /\ ~AtMeta(c) /\ Captured(c, Out(c), Sync(c))
Arrived(c)   == ~AtContact(c) /\ ~AtMeta(c) /\ ~AtSync(c)

\* Where the last edge to capture is, and how long it has been on its way.
Timed(c) ==
  /\ CaptureOn(c) /\ g.since # Stopped /\ g.edgeAt[c] \in Nat
  /\ AtContact(c) => g.since = g.edgeAt[c]
  /\ AtMeta(c) => g.since = After(g.edgeAt[c], 1)
  /\ AtSync(c) => g.since = After(g.edgeAt[c], Run(c) + 2)
  /\ Arrived(c) => capture[c] = CountAt(g.edgeAt[c] + filter + 2)

Tracked == (~g.bounce /\ g.sure) => \A c \in Channels : g.edgeAt[c] # Stopped => Timed(c)

LEMMA UnlostStep ==
  ASSUME LevelsTypeOK, LevelsTypeOK', HistoryTypeOK, Rested, InTurn, Unlost,
         NEW w, Typed(w), Clocked(w)
  PROVE  Unlost'
  <1> SUFFICES ASSUME ~g'.bounce, g'.sure PROVE Unlost'
    BY DEF Unlost
  <1>1. ~g.bounce
    BY HistoryIs DEF Clocked
  <1>2. CASE w.reg \in {"ctrl", "encoder"} /\ Settled'
    <2>1. \A c \in Channels : Contact(c)' = Meta(c)' /\ Sync(c)' = Meta(c)' /\ Out(c)' = Sync(c)'
      BY <1>2 DEF Settled
    <2> QED BY <2>1 DEF Unlost
  <1>3. CASE w.reg \notin {"ctrl", "encoder", "filter"} /\ g.sure
    <2>1. filter' = filter /\ filter \in Nat /\ g.rest \in Nat /\ g.quiet \in Nat /\ g.quiet > filter
      <3>1. g.quiet > filter
        BY <1>3 DEF InTurn
      <3> QED BY <1>3, <3>1, QuietGoesOn, FiltersAre DEF LevelsTypeOK, HistoryTypeOK
    <2>2. ASSUME NEW c \in Channels
          PROVE  /\ Contact(c)' # Meta(c)' => /\ filter' >= 1 => Meta(c)' = Sync(c)'
                                              /\ Sync(c)' = Out(c)' \/ Run(c)' >= filter' - 1
                 /\ Meta(c)' # Sync(c)' => Sync(c)' = Out(c)' \/ Run(c)' >= filter'
      <3>1. /\ Meta(c)' = Contact(c) /\ Sync(c)' = Meta(c)
            /\ Sync(c) = Out(c) => Out(c)' = Out(c) /\ Run(c)' = 0
            /\ (Sync(c) # Out(c) /\ Run(c) = filter) => Out(c)' = Sync(c) /\ Run(c)' = 0
            /\ (Sync(c) # Out(c) /\ Run(c) # filter) => Out(c)' = Out(c) /\ Run(c)' = Run(c) + 1
        BY <1>3, StagesStep
      <3>2. Run(c) \in Nat /\ Run(c) <= filter /\ Run(c)' \in Nat
        <4>1. Run(c) \in Nat /\ Run(c) <= filter
          BY StagesAre
        <4> QED BY <3>1, <4>1
      <3>3. ASSUME Contact(c)' # Meta(c)'
            PROVE  /\ filter >= 1 => Meta(c)' = Sync(c)'
                   /\ Sync(c)' = Out(c)' \/ Run(c)' >= filter - 1
        <4>1. g.rest >= filter
          <5>1. shaft' # shaft
            BY <3>1, <3>3, ContactsMove DEF Clocked
          <5>2. g.rest >= filter \/ g.bounce
            BY <5>1, ContactsMove DEF Clocked
          <5> QED BY <1>1, <5>2
        <4>2. filter >= 1 => Meta(c) = Contact(c)
          BY <2>1, <4>1 DEF Rested
        <4>3. filter >= 2 => Sync(c) = Contact(c) /\ (Sync(c) = Out(c) \/ Run(c) >= filter - 2)
          <5>1. filter >= 2 => Sync(c) = Contact(c)
                               /\ (Sync(c) = Out(c) \/ Run(c) >= g.rest - 2 \/ Run(c) >= g.quiet)
            BY <2>1, <4>1 DEF Rested
          <5> QED BY <2>1, <3>2, <4>1, <5>1
        <4>4. CASE filter < 2
          BY <2>1, <3>1, <3>2, <4>2, <4>4
        <4>5. CASE filter >= 2
          <5>1. Sync(c)' = Sync(c)
            BY <2>1, <3>1, <4>2, <4>3, <4>5
          <5> QED BY <2>1, <3>1, <3>2, <4>2, <4>3, <4>5, <5>1
        <4> QED BY <2>1, <4>4, <4>5
      <3>4. ASSUME Meta(c)' # Sync(c)' PROVE Sync(c)' = Out(c)' \/ Run(c)' >= filter
        <4>1. /\ filter >= 1 => Meta(c) = Sync(c)
              /\ Sync(c) = Out(c) \/ Run(c) >= filter - 1
          BY <1>1, <1>3, <3>1, <3>4 DEF Unlost
        <4>2. CASE filter = 0
          BY <3>2, <4>2
        <4>3. CASE filter # 0
          <5>1. Sync(c)' = Sync(c)
            BY <2>1, <3>1, <4>1, <4>3
          <5> QED BY <2>1, <3>1, <3>2, <4>1, <4>3, <5>1
        <4> QED BY <4>2, <4>3
      <3> QED BY <2>1, <3>3, <3>4
    <2> QED BY <2>2 DEF Unlost
  <1> QED BY <1>2, <1>3, SureIs

LEMMA QuotientBounds ==
  ASSUME NEW n \in Nat \ {0}, NEW t \in Nat
  PROVE  /\ t \div n \in Nat /\ t % n \in 0 .. n - 1
         /\ t = n * (t \div n) + (t % n)
  OBVIOUS

\* What a counter modulo n does when it is raised.
LEMMA ModuloStep ==
  ASSUME NEW n \in Nat \ {0}, NEW t \in Nat
  PROVE  /\ t % n = n - 1 => (t + 1) % n = 0
         /\ t % n # n - 1 => (t + 1) % n = (t % n) + 1
  <1> DEFINE k == t \div n
             r == t % n
  <1>1. k \in Nat /\ r \in 0 .. n - 1 /\ t = n * k + r
    BY QuotientBounds
  <1> HIDE DEF k, r
  <1>2. r = n - 1 => (t + 1) % n = 0
    <2>1. r = n - 1 => t + 1 = n * (k + 1) + 0
      BY <1>1
    <2>2. k + 1 \in Int /\ 0 \in 0 .. n - 1
      BY <1>1
    <2> QED BY <2>1, <2>2, RestIsUnique
  <1>3. r # n - 1 => (t + 1) % n = r + 1
    <2>1. r # n - 1 => t + 1 = n * k + (r + 1) /\ r + 1 \in 0 .. n - 1
      BY <1>1
    <2>2. k \in Int
      BY <1>1
    <2> QED BY <2>1, <2>2, RestIsUnique
  <1> QED BY <1>2, <1>3 DEF r

LEMMA SmallRest ==
  ASSUME NEW n \in Nat \ {0}, NEW t \in 0 .. n - 1
  PROVE  t % n = t
  OBVIOUS

\* What the timer shows of the clocks since the enabling.
LEMMA ShownIs ==
  ASSUME ClockTypeOK, HistoryTypeOK, OnTime, g.since # Stopped
  PROVE  /\ Period \in Nat \ {0} /\ g.since \in 0 .. Period
         /\ "reload" \in ctrl => "timer" \in ctrl
         /\ "timer" \in ctrl => g.since # Period /\ count = g.since \div (prescale + 1)
         /\ "timer" \notin ctrl => g.since = Period /\ count = compare
  <1>1. Period \in Nat \ {0}
    BY SinceIs
  <1>2. CASE "timer" \in ctrl
    <2>1. g.since \in 0 .. Period - 1
      BY <1>2, SinceIs
    <2>2. /\ prescaleCount \in 0 .. prescale /\ count \in Nat /\ prescale \in Nat
          /\ g.since = count * (prescale + 1) + prescaleCount
      BY <1>2, WrapIs DEF OnTime, ClockTypeOK
    <2>3. (count * (prescale + 1) + prescaleCount) \div (prescale + 1) = count
      <3> DEFINE n == prescale + 1
                 t == count * n + prescaleCount
      <3>1. n \in Nat \ {0} /\ prescaleCount \in 0 .. n - 1 /\ t \in Nat
        BY <2>2
      <3>2. t = n * count + prescaleCount
        BY <2>2
      <3> HIDE DEF n, t
      <3>3. t \div n = count
        BY <2>2, <3>1, <3>2
      <3> QED BY <3>3 DEF n, t
    <2> QED BY <1>1, <1>2, <2>1, <2>2, <2>3
  <1>3. CASE "timer" \notin ctrl
    BY <1>1, <1>3 DEF OnTime
  <1> QED BY <1>1, <1>2, <1>3

\* A clock more.
LEMMA AfterStep ==
  ASSUME ClockTypeOK, HistoryTypeOK, OnTime, g.since # Stopped, NEW w, w.reg # "ctrl",
         NEW t \in Nat, NEW k \in Nat, g.since = After(t, k)
  PROVE  SinceNext(w) = After(t, k + 1)
  <1> DEFINE p == Period
             s == g.since
             x == t + k
  <1>1. /\ p \in Nat \ {0} /\ s \in 0 .. p
        /\ "reload" \in ctrl => "timer" \in ctrl
        /\ "timer" \in ctrl => s # p
        /\ "timer" \notin ctrl => s = p
    BY ShownIs
  <1>2. x \in Nat /\ t + (k + 1) = x + 1
    OBVIOUS
  <1>3. s = IF "reload" \in ctrl THEN x % p ELSE UpTo(p, x)
    BY DEF After
  <1>4. After(t, k + 1) = IF "reload" \in ctrl THEN (x + 1) % p ELSE UpTo(p, x + 1)
    BY <1>2 DEF After
  <1>5. SinceNext(w) = IF "timer" \notin ctrl THEN s
                       ELSE IF s = p - 1 /\ "reload" \in ctrl THEN 0 ELSE UpTo(p, s + 1)
    BY DEF SinceNext
  <1> HIDE DEF p, s, x
  <1>6. CASE "reload" \in ctrl
    <2>1. s = x % p /\ "timer" \in ctrl /\ s \in 0 .. p - 1
      BY <1>1, <1>3, <1>6
    <2>2. (s = p - 1 => (x + 1) % p = 0) /\ (s # p - 1 => (x + 1) % p = s + 1)
      BY <1>1, <1>2, <2>1, ModuloStep
    <2>3. s # p - 1 => UpTo(p, s + 1) = s + 1
      BY <1>1, <2>1 DEF UpTo
    <2> QED BY <1>4, <1>5, <1>6, <2>1, <2>2, <2>3
  <1>7. CASE "reload" \notin ctrl
    BY <1>1, <1>2, <1>3, <1>4, <1>5, <1>7 DEF UpTo
  <1> QED BY <1>6, <1>7

LEMMA AfterNothing ==
  ASSUME ClockTypeOK, HistoryTypeOK, OnTime, g.since # Stopped
  PROVE  g.since \in Nat /\ g.since = After(g.since, 0)
  <1>1. /\ Period \in Nat \ {0} /\ g.since \in 0 .. Period
        /\ "reload" \in ctrl => g.since # Period
    BY ShownIs
  <1>2. g.since + 0 = g.since /\ g.since \in Nat
    BY <1>1
  <1>3. "reload" \in ctrl => g.since % Period = g.since
    BY <1>1, SmallRest
  <1>4. UpTo(Period, g.since) = g.since
    BY <1>1 DEF UpTo
  <1> QED BY <1>2, <1>3, <1>4 DEF After

LEMMA CountAfter ==
  ASSUME ClockTypeOK, HistoryTypeOK, OnTime, g.since # Stopped,
         NEW t \in Nat, NEW k \in Nat, g.since = After(t, k)
  PROVE  count = CountAt(t + k)
  <1>1. /\ Period \in Nat \ {0} /\ g.since \in 0 .. Period
        /\ "reload" \in ctrl => "timer" \in ctrl
        /\ "timer" \in ctrl => g.since # Period /\ count = g.since \div (prescale + 1)
        /\ "timer" \notin ctrl => g.since = Period /\ count = compare
    BY ShownIs
  <1>2. CASE "reload" \in ctrl
    BY <1>1, <1>2 DEF After, CountAt
  <1>3. CASE "reload" \notin ctrl
    <2>1. g.since = UpTo(Period, t + k) /\ t + k \in Nat
      BY <1>3 DEF After
    <2>2. CASE t + k >= Period
      <3>1. g.since = Period
        BY <1>1, <2>1, <2>2 DEF UpTo
      <3> QED BY <1>1, <1>3, <2>2, <3>1 DEF CountAt
    <2>3. CASE ~(t + k >= Period)
      <3>1. g.since = t + k /\ g.since # Period
        BY <1>1, <2>1, <2>3 DEF UpTo
      <3> QED BY <1>1, <1>3, <2>3, <3>1 DEF CountAt
    <2> QED BY <2>2, <2>3
  <1> QED BY <1>2, <1>3

LEMMA UndisturbedCapture ==
  ASSUME BaseInv, NEW w, Typed(w), Ordered(w), Clocked(w),
         w.reg \notin {"ctrl", "encoder", "filter"}, g.since # Stopped, NEW c \in Channels
  PROVE  /\ filter' = filter /\ g'.since = SinceNext(w) /\ g'.since # Stopped
         /\ CaptureOn(c)' = CaptureOn(c) /\ Falling(c)' = Falling(c)
         /\ \A t \in Nat : CountAt(t)' = CountAt(t)
         /\ \A t, k \in Nat : After(t, k)' = After(t, k)
  <1>1. Left \in 0 .. 7 /\ Emptied /\ ClockTypeOK /\ HistoryTypeOK /\ OnTime
    BY LeftType DEF BaseInv
  <1>2. prescale' = prescale /\ compare' = compare /\ Period' = Period
    BY <1>1, UndisturbedIs
  <1>3. ctrl' = ctrl \/ ctrl' = ctrl \ {"timer"}
    BY Zenon DEF Clocked, Engine
  <1>4. /\ CaptureOn(c)' = CaptureOn(c) /\ Falling(c)' = Falling(c)
        /\ "reload" \in ctrl' <=> "reload" \in ctrl
    BY <1>3 DEF CaptureOn, Falling
  <1>5. filter' = filter
    BY DEF Clocked, Engine
  <1>6. g'.since = SinceNext(w)
    BY HistoryIs, Zenon DEF Clocked
  <1>7. SinceNext(w) # Stopped
    <2>1. g.since \in Nat /\ Period \in Nat
      BY <1>1, ShownIs, AfterNothing
    <2>2. UpTo(Period, g.since + 1) \in Nat /\ 0 \in Nat /\ g.since \in Nat
      BY <2>1 DEF UpTo
    <2>3. SinceNext(w) \in Nat
      <3> HIDE DEF UpTo, Period
      <3> QED BY <2>2 DEF SinceNext
    <2> QED BY <2>3 DEF Stopped
  <1>8. \A t \in Nat : CountAt(t)' = CountAt(t)
    BY <1>2, <1>4, Zenon DEF CountAt
  <1>9. \A t, k \in Nat : After(t, k)' = After(t, k)
    BY <1>2, <1>4, Zenon DEF After
  <1> QED BY <1>4, <1>5, <1>6, <1>7, <1>8, <1>9

\* An edge that the shaft crosses now is recorded with the time it has then.
LEMMA EdgeAtContact ==
  ASSUME LevelsTypeOK, NEW w, Clocked(w), NEW c \in Channels,
         CaptureOn(c), Falling(c)' = Falling(c)
  PROVE  EdgeToCapture(c) <=> AtContact(c)'
  <1>1. Meta(c)' = Contact(c)
    BY StagesStep
  <1>2. Level(shaft'.quarter)[c] = Contact(c)' /\ Level(shaft.quarter)[c] = Contact(c)
    BY DEF Contact
  <1>3. AtContact(c)' <=> (Meta(c)' # Contact(c)' /\ Contact(c)' # Falling(c)')
    BY DEF AtContact, Captured
  <1>4. EdgeToCapture(c) <=> (CaptureOn(c) /\ Contact(c)' # Contact(c) /\ Contact(c)' # Falling(c))
    BY <1>2 DEF EdgeToCapture
  <1> QED BY <1>1, <1>3, <1>4

LEMMA CaptureIs ==
  ASSUME NEW w, Clocked(w), NEW c \in Channels
  PROVE  /\ CaptureEvent(c) => capture'[c] = count
         /\ ~CaptureEvent(c) => capture'[c] = capture[c]
         /\ CaptureEvent(c) <=> CaptureOn(c) /\ Captured(c, Out(c), Sync(c)) /\ Run(c) = filter
  <1>1. capture' = [d \in Channels |-> CaptureNext(d)]
    BY DEF Clocked, Engine
  <1>2. capture'[c] = IF CaptureEvent(c) THEN count ELSE capture[c]
    BY <1>1 DEF CaptureNext
  <1>3. CaptureEvent(c) <=> CaptureOn(c) /\ Captured(c, Out(c), Sync(c)) /\ Run(c) = filter
    BY DEF CaptureEvent, Accepts, Captured, Out, Sync, Run
  <1> QED BY <1>2, <1>3

\* No edge is recorded: the last one goes a stage further.
LEMMA TimedGoes ==
  ASSUME BaseInv, NEW w, Typed(w), Ordered(w), Clocked(w),
         w.reg \notin {"ctrl", "encoder", "filter"}, NEW c \in Channels, Timed(c),
         Meta(c) # Sync(c) => Sync(c) = Out(c) \/ Run(c) >= filter,
         ~EdgeToCapture(c), g'.edgeAt[c] = g.edgeAt[c]
  PROVE  Timed(c)'
  <1>1. PICK t \in Nat : CaptureOn(c) /\ g.since # Stopped /\ g.edgeAt[c] = t /\ g'.edgeAt[c] = t
    BY DEF Timed
  <1>0. PICK k \in Nat : Run(c) = k
    BY StagesAre DEF BaseInv
  <1>2. /\ filter' = filter /\ g'.since = SinceNext(w) /\ g'.since # Stopped
        /\ CaptureOn(c)' = CaptureOn(c) /\ Falling(c)' = Falling(c)
        /\ \A x \in Nat : CountAt(x)' = CountAt(x)
        /\ \A x, y \in Nat : After(x, y)' = After(x, y)
    BY <1>1, UndisturbedCapture
  <1>3. k \in Nat /\ k <= filter /\ filter \in Nat /\ Meta(c) \in BOOLEAN /\ Sync(c) \in BOOLEAN
        /\ Out(c) \in BOOLEAN /\ Contact(c) \in BOOLEAN
    BY <1>0, StagesAre DEF BaseInv
  <1>4. /\ Meta(c)' = Contact(c) /\ Sync(c)' = Meta(c)
        /\ Sync(c) = Out(c) => Out(c)' = Out(c) /\ Run(c)' = 0
        /\ (Sync(c) # Out(c) /\ k = filter) => Out(c)' = Sync(c) /\ Run(c)' = 0
        /\ (Sync(c) # Out(c) /\ k # filter) => Out(c)' = Out(c) /\ Run(c)' = k + 1
    BY <1>0, StagesStep DEF BaseInv
  <1>5. ~AtContact(c)'
    BY <1>1, <1>2, EdgeAtContact DEF BaseInv
  <1>6. \A n \in Nat : g.since = After(t, n) => g'.since = After(t, n + 1)
    BY <1>1, <1>2, AfterStep DEF BaseInv
  <1>7. /\ AtContact(c) <=> Meta(c) # Contact(c) /\ Contact(c) # Falling(c)
        /\ AtMeta(c) <=> ~AtContact(c) /\ Sync(c) # Meta(c) /\ Meta(c) # Falling(c)
        /\ AtSync(c) <=> ~AtContact(c) /\ ~AtMeta(c) /\ Out(c) # Sync(c) /\ Sync(c) # Falling(c)
        /\ Arrived(c) <=> ~AtContact(c) /\ ~AtMeta(c) /\ ~AtSync(c)
    BY DEF AtContact, AtMeta, AtSync, Arrived, Captured
  <1>8. /\ AtMeta(c)' <=> Sync(c)' # Meta(c)' /\ Meta(c)' # Falling(c)
        /\ AtSync(c)' <=> ~AtMeta(c)' /\ Out(c)' # Sync(c)' /\ Sync(c)' # Falling(c)
        /\ Arrived(c)' <=> ~AtMeta(c)' /\ ~AtSync(c)'
    BY <1>2, <1>5 DEF AtMeta, AtSync, Arrived, Captured
  <1>9. Falling(c) \in BOOLEAN
    BY DEF Falling
  <1>10. CASE AtContact(c)
    <2>1. AtMeta(c)'
      BY <1>4, <1>7, <1>8, <1>10
    <2>2. g.since = t
      BY <1>1, <1>10 DEF Timed
    <2>3. g.since = After(t, 0)
      BY <1>1, <2>2, AfterNothing DEF BaseInv
    <2>4. g'.since = After(t, 1)
      BY <1>6, <2>3
    <2>5. g'.since = After(t, 1)'
      BY <1>2, <2>4
    <2> QED BY <1>1, <1>2, <1>5, <1>8, <2>1, <2>5 DEF Timed
  <1>11. CASE AtMeta(c)
    <2>1. ~AtMeta(c)'
      BY <1>4, <1>7, <1>8, <1>11
    <2>2. Sync(c)' # Out(c)' /\ Run(c)' = 0
      BY <1>0, <1>3, <1>4, <1>7, <1>11
    <2>3. AtSync(c)'
      BY <1>4, <1>7, <1>8, <1>11, <2>1, <2>2
    <2>4. g.since = After(t, 1)
      BY <1>1, <1>11 DEF Timed
    <2>5. g'.since = After(t, 2)'
      BY <1>2, <1>6, <2>4
    <2>6. Run(c)' + 2 = 2
      BY <2>2
    <2> QED BY <1>1, <1>2, <1>5, <1>8, <2>1, <2>3, <2>5, <2>6 DEF Timed
  <1>12. CASE AtSync(c)
    <2>1. ~AtMeta(c)'
      BY <1>4, <1>7, <1>8, <1>9, <1>12
    <2>2. Sync(c) # Out(c) /\ g.since = After(t, k + 2) /\ k + 2 \in Nat
      BY <1>0, <1>1, <1>3, <1>7, <1>12 DEF Timed
    <2>3. CASE k = filter
      <3>1. CaptureEvent(c)
        BY <1>0, <1>1, <1>7, <1>12, <2>3, CaptureIs DEF Captured
      <3>2. count = CountAt(t + (k + 2))
        BY <1>1, <2>2, CountAfter DEF BaseInv
      <3>3. t + (k + 2) = t + filter + 2 /\ t + filter + 2 \in Nat
        BY <1>1, <1>3, <2>3
      <3>4. capture'[c] = CountAt(t + filter + 2)'
        BY <1>2, <3>1, <3>2, <3>3, CaptureIs
      <3>5. ~AtSync(c)'
        BY <1>3, <1>4, <1>7, <1>8, <1>9, <1>12, <2>3
      <3> QED BY <1>1, <1>2, <1>5, <1>8, <2>1, <3>4, <3>5 DEF Timed
    <2>4. CASE k # filter
      <3>1. Meta(c) = Sync(c) /\ Run(c)' = k + 1
        BY <1>0, <1>3, <1>4, <2>2, <2>4
      <3>2. AtSync(c)'
        BY <1>4, <1>7, <1>8, <1>12, <2>1, <2>2, <2>4, <3>1
      <3>3. g'.since = After(t, k + 2 + 1)
        BY <1>6, <2>2
      <3>4. k + 2 + 1 = (k + 1) + 2 /\ (k + 1) + 2 \in Nat
        BY <1>3
      <3>5. g'.since = After(t, (k + 1) + 2)'
        BY <1>2, <3>3, <3>4
      <3> QED BY <1>1, <1>2, <1>5, <1>8, <2>1, <3>1, <3>2, <3>5 DEF Timed
    <2> QED BY <2>3, <2>4
  <1>13. CASE Arrived(c)
    <2>1. ~AtMeta(c)'
      BY <1>4, <1>7, <1>8, <1>13
    <2>2. ~AtSync(c)'
      BY <1>3, <1>4, <1>7, <1>8, <1>9, <1>13
    <2>3. ~CaptureEvent(c)
      BY <1>7, <1>13, CaptureIs DEF Captured
    <2>4. t + filter + 2 \in Nat
      BY <1>1, <1>3
    <2>5. capture'[c] = CountAt(t + filter + 2)'
      BY <1>1, <1>2, <1>13, <2>3, <2>4, CaptureIs DEF Timed
    <2> QED BY <1>1, <1>2, <1>5, <1>8, <2>1, <2>2, <2>5 DEF Timed
  <1> QED BY <1>7, <1>10, <1>11, <1>12, <1>13

LEMMA TrackedStep ==
  ASSUME BaseInv, Rested, Unlost, Tracked, NEW w, Typed(w), Ordered(w), Clocked(w)
  PROVE  Tracked'
  <1> SUFFICES ASSUME ~g'.bounce, g'.sure, NEW c \in Channels, g'.edgeAt[c] # Stopped'
               PROVE  Timed(c)'
    BY DEF Tracked
  <1>1. ~g.bounce
    BY HistoryIs DEF Clocked
  <1>2. /\ g'.edgeAt[c] = IF w.reg \in {"ctrl", "encoder"} THEN Stopped
                          ELSE IF EdgeToCapture(c) /\ g.since # Stopped THEN SinceNext(w)
                          ELSE g.edgeAt[c]
        /\ g'.since = SinceNext(w)
        /\ Stopped' = Stopped
    BY HistoryIs DEF Clocked, Stopped
  <1>3. w.reg \notin {"ctrl", "encoder", "filter"} /\ g.sure
    BY <1>2, SureIs DEF BaseInv
  <1>4. CASE EdgeToCapture(c) /\ g.since # Stopped
    <2>1. g'.edgeAt[c] = g'.since
      BY <1>2, <1>3, <1>4
    <2>2. CaptureOn(c)
      BY <1>4 DEF EdgeToCapture
    <2>3. g'.since # Stopped /\ CaptureOn(c)' /\ Falling(c)' = Falling(c)
      BY <1>3, <1>4, <2>2, UndisturbedCapture
    <2>4. AtContact(c)'
      BY <1>4, <2>2, <2>3, EdgeAtContact DEF BaseInv
    <2>5. g'.since \in Nat
      <3>1. SinceNext(w) \in Int /\ SinceNext(w) >= Stopped
        BY SinceStep DEF BaseInv
      <3> QED BY <1>2, <2>3, <3>1 DEF Stopped
    <2> QED BY <1>2, <2>1, <2>3, <2>4, <2>5 DEF Timed, AtMeta, AtSync, Arrived
  <1>5. CASE ~(EdgeToCapture(c) /\ g.since # Stopped)
    <2>1. g'.edgeAt[c] = g.edgeAt[c]
      BY <1>2, <1>3, <1>5
    <2>2. Timed(c)
      BY <1>1, <1>2, <1>3, <2>1 DEF Tracked
    <2>3. ~EdgeToCapture(c)
      BY <1>5, <2>2 DEF Timed
    <2>4. Meta(c) # Sync(c) => Sync(c) = Out(c) \/ Run(c) >= filter
      BY <1>1, <1>3 DEF Unlost
    <2> QED BY <1>3, <2>1, <2>2, <2>3, <2>4, TimedGoes
  <1> QED BY <1>4, <1>5

LEMMA CaptureInvariant == TimerSpec => [](BaseInv /\ FrontInv /\ Unlost /\ Tracked)
  <1>1. TimerInit => Unlost /\ Tracked
    <2> SUFFICES ASSUME TimerInit PROVE Unlost /\ Tracked
      OBVIOUS
    <2>1. PICK bounce \in BOOLEAN :
            g = [bounce |-> bounce, rest |-> 0, quiet |-> 0, since |-> Stopped, sure |-> FALSE,
                 lag |-> 0, acked |-> 0, edgeAt |-> [c \in Channels |-> Stopped]]
      BY DEF TimerInit
    <2>2. g.sure = FALSE
      BY <2>1
    <2> QED BY <2>2 DEF Unlost, Tracked
  <1>2. BaseInv /\ BaseInv' /\ FrontInv /\ Unlost /\ Tracked /\ [TimerNext]_timerVars
          => Unlost' /\ Tracked'
    <2> SUFFICES ASSUME BaseInv, BaseInv', FrontInv, Unlost, Tracked, [TimerNext]_timerVars
                 PROVE  Unlost' /\ Tracked'
      OBVIOUS
    <2>1. CASE UNCHANGED timerVars
      <3>1. shaft' = shaft /\ front' = front /\ g' = g /\ ctrl' = ctrl /\ filter' = filter
            /\ capture' = capture /\ prescale' = prescale /\ compare' = compare
        BY <2>1 DEF timerVars
      <3>2. \A c \in Channels : Contact(c)' = Contact(c) /\ Meta(c)' = Meta(c) /\ Sync(c)' = Sync(c)
                                /\ Out(c)' = Out(c) /\ Run(c)' = Run(c)
        BY <3>1 DEF Contact, Meta, Sync, Out, Run
      <3>3. Unlost'
        BY <3>1, <3>2 DEF Unlost
      <3>4. Stopped' = Stopped
        BY DEF Stopped
      <3>5. \A c \in Channels : Timed(c)' <=> Timed(c)
        <4> SUFFICES ASSUME NEW c \in Channels PROVE Timed(c)' <=> Timed(c)
          OBVIOUS
        <4>2. CaptureOn(c)' = CaptureOn(c)
          BY <3>1 DEF CaptureOn
        <4>3. /\ AtContact(c)' = AtContact(c) /\ AtMeta(c)' = AtMeta(c)
              /\ AtSync(c)' = AtSync(c) /\ Arrived(c)' = Arrived(c)
          BY <3>1, <3>2 DEF AtContact, AtMeta, AtSync, Arrived, Captured, Falling
        <4>4. \A t : CountAt(t)' = CountAt(t)
          BY <3>1, Zenon DEF CountAt, Period
        <4>5. \A t, k : After(t, k)' = After(t, k)
          BY <3>1, Zenon DEF After, Period
        <4> QED BY <3>1, <3>2, <3>4, <4>2, <4>3, <4>4, <4>5 DEF Timed
      <3> QED BY <3>1, <3>3, <3>4, <3>5 DEF Tracked
    <2>2. CASE TimerNext
      <3>1. PICK w : Clocked(w) /\ Goes(w)
        BY <2>2, TimerGoes DEF BaseInv
      <3>2. Typed(w) /\ Ordered(w)
        BY <3>1, GoesIs
      <3>3. Unlost'
        BY <3>1, <3>2, UnlostStep DEF BaseInv, FrontInv
      <3>4. Tracked'
        BY <3>1, <3>2, TrackedStep DEF FrontInv
      <3> QED BY <3>3, <3>4
    <2> QED BY <2>1, <2>2
  <1> QED BY <1>1, <1>2, FrontInvariant, PTL DEF TimerSpec

\* CaptureIsTheEdge, for every filter, every prescaler and compare value, with
\* and without AUTO_RELOAD.
THEOREM CapturesAreTheEdges == TimerSpec => []CaptureIsTheEdge
  <1>1. ASSUME BaseInv, FrontInv, Tracked, ~g.bounce, g.sure, Quiet,
               NEW c \in Channels, g.edgeAt[c] # Stopped
        PROVE  capture[c] = CountAt(g.edgeAt[c] + filter + 2)
    <2>1. Settled
      BY <1>1, QuietIsSettled DEF BaseInv, FrontInv
    <2>2. Arrived(c)
      BY <2>1 DEF Settled, Arrived, AtContact, AtMeta, AtSync, Captured
    <2> QED BY <1>1, <2>2 DEF Tracked, Timed
  <1>2. BaseInv /\ FrontInv /\ Unlost /\ Tracked => CaptureIsTheEdge
    BY <1>1 DEF CaptureIsTheEdge
  <1> QED BY <1>2, CaptureInvariant, PTL

-----------------------------------------------------------------------------
(* The User Flash controller.                                              *)

USE AccessAssumption, BoundaryAssumption

\* The access on the bus is the one the phase belongs to, until its answer.
HoldsAccess ==
  /\ state # "idle" => access # NoAccess /\ taken = access
  /\ state \in {"readAssert", "readCapture"} => FirstPhase(access) = "readAssert"
  /\ state \in ErasePhases => FirstPhase(access) = "eraseSetupAlign"
  /\ state \in ProgramPhases => FirstPhase(access) = "programSetupAlign"

AnswerBelongs ==
  state = "done" =>
    /\ error <=> FirstPhase(access) = "done"
    /\ FirstPhase(access) = "readAssert" => readData = cells[access.word]

StoreInv == FlashTypeOK /\ HoldsAccess /\ AnswerBelongs

\* The phases that begin on a boundary of their own interval.
WholeWaits == {"eraseSetupWait", "eraseReleaseWait", "eraseFinishWait", "programSetupWait",
           "programNvstrWait", "programReleaseWait", "programFinishWait"}

\* How long the pins have been as they are, as a function of RUN_TICKS.
PinsHeld ==
  /\ state \notin {"idle", "done"} => held >= 1
  /\ state \in WholeWaits => held >= (ticks % Interval(state)) + 1
  /\ state = "programYe" => held = (ticks % Short) + 1

\* The first crossing of an erase comes after any part of a long interval.
CrossingsCounted ==
  state = "eraseNvstr" =>
    /\ (crossings - 1) * Long + ticks + 2 <= held
    /\ held <= crossings * Long + ticks + 1

TimingInv == StoreInv /\ PinsHeld /\ CrossingsCounted

LEMMA SplitIsUnique ==
  ASSUME NEW n \in Nat \ {0}, NEW t \in Nat, NEW k \in Nat, NEW r \in 0 .. n - 1,
         t = n * k + r
  PROVE  t % n = r
  OBVIOUS

LEMMA SmallModulo ==
  ASSUME NEW n \in Nat \ {0}, NEW t \in 0 .. n - 1, t # n - 1
  PROVE  (t + 1) % n = t + 1
  OBVIOUS

LEMMA DividesThrough ==
  ASSUME NEW a \in Nat \ {0}, NEW b \in Nat \ {0}, NEW x \in Nat, b % a = 0, x % b = 0
  PROVE  x % a = 0
  <1> DEFINE j == b \div a
             k == x \div b
  <1>1. j \in Nat /\ b = a * j /\ k \in Nat /\ x = b * k
    BY QuotientBounds
  <1> HIDE DEF j, k
  <1>2. x = a * (j * k) + 0
    BY <1>1
  <1>3. j * k \in Nat /\ 0 \in 0 .. a - 1
    BY <1>1
  <1> QED BY <1>2, <1>3, SplitIsUnique

\* RUN_TICKS meets every boundary again after the clocks the boundary is named for.
Intervals == {Short, Medium, Long}

LEMMA IntervalsDivide ==
  ASSUME NEW n \in Intervals
  PROVE  n \in Nat \ {0, 1} /\ n <= Long /\ Long % n = 0 /\ (Long - 1) % n = n - 1
  <1>1. n \in Nat \ {0, 1} /\ n <= Long
    BY DEF Intervals
  <1>2. Long % n = 0
    <2>1. Long % Short = 0
      BY DividesThrough, Short \in Nat \ {0}, Medium \in Nat \ {0}
    <2>2. Long % Long = 0
      BY SplitIsUnique, Long = Long * 1 + 0
    <2> QED BY <2>1, <2>2 DEF Intervals
  <1>3. (Long - 1) % n = n - 1
    <2> DEFINE m == (Long - 1) % n
    <2>1. m # n - 1 => Long % n = m + 1
      BY <1>1, ModuloStep, Long - 1 \in Nat, (Long - 1) + 1 = Long
    <2>2. m \in Nat
      BY <1>1, QuotientBounds, Long - 1 \in Nat
    <2> QED BY <2>1, <2>2, <1>2
  <1> QED BY <1>1, <1>2, <1>3

Ticks == ticks \in 0 .. Long - 1 /\ ticks' = (ticks + 1) % Long

LEMMA TickStep ==
  ASSUME NEW n \in Intervals, Ticks
  PROVE  /\ ticks % n \in 0 .. n - 1 /\ n \in Nat \ {0, 1} /\ n <= Long
         /\ AtBoundary(n) => ticks' % n = 0
         /\ ~AtBoundary(n) => ticks' % n = (ticks % n) + 1
         /\ ticks' \in 0 .. Long - 1
  <1>1. n \in Nat \ {0, 1} /\ n <= Long /\ (Long - 1) % n = n - 1
    BY IntervalsDivide
  <1>2. ticks % n \in 0 .. n - 1
    BY <1>1, QuotientBounds DEF Ticks
  <1>3. CASE ticks = Long - 1
    <2>1. ticks' = 0
      BY <1>3, SplitIsUnique, (Long - 1) + 1 = Long * 1 + 0 DEF Ticks
    <2>2. 0 % n = 0
      BY <1>1, SplitIsUnique, 0 = n * 0 + 0
    <2> QED BY <2>1, <2>2, <1>1, <1>2, <1>3 DEF AtBoundary
  <1>4. CASE ticks # Long - 1
    <2>1. ticks + 1 \in 0 .. Long - 1 /\ ticks + 1 = Long * 0 + (ticks + 1)
      BY <1>4 DEF Ticks
    <2>2. ticks \in Nat /\ ticks' = ticks + 1
      BY <1>4, SmallModulo DEF Ticks
    <2>3. /\ ticks % n = n - 1 => (ticks + 1) % n = 0
          /\ ticks % n # n - 1 => (ticks + 1) % n = (ticks % n) + 1
      BY <1>1, <2>2, ModuloStep
    <2> QED BY <2>1, <2>2, <2>3, <1>1, <1>2 DEF AtBoundary
  <1> QED BY <1>3, <1>4
LEMMA LongTick ==
  ASSUME Ticks
  PROVE  /\ ticks' \in 0 .. Long - 1
         /\ AtBoundary(Long) => ticks = Long - 1 /\ ticks' = 0
         /\ ~AtBoundary(Long) => ticks' = ticks + 1
  <1>1. ticks \in 0 .. Long - 1 /\ ticks = Long * 0 + ticks
    BY DEF Ticks
  <1>2. ticks % Long = ticks
    BY <1>1
  <1>3. CASE ticks = Long - 1
    BY <1>2, <1>3, TickStep, Long \in Intervals DEF AtBoundary, Intervals
  <1>4. CASE ticks # Long - 1
    BY <1>1, <1>2, <1>4, SmallModulo DEF AtBoundary, Ticks
  <1> QED BY <1>3, <1>4

-----------------------------------------------------------------------------
(* The phases of an access.                                                *)

LEMMA AccessTypes ==
  ASSUME NEW a \in Access
  PROVE  /\ a.word \in Nat /\ a.strobe \in Strobes /\ a.aligned \in BOOLEAN /\ a.data \in Word
         /\ FirstPhase(a) \in {"done", "readAssert", "programSetupAlign", "eraseSetupAlign"}
         /\ FirstPhase(a) # "done" => a.word \in Index
  BY DEF Word, FirstPhase, Strobes

\* An erase or a program stays one until it is done.
LEMMA FollowingStays ==
  /\ DOMAIN Following = (ErasePhases \ {"eraseNvstr"}) \cup (ProgramPhases \ {"programHold"})
  /\ Following["eraseFinishWait"] = "done" /\ Following["programFinishWait"] = "done"
  /\ \A s \in ErasePhases \ {"eraseNvstr", "eraseFinishWait"} : Following[s] \in ErasePhases
  /\ \A s \in ProgramPhases \ {"programHold", "programFinishWait"} :
       Following[s] \in ProgramPhases
  BY DEF Following, ErasePhases, ProgramPhases

LEMMA HeldStep ==
  ASSUME FlashTypeOK,
         held' = IF ~Pins(state', error').XE THEN 0
                 ELSE IF Pins(state', error') # Pins(state, error) THEN 1
                 ELSE IF held = HeldMax THEN HeldMax ELSE held + 1
  PROVE  /\ held' \in 0 .. HeldMax
         /\ Pins(state', error').XE => held' >= 1
         /\ Pins(state', error').XE /\ Pins(state', error') # Pins(state, error) => held' = 1
         /\ Pins(state', error').XE /\ Pins(state', error') = Pins(state, error) /\ held < HeldMax
              => held' = held + 1
         /\ Pins(state', error').XE /\ Pins(state', error') = Pins(state, error) => held' >= held
  <1>1. HeldMax \in Nat /\ HeldMax >= 1 /\ held \in 0 .. HeldMax
    <2>1. EraseCount * Long \in Nat
      OBVIOUS
    <2> QED BY <2>1 DEF HeldMax, FlashTypeOK
  <1> DEFINE x == Pins(state', error').XE
             e == Pins(state', error') = Pins(state, error)
  <1>2. held' = IF ~x THEN 0 ELSE IF ~e THEN 1 ELSE IF held = HeldMax THEN HeldMax ELSE held + 1
    OBVIOUS
  <1> HIDE DEF x, e
  <1>3. /\ held' \in 0 .. HeldMax
        /\ x => held' >= 1
        /\ x /\ ~e => held' = 1
        /\ x /\ e /\ held < HeldMax => held' = held + 1
        /\ x /\ e => held' >= held
    BY <1>1, <1>2
  <1> QED BY <1>3 DEF x, e

LEMMA StoreInit == FlashInit => StoreInv
  <1> SUFFICES ASSUME FlashInit PROVE StoreInv
    OBVIOUS
  <1>1. EraseCount * Long \in Nat /\ 0 \in 0 .. HeldMax
    BY DEF HeldMax
  <1>2. ticks \in 0 .. Long - 1 /\ crossings \in 0 .. EraseCount - 1 /\ held \in 0 .. HeldMax
    BY <1>1 DEF FlashInit
  <1>3. error \in BOOLEAN /\ readData \in Word /\ state \in States /\ cells \in [Index -> Word]
    BY DEF FlashInit, States, Word
  <1>4. FlashTypeOK
    BY <1>2, <1>3 DEF FlashInit, FlashTypeOK
  <1> QED BY <1>4 DEF FlashInit, StoreInv, HoldsAccess, AnswerBelongs, ErasePhases, ProgramPhases

LEMMA CpuTypes ==
  ASSUME FlashTypeOK, Cpu
  PROVE  /\ access' \in Access \cup {NoAccess}
         /\ state # "done" /\ access # NoAccess => access' = access
         /\ state = "done" /\ access # NoAccess => access' = NoAccess
  BY DEF FlashTypeOK, Cpu, Ready

\* The words and the registers keep their types at every clock edge.
LEMMA ControllerTypes ==
  ASSUME StoreInv, Controller, Cpu
  PROVE  /\ taken' \in Access \cup {NoAccess} /\ state' \in States /\ readData' \in Word
         /\ crossings' \in 0 .. EraseCount - 1 /\ error' \in BOOLEAN
         /\ cells' \in [Index -> Word]
  <1> USE DEF StoreInv, FlashTypeOK, HoldsAccess
  <1>1. CASE Idle
    <2>1. state' \in States /\ taken' \in Access \cup {NoAccess}
      BY <1>1, AccessTypes DEF Idle, States, ErasePhases, ProgramPhases
    <2>2. error' \in BOOLEAN
      BY <1>1 DEF Idle
    <2> QED BY <1>1, <2>1, <2>2 DEF Idle
  <1>2. CASE ReadAssert
    BY <1>2 DEF ReadAssert, States
  <1>3. CASE ReadCapture
    <2>1. taken \in Access /\ taken.word \in Index
      BY <1>3, AccessTypes DEF ReadCapture
    <2> QED BY <1>3, <2>1 DEF ReadCapture, States
  <1>4. CASE EraseNvstr
    BY <1>4 DEF EraseNvstr, LastCrossing, Counted, States, ErasePhases
  <1>5. CASE ProgramHold
    BY <1>5 DEF ProgramHold, States, ProgramPhases
  <1>6. CASE Phase
    <2>1. taken \in Access
      BY <1>6, FollowingStays DEF Phase, ErasePhases, ProgramPhases
    <2>2. state' \in States
      BY <1>6, FollowingStays DEF Phase, NextPhase, States
    <2>3. crossings' \in 0 .. EraseCount - 1
      BY <1>6 DEF Phase
    <2>6. error' \in BOOLEAN
      BY <1>6 DEF Phase, FlagNext
    <2>4. Programmed(cells, taken) \in [Index -> Word]
      BY <2>1, AccessTypes DEF Programmed, Word
    <2>5. Erased(cells, taken) \in [Index -> Word]
      BY DEF Erased, Word
    <2> QED BY <1>6, <2>1, <2>2, <2>3, <2>4, <2>5, <2>6 DEF Phase
  <1>7. CASE Done
    BY <1>7 DEF Done, States
  <1> QED BY <1>1, <1>2, <1>3, <1>4, <1>5, <1>6, <1>7 DEF Controller

LEMMA ControllerHolds ==
  ASSUME StoreInv, Controller, Cpu
  PROVE  HoldsAccess' /\ AnswerBelongs'
  <1> USE DEF StoreInv, HoldsAccess, AnswerBelongs
  <1>0. /\ state # "done" /\ access # NoAccess => access' = access
        /\ state = "done" /\ access # NoAccess => access' = NoAccess
    BY CpuTypes
  <1>1. CASE Idle
    BY <1>0, <1>1, AccessTypes DEF Idle, ErasePhases, ProgramPhases, FlashTypeOK
  <1>2. CASE ReadAssert
    BY <1>0, <1>2 DEF ReadAssert, ErasePhases, ProgramPhases
  <1>3. CASE ReadCapture
    BY <1>0, <1>3 DEF ReadCapture, ErasePhases, ProgramPhases
  <1>4. CASE EraseNvstr
    BY <1>0, <1>4 DEF EraseNvstr, ErasePhases, ProgramPhases
  <1>5. CASE ProgramHold
    BY <1>0, <1>5 DEF ProgramHold, ErasePhases, ProgramPhases
  <1>6. CASE Phase
    <2>1. state \notin {"idle", "readAssert", "readCapture", "done"}
      BY <1>6, FollowingStays DEF Phase, ErasePhases, ProgramPhases
    <2>2. access # NoAccess /\ taken = access /\ access' = access /\ taken' = taken
      BY <2>1, <1>0, <1>6 DEF Phase
    <2>3. CASE state \in ErasePhases
      <3>1. FirstPhase(access) = "eraseSetupAlign" /\ FirstPhase(access') = "eraseSetupAlign"
        BY <2>2, <2>3
      <3>2. state' \in ErasePhases \cup {"done"}
        BY <1>6, <2>3, FollowingStays DEF Phase, NextPhase, ErasePhases, ProgramPhases
      <3>3. state' = "done" => error' = FALSE
        BY <1>6, <2>3, FollowingStays DEF Phase, NextPhase, FlagNext, ErasePhases, ProgramPhases
      <3> QED BY <2>2, <3>1, <3>2, <3>3 DEF ErasePhases, ProgramPhases
    <2>4. CASE state \in ProgramPhases
      <3>1. FirstPhase(access) = "programSetupAlign" /\ FirstPhase(access') = "programSetupAlign"
        BY <2>2, <2>4
      <3>2. state' \in ProgramPhases \cup {"done"}
        BY <1>6, <2>4, FollowingStays DEF Phase, NextPhase, ErasePhases, ProgramPhases
      <3>3. state' = "done" => error' = FALSE
        BY <1>6, <2>4, FollowingStays DEF Phase, NextPhase, FlagNext, ErasePhases, ProgramPhases
      <3> QED BY <2>2, <3>1, <3>2, <3>3 DEF ErasePhases, ProgramPhases
    <2> QED BY <1>6, <2>3, <2>4, FollowingStays DEF Phase
  <1>7. CASE Done
    BY <1>0, <1>7 DEF Done, ErasePhases, ProgramPhases
  <1> QED BY <1>1, <1>2, <1>3, <1>4, <1>5, <1>6, <1>7 DEF Controller
LEMMA StoreStep == StoreInv /\ [FlashNext]_flashVars => StoreInv'
  <1> SUFFICES ASSUME StoreInv, [FlashNext]_flashVars PROVE StoreInv'
    OBVIOUS
  <1>1. CASE FlashClock
    <2>1. Controller /\ Cpu /\ ticks' = (ticks + 1) % Long
      BY <1>1 DEF FlashClock
    <2>2. ticks' \in 0 .. Long - 1
      BY <2>1, TickStep, Long \in Intervals DEF Ticks, StoreInv, FlashTypeOK, Intervals
    <2>3. held' \in 0 .. HeldMax
      BY <1>1, HeldStep DEF FlashClock, StoreInv
    <2>4. FlashTypeOK'
      BY <2>1, <2>2, <2>3, ControllerTypes, CpuTypes DEF StoreInv, FlashTypeOK
    <2> QED BY <2>1, <2>4, ControllerHolds DEF StoreInv
  <1>2. CASE FlashReset
    <2>1. FlashTypeOK'
      <3>1. cells' \in [Index -> Word]
        <4>1. CASE state = "programYe"
          <5>1. taken \in Access
            BY <4>1 DEF StoreInv, HoldsAccess, FlashTypeOK
          <5> QED BY <1>2, <4>1, <5>1, AccessTypes DEF FlashReset, Interrupted, StoreInv, FlashTypeOK, Word
        <4> QED BY <1>2, <4>1 DEF FlashReset, Interrupted, StoreInv, FlashTypeOK
      <3>2. ticks' \in 0 .. Long - 1 /\ crossings' \in 0 .. EraseCount - 1 /\ held' \in 0 .. HeldMax
        <4>1. EraseCount * Long \in Nat
          OBVIOUS
        <4> QED BY <1>2, <4>1 DEF FlashReset, HeldMax
      <3>3. error' \in BOOLEAN /\ readData' \in Word /\ state' \in States
        BY <1>2 DEF FlashReset, States, Word
      <3> QED BY <1>2, <3>1, <3>2, <3>3 DEF FlashReset, FlashTypeOK
    <2> QED BY <1>2, <2>1 DEF FlashReset, StoreInv, HoldsAccess, AnswerBelongs, ErasePhases, ProgramPhases
  <1>3. CASE UNCHANGED flashVars
    BY <1>3 DEF flashVars, StoreInv, FlashTypeOK, HoldsAccess, AnswerBelongs
  <1> QED BY <1>1, <1>2, <1>3 DEF FlashNext

LEMMA StoreInvariant == FlashSpec => []StoreInv
  BY StoreInit, StoreStep, PTL DEF FlashSpec

-----------------------------------------------------------------------------
(* Every access is one operation of the FlashStore.                        *)

\* The two modules sort the accesses alike.
LEMMA KindOfPhase ==
  ASSUME NEW a
  PROVE  /\ Store!Kind(a) = "refused" <=> FirstPhase(a) = "done"
         /\ Store!Kind(a) = "read" <=> FirstPhase(a) = "readAssert"
         /\ Store!Kind(a) = "program" <=> FirstPhase(a) = "programSetupAlign"
         /\ Store!Kind(a) = "erase" <=> FirstPhase(a) = "eraseSetupAlign"
  BY DEF Store!Kind, FirstPhase, Store!Index, Index

LEMMA AfterOfPhase ==
  ASSUME NEW a
  PROVE  Store!After(a) = IF FirstPhase(a) = "programSetupAlign" THEN Programmed(cells, a)
                          ELSE IF FirstPhase(a) = "eraseSetupAlign" THEN Erased(cells, a)
                          ELSE cells
  BY KindOfPhase DEF Store!After, Store!Page, Store!Index, Index, PageOf, Programmed, Erased

LEMMA ReplyIsNone == ~Ready => Reply = Store!None
  BY DEF Reply, Store!None, Ready

LEMMA ReplyIsOffered == Ready => Reply # Store!None
  <1>1. Ready => Reply.offered # Store!None.offered
    BY DEF Reply, Store!None, Ready
  <1> QED BY <1>1

\* An answer that appears is the one to the access on the bus.
LEMMA AnswerOfPhase ==
  ASSUME StoreInv', state' = "done", access' = access,
         FirstPhase(access) = "readAssert" => cells' = cells
  PROVE  Reply' = Store!Answer(access)
  <1>1. Ready' /\ (error' <=> FirstPhase(access) = "done")
        /\ (FirstPhase(access) = "readAssert" => readData' = cells[access.word])
    BY DEF StoreInv, AnswerBelongs, Ready
  <1>2. error' \in BOOLEAN
    BY DEF StoreInv, FlashTypeOK
  <1> QED BY <1>1, <1>2, KindOfPhase DEF Reply, Store!Answer, Ready

\* A step before the answer leaves the access on the bus; one that brings the
\* answer offers it to that access.
LEMMA BusyStep ==
  ASSUME StoreInv, Cpu, state # "done", access # NoAccess
  PROVE  /\ access' = access /\ Reply = Store!None
         /\ state' # "done" => Reply' = Store!None
  BY CpuTypes, ReplyIsNone DEF StoreInv, Ready, Reply, Store!None

LEMMA ClockImplements ==
  ASSUME StoreInv, FlashClock
  PROVE  [Store!Next]_<<cells, access, Applied, Reply>>
  <1>1. Controller /\ Cpu
    BY DEF FlashClock
  <1>2. StoreInv'
    BY StoreStep DEF FlashNext
  <1>3. CASE state = "idle" /\ access = NoAccess
    <2>1. cells' = cells /\ Reply = Store!None /\ Reply' = Store!None
      BY <1>1, <1>3 DEF Controller, Idle, ReadAssert, ReadCapture, EraseNvstr, ProgramHold, Phase,
                        Done, Following, Ready, Reply, Store!None
    <2>2. ~Applied /\ ~Applied'
      BY <1>1, <1>3 DEF Controller, Idle, ReadAssert, ReadCapture, EraseNvstr, ProgramHold, Phase,
                        Done, Following, Applied
    <2>3. CASE access' = access
      BY <2>1, <2>2, <2>3 DEF Applied
    <2>4. CASE access' # access
      BY <1>1, <1>3, <2>1, <2>2, <2>4 DEF Cpu, Store!Start, Store!Next, Applied
    <2> QED BY <2>3, <2>4
  <1>4. CASE state = "idle" /\ access # NoAccess
    <2>1. access' = access /\ Reply = Store!None /\ (state' # "done" => Reply' = Store!None)
      BY <1>1, <1>4, BusyStep
    <2>2. state' = FirstPhase(access) /\ cells' = cells /\ access \in Access
      BY <1>1, <1>4 DEF Controller, Idle, ReadAssert, ReadCapture, EraseNvstr, ProgramHold, Phase,
                        Done, Following, StoreInv, FlashTypeOK
    <2>3. Applied = FALSE /\ Applied' = (FirstPhase(access) = "done")
      BY <1>4, <2>2, AccessTypes DEF Applied
    <2>4. CASE FirstPhase(access) = "done"
      <3>1. Reply' = Store!Answer(access)
        BY <1>2, <2>1, <2>2, <2>4, AnswerOfPhase
      <3>2. Store!After(access) = cells
        BY <2>4, AfterOfPhase
      <3> QED BY <1>4, <2>1, <2>2, <2>3, <2>4, <3>1, <3>2 DEF Store!Next, Store!Offer
    <2>5. CASE FirstPhase(access) # "done"
      BY <2>1, <2>2, <2>3, <2>5
    <2> QED BY <2>4, <2>5
  <1>5. CASE state = "done"
    <2>1. state' = "idle" /\ cells' = cells
      BY <1>1, <1>5 DEF Controller, Idle, ReadAssert, ReadCapture, EraseNvstr, ProgramHold, Phase,
                        Done, Following
    <2>2. access' = NoAccess
      BY <1>1, <1>5, CpuTypes DEF StoreInv, HoldsAccess
    <2>3. Reply # Store!None
      BY <1>5, ReplyIsOffered DEF Ready
    <2>4. Reply' = Store!None
      BY <2>1 DEF Ready, Reply, Store!None
    <2>5. Applied' = FALSE
      BY <2>1 DEF Applied
    <2> QED BY <2>1, <2>2, <2>3, <2>4, <2>5 DEF Store!Next, Store!Take
  <1>6. CASE state \in {"readAssert", "readCapture"}
    <2>1. access # NoAccess /\ FirstPhase(access) = "readAssert" /\ cells' = cells
      BY <1>1, <1>6 DEF Controller, Idle, ReadAssert, ReadCapture, EraseNvstr, ProgramHold, Phase,
                        Done, Following, StoreInv, HoldsAccess
    <2>2. access' = access /\ Reply = Store!None /\ (state' # "done" => Reply' = Store!None)
      BY <1>1, <1>6, <2>1, BusyStep
    <2>3. Applied = FALSE /\ state' \in {"readCapture", "done"}
      BY <1>1, <1>6 DEF Controller, Idle, ReadAssert, ReadCapture, EraseNvstr, ProgramHold, Phase,
                        Done, Following, Applied
    <2>4. CASE state' = "done"
      <3>1. Reply' = Store!Answer(access)
        BY <1>2, <2>1, <2>2, <2>4, AnswerOfPhase
      <3>2. Store!After(access) = cells
        BY <2>1, AfterOfPhase
      <3>3. Applied' = TRUE
        BY <2>4 DEF Applied
      <3> QED BY <2>1, <2>2, <2>3, <3>1, <3>2, <3>3 DEF Store!Next, Store!Offer
    <2>5. CASE state' # "done"
      <3>1. Applied' = FALSE
        BY <2>3, <2>5 DEF Applied
      <3> QED BY <2>1, <2>2, <2>3, <2>5, <3>1
    <2> QED BY <2>4, <2>5
  <1>7. CASE state \in ErasePhases
    <2>1. /\ access # NoAccess /\ taken = access /\ FirstPhase(access) = "eraseSetupAlign"
          /\ state # "done" /\ state \in ErasePhases
      BY <1>7 DEF StoreInv, HoldsAccess, ErasePhases
    <2>2. access' = access /\ Reply = Store!None /\ (state' # "done" => Reply' = Store!None)
      BY <1>1, <2>1, BusyStep
    <2>3. \/ state' = "done" /\ cells' = Erased(cells, access)
          \/ state' \in ErasePhases /\ cells' = cells
      <3>1. CASE EraseNvstr
        BY <3>1 DEF EraseNvstr, ErasePhases
      <3>2. CASE Phase
        BY <2>1, <3>2 DEF Phase, NextPhase, Following, ErasePhases
      <3> QED BY <1>1, <1>7, <3>1, <3>2 DEF Controller, Idle, ReadAssert, ReadCapture,
                                            ProgramHold, Done, ErasePhases
    <2>4. Applied = FALSE /\ Store!After(access) = Erased(cells, access)
      BY <2>1, AfterOfPhase DEF Applied, ErasePhases
    <2>5. CASE state' = "done"
      <3>1. Reply' = Store!Answer(access) /\ Applied' = TRUE
        BY <1>2, <2>1, <2>2, <2>5, AnswerOfPhase DEF Applied
      <3>2. cells' = Erased(cells, access)
        BY <2>3, <2>5 DEF ErasePhases
      <3> QED BY <2>1, <2>2, <2>4, <3>1, <3>2 DEF Store!Next, Store!Offer
    <2>6. CASE state' # "done"
      <3>1. Applied' = FALSE
        BY <2>3, <2>6 DEF Applied, ErasePhases
      <3> QED BY <2>2, <2>3, <2>4, <2>6, <3>1
    <2> QED BY <2>5, <2>6
  <1>8. CASE state \in ProgramPhases
    <2>1. /\ access # NoAccess /\ taken = access /\ FirstPhase(access) = "programSetupAlign"
          /\ state # "done" /\ state \in ProgramPhases
      BY <1>8 DEF StoreInv, HoldsAccess, ProgramPhases
    <2>2. access' = access /\ Reply = Store!None /\ (state' # "done" => Reply' = Store!None)
      BY <1>1, <2>1, BusyStep
    <2>3. Store!After(access) = Programmed(cells, access)
      BY <2>1, AfterOfPhase
    <2>4. \/ /\ state = "programYe" /\ state' = "programHold"
             /\ cells' = Programmed(cells, access)
          \/ cells' = cells /\ ~Applied /\ ~Applied' /\ state' # "done"
          \/ cells' = cells /\ Applied /\ Applied'
      <3>1. CASE ProgramHold
        BY <3>1 DEF ProgramHold, Applied
      <3>2. CASE Phase
        BY <2>1, <3>2 DEF Phase, NextPhase, Following, ProgramPhases, Applied
      <3> QED BY <1>1, <1>8, <3>1, <3>2 DEF Controller, Idle, ReadAssert, ReadCapture,
                                            EraseNvstr, Done, ProgramPhases
    <2>5. CASE state = "programYe" /\ state' = "programHold" /\ cells' = Programmed(cells, access)
      <3>1. Applied = FALSE /\ Applied' = TRUE
        BY <2>5 DEF Applied
      <3> QED BY <2>1, <2>2, <2>3, <2>5, <3>1 DEF Store!Next, Store!Perform
    <2>6. CASE cells' = cells /\ ~Applied /\ ~Applied' /\ state' # "done"
      <3>1. Applied = FALSE /\ Applied' = FALSE
        BY <2>6 DEF Applied
      <3> QED BY <2>2, <2>6, <3>1
    <2>7. CASE cells' = cells /\ Applied /\ Applied'
      <3>1. Applied = TRUE /\ Applied' = TRUE
        BY <2>7 DEF Applied
      <3>2. CASE state' = "done"
        <4>1. Reply' = Store!Answer(access)
          BY <1>2, <2>1, <2>2, <3>2, AnswerOfPhase
        <4> QED BY <2>1, <2>2, <2>7, <3>1, <4>1 DEF Store!Next, Store!Offer
      <3>3. CASE state' # "done"
        BY <2>2, <2>7, <3>1, <3>3
      <3> QED BY <3>2, <3>3
    <2> QED BY <2>4, <2>5, <2>6, <2>7
  <1> QED BY <1>3, <1>4, <1>5, <1>6, <1>7, <1>8 DEF StoreInv, FlashTypeOK, States

LEMMA ResetImplements ==
  ASSUME StoreInv, FlashReset
  PROVE  Store!Cut
  <1>0. access' = NoAccess /\ Applied' = FALSE
    BY DEF FlashReset, Applied
  <1>1. Reply' = Store!None
    BY DEF FlashReset, Reply, Ready, Store!None
  <1>2. ASSUME access # NoAccess, ~Applied
        PROVE  cells' \in Store!Partly(access)
    <2>1. access \in Access
      BY <1>2 DEF StoreInv, FlashTypeOK
    <2>2. CASE state = "programYe"
      <3>1. taken = access /\ FirstPhase(access) = "programSetupAlign"
        BY <2>2 DEF StoreInv, HoldsAccess, ProgramPhases
      <3> QED BY <2>2, <3>1, KindOfPhase DEF FlashReset, Interrupted, Store!Partly
    <2>3. CASE state \in ErasePhases \ {"eraseSetupAlign", "eraseSetupWait"}
      <3>1. taken = access /\ FirstPhase(access) = "eraseSetupAlign" /\ state # "programYe"
        BY <2>3 DEF StoreInv, HoldsAccess, ErasePhases
      <3> QED BY <2>3, <3>1, KindOfPhase
              DEF FlashReset, Interrupted, Store!Partly, Store!Page, PageOf, Store!Index, Index,
                  Store!Word, Word
    <2>4. CASE state \notin {"programYe"} \cup (ErasePhases \ {"eraseSetupAlign", "eraseSetupWait"})
      <3>1. cells' = cells /\ cells \in [Index -> Word]
        BY <2>4 DEF FlashReset, Interrupted, StoreInv, FlashTypeOK
      <3>2. cells = [cells EXCEPT ![access.word] = @ \cup {}] /\ {} \in SUBSET access.data
        BY <3>1
      <3> QED BY <3>1, <3>2
              DEF Store!Partly, Store!Page, Store!Index, Index, Store!Word, Word
    <2> QED BY <2>2, <2>3, <2>4
  <1>3. ASSUME access = NoAccess \/ Applied
        PROVE  cells' = cells
    BY <1>3 DEF FlashReset, Interrupted, StoreInv, HoldsAccess, Applied, ErasePhases
  <1> QED BY <1>0, <1>1, <1>2, <1>3 DEF Store!Cut

\* The User Flash controller is a FlashStore: whatever the CPU asks for, whenever
\* the boundaries come and wherever a reset cuts in, an access is one operation
\* on the words and its answer is true.
THEOREM FlashIsAStore == FlashSpec => ImplementsStore
  <1>1. FlashInit => Store!Init
    <2> SUFFICES ASSUME FlashInit PROVE Store!Init
      OBVIOUS
    <2>1. Applied = FALSE
      BY DEF FlashInit, Applied
    <2>2. Reply = Store!None
      BY DEF FlashInit, Reply, Ready, Store!None
    <2> QED BY <2>1, <2>2 DEF FlashInit, Store!Init, Store!Index, Index, Store!Word, Word
  <1>2. StoreInv /\ [FlashNext]_flashVars => [Store!Next]_<<cells, access, Applied, Reply>>
    <2> SUFFICES ASSUME StoreInv, [FlashNext]_flashVars
                 PROVE  [Store!Next]_<<cells, access, Applied, Reply>>
      OBVIOUS
    <2>1. CASE FlashReset
      BY <2>1, ResetImplements DEF Store!Next
    <2>2. CASE UNCHANGED flashVars
      BY <2>2 DEF flashVars, Applied, Reply, Ready, FirstPhase
    <2> QED BY <2>1, <2>2, ClockImplements DEF FlashNext
  <1>3. StoreInv => FlashTypeOK
    BY DEF StoreInv
  <1> QED BY <1>1, <1>2, <1>3, StoreInvariant, PTL DEF FlashSpec, ImplementsStore, Store!Spec,
                                                      Store!vars
-----------------------------------------------------------------------------
(* The timing of the pins.                                                 *)

LEMMA PinsAre ==
  ASSUME NEW s, NEW e
  PROVE  LET programming == {"programNvstrAlign", "programNvstrWait", "programYe", "programHold"}
             releasing   == {"eraseReleaseAlign", "eraseReleaseWait",
                             "programReleaseAlign", "programReleaseWait"}
         IN /\ Pins(s, e)["XE"] <=> s \notin {"idle", "done"}
            /\ Pins(s, e)["YE"] <=> s \in {"readAssert", "readCapture", "programYe"}
            /\ Pins(s, e)["PROG"] <=> \/ s = "programSetupAlign" /\ e
                                      \/ s \in {"programSetupWait"} \cup programming
            /\ Pins(s, e)["ERASE"] <=> \/ s = "eraseSetupAlign" /\ e
                                       \/ s \in {"eraseSetupWait", "eraseNvstr"}
            /\ Pins(s, e)["NVSTR"] <=> s \in {"eraseNvstr"} \cup programming \cup releasing
  BY DEF Pins

\* Where a phase that began on a boundary comes from.
LEMMA IntoWait ==
  ASSUME StoreInv, Controller, Cpu, state' \in WholeWaits
  PROVE  /\ Interval(state') \in {Short, Medium}
         /\ \/ AtBoundary(Interval(state'))
            \/ state' = state /\ error' = error /\ ~AtBoundary(Interval(state'))
  <1>1. CASE Idle
    BY <1>1, AccessTypes DEF Idle, WholeWaits, StoreInv, FlashTypeOK
  <1>2. CASE Phase
    <2>1. CASE AtBoundary(Interval(state))
      BY <1>2, <2>1 DEF Phase, NextPhase, Following, WholeWaits, Interval, Finish, Nvstr
    <2>2. CASE ~AtBoundary(Interval(state))
      BY <1>2, <2>2 DEF Phase, FlagNext, WholeWaits, Interval, Finish, Nvstr
    <2> QED BY <2>1, <2>2
  <1>3. CASE EraseNvstr \/ ReadAssert \/ ReadCapture \/ ProgramHold \/ Done
    BY <1>3 DEF EraseNvstr, ReadAssert, ReadCapture, ProgramHold, Done, WholeWaits
  <1> QED BY <1>1, <1>2, <1>3 DEF Controller

LEMMA IntoYe ==
  ASSUME StoreInv, Controller, Cpu, state' = "programYe"
  PROVE  \/ AtBoundary(Medium) /\ state = "programNvstrWait"
         \/ state = "programYe" /\ error' = error /\ ~AtBoundary(Short)
  <1>1. CASE Idle
    BY <1>1, AccessTypes DEF Idle, StoreInv, FlashTypeOK
  <1>2. CASE Phase
    <2>1. CASE AtBoundary(Interval(state))
      BY <1>2, <2>1 DEF Phase, NextPhase, Following, Interval, Finish, Nvstr
    <2>2. CASE ~AtBoundary(Interval(state))
      BY <1>2, <2>2 DEF Phase, FlagNext, Interval, Finish, Nvstr
    <2> QED BY <2>1, <2>2
  <1>3. CASE EraseNvstr \/ ReadAssert \/ ReadCapture \/ ProgramHold \/ Done
    BY <1>3 DEF EraseNvstr, ReadAssert, ReadCapture, ProgramHold, Done
  <1> QED BY <1>1, <1>2, <1>3 DEF Controller

LEMMA IntoNvstr ==
  ASSUME StoreInv, Controller, Cpu, state' = "eraseNvstr"
  PROVE  \/ state = "eraseSetupWait" /\ crossings' = 0
         \/ /\ state = "eraseNvstr" /\ error' = error
            /\ \/ ~AtBoundary(Long) /\ crossings' = crossings
               \/ AtBoundary(Long) /\ ~LastCrossing /\ crossings' = crossings + 1
  <1>1. CASE Idle
    BY <1>1, AccessTypes DEF Idle, StoreInv, FlashTypeOK
  <1>2. CASE Phase
    BY <1>2 DEF Phase, NextPhase, Following
  <1>3. CASE EraseNvstr
    BY <1>3 DEF EraseNvstr, Counted
  <1>4. CASE ReadAssert \/ ReadCapture \/ ProgramHold \/ Done
    BY <1>4 DEF ReadAssert, ReadCapture, ProgramHold, Done
  <1> QED BY <1>1, <1>2, <1>3, <1>4 DEF Controller

LEMMA CrossingBounds ==
  ASSUME NEW k \in 0 .. EraseCount - 1
  PROVE  /\ k * Long \in Nat /\ (k - 1) * Long = k * Long - Long
         /\ (k + 1) * Long = k * Long + Long
         /\ k * Long + Long < HeldMax /\ Long < HeldMax /\ HeldMax \in Nat
  <1>1. EraseCount - 1 - k \in Nat /\ (EraseCount - 1 - k) * Long \in Nat
    OBVIOUS
  <1>2. (EraseCount - 1 - k) * Long = EraseCount * Long - Long - k * Long
    OBVIOUS
  <1>3. k * Long \in Nat /\ EraseCount * Long \in Nat
    OBVIOUS
  <1>4. (k - 1) * Long = k * Long - Long /\ (k + 1) * Long = k * Long + Long
    OBVIOUS
  <1> QED BY <1>1, <1>2, <1>3, <1>4 DEF HeldMax

LEMMA TimingStep ==
  ASSUME TimingInv, FlashClock
  PROVE  PinsHeld' /\ CrossingsCounted'
  <1> DEFINE same == Pins(state', error') = Pins(state, error)
             up   == state' \notin {"idle", "done"}
  <1>1. Controller /\ Cpu /\ Ticks /\ StoreInv
    BY DEF FlashClock, TimingInv, StoreInv, FlashTypeOK, Ticks
  <1>2. /\ held' \in 0 .. HeldMax
        /\ up => held' >= 1
        /\ up /\ ~same => held' = 1
        /\ up /\ same /\ held < HeldMax => held' = held + 1
        /\ up /\ same => held' >= held
    BY HeldStep, PinsAre DEF FlashClock, TimingInv, StoreInv
  <1>3. /\ held \in 0 .. HeldMax /\ crossings \in 0 .. EraseCount - 1
        /\ HeldMax \in Nat /\ Long < HeldMax /\ ticks \in 0 .. Long - 1
    BY <1>1, CrossingBounds DEF StoreInv, FlashTypeOK
  <1> HIDE DEF same
  <1>4. ASSUME state' \in WholeWaits
        PROVE  held' >= (ticks' % Interval(state')) + 1
    <2> DEFINE n == Interval(state')
    <2>1. up
      BY <1>4 DEF WholeWaits
    <2>2. n \in Intervals
      BY <1>1, <1>4, IntoWait DEF Intervals
    <2> HIDE DEF n
    <2>3. /\ ticks % n \in 0 .. n - 1 /\ n <= Long /\ n \in Nat \ {0, 1}
          /\ AtBoundary(n) => ticks' % n = 0
          /\ ~AtBoundary(n) => ticks' % n = (ticks % n) + 1
      BY <1>1, <2>2, TickStep
    <2>4. CASE AtBoundary(n)
      BY <1>2, <2>1, <2>3, <2>4 DEF n
    <2>5. CASE state' = state /\ error' = error /\ ~AtBoundary(n)
      <3>1. same /\ held >= (ticks % n) + 1
        BY <1>4, <2>5 DEF same, n, TimingInv, PinsHeld
      <3>2. (ticks % n) + 1 <= n - 1
        BY <2>3, <2>5 DEF AtBoundary
      <3>3. held' >= (ticks % n) + 1 + 1
        BY <1>2, <1>3, <2>1, <2>3, <3>1, <3>2
      <3> QED BY <2>3, <2>5, <3>3 DEF n
    <2> QED BY <1>1, <1>4, <2>4, <2>5, IntoWait DEF n
  <1>5. ASSUME state' = "programYe"
        PROVE  held' = (ticks' % Short) + 1
    <2>1. CASE AtBoundary(Medium) /\ state = "programNvstrWait"
      <3>1. ~same
        BY <1>5, <2>1, PinsAre DEF same
      <3>2. ticks' % Medium = 0 /\ ticks' \in Nat
        BY <1>1, <2>1, TickStep, Medium \in Intervals DEF Intervals
      <3>3. ticks' % Short = 0
        BY <3>2, DividesThrough, Short \in Nat \ {0}, Medium \in Nat \ {0}
      <3> QED BY <1>2, <1>5, <3>1, <3>3
    <2>2. CASE state = "programYe" /\ error' = error /\ ~AtBoundary(Short)
      <3>1. same /\ held = (ticks % Short) + 1
        BY <1>5, <2>2 DEF same, TimingInv, PinsHeld
      <3>2. ticks % Short \in 0 .. Short - 1 /\ ticks' % Short = (ticks % Short) + 1
        BY <1>1, <2>2, TickStep, Short \in Intervals DEF Intervals
      <3>3. Short < HeldMax
        BY <1>3
      <3> QED BY <1>2, <1>3, <1>5, <3>1, <3>2, <3>3
    <2> QED BY <1>1, <1>5, <2>1, <2>2, IntoYe
  <1>6. ASSUME state' = "eraseNvstr"
        PROVE  /\ (crossings' - 1) * Long + ticks' + 2 <= held'
               /\ held' <= crossings' * Long + ticks' + 1
    <2>1. /\ ticks' \in 0 .. Long - 1
          /\ AtBoundary(Long) => ticks = Long - 1 /\ ticks' = 0
          /\ ~AtBoundary(Long) => ticks' = ticks + 1
      BY <1>1, LongTick
    <2>2. CASE state = "eraseSetupWait" /\ crossings' = 0
      <3>1. ~same
        BY <1>6, <2>2, PinsAre DEF same
      <3>2. (crossings' - 1) * Long = -Long /\ crossings' * Long = 0
        BY <2>2
      <3> QED BY <1>2, <1>6, <2>1, <3>1, <3>2
    <2>3. CASE state = "eraseNvstr" /\ error' = error /\ ~AtBoundary(Long) /\ crossings' = crossings
      <3>1. /\ same
            /\ (crossings - 1) * Long + ticks + 2 <= held
            /\ held <= crossings * Long + ticks + 1
        BY <1>6, <2>3 DEF same, TimingInv, CrossingsCounted
      <3>2. ticks + 1 <= Long - 1 /\ ticks' = ticks + 1
        BY <1>3, <2>1, <2>3
      <3>3. held' = held + 1
        BY <1>2, <1>3, <1>6, <3>1, <3>2, CrossingBounds
      <3> QED BY <1>3, <2>3, <3>1, <3>2, <3>3, CrossingBounds
    <2>4. CASE /\ state = "eraseNvstr" /\ error' = error
               /\ AtBoundary(Long) /\ ~LastCrossing /\ crossings' = crossings + 1
      <3>1. /\ same
            /\ (crossings - 1) * Long + ticks + 2 <= held
            /\ held <= crossings * Long + ticks + 1
        BY <1>6, <2>4 DEF same, TimingInv, CrossingsCounted
      <3>2. ticks = Long - 1 /\ ticks' = 0
        BY <2>1, <2>4
      <3>3. held' = held + 1
        BY <1>2, <1>3, <1>6, <3>1, <3>2, CrossingBounds
      <3>4. (crossings' - 1) * Long = crossings * Long
        BY <1>3, <2>4
      <3> QED BY <1>3, <2>4, <3>1, <3>2, <3>3, <3>4, CrossingBounds
    <2> QED BY <1>1, <1>6, <2>2, <2>3, <2>4, IntoNvstr
  <1> QED BY <1>2, <1>4, <1>5, <1>6 DEF PinsHeld, CrossingsCounted
LEMMA TimingInvariant == FlashSpec => []TimingInv
  <1>1. FlashInit => TimingInv
    BY StoreInit DEF FlashInit, TimingInv, PinsHeld, CrossingsCounted, WholeWaits
  <1>2. TimingInv /\ [FlashNext]_flashVars => TimingInv'
    <2> SUFFICES ASSUME TimingInv, [FlashNext]_flashVars PROVE TimingInv'
      OBVIOUS
    <2>1. StoreInv'
      BY StoreStep DEF TimingInv
    <2>2. CASE FlashReset
      BY <2>1, <2>2 DEF FlashReset, TimingInv, PinsHeld, CrossingsCounted, WholeWaits
    <2>3. CASE UNCHANGED flashVars
      BY <2>1, <2>3 DEF flashVars, TimingInv, PinsHeld, CrossingsCounted
    <2> QED BY <2>1, <2>2, <2>3, TimingStep DEF FlashNext, TimingInv
  <1> QED BY <1>1, <1>2, PTL DEF FlashSpec

\* An erase ends with the last crossing it counts.
LEMMA EraseLasts ==
  ASSUME TimingInv, EraseNvstr, state' # state
  PROVE  /\ state' = "eraseReleaseAlign" /\ error' = error
         /\ held >= (EraseCount - 1) * Long /\ held <= EraseCount * Long
  <1>1. /\ state' = "eraseReleaseAlign" /\ error' = error
        /\ crossings = EraseCount - 1 /\ AtBoundary(Long) /\ state = "eraseNvstr"
    BY DEF EraseNvstr, LastCrossing
  <1>2. ticks = Long - 1 /\ held \in Nat
    <2>1. ticks \in 0 .. Long - 1 /\ held \in Nat
      BY CrossingBounds, EraseCount - 1 \in 0 .. EraseCount - 1 DEF TimingInv, StoreInv, FlashTypeOK
    <2> QED BY <1>1, <2>1 DEF AtBoundary
  <1>3. /\ (EraseCount - 1 - 1) * Long + (Long - 1) + 2 <= held
        /\ held <= (EraseCount - 1) * Long + (Long - 1) + 1
    BY <1>1, <1>2 DEF TimingInv, CrossingsCounted
  <1>4. /\ (EraseCount - 1 - 1) * Long = (EraseCount - 1) * Long - Long
        /\ (EraseCount - 1 + 1) * Long = (EraseCount - 1) * Long + Long
        /\ (EraseCount - 1) * Long \in Nat /\ EraseCount - 1 + 1 = EraseCount
    BY CrossingBounds, EraseCount - 1 \in 0 .. EraseCount - 1
  <1> QED BY <1>1, <1>2, <1>3, <1>4

\* A complete interval lies behind the end of a phase that began on a boundary.
LEMMA WaitLasts ==
  ASSUME TimingInv, state \in WholeWaits \cup {"programYe"}, AtBoundary(Interval(state))
  PROVE  /\ state \in WholeWaits => held >= Interval(state)
         /\ state = "programYe" => held = Short
  <1>1. ticks % Interval(state) = Interval(state) - 1
    BY DEF AtBoundary
  <1>2. Interval(state) \in {Short, Medium} /\ (state = "programYe" => Interval(state) = Short)
    BY DEF Interval, WholeWaits, Finish, Nvstr
  <1>3. held \in Nat
    BY CrossingBounds, EraseCount - 1 \in 0 .. EraseCount - 1 DEF TimingInv, StoreInv, FlashTypeOK
  <1> QED BY <1>1, <1>2, <1>3 DEF TimingInv, PinsHeld

LEMMA PinsInTime ==
  ASSUME TimingInv, FlashClock
  PROVE  /\ Rises("PROG") \/ Rises("ERASE") => held >= 1
         /\ Rises("NVSTR") => held >= Short
         /\ Rises("YE") /\ Pins(state, error).NVSTR => held >= Medium
         /\ Falls("YE") /\ Pins(state, error).NVSTR => held = Short
         /\ Falls("ERASE") => held >= (EraseCount - 1) * Long /\ held <= EraseCount * Long
         /\ Falls("PROG") => held >= 1
         /\ Falls("NVSTR") => held >= Short
         /\ Falls("XE") /\ state \in Finish => held >= Medium
  <1>1. Controller /\ Cpu /\ StoreInv
    BY DEF FlashClock, TimingInv
  <1>2. state \notin {"idle", "done"} => held >= 1
    BY DEF TimingInv, PinsHeld
  <1>3. CASE Idle \/ Done
    BY <1>1, <1>3, PinsAre, AccessTypes DEF Idle, Done, Rises, Falls, Finish, StoreInv, FlashTypeOK
  <1>4. CASE ReadAssert \/ ReadCapture
    BY <1>4, PinsAre DEF ReadAssert, ReadCapture, Rises, Falls, Finish
  <1>5. CASE EraseNvstr
    <2>1. CASE state' = state
      BY <1>5, <2>1, PinsAre DEF EraseNvstr, Rises, Falls, Finish
    <2>2. CASE state' # state
      BY <1>5, <2>2, PinsAre, EraseLasts DEF EraseNvstr, Rises, Falls, Finish
    <2> QED BY <2>1, <2>2
  <1>6. CASE ProgramHold
    BY <1>2, <1>6, PinsAre DEF ProgramHold, Rises, Falls, Finish
  <1>7. CASE Phase
    <2>1. CASE ~AtBoundary(Interval(state))
      <3>1. state' = state /\ state \in DOMAIN Following
        BY <1>7, <2>1 DEF Phase
      <3>2. CASE state \in {"eraseSetupAlign", "programSetupAlign"}
        <4>1. /\ ~Pins(state, error)["NVSTR"] /\ ~Pins(state', error')["NVSTR"]
              /\ ~Pins(state, error)["YE"] /\ ~Pins(state', error')["YE"]
              /\ Pins(state', error')["XE"] /\ held >= 1
          BY <1>2, <3>1, <3>2, PinsAre
        <4>2. Pins(state, error)["ERASE"] => Pins(state', error')["ERASE"]
          BY <1>7, <3>1, <3>2, PinsAre DEF Phase, FlagNext
        <4> QED BY <4>1, <4>2 DEF Rises, Falls
      <3>3. CASE state \notin {"eraseSetupAlign", "programSetupAlign"}
        <4>1. state # "done"
          BY <3>1 DEF Following
        <4>2. error' = error
          BY <1>7, <3>1, <3>3, <4>1 DEF Phase, FlagNext
        <4> QED BY <3>1, <4>1, <4>2, PinsAre DEF Rises, Falls, Finish
      <3> QED BY <3>2, <3>3
    <2>2. CASE AtBoundary(Interval(state))
      <3>1. state' = Following[state] /\ state \in DOMAIN Following
        BY <1>7, <2>2 DEF Phase, NextPhase
      <3>2. CASE state \in {"eraseSetupAlign", "programSetupAlign", "programNvstrAlign",
                            "eraseReleaseAlign", "eraseFinishAlign", "programReleaseAlign",
                            "programFinishAlign"}
        BY <1>2, <3>1, <3>2, PinsAre DEF Rises, Falls, Finish, Following
      <3>3. CASE state = "programYe"
        BY <1>2, <2>2, <3>1, <3>3, PinsAre, WaitLasts DEF Rises, Falls, Finish, Following
      <3>4. CASE state \in WholeWaits
        <4>1. held >= Interval(state)
          BY <2>2, <3>4, WaitLasts
        <4> QED BY <1>2, <3>1, <3>4, <4>1, PinsAre
                DEF Rises, Falls, Finish, Nvstr, Following, WholeWaits, Interval
      <3> QED BY <3>1, <3>2, <3>3, <3>4 DEF Following, WholeWaits
    <2> QED BY <2>1, <2>2
  <1> QED BY <1>1, <1>3, <1>4, <1>5, <1>6, <1>7 DEF Controller

\* The pins keep the times of the FLASH608K from whatever phase of RUN_TICKS an
\* access begins in, for every spacing of the boundaries that divide each other
\* and every number of crossings.
THEOREM PinsKeepTheirTimes == FlashSpec => PinTiming
  <1>1. TimingInv /\ [FlashNext]_flashVars =>
          [FlashClock =>
             /\ Rises("PROG") \/ Rises("ERASE") => held >= 1
             /\ Rises("NVSTR") => held >= Short
             /\ Rises("YE") /\ Pins(state, error).NVSTR => held >= Medium
             /\ Falls("YE") /\ Pins(state, error).NVSTR => held = Short
             /\ Falls("ERASE") => held >= (EraseCount - 1) * Long /\ held <= EraseCount * Long
             /\ Falls("PROG") => held >= 1
             /\ Falls("NVSTR") => held >= Short
             /\ Falls("XE") /\ state \in Finish => held >= Medium]_flashVars
    BY PinsInTime
  <1> QED BY <1>1, TimingInvariant, PTL DEF FlashSpec, PinTiming
=============================================================================
