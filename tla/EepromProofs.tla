---------------------------- MODULE EepromProofs ----------------------------
(***************************************************************************)
(* For every chip, every call and every outcome of every wait: a call      *)
(* changes only its cells, what reports success has succeeded, and the bus *)
(* comes back.                                                             *)
(***************************************************************************)
EXTENDS Eeprom, TLAPS

-----------------------------------------------------------------------------
(* The scripts of the bus functions.                                       *)

\* The commands before the bytes that are read: START, device and its bytes.
Written == IF call.op = "current" THEN 0
           ELSE IF call.op = "read" THEN 2 + chip.width
           ELSE IF stage = "piece" THEN 2 + chip.width + Chunk(call, written) ELSE 2

\* All of them.
Total == IF call.op = "write" THEN Written + 1 ELSE Written + call.n + 3

\* The cell of the first byte of a piece, and of the first byte that is read.
Start == call.addr + written
First == IF call.op = "read" THEN call.addr ELSE was.ptr
Target == IF call.op = "read" THEN call.addr ELSE Start

Script ==
  CASE call.op = "read"    -> I2cWriteRead(call.dev, MakeAddress(call.addr), call.n)
    [] call.op = "current" -> I2cRead(call.dev, call.n)
    [] call.op = "write"   -> IF stage = "piece" THEN Piece(call, written)
                              ELSE I2cWrite(call.dev, <<>>)

\* The k-th command, and the byte it carries if it is a WRITE.
CmdAt(k) ==
  IF k = Total THEN "STOP"
  ELSE IF k = 1 \/ k = Written + 1 THEN "START"
  ELSE IF k <= Written + 2 THEN "WRITE"
  ELSE IF k = Total - 1 THEN "READ_NACK" ELSE "READ_ACK"

ByteAt(k) ==
  IF k = Written + 2 THEN 2 * call.dev + 1
  ELSE IF k = 2 THEN 2 * call.dev
  ELSE IF k <= 2 + chip.width THEN MakeAddress(Target)[k - 2]
  ELSE call.data[written + (k - 2 - chip.width)]

\* What of the call and the position the bus function works on.
Underway ==
  /\ call \in Calls /\ Accepted(call) /\ InsideChip(call)
  /\ chip.width \in Widths
  /\ written \in Nat /\ stage \in {"piece", "ready"}
  /\ (call.op = "write" => written < Len(call.data) /\ Addressable(Start))
  /\ (call.op # "write" => stage = "piece" /\ written = 0)

Cmds == {"START", "WRITE", "READ_ACK", "READ_NACK", "STOP"}
Steps == [cmd : Cmds, byte : Nat]

LEMMA CmdIs ==
  ASSUME NEW c \in Cmds
  PROVE  /\ Cmd(c) \in Seq(Steps) /\ Len(Cmd(c)) = 1
         /\ Cmd(c)[1] = [cmd |-> c, byte |-> 0]
  BY DEF Cmd, Steps

LEMMA WritesAre ==
  ASSUME NEW bytes \in Seq(Nat)
  PROVE  /\ Writes(bytes) \in Seq(Steps) /\ Len(Writes(bytes)) = Len(bytes)
         /\ \A i \in 1 .. Len(bytes) : Writes(bytes)[i] = [cmd |-> "WRITE", byte |-> bytes[i]]
  <1> DEFINE n == Len(bytes)
             s == Writes(bytes)
  <1>1. n \in Nat /\ s = [i \in 1 .. n |-> [cmd |-> "WRITE", byte |-> bytes[i]]]
    BY DEF Writes
  <1>2. ASSUME NEW i \in 1 .. n PROVE [cmd |-> "WRITE", byte |-> bytes[i]] \in Steps
    BY DEF Steps, Cmds
  <1> HIDE DEF n
  <1>3. s \in [1 .. n -> Steps]
    BY <1>1, <1>2
  <1>4. s \in Seq(Steps) /\ Len(s) = n
    BY <1>1, <1>3
  <1> QED BY <1>1, <1>4 DEF n

LEMMA ReadsAre ==
  ASSUME NEW n \in Nat
  PROVE  /\ Reads(n) \in Seq(Steps) /\ Len(Reads(n)) = n
         /\ \A i \in 1 .. n : Reads(n)[i].cmd = IF i = n THEN "READ_NACK" ELSE "READ_ACK"
  <1> DEFINE C(i) == IF i = n THEN "READ_NACK" ELSE "READ_ACK"
             s == Reads(n)
  <1>1. s = [i \in 1 .. n |-> [cmd |-> C(i), byte |-> 0]]
    BY DEF Reads
  <1>2. \A i : C(i) \in Cmds
    BY DEF Cmds
  <1> HIDE DEF C
  <1>3. s \in [1 .. n -> Steps]
    BY <1>1, <1>2 DEF Steps
  <1>4. s \in Seq(Steps) /\ Len(s) = n
    BY <1>1, <1>3
  <1>5. \A i \in 1 .. n : s[i].cmd = C(i)
    BY <1>1
  <1> QED BY <1>4, <1>5 DEF C

\* u is the m commands of s and then the n commands of t.
Joined(u, s, t, m, n) ==
  /\ u \in Seq(Steps) /\ Len(u) = m + n
  /\ \A k \in 1 .. m : u[k] = s[k]
  /\ \A k \in m + 1 .. m + n : u[k] = t[k - m]

LEMMA JoinIs ==
  ASSUME NEW s \in Seq(Steps), NEW t \in Seq(Steps), NEW m, NEW n, Len(s) = m, Len(t) = n
  PROVE  Joined(s \o t, s, t, m, n)
  BY DEF Joined

\* A START and n bytes.
Heading(s, bytes, n) ==
  /\ s \in Seq(Steps) /\ Len(s) = n + 1 /\ s[1].cmd = "START"
  /\ \A k \in 2 .. n + 1 : s[k].cmd = "WRITE" /\ s[k].byte = bytes[k - 1]

LEMMA HeadIs ==
  ASSUME NEW bytes \in Seq(Nat), NEW n \in Nat, Len(bytes) = n
  PROVE  Heading(Cmd("START") \o Writes(bytes), bytes, n)
  <1> DEFINE a == Cmd("START")
             w == Writes(bytes)
             s == a \o w
  <1>1. /\ w \in Seq(Steps) /\ Len(w) = n
        /\ \A i \in 1 .. n : w[i] = [cmd |-> "WRITE", byte |-> bytes[i]]
    BY WritesAre
  <1>2. a \in Seq(Steps) /\ Len(a) = 1 /\ a[1] = [cmd |-> "START", byte |-> 0]
    BY CmdIs DEF Cmds
  <1> HIDE DEF a, w
  <1>4. Joined(s, a, w, 1, n)
    BY <1>1, <1>2, JoinIs
  <1> HIDE DEF s
  <1>5. s[1].cmd = "START"
    BY <1>2, <1>4 DEF Joined
  <1>6. ASSUME NEW k \in 2 .. n + 1 PROVE s[k].cmd = "WRITE" /\ s[k].byte = bytes[k - 1]
    <2>1. k - 1 \in 1 .. n /\ s[k] = w[k - 1]
      BY <1>4 DEF Joined
    <2> QED BY <1>1, <2>1
  <1>7. s \in Seq(Steps) /\ Len(s) = n + 1
    BY <1>4 DEF Joined
  <1>8. Heading(s, bytes, n)
    BY <1>5, <1>6, <1>7 DEF Heading
  <1> QED BY <1>8 DEF s, a, w

\* A START, the address of the device for writing and some bytes.
LEMMA OpenIs ==
  ASSUME NEW dev \in Nat, NEW bytes \in Seq(Nat)
  PROVE  LET s == Cmd("START") \o Writes(<<2 * dev>> \o bytes) IN
         /\ s \in Seq(Steps) /\ Len(s) = Len(bytes) + 2
         /\ s[1].cmd = "START" /\ s[2].cmd = "WRITE" /\ s[2].byte = 2 * dev
         /\ \A k \in 3 .. Len(bytes) + 2 : s[k].cmd = "WRITE" /\ s[k].byte = bytes[k - 2]
  <1> DEFINE b == <<2 * dev>> \o bytes
             s == Cmd("START") \o Writes(b)
             n == Len(bytes)
  <1>1. /\ b \in Seq(Nat) /\ Len(b) = n + 1 /\ b[1] = 2 * dev /\ n \in Nat
        /\ \A i \in 1 .. n : b[i + 1] = bytes[i]
    OBVIOUS
  <1> HIDE DEF b, n
  <1>0. Heading(s, b, n + 1)
    BY <1>1, HeadIs
  <1> HIDE DEF s
  <1>2. /\ s \in Seq(Steps) /\ Len(s) = n + 2 /\ s[1].cmd = "START"
        /\ \A k \in 2 .. n + 2 : s[k].cmd = "WRITE" /\ s[k].byte = b[k - 1]
    BY <1>0, <1>1 DEF Heading
  <1>3. s[2].cmd = "WRITE" /\ s[2].byte = 2 * dev
    BY <1>1, <1>2
  <1>4. ASSUME NEW k \in 3 .. n + 2 PROVE s[k].cmd = "WRITE" /\ s[k].byte = bytes[k - 2]
    <2>1. k - 2 \in 1 .. n /\ (k - 2) + 1 = k - 1 /\ k \in 2 .. n + 2
      BY <1>1
    <2>2. b[k - 1] = bytes[k - 2]
      BY <1>1, <2>1
    <2> QED BY <1>2, <2>1, <2>2
  <1> QED BY <1>2, <1>3, <1>4 DEF s, b, n

\* What is written: n bytes to a device.
Writing(s, dev, bytes, n) ==
  /\ s \in Seq(Steps) /\ Len(s) = n + 3
  /\ s[1].cmd = "START" /\ s[2].cmd = "WRITE" /\ s[2].byte = 2 * dev
  /\ \A k \in 3 .. n + 2 : s[k].cmd = "WRITE" /\ s[k].byte = bytes[k - 2]
  /\ s[n + 3].cmd = "STOP"

LEMMA I2cWriteIs ==
  ASSUME NEW dev \in Nat, NEW bytes \in Seq(Nat), NEW n, Len(bytes) = n
  PROVE  Writing(I2cWrite(dev, bytes), dev, bytes, n)
  <1> DEFINE u == Cmd("START") \o Writes(<<2 * dev>> \o bytes)
             z == Cmd("STOP")
  <1>1. n \in Nat
    OBVIOUS
  <1>2. /\ u \in Seq(Steps) /\ Len(u) = n + 2
        /\ u[1].cmd = "START" /\ u[2].cmd = "WRITE" /\ u[2].byte = 2 * dev
        /\ \A k \in 3 .. n + 2 : u[k].cmd = "WRITE" /\ u[k].byte = bytes[k - 2]
    BY OpenIs
  <1>3. z \in Seq(Steps) /\ Len(z) = 1 /\ z[1].cmd = "STOP"
    BY CmdIs DEF Cmds
  <1>4. I2cWrite(dev, bytes) = u \o z
    BY DEF I2cWrite
  <1> HIDE DEF u, z
  <1> DEFINE s == u \o z
  <1>5. Joined(s, u, z, n + 2, 1)
    BY <1>2, <1>3, JoinIs
  <1> HIDE DEF s
  <1>6. /\ s \in Seq(Steps) /\ Len(s) = n + 3 /\ s[n + 3] = z[1]
        /\ \A k \in 1 .. n + 2 : s[k] = u[k]
    BY <1>1, <1>5 DEF Joined
  <1>7. \A k \in 3 .. n + 2 : k \in 1 .. n + 2
    BY <1>1
  <1>8. 1 \in 1 .. n + 2 /\ 2 \in 1 .. n + 2
    BY <1>1
  <1>9. Writing(s, dev, bytes, n)
    BY <1>2, <1>3, <1>6, <1>7, <1>8 DEF Writing
  <1> QED BY <1>4, <1>9 DEF s

\* What is read: n bytes from a device.
Reading(s, dev, n) ==
  /\ s \in Seq(Steps) /\ Len(s) = n + 3
  /\ s[1].cmd = "START" /\ s[2].cmd = "WRITE" /\ s[2].byte = 2 * dev + 1
  /\ \A k \in 3 .. n + 2 : s[k].cmd = IF k = n + 2 THEN "READ_NACK" ELSE "READ_ACK"
  /\ s[n + 3].cmd = "STOP"

LEMMA I2cReadIs ==
  ASSUME NEW dev \in Nat, NEW n \in Nat \ {0}
  PROVE  Reading(I2cRead(dev, n), dev, n)
  <1> DEFINE b == <<2 * dev + 1>>
             u == Cmd("START") \o Writes(b)
             r == Reads(n)
             z == Cmd("STOP")
  <1>1. b \in Seq(Nat) /\ Len(b) = 1 /\ b[1] = 2 * dev + 1
    OBVIOUS
  <1> HIDE DEF b
  <1>0. Heading(u, b, 1)
    BY <1>1, HeadIs
  <1> HIDE DEF u
  <1>2. u \in Seq(Steps) /\ Len(u) = 2 /\ u[1].cmd = "START"
    BY <1>0 DEF Heading
  <1>3. u[2].cmd = "WRITE" /\ u[2].byte = 2 * dev + 1
    BY <1>0, <1>1 DEF Heading
  <1>4. /\ r \in Seq(Steps) /\ Len(r) = n
        /\ \A i \in 1 .. n : r[i].cmd = IF i = n THEN "READ_NACK" ELSE "READ_ACK"
    BY ReadsAre
  <1>5. z \in Seq(Steps) /\ Len(z) = 1 /\ z[1].cmd = "STOP"
    BY CmdIs DEF Cmds
  <1>6. I2cRead(dev, n) = (u \o r) \o z
    BY DEF I2cRead, u, r, z, b
  <1> HIDE DEF u, r, z
  <1> DEFINE v == u \o r
             s == v \o z
  <1>7. Joined(v, u, r, 2, n)
    BY <1>2, <1>4, JoinIs
  <1> HIDE DEF v
  <1>70. v \in Seq(Steps) /\ Len(v) = 2 + n
    BY <1>7 DEF Joined
  <1>8. Joined(s, v, z, 2 + n, 1)
    BY <1>5, <1>70, JoinIs
  <1> HIDE DEF s
  <1>9. /\ s[1] = u[1] /\ s[2] = u[2] /\ s[n + 3] = z[1]
        /\ s \in Seq(Steps) /\ Len(s) = n + 3
    BY <1>7, <1>8 DEF Joined
  <1>10. ASSUME NEW k \in 3 .. n + 2
         PROVE  s[k].cmd = IF k = n + 2 THEN "READ_NACK" ELSE "READ_ACK"
    <2>1. k \in 1 .. n + 2 /\ k - 2 \in 1 .. n /\ (k - 2 = n <=> k = n + 2)
      OBVIOUS
    <2>2. s[k] = r[k - 2]
      BY <1>7, <1>8, <2>1 DEF Joined
    <2>3. r[k - 2].cmd = IF k - 2 = n THEN "READ_NACK" ELSE "READ_ACK"
      BY <1>4, <2>1
    <2>4. CASE k = n + 2
      BY <2>1, <2>2, <2>3, <2>4
    <2>5. CASE k # n + 2
      BY <2>1, <2>2, <2>3, <2>5
    <2> QED BY <2>4, <2>5
  <1>11. Reading(s, dev, n)
    BY <1>2, <1>3, <1>5, <1>9, <1>10 DEF Reading
  <1> QED BY <1>6, <1>11 DEF s, v

\* What is read after w - 2 bytes have been written: n bytes.
WritingReading(s, dev, bytes, w, n) ==
  /\ s \in Seq(Steps) /\ Len(s) = w + n + 3
  /\ s[1].cmd = "START" /\ s[2].cmd = "WRITE" /\ s[2].byte = 2 * dev
  /\ \A k \in 3 .. w : s[k].cmd = "WRITE" /\ s[k].byte = bytes[k - 2]
  /\ s[w + 1].cmd = "START" /\ s[w + 2].cmd = "WRITE" /\ s[w + 2].byte = 2 * dev + 1
  /\ \A k \in w + 3 .. w + n + 2 :
       s[k].cmd = IF k = w + n + 2 THEN "READ_NACK" ELSE "READ_ACK"
  /\ s[w + n + 3].cmd = "STOP"

LEMMA I2cWriteReadIs ==
  ASSUME NEW dev \in Nat, NEW bytes \in Seq(Nat), NEW n \in Nat \ {0},
         NEW w \in Nat, w = Len(bytes) + 2
  PROVE  WritingReading(I2cWriteRead(dev, bytes, n), dev, bytes, w, n)
  <1> DEFINE u == Cmd("START") \o Writes(<<2 * dev>> \o bytes)
             r == I2cRead(dev, n)
             s == u \o r
  <1>1. w >= 2
    OBVIOUS
  <1>2. /\ u \in Seq(Steps) /\ Len(u) = w
        /\ u[1].cmd = "START" /\ u[2].cmd = "WRITE" /\ u[2].byte = 2 * dev
        /\ \A k \in 3 .. w : u[k].cmd = "WRITE" /\ u[k].byte = bytes[k - 2]
    BY OpenIs
  <1>3. Reading(r, dev, n)
    BY I2cReadIs
  <1>4. I2cWriteRead(dev, bytes, n) = s
    BY DEF I2cWriteRead
  <1> HIDE DEF u, r
  <1>50. r \in Seq(Steps) /\ Len(r) = n + 3
    BY <1>3 DEF Reading
  <1>5. Joined(s, u, r, w, n + 3)
    BY <1>2, <1>50, JoinIs
  <1> HIDE DEF s
  <1>6. s[1] = u[1] /\ s[2] = u[2] /\ \A k \in 3 .. w : s[k] = u[k]
    BY <1>1, <1>5 DEF Joined
  <1>7. s[w + 1] = r[1] /\ s[w + 2] = r[2] /\ s[w + n + 3] = r[n + 3]
    <2>1. \A i \in 1 .. n + 3 : w + i \in w + 1 .. w + (n + 3) /\ (w + i) - w = i
      BY <1>1
    <2>2. \A i \in 1 .. n + 3 : s[w + i] = r[i]
      BY <1>5, <2>1 DEF Joined
    <2>3. w + n + 3 = w + (n + 3)
      BY <1>1
    <2> QED BY <2>2, <2>3
  <1>8. ASSUME NEW k \in w + 3 .. w + n + 2
        PROVE  s[k].cmd = IF k = w + n + 2 THEN "READ_NACK" ELSE "READ_ACK"
    <2>1. k - w \in 3 .. n + 2 /\ (k - w = n + 2 <=> k = w + n + 2) /\ s[k] = r[k - w]
      BY <1>1, <1>5 DEF Joined
    <2>2. r[k - w].cmd = IF k - w = n + 2 THEN "READ_NACK" ELSE "READ_ACK"
      BY <1>3, <2>1 DEF Reading
    <2> QED BY <2>1, <2>2
  <1>9. s \in Seq(Steps) /\ Len(s) = w + n + 3
    BY <1>1, <1>5 DEF Joined
  <1>10. /\ s[1].cmd = "START" /\ s[2].cmd = "WRITE" /\ s[2].byte = 2 * dev
         /\ \A k \in 3 .. w : s[k].cmd = "WRITE" /\ s[k].byte = bytes[k - 2]
    BY <1>2, <1>6
  <1>11. /\ s[w + 1].cmd = "START" /\ s[w + 2].cmd = "WRITE" /\ s[w + 2].byte = 2 * dev + 1
         /\ s[w + n + 3].cmd = "STOP"
    BY <1>3, <1>7 DEF Reading
  <1>12. I2cWriteRead(dev, bytes, n) = s
    BY <1>4 DEF s
  <1>13. WritingReading(s, dev, bytes, w, n)
    BY <1>8, <1>9, <1>10, <1>11 DEF WritingReading
  <1> QED BY <1>12, <1>13

\* What the calls are.
LEMMA CallIs ==
  ASSUME NEW c \in Calls
  PROVE  /\ c.op \in {"write", "read", "current"}
         /\ c.dev \in Devices /\ c.addr \in Addresses
         /\ c.op = "write" => /\ c.page \in Nat \ {0} /\ c.data \in Seq(Byte)
                              /\ Page % c.page = 0
         /\ c.op # "write" => c.n \in Nat \ {0}
  <1>1. CASE c \in [op : {"write"}, dev : Devices, addr : Addresses, page : Lengths, data : Seq(Byte)]
    BY <1>1, CallsAssumption DEF Lengths
  <1>2. CASE c \in [op : {"read"}, dev : Devices, addr : Addresses, n : Lengths]
    BY <1>2, CallsAssumption DEF Lengths
  <1>3. CASE c \in [op : {"current"}, dev : Devices, addr : Addresses, n : Lengths]
    BY <1>3, CallsAssumption DEF Lengths
  <1> QED BY <1>1, <1>2, <1>3, CallsAssumption

\* A byte is a number, and there are at least two.
LEMMA Bases ==
  /\ Base \in Nat \ {0} /\ Base >= 2 /\ Base * Base \in Nat /\ Base * Base >= Base
  /\ Byte \subseteq Nat /\ Size \in Nat \ {0} /\ Page \in Nat \ {0}
  /\ Cells \subseteq Nat /\ 0 \in Cells /\ 0 \in Byte /\ Base - 1 \in Byte
  <1>1. Base \in Nat /\ Base >= 2 /\ Size \in Nat \ {0} /\ Page \in Nat \ {0}
    BY BusAssumption DEF Byte
  <1>2. Base * Base \in Nat /\ Base * Base >= Base
    BY <1>1
  <1> QED BY <1>1, <1>2 DEF Byte, Cells

\* The two address bytes of a memory address.
LEMMA AddressBytes ==
  ASSUME NEW a \in Nat, a < Base * Base
  PROVE  /\ a \div Base \in Byte /\ a % Base \in Byte
         /\ a = (a \div Base) * Base + (a % Base)
  <1> DEFINE q == a \div Base
             r == a % Base
  <1>1. q \in Nat /\ r \in Nat /\ r < Base /\ a = q * Base + r
    BY Bases
  <1> HIDE DEF q, r
  <1>2. q < Base
    <2>1. SUFFICES ASSUME q >= Base PROVE FALSE
      BY <1>1, Bases
    <2>2. q * Base >= Base * Base
      BY <1>1, <2>1, Bases
    <2> QED BY <1>1, <2>2, Bases
  <1>3. q \in Byte /\ r \in Byte
    BY <1>1, <1>2, Bases DEF Byte
  <1> QED BY <1>1, <1>3 DEF q, r

\* The bytes of a piece are there, and stay in the chip's page.
LEMMA ChunkIs ==
  ASSUME NEW c \in Calls, c.op = "write", NEW w \in Nat, w < Len(c.data)
  PROVE  /\ Chunk(c, w) \in Nat \ {0} /\ w + Chunk(c, w) <= Len(c.data)
         /\ Chunk(c, w) <= c.page - ((c.addr + w) % c.page)
  <1>1. c.page \in Nat \ {0} /\ Len(c.data) \in Nat /\ c.addr \in Nat
    BY CallIs, Bases DEF Addresses
  <1> DEFINE m == (c.addr + w) % c.page
             l == Len(c.data)
  <1>2. m \in Nat /\ m < c.page
    BY <1>1
  <1>3. Chunk(c, w) = IF c.page - m < l - w THEN c.page - m ELSE l - w
    BY DEF Chunk
  <1> HIDE DEF m, l
  <1> QED BY <1>1, <1>2, <1>3 DEF m, l

\* What the call and the position are, in numbers.
LEMMA Numbers ==
  ASSUME Underway
  PROVE  /\ chip.width \in {1, 2} /\ call.dev \in Nat /\ call.addr \in Nat
         /\ call.op \in {"write", "read", "current"}
         /\ Written \in Nat /\ Total \in Nat /\ Start \in Nat /\ Target \in Nat
         /\ call.op = "current" => Written = 0
         /\ call.op = "read" => Written = 2 + chip.width
         /\ call.op = "write" => Written >= 2
         /\ call.op # "write" => call.n \in Nat \ {0} /\ Target < Base * Base
                                 /\ Target = call.addr
         /\ call.op = "write" => /\ call.data \in Seq(Byte)
                                 /\ Chunk(call, written) \in Nat \ {0}
                                 /\ written + Chunk(call, written) <= Len(call.data)
                                 /\ Target = Start /\ Start < Base * Base
                                 /\ Start + Chunk(call, written) <= Base * Base
         /\ chip.width = 1 => Target < Base
         /\ Target < Base * Base
  <1>1. /\ chip.width \in {1, 2} /\ call.dev \in Nat /\ call.addr \in Nat
        /\ call.op \in {"write", "read", "current"} /\ call.addr < Base * Base
        /\ call.op # "write" => call.n \in Nat \ {0}
        /\ written \in Nat
    <2>1. chip.width \in {1, 2} /\ written \in Nat /\ call \in Calls
      BY BusAssumption DEF Underway
    <2>2. call.dev \in Nat
      BY <2>1, CallIs, Bases DEF Devices
    <2>3. call.addr \in Nat /\ call.addr < Base * Base
      BY <2>1, CallIs, Bases DEF Addresses
    <2> QED BY <2>1, <2>2, <2>3, CallIs
  <1>2. call.op # "write" => written = 0 /\ stage = "piece"
    BY DEF Underway
  <1>3. call.op = "write" => /\ call.data \in Seq(Byte) /\ Len(call.data) \in Nat
                             /\ written < Len(call.data)
                             /\ Len(call.data) <= Base * Base - call.addr
                             /\ Chunk(call, written) \in Nat \ {0}
                             /\ written + Chunk(call, written) <= Len(call.data)
    BY CallIs, ChunkIs DEF Underway, Accepted
  <1>4. chip.width = 1 => Target < Base
    BY <1>1, <1>2 DEF Underway, Accepted, Addressable, Target, Start
  <1> DEFINE C == Chunk(call, written)
             L == Len(call.data)
  <1> HIDE DEF C, L
  <1>5. CASE call.op = "write"
    <2>1. Start \in Nat /\ Start < Base * Base /\ Start + C <= Base * Base
      BY <1>1, <1>3, <1>5, Bases DEF Start, C, L
    <2>2. Written \in Nat /\ Written >= 2
      BY <1>1, <1>3, <1>5 DEF Written, C
    <2>3. Target = Start /\ Total = Written + 1
      BY <1>5 DEF Target, Total
    <2> QED BY <1>1, <1>3, <1>4, <1>5, <2>1, <2>2, <2>3 DEF C
  <1>6. CASE call.op # "write"
    BY <1>1, <1>2, <1>4, <1>6 DEF Written, Total, Target, Start
  <1> QED BY <1>5, <1>6

\* The address bytes of a piece or of a read, in the order they are sent.
LEMMA AddressIs ==
  ASSUME Underway
  PROVE  /\ MakeAddress(Target) \in Seq(Byte) /\ Len(MakeAddress(Target)) = chip.width
         /\ chip.width = 1 => MakeAddress(Target)[1] = Target
         /\ chip.width = 2 => /\ MakeAddress(Target)[1] = Target \div Base
                              /\ MakeAddress(Target)[2] = Target % Base
  <1> DEFINE q == Target \div Base
             r == Target % Base
  <1>1. /\ chip.width \in {1, 2} /\ Target \in Nat
        /\ q \in Byte /\ r \in Byte /\ (chip.width = 1 => Target \in Byte)
    <2>1. chip.width \in {1, 2} /\ Target \in Nat /\ Target < Base * Base
      BY Numbers
    <2>2. chip.width = 1 => Target \in Byte
      BY <2>1, Numbers, Bases DEF Byte
    <2> QED BY <2>1, <2>2, AddressBytes
  <1>2. MakeAddress(Target) = IF chip.width = 1 THEN <<Target>> ELSE <<q, r>>
    BY DEF MakeAddress
  <1> HIDE DEF q, r
  <1>3. CASE chip.width = 1
    BY <1>1, <1>2, <1>3
  <1>4. CASE chip.width = 2
    BY <1>1, <1>2, <1>4 DEF q, r
  <1> QED BY <1>1, <1>3, <1>4

\* The commands of the script, part by part.
LEMMA CmdAtIs ==
  ASSUME Underway
  PROVE  /\ CmdAt(1) = "START" /\ CmdAt(Total) = "STOP"
         /\ \A k \in 2 .. Written : CmdAt(k) = "WRITE"
         /\ call.op # "write" =>
              /\ CmdAt(Written + 1) = "START" /\ CmdAt(Written + 2) = "WRITE"
              /\ \A k \in Written + 3 .. Written + call.n + 2 :
                   CmdAt(k) = IF k = Written + call.n + 2 THEN "READ_NACK" ELSE "READ_ACK"
  <1> DEFINE W == Written
             T == Total
             n == call.n
  <1>1. /\ W \in Nat /\ T \in Nat /\ (call.op = "write" => W >= 2 /\ T = W + 1)
        /\ (call.op # "write" => n \in Nat \ {0} /\ T = W + n + 3 /\ (W = 0 \/ W >= 2))
    BY Numbers DEF Total
  <1>2. \A k : CmdAt(k) = IF k = T THEN "STOP" ELSE IF k = 1 \/ k = W + 1 THEN "START"
                          ELSE IF k <= W + 2 THEN "WRITE"
                          ELSE IF k = T - 1 THEN "READ_NACK" ELSE "READ_ACK"
    BY DEF CmdAt
  <1> HIDE DEF W, T, n
  <1>3. CmdAt(1) = "START" /\ CmdAt(T) = "STOP"
    BY <1>1, <1>2
  <1>4. \A k \in 2 .. W : CmdAt(k) = "WRITE"
    BY <1>1, <1>2
  <1>5. call.op # "write" => CmdAt(W + 1) = "START" /\ CmdAt(W + 2) = "WRITE"
    BY <1>1, <1>2
  <1>6. ASSUME call.op # "write", NEW k \in W + 3 .. W + n + 2
        PROVE  CmdAt(k) = IF k = W + n + 2 THEN "READ_NACK" ELSE "READ_ACK"
    BY <1>1, <1>2, <1>6
  <1> QED BY <1>3, <1>4, <1>5, <1>6 DEF W, T, n

\* The bytes of the script, part by part.
LEMMA ByteAtIs ==
  ASSUME Underway
  PROVE  /\ Written >= 2 => ByteAt(2) = 2 * call.dev
         /\ \A k \in 3 .. 2 + chip.width : k <= Written => ByteAt(k) = MakeAddress(Target)[k - 2]
         /\ \A k \in 3 + chip.width .. Written :
              ByteAt(k) = call.data[written + (k - 2 - chip.width)]
         /\ ByteAt(Written + 2) = 2 * call.dev + 1
  <1> DEFINE W == Written
             x == chip.width
  <1>1. W \in Nat /\ x \in {1, 2}
    BY Numbers
  <1>2. \A k : ByteAt(k) = IF k = W + 2 THEN 2 * call.dev + 1 ELSE IF k = 2 THEN 2 * call.dev
                           ELSE IF k <= 2 + x THEN MakeAddress(Target)[k - 2]
                           ELSE call.data[written + (k - 2 - x)]
    BY DEF ByteAt
  <1> HIDE DEF W, x
  <1> DEFINE M(k) == MakeAddress(Target)[k]
             D(k) == call.data[k]
  <1>3. \A k : ByteAt(k) = IF k = W + 2 THEN 2 * call.dev + 1 ELSE IF k = 2 THEN 2 * call.dev
                           ELSE IF k <= 2 + x THEN M(k - 2) ELSE D(written + (k - 2 - x))
    BY <1>2
  <1> HIDE DEF M, D
  <1>4. /\ W >= 2 => ByteAt(2) = 2 * call.dev
        /\ ByteAt(W + 2) = 2 * call.dev + 1
    BY <1>1, <1>3
  <1>5. \A k \in 3 .. 2 + x : k <= W => ByteAt(k) = M(k - 2)
    BY <1>1, <1>3
  <1>6. \A k \in 3 + x .. W : ByteAt(k) = D(written + (k - 2 - x))
    BY <1>1, <1>3
  <1> QED BY <1>4, <1>5, <1>6 DEF M, D, W, x

\* The script of the call at hand is made of these commands.
Shaped(s) ==
  /\ s \in Seq(Steps) /\ Len(s) = Total
  /\ \A k \in 1 .. Total : /\ s[k].cmd = CmdAt(k)
                           /\ CmdAt(k) = "WRITE" => s[k].byte = ByteAt(k)

LEMMA ScriptIs ==
  ASSUME Underway
  PROVE  Shaped(Script)
  <1> DEFINE A == MakeAddress(Target)
             x == chip.width
             W == Written
             C == Chunk(call, written)
             n == call.n
             Fits(s, k) == s[k].cmd = CmdAt(k) /\ (CmdAt(k) = "WRITE" => s[k].byte = ByteAt(k))
  <1>1. /\ x \in {1, 2} /\ A \in Seq(Byte) /\ Len(A) = x /\ A \in Seq(Nat)
        /\ W \in Nat /\ call.dev \in Nat /\ call.op \in {"write", "read", "current"}
    BY Numbers, AddressIs, Bases
  <1>2. CASE call.op = "current"
    <2> DEFINE s == I2cRead(call.dev, n)
    <2>1. n \in Nat \ {0} /\ W = 0 /\ Total = n + 3 /\ Script = s
      BY <1>2, Numbers DEF Total, Script
    <2>2. Reading(s, call.dev, n)
      BY <1>1, <2>1, I2cReadIs
    <2> HIDE DEF s, n
    <2>3. /\ CmdAt(1) = "START" /\ CmdAt(2) = "WRITE" /\ CmdAt(n + 3) = "STOP"
          /\ \A k \in 3 .. n + 2 : CmdAt(k) = IF k = n + 2 THEN "READ_NACK" ELSE "READ_ACK"
          /\ ByteAt(2) = 2 * call.dev + 1
      BY <1>2, <2>1, CmdAtIs, ByteAtIs DEF n
    <2>4. Fits(s, 1) /\ Fits(s, 2) /\ Fits(s, n + 3)
      BY <2>2, <2>3 DEF Reading
    <2>5. \A k \in 3 .. n + 2 : Fits(s, k)
      BY <2>2, <2>3 DEF Reading
    <2> HIDE DEF Fits
    <2>6. \A k \in 1 .. Total : Fits(s, k)
      BY <2>1, <2>4, <2>5
    <2> QED BY <2>1, <2>2, <2>6 DEF Shaped, Reading, Fits
  <1>3. CASE call.op = "read"
    <2> DEFINE s == I2cWriteRead(call.dev, A, n)
    <2>1. /\ n \in Nat \ {0} /\ W = x + 2 /\ Total = W + n + 3
          /\ Target = call.addr /\ Script = s
      BY <1>3, Numbers DEF Total, Script
    <2>2. WritingReading(s, call.dev, A, W, n)
      <3>1. Len(A) + 2 = W
        BY <1>1, <2>1
      <3> HIDE DEF A, W
      <3> QED BY <1>1, <2>1, <3>1, I2cWriteReadIs
    <2> HIDE DEF s, n
    <2>3. /\ CmdAt(1) = "START" /\ CmdAt(2) = "WRITE" /\ CmdAt(W + n + 3) = "STOP"
          /\ CmdAt(W + 1) = "START" /\ CmdAt(W + 2) = "WRITE"
          /\ \A k \in 3 .. W : CmdAt(k) = "WRITE"
          /\ \A k \in W + 3 .. W + n + 2 :
               CmdAt(k) = IF k = W + n + 2 THEN "READ_NACK" ELSE "READ_ACK"
      BY <1>1, <1>3, <2>1, CmdAtIs DEF n
    <2>4. /\ ByteAt(2) = 2 * call.dev /\ ByteAt(W + 2) = 2 * call.dev + 1
          /\ \A k \in 3 .. W : ByteAt(k) = A[k - 2]
      <3>1. /\ W >= 2 => ByteAt(2) = 2 * call.dev
            /\ \A k \in 3 .. 2 + x : k <= W => ByteAt(k) = A[k - 2]
            /\ ByteAt(W + 2) = 2 * call.dev + 1
        BY ByteAtIs
      <3> HIDE DEF A, x, W
      <3> QED BY <1>1, <2>1, <3>1
    <2> HIDE DEF W, A, x
    <2>5. Fits(s, 1) /\ Fits(s, 2) /\ Fits(s, W + 1) /\ Fits(s, W + 2) /\ Fits(s, W + n + 3)
      BY <2>2, <2>3, <2>4 DEF WritingReading
    <2>6. \A k \in 3 .. W : Fits(s, k)
      BY <2>2, <2>3, <2>4 DEF WritingReading
    <2>7. \A k \in W + 3 .. W + n + 2 : Fits(s, k)
      BY <2>2, <2>3 DEF WritingReading
    <2> HIDE DEF Fits
    <2>8. \A k \in 1 .. Total : Fits(s, k)
      BY <1>1, <2>1, <2>5, <2>6, <2>7
    <2> QED BY <2>1, <2>2, <2>8 DEF Shaped, WritingReading, Fits
  <1>4. CASE call.op = "write" /\ stage = "piece"
    <2> DEFINE d == SubSeq(call.data, written + 1, written + C)
               b == A \o d
               s == I2cWrite(call.dev, b)
    <2>1. /\ C \in Nat \ {0} /\ written \in Nat /\ written + C <= Len(call.data)
          /\ W = 2 + x + C /\ Total = W + 1 /\ call.data \in Seq(Byte)
      BY <1>4, Numbers DEF Total, Written, Underway
    <2>2. Script = s
      BY <1>4, Numbers DEF Script, Piece, Start
    <2> HIDE DEF A, C, x
    <2>3. /\ d \in Seq(Nat) /\ Len(d) = C
          /\ \A i \in 1 .. C : d[i] = call.data[written + i]
      <3> DEFINE D == call.data
      <3>1. D \in Seq(Byte) /\ \A i \in 1 .. Len(D) : D[i] \in Nat
        <4>1. D \in Seq(Byte)
          BY <2>1
        <4> HIDE DEF D
        <4>2. \A i \in 1 .. Len(D) : D[i] \in Byte
          BY <4>1
        <4> QED BY <4>1, <4>2, Bases
      <3> HIDE DEF D
      <3>2. LET e == SubSeq(D, written + 1, written + C) IN
            e \in Seq(Nat) /\ Len(e) = C /\ \A i \in 1 .. C : e[i] = D[written + i]
        BY <2>1, <3>1 DEF D
      <3> QED BY <3>2 DEF D
    <2> HIDE DEF d
    <2>4. /\ b \in Seq(Nat) /\ Len(b) = x + C
          /\ \A i \in 1 .. x : b[i] = A[i]
          /\ \A i \in x + 1 .. x + C : b[i] = d[i - x]
      BY <1>1, <2>3
    <2> HIDE DEF b
    <2>5. Writing(s, call.dev, b, x + C)
      BY <1>1, <2>4, I2cWriteIs
    <2> HIDE DEF s
    <2>6. /\ CmdAt(1) = "START" /\ CmdAt(2) = "WRITE" /\ CmdAt(x + C + 3) = "STOP"
          /\ \A k \in 3 .. x + C + 2 : CmdAt(k) = "WRITE"
      BY <1>1, <2>1, CmdAtIs
    <2>7. /\ ByteAt(2) = 2 * call.dev
          /\ \A k \in 3 .. 2 + x : ByteAt(k) = A[k - 2]
          /\ \A k \in 3 + x .. x + C + 2 : ByteAt(k) = call.data[written + (k - 2 - x)]
      <3>1. /\ W >= 2 => ByteAt(2) = 2 * call.dev
            /\ \A k \in 3 .. 2 + x : k <= W => ByteAt(k) = A[k - 2]
            /\ \A k \in 3 + x .. W : ByteAt(k) = call.data[written + (k - 2 - x)]
        BY ByteAtIs DEF x, A
      <3>2. W = x + C + 2 /\ \A k \in 3 .. 2 + x : k <= W
        BY <1>1, <2>1
      <3> HIDE DEF W
      <3> QED BY <1>1, <2>1, <3>1, <3>2
    <2>8. Fits(s, 1) /\ Fits(s, 2) /\ Fits(s, x + C + 3)
      BY <1>1, <2>1, <2>5, <2>6, <2>7 DEF Writing
    <2>9. ASSUME NEW k \in 3 .. 2 + x PROVE Fits(s, k)
      <3>1. k \in 3 .. x + C + 2 /\ k - 2 \in 1 .. x
        BY <1>1, <2>1
      <3>2. b[k - 2] = A[k - 2]
        BY <2>4, <3>1
      <3>3. s[k].cmd = "WRITE" /\ s[k].byte = b[k - 2]
        BY <2>5, <3>1 DEF Writing
      <3>4. CmdAt(k) = "WRITE" /\ ByteAt(k) = A[k - 2]
        BY <2>6, <2>7, <3>1
      <3> QED BY <3>2, <3>3, <3>4
    <2>10. ASSUME NEW k \in 3 + x .. x + C + 2 PROVE Fits(s, k)
      <3>1. /\ k \in 3 .. x + C + 2 /\ k - 2 \in x + 1 .. x + C /\ k - 2 - x \in 1 .. C
            /\ (k - 2) - x = k - 2 - x
        BY <1>1, <2>1
      <3>2. d[k - 2 - x] = call.data[written + (k - 2 - x)]
        BY <2>3, <3>1
      <3>3. b[k - 2] = d[k - 2 - x]
        BY <2>4, <3>1
      <3> QED BY <2>5, <2>6, <2>7, <3>1, <3>2, <3>3 DEF Writing
    <2> HIDE DEF Fits
    <2>11. \A k \in 1 .. Total : Fits(s, k)
      BY <1>1, <2>1, <2>8, <2>9, <2>10
    <2> QED BY <1>1, <2>1, <2>2, <2>5, <2>11 DEF Shaped, Writing, Fits
  <1>5. CASE call.op = "write" /\ stage # "piece"
    <2> DEFINE e == <<>>
               s == I2cWrite(call.dev, e)
    <2>1. W = 2 /\ Total = 3 /\ Script = s
      BY <1>5, Numbers DEF Total, Written, Script
    <2>2. e \in Seq(Nat) /\ Len(e) = 0
      OBVIOUS
    <2> HIDE DEF e
    <2>3. Writing(s, call.dev, e, 0)
      BY <1>1, <2>2, I2cWriteIs
    <2> HIDE DEF s
    <2>4. /\ CmdAt(1) = "START" /\ CmdAt(2) = "WRITE" /\ CmdAt(3) = "STOP"
          /\ ByteAt(2) = 2 * call.dev
      BY <2>1, CmdAtIs, ByteAtIs
    <2>5. Fits(s, 1) /\ Fits(s, 2) /\ Fits(s, 3)
      BY <2>3, <2>4 DEF Writing
    <2> QED BY <2>1, <2>3, <2>5 DEF Shaped, Writing
  <1> QED BY <1>1, <1>2, <1>3, <1>4, <1>5

-----------------------------------------------------------------------------
(* Arithmetic.                                                             *)

\* Division with remainder.
LEMMA Divides ==
  ASSUME NEW x \in Nat, NEW g \in Nat \ {0}
  PROVE  /\ x \div g \in Nat /\ x % g \in Nat /\ x % g < g
         /\ x = (x \div g) * g + (x % g)
  OBVIOUS

\* Addresses beyond the chip's come down to one of its own.
LEMMA Wraps ==
  ASSUME NEW x \in Nat
  PROVE  /\ x % Size \in Cells
         /\ x \in Cells => x % Size = x
  <1>1. Size \in Nat \ {0}
    BY Bases
  <1>2. x % Size \in Nat /\ x % Size < Size /\ (x < Size => x % Size = x)
    BY <1>1
  <1> QED BY <1>1, <1>2 DEF Cells

\* A quotient and a remainder that fit are the quotient and the remainder.
LEMMA RemainderIs ==
  ASSUME NEW q \in Nat, NEW g \in Nat \ {0}, NEW r \in Nat, r < g
  PROVE  (q * g + r) % g = r
  OBVIOUS

\* A page of a whole number of pages lies inside them.
LEMMA PageInside ==
  ASSUME NEW x \in Nat, NEW n \in Nat, NEW g \in Nat \ {0}, n % g = 0, x < n
  PROVE  x - (x % g) + g <= n
  <1> DEFINE a == x \div g
             r == x % g
             m == n \div g
  <1>1. a \in Nat /\ r \in Nat /\ r < g /\ x = a * g + r /\ m \in Nat /\ n = m * g + 0
    BY Divides
  <1> HIDE DEF a, r, m
  <1>2. a < m
    <2>1. SUFFICES ASSUME a >= m PROVE FALSE
      BY <1>1
    <2>2. a * g >= m * g
      BY <1>1, <2>1
    <2> QED BY <1>1, <2>2
  <1>3. (a + 1) * g <= m * g
    BY <1>1, <1>2
  <1>4. (a + 1) * g = a * g + g
    BY <1>1
  <1> QED BY <1>1, <1>3, <1>4 DEF r

\* Counting on inside a page of g.
LEMMA CountOn ==
  ASSUME NEW x \in Nat, NEW g \in Nat \ {0}, NEW d \in Nat, (x % g) + d < g
  PROVE  (x + d) % g = (x % g) + d
  <1> DEFINE a == x \div g
             r == x % g
  <1>1. a \in Nat /\ r \in Nat /\ x = a * g + r /\ r + d < g
    BY Divides
  <1> HIDE DEF a, r
  <1>2. x + d = a * g + (r + d) /\ r + d \in Nat
    BY <1>1
  <1>3. (a * g + (r + d)) % g = r + d
    BY <1>1, <1>2, RemainderIs
  <1> QED BY <1>2, <1>3 DEF r

\* A number that a page of g divides is divided by what divides g.
LEMMA Multiple ==
  ASSUME NEW x \in Nat, NEW n \in Nat \ {0}, NEW g \in Nat \ {0}, n % g = 0, x % n = 0
  PROVE  x % g = 0
  <1> DEFINE a == x \div n
             m == n \div g
  <1>1. a \in Nat /\ x = a * n + 0 /\ m \in Nat /\ n = m * g + 0
    BY Divides
  <1> HIDE DEF a, m
  <1> DEFINE e == a * m
  <1>2. e \in Nat /\ x = e * g + 0
    BY <1>1
  <1> HIDE DEF e
  <1>3. (e * g + 0) % g = 0
    BY <1>2, RemainderIs
  <1> QED BY <1>2, <1>3

\* The next remainder is the next number, or zero.
LEMMA NextRemainder ==
  ASSUME NEW x \in Nat, NEW g \in Nat \ {0}
  PROVE  /\ (x + 1) % g = IF (x % g) + 1 = g THEN 0 ELSE (x % g) + 1
         /\ ((x % g) + 1) % g = (x + 1) % g
  <1> DEFINE a == x \div g
             r == x % g
  <1>1. a \in Nat /\ r \in Nat /\ r < g /\ x = a * g + r
    BY Divides
  <1> HIDE DEF a, r
  <1>2. CASE r + 1 = g
    <2>1. x + 1 = (a + 1) * g + 0
      BY <1>1, <1>2
    <2>2. ((a + 1) * g + 0) % g = 0 /\ (1 * g + 0) % g = 0
      BY <1>1, RemainderIs
    <2>3. r + 1 = 1 * g + 0
      BY <1>2
    <2> QED BY <1>2, <2>1, <2>2, <2>3 DEF r
  <1>3. CASE r + 1 # g
    <2>1. x + 1 = a * g + (r + 1) /\ r + 1 = 0 * g + (r + 1) /\ r + 1 \in Nat /\ r + 1 < g
      BY <1>1, <1>3
    <2>2. (a * g + (r + 1)) % g = r + 1 /\ (0 * g + (r + 1)) % g = r + 1
      BY <1>1, <2>1, RemainderIs
    <2> QED BY <1>3, <2>1, <2>2 DEF r
  <1> QED BY <1>2, <1>3

\* Reducing the higher of two digits first changes nothing.
Reduces(q, b, r, g) == ((q % g) * b + r) % g = (q * b + r) % g

LEMMA Digits ==
  ASSUME NEW q \in Nat, NEW g \in Nat \ {0}, NEW b \in Nat, NEW r \in Nat
  PROVE  Reduces(q, b, r, g)
  <1> DEFINE a == q \div g
             s == q % g
             y == s * b + r
  <1>1. a \in Nat /\ s \in Nat /\ q = a * g + s
    BY Divides
  <1> HIDE DEF a, s
  <1>2. y \in Nat
    BY <1>1
  <1>3. q * b + r = (a * b) * g + y
    <2>1. q * b = (a * g) * b + s * b
      BY <1>1
    <2>2. (a * g) * b = (a * b) * g
      BY <1>1
    <2>3. (a * b) * g \in Nat /\ s * b \in Nat
      BY <1>1
    <2> QED BY <1>1, <2>1, <2>2, <2>3
  <1> HIDE DEF y
  <1> DEFINE c == y \div g
             t == y % g
  <1>4. c \in Nat /\ t \in Nat /\ t < g /\ y = c * g + t
    BY <1>2, Divides
  <1> HIDE DEF c, t
  <1>5. (a * b) * g + y = (a * b + c) * g + t /\ a * b + c \in Nat
    <2> DEFINE e == a * b
    <2>1. e \in Nat
      BY <1>1
    <2> HIDE DEF e
    <2>2. e * g + y = (e + c) * g + t /\ e + c \in Nat
      BY <1>4, <2>1
    <2> QED BY <2>2 DEF e
  <1>6. ((a * b + c) * g + t) % g = t
    BY <1>4, <1>5, RemainderIs
  <1>7. (q * b + r) % g = t
    BY <1>3, <1>5, <1>6
  <1> QED BY <1>7 DEF t, y, s, Reduces

LEMMA BytesOfAddress ==
  ASSUME NEW a \in Nat
  PROVE  (((a \div Base) % Size) * Base + (a % Base)) % Size = a % Size
  <1> DEFINE q == a \div Base
             r == a % Base
  <1>1. Base \in Nat \ {0} /\ Size \in Nat \ {0}
    BY Bases
  <1>2. q \in Nat /\ r \in Nat /\ a = q * Base + r
    BY <1>1, Divides
  <1> HIDE DEF q, r
  <1>3. Reduces(q, Base, r, Size)
    BY <1>1, <1>2, Digits
  <1> QED BY <1>2, <1>3 DEF q, r, Reduces

\* Where the chip goes on inside a page.
LEMMA NextInPageIs ==
  ASSUME NEW p \in Cells
  PROVE  /\ NextInPage(p) \in Cells
         /\ \A g \in Nat \ {0} : Page % g = 0 /\ (p % g) + 1 < g => NextInPage(p) = p + 1
  <1> DEFINE r == p % Page
             s == (p + 1) % Page
  <1>1. p \in Nat /\ p < Size /\ r \in Nat /\ s \in Nat /\ s < Page /\ r <= p
    BY Bases, Divides DEF Cells
  <1>2. p - r + Page <= Size
    BY <1>1, Bases, PageInside, BusAssumption
  <1>3. NextInPage(p) = (p - r) + s
    BY DEF NextInPage
  <1> HIDE DEF r, s
  <1>4. NextInPage(p) \in Cells
    BY <1>1, <1>2, <1>3, Bases DEF Cells
  <1>5. ASSUME NEW g \in Nat \ {0}, Page % g = 0, (p % g) + 1 < g PROVE NextInPage(p) = p + 1
    <2>1. (p + 1) % g = (p % g) + 1 /\ p % g \in Nat
      <3>1. p % g \in Nat /\ (p % g) + 1 # g
        BY <1>1, <1>5, Divides
      <3>2. (p + 1) % g = IF (p % g) + 1 = g THEN 0 ELSE (p % g) + 1
        BY <1>1, <1>5, NextRemainder
      <3> QED BY <3>1, <3>2
    <2>2. s # 0
      <3>1. SUFFICES ASSUME s = 0 PROVE FALSE
        OBVIOUS
      <3>2. (p + 1) % g = 0
        <4>1. (p + 1) % Page = 0 /\ p + 1 \in Nat
          BY <1>1, <3>1 DEF s
        <4> QED BY <1>5, <4>1, Multiple, Bases
      <3> QED BY <2>1, <3>2
    <2>3. s = r + 1
      BY <1>1, <2>2, NextRemainder, Bases DEF s, r
    <2> QED BY <1>1, <1>3, <2>3
  <1> QED BY <1>4, <1>5

\* The cells of a piece are cells of the chip, one after the other.
LEMMA PieceIs ==
  ASSUME Underway, call.op = "write"
  PROVE  /\ Start + Chunk(call, written) <= Size
         /\ \A d \in Nat : d < Chunk(call, written) => Start + d \in Cells
         /\ \A d \in Nat : d + 1 < Chunk(call, written) =>
              NextInPage(Start + d) = Start + (d + 1)
  <1> DEFINE g == call.page
             C == Chunk(call, written)
             S == Start
             m == S % g
             l == Len(call.data)
  <1>1. /\ g \in Nat \ {0} /\ Page % g = 0 /\ S \in Nat /\ C \in Nat \ {0} /\ C <= g - m
        /\ m \in Nat /\ l \in Nat
    <2>1. call \in Calls /\ written \in Nat /\ written < l
      BY DEF Underway
    <2>2. g \in Nat \ {0} /\ Page % g = 0 /\ l \in Nat
      BY <2>1, CallIs
    <2>3. C \in Nat \ {0} /\ C <= g - m
      BY <2>1, ChunkIs DEF Start
    <2>4. S \in Nat
      BY Numbers
    <2> QED BY <2>2, <2>3, <2>4, Divides
  <1>2. S < Size
    <2>1. CASE chip.width = 1
      BY <2>1, Numbers, Bases, CallsAssumption DEF Underway
    <2>2. CASE chip.width = 2
      <3>1. call.addr + l <= Size /\ written < l /\ written \in Nat /\ call.addr \in Nat
        BY <2>2, Numbers DEF Underway, InsideChip
      <3> HIDE DEF l
      <3> QED BY <1>1, <3>1, Bases DEF Start
    <2> QED BY <2>1, <2>2, Numbers
  <1> HIDE DEF g, C, S, m, l
  <1>3. S - m + g <= Size
    <2>1. Size % g = 0
      BY <1>1, Multiple, Bases, BusAssumption
    <2> QED BY <1>1, <1>2, <2>1, PageInside, Bases DEF m
  <1>4. S + C <= Size
    BY <1>1, <1>3, Bases
  <1>5. \A d \in Nat : d < C => S + d \in Cells
    BY <1>1, <1>4, Bases DEF Cells
  <1>6. ASSUME NEW d \in Nat, d + 1 < C PROVE NextInPage(S + d) = S + (d + 1)
    <2>1. m + d < g /\ m + d + 1 < g
      BY <1>1, <1>6
    <2>2. (S + d) % g = m + d
      BY <1>1, <2>1, CountOn DEF m
    <2>3. S + d \in Cells
      BY <1>1, <1>5, <1>6
    <2>4. NextInPage(S + d) = (S + d) + 1
      BY <1>1, <2>1, <2>2, <2>3, NextInPageIs
    <2> QED BY <1>1, <2>4
  <1> QED BY <1>4, <1>5, <1>6 DEF S, C

-----------------------------------------------------------------------------
(* The invariant.                                                          *)

Jobs  == {"idle", "start_wait", "restart", "start", "write", "write_ack",
          "read", "read_ack", "stop"}
Modes == {"idle", "select", "receive", "send"}
Pages == UNION {[D -> Byte] : D \in SUBSET Cells}
Chips == [mode : Modes, need : 0 .. 2, ptr : Cells, page : Pages, width : Widths]
Known == Calls \cup {[op |-> "none"]}

BusTypes == /\ enable \in BOOLEAN /\ owned \in BOOLEAN /\ ackBit \in BOOLEAN
            /\ job \in Jobs /\ stat \subseteq {"DONE", "ACK_ERROR", "COMMAND_ERROR"}
            /\ tx \in Byte /\ rx \in Byte

ChipTypes == chip \in Chips /\ mem \in [Cells -> Byte] /\ cycling \in BOOLEAN

CpuTypes == /\ call \in Known /\ pc \in {"idle", "issue", "poll", "stop", "stopping"}
            /\ at \in Nat \ {0} /\ got \in Seq(Byte)
            /\ stage \in {"piece", "ready"} /\ written \in Nat /\ tries \in Nat
            /\ ret \in {"none", "true", "false"}
            /\ was \in [mem : [Cells -> Byte], ptr : Cells, page : Pages, call : Known]
            /\ gaveUp \in BOOLEAN /\ everGaveUp \in BOOLEAN

Types == BusTypes /\ ChipTypes /\ CpuTypes

\* The chip has nothing buffered and waits for its address, or for nothing.
Empty    == DOMAIN chip.page = {}
Selected == chip.mode = "select" /\ Empty
Released == chip.mode = "idle" /\ Empty

\* How many of the bytes after the device byte of a write are data.
Data(j) == IF j <= chip.width THEN 0 ELSE j - chip.width

\* j bytes after the device byte of a write.
Receiving(j) ==
  /\ chip.mode = "receive"
  /\ chip.need = IF j < chip.width THEN chip.width - j ELSE 0
  /\ j = 1 /\ chip.width = 2 => chip.ptr = (Target \div Base) % Size
  /\ j >= chip.width /\ call.op = "read" => chip.ptr = call.addr % Size
  /\ j >= chip.width /\ call.op = "write" /\ Data(j) < Chunk(call, written) =>
       chip.ptr = Start + Data(j)
  /\ DOMAIN chip.page = Start .. Start + Data(j) - 1
  /\ \A p \in DOMAIN chip.page : chip.page[p] = Value(call, p)

\* i bytes read.
Sending(i) == chip.mode = "send" /\ chip.ptr = (First + i) % Size /\ Empty

\* The piece is in its cells.
Landed == call.op = "write" /\ stage = "piece" =>
            \A p \in Start .. Start + Chunk(call, written) - 1 : mem[p] = Value(call, p)

\* The chip and the bus after k commands of the script.
Did(k) ==
  IF k = Total THEN ~owned /\ Released /\ Landed
  ELSE /\ owned
       /\ IF k <= Written THEN IF k = 1 THEN Selected ELSE Receiving(k - 2)
          ELSE IF k = Written + 1 THEN Selected /\ chip.ptr = First % Size
          ELSE IF k < Written + 2 + call.n THEN Sending(k - Written - 2)
          ELSE Released

Running == pc # "idle"

\* A call that is running is in its script, and has not returned.
Follows == Running => /\ Underway /\ enable /\ ret = "none"
                      /\ script = Script /\ at \in 1 .. Total

\* The chip answers with the byte at its address.
Fetched == rx = was.mem[(First + at - Written - 3) % Size]

\* Between two commands.
Issues == pc = "issue" /\ at > 1 => job = "idle" /\ Did(at - 1)

\* A command that has been given: not begun, begun, or done.
Starts == \/ /\ job \in {"start_wait", "restart"} /\ stat = {}
             /\ at > 1 => Did(at - 1)
             /\ at = 1 /\ call.op = "current" => chip.ptr = was.ptr
          \/ job = "start" /\ stat = {} /\ Did(at)
          \/ job = "idle" /\ stat = {"DONE"} /\ Did(at)
Puts   == \/ job = "write" /\ stat = {} /\ tx = ByteAt(at) /\ Did(at - 1)
          \/ job = "write_ack" /\ stat = {} /\ Did(at)
          \/ job \in {"write_ack", "idle"} /\ "ACK_ERROR" \in stat /\ owned /\ Released
          \/ job = "idle" /\ stat = {"DONE"} /\ Did(at)
Gets   == \/ /\ job = "read" /\ stat = {} /\ Did(at - 1)
             /\ ackBit <=> CmdAt(at) = "READ_ACK"
          \/ /\ job = "read_ack" /\ stat = {} /\ Did(at - 1) /\ Fetched
             /\ ackBit <=> CmdAt(at) = "READ_ACK"
          \/ job = "idle" /\ stat = {"DONE"} /\ Did(at) /\ Fetched
Closes == \/ job = "stop" /\ stat = {} /\ Did(at - 1)
          \/ job = "idle" /\ stat = {"DONE"} /\ Did(at)

Polls == pc = "poll" => /\ CmdAt(at) = "START" => Starts
                        /\ CmdAt(at) = "WRITE" => Puts
                        /\ CmdAt(at) \in {"READ_ACK", "READ_NACK"} => Gets
                        /\ CmdAt(at) = "STOP" => Closes

\* Unless the budget ran out, what failed was a byte without an acknowledge.
Stops ==
  /\ pc = "stop" /\ ~gaveUp => job \in {"write_ack", "idle"} /\ owned /\ Released
  /\ pc = "stopping" /\ ~gaveUp =>
       \/ job = "stop" /\ stat = {} /\ owned /\ Released
       \/ job = "idle" /\ ~owned /\ Released

\* The bytes that have been read.
Had == IF at <= Written + 3 THEN 0 ELSE at - Written - 3
Collects ==
  pc \in {"issue", "poll"} /\ call.op # "write" =>
    Len(got) = Had /\ \A x \in 1 .. Had : got[x] = was.mem[(First + x - 1) % Size]

\* Some command of this call has been performed, or has been given.
Opened == Running /\ (at > 1 \/ stage = "ready" \/ written > 0)
Reached == Opened \/ pc = "poll"

\* The cell p may hold v: the call put it there, or an earlier one left it to
\* be put there.
Belongs(p, v) == p \in Range(was.call) /\ v = Value(was.call, p)
MayHold(p, v) == Belongs(p, v) \/ (p \in DOMAIN was.page /\ v = was.page[p])

\* The bytes the chip will buffer, has buffered and has programmed.
Feeds   == job = "write" /\ chip.mode = "receive" /\ chip.need = 0 => Belongs(chip.ptr, tx)
Buffers == \A p \in DOMAIN chip.page : MayHold(p, chip.page[p])
Changes == \A p \in Cells : mem[p] # was.mem[p] => MayHold(p, mem[p])

\* How much of the write is in its cells.
Stored == written + (IF stage = "ready" THEN Chunk(call, written) ELSE 0)

Programs ==
  /\ Reached => was.call = call
  /\ Opened => \A p \in DOMAIN chip.page : Belongs(p, chip.page[p])
  /\ Running /\ call.op = "write" =>
       \A p \in call.addr .. call.addr + Stored - 1 : mem[p] = Value(call, p)
  /\ Reached /\ call.op # "write" => mem = was.mem

\* What is left when a call has returned.
Ends ==
  /\ ret = "true" => SuccessIsTrue /\ pc = "idle" /\ job = "idle" /\ ~owned
  /\ pc = "idle" /\ ret # "none" /\ ~gaveUp => job = "idle" /\ ~owned /\ Released

\* Before any budget ran out, the bus is free between the functions.
Calm ==
  ~everGaveUp =>
    /\ ~gaveUp
    /\ pc = "idle" \/ (pc = "issue" /\ at = 1) => job = "idle" /\ ~owned /\ chip.mode = "idle"
    /\ pc = "poll" /\ at = 1 /\ job \notin {"start", "idle"} =>
         chip.mode = "idle" /\ job = "start_wait"

EeInv == /\ Types /\ Follows /\ Issues /\ Polls /\ Stops /\ Collects
         /\ Feeds /\ Buffers /\ Changes /\ Programs /\ Ends /\ Calm

-----------------------------------------------------------------------------
(* The chip, whatever it is sent.                                          *)

LEMMA EmptyPage == <<>> \in Pages /\ DOMAIN <<>> = {}
  <1>1. <<>> \in [{} -> Byte] /\ DOMAIN <<>> = {}
    OBVIOUS
  <1>2. {} \in SUBSET Cells
    OBVIOUS
  <1> QED BY <1>1, <1>2 DEF Pages

LEMMA PageIs ==
  ASSUME NEW f \in Pages
  PROVE  DOMAIN f \subseteq Cells /\ f = [p \in DOMAIN f |-> f[p]] /\ \A p \in DOMAIN f : f[p] \in Byte
  BY DEF Pages

\* A chip that lets go, and one that has seen a START.
LEMMA LetsGo ==
  ASSUME NEW c \in Chips
  PROVE  /\ Asleep(c) \in Chips /\ Selecting(c) \in Chips
         /\ Asleep(c).mode = "idle" /\ Selecting(c).mode = "select"
         /\ DOMAIN Asleep(c).page = {} /\ DOMAIN Selecting(c).page = {}
         /\ Asleep(c).ptr = c.ptr /\ Selecting(c).ptr = c.ptr
         /\ Asleep(c).width = c.width /\ Selecting(c).width = c.width
  <1> DEFINE e == <<>>
  <1>0. /\ Asleep(c) = [c EXCEPT !.mode = "idle", !.need = 0, !.page = e]
        /\ Selecting(c) = [c EXCEPT !.mode = "select", !.need = 0, !.page = e]
    BY DEF Asleep, Selecting
  <1>e. e \in Pages /\ DOMAIN e = {}
    BY EmptyPage
  <1> HIDE DEF e
  <1>1. /\ Asleep(c) = [mode |-> "idle", need |-> 0, ptr |-> c.ptr, page |-> e, width |-> c.width]
        /\ Selecting(c) = [mode |-> "select", need |-> 0, ptr |-> c.ptr, page |-> e, width |-> c.width]
    BY <1>0 DEF Chips
  <1>2. c.ptr \in Cells /\ c.width \in Widths
    BY DEF Chips
  <1>3. "idle" \in Modes /\ "select" \in Modes /\ 0 \in 0 .. 2
    BY DEF Modes
  <1> QED BY <1>1, <1>2, <1>3, <1>e DEF Chips

\* The byte that is not answered.
LEMMA TakenUnanswered ==
  ASSUME NEW b \in Byte, ~Answers(b)
  PROVE  Taken(b) = Asleep(chip)
  BY DEF Taken

\* The address byte, for reading and for writing.
LEMMA TakenSelect ==
  ASSUME chip \in Chips, NEW b \in Byte, Answers(b), chip.mode = "select"
  PROVE  LET c == Taken(b) IN
         /\ c \in Chips /\ c.ptr = chip.ptr /\ c.page = chip.page /\ c.width = chip.width
         /\ b % 2 = 1 => c.mode = "send"
         /\ b % 2 = 0 => c.mode = "receive" /\ c.need = chip.width
  <1>0. b \in Nat /\ (b % 2 = 0 \/ b % 2 = 1)
    BY Bases
  <1>1. CASE b % 2 = 1
    <2>1. Taken(b) = [chip EXCEPT !.mode = "send"]
      BY <1>1 DEF Taken
    <2>2. "send" \in Modes
      BY DEF Modes
    <2> QED BY <1>1, <2>1, <2>2 DEF Chips
  <1>2. CASE b % 2 = 0
    <2>1. Taken(b) = [chip EXCEPT !.mode = "receive", !.need = chip.width]
      BY <1>2 DEF Taken
    <2>2. "receive" \in Modes
      BY DEF Modes
    <2>3. chip.width \in Widths
      BY DEF Chips
    <2>4. chip.width \in 0 .. 2
      <3>1. chip.width \in {1, 2}
        BY <2>3, BusAssumption
      <3> QED BY <3>1
    <2> HIDE <1>2
    <2>5. /\ Taken(b).mode = "receive" /\ Taken(b).need = chip.width /\ Taken(b).ptr = chip.ptr
          /\ Taken(b).page = chip.page /\ Taken(b).width = chip.width /\ Taken(b) \in Chips
      BY <2>1, <2>2, <2>4 DEF Chips
    <2> QED BY <1>2, <2>5
  <1> QED BY <1>0, <1>1, <1>2

\* A byte of the memory address.
LEMMA TakenAddress ==
  ASSUME chip \in Chips, NEW b \in Byte, chip.mode = "receive", chip.need > 0
  PROVE  LET c == Taken(b) IN
         /\ c \in Chips /\ c.mode = "receive" /\ c.page = chip.page /\ c.width = chip.width
         /\ c.need = chip.need - 1
         /\ chip.need = 1 /\ chip.width = 2 => c.ptr = (chip.ptr * Base + b) % Size
         /\ ~(chip.need = 1 /\ chip.width = 2) => c.ptr = b % Size
  <1> DEFINE x == IF chip.need = 1 /\ chip.width = 2 THEN chip.ptr * Base + b ELSE b
             m == x % Size
  <1>1. Taken(b) = [chip EXCEPT !.need = chip.need - 1, !.ptr = m]
    BY DEF Taken, Answers
  <1>2. m \in Cells
    <2>1. chip.ptr \in Nat /\ Base \in Nat /\ b \in Nat /\ Size \in Nat \ {0}
      BY Bases DEF Chips
    <2>2. chip.ptr * Base \in Nat
      BY <2>1
    <2>3. x \in Nat
      BY <2>1, <2>2
    <2> HIDE DEF x
    <2> QED BY <2>1, <2>3, Divides DEF Cells
  <1>3. chip.need - 1 \in 0 .. 2
    BY DEF Chips
  <1> HIDE DEF m
  <1>4. /\ Taken(b) \in Chips /\ Taken(b).mode = "receive" /\ Taken(b).page = chip.page
        /\ Taken(b).width = chip.width /\ Taken(b).need = chip.need - 1 /\ Taken(b).ptr = m
    BY <1>1, <1>2, <1>3 DEF Chips
  <1> QED BY <1>4 DEF m

\* A byte of data.
LEMMA TakenData ==
  ASSUME chip \in Chips, NEW b \in Byte, chip.mode = "receive", chip.need = 0
  PROVE  LET c == Taken(b) IN
         /\ c \in Chips /\ c.mode = "receive" /\ c.need = 0 /\ c.width = chip.width
         /\ c.ptr = NextInPage(chip.ptr)
         /\ DOMAIN c.page = DOMAIN chip.page \cup {chip.ptr}
         /\ c.page[chip.ptr] = b
         /\ \A p \in DOMAIN chip.page : p # chip.ptr => c.page[p] = chip.page[p]
  <1> DEFINE D == DOMAIN chip.page \cup {chip.ptr}
             f == [p \in D |-> IF p = chip.ptr THEN b ELSE chip.page[p]]
             n == NextInPage(chip.ptr)
  <1>1. Taken(b) = [chip EXCEPT !.ptr = n, !.page = f]
    BY DEF Taken, Answers
  <1>2. n \in Cells /\ chip.ptr \in Cells
    BY NextInPageIs DEF Chips
  <1>3. DOMAIN chip.page \subseteq Cells /\ \A p \in DOMAIN chip.page : chip.page[p] \in Byte
    BY PageIs DEF Chips
  <1>4. f \in [D -> Byte] /\ D \in SUBSET Cells
    BY <1>2, <1>3
  <1>5. f \in Pages /\ DOMAIN f = D /\ f[chip.ptr] = b
    BY <1>4 DEF Pages
  <1>6. \A p \in DOMAIN chip.page : p # chip.ptr => f[p] = chip.page[p]
    OBVIOUS
  <1> HIDE DEF D, f, n
  <1>7. /\ Taken(b) \in Chips /\ Taken(b).mode = chip.mode /\ Taken(b).page = f
        /\ Taken(b).width = chip.width /\ Taken(b).need = chip.need /\ Taken(b).ptr = n
    BY <1>1, <1>2, <1>5 DEF Chips
  <1> QED BY <1>5, <1>6, <1>7 DEF D, n

\* Any byte: the chip stays a chip, and buffers at most that byte.
LEMMA TakenIs ==
  ASSUME chip \in Chips, NEW b \in Byte
  PROVE  /\ Taken(b) \in Chips /\ Taken(b).width = chip.width
         /\ \A p \in DOMAIN Taken(b).page :
              \/ p \in DOMAIN chip.page /\ Taken(b).page[p] = chip.page[p]
              \/ chip.mode = "receive" /\ chip.need = 0 /\ p = chip.ptr /\ Taken(b).page[p] = b
  <1>1. CASE ~Answers(b)
    BY <1>1, TakenUnanswered, LetsGo
  <1>2. CASE Answers(b) /\ chip.mode = "select"
    BY <1>2, TakenSelect
  <1>3. CASE chip.mode = "receive" /\ chip.need > 0
    BY <1>3, TakenAddress
  <1>4. CASE chip.mode = "receive" /\ chip.need = 0
    BY <1>4, TakenData
  <1>5. chip.need > 0 \/ chip.need = 0
    BY DEF Chips
  <1> QED BY <1>1, <1>2, <1>3, <1>4, <1>5 DEF Answers

-----------------------------------------------------------------------------
(* A step of the hardware leaves the script and the position alone.        *)

Here == <<call, stage, written, was>>

\* The script is that of the call and the piece.
LEMMA SameCommands ==
  ASSUME call' = call, stage' = stage, written' = written, chip'.width = chip.width
  PROVE  /\ Written' = Written /\ Total' = Total /\ Start' = Start /\ Target' = Target
         /\ Script' = Script /\ Underway' = Underway
         /\ Chunk(call, written)' = Chunk(call, written) /\ Stored' = Stored
         /\ \A k : CmdAt(k)' = CmdAt(k) /\ ByteAt(k)' = ByteAt(k) /\ Data(k)' = Data(k)
  <1>2. Chunk(call, written)' = Chunk(call, written) /\ Stored' = Stored
    BY DEF Chunk, Stored
  <1>3. Start' = Start /\ Target' = Target
    BY DEF Start, Target
  <1>4. Written' = Written
    BY <1>2 DEF Written
  <1>5. Total' = Total
    BY <1>4 DEF Total
  <1>6. Underway' = Underway
    BY <1>3 DEF Underway, Accepted, InsideChip, Addressable, Start
  <1>7. Script' = Script
    <2>1. MakeAddress(call.addr)' = MakeAddress(call.addr)
      BY DEF MakeAddress
    <2>2. Piece(call, written)' = Piece(call, written)
      BY DEF Piece, MakeAddress, I2cWrite, Cmd, Writes, Chunk
    <2> QED BY <2>1, <2>2 DEF Script, I2cWriteRead, I2cRead, I2cWrite, Cmd, Writes, Reads
  <1>8. ASSUME NEW k PROVE CmdAt(k)' = CmdAt(k) /\ ByteAt(k)' = ByteAt(k) /\ Data(k)' = Data(k)
    <2>1. CmdAt(k)' = CmdAt(k)
      BY <1>4, <1>5 DEF CmdAt
    <2>2. MakeAddress(Target)' = MakeAddress(Target)
      BY <1>3 DEF MakeAddress
    <2>3. ByteAt(k)' = ByteAt(k)
      BY <1>4, <2>2 DEF ByteAt
    <2> QED BY <2>1, <2>3 DEF Data
  <1> QED BY <1>2, <1>3, <1>4, <1>5, <1>6, <1>7, <1>8

LEMMA SameScript ==
  ASSUME UNCHANGED Here, chip'.width = chip.width
  PROVE  /\ Written' = Written /\ Total' = Total /\ Start' = Start /\ First' = First
         /\ Target' = Target /\ Script' = Script /\ Underway' = Underway
         /\ Chunk(call, written)' = Chunk(call, written) /\ Stored' = Stored
         /\ \A k : CmdAt(k)' = CmdAt(k) /\ ByteAt(k)' = ByteAt(k) /\ Data(k)' = Data(k)
  <1>1. call' = call /\ stage' = stage /\ written' = written /\ was' = was
    BY DEF Here
  <1> QED BY <1>1, SameCommands DEF First

\* What a step of the engine can do to the chip: new bytes in the buffer come
\* from DATA, and new bytes in the cells from the buffer.
LEMMA EngineEffect ==
  ASSUME BusTypes, ChipTypes, EngineStep
  PROVE  /\ BusTypes' /\ ChipTypes' /\ chip'.width = chip.width
         /\ job # "idle" /\ job' # "write" /\ enable' = enable
         /\ \A p \in DOMAIN chip'.page :
              \/ p \in DOMAIN chip.page /\ chip'.page[p] = chip.page[p]
              \/ /\ job = "write" /\ chip.mode = "receive" /\ chip.need = 0
                 /\ p = chip.ptr /\ chip'.page[p] = tx
         /\ \A p \in Cells : \/ mem'[p] = mem[p]
                             \/ p \in DOMAIN chip.page /\ mem'[p] = chip.page[p]
         /\ job # "stop" => mem' = mem
  <1> USE DEF BusTypes, ChipTypes, Jobs
  <1>1. CASE StartWait
    BY <1>1, LetsGo DEF StartWait
  <1>2. CASE StartEnds
    BY <1>2 DEF StartEnds, Finish
  <1>3. CASE WriteByte
    <2>1. tx \in Byte /\ chip' = Taken(tx) /\ job = "write" /\ job' = "write_ack"
      BY <1>3 DEF WriteByte
    <2>2. chip' \in Chips /\ chip'.width = chip.width
      BY <2>1, TakenIs
    <2>3. \A p \in DOMAIN chip'.page :
              \/ p \in DOMAIN chip.page /\ chip'.page[p] = chip.page[p]
              \/ chip.mode = "receive" /\ chip.need = 0 /\ p = chip.ptr /\ chip'.page[p] = tx
      BY <2>1, TakenIs
    <2> QED BY <1>3, <2>1, <2>2, <2>3 DEF WriteByte
  <1>4. CASE WriteEnds
    BY <1>4 DEF WriteEnds, Finish
  <1>5. CASE ReadByte
    <2>1. rx' \in Byte
      BY <1>5, Bases DEF ReadByte, Chips
    <2> QED BY <1>5, <2>1 DEF ReadByte
  <1>6. CASE ReadEnds
    <2>1. chip' \in Chips /\ chip'.width = chip.width
          /\ (chip'.page = chip.page \/ DOMAIN chip'.page = {})
      <3>1. CASE chip.mode = "send" /\ ackBit
        <4> DEFINE n == (chip.ptr + 1) % Size
        <4>1. chip' = [chip EXCEPT !.ptr = n]
          BY <1>6, <3>1 DEF ReadEnds
        <4>2. n \in Cells
          <5> DEFINE m == chip.ptr + 1
          <5>0. chip.ptr \in Cells
            BY DEF Chips
          <5>1. chip.ptr \in Nat
            BY <5>0, Bases
          <5>2. m \in Nat
            BY <5>1
          <5> HIDE DEF m
          <5>3. m % Size \in Cells
            BY <5>2, Wraps
          <5> QED BY <5>3 DEF m
        <4> HIDE DEF n
        <4> QED BY <4>1, <4>2 DEF Chips
      <3>2. CASE chip.mode = "send" /\ ~ackBit
        BY <1>6, <3>2, LetsGo DEF ReadEnds
      <3>3. CASE chip.mode # "send"
        BY <1>6, <3>3 DEF ReadEnds
      <3> QED BY <3>1, <3>2, <3>3
    <2> QED BY <1>6, <2>1 DEF ReadEnds, Finish
  <1>7. CASE StopEnds
    <2>1. /\ chip' \in Chips /\ chip'.width = chip.width
          /\ mem' \in [Cells -> Byte] /\ cycling' \in BOOLEAN
          /\ (chip'.page = chip.page \/ DOMAIN chip'.page = {})
          /\ \A p \in Cells : \/ mem'[p] = mem[p]
                              \/ p \in DOMAIN chip.page /\ mem'[p] = chip.page[p]
      <3>1. CASE PullsSda
        BY <1>7, <3>1 DEF StopEnds, SeesStop
      <3>2. CASE ~PullsSda
        <4>1. chip' = Asleep(chip) /\ cycling' \in BOOLEAN
              /\ mem' = [p \in Cells |-> IF p \in DOMAIN chip.page THEN chip.page[p] ELSE mem[p]]
          BY <1>7, <3>2 DEF StopEnds, SeesStop
        <4>2. \A p \in DOMAIN chip.page : chip.page[p] \in Byte
          BY PageIs DEF Chips
        <4>3. mem' \in [Cells -> Byte]
          BY <4>1, <4>2
        <4>4. \A p \in Cells : \/ mem'[p] = mem[p]
                               \/ p \in DOMAIN chip.page /\ mem'[p] = chip.page[p]
          BY <4>1
        <4> QED BY <4>1, <4>3, <4>4, LetsGo
      <3> QED BY <3>1, <3>2
    <2> QED BY <1>7, <2>1 DEF StopEnds, Finish
  <1> QED BY <1>1, <1>2, <1>3, <1>4, <1>5, <1>6, <1>7 DEF EngineStep

\* The parts of the invariant that any step of the engine keeps.
LEMMA EngineKeeps ==
  ASSUME EeInv, EngineStep, UNCHANGED cpuVars
  PROVE  /\ Types' /\ Follows' /\ Issues' /\ Collects'
         /\ Feeds' /\ Buffers' /\ Changes' /\ Programs' /\ Ends'
  <1>1. /\ call' = call /\ pc' = pc /\ script' = script /\ at' = at /\ got' = got
        /\ stage' = stage /\ written' = written /\ tries' = tries /\ ret' = ret
        /\ was' = was /\ gaveUp' = gaveUp /\ everGaveUp' = everGaveUp
    BY DEF cpuVars
  <1>2. Types /\ Types'
    <2>1. BusTypes /\ ChipTypes /\ CpuTypes
      BY DEF EeInv, Types
    <2>2. CpuTypes'
      BY <1>1, <2>1 DEF CpuTypes
    <2> QED BY <2>1, <2>2, EngineEffect DEF Types
  <1>3. /\ chip'.width = chip.width
        /\ job # "idle" /\ job' # "write" /\ enable' = enable
        /\ \A p \in DOMAIN chip'.page :
             \/ p \in DOMAIN chip.page /\ chip'.page[p] = chip.page[p]
             \/ /\ job = "write" /\ chip.mode = "receive" /\ chip.need = 0
                /\ p = chip.ptr /\ chip'.page[p] = tx
        /\ \A p \in Cells : \/ mem'[p] = mem[p]
                            \/ p \in DOMAIN chip.page /\ mem'[p] = chip.page[p]
        /\ job # "stop" => mem' = mem
    BY <1>2, EngineEffect DEF Types
  <1>4. UNCHANGED Here
    BY <1>1 DEF Here
  <1>5. /\ Written' = Written /\ Total' = Total /\ Start' = Start /\ First' = First
        /\ Script' = Script /\ Underway' = Underway /\ Stored' = Stored
    BY <1>3, <1>4, SameScript
  <1>6. Follows'
    BY <1>1, <1>3, <1>5 DEF EeInv, Follows, Running
  <1>7. Issues'
    BY <1>1, <1>3 DEF EeInv, Issues
  <1>8. Collects'
    BY <1>1, <1>5 DEF EeInv, Collects, Had
  <1>9. Feeds'
    BY <1>3 DEF Feeds
  <1>10. \A p, v : Belongs(p, v)' = Belongs(p, v) /\ MayHold(p, v)' = MayHold(p, v)
    BY <1>1 DEF Belongs, MayHold, Range, Value
  <1>11. \A p \in DOMAIN chip'.page :
           \/ p \in DOMAIN chip.page /\ chip'.page[p] = chip.page[p]
           \/ Belongs(p, chip'.page[p])
    BY <1>3 DEF EeInv, Feeds
  <1>12. Buffers'
    <2>1. \A p \in DOMAIN chip'.page : MayHold(p, chip'.page[p])
      BY <1>11 DEF EeInv, Buffers, MayHold
    <2>2. ASSUME NEW p \in DOMAIN chip'.page PROVE MayHold(p, chip.page[p])'
      BY <1>1, <2>1 DEF Belongs, MayHold, Range, Value
    <2> QED BY <2>2 DEF Buffers
  <1>13. Changes'
    <2>1. ASSUME NEW p \in Cells, mem'[p] # was.mem[p] PROVE MayHold(p, mem'[p])
      <3>1. CASE mem'[p] = mem[p]
        BY <2>1, <3>1 DEF EeInv, Changes
      <3>2. CASE p \in DOMAIN chip.page /\ mem'[p] = chip.page[p]
        BY <3>2 DEF EeInv, Buffers
      <3> QED BY <1>3, <3>1, <3>2
    <2>2. ASSUME NEW p \in Cells, mem'[p] # was'.mem[p] PROVE MayHold(p, mem[p])'
      BY <1>1, <2>1, <2>2 DEF Belongs, MayHold, Range, Value
    <2> QED BY <2>2 DEF Changes
  <1>14. Programs'
    <2>0. Opened' = Opened /\ Reached' = Reached /\ Running' = Running
      BY <1>1 DEF Opened, Reached, Running
    <2>1. (Reached => was.call = call)'
      BY <1>1, <2>0 DEF EeInv, Programs
    <2>2. (Opened => \A p \in DOMAIN chip.page : Belongs(p, chip.page[p]))'
      <3>1. ASSUME Opened PROVE \A p \in DOMAIN chip'.page : Belongs(p, chip'.page[p])
        BY <1>11, <3>1 DEF EeInv, Programs
      <3>2. ASSUME Opened, NEW p \in DOMAIN chip'.page PROVE Belongs(p, chip.page[p])'
        BY <1>1, <3>1, <3>2 DEF Belongs, Range, Value
      <3> QED BY <2>0, <3>2
    <2>3. ASSUME Running, call.op = "write", NEW p \in call.addr .. call.addr + Stored - 1
          PROVE  mem'[p] = Value(call, p)
      <3>1. mem[p] = Value(call, p)
        BY <2>3 DEF EeInv, Programs
      <3>2. Underway /\ stage \in {"piece", "ready"} /\ written \in Nat
        BY <2>3, <1>2 DEF EeInv, Follows, Types, CpuTypes
      <3>3. Start + Chunk(call, written) <= Size /\ Chunk(call, written) \in Nat \ {0}
            /\ call.addr \in Nat
        BY <2>3, <3>2, PieceIs, Numbers
      <3>4. p \in Cells /\ Stored > 0
        BY <3>2, <3>3, Bases DEF Stored, Start, Cells
      <3>5. Opened /\ was.call = call
        <4>1. Stored > 0 => stage = "ready" \/ written > 0
          BY <3>2 DEF Stored
        <4>2. Opened
          BY <2>3, <3>4, <4>1 DEF Opened
        <4> QED BY <4>2 DEF EeInv, Programs, Reached
      <3>6. CASE mem'[p] = mem[p]
        BY <3>1, <3>6
      <3>7. CASE p \in DOMAIN chip.page /\ mem'[p] = chip.page[p]
        <4>1. Belongs(p, chip.page[p])
          BY <3>5, <3>7 DEF EeInv, Programs
        <4> QED BY <3>5, <3>7, <4>1 DEF Belongs
      <3> QED BY <1>3, <3>4, <3>6, <3>7
    <2>4. ASSUME Reached, call.op # "write" PROVE mem' = was.mem
      <3>1. mem = was.mem /\ was.call = call
        BY <2>4 DEF EeInv, Programs
      <3>2. CASE Opened
        <4>1. \A p \in DOMAIN chip.page : FALSE
          BY <2>4, <3>1, <3>2 DEF EeInv, Programs, Belongs, Range
        <4>2. \A p \in Cells : mem'[p] = mem[p]
          BY <1>3, <4>1
        <4>3. mem \in [Cells -> Byte] /\ mem' \in [Cells -> Byte]
          BY <1>2 DEF Types, ChipTypes
        <4> QED BY <3>1, <4>2, <4>3
      <3>3. CASE ~Opened
        <4>1. pc = "poll" /\ at = 1
          BY <1>2, <2>4, <3>3 DEF Reached, Opened, Running, Types, CpuTypes
        <4>2. Underway
          BY <4>1 DEF EeInv, Follows, Running
        <4>3. CmdAt(at) = "START"
          BY <4>1, <4>2, CmdAtIs
        <4>4. job # "stop"
          BY <4>1, <4>3 DEF EeInv, Polls, Starts
        <4> QED BY <1>3, <3>1, <4>4
      <3> QED BY <3>2, <3>3
    <2>5. (Running /\ call.op = "write" =>
             \A p \in call.addr .. call.addr + Stored - 1 : mem[p] = Value(call, p))'
      <3>1. \A p : Value(call, p)' = Value(call, p)
        BY <1>1 DEF Value
      <3> QED BY <1>1, <1>5, <2>0, <2>3, <3>1
    <2>6. (Reached /\ call.op # "write" => mem = was.mem)'
      BY <1>1, <2>0, <2>4
    <2> QED BY <2>1, <2>2, <2>5, <2>6 DEF Programs
  <1>15. Ends'
    BY <1>1, <1>3 DEF EeInv, Ends
  <1> QED BY <1>2, <1>6, <1>7, <1>8, <1>9, <1>12, <1>13, <1>14, <1>15

-----------------------------------------------------------------------------
(* The engine performs the command at hand.                                *)

\* Which command stands where.
LEMMA CmdWhere ==
  ASSUME Underway, NEW k \in 1 .. Total
  PROVE  /\ CmdAt(k) \in Cmds
         /\ CmdAt(k) = "START" => k # Total /\ (k = 1 \/ (call.op # "write" /\ k = Written + 1))
         /\ CmdAt(k) = "WRITE" => /\ k # Total
                                  /\ k \in 2 .. Written \/ (call.op # "write" /\ k = Written + 2)
         /\ CmdAt(k) \in {"READ_ACK", "READ_NACK"} =>
              /\ k # Total /\ call.op # "write" /\ k \in Written + 3 .. Written + call.n + 2
              /\ CmdAt(k) = "READ_NACK" <=> k = Written + call.n + 2
         /\ CmdAt(k) = "STOP" => k = Total
  <1> DEFINE W == Written
             T == Total
             n == call.n
  <1>1. /\ W \in Nat /\ T \in Nat /\ (call.op = "write" => W >= 2 /\ T = W + 1)
        /\ (call.op # "write" => n \in Nat \ {0} /\ T = W + n + 3 /\ (W = 0 \/ W >= 2))
    BY Numbers DEF Total
  <1>2. CmdAt(k) = IF k = T THEN "STOP" ELSE IF k = 1 \/ k = W + 1 THEN "START"
                   ELSE IF k <= W + 2 THEN "WRITE"
                   ELSE IF k = T - 1 THEN "READ_NACK" ELSE "READ_ACK"
    BY DEF CmdAt
  <1> HIDE DEF W, T, n
  <1>3. k \in 1 .. T
    BY DEF T
  <1>4. CASE k = T
    BY <1>2, <1>4 DEF T, Cmds
  <1>5. CASE k # T /\ (k = 1 \/ k = W + 1)
    BY <1>1, <1>2, <1>3, <1>5 DEF T, W, Cmds
  <1>6. CASE k # T /\ k # 1 /\ k # W + 1 /\ k <= W + 2
    BY <1>1, <1>2, <1>3, <1>6 DEF T, W, Cmds
  <1>7. CASE k # T /\ k # 1 /\ k # W + 1 /\ ~(k <= W + 2)
    <2>1. call.op # "write" /\ k \in W + 3 .. W + n + 2 /\ (k = T - 1 <=> k = W + n + 2)
      BY <1>1, <1>3, <1>7
    <2> QED BY <1>2, <1>7, <2>1 DEF T, W, n, Cmds
  <1> QED BY <1>4, <1>5, <1>6, <1>7

\* One more byte of an address or of data goes to the chip.
LEMMA ReceivingStep ==
  ASSUME Underway, chip \in Chips, UNCHANGED Here,
         NEW j \in Nat, j + 3 <= Written, Receiving(j),
         NEW b \in Byte, b = ByteAt(j + 3), chip' = Taken(b)
  PROVE  Receiving(j + 1)'
  <1> DEFINE x == chip.width
             C == Chunk(call, written)
             A == MakeAddress(Target)
  <1>1. /\ x \in {1, 2} /\ Target \in Nat /\ Start \in Nat /\ Written \in Nat
        /\ call.op \in {"write", "read", "current"}
    BY Numbers
  <1>2. chip.mode = "receive" /\ chip'.width = x
    BY TakenIs DEF Receiving
  <1>3. /\ Start' = Start /\ Target' = Target /\ Chunk(call, written)' = C /\ call' = call
        /\ \A k : Data(k)' = Data(k)
    BY <1>2, SameScript DEF Here
  <1>4. \A p : Value(call, p)' = Value(call, p)
    BY <1>3 DEF Value
  <1>5. call.op # "current"
    BY <1>1, Numbers
  <1>6. CASE j < x
    <2>1. chip.need = x - j /\ chip.need > 0 /\ Data(j) = 0 /\ Data(j + 1) = 0
      BY <1>1, <1>6 DEF Receiving, Data
    <2>2. b = A[j + 1]
      <3>1. j + 3 \in 3 .. 2 + x /\ (j + 3) - 2 = j + 1
        BY <1>1, <1>6
      <3> QED BY <3>1, ByteAtIs
    <2>3. /\ chip'.mode = "receive" /\ chip'.page = chip.page /\ chip'.need = chip.need - 1
          /\ chip.need = 1 /\ x = 2 => chip'.ptr = (chip.ptr * Base + b) % Size
          /\ ~(chip.need = 1 /\ x = 2) => chip'.ptr = b % Size
      BY <1>2, <2>1, TakenAddress
    <2>4. chip'.need = IF j + 1 < x THEN x - (j + 1) ELSE 0
      BY <1>1, <1>6, <2>1, <2>3
    <2>5. j + 1 = 1 /\ x = 2 => chip'.ptr = (Target \div Base) % Size
      BY <2>1, <2>2, <2>3, AddressIs
    <2>6. j + 1 >= x => chip'.ptr = Target % Size
      <3>1. CASE x = 1
        BY <1>6, <2>1, <2>2, <2>3, <3>1, AddressIs
      <3>2. CASE x = 2 /\ j = 1
        <4>1. chip.ptr = (Target \div Base) % Size
          BY <3>2 DEF Receiving
        <4>2. b = Target % Base
          BY <2>2, <3>2, AddressIs
        <4>3. chip'.ptr = (chip.ptr * Base + b) % Size
          BY <2>1, <2>3, <3>2
        <4>4. (((Target \div Base) % Size) * Base + (Target % Base)) % Size = Target % Size
          BY <1>1, BytesOfAddress
        <4> QED BY <4>1, <4>2, <4>3, <4>4
      <3> QED BY <1>1, <1>6, <3>1, <3>2
    <2>7. call.op = "read" => Target = call.addr
      BY Numbers
    <2>8. call.op = "write" => Target = Start /\ Start % Size = Start /\ Start + 0 = Start
      <3>1. SUFFICES ASSUME call.op = "write"
                     PROVE  Target = Start /\ Start % Size = Start /\ Start + 0 = Start
        OBVIOUS
      <3>2. Target = Start /\ C \in Nat \ {0}
        BY <3>1, Numbers
      <3>3. Start + 0 \in Cells
        BY <3>1, <3>2, PieceIs
      <3>4. Start + 0 = Start
        BY <1>1
      <3> QED BY <1>1, <3>2, <3>3, <3>4, Wraps
    <2>9. /\ DOMAIN chip'.page = Start .. Start + Data(j + 1) - 1
          /\ \A p \in DOMAIN chip'.page : chip'.page[p] = Value(call, p)
      BY <2>1, <2>3 DEF Receiving
    <2>10. /\ j + 1 >= x /\ call.op = "read" => chip'.ptr = call.addr % Size
           /\ j + 1 >= x /\ call.op = "write" => chip'.ptr = Start + Data(j + 1)
      BY <2>1, <2>6, <2>7, <2>8
    <2> QED BY <1>2, <1>3, <1>4, <2>3, <2>4, <2>5, <2>9, <2>10 DEF Receiving
  <1>7. CASE j >= x
    <2> DEFINE d == j - x
    <2>1. call.op = "write" /\ d \in Nat /\ Data(j) = d /\ Data(j + 1) = d + 1
      <3>1. call.op = "read" => Written = 2 + x
        BY Numbers
      <3>2. call.op = "write"
        BY <1>1, <1>5, <1>7, <3>1
      <3> QED BY <1>1, <1>7, <3>2 DEF Data
    <2>2. C \in Nat \ {0} /\ d < C
      <3>1. C \in Nat \ {0}
        BY <2>1, Numbers
      <3>2. Written = 2 + x + C
        BY <1>1, <1>7, <2>1, <3>1 DEF Written
      <3> HIDE DEF C, x
      <3> QED BY <1>1, <2>1, <3>1, <3>2
    <2>3. chip.need = 0 /\ chip.ptr = Start + d
      BY <1>1, <1>7, <2>1, <2>2 DEF Receiving
    <2>4. b = Value(call, Start + d)
      <3>1. j + 3 \in 3 + x .. Written /\ (j + 3) - 2 - x = d + 1
        BY <1>1, <1>7
      <3>2. b = call.data[written + (d + 1)]
        BY <3>1, ByteAtIs
      <3>3. written + (d + 1) = (Start + d) - call.addr + 1
        <4>1. call.addr \in Nat /\ written \in Nat
          BY Numbers DEF Underway
        <4> HIDE DEF d
        <4> QED BY <2>1, <4>1 DEF Start
      <3> QED BY <3>2, <3>3 DEF Value
    <2>5. /\ chip'.mode = "receive" /\ chip'.need = 0 /\ chip'.ptr = NextInPage(Start + d)
          /\ DOMAIN chip'.page = DOMAIN chip.page \cup {Start + d}
          /\ chip'.page[Start + d] = b
          /\ \A p \in DOMAIN chip.page : p # Start + d => chip'.page[p] = chip.page[p]
      BY <1>2, <2>3, TakenData
    <2>6. DOMAIN chip.page = Start .. Start + d - 1
      BY <2>1 DEF Receiving
    <2>7. DOMAIN chip'.page = Start .. Start + (d + 1) - 1
      <3>1. (Start .. Start + d - 1) \cup {Start + d} = Start .. Start + (d + 1) - 1
        <4> HIDE DEF d
        <4> QED BY <1>1, <2>1
      <3> QED BY <2>5, <2>6, <3>1
    <2>8. \A p \in DOMAIN chip'.page : chip'.page[p] = Value(call, p)
      BY <2>4, <2>5 DEF Receiving
    <2>9. d + 1 < C => chip'.ptr = Start + (d + 1)
      BY <2>1, <2>5, PieceIs
    <2>10. ~(j + 1 < x) /\ ~(j + 1 = 1)
      BY <1>1, <1>7
    <2> QED BY <1>2, <1>3, <1>4, <2>1, <2>5, <2>7, <2>8, <2>9, <2>10 DEF Receiving
  <1> QED BY <1>1, <1>6, <1>7

\* What has been done after k commands, part by part.
LEMMA DidIs ==
  ASSUME Underway, NEW k \in 1 .. Total
  PROVE  /\ k = Total => (Did(k) <=> ~owned /\ Released /\ Landed)
         /\ k # Total /\ Did(k) => owned
         /\ k = 1 /\ Written >= 2 => (Did(k) <=> owned /\ Selected)
         /\ k \in 2 .. Written => (Did(k) <=> owned /\ Receiving(k - 2))
         /\ call.op # "write" =>
              /\ k = Written + 1 => (Did(k) <=> owned /\ Selected /\ chip.ptr = First % Size)
              /\ k \in Written + 2 .. Written + call.n + 1 =>
                   (Did(k) <=> owned /\ Sending(k - Written - 2))
              /\ k = Written + call.n + 2 => (Did(k) <=> owned /\ Released)
  <1> DEFINE W == Written
             T == Total
             n == call.n
  <1>1. /\ W \in Nat /\ T \in Nat /\ (call.op = "write" => W >= 2 /\ T = W + 1)
        /\ (call.op # "write" => n \in Nat \ {0} /\ T = W + n + 3 /\ (W = 0 \/ W >= 2))
    BY Numbers DEF Total
  <1>2. Did(k) <=> IF k = T THEN ~owned /\ Released /\ Landed
                   ELSE /\ owned
                        /\ IF k <= W THEN IF k = 1 THEN Selected ELSE Receiving(k - 2)
                           ELSE IF k = W + 1 THEN Selected /\ chip.ptr = First % Size
                           ELSE IF k < W + 2 + n THEN Sending(k - W - 2)
                           ELSE Released
    BY DEF Did
  <1> HIDE DEF W, T, n
  <1> QED BY <1>1, <1>2 DEF W, T, n

\* The same after a step of the hardware.
LEMMA DidNext ==
  ASSUME Underway, UNCHANGED Here, chip'.width = chip.width, NEW k \in 1 .. Total
  PROVE  /\ k = Total => (Did(k)' <=> ~owned' /\ Released' /\ Landed')
         /\ k = 1 /\ Written >= 2 => (Did(k)' <=> owned' /\ Selected')
         /\ k \in 2 .. Written => (Did(k)' <=> owned' /\ Receiving(k - 2)')
         /\ call.op # "write" =>
              /\ k = Written + 1 => (Did(k)' <=> owned' /\ Selected' /\ chip'.ptr = First % Size)
              /\ k \in Written + 2 .. Written + call.n + 1 =>
                   (Did(k)' <=> owned' /\ Sending(k - Written - 2)')
              /\ k = Written + call.n + 2 => (Did(k)' <=> owned' /\ Released')
  <1> DEFINE W == Written
             T == Total
             n == call.n
  <1>1. /\ W \in Nat /\ T \in Nat /\ (call.op = "write" => W >= 2 /\ T = W + 1)
        /\ (call.op # "write" => n \in Nat \ {0} /\ T = W + n + 3 /\ (W = 0 \/ W >= 2))
    BY Numbers DEF Total
  <1>2. Written' = W /\ Total' = T /\ call'.n = n /\ First' = First
    BY SameScript DEF Here
  <1>3. Did(k)' <=> IF k = Total' THEN ~owned' /\ Released' /\ Landed'
                    ELSE /\ owned'
                         /\ IF k <= Written' THEN IF k = 1 THEN Selected' ELSE Receiving(k - 2)'
                            ELSE IF k = Written' + 1 THEN Selected' /\ chip'.ptr = First' % Size
                            ELSE IF k < Written' + 2 + call'.n THEN Sending(k - Written - 2)'
                            ELSE Released'
    BY DEF Did
  <1> HIDE DEF W, T, n
  <1> QED BY <1>1, <1>2, <1>3 DEF W, T, n

\* What a call in its script knows of it.
LEMMA InScript ==
  ASSUME EeInv, pc # "idle"
  PROVE  /\ Underway /\ enable /\ ret = "none" /\ script = Script /\ at \in 1 .. Total
         /\ Types /\ Total \in Nat /\ Written \in Nat
  BY Numbers DEF EeInv, Follows, Running

LEMMA EngineStarts ==
  ASSUME EeInv, EngineStep, UNCHANGED cpuVars, pc = "poll", CmdAt(at) = "START"
  PROVE  Starts'
  <1>1. Underway /\ at \in 1 .. Total /\ Types /\ Written \in Nat
    BY InScript
  <1>2. /\ at' = at /\ call' = call /\ was' = was /\ UNCHANGED Here
    BY DEF cpuVars, Here
  <1>3. chip'.width = chip.width
    BY <1>1, EngineEffect DEF Types
  <1>4. at # Total /\ (at = 1 \/ (call.op # "write" /\ at = Written + 1))
    BY <1>1, CmdWhere
  <1>5. Starts
    BY DEF EeInv, Polls
  <1>6. CASE job \in {"start_wait", "restart"}
    <2>1. StartWait
      BY <1>6 DEF EngineStep, StartWait, StartEnds, WriteByte, WriteEnds, ReadByte, ReadEnds, StopEnds
    <2>0. chip \in Chips
      BY <1>1 DEF Types, ChipTypes
    <2>2. /\ job' = "start" /\ owned' = TRUE /\ stat' = {} /\ chip' = Selecting(chip)
          /\ chip \in Chips
      <3>1. stat = {}
        BY <1>5, <1>6 DEF Starts
      <3> QED BY <2>0, <2>1, <3>1 DEF StartWait
    <2>3. Selected' /\ chip'.ptr = chip.ptr
      BY <2>2, LetsGo DEF Selected, Empty
    <2>4. Did(at)'
      <3>1. CASE at = 1 /\ Written >= 2
        BY <1>1, <1>2, <1>3, <2>2, <2>3, <3>1, DidNext
      <3>2. CASE at = 1 /\ ~(Written >= 2)
        <4>1. call.op = "current" /\ Written = 0 /\ at = Written + 1 /\ First = was.ptr
          BY <1>1, <3>2, Numbers DEF First
        <4>2. chip.ptr = was.ptr /\ was.ptr \in Cells
          BY <1>1, <1>5, <1>6, <3>2, <4>1 DEF Starts, Types, CpuTypes
        <4>3. chip'.ptr = First % Size
          BY <2>3, <4>1, <4>2, Wraps, Bases
        <4> QED BY <1>1, <1>2, <1>3, <2>2, <2>3, <4>1, <4>3, DidNext
      <3>3. CASE at # 1
        <4>1. call.op = "read" /\ at = Written + 1 /\ Written = 2 + chip.width /\ chip.width \in {1, 2}
          BY <1>1, <1>4, <3>3, Numbers
        <4>2. Written \in 2 .. Written /\ Written \in 1 .. Total /\ at - 1 = Written
              /\ Written - 2 = chip.width /\ at > 1
          <5> DEFINE W == Written
                     T == Total
          <5>1. W \in Nat /\ T \in Nat /\ at \in 1 .. T /\ at = W + 1 /\ W = 2 + chip.width
            BY <1>1, <4>1, InScript
          <5> HIDE DEF W, T
          <5>2. W \in 2 .. W /\ W \in 1 .. T /\ at - 1 = W /\ W - 2 = chip.width /\ at > 1
            BY <4>1, <5>1
          <5> QED BY <5>2 DEF W, T
        <4>3. Did(Written)
          BY <1>1, <1>5, <1>6, <3>3, <4>2 DEF Starts
        <4>4. Receiving(Written - 2)
          BY <1>1, <4>2, <4>3, DidIs
        <4>5. chip.ptr = call.addr % Size /\ First = call.addr
          BY <4>1, <4>2, <4>4 DEF Receiving, First
        <4> QED BY <1>1, <1>2, <1>3, <2>2, <2>3, <4>1, <4>5, DidNext
      <3> QED BY <3>1, <3>2, <3>3
    <2> QED BY <1>2, <2>2, <2>4 DEF Starts
  <1>7. CASE job = "start"
    <2>1. StartEnds
      BY <1>7 DEF EngineStep, StartWait, StartEnds, WriteByte, WriteEnds, ReadByte, ReadEnds, StopEnds
    <2>2. job' = "idle" /\ stat' = {"DONE"} /\ owned' = owned /\ chip' = chip /\ Did(at)
      BY <1>5, <1>7, <2>1 DEF StartEnds, Finish, Starts
    <2>3. Did(at)'
      <3>1. CASE at = 1 /\ Written >= 2
        BY <1>1, <1>2, <1>3, <2>2, <3>1, DidNext, DidIs DEF Selected, Empty
      <3>2. CASE call.op # "write" /\ at = Written + 1
        BY <1>1, <1>2, <1>3, <2>2, <3>2, DidNext, DidIs DEF Selected, Empty
      <3>3. ~(Written >= 2) => call.op # "write" /\ Written = 0
        BY <1>1, Numbers
      <3> QED BY <1>1, <1>4, <3>1, <3>2, <3>3
    <2> QED BY <1>2, <2>2, <2>3 DEF Starts
  <1> QED BY <1>5, <1>6, <1>7, EngineEffect, <1>1 DEF Starts, Types


\* What does not touch the chip or the bus leaves what was done as it is.
LEMMA DidSame ==
  ASSUME UNCHANGED Here, chip' = chip, owned' = owned, mem' = mem
  PROVE  \A k : Did(k)' = Did(k)
  <1>1. /\ Written' = Written /\ Total' = Total /\ Start' = Start /\ First' = First
        /\ Target' = Target /\ Chunk(call, written)' = Chunk(call, written)
        /\ \A j : Data(j)' = Data(j)
    BY SameScript
  <1>2. call' = call /\ stage' = stage /\ written' = written
    BY DEF Here
  <1>3. \A p : Value(call, p)' = Value(call, p)
    BY <1>2 DEF Value
  <1>4. Landed' = Landed
    BY <1>1, <1>2, <1>3 DEF Landed
  <1>5. ASSUME NEW j PROVE Receiving(j)' = Receiving(j)
    BY <1>1, <1>2, <1>3 DEF Receiving
  <1>6. ASSUME NEW j PROVE Sending(j)' = Sending(j)
    BY <1>1 DEF Sending, Empty
  <1>7. Selected' = Selected /\ Released' = Released
    BY DEF Selected, Released, Empty
  <1>8. ASSUME NEW k PROVE Did(k)' = Did(k)
    BY <1>1, <1>2, <1>4, <1>5, <1>6, <1>7 DEF Did
  <1> QED BY <1>8

LEMMA EnginePuts ==
  ASSUME EeInv, EngineStep, UNCHANGED cpuVars, pc = "poll", CmdAt(at) = "WRITE"
  PROVE  Puts'
  <1>1. /\ Underway /\ at \in 1 .. Total /\ Types /\ Written \in Nat /\ Total \in Nat
        /\ call.op # "write" => Total = Written + call.n + 3 /\ call.n \in Nat \ {0}
    BY InScript, Numbers DEF Total
  <1>2. at' = at /\ call' = call /\ UNCHANGED Here
    BY DEF cpuVars, Here
  <1>3. chip'.width = chip.width /\ chip \in Chips /\ tx \in Byte
    BY <1>1, EngineEffect DEF Types, ChipTypes, BusTypes
  <1>4. at # Total /\ (at \in 2 .. Written \/ (call.op # "write" /\ at = Written + 2))
    BY <1>1, CmdWhere
  <1>5. Puts /\ job # "idle" /\ ByteAt(at)' = ByteAt(at)
    BY <1>1, <1>2, <1>3, EngineEffect, SameScript DEF EeInv, Polls, Types
  <1>6. at - 1 \in 1 .. Total /\ at - 1 # Total
    <2> DEFINE W == Written
               T == Total
    <2>1. T \in Nat /\ W \in Nat /\ at \in 1 .. T /\ (at \in 2 .. W \/ at = W + 2)
      BY <1>1, <1>4
    <2> HIDE DEF W, T
    <2>2. at - 1 \in 1 .. T /\ at - 1 # T
      BY <2>1
    <2> QED BY <2>2 DEF W, T
  <1>7. CASE job = "write"
    <2>1. WriteByte
      BY <1>7 DEF EngineStep, StartWait, StartEnds, WriteByte, WriteEnds, ReadByte, ReadEnds, StopEnds
    <2>2. stat = {} /\ tx = ByteAt(at) /\ Did(at - 1) /\ owned
      <3>1. stat = {} /\ tx = ByteAt(at) /\ Did(at - 1)
        BY <1>5, <1>7 DEF Puts
      <3> QED BY <1>1, <1>6, <3>1, DidIs
    <2>3. job' = "write_ack" /\ owned' /\ chip' = Taken(tx)
      BY <2>1, <2>2 DEF WriteByte
    <2>4. CASE ~Answers(tx)
      <3>1. "ACK_ERROR" \in stat'
        BY <2>1, <2>4 DEF WriteByte
      <3>2. Released'
        BY <1>3, <2>3, <2>4, TakenUnanswered, LetsGo DEF Released, Empty
      <3> QED BY <2>3, <3>1, <3>2 DEF Puts
    <2>5. CASE Answers(tx)
      <3>1. stat' = {}
        BY <2>1, <2>2, <2>5 DEF WriteByte
      <3>2. CASE at = 2 /\ Written >= 2
        <4>1. Selected
          BY <1>1, <1>6, <2>2, <3>2, DidIs
        <4>2. tx = 2 * call.dev /\ call.dev \in Nat /\ tx % 2 = 0
          BY <1>1, <2>2, <3>2, ByteAtIs, Numbers
        <4>3. chip'.mode = "receive" /\ chip'.need = chip.width /\ DOMAIN chip'.page = {}
          BY <1>3, <2>3, <2>5, <4>1, <4>2, TakenSelect DEF Selected, Empty
        <4>4. Receiving(0)'
          <5>1. chip.width \in {1, 2} /\ Start' = Start /\ Start \in Nat
            BY <1>1, <1>2, <1>3, Numbers, SameScript
          <5>2. Data(0)' = 0
            BY <1>3, <5>1 DEF Data
          <5>3. Start .. Start + 0 - 1 = {}
            BY <5>1
          <5> QED BY <1>3, <4>3, <5>1, <5>2, <5>3 DEF Receiving
        <4>5. at \in 2 .. Written /\ at - 2 = 0
          BY <1>1, <3>2
        <4> QED BY <1>1, <1>2, <1>3, <2>3, <3>1, <4>4, <4>5, DidNext DEF Puts
      <3>3. CASE at \in 3 .. Written
        <4> DEFINE j == at - 3
        <4>1. /\ j \in Nat /\ j + 3 = at /\ j + 3 <= Written /\ j + 1 = at - 2
              /\ at - 1 \in 2 .. Written /\ (at - 1) - 2 = j /\ at \in 2 .. Written
          BY <1>1, <3>3
        <4>2. Receiving(j)
          BY <1>1, <1>6, <2>2, <4>1, DidIs
        <4>3. Receiving(j + 1)'
          BY <1>1, <1>2, <1>3, <2>2, <2>3, <4>1, <4>2, ReceivingStep
        <4> QED BY <1>1, <1>2, <1>3, <2>3, <3>1, <4>1, <4>3, DidNext DEF Puts
      <3>4. CASE call.op # "write" /\ at = Written + 2
        <4>1. Selected /\ chip.ptr = First % Size
          <5>1. at - 1 = Written + 1
            BY <1>1, <3>4
          <5> QED BY <1>1, <1>6, <2>2, <3>4, <5>1, DidIs
        <4>2. tx = 2 * call.dev + 1 /\ call.dev \in Nat /\ tx % 2 = 1
          BY <1>1, <2>2, <3>4, ByteAtIs, Numbers
        <4>3. chip'.mode = "send" /\ chip'.ptr = chip.ptr /\ DOMAIN chip'.page = {}
          BY <1>3, <2>3, <2>5, <4>1, <4>2, TakenSelect DEF Selected, Empty
        <4>4. First \in Nat /\ First' = First /\ First + 0 = First
          <5>1. First \in Nat
            BY <1>1, Numbers, Bases DEF First, Types, CpuTypes
          <5> QED BY <1>2, <1>3, <5>1, SameScript
        <4>5. Sending(0)'
          BY <4>1, <4>3, <4>4 DEF Sending, Empty
        <4>6. at \in Written + 2 .. Written + call.n + 1 /\ at - Written - 2 = 0
          BY <1>1, <3>4
        <4>7. Sending(at - Written - 2)'
          <5>1. (at - Written - 2)' = 0
            BY <1>2, <1>3, <4>6, SameScript
          <5>2. chip'.ptr = (First + (at - Written - 2))' % Size
            BY <4>1, <4>3, <4>4, <5>1
          <5> QED BY <4>3, <5>2 DEF Sending, Empty
        <4>8. Did(at)'
          BY <1>1, <1>2, <1>3, <2>3, <3>4, <4>6, <4>7, DidNext
        <4> QED BY <1>2, <2>3, <3>1, <4>8 DEF Puts
      <3>5. at = 2 \/ at \in 3 .. Written \/ (call.op # "write" /\ at = Written + 2)
        BY <1>1, <1>4
      <3>6. at = 2 => Written >= 2 \/ (call.op # "write" /\ at = Written + 2)
        BY <1>1, <1>4
      <3> QED BY <3>2, <3>3, <3>4, <3>5, <3>6
    <2> QED BY <2>4, <2>5
  <1>8. CASE job = "write_ack"
    <2>1. WriteEnds
      BY <1>8 DEF EngineStep, StartWait, StartEnds, WriteByte, WriteEnds, ReadByte, ReadEnds, StopEnds
    <2>2. /\ job' = "idle" /\ stat' = stat \cup {"DONE"} /\ owned' = owned /\ chip' = chip
          /\ mem' = mem
      BY <2>1 DEF WriteEnds, Finish
    <2>3. CASE stat = {} /\ Did(at)
      BY <1>2, <2>2, <2>3, DidSame DEF Puts
    <2>4. CASE "ACK_ERROR" \in stat /\ owned /\ Released
      BY <2>2, <2>4 DEF Puts, Released, Empty
    <2> QED BY <1>5, <1>8, <2>3, <2>4 DEF Puts
  <1> QED BY <1>5, <1>7, <1>8 DEF Puts


LEMMA EngineGets ==
  ASSUME EeInv, EngineStep, UNCHANGED cpuVars, pc = "poll",
         CmdAt(at) \in {"READ_ACK", "READ_NACK"}
  PROVE  Gets'
  <1> DEFINE i == at - Written - 3
  <1>1. /\ Underway /\ at \in 1 .. Total /\ Types /\ Written \in Nat /\ Total \in Nat
        /\ call.op # "write" => Total = Written + call.n + 3 /\ call.n \in Nat \ {0}
    BY InScript, Numbers DEF Total
  <1>2. at' = at /\ call' = call /\ was' = was /\ UNCHANGED Here
    BY DEF cpuVars, Here
  <1>3. chip'.width = chip.width /\ chip \in Chips
    BY <1>1, EngineEffect DEF Types, ChipTypes
  <1>4. /\ at # Total /\ call.op # "write" /\ at \in Written + 3 .. Written + call.n + 2
        /\ CmdAt(at) = "READ_NACK" <=> at = Written + call.n + 2
    BY <1>1, CmdWhere
  <1>5. /\ Gets /\ job # "idle" /\ CmdAt(at)' = CmdAt(at)
        /\ Written' = Written /\ First' = First /\ First \in Nat
    <2>1. First \in Nat
      BY <1>1, Numbers, Bases DEF First, Types, CpuTypes
    <2> QED BY <1>1, <1>2, <1>3, <2>1, EngineEffect, SameScript DEF EeInv, Polls, Types
  <1>6. /\ at - 1 \in 1 .. Total /\ at - 1 \in Written + 2 .. Written + call.n + 1
        /\ (at - 1) - Written - 2 = i /\ i \in Nat
    BY <1>1, <1>4
  <1>7. job \in {"read", "read_ack"} /\ stat = {} /\ Did(at - 1) /\ (ackBit <=> CmdAt(at) = "READ_ACK")
    BY <1>5 DEF Gets
  <1>8. owned /\ Sending(i)
    BY <1>1, <1>4, <1>6, <1>7, DidIs
  <1>9. CASE job = "read"
    <2>1. ReadByte
      BY <1>9 DEF EngineStep, StartWait, StartEnds, WriteByte, WriteEnds, ReadByte, ReadEnds, StopEnds
    <2>2. /\ job' = "read_ack" /\ stat' = {} /\ owned' = owned /\ chip' = chip /\ mem' = mem
          /\ ackBit' = ackBit /\ rx' = mem[chip.ptr]
      BY <1>7, <1>8, <2>1 DEF ReadByte, Sending
    <2>3. mem = was.mem
      BY <1>4 DEF EeInv, Programs, Reached
    <2>4. Fetched'
      <3>1. First + i = First + at - Written - 3
        BY <1>1, <1>5
      <3>2. rx' = was.mem[(First + at - Written - 3) % Size]
        BY <1>8, <2>2, <2>3, <3>1 DEF Sending
      <3> QED BY <1>2, <1>5, <3>2 DEF Fetched
    <2>5. Did(at - 1)'
      <3>1. \A k : Did(k)' = Did(k)
        BY <1>2, <2>2, DidSame
      <3> QED BY <1>2, <1>7, <3>1
    <2>6. ackBit' <=> CmdAt(at)' = "READ_ACK"
      BY <1>5, <1>7, <2>2
    <2> QED BY <2>2, <2>4, <2>5, <2>6 DEF Gets
  <1>10. CASE job = "read_ack"
    <2>1. ReadEnds
      BY <1>10 DEF EngineStep, StartWait, StartEnds, WriteByte, WriteEnds, ReadByte, ReadEnds, StopEnds
    <2>2. /\ job' = "idle" /\ stat' = {"DONE"} /\ owned' = owned /\ rx' = rx
      BY <1>7, <2>1 DEF ReadEnds, Finish
    <2>3. Fetched'
      <3>1. Fetched
        BY <1>5, <1>10 DEF Gets
      <3> QED BY <1>2, <1>5, <2>2, <3>1 DEF Fetched
    <2>4. CASE CmdAt(at) = "READ_ACK"
      <3> DEFINE p == (chip.ptr + 1) % Size
      <3>1. chip' = [chip EXCEPT !.ptr = p]
        BY <1>7, <1>8, <2>1, <2>4 DEF ReadEnds, Sending
      <3>2. p = (First + (i + 1)) % Size
        <4> DEFINE f == First + i
        <4>1. f \in Nat /\ f + 1 = First + (i + 1) /\ Size \in Nat \ {0}
          BY <1>5, <1>6, Bases
        <4>2. chip.ptr = f % Size
          BY <1>8 DEF Sending
        <4> HIDE DEF f
        <4>3. ((f % Size) + 1) % Size = (f + 1) % Size
          BY <4>1, NextRemainder
        <4> QED BY <4>1, <4>2, <4>3
      <3> HIDE DEF p
      <3>3. chip'.mode = chip.mode /\ chip'.ptr = p /\ chip'.page = chip.page
        BY <1>3, <3>1 DEF Chips
      <3>4. at \in Written + 2 .. Written + call.n + 1 /\ at - Written - 2 = i + 1
        BY <1>1, <1>4, <2>4
      <3>5. Sending(at - Written - 2)'
        <4>1. chip'.ptr = (First + (at - Written - 2))' % Size
          BY <1>2, <1>5, <3>2, <3>3, <3>4
        <4> QED BY <1>8, <3>3, <4>1 DEF Sending, Empty
      <3>6. Did(at)'
        BY <1>1, <1>2, <1>3, <1>4, <1>8, <2>2, <3>4, <3>5, DidNext
      <3> QED BY <1>2, <2>2, <2>3, <3>6 DEF Gets
    <2>5. CASE CmdAt(at) = "READ_NACK"
      <3>1. chip' = Asleep(chip)
        BY <1>7, <1>8, <2>1, <2>5 DEF ReadEnds, Sending
      <3>2. Released'
        BY <1>3, <3>1, LetsGo DEF Released, Empty
      <3>3. Did(at)'
        BY <1>1, <1>2, <1>3, <1>4, <1>8, <2>2, <2>5, <3>2, DidNext
      <3> QED BY <1>2, <2>2, <2>3, <3>3 DEF Gets
    <2> QED BY <2>4, <2>5
  <1> QED BY <1>7, <1>9, <1>10

\* Before the last STOP the chip is not sending, and has all of the piece.
LEMMA BeforeStop ==
  ASSUME Underway, chip \in Chips, at = Total, Did(at - 1)
  PROVE  /\ owned /\ chip.mode # "send"
         /\ call.op # "write" => DOMAIN chip.page = {}
         /\ call.op = "write" /\ stage = "piece" =>
              /\ DOMAIN chip.page = Start .. Start + Chunk(call, written) - 1
              /\ \A p \in DOMAIN chip.page : chip.page[p] = Value(call, p)
  <1>1. /\ Written \in Nat /\ Total \in Nat /\ chip.width \in {1, 2}
        /\ call.op # "write" => Total = Written + call.n + 3 /\ call.n \in Nat \ {0}
        /\ call.op = "write" => Total = Written + 1 /\ Written >= 2
    BY Numbers DEF Total
  <1>2. CASE call.op # "write"
    <2>1. at - 1 \in 1 .. Total /\ at - 1 = Written + call.n + 2
      BY <1>1, <1>2
    <2>2. owned /\ Released
      BY <1>2, <2>1, DidIs
    <2> QED BY <1>2, <2>2 DEF Released, Empty
  <1>3. CASE call.op = "write"
    <2>1. at - 1 \in 1 .. Total /\ at - 1 \in 2 .. Written /\ at - 1 = Written
      BY <1>1, <1>3
    <2>2. owned /\ Receiving(Written - 2)
      BY <2>1, DidIs
    <2>3. stage = "piece" => Data(Written - 2) = Chunk(call, written)
      <3> DEFINE C == Chunk(call, written)
      <3>1. C \in Nat \ {0} /\ (stage = "piece" => Written = 2 + chip.width + C)
        BY <1>3, Numbers DEF Written
      <3> HIDE DEF C
      <3>2. stage = "piece" => Data(Written - 2) = C
        BY <1>1, <3>1 DEF Data
      <3> QED BY <3>2 DEF C
    <2> QED BY <1>3, <2>2, <2>3 DEF Receiving
  <1> QED BY <1>2, <1>3

LEMMA EngineCloses ==
  ASSUME EeInv, EngineStep, UNCHANGED cpuVars, pc = "poll", CmdAt(at) = "STOP"
  PROVE  Closes'
  <1>1. Underway /\ at \in 1 .. Total /\ Types
    BY InScript
  <1>2. at' = at /\ call' = call /\ stage' = stage /\ UNCHANGED Here
    BY DEF cpuVars, Here
  <1>3. chip'.width = chip.width /\ chip \in Chips
    BY <1>1, EngineEffect DEF Types, ChipTypes
  <1>4. at = Total
    BY <1>1, CmdWhere
  <1>5. job = "stop" /\ stat = {} /\ Did(at - 1)
    BY <1>1, EngineEffect DEF EeInv, Polls, Closes, Types
  <1>6. /\ owned /\ chip.mode # "send"
        /\ call.op = "write" /\ stage = "piece" =>
             /\ DOMAIN chip.page = Start .. Start + Chunk(call, written) - 1
             /\ \A p \in DOMAIN chip.page : chip.page[p] = Value(call, p)
    BY <1>1, <1>3, <1>4, <1>5, BeforeStop
  <1>7. StopEnds
    BY <1>5 DEF EngineStep, StartWait, StartEnds, WriteByte, WriteEnds, ReadByte, ReadEnds, StopEnds
  <1>8. /\ job' = "idle" /\ stat' = {"DONE"} /\ owned' = FALSE /\ chip' = Asleep(chip)
        /\ mem' = [p \in Cells |-> IF p \in DOMAIN chip.page THEN chip.page[p] ELSE mem[p]]
    BY <1>5, <1>6, <1>7 DEF StopEnds, Finish, SeesStop, PullsSda
  <1>9. Released'
    BY <1>3, <1>8, LetsGo DEF Released, Empty
  <1>10. Landed'
    <2>1. ASSUME call.op = "write", stage = "piece",
                 NEW p \in Start .. Start + Chunk(call, written) - 1
          PROVE  mem'[p] = Value(call, p)
      <3>1. p \in DOMAIN chip.page /\ p \in Cells
        BY <1>3, <1>6, <2>1, PageIs DEF Chips
      <3> QED BY <1>6, <1>8, <2>1, <3>1
    <2>2. Start' = Start /\ Chunk(call, written)' = Chunk(call, written)
      BY <1>2, <1>3, SameScript
    <2>3. \A p : Value(call, p)' = Value(call, p)
      BY <1>2 DEF Value
    <2> QED BY <1>2, <2>1, <2>2, <2>3 DEF Landed
  <1>11. Did(at)'
    BY <1>1, <1>2, <1>3, <1>4, <1>8, <1>9, <1>10, DidNext
  <1> QED BY <1>2, <1>8, <1>11 DEF Closes


LEMMA EngineInv ==
  ASSUME EeInv, EngineStep, UNCHANGED cpuVars
  PROVE  EeInv'
  <1>1. /\ call' = call /\ pc' = pc /\ at' = at /\ was' = was
        /\ gaveUp' = gaveUp /\ everGaveUp' = everGaveUp /\ UNCHANGED Here
    BY DEF cpuVars, Here
  <1>2. Types /\ job # "idle" /\ chip'.width = chip.width /\ chip \in Chips
    BY EngineEffect DEF EeInv, Types, ChipTypes
  <1>3. Polls'
    <2>1. CmdAt(at)' = CmdAt(at)
      BY <1>1, <1>2, SameScript
    <2>2. pc = "poll" /\ CmdAt(at) = "START" => Starts'
      BY EngineStarts
    <2>3. pc = "poll" /\ CmdAt(at) = "WRITE" => Puts'
      BY EnginePuts
    <2>4. pc = "poll" /\ CmdAt(at) \in {"READ_ACK", "READ_NACK"} => Gets'
      BY EngineGets
    <2>5. pc = "poll" /\ CmdAt(at) = "STOP" => Closes'
      BY EngineCloses
    <2> QED BY <1>1, <2>1, <2>2, <2>3, <2>4, <2>5 DEF Polls
  <1>4. Stops'
    <2>1. ASSUME pc = "stop", ~gaveUp PROVE job' = "idle" /\ owned' /\ Released'
      <3>1. job = "write_ack" /\ owned /\ Released
        BY <1>2, <2>1 DEF EeInv, Stops
      <3>2. WriteEnds
        BY <3>1 DEF EngineStep, StartWait, StartEnds, WriteByte, WriteEnds, ReadByte, ReadEnds, StopEnds
      <3> QED BY <3>1, <3>2 DEF WriteEnds, Finish, Released, Empty
    <2>2. ASSUME pc = "stopping", ~gaveUp PROVE job' = "idle" /\ ~owned' /\ Released'
      <3>1. job = "stop" /\ owned /\ Released
        BY <1>2, <2>2 DEF EeInv, Stops
      <3>2. StopEnds
        BY <3>1 DEF EngineStep, StartWait, StartEnds, WriteByte, WriteEnds, ReadByte, ReadEnds, StopEnds
      <3>3. chip' = Asleep(chip)
        BY <3>1, <3>2 DEF StopEnds, SeesStop, PullsSda, Released
      <3> QED BY <1>2, <3>2, <3>3, LetsGo DEF StopEnds, Finish, Released, Empty
    <2> QED BY <1>1, <2>1, <2>2 DEF Stops
  <1>5. Calm'
    <2>1. ASSUME ~everGaveUp, pc = "poll", at = 1, job \notin {"start", "idle"}
          PROVE  job' = "start"
      <3>1. job = "start_wait"
        BY <2>1 DEF EeInv, Calm
      <3> QED BY <3>1 DEF EngineStep, StartWait, StartEnds, WriteByte, WriteEnds, ReadByte, ReadEnds, StopEnds
    <2>2. ASSUME job = "start" PROVE job' = "idle"
      BY <2>2 DEF EngineStep, StartWait, StartEnds, WriteByte, WriteEnds, ReadByte, ReadEnds, StopEnds, Finish
    <2> QED BY <1>1, <1>2, <2>1, <2>2 DEF EeInv, Calm
  <1> QED BY <1>3, <1>4, <1>5, EngineKeeps DEF EeInv

\* The end of the chip's own cycle is seen by the next address byte only.
LEMMA CycleInv ==
  ASSUME EeInv, UNCHANGED <<engVars, chip, mem>>, cycling' \in BOOLEAN, UNCHANGED cpuVars
  PROVE  EeInv'
  <1>1. /\ call' = call /\ pc' = pc /\ script' = script /\ at' = at /\ got' = got
        /\ stage' = stage /\ written' = written /\ tries' = tries /\ ret' = ret
        /\ was' = was /\ gaveUp' = gaveUp /\ everGaveUp' = everGaveUp
        /\ enable' = enable /\ job' = job /\ stat' = stat /\ owned' = owned
        /\ tx' = tx /\ rx' = rx /\ ackBit' = ackBit /\ chip' = chip /\ mem' = mem
        /\ cycling' \in BOOLEAN /\ UNCHANGED Here
    BY DEF cpuVars, engVars, Here
  <1>2. /\ Written' = Written /\ Total' = Total /\ First' = First /\ Script' = Script
        /\ Underway' = Underway /\ Stored' = Stored
        /\ \A k : CmdAt(k)' = CmdAt(k) /\ ByteAt(k)' = ByteAt(k) /\ Did(k)' = Did(k)
    BY <1>1, SameScript, DidSame
  <1>3. Types'
    BY <1>1 DEF EeInv, Types, BusTypes, ChipTypes, CpuTypes
  <1>4. Follows' /\ Issues' /\ Collects'
    BY <1>1, <1>2 DEF EeInv, Follows, Running, Issues, Collects, Had
  <1>5. Polls'
    <2>1. Starts' = Starts /\ Puts' = Puts /\ Gets' = Gets /\ Closes' = Closes
      BY <1>1, <1>2 DEF Starts, Puts, Gets, Closes, Fetched, Released, Empty
    <2> QED BY <1>1, <1>2, <2>1 DEF EeInv, Polls
  <1>6. \A p, v : Belongs(p, v)' = Belongs(p, v) /\ MayHold(p, v)' = MayHold(p, v)
    BY <1>1 DEF Belongs, MayHold, Range, Value
  <1>7. Feeds' /\ Buffers' /\ Changes'
    BY <1>1 DEF EeInv, Feeds, Buffers, Changes, Belongs, MayHold, Range, Value
  <1>8. Programs'
    BY <1>1, <1>2 DEF EeInv, Programs, Reached, Opened, Running, Belongs, Range, Value
  <1>9. Stops' /\ Ends' /\ Calm'
    BY <1>1 DEF EeInv, Stops, Ends, Calm, Released, Empty, SuccessIsTrue, Range, Value
  <1> QED BY <1>3, <1>4, <1>5, <1>7, <1>8, <1>9 DEF EeInv


-----------------------------------------------------------------------------
(* A bus function ends.                                                    *)

Quiet == job = "idle" /\ ~owned /\ Released

\* Giving up is noted, and never forgotten.
Flags == /\ gaveUp' \in BOOLEAN /\ everGaveUp' \in BOOLEAN
         /\ \/ gaveUp' = gaveUp /\ everGaveUp' = everGaveUp
            \/ gaveUp' /\ everGaveUp'

\* What a call that reports success has done.
Worked ==
  IF call.op = "write" THEN \A p \in Range(call) : mem[p] = Value(call, p)
  ELSE got = [i \in 1 .. call.n |-> was.mem[(First + i - 1) % Size]]

\* The first m bytes of a write are in their cells.
Delivered(m) == \A p \in call.addr .. call.addr + m - 1 : mem[p] = Value(call, p)

LEMMA FlagsAre ==
  ASSUME EeInv, Flags
  PROVE  ~everGaveUp' => ~everGaveUp /\ ~gaveUp' /\ ~gaveUp
  BY DEF EeInv, Calm, Flags

\* The chip's part of the invariant, when only the CPU moves.
LEMMA ChipKept ==
  ASSUME EeInv, UNCHANGED <<busVars, was>>
  PROVE  /\ BusTypes' /\ ChipTypes' /\ Feeds' /\ Buffers' /\ Changes'
         /\ chip' = chip /\ mem' = mem /\ owned' = owned /\ job' = job /\ stat' = stat
         /\ rx' = rx /\ tx' = tx /\ ackBit' = ackBit /\ enable' = enable
         /\ Released' = Released
  <1>1. /\ chip' = chip /\ mem' = mem /\ owned' = owned /\ job' = job /\ stat' = stat
        /\ rx' = rx /\ tx' = tx /\ ackBit' = ackBit /\ enable' = enable
        /\ cycling' = cycling /\ was' = was
    BY DEF busVars, engVars
  <1>2. BusTypes' /\ ChipTypes'
    BY <1>1 DEF EeInv, Types, BusTypes, ChipTypes
  <1>3. Feeds' /\ Buffers' /\ Changes'
    BY <1>1 DEF EeInv, Feeds, Buffers, Changes, Belongs, MayHold, Range, Value
  <1> QED BY <1>1, <1>2, <1>3 DEF Released, Empty

LEMMA ReturnInv ==
  ASSUME EeInv, Running, NEW v \in {"true", "false"}, Return(v),
         UNCHANGED <<busVars, call, was>>, Flags,
         stage' \in {"piece", "ready"}, written' \in Nat, tries' \in Nat,
         v = "true" => job = "idle" /\ ~owned /\ Worked,
         ~gaveUp' => Quiet
  PROVE  EeInv'
  <1>1. /\ ret' = v /\ pc' = "idle" /\ script' = <<>> /\ at' = 1
        /\ got' = (IF v = "true" THEN got ELSE <<>>) /\ call' = call /\ was' = was
    BY DEF Return
  <1>2. /\ BusTypes' /\ ChipTypes' /\ Feeds' /\ Buffers' /\ Changes'
        /\ chip' = chip /\ mem' = mem /\ owned' = owned /\ job' = job /\ stat' = stat
        /\ Released' = Released
    BY ChipKept
  <1>3. CpuTypes'
    <2>1. got \in Seq(Byte) /\ got' \in Seq(Byte)
      BY <1>1 DEF EeInv, Types, CpuTypes
    <2> QED BY <1>1, <2>1 DEF EeInv, Types, CpuTypes, Flags
  <1>4. Follows' /\ Issues' /\ Polls' /\ Stops' /\ Collects'
    BY <1>1 DEF Follows, Running, Issues, Polls, Stops, Collects
  <1>5. Programs'
    BY <1>1 DEF Programs, Reached, Opened, Running
  <1>6. Ends'
    <2>1. ASSUME v = "true" PROVE SuccessIsTrue'
      <3>1. got' = got
        BY <1>1, <2>1
      <3>2. Range(call)' = Range(call) /\ \A p : Value(call, p)' = Value(call, p)
        BY <1>1 DEF Range, Value
      <3>3. CASE call.op = "write"
        BY <1>1, <1>2, <2>1, <3>2, <3>3 DEF SuccessIsTrue, Worked
      <3>4. CASE call.op # "write"
        BY <1>1, <1>2, <2>1, <3>1, <3>4 DEF SuccessIsTrue, Worked, First
      <3> QED BY <3>3, <3>4
    <2> QED BY <1>1, <1>2, <2>1 DEF Ends, Quiet
  <1>7. Calm'
    BY <1>1, <1>2, FlagsAre DEF Calm, Quiet, Released
  <1> QED BY <1>2, <1>3, <1>4, <1>5, <1>6, <1>7 DEF EeInv, Types

LEMMA WrittenIs == Underway => Written \in Nat
  BY Numbers

\* A script has a first command.
LEMMA FirstCommand == Underway => 1 \in 1 .. Total
  <1>1. SUFFICES ASSUME Underway PROVE 1 \in 1 .. Total
    OBVIOUS
  <1>2. /\ Written \in Nat /\ (call.op = "write" => Total = Written + 1)
        /\ (call.op # "write" => Total = Written + call.n + 3 /\ call.n \in Nat)
    BY <1>1, Numbers DEF Total
  <1> QED BY <1>2

LEMMA RunInv ==
  ASSUME EeInv, Running, Opened, call.op = "write",
         pc' = "issue", at' = 1, got' = <<>>, script' = Script',
         UNCHANGED <<busVars, call, was, ret>>, Flags,
         stage' \in {"piece", "ready"}, written' \in Nat, tries' \in Nat,
         stage' = "ready" \/ written' > 0, Underway', Delivered(Stored'),
         ~gaveUp' => Quiet
  PROVE  EeInv'
  <1>1. call' = call /\ was' = was /\ ret' = ret
    OBVIOUS
  <1>2. /\ BusTypes' /\ ChipTypes' /\ Feeds' /\ Buffers' /\ Changes'
        /\ chip' = chip /\ mem' = mem /\ owned' = owned /\ job' = job /\ stat' = stat
        /\ enable' = enable /\ Released' = Released
    BY ChipKept
  <1>3. CpuTypes'
    <2>1. got' \in Seq(Byte)
      OBVIOUS
    <2> QED BY <1>1, <2>1 DEF EeInv, Types, CpuTypes, Flags
  <1>4. Follows'
    <2>1. (Underway => 1 \in 1 .. Total)'
      BY FirstCommand, PTL
    <2> QED BY <1>1, <1>2, <2>1 DEF EeInv, Follows, Running
  <1>5. Issues' /\ Polls' /\ Stops' /\ Collects'
    BY <1>1 DEF Issues, Polls, Stops, Collects
  <1>6. Programs'
    <2>1. Running' /\ Opened' /\ Reached'
      BY DEF Opened, Reached, Running
    <2>2. was'.call = call'
      BY <1>1 DEF EeInv, Programs, Reached
    <2>3. (\A p \in DOMAIN chip.page : Belongs(p, chip.page[p]))'
      BY <1>1, <1>2 DEF EeInv, Programs, Belongs, Range, Value
    <2>4. (\A p \in call.addr .. call.addr + Stored - 1 : mem[p] = Value(call, p))'
      BY <1>1, <1>2 DEF Delivered, Value
    <2> QED BY <1>1, <2>1, <2>2, <2>3, <2>4 DEF Programs
  <1>7. Ends'
    BY <1>1 DEF EeInv, Ends, Follows
  <1>8. Calm'
    BY <1>2, FlagsAre DEF Calm, Quiet, Released
  <1> QED BY <1>2, <1>3, <1>4, <1>5, <1>6, <1>7, <1>8 DEF EeInv, Types


\* What the script has done when its STOP succeeded.
LEMMA AllDone ==
  ASSUME EeInv, pc = "poll", at = Total, job = "idle", Did(Total)
  PROVE  /\ Quiet /\ Landed
         /\ call.op # "write" => Worked
         /\ call.op = "write" => Delivered(written + Chunk(call, written))
  <1>1. Underway /\ at \in 1 .. Total /\ Types /\ Total \in Nat
    BY InScript
  <1>2. Quiet /\ Landed
    BY <1>1, DidIs DEF Quiet
  <1>3. ASSUME call.op # "write" PROVE Worked
    <2> DEFINE n == call.n
               A(x) == was.mem[(First + x - 1) % Size]
    <2>1. n \in Nat \ {0} /\ Written \in Nat /\ at = Written + n + 3
      BY <1>1, <1>3, Numbers DEF Total
    <2>2. Had = n
      BY <2>1 DEF Had
    <2>3. Len(got) = n /\ \A x \in 1 .. n : got[x] = A(x)
      BY <1>3, <2>2 DEF EeInv, Collects
    <2>4. got \in Seq(Byte)
      BY <1>1 DEF Types, CpuTypes
    <2> HIDE DEF n, A
    <2>5. got = [x \in 1 .. n |-> A(x)]
      BY <2>3, <2>4
    <2> QED BY <1>3, <2>5 DEF Worked, n, A
  <1>4. ASSUME call.op = "write",
               NEW p \in call.addr .. call.addr + (written + Chunk(call, written)) - 1
        PROVE  mem[p] = Value(call, p)
    <2> DEFINE C == Chunk(call, written)
    <2>0. C \in Nat \ {0} /\ call.addr \in Nat /\ written \in Nat /\ Start = call.addr + written
      BY <1>1, <1>4, Numbers DEF Start, Underway
    <2>1. CASE stage = "piece"
      <3>1. CASE p < Start
        <4>1. Stored = written + 0
          BY <2>1 DEF Stored
        <4> HIDE DEF C
        <4>2. p \in call.addr .. call.addr + Stored - 1
          BY <1>4, <2>0, <3>1, <4>1 DEF C
        <4> QED BY <1>4, <4>2 DEF EeInv, Programs, Running
      <3>2. CASE ~(p < Start)
        <4>1. p \in Start .. Start + C - 1
          <5> HIDE DEF C
          <5> QED BY <1>4, <2>0, <3>2 DEF C
        <4> QED BY <1>2, <1>4, <2>1, <4>1 DEF Landed
      <3> QED BY <3>1, <3>2
    <2>2. CASE stage # "piece"
      <3>1. Stored = written + C
        BY <1>1, <2>2 DEF Stored, Types, CpuTypes
      <3> HIDE DEF C
      <3>2. p \in call.addr .. call.addr + Stored - 1
        BY <1>4, <2>0, <3>1 DEF C
      <3> QED BY <1>4, <3>2 DEF EeInv, Programs, Running
    <2> QED BY <2>1, <2>2
  <1> QED BY <1>2, <1>3, <1>4 DEF Delivered

LEMMA FunctionEndsInv ==
  ASSUME EeInv, Running, NEW ok \in BOOLEAN, FunctionEnds(ok),
         UNCHANGED <<busVars, call, was>>, Flags,
         ok => pc = "poll" /\ at = Total /\ job = "idle" /\ Did(Total),
         ~gaveUp' => Quiet
  PROVE  EeInv'
  <1>1. /\ Underway /\ at \in 1 .. Total /\ Types /\ Total \in Nat
        /\ call.op \in {"write", "read", "current"}
        /\ stage \in {"piece", "ready"} /\ written \in Nat /\ tries \in Nat
    BY InScript, Numbers DEF Running, Types, CpuTypes
  <1>2. call' = call /\ was' = was /\ chip' = chip
    BY DEF busVars
  <1>3. ok => /\ Quiet /\ Landed
              /\ call.op # "write" => Worked
              /\ call.op = "write" => Delivered(written + Chunk(call, written))
    BY AllDone
  <1>4. CASE call.op # "write"
    <2> DEFINE v == IF ok THEN "true" ELSE "false"
    <2>1. Return(v) /\ UNCHANGED <<stage, written, tries>>
      BY <1>4 DEF FunctionEnds
    <2>2. v \in {"true", "false"} /\ (v = "true" => ok)
      OBVIOUS
    <2> HIDE DEF v
    <2> QED BY <1>1, <1>3, <1>4, <2>1, <2>2, ReturnInv DEF Quiet
  <1>5. ASSUME Return("false"), UNCHANGED <<stage, written, tries>> PROVE EeInv'
    <2>1. "false" \in {"true", "false"} /\ "false" # "true"
      OBVIOUS
    <2> QED BY <1>1, <1>5, <2>1, ReturnInv
  <1>6. CASE call.op = "write" /\ stage = "piece" /\ ok
    <2>1. PollChip
      BY <1>6 DEF FunctionEnds
    <2>2. /\ stage' = "ready" /\ tries' = 0 /\ written' = written /\ ret' = ret
          /\ script' = I2cWrite(call.dev, <<>>) /\ at' = 1 /\ got' = <<>> /\ pc' = "issue"
      BY <2>1 DEF PollChip, Run
    <2>3. script' = Script'
      BY <1>2, <1>6, <2>2 DEF Script, I2cWrite, Cmd, Writes
    <2>4. Underway'
      BY <1>1, <1>2, <1>6, <2>2 DEF Underway, Accepted, Addressable, InsideChip, Start
    <2>5. Opened
      <3>1. at > 1
        <4>1. Written \in Nat /\ Written >= 2 /\ at = Written + 1
          BY <1>1, <1>6, Numbers DEF Total
        <4> QED BY <4>1
      <3> QED BY <1>6, <3>1 DEF Opened
    <2>6. Delivered(Stored')
      <3>1. Stored' = written + Chunk(call, written)
        BY <1>2, <2>2 DEF Stored, Chunk
      <3> QED BY <1>3, <1>6, <3>1
    <2>7. tries' \in Nat /\ stage' \in {"piece", "ready"} /\ written' \in Nat
      BY <1>1, <2>2
    <2> QED BY <1>2, <1>6, <2>2, <2>3, <2>4, <2>5, <2>6, <2>7, RunInv
  <1>7. CASE call.op = "write" /\ stage = "ready" /\ ok
    <2> DEFINE w == written + Chunk(call, written)
               l == Len(call.data)
    <2>1. /\ NextPiece /\ call.addr \in Nat /\ w \in Nat /\ w > 0 /\ w <= l /\ l \in Nat
      <3> DEFINE C == Chunk(call, written)
      <3>1. /\ C \in Nat \ {0} /\ written + C <= Len(call.data) /\ call.addr \in Nat
            /\ call.data \in Seq(Byte)
        BY <1>1, <1>7, Numbers
      <3>2. l \in Nat
        BY <3>1
      <3> HIDE DEF C, l
      <3>3. written + C \in Nat /\ written + C > 0
        BY <1>1, <3>1
      <3> QED BY <1>7, <3>1, <3>2, <3>3 DEF FunctionEnds, C, l
    <2>2. written' = w /\ stage' = "piece" /\ tries' = 0
      BY <2>1 DEF NextPiece
    <2>3. Delivered(w)
      BY <1>3, <1>7
    <2>4. CASE w = l
      <3>1. Return("true")
        BY <2>1, <2>4 DEF NextPiece
      <3>2. Worked
        BY <1>7, <2>3, <2>4 DEF Worked, Range, Delivered
      <3>3. "true" \in {"true", "false"} /\ job = "idle" /\ ~owned
        BY <1>3, <1>7 DEF Quiet
      <3> HIDE DEF w
      <3>4. stage' \in {"piece", "ready"} /\ written' \in Nat /\ tries' \in Nat
        BY <2>1, <2>2
      <3> QED BY <3>1, <3>2, <3>3, <3>4, ReturnInv
    <2>5. CASE w # l /\ ~Addressable(call.addr + w)
      <3>1. Return("false")
        BY <2>1, <2>5 DEF NextPiece
      <3> HIDE DEF w
      <3>2. stage' \in {"piece", "ready"} /\ written' \in Nat /\ tries' \in Nat
        BY <2>1, <2>2
      <3>3. "false" \in {"true", "false"} /\ "false" # "true"
        OBVIOUS
      <3> QED BY <3>1, <3>2, <3>3, ReturnInv
    <2>6. CASE w # l /\ Addressable(call.addr + w)
      <3>1. Run(Piece(call, w)) /\ UNCHANGED ret
        BY <2>1, <2>6 DEF NextPiece
      <3> HIDE DEF w
      <3>2. /\ script' = Piece(call, w) /\ at' = 1 /\ got' = <<>> /\ pc' = "issue" /\ ret' = ret
            /\ written' \in Nat /\ written' > 0 /\ tries' \in Nat /\ stage' \in {"piece", "ready"}
        BY <2>1, <2>2, <3>1 DEF Run
      <3>3. script' = Script'
        BY <1>2, <1>7, <2>2, <3>2
           DEF Script, Piece, I2cWrite, Cmd, Writes, MakeAddress, Chunk
      <3>4. Underway'
        <4>1. w < l
          BY <2>1, <2>6
        <4> HIDE DEF l
        <4>2. Accepted(call)' /\ InsideChip(call)' /\ Addressable(Start)'
          BY <1>1, <1>2, <2>2, <2>6 DEF Underway, Accepted, Addressable, InsideChip, Start
        <4> QED BY <1>1, <1>2, <1>7, <2>2, <3>2, <4>1, <4>2 DEF Underway, l
      <3>5. Opened
        BY <1>7 DEF Opened
      <3>6. Delivered(Stored')
        <4>1. Stored' = w
          <5>1. Stored' = w + 0
            BY <2>2 DEF Stored
          <5> QED BY <2>1, <5>1
        <4> QED BY <2>3, <4>1
      <3> QED BY <1>2, <1>7, <3>2, <3>3, <3>4, <3>5, <3>6, RunInv
    <2> QED BY <2>4, <2>5, <2>6
  <1>8. CASE call.op = "write" /\ stage = "ready" /\ ~ok /\ tries + 1 < Attempts
    <2>1. PollAgain
      BY <1>8 DEF FunctionEnds
    <2>2. /\ stage' = stage /\ tries' = tries + 1 /\ written' = written /\ ret' = ret
          /\ script' = I2cWrite(call.dev, <<>>) /\ at' = 1 /\ got' = <<>> /\ pc' = "issue"
      BY <2>1 DEF PollAgain, Run
    <2>3. script' = Script'
      BY <1>2, <1>8, <2>2 DEF Script, I2cWrite, Cmd, Writes
    <2>4. Underway'
      BY <1>1, <1>2, <2>2 DEF Underway, Accepted, Addressable, InsideChip, Start
    <2>5. Opened
      BY <1>8 DEF Opened
    <2>6. Delivered(Stored')
      <3>1. Stored' = Stored
        BY <1>2, <2>2 DEF Stored, Chunk
      <3>2. Delivered(Stored)
        BY <1>8 DEF EeInv, Programs, Delivered
      <3> QED BY <3>1, <3>2
    <2>7. tries' \in Nat /\ stage' \in {"piece", "ready"} /\ written' \in Nat
      BY <1>1, <2>2
    <2> QED BY <1>2, <1>8, <2>2, <2>3, <2>4, <2>5, <2>6, <2>7, RunInv
  <1>9. CASE call.op = "write" /\ ~ok /\ ~(stage = "ready" /\ tries + 1 < Attempts)
    <2>1. Return("false") /\ UNCHANGED <<stage, written, tries>>
      BY <1>9 DEF FunctionEnds
    <2> QED BY <1>5, <2>1
  <1> QED BY <1>1, <1>4, <1>6, <1>7, <1>8, <1>9


\* A command that failed, or was given up.
LEMMA CommandFailedInv ==
  ASSUME EeInv, pc \in {"issue", "poll"}, CommandFailed,
         UNCHANGED <<busVars, call, was>>, Flags,
         ~gaveUp' => /\ at \notin {1, Total} /\ job \in {"write_ack", "idle"}
                     /\ owned /\ Released
  PROVE  EeInv'
  <1>1. /\ Underway /\ at \in 1 .. Total /\ Types /\ Total \in Nat /\ Running
        /\ script = Script
    BY InScript DEF Running
  <1>2. Len(script) = Total
    BY <1>1, ScriptIs DEF Shaped
  <1>3. CASE at \in {1, Total}
    <2>1. FunctionEnds(FALSE)
      BY <1>2, <1>3 DEF CommandFailed
    <2>2. gaveUp'
      BY <1>3 DEF Flags
    <2> QED BY <1>1, <2>1, <2>2, FunctionEndsInv
  <1>4. CASE at \notin {1, Total}
    <2>1. /\ pc' = "stop" /\ script' = script /\ at' = at /\ got' = got /\ stage' = stage
          /\ written' = written /\ tries' = tries /\ ret' = ret /\ call' = call /\ was' = was
      BY <1>2, <1>4 DEF CommandFailed
    <2>2. /\ BusTypes' /\ ChipTypes' /\ Feeds' /\ Buffers' /\ Changes'
          /\ chip' = chip /\ mem' = mem /\ owned' = owned /\ job' = job /\ stat' = stat
          /\ enable' = enable /\ Released' = Released
      BY ChipKept
    <2>3. CpuTypes'
      BY <1>1, <2>1 DEF Types, CpuTypes, Flags
    <2>4. /\ Total' = Total /\ Script' = Script /\ Underway' = Underway /\ Stored' = Stored
      BY <2>1, <2>2, SameScript DEF Here
    <2>5. Follows'
      BY <1>1, <2>1, <2>2, <2>4 DEF EeInv, Follows, Running
    <2>6. Issues' /\ Polls' /\ Collects'
      BY <2>1 DEF Issues, Polls, Collects
    <2>7. Stops'
      BY <1>4, <2>1, <2>2 DEF Stops
    <2>8. Programs'
      <3>1. Running' /\ (Reached' => Reached) /\ (Opened' => Opened)
        <4>1. at > 1
          BY <1>1, <1>4
        <4> QED BY <1>1, <2>1, <4>1 DEF Opened, Reached, Running
      <3>2. (Reached => was.call = call)' /\ (Reached /\ call.op # "write" => mem = was.mem)'
        BY <2>1, <2>2, <3>1 DEF EeInv, Programs
      <3>3. (Opened => \A p \in DOMAIN chip.page : Belongs(p, chip.page[p]))'
        BY <2>1, <2>2, <3>1 DEF EeInv, Programs, Belongs, Range, Value
      <3>4. (call.op = "write" =>
               \A p \in call.addr .. call.addr + Stored - 1 : mem[p] = Value(call, p))'
        BY <1>1, <2>1, <2>2, <2>4 DEF EeInv, Programs, Value
      <3> QED BY <3>2, <3>3, <3>4 DEF Programs
    <2>9. Ends'
      BY <1>1, <2>1 DEF EeInv, Ends, Follows
    <2>10. Calm'
      BY <2>1, FlagsAre DEF Calm
    <2> QED BY <2>2, <2>3, <2>5, <2>6, <2>7, <2>8, <2>9, <2>10 DEF EeInv, Types
  <1> QED BY <1>3, <1>4

\* The commands up to the device address of a read bring no data.
LEMMA NotRead ==
  ASSUME Underway, call.op # "write", NEW k \in 1 .. Total, k # Total,
         CmdAt(k) \notin {"READ_ACK", "READ_NACK"}
  PROVE  k <= Written + 2
  <1> DEFINE W == Written
             T == Total
             n == call.n
  <1>1. W \in Nat /\ T \in Nat /\ n \in Nat \ {0} /\ T = W + n + 3
    BY Numbers DEF Total
  <1>2. CmdAt(k) = IF k = T THEN "STOP" ELSE IF k = 1 \/ k = W + 1 THEN "START"
                   ELSE IF k <= W + 2 THEN "WRITE"
                   ELSE IF k = T - 1 THEN "READ_NACK" ELSE "READ_ACK"
    BY DEF CmdAt
  <1> HIDE DEF W, T, n
  <1>3. k \in 1 .. T /\ k # T
    BY DEF T
  <1>4. k <= W + 2
    BY <1>1, <1>2, <1>3
  <1> QED BY <1>4 DEF W

\* A command that succeeded.
LEMMA CommandDoneInv ==
  ASSUME EeInv, pc = "poll", stat = {"DONE"}, CommandDone,
         UNCHANGED <<busVars, call, was, gaveUp, everGaveUp>>
  PROVE  EeInv'
  <1>1. /\ Underway /\ at \in 1 .. Total /\ Types /\ Total \in Nat /\ Written \in Nat
        /\ Running /\ script = Script
        /\ call.op # "write" => Total = Written + call.n + 3 /\ call.n \in Nat \ {0}
    BY InScript, Numbers DEF Running, Total
  <1>2. Len(script) = Total /\ script[at].cmd = CmdAt(at)
    BY <1>1, ScriptIs DEF Shaped
  <1>3. /\ CmdAt(at) \in Cmds
        /\ CmdAt(at) \in {"READ_ACK", "READ_NACK"} => call.op # "write" /\ at >= Written + 3
    BY <1>1, CmdWhere
  <1>4. job = "idle" /\ Did(at) /\ (CmdAt(at) \in {"READ_ACK", "READ_NACK"} => Fetched)
    <2>1. CASE CmdAt(at) = "START"
      BY <2>1 DEF EeInv, Polls, Starts
    <2>2. CASE CmdAt(at) = "WRITE"
      BY <2>2 DEF EeInv, Polls, Puts
    <2>3. CASE CmdAt(at) \in {"READ_ACK", "READ_NACK"}
      BY <2>3 DEF EeInv, Polls, Gets
    <2>4. CASE CmdAt(at) = "STOP"
      BY <2>4 DEF EeInv, Polls, Closes
    <2> QED BY <1>3, <2>1, <2>2, <2>3, <2>4 DEF Cmds
  <1>5. Flags /\ (~gaveUp' => ~gaveUp)
    BY <1>1 DEF Flags, Types, CpuTypes
  <1>6. CASE at = Total
    <2>1. FunctionEnds(TRUE)
      BY <1>2, <1>6 DEF CommandDone
    <2>2. Quiet
      BY <1>1, <1>4, <1>6, DidIs DEF Quiet
    <2>3. UNCHANGED <<busVars, call, was>>
      OBVIOUS
    <2> QED BY <1>1, <1>4, <1>5, <1>6, <2>1, <2>2, <2>3, FunctionEndsInv
  <1>7. CASE at # Total
    <2>1. /\ pc' = "issue" /\ script' = script /\ at' = at + 1 /\ stage' = stage
          /\ got' = (IF CmdAt(at) \in {"READ_ACK", "READ_NACK"} THEN Append(got, rx) ELSE got)
          /\ written' = written /\ tries' = tries /\ ret' = ret /\ call' = call /\ was' = was
      BY <1>2, <1>7 DEF CommandDone
    <2>2. /\ BusTypes' /\ ChipTypes' /\ Feeds' /\ Buffers' /\ Changes'
          /\ chip' = chip /\ mem' = mem /\ owned' = owned /\ job' = job /\ stat' = stat
          /\ enable' = enable
      BY ChipKept
    <2>3. /\ Total' = Total /\ Script' = Script /\ Underway' = Underway /\ Stored' = Stored
          /\ Written' = Written /\ First' = First /\ UNCHANGED Here
      BY <2>1, <2>2, SameScript DEF Here
    <2>4. got \in Seq(Byte) /\ rx \in Byte
      BY <1>1 DEF Types, CpuTypes, BusTypes
    <2>5. CpuTypes'
      <3>1. got' \in Seq(Byte)
        BY <2>1, <2>4
      <3>2. at' \in Nat \ {0}
        BY <1>1, <2>1
      <3> QED BY <1>1, <2>1, <3>1, <3>2 DEF Types, CpuTypes
    <2>6. at + 1 \in 1 .. Total /\ at + 1 > 1 /\ (at + 1) - 1 = at
      BY <1>1, <1>7
    <2>7. Follows'
      BY <1>1, <2>1, <2>2, <2>3, <2>6 DEF EeInv, Follows, Running
    <2>8. Issues'
      <3>1. \A k : Did(k)' = Did(k)
        BY <2>2, <2>3, DidSame
      <3>2. (at - 1)' = at
        BY <2>1, <2>6
      <3>3. Did(at - 1)'
        BY <1>4, <3>1, <3>2
      <3> QED BY <1>4, <2>1, <2>2, <3>3 DEF Issues
    <2>9. Polls' /\ Stops'
      BY <2>1 DEF Polls, Stops
    <2>10. Collects'
      <3> DEFINE A(x) == was.mem[(First + x - 1) % Size]
                 W == Written
      <3>1. SUFFICES ASSUME call.op # "write"
                     PROVE  Len(got') = Had' /\ \A x \in 1 .. Had' : got'[x] = A(x)
        BY <2>1, <2>3 DEF Collects
      <3>2. Len(got) = Had /\ \A x \in 1 .. Had : got[x] = A(x)
        BY <3>1 DEF EeInv, Collects
      <3>3. Had = (IF at <= W + 3 THEN 0 ELSE at - W - 3)
            /\ Had' = (IF at + 1 <= W + 3 THEN 0 ELSE at + 1 - W - 3)
        <4>1. at' = at + 1 /\ Written' = Written /\ at \in Nat /\ Written \in Nat
          BY <1>1, <2>1, <2>3
        <4> HIDE DEF A
        <4> QED BY <4>1 DEF Had
      <3>4. CASE CmdAt(at) \in {"READ_ACK", "READ_NACK"}
        <4>1. at >= W + 3 /\ Fetched
          BY <1>3, <1>4, <3>4
        <4> DEFINE h == at - W - 3
        <4>2. W \in Nat /\ at \in Nat /\ First \in Nat
          BY <1>1, Numbers, Bases DEF First, Types, CpuTypes
        <4> HIDE DEF W
        <4>3. Had = h /\ Had' = h + 1 /\ h \in Nat
          BY <3>3, <4>1, <4>2
        <4>4. rx = A(h + 1)
          <5>1. First + (h + 1) - 1 = First + at - W - 3
            BY <4>2
          <5> QED BY <4>1, <5>1 DEF Fetched, W
        <4>5. got' = Append(got, rx)
          BY <2>1, <3>4
        <4> HIDE DEF A, h
        <4>6. Len(got') = h + 1 /\ got'[h + 1] = rx /\ \A x \in 1 .. h : got'[x] = got[x]
          BY <2>4, <3>2, <4>3, <4>5
        <4>7. \A x \in 1 .. h + 1 : got'[x] = A(x)
          BY <3>2, <4>3, <4>4, <4>6
        <4> QED BY <4>3, <4>6, <4>7
      <3>5. CASE CmdAt(at) \notin {"READ_ACK", "READ_NACK"}
        <4>1. got' = got
          BY <2>1, <3>5
        <4>2. at <= W + 2
          BY <1>1, <1>7, <3>1, <3>5, NotRead
        <4> HIDE DEF W, A
        <4>3. Had' = Had
          BY <1>1, <3>3, <4>2 DEF W
        <4> QED BY <3>2, <4>1, <4>3
      <3> QED BY <3>4, <3>5
    <2>11. Programs'
      <3>1. was.call = call /\ Running' /\ (call.op # "write" => mem = was.mem) /\ Reached
        BY <1>1, <2>1 DEF EeInv, Programs, Reached, Running
      <3>2. \A p \in DOMAIN chip.page : Belongs(p, chip.page[p])
        <4>1. CASE Opened
          BY <4>1 DEF EeInv, Programs
        <4>2. CASE ~Opened
          <5>1. at = 1
            BY <1>1, <4>2 DEF Opened
          <5>2. Selected
            <6>1. Written >= 2 \/ (call.op # "write" /\ Written = 0)
              BY <1>1, Numbers
            <6> QED BY <1>1, <1>4, <5>1, <6>1, DidIs
          <5> QED BY <5>2 DEF Selected, Empty
        <4> QED BY <4>1, <4>2
      <3>3. (Opened => \A p \in DOMAIN chip.page : Belongs(p, chip.page[p]))'
        BY <2>1, <2>2, <3>2 DEF Belongs, Range, Value
      <3>4. (call.op = "write" =>
               \A p \in call.addr .. call.addr + Stored - 1 : mem[p] = Value(call, p))'
        BY <1>1, <2>1, <2>2, <2>3 DEF EeInv, Programs, Value
      <3> QED BY <2>1, <2>2, <3>1, <3>3, <3>4 DEF Programs
    <2>12. Ends'
      BY <1>1, <2>1 DEF EeInv, Ends, Follows
    <2>13. Calm'
      BY <2>1, <2>6 DEF EeInv, Calm
    <2> QED BY <2>2, <2>5, <2>7, <2>8, <2>9, <2>10, <2>11, <2>12, <2>13 DEF EeInv, Types
  <1> QED BY <1>6, <1>7


\* The bits of STATUS end the wait, or the budget does.
LEMMA PollInv ==
  ASSUME EeInv, Poll
  PROVE  EeInv'
  <1>1. /\ pc = "poll" /\ stat # {} /\ UNCHANGED <<busVars, call, was, gaveUp, everGaveUp>>
        /\ UNCHANGED <<busVars, call, was>> /\ gaveUp' = gaveUp /\ everGaveUp' = everGaveUp
    BY DEF Poll
  <1>2. Underway /\ at \in 1 .. Total /\ Types
    BY <1>1, InScript
  <1>3. CASE stat = {"DONE"}
    BY <1>1, <1>3, CommandDoneInv DEF Poll
  <1>4. CASE stat # {"DONE"}
    <2>1. CommandFailed
      BY <1>4 DEF Poll
    <2>2. CmdAt(at) = "WRITE" /\ job \in {"write_ack", "idle"} /\ owned /\ Released
      <3>1. CmdAt(at) \in Cmds
        BY <1>2, CmdWhere
      <3>2. CmdAt(at) # "START" /\ CmdAt(at) # "STOP" /\ CmdAt(at) \notin {"READ_ACK", "READ_NACK"}
        BY <1>1, <1>4 DEF EeInv, Polls, Starts, Gets, Closes
      <3>3. CmdAt(at) = "WRITE"
        BY <3>1, <3>2 DEF Cmds
      <3> QED BY <1>1, <1>4, <3>3 DEF EeInv, Polls, Puts
    <2>3. at \notin {1, Total}
      <3>1. at # Total /\ CmdAt(1) = "START"
        BY <1>2, <2>2, CmdWhere, CmdAtIs
      <3> QED BY <2>2, <3>1
    <2>4. Flags
      BY <1>1, <1>2 DEF Flags, Types, CpuTypes
    <2> QED BY <1>1, <2>1, <2>2, <2>3, <2>4, CommandFailedInv
  <1> QED BY <1>3, <1>4

LEMMA PollStopInv ==
  ASSUME EeInv, PollStop
  PROVE  EeInv'
  <1>1. /\ pc = "stopping" /\ stat # {} /\ FunctionEnds(FALSE)
        /\ UNCHANGED <<busVars, call, was>> /\ gaveUp' = gaveUp /\ everGaveUp' = everGaveUp
    BY DEF PollStop
  <1>2. Flags /\ Running
    BY <1>1 DEF EeInv, Types, CpuTypes, Flags, Running
  <1>3. ~gaveUp' => Quiet
    BY <1>1 DEF EeInv, Stops, Quiet
  <1> QED BY <1>1, <1>2, <1>3, FunctionEndsInv

LEMMA GiveUpInv ==
  ASSUME EeInv, GiveUp
  PROVE  EeInv'
  <1>1. /\ pc \in {"issue", "poll", "stop", "stopping"} /\ Running
        /\ UNCHANGED <<busVars, call, was>> /\ gaveUp' = TRUE /\ everGaveUp' = TRUE
    BY DEF GiveUp, Running
  <1>2. Flags
    BY <1>1 DEF Flags
  <1>3. CASE pc \in {"issue", "poll"}
    <2>1. CommandFailed
      BY <1>3 DEF GiveUp
    <2> QED BY <1>1, <1>2, <1>3, <2>1, CommandFailedInv
  <1>4. CASE pc \notin {"issue", "poll"}
    <2>1. FunctionEnds(FALSE)
      BY <1>4 DEF GiveUp
    <2> QED BY <1>1, <1>2, <2>1, FunctionEndsInv
  <1> QED BY <1>3, <1>4

-----------------------------------------------------------------------------
(* A command is given.                                                     *)

\* What is written is a byte.
LEMMA ByteIs ==
  ASSUME Underway, NEW k \in 1 .. Total, CmdAt(k) = "WRITE"
  PROVE  ByteAt(k) \in Byte
  <1> DEFINE W == Written
             x == chip.width
             C == Chunk(call, written)
  <1>1. /\ W \in Nat /\ x \in {1, 2} /\ call.op \in {"write", "read", "current"}
        /\ call.op = "current" => W = 0
        /\ call.op = "read" => W = 2 + x
        /\ k \in 2 .. W \/ k = W + 2
    BY Numbers, CmdWhere
  <1>2. 2 * call.dev \in Byte /\ 2 * call.dev + 1 \in Byte
    <2>1. call.dev \in Byte /\ 2 * call.dev + 1 \in Byte
      BY CallIs DEF Underway, Devices
    <2>2. call.dev \in Nat /\ Base \in Nat
      BY <2>1, Bases
    <2> QED BY <2>1, <2>2 DEF Byte
  <1>3. CASE k = W + 2
    BY <1>2, <1>3, ByteAtIs
  <1>4. CASE k = 2 /\ W >= 2
    BY <1>2, <1>4, ByteAtIs
  <1>5. CASE k \in 3 .. 2 + x /\ k <= W
    <2>1. MakeAddress(Target) \in Seq(Byte) /\ Len(MakeAddress(Target)) = x
      BY AddressIs
    <2>2. k - 2 \in 1 .. x
      BY <1>1, <1>5
    <2>3. MakeAddress(Target)[k - 2] \in Byte
      <3> DEFINE A == MakeAddress(Target)
      <3> HIDE DEF A, x
      <3>1. A \in Seq(Byte) /\ Len(A) = x
        BY <2>1 DEF A
      <3>2. A[k - 2] \in Byte
        BY <2>2, <3>1
      <3> QED BY <3>2 DEF A
    <2> QED BY <1>5, <2>3, ByteAtIs
  <1>6. CASE k \in 3 + x .. W
    <2>1. call.op = "write" /\ W = 2 + x + C
      BY <1>1, <1>6 DEF Written
    <2>2. /\ call.data \in Seq(Byte) /\ C \in Nat /\ written + C <= Len(call.data)
          /\ written \in Nat
      BY <2>1, Numbers DEF Underway
    <2> DEFINE D == call.data
               i == written + (k - 2 - x)
    <2>3. D[i] \in Byte
      <3>1. D \in Seq(Byte) /\ Len(D) \in Nat
        BY <2>2
      <3> HIDE DEF D, W, x, C
      <3>2. i \in 1 .. Len(D)
        BY <1>1, <1>6, <2>1, <2>2, <3>1 DEF D
      <3> HIDE DEF i
      <3> QED BY <3>1, <3>2
    <2> QED BY <1>6, <2>3, ByteAtIs
  <1> QED BY <1>1, <1>3, <1>4, <1>5, <1>6

\* A byte that the chip will take for data is the byte of its cell.
LEMMA DataByte ==
  ASSUME Underway, at \in 1 .. Total, CmdAt(at) = "WRITE", Did(at - 1),
         chip.mode = "receive", chip.need = 0
  PROVE  chip.ptr \in Range(call) /\ ByteAt(at) = Value(call, chip.ptr)
  <1> DEFINE W == Written
             x == chip.width
             C == Chunk(call, written)
             j == at - 3
             d == j - x
  <1>1. /\ W \in Nat /\ x \in {1, 2} /\ Total \in Nat
        /\ call.op \in {"write", "read", "current"}
        /\ call.op = "current" => W = 0
        /\ call.op = "read" => W = 2 + x
        /\ call.op # "write" => Total = W + call.n + 3 /\ call.n \in Nat \ {0}
        /\ at # Total /\ (at \in 2 .. W \/ (call.op # "write" /\ at = W + 2))
    BY Numbers, CmdWhere DEF Total
  <1>2. at - 1 \in 1 .. Total
    BY <1>1
  <1>3. at \in 3 .. W
    <2>1. ASSUME at = 2, W >= 2 PROVE FALSE
      <3>1. at - 1 = 1
        BY <2>1
      <3> QED BY <1>2, <2>1, <3>1, DidIs DEF Selected
    <2>2. ASSUME call.op # "write", at = W + 2 PROVE FALSE
      <3>1. at - 1 = W + 1
        BY <1>1, <2>2
      <3> QED BY <1>2, <2>2, <3>1, DidIs DEF Selected
    <2>3. at = 2 => W >= 2 \/ (call.op # "write" /\ at = W + 2)
      BY <1>1
    <2> HIDE DEF W
    <2> QED BY <1>1, <2>1, <2>2, <2>3
  <1>4. Receiving(j)
    <2>1. at - 1 \in 2 .. W /\ (at - 1) - 2 = j
      BY <1>1, <1>3
    <2> QED BY <1>2, <2>1, DidIs
  <1>5. j >= x
    <2>1. j \in Nat
      BY <1>1, <1>3
    <2> HIDE DEF j
    <2> QED BY <1>1, <1>4, <2>1 DEF Receiving
  <1>6. call.op = "write" /\ W = 2 + x + C
    <2>1. call.op = "write"
      BY <1>1, <1>3, <1>5
    <2>2. C \in Nat \ {0}
      BY <2>1, Numbers
    <2>3. stage = "piece"
      <3>1. W # 2
        BY <1>1, <1>3
      <3> QED BY <2>1, <3>1 DEF Written
    <2> QED BY <2>1, <2>3 DEF Written
  <1>7. /\ C \in Nat \ {0} /\ call.addr \in Nat /\ written \in Nat /\ Start \in Nat
        /\ written + C <= Len(call.data) /\ Len(call.data) \in Nat
    <2>1. /\ C \in Nat \ {0} /\ call.addr \in Nat /\ written \in Nat /\ Start \in Nat
          /\ written + C <= Len(call.data) /\ call.data \in Seq(Byte)
      BY <1>6, Numbers DEF Underway
    <2>2. Len(call.data) \in Nat
      BY <2>1
    <2> QED BY <2>1, <2>2
  <1>8. d \in Nat /\ d < C /\ Data(j) = d
    <2>1. d \in Nat /\ Data(j) = d
      BY <1>1, <1>3, <1>5 DEF Data
    <2> HIDE DEF W, x, C
    <2>2. d < C
      BY <1>1, <1>3, <1>6, <1>7
    <2> QED BY <2>1, <2>2
  <1>9. chip.ptr = Start + d
    BY <1>4, <1>5, <1>6, <1>8 DEF Receiving
  <1>10. ByteAt(at) = call.data[written + (d + 1)]
    <2>1. at \in 3 + x .. W /\ at - 2 - x = d + 1
      BY <1>1, <1>3, <1>5
    <2> QED BY <2>1, ByteAtIs
  <1> DEFINE l == Len(call.data)
  <1>11. l \in Nat /\ written + C <= l
    BY <1>7
  <1> HIDE DEF d, C, l
  <1>12. chip.ptr = call.addr + written + d
    BY <1>9 DEF Start
  <1>13. chip.ptr \in call.addr .. call.addr + l - 1
         /\ written + (d + 1) = chip.ptr - call.addr + 1
    BY <1>7, <1>8, <1>11, <1>12
  <1> QED BY <1>6, <1>10, <1>13 DEF Range, Value, l


LEMMA IssueInv ==
  ASSUME EeInv, Issue
  PROVE  EeInv'
  <1> DEFINE c == CmdAt(at)
             Fresh == at = 1 /\ stage = "piece" /\ written = 0
  <1>1. /\ pc = "issue" /\ job = "idle" /\ pc' = "poll" /\ call' = call /\ script' = script
        /\ at' = at /\ got' = got /\ stage' = stage /\ written' = written /\ tries' = tries
        /\ ret' = ret /\ gaveUp' = gaveUp /\ everGaveUp' = everGaveUp
        /\ Command(script[at].cmd, script[at].byte)
        /\ was' = IF Fresh THEN [mem |-> mem, ptr |-> chip.ptr, page |-> chip.page, call |-> call]
                  ELSE was
    BY DEF Issue
  <1>2. /\ Underway /\ enable /\ at \in 1 .. Total /\ Types /\ Total \in Nat /\ Running
        /\ script = Script /\ ret = "none"
    BY <1>1, InScript DEF Running
  <1>3. /\ script[at].cmd = c /\ (c = "WRITE" => script[at].byte = ByteAt(at) /\ ByteAt(at) \in Byte)
        /\ c \in Cmds
    <2>1. script[at].cmd = c /\ (c = "WRITE" => script[at].byte = ByteAt(at))
      BY <1>2, ScriptIs DEF Shaped
    <2> QED BY <1>2, <2>1, ByteIs, CmdWhere
  <1>4. at > 1 => Did(at - 1) /\ owned
    <2>1. at > 1 => at - 1 \in 1 .. Total /\ at - 1 # Total
      BY <1>2
    <2> QED BY <1>1, <1>2, <2>1, DidIs DEF EeInv, Issues
  <1>5. (at = 1 => c = "START") /\ (c = "START" \/ owned)
    <2>1. at = 1 => c = "START"
      BY <1>2, CmdAtIs
    <2>2. at = 1 \/ at > 1
      BY <1>2
    <2> QED BY <1>4, <2>1, <2>2
  <1>6. /\ tx' = (IF c = "WRITE" THEN ByteAt(at) ELSE tx)
        /\ job' = JobOf(c) /\ stat' = {}
        /\ ackBit' = (IF c \in {"READ_ACK", "READ_NACK"} THEN c = "READ_ACK" ELSE ackBit)
        /\ enable' = enable /\ owned' = owned /\ rx' = rx /\ chip' = chip /\ mem' = mem
        /\ cycling' = cycling
    <2> HIDE DEF c
    <2> QED BY <1>1, <1>2, <1>3, <1>5 DEF Command
  <1>7. /\ c = "START" => job' = IF owned THEN "restart" ELSE "start_wait"
        /\ c = "WRITE" => job' = "write"
        /\ c \in {"READ_ACK", "READ_NACK"} => job' = "read"
        /\ c = "STOP" => job' = "stop"
    <2> HIDE DEF c
    <2> QED BY <1>6 DEF JobOf
  <1>8. Types'
    <2>1. job' \in Jobs
      <3> HIDE DEF c
      <3> QED BY <1>3, <1>7 DEF Jobs, Cmds
    <2>2. tx' \in Byte /\ ackBit' \in BOOLEAN
      <3> HIDE DEF c
      <3> QED BY <1>2, <1>3, <1>6 DEF Types, BusTypes
    <2>3. BusTypes' /\ ChipTypes'
      BY <1>2, <1>6, <2>1, <2>2 DEF Types, BusTypes, ChipTypes
    <2>4. was' \in [mem : [Cells -> Byte], ptr : Cells, page : Pages, call : Known]
      <3>1. mem \in [Cells -> Byte] /\ chip.ptr \in Cells /\ chip.page \in Pages /\ call \in Known
        BY <1>2 DEF Types, ChipTypes, CpuTypes, Chips
      <3> QED BY <1>1, <1>2, <3>1 DEF Types, CpuTypes
    <2>5. CpuTypes'
      BY <1>1, <1>2, <2>4 DEF Types, CpuTypes
    <2> QED BY <2>3, <2>5 DEF Types
  <1>9. /\ Written' = Written /\ Total' = Total /\ Script' = Script /\ Underway' = Underway
        /\ Stored' = Stored /\ \A k : CmdAt(k)' = CmdAt(k) /\ ByteAt(k)' = ByteAt(k)
    BY <1>1, <1>6, SameCommands
  <1>10. (Fresh \/ Opened) /\ (at > 1 => Opened) /\ (Opened <=> ~Fresh)
    BY <1>2 DEF Opened, Types, CpuTypes
  <1>11. Opened => was' = was /\ was.call = call
    BY <1>1, <1>10 DEF EeInv, Programs, Reached
  <1>12. at > 1 => was' = was /\ Did(at - 1)'
    <2>1. SUFFICES ASSUME at > 1 PROVE was' = was /\ Did(at - 1)'
      OBVIOUS
    <2>2. was' = was /\ UNCHANGED Here
      BY <1>1, <1>10, <1>11, <2>1 DEF Here
    <2>3. \A k : Did(k)' = Did(k)
      BY <1>6, <2>2, DidSame
    <2>4. (at - 1)' = at - 1
      BY <1>1
    <2> QED BY <1>4, <2>1, <2>2, <2>3, <2>4
  <1>13. Follows'
    BY <1>1, <1>2, <1>6, <1>9 DEF EeInv, Follows, Running
  <1>14. Issues' /\ Stops'
    BY <1>1 DEF Issues, Stops
  <1>15. Polls'
    <2>1. c' = c /\ (c # "START" => at > 1)
      <3>1. c # "START" => at > 1
        BY <1>2, <1>5
      <3> QED BY <1>1, <1>9, <3>1
    <2>2. ASSUME c = "START" PROVE Starts'
      <3>1. job' \in {"start_wait", "restart"} /\ stat' = {}
        BY <1>6, <1>7, <2>2
      <3>2. at = 1 /\ call.op = "current" => chip.ptr = was'.ptr
        <4>1. SUFFICES ASSUME at = 1, call.op = "current" PROVE chip.ptr = was'.ptr
          OBVIOUS
        <4>2. stage = "piece" /\ written = 0
          BY <1>2, <4>1 DEF Underway
        <4> QED BY <1>1, <4>1, <4>2
      <3> QED BY <1>1, <1>6, <1>12, <3>1, <3>2 DEF Starts
    <2>3. ASSUME c = "WRITE" PROVE Puts'
      <3>1. job' = "write" /\ stat' = {} /\ tx' = ByteAt(at) /\ ByteAt(at)' = ByteAt(at)
        BY <1>1, <1>6, <1>7, <1>9, <2>3
      <3> QED BY <1>1, <1>12, <2>1, <2>3, <3>1 DEF Puts
    <2>4. ASSUME c \in {"READ_ACK", "READ_NACK"} PROVE Gets'
      <3>1. job' = "read" /\ stat' = {} /\ (ackBit' <=> c = "READ_ACK") /\ at > 1
        <4>1. at > 1
          BY <2>1, <2>4
        <4> HIDE DEF c
        <4> QED BY <1>6, <1>7, <2>4, <4>1
      <3> QED BY <1>12, <2>1, <3>1 DEF Gets
    <2>5. ASSUME c = "STOP" PROVE Closes'
      BY <1>6, <1>7, <1>12, <2>1, <2>5 DEF Closes
    <2> QED BY <2>1, <2>2, <2>3, <2>4, <2>5 DEF Polls
  <1>16. Collects'
    <2>1. ASSUME call.op # "write"
          PROVE  Len(got) = Had' /\ \A x \in 1 .. Had' : got[x] = was'.mem[(First' + x - 1) % Size]
      <3>1. Len(got) = Had /\ \A x \in 1 .. Had : got[x] = was.mem[(First + x - 1) % Size]
        BY <1>1, <2>1 DEF EeInv, Collects
      <3>2. Had' = Had
        BY <1>1, <1>9 DEF Had
      <3>3. CASE was' = was
        BY <1>1, <3>1, <3>2, <3>3 DEF First
      <3>4. CASE at = 1
        <4>1. Had = 0
          BY <1>2, <3>4, Numbers DEF Had
        <4> QED BY <3>1, <3>2, <4>1
      <3> QED BY <1>2, <1>12, <3>3, <3>4
    <2> QED BY <1>1, <2>1 DEF Collects
  <1>17. Feeds'
    <2>1. SUFFICES ASSUME job' = "write", chip.mode = "receive", chip.need = 0
                   PROVE  Belongs(chip.ptr, tx)'
      BY <1>6 DEF Feeds
    <2>2. c = "WRITE" /\ at > 1
      <3>1. c = "WRITE"
        <4> HIDE DEF c
        <4> QED BY <1>3, <1>7, <2>1 DEF Cmds
      <3> QED BY <1>2, <1>5, <3>1
    <2>3. chip.ptr \in Range(call) /\ tx' = Value(call, chip.ptr)
      BY <1>2, <1>4, <1>6, <2>1, <2>2, DataByte
    <2>4. was'.call = call
      BY <1>10, <1>11, <2>2
    <2> QED BY <1>6, <2>3, <2>4 DEF Belongs, Range, Value
  <1>18. Buffers' /\ Changes'
    <2>1. CASE Fresh
      <3>1. was'.page = chip.page /\ was'.mem = mem
        BY <1>1, <2>1
      <3> QED BY <1>6, <3>1 DEF Buffers, Changes, MayHold
    <2>2. CASE ~Fresh
      BY <1>1, <1>6, <2>2 DEF EeInv, Buffers, Changes, MayHold, Belongs, Range, Value
    <2> QED BY <2>1, <2>2
  <1>19. Programs'
    <2>1. was'.call = call
      BY <1>1, <1>10, <1>11
    <2>2. Running' /\ Opened' = Opened
      BY <1>1, <1>2 DEF Opened, Running
    <2>3. (Opened => \A p \in DOMAIN chip.page : Belongs(p, chip.page[p]))'
      BY <1>6, <1>11, <2>2 DEF EeInv, Programs, Belongs, Range, Value
    <2>4. (call.op = "write" =>
             \A p \in call.addr .. call.addr + Stored - 1 : mem[p] = Value(call, p))'
      BY <1>1, <1>2, <1>6, <1>9 DEF EeInv, Programs, Value
    <2>5. call.op # "write" => mem = was'.mem
      <3>1. CASE Fresh
        BY <1>1, <3>1
      <3>2. CASE Opened
        BY <1>11, <3>2 DEF EeInv, Programs, Reached
      <3> QED BY <1>10, <3>1, <3>2
    <2> QED BY <1>1, <1>6, <2>1, <2>3, <2>4, <2>5 DEF Programs
  <1>20. Ends'
    BY <1>1, <1>2 DEF Ends
  <1>21. Calm'
    <2>1. ASSUME ~everGaveUp, at = 1 PROVE chip.mode = "idle" /\ job' = "start_wait"
      <3>1. ~owned /\ chip.mode = "idle"
        BY <1>1, <2>1 DEF EeInv, Calm
      <3> QED BY <1>5, <1>7, <2>1, <3>1
    <2> QED BY <1>1, <1>6, <2>1 DEF EeInv, Calm
  <1> QED BY <1>8, <1>13, <1>14, <1>15, <1>16, <1>17, <1>18, <1>19, <1>20, <1>21 DEF EeInv

\* The STOP after a command that failed.
LEMMA IssueStopInv ==
  ASSUME EeInv, IssueStop
  PROVE  EeInv'
  <1>1. /\ pc = "stop" /\ job = "idle" /\ pc' = "stopping" /\ call' = call /\ script' = script
        /\ at' = at /\ got' = got /\ stage' = stage /\ written' = written /\ tries' = tries
        /\ ret' = ret /\ was' = was /\ gaveUp' = gaveUp /\ everGaveUp' = everGaveUp
        /\ Command("STOP", 0)
    BY DEF IssueStop
  <1>2. enable /\ ret = "none" /\ Types /\ Underway /\ Running
    BY <1>1, InScript DEF Running
  <1>3. /\ tx' = tx /\ rx' = rx /\ enable' = enable /\ owned' = owned /\ chip' = chip
        /\ mem' = mem /\ cycling' = cycling /\ ackBit' = ackBit
        /\ owned => job' = "stop" /\ stat' = {}
        /\ job' \in {"stop", "idle"} /\ stat' \subseteq {"DONE", "COMMAND_ERROR"}
    BY <1>1, <1>2 DEF Command, JobOf
  <1>4. Types'
    BY <1>1, <1>2, <1>3 DEF Types, BusTypes, ChipTypes, CpuTypes, Jobs
  <1>5. /\ Total' = Total /\ Script' = Script /\ Underway' = Underway /\ Stored' = Stored
    BY <1>1, <1>3, SameCommands
  <1>6. Follows'
    BY <1>1, <1>2, <1>3, <1>5 DEF EeInv, Follows, Running
  <1>7. Issues' /\ Polls' /\ Collects'
    BY <1>1 DEF Issues, Polls, Collects
  <1>8. Stops'
    BY <1>1, <1>3 DEF EeInv, Stops, Released, Empty
  <1>9. Feeds' /\ Buffers' /\ Changes'
    BY <1>1, <1>3 DEF EeInv, Feeds, Buffers, Changes, Belongs, MayHold, Range, Value
  <1>10. Programs'
    <2>1. Running' /\ Opened' = Opened /\ (Reached' => Reached)
      BY <1>1 DEF Opened, Reached, Running
    <2>2. (Opened => \A p \in DOMAIN chip.page : Belongs(p, chip.page[p]))'
      BY <1>1, <1>3, <2>1 DEF EeInv, Programs, Belongs, Range, Value
    <2>3. (call.op = "write" =>
             \A p \in call.addr .. call.addr + Stored - 1 : mem[p] = Value(call, p))'
      BY <1>1, <1>2, <1>3, <1>5 DEF EeInv, Programs, Value
    <2>4. (Reached => was.call = call)' /\ (Reached /\ call.op # "write" => mem = was.mem)'
      BY <1>1, <1>3, <2>1 DEF EeInv, Programs
    <2> QED BY <2>2, <2>3, <2>4 DEF Programs
  <1>11. Ends' /\ Calm'
    BY <1>1, <1>2 DEF EeInv, Ends, Calm
  <1> QED BY <1>4, <1>6, <1>7, <1>8, <1>9, <1>10, <1>11 DEF EeInv


-----------------------------------------------------------------------------
(* Between the calls.                                                      *)

LEMMA BeginInv ==
  ASSUME EeInv, NEW c \in Calls, Begin(c)
  PROVE  EeInv'
  <1>1. /\ pc = "idle" /\ enable /\ Accepted(c) /\ InsideChip(c) /\ call' = c
        /\ ret' = "none" /\ gaveUp' = FALSE /\ everGaveUp' = everGaveUp
        /\ stage' = "piece" /\ written' = 0 /\ tries' = 0 /\ was' = was
        /\ at' = 1 /\ got' = <<>> /\ pc' = "issue" /\ UNCHANGED <<busVars, was>>
    BY DEF Begin, Run
  <1>2. /\ BusTypes' /\ ChipTypes' /\ Feeds' /\ Buffers' /\ Changes'
        /\ chip' = chip /\ mem' = mem /\ owned' = owned /\ job' = job /\ stat' = stat
        /\ enable' = enable /\ Released' = Released
    BY <1>1, ChipKept
  <1>3. Types /\ chip.width \in Widths
    BY DEF EeInv, Types, ChipTypes, Chips
  <1>4. CpuTypes'
    <2>1. got' \in Seq(Byte) /\ call' \in Known
      BY <1>1 DEF Known
    <2>2. /\ was' \in [mem : [Cells -> Byte], ptr : Cells, page : Pages, call : Known]
          /\ everGaveUp' \in BOOLEAN
      BY <1>1, <1>3 DEF Types, CpuTypes
    <2>3. at' \in Nat \ {0} /\ written' \in Nat /\ tries' \in Nat
      BY <1>1
    <2>4. /\ pc' \in {"idle", "issue", "poll", "stop", "stopping"} /\ gaveUp' \in BOOLEAN
          /\ stage' \in {"piece", "ready"} /\ ret' \in {"none", "true", "false"}
      BY <1>1
    <2> QED BY <2>1, <2>2, <2>3, <2>4 DEF CpuTypes
  <1>5. Underway'
    <2>1. c.op = "write" => 0 < Len(c.data)
      BY <1>1, CallIs DEF Accepted
    <2>2. c.addr + 0 = c.addr
      <3>1. c.addr \in Nat
        BY CallIs, Bases DEF Addresses
      <3> QED BY <3>1
    <2>3. Addressable(Start)'
      BY <1>1, <1>2, <2>2 DEF Accepted, Addressable, Start
    <2> QED BY <1>1, <1>2, <1>3, <2>1, <2>3 DEF Underway, Accepted, Addressable, InsideChip
  <1>6. script' = Script'
    <2>1. script' = CASE c.op = "read"    -> I2cWriteRead(c.dev, MakeAddress(c.addr), c.n)
                      [] c.op = "current" -> I2cRead(c.dev, c.n)
                      [] c.op = "write"   -> Piece(c, 0)
      BY DEF Begin, Run
    <2>2. CASE c.op = "read"
      BY <1>1, <1>2, <2>1, <2>2
         DEF Script, I2cWriteRead, I2cRead, Cmd, Writes, Reads, MakeAddress
    <2>3. CASE c.op = "current"
      BY <1>1, <1>2, <2>1, <2>3 DEF Script, I2cRead, Cmd, Writes, Reads
    <2>4. CASE c.op = "write"
      BY <1>1, <1>2, <2>1, <2>4 DEF Script, Piece, I2cWrite, Cmd, Writes, MakeAddress, Chunk
    <2> QED BY <2>2, <2>3, <2>4, CallIs
  <1>7. Follows'
    <2>1. (Underway => 1 \in 1 .. Total)'
      BY FirstCommand, PTL
    <2> QED BY <1>1, <1>2, <1>5, <1>6, <2>1 DEF Follows, Running
  <1>8. Issues' /\ Polls' /\ Stops'
    BY <1>1 DEF Issues, Polls, Stops
  <1>9. Collects'
    <2>1. Had' = 0
      <3>1. (Underway => Written \in Nat)'
        BY WrittenIs, PTL
      <3> QED BY <1>1, <1>5, <3>1 DEF Had
    <2> QED BY <1>1, <2>1 DEF Collects
  <1>10. Programs'
    <2>1. ~Opened' /\ ~Reached'
      BY <1>1 DEF Opened, Reached
    <2>2. call'.addr .. call'.addr + Stored' - 1 = {}
      <3>1. Stored' = 0 + 0 /\ call'.addr \in Nat
        BY <1>1, CallIs, Bases DEF Stored, Addresses
      <3> QED BY <3>1
    <2> QED BY <2>1, <2>2 DEF Programs
  <1>11. Ends'
    BY <1>1 DEF Ends
  <1>12. Calm'
    BY <1>1, <1>2 DEF EeInv, Calm
  <1> QED BY <1>2, <1>4, <1>7, <1>8, <1>9, <1>10, <1>11, <1>12 DEF EeInv, Types

LEMMA I2cInitInv ==
  ASSUME EeInv, I2cInit
  PROVE  EeInv'
  <1>1. /\ call' = call /\ pc' = pc /\ script' = script /\ at' = at /\ got' = got
        /\ stage' = stage /\ written' = written /\ tries' = tries /\ ret' = ret
        /\ was' = was /\ gaveUp' = gaveUp /\ everGaveUp' = everGaveUp
        /\ pc = "idle" /\ Reopen
    BY DEF I2cInit, cpuVars
  <1>2. /\ enable' = TRUE /\ job' = "idle" /\ stat' = {} /\ owned' = FALSE
        /\ tx' = tx /\ rx' = rx /\ ackBit' = ackBit
        /\ \/ chip' = chip /\ mem' = mem /\ cycling' = cycling
           \/ owned /\ SeesStop
    BY <1>1 DEF Reopen
  <1>3. Types /\ chip \in Chips
    BY DEF EeInv, Types, ChipTypes
  <1>4. /\ ChipTypes'
        /\ \A p \in DOMAIN chip'.page : p \in DOMAIN chip.page /\ chip'.page[p] = chip.page[p]
        /\ \A p \in Cells : \/ mem'[p] = mem[p]
                            \/ p \in DOMAIN chip.page /\ mem'[p] = chip.page[p]
    <2>1. CASE chip' = chip /\ mem' = mem /\ cycling' = cycling
      BY <1>3, <2>1 DEF Types, ChipTypes
    <2>2. CASE SeesStop /\ PullsSda
      BY <1>3, <2>2 DEF Types, ChipTypes, SeesStop
    <2>3. CASE SeesStop /\ ~PullsSda
      <3>1. /\ chip' = Asleep(chip) /\ cycling' \in BOOLEAN
            /\ mem' = [p \in Cells |-> IF p \in DOMAIN chip.page THEN chip.page[p] ELSE mem[p]]
        BY <1>3, <2>3 DEF SeesStop, Types, ChipTypes
      <3>2. \A p \in DOMAIN chip.page : chip.page[p] \in Byte
        BY <1>3, PageIs DEF Chips
      <3>3. mem' \in [Cells -> Byte]
        BY <1>3, <3>1, <3>2 DEF Types, ChipTypes
      <3>4. \A p \in Cells : \/ mem'[p] = mem[p]
                             \/ p \in DOMAIN chip.page /\ mem'[p] = chip.page[p]
        BY <3>1
      <3> QED BY <1>3, <3>1, <3>3, <3>4, LetsGo DEF ChipTypes
    <2> QED BY <1>2, <2>1, <2>2, <2>3
  <1>5. Types'
    BY <1>1, <1>2, <1>3, <1>4 DEF Types, BusTypes, CpuTypes, Jobs
  <1>6. Follows' /\ Issues' /\ Polls' /\ Stops' /\ Collects'
    BY <1>1 DEF Follows, Running, Issues, Polls, Stops, Collects
  <1>7. Programs' /\ Feeds'
    BY <1>1, <1>2 DEF Programs, Feeds, Reached, Opened, Running
  <1>8. Buffers'
    BY <1>1, <1>4 DEF EeInv, Buffers, MayHold, Belongs, Range, Value
  <1>9. Changes'
    <2>1. ASSUME NEW p \in Cells, mem'[p] # was.mem[p] PROVE MayHold(p, mem'[p])
      BY <1>4, <2>1 DEF EeInv, Buffers, Changes
    <2>2. ASSUME NEW p \in Cells, mem'[p] # was'.mem[p] PROVE MayHold(p, mem[p])'
      BY <1>1, <2>1, <2>2 DEF Belongs, MayHold, Range, Value
    <2> QED BY <2>2 DEF Changes
  <1>10. ~owned => chip' = chip /\ mem' = mem
    BY <1>2
  <1>11. Ends'
    <2>1. ret = "true" => SuccessIsTrue'
      BY <1>1, <1>10 DEF EeInv, Ends, SuccessIsTrue, Range, Value
    <2> QED BY <1>1, <1>2, <1>10, <2>1 DEF EeInv, Ends, Released, Empty
  <1>12. Calm'
    BY <1>1, <1>2, <1>10 DEF EeInv, Calm
  <1> QED BY <1>5, <1>6, <1>7, <1>8, <1>9, <1>11, <1>12 DEF EeInv

LEMMA InitInv == Init => EeInv
  <1>1. SUFFICES ASSUME Init PROVE EeInv
    OBVIOUS
  <1>2. /\ enable = FALSE /\ job = "idle" /\ stat = {} /\ owned = FALSE
        /\ tx = 0 /\ rx = 0 /\ ackBit = FALSE /\ cycling = FALSE
        /\ mem \in [Cells -> {Base - 1}]
        /\ pc = "idle" /\ call = [op |-> "none"] /\ script = <<>> /\ at = 1 /\ got = <<>>
        /\ stage = "piece" /\ written = 0 /\ tries = 0 /\ ret = "none"
        /\ was = [mem |-> mem, ptr |-> 0, page |-> <<>>, call |-> call]
        /\ gaveUp = FALSE /\ everGaveUp = FALSE
    BY <1>1 DEF Init, BusInit
  <1>3. /\ chip \in Chips /\ chip.mode = "idle" /\ DOMAIN chip.page = {}
    <2> DEFINE e == <<>>
    <2>1. PICK w \in Widths :
            chip = [mode |-> "idle", need |-> 0, ptr |-> 0, page |-> e, width |-> w]
      BY <1>1 DEF Init, BusInit
    <2>2. e \in Pages /\ DOMAIN e = {}
      BY EmptyPage
    <2> HIDE DEF e
    <2>3. 0 \in Cells /\ 0 \in 0 .. 2 /\ "idle" \in Modes
      BY Bases DEF Modes
    <2> QED BY <2>1, <2>2, <2>3 DEF Chips
  <1>4. mem \in [Cells -> Byte]
    BY <1>2, Bases
  <1>5. BusTypes /\ ChipTypes
    BY <1>2, <1>3, <1>4, Bases DEF BusTypes, ChipTypes, Jobs
  <1>6. CpuTypes
    <2>1. got \in Seq(Byte) /\ call \in Known /\ at \in Nat \ {0}
      BY <1>2 DEF Known
    <2>2. was \in [mem : [Cells -> Byte], ptr : Cells, page : Pages, call : Known]
      <3> DEFINE e == <<>>
      <3>1. was = [mem |-> mem, ptr |-> 0, page |-> e, call |-> call]
        BY <1>2
      <3>2. e \in Pages /\ 0 \in Cells
        BY EmptyPage, Bases
      <3> HIDE DEF e
      <3> QED BY <1>4, <2>1, <3>1, <3>2
    <2> QED BY <1>2, <2>1, <2>2 DEF CpuTypes
  <1>7. was.mem = mem
    BY <1>2
  <1>8. Follows /\ Issues /\ Polls /\ Stops /\ Collects /\ Feeds /\ Programs
    BY <1>2 DEF Follows, Running, Issues, Polls, Stops, Collects, Feeds, Programs, Opened, Reached
  <1>9. Buffers /\ Changes /\ Ends /\ Calm
    BY <1>2, <1>3, <1>7 DEF Buffers, Changes, Ends, Calm
  <1> QED BY <1>5, <1>6, <1>8, <1>9 DEF EeInv, Types

LEMMA NextInv == EeInv /\ [Next]_vars => EeInv'
  <1>1. SUFFICES ASSUME EeInv, [Next]_vars PROVE EeInv'
    OBVIOUS
  <1>2. CASE EngineStep /\ UNCHANGED cpuVars
    BY <1>1, <1>2, EngineInv
  <1>3. CASE CycleEnds /\ UNCHANGED cpuVars
    BY <1>1, <1>3, CycleInv DEF CycleEnds
  <1>4. CASE Issue
    BY <1>1, <1>4, IssueInv
  <1>5. CASE IssueStop
    BY <1>1, <1>5, IssueStopInv
  <1>6. CASE Poll
    BY <1>1, <1>6, PollInv
  <1>7. CASE PollStop
    BY <1>1, <1>7, PollStopInv
  <1>8. CASE GiveUp
    BY <1>1, <1>8, GiveUpInv
  <1>9. CASE I2cInit
    BY <1>1, <1>9, I2cInitInv
  <1>10. ASSUME NEW c \in Calls, Begin(c) PROVE EeInv'
    BY <1>1, <1>10, BeginInv
  <1>11. CASE UNCHANGED vars
    <2>1. UNCHANGED cpuVars /\ UNCHANGED <<engVars, chip, mem>> /\ cycling' = cycling
      BY <1>11 DEF vars, busVars
    <2>2. cycling \in BOOLEAN
      BY <1>1 DEF EeInv, Types, ChipTypes
    <2> QED BY <1>1, <2>1, <2>2, CycleInv
  <1> QED BY <1>1, <1>2, <1>3, <1>4, <1>5, <1>6, <1>7, <1>8, <1>9, <1>10, <1>11
          DEF Next, Hardware, Driver

(* Every reachable state satisfies the invariant.                           *)
THEOREM EepromInductive == Spec => []EeInv
  BY InitInv, NextInv, PTL DEF Spec

-----------------------------------------------------------------------------
(* A call changes only the cells it names, and only to the bytes it was      *)
(* given, or to what an earlier call that gave up left in the chip's buffer. *)
THEOREM CellsAreTheCalls == Spec => []OnlyItsCells
  <1>1. EeInv => OnlyItsCells
    BY DEF EeInv, Changes, MayHold, Belongs, OnlyItsCells
  <1> QED BY <1>1, EepromInductive, PTL

(* A call that reports success has written its bytes, or has read the bytes  *)
(* that were there.                                                          *)
THEOREM SuccessIsBelieved == Spec => []SuccessIsTrue
  <1>1. EeInv => SuccessIsTrue
    BY DEF EeInv, Ends, SuccessIsTrue
  <1> QED BY <1>1, EepromInductive, PTL

(* A call within its budgets leaves the bus free and the chip asleep; the    *)
(* chip holds SDA where nothing can make it let go only after a call ran out *)
(* of budget.                                                                *)
THEOREM BusComesBack == Spec => []ReturnsTheBus
  <1>1. EeInv => ReturnsTheBus
    <2>1. SUFFICES ASSUME EeInv PROVE ReturnsTheBus
      OBVIOUS
    <2>2. (pc = "idle" /\ ret # "none" /\ ~gaveUp) => job = "idle" /\ ~owned /\ chip.mode = "idle"
      BY <2>1 DEF EeInv, Ends, Released
    <2>3. ASSUME PullsSda, ~owned \/ Wedged, ~everGaveUp PROVE FALSE
      <3>1. chip.mode = "send"
        BY <2>3 DEF PullsSda
      <3>2. /\ ~gaveUp /\ Types
            /\ pc = "idle" \/ (pc = "issue" /\ at = 1) => chip.mode = "idle"
        BY <2>1, <2>3 DEF EeInv, Calm
      <3>3. pc # "idle" /\ ~(pc = "issue" /\ at = 1)
        BY <3>1, <3>2
      <3>4. Underway /\ at \in 1 .. Total /\ Total \in Nat
        BY <2>1, <3>3, InScript
      <3>5. pc \in {"issue", "poll", "stop", "stopping"}
        BY <3>2, <3>3 DEF Types, CpuTypes
      <3>6. pc \notin {"stop", "stopping"}
        BY <2>1, <3>1, <3>2 DEF EeInv, Stops, Released
      <3>7. CASE pc = "issue"
        <4>1. job = "idle" /\ Did(at - 1) /\ at > 1
          BY <2>1, <3>3, <3>4, <3>7 DEF EeInv, Issues
        <4>2. at - 1 \in 1 .. Total /\ at - 1 # Total
          BY <3>4, <4>1
        <4>3. owned
          BY <3>4, <4>1, <4>2, DidIs
        <4> QED BY <2>3, <4>1, <4>3 DEF Wedged
      <3>8. CASE pc = "poll"
        <4> DEFINE c == CmdAt(at)
        <4>1. c \in Cmds
          BY <3>4, CmdWhere
        <4>2. \A k \in 1 .. Total : Did(k) => owned
          <5>1. ASSUME NEW k \in 1 .. Total, Did(k) PROVE owned
            <6>1. k # Total
              BY <3>1, <3>4, <5>1, DidIs DEF Released
            <6> QED BY <3>4, <5>1, <6>1, DidIs
          <5> QED BY <5>1
        <4>3. at > 1 => at - 1 \in 1 .. Total
          BY <3>4
        <4>4. at = 1 => c = "START"
          BY <3>4, CmdAtIs
        <4>5. at = 1 \/ at > 1
          BY <3>4
        <4>6. CASE c = "START"
          <5>1. CASE job \in {"start_wait", "restart"} /\ at = 1
            BY <2>1, <2>3, <3>1, <3>8, <5>1 DEF EeInv, Calm
          <5>2. CASE job \in {"start_wait", "restart"} /\ at > 1
            <6>1. Did(at - 1)
              BY <2>1, <3>8, <4>6, <5>2 DEF EeInv, Polls, Starts
            <6>2. call.op = "read" /\ at = Written + 1 /\ Written \in 2 .. Written
              <7>1. call.op # "write" /\ at = Written + 1 /\ Written \in Nat
                BY <3>4, <4>6, <5>2, CmdWhere, Numbers
              <7>2. call.op = "read" /\ Written >= 2
                BY <3>4, <5>2, <7>1, Numbers
              <7> QED BY <7>1, <7>2
            <6>3. at - 1 = Written
              BY <6>2
            <6>4. Receiving(Written - 2)
              BY <3>4, <4>3, <5>2, <6>1, <6>2, <6>3, DidIs
            <6> QED BY <3>1, <6>4 DEF Receiving
          <5>3. CASE job \notin {"start_wait", "restart"}
            <6>1. Did(at)
              BY <2>1, <3>8, <4>6, <5>3 DEF EeInv, Polls, Starts
            <6> QED BY <2>3, <3>4, <4>2, <5>3, <6>1 DEF Wedged
          <5> QED BY <4>5, <5>1, <5>2, <5>3
        <4>7. CASE c # "START"
          <5>1. at > 1
            BY <4>4, <4>5, <4>7
          <5>2. job \notin {"start_wait", "restart"} /\ (Did(at) \/ Did(at - 1) \/ owned)
            BY <2>1, <3>8, <4>1, <4>7 DEF EeInv, Polls, Puts, Gets, Closes, Cmds
          <5> QED BY <2>3, <3>4, <4>2, <4>3, <5>1, <5>2 DEF Wedged
        <4> QED BY <4>6, <4>7
      <3> QED BY <3>5, <3>6, <3>7, <3>8
    <2> QED BY <2>2, <2>3 DEF ReturnsTheBus
  <1> QED BY <1>1, EepromInductive, PTL
=============================================================================
