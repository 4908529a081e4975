------------------------- MODULE ReportCodecsProofs -------------------------
(***************************************************************************)
(* Proofs about ReportCodecs: its type invariant, and that a host reads    *)
(* back from every part of a report what the sensors measured, for every   *)
(* sample that the sensors can give. A run tries the values around the     *)
(* carries; here the arithmetic of masks and shifts is done once for all.  *)
(***************************************************************************)
EXTENDS ReportCodecs, TLAPS, SequenceTheorems

----------------------------------------------------------------------------
(***************************************************************************)
(* Bytes made of bits and of fields, and what masks and shifts find there. *)
(***************************************************************************)
\* The first byte of the buttons: five of them, and two bits of the acceleration.
LEMMA FirstByte ==
    ASSUME NEW a \in 0..1, NEW b \in 0..1, NEW c \in 0..1, NEW d \in 0..1,
           NEW e \in 0..1, NEW f \in 0..3,
           NEW n, n = a + 2 * b + 4 * c + 8 * d + 16 * e + f * 32
    PROVE  /\ n \in 0..127 /\ (n \div 32) % 4 = f
           /\ IsSet(n, 1) <=> a = 1
           /\ IsSet(n, 2) <=> b = 1
           /\ IsSet(n, 4) <=> c = 1
           /\ IsSet(n, 8) <=> d = 1
           /\ IsSet(n, 16) <=> e = 1
BY DEF IsSet

\* The second byte: five of them, a bit of y and a bit of z, and Home.
LEMMA SecondByte ==
    ASSUME NEW a \in 0..1, NEW b \in 0..1, NEW c \in 0..1, NEW d \in 0..1,
           NEW e \in 0..1, NEW h \in 0..1, NEW y \in 0..1, NEW z \in 0..1,
           NEW n, n = a + 2 * b + 4 * c + 8 * d + 16 * e + 128 * h + y * 32 + z * 64
    PROVE  /\ n \in Byte /\ (n \div 32) % 2 = y /\ (n \div 64) % 2 = z
           /\ IsSet(n, 1) <=> a = 1
           /\ IsSet(n, 2) <=> b = 1
           /\ IsSet(n, 4) <=> c = 1
           /\ IsSet(n, 8) <=> d = 1
           /\ IsSet(n, 16) <=> e = 1
           /\ IsSet(n, 128) <=> h = 1
BY DEF IsSet, Byte

----------------------------------------------------------------------------
(***************************************************************************)
(* Buttons and accelerometer.                                              *)
(***************************************************************************)
LEMMA CountsAreInt == Counts \subseteq Int
BY DEF Counts

\* Division towards zero leaves less than the divisor.
Rounds(a, d) == /\ Quotient(a, d) \in Int
                /\ a - Quotient(a, d) * d < d
                /\ -d < a - Quotient(a, d) * d

LEMMA QuotientIs ==
    ASSUME NEW a \in Int
    PROVE  Rounds(a, 10) /\ Rounds(a, 27000) /\ Rounds(a, 120000)
<1>1. Rounds(a, 10)
  BY DEF Rounds, Quotient
<1>2. Rounds(a, 27000)
  <2>1. Quotient(a, 27000) \in Int
    BY DEF Quotient
  <2>2. a - Quotient(a, 27000) * 27000 < 27000
    BY DEF Quotient
  <2>3. -27000 < a - Quotient(a, 27000) * 27000
    BY DEF Quotient
  <2> QED BY <2>1, <2>2, <2>3 DEF Rounds
<1>3. Rounds(a, 120000)
  <2>1. Quotient(a, 120000) \in Int
    BY DEF Quotient
  <2>2. a - Quotient(a, 120000) * 120000 < 120000
    BY DEF Quotient
  <2>3. -120000 < a - Quotient(a, 120000) * 120000
    BY DEF Quotient
  <2> QED BY <2>1, <2>2, <2>3 DEF Rounds
<1> QED BY <1>1, <1>2, <1>3

\* What ten bits hold.
TenBits == 0..1023

\* Ten bits hold every acceleration up to 4 g.
LEMMA TenBitIs ==
    ASSUME NEW mg \in Int
    PROVE  TenBit(mg) \in Int /\ (mg \in FourG => TenBit(mg) \in TenBits)
<1>1. Rounds(mg, 10)
  BY QuotientIs
<1>2. Quotient(mg, 10) \in Int
  BY <1>1 DEF Rounds
<1>3. mg - Quotient(mg, 10) * 10 < 10 /\ -10 < mg - Quotient(mg, 10) * 10
  BY <1>1 DEF Rounds
<1>4. TenBit(mg) = Quotient(mg, 10) + 512
  BY DEF TenBit
<1>5. ASSUME mg \in FourG PROVE TenBit(mg) \in TenBits
  <2>1. Quotient(mg, 10) + 512 \in TenBits
    <3> DEFINE q == Quotient(mg, 10)
    <3> HIDE DEF q
    <3>1. q \in Int /\ mg - q * 10 < 10 /\ -10 < mg - q * 10
      BY <1>2, <1>3 DEF q
    <3>2. q + 512 \in TenBits
      BY <3>1, <1>5 DEF FourG, TenBits
    <3> QED BY <3>2 DEF q
  <2> QED BY <1>4, <2>1
<1> QED BY <1>2, <1>4, <1>5

\* The bit of each button.
ButtonsIn(b, pressed) ==
    /\ IsSet(b[1], 1) <=> "Left" \in pressed
    /\ IsSet(b[1], 2) <=> "Right" \in pressed
    /\ IsSet(b[1], 4) <=> "Down" \in pressed
    /\ IsSet(b[1], 8) <=> "Up" \in pressed
    /\ IsSet(b[1], 16) <=> "Plus" \in pressed
    /\ IsSet(b[2], 1) <=> "Two" \in pressed
    /\ IsSet(b[2], 2) <=> "One" \in pressed
    /\ IsSet(b[2], 4) <=> "B" \in pressed
    /\ IsSet(b[2], 8) <=> "A" \in pressed
    /\ IsSet(b[2], 16) <=> "Minus" \in pressed
    /\ IsSet(b[2], 128) <=> "Home" \in pressed

\* load_accelerometer_buffer leaves the bits of the buttons as they are: the two
\* bytes they share are read back bit by bit.
LEMMA CoreBits ==
    ASSUME NEW pressed, NEW x \in Int, NEW y \in Int, NEW z \in Int,
           NEW b, b = CoreBytes(pressed, x, y, z)
    PROVE  /\ b \in Seq(Byte)
           /\ (b[1] \div 32) % 4 = x % 4
           /\ (b[2] \div 32) % 2 = (y \div 2) % 2
           /\ (b[2] \div 64) % 2 = (z \div 2) % 2
           /\ b[3] = (x \div 4) % 256
           /\ b[4] = (y \div 4) % 256
           /\ b[5] = (z \div 4) % 256
           /\ ButtonsIn(b, pressed)
<1> DEFINE On(button) == Bit(button \in pressed)
<1>3. \A button : On(button) \in 0..1 /\ (On(button) = 1 <=> button \in pressed)
  BY DEF Bit
<1>4. b = << On("Left") + 2 * On("Right") + 4 * On("Down") + 8 * On("Up")
               + 16 * On("Plus") + (x % 4) * 32,
             On("Two") + 2 * On("One") + 4 * On("B") + 8 * On("A") + 16 * On("Minus")
               + 128 * On("Home") + ((y \div 2) % 2) * 32 + ((z \div 2) % 2) * 64,
             (x \div 4) % 256, (y \div 4) % 256, (z \div 4) % 256 >>
  BY DEF CoreBytes, ButtonBytes
<1> HIDE DEF On
<1>5. /\ x % 4 \in 0..3 /\ (y \div 2) % 2 \in 0..1 /\ (z \div 2) % 2 \in 0..1
      /\ (x \div 4) % 256 \in Byte /\ (y \div 4) % 256 \in Byte
      /\ (z \div 4) % 256 \in Byte
  BY DEF Byte
<1>6. /\ b[1] \in 0..127 /\ (b[1] \div 32) % 4 = x % 4
      /\ IsSet(b[1], 1) <=> On("Left") = 1
      /\ IsSet(b[1], 2) <=> On("Right") = 1
      /\ IsSet(b[1], 4) <=> On("Down") = 1
      /\ IsSet(b[1], 8) <=> On("Up") = 1
      /\ IsSet(b[1], 16) <=> On("Plus") = 1
  <2>1. b[1] = On("Left") + 2 * On("Right") + 4 * On("Down") + 8 * On("Up")
                 + 16 * On("Plus") + (x % 4) * 32
    BY <1>4
  <2> QED BY <2>1, <1>3, <1>5, FirstByte
<1>7. /\ b[2] \in Byte /\ (b[2] \div 32) % 2 = (y \div 2) % 2
      /\ (b[2] \div 64) % 2 = (z \div 2) % 2
      /\ IsSet(b[2], 1) <=> On("Two") = 1
      /\ IsSet(b[2], 2) <=> On("One") = 1
      /\ IsSet(b[2], 4) <=> On("B") = 1
      /\ IsSet(b[2], 8) <=> On("A") = 1
      /\ IsSet(b[2], 16) <=> On("Minus") = 1
      /\ IsSet(b[2], 128) <=> On("Home") = 1
  <2>1. b[2] = On("Two") + 2 * On("One") + 4 * On("B") + 8 * On("A") + 16 * On("Minus")
                 + 128 * On("Home") + ((y \div 2) % 2) * 32 + ((z \div 2) % 2) * 64
    BY <1>4
  <2> QED BY <2>1, <1>3, <1>5, SecondByte
<1>8. b[3] = (x \div 4) % 256 /\ b[4] = (y \div 4) % 256 /\ b[5] = (z \div 4) % 256
  BY <1>4
<1>9. b \in Seq(Byte)
  <2>0. b[1] \in Byte
    <3>1. b[1] \in 0..127
      BY <1>6
    <3> HIDE DEF On
    <3> QED BY <3>1 DEF Byte
  <2>1. b[1] \in Byte /\ b[2] \in Byte /\ b[3] \in Byte /\ b[4] \in Byte /\ b[5] \in Byte
    BY <2>0, <1>5, <1>7, <1>8
  <2>2. b = <<b[1], b[2], b[3], b[4], b[5]>>
    BY <1>4
  <2>3. <<b[1], b[2], b[3], b[4], b[5]>> \in Seq(Byte)
    BY <2>1
  <2> QED BY <2>2, <2>3, Zenon
<1>10. ButtonsIn(b, pressed)
  BY <1>3, <1>6, <1>7 DEF ButtonsIn
<1> QED BY <1>6, <1>7, <1>8, <1>9, <1>10

\* Where the host looks for each button.
LEMMA HostLooks ==
    ASSUME NEW b
    PROVE  /\ "Left" \in HostButtons(b) <=> IsSet(b[1], 1)
           /\ "Right" \in HostButtons(b) <=> IsSet(b[1], 2)
           /\ "Down" \in HostButtons(b) <=> IsSet(b[1], 4)
           /\ "Up" \in HostButtons(b) <=> IsSet(b[1], 8)
           /\ "Plus" \in HostButtons(b) <=> IsSet(b[1], 16)
           /\ "Two" \in HostButtons(b) <=> IsSet(b[2], 1)
           /\ "One" \in HostButtons(b) <=> IsSet(b[2], 2)
           /\ "B" \in HostButtons(b) <=> IsSet(b[2], 4)
           /\ "A" \in HostButtons(b) <=> IsSet(b[2], 8)
           /\ "Minus" \in HostButtons(b) <=> IsSet(b[2], 16)
           /\ "Home" \in HostButtons(b) <=> IsSet(b[2], 128)
BY DEF HostButtons, Buttons, IsSet

\* The host's buttons are those pressed.
LEMMA ButtonsSeen ==
    ASSUME NEW pressed \in SUBSET Buttons,
           NEW x \in Int, NEW y \in Int, NEW z \in Int,
           NEW b, b = CoreBytes(pressed, x, y, z)
    PROVE  HostButtons(b) = pressed
<1>1. ButtonsIn(b, pressed)
  BY CoreBits
<1>2. ASSUME NEW n \in Buttons PROVE n \in HostButtons(b) <=> n \in pressed
  BY <1>1, HostLooks DEF Buttons, ButtonsIn
<1>3. HostButtons(b) \subseteq Buttons
  BY DEF HostButtons
<1> QED BY <1>2, <1>3

\* What is left of ten bits in eight of them, and of the lowest two, both or one.
LEMMA TenBitsSeen ==
    ASSUME NEW v \in TenBits
    PROVE  /\ ((v \div 4) % 256) * 4 + (v % 4) = v
           /\ v - (((v \div 4) % 256) * 4 + ((v \div 2) % 2) * 2) \in 0..1
BY DEF TenBits

\* The host reads x exactly, y and z up to their lowest bit.
LEMMA XRead ==
    ASSUME NEW b, NEW x \in TenBits,
           (b[1] \div 32) % 4 = x % 4, b[3] = (x \div 4) % 256
    PROVE  HostX(b) = x
<1>1. HostX(b) = ((x \div 4) % 256) * 4 + (x % 4)
  BY DEF HostX
<1> QED BY <1>1, TenBitsSeen

LEMMA YRead ==
    ASSUME NEW b, NEW y \in TenBits,
           (b[2] \div 32) % 2 = (y \div 2) % 2, b[4] = (y \div 4) % 256
    PROVE  y - HostY(b) \in 0..1
<1>1. HostY(b) = ((y \div 4) % 256) * 4 + ((y \div 2) % 2) * 2
  BY DEF HostY
<1> QED BY <1>1, TenBitsSeen

LEMMA ZRead ==
    ASSUME NEW b, NEW z \in TenBits,
           (b[2] \div 64) % 2 = (z \div 2) % 2, b[5] = (z \div 4) % 256
    PROVE  z - HostZ(b) \in 0..1
<1>1. HostZ(b) = ((z \div 4) % 256) * 4 + ((z \div 2) % 2) * 2
  BY DEF HostZ
<1> QED BY <1>1, TenBitsSeen

\* So each axis of the sensor arrives.
LEMMA AxesSeen ==
    ASSUME NEW pressed, NEW x \in TenBits, NEW y \in TenBits, NEW z \in TenBits,
           NEW b, b = CoreBytes(pressed, x, y, z)
    PROVE  HostX(b) = x /\ y - HostY(b) \in 0..1 /\ z - HostZ(b) \in 0..1
<1>1. x \in Int /\ y \in Int /\ z \in Int
  BY DEF TenBits
<1>2. /\ (b[1] \div 32) % 4 = x % 4 /\ b[3] = (x \div 4) % 256
      /\ (b[2] \div 32) % 2 = (y \div 2) % 2 /\ b[4] = (y \div 4) % 256
      /\ (b[2] \div 64) % 2 = (z \div 2) % 2 /\ b[5] = (z \div 4) % 256
  BY <1>1, CoreBits
<1>3. HostX(b) = x
  BY <1>2, XRead
<1>4. y - HostY(b) \in 0..1
  BY <1>2, YRead
<1>5. z - HostZ(b) \in 0..1
  BY <1>2, ZRead
<1> QED BY <1>3, <1>4, <1>5

----------------------------------------------------------------------------
(***************************************************************************)
(* Gyroscope: 14 bits of each axis, the slow bits and the marks.           *)
(***************************************************************************)
\* The last three bytes of a frame: six bits of an axis over two marks.
LEMMA FrameByte ==
    ASSUME NEW v \in 0..63, NEW a \in 0..1, NEW c \in 0..1,
           NEW n, n = v * 4 + 2 * a + c
    PROVE  /\ n \in Byte /\ n \div 4 = v
           /\ IsSet(n, 2) <=> a = 1
           /\ IsSet(n, 1) <=> c = 1
BY DEF IsSet, Byte

\* What 14 bits hold.
FourteenBit == 0..16383

LEMMA FourteenBits ==
    ASSUME NEW v \in FourteenBit
    PROVE  (v % 256) + ((v \div 256) % 64) * 256 = v
<1> DEFINE q == v \div 256
           r == v % 256
<1>1. /\ q \in Int /\ 0 <= q /\ q < 64
      /\ r \in Int /\ v = q * 256 + r
  BY DEF FourteenBit
<1> HIDE DEF q, r
<1>2. q % 64 = q
  BY <1>1
<1>3. r + (q % 64) * 256 = v
  BY <1>1, <1>2
<1> QED BY <1>3 DEF q, r

LEMMA FitsIs == ASSUME NEW rate PROVE Fits(rate) <=> Fourteen(rate) \in FourteenBit
BY DEF Fits, FourteenBit

\* What the host computes from a value, and what it should find.
Units(v) == v - 8192
Scale(slow) == IF slow THEN 27000 ELSE 120000
Exact(rate) == 30464 * rate
Near(e, units, d) == e - units * d \in -d..d

LEMMA NearIs ==
    ASSUME NEW e \in Int, NEW d \in Int, Rounds(e, d)
    PROVE  Near(e, Quotient(e, d), d)
<1> DEFINE t == e - Quotient(e, d) * d
<1>1. t \in Int /\ t < d /\ -d < t
  BY DEF Rounds
<1> HIDE DEF t
<1>2. t \in -d..d
  BY <1>1
<1> QED BY <1>2 DEF Near, t

\* A rate that 14 bits hold is stored as it is, and its scale gives it back to
\* within one unit.
LEMMA RateStored ==
    ASSUME NEW rate \in Int, NEW v \in Stored(Fourteen(rate))
    PROVE  /\ v \in Int
           /\ Fits(rate) => v \in FourteenBit /\ Near(Exact(rate), Units(v), Scale(Slow(rate)))
<1> DEFINE e == Exact(rate)
           f == Fourteen(rate)
<1>1. e \in Int /\ Rounds(e, 27000) /\ Rounds(e, 120000)
  BY QuotientIs DEF Exact
<1>2. /\ Slow(rate) => f = 8192 + Quotient(e, 27000)
      /\ ~Slow(rate) => f = 8192 + Quotient(e, 120000)
  BY DEF Fourteen, Exact
<1> HIDE DEF e, f
<1>3. f \in Int
  BY <1>1, <1>2 DEF Rounds
<1>4. v \in Int
  <2>1. v \in {0, f % 65536} \/ v \in {f}
    BY DEF Stored, f
  <2> QED BY <1>3, <2>1
<1>5. ASSUME Fits(rate) PROVE v = f /\ f \in FourteenBit
  <2>1. f \in FourteenBit
    BY <1>5, FitsIs DEF f
  <2>2. ~(f < 0)
    BY <2>1 DEF FourteenBit
  <2>3. v \in {f}
    BY <2>2 DEF Stored, f
  <2> QED BY <2>1, <2>3
<1>6. Near(e, Quotient(e, 27000), 27000) /\ Near(e, Quotient(e, 120000), 120000)
  <2>1. 27000 \in Int /\ 120000 \in Int
    OBVIOUS
  <2> QED BY <1>1, <2>1, NearIs
<1>7. Near(e, Units(f), Scale(Slow(rate)))
  <2>1. CASE Slow(rate)
    <3>1. Units(f) = Quotient(e, 27000)
      BY <1>1, <1>2, <2>1 DEF Units, Rounds
    <3> QED BY <1>6, <2>1, <3>1 DEF Scale
  <2>2. CASE ~Slow(rate)
    <3>1. Units(f) = Quotient(e, 120000)
      BY <1>1, <1>2, <2>2 DEF Units, Rounds
    <3> QED BY <1>6, <2>2, <3>1 DEF Scale
  <2> QED BY <2>1, <2>2
<1>8. ASSUME Fits(rate) PROVE v \in FourteenBit /\ Near(e, Units(v), Scale(Slow(rate)))
  <2>1. v = f /\ f \in FourteenBit
    BY <1>5, <1>8, Zenon
  <2> QED BY <1>7, <2>1, Zenon
<1> QED BY <1>4, <1>8, Zenon DEF e

\* What a value of 14 bits becomes on the wire, and back.
LowByte(v) == v % 256
SixBits(v) == (v \div 256) % 64

LEMMA ValueRead ==
    ASSUME NEW v
    PROVE  /\ v \in Int => LowByte(v) \in Byte /\ SixBits(v) \in 0..63
           /\ v \in FourteenBit => LowByte(v) + SixBits(v) * 256 = v
<1>1. ASSUME v \in Int PROVE LowByte(v) \in Byte /\ SixBits(v) \in 0..63
  BY <1>1 DEF LowByte, SixBits, Byte
<1>2. ASSUME v \in FourteenBit PROVE LowByte(v) + SixBits(v) * 256 = v
  BY <1>2, FourteenBits DEF LowByte, SixBits
<1> QED BY <1>1, <1>2

\* The slow bits of a frame are those of its axes, its marks say what it is and
\* whether an extension is there, and no bit of a value is lost.
LEMMA GyroFrame ==
    ASSUME NEW rate, NEW yaw \in Int, NEW roll \in Int, NEW pitch \in Int,
           NEW b, b = GyroBytes(rate, yaw, roll, pitch)
    PROVE  /\ b \in Seq(Byte)
           /\ HostIsGyro(b) /\ (IsSet(b[5], 1) <=> connected)
           /\ b[1] = LowByte(yaw) /\ b[2] = LowByte(roll) /\ b[3] = LowByte(pitch)
           /\ b[4] \div 4 = SixBits(yaw) /\ b[5] \div 4 = SixBits(roll)
           /\ b[6] \div 4 = SixBits(pitch)
           /\ HostSlow(b, 1) <=> Slow(rate[1])
           /\ HostSlow(b, 2) <=> Slow(rate[2])
           /\ HostSlow(b, 3) <=> Slow(rate[3])
<1> DEFINE s(axis) == Bit(Slow(rate[axis]))
           c == Bit(connected)
<1>1. b = << LowByte(yaw), LowByte(roll), LowByte(pitch),
             SixBits(yaw) * 4 + 2 * s(1) + s(3),
             SixBits(roll) * 4 + 2 * s(2) + c,
             SixBits(pitch) * 4 + 2 >>
  BY DEF GyroBytes, LowByte, SixBits
<1>2. \A axis : s(axis) \in 0..1 /\ (s(axis) = 1 <=> Slow(rate[axis]))
  BY DEF Bit
<1>3. c \in 0..1 /\ (c = 1 <=> connected)
  BY DEF Bit
<1> HIDE DEF s, c
<1>a. s(1) \in 0..1 /\ s(2) \in 0..1 /\ s(3) \in 0..1
  BY <1>2
<1>b. SixBits(yaw) \in 0..63 /\ SixBits(roll) \in 0..63 /\ SixBits(pitch) \in 0..63
  BY ValueRead
<1>4. /\ b[4] \in Byte /\ b[4] \div 4 = SixBits(yaw)
      /\ (IsSet(b[4], 2) <=> s(1) = 1) /\ (IsSet(b[4], 1) <=> s(3) = 1)
  <2>1. b[4] = SixBits(yaw) * 4 + 2 * s(1) + s(3)
    BY <1>1
  <2> QED BY <1>a, <1>b, <2>1, FrameByte
<1>5. /\ b[5] \in Byte /\ b[5] \div 4 = SixBits(roll)
      /\ (IsSet(b[5], 2) <=> s(2) = 1) /\ (IsSet(b[5], 1) <=> c = 1)
  <2>1. b[5] = SixBits(roll) * 4 + 2 * s(2) + c
    BY <1>1
  <2> QED BY <1>a, <1>b, <1>3, <2>1, FrameByte
<1>6. b[6] \in Byte /\ b[6] \div 4 = SixBits(pitch) /\ IsSet(b[6], 2)
  <2>1. b[6] = SixBits(pitch) * 4 + 2 * 1 + 0
    BY <1>1, <1>b
  <2> QED BY <1>b, <2>1, FrameByte
<1>7. /\ b[1] = LowByte(yaw) /\ b[2] = LowByte(roll) /\ b[3] = LowByte(pitch)
      /\ b = <<b[1], b[2], b[3], b[4], b[5], b[6]>>
  BY <1>1
<1>8. b \in Seq(Byte)
  <2>1. b[1] \in Byte /\ b[2] \in Byte /\ b[3] \in Byte
    BY <1>7, ValueRead
  <2>2. <<b[1], b[2], b[3], b[4], b[5], b[6]>> \in Seq(Byte)
    BY <1>4, <1>5, <1>6, <2>1
  <2> QED BY <1>7, <2>2, Zenon
<1>9. /\ HostSlow(b, 1) <=> Slow(rate[1])
      /\ HostSlow(b, 2) <=> Slow(rate[2])
      /\ HostSlow(b, 3) <=> Slow(rate[3])
  BY <1>2, <1>4, <1>5 DEF HostSlow
<1> QED BY <1>3, <1>4, <1>5, <1>6, <1>7, <1>8, <1>9 DEF HostIsGyro

----------------------------------------------------------------------------
(***************************************************************************)
(* Nunchuk in passthrough: one bit less of each acceleration.              *)
(***************************************************************************)
\* The last byte: six bits out of two of the nunchuk's bytes.
LEMMA PassthroughByte ==
    ASSUME NEW h \in 0..1, NEW g \in 0..1, NEW f \in 0..1, NEW e \in 0..1,
           NEW c \in 0..1, NEW z \in 0..1,
           NEW n, n = h * 128 + g * 64 + f * 32 + e * 16 + c * 8 + z * 4
    PROVE  /\ n \in Byte /\ n \div 64 = 2 * h + g
           /\ (n \div 32) % 2 = f /\ (n \div 16) % 2 = e
           /\ IsSet(n, 8) <=> c = 1
           /\ IsSet(n, 4) <=> z = 1
           /\ ~IsSet(n, 2)
BY DEF IsSet, Byte

LEMMA ConnectedBit ==
    ASSUME NEW m \in Byte, NEW c \in 0..1, NEW n, n = (m \div 2) * 2 + c
    PROVE  n \in Byte /\ n \div 2 = m \div 2 /\ (IsSet(n, 1) <=> c = 1)
BY DEF IsSet, Byte

LEMMA NunchukBits ==
    ASSUME NEW m \in Byte
    PROVE  /\ m \div 128 \in 0..1 /\ m % 2 \in 0..1
           /\ (m \div 32) % 2 \in 0..1 /\ (m \div 8) % 2 \in 0..1 /\ (m \div 2) % 2 \in 0..1
           /\ ((m \div 4) % 4) - ((m \div 8) % 2) * 2 \in 0..1
           /\ ((m \div 16) % 4) - ((m \div 32) % 2) * 2 \in 0..1
           /\ IsSet(m, 2) <=> (m \div 2) % 2 = 1
           /\ IsSet(m, 1) <=> m % 2 = 1
BY DEF IsSet, Byte

LEMMA ZAxis ==
    ASSUME NEW m \in Byte, NEW n \in Byte
    PROVE  (m * 4 + n \div 64) - ((m \div 2) * 8 + (2 * (m % 2) + n \div 128) * 2) \in 0..1
BY DEF Byte

LEMMA NunchukFrame ==
    ASSUME NEW n \in [1..6 -> Byte], NEW b, b = PassthroughBytes(n)
    PROVE  /\ b \in Seq(Byte)
           /\ ~HostIsGyro(b) /\ (IsSet(b[5], 1) <=> connected)
           /\ b[1] = n[1] /\ b[2] = n[2] /\ b[3] = n[3] /\ b[4] = n[4]
           /\ b[5] \div 2 = n[5] \div 2
           /\ b[6] \div 64 = 2 * (n[5] % 2) + n[6] \div 128
           /\ (b[6] \div 32) % 2 = (n[6] \div 32) % 2
           /\ (b[6] \div 16) % 2 = (n[6] \div 8) % 2
           /\ IsSet(b[6], 8) <=> IsSet(n[6], 2)
           /\ IsSet(b[6], 4) <=> IsSet(n[6], 1)
<1> DEFINE c == Bit(connected)
<1>1. n[1] \in Byte /\ n[2] \in Byte /\ n[3] \in Byte /\ n[4] \in Byte /\ n[5] \in Byte
      /\ n[6] \in Byte
  OBVIOUS
<1>2. b = << n[1], n[2], n[3], n[4], (n[5] \div 2) * 2 + c,
             (n[5] % 2) * 128 + (n[6] \div 128) * 64 + ((n[6] \div 32) % 2) * 32
               + ((n[6] \div 8) % 2) * 16 + ((n[6] \div 2) % 2) * 8 + (n[6] % 2) * 4 >>
  BY DEF PassthroughBytes
<1>3. c \in 0..1 /\ (c = 1 <=> connected)
  BY DEF Bit
<1> HIDE DEF c
<1>4. /\ b[1] = n[1] /\ b[2] = n[2] /\ b[3] = n[3] /\ b[4] = n[4]
      /\ b[5] = (n[5] \div 2) * 2 + c
      /\ b[6] = (n[5] % 2) * 128 + (n[6] \div 128) * 64 + ((n[6] \div 32) % 2) * 32
               + ((n[6] \div 8) % 2) * 16 + ((n[6] \div 2) % 2) * 8 + (n[6] % 2) * 4
      /\ b = <<b[1], b[2], b[3], b[4], b[5], b[6]>>
  BY <1>2
<1>5. b[5] \in Byte /\ b[5] \div 2 = n[5] \div 2 /\ (IsSet(b[5], 1) <=> c = 1)
  BY <1>1, <1>3, <1>4, ConnectedBit
<1>6. /\ b[6] \in Byte /\ b[6] \div 64 = 2 * (n[5] % 2) + n[6] \div 128
      /\ (b[6] \div 32) % 2 = (n[6] \div 32) % 2 /\ (b[6] \div 16) % 2 = (n[6] \div 8) % 2
      /\ IsSet(b[6], 8) <=> (n[6] \div 2) % 2 = 1
      /\ IsSet(b[6], 4) <=> n[6] % 2 = 1
      /\ ~IsSet(b[6], 2)
  <2>1. /\ n[5] % 2 \in 0..1 /\ n[6] \div 128 \in 0..1 /\ (n[6] \div 32) % 2 \in 0..1
        /\ (n[6] \div 8) % 2 \in 0..1 /\ (n[6] \div 2) % 2 \in 0..1 /\ n[6] % 2 \in 0..1
    BY <1>1, NunchukBits
  <2> QED BY <1>4, <2>1, PassthroughByte
<1>7. b \in Seq(Byte)
  <2>1. <<b[1], b[2], b[3], b[4], b[5], b[6]>> \in Seq(Byte)
    BY <1>1, <1>4, <1>5, <1>6
  <2> QED BY <1>4, <2>1, Zenon
<1>8. (IsSet(n[6], 2) <=> (n[6] \div 2) % 2 = 1) /\ (IsSet(n[6], 1) <=> n[6] % 2 = 1)
  BY <1>1, NunchukBits
<1> QED BY <1>3, <1>4, <1>5, <1>6, <1>7, <1>8 DEF HostIsGyro

----------------------------------------------------------------------------
(***************************************************************************)
(* What was loaded last, as long as the sensors do not move.               *)
(***************************************************************************)
LEMMA SampleIs ==
    ASSUME NEW s \in Sample
    PROVE  /\ s.pressed \in SUBSET Buttons
           /\ \A axis \in 1..3 : s.mg[axis] \in Int /\ s.rate[axis] \in Int
           /\ s.nunchuk \in [1..6 -> Byte]
<1>1. /\ s.pressed \in SUBSET Buttons /\ s.mg \in [1..3 -> Counts]
      /\ s.rate \in [1..3 -> Counts]
      /\ s.nunchuk \in [1..6 -> Byte]
  BY DEF Sample
<1>2. ASSUME NEW axis \in 1..3 PROVE s.mg[axis] \in Int /\ s.rate[axis] \in Int
  <2>1. s.mg[axis] \in Counts /\ s.rate[axis] \in Counts
    BY <1>1
  <2> QED BY <2>1, CountsAreInt
<1> QED BY <1>1, <1>2

\* The gyroscope's frame for one choice of what a value below zero becomes.
GyroWire(s, bytes) ==
    \E yaw \in Stored(Fourteen(s.rate[1])),
       roll \in Stored(Fourteen(s.rate[2])),
       pitch \in Stored(Fourteen(s.rate[3])) :
        bytes = GyroBytes(s.rate, yaw, roll, pitch)

\* A core that was loaded with any numbers for the acceleration.
UnreadWire(pressed, bytes) ==
    \E x \in Int, y \in Int, z \in Int : bytes = CoreBytes(pressed, x, y, z)

\* The bytes that were loaded are those of the sample the sensors still read.
OfSample ==
    /\ wire.kind = "core" => wire.bytes = CoreOf(sample)
    /\ wire.kind = "unread" => UnreadWire(sample.pressed, wire.bytes)
    /\ wire.kind = "gyro" => GyroWire(sample, wire.bytes)
    /\ wire.kind = "nunchuk" => wire.bytes = PassthroughBytes(sample.nunchuk)

\* The mark and the extension bit of a frame.
Told(bytes, kind, plugged) ==
    /\ HostIsGyro(bytes) <=> kind = "gyro"
    /\ IsSet(bytes[5], 1) <=> plugged

\* The frame in the report is whole, and what a load gave is that frame.
FrameTold ==
    /\ frame.kind # "other" => Told(frame.bytes, frame.kind, frame.plugged)
    /\ wire.kind = "kept" => wire.bytes = frame.bytes
    /\ wire.kind \in {"gyro", "nunchuk"} =>
           /\ wire.bytes = frame.bytes
           /\ frame.kind = wire.kind /\ frame.plugged = connected

CodecsInv == TypeOK /\ OfSample /\ FrameTold

\* Every way of loading makes bytes.
LEMMA CoreIsBytes ==
    ASSUME NEW s \in Sample PROVE CoreOf(s) \in Seq(Byte)
<1>1. s.mg[1] \in Int /\ s.mg[2] \in Int /\ s.mg[3] \in Int
  BY SampleIs
<1>2. TenBit(s.mg[1]) \in Int /\ TenBit(s.mg[2]) \in Int /\ TenBit(s.mg[3]) \in Int
  BY <1>1, TenBitIs
<1> QED BY <1>2, CoreBits DEF CoreOf

LEMMA GyroIsBytes ==
    ASSUME NEW s \in Sample, NEW bytes, GyroWire(s, bytes)
    PROVE  bytes \in Seq(Byte) /\ Told(bytes, "gyro", connected)
<1>1. s.rate[1] \in Int /\ s.rate[2] \in Int /\ s.rate[3] \in Int
  BY SampleIs
<1>2. PICK yaw \in Stored(Fourteen(s.rate[1])), roll \in Stored(Fourteen(s.rate[2])),
           pitch \in Stored(Fourteen(s.rate[3])) :
        bytes = GyroBytes(s.rate, yaw, roll, pitch)
  BY DEF GyroWire
<1>3. yaw \in Int /\ roll \in Int /\ pitch \in Int
  BY <1>1, RateStored
<1> QED BY <1>2, <1>3, GyroFrame DEF Told

LEMMA CodecsInit == Init => CodecsInv
<1> SUFFICES ASSUME Init PROVE CodecsInv
  OBVIOUS
<1>1. sample \in Sample
  BY CodecsAssumption DEF Init
<1>2. wire \in [kind : Kinds, bytes : Seq(Byte)] /\ wire.kind = "none"
  BY DEF Init, Nothing, Kinds
<1>3. /\ frame \in [kind : FrameKinds, bytes : Seq(Byte), plugged : BOOLEAN]
      /\ frame.kind = "other"
  BY DEF Init, Other, FrameKinds
<1> QED BY <1>1, <1>2, <1>3 DEF Init, CodecsInv, TypeOK, OfSample, FrameTold

\* A load leaves the sample alone; its kind and bytes decide the rest.
LEMMA LoadKeeps ==
    ASSUME CodecsInv, NEW kind \in Kinds, NEW bytes \in Seq(Byte), Load(kind, bytes),
           interleave' \in BOOLEAN
    PROVE  /\ wire'.kind = kind /\ wire'.bytes = bytes
           /\ sample' = sample /\ connected' = connected
           /\ frame' \in [kind : FrameKinds, bytes : Seq(Byte), plugged : BOOLEAN] => TypeOK'
BY DEF CodecsInv, TypeOK, Load

\* A frame that is loaded whole leaves the report's frame told.
LEMMA FrameKeeps ==
    ASSUME CodecsInv, NEW kind \in {"gyro", "nunchuk"}, NEW bytes \in Seq(Byte),
           LoadFrame(kind, bytes), Told(bytes, kind, connected), interleave' \in BOOLEAN
    PROVE  TypeOK' /\ FrameTold' /\ wire'.kind = kind /\ wire'.bytes = bytes
<1>1. kind \in Kinds /\ kind \in FrameKinds /\ kind \notin {"kept", "other"}
  BY DEF Kinds, FrameKinds
<1>2. /\ wire'.kind = kind /\ wire'.bytes = bytes /\ connected' = connected
      /\ frame' \in [kind : FrameKinds, bytes : Seq(Byte), plugged : BOOLEAN] => TypeOK'
  BY <1>1, LoadKeeps DEF LoadFrame
<1>3. /\ frame'.kind = kind /\ frame'.bytes = bytes /\ frame'.plugged = connected
      /\ frame' = [kind |-> kind, bytes |-> bytes, plugged |-> connected]
  BY DEF LoadFrame
<1>4. frame' \in [kind : FrameKinds, bytes : Seq(Byte), plugged : BOOLEAN]
  BY <1>1, <1>3 DEF CodecsInv, TypeOK
<1>5. Told(frame'.bytes, frame'.kind, frame'.plugged)
  BY <1>3
<1>6. FrameTold'
  BY <1>1, <1>2, <1>3, <1>5 DEF FrameTold, Told, HostIsGyro, IsSet
<1> QED BY <1>2, <1>4, <1>6

\* A failed read leaves the frame that is there.
LEMMA KeptKeeps ==
    ASSUME CodecsInv, KeepFrame, interleave' \in BOOLEAN PROVE CodecsInv'
<1>1. frame' = frame /\ frame.bytes \in Seq(Byte) /\ "kept" \in Kinds
  BY DEF KeepFrame, CodecsInv, TypeOK, Kinds
<1>2. /\ wire'.kind = "kept" /\ wire'.bytes = frame.bytes
      /\ frame' \in [kind : FrameKinds, bytes : Seq(Byte), plugged : BOOLEAN] => TypeOK'
  BY <1>1, LoadKeeps DEF KeepFrame
<1>3. TypeOK'
  BY <1>1, <1>2 DEF CodecsInv, TypeOK
<1>4. OfSample'
  BY <1>2 DEF OfSample
<1>5. FrameTold'
  BY <1>1, <1>2 DEF CodecsInv, FrameTold, Told, HostIsGyro, IsSet
<1> QED BY <1>3, <1>4, <1>5 DEF CodecsInv

LEMMA GyroKeeps ==
    ASSUME CodecsInv, LoadGyro, interleave' \in BOOLEAN PROVE CodecsInv'
<1>1. CASE KeepFrame
  BY <1>1, KeptKeeps
<1>2. ASSUME NEW yaw \in Stored(Fourteen(sample.rate[1])),
             NEW roll \in Stored(Fourteen(sample.rate[2])),
             NEW pitch \in Stored(Fourteen(sample.rate[3])),
             LoadFrame("gyro", GyroBytes(sample.rate, yaw, roll, pitch))
      PROVE  CodecsInv'
  <2> DEFINE bytes == GyroBytes(sample.rate, yaw, roll, pitch)
  <2>1. GyroWire(sample, bytes)
    BY DEF GyroWire
  <2>2. bytes' = bytes
    <3>1. sample' = sample /\ connected' = connected
      BY <1>2 DEF LoadFrame, Load
    <3> QED BY <3>1 DEF GyroBytes
  <2>3. LoadFrame("gyro", bytes) /\ sample' = sample
    BY <1>2 DEF LoadFrame, Load
  <2> HIDE DEF bytes
  <2>4. bytes \in Seq(Byte) /\ Told(bytes, "gyro", connected)
    BY <2>1, GyroIsBytes DEF CodecsInv, TypeOK
  <2>5. TypeOK' /\ FrameTold' /\ wire'.kind = "gyro" /\ wire'.bytes = bytes
    BY <2>3, <2>4, FrameKeeps
  <2>6. GyroWire(sample, wire.bytes)'
    <3>1. wire'.bytes = bytes'
      BY <2>2, <2>5
    <3>2. \E y \in Stored(Fourteen(sample.rate[1])), r \in Stored(Fourteen(sample.rate[2])),
             p \in Stored(Fourteen(sample.rate[3])) :
            wire'.bytes = GyroBytes(sample.rate, y, r, p)'
      BY <3>1, Zenon DEF bytes
    <3> QED BY <2>3, <3>2, Zenon DEF GyroWire
  <2> QED BY <2>5, <2>6 DEF CodecsInv, OfSample
<1> QED BY <1>1, <1>2 DEF LoadGyro

LEMMA NunchukKeeps ==
    ASSUME CodecsInv, LoadFrame("nunchuk", PassthroughBytes(sample.nunchuk)),
           interleave' \in BOOLEAN
    PROVE  CodecsInv'
<1> DEFINE bytes == PassthroughBytes(sample.nunchuk)
<1>1. sample \in Sample /\ sample.nunchuk \in [1..6 -> Byte]
  BY SampleIs DEF CodecsInv, TypeOK
<1>2. bytes \in Seq(Byte) /\ ~HostIsGyro(bytes) /\ (IsSet(bytes[5], 1) <=> connected)
  BY <1>1, NunchukFrame
<1>3. Told(bytes, "nunchuk", connected)
  BY <1>2 DEF Told
<1>4. bytes' = bytes
  <2>1. sample' = sample /\ connected' = connected
    BY DEF LoadFrame, Load
  <2> QED BY <2>1 DEF PassthroughBytes
<1>5. TypeOK' /\ FrameTold' /\ wire'.kind = "nunchuk" /\ wire'.bytes = bytes
  <2>1. LoadFrame("nunchuk", bytes)
    OBVIOUS
  <2> HIDE DEF bytes
  <2> QED BY <1>2, <1>3, <2>1, FrameKeeps
<1>6. wire'.bytes = PassthroughBytes(sample.nunchuk)'
  BY <1>4, <1>5
<1> HIDE DEF bytes
<1> QED BY <1>5, <1>6 DEF CodecsInv, OfSample

\* The core depends on nothing but the sample, and leaves the frame alone.
LEMMA CoreKeeps == ASSUME CodecsInv, LoadCore PROVE CodecsInv'
<1>1. /\ interleave' \in BOOLEAN /\ frame' = frame
      /\ "core" \in Kinds /\ "unread" \in Kinds
      /\ frame' \in [kind : FrameKinds, bytes : Seq(Byte), plugged : BOOLEAN]
  BY DEF LoadCore, CodecsInv, TypeOK, Kinds
<1>2. ASSUME NEW kind \in {"core", "unread"}, NEW bytes \in Seq(Byte), Load(kind, bytes)
      PROVE  /\ TypeOK' /\ FrameTold' /\ wire'.kind = kind /\ wire'.bytes = bytes
             /\ sample' = sample
  <2>1. TypeOK' /\ wire'.kind = kind /\ wire'.bytes = bytes /\ sample' = sample
    BY <1>1, <1>2, LoadKeeps
  <2>2. FrameTold'
    BY <1>1, <2>1 DEF CodecsInv, FrameTold, Told, HostIsGyro, IsSet
  <2> QED BY <2>1, <2>2
<1>3. ASSUME Load("core", CoreOf(sample)) PROVE CodecsInv'
  <2>1. CoreOf(sample) \in Seq(Byte)
    BY CoreIsBytes DEF CodecsInv, TypeOK
  <2>2. /\ TypeOK' /\ FrameTold' /\ wire'.kind = "core" /\ sample' = sample
        /\ wire'.bytes = CoreOf(sample)
    BY <1>2, <1>3, <2>1
  <2>3. wire'.bytes = CoreOf(sample)'
    BY <2>2 DEF CoreOf
  <2> QED BY <2>2, <2>3 DEF CodecsInv, OfSample
<1>4. ASSUME NEW x \in Unset, NEW y \in Unset, NEW z \in Unset,
             Load("unread", CoreBytes(sample.pressed, x, y, z))
      PROVE  CodecsInv'
  <2>1. x \in Int /\ y \in Int /\ z \in Int
    BY CodecsAssumption, CountsAreInt
  <2>2. CoreBytes(sample.pressed, x, y, z) \in Seq(Byte)
    BY <2>1, CoreBits
  <2>3. /\ TypeOK' /\ FrameTold' /\ wire'.kind = "unread" /\ sample' = sample
        /\ wire'.bytes = CoreBytes(sample.pressed, x, y, z)
    BY <1>2, <1>4, <2>2
  <2>4. UnreadWire(sample'.pressed, wire'.bytes)
    BY <2>1, <2>3 DEF UnreadWire
  <2> QED BY <2>3, <2>4 DEF CodecsInv, OfSample
<1> QED BY <1>3, <1>4 DEF LoadCore

\* Steps that clear the part: the frame stays, or is another layout's.
LEMMA ClearKeeps ==
    ASSUME CodecsInv, wire' = Nothing, frame' = frame \/ frame' = Other,
           sample' \in Sample, connected' \in BOOLEAN, passthrough' \in BOOLEAN,
           interleave' \in BOOLEAN
    PROVE  CodecsInv'
<1>1. wire' \in [kind : Kinds, bytes : Seq(Byte)] /\ wire'.kind = "none"
  BY DEF Nothing, Kinds
<1>2. frame' \in [kind : FrameKinds, bytes : Seq(Byte), plugged : BOOLEAN]
  <2>1. <<>> \in Seq(Byte) /\ "other" \in FrameKinds
    BY DEF FrameKinds
  <2>2. Other \in [kind : FrameKinds, bytes : Seq(Byte), plugged : BOOLEAN]
    BY <2>1 DEF Other
  <2>3. frame \in [kind : FrameKinds, bytes : Seq(Byte), plugged : BOOLEAN]
    BY DEF CodecsInv, TypeOK
  <2> QED BY <2>2, <2>3
<1>3. frame'.kind # "other" => frame' = frame
  BY DEF Other
<1>4. FrameTold'
  BY <1>1, <1>3 DEF CodecsInv, FrameTold, Told, HostIsGyro, IsSet
<1> QED BY <1>1, <1>2, <1>4 DEF CodecsInv, TypeOK, OfSample

LEMMA CodecsNext == CodecsInv /\ [Next]_vars => CodecsInv'
<1> SUFFICES ASSUME CodecsInv, [Next]_vars PROVE CodecsInv'
  OBVIOUS
<1>1. CASE Sense
  <2>1. sample' \in Sample
    BY <1>1, CodecsAssumption DEF Sense, CodecsInv, TypeOK
  <2> QED BY <1>1, <2>1, ClearKeeps DEF Sense, CodecsInv, TypeOK
<1>2. CASE Switch
  BY <1>2, ClearKeeps DEF Switch, CodecsInv, TypeOK
<1>3. CASE OtherLayout
  BY <1>3, ClearKeeps DEF OtherLayout, CodecsInv, TypeOK
<1>4. CASE LoadCore
  BY <1>4, CoreKeeps
<1>5. ASSUME NEW answer \in Answers, LoadExtension(answer) PROVE CodecsInv'
  <2>1. interleave' \in BOOLEAN
    BY <1>5 DEF LoadExtension, CodecsInv, TypeOK
  <2>2. LoadFrame("nunchuk", PassthroughBytes(sample.nunchuk)) \/ LoadGyro
    BY <1>5 DEF LoadExtension
  <2> QED BY <2>1, <2>2, NunchukKeeps, GyroKeeps
<1>6. CASE UNCHANGED vars
  BY <1>6 DEF vars, CodecsInv, TypeOK, OfSample, UnreadWire, GyroWire, GyroBytes,
              PassthroughBytes, FrameTold, Told, HostIsGyro, IsSet
<1> QED BY <1>1, <1>2, <1>3, <1>4, <1>5, <1>6 DEF Next

\* Every part of a report is made of bytes, and of the sample the sensors read.
THEOREM CodecsInvariant == Spec => []CodecsInv
BY CodecsInit, CodecsNext, PTL DEF Spec

\* Whatever the parts of a report are, they are bytes.
THEOREM CodecsTypeCorrect == Spec => []TypeOK
<1>1. CodecsInv => TypeOK
  BY DEF CodecsInv
<1> QED BY <1>1, CodecsInvariant, PTL

----------------------------------------------------------------------------
(***************************************************************************)
(* The host reads back what was measured.                                  *)
(***************************************************************************)
\* What the host finds in a core of this acceleration.
AxesFound(b, x, y, z) == HostX(b) = x /\ y - HostY(b) \in 0..1 /\ z - HostZ(b) \in 0..1

LEMMA CoreMeans ==
    ASSUME wire.kind \in {"core", "unread"} => HostButtons(wire.bytes) = sample.pressed,
           (wire.kind = "core" /\ \A axis \in 1..3 : sample.mg[axis] \in FourG)
           => AxesFound(wire.bytes, TenBit(sample.mg[2]), TenBit(sample.mg[1]),
                        TenBit(sample.mg[3]))
    PROVE  HostSeesCore
BY DEF HostSeesCore, AxesFound

LEMMA CoreRead == CodecsInv => HostSeesCore
<1> SUFFICES ASSUME CodecsInv PROVE HostSeesCore
  OBVIOUS
<1> DEFINE x == TenBit(sample.mg[2])
           y == TenBit(sample.mg[1])
           z == TenBit(sample.mg[3])
<1>1. /\ sample.pressed \in SUBSET Buttons
      /\ sample.mg[1] \in Int /\ sample.mg[2] \in Int /\ sample.mg[3] \in Int
  BY SampleIs DEF CodecsInv, TypeOK
<1>2. x \in Int /\ y \in Int /\ z \in Int
  BY <1>1, TenBitIs
<1>3. wire.kind = "core" => wire.bytes = CoreBytes(sample.pressed, x, y, z)
  BY DEF CodecsInv, OfSample, CoreOf
<1>4. ASSUME wire.kind \in {"core", "unread"} PROVE HostButtons(wire.bytes) = sample.pressed
  <2>1. UnreadWire(sample.pressed, wire.bytes)
    BY <1>2, <1>3, <1>4 DEF CodecsInv, OfSample, UnreadWire
  <2>2. PICK u \in Int, v \in Int, w \in Int :
          wire.bytes = CoreBytes(sample.pressed, u, v, w)
    BY <2>1 DEF UnreadWire
  <2> QED BY <1>1, <2>2, ButtonsSeen
<1>5. ASSUME wire.kind = "core", \A axis \in 1..3 : sample.mg[axis] \in FourG
      PROVE  AxesFound(wire.bytes, x, y, z)
  <2>1. sample.mg[1] \in FourG /\ sample.mg[2] \in FourG /\ sample.mg[3] \in FourG
    BY <1>5
  <2>2. x \in TenBits /\ y \in TenBits /\ z \in TenBits
    BY <1>1, <2>1, TenBitIs
  <2>3. wire.bytes = CoreBytes(sample.pressed, x, y, z)
    BY <1>3, <1>5
  <2> HIDE DEF x, y, z
  <2> QED BY <2>2, <2>3, AxesSeen DEF AxesFound
<1>6. (wire.kind = "core" /\ \A axis \in 1..3 : sample.mg[axis] \in FourG)
      => AxesFound(wire.bytes, x, y, z)
  BY <1>5, Zenon
<1>7. wire.kind \in {"core", "unread"} => HostButtons(wire.bytes) = sample.pressed
  BY <1>4, Zenon
<1> QED BY <1>6, <1>7, CoreMeans, Zenon

\* A frame of the gyroscope, with the values that were stored.
LEMMA GyroLoaded ==
    ASSUME CodecsInv, wire.kind = "gyro"
    PROVE  \E yaw \in Stored(Fourteen(sample.rate[1])),
              roll \in Stored(Fourteen(sample.rate[2])),
              pitch \in Stored(Fourteen(sample.rate[3])) :
             /\ wire.bytes = GyroBytes(sample.rate, yaw, roll, pitch)
             /\ sample.rate[1] \in Int /\ sample.rate[2] \in Int /\ sample.rate[3] \in Int
             /\ yaw \in Int /\ roll \in Int /\ pitch \in Int
<1>1. sample \in Sample /\ GyroWire(sample, wire.bytes)
  BY DEF CodecsInv, OfSample, TypeOK
<1>2. sample.rate[1] \in Int /\ sample.rate[2] \in Int /\ sample.rate[3] \in Int
  BY <1>1, SampleIs
<1>3. PICK yaw \in Stored(Fourteen(sample.rate[1])), roll \in Stored(Fourteen(sample.rate[2])),
           pitch \in Stored(Fourteen(sample.rate[3])) :
        wire.bytes = GyroBytes(sample.rate, yaw, roll, pitch)
  BY <1>1 DEF GyroWire
<1>4. yaw \in Int /\ roll \in Int /\ pitch \in Int
  BY <1>2, RateStored
<1> QED BY <1>2, <1>3, <1>4

\* One axis: its value and its slow bit give the rate back.
AxisRead(b, axis, rate) ==
    Fits(rate) => Near(Exact(rate), Units(HostValue(b, axis)), Scale(HostSlow(b, axis)))

LEMMA AxisIsRead ==
    ASSUME NEW rate \in Int, NEW v \in Stored(Fourteen(rate)), NEW b, NEW axis,
           b[axis] = LowByte(v), b[axis + 3] \div 4 = SixBits(v),
           HostSlow(b, axis) <=> Slow(rate)
    PROVE  AxisRead(b, axis, rate)
<1> SUFFICES ASSUME Fits(rate)
             PROVE  Near(Exact(rate), Units(HostValue(b, axis)), Scale(HostSlow(b, axis)))
  BY DEF AxisRead
<1>1. v \in FourteenBit /\ Near(Exact(rate), Units(v), Scale(Slow(rate)))
  BY RateStored
<1>2. HostValue(b, axis) = LowByte(v) + SixBits(v) * 256
  BY DEF HostValue
<1>3. HostValue(b, axis) = v
  BY <1>1, <1>2, ValueRead
<1>4. Scale(HostSlow(b, axis)) = Scale(Slow(rate))
  BY DEF Scale
<1> QED BY <1>1, <1>3, <1>4

LEMMA RatesRead == CodecsInv => HostSeesRates
<1> SUFFICES ASSUME CodecsInv, wire.kind = "gyro", NEW axis \in 1..3
             PROVE  AxisRead(wire.bytes, axis, sample.rate[axis])
  BY DEF HostSeesRates, AxisRead, Near, Units, Scale, Exact
<1> DEFINE b == wire.bytes
           rate == sample.rate
<1>1. PICK yaw \in Stored(Fourteen(rate[1])), roll \in Stored(Fourteen(rate[2])),
           pitch \in Stored(Fourteen(rate[3])) :
        /\ b = GyroBytes(rate, yaw, roll, pitch)
        /\ rate[1] \in Int /\ rate[2] \in Int /\ rate[3] \in Int
        /\ yaw \in Int /\ roll \in Int /\ pitch \in Int
  BY GyroLoaded
<1> HIDE DEF b, rate
<1>2. /\ b[1] = LowByte(yaw) /\ b[2] = LowByte(roll) /\ b[3] = LowByte(pitch)
      /\ b[4] \div 4 = SixBits(yaw) /\ b[5] \div 4 = SixBits(roll)
      /\ b[6] \div 4 = SixBits(pitch)
      /\ HostSlow(b, 1) <=> Slow(rate[1])
      /\ HostSlow(b, 2) <=> Slow(rate[2])
      /\ HostSlow(b, 3) <=> Slow(rate[3])
  BY <1>1, GyroFrame
<1>3. 1 + 3 = 4 /\ 2 + 3 = 5 /\ 3 + 3 = 6
  OBVIOUS
<1>4. AxisRead(b, 1, rate[1])
  BY <1>1, <1>2, <1>3, AxisIsRead
<1>5. AxisRead(b, 2, rate[2])
  BY <1>1, <1>2, <1>3, AxisIsRead
<1>6. AxisRead(b, 3, rate[3])
  BY <1>1, <1>2, <1>3, AxisIsRead
<1> QED BY <1>4, <1>5, <1>6 DEF b, rate

LEMMA FramesTold == CodecsInv => HostTellsFrames
BY DEF CodecsInv, FrameTold, Told, HostTellsFrames

LEMMA NunchukRead == CodecsInv => HostSeesNunchuk
<1> SUFFICES ASSUME CodecsInv, wire.kind = "nunchuk" PROVE HostSeesNunchuk
  BY DEF HostSeesNunchuk
<1> DEFINE n == sample.nunchuk
           b == wire.bytes
<1>1. b = PassthroughBytes(n) /\ n \in [1..6 -> Byte]
  BY SampleIs DEF CodecsInv, OfSample, TypeOK
<1> HIDE DEF n, b
<1>2. /\ b[1] = n[1] /\ b[2] = n[2] /\ b[3] = n[3] /\ b[4] = n[4]
      /\ b[5] \div 2 = n[5] \div 2
      /\ b[6] \div 64 = 2 * (n[5] % 2) + n[6] \div 128
      /\ (b[6] \div 32) % 2 = (n[6] \div 32) % 2
      /\ (b[6] \div 16) % 2 = (n[6] \div 8) % 2
      /\ IsSet(b[6], 8) <=> IsSet(n[6], 2)
      /\ IsSet(b[6], 4) <=> IsSet(n[6], 1)
  BY <1>1, NunchukFrame
<1>3. n[3] \in Byte /\ n[4] \in Byte /\ n[5] \in Byte /\ n[6] \in Byte
  BY <1>1
<1> DEFINE direct == Decompose(n)
           host == HostNunchuk(b)
<1>4. host.stick = direct.stick /\ host.c = direct.c /\ host.z = direct.z
  BY <1>2 DEF Decompose, HostNunchuk
<1>5. direct.accel[1] - host.accel[1] \in 0..1
  <2>1. direct.accel[1] = n[3] * 4 + ((n[6] \div 4) % 4)
    BY DEF Decompose
  <2>2. host.accel[1] = n[3] * 4 + ((n[6] \div 8) % 2) * 2
    BY <1>2 DEF HostNunchuk
  <2> HIDE DEF direct, host
  <2>3. ((n[6] \div 4) % 4) - ((n[6] \div 8) % 2) * 2 \in 0..1
    BY <1>3, NunchukBits
  <2> QED BY <1>3, <2>1, <2>2, <2>3, SMTT(30) DEF Byte
<1>6. direct.accel[2] - host.accel[2] \in 0..1
  <2>1. direct.accel[2] = n[4] * 4 + ((n[6] \div 16) % 4)
    BY DEF Decompose
  <2>2. host.accel[2] = n[4] * 4 + ((n[6] \div 32) % 2) * 2
    BY <1>2 DEF HostNunchuk
  <2> HIDE DEF direct, host
  <2>3. ((n[6] \div 16) % 4) - ((n[6] \div 32) % 2) * 2 \in 0..1
    BY <1>3, NunchukBits
  <2> QED BY <1>3, <2>1, <2>2, <2>3, SMTT(30) DEF Byte
<1>7. direct.accel[3] - host.accel[3] \in 0..1
  <2>1. direct.accel[3] = n[5] * 4 + n[6] \div 64
    BY DEF Decompose
  <2>2. host.accel[3] = (n[5] \div 2) * 8 + (2 * (n[5] % 2) + n[6] \div 128) * 2
    BY <1>2 DEF HostNunchuk
  <2> HIDE DEF direct, host
  <2> QED BY <1>3, <2>1, <2>2, ZAxis
<1> QED BY <1>4, <1>5, <1>6, <1>7 DEF HostSeesNunchuk, n, b

----------------------------------------------------------------------------
(***************************************************************************)
(* The theorems.                                                           *)
(***************************************************************************)
\* load_buttons_buffer and load_accelerometer_buffer share two bytes: for every
\* set of buttons and every acceleration up to 4 g the host reads both back, and
\* the buttons even when the acceleration was never read.
THEOREM CoreReachesHost == Spec => []HostSeesCore
BY CodecsInvariant, CoreRead, PTL

\* load_wii_motion_plus_buffer: every rate that 14 bits hold is read back to
\* within one unit, with the scale that the slow bit of its own axis selects.
THEOREM RatesReachHost == Spec => []HostSeesRates
BY CodecsInvariant, RatesRead, PTL

\* load_wii_motion_plus_buffer and load_nunchuck_passthrough_buffer: whatever was
\* measured and however many reads failed since, what stands in the report is one
\* whole frame, with the mark and the extension bit it was given when it was made.
THEOREM FramesAreTold == Spec => []HostTellsFrames
BY CodecsInvariant, FramesTold, PTL

\* load_nunchuck_passthrough_buffer: every state of a nunchuk is read back as if
\* it had been asked directly, but for the lowest bit of each acceleration.
THEOREM NunchukReachesHost == Spec => []HostSeesNunchuk
BY CodecsInvariant, NunchukRead, PTL

============================================================================
