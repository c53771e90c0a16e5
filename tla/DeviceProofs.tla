---------------------------- MODULE DeviceProofs ----------------------------
(***************************************************************************)
(* Proofs about the packetizer of a simulated device, for all sizes of     *)
(* frames, packets, audio and fields, and about the device as a whole.     *)
(***************************************************************************)
EXTENDS MCDevice, DeviceStatusProofs, DeviceMediaProofs

-----------------------------------------------------------------------------
(* Division with a remainder *)

\* A quotient and a remainder are determined by what they are of.
LEMMA Remainder ==
  ASSUME NEW n \in Nat, NEW m \in Nat \ {0}
  PROVE  /\ n \div m \in Nat /\ n % m \in Nat /\ n % m < m
         /\ n = m * (n \div m) + (n % m)
OBVIOUS

LEMMA RemainderUnique ==
  ASSUME NEW n \in Nat, NEW m \in Nat \ {0}, NEW q \in Nat, NEW r \in Nat,
         r < m, n = m * q + r
  PROVE  n \div m = q /\ n % m = r
OBVIOUS

\* A remainder may be taken before or after an addition.
LEMMA RemainderOfSum ==
  ASSUME NEW n \in Nat, NEW k \in Nat, NEW m \in Nat \ {0}
  PROVE  ((n % m) + k) % m = (n + k) % m
<1> DEFINE q == n \div m
           r == n % m
           p == (r + k) \div m
           s == (r + k) % m
<1>1. q \in Nat /\ r \in Nat /\ n = m * q + r
  BY Remainder
<1>2. p \in Nat /\ s \in Nat /\ s < m /\ r + k = m * p + s
  <2>1. r + k \in Nat
    BY <1>1
  <2> QED BY <2>1, Remainder
<1> HIDE DEF q, r, p, s
<1>3. n + k = m * q + (m * p + s)
  BY <1>1, <1>2
<1>4. m * q + m * p = m * (q + p)
  BY <1>1, <1>2
<1>5. m * q \in Nat /\ m * p \in Nat /\ m * (q + p) \in Nat
  BY <1>1, <1>2
<1>6. n + k = m * (q + p) + s
  BY <1>2, <1>3, <1>4, <1>5
<1>7. (n + k) % m = s
  <2>1. n + k \in Nat /\ q + p \in Nat
    BY <1>1, <1>2
  <2> QED BY <1>2, <1>6, <2>1, RemainderUnique
<1> QED BY <1>7 DEF s, r

\* Dividing by a product is dividing twice.
LEMMA DivideTwice ==
  ASSUME NEW n \in Nat, NEW a \in Nat \ {0}, NEW b \in Nat \ {0}, NEW c, c = a * b
  PROVE  n \div c = (n \div a) \div b
<1> DEFINE q == n \div a
           r == n % a
           p == q \div b
           s == q % b
<1>1. q \in Nat /\ r \in Nat /\ r < a /\ n = a * q + r
  BY Remainder
<1>2. p \in Nat /\ s \in Nat /\ s < b /\ q = b * p + s
  BY <1>1, Remainder
<1> HIDE DEF q, r, p, s
<1>3. a * q = a * b * p + a * s
  BY <1>2
<1>4. a * s + r < a * b
  <2>1. s + 1 <= b /\ b - (s + 1) \in Nat
    BY <1>2
  <2>2. a * b = a * (s + 1) + a * (b - (s + 1))
    BY <1>2
  <2>3. a * (b - (s + 1)) \in Nat
    BY <2>1
  <2>4. a * (s + 1) = a * s + a /\ a * s \in Nat
    BY <1>2
  <2> QED BY <1>1, <2>2, <2>3, <2>4
<1>5. a * b \in Nat \ {0} /\ a * s + r \in Nat /\ a * b * p \in Nat /\ a * s \in Nat
  BY <1>1, <1>2
<1>6. n = (a * b) * p + (a * s + r)
  BY <1>1, <1>2, <1>3, <1>5
<1>7. n \div (a * b) = p
  BY <1>2, <1>4, <1>5, <1>6, RemainderUnique
<1> QED BY <1>7 DEF p, q

-----------------------------------------------------------------------------
(* Time stamps *)

\* The five fields of a PTS, as a sequence.
LEMMA PtsFields ==
  ASSUME NEW n \in Nat
  PROVE  EncodePts(n) =
           <<32 + Field(n, TopUnit, 8), Field(n, Unit3, Octet),
             Field(n, Unit2, Septet) * 2 + 1, Field(n, Unit1, Octet),
             Field(n, 1, Septet) * 2 + 1>>
BY DEF EncodePts, LowFields

\* The fields of a number that does not reach the top one make up the number.
LEMMA FieldsAddUp ==
  ASSUME NEW n \in Nat, n < TopUnit
  PROVE  /\ Field(n, TopUnit, 8) = 0
         /\ \A f \in {Field(n, Unit3, Octet), Field(n, Unit2, Septet),
                      Field(n, Unit1, Octet), Field(n, 1, Septet)} : f \in Nat
         /\ n = Field(n, Unit3, Octet) * Unit3 + Field(n, Unit2, Septet) * Unit2
                + Field(n, Unit1, Octet) * Unit1 + Field(n, 1, Septet)
<1> DEFINE q1 == n \div Septet    r1 == n % Septet
           q2 == q1 \div Octet    r2 == q1 % Octet
           q3 == q2 \div Septet   r3 == q2 % Septet
           q4 == q3 \div Octet    r4 == q3 % Octet
<1>0. Octet \in Nat \ {0} /\ Septet \in Nat \ {0}
  BY PacketAssumption DEF PacketAssumption
<1>1. q1 \in Nat /\ r1 \in Nat /\ n = Septet * q1 + r1
  BY <1>0, Remainder
<1>2. q2 \in Nat /\ r2 \in Nat /\ q1 = Octet * q2 + r2
  BY <1>0, <1>1, Remainder
<1>3. q3 \in Nat /\ r3 \in Nat /\ q2 = Septet * q3 + r3
  BY <1>0, <1>2, Remainder
<1>4. q4 \in Nat /\ r4 \in Nat /\ r4 < Octet /\ q3 = Octet * q4 + r4
  BY <1>0, <1>3, Remainder
<1>5. /\ Unit1 = Septet /\ Unit2 = Unit1 * Octet /\ Unit3 = Unit2 * Septet
      /\ TopUnit = Unit3 * Octet
      /\ Unit1 \in Nat \ {0} /\ Unit2 \in Nat \ {0} /\ Unit3 \in Nat \ {0} /\ TopUnit \in Nat \ {0}
  BY <1>0 DEF Unit1, Unit2, Unit3, TopUnit
<1>6. q1 = n \div Septet /\ q2 = q1 \div Octet /\ q3 = q2 \div Septet /\ q4 = q3 \div Octet
  OBVIOUS
<1>7. r1 = n % Septet /\ r2 = q1 % Octet /\ r3 = q2 % Septet /\ r4 = q3 % Octet
  OBVIOUS
<1> HIDE DEF q1, q2, q3, q4, r1, r2, r3, r4
<1>8. n \div Unit2 = q2
  <2>1. \A c : c = Septet * Octet => n \div c = (n \div Septet) \div Octet
    BY <1>0, DivideTwice
  <2>2. Unit2 = Septet * Octet
    BY <1>5
  <2>3. n \div Unit2 = (n \div Septet) \div Octet
    BY <2>1, <2>2, Zenon
  <2> QED BY <1>6, <2>3
<1>9. n \div Unit3 = q3
  <2>1. n \div Unit3 = (n \div Unit2) \div Septet
    BY <1>0, <1>5, DivideTwice
  <2> QED BY <1>5, <1>6, <1>8, <2>1
<1>10. n \div TopUnit = q4
  <2>1. n \div TopUnit = (n \div Unit3) \div Octet
    BY <1>0, <1>5, DivideTwice
  <2> QED BY <1>5, <1>6, <1>9, <2>1
<1>11. q4 = 0
  <2>1. n \div TopUnit = 0
    BY <1>5, RemainderUnique
  <2> QED BY <1>10, <2>1
<1>12. /\ Field(n, TopUnit, 8) = 0 /\ Field(n, Unit3, Octet) = r4
       /\ Field(n, Unit2, Septet) = r3 /\ Field(n, Unit1, Octet) = r2
       /\ Field(n, 1, Septet) = r1
  <2>1. n \div 1 = n
    OBVIOUS
  <2>2. Field(n, TopUnit, 8) = 0
    BY <1>10, <1>11 DEF Field
  <2> QED BY <1>5, <1>6, <1>7, <1>8, <1>9, <2>1, <2>2 DEF Field
<1>13. q3 = r4
  BY <1>0, <1>4, <1>11
<1> DEFINE a == Septet
           o == Octet
<1>14. /\ \A x, y, z \in Nat : x * (y + z) = x * y + x * z
       /\ \A x, y, z \in Nat : x * (y * z) = (x * y) * z
       /\ \A x, y \in Nat : x * y = y * x /\ x * y \in Nat
  OBVIOUS
<1>15. n = a * (o * q2) + a * r2 + r1
  <2>1. o * q2 \in Nat /\ a \in Nat
    BY <1>0, <1>2
  <2>2. a * (o * q2 + r2) = a * (o * q2) + a * r2
    BY <1>2, <1>14, <2>1
  <2> QED BY <1>1, <1>2, <2>2
<1>16. a * (o * q2) = Unit3 * r4 + Unit2 * r3
  <2>1. a * (o * q2) = Unit2 * q2
    BY <1>0, <1>2, <1>14 DEF Unit2, Unit1
  <2>2. Unit2 * (a * r4 + r3) = Unit2 * (a * r4) + Unit2 * r3
    BY <1>0, <1>3, <1>4, <1>5, <1>14
  <2>3. Unit2 * (a * r4) = Unit3 * r4
    BY <1>0, <1>4, <1>5, <1>14 DEF Unit3
  <2> QED BY <1>3, <1>13, <2>1, <2>2, <2>3
<1>17. n = r4 * Unit3 + r3 * Unit2 + r2 * Unit1 + r1
  <2>1. Unit3 * r4 = r4 * Unit3 /\ Unit2 * r3 = r3 * Unit2 /\ a * r2 = r2 * Unit1
    BY <1>0, <1>2, <1>3, <1>4, <1>5, <1>14 DEF Unit1
  <2> QED BY <1>15, <1>16, <2>1
<1> QED BY <1>1, <1>2, <1>3, <1>4, <1>12, <1>17

\* A PTS below 2^30 is read back from its five bytes, for every width of the
\* fields; above, the code's first byte does not have the marker where it is
\* looked for.
LEMMA PtsRoundTrip ==
  ASSUME NEW n \in Nat, n < TopUnit
  PROVE  ReadPts(EncodePts(n)) = n
<1> DEFINE f4 == Field(n, Unit3, Octet)   f3 == Field(n, Unit2, Septet)
           f2 == Field(n, Unit1, Octet)   f1 == Field(n, 1, Septet)
<1>1. /\ Field(n, TopUnit, 8) = 0
      /\ f4 \in Nat /\ f3 \in Nat /\ f2 \in Nat /\ f1 \in Nat
      /\ n = f4 * Unit3 + f3 * Unit2 + f2 * Unit1 + f1
  BY FieldsAddUp
<1>2. EncodePts(n) = <<32 + 0, f4, f3 * 2 + 1, f2, f1 * 2 + 1>>
  BY <1>1, PtsFields
<1> HIDE DEF f4, f3, f2, f1
<1>3. ReadPts(EncodePts(n)) =
        (((32 + 0) \div 2) % 8) * TopUnit + f4 * Unit3 + ((f3 * 2 + 1) \div 2) * Unit2
        + f2 * Unit1 + ((f1 * 2 + 1) \div 2)
  BY <1>2 DEF ReadPts
<1>4. ((32 + 0) \div 2) % 8 = 0 /\ (f3 * 2 + 1) \div 2 = f3 /\ (f1 * 2 + 1) \div 2 = f1
  BY <1>1
<1>5. Unit1 \in Nat /\ Unit2 \in Nat /\ Unit3 \in Nat /\ TopUnit \in Nat
  BY PacketAssumption DEF PacketAssumption, Unit1, Unit2, Unit3, TopUnit
<1> QED BY <1>1, <1>3, <1>4, <1>5

-----------------------------------------------------------------------------
(* Packets *)

\* The packets of a frame of this size, the first of which has the sequence
\* number s: _packetize with its state at that time as parameters.
Cut(size, s, stamp) ==
    [i \in 1..PacketCount(size) |->
        [seq |-> After(s, i - 1), stamp |-> stamp,
         marker |-> IsLast((i - 1) * mtu, size),
         from |-> (i - 1) * mtu, to |-> Lesser((i - 1) * mtu + mtu, size)]]

\* A frame has as many packets as it takes, and no more.
LEMMA EnoughPackets ==
  ASSUME NEW size \in Nat \ {0}, mtu \in Nat \ {0}
  PROVE  LET n == PacketCount(size)
         IN  n \in Nat \ {0} /\ (n - 1) * mtu < size /\ size <= n * mtu
<1> DEFINE n == PacketCount(size)
           r == (size + mtu - 1) % mtu
<1>1. size + mtu - 1 \in Nat
  OBVIOUS
<1>2. n \in Nat /\ r \in Nat /\ r < mtu /\ size + mtu - 1 = mtu * n + r
  BY <1>1, Remainder DEF PacketCount
<1> HIDE DEF n, r
<1>3. mtu * n = n * mtu /\ n * mtu \in Nat /\ (n - 1) * mtu = n * mtu - mtu
  BY <1>2
<1>4. n # 0
  BY <1>2, <1>3
<1> QED BY <1>2, <1>3, <1>4 DEF n

\* Where packet i of a frame begins and ends.
LEMMA PacketBounds ==
  ASSUME NEW size \in Nat \ {0}, mtu \in Nat \ {0}, NEW i \in 1..PacketCount(size)
  PROVE  /\ (i - 1) * mtu \in Nat /\ (i - 1) * mtu < size
         /\ (i - 1) * mtu + mtu = i * mtu
         /\ i * mtu >= size <=> i = PacketCount(size)
<1> DEFINE n == PacketCount(size)
<1>1. n \in Nat \ {0} /\ (n - 1) * mtu < size /\ size <= n * mtu
  BY EnoughPackets
<1>2. i \in Nat /\ 1 <= i /\ i <= n
  BY <1>1
<1> HIDE DEF n
<1>3. \A x, y \in Nat : x <= y => x * mtu \in Nat /\ y * mtu \in Nat /\ x * mtu <= y * mtu
  <2> SUFFICES ASSUME NEW x \in Nat, NEW y \in Nat, x <= y
               PROVE  x * mtu \in Nat /\ y * mtu \in Nat /\ x * mtu <= y * mtu
    OBVIOUS
  <2>1. y - x \in Nat /\ y * mtu = x * mtu + (y - x) * mtu
    OBVIOUS
  <2>2. x * mtu \in Nat /\ y * mtu \in Nat /\ (y - x) * mtu \in Nat
    BY <2>1
  <2> QED BY <2>1, <2>2
<1>4. i - 1 \in Nat /\ n - 1 \in Nat /\ i - 1 <= n - 1
  BY <1>1, <1>2
<1>5. (i - 1) * mtu \in Nat /\ (i - 1) * mtu <= (n - 1) * mtu /\ (n - 1) * mtu \in Nat
  BY <1>3, <1>4
<1>6. (i - 1) * mtu + mtu = i * mtu
  BY <1>2
<1>7. i # n => i * mtu <= (n - 1) * mtu
  <2>1. i # n => i <= n - 1
    BY <1>1, <1>2
  <2> QED BY <1>2, <1>3, <1>4, <2>1
<1>8. i * mtu \in Nat
  BY <1>2
<1>9. i * mtu >= size <=> i = n
  BY <1>1, <1>5, <1>7, <1>8
<1> QED BY <1>1, <1>5, <1>6, <1>9 DEF n

\* The packets of a frame are a sequence of packets, the first of which is
\* there.
LEMMA CutIsSequence ==
  ASSUME NEW size \in Nat \ {0}, mtu \in Nat \ {0}, NEW s \in 0..SeqRange - 1,
         NEW stamp \in Nat, NEW c, c = Cut(size, s, stamp)
  PROVE  /\ c \in Seq(Packet) /\ Len(c) = PacketCount(size)
         /\ Len(c) \in Nat \ {0} /\ c # << >>
<1> DEFINE n == PacketCount(size)
<1>1. n \in Nat \ {0}
  BY EnoughPackets
<1>2. ASSUME NEW i \in 1..n PROVE c[i] \in Packet
  <2>1. /\ c[i].seq = After(s, i - 1) /\ c[i].stamp = stamp
        /\ c[i] = [seq |-> After(s, i - 1), stamp |-> stamp,
                   marker |-> IsLast((i - 1) * mtu, size),
                   from |-> (i - 1) * mtu, to |-> Lesser((i - 1) * mtu + mtu, size)]
    BY DEF Cut
  <2>2. (i - 1) * mtu \in Nat
    BY PacketBounds
  <2>3. Lesser((i - 1) * mtu + mtu, size) \in Nat
    BY <2>2 DEF Lesser
  <2>4. After(s, i - 1) \in 0..SeqRange - 1
    <3>1. SeqRange \in Nat \ {0} /\ s + (i - 1) \in Nat
      BY <1>1, PacketAssumption DEF PacketAssumption
    <3> QED BY <3>1, Remainder DEF After
  <2>5. IsLast((i - 1) * mtu, size) \in BOOLEAN
    BY DEF IsLast
  <2> QED BY <2>1, <2>2, <2>3, <2>4, <2>5 DEF Packet
<1>3. DOMAIN c = 1..n
  BY DEF Cut
<1>4. c = [i \in 1..n |-> c[i]]
  BY DEF Cut
<1> HIDE DEF n
<1>5. c \in Seq(Packet) /\ Len(c) = n
  BY <1>1, <1>2, <1>3, <1>4
<1>6. c # << >>
  BY <1>1, <1>5
<1> QED BY <1>1, <1>5, <1>6 DEF n

\* What FrameIsWhole says of the packets of a frame.
Whole(c) ==
    /\ c[1].from = 0
    /\ \A i \in 1..Len(c) :
         /\ c[i].from < c[i].to /\ c[i].to <= c[i].from + mtu
         /\ c[i].marker <=> i = Len(c)
         /\ i < Len(c) => c[i].to = c[i + 1].from

\* A frame cut into packets can be put together.
LEMMA CutIsWhole ==
  ASSUME NEW size \in Nat \ {0}, mtu \in Nat \ {0}, NEW s \in 0..SeqRange - 1,
         NEW stamp \in Nat, NEW c, c = Cut(size, s, stamp), Len(c) = PacketCount(size)
  PROVE  Whole(c)
<1> DEFINE n == PacketCount(size)
<1>1. n \in Nat \ {0}
  BY EnoughPackets
<1>2. ASSUME NEW i \in 1..n
      PROVE  /\ c[i].from = (i - 1) * mtu
             /\ c[i].to = Lesser((i - 1) * mtu + mtu, size)
             /\ c[i].marker = IsLast((i - 1) * mtu, size)
  BY DEF Cut
<1>3. c[1].from = 0
  <2>1. 1 \in 1..n /\ (1 - 1) * mtu = 0
    BY <1>1
  <2> QED BY <1>2, <2>1
<1>4. ASSUME NEW i \in 1..n
      PROVE  /\ c[i].from < c[i].to /\ c[i].to <= c[i].from + mtu
             /\ c[i].marker <=> i = n
             /\ i < n => c[i].to = c[i + 1].from
  <2>1. /\ (i - 1) * mtu \in Nat /\ (i - 1) * mtu < size
        /\ (i - 1) * mtu + mtu = i * mtu
        /\ i * mtu >= size <=> i = n
    BY PacketBounds
  <2>2. c[i].from < c[i].to /\ c[i].to <= c[i].from + mtu
    BY <1>2, <2>1 DEF Lesser
  <2>3. c[i].marker <=> i = n
    BY <1>2, <2>1 DEF IsLast
  <2>4. ASSUME i < n PROVE c[i].to = c[i + 1].from
    <3>1. i + 1 \in 1..n /\ (i + 1) - 1 = i
      BY <1>1, <2>4
    <3>2. c[i + 1].from = i * mtu
      BY <1>2, <3>1
    <3>3. c[i].to = i * mtu
      BY <1>1, <1>2, <2>1, <2>4 DEF Lesser
    <3> QED BY <3>2, <3>3
  <2> QED BY <2>2, <2>3, <2>4
<1> QED BY <1>3, <1>4 DEF Whole

-----------------------------------------------------------------------------
(* Audio *)

\* The slices of a frame lie in the fixture, begin where they should, and end
\* where those of the next frame begin.
LEMMA SlicesGoOn ==
  ASSUME audio \in AudioSizes, audio > 0, NEW i \in Nat, NEW c, c = AudioSlices(i)
  PROVE  /\ Len(c) \in {1, 2} /\ DOMAIN c = 1..Len(c)
         /\ \A j \in DOMAIN c : c[j].to \in 0..audio
         /\ c[1].from = AudioStart(i)
         /\ c[Len(c)].to % audio = AudioStart(i + 1)
<1> DEFINE a == AudioStart(i)
           to == Lesser(a + AudioStep, audio)
           short == AudioStep - (to - a)
<1>0. audio \in Nat \ {0} /\ AudioStep \in Nat \ {0} /\ AudioStep <= audio
  BY PacketAssumption DEF PacketAssumption
<1>1. a \in Nat /\ a < audio
  <2>1. i * AudioStep \in Nat
    BY <1>0
  <2> QED BY <1>0, <2>1, Remainder DEF AudioStart
<1>2. (a + AudioStep) % audio = AudioStart(i + 1)
  <2>1. i * AudioStep \in Nat /\ (i + 1) * AudioStep = i * AudioStep + AudioStep
    BY <1>0
  <2>2. \A x \in Nat : ((x % audio) + AudioStep) % audio = (x + AudioStep) % audio
    BY <1>0, RemainderOfSum
  <2>3. (((i * AudioStep) % audio) + AudioStep) % audio = (i * AudioStep + AudioStep) % audio
    BY <2>1, <2>2
  <2> QED BY <2>1, <2>3 DEF AudioStart
<1>3. a = AudioStart(i) /\ c = IF short = 0 THEN <<[from |-> a, to |-> to]>>
                               ELSE <<[from |-> a, to |-> to],
                                      [from |-> 0, to |-> Lesser(short, audio)]>>
  BY <1>0 DEF AudioSlices
<1> HIDE DEF a
<1>4. CASE a + AudioStep <= audio
  <2>1. to = a + AudioStep /\ short = 0
    BY <1>0, <1>1, <1>4 DEF Lesser
  <2>2. c = <<[from |-> a, to |-> a + AudioStep]>>
    BY <1>3, <2>1
  <2>3. Len(c) = 1 /\ DOMAIN c = 1..1 /\ c[1].from = a /\ c[1].to = a + AudioStep
    BY <2>2
  <2>4. \A j \in DOMAIN c : c[j].to \in 0..audio
    BY <1>0, <1>1, <1>4, <2>3
  <2> QED BY <1>2, <1>3, <2>3, <2>4
<1>5. CASE a + AudioStep > audio
  <2> DEFINE rest == a + AudioStep - audio
  <2>1. to = audio /\ short = rest /\ rest \in Nat \ {0} /\ rest < audio
    BY <1>0, <1>1, <1>5 DEF Lesser
  <2>2. Lesser(short, audio) = rest
    BY <2>1 DEF Lesser
  <2> HIDE DEF to, short
  <2>3. c = <<[from |-> a, to |-> audio], [from |-> 0, to |-> rest]>>
    BY <1>3, <2>1, <2>2
  <2>4. /\ Len(c) = 2 /\ DOMAIN c = 1..2
        /\ c[1].from = a /\ c[1].to = audio /\ c[2].to = rest
    BY <2>3
  <2>5. \A j \in DOMAIN c : c[j].to \in 0..audio
    BY <1>0, <2>1, <2>4
  <2>6. rest % audio = (a + AudioStep) % audio
    <3>1. a + AudioStep = audio * 1 + rest /\ a + AudioStep \in Nat
      BY <1>0, <1>1
    <3>2. (a + AudioStep) % audio = rest
      BY <1>0, <2>1, <3>1, RemainderUnique
    <3>3. rest = audio * 0 + rest
      BY <1>0, <2>1
    <3>4. rest % audio = rest
      BY <1>0, <2>1, <3>3, RemainderUnique
    <3> QED BY <3>2, <3>4
  <2> QED BY <1>2, <1>3, <2>4, <2>5, <2>6
<1> QED BY <1>0, <1>1, <1>4, <1>5

-----------------------------------------------------------------------------
(* The stream *)

\* What was sent last is one whole frame with its audio, and the counters
\* stand right behind it.
PacketInv ==
    /\ fixture \in [1..FixtureFrames -> FrameSizes]
    /\ mtu \in Mtus /\ audio \in AudioSizes
    /\ sequence \in 0..SeqRange - 1
    /\ index \in Nat /\ pts \in Nat /\ overflow \in BOOLEAN
    /\ \/ sent = << >> /\ chunk = << >>
       \/ /\ \E size \in Nat \ {0}, s \in 0..SeqRange - 1, stamp \in Nat :
               /\ sent = Cut(size, s, stamp)
               /\ sequence = After(s, PacketCount(size))
               /\ pts = stamp + ClockStep
          /\ \E i \in Nat : index = i + 1 /\ chunk = AudioSlices(i)

\* PacketInv is inductive.
LEMMA PacketInvariant == PacketSpec => []PacketInv
<1>1. PacketInit => PacketInv
  <2>1. 0 \in 0..SeqRange - 1
    BY PacketAssumption DEF PacketAssumption
  <2>2. 0 \in Nat /\ FALSE \in BOOLEAN
    OBVIOUS
  <2> QED BY <2>1, <2>2 DEF PacketInit, PacketInv
<1>2. PacketInv /\ [PacketNext]_packetVars => PacketInv'
  <2> SUFFICES ASSUME PacketInv, [PacketNext]_packetVars PROVE PacketInv'
    OBVIOUS
  <2>0. /\ SeqRange \in Nat \ {0} /\ FixtureFrames \in Nat \ {0} /\ ClockStep \in Nat \ {0}
        /\ FrameSizes \subseteq Nat \ {0} /\ AudioStep \in Nat \ {0} /\ mtu \in Nat \ {0}
    BY PacketAssumption DEF PacketAssumption, PacketInv
  <2>1. CASE YieldFrame
    <3>1. /\ UNCHANGED <<fixture, mtu, audio, overflow>>
          /\ pts' = pts + ClockStep /\ index' = index + 1 /\ chunk' = AudioSlices(index)
      BY <2>1 DEF YieldFrame, NextPts
    <3>2. FrameSize \in Nat \ {0}
      <4>1. index \in Nat
        BY DEF PacketInv
      <4>2. (index % FixtureFrames) + 1 \in 1..FixtureFrames
        BY <2>0, <4>1, Remainder
      <4> QED BY <2>0, <4>2 DEF FrameSize, PacketInv
    <3>3. FrameSize + AudioBytes \in Nat \ {0}
      BY <2>0, <3>2 DEF AudioBytes
    <3>4. PICK size \in Nat \ {0} : size = FrameSize + AudioBytes
      BY <3>3
    <3>5. /\ sent' = Packetize(size) /\ sequence' = After(sequence, PacketCount(size))
      BY <2>1, <3>4 DEF YieldFrame
    <3>6. sent' = Cut(size, sequence, pts)
      BY <3>5 DEF Packetize, Cut
    <3>7. \A n, s, t : Cut(n, s, t)' = Cut(n, s, t)
      BY <3>1 DEF Cut, PacketCount, IsLast
    <3>8. PacketCount(size)' = PacketCount(size)
      BY <3>1 DEF PacketCount
    <3>9. \A i : AudioSlices(i)' = AudioSlices(i)
      BY <3>1 DEF AudioSlices, AudioStart
    <3>10. sequence' \in 0..SeqRange - 1
      <4>1. PacketCount(size) \in Nat
        BY <2>0, EnoughPackets
      <4>2. sequence + PacketCount(size) \in Nat
        BY <4>1 DEF PacketInv
      <4> QED BY <2>0, <3>5, <4>2, Remainder DEF After
    <3>11. PICK s \in 0..SeqRange - 1 : s = sequence
      BY DEF PacketInv
    <3>12. PICK t \in Nat : t = pts
      BY DEF PacketInv
    <3>13. /\ sent' = Cut(size, s, t)' /\ sequence' = After(s, PacketCount(size))'
           /\ pts' = t + ClockStep
      BY <3>1, <3>5, <3>6, <3>7, <3>8, <3>11, <3>12 DEF After
    <3>14. PICK i \in Nat : i = index
      BY DEF PacketInv
    <3>15. index' = i + 1 /\ chunk' = AudioSlices(i)'
      BY <3>1, <3>9, <3>14
    <3>16. index' \in Nat /\ pts' \in Nat
      BY <2>0, <3>1 DEF PacketInv
    <3> QED BY <3>1, <3>10, <3>13, <3>15, <3>16 DEF PacketInv
  <2>2. CASE StreamDies
    BY <2>2 DEF StreamDies, PacketInv, Cut, PacketCount, IsLast, AudioSlices, AudioStart
  <2>3. CASE UNCHANGED packetVars
    BY <2>3 DEF packetVars, PacketInv, Cut, PacketCount, IsLast, AudioSlices, AudioStart
  <2> QED BY <2>1, <2>2, <2>3 DEF PacketNext
<1> QED BY <1>1, <1>2, PTL DEF PacketSpec

\* Type correctness: sequence numbers are below 2^16, packets are packets, and
\* no slice of audio reaches past the fixture.
THEOREM PacketTypeCorrect == PacketSpec => []PacketTypeOK
<1>1. PacketInv => PacketTypeOK
  <2> SUFFICES ASSUME PacketInv PROVE PacketTypeOK
    OBVIOUS
  <2>0. mtu \in Nat \ {0} /\ audio \in Nat
    BY PacketAssumption DEF PacketInv, PacketAssumption
  <2>1. sent \in Seq(Packet)
    <3>1. CASE sent = << >>
      BY <3>1
    <3>2. CASE sent # << >>
      BY <2>0, <3>2, CutIsSequence DEF PacketInv
    <3> QED BY <3>1, <3>2
  <2>2. \A i \in DOMAIN chunk : chunk[i].to \in 0..audio
    <3>1. CASE chunk = << >>
      BY <3>1
    <3>2. CASE chunk # << >>
      <4>1. PICK i \in Nat : chunk = AudioSlices(i)
        BY <3>2 DEF PacketInv
      <4>2. audio > 0
        BY <2>0, <3>2, <4>1 DEF AudioSlices
      <4>3. audio \in AudioSizes
        BY DEF PacketInv
      <4> QED BY <4>1, <4>2, <4>3, SlicesGoOn
    <3> QED BY <3>1, <3>2
  <2> QED BY <2>1, <2>2 DEF PacketInv, PacketTypeOK
<1> QED BY <1>1, PacketInvariant, PTL

\* A receiver can put every frame together, whatever its size and the MTU.
THEOREM FramesAreWhole == PacketSpec => []FrameIsWhole
<1>1. PacketInv => FrameIsWhole
  <2> SUFFICES ASSUME PacketInv, sent # << >> PROVE FrameIsWhole
    BY DEF FrameIsWhole
  <2>0. mtu \in Nat \ {0}
    BY PacketAssumption DEF PacketInv, PacketAssumption
  <2>1. PICK size \in Nat \ {0}, s \in 0..SeqRange - 1, stamp \in Nat :
          sent = Cut(size, s, stamp)
    BY DEF PacketInv
  <2>2. Len(sent) = PacketCount(size)
    BY <2>0, <2>1, CutIsSequence
  <2>3. Whole(sent)
    BY <2>0, <2>1, <2>2, CutIsWhole
  <2> QED BY <2>3 DEF FrameIsWhole, Whole
<1> QED BY <1>1, PacketInvariant, PTL

\* A PTS below its top three bits is read back as it was.
THEOREM PtsIsReadBack == PacketSpec => []PtsReadsBack
<1>1. PacketInv => PtsReadsBack
  BY PtsRoundTrip DEF PacketInv, PtsReadsBack
<1> QED BY <1>1, PacketInvariant, PTL

\* Sequence numbers, time stamps and audio go on from frame to frame, across
\* the wrap of the sequence number, of the fixture and of the audio.
THEOREM StreamsGoOn == PacketSpec => StreamGoesOn
<1>1. PacketInv /\ [PacketNext]_packetVars =>
        [sent # << >> /\ index' # index =>
           /\ sent'[1].seq = (sent[Len(sent)].seq + 1) % SeqRange
           /\ sent'[1].stamp > sent[1].stamp
           /\ audio > 0 => chunk'[1].from = chunk[Len(chunk)].to % audio]_packetVars
  <2> SUFFICES ASSUME PacketInv, PacketNext, sent # << >>, index' # index
               PROVE  /\ sent'[1].seq = (sent[Len(sent)].seq + 1) % SeqRange
                      /\ sent'[1].stamp > sent[1].stamp
                      /\ audio > 0 => chunk'[1].from = chunk[Len(chunk)].to % audio
    BY DEF packetVars
  <2>0. /\ SeqRange \in Nat \ {0} /\ ClockStep \in Nat \ {0} /\ mtu \in Nat \ {0}
        /\ FixtureFrames \in Nat \ {0} /\ FrameSizes \subseteq Nat \ {0}
        /\ AudioStep \in Nat \ {0}
    BY PacketAssumption DEF PacketAssumption, PacketInv
  <2>1. YieldFrame
    BY DEF PacketNext, StreamDies
  <2>2. PICK size \in Nat \ {0}, s \in 0..SeqRange - 1, stamp \in Nat :
          /\ sent = Cut(size, s, stamp)
          /\ sequence = After(s, PacketCount(size))
          /\ pts = stamp + ClockStep
    BY DEF PacketInv
  <2>3. PICK i \in Nat : index = i + 1 /\ chunk = AudioSlices(i)
    BY DEF PacketInv
  <2> DEFINE n == PacketCount(size)
             next == FrameSize + AudioBytes
  <2>4. n \in Nat \ {0} /\ Len(sent) = n
    <3>1. Len(sent) = PacketCount(size) /\ Len(sent) \in Nat \ {0}
      BY <2>0, <2>2, CutIsSequence
    <3> QED BY <3>1
  <2>5. next \in Nat \ {0}
    <3>1. (index % FixtureFrames) + 1 \in 1..FixtureFrames
      BY <2>0, Remainder DEF PacketInv
    <3>2. FrameSize \in Nat \ {0}
      BY <2>0, <3>1 DEF FrameSize, PacketInv
    <3> QED BY <2>0, <3>2 DEF AudioBytes
  <2>6. sent' = Packetize(next) /\ 1 \in 1..PacketCount(next)
    <3>1. PacketCount(next) \in Nat \ {0}
      BY <2>0, <2>5, EnoughPackets
    <3> QED BY <2>1, <3>1 DEF YieldFrame
  <2> HIDE DEF next, n
  <2>7. sent'[1].seq = After(sequence, 1 - 1) /\ sent'[1].stamp = pts
    BY <2>6 DEF Packetize
  <2>8. sent[n].seq = After(s, n - 1) /\ sent[1].stamp = stamp
    <3>1. n \in 1..PacketCount(size) /\ 1 \in 1..PacketCount(size)
      BY <2>4 DEF n
    <3> QED BY <2>2, <3>1 DEF Cut
  <2>9. sent'[1].seq = (sent[Len(sent)].seq + 1) % SeqRange
    <3>1. After(sequence, 1 - 1) = (sequence + 0) % SeqRange
      BY DEF After
    <3>2. sequence = (s + n) % SeqRange /\ s \in Nat
      BY <2>2 DEF After, n
    <3>3. s + n \in Nat /\ s + (n - 1) \in Nat /\ (s + (n - 1)) + 1 = s + n /\ (s + n) + 0 = s + n
      BY <2>4, <3>2
    <3>4. (sequence + 0) % SeqRange = (s + n) % SeqRange
      <4>1. sequence \in Nat /\ sequence < SeqRange /\ sequence + 0 = sequence
        BY <2>0 DEF PacketInv
      <4>2. sequence % SeqRange = sequence
        BY <2>0, <4>1
      <4> QED BY <3>2, <4>1, <4>2
    <3>5. (After(s, n - 1) + 1) % SeqRange = (s + n) % SeqRange
      <4>1. (((s + (n - 1)) % SeqRange) + 1) % SeqRange = ((s + (n - 1)) + 1) % SeqRange
        BY <2>0, <3>3, RemainderOfSum
      <4> QED BY <3>3, <4>1 DEF After
    <3> QED BY <2>4, <2>7, <2>8, <3>1, <3>4, <3>5
  <2>10. sent'[1].stamp > sent[1].stamp
    BY <2>0, <2>2, <2>7, <2>8
  <2>11. ASSUME audio > 0 PROVE chunk'[1].from = chunk[Len(chunk)].to % audio
    <3>1. audio \in AudioSizes
      BY DEF PacketInv
    <3>2. chunk[Len(chunk)].to % audio = AudioStart(i + 1)
      BY <2>3, <2>11, <3>1, SlicesGoOn
    <3>3. chunk' = AudioSlices(index) /\ index \in Nat
      BY <2>1 DEF YieldFrame, PacketInv
    <3>4. chunk'[1].from = AudioStart(index)
      BY <2>11, <3>1, <3>3, SlicesGoOn
    <3> QED BY <2>3, <3>2, <3>4
  <2> QED BY <2>9, <2>10, <2>11
<1> QED BY <1>1, PacketInvariant, PTL DEF PacketSpec, StreamGoesOn

-----------------------------------------------------------------------------
(* The device as a whole *)

\* Side by side the parts do what each does alone: what is proved of a part
\* holds of the device that is model-checked.
THEOREM DeviceRunsItsParts ==
  OneDeviceSpec => RegSpec /\ DevSpec /\ MediaSpec /\ PacketSpec
<1>1. OneDeviceInit => RegInit /\ DevInit /\ MediaInit /\ PacketInit
  BY DEF OneDeviceInit
<1>2. [OneDeviceNext]_oneDeviceVars =>
        /\ [RegNext]_regVars /\ [DevNext]_statusVars
        /\ [MediaNext]_mediaVars /\ [PacketNext]_packetVars
  BY DEF OneDeviceNext, oneDeviceVars
<1> QED BY <1>1, <1>2, PTL DEF OneDeviceSpec, RegSpec, DevSpec, MediaSpec, PacketSpec

\* Every variable of the device keeps its type, whichever parts of it run.
THEOREM DeviceTypeCorrect == OneDeviceSpec => []DeviceTypeOK
<1>1. DevTypeOK /\ MediaTypeOK /\ PacketTypeOK => DeviceTypeOK
  BY DEF DeviceTypeOK
<1> QED BY <1>1, DeviceRunsItsParts, DevTypeCorrect, MediaTypeCorrect, PacketTypeCorrect, PTL
=============================================================================
