--------------------------- MODULE MachineProofs ---------------------------
(***************************************************************************)
(* Proofs about Memory.tla and Machine.tla, for every radix, memory and    *)
(* framebuffer: first for every sequence of stores, then for every program *)
(* of the instructions of Transfers.tla and Vfp.tla.                       *)
(***************************************************************************)
EXTENDS Machine, Division, FiniteSetTheorems, SequenceTheorems, WellFoundedInduction,
        TLAPS
-----------------------------------------------------------------------------
(* Bytes                                                                   *)

\* The powers of the radix.
LEMMA Powers ==
    /\ Base \in Nat \ {0, 1}
    /\ Power(0) = 1 /\ Power(1) = Base /\ Power(2) = Base * Base
    /\ Power(3) = Base * (Base * Base)
    /\ Full = Base * (Base * (Base * Base))
    /\ Base * Base \in Nat \ {0} /\ Base * (Base * Base) \in Nat \ {0}
    /\ Full \in Nat \ {0}
    /\ Base <= Base * Base /\ Base * Base <= Full
<1>1. Base \in Nat \ {0, 1}
  BY BaseAssumption
<1>2. Base * Base \in Nat \ {0} /\ Base <= Base * Base
  BY <1>1
<1>3. Base * (Base * Base) \in Nat \ {0} /\ Base * Base <= Base * (Base * Base)
  BY <1>1, <1>2
<1>4. /\ Base * (Base * (Base * Base)) \in Nat \ {0}
      /\ Base * (Base * Base) <= Base * (Base * (Base * Base))
  BY <1>1, <1>3
<1>5. Full = Base * (Base * (Base * Base))
  BY <1>1 DEF Full
<1>6. Power(3) = Base * (Base * Base)
  BY <1>1 DEF Power
<1>7. Power(0) = 1 /\ Power(1) = Base /\ Power(2) = Base * Base
  BY DEF Power
<1> QED
  BY <1>1, <1>2, <1>3, <1>4, <1>5, <1>6, <1>7

\* The bytes of a number are the remainders of dividing it again and again.
LEMMA BytesOf ==
    ASSUME NEW v \in Nat
    PROVE  LET q1 == v \div Base
               q2 == q1 \div Base
               q3 == q2 \div Base
           IN  /\ q1 \in Nat /\ q2 \in Nat /\ q3 \in Nat
               /\ ByteOf(v, 0) = v % Base /\ ByteOf(v, 1) = q1 % Base
               /\ ByteOf(v, 2) = q2 % Base /\ ByteOf(v, 3) = q3 % Base
               /\ \A k \in 0 .. 3 : ByteOf(v, k) \in Byte
<1> DEFINE q1 == v \div Base
           q2 == q1 \div Base
           q3 == q2 \div Base
<1>1. q1 \in Nat
  BY Powers, NatSplit
<1>2. q2 \in Nat /\ q2 = v \div (Base * Base)
  <2>1. q2 \in Nat
    BY <1>1, Powers, NatSplit
  <2>2. (v \div Base) \div Base = v \div (Base * Base)
    BY Powers, Twice
  <2> QED
    BY <2>1, <2>2
<1>3. q3 \in Nat /\ q3 = v \div (Base * (Base * Base))
  <2>1. q3 \in Nat
    BY <1>2, Powers, NatSplit
  <2>2. q3 = (v \div (Base * Base)) \div Base
    BY <1>2
  <2>3. q3 = v \div ((Base * Base) * Base)
    BY <2>2, Powers, Twice
  <2>4. (Base * Base) * Base = Base * (Base * Base)
    BY Powers
  <2> QED
    BY <2>1, <2>3, <2>4
<1>4. v \div 1 = v
  OBVIOUS
<1> HIDE DEF q1, q2, q3
<1>5. /\ ByteOf(v, 0) = v % Base /\ ByteOf(v, 1) = q1 % Base
      /\ ByteOf(v, 2) = q2 % Base /\ ByteOf(v, 3) = q3 % Base
  BY <1>2, <1>3, <1>4, Powers DEF ByteOf, q1
<1>6. \A k \in 0 .. 3 : ByteOf(v, k) \in Byte
  <2>1. v % Base \in Byte /\ q1 % Base \in Byte /\ q2 % Base \in Byte /\ q3 % Base \in Byte
    BY <1>1, <1>2, <1>3, Powers, NatSplit DEF Byte
  <2> QED
    BY <1>5, <2>1
<1> QED
  BY <1>1, <1>2, <1>3, <1>5, <1>6 DEF q1, q2, q3

\* A dword of four bytes in Horner's form, and what division makes of it.
LEMMA FromBytes ==
    ASSUME NEW b0 \in Byte, NEW b1 \in Byte, NEW b2 \in Byte, NEW b3 \in Byte
    PROVE  LET h3 == b3
               h2 == b2 + (Base * h3)
               h1 == b1 + (Base * h2)
               h0 == b0 + (Base * h1)
           IN  /\ h1 \in Nat /\ h2 \in Nat /\ h0 \in Nat
               /\ h0 = b0 + (Base * b1) + (Base * Base * b2) + (Base * Base * Base * b3)
               /\ ByteOf(h0, 0) = b0 /\ ByteOf(h0, 1) = b1
               /\ ByteOf(h0, 2) = b2 /\ ByteOf(h0, 3) = b3
<1> DEFINE h2 == b2 + (Base * b3)
           h1 == b1 + (Base * h2)
           h0 == b0 + (Base * h1)
<1>1. b0 \in 0 .. Base - 1 /\ b1 \in 0 .. Base - 1 /\ b2 \in 0 .. Base - 1
      /\ b3 \in 0 .. Base - 1 /\ Base \in Nat \ {0}
  BY Powers DEF Byte
<1>2. h2 \in Nat /\ h2 % Base = b2 /\ h2 \div Base = b3
  <2>1. b3 \in Nat /\ Base * b3 \in Nat /\ b2 + (Base * b3) \in Nat
    BY <1>1
  <2>2. (b2 + (Base * b3)) % Base = b2 /\ (b2 + (Base * b3)) \div Base = b3
    BY <1>1, <2>1, NatUnique
  <2> QED
    BY <2>1, <2>2
<1> HIDE DEF h2
<1>3. h1 \in Nat /\ h1 % Base = b1 /\ h1 \div Base = h2
  <2>1. Base * h2 \in Nat /\ b1 + (Base * h2) \in Nat
    BY <1>1, <1>2
  <2>2. (b1 + (Base * h2)) % Base = b1 /\ (b1 + (Base * h2)) \div Base = h2
    BY <1>1, <1>2, NatUnique
  <2> QED
    BY <2>1, <2>2
<1>4. h1 = b1 + (Base * h2)
  OBVIOUS
<1> HIDE DEF h1
<1>5. h0 \in Nat /\ h0 % Base = b0 /\ h0 \div Base = h1
  <2>1. Base * h1 \in Nat /\ b0 + (Base * h1) \in Nat
    BY <1>1, <1>3
  <2>2. (b0 + (Base * h1)) % Base = b0 /\ (b0 + (Base * h1)) \div Base = h1
    BY <1>1, <1>3, NatUnique
  <2> QED
    BY <2>1, <2>2
<1>6. h0 = b0 + (Base * h1)
  OBVIOUS
<1> HIDE DEF h0
<1>7. b3 % Base = b3
  BY <1>1
<1>8. /\ ByteOf(h0, 0) = b0 /\ ByteOf(h0, 1) = b1
      /\ ByteOf(h0, 2) = b2 /\ ByteOf(h0, 3) = b3
  BY <1>2, <1>3, <1>5, <1>7, BytesOf
<1>9. h0 = b0 + (Base * b1) + (Base * Base * b2) + (Base * Base * Base * b3)
  <2>1. h2 = b2 + (Base * b3)
    BY DEF h2
  <2>2. Base * h2 = (Base * b2) + (Base * Base * b3)
    BY <1>1, <2>1
  <2>3. h1 = b1 + (Base * b2) + (Base * Base * b3)
    BY <1>1, <1>2, <1>4, <2>2
  <2>4. Base * h1 = (Base * b1) + (Base * Base * b2) + (Base * Base * Base * b3)
    BY <1>1, <2>3
  <2> QED
    BY <1>1, <1>3, <1>6, <2>4
<1> QED
  BY <1>2, <1>3, <1>5, <1>8, <1>9 DEF h0, h1, h2

\* The lower bytes of such a dword.
LEMMA LowBytes ==
    ASSUME NEW b0 \in Byte, NEW b1 \in Byte, NEW b2 \in Byte, NEW b3 \in Byte
    PROVE  LET d == b0 + (Base * b1) + (Base * Base * b2) + (Base * Base * Base * b3)
           IN  /\ d % Power(1) = b0
               /\ d % Power(2) = b0 + (Base * b1)
               /\ d % Power(3) = b0 + (Base * b1) + (Base * Base * b2)
<1> DEFINE low == b0 + (Base * b1)
           mid == low + ((Base * Base) * b2)
           d == b0 + (Base * b1) + (Base * Base * b2) + (Base * Base * Base * b3)
<1>1. b0 \in 0 .. Base - 1 /\ b1 \in 0 .. Base - 1 /\ b2 \in 0 .. Base - 1
      /\ b3 \in 0 .. Base - 1 /\ Base \in Nat \ {0}
  BY Powers DEF Byte
<1>2. low \in 0 .. (Base * Base) - 1
  <2>1. Base * b1 <= Base * (Base - 1)
    BY <1>1
  <2>2. Base * (Base - 1) = (Base * Base) - Base
    BY <1>1
  <2>3. Base * b1 \in Nat /\ Base * Base \in Nat
    BY <1>1
  <2> QED
    BY <1>1, <2>1, <2>2, <2>3
<1>3. mid \in 0 .. (Base * (Base * Base)) - 1
  <2> DEFINE S == Base * Base
  <2>1. S \in Nat \ {0}
    BY Powers
  <2>2. low \in 0 .. S - 1
    BY <1>2
  <2> HIDE DEF low, S
  <2>3. S * b2 <= S * (Base - 1)
    BY <1>1, <2>1
  <2>4. S * (Base - 1) = (Base * S) - S
    BY <1>1, <2>1
  <2>5. S * b2 \in Nat /\ Base * S \in Nat
    BY <1>1, <2>1
  <2>6. low + (S * b2) \in 0 .. (Base * S) - 1
    BY <2>1, <2>2, <2>3, <2>4, <2>5
  <2> QED
    BY <2>6 DEF S
<1>4. (b0 + (Base * (b1 + (Base * b2) + (Base * Base * b3)))) % Base = b0
  <2>1. b1 + (Base * b2) + (Base * Base * b3) \in Nat
    BY <1>1
  <2> QED
    BY <1>1, <2>1, NatUnique
<1>5. (low + ((Base * Base) * (b2 + (Base * b3)))) % (Base * Base) = low
  <2> DEFINE S == Base * Base
             q == b2 + (Base * b3)
  <2>1. q \in Nat
    BY <1>1
  <2>2. S \in Nat \ {0} /\ low \in 0 .. S - 1
    BY <1>2, Powers
  <2> HIDE DEF S, q, low
  <2>3. (low + (S * q)) % S = low
    BY <2>1, <2>2, NatUnique, Zenon
  <2> QED
    BY <2>3 DEF S, q
<1>6. (mid + ((Base * (Base * Base)) * b3)) % (Base * (Base * Base)) = mid
  BY <1>1, <1>3, Powers, NatUnique
<1>7. d = b0 + (Base * (b1 + (Base * b2) + (Base * Base * b3)))
  BY <1>1
<1>8. d = low + ((Base * Base) * (b2 + (Base * b3)))
  BY <1>1
<1>9. d = mid + ((Base * (Base * Base)) * b3)
  BY <1>1
<1> HIDE DEF d
<1>10. d % Base = b0 /\ d % (Base * Base) = low /\ d % (Base * (Base * Base)) = mid
  BY <1>4, <1>5, <1>6, <1>7, <1>8, <1>9
<1> QED
  BY <1>10, Powers DEF d

\* Every dword is made of its bytes, and every word.
LEMMA Recompose ==
    /\ \A v \in Dword : v = ByteOf(v, 0) + (Base * ByteOf(v, 1))
                              + (Base * Base * ByteOf(v, 2))
                              + (Base * Base * Base * ByteOf(v, 3))
    /\ \A v \in Word : v = ByteOf(v, 0) + (Base * ByteOf(v, 1))
    /\ \A v \in Byte : v = ByteOf(v, 0)
<1>1. ASSUME NEW v \in Dword
      PROVE  v = ByteOf(v, 0) + (Base * ByteOf(v, 1)) + (Base * Base * ByteOf(v, 2))
                 + (Base * Base * Base * ByteOf(v, 3))
  <2> DEFINE q1 == v \div Base
             q2 == q1 \div Base
             q3 == q2 \div Base
             q4 == q3 \div Base
  <2>1. v \in Nat /\ v < Full
    BY Powers DEF Dword
  <2>2. /\ q1 \in Nat /\ q2 \in Nat /\ q3 \in Nat
        /\ ByteOf(v, 0) = v % Base /\ ByteOf(v, 1) = q1 % Base
        /\ ByteOf(v, 2) = q2 % Base /\ ByteOf(v, 3) = q3 % Base
        /\ v % Base \in Byte /\ q1 % Base \in Byte /\ q2 % Base \in Byte
        /\ q3 % Base \in Byte
    BY <2>1, BytesOf
  <2>0. Base \in Nat \ {0}
    BY Powers
  <2>3. q4 \in Nat /\ q3 = (q3 % Base) + (Base * q4)
    BY <2>0, <2>2, NatSplit, Zenon
  <2>4. /\ v = (v % Base) + (Base * q1)
        /\ q1 = (q1 % Base) + (Base * q2)
        /\ q2 = (q2 % Base) + (Base * q3)
    BY <2>0, <2>1, <2>2, NatSplit, Zenon
  <2> HIDE DEF q1, q2, q3, q4
  <2>5. q4 = 0
    <3> SUFFICES ASSUME q4 >= 1 PROVE FALSE
      BY <2>3
    <3>1. Base * q4 >= Base
      BY <2>3, Powers
    <3>2. q3 >= Base
      BY <2>2, <2>3, <3>1, Powers DEF Byte
    <3>3. Base * q3 >= Base * Base /\ Base * q3 \in Nat
      BY <2>2, <3>2, Powers
    <3>4. q2 >= Base * Base
      BY <2>2, <2>4, <3>3, Powers DEF Byte
    <3>5. Base * q2 >= Base * (Base * Base) /\ Base * q2 \in Nat
      BY <2>2, <3>4, Powers
    <3>6. q1 >= Base * (Base * Base)
      BY <2>2, <2>4, <3>5, Powers DEF Byte
    <3>7. Base * q1 >= Base * (Base * (Base * Base)) /\ Base * q1 \in Nat
      BY <2>2, <3>6, Powers
    <3>8. v >= Full
      BY <2>2, <2>4, <3>7, Powers DEF Byte
    <3> QED
      BY <2>1, <3>8, Powers
  <2>6. q3 = q3 % Base
    BY <2>2, <2>3, <2>5, Powers
  <2> DEFINE b0 == v % Base  b1 == q1 % Base  b2 == q2 % Base
  <2>7. b0 \in Byte /\ b1 \in Byte /\ b2 \in Byte /\ q3 \in Byte
    BY <2>2, <2>6
  <2>8. v = b0 + (Base * q1) /\ q1 = b1 + (Base * q2) /\ q2 = b2 + (Base * q3)
    BY <2>4
  <2> HIDE DEF b0, b1, b2
  <2>9. v = b0 + (Base * b1) + (Base * Base * b2) + (Base * Base * Base * q3)
    BY <2>7, <2>8, FromBytes
  <2> QED
    BY <2>2, <2>6, <2>9 DEF b0, b1, b2
<1>2. ASSUME NEW v \in Byte
      PROVE  v \in Nat /\ v = ByteOf(v, 0) /\ v \div Base = 0
  <2>1. v \in 0 .. Base - 1 /\ v \in Nat
    BY Powers DEF Byte
  <2>2. (v + (Base * 0)) % Base = v /\ (v + (Base * 0)) \div Base = 0
    BY <2>1, Powers, NatUnique
  <2>3. v + (Base * 0) = v
    BY <2>1, Powers
  <2> QED
    BY <2>1, <2>2, <2>3, BytesOf
<1>3. ASSUME NEW v \in Word
      PROVE  v = ByteOf(v, 0) + (Base * ByteOf(v, 1))
  <2> DEFINE q == v \div Base
  <2>1. v \in Nat /\ v < Base * Base
    BY Powers DEF Word
  <2>2. q \in Nat /\ v % Base \in 0 .. Base - 1 /\ v = (v % Base) + (Base * q)
    BY <2>1, Powers, NatSplit
  <2>3. ByteOf(v, 0) = v % Base /\ ByteOf(v, 1) = q % Base
    BY <2>1, BytesOf
  <2> HIDE DEF q
  <2>4. q < Base
    <3> SUFFICES ASSUME q >= Base PROVE FALSE
      BY <2>2, Powers
    <3>1. Base * q >= Base * Base /\ Base * q \in Nat
      BY <2>2, Powers
    <3> QED
      BY <2>1, <2>2, <3>1, Powers
  <2>5. q \in Byte
    BY <2>2, <2>4, Powers DEF Byte
  <2>6. q % Base = q
    BY <2>5, Powers DEF Byte
  <2> QED
    BY <2>2, <2>3, <2>6
<1> QED
  BY <1>1, <1>2, <1>3
-----------------------------------------------------------------------------
(* What a load returns                                                     *)

Join(b0, b1, b2, b3) == b0 + (Base * b1) + (Base * Base * b2) + (Base * Base * Base * b3)

\* Four bytes joined give back each of them, and the lower of them.
LEMMA Joined ==
    ASSUME NEW b0 \in Byte, NEW b1 \in Byte, NEW b2 \in Byte, NEW b3 \in Byte
    PROVE  LET d == Join(b0, b1, b2, b3)
           IN  /\ ByteOf(d, 0) = b0 /\ ByteOf(d, 1) = b1
               /\ ByteOf(d, 2) = b2 /\ ByteOf(d, 3) = b3
               /\ d % Power(1) = b0
               /\ d % Power(2) = b0 + (Base * b1)
               /\ d % Power(3) = b0 + (Base * b1) + (Base * Base * b2)
<1> DEFINE h2 == b2 + (Base * b3)
           h1 == b1 + (Base * h2)
           h0 == b0 + (Base * h1)
<1>1. /\ h0 = Join(b0, b1, b2, b3)
      /\ ByteOf(h0, 0) = b0 /\ ByteOf(h0, 1) = b1
      /\ ByteOf(h0, 2) = b2 /\ ByteOf(h0, 3) = b3
  BY FromBytes DEF Join
<1> HIDE DEF h0
<1>2. LET d == Join(b0, b1, b2, b3)
      IN  /\ d % Power(1) = b0
          /\ d % Power(2) = b0 + (Base * b1)
          /\ d % Power(3) = b0 + (Base * b1) + (Base * Base * b2)
  BY LowBytes DEF Join
<1> QED
  BY <1>1, <1>2

\* A dword is its bytes joined.
LEMMA Parted ==
    ASSUME NEW v \in Dword
    PROVE  /\ v = Join(ByteOf(v, 0), ByteOf(v, 1), ByteOf(v, 2), ByteOf(v, 3))
           /\ \A k \in 0 .. 3 : ByteOf(v, k) \in Byte
<1>1. v \in Nat
  BY Powers DEF Dword
<1> QED
  BY <1>1, BytesOf, Recompose DEF Join

\* What the store recorded last left behind in the memory m.
Written(m) ==
    LET l == m.last
    IN  l.n # 0 =>
           /\ l.a < AddressSpace /\ InRam(l.a, l.n)
           /\ l.n = 1 => l.v \in Byte
           /\ l.n = 2 => l.v \in Word
           /\ \A k \in Offsets(l.n) : m.ram[l.a + k] = ByteOf(l.v, k)

\* An address of the RAM is its own place.
LEMMA OwnPlace ==
    ASSUME NEW a \in Nat, a < AddressSpace
    PROVE  Place(a) = a
BY SpaceAssumption DEF Place

\* A load of a dword joins the four bytes turned.
LEMMA LoadJoins ==
    ASSUME MemoryTypeOK, NEW a \in Nat, a < AddressSpace, InRam(a, 4)
    PROVE  LET f == memory.ram
               t(j) == f[(a - (a % 4)) + (((a % 4) + j) % 4)]
           IN  ReadDword(memory, a, 0) = Join(t(0), t(1), t(2), t(3))
<1>1. ReadDword(memory, a, 0) = DwordFrom(Turned(memory, a, 4))
  BY OwnPlace DEF ReadDword
<1>2. \A j \in 0 .. 3 :
          Turned(memory, a, 4)[j] = memory.ram[(a - (a % 4)) + (((a % 4) + j) % 4)]
  BY DEF Turned, Offsets
<1> QED
  BY <1>1, <1>2 DEF DwordFrom, Join

\* The last dword stored comes back as ReadsBack says.
LEMMA DwordBack ==
    ASSUME MemoryTypeOK, Written(memory), memory.last.n = 4
    PROVE  LET l == memory.last
               k == l.a % 4
           IN  /\ ReadDword(memory, l.a, 0) % Power(4 - k) = l.v % Power(4 - k)
               /\ k = 0 => ReadDword(memory, l.a, 0) = l.v
               /\ \A j \in 0 .. k - 1 :
                      ByteOf(ReadDword(memory, l.a, 0), (4 - k) + j)
                          = memory.ram[(l.a - k) + j]
<1> DEFINE a == memory.last.a
           v == memory.last.v
           f == memory.ram
           b(j) == ByteOf(v, j)
           k == a % 4
           d == ReadDword(memory, a, 0)
<1>1. /\ a \in Nat /\ v \in Dword /\ f \in [Offsets(MemSize) -> Byte]
      /\ a < AddressSpace /\ InRam(a, 4)
      /\ f[a] = b(0) /\ f[a + 1] = b(1) /\ f[a + 2] = b(2) /\ f[a + 3] = b(3)
  BY DEF MemoryTypeOK, Written, Offsets
<1>2. b(0) \in Byte /\ b(1) \in Byte /\ b(2) \in Byte /\ b(3) \in Byte
      /\ v = Join(b(0), b(1), b(2), b(3))
  BY <1>1, Parted
<1>3. d = Join(f[(a - k) + ((k + 0) % 4)], f[(a - k) + ((k + 1) % 4)],
               f[(a - k) + ((k + 2) % 4)], f[(a - k) + ((k + 3) % 4)])
  BY <1>1, LoadJoins
<1>4. k \in 0 .. 3 /\ a - k \in Nat
  BY <1>1
<1> HIDE DEF a, v, f, b, k, d
<1>5. \A i \in 0 .. 3 : f[(a - k) + i] \in Byte
  <2> SUFFICES ASSUME NEW i \in 0 .. 3 PROVE f[(a - k) + i] \in Byte
    OBVIOUS
  <2>1. (a - k) + i \in Offsets(MemSize)
    BY <1>1, <1>4, SizeAssumption DEF InRam, Offsets
  <2> QED
    BY <1>1, <2>1
<1>6. CASE k = 0
  <2>1. d = v
    <3>1. /\ (k + 0) % 4 = 0 /\ (k + 1) % 4 = 1 /\ (k + 2) % 4 = 2 /\ (k + 3) % 4 = 3
          /\ (a - k) + 0 = a /\ (a - k) + 1 = a + 1 /\ (a - k) + 2 = a + 2
          /\ (a - k) + 3 = a + 3
      BY <1>1, <1>6
    <3> QED
      BY <1>1, <1>2, <1>3, <3>1
  <2> QED
    BY <2>1, <1>6 DEF a, v, f, k, d
<1>7. CASE k = 1
  <2>1. d = Join(b(0), b(1), b(2), f[a - 1])
    <3>1. /\ (k + 0) % 4 = 1 /\ (k + 1) % 4 = 2 /\ (k + 2) % 4 = 3 /\ (k + 3) % 4 = 0
          /\ (a - k) + 0 = a - 1 /\ (a - k) + 1 = a
          /\ (a - k) + 2 = a + 1 /\ (a - k) + 3 = a + 2
      BY <1>1, <1>7
    <3> QED
      BY <1>1, <1>3, <3>1
  <2>2. f[a - 1] \in Byte
    <3>1. (a - k) + 0 = a - 1
      BY <1>1, <1>7
    <3>2. f[(a - k) + 0] \in Byte
      BY <1>5
    <3> QED
      BY <3>1, <3>2
  <2>3. d % Power(3) = v % Power(3) /\ ByteOf(d, 3) = f[a - 1]
    BY <1>2, <2>1, <2>2, Joined
  <2>4. /\ d % Power(4 - k) = v % Power(4 - k)
        /\ \A j \in 0 .. k - 1 : ByteOf(d, (4 - k) + j) = f[(a - k) + j]
    BY <1>1, <1>7, <2>3
  <2> QED
    BY <1>7, <2>4 DEF a, v, f, k, d
<1>8. CASE k = 2
  <2>1. d = Join(b(0), b(1), f[a - 2], f[(a - 2) + 1])
    <3>1. /\ (k + 0) % 4 = 2 /\ (k + 1) % 4 = 3 /\ (k + 2) % 4 = 0 /\ (k + 3) % 4 = 1
          /\ (a - k) + 0 = a - 2 /\ (a - k) + 1 = (a - 2) + 1
          /\ (a - k) + 2 = a /\ (a - k) + 3 = a + 1
      BY <1>1, <1>8
    <3> QED
      BY <1>1, <1>3, <3>1
  <2>2. f[a - 2] \in Byte /\ f[(a - 2) + 1] \in Byte
    <3>1. (a - k) + 0 = a - 2 /\ (a - k) + 1 = (a - 2) + 1
      BY <1>1, <1>8
    <3>2. f[(a - k) + 0] \in Byte /\ f[(a - k) + 1] \in Byte
      BY <1>5
    <3> QED
      BY <3>1, <3>2
  <2>3. d % Power(2) = v % Power(2) /\ ByteOf(d, 2) = f[a - 2]
        /\ ByteOf(d, 3) = f[(a - 2) + 1]
    BY <1>2, <2>1, <2>2, Joined
  <2>4. /\ d % Power(4 - k) = v % Power(4 - k)
        /\ \A j \in 0 .. k - 1 : ByteOf(d, (4 - k) + j) = f[(a - k) + j]
    BY <1>1, <1>8, <2>3
  <2> QED
    BY <1>8, <2>4 DEF a, v, f, k, d
<1>9. CASE k = 3
  <2>1. d = Join(b(0), f[a - 3], f[(a - 3) + 1], f[(a - 3) + 2])
    <3>1. /\ (k + 0) % 4 = 3 /\ (k + 1) % 4 = 0 /\ (k + 2) % 4 = 1 /\ (k + 3) % 4 = 2
          /\ (a - k) + 0 = a - 3 /\ (a - k) + 1 = (a - 3) + 1
          /\ (a - k) + 2 = (a - 3) + 2 /\ (a - k) + 3 = a
      BY <1>1, <1>9
    <3> QED
      BY <1>1, <1>3, <3>1
  <2>2. f[a - 3] \in Byte /\ f[(a - 3) + 1] \in Byte /\ f[(a - 3) + 2] \in Byte
    <3>1. (a - k) + 0 = a - 3 /\ (a - k) + 1 = (a - 3) + 1 /\ (a - k) + 2 = (a - 3) + 2
      BY <1>1, <1>9
    <3>2. f[(a - k) + 0] \in Byte /\ f[(a - k) + 1] \in Byte /\ f[(a - k) + 2] \in Byte
      BY <1>5
    <3> QED
      BY <3>1, <3>2
  <2>3. d % Power(1) = v % Power(1) /\ ByteOf(d, 1) = f[a - 3]
        /\ ByteOf(d, 2) = f[(a - 3) + 1] /\ ByteOf(d, 3) = f[(a - 3) + 2]
    BY <1>2, <2>1, <2>2, Joined
  <2>4. /\ d % Power(4 - k) = v % Power(4 - k)
        /\ \A j \in 0 .. k - 1 : ByteOf(d, (4 - k) + j) = f[(a - k) + j]
    BY <1>1, <1>9, <2>3
  <2> QED
    BY <1>9, <2>4 DEF a, v, f, k, d
<1> QED
  BY <1>4, <1>6, <1>7, <1>8, <1>9

\* So does the last word.
LEMMA WordBack ==
    ASSUME MemoryTypeOK, Written(memory), memory.last.n = 2
    PROVE  LET l == memory.last
           IN  /\ ByteOf(ReadWord(memory, l.a), 0) = ByteOf(l.v, 0)
               /\ l.a % 2 = 0 => ReadWord(memory, l.a) = l.v
<1> DEFINE a == memory.last.a
           v == memory.last.v
           f == memory.ram
           t(j) == f[(a - (a % 2)) + (((a % 2) + j) % 2)]
<1>1. /\ a \in Nat /\ v \in Word /\ f \in [Offsets(MemSize) -> Byte]
      /\ a < AddressSpace /\ InRam(a, 2)
      /\ f[a] = ByteOf(v, 0) /\ f[a + 1] = ByteOf(v, 1)
  BY DEF MemoryTypeOK, Written, Offsets
<1>2. ReadWord(memory, a) = t(0) + (Base * t(1))
  <2>1. ReadWord(memory, a) = WordFrom(Turned(memory, a, 2))
    BY <1>1, OwnPlace DEF ReadWord
  <2>2. \A j \in 0 .. 1 : Turned(memory, a, 2)[j] = t(j)
    BY DEF Turned, Offsets
  <2> QED
    BY <2>1, <2>2 DEF WordFrom
<1>3. t(0) = ByteOf(v, 0) /\ (a % 2 = 0 => t(1) = ByteOf(v, 1))
  <2>1. (a - (a % 2)) + (((a % 2) + 0) % 2) = a
    BY <1>1
  <2>2. a % 2 = 0 => (a - (a % 2)) + (((a % 2) + 1) % 2) = a + 1
    BY <1>1
  <2> QED
    BY <1>1, <2>1, <2>2
<1>4. t(0) \in Byte /\ t(1) \in Byte
  <2>1. \A j \in 0 .. 1 : (a - (a % 2)) + (((a % 2) + j) % 2) \in Offsets(MemSize)
    <3> DEFINE b == a % 2
    <3>1. a + 1 < MemSize /\ MemSize \in Nat /\ a \in Nat
      BY <1>1, SizeAssumption DEF InRam
    <3>2. b \in 0 .. 1 /\ a - b \in Nat
      BY <3>1
    <3> HIDE DEF a, b
    <3>3. \A j \in 0 .. 1 : (b + j) % 2 \in 0 .. 1
      BY <3>2
    <3>4. \A j \in 0 .. 1 : (a - b) + ((b + j) % 2) \in Offsets(MemSize)
      BY <3>1, <3>2, <3>3 DEF Offsets
    <3> QED
      BY <3>4 DEF b
  <2> QED
    BY <1>1, <2>1
<1>5. ASSUME NEW x \in Byte, NEW y \in Byte
      PROVE  ByteOf(x + (Base * y), 0) = x
  <2>1. x \in 0 .. Base - 1 /\ y \in Nat /\ x + (Base * y) \in Nat
    BY Powers DEF Byte
  <2>2. (x + (Base * y)) % Base = x
    BY <2>1, Powers, NatUnique
  <2> QED
    BY <2>1, <2>2, BytesOf
<1>6. ByteOf(ReadWord(memory, a), 0) = ByteOf(v, 0)
  BY <1>2, <1>3, <1>4, <1>5
<1>7. a % 2 = 0 => ReadWord(memory, a) = v
  BY <1>1, <1>2, <1>3, Recompose
<1> QED
  BY <1>6, <1>7

\* Together: what the stores leave behind is what loads read.
LEMMA WrittenReads ==
    MemoryTypeOK /\ Written(memory) => ReadsBack
<1> SUFFICES ASSUME MemoryTypeOK, Written(memory) PROVE ReadsBack
  OBVIOUS
<1>1. ASSUME memory.last.n = 1
      PROVE  ReadByte(memory, memory.last.a) = memory.last.v
  <2>1. /\ memory.last.a \in Nat /\ memory.last.a < AddressSpace
        /\ InRam(memory.last.a, 1) /\ memory.last.v \in Byte
        /\ memory.ram[memory.last.a] = ByteOf(memory.last.v, 0)
    BY <1>1 DEF MemoryTypeOK, Written, Offsets
  <2>2. ReadByte(memory, memory.last.a) = memory.ram[memory.last.a]
    BY <2>1, OwnPlace DEF ReadByte
  <2> QED
    BY <2>1, <2>2, Recompose
<1> QED
  BY <1>1, DwordBack, WordBack DEF ReadsBack
-----------------------------------------------------------------------------
(* What every store keeps, for any memory m                                *)

Storage == [ram : [Offsets(MemSize) -> Byte], fb : [Offsets(FbSize) -> Byte],
            pr : Pr, last : [a : Nat, n : {0, 1, 2, 4}, v : Dword],
            spills : SUBSET (Nat \X {2, 4})]

\* OnlyRaggedSpill in the memory m.
Ragged(m) == \A l \in m.spills : (l[1] - MemSize) % l[2] # 0 \/ FbSize % l[2] # 0

\* A memory some stores have led to.
Sound(m) == m \in Storage /\ Written(m) /\ Ragged(m)

IInv == Sound(memory)

\* The invariants of Memory hold in a sound memory.
LEMMA SoundMeans ==
    IInv => MemoryTypeOK /\ ReadsBack /\ OnlyRaggedSpill
<1> SUFFICES ASSUME IInv
             PROVE  MemoryTypeOK /\ ReadsBack /\ OnlyRaggedSpill
  OBVIOUS
<1>1. MemoryTypeOK /\ Written(memory)
  BY DEF IInv, Sound, Storage, MemoryTypeOK
<1>2. OnlyRaggedSpill
  BY DEF IInv, Sound, Ragged, OnlyRaggedSpill
<1> QED
  BY <1>1, <1>2, WrittenReads

\* A place is an address below AddressSpace.
LEMMA Placed ==
    ASSUME NEW a \in Nat
    PROVE  Place(a) \in Nat /\ Place(a) < AddressSpace
BY SpaceAssumption DEF Place

\* A dword has room for what a register of the UART holds.
LEMMA Roomy == Full \in Nat /\ 96 < Full
<1> DEFINE S == Base * Base
<1>1. Base \in Nat /\ Base >= 4
  BY BaseAssumption
<1>2. S \in Nat /\ S >= 4 * Base
  BY <1>1
<1>3. S >= 16
  BY <1>1, <1>2
<1>4. Full = S * S
  BY <1>1 DEF Full
<1> HIDE DEF S
<1> DEFINE d == S - 16
<1>5. d \in Nat /\ S = 16 + d
  BY <1>2, <1>3
<1> HIDE DEF d
<1>6. S * S = (16 * S) + (d * S) /\ d * S \in Nat
  BY <1>2, <1>5
<1> QED
  BY <1>2, <1>3, <1>4, <1>6

\* Two bytes make a word, and four a dword.
LEMMA WordOf ==
    ASSUME NEW b0 \in Byte, NEW b1 \in Byte
    PROVE  b0 + (Base * b1) \in Word
<1>1. b0 \in 0 .. Base - 1 /\ b1 \in 0 .. Base - 1 /\ Base \in Nat \ {0}
  BY Powers DEF Byte
<1>2. Base * b1 <= Base * (Base - 1) /\ Base * b1 \in Nat
  BY <1>1
<1>3. Base * (Base - 1) = (Base * Base) - Base /\ Base * Base \in Nat
  BY <1>1
<1> QED
  BY <1>1, <1>2, <1>3 DEF Word

\* A dword joined from four bytes is below the radix of a dword.
LEMMA DwordOf ==
    ASSUME NEW b0 \in Byte, NEW b1 \in Byte, NEW b2 \in Byte, NEW b3 \in Byte
    PROVE  Join(b0, b1, b2, b3) \in Dword
<1> DEFINE S == Base * Base
           l == b0 + (Base * b1)
           h == b2 + (Base * b3)
<1>1. l \in 0 .. S - 1 /\ h \in 0 .. S - 1
  BY WordOf DEF Word
<1>2. S \in Nat \ {0} /\ Full = S * S
  <2>1. Base \in Nat /\ S \in Nat \ {0}
    BY Powers
  <2> QED
    BY <2>1 DEF Full
<1>3. Join(b0, b1, b2, b3) = l + (S * h)
  <2>1. Base \in Nat /\ b0 \in Nat /\ b1 \in Nat /\ b2 \in Nat /\ b3 \in Nat
    BY Powers DEF Byte
  <2> QED
    BY <2>1 DEF Join
<1> HIDE DEF S, l, h
<1>4. S * h <= S * (S - 1) /\ S * h \in Nat
  BY <1>1, <1>2
<1>5. S * (S - 1) = (S * S) - S
  BY <1>2
<1> QED
  BY <1>1, <1>2, <1>3, <1>4, <1>5 DEF Dword

\* The cleared memory is sound.
LEMMA InitHolds == MemoryInit => IInv
<1> SUFFICES ASSUME MemoryInit PROVE IInv
  OBVIOUS
<1>1. Base \in Nat /\ 0 \in Byte /\ 0 \in Dword
  BY Powers DEF Byte, Dword
<1> QED
  BY <1>1 DEF MemoryInit, IInv, Sound, Storage, Pr, PrInit, Written, Ragged

\* A store to the RAM keeps the memory sound and is the one recorded.
LEMMA RamKept ==
    ASSUME NEW m, Sound(m), NEW a \in Nat, a < AddressSpace, NEW n \in {1, 2, 4},
           InRam(a, n), NEW v \in Dword, n = 1 => v \in Byte, n = 2 => v \in Word
    PROVE  Sound(StoreRam(m, a, n, v))
<1> DEFINE p == StoreRam(m, a, n, v)
<1>1. v \in Nat
  BY Powers DEF Dword
<1>2. \A k \in Offsets(n) : ByteOf(v, k) \in Byte
  BY <1>1, BytesOf DEF Offsets
<1>3. m \in Storage
  BY DEF Sound
<1>4. Stored(m.ram, a, n, v) \in [Offsets(MemSize) -> Byte]
  BY <1>2, <1>3 DEF Stored, Storage
<1>5. /\ p.ram = Stored(m.ram, a, n, v)
      /\ p.last = [a |-> a, n |-> n, v |-> v]
      /\ p.fb = m.fb /\ p.pr = m.pr /\ p.spills = m.spills
  BY <1>3 DEF StoreRam, Storage
<1>6. p \in Storage
  BY <1>3, <1>4 DEF Storage, StoreRam
<1> HIDE DEF p
<1>7. Written(p)
  <2>1. ASSUME NEW k \in Offsets(n)
        PROVE  p.ram[a + k] = ByteOf(v, k)
    <3>1. a + k \in Offsets(MemSize) /\ (a + k) - a = k
      BY SizeAssumption DEF InRam, Offsets
    <3>2. Stored(m.ram, a, n, v)[a + k] = ByteOf(v, k)
      BY <1>3, <3>1 DEF Stored, Storage
    <3> QED
      BY <1>5, <3>2
  <2> QED
    BY <1>5, <2>1 DEF Written
<1>8. Ragged(p)
  BY <1>5 DEF Sound, Ragged
<1> QED
  BY <1>6, <1>7, <1>8 DEF Sound, p

\* A store to the framebuffer keeps it sound: one at a multiple of its size from the
\* start of a buffer which that size divides does not pass the end.
LEMMA BufferKept ==
    ASSUME NEW m, Sound(m), NEW a \in Nat, NEW n \in {2, 4}, IsBuffer(a),
           NEW v \in Dword
    PROVE  Sound(StoreBuffer(m, a, n, v))
<1> DEFINE p == StoreBuffer(m, a, n, v)
<1>1. v \in Nat
  BY Powers DEF Dword
<1>2. \A k \in Offsets(n) : ByteOf(v, k) \in Byte
  BY <1>1, BytesOf DEF Offsets
<1>3. m \in Storage
  BY DEF Sound
<1>4. Stored(m.fb, a - MemSize, n, v) \in [Offsets(FbSize) -> Byte]
  BY <1>2, <1>3 DEF Stored, Storage
<1>5. /\ p.spills = IF a + n > MemSize + FbSize THEN m.spills \cup {<<a, n>>} ELSE m.spills
      /\ p.ram = m.ram /\ p.last = m.last /\ p.pr = m.pr
  BY <1>3 DEF StoreBuffer, Storage
<1>6. p \in Storage
  <2>1. p.spills \in SUBSET (Nat \X {2, 4})
    BY <1>3, <1>5 DEF Storage
  <2> QED
    BY <1>3, <1>4, <2>1 DEF Storage, StoreBuffer
<1> HIDE DEF p
<1>7. ASSUME a + n > MemSize + FbSize
      PROVE  (a - MemSize) % n # 0 \/ FbSize % n # 0
  <2> DEFINE d == a - MemSize
  <2>1. FbSize \in Nat /\ d \in Nat /\ d < FbSize /\ d + n > FbSize
    BY <1>7, SizeAssumption DEF IsBuffer
  <2> HIDE DEF d
  <2> SUFFICES d % n # 0 \/ FbSize % n # 0
    BY DEF d
  <2>2. CASE n = 2
    BY <2>1, <2>2
  <2>3. CASE n = 4
    BY <2>1, <2>3
  <2> QED
    BY <2>2, <2>3
<1>8. Ragged(p)
  BY <1>3, <1>5, <1>7 DEF Sound, Ragged
<1>9. Written(p)
  BY <1>5 DEF Sound, Written
<1> QED
  BY <1>6, <1>8, <1>9 DEF Sound, p

\* So does a store to an auxiliary register.
LEMMA RegisterKept ==
    ASSUME NEW m, Sound(m), NEW a \in Nat, NEW v \in Byte
    PROVE  Sound([m EXCEPT !.pr = PrWrite(@, a, v)])
<1>1. m \in Storage
  BY DEF Sound
<1>2. m.pr \in Pr
  BY <1>1 DEF Storage
<1>3. Has(v, 1) \in BOOLEAN /\ Has(v, 2) \in BOOLEAN /\ Has(v, 4) \in BOOLEAN
  BY DEF Has
<1> DEFINE p == PrWrite(m.pr, a, v)
<1>4. p \in Pr
  <2> DEFINE q == m.pr
  <2>1. \/ p = [q EXCEPT !.uart = Has(v, 1), !.spi1 = Has(v, 2), !.spi2 = Has(v, 4)]
        \/ p = [q EXCEPT !.rx = Has(v, 1), !.tx = Has(v, 1)]
        \/ p = [q EXCEPT !.bits = 8]
        \/ p = [q EXCEPT !.bits = 7]
        \/ p = [q EXCEPT !.counter = v]
        \/ p = [q EXCEPT !.baud = q.baud % Base]
        \/ p = [q EXCEPT !.baud = q.baud - (q.baud % Base) + v]
        \/ p = q
    BY DEF PrWrite
  <2> HIDE DEF p, q
  <2>2. q \in Pr
    BY <1>2 DEF q
  <2>3. CASE p = [q EXCEPT !.uart = Has(v, 1), !.spi1 = Has(v, 2), !.spi2 = Has(v, 4)]
    <3> DEFINE p1 == [q EXCEPT !.uart = Has(v, 1)]
               p2 == [p1 EXCEPT !.spi1 = Has(v, 2)]
    <3>1. p1 \in Pr
      BY <1>3, <2>2 DEF Pr
    <3>2. p = [p2 EXCEPT !.spi2 = Has(v, 4)]
      BY <2>3
    <3> HIDE DEF p1
    <3>3. p2 \in Pr
      BY <1>3, <3>1 DEF Pr
    <3> HIDE DEF p2
    <3> QED
      BY <1>3, <3>2, <3>3 DEF Pr
  <2>4. CASE p = [q EXCEPT !.rx = Has(v, 1), !.tx = Has(v, 1)]
    BY <1>3, <2>2, <2>4 DEF Pr
  <2>5. CASE p = [q EXCEPT !.bits = 8] \/ p = [q EXCEPT !.bits = 7]
    BY <2>2, <2>5 DEF Pr
  <2>6. CASE p = [q EXCEPT !.counter = v]
    BY <2>2, <2>6 DEF Pr
  <2>7. CASE \/ p = [q EXCEPT !.baud = q.baud % Base]
             \/ p = [q EXCEPT !.baud = q.baud - (q.baud % Base) + v]
    <3>1. /\ q.baud % Base \in Nat
          /\ q.baud - (q.baud % Base) + v \in Nat
      <4> DEFINE b == q.baud
                 d == b \div Base
                 e == b % Base
      <4>1. b \in Nat /\ Base \in Nat \ {0} /\ v \in Nat
        BY <2>2, Powers DEF Pr, Byte
      <4> HIDE DEF b
      <4>2. d \in Nat /\ e \in 0 .. Base - 1 /\ b = e + (Base * d)
        BY <4>1, NatSplit
      <4> HIDE DEF d, e
      <4>3. Base * d \in Nat
        BY <4>1, <4>2
      <4>4. b - e = Base * d
        BY <4>1, <4>2, <4>3
      <4>5. e \in Nat /\ b - e + v \in Nat
        BY <4>1, <4>2, <4>3, <4>4
      <4> QED
        BY <4>5 DEF b, e
    <3> QED
      BY <2>2, <2>7, <3>1 DEF Pr
  <2> QED
    BY <2>1, <2>2, <2>3, <2>4, <2>5, <2>6, <2>7
<1> HIDE DEF p
<1> DEFINE w == [m EXCEPT !.pr = p]
<1>5. w \in Storage
  BY <1>1, <1>4 DEF Storage
<1>6. w.ram = m.ram /\ w.last = m.last /\ w.spills = m.spills /\ w.pr = p
  BY <1>1 DEF Storage
<1> HIDE DEF w
<1>7. Sound(w)
  BY <1>5, <1>6 DEF Sound, Written, Ragged
<1> QED
  BY <1>7 DEF w, p

\* Every store does, whatever its size, its address and its value.
LEMMA StoresKept ==
    ASSUME NEW m, Sound(m), NEW addr \in Dword, NEW v \in Dword
    PROVE  /\ Sound(WriteByte(m, addr, v)) /\ Sound(WriteWord(m, addr, v))
           /\ Sound(WriteDword(m, addr, v))
<1> DEFINE a == Place(addr)
           b == v % Base
           w == v % (Base * Base)
<1>1. addr \in Nat /\ v \in Nat /\ a \in Nat /\ a < AddressSpace
  BY Powers, Placed DEF Dword
<1>2. b \in Byte /\ w \in Word
  BY <1>1, Powers, NatSplit DEF Byte, Word
<1> HIDE DEF b, w
<1>3. b \in Dword /\ w \in Dword
  BY <1>2, Powers DEF Byte, Word, Dword
<1> HIDE DEF a
<1>4. Sound(WriteByte(m, addr, v))
  <2>1. CASE InRam(a, 1)
    <3>1. Sound(StoreRam(m, a, 1, b))
      BY <1>1, <1>2, <1>3, <2>1, RamKept
    <3> QED
      BY <2>1, <3>1 DEF WriteByte, a, b
  <2>2. CASE ~ InRam(a, 1)
    BY <2>2 DEF WriteByte, a
  <2> QED
    BY <2>1, <2>2
<1>5. Sound(WriteWord(m, addr, v))
  <2>1. CASE InRam(a, 2)
    <3>1. Sound(StoreRam(m, a, 2, w))
      BY <1>1, <1>2, <1>3, <2>1, RamKept
    <3> QED
      BY <2>1, <3>1 DEF WriteWord, a, w
  <2>2. CASE ~ InRam(a, 2) /\ IsBuffer(a)
    <3>1. Sound(StoreBuffer(m, a, 2, v))
      BY <1>1, <2>2, BufferKept
    <3> QED
      BY <2>2, <3>1 DEF WriteWord, a
  <2>3. CASE ~ InRam(a, 2) /\ ~ IsBuffer(a)
    BY <2>3 DEF WriteWord, a
  <2> QED
    BY <2>1, <2>2, <2>3
<1>6. Sound(WriteDword(m, addr, v))
  <2> DEFINE buffer == ~ InRam(a, 4) /\ a \notin OtherPorts /\ IsBuffer(a)
             register == ~ InRam(a, 4) /\ a \notin OtherPorts /\ ~ IsBuffer(a)
                             /\ a \in AuxNamed
  <2>1. CASE InRam(a, 4)
    <3>1. Sound(StoreRam(m, a, 4, v))
      BY <1>1, <2>1, RamKept
    <3> QED
      BY <2>1, <3>1 DEF WriteDword, a
  <2>2. CASE buffer
    <3>1. Sound(StoreBuffer(m, a, 4, v))
      BY <1>1, <2>2, BufferKept
    <3> QED
      BY <2>2, <3>1 DEF WriteDword, a
  <2>3. CASE register
    <3>1. Sound([m EXCEPT !.pr = PrWrite(@, a, b)])
      BY <1>1, <1>2, RegisterKept
    <3> QED
      BY <2>3, <3>1 DEF WriteDword, a, b
  <2>4. CASE ~ InRam(a, 4) /\ ~ buffer /\ ~ register
    BY <2>4 DEF WriteDword, a
  <2> QED
    BY <2>1, <2>2, <2>3, <2>4
<1> QED
  BY <1>4, <1>5, <1>6

\* A load from a sound memory returns a dword; x is what a device answers.
LEMMA Loaded ==
    ASSUME NEW m, Sound(m), NEW addr \in Dword, NEW x \in Dword
    PROVE  /\ ReadByte(m, addr) \in Byte /\ ReadWord(m, addr) \in Word
           /\ ReadDword(m, addr, x) \in Dword
<1> DEFINE a == Place(addr)
<1>1. addr \in Nat /\ a \in Nat /\ a < AddressSpace
  BY Powers, Placed DEF Dword
<1>2. m.ram \in [Offsets(MemSize) -> Byte]
  BY DEF Sound, Storage
<1>3. 0 \in Byte /\ 0 \in Word /\ 0 \in Dword
  BY Powers DEF Byte, Word, Dword
<1> HIDE DEF a
<1>4. ReadByte(m, addr) \in Byte
  <2>1. InRam(a, 1) => a \in Offsets(MemSize)
    BY <1>1, SizeAssumption DEF InRam, Offsets
  <2> QED
    BY <1>2, <1>3, <2>1 DEF ReadByte, a
<1>5. ReadWord(m, addr) \in Word
  <2> SUFFICES ASSUME InRam(a, 2) PROVE WordFrom(Turned(m, a, 2)) \in Word
    BY <1>3 DEF ReadWord, a
  <2> DEFINE t(j) == m.ram[(a - (a % 2)) + (((a % 2) + j) % 2)]
  <2>1. t(0) \in Byte /\ t(1) \in Byte
    <3>1. \A j \in 0 .. 1 : (a - (a % 2)) + (((a % 2) + j) % 2) \in Offsets(MemSize)
      <4>1. a + 1 < MemSize /\ MemSize \in Nat
        BY <1>1, SizeAssumption DEF InRam
      <4> QED
        BY <1>1, <4>1 DEF Offsets
    <3> QED
      BY <1>2, <3>1
  <2>2. WordFrom(Turned(m, a, 2)) = t(0) + (Base * t(1))
    <3>1. \A j \in 0 .. 1 : Turned(m, a, 2)[j] = t(j)
      BY DEF Turned, Offsets
    <3> QED
      BY <3>1 DEF WordFrom
  <2> HIDE DEF t
  <2>3. t(0) + (Base * t(1)) \in Word
    BY <2>1, WordOf
  <2> QED
    BY <2>2, <2>3
<1>6. ReadDword(m, addr, x) \in Dword
  <2>1. CASE InRam(a, 4)
    <3> DEFINE t(j) == m.ram[(a - (a % 4)) + (((a % 4) + j) % 4)]
    <3>1. t(0) \in Byte /\ t(1) \in Byte /\ t(2) \in Byte /\ t(3) \in Byte
      <4>1. \A j \in 0 .. 3 : (a - (a % 4)) + (((a % 4) + j) % 4) \in Offsets(MemSize)
        <5>1. a + 3 < MemSize /\ MemSize \in Nat
          BY <1>1, <2>1, SizeAssumption DEF InRam
        <5> QED
          BY <1>1, <5>1 DEF Offsets
      <4> QED
        BY <1>2, <4>1
    <3>2. DwordFrom(Turned(m, a, 4)) = Join(t(0), t(1), t(2), t(3))
      <4>1. \A j \in 0 .. 3 : Turned(m, a, 4)[j] = t(j)
        BY DEF Turned, Offsets
      <4> QED
        BY <4>1 DEF DwordFrom, Join
    <3> HIDE DEF t
    <3>3. Join(t(0), t(1), t(2), t(3)) \in Dword
      BY <3>1, DwordOf
    <3> QED
      BY <2>1, <3>2, <3>3 DEF ReadDword, a
  <2>2. CASE ~ InRam(a, 4) /\ a \in TimerPorts \cup OtherPorts
    BY <2>2 DEF ReadDword, a
  <2>3. CASE ~ InRam(a, 4) /\ a \in AuxNamed \ (TimerPorts \cup OtherPorts)
    <3>1. m.pr.baud % Base \in Byte
      BY Powers, NatSplit DEF Sound, Storage, Pr, Byte
    <3>2. PrRead(m.pr, a) \in (0 .. 96) \cup Byte
      BY <3>1 DEF PrRead
    <3>3. 0 .. 96 \subseteq Dword /\ Byte \subseteq Dword
      BY Roomy, Powers DEF Byte, Dword
    <3> QED
      BY <2>3, <3>2, <3>3 DEF ReadDword, a
  <2>4. CASE ~ InRam(a, 4) /\ a \notin TimerPorts \cup OtherPorts /\ a \notin AuxNamed
    BY <1>3, <2>4 DEF ReadDword, a
  <2> QED
    BY <2>1, <2>2, <2>3, <2>4
<1> QED
  BY <1>4, <1>5, <1>6

\* So the invariant is kept.
LEMMA StepKeeps == IInv /\ [Store]_memory => IInv'
<1> SUFFICES ASSUME IInv, [Store]_memory PROVE IInv'
  OBVIOUS
<1>1. CASE UNCHANGED memory
  BY <1>1 DEF IInv
<1>2. CASE Store
  <2>1. PICK addr, v \in Dword :
            memory' \in {WriteByte(memory, addr, v), WriteWord(memory, addr, v),
                         WriteDword(memory, addr, v)}
    BY <1>2 DEF Store
  <2>2. /\ Sound(WriteByte(memory, addr, v)) /\ Sound(WriteWord(memory, addr, v))
        /\ Sound(WriteDword(memory, addr, v))
    BY StoresKept DEF IInv
  <2>3. Sound(memory')
    BY <2>1, <2>2
  <2> QED
    BY <2>3 DEF IInv
<1> QED
  BY <1>1, <1>2

\* The invariant holds of every sequence of stores.
THEOREM Invariant == MemorySpec => []IInv
BY InitHolds, StepKeeps, PTL DEF MemorySpec

\* memory.c stores at the address and loads inside the aligned bytes around it: what
\* comes back of the last store, for every radix, memory size and address.
THEOREM LastStoreRead == MemorySpec => []ReadsBack
BY SoundMeans, Invariant, PTL

\* fb_is_buffer lets a store pass the end of the framebuffer only if its distance
\* from the start, or the size of the buffer, is no multiple of its size: for a
\* memory of any size.
THEOREM SpillsRagged == MemorySpec => []OnlyRaggedSpill
BY SoundMeans, Invariant, PTL

-----------------------------------------------------------------------------
(* Loops                                                                   *)

\* A set that holds 0 and the successor of each natural number it holds has them all.
LEMMA Climb ==
    ASSUME NEW T, 0 \in T, \A n \in Nat : n \in T => n + 1 \in T
    PROVE  Nat \subseteq T
<1> SUFFICES ASSUME Nat \ T # {} PROVE FALSE
  OBVIOUS
<1> DEFINE R == OpToRel(<, Nat)
<1>1. IsWellFoundedOn(R, Nat)
  BY NatLessThanWellFounded
<1>2. \A y, z \in Nat : <<y, z>> \in R <=> y < z
  BY DEF OpToRel
<1> HIDE DEF R
<1>3. PICK x \in Nat \ T : \A y \in Nat \ T : ~ (<<y, x>> \in R)
  <2>1. Nat \ T \subseteq Nat
    OBVIOUS
  <2> QED
    BY <1>1, <2>1, WFMin, Zenon
<1>4. x # 0 /\ x - 1 \in Nat /\ x - 1 < x
  BY <1>3
<1>5. x - 1 \notin T
  BY <1>3, <1>4
<1>6. x - 1 \in Nat \ T
  BY <1>4, <1>5
<1>7. <<x - 1, x>> \in R
  BY <1>2, <1>3, <1>4
<1> QED
  BY <1>3, <1>6, <1>7

\* What each turn of a loop keeps in S, the loop keeps.
LEMMA Reached ==
    ASSUME NEW n \in Nat, NEW S, NEW f, f[0] \in S,
           \A k \in 1 .. n : f[k - 1] \in S => f[k] \in S
    PROVE  \A k \in 0 .. n : f[k] \in S
<1> DEFINE T == {k \in Nat : k <= n => f[k] \in S}
<1>1. 0 \in T
  OBVIOUS
<1>2. ASSUME NEW k \in Nat, k \in T
      PROVE  k + 1 \in T
  <2> SUFFICES ASSUME k + 1 <= n PROVE f[k + 1] \in S
    OBVIOUS
  <2>1. k + 1 \in 1 .. n /\ (k + 1) - 1 = k /\ f[k] \in S
    BY <1>2
  <2> QED
    BY <2>1
<1> HIDE DEF T
<1>3. Nat \subseteq T
  BY <1>1, <1>2, Climb
<1> QED
  BY <1>3 DEF T

\* The states f of a loop of n turns from b, whose k-th turn is the function G[k] on S.
Turns(f, n, S, b, G) ==
    f \in [0 .. n -> S] /\ f[0] = b /\ \A k \in 1 .. n : f[k] = G[k][f[k - 1]]

\* They are there.
LEMMA LoopRuns ==
    ASSUME NEW n \in Nat, NEW S, NEW b \in S, NEW G \in [1 .. n -> [S -> S]]
    PROVE  \E f : Turns(f, n, S, b, G)
<1> DEFINE Run(f, j) == f = [k \in 0 .. j |-> IF k = 0 THEN b ELSE G[k][f[k - 1]]]
           T == {j \in Nat : j <= n => \E f \in [0 .. j -> S] : Run(f, j)}
<1>1. 0 \in T
  <2> DEFINE f == [k \in 0 .. 0 |-> b]
  <2>1. f \in [0 .. 0 -> S] /\ Run(f, 0)
    OBVIOUS
  <2> QED
    BY <2>1
<1>2. ASSUME NEW j \in Nat, j \in T
      PROVE  j + 1 \in T
  <2> SUFFICES ASSUME j + 1 <= n PROVE \E f \in [0 .. j + 1 -> S] : Run(f, j + 1)
    OBVIOUS
  <2>1. PICK f \in [0 .. j -> S] : Run(f, j)
    BY <1>2
  <2>2. \A k \in 0 .. j : f[k] = IF k = 0 THEN b ELSE G[k][f[k - 1]]
    BY <2>1
  <2> HIDE DEF Run
  <2> DEFINE g == [k \in 0 .. j + 1 |-> IF k = j + 1 THEN G[k][f[j]] ELSE f[k]]
  <2>3. G[j + 1] \in [S -> S] /\ f[j] \in S
    OBVIOUS
  <2>4. g \in [0 .. j + 1 -> S]
    BY <2>3
  <2>5. ASSUME NEW k \in 0 .. j + 1
        PROVE  g[k] = IF k = 0 THEN b ELSE G[k][g[k - 1]]
    <3>1. CASE k = j + 1
      <4>1. k # 0 /\ k - 1 = j /\ j \in 0 .. j + 1 /\ j # j + 1
        BY <3>1
      <4>2. g[j] = f[j]
        BY <4>1
      <4> QED
        BY <3>1, <4>1, <4>2
    <3>2. CASE k = 0
      BY <2>2, <3>2
    <3>3. CASE k # 0 /\ k # j + 1
      <4>1. k \in 0 .. j /\ k - 1 \in 0 .. j + 1 /\ k - 1 # j + 1
        BY <3>3
      <4>2. g[k] = f[k] /\ g[k - 1] = f[k - 1]
        BY <3>3, <4>1
      <4> QED
        BY <2>2, <3>3, <4>1, <4>2
    <3> QED
      BY <3>1, <3>2, <3>3
  <2> HIDE DEF g
  <2>6. g = [k \in 0 .. j + 1 |-> g[k]]
    BY <2>4
  <2>7. Run(g, j + 1)
    BY <2>5, <2>6, Zenon DEF Run
  <2> QED
    BY <2>4, <2>7
<1> HIDE DEF T
<1>3. Nat \subseteq T
  BY <1>1, <1>2, Climb
<1>4. n \in T
  BY <1>3
<1>5. \E f \in [0 .. n -> S] : Run(f, n)
  <2> HIDE DEF Run
  <2> QED
    BY <1>4 DEF T
<1> QED
  BY <1>5 DEF Turns
-----------------------------------------------------------------------------
(* Transfers: what a handler does to the memory and the registers          *)

Registers == [Regs -> Dword]

\* The processor between two instructions.
Processor == IInv /\ r \in Registers /\ status \in {"run", "fatal"}

\* Addresses and words are taken modulo the dword.
LEMMA Wrapped ==
    /\ \A v \in Int : Wrap(v) \in Dword
    /\ Byte \subseteq Dword /\ Word \subseteq Dword
    /\ \A v \in Dword : v \in Nat
    /\ 0 \in Dword
<1>1. ASSUME NEW v \in Int
      PROVE  Wrap(v) \in Dword
  BY Powers, Split DEF Wrap, Dword
<1>2. Byte \subseteq Dword /\ Word \subseteq Dword /\ 0 \in Dword
  BY Powers DEF Byte, Word, Dword
<1>3. \A v \in Dword : v \in Nat
  BY Powers DEF Dword
<1> QED
  BY <1>1, <1>2, <1>3

\* The registers are numbered, and PC and SP are among them.
LEMMA Numbered == PC \in Regs /\ SP \in Regs /\ PC \in Int /\ \A g \in Regs : g \in Int
BY RegsAssumption DEF PC, SP

\* What an instruction reads is a dword.
LEMMA ReadTyped ==
    ASSUME NEW f \in Registers, NEW g \in Regs
    PROVE  Read(f, g) \in Dword
<1>1. f[g] \in Dword /\ f[PC] \in Dword
  BY Numbered DEF Registers
<1>2. f[PC] + 4 \in Int
  BY <1>1, Wrapped
<1>3. Wrap(f[PC] + 4) \in Dword
  BY <1>2, Wrapped
<1> QED
  BY <1>1, <1>3 DEF Read

\* The fetch leaves dwords in the registers.
LEMMA FetchTyped == r \in Registers => Fetched \in Registers
<1> SUFFICES ASSUME r \in Registers PROVE Fetched \in Registers
  OBVIOUS
<1>1. r[PC] + 4 \in Int
  <2>1. r[PC] \in Dword
    BY Numbered DEF Registers
  <2> QED
    BY <2>1, Wrapped
<1>2. Wrap(r[PC] + 4) \in Dword
  BY <1>1, Wrapped
<1> QED
  BY <1>2, Numbered DEF Fetched, Registers

\* The address of a single or a halfword transfer is a dword, and the base register
\* after it.
LEMMA AddressTyped ==
    ASSUME r \in Registers, NEW i \in Instructions, i.kind \in {"single", "half"}
    PROVE  /\ Address(i) \in Dword /\ Moved(i) \in Dword
           /\ \A f \in Registers : WriteBack(i, f) \in Registers
<1>1. i.rn \in Regs /\ i.offset \in Int /\ (i.kind = "half" => i.rm \in Regs)
  BY TransfersAssumption
<1>2. Fetched \in Registers
  BY FetchTyped
<1>3. Read(Fetched, i.rn) \in Dword
  BY <1>1, <1>2, ReadTyped
<1>4. OffsetOf(i) \in Int
  <2>1. i.kind = "half" => Read(Fetched, i.rm) \in Int
    BY <1>1, <1>2, ReadTyped, Wrapped
  <2> QED
    BY <1>1, <2>1 DEF OffsetOf
<1>5. Moved(i) \in Dword
  <2> DEFINE b == Read(Fetched, i.rn)
             o == OffsetOf(i)
  <2>1. b \in Int /\ o \in Int
    BY <1>3, <1>4, Wrapped
  <2> HIDE DEF b, o
  <2>2. Wrap(b + o) \in Dword /\ Wrap(b - o) \in Dword
    BY <2>1, Wrapped
  <2>3. Moved(i) = Wrap(b + o) \/ Moved(i) = Wrap(b - o)
    BY DEF Moved, b, o
  <2> QED
    BY <2>2, <2>3
<1>6. Address(i) \in Dword
  BY <1>3, <1>5 DEF Address
<1>7. ASSUME NEW f \in Registers
      PROVE  WriteBack(i, f) \in Registers
  BY <1>5 DEF WriteBack, WritesBack, Registers
<1> QED
  BY <1>5, <1>6, <1>7

\* A handler that ends with a memory and registers of their types keeps the
\* processor's, and so does one that ends the program.
LEMMA Handed ==
    ASSUME Processor
    PROVE  /\ Fatal => Processor'
           /\ \A m, f : Sound(m) /\ f \in Registers /\ Effect(m, f) => Processor'
           /\ \A i, m, f : Sound(m) /\ WriteBack(i, f) \in Registers /\ Finish(i, m, f)
                               => Processor'
<1>1. Fatal => Processor'
  BY DEF Processor, IInv, Fatal
<1>2. ASSUME NEW m, NEW f, Sound(m), f \in Registers, Effect(m, f)
      PROVE  Processor'
  <2>1. memory' = m /\ r' = f /\ status' = status
    BY <1>2 DEF Effect
  <2>2. Sound(memory') /\ r' \in Registers /\ status' \in {"run", "fatal"}
    BY <1>2, <2>1 DEF Processor
  <2> QED
    BY <2>2 DEF Processor, IInv
<1>3. ASSUME NEW i, NEW m, NEW f, Sound(m), WriteBack(i, f) \in Registers,
             Finish(i, m, f)
      PROVE  Processor'
  <2>1. memory' = m /\ r' = WriteBack(i, f) /\ status' \in {"fatal", status}
    BY <1>3 DEF Finish
  <2>2. Sound(memory') /\ r' \in Registers /\ status' \in {"run", "fatal"}
    BY <1>3, <2>1 DEF Processor
  <2> QED
    BY <2>2 DEF Processor, IInv
<1> QED
  BY <1>1, <1>2, <1>3

\* instr_single_data_trans
LEMMA SingleKept ==
    ASSUME Processor, NEW i \in Instructions, i.kind = "single", NEW x \in Dword,
           Single(i, x)
    PROVE  Processor'
<1> DEFINE a == Address(i)
           v == Read(Fetched, i.rd)
           b == ReadByte(memory, a)
           d == ReadDword(memory, a, x)
<1>1. /\ Sound(memory) /\ Fetched \in Registers /\ a \in Dword
      /\ \A f \in Registers : WriteBack(i, f) \in Registers
  BY FetchTyped, AddressTyped DEF Processor, IInv
<1>2. v \in Dword
  BY <1>1, TransfersAssumption, ReadTyped
<1>3. b \in Dword /\ d \in Dword
  BY <1>1, Loaded, Wrapped
<1>4. Sound(WriteByte(memory, a, v)) /\ Sound(WriteDword(memory, a, v))
  <2> HIDE DEF a, v
  <2> QED
    BY <1>1, <1>2, StoresKept
<1>5. \/ Finish(i, memory, [Fetched EXCEPT ![i.rd] = b])
      \/ Finish(i, memory, [Fetched EXCEPT ![i.rd] = d])
      \/ Finish(i, WriteByte(memory, a, v), Fetched)
      \/ Finish(i, WriteDword(memory, a, v), Fetched)
  BY DEF Single
<1> HIDE DEF a, v, b, d
<1>6. /\ [Fetched EXCEPT ![i.rd] = b] \in Registers
      /\ [Fetched EXCEPT ![i.rd] = d] \in Registers
  BY <1>1, <1>3 DEF Registers
<1>7. /\ WriteBack(i, [Fetched EXCEPT ![i.rd] = b]) \in Registers
      /\ WriteBack(i, [Fetched EXCEPT ![i.rd] = d]) \in Registers
      /\ WriteBack(i, Fetched) \in Registers
  BY <1>1, <1>6
<1> QED
  BY <1>1, <1>4, <1>5, <1>7, Handed

\* instr_single_data_swap
LEMMA SwapTyped ==
    ASSUME IInv, NEW i \in Instructions, i.kind \in {"swap", "half"},
           i.rn \in Regs, i.rm \in Regs, NEW f \in Registers, NEW x \in Dword
    PROVE  Sound(Swapped(i, f, x).m) /\ Swapped(i, f, x).f \in Registers
<1> DEFINE a == f[i.rn]
           v == f[i.rm]
           b == ReadByte(memory, a)
           d == ReadDword(memory, a, x)
<1>1. a \in Dword /\ v \in Dword /\ Sound(memory)
  BY DEF Registers, IInv
<1> HIDE DEF a, v
<1>2. b \in Dword /\ d \in Dword
  BY <1>1, Loaded, Wrapped
<1>3. Sound(WriteByte(memory, a, v)) /\ Sound(WriteDword(memory, a, v))
  BY <1>1, StoresKept
<1>4. /\ i.b => /\ Swapped(i, f, x).m = WriteByte(memory, a, v)
                /\ Swapped(i, f, x).f = [f EXCEPT ![i.rd] = b]
      /\ ~ i.b => /\ Swapped(i, f, x).m = WriteDword(memory, a, v)
                  /\ Swapped(i, f, x).f = [f EXCEPT ![i.rd] = d]
  BY DEF Swapped, a, v
<1> HIDE DEF b, d
<1>5. [f EXCEPT ![i.rd] = b] \in Registers /\ [f EXCEPT ![i.rd] = d] \in Registers
  BY <1>2 DEF Registers
<1> QED
  BY <1>3, <1>4, <1>5

\* The swap keeps the processor sound.
LEMMA SwapKept ==
    ASSUME Processor, NEW i \in Instructions, i.kind = "swap", NEW x \in Dword,
           Swap(i, x)
    PROVE  Processor'
<1> DEFINE w == Swapped(i, Fetched, x)
<1>1. IInv /\ Fetched \in Registers /\ i.rn \in Regs /\ i.rm \in Regs
  BY FetchTyped, TransfersAssumption DEF Processor
<1>2. Sound(w.m) /\ w.f \in Registers
  BY <1>1, SwapTyped
<1>3. Fatal \/ Effect(w.m, w.f)
  BY DEF Swap
<1> HIDE DEF w
<1> QED
  BY <1>2, <1>3, Handed

\* The sign of a byte and of a word.
LEMMA SignTyped ==
    /\ \A v \in Byte : SignByte(v) \in Dword
    /\ \A v \in Word : SignWord(v) \in Dword
<1>1. ASSUME NEW v \in Byte
      PROVE  SignByte(v) \in Dword
  <2>1. v \in Dword /\ v \in Int /\ Base \in Int
    BY <1>1, Wrapped, Powers
  <2>2. Wrap(v - Base) \in Dword
    BY <2>1, Wrapped
  <2> QED
    BY <2>1, <2>2 DEF SignByte
<1>2. ASSUME NEW v \in Word
      PROVE  SignWord(v) \in Dword
  <2>1. v \in Dword /\ v \in Int /\ Base * Base \in Int
    BY <1>2, Wrapped, Powers
  <2>2. Wrap(v - (Base * Base)) \in Dword
    BY <2>1, Wrapped
  <2> QED
    BY <2>1, <2>2 DEF SignWord
<1> QED
  BY <1>1, <1>2

\* instr_hw_sd_transfer
LEMMA HalfwordKept ==
    ASSUME Processor, NEW i \in Instructions, i.kind = "half", NEW x \in Dword,
           Halfword(i, x)
    PROVE  Processor'
<1> DEFINE a == Address(i)
           w == ReadWord(memory, a)
           u == SignByte(ReadByte(memory, a))
           h == SignWord(w)
           p == Swapped(i, Fetched, x)
           at == IF i.rd = PC THEN Wrap(a + 12) ELSE a
           v == Read(Fetched, i.rd)
           loaded(c) == [Fetched EXCEPT ![i.rd] = c]
<1>1. /\ Sound(memory) /\ IInv /\ Fetched \in Registers /\ a \in Dword
      /\ \A f \in Registers : WriteBack(i, f) \in Registers
  BY FetchTyped, AddressTyped DEF Processor, IInv
<1>2. i.rd \in Regs /\ i.rn \in Regs /\ i.rm \in Regs
  BY TransfersAssumption
<1>3. w \in Dword /\ u \in Dword /\ h \in Dword
  <2>1. w \in Word /\ ReadByte(memory, a) \in Byte
    BY <1>1, Loaded
  <2> QED
    BY <2>1, SignTyped, Wrapped
<1>4. Sound(p.m) /\ p.f \in Registers
  BY <1>1, <1>2, SwapTyped
<1>5. v \in Dword /\ at \in Dword
  <2>1. a + 12 \in Int
    BY <1>1, Wrapped
  <2>2. Wrap(a + 12) \in Dword
    BY <2>1, Wrapped
  <2> QED
    BY <1>1, <1>2, <2>2, ReadTyped
<1>6. Sound(WriteWord(memory, at, v))
  <2> HIDE DEF at, v
  <2> QED
    BY <1>1, <1>5, StoresKept
<1>7. \/ Fatal
      \/ Finish(i, p.m, p.f)
      \/ \E c \in {w, u, h} : Finish(i, memory, loaded(c))
      \/ Finish(i, WriteWord(memory, at, v), Fetched)
  <2>1. Fatal \/ HalfEffect(i, x)
    BY DEF Halfword
  <2>2. CASE i.sh = 0 /\ HalfEffect(i, x)
    BY <2>2 DEF HalfEffect
  <2>3. CASE i.sh = 1 /\ HalfEffect(i, x)
    BY <2>3 DEF HalfEffect
  <2>4. CASE i.sh = 2 /\ HalfEffect(i, x)
    BY <2>4 DEF HalfEffect
  <2>5. CASE i.sh = 3 /\ HalfEffect(i, x)
    BY <2>5 DEF HalfEffect
  <2>6. i.sh \in 0 .. 3
    BY TransfersAssumption
  <2> QED
    BY <2>1, <2>2, <2>3, <2>4, <2>5, <2>6
<1> HIDE DEF w, u, h, p, at, v
<1>8. \A c \in {w, u, h} : loaded(c) \in Registers
  BY <1>1, <1>3 DEF Registers
<1>9. /\ \A c \in {w, u, h} : WriteBack(i, loaded(c)) \in Registers
      /\ WriteBack(i, p.f) \in Registers /\ WriteBack(i, Fetched) \in Registers
  BY <1>1, <1>4, <1>8
<1> HIDE DEF loaded
<1> QED
  BY <1>1, <1>4, <1>6, <1>7, <1>9, Handed

\* Where a loop over the register list stands: the memory, the registers and the
\* address.
Stand == [m : {m \in Storage : Sound(m)}, f : Registers, a : Dword]

\* One turn of the loop of instr_block_data_transfer.
LEMMA TurnKept ==
    ASSUME NEW i \in Instructions, i.kind = "block", NEW t \in Stand, NEW g \in i.rl,
           NEW x \in [i.rl -> Dword]
    PROVE  Turn(i, t, g, x) \in Stand
<1> DEFINE step == IF i.u THEN 4 ELSE -4
           a == IF i.p THEN Wrap(t.a + step) ELSE t.a
           f == IF i.w /\ g = i.rn THEN [t.f EXCEPT ![g] = a] ELSE t.f
           v == Read(f, g)
           d == ReadDword(t.m, a, x[g])
           m1 == IF i.l THEN t.m ELSE WriteDword(t.m, a, v)
           f1 == IF i.l THEN [f EXCEPT ![g] = d] ELSE f
           a1 == IF i.p THEN a ELSE Wrap(a + step)
<1>1. Turn(i, t, g, x) = [m |-> m1, f |-> f1, a |-> a1]
  BY DEF Turn
<1>2. /\ Sound(t.m) /\ t.m \in Storage /\ t.f \in Registers /\ t.a \in Dword
      /\ g \in Regs /\ step \in Int
  BY TransfersAssumption DEF Stand
<1> HIDE DEF step
<1>3. a \in Dword
  <2>1. t.a + step \in Int
    BY <1>2, Wrapped
  <2>2. Wrap(t.a + step) \in Dword
    BY <2>1, Wrapped
  <2> QED
    BY <1>2, <2>2
<1>4. a1 \in Dword
  <2> HIDE DEF a
  <2>1. a + step \in Int
    BY <1>2, <1>3, Wrapped
  <2>2. Wrap(a + step) \in Dword
    BY <2>1, Wrapped
  <2> QED
    BY <1>3, <2>2
<1> HIDE DEF a
<1>5. f \in Registers
  BY <1>2, <1>3 DEF Registers
<1> HIDE DEF f
<1>6. v \in Dword
  BY <1>2, <1>5, ReadTyped
<1>7. d \in Dword
  BY <1>2, <1>3, Loaded
<1> HIDE DEF v, d
<1>8. Sound(m1)
  BY <1>2, <1>3, <1>6, StoresKept
<1>9. f1 \in Registers
  BY <1>5, <1>7 DEF Registers
<1> HIDE DEF m1, f1, a1
<1>10. m1 \in Storage
  BY <1>8 DEF Sound
<1> QED
  BY <1>1, <1>4, <1>8, <1>9, <1>10 DEF Stand

\* The places of the 16 turns of the loop, and what the instruction makes of the last.
Course(i, x, t) ==
    LET base == Read(Fetched, i.rn)
    IN  /\ t \in [0 .. 16 -> Stand]
        /\ t[0] = [m |-> memory, f |-> Fetched, a |-> base - (base % 4)]
        /\ \A k \in 1 .. 16 :
               t[k] = IF InOrder(i, k) \in i.rl THEN Turn(i, t[k - 1], InOrder(i, k), x)
                                                ELSE t[k - 1]
        /\ Effect(t[16].m, IF i.w /\ i.rn \notin i.rl
                           THEN [t[16].f EXCEPT ![i.rn] = t[16].a] ELSE t[16].f)

\* The loop runs unless the instruction is fatal.
LEMMA BlockRuns ==
    ASSUME Processor, NEW i \in Instructions, i.kind = "block",
           NEW x \in [i.rl -> Dword], Block(i, x)
    PROVE  \/ Fatal /\ (i.rl = {} \/ i.rn = PC)
           \/ \E t : Course(i, x, t)
<1> DEFINE base == Read(Fetched, i.rn)
           b == [m |-> memory, f |-> Fetched, a |-> base - (base % 4)]
           Step(k, t) == IF InOrder(i, k) \in i.rl THEN Turn(i, t, InOrder(i, k), x) ELSE t
           Loop(f) == f = [k \in 0 .. 16 |->
               CASE k = 0 -> b
                 [] k # 0 /\ InOrder(i, k) \in i.rl -> Turn(i, f[k - 1], InOrder(i, k), x)
                 [] OTHER -> f[k - 1]]
           turns == CHOOSE f : Loop(f)
           end == turns[16]
           G == [k \in 1 .. 16 |-> [t \in Stand |-> Step(k, t)]]
<1>1. \/ Fatal /\ (i.rl = {} \/ i.rn = PC)
      \/ Effect(end.m, IF i.w /\ i.rn \notin i.rl THEN [end.f EXCEPT ![i.rn] = end.a]
                                                  ELSE end.f)
  BY DEF Block
<1>2. b \in Stand
  <2>1. Fetched \in Registers /\ i.rn \in Regs /\ memory \in Storage /\ Sound(memory)
    BY FetchTyped, TransfersAssumption DEF Processor, IInv, Sound
  <2>2. base \in Dword
    BY <2>1, ReadTyped
  <2> HIDE DEF base
  <2>3. base - (base % 4) \in Dword
    BY <2>2, Powers DEF Dword
  <2> QED
    BY <2>1, <2>3 DEF Stand
<1> HIDE DEF b
<1>3. ASSUME NEW k \in 1 .. 16, NEW t \in Stand
      PROVE  Step(k, t) \in Stand
  BY TurnKept
<1> HIDE DEF Step
<1>4. G \in [1 .. 16 -> [Stand -> Stand]]
  BY <1>3
<1>5. \A k \in 1 .. 16 : \A t \in Stand : G[k][t] = Step(k, t)
  OBVIOUS
<1> HIDE DEF G
<1>6. \A f : Loop(f) <=> f = [k \in 0 .. 16 |-> IF k = 0 THEN b ELSE Step(k, f[k - 1])]
  <2> SUFFICES ASSUME NEW f
               PROVE  Loop(f) <=> f = [k \in 0 .. 16 |->
                                          IF k = 0 THEN b ELSE Step(k, f[k - 1])]
    OBVIOUS
  <2> QED
    BY DEF Step
<1> HIDE DEF Loop
<1>7. \E f : Loop(f)
  <2> DEFINE n == 16
  <2>0. n \in Nat /\ G \in [1 .. n -> [Stand -> Stand]]
    BY <1>4
  <2> HIDE DEF n
  <2>1. PICK f : Turns(f, n, Stand, b, G)
    BY <1>2, <2>0, LoopRuns, Zenon
  <2>3. f \in [0 .. 16 -> Stand] /\ f[0] = b /\ \A k \in 1 .. 16 : f[k] = G[k][f[k - 1]]
    BY <2>1, Zenon DEF n, Turns
  <2>2. \A k \in 1 .. 16 : f[k] = Step(k, f[k - 1])
    <3> SUFFICES ASSUME NEW k \in 1 .. 16 PROVE f[k] = Step(k, f[k - 1])
      OBVIOUS
    <3>1. f[k - 1] \in Stand
      BY <2>3
    <3> QED
      BY <1>5, <2>3, <3>1
  <2>4. f = [k \in 0 .. 16 |-> IF k = 0 THEN b ELSE Step(k, f[k - 1])]
    BY <2>2, <2>3
  <2> QED
    BY <1>6, <2>4
<1>8. turns = [k \in 0 .. 16 |-> IF k = 0 THEN b ELSE Step(k, turns[k - 1])]
  BY <1>6, <1>7
<1> HIDE DEF turns
<1>9. turns[0] = b /\ \A k \in 1 .. 16 : turns[k] = Step(k, turns[k - 1])
  BY <1>8
<1>10. turns \in [0 .. 16 -> Stand]
  <2>1. \A k \in 1 .. 16 : turns[k - 1] \in Stand => turns[k] \in Stand
    BY <1>3, <1>9
  <2>2. turns[0] \in Stand
    BY <1>2, <1>9
  <2>3. \A k \in 0 .. 16 : turns[k] \in Stand
    BY <2>1, <2>2, Reached
  <2> QED
    BY <1>8, <2>3
<1>11. CASE Effect(end.m, IF i.w /\ i.rn \notin i.rl THEN [end.f EXCEPT ![i.rn] = end.a]
                                                     ELSE end.f)
  <2>1. Course(i, x, turns)
    BY <1>9, <1>10, <1>11 DEF Course, b, Step
  <2> QED
    BY <2>1
<1> QED
  BY <1>1, <1>11

\* instr_block_data_transfer
LEMMA BlockKept ==
    ASSUME Processor, NEW i \in Instructions, i.kind = "block",
           NEW x \in [i.rl -> Dword], Block(i, x)
    PROVE  Processor'
<1>1. CASE Fatal
  BY <1>1, Handed
<1>2. ASSUME NEW t, Course(i, x, t)
      PROVE  Processor'
  <2> DEFINE end == t[16]
  <2>1. end \in Stand
    BY <1>2 DEF Course
  <2>2. Effect(end.m, IF i.w /\ i.rn \notin i.rl THEN [end.f EXCEPT ![i.rn] = end.a]
                                                 ELSE end.f)
    BY <1>2 DEF Course
  <2> HIDE DEF end
  <2>3. Sound(end.m) /\ end.f \in Registers /\ end.a \in Dword
    BY <2>1 DEF Stand
  <2>4. [end.f EXCEPT ![i.rn] = end.a] \in Registers
    BY <2>3 DEF Registers
  <2> QED
    BY <2>2, <2>3, <2>4, Handed
<1> QED
  BY <1>1, <1>2, BlockRuns
-----------------------------------------------------------------------------
(* The floating point unit                                                 *)

\* The unit between two instructions.
Unit == s \in [Cells -> Dword] /\ nzcv \in 0 .. 15 /\ overrun \in BOOLEAN

\* An instruction has left the status registers of the unit alone.
StatusAlone == /\ s'[FPSID] = s[FPSID] /\ s'[FPSCR] = s[FPSCR] /\ s'[FPEXC] = s[FPEXC]
               /\ overrun' = overrun

\* The status registers follow the others.
LEMMA CellOrder ==
    /\ VfpCount \in Nat \ {0} /\ FPSID = VfpCount /\ FPSCR = VfpCount + 1
    /\ FPEXC = VfpCount + 2 /\ Cells = 0 .. VfpCount + 2
    /\ \A c \in 0 .. VfpCount - 1 : c \in Cells /\ c \notin {FPSID, FPSCR, FPEXC}
    /\ FPSID \in Cells /\ FPSCR \in Cells /\ FPEXC \in Cells
BY VfpAssumption DEF FPSID, FPSCR, FPEXC, Cells

\* The four flags are the upper sixteenth of a dword.
LEMMA FlagUnits == FlagUnit \in Nat \ {0} /\ Full = 16 * FlagUnit
<1> DEFINE h == Base \div 2
           q == h * h * h * h
<1>1. h \in Nat \ {0} /\ Base = 2 * h
  BY BaseAssumption
<1> HIDE DEF h
<1>2. q \in Nat \ {0}
  <2>1. h * h \in Nat \ {0}
    BY <1>1
  <2>2. h * h * h \in Nat \ {0}
    BY <1>1, <2>1
  <2> QED
    BY <1>1, <2>2
<1>3. Full = 16 * q
  <2>1. Full = (2 * h) * (2 * h) * (2 * h) * (2 * h)
    BY <1>1 DEF Full
  <2> QED
    BY <1>1, <2>1
<1> HIDE DEF q
<1>4. Full \div 16 = q
  BY <1>2, <1>3
<1> QED
  BY <1>2, <1>3, <1>4 DEF FlagUnit

\* Setting the flags sets them and nothing else.
LEMMA FlagsSet ==
    ASSUME NEW v \in Dword, NEW f \in 0 .. 15
    PROVE  /\ WithFlags(v, f) \in Dword /\ FlagsOf(WithFlags(v, f)) = f
           /\ WithFlags(v, f) % FlagUnit = v % FlagUnit
<1> DEFINE U == FlagUnit
           w == v % U
<1>1. U \in Nat \ {0} /\ Full = 16 * U /\ v \in Int
  BY FlagUnits, Wrapped
<1> HIDE DEF U
<1>2. w \in 0 .. U - 1
  BY <1>1
<1> HIDE DEF w
<1>3. (w + (U * f)) % U = w /\ (w + (U * f)) \div U = f
  BY <1>1, <1>2, Unique
<1>4. WithFlags(v, f) = w + (U * f)
  BY <1>1, <1>2 DEF WithFlags, U, w
<1>5. U * f \in Nat /\ U * f <= U * 15
  BY <1>1
<1>6. w + (U * f) \in Dword
  BY <1>1, <1>2, <1>5 DEF Dword
<1> QED
  BY <1>3, <1>4, <1>6 DEF FlagsOf, U, w

\* There are four of them.
LEMMA FlagsTyped ==
    ASSUME NEW v \in Dword
    PROVE  FlagsOf(v) \in 0 .. 15
<1> DEFINE U == FlagUnit
           q == v \div U
<1>1. U \in Nat \ {0} /\ v \in Nat /\ v < 16 * U
  BY FlagUnits, Wrapped DEF Dword
<1> HIDE DEF U
<1>2. q \in Nat /\ v % U \in Nat /\ v = (v % U) + (U * q)
  <2>1. v \in Nat /\ U \in Nat \ {0}
    BY <1>1
  <2>2. v \div U \in Nat /\ v % U \in 0 .. U - 1 /\ v = (v % U) + (U * (v \div U))
    BY <2>1, NatSplit, Zenon
  <2> QED
    BY <1>1, <2>2
<1> HIDE DEF q
<1>3. q < 16
  <2> SUFFICES ASSUME q >= 16 PROVE FALSE
    BY <1>2
  <2>1. U * q >= U * 16 /\ U * q \in Nat
    BY <1>1, <1>2
  <2> QED
    BY <1>1, <1>2, <2>1
<1> QED
  BY <1>2, <1>3 DEF FlagsOf, U, q

\* A comparison sets one of four patterns.
LEMMA ComparedTyped ==
    ASSUME NEW a, NEW b
    PROVE  Compared(a, b) \in {2, 3, 6, 8}
BY DEF Compared

\* vfp_data_proc
LEMMA DataProcKept ==
    ASSUME Processor, Unit, NEW i \in Instructions, i.kind = "vfp_data",
           NEW o \in Dword, DataProc(i, o)
    PROVE  /\ Processor' /\ Unit' /\ nzcv' = nzcv /\ overrun' = overrun
           /\ s'[FPSID] = s[FPSID] /\ s'[FPEXC] = s[FPEXC]
           /\ CASE i.op = "compare" ->
                       s'[FPSCR] = WithFlags(s[FPSCR], Compared(s[i.fd], s[i.fm]))
                [] i.op = "compare_zero" ->
                       s'[FPSCR] = WithFlags(s[FPSCR], Compared(s[i.fd], ZERO))
                [] OTHER -> s'[FPSCR] = s[FPSCR]
<1>1. /\ i.fd \in 0 .. VfpCount - 1 /\ i.fm \in 0 .. VfpCount - 1
      /\ i.fd \in Cells /\ i.fm \in Cells
      /\ i.fd \notin {FPSID, FPSCR, FPEXC}
  BY UnitAssumption, CellOrder
<1>2. s \in [Cells -> Dword] /\ s[i.fd] \in Dword /\ s[i.fm] \in Dword /\ s[FPSCR] \in Dword
  BY <1>1, CellOrder DEF Unit
<1>3. memory' = memory /\ nzcv' = nzcv /\ overrun' = overrun
  BY DEF DataProc
<1>4. r' \in Registers /\ status' \in {"run", "fatal"}
  <2>1. Fetched \in Registers
    BY FetchTyped DEF Processor
  <2> QED
    BY <2>1 DEF DataProc, Processor
<1>5. Processor'
  BY <1>3, <1>4 DEF Processor, IInv
<1> DEFINE c == Compared(s[i.fd], IF i.op = "compare" THEN s[i.fm] ELSE ZERO)
           w == WithFlags(s[FPSCR], c)
           d == CASE i.op = "arithmetic" -> o [] i.op = "copy" -> s[i.fm]
                  [] OTHER -> s[i.fd]
<1>6. /\ i.op \in {"compare", "compare_zero"} => s' = [s EXCEPT ![FPSCR] = w]
      /\ i.op \notin {"compare", "compare_zero"} => s' = s \/ s' = [s EXCEPT ![i.fd] = d]
  BY DEF DataProc
<1>7. w \in Dword
  <2>1. c \in {2, 3, 6, 8}
    BY ComparedTyped, Zenon
  <2> HIDE DEF c
  <2>2. c \in 0 .. 15
    BY <2>1
  <2> QED
    BY <1>2, <2>2, FlagsSet
<1>8. d \in Dword
  BY <1>2
<1> HIDE DEF d
<1>9. CASE i.op \in {"compare", "compare_zero"}
  <2>1. s' = [s EXCEPT ![FPSCR] = w]
    BY <1>6, <1>9
  <2>2. /\ i.op = "compare" => w = WithFlags(s[FPSCR], Compared(s[i.fd], s[i.fm]))
        /\ i.op = "compare_zero" => w = WithFlags(s[FPSCR], Compared(s[i.fd], ZERO))
    OBVIOUS
  <2> HIDE DEF w
  <2>3. s' \in [Cells -> Dword]
    BY <1>2, <1>7, <2>1
  <2>4. s'[FPSCR] = w /\ s'[FPSID] = s[FPSID] /\ s'[FPEXC] = s[FPEXC]
    BY <1>2, <2>1, CellOrder
  <2>5. Unit'
    BY <1>3, <2>3 DEF Unit, Cells, FPEXC
  <2> QED
    BY <1>3, <1>5, <1>9, <2>2, <2>4, <2>5
<1>10. CASE i.op \notin {"compare", "compare_zero"}
  <2>1. s' = s \/ s' = [s EXCEPT ![i.fd] = d]
    BY <1>6, <1>10
  <2>2. s' \in [Cells -> Dword]
    BY <1>2, <1>8, <2>1
  <2>3. s'[FPSCR] = s[FPSCR] /\ s'[FPSID] = s[FPSID] /\ s'[FPEXC] = s[FPEXC]
    BY <1>1, <1>2, <2>1, CellOrder
  <2>4. Unit'
    BY <1>3, <2>2 DEF Unit, Cells, FPEXC
  <2> QED
    BY <1>3, <1>5, <1>10, <2>3, <2>4
<1> QED
  BY <1>9, <1>10

\* A load or store of one register of the unit.
LEMMA VfpSingleKept ==
    ASSUME Processor, Unit, NEW i \in Instructions, i.kind = "vfp_transfer",
           NEW x \in Dword, VfpSingle(i, x)
    PROVE  Processor' /\ Unit' /\ nzcv' = nzcv /\ StatusAlone
<1> DEFINE a == Wrap(Read(Fetched, i.rn) + (4 * i.offset))
           d == ReadDword(memory, a, x)
           v == s[i.fd]
           m == IF i.l THEN memory ELSE WriteDword(memory, a, v)
<1>1. /\ i.fd \in 0 .. VfpCount - 1 /\ i.fd \in Cells
      /\ i.fd \notin {FPSID, FPSCR, FPEXC} /\ i.rn \in Regs /\ i.offset \in Int
  BY UnitAssumption, CellOrder
<1>2. /\ s \in [Cells -> Dword] /\ v \in Dword
      /\ Sound(memory) /\ Fetched \in Registers
  BY <1>1, FetchTyped DEF Unit, Processor, IInv
<1>3. a \in Dword
  <2> DEFINE b == Read(Fetched, i.rn)
  <2>1. b \in Int
    BY <1>1, <1>2, ReadTyped, Wrapped
  <2> HIDE DEF b
  <2>2. b + (4 * i.offset) \in Int
    BY <1>1, <2>1
  <2>3. Wrap(b + (4 * i.offset)) \in Dword
    BY <2>2, Wrapped
  <2> QED
    BY <2>3 DEF b
<1>4. /\ s' = IF i.l THEN [s EXCEPT ![i.fd] = d] ELSE s
      /\ Effect(m, Fetched) /\ nzcv' = nzcv /\ overrun' = overrun
  BY DEF VfpSingle
<1> HIDE DEF a
<1>5. d \in Dword
  BY <1>2, <1>3, Loaded
<1>6. Sound(m)
  <2> HIDE DEF v
  <2> QED
    BY <1>2, <1>3, StoresKept
<1> HIDE DEF d, v, m
<1>7. Processor'
  BY <1>2, <1>4, <1>6, Handed
<1>8. s' \in [Cells -> Dword]
  BY <1>2, <1>4, <1>5
<1>9. s'[FPSCR] = s[FPSCR] /\ s'[FPSID] = s[FPSID] /\ s'[FPEXC] = s[FPEXC]
  BY <1>1, <1>2, <1>4, CellOrder
<1>10. Unit'
  BY <1>4, <1>8 DEF Unit, Cells, FPEXC
<1> QED
  BY <1>4, <1>7, <1>9, <1>10 DEF StatusAlone

\* The memories a run of stores goes through.
Memories == {m \in Storage : Sound(m)}

\* The memories between the stores of a list of cells.
Filed(i, y, f) ==
    /\ f \in [0 .. i.offset -> Memories] /\ f[0] = memory
    /\ \A k \in 1 .. i.offset :
           f[k] = WriteDword(f[k - 1], Wrap(First(i) + (4 * (k - 1))),
                             IF i.fd + (k - 1) \in Cells THEN s[i.fd + (k - 1)]
                                                        ELSE y[k - 1])

\* The registers after the list.
Passed(i) == CASE i.mode = "decrement" -> [Fetched EXCEPT ![i.rn] = First(i)]
               [] i.mode = "increment" ->
                      [Fetched EXCEPT ![i.rn] = Wrap(First(i) + (4 * i.offset))]
               [] OTHER -> Fetched

\* The loop of dt_multiple_data_transfer runs.
LEMMA ListRuns ==
    ASSUME Processor, Unit, NEW i \in Instructions, i.kind = "vfp_transfer",
           NEW x \in [Cells -> Dword], NEW y \in [Offsets(i.offset) -> Dword],
           VfpMultiple(i, x, y)
    PROVE  /\ i.offset \in Nat /\ First(i) \in Dword /\ Passed(i) \in Registers
           /\ \E f : /\ Filed(i, y, f)
                     /\ Effect(IF i.l THEN memory ELSE f[i.offset], Passed(i))
<1> DEFINE base == First(i)
           at(k) == Wrap(base + (4 * k))
           cell(k) == IF i.fd + k \in Cells THEN s[i.fd + k] ELSE y[k]
           n == i.offset
           Loop(f) == f = [k \in 0 .. n |->
               IF k = 0 THEN memory ELSE WriteDword(f[k - 1], at(k - 1), cell(k - 1))]
           stores == CHOOSE f : Loop(f)
           moved == CASE i.mode = "decrement" -> [Fetched EXCEPT ![i.rn] = base]
                      [] i.mode = "increment" -> [Fetched EXCEPT ![i.rn] = at(n)]
                      [] OTHER -> Fetched
           G == [k \in 1 .. n |-> [m \in Memories |-> WriteDword(m, at(k - 1), cell(k - 1))]]
<1>1. /\ i.mode \in {"unindexed", "increment", "decrement"}
      /\ Effect(IF i.l THEN memory ELSE stores[n], moved)
  BY DEF VfpMultiple
<1>2. n \in Nat
  BY <1>1, UnitAssumption
<1>14. i.rn \in Regs
  BY UnitAssumption
<1>15. i.fd \in 0 .. VfpCount - 1 /\ VfpCount \in Nat
  BY UnitAssumption, VfpAssumption
<1> HIDE DEF n
<1>3. /\ s \in [Cells -> Dword] /\ memory \in Memories
      /\ Fetched \in Registers
  BY FetchTyped DEF Unit, Processor, IInv, Sound, Memories
<1>4. base \in Dword
  <2> DEFINE rn == Read(Fetched, i.rn)
             b == rn - (rn % 4)
  <2>1. rn \in Dword
    BY <1>3, <1>14, ReadTyped
  <2> HIDE DEF rn
  <2>2. b \in Dword
    BY <2>1, Powers DEF Dword
  <2> HIDE DEF b
  <2>3. b - (4 * n) \in Int
    BY <1>2, <2>2, Wrapped
  <2>4. Wrap(b - (4 * n)) \in Dword
    BY <2>3, Wrapped
  <2> QED
    BY <2>2, <2>4 DEF First, b, rn, n
<1> HIDE DEF base
<1>5. \A k \in Int : at(k) \in Dword
  <2> SUFFICES ASSUME NEW k \in Int PROVE at(k) \in Dword
    OBVIOUS
  <2>1. base + (4 * k) \in Int
    BY <1>4, Wrapped
  <2> QED
    BY <2>1, Wrapped
<1>6. \A k \in Offsets(n) : cell(k) \in Dword
  BY <1>3 DEF n
<1> HIDE DEF at, cell
<1>7. moved \in Registers
  <2>1. at(n) \in Dword
    BY <1>2, <1>5
  <2> QED
    BY <1>3, <1>4, <1>14, <2>1 DEF Registers
<1>8. ASSUME NEW k \in 1 .. n, NEW m \in Memories
      PROVE  WriteDword(m, at(k - 1), cell(k - 1)) \in Memories
  <2>1. k - 1 \in Int /\ k - 1 \in Offsets(n)
    BY <1>2 DEF Offsets
  <2>2. at(k - 1) \in Dword /\ cell(k - 1) \in Dword
    BY <1>5, <1>6, <2>1
  <2>3. Sound(WriteDword(m, at(k - 1), cell(k - 1)))
    BY <2>2, StoresKept DEF Memories
  <2> QED
    BY <2>3 DEF Sound, Memories
<1> HIDE DEF moved
<1>9. stores \in [0 .. n -> Memories] /\ stores[0] = memory
      /\ \A k \in 1 .. n : stores[k] = WriteDword(stores[k - 1], at(k - 1), cell(k - 1))
  <2>1. G \in [1 .. n -> [Memories -> Memories]]
    BY <1>8
  <2>2. \A k \in 1 .. n : \A m \in Memories :
            G[k][m] = WriteDword(m, at(k - 1), cell(k - 1))
    OBVIOUS
  <2> HIDE DEF G
  <2>3. \E f : Loop(f)
    <3>1. PICK f : Turns(f, n, Memories, memory, G)
      <4> QED
        BY <1>2, <1>3, <2>1, LoopRuns, Zenon
    <3>2. /\ f \in [0 .. n -> Memories] /\ f[0] = memory
          /\ \A k \in 1 .. n : f[k] = G[k][f[k - 1]]
      BY <3>1, Zenon DEF Turns
    <3>3. \A k \in 1 .. n : f[k] = WriteDword(f[k - 1], at(k - 1), cell(k - 1))
      <4> SUFFICES ASSUME NEW k \in 1 .. n
                   PROVE  f[k] = WriteDword(f[k - 1], at(k - 1), cell(k - 1))
        OBVIOUS
      <4>1. f[k - 1] \in Memories
        BY <1>2, <3>2
      <4> QED
        BY <2>2, <3>2, <4>1
    <3>4. f = [k \in 0 .. n |->
                  IF k = 0 THEN memory ELSE WriteDword(f[k - 1], at(k - 1), cell(k - 1))]
      BY <1>2, <3>2, <3>3
    <3> QED
      BY <3>4
  <2>4. Loop(stores)
    <3> HIDE DEF Loop
    <3> QED
      BY <2>3
  <2> HIDE DEF stores
  <2>5. stores[0] = memory
        /\ \A k \in 1 .. n : stores[k] = WriteDword(stores[k - 1], at(k - 1), cell(k - 1))
    BY <1>2, <2>4
  <2>6. \A k \in 1 .. n : stores[k - 1] \in Memories => stores[k] \in Memories
    BY <1>8, <2>5
  <2>7. \A k \in 0 .. n : stores[k] \in Memories
    <3>1. stores[0] \in Memories
      BY <1>3, <2>5
    <3> QED
      BY <1>2, <2>6, <3>1, Reached
  <2> QED
    BY <2>4, <2>5, <2>7
<1> HIDE DEF stores
<1>10. Filed(i, y, stores) /\ Effect(IF i.l THEN memory ELSE stores[i.offset], Passed(i))
  BY <1>1, <1>9 DEF Filed, Passed, at, cell, n, base, moved
<1> QED
  BY <1>2, <1>4, <1>7, <1>10 DEF n, base, moved, at, Passed

\* A load or store of a list of them: a list that ends before the last register
\* leaves the status registers alone.
LEMMA VfpMultipleKept ==
    ASSUME Processor, Unit, NEW i \in Instructions, i.kind = "vfp_transfer",
           NEW x \in [Cells -> Dword], NEW y \in [Offsets(i.offset) -> Dword],
           VfpMultiple(i, x, y)
    PROVE  Processor' /\ Unit' /\ nzcv' = nzcv /\ (~ Strays(i) => StatusAlone)
<1> DEFINE at(k) == Wrap(First(i) + (4 * k))
           n == i.offset
<1>1. /\ s' = IF i.l THEN [c \in Cells |-> IF c - i.fd \in Offsets(n)
                                           THEN ReadDword(memory, at(c - i.fd), x[c]) ELSE s[c]]
                     ELSE s
      /\ overrun' = (overrun \/ (i.l /\ i.fd + n > VfpCount + 3))
      /\ nzcv' = nzcv
      /\ i.mode \in {"unindexed", "increment", "decrement"}
  BY DEF VfpMultiple
<1>2. n \in Nat /\ First(i) \in Dword /\ Passed(i) \in Registers
  BY ListRuns
<1>3. s \in [Cells -> Dword] /\ Sound(memory)
  BY DEF Unit, Processor, IInv
<1>4. PICK f : Filed(i, y, f) /\ Effect(IF i.l THEN memory ELSE f[n], Passed(i))
  BY ListRuns
<1>15. i.fd \in 0 .. VfpCount - 1 /\ VfpCount \in Nat
  BY UnitAssumption, VfpAssumption
<1>5. \A k \in Int : at(k) \in Dword
  <2> SUFFICES ASSUME NEW k \in Int PROVE at(k) \in Dword
    OBVIOUS
  <2>1. First(i) + (4 * k) \in Int
    BY <1>2, Wrapped
  <2> QED
    BY <2>1, Wrapped
<1>10. Processor'
  <2>1. f[n] \in Memories
    BY <1>2, <1>4 DEF Filed
  <2> DEFINE m == IF i.l THEN memory ELSE f[n]
  <2>2. Sound(m) /\ Effect(m, Passed(i))
    BY <1>3, <1>4, <2>1 DEF Memories
  <2> HIDE DEF m
  <2> QED
    BY <1>2, <2>2, Handed
<1> HIDE DEF n, at
<1>11. s' \in [Cells -> Dword]
  <2>1. \A c \in Cells : ReadDword(memory, at(c - i.fd), x[c]) \in Dword
    <3> SUFFICES ASSUME NEW c \in Cells PROVE ReadDword(memory, at(c - i.fd), x[c]) \in Dword
      OBVIOUS
    <3>1. c - i.fd \in Int
      BY <1>15, CellOrder
    <3>2. at(c - i.fd) \in Dword
      BY <1>5, <3>1
    <3> QED
      BY <1>3, <3>2, Loaded
  <2> QED
    BY <1>1, <1>3, <2>1
<1>12. Unit'
  BY <1>1, <1>11 DEF Unit, Cells, FPEXC
<1>13. ASSUME ~ Strays(i)
       PROVE  StatusAlone
  <2>1. CASE ~ i.l
    <3>1. s' = s /\ overrun' = overrun
      BY <1>1, <2>1 DEF Unit
    <3> QED
      BY <3>1 DEF StatusAlone
  <2>2. CASE i.l
    <3>0. i.fd + n \in Nat /\ VfpCount \in Nat
      BY <1>2, <1>15
    <3>1. i.fd + n <= VfpCount
      BY <1>1, <1>13, <2>2, <3>0 DEF Strays, n
    <3>2. \A c \in {FPSID, FPSCR, FPEXC} : c \in Cells /\ c - i.fd \notin Offsets(n)
      BY <1>2, <1>15, <3>1, CellOrder DEF Offsets
    <3>3. overrun' = overrun
      BY <1>1, <1>2, <1>15, <2>2, <3>1 DEF Unit
    <3>4. s' = [c \in Cells |-> IF c - i.fd \in Offsets(n)
                                THEN ReadDword(memory, at(c - i.fd), x[c]) ELSE s[c]]
      BY <1>1, <2>2
    <3>5. \A c \in {FPSID, FPSCR, FPEXC} : s'[c] = s[c]
      BY <3>2, <3>4
    <3> QED
      BY <3>3, <3>5 DEF StatusAlone
  <2> QED
    BY <2>1, <2>2
<1> QED
  BY <1>1, <1>10, <1>12, <1>13

\* vfp_data_transfer
LEMMA DataTransferKept ==
    ASSUME Processor, Unit, NEW i \in Instructions, i.kind = "vfp_transfer",
           NEW x \in [Cells -> Dword], NEW y \in [Offsets(i.offset) -> Dword],
           DataTransfer(i, x, y)
    PROVE  Processor' /\ Unit' /\ nzcv' = nzcv /\ (~ Strays(i) => StatusAlone)
<1>1. CASE Fatal /\ UNCHANGED vfpVars
  <2>1. Processor' /\ s' = s /\ nzcv' = nzcv /\ overrun' = overrun
    BY <1>1, Handed DEF vfpVars
  <2>2. Unit' /\ StatusAlone
    BY <2>1 DEF Unit, StatusAlone, Cells, FPEXC
  <2> QED
    BY <2>1, <2>2
<1>2. CASE VfpSingle(i, x[i.fd])
  <2>1. x[i.fd] \in Dword
    BY UnitAssumption, CellOrder
  <2> QED
    BY <1>2, <2>1, VfpSingleKept
<1> QED
  BY <1>1, <1>2, VfpMultipleKept DEF DataTransfer

\* rt_reg_transfer
LEMMA RegTransferKept ==
    ASSUME Processor, Unit, NEW i \in Instructions, i.kind = "vfp_register",
           RegTransfer(i)
    PROVE  Processor' /\ Unit' /\ nzcv' = nzcv /\ StatusAlone
<1> DEFINE v == Read(Fetched, i.rd)
<1>1. /\ i.fn \in 0 .. VfpCount - 1 /\ i.fn \in Cells
      /\ i.fn \notin {FPSID, FPSCR, FPEXC} /\ i.rd \in Regs
  BY UnitAssumption, CellOrder
<1>2. /\ s \in [Cells -> Dword] /\ s[i.fn] \in Dword
      /\ Fetched \in Registers
  BY <1>1, FetchTyped DEF Unit, Processor
<1>3. v \in Dword
  BY <1>1, <1>2, ReadTyped
<1>4. /\ r' = IF i.l THEN [Fetched EXCEPT ![i.rd] = s[i.fn]] ELSE Fetched
      /\ s' = IF i.l THEN s ELSE [s EXCEPT ![i.fn] = v]
      /\ memory' = memory /\ status' = status /\ nzcv' = nzcv /\ overrun' = overrun
  BY DEF RegTransfer
<1> HIDE DEF v
<1>5. r' \in Registers
  BY <1>2, <1>4 DEF Registers
<1>6. Processor'
  BY <1>4, <1>5 DEF Processor, IInv
<1>7. s' \in [Cells -> Dword]
  BY <1>2, <1>3, <1>4
<1>8. s'[FPSCR] = s[FPSCR] /\ s'[FPSID] = s[FPSID] /\ s'[FPEXC] = s[FPEXC]
  BY <1>1, <1>2, <1>4, CellOrder
<1>9. Unit'
  BY <1>4, <1>7 DEF Unit, Cells, FPEXC
<1> QED
  BY <1>4, <1>6, <1>8, <1>9 DEF StatusAlone

\* rt_status_reg_transfer
LEMMA StatusTransferKept ==
    ASSUME Processor, Unit, NEW i \in Instructions, i.kind = "vfp_status",
           StatusTransfer(i)
    PROVE  /\ Processor' /\ Unit'
           /\ i.l \/ i.cell # FPSCR => s'[FPSCR] = s[FPSCR]
           /\ i.l => StatusAlone
           /\ nzcv' = IF i.l /\ i.rd = PC /\ i.cell = FPSCR THEN FlagsOf(s[FPSCR]) ELSE nzcv
<1> DEFINE v == Read(Fetched, i.rd)
           T == {FPSID, FPSCR, FPEXC}
           tell == i.l /\ i.rd = PC /\ i.cell = FPSCR
<1>1. i.rd \in Regs /\ T \subseteq Cells
  BY UnitAssumption, CellOrder
<1>2. s \in [Cells -> Dword] /\ Fetched \in Registers /\ \A c \in T : s[c] \in Dword
  BY <1>1, FetchTyped DEF Unit, Processor
<1>3. v \in Dword /\ FlagsOf(s[FPSCR]) \in 0 .. 15
  BY <1>1, <1>2, ReadTyped, FlagsTyped
<1>4. overrun' = overrun
  BY DEF StatusTransfer, vfpVars
<1>5. CASE (i.cell \notin T \/ (i.l /\ i.rd = PC /\ i.cell # FPSCR))
               /\ Fatal /\ UNCHANGED vfpVars
  <2>1. Processor' /\ s' = s /\ nzcv' = nzcv /\ overrun' = overrun /\ ~ tell
    BY <1>5, Handed DEF vfpVars
  <2>2. Unit' /\ StatusAlone
    BY <2>1 DEF Unit, StatusAlone, Cells, FPEXC
  <2> QED
    BY <2>1, <2>2
<1>6. CASE /\ i.cell \in T /\ ~ i.l /\ s' = [s EXCEPT ![i.cell] = v]
           /\ r' = Fetched /\ UNCHANGED <<memory, status, nzcv, overrun>>
  <2> HIDE DEF v
  <2>1. Processor'
    BY <1>2, <1>6 DEF Processor, IInv
  <2>2. s' \in [Cells -> Dword]
    BY <1>2, <1>3, <1>6
  <2>3. Unit'
    BY <1>6, <2>2 DEF Unit, Cells, FPEXC
  <2>4. i.cell # FPSCR => s'[FPSCR] = s[FPSCR]
    BY <1>1, <1>2, <1>6
  <2> QED
    BY <1>6, <2>1, <2>3, <2>4
<1>7. CASE /\ i.cell = FPSCR /\ i.l /\ i.rd = PC /\ nzcv' = FlagsOf(s[FPSCR])
           /\ r' = Fetched /\ UNCHANGED <<memory, status, s, overrun>>
  <2>1. Processor'
    BY <1>2, <1>7 DEF Processor, IInv
  <2>2. Unit' /\ StatusAlone
    BY <1>3, <1>7 DEF Unit, StatusAlone, Cells, FPEXC
  <2> QED
    BY <1>7, <2>1, <2>2
<1>8. CASE /\ i.cell \in T /\ i.l /\ i.rd # PC /\ r' = [Fetched EXCEPT ![i.rd] = s[i.cell]]
           /\ UNCHANGED <<memory, status, vfpVars>>
  <2>1. r' \in Registers
    BY <1>2, <1>8 DEF Registers
  <2>2. Processor'
    BY <1>8, <2>1 DEF Processor, IInv
  <2>3. s' = s /\ nzcv' = nzcv /\ overrun' = overrun
    BY <1>8 DEF vfpVars
  <2>4. Unit' /\ StatusAlone
    BY <2>3 DEF Unit, StatusAlone, Cells, FPEXC
  <2> QED
    BY <1>8, <2>2, <2>3, <2>4
<1> QED
  BY <1>5, <1>6, <1>7, <1>8 DEF StatusTransfer
-----------------------------------------------------------------------------
(* The program's accounts                                                  *)

\* The operands of a comparison, or none.
Pairs == {<<>>} \cup (Dword \X Dword)

\* The flags of FPSCR are those of the last comparison, and the flags of cpsr those
\* of the comparison they were copied from.
Ordered ==
    /\ compared # <<>> => FlagsOf(s[FPSCR]) = Compared(compared[1], compared[2])
    /\ reported # <<>> => nzcv = Compared(reported[1], reported[2])

\* What the histories tell of the comparisons is so.
Record == compared \in Pairs /\ reported \in Pairs /\ strayed \in BOOLEAN
              /\ Ordered /\ StatusKept

\* The whole between two instructions.
MInv == Processor /\ Unit /\ Record /\ ticks \in 0 .. MaxTicks /\ depth \in Nat

\* The words on the stack are counted by a natural number.
LEMMA Counted ==
    ASSUME depth \in Nat, NEW i \in Instructions, Account(i)
    PROVE  depth' \in Nat
<1> DEFINE p == Pushed(i)
           q == Popped(i)
<1>1. i.kind = "block" => Cardinality(i.rl) \in Nat
  <2> SUFFICES ASSUME i.kind = "block" PROVE Cardinality(i.rl) \in Nat
    OBVIOUS
  <2>1. i.rl \subseteq 0 .. PC
    BY TransfersAssumption, RegsAssumption
  <2>2. IsFiniteSet(0 .. PC)
    BY Numbered, FS_Interval
  <2> QED
    BY <2>1, <2>2, FS_Subset, FS_CardinalityType
<1>2. i.kind = "vfp_transfer" /\ i.mode \in {"increment", "decrement"} => i.offset \in Nat
  BY UnitAssumption
<1>3. p \in Nat /\ q \in Nat
  BY <1>1, <1>2 DEF Pushed, Popped
<1>4. \/ depth' = depth + p
      \/ q <= depth /\ depth' = depth - q
      \/ depth' = 0
      \/ depth' = depth
  BY DEF Account
<1> HIDE DEF p, q
<1> QED
  BY <1>3, <1>4

\* Nothing told of the comparisons changes where the flags and the histories stay.
LEMMA Quiet ==
    ASSUME Record, StatusAlone, nzcv' = nzcv,
           compared' = compared, reported' = reported, strayed' = strayed
    PROVE  Record'
BY DEF Record, Ordered, StatusKept, StatusAlone

\* The histories of an instruction that is not the unit's.
LEMMA Others ==
    ASSUME Record, NEW i, Compares(i),
           i.kind \notin {"vfp_data", "vfp_transfer", "vfp_status"}
    PROVE  compared' = compared /\ reported' = reported /\ strayed' = strayed
<1>1. ~ Strays(i)
  BY DEF Strays
<1>2. compared' = compared /\ reported' = reported
  BY <1>1 DEF Compares
<1>3. strayed' = strayed
  BY <1>1 DEF Compares, Record
<1> QED
  BY <1>2, <1>3

\* An instruction that is not the unit's keeps what is told of it.
LEMMA ProcessorOnly ==
    ASSUME Record, Unit, NEW i, Compares(i), UNCHANGED vfpVars,
           i.kind \notin {"vfp_data", "vfp_transfer", "vfp_status"}
    PROVE  Unit' /\ Record'
<1>1. s' = s /\ nzcv' = nzcv /\ overrun' = overrun
  BY DEF vfpVars
<1>2. Unit' /\ StatusAlone
  BY <1>1 DEF Unit, StatusAlone, Cells, FPEXC
<1> QED
  BY <1>1, <1>2, Others, Quiet

\* A comparison is what the flags of FPSCR tell from then on.
LEMMA DataProcRecorded ==
    ASSUME Processor, Unit, Record, NEW i \in Instructions, i.kind = "vfp_data",
           NEW o \in Dword, DataProc(i, o), Compares(i)
    PROVE  Record'
<1> DEFINE a == s[i.fd]
           b == IF i.op = "compare" THEN s[i.fm] ELSE ZERO
           f == Compared(a, b)
           w == WithFlags(s[FPSCR], f)
           T == i.op \in {"compare", "compare_zero"}
<1>1. /\ nzcv' = nzcv /\ overrun' = overrun
      /\ s'[FPSID] = s[FPSID] /\ s'[FPEXC] = s[FPEXC]
      /\ T => s'[FPSCR] = w
      /\ ~ T => s'[FPSCR] = s[FPSCR]
  BY DataProcKept
<1>2. a \in Dword /\ b \in Dword /\ s[FPSCR] \in Dword
  <2>1. i.fd \in Cells /\ i.fm \in Cells /\ FPSCR \in Cells
    BY UnitAssumption, CellOrder
  <2> QED
    BY <2>1, Wrapped DEF Unit, ZERO
<1>3. reported' = reported /\ strayed' = strayed
  BY DEF Compares, Strays, Record
<1>4. compared' = IF T THEN <<a, b>> ELSE compared
  BY DEF Compares, Strays
<1> HIDE DEF a, b
<1>5. f \in {2, 3, 6, 8}
  BY ComparedTyped, Zenon
<1> HIDE DEF f
<1>6. FlagsOf(w) = f /\ w % FlagUnit = s[FPSCR] % FlagUnit
  <2>1. f \in 0 .. 15
    BY <1>5
  <2> QED
    BY <1>2, <2>1, FlagsSet
<1> HIDE DEF w, T
<1>7. CASE ~ T
  <2>1. StatusAlone
    BY <1>1, <1>7 DEF StatusAlone
  <2> QED
    BY <1>1, <1>3, <1>4, <1>7, <2>1, Quiet
<1>8. CASE T
  <2>1. compared' = <<a, b>> /\ s'[FPSCR] = w
    BY <1>1, <1>4, <1>8
  <2>2. compared' \in Pairs /\ reported' \in Pairs /\ strayed' \in BOOLEAN
    BY <1>2, <1>3, <2>1 DEF Pairs, Record
  <2>3. FlagsOf(s'[FPSCR]) = Compared(compared'[1], compared'[2])
    BY <1>6, <2>1 DEF f
  <2>4. reported' # <<>> => nzcv' = Compared(reported'[1], reported'[2])
    BY <1>1, <1>3 DEF Record, Ordered
  <2>5. Ordered'
    BY <2>3, <2>4 DEF Ordered
  <2>6. StatusKept'
    BY <1>1, <1>3, <1>5, <1>6, <2>1 DEF StatusKept, Record
  <2> QED
    BY <2>2, <2>5, <2>6 DEF Record
<1> QED
  BY <1>7, <1>8

\* A list that passes the last register ends what was told of the comparisons.
LEMMA TransferRecorded ==
    ASSUME Record, Unit, NEW i \in Instructions, i.kind = "vfp_transfer",
           nzcv' = nzcv, ~ Strays(i) => StatusAlone, Compares(i)
    PROVE  Record'
<1>1. reported' = reported
  BY DEF Compares
<1>2. CASE ~ Strays(i)
  <2>1. compared' = compared /\ strayed' = strayed
    BY <1>2 DEF Compares, Record
  <2> QED
    BY <1>1, <1>2, <2>1, Quiet
<1>3. CASE Strays(i)
  <2>1. compared' = <<>> /\ strayed'
    BY <1>3 DEF Compares
  <2>2. strayed' \in BOOLEAN
    BY <1>3 DEF Compares, Record
  <2> QED
    BY <1>1, <2>1, <2>2 DEF Record, Ordered, StatusKept, Pairs
<1> QED
  BY <1>2, <1>3

\* FMSTAT hands the flags over with what they tell; FMXR ends it.
LEMMA StatusRecorded ==
    ASSUME Processor, Unit, Record, NEW i \in Instructions, i.kind = "vfp_status",
           StatusTransfer(i), Compares(i)
    PROVE  Record'
<1> DEFINE tell == i.l /\ i.rd = PC /\ i.cell = FPSCR
<1>1. /\ i.l \/ i.cell # FPSCR => s'[FPSCR] = s[FPSCR]
      /\ i.l => StatusAlone
      /\ nzcv' = IF tell THEN FlagsOf(s[FPSCR]) ELSE nzcv
  BY StatusTransferKept
<1>2. ~ Strays(i)
  BY DEF Strays
<1>3. reported' = IF tell THEN compared ELSE reported
  BY DEF Compares
<1>4. CASE i.l
  <2>1. compared' = compared /\ strayed' = strayed
    BY <1>2, <1>4 DEF Compares, Record
  <2>2. StatusAlone
    BY <1>1, <1>4
  <2>3. CASE ~ tell
    BY <1>1, <1>3, <2>1, <2>2, <2>3, Quiet
  <2>4. CASE tell
    <3>1. nzcv' = FlagsOf(s[FPSCR]) /\ reported' = compared
      BY <1>1, <1>3, <2>4
    <3> QED
      BY <2>1, <2>2, <3>1 DEF Record, Ordered, StatusKept, StatusAlone
  <2> QED
    BY <2>3, <2>4
<1>5. CASE ~ i.l
  <2>1. strayed' /\ strayed' \in BOOLEAN
    BY <1>5 DEF Compares, Record
  <2>2. compared' = (IF i.cell = FPSCR THEN <<>> ELSE compared)
    BY <1>2, <1>5 DEF Compares
  <2>3. nzcv' = nzcv /\ reported' = reported
    BY <1>1, <1>3, <1>5
  <2>4. compared' # <<>> => s'[FPSCR] = s[FPSCR] /\ compared' = compared
    BY <1>1, <2>2
  <2> QED
    BY <2>1, <2>2, <2>3, <2>4 DEF Record, Ordered, StatusKept, Pairs
<1> QED
  BY <1>4, <1>5

\* The program starts from cleared status registers.
LEMMA MachineInit == Init => MInv
<1> SUFFICES ASSUME Init PROVE MInv
  OBVIOUS
<1>1. IInv
  BY InitHolds DEF Init
<1>2. r \in Registers
  <2>1. PICK p \in Pointers, v \in Numbers :
            r = [g \in Regs |-> CASE g = R0 -> p [] g = SP -> StackTop
                                  [] g = PC -> 0 [] OTHER -> v]
    BY DEF Init
  <2>2. p \in Dword /\ v \in Dword /\ StackTop \in Dword /\ 0 \in Dword
    BY ProgramAssumption, Wrapped
  <2> QED
    BY <2>1, <2>2 DEF Registers
<1>3. s \in [Cells -> Dword] /\ s[FPSID] = 0 /\ s[FPSCR] = 0 /\ s[FPEXC] = 0
  <2>1. PICK f \in [0 .. VfpCount - 1 -> Numbers] :
            s = [c \in Cells |-> IF c < VfpCount THEN f[c] ELSE 0]
    BY DEF Init
  <2>2. Numbers \subseteq Dword /\ 0 \in Dword
    BY ProgramAssumption, Wrapped
  <2>3. \A c \in Cells : c < VfpCount => c \in 0 .. VfpCount - 1
    BY CellOrder
  <2>4. s \in [Cells -> Dword]
    BY <2>1, <2>2, <2>3
  <2>5. /\ FPSID \in Cells /\ ~ (FPSID < VfpCount)
        /\ FPSCR \in Cells /\ ~ (FPSCR < VfpCount)
        /\ FPEXC \in Cells /\ ~ (FPEXC < VfpCount)
    BY CellOrder
  <2> QED
    BY <2>1, <2>4, <2>5
<1>4. FlagsOf(0) = 0 /\ 0 % FlagUnit = 0
  <2>1. 0 + (FlagUnit * 0) = 0 /\ 0 \in 0 .. FlagUnit - 1
    BY FlagUnits
  <2> QED
    BY <2>1, FlagUnits, Unique DEF FlagsOf
<1>5. /\ status = "run" /\ nzcv = 0 /\ overrun = FALSE
      /\ ticks = 0 /\ depth = 0 /\ strayed = FALSE
      /\ compared = <<>> /\ reported = <<>>
  BY DEF Init
<1>6. StatusKept
  BY <1>3, <1>4, <1>5 DEF StatusKept
<1>7. Record
  <2>1. Ordered
    BY <1>5 DEF Ordered
  <2>2. compared \in Pairs /\ reported \in Pairs /\ strayed \in BOOLEAN
    BY <1>5 DEF Pairs
  <2> QED
    BY <1>6, <2>1, <2>2 DEF Record
<1>8. Processor /\ Unit
  <2>0. 0 \in 0 .. 15 /\ FALSE \in BOOLEAN
    OBVIOUS
  <2>1. nzcv \in 0 .. 15 /\ overrun \in BOOLEAN /\ status \in {"run", "fatal"}
    BY <1>5, <2>0, Zenon
  <2> QED
    BY <1>1, <1>2, <1>3, <2>1 DEF Processor, Unit
<1>9. ticks \in 0 .. MaxTicks /\ depth \in Nat
  BY <1>5, ProgramAssumption
<1> QED
  BY <1>7, <1>8, <1>9 DEF MInv

\* Each instruction keeps the whole.
LEMMA InstructionKeeps ==
    ASSUME Processor, Unit, Record, NEW i \in Instructions, Handled(i), Compares(i)
    PROVE  Processor' /\ Unit' /\ Record'
<1>1. Answers \subseteq Dword /\ Results \subseteq Dword
  BY ProgramAssumption, VfpAssumption
<1>2. CASE i.kind = "single" /\ (\E x \in Answers : Single(i, x)) /\ UNCHANGED vfpVars
  BY <1>1, <1>2, SingleKept, ProcessorOnly
<1>3. CASE i.kind = "swap" /\ (\E x \in Answers : Swap(i, x)) /\ UNCHANGED vfpVars
  BY <1>1, <1>3, SwapKept, ProcessorOnly
<1>4. CASE i.kind = "half" /\ (\E x \in Answers : Halfword(i, x)) /\ UNCHANGED vfpVars
  BY <1>1, <1>4, HalfwordKept, ProcessorOnly
<1>5. CASE i.kind = "block" /\ (\E x \in [i.rl -> Answers] : Block(i, x)) /\ UNCHANGED vfpVars
  <2>1. PICK x \in [i.rl -> Dword] : Block(i, x)
    BY <1>1, <1>5
  <2> QED
    BY <1>5, <2>1, BlockKept, ProcessorOnly
<1>6. CASE i.kind = "vfp_data" /\ \E o \in Results : DataProc(i, o)
  BY <1>1, <1>6, DataProcKept, DataProcRecorded
<1>7. CASE /\ i.kind = "vfp_transfer"
           /\ \E x \in [Cells -> Answers], y \in [Offsets(i.offset) -> Answers] :
                  DataTransfer(i, x, y)
  <2>1. PICK x \in [Cells -> Dword], y \in [Offsets(i.offset) -> Dword] :
                 DataTransfer(i, x, y)
    BY <1>1, <1>7
  <2> QED
    BY <1>7, <2>1, DataTransferKept, TransferRecorded
<1>8. CASE i.kind = "vfp_register" /\ RegTransfer(i)
  <2>1. Processor' /\ Unit' /\ nzcv' = nzcv /\ StatusAlone
    BY <1>8, RegTransferKept
  <2>2. compared' = compared /\ reported' = reported /\ strayed' = strayed
    BY <1>8, Others
  <2> QED
    BY <2>1, <2>2, Quiet
<1>9. CASE i.kind = "vfp_status" /\ StatusTransfer(i)
  BY <1>9, StatusTransferKept, StatusRecorded
<1>10. CASE i.kind = "ignored" /\ Effect(memory, Fetched) /\ UNCHANGED vfpVars
  <2>1. Sound(memory) /\ Fetched \in Registers
    BY FetchTyped DEF Processor, IInv
  <2> QED
    BY <1>10, <2>1, Handed, ProcessorOnly
<1>11. CASE i.kind = "unsupported" /\ Fatal /\ UNCHANGED vfpVars
  BY <1>11, Handed, ProcessorOnly
<1> QED
  BY <1>2, <1>3, <1>4, <1>5, <1>6, <1>7, <1>8, <1>9, <1>10, <1>11 DEF Handled

\* The invariant is inductive.
LEMMA MachineNext == MInv /\ [Next]_vars => MInv'
<1> SUFFICES ASSUME MInv, [Next]_vars PROVE MInv'
  OBVIOUS
<1>1. CASE Next
  <2>1. PICK i \in Instructions : Handled(i) /\ Account(i) /\ Compares(i)
    BY <1>1 DEF Next
  <2>2. Processor' /\ Unit' /\ Record'
    BY <2>1, InstructionKeeps DEF MInv
  <2>3. depth' \in Nat
    BY <2>1, Counted DEF MInv
  <2>4. ticks' \in 0 .. MaxTicks
    BY <1>1, ProgramAssumption DEF Next, MInv
  <2> QED
    BY <2>2, <2>3, <2>4 DEF MInv
<1>2. CASE UNCHANGED vars
  BY <1>2 DEF vars, vfpVars, MInv, Processor, IInv, Unit, Record, Ordered, StatusKept,
              Cells, FPEXC
<1> QED
  BY <1>1, <1>2

\* The flags of each pattern tell one order.
LEMMA PatternsTell ==
    /\ nzcv = 3 => /\ Cond!Passes("VS") /\ Cond!Passes("NE") /\ Cond!Passes("LT")
                   /\ Cond!Passes("LE") /\ Cond!Passes("HI") /\ Cond!Passes("CS")
                   /\ ~ Cond!Passes("EQ") /\ ~ Cond!Passes("MI") /\ ~ Cond!Passes("LS")
                   /\ ~ Cond!Passes("GT") /\ ~ Cond!Passes("GE")
    /\ nzcv = 6 => /\ Cond!Passes("EQ") /\ Cond!Passes("LS") /\ Cond!Passes("LE")
                   /\ Cond!Passes("GE") /\ Cond!Passes("CS")
                   /\ ~ Cond!Passes("VS") /\ ~ Cond!Passes("NE") /\ ~ Cond!Passes("MI")
                   /\ ~ Cond!Passes("LT") /\ ~ Cond!Passes("GT") /\ ~ Cond!Passes("HI")
    /\ nzcv = 8 => /\ Cond!Passes("NE") /\ Cond!Passes("MI") /\ Cond!Passes("LT")
                   /\ Cond!Passes("LS") /\ Cond!Passes("LE")
                   /\ ~ Cond!Passes("VS") /\ ~ Cond!Passes("EQ") /\ ~ Cond!Passes("GT")
                   /\ ~ Cond!Passes("HI") /\ ~ Cond!Passes("GE") /\ ~ Cond!Passes("CS")
    /\ nzcv = 2 => /\ Cond!Passes("NE") /\ Cond!Passes("GT") /\ Cond!Passes("HI")
                   /\ Cond!Passes("GE") /\ Cond!Passes("CS")
                   /\ ~ Cond!Passes("VS") /\ ~ Cond!Passes("EQ") /\ ~ Cond!Passes("MI")
                   /\ ~ Cond!Passes("LT") /\ ~ Cond!Passes("LS") /\ ~ Cond!Passes("LE")
<1>1. 3 \div 8 = 0 /\ (3 \div 4) % 2 = 0 /\ (3 \div 2) % 2 = 1 /\ 3 % 2 = 1
  OBVIOUS
<1>2. 6 \div 8 = 0 /\ (6 \div 4) % 2 = 1 /\ (6 \div 2) % 2 = 1 /\ 6 % 2 = 0
  OBVIOUS
<1>3. 8 \div 8 = 1 /\ (8 \div 4) % 2 = 0 /\ (8 \div 2) % 2 = 0 /\ 8 % 2 = 0
  OBVIOUS
<1>4. 2 \div 8 = 0 /\ (2 \div 4) % 2 = 0 /\ (2 \div 2) % 2 = 1 /\ 2 % 2 = 0
  OBVIOUS
<1> DEFINE n == nzcv \div 8
           z == (nzcv \div 4) % 2
           c == (nzcv \div 2) % 2
           v == nzcv % 2
<1>5. /\ Cond!Passes("VS") <=> v = 1
      /\ Cond!Passes("EQ") <=> z = 1
      /\ Cond!Passes("NE") <=> z = 0
      /\ Cond!Passes("MI") <=> n = 1
      /\ Cond!Passes("CS") <=> c = 1
      /\ Cond!Passes("HI") <=> c = 1 /\ z = 0
      /\ Cond!Passes("LS") <=> c = 0 \/ z = 1
      /\ Cond!Passes("GE") <=> n = v
      /\ Cond!Passes("LT") <=> n # v
      /\ Cond!Passes("GT") <=> z = 0 /\ n = v
      /\ Cond!Passes("LE") <=> z = 1 \/ n # v
  <2> HIDE DEF n, z, c, v
  <2> QED
    BY DEF Cond!Passes, n, z, c, v
<1>6. /\ nzcv = 3 => n = 0 /\ z = 0 /\ c = 1 /\ v = 1
      /\ nzcv = 6 => n = 0 /\ z = 1 /\ c = 1 /\ v = 0
      /\ nzcv = 8 => n = 1 /\ z = 0 /\ c = 0 /\ v = 0
      /\ nzcv = 2 => n = 0 /\ z = 0 /\ c = 1 /\ v = 0
  BY <1>1, <1>2, <1>3, <1>4
<1> HIDE DEF n, z, c, v
<1> QED
  BY <1>5, <1>6

\* In the invariant the conditions after FMSTAT tell the order of the numbers.
LEMMA OrderTold == MInv => FloatOrder
<1> SUFFICES ASSUME MInv, reported # <<>> PROVE FloatOrder
  BY DEF FloatOrder
<1> DEFINE p == reported[1]
           q == reported[2]
           a == Float[p]
           b == Float[q]
           ordered == p \notin NaN /\ q \notin NaN
<1>1. p \in Dword /\ q \in Dword /\ nzcv = Compared(p, q)
  BY DEF MInv, Record, Pairs, Ordered
<1> HIDE DEF p, q
<1>2. a \in Int /\ b \in Int
  BY <1>1, VfpAssumption
<1>3. \/ ~ ordered /\ nzcv = 3
      \/ ordered /\ a = b /\ nzcv = 6
      \/ ordered /\ a < b /\ nzcv = 8
      \/ ordered /\ a > b /\ nzcv = 2
  BY <1>1, <1>2 DEF Compared
<1> HIDE DEF a, b, ordered
<1>4. /\ Cond!Passes("VS") <=> ~ ordered
      /\ Cond!Passes("EQ") <=> (ordered /\ a = b)
      /\ Cond!Passes("NE") <=> (~ ordered \/ a # b)
      /\ Cond!Passes("MI") <=> (ordered /\ a < b)
      /\ Cond!Passes("LT") <=> (~ ordered \/ a < b)
      /\ Cond!Passes("LS") <=> (ordered /\ a <= b)
      /\ Cond!Passes("LE") <=> (~ ordered \/ a <= b)
      /\ Cond!Passes("GT") <=> (ordered /\ a > b)
      /\ Cond!Passes("HI") <=> (~ ordered \/ a > b)
      /\ Cond!Passes("GE") <=> (ordered /\ a >= b)
      /\ Cond!Passes("CS") <=> (~ ordered \/ a >= b)
  BY <1>2, <1>3, PatternsTell
<1> QED
  BY <1>4, Zenon DEF FloatOrder, a, b, p, q, ordered
-----------------------------------------------------------------------------
(* The theorems of Machine *)

\* The invariant holds of every program.
THEOREM MachineInvariant == Spec => []MInv
BY MachineInit, MachineNext, PTL DEF Spec

\* Dwords in every register, cell and answer of the memory, whatever the program.
THEOREM MachineTyped == Spec => []TypeOK
<1>1. MInv => TypeOK
  <2> SUFFICES ASSUME MInv PROVE TypeOK
    OBVIOUS
  <2>1. MemoryTypeOK
    BY SoundMeans DEF MInv, Processor
  <2>2. \A e \in Pairs : e \in Seq(Dword)
    <3>1. <<>> \in Seq(Dword)
      OBVIOUS
    <3>2. \A x, y \in Dword : <<x, y>> \in Seq(Dword)
      OBVIOUS
    <3>3. ASSUME NEW e \in Pairs, e # <<>>
          PROVE  e \in Seq(Dword)
      <4>1. PICK x \in Dword, y \in Dword : e = <<x, y>>
        BY <3>3 DEF Pairs
      <4> QED
        BY <3>2, <4>1, Zenon
    <3> QED
      BY <3>1, <3>3
  <2> QED
    BY <2>1, <2>2 DEF TypeOK, MInv, Processor, Unit, Record, Registers
<1> QED
  BY MachineInvariant, <1>1, PTL

\* After FCMP and FMSTAT (vfp.c) the conditions of check_cond (cpu.c:14) tell the
\* order of any two numbers, with any instructions between the two and after them.
THEOREM FloatsOrdered == Spec => []FloatOrder
BY MachineInvariant, OrderTold, PTL

\* FPSID, FPEXC and all of FPSCR but its flags keep what vfp_init gave them until a
\* list passes the last register or FMXR writes them, for any number of registers.
THEOREM StatusRegistersKept == Spec => []StatusKept
<1>1. MInv => StatusKept
  BY DEF MInv, Record
<1> QED
  BY MachineInvariant, <1>1, PTL

\* What the invariants of the memory say of any sequence of stores they say of
\* those a program makes, whose loads, lists and swaps compute the addresses.
THEOREM MachineReadsBack == Spec => []ReadsBack
<1>1. MInv => ReadsBack
  BY SoundMeans DEF MInv, Processor
<1> QED
  BY MachineInvariant, <1>1, PTL

\* Whatever the program, only ragged stores pass the end of the framebuffer.
THEOREM MachineSpills == Spec => []OnlyRaggedSpill
<1>1. MInv => OnlyRaggedSpill
  BY SoundMeans DEF MInv, Processor
<1> QED
  BY MachineInvariant, <1>1, PTL

-----------------------------------------------------------------------------
(* The stack                                                               *)

\* The word an abstract register stands for, and the k-th word of a stack at a.
Held(g) == IF g[1] = "r" THEN r[g[2]] ELSE s[g[2]]
Slot(m, a, k) == ReadDword(m, a + (4 * (k - 1)), 0)

\* What the words on the stack need of the pointer: they lie in the RAM.
Inside == depth > 0 => /\ r[SP] % 4 = 0
                       /\ r[SP] + (4 * depth) <= MemSize
                       /\ r[SP] + (4 * depth) <= AddressSpace

\* The number of a register, those of the unit after those of the processor.
Order(g) == IF g[1] = "r" THEN g[2] ELSE PC + 1 + g[2]

\* The lists of n registers.
ListsOf(n) == {l \in [1 .. n -> Names] :
                \A j, k \in 1 .. n : j < k => Order(l[j]) < Order(l[k])}

\* Stack.tla has the same lists.
LEMMA ListsMean ==
    ASSUME NEW n
    PROVE  Abstract!Lists(n) = ListsOf(n)
<1>1. ASSUME NEW l \in [1 .. n -> Names], NEW k \in 1 .. n
      PROVE  [g \in Names |-> IF g[1] = "r" THEN g[2] ELSE PC + 1 + g[2]][l[k]] = Order(l[k])
  BY DEF Order
<1> QED
  BY <1>1, Zenon DEF Abstract!Lists, ListsOf

\* Each register holds a dword after an instruction.
LEMMA HeldTyped ==
    MInv' => [g \in Names |-> IF g[1] = "r" THEN r'[g[2]] ELSE s'[g[2]]] \in [Names -> Dword]
<1> SUFFICES ASSUME MInv', NEW g \in Names
             PROVE  (IF g[1] = "r" THEN r'[g[2]] ELSE s'[g[2]]) \in Dword
  OBVIOUS
<1>1. r' \in [Regs -> Dword] /\ s' \in [Cells -> Dword]
  BY DEF MInv, Processor, Registers, Unit, Cells, FPEXC
<1> QED
  BY <1>1, CellOrder DEF Names, GPRs

\* A push, told by the words in the memory: the registers of l below the old words.
LEMMA Pushes ==
    ASSUME depth \in Nat, NEW n \in Nat \ {0}, NEW l \in ListsOf(n),
           depth' = depth + n,
           \A k \in 1 .. n : Slot(memory', r'[SP], k) = Held(l[k]),
           \A k \in 1 .. depth : Slot(memory', r'[SP], n + k) = Slot(memory, r[SP], k),
           \A g \in Names \ {<<"r", PC>>} : Held(g)' = Held(g)
    PROVE  Abstract!Push
<1> DEFINE stack == [k \in 1 .. depth |-> ReadDword(memory, r[SP] + (4 * (k - 1)), 0)]
           new == [k \in 1 .. n |-> [g \in Names |-> Held(g)][l[k]]]
<1>1. Len(stack') = Len(stack) + n /\ n \in 1 .. Len(stack')
  OBVIOUS
<1>2. stack' = new \o stack
  <2>1. l \in [1 .. n -> Names]
    BY DEF ListsOf
  <2>2. \A k \in 1 .. n : new[k] = Held(l[k])
    BY <2>1
  <2> DEFINE S == {new[k] : k \in 1 .. n} \cup {stack[k] : k \in 1 .. depth}
                    \cup {stack'[k] : k \in 1 .. n + depth}
  <2>3. new \in Seq(S) /\ stack \in Seq(S) /\ Len(new) = n /\ Len(stack) = depth
    <3>1. \A k \in 1 .. n : new[k] \in S
      OBVIOUS
    <3>2. \A k \in 1 .. depth : stack[k] \in S
      OBVIOUS
    <3> HIDE DEF S
    <3>3. new \in Seq(S) /\ Len(new) = n
      BY <3>1
    <3>4. stack \in Seq(S) /\ Len(stack) = depth
      BY <3>2
    <3> QED
      BY <3>3, <3>4
  <2>4. stack' \in Seq(S) /\ Len(stack') = n + depth
    <3>1. \A k \in 1 .. n + depth : stack'[k] \in S
      OBVIOUS
    <3>2. stack' = [k \in 1 .. n + depth |-> stack'[k]]
      OBVIOUS
    <3> HIDE DEF S, stack
    <3> QED
      BY <3>1, <3>2
  <2>5. \A k \in 1 .. n + depth : stack'[k] = Slot(memory', r'[SP], k)
    BY DEF Slot
  <2>6. \A k \in 1 .. depth : stack[k] = Slot(memory, r[SP], k)
    BY DEF Slot
  <2> HIDE DEF new, stack, S
  <2>7. /\ new \o stack \in Seq(S) /\ Len(new \o stack) = n + depth
        /\ \A k \in 1 .. n + depth :
               (new \o stack)[k] = IF k <= n THEN new[k] ELSE stack[k - n]
    BY <2>3, ConcatProperties
  <2>8. ASSUME NEW k \in 1 .. n + depth
        PROVE  stack'[k] = (new \o stack)[k]
    <3>1. CASE k <= n
      BY <2>2, <2>5, <2>7, <3>1
    <3>2. CASE ~ (k <= n)
      <4>1. k - n \in 1 .. depth /\ k = n + (k - n)
        BY <3>2
      <4> QED
        BY <2>5, <2>6, <2>7, <3>2, <4>1
    <3> QED
      BY <3>1, <3>2
  <2> QED
    BY <2>4, <2>7, <2>8, SeqEqual
<1>3. \A g \in Names \ {<<"r", PC>>} : [h \in Names |-> Held(h)'][g] = [h \in Names |-> Held(h)][g]
  OBVIOUS
<1> QED
  BY <1>1, <1>2, <1>3, ListsMean, Zenon DEF Abstract!Push, Held

\* A pop, told likewise: the registers of l hold the first words, the others stay.
LEMMA Pops ==
    ASSUME depth \in Nat, NEW n \in 1 .. depth, NEW l \in ListsOf(n),
           depth' = depth - n,
           \A k \in 1 .. n : Held(l[k])' = Slot(memory, r[SP], k),
           \A k \in 1 .. depth - n : Slot(memory', r'[SP], k) = Slot(memory, r[SP], n + k),
           \A g \in Names \ {<<"r", PC>>} :
               (\A k \in 1 .. n : l[k] # g) => Held(g)' = Held(g)
    PROVE  Abstract!Pop
<1> DEFINE stack == [k \in 1 .. depth |-> ReadDword(memory, r[SP] + (4 * (k - 1)), 0)]
<1>1. Len(stack) = depth /\ n \in 1 .. Len(stack)
  OBVIOUS
<1>2. stack' = SubSeq(stack, n + 1, Len(stack))
  <2> DEFINE S == {stack[k] : k \in 1 .. depth} \cup {stack'[k] : k \in 1 .. depth - n}
  <2>1. stack' \in Seq(S) /\ Len(stack') = depth - n
    <3>1. \A k \in 1 .. depth - n : stack'[k] \in S
      OBVIOUS
    <3>2. stack' = [k \in 1 .. depth - n |-> stack'[k]] /\ depth - n \in Nat
      OBVIOUS
    <3> HIDE DEF S, stack
    <3> QED
      BY <3>1, <3>2
  <2>2. \A k \in n + 1 .. depth : stack[k] \in S
    OBVIOUS
  <2>3. \A k \in 1 .. depth : stack[k] = Slot(memory, r[SP], k)
    BY DEF Slot
  <2>4. \A k \in 1 .. depth - n : stack'[k] = Slot(memory', r'[SP], k)
    BY DEF Slot
  <2> HIDE DEF S, stack
  <2>5. /\ SubSeq(stack, n + 1, depth) \in Seq(S)
        /\ Len(SubSeq(stack, n + 1, depth)) = depth - n
        /\ \A k \in 1 .. depth - n : SubSeq(stack, n + 1, depth)[k] = stack[n + k]
    <3>1. n + 1 \in Int /\ depth \in Int /\ depth - (n + 1) + 1 = depth - n
      OBVIOUS
    <3> QED
      BY <2>2, <3>1, SubSeqProperties
  <2>6. \A k \in 1 .. depth - n : n + k \in 1 .. depth
    OBVIOUS
  <2>7. \A k \in 1 .. depth - n : stack'[k] = SubSeq(stack, n + 1, depth)[k]
    BY <2>3, <2>4, <2>5, <2>6
  <2>8. stack' = SubSeq(stack, n + 1, depth)
    BY <2>1, <2>5, <2>7, SeqEqual
  <2> QED
    BY <1>1, <2>8
<1>3. l \in [1 .. n -> Names]
  BY DEF ListsOf
<1>4. /\ \A k \in 1 .. n : [h \in Names |-> Held(h)'][l[k]] = stack[k]
      /\ \A g \in Names \ {<<"r", PC>>} : (\A k \in 1 .. n : l[k] # g) =>
             [h \in Names |-> Held(h)'][g] = [h \in Names |-> Held(h)][g]
  BY <1>3 DEF Slot
<1> QED
  BY <1>1, <1>2, <1>4, ListsMean, Zenon DEF Abstract!Pop, Held

\* Where the pointer's words stay, the program has worked.
LEMMA Works ==
    ASSUME MInv', depth \in Nat, depth' = depth,
           \A k \in 1 .. depth : Slot(memory', r'[SP], k) = Slot(memory, r[SP], k)
    PROVE  Abstract!Work
<1>1. [g \in Names |-> IF g[1] = "r" THEN r'[g[2]] ELSE s'[g[2]]] \in [Names -> Dword]
  BY HeldTyped
<1> QED
  BY <1>1 DEF Abstract!Work, Slot

\* Where the account is closed, it has left its stack.
LEMMA Leaves ==
    ASSUME MInv', depth' = 0
    PROVE  Abstract!Leave
<1>1. [g \in Names |-> IF g[1] = "r" THEN r'[g[2]] ELSE s'[g[2]]] \in [Names -> Dword]
  BY HeldTyped
<1> QED
  BY <1>1 DEF Abstract!Leave
-----------------------------------------------------------------------------
\* An aligned dword of the RAM.
Grounded(a) == a \in Nat /\ a % 4 = 0 /\ a + 4 <= MemSize /\ a + 4 <= AddressSpace

\* A store at the address addr leaves it alone.
Clear(addr, a) == (Place(addr) .. Place(addr) + 3) \cap (a .. a + 3) = {}

\* A load of such a dword joins its four bytes, whatever a device answers.
LEMMA WordLoaded ==
    ASSUME NEW m, NEW a, Grounded(a), NEW x
    PROVE  ReadDword(m, a, x) = Join(m.ram[a], m.ram[a + 1], m.ram[a + 2], m.ram[a + 3])
<1>1. a \in Nat /\ a < AddressSpace /\ InRam(a, 4) /\ a % 4 = 0
  BY SizeAssumption, SpaceAssumption DEF Grounded, InRam
<1>2. ReadDword(m, a, x) = DwordFrom(Turned(m, a, 4))
  BY <1>1, OwnPlace DEF ReadDword
<1>3. \A j \in 0 .. 3 : Turned(m, a, 4)[j] = m.ram[a + j]
  BY <1>1 DEF Turned, Offsets
<1>4. a + 0 = a
  BY <1>1
<1> QED
  BY <1>2, <1>3, <1>4 DEF DwordFrom, Join

\* A dword stored there is loaded again.
LEMMA WordStored ==
    ASSUME NEW m, Sound(m), NEW a, Grounded(a), NEW v \in Dword
    PROVE  ReadDword(WriteDword(m, a, v), a, 0) = v
<1> DEFINE m1 == WriteDword(m, a, v)
<1>1. a \in Nat /\ a < AddressSpace /\ InRam(a, 4) /\ a % 4 = 0
  BY SizeAssumption, SpaceAssumption DEF Grounded, InRam
<1>2. m1 = StoreRam(m, a, 4, v)
  BY <1>1, OwnPlace DEF WriteDword
<1>3. m \in Storage
  BY DEF Sound
<1>4. m1.ram = Stored(m.ram, a, 4, v)
  BY <1>2, <1>3 DEF StoreRam, Storage
<1>5. \A j \in 0 .. 3 : a + j \in Offsets(MemSize)
  BY <1>1, SizeAssumption DEF InRam, Offsets
<1>6. m.ram \in [Offsets(MemSize) -> Byte]
  BY <1>3 DEF Storage
<1>7. \A j \in 0 .. 3 : m1.ram[a + j] = ByteOf(v, j)
  <2> SUFFICES ASSUME NEW j \in 0 .. 3 PROVE m1.ram[a + j] = ByteOf(v, j)
    OBVIOUS
  <2>1. (a + j) - a = j /\ j \in Offsets(4)
    BY <1>1 DEF Offsets
  <2> QED
    BY <1>4, <1>5, <1>6, <2>1 DEF Stored
<1> HIDE DEF m1
<1>8. a + 0 = a
  BY <1>1
<1> QED
  BY <1>7, <1>8, WordLoaded, Parted DEF m1

\* No store reaches a byte of the RAM but the four from its address on.
LEMMA Untouched ==
    ASSUME NEW m, Sound(m), NEW addr \in Dword, NEW v, NEW b \in Offsets(MemSize),
           b \notin Place(addr) .. Place(addr) + 3
    PROVE  /\ WriteByte(m, addr, v).ram[b] = m.ram[b]
           /\ WriteWord(m, addr, v).ram[b] = m.ram[b]
           /\ WriteDword(m, addr, v).ram[b] = m.ram[b]
<1> DEFINE a == Place(addr)
<1>1. a \in Nat /\ b \in Nat
  BY Placed, Wrapped, SizeAssumption DEF Offsets
<1>2. m \in Storage
  BY DEF Sound
<1>3. m.ram \in [Offsets(MemSize) -> Byte]
  BY <1>2 DEF Storage
<1>4. ASSUME NEW n \in {1, 2, 4}, NEW w
      PROVE  StoreRam(m, a, n, w).ram[b] = m.ram[b]
  <2>1. StoreRam(m, a, n, w).ram = Stored(m.ram, a, n, w)
    BY <1>2 DEF StoreRam, Storage
  <2>2. b - a \notin Offsets(n)
    BY <1>1 DEF Offsets
  <2> HIDE DEF a
  <2> QED
    BY <1>3, <2>1, <2>2 DEF Stored
<1>5. \A n, w : StoreBuffer(m, a, n, w).ram = m.ram
  BY <1>2 DEF StoreBuffer, Storage
<1>6. \A p : [m EXCEPT !.pr = p].ram = m.ram
  BY <1>2 DEF Storage
<1> HIDE DEF a
<1>7. WriteByte(m, addr, v).ram[b] = m.ram[b]
  BY <1>4 DEF WriteByte, a
<1>8. WriteWord(m, addr, v).ram[b] = m.ram[b]
  BY <1>4, <1>5 DEF WriteWord, a
<1>9. WriteDword(m, addr, v).ram[b] = m.ram[b]
  <2> DEFINE p == PrWrite(m.pr, a, v % Base)
  <2>1. WriteDword(m, addr, v) \in {StoreRam(m, a, 4, v), StoreBuffer(m, a, 4, v),
                                    [m EXCEPT !.pr = p], m}
    BY DEF WriteDword, a
  <2>2. StoreRam(m, a, 4, v).ram[b] = m.ram[b]
    BY <1>4
  <2>3. StoreBuffer(m, a, 4, v).ram[b] = m.ram[b]
    BY <1>5
  <2>4. [m EXCEPT !.pr = p].ram[b] = m.ram[b]
    BY <1>6
  <2> HIDE DEF p
  <2> QED
    BY <2>1, <2>2, <2>3, <2>4, Zenon
<1> QED
  BY <1>7, <1>8, <1>9

\* A store that leaves the dword alone keeps what a load of it tells.
LEMMA Apart ==
    ASSUME NEW m, Sound(m), NEW a, Grounded(a), NEW addr \in Dword, Clear(addr, a), NEW v
    PROVE  /\ ReadDword(WriteByte(m, addr, v), a, 0) = ReadDword(m, a, 0)
           /\ ReadDword(WriteWord(m, addr, v), a, 0) = ReadDword(m, a, 0)
           /\ ReadDword(WriteDword(m, addr, v), a, 0) = ReadDword(m, a, 0)
<1>1. \A j \in 0 .. 3 : /\ a + j \in Offsets(MemSize)
                        /\ a + j \notin Place(addr) .. Place(addr) + 3
  BY SizeAssumption DEF Grounded, Offsets, Clear
<1>2. ASSUME NEW m1, \A j \in 0 .. 3 : m1.ram[a + j] = m.ram[a + j]
      PROVE  ReadDword(m1, a, 0) = ReadDword(m, a, 0)
  <2>1. a + 0 = a
    BY DEF Grounded
  <2> QED
    BY <1>2, <2>1, WordLoaded
<1> QED
  BY <1>1, <1>2, Untouched

\* A sum is wrapped once.
LEMMA WrapTwice ==
    ASSUME NEW v \in Int, NEW w \in Int
    PROVE  Wrap(Wrap(v) + w) = Wrap(v + w)
<1> DEFINE d == v \div Full
           e == v % Full
<1>1. Full \in Nat \ {0}
  BY Powers
<1>2. e \in 0 .. Full - 1 /\ d \in Int /\ v = e + (Full * d)
  BY <1>1, Split
<1> HIDE DEF d, e
<1>3. v + w = (e + w) + (Full * d) /\ e + w \in Int
  BY <1>1, <1>2
<1>4. ((e + w) + (Full * d)) % Full = (e + w) % Full
  BY <1>1, <1>2, <1>3, AddedMultiple
<1> QED
  BY <1>3, <1>4 DEF Wrap, e

\* Where addresses land.
LEMMA Landing ==
    /\ \A v \in Int : Place(Wrap(v)) = Place(v) /\ Place(v) % 4 = v % 4
    /\ \A v \in Int, q \in 0 .. 3 : v % 4 = 0 => Place(v + q) = Place(v) + q
    /\ \A v \in Nat : v < Full => Wrap(v) = v
    /\ AddressSpace <= Full
<1>1. AddressSpace \in Nat \ {0} /\ AddressSpace % 4 = 0 /\ Full \in Nat \ {0}
      /\ Full % AddressSpace = 0
  BY SpaceAssumption, Powers
<1>2. PICK j \in Nat : AddressSpace = 4 * j
  BY <1>1
<1>3. PICK k \in Nat : Full = AddressSpace * k
  <2>1. Full \div AddressSpace \in Nat /\ Full = (Full % AddressSpace) + (AddressSpace * (Full \div AddressSpace))
    BY <1>1, NatSplit
  <2> QED
    BY <1>1, <2>1
<1>4. j # 0 /\ k # 0
  BY <1>1, <1>2, <1>3
<1>5. AddressSpace <= Full
  BY <1>1, <1>3, <1>4
<1>6. ASSUME NEW v \in Int
      PROVE  Place(Wrap(v)) = Place(v) /\ Place(v) % 4 = v % 4
  <2>1. (v % (AddressSpace * k)) % AddressSpace = v % AddressSpace
    <3>1. AddressSpace \in Nat \ {0} /\ k \in Nat \ {0}
      BY <1>1, <1>3, <1>4
    <3> QED
      BY <3>1, Nested
  <2>2. (v % (4 * j)) % 4 = v % 4
    <3> DEFINE f == 4
    <3>1. f \in Nat \ {0}
      OBVIOUS
    <3> HIDE DEF f
    <3>2. (v % (f * j)) % f = v % f
      BY <1>4, <3>1, Nested
    <3> QED
      BY <3>2 DEF f
  <2> QED
    BY <1>2, <1>3, <2>1, <2>2 DEF Place, Wrap
<1>7. ASSUME NEW v \in Int, NEW q \in 0 .. 3, v % 4 = 0
      PROVE  Place(v + q) = Place(v) + q
  <2> DEFINE p == Place(v)
             d == v \div AddressSpace
  <2>1. p \in 0 .. AddressSpace - 1 /\ d \in Int /\ v = p + (AddressSpace * d)
    BY <1>1, Split DEF Place
  <2>2. p % 4 = 0
    BY <1>6, <1>7
  <2> HIDE DEF p, d
  <2>3. p + q \in 0 .. AddressSpace - 1
    BY <1>1, <1>2, <2>1, <2>2
  <2>4. v + q = (p + q) + (AddressSpace * d)
    BY <1>1, <2>1
  <2>5. (v + q) % AddressSpace = p + q
    <3> DEFINE e == p + q
    <3>1. e \in 0 .. AddressSpace - 1 /\ v + q = e + (AddressSpace * d)
      BY <2>3, <2>4
    <3> HIDE DEF e
    <3>2. (e + (AddressSpace * d)) % AddressSpace = e
      BY <1>1, <2>1, <3>1, Unique
    <3> QED
      BY <3>1, <3>2 DEF e
  <2> QED
    BY <2>5 DEF Place, p
<1>8. \A v \in Nat : v < Full => Wrap(v) = v
  BY <1>1 DEF Wrap
<1> QED
  BY <1>5, <1>6, <1>7, <1>8
-----------------------------------------------------------------------------
\* The stores Account expects of an instruction do not touch the dword at a.
Misses(i, a) == \A d \in Stores(i) : (d .. d + 3) \cap (a .. a + 3) = {}

\* The dword at a stays.
Keeps(a) == ReadDword(memory', a, 0) = ReadDword(memory, a, 0)

\* An error stores nothing.
LEMMA FatalMisses ==
    ASSUME NEW a, Fatal
    PROVE  Keeps(a)
BY DEF Fatal, Keeps

\* STR and STRB store no further than Account expects.
LEMMA SingleMisses ==
    ASSUME Processor, NEW i \in Instructions, i.kind = "single", NEW x \in Dword,
           Single(i, x), NEW a, Grounded(a), Misses(i, a)
    PROVE  Keeps(a)
<1> DEFINE d == Address(i)
           v == Read(Fetched, i.rd)
<1>1. d \in Dword /\ Sound(memory)
  BY AddressTyped DEF Processor, IInv
<1>2. ~ i.l => Clear(d, a)
  BY DEF Misses, Stores, Clear
<1>3. memory' = IF i.l THEN memory ELSE IF i.b THEN WriteByte(memory, d, v)
                                               ELSE WriteDword(memory, d, v)
  BY DEF Single, Finish
<1> HIDE DEF d, v
<1>4. CASE i.l /\ memory' = memory
  BY <1>4 DEF Keeps
<1>5. CASE ~ i.l /\ memory' \in {WriteByte(memory, d, v), WriteDword(memory, d, v)}
  BY <1>1, <1>2, <1>5, Apart DEF Keeps
<1> QED
  BY <1>3, <1>4, <1>5

\* The swap stores to the address of rn.
LEMMA SwappedMisses ==
    ASSUME Processor, NEW i \in Instructions, i.kind \in {"swap", "half"},
           i.rn \in Regs, i.rn # PC, NEW x \in Dword, NEW a, Grounded(a),
           Misses(i, a), memory' = Swapped(i, Fetched, x).m
    PROVE  Keeps(a)
<1> DEFINE d == Fetched[i.rn]
           v == Fetched[i.rm]
<1>1. d = Read(Fetched, i.rn)
  BY DEF Read
<1>2. d \in Dword /\ Sound(memory)
  BY <1>1, FetchTyped, ReadTyped DEF Processor, IInv
<1>3. Clear(d, a)
  BY <1>1 DEF Misses, Stores, Clear
<1>4. memory' \in {WriteByte(memory, d, v), WriteDword(memory, d, v)}
  BY DEF Swapped
<1> HIDE DEF d, v
<1> QED
  BY <1>2, <1>3, <1>4, Apart DEF Keeps

\* SWP stores no further than Account expects.
LEMMA SwapMisses ==
    ASSUME Processor, NEW i \in Instructions, i.kind = "swap", NEW x \in Dword,
           Swap(i, x), NEW a, Grounded(a), Misses(i, a)
    PROVE  Keeps(a)
<1>1. CASE Fatal
  BY <1>1, FatalMisses
<1>2. CASE i.rn # PC /\ memory' = Swapped(i, Fetched, x).m
  <2>1. i.rn \in Regs
    BY TransfersAssumption
  <2> QED
    BY <1>2, <2>1, SwappedMisses
<1> QED
  BY <1>1, <1>2 DEF Swap, Effect

\* Nor does STRH, with PC as its word or another.
LEMMA HalfwordMisses ==
    ASSUME Processor, NEW i \in Instructions, i.kind = "half", NEW x \in Dword,
           Halfword(i, x), NEW a, Grounded(a), Misses(i, a)
    PROVE  Keeps(a)
<1> DEFINE d == Address(i)
           v == Read(Fetched, i.rd)
           w == IF i.rd = PC THEN Wrap(d + 12) ELSE d
<1>1. d \in Dword /\ d \in Int /\ Sound(memory) /\ i.rn \in Regs /\ i.sh \in 0 .. 3
  BY AddressTyped, TransfersAssumption, Wrapped DEF Processor, IInv
<1>2. Clear(d, a)
  <2>1. d \in {Moved(i), Read(Fetched, i.rn)}
    BY DEF Address
  <2> HIDE DEF d
  <2> QED
    BY <2>1 DEF Misses, Stores, Clear
<1>3. Clear(Wrap(d + 12), a)
  <2>1. Place(Wrap(d + 12)) = Place(d + 12)
    BY <1>1, Landing
  <2>2. Place(d + 12) \in Stores(i)
    BY DEF Stores
  <2> QED
    BY <2>1, <2>2 DEF Misses, Clear
<1>4. Wrap(d + 12) \in Dword
  BY <1>1, Wrapped
<1>5. \/ Fatal
      \/ HalfLegal(i) /\ HalfEffect(i, x)
  BY DEF Halfword
<1>6. CASE Fatal
  BY <1>6, FatalMisses
<1>7. CASE HalfLegal(i) /\ HalfEffect(i, x)
  <2>1. CASE i.sh = 0
    <3>1. memory' = Swapped(i, Fetched, x).m /\ i.rn # PC
      BY <1>7, <2>1 DEF HalfEffect, HalfLegal, Finish
    <3> QED
      BY <1>1, <3>1, SwappedMisses
  <2>2. CASE i.sh = 1 /\ ~ i.l
    <3>1. memory' = WriteWord(memory, w, v)
      BY <1>7, <2>2 DEF HalfEffect, Finish
    <3>2. w \in Dword /\ Clear(w, a)
      BY <1>1, <1>2, <1>3, <1>4
    <3> HIDE DEF w, v
    <3> QED
      BY <1>1, <3>1, <3>2, Apart DEF Keeps
  <2>3. CASE i.sh # 0 /\ ~ (i.sh = 1 /\ ~ i.l)
    <3>1. memory' = memory
      <4>1. CASE i.sh = 1 /\ i.l
        BY <1>7, <4>1 DEF HalfEffect, Finish
      <4>2. CASE i.sh = 2
        BY <1>7, <4>2 DEF HalfEffect, Finish
      <4>3. CASE i.sh = 3
        BY <1>7, <4>3 DEF HalfEffect, Finish
      <4> QED
        BY <1>1, <2>3, <4>1, <4>2, <4>3
    <3> QED
      BY <3>1 DEF Keeps
  <2> QED
    BY <2>1, <2>2, <2>3
<1> QED
  BY <1>5, <1>6, <1>7

\* The dword around an address misses what the four bytes from it on, aligned or
\* not, miss.
LEMMA AlignedMiss ==
    ASSUME NEW b \in Dword, NEW k \in Int, NEW a, Grounded(a),
           (Place(Wrap(b + (4 * k))) .. Place(Wrap(b + (4 * k))) + 3) \cap (a .. a + 3) = {}
    PROVE  Clear(Wrap((b - (b % 4)) + (4 * k)), a)
<1> DEFINE q == b % 4
           v == (b - q) + (4 * k)
<1>1. b \in Nat
  BY Wrapped
<1>2. q \in 0 .. 3 /\ v \in Int /\ v % 4 = 0 /\ b + (4 * k) = v + q
  <2>1. q \in 0 .. 3 /\ b - q = 4 * (b \div 4) /\ b \div 4 \in Int
    BY <1>1
  <2> HIDE DEF q
  <2>2. v = 4 * ((b \div 4) + k) /\ b + (4 * k) = v + q /\ v \in Int
    BY <1>1, <2>1
  <2> QED
    BY <2>1, <2>2
<1> HIDE DEF q, v
<1>3. v + q \in Int
  BY <1>2
<1>4. Place(Wrap(v)) = Place(v) /\ Place(Wrap(v + q)) = Place(v) + q /\ Place(v) % 4 = 0
  BY <1>2, <1>3, Landing
<1>5. Place(v) \in Nat
  BY <1>2, SpaceAssumption DEF Place
<1>6. (Place(v) + q .. Place(v) + q + 3) \cap (a .. a + 3) = {}
  BY <1>2, <1>4
<1>7. (Place(v) .. Place(v) + 3) \cap (a .. a + 3) = {}
  <2> DEFINE p == Place(v)
  <2>1. p # a
    BY <1>2, <1>5, <1>6
  <2>2. a \in Nat /\ a % 4 = 0
    BY DEF Grounded
  <2>3. p \in Nat /\ p % 4 = 0
    BY <1>4, <1>5
  <2> HIDE DEF p
  <2> QED
    BY <2>1, <2>2, <2>3 DEF p
<1> QED
  BY <1>4, <1>7 DEF Clear, v, q

\* FST stores no further than Account expects.
LEMMA VfpSingleMisses ==
    ASSUME Processor, Unit, NEW i \in Instructions, i.kind = "vfp_transfer",
           NEW x \in Dword, VfpSingle(i, x), NEW a, Grounded(a), Misses(i, a)
    PROVE  Keeps(a)
<1> DEFINE rn == Read(Fetched, i.rn)
           d == Wrap(rn + (4 * i.offset))
           n == IF i.offset < 0 THEN -i.offset ELSE i.offset
<1>1. i.offset \in Int /\ i.rn \in Regs
  BY UnitAssumption
<1>2. rn \in Dword /\ Sound(memory)
  BY <1>1, FetchTyped, ReadTyped DEF Processor, IInv
<1>3. memory' = (IF i.l THEN memory ELSE WriteDword(memory, d, s[i.fd])) /\ i.mode = "single"
  BY DEF VfpSingle, Effect
<1>4. i.offset \in -n .. n
  BY <1>1
<1>5. ~ i.l => Stores(i) = {Place(Wrap(rn + (4 * k))) : k \in -n .. n}
  BY <1>3 DEF Stores
<1>6. d \in Dword
  <2>1. rn + (4 * i.offset) \in Int
    BY <1>1, <1>2, Wrapped
  <2> QED
    BY <2>1, Wrapped
<1>7. ~ i.l => Clear(d, a)
  BY <1>4, <1>5 DEF Misses, Clear
<1> HIDE DEF d
<1> QED
  BY <1>2, <1>3, <1>6, <1>7, Apart DEF Keeps

\* The addresses of a list of cells, counted from the base register.
LEMMA FirstAt ==
    ASSUME Processor, NEW i \in Instructions, i.kind = "vfp_transfer", i.offset \in Nat
    PROVE  LET rn == Read(Fetched, i.rn)
               low == IF i.mode = "decrement" THEN -i.offset ELSE 0
           IN  /\ rn \in Dword
               /\ \A k \in Int : Wrap(First(i) + (4 * k)) = Wrap((rn - (rn % 4)) + (4 * (low + k)))
<1> DEFINE rn == Read(Fetched, i.rn)
           base == rn - (rn % 4)
           low == IF i.mode = "decrement" THEN -i.offset ELSE 0
<1>1. i.rn \in Regs
  BY UnitAssumption
<1>2. rn \in Dword
  BY <1>1, FetchTyped, ReadTyped DEF Processor
<1>3. base \in Int
  BY <1>2, Wrapped
<1>4. First(i) = IF i.mode = "decrement" THEN Wrap(base - (4 * i.offset)) ELSE base
  BY DEF First
<1> HIDE DEF base, rn
<1>5. ASSUME NEW k \in Int
      PROVE  Wrap(First(i) + (4 * k)) = Wrap(base + (4 * (low + k)))
  <2>1. CASE i.mode = "decrement"
    <3>1. base - (4 * i.offset) \in Int /\ 4 * k \in Int
      BY <1>3
    <3>2. Wrap(Wrap(base - (4 * i.offset)) + (4 * k)) = Wrap((base - (4 * i.offset)) + (4 * k))
      BY <3>1, WrapTwice
    <3>3. (base - (4 * i.offset)) + (4 * k) = base + (4 * (low + k))
      BY <1>3, <2>1
    <3> QED
      BY <1>4, <2>1, <3>2, <3>3
  <2>2. CASE i.mode # "decrement"
    <3>1. low + k = k
      BY <2>2
    <3> QED
      BY <1>4, <2>2, <3>1
  <2> QED
    BY <2>1, <2>2
<1> QED
  BY <1>2, <1>5 DEF base, rn

\* Nor does FSTM: each turn of its loop misses what Account says it misses.
LEMMA VfpMultipleMisses ==
    ASSUME Processor, Unit, NEW i \in Instructions, i.kind = "vfp_transfer",
           NEW x \in [Cells -> Dword], NEW y \in [Offsets(i.offset) -> Dword],
           VfpMultiple(i, x, y),
           NEW a, Grounded(a), Misses(i, a)
    PROVE  Keeps(a)
<1> DEFINE rn == Read(Fetched, i.rn)
           n == i.offset
           low == IF i.mode = "decrement" THEN -n ELSE 0
           at(k) == Wrap(First(i) + (4 * (k - 1)))
           Kept == {m \in Memories : ReadDword(m, a, 0) = ReadDword(memory, a, 0)}
<1>1. n \in Nat /\ First(i) \in Dword
  BY ListRuns
<1>2. PICK f : Filed(i, y, f) /\ Effect(IF i.l THEN memory ELSE f[n], Passed(i))
  BY ListRuns
<1>3. i.mode \in {"unindexed", "increment", "decrement"}
  BY DEF VfpMultiple
<1>4. rn \in Dword /\ \A k \in Int : Wrap(First(i) + (4 * k))
                                       = Wrap((rn - (rn % 4)) + (4 * (low + k)))
  BY <1>1, FirstAt
<1>5. CASE i.l
  BY <1>2, <1>5 DEF Keeps, Effect
<1>6. CASE ~ i.l
  <2>1. Stores(i) = {Place(Wrap(rn + (4 * k))) : k \in -n .. n}
    <3>1. ~ (n < 0)
      BY <1>1
    <3> QED
      BY <1>3, <1>6, <3>1 DEF Stores
  <2>2. ASSUME NEW k \in 1 .. n
        PROVE  at(k) \in Dword /\ Clear(at(k), a)
    <3>1. k - 1 \in Int /\ low + (k - 1) \in -n .. n
      BY <1>1
    <3>2. at(k) = Wrap((rn - (rn % 4)) + (4 * (low + (k - 1))))
      BY <1>4, <3>1
    <3> DEFINE e == low + (k - 1)
    <3>3. e \in Int /\ Place(Wrap(rn + (4 * e))) \in Stores(i)
      BY <1>1, <2>1, <3>1
    <3> HIDE DEF e, rn
    <3>4. Clear(Wrap((rn - (rn % 4)) + (4 * e)), a)
      BY <1>4, <3>3, AlignedMiss DEF Misses
    <3>5. (rn - (rn % 4)) + (4 * e) \in Int
      BY <1>4, <3>3, Wrapped
    <3>6. Wrap((rn - (rn % 4)) + (4 * e)) \in Dword
      BY <3>5, Wrapped
    <3> QED
      BY <3>2, <3>4, <3>6 DEF e
  <2>3. /\ f[0] = memory /\ memory \in Memories
        /\ \A k \in 1 .. n : f[k - 1] \in Memories /\ f[k] \in Memories
        /\ \A k \in 1 .. n : \E v : f[k] = WriteDword(f[k - 1], at(k), v)
    <3>1. f \in [0 .. n -> Memories] /\ f[0] = memory
      BY <1>2 DEF Filed
    <3>2. \A k \in 1 .. n : k - 1 \in 0 .. n /\ k \in 0 .. n /\ 0 \in 0 .. n
      BY <1>1
    <3>3. 0 \in 0 .. n
      BY <1>1
    <3>4. \A k \in 1 .. n : \E v : f[k] = WriteDword(f[k - 1], at(k), v)
      BY <1>2, Zenon DEF Filed
    <3> QED
      BY <3>1, <3>2, <3>3, <3>4
  <2> HIDE DEF at, rn, low, n
  <2>4. ASSUME NEW k \in 1 .. n, f[k - 1] \in Kept
        PROVE  f[k] \in Kept
    <3>1. PICK v : f[k] = WriteDword(f[k - 1], at(k), v)
      BY <2>3
    <3>2. Sound(f[k - 1])
      BY <2>3 DEF Memories
    <3>3. ReadDword(f[k], a, 0) = ReadDword(f[k - 1], a, 0)
      BY <2>2, <3>1, <3>2, Apart
    <3> QED
      BY <2>3, <2>4, <3>3
  <2>5. f[0] \in Kept
    BY <2>3
  <2> HIDE DEF Kept
  <2>6. f[n] \in Kept
    BY <1>1, <2>4, <2>5, Reached
  <2> QED
    BY <1>2, <1>6, <2>6 DEF Kept, Keeps, Effect, n
<1> QED
  BY <1>5, <1>6
-----------------------------------------------------------------------------
\* The registers of the list the loop has met in its first k turns, and their number.
Met(i, k) == {g \in i.rl : \E j \in 1 .. k : g = InOrder(i, j)}
Count(i, k) == Cardinality(Met(i, k))

\* The count of the registers met grows by one at each register of the list.
LEMMA Counting ==
    ASSUME NEW i \in Instructions, i.kind = "block"
    PROVE  /\ Count(i, 0) = 0 /\ Met(i, 16) = i.rl
           /\ \A k \in 1 .. 16 : /\ k - 1 \in 0 .. 16
                                 /\ Met(i, k) = IF InOrder(i, k) \in i.rl
                                                THEN Met(i, k - 1) \cup {InOrder(i, k)}
                                                ELSE Met(i, k - 1)
                                 /\ InOrder(i, k) \notin Met(i, k - 1)
                                 /\ Count(i, k) = IF InOrder(i, k) \in i.rl
                                                  THEN Count(i, k - 1) + 1
                                                  ELSE Count(i, k - 1)
           /\ \A k \in 0 .. 16 : Count(i, k) \in 0 .. Cardinality(i.rl)
           /\ Cardinality(i.rl) \in Nat
<1>1. i.rl \subseteq 0 .. 15
  BY TransfersAssumption, RegsAssumption DEF PC
<1>2. IsFiniteSet(i.rl) /\ Cardinality(i.rl) \in Nat
  <2>1. IsFiniteSet(0 .. 15)
    <3>1. 0 \in Int /\ 15 \in Int
      OBVIOUS
    <3> QED
      BY <3>1, FS_Interval, Zenon
  <2> QED
    BY <1>1, <2>1, FS_Subset, FS_CardinalityType
<1>3. \A k : IsFiniteSet(Met(i, k)) /\ Count(i, k) \in 0 .. Cardinality(i.rl)
  <2> SUFFICES ASSUME NEW k
               PROVE  IsFiniteSet(Met(i, k)) /\ Count(i, k) \in 0 .. Cardinality(i.rl)
    OBVIOUS
  <2>1. Met(i, k) \in SUBSET i.rl
    BY DEF Met
  <2>2. IsFiniteSet(Met(i, k)) /\ Cardinality(Met(i, k)) <= Cardinality(i.rl)
    BY <1>2, <2>1, FS_Subset
  <2>3. Cardinality(Met(i, k)) \in Nat
    BY <2>2, FS_CardinalityType
  <2> QED
    BY <1>2, <2>2, <2>3 DEF Count
<1>4. Count(i, 0) = 0
  <2>1. Met(i, 0) = {}
    BY DEF Met
  <2> QED
    BY <2>1, FS_EmptySet DEF Count
<1>5. Met(i, 16) = i.rl
  <2> SUFFICES ASSUME NEW g \in i.rl PROVE \E j \in 1 .. 16 : g = InOrder(i, j)
    BY DEF Met
  <2>1. CASE i.u
    <3>1. g + 1 \in 1 .. 16 /\ g = (g + 1) - 1
      BY <1>1
    <3> QED
      BY <2>1, <3>1 DEF InOrder
  <2>2. CASE ~ i.u
    <3>1. 16 - g \in 1 .. 16 /\ g = 16 - (16 - g)
      BY <1>1
    <3> QED
      BY <2>2, <3>1 DEF InOrder
  <2> QED
    BY <2>1, <2>2
<1>6. ASSUME NEW k \in 1 .. 16
      PROVE  /\ Met(i, k) = IF InOrder(i, k) \in i.rl
                            THEN Met(i, k - 1) \cup {InOrder(i, k)} ELSE Met(i, k - 1)
             /\ InOrder(i, k) \notin Met(i, k - 1)
             /\ Count(i, k) = IF InOrder(i, k) \in i.rl THEN Count(i, k - 1) + 1
                                                        ELSE Count(i, k - 1)
  <2>1. \A j \in 1 .. k : j \in 1 .. k - 1 \/ j = k
    OBVIOUS
  <2>2. \A j \in 1 .. k - 1 : InOrder(i, j) # InOrder(i, k)
    BY DEF InOrder
  <2>3. k \in 1 .. k /\ 1 .. k - 1 \subseteq 1 .. k
    OBVIOUS
  <2> DEFINE g == InOrder(i, k)
  <2> HIDE DEF g
  <2>4. Met(i, k) = IF g \in i.rl THEN Met(i, k - 1) \cup {g} ELSE Met(i, k - 1)
    <3>1. \A h \in i.rl : (\E j \in 1 .. k : h = InOrder(i, j))
                              <=> (\E j \in 1 .. k - 1 : h = InOrder(i, j)) \/ h = g
      BY <2>1, <2>3 DEF g
    <3> QED
      BY <3>1 DEF Met
  <2>5. g \notin Met(i, k - 1)
    BY <2>2 DEF Met, g
  <2>6. Count(i, k) = IF g \in i.rl THEN Count(i, k - 1) + 1 ELSE Count(i, k - 1)
    BY <1>3, <2>4, <2>5, FS_AddElement DEF Count
  <2> QED
    BY <2>4, <2>5, <2>6 DEF g
<1> QED
  BY <1>2, <1>3, <1>4, <1>5, <1>6

\* The address moves by four with each register met.
Strides(i) == IF i.u THEN 4 ELSE -4
\* Where the loop of a block transfer begins and how far each register moves it.
Ground(i) == LET base == Read(Fetched, i.rn) IN base - (base % 4)

\* The address the k-th turn of the loop uses, if its register is in the list.
TurnAt(i, k) == Wrap(Ground(i) + (Strides(i) * (IF i.p THEN Count(i, k - 1) + 1
                                                       ELSE Count(i, k - 1))))

\* They are an address and a step.
LEMMA Grounds ==
    ASSUME Processor, NEW i \in Instructions, i.kind = "block"
    PROVE  /\ Read(Fetched, i.rn) \in Dword /\ i.rn \in Regs
           /\ Ground(i) \in Dword /\ Ground(i) \in Nat /\ Strides(i) \in {4, -4}
           /\ Wrap(Ground(i)) = Ground(i)
<1> DEFINE base == Read(Fetched, i.rn)
<1>1. i.rn \in Regs
  BY TransfersAssumption
<1>2. base \in Dword
  BY <1>1, FetchTyped, ReadTyped DEF Processor
<1> HIDE DEF base
<1>3. base - (base % 4) \in Dword /\ base - (base % 4) \in Nat
  BY <1>2, Powers DEF Dword
<1>4. Ground(i) \in Dword /\ Ground(i) \in Nat
  BY <1>3 DEF Ground, base
<1>5. Ground(i) < Full
  BY <1>4, Powers DEF Dword
<1> QED
  BY <1>1, <1>2, <1>4, <1>5, Landing DEF base, Strides

\* The address at each turn follows from the registers met.
LEMMA CourseAt ==
    ASSUME Processor, NEW i \in Instructions, i.kind = "block", NEW x, NEW t,
           Course(i, x, t)
    PROVE  /\ \A k \in 0 .. 16 : t[k] \in Stand
                                 /\ t[k].a = Wrap(Ground(i) + (Strides(i) * Count(i, k)))
           /\ \A k \in 1 .. 16 : (IF i.p THEN Wrap(t[k - 1].a + Strides(i)) ELSE t[k - 1].a)
                                     = TurnAt(i, k)
<1> DEFINE at(k) == Wrap(Ground(i) + (Strides(i) * Count(i, k)))
           T == {k \in 0 .. 16 : t[k].a = at(k)}
<1>1. /\ t \in [0 .. 16 -> Stand]
      /\ t[0].a = Ground(i)
      /\ \A k \in 1 .. 16 :
             t[k] = IF InOrder(i, k) \in i.rl THEN Turn(i, t[k - 1], InOrder(i, k), x)
                                              ELSE t[k - 1]
  BY DEF Course, Ground
<1>2. Ground(i) \in Nat /\ Strides(i) \in {4, -4} /\ Wrap(Ground(i)) = Ground(i)
  BY Grounds
<1>3. \A k \in 0 .. 16 : Count(i, k) \in Nat
  BY Counting
<1>4. ASSUME NEW c \in Nat
      PROVE  Wrap(Wrap(Ground(i) + (Strides(i) * c)) + Strides(i))
                 = Wrap(Ground(i) + (Strides(i) * (c + 1)))
  <2>1. Ground(i) + (Strides(i) * c) \in Int /\ Strides(i) \in Int
    BY <1>2
  <2>2. (Ground(i) + (Strides(i) * c)) + Strides(i) = Ground(i) + (Strides(i) * (c + 1))
    BY <1>2
  <2> QED
    BY <2>1, <2>2, WrapTwice
<1>5. 0 \in T
  <2>1. Ground(i) + (Strides(i) * 0) = Ground(i)
    BY <1>2
  <2>2. Count(i, 0) = 0
    BY Counting
  <2> QED
    BY <1>1, <1>2, <2>1, <2>2
<1>6. ASSUME NEW k \in 1 .. 16, k - 1 \in T
      PROVE  k \in T
  <2> DEFINE g == InOrder(i, k)
             c == Count(i, k - 1)
             a == t[k - 1].a
  <2>1. k - 1 \in 0 .. 16 /\ c \in Nat /\ a = Wrap(Ground(i) + (Strides(i) * c))
    BY <1>3, <1>6
  <2>2. Count(i, k) = IF g \in i.rl THEN c + 1 ELSE c
    BY Counting
  <2>3. t[k] = IF g \in i.rl THEN Turn(i, t[k - 1], g, x) ELSE t[k - 1]
    BY <1>1
  <2>4. CASE g \in i.rl
    <3>1. t[k].a = Wrap(a + Strides(i))
      BY <2>3, <2>4 DEF Turn, Strides
    <3> HIDE DEF a, c
    <3>2. t[k].a = Wrap(Ground(i) + (Strides(i) * (c + 1)))
      BY <1>4, <2>1, <3>1
    <3> QED
      BY <2>2, <2>4, <3>2
  <2>5. CASE g \notin i.rl
    BY <2>1, <2>2, <2>3, <2>5
  <2> QED
    BY <2>4, <2>5
<1> HIDE DEF T
<1>7. \A k \in 0 .. 16 : k \in T
  <2> DEFINE f == [k \in 0 .. 16 |-> k]
  <2>1. f[0] \in T /\ \A k \in 1 .. 16 : f[k - 1] \in T => f[k] \in T
    BY <1>5, <1>6
  <2>2. \A k \in 0 .. 16 : f[k] \in T
    BY <2>1, Reached
  <2> QED
    BY <2>2
<1>8. ASSUME NEW k \in 1 .. 16
      PROVE  (IF i.p THEN Wrap(t[k - 1].a + Strides(i)) ELSE t[k - 1].a) = TurnAt(i, k)
  <2> DEFINE c == Count(i, k - 1)
  <2>1. k - 1 \in 0 .. 16 /\ c \in Nat /\ t[k - 1].a = Wrap(Ground(i) + (Strides(i) * c))
    BY <1>3, <1>7 DEF T
  <2>2. Wrap(t[k - 1].a + Strides(i)) = Wrap(Ground(i) + (Strides(i) * (c + 1)))
    BY <1>4, <2>1
  <2> QED
    BY <2>1, <2>2 DEF TurnAt
<1> QED
  BY <1>1, <1>7, <1>8 DEF T

\* STM stores no further than Account expects.
LEMMA BlockMisses ==
    ASSUME Processor, NEW i \in Instructions, i.kind = "block",
           NEW x \in [i.rl -> Dword], Block(i, x), NEW a, Grounded(a), Misses(i, a)
    PROVE  Keeps(a)
<1>1. CASE Fatal
  BY <1>1, FatalMisses
<1>2. ASSUME NEW t, Course(i, x, t)
      PROVE  Keeps(a)
  <2> DEFINE rn == Read(Fetched, i.rn)
             n == Cardinality(i.rl)
             Kept == {u \in Stand : ReadDword(u.m, a, 0) = ReadDword(memory, a, 0)}
  <2>1. \A k \in 0 .. 16 : t[k] \in Stand
    BY <1>2, CourseAt
  <2>2. t[0] \in Kept
    BY <1>2, <2>1 DEF Course
  <2>3. ASSUME NEW k \in 1 .. 16, t[k - 1] \in Kept
        PROVE  t[k] \in Kept
    <3> DEFINE g == InOrder(i, k)
               d == TurnAt(i, k)
    <3>1. CASE g \notin i.rl
      BY <1>2, <2>3, <3>1 DEF Course
    <3>2. CASE g \in i.rl /\ i.l
      <4>1. t[k].m = t[k - 1].m
        <5>1. t[k] = Turn(i, t[k - 1], g, x)
          BY <1>2, <3>2 DEF Course
        <5> HIDE DEF g, d, Kept, n, rn
        <5>2. Turn(i, t[k - 1], g, x).m = t[k - 1].m
          BY <3>2 DEF Turn
        <5> QED
          BY <5>1, <5>2
      <4>2. t[k] \in Stand
        BY <2>1
      <4>3. ReadDword(t[k - 1].m, a, 0) = ReadDword(memory, a, 0)
        BY <2>3
      <4> QED
        BY <4>1, <4>2, <4>3
    <3>3. CASE g \in i.rl /\ ~ i.l
      <4>1. PICK v : t[k].m = WriteDword(t[k - 1].m, d, v)
        <5> DEFINE e == IF i.p THEN Wrap(t[k - 1].a + Strides(i)) ELSE t[k - 1].a
        <5>1. e = d
          BY <1>2, CourseAt
        <5>2. t[k] = Turn(i, t[k - 1], g, x)
          BY <1>2, <3>3 DEF Course
        <5>3. \E v : Turn(i, t[k - 1], g, x).m = WriteDword(t[k - 1].m, e, v)
          BY <3>3 DEF Turn, Strides
        <5> QED
          BY <5>1, <5>2, <5>3
      <4> DEFINE c == Count(i, k - 1)
                 q == IF i.p THEN c + 1 ELSE c
                 j == IF i.u THEN q ELSE -q
      <4>2. j \in -n .. n
        <5>1. c \in Nat /\ c + 1 = Count(i, k) /\ Count(i, k) \in 0 .. n /\ n \in Nat
          BY <3>3, Counting
        <5> HIDE DEF c, n
        <5> QED
          BY <5>1
      <4>3. j \in Int /\ Place(Wrap(rn + (4 * j))) \in Stores(i)
        <5>1. n \in Nat
          BY Counting
        <5>2. Stores(i) = {Place(Wrap(rn + (4 * h))) : h \in -n .. n}
          BY <3>3 DEF Stores
        <5> HIDE DEF n, j, rn
        <5> QED
          BY <4>2, <5>1, <5>2
      <4>4. Ground(i) + (Strides(i) * q) = (rn - (rn % 4)) + (4 * j)
        <5>1. c \in Nat /\ Ground(i) \in Nat
          BY <2>3, Counting, Grounds
        <5>2. Ground(i) = rn - (rn % 4)
          BY DEF Ground
        <5> HIDE DEF c, rn
        <5> QED
          BY <5>1, <5>2 DEF Strides
      <4>5. rn \in Dword
        BY Grounds
      <4>6. d = Wrap((rn - (rn % 4)) + (4 * j))
        BY <4>4 DEF TurnAt
      <4> HIDE DEF rn, j, q
      <4>7. Clear(d, a)
        BY <4>3, <4>5, <4>6, AlignedMiss DEF Misses
      <4>8. d \in Dword
        <5>1. (rn - (rn % 4)) + (4 * j) \in Int
          BY <4>3, <4>5, Wrapped
        <5> QED
          BY <4>6, <5>1, Wrapped
      <4>9. Sound(t[k - 1].m)
        BY <2>3 DEF Stand
      <4> HIDE DEF d
      <4>10. ReadDword(t[k].m, a, 0) = ReadDword(t[k - 1].m, a, 0)
        BY <4>1, <4>7, <4>8, <4>9, Apart
      <4> QED
        BY <2>1, <2>3, <4>10
    <3> QED
      BY <3>1, <3>2, <3>3
  <2> HIDE DEF Kept
  <2>4. t[16] \in Kept
    BY <2>2, <2>3, Reached
  <2> QED
    BY <1>2, <2>4 DEF Kept, Keeps, Course, Effect
<1> QED
  BY <1>1, <1>2, BlockRuns
-----------------------------------------------------------------------------
\* The count never falls, and rises at a register of the list.
LEMMA Ahead ==
    ASSUME NEW i \in Instructions, i.kind = "block", NEW j \in 0 .. 16, NEW k \in 0 .. 16, j < k
    PROVE  Count(i, j) <= Count(i, k) /\ (InOrder(i, k) \in i.rl => Count(i, j) < Count(i, k))
<1>1. \A u, v \in 0 .. 16 : u <= v => Count(i, u) <= Count(i, v)
  <2> SUFFICES ASSUME NEW u \in 0 .. 16, NEW v \in 0 .. 16, u <= v
               PROVE  Count(i, u) <= Count(i, v)
    OBVIOUS
  <2>1. Met(i, u) \in SUBSET Met(i, v)
    <3>1. 1 .. u \subseteq 1 .. v
      OBVIOUS
    <3> QED
      BY <3>1 DEF Met
  <2>2. IsFiniteSet(Met(i, v))
    <3>1. i.rl \subseteq 0 .. 15
      BY TransfersAssumption, RegsAssumption DEF PC
    <3>2. Met(i, v) \in SUBSET (0 .. 15)
      BY <3>1 DEF Met
    <3>3. 0 \in Int /\ 15 \in Int
      OBVIOUS
    <3>4. IsFiniteSet(0 .. 15)
      BY <3>3, FS_Interval, Zenon
    <3> QED
      BY <3>2, <3>4, FS_Subset
  <2> QED
    BY <2>1, <2>2, FS_Subset DEF Count
<1>2. k \in 1 .. 16 /\ k - 1 \in 0 .. 16 /\ j <= k - 1 /\ j <= k
  OBVIOUS
<1>3. Count(i, j) <= Count(i, k - 1) /\ Count(i, j) <= Count(i, k)
  BY <1>1, <1>2
<1>4. InOrder(i, k) \in i.rl => Count(i, k) = Count(i, k - 1) + 1
  BY <1>2, Counting
<1>5. Count(i, k - 1) \in Int /\ Count(i, j) \in Int
  BY <1>2, Counting
<1> QED
  BY <1>3, <1>4, <1>5

\* The turns at which the loop meets the registers of the list, one after the other.
Meets(i, q) ==
    LET n == Cardinality(i.rl)
    IN  /\ q \in [1 .. n -> 1 .. 16]
        /\ \A c \in 1 .. n : InOrder(i, q[c]) \in i.rl /\ Count(i, q[c]) = c
        /\ \A b, c \in 1 .. n : b < c => q[b] < q[c]
        /\ \A j \in 1 .. 16 : InOrder(i, j) \in i.rl =>
               Count(i, j) \in 1 .. n /\ q[Count(i, j)] = j

\* Such turns exist.
LEMMA Meeting ==
    ASSUME NEW i \in Instructions, i.kind = "block"
    PROVE  \E q : Meets(i, q)
<1> DEFINE n == Cardinality(i.rl)
           At(c, j) == InOrder(i, j) \in i.rl /\ Count(i, j) = c
           q == [c \in 1 .. n |-> CHOOSE j \in 1 .. 16 : At(c, j)]
           T == {k \in 0 .. 16 : \A c \in 1 .. Count(i, k) : \E j \in 1 .. 16 : At(c, j)}
<1>1. \A k \in 0 .. 16 : Count(i, k) \in 0 .. n
  BY Counting
<1>2. n \in Nat /\ Count(i, 0) = 0 /\ Count(i, 16) = n
  BY Counting DEF Count
<1>3. \A k \in 1 .. 16 : /\ k - 1 \in 0 .. 16
                         /\ Count(i, k) = IF InOrder(i, k) \in i.rl
                                          THEN Count(i, k - 1) + 1 ELSE Count(i, k - 1)
  BY Counting
<1> HIDE DEF n
<1>4. 0 \in T
  BY <1>2
<1>5. ASSUME NEW k \in 1 .. 16, k - 1 \in T
      PROVE  k \in T
  <2>1. Count(i, k - 1) \in Nat
    BY <1>1, <1>3, <1>2
  <2>2. CASE InOrder(i, k) \in i.rl
    <3>1. Count(i, k) = Count(i, k - 1) + 1 /\ At(Count(i, k), k)
      BY <1>3, <2>2
    <3>2. \A c \in 1 .. Count(i, k) : c \in 1 .. Count(i, k - 1) \/ c = Count(i, k)
      BY <2>1, <3>1
    <3> HIDE DEF At
    <3> QED
      BY <1>5, <3>1, <3>2
  <2>3. CASE InOrder(i, k) \notin i.rl
    BY <1>3, <1>5, <2>3
  <2> QED
    BY <2>2, <2>3
<1> HIDE DEF T
<1>6. 16 \in T
  <2> DEFINE f == [k \in 0 .. 16 |-> k]
  <2>1. f[0] \in T /\ \A k \in 1 .. 16 : f[k - 1] \in T => f[k] \in T
    BY <1>4, <1>5
  <2> HIDE DEF f
  <2>2. f[16] \in T
    BY <2>1, Reached
  <2> QED
    BY <2>2 DEF f
<1>7. \A c \in 1 .. n : \E j \in 1 .. 16 : At(c, j)
  BY <1>2, <1>6 DEF T
<1> HIDE DEF At
<1>8. \A c \in 1 .. n : q[c] \in 1 .. 16 /\ At(c, q[c])
  BY <1>7
<1>9. q \in [1 .. n -> 1 .. 16]
  BY <1>8
<1> HIDE DEF q
<1>10. ASSUME NEW b \in 1 .. n, NEW c \in 1 .. n, b < c
       PROVE  q[b] < q[c]
  <2>1. q[b] \in 0 .. 16 /\ q[c] \in 0 .. 16 /\ Count(i, q[b]) = b /\ Count(i, q[c]) = c
    BY <1>8 DEF At
  <2>2. q[c] < q[b] => c <= b
    BY <2>1, Ahead
  <2>3. q[b] # q[c]
    BY <1>10, <2>1
  <2> QED
    BY <1>10, <2>1, <2>2, <2>3
<1>11. ASSUME NEW j \in 1 .. 16, InOrder(i, j) \in i.rl
       PROVE  Count(i, j) \in 1 .. n /\ q[Count(i, j)] = j
  <2> DEFINE c == Count(i, j)
  <2>1. c \in 1 .. n
    <3>1. c = Count(i, j - 1) + 1 /\ Count(i, j - 1) \in 0 .. n /\ c \in 0 .. n
      BY <1>1, <1>3, <1>11
    <3> QED
      BY <1>2, <3>1
  <2>2. q[c] \in 0 .. 16 /\ j \in 0 .. 16 /\ Count(i, q[c]) = c /\ InOrder(i, q[c]) \in i.rl
    BY <1>8, <2>1 DEF At
  <2>3. q[c] < j => Count(i, q[c]) < Count(i, j)
    BY <1>11, <2>2, Ahead
  <2>4. j < q[c] => Count(i, j) < Count(i, q[c])
    BY <2>2, Ahead
  <2>5. ~ (c < c)
    BY <2>1
  <2> QED
    BY <2>1, <2>2, <2>3, <2>4, <2>5
<1>12. Meets(i, q)
  BY <1>8, <1>9, <1>10, <1>11 DEF Meets, At, n
<1> QED
  BY <1>12
-----------------------------------------------------------------------------
\* Reading a register other than PC.
LEMMA FetchedIs ==
    ASSUME r \in Registers
    PROVE  /\ Fetched \in Registers /\ SP \in Regs /\ SP # PC
           /\ \A g \in Regs \ {PC} : Fetched[g] = r[g] /\ Read(Fetched, g) = r[g]
           /\ r[SP] \in Nat /\ r[SP] \in Dword
<1>1. Fetched \in Registers /\ SP \in Regs /\ SP # PC
  BY FetchTyped, Numbered DEF SP, PC
<1>2. \A g \in Regs \ {PC} : Fetched[g] = r[g]
  BY DEF Fetched, Registers
<1>3. r[SP] \in Dword
  BY <1>1 DEF Registers
<1>4. r[SP] \in Nat
  BY <1>3, Wrapped
<1> QED
  BY <1>1, <1>2, <1>3, <1>4 DEF Read

\* The stack pointer stands where a stack can be.
Standing == r[SP] % 4 = 0 /\ r[SP] <= MemSize /\ r[SP] <= AddressSpace

\* The words of the stack, and of the n dwords below it, are aligned dwords of the RAM.
LEMMA Lives ==
    ASSUME MInv, Inside
    PROVE  /\ \A k \in 1 .. depth : Grounded(r[SP] + (4 * (k - 1)))
           /\ depth > 0 => Standing
<1>1. r[SP] \in Nat /\ depth \in Nat
  BY FetchedIs DEF MInv, Processor
<1> DEFINE p == r[SP]
<1>2. p \in Nat
  BY <1>1
<1>3. depth > 0 => p % 4 = 0 /\ p + (4 * depth) <= MemSize /\ p + (4 * depth) <= AddressSpace
  BY DEF Inside
<1> HIDE DEF p
<1>4. ASSUME NEW k \in 1 .. depth
      PROVE  Grounded(p + (4 * (k - 1)))
  <2>1. depth > 0 /\ p + (4 * (k - 1)) \in Nat
    BY <1>1, <1>2
  <2>2. (p + (4 * (k - 1))) % 4 = 0
    BY <1>1, <1>2, <1>3, <2>1
  <2>3. p + (4 * (k - 1)) + 4 <= p + (4 * depth)
    BY <1>1, <1>2
  <2> QED
    BY <1>1, <1>2, <1>3, <2>1, <2>2, <2>3, SizeAssumption, SpaceAssumption DEF Grounded
<1>5. depth > 0 => Standing
  BY <1>1, <1>2, <1>3, SizeAssumption, SpaceAssumption DEF Standing, p
<1> QED
  BY <1>4, <1>5 DEF p

\* What a handler has to show for a push.
LEMMA PushedAs ==
    ASSUME MInv, Inside, Standing, NEW n \in Nat \ {0}, NEW l \in ListsOf(n),
           depth' = depth + n, 4 * n <= r[SP], r'[SP] = r[SP] - (4 * n),
           \A k \in 1 .. n :
               ReadDword(memory', (r[SP] - (4 * n)) + (4 * (k - 1)), 0) = Held(l[k]),
           \A a : Grounded(a) /\ r[SP] <= a => Keeps(a),
           \A g \in GPRs \ {PC} : r'[g] = r[g],
           \A c \in 0 .. VfpCount - 1 : s'[c] = s[c]
    PROVE  Abstract!Push /\ Inside'
<1> DEFINE p == r[SP]
<1>1. p \in Nat /\ depth \in Nat
  BY FetchedIs DEF MInv, Processor
<1>2. \A k \in 1 .. n : Slot(memory', r'[SP], k) = Held(l[k])
  BY DEF Slot
<1>3. ASSUME NEW k \in 1 .. depth
      PROVE  Slot(memory', r'[SP], n + k) = Slot(memory, r[SP], k)
  <2> DEFINE a == p + (4 * (k - 1))
  <2>1. Grounded(a)
    BY Lives
  <2>2. r'[SP] + (4 * ((n + k) - 1)) = a /\ p <= a
    BY <1>1
  <2>3. Keeps(a)
    BY <2>1, <2>2
  <2> HIDE DEF a
  <2> QED
    BY <2>2, <2>3 DEF Slot, Keeps, a
<1>4. \A g \in Names \ {<<"r", PC>>} : Held(g)' = Held(g)
  BY DEF Names, Held
<1>5. Abstract!Push
  BY <1>1, <1>2, <1>3, <1>4, Pushes
<1>6. Inside'
  <2>1. /\ p % 4 = 0 /\ p <= MemSize /\ p <= AddressSpace
        /\ MemSize \in Nat /\ AddressSpace \in Nat
    BY SizeAssumption, SpaceAssumption DEF Standing
  <2>2. depth > 0 => p + (4 * depth) <= MemSize /\ p + (4 * depth) <= AddressSpace
    BY DEF Inside
  <2>3. r'[SP] = p - (4 * n)
    OBVIOUS
  <2> HIDE DEF p
  <2>4. (p - (4 * n)) % 4 = 0
    BY <1>1, <2>1
  <2>5. (p - (4 * n)) + (4 * (depth + n)) = p + (4 * depth)
    BY <1>1
  <2>6. depth = 0 => p + (4 * depth) = p
    BY <1>1
  <2> QED
    BY <1>1, <2>1, <2>2, <2>3, <2>4, <2>5, <2>6 DEF Inside
<1> QED
  BY <1>5, <1>6

\* What a handler has to show for a pop.
LEMMA PoppedAs ==
    ASSUME MInv, Inside, NEW n \in 1 .. depth, NEW l \in ListsOf(n),
           depth' = depth - n, r'[SP] = Wrap(r[SP] + (4 * n)), memory' = memory,
           \A k \in 1 .. n : Held(l[k])' = ReadDword(memory, r[SP] + (4 * (k - 1)), 0),
           \A g \in Names \ {<<"r", PC>>} :
               (\A k \in 1 .. n : l[k] # g) => Held(g)' = Held(g)
    PROVE  Abstract!Pop /\ Inside'
<1> DEFINE p == r[SP]
<1>1. p \in Nat /\ depth \in Nat
  BY FetchedIs DEF MInv, Processor
<1>2. \A k \in 1 .. n : Held(l[k])' = Slot(memory, r[SP], k)
  BY DEF Slot
<1>3. depth > 0
  BY <1>1
<1>4. p % 4 = 0 /\ p + (4 * depth) <= MemSize /\ p + (4 * depth) <= AddressSpace
  BY <1>3 DEF Inside
<1>5. ASSUME n < depth
      PROVE  r'[SP] = p + (4 * n)
  <2>0. r'[SP] = Wrap(p + (4 * n)) /\ n \in Nat /\ AddressSpace \in Nat
    BY SpaceAssumption
  <2> HIDE DEF p
  <2>1. p + (4 * n) \in Nat /\ p + (4 * n) < AddressSpace
    BY <1>1, <1>4, <1>5, <2>0
  <2>2. AddressSpace <= Full /\ Full \in Nat /\ AddressSpace \in Nat
    BY Landing, Powers, SpaceAssumption
  <2>3. p + (4 * n) < Full
    BY <2>1, <2>2
  <2> QED
    BY <2>0, <2>1, <2>3, Landing
<1>6. ASSUME NEW k \in 1 .. depth - n
      PROVE  Slot(memory', r'[SP], k) = Slot(memory, r[SP], n + k)
  <2>1. n < depth
    BY <1>1
  <2>2. r'[SP] + (4 * (k - 1)) = p + (4 * ((n + k) - 1))
    BY <1>1, <1>5, <2>1
  <2> QED
    BY <2>2 DEF Slot
<1>7. Abstract!Pop
  BY <1>1, <1>2, <1>6, Pops
<1>8. Inside'
  <2> SUFFICES ASSUME depth - n > 0
               PROVE  /\ (p + (4 * n)) % 4 = 0
                      /\ (p + (4 * n)) + (4 * (depth - n)) <= MemSize
                      /\ (p + (4 * n)) + (4 * (depth - n)) <= AddressSpace
    <3>1. n < depth <=> depth - n > 0
      BY <1>1
    <3> QED
      BY <1>5, <3>1 DEF Inside
  <2> HIDE DEF p
  <2>1. (p + (4 * n)) % 4 = 0
    BY <1>1, <1>4
  <2>2. (p + (4 * n)) + (4 * (depth - n)) = p + (4 * depth)
    BY <1>1
  <2> QED
    BY <1>4, <2>1, <2>2
<1> QED
  BY <1>7, <1>8
-----------------------------------------------------------------------------
\* One word: the list of one register.
LEMMA OneRegister ==
    ASSUME NEW g \in GPRs
    PROVE  LET l == [k \in 1 .. 1 |-> <<"r", g>>]
           IN  l \in ListsOf(1) /\ l[1] = <<"r", g>> /\ Held(l[1]) = r[g] /\ Held(l[1])' = r'[g]
<1> DEFINE l == [k \in 1 .. 1 |-> <<"r", g>>]
<1>1. <<"r", g>> \in Names
  BY DEF Names
<1>2. l \in [1 .. 1 -> Names] /\ l[1] = <<"r", g>>
  BY <1>1
<1>3. \A j, k \in 1 .. 1 : ~ (j < k)
  OBVIOUS
<1>4. l \in ListsOf(1)
  BY <1>2, <1>3 DEF ListsOf
<1> HIDE DEF l
<1> QED
  BY <1>2, <1>4 DEF Held, l

\* STR to the stack.
LEMMA SinglePushes ==
    ASSUME MInv, Inside, Standing, NEW i \in Instructions, i.kind = "single",
           i.rn = SP, ~ i.l, ~ i.b, i.p, i.w, ~ i.u, i.offset = 4, i.rd \notin {SP, PC},
           4 <= r[SP], NEW x \in Dword, Single(i, x), UNCHANGED vfpVars,
           depth' = depth + 1
    PROVE  Abstract!Push /\ Inside'
<1> DEFINE p == r[SP]
           a == p - 4
           v == r[i.rd]
<1>1. r \in Registers /\ Sound(memory)
  BY DEF MInv, Processor, IInv
<1>2. i.rd \in Regs /\ i.rd # PC /\ i.rd # SP /\ i.rd \in GPRs
  BY TransfersAssumption DEF GPRs
<1>3. p \in Nat /\ p \in Dword /\ SP # PC /\ SP \in Regs
  BY <1>1, FetchedIs
<1>4. Wrap(p - 4) = a
  <2>1. p - 4 \in Nat /\ p - 4 < Full
    BY <1>3, Powers DEF Dword
  <2> QED
    BY <2>1, Landing
<1>5. Moved(i) = a /\ Address(i) = a
  <2>1. Read(Fetched, SP) = p
    BY <1>1, <1>3, FetchedIs
  <2>2. Moved(i) = Wrap(p - 4)
    BY <2>1 DEF Moved, OffsetOf
  <2> QED
    BY <1>4, <2>2 DEF Address
<1>6. Read(Fetched, i.rd) = v
  BY <1>1, <1>2, FetchedIs
<1>7. memory' = WriteDword(memory, a, v) /\ r' = [Fetched EXCEPT ![SP] = a]
  BY <1>3, <1>5, <1>6 DEF Single, Finish, WriteBack, WritesBack
<1>8. Grounded(a) /\ v \in Dword /\ a \in Dword
  <2>1. p % 4 = 0 /\ 4 <= p /\ p <= MemSize /\ p <= AddressSpace
    BY DEF Standing
  <2>2. v \in Dword
    BY <1>1, <1>2 DEF Registers
  <2>3. MemSize \in Nat /\ AddressSpace \in Nat
    BY SizeAssumption, SpaceAssumption
  <2> HIDE DEF p, v
  <2>4. Grounded(a)
    BY <1>3, <2>1, <2>3 DEF Grounded
  <2>5. a \in Dword
    BY <1>3, <2>1, Powers DEF Dword
  <2> QED
    BY <2>2, <2>4, <2>5
<1>9. ReadDword(memory', a, 0) = v
  BY <1>1, <1>7, <1>8, WordStored
<1>10. ASSUME NEW b, Grounded(b), p <= b
       PROVE  Keeps(b)
  <2>1. a < AddressSpace /\ a \in Nat
    BY <1>8, SpaceAssumption DEF Grounded
  <2>2. Place(a) = a /\ b \in Nat
    BY <1>10, <2>1, OwnPlace DEF Grounded
  <2>3. Clear(a, b)
    BY <1>3, <1>10, <2>2 DEF Clear
  <2> HIDE DEF a, v
  <2> QED
    BY <1>1, <1>7, <1>8, <1>10, <2>3, Apart DEF Keeps
<1>11. /\ r'[SP] = p - 4 * 1
       /\ \A g \in GPRs \ {PC} : r'[g] = r[g]
       /\ s' = s
  <2>1. Fetched \in [Regs -> Dword] /\ \A g \in Regs \ {PC} : Fetched[g] = r[g]
    BY <1>1, FetchedIs DEF Registers
  <2> QED
    BY <1>3, <1>7, <2>1 DEF GPRs, vfpVars
<1> DEFINE l == [k \in 1 .. 1 |-> <<"r", i.rd>>]
<1>12. l \in ListsOf(1) /\ Held(l[1]) = v
  BY <1>2, OneRegister
<1>13. \A k \in 1 .. 1 : ReadDword(memory', (p - 4 * 1) + (4 * (k - 1)), 0) = Held(l[k])
  <2>1. ASSUME NEW k \in 1 .. 1
        PROVE  k = 1 /\ (p - 4 * 1) + (4 * (k - 1)) = a
    BY <1>3
  <2> HIDE DEF l, a, v
  <2> QED
    BY <1>9, <1>12, <2>1
<1> HIDE DEF l, a, v
<1>14. 4 * 1 <= p
  OBVIOUS
<1> QED
  BY <1>10, <1>11, <1>12, <1>13, <1>14, PushedAs

\* LDR from the stack.
LEMMA SinglePops ==
    ASSUME MInv, Inside, NEW i \in Instructions, i.kind = "single",
           i.rn = SP, i.l, ~ i.b, ~ i.p, i.u, i.offset = 4, i.rd # SP,
           1 <= depth, NEW x \in Dword, Single(i, x), UNCHANGED vfpVars,
           depth' = depth - 1
    PROVE  Abstract!Pop /\ Inside'
<1> DEFINE p == r[SP]
<1>1. r \in Registers /\ depth \in Nat
  BY DEF MInv, Processor, IInv
<1>2. i.rd \in Regs /\ i.rd # SP /\ i.rd \in GPRs
  BY TransfersAssumption DEF GPRs
<1>3. p \in Nat /\ SP # PC /\ SP \in Regs /\ Read(Fetched, SP) = p
  BY <1>1, FetchedIs
<1>4. Moved(i) = Wrap(p + 4) /\ Address(i) = p
  BY <1>3 DEF Address, Moved, OffsetOf
<1>5. memory' = memory
      /\ r' = [[Fetched EXCEPT ![i.rd] = ReadDword(memory, p, x)] EXCEPT ![SP] = Wrap(p + 4)]
  BY <1>3, <1>4 DEF Single, Finish, WriteBack, WritesBack
<1>6. Grounded(p)
  <2>1. 1 \in 1 .. depth /\ p + (4 * (1 - 1)) = p
    BY <1>1, <1>3
  <2> QED
    BY <2>1, Lives
<1>7. ReadDword(memory, p, x) = ReadDword(memory, p, 0)
  BY <1>6, WordLoaded
<1>8. /\ r'[SP] = Wrap(p + (4 * 1)) /\ r'[i.rd] = ReadDword(memory, p, 0) /\ s' = s
      /\ \A g \in GPRs \ {PC} : g # i.rd => r'[g] = r[g]
  <2>1. Fetched \in [Regs -> Dword] /\ \A g \in Regs \ {PC} : Fetched[g] = r[g]
    BY <1>1, FetchedIs DEF Registers
  <2>2. 4 * 1 = 4
    OBVIOUS
  <2> QED
    BY <1>2, <1>3, <1>5, <1>7, <2>1, <2>2 DEF GPRs, vfpVars
<1> DEFINE l == [k \in 1 .. 1 |-> <<"r", i.rd>>]
<1>9. l \in ListsOf(1) /\ l[1] = <<"r", i.rd>> /\ Held(l[1])' = ReadDword(memory, p, 0)
  BY <1>2, <1>8, OneRegister
<1> HIDE DEF l
<1>10. \A k \in 1 .. 1 : Held(l[k])' = ReadDword(memory, p + (4 * (k - 1)), 0)
  <2>1. ASSUME NEW k \in 1 .. 1
        PROVE  k = 1 /\ p + (4 * (k - 1)) = p
    BY <1>3
  <2> QED
    BY <1>9, <2>1
<1>11. ASSUME NEW g \in Names \ {<<"r", PC>>}, \A k \in 1 .. 1 : l[k] # g
       PROVE  Held(g)' = Held(g)
  <2>1. g # <<"r", i.rd>>
    BY <1>9, <1>11
  <2> QED
    BY <1>8, <2>1 DEF Names, Held
<1>12. 1 \in 1 .. depth
  BY <1>1
<1> QED
  BY <1>5, <1>8, <1>9, <1>10, <1>11, <1>12, PoppedAs

\* PUSH.
LEMMA BlockPushes ==
    ASSUME MInv, Inside, Standing, NEW i \in Instructions, i.kind = "block",
           i.rn = SP, ~ i.l, i.p, i.w, ~ i.u, i.rl \cap {SP, PC} = {},
           Cardinality(i.rl) > 0, 4 * Cardinality(i.rl) <= r[SP],
           NEW x \in [i.rl -> Dword], Block(i, x), UNCHANGED vfpVars,
           depth' = depth + Cardinality(i.rl)
    PROVE  Abstract!Push /\ Inside'
<1> DEFINE p == r[SP]
           n == Cardinality(i.rl)
           at(k) == p - (4 * Count(i, k))
<1>1. r \in Registers /\ Processor
  BY DEF MInv, Processor
<1>2. /\ p \in Nat /\ p \in Dword /\ p < Full /\ SP # PC /\ SP \in Regs /\ Read(Fetched, SP) = p
      /\ \A g \in Regs \ {PC} : Fetched[g] = r[g] /\ Read(Fetched, g) = r[g]
  BY <1>1, FetchedIs, Powers DEF Dword
<1>3. /\ p % 4 = 0 /\ p <= MemSize /\ p <= AddressSpace /\ 4 * n <= p
      /\ MemSize \in Nat /\ AddressSpace \in Nat
  BY SizeAssumption, SpaceAssumption DEF Standing
<1>4. n \in Nat \ {0} /\ \A k \in 0 .. 16 : Count(i, k) \in 0 .. n
  BY Counting
<1>5. i.rl # {} /\ i.rl \subseteq Regs \ {PC, SP} /\ i.rl \subseteq 0 .. 15
  BY <1>4, FS_EmptySet, TransfersAssumption, RegsAssumption DEF PC
<1>6. PICK t : Course(i, x, t)
  BY <1>1, <1>2, <1>5, BlockRuns
<1>7. Ground(i) = p /\ Strides(i) = -4
  BY <1>2, <1>3 DEF Ground, Strides
<1>8. ASSUME NEW k \in 0 .. 16
      PROVE  /\ at(k) \in Nat /\ at(k) <= p /\ at(k) < Full /\ at(k) % 4 = 0
             /\ Wrap(Ground(i) + (Strides(i) * Count(i, k))) = at(k)
  <2>1. Count(i, k) \in 0 .. n
    BY <1>4
  <2> DEFINE c == Count(i, k)
  <2>2. c \in Nat /\ 4 * c <= 4 * n
    BY <1>4, <2>1
  <2>3. Ground(i) + (Strides(i) * c) = p - (4 * c)
    BY <1>2, <1>7, <2>2
  <2> HIDE DEF c, p, n
  <2>4. /\ p - (4 * c) \in Nat /\ p - (4 * c) <= p /\ p - (4 * c) < Full
        /\ (p - (4 * c)) % 4 = 0
    BY <1>2, <1>3, <1>4, <2>2, Powers
  <2>5. Wrap(p - (4 * c)) = p - (4 * c)
    BY <2>4, Landing
  <2> QED
    BY <2>3, <2>4, <2>5 DEF c
<1>9. ASSUME NEW k \in 1 .. 16, InOrder(i, k) \in i.rl
      PROVE  TurnAt(i, k) = at(k) /\ Grounded(at(k)) /\ at(k) \in Dword
  <2>1. Count(i, k) = Count(i, k - 1) + 1 /\ Count(i, k - 1) \in 0 .. n
    BY <1>4, <1>9, Counting
  <2>2. TurnAt(i, k) = at(k)
    BY <1>8, <2>1 DEF TurnAt
  <2>3. at(k) \in Nat /\ at(k) % 4 = 0 /\ at(k) < Full
    BY <1>8
  <2>4. at(k) + 4 <= p
    <3> DEFINE c == Count(i, k)
    <3>1. c \in Nat /\ c >= 1
      BY <1>4, <2>1
    <3> HIDE DEF c, p
    <3> QED
      BY <1>2, <3>1 DEF c
  <2>5. Grounded(at(k))
    <3> DEFINE a == at(k)
    <3>1. a \in Nat /\ a % 4 = 0 /\ a + 4 <= p
      BY <2>3, <2>4
    <3> HIDE DEF a, p
    <3> QED
      BY <1>2, <1>3, <3>1 DEF Grounded, a
  <2>6. at(k) \in Dword
    BY <2>3, Powers DEF Dword
  <2> QED
    BY <2>2, <2>5, <2>6
<1>10. \A k \in 0 .. 16 : t[k] \in Stand /\ t[k].a = at(k)
  BY <1>1, <1>6, <1>8, CourseAt
<1> DEFINE Fine(k) ==
               /\ t[k].f = Fetched
               /\ \A b : Grounded(b) /\ p <= b =>
                      ReadDword(t[k].m, b, 0) = ReadDword(memory, b, 0)
               /\ \A j \in 1 .. k : InOrder(i, j) \in i.rl =>
                      ReadDword(t[k].m, at(j), 0) = r[InOrder(i, j)]
           T == {k \in 0 .. 16 : Fine(k)}
<1> HIDE DEF at
<1>11. 0 \in T
  BY <1>6 DEF Course
<1>12. ASSUME NEW k \in 1 .. 16, k - 1 \in T
       PROVE  k \in T
  <2> DEFINE g == InOrder(i, k)
             m == t[k - 1].m
  <2>1. k - 1 \in 0 .. 16 /\ k \in 0 .. 16 /\ Fine(k - 1)
    BY <1>12
  <2>2. CASE g \notin i.rl
    <3>1. t[k] = t[k - 1]
      BY <1>6, <2>2 DEF Course
    <3>2. \A j \in 1 .. k : InOrder(i, j) \in i.rl => j \in 1 .. k - 1
      BY <2>2
    <3> QED
      BY <2>1, <3>1, <3>2
  <2>3. CASE g \in i.rl
    <3>1. g \in Regs /\ g # PC /\ g # SP /\ Read(Fetched, g) = r[g] /\ r[g] \in Dword
      BY <1>1, <1>2, <1>5, <2>3 DEF Registers
    <3>2. t[k].f = Fetched /\ t[k].m = WriteDword(m, at(k), r[g])
      <4> DEFINE d == IF i.p THEN Wrap(t[k - 1].a + Strides(i)) ELSE t[k - 1].a
      <4>1. t[k] = Turn(i, t[k - 1], g, x)
        BY <1>6, <2>3 DEF Course
      <4>2. d = at(k)
        BY <1>1, <1>6, <1>9, <2>3, CourseAt
      <4>3. /\ Turn(i, t[k - 1], g, x).f = t[k - 1].f
            /\ Turn(i, t[k - 1], g, x).m = WriteDword(m, d, Read(t[k - 1].f, g))
        BY <3>1 DEF Turn, Strides
      <4> HIDE DEF d
      <4> QED
        BY <2>1, <3>1, <4>1, <4>2, <4>3
    <3>3. Sound(m) /\ Grounded(at(k)) /\ at(k) \in Dword
      BY <1>9, <1>10, <2>1, <2>3 DEF Stand
    <3>4. ReadDword(t[k].m, at(k), 0) = r[g]
      BY <3>1, <3>2, <3>3, WordStored
    <3>5. at(k) \in Nat /\ at(k) % 4 = 0 /\ at(k) < AddressSpace /\ Place(at(k)) = at(k)
      <4>1. at(k) < AddressSpace /\ at(k) \in Nat
        BY <1>3, <3>3 DEF Grounded
      <4> QED
        BY <3>3, <4>1, OwnPlace DEF Grounded
    <3>6. ASSUME NEW b, Grounded(b), at(k) < b
          PROVE  ReadDword(t[k].m, b, 0) = ReadDword(m, b, 0)
      <4>1. Clear(at(k), b)
        BY <3>5, <3>6 DEF Clear, Grounded
      <4> HIDE DEF m, g
      <4> QED
        BY <3>2, <3>3, <3>6, <4>1, Apart
    <3>7. ASSUME NEW b, Grounded(b), p <= b
          PROVE  ReadDword(t[k].m, b, 0) = ReadDword(memory, b, 0)
      <4>1. at(k) < b
        <5>1. at(k) + 4 <= p
          <6>1. Count(i, k) = Count(i, k - 1) + 1 /\ Count(i, k - 1) \in 0 .. n
            BY <1>4, <2>1, <2>3, Counting
          <6> HIDE DEF p, n
          <6> QED
            BY <1>2, <1>4, <6>1 DEF at
        <5> HIDE DEF p
        <5> QED
          BY <1>2, <3>5, <3>7, <5>1 DEF Grounded
      <4> QED
        BY <2>1, <3>6, <3>7, <4>1
    <3>8. ASSUME NEW j \in 1 .. k, InOrder(i, j) \in i.rl
          PROVE  ReadDword(t[k].m, at(j), 0) = r[InOrder(i, j)]
      <4>1. CASE j = k
        BY <3>4, <4>1
      <4>2. CASE j # k
        <5>1. j \in 1 .. k - 1 /\ j \in 1 .. 16 /\ j \in 0 .. 16 /\ j < k
          BY <4>2
        <5>2. Count(i, j) < Count(i, k)
          BY <2>1, <2>3, <5>1, Ahead
        <5>3. at(k) < at(j)
          <6>1. Count(i, j) \in 0 .. n /\ Count(i, k) \in 0 .. n
            BY <1>4, <2>1, <5>1
          <6> HIDE DEF p, n
          <6> QED
            BY <1>2, <1>4, <5>2, <6>1 DEF at
        <5>4. Grounded(at(j))
          BY <1>9, <3>8, <5>1
        <5> QED
          BY <2>1, <3>6, <3>8, <5>1, <5>3, <5>4
      <4> QED
        BY <4>1, <4>2
    <3> QED
      BY <2>1, <3>2, <3>7, <3>8
  <2> QED
    BY <2>2, <2>3
<1> HIDE DEF T
<1>13. 16 \in T
  <2> DEFINE f == [k \in 0 .. 16 |-> k]
  <2>1. f[0] \in T /\ \A k \in 1 .. 16 : f[k - 1] \in T => f[k] \in T
    BY <1>11, <1>12
  <2> HIDE DEF f
  <2>2. f[16] \in T
    BY <2>1, Reached
  <2> QED
    BY <2>2 DEF f
<1>14. Fine(16)
  BY <1>13 DEF T
<1>15. /\ memory' = t[16].m /\ r' = [Fetched EXCEPT ![SP] = at(16)]
       /\ at(16) = p - (4 * n)
  <2>1. i.w /\ i.rn \notin i.rl
    BY <1>5
  <2>2. Count(i, 16) = n
    BY Counting DEF Count
  <2> DEFINE end == t[16]
  <2>3. end.f = Fetched /\ end.a = at(16)
    BY <1>10, <1>14
  <2>4. memory' = end.m /\ r' = [end.f EXCEPT ![SP] = end.a]
    BY <1>6, <2>1 DEF Course, Effect
  <2> HIDE DEF end
  <2>5. memory' = end.m /\ r' = [Fetched EXCEPT ![SP] = at(16)]
    BY <2>3, <2>4
  <2> QED
    BY <2>2, <2>5 DEF at, end
<1>16. PICK q : Meets(i, q)
  BY Meeting
<1> DEFINE e(c) == (n + 1) - c
           l == [c \in 1 .. n |-> <<"r", InOrder(i, q[e(c)])>>]
<1>17. \A c \in 1 .. n : e(c) \in 1 .. n
  BY <1>4
<1>18. \A c \in 1 .. n : /\ q[e(c)] \in 1 .. 16 /\ InOrder(i, q[e(c)]) \in i.rl
                         /\ Count(i, q[e(c)]) = e(c)
  BY <1>16, <1>17 DEF Meets
<1>19. l \in ListsOf(n)
  <2>1. \A c \in 1 .. n : l[c] \in Names /\ Order(l[c]) = InOrder(i, q[e(c)])
    BY <1>5, <1>18 DEF Names, GPRs, Order
  <2>2. ASSUME NEW b \in 1 .. n, NEW c \in 1 .. n, b < c
        PROVE  InOrder(i, q[e(b)]) < InOrder(i, q[e(c)])
    <3>1. e(c) < e(b) /\ e(c) \in 1 .. n /\ e(b) \in 1 .. n
      BY <1>4, <1>17, <2>2
    <3> HIDE DEF e
    <3>2. q[e(c)] < q[e(b)]
      BY <1>16, <3>1 DEF Meets
    <3> QED
      BY <1>18, <3>2 DEF InOrder
  <2>3. l \in [1 .. n -> Names]
    BY <2>1
  <2> HIDE DEF l, e
  <2> QED
    BY <2>1, <2>2, <2>3 DEF ListsOf
<1>20. ASSUME NEW c \in 1 .. n
       PROVE  ReadDword(memory', (p - (4 * n)) + (4 * (c - 1)), 0) = Held(l[c])
  <2>1. (p - (4 * n)) + (4 * (c - 1)) = at(q[e(c)])
    <3>1. Count(i, q[e(c)]) = (n + 1) - c
      BY <1>18
    <3> HIDE DEF p, n, e
    <3> QED
      BY <1>2, <1>4, <3>1 DEF at
  <2>2. Held(l[c]) = r[InOrder(i, q[e(c)])]
    BY DEF Held
  <2>3. ReadDword(t[16].m, at(q[e(c)]), 0) = r[InOrder(i, q[e(c)])]
    BY <1>14, <1>18
  <2> HIDE DEF l
  <2> QED
    BY <1>15, <2>1, <2>2, <2>3
<1>21. \A b : Grounded(b) /\ p <= b => Keeps(b)
  BY <1>14, <1>15 DEF Keeps
<1>22. r'[SP] = p - (4 * n) /\ (\A g \in GPRs \ {PC} : r'[g] = r[g]) /\ s' = s
  <2>1. Fetched \in [Regs -> Dword]
    BY <1>1, FetchedIs DEF Registers
  <2> QED
    BY <1>2, <1>15, <2>1 DEF GPRs, vfpVars
<1> HIDE DEF l
<1> QED
  BY <1>4, <1>19, <1>20, <1>21, <1>22, PushedAs

\* POP.
LEMMA BlockPops ==
    ASSUME MInv, Inside, NEW i \in Instructions, i.kind = "block",
           i.rn = SP, i.l, ~ i.p, i.w, i.u, SP \notin i.rl,
           Cardinality(i.rl) > 0, Cardinality(i.rl) <= depth,
           NEW x \in [i.rl -> Dword], Block(i, x), UNCHANGED vfpVars,
           depth' = depth - Cardinality(i.rl)
    PROVE  Abstract!Pop /\ Inside'
<1> DEFINE p == r[SP]
           n == Cardinality(i.rl)
           at(k) == p + (4 * (Count(i, k) - 1))
<1>1. r \in Registers /\ Processor /\ depth \in Nat
  BY DEF MInv, Processor
<1>2. /\ p \in Nat /\ p < Full /\ SP # PC /\ SP \in Regs /\ Read(Fetched, SP) = p
      /\ Fetched \in Registers /\ \A g \in Regs \ {PC} : Fetched[g] = r[g]
  BY <1>1, FetchedIs, Powers DEF Dword
<1>3. n \in 1 .. depth /\ \A k \in 0 .. 16 : Count(i, k) \in 0 .. n
  BY <1>1, Counting
<1>4. Standing /\ \A k \in 1 .. depth : Grounded(p + (4 * (k - 1)))
  BY <1>1, <1>3, Lives
<1>5. i.rl # {} /\ i.rl \subseteq Regs \ {SP} /\ i.rl \subseteq 0 .. 15
  <2>1. i.rl # {}
    <3>1. Cardinality({}) = 0
      BY FS_EmptySet
    <3> QED
      BY <3>1
  <2>2. i.rl \subseteq Regs
    BY TransfersAssumption
  <2>3. Regs \subseteq 0 .. 15
    BY RegsAssumption DEF PC
  <2> QED
    BY <2>1, <2>2, <2>3
<1>6. PICK t : Course(i, x, t)
  BY <1>1, <1>2, <1>5, BlockRuns
<1>7. Ground(i) = p /\ Strides(i) = 4
  BY <1>2, <1>4 DEF Ground, Strides, Standing
<1>8. ASSUME NEW k \in 1 .. 16, InOrder(i, k) \in i.rl
      PROVE  TurnAt(i, k) = at(k) /\ Grounded(at(k))
  <2>1. Count(i, k) = Count(i, k - 1) + 1 /\ Count(i, k - 1) \in 0 .. n /\ Count(i, k) \in 0 .. n
    BY <1>3, <1>8, Counting
  <2> DEFINE c == Count(i, k)
  <2>2. c \in 1 .. depth
    BY <1>1, <1>3, <2>1
  <2>3. Grounded(at(k))
    BY <1>4, <2>2
  <2>4. at(k) \in Nat /\ at(k) < Full
    <3>1. AddressSpace <= Full /\ Full \in Nat /\ AddressSpace \in Nat
      BY Landing, Powers, SpaceAssumption
    <3> HIDE DEF at
    <3> QED
      BY <2>3, <3>1 DEF Grounded
  <2>5. Wrap(at(k)) = at(k)
    BY <2>4, Landing
  <2>6. TurnAt(i, k) = Wrap(p + (4 * Count(i, k - 1)))
    BY <1>7 DEF TurnAt
  <2>7. p + (4 * Count(i, k - 1)) = at(k)
    BY <1>2, <2>1
  <2> QED
    BY <2>3, <2>5, <2>6, <2>7
<1>9. \A k \in 0 .. 16 : t[k] \in Stand /\ t[k].a = Wrap(p + (4 * Count(i, k)))
  BY <1>1, <1>6, <1>7, CourseAt
<1> DEFINE Fine(k) ==
               /\ t[k].m = memory
               /\ \A g \in Regs : t[k].f[g] = IF g \in Met(i, k)
                                              THEN ReadDword(memory, at(g + 1), 0)
                                              ELSE Fetched[g]
           T == {k \in 0 .. 16 : Fine(k)}
<1> HIDE DEF at
<1>10. 0 \in T
  <2>1. Met(i, 0) = {}
    BY DEF Met
  <2> QED
    BY <1>6, <2>1 DEF Course
<1>11. ASSUME NEW k \in 1 .. 16, k - 1 \in T
       PROVE  k \in T
  <2> DEFINE g == InOrder(i, k)
             d == TurnAt(i, k)
  <2>1. k - 1 \in 0 .. 16 /\ k \in 0 .. 16 /\ Fine(k - 1)
    BY <1>11
  <2>2. Met(i, k) = IF g \in i.rl THEN Met(i, k - 1) \cup {g} ELSE Met(i, k - 1)
    BY Counting
  <2>3. CASE g \notin i.rl
    <3>1. t[k] = t[k - 1]
      BY <1>6, <2>3 DEF Course
    <3> QED
      BY <2>1, <2>2, <2>3, <3>1
  <2>4. CASE g \in i.rl
    <3>1. g \in Regs /\ g # SP /\ g + 1 = k
      BY <1>5, <2>4 DEF InOrder
    <3>2. t[k].m = memory /\ t[k].f = [t[k - 1].f EXCEPT ![g] = ReadDword(memory, d, x[g])]
      <4> DEFINE e == IF i.p THEN Wrap(t[k - 1].a + Strides(i)) ELSE t[k - 1].a
      <4>1. t[k] = Turn(i, t[k - 1], g, x)
        BY <1>6, <2>4 DEF Course
      <4>2. e = d
        BY <1>1, <1>6, CourseAt
      <4>3. /\ Turn(i, t[k - 1], g, x).m = t[k - 1].m
            /\ Turn(i, t[k - 1], g, x).f
                   = [t[k - 1].f EXCEPT ![g] = ReadDword(t[k - 1].m, e, x[g])]
        BY <3>1 DEF Turn, Strides
      <4> HIDE DEF e
      <4> QED
        BY <2>1, <4>1, <4>2, <4>3
    <3>3. ReadDword(memory, d, x[g]) = ReadDword(memory, at(g + 1), 0)
      BY <1>8, <2>4, <3>1, WordLoaded
    <3>4. t[k - 1].f \in [Regs -> Dword]
      BY <1>9, <2>1 DEF Stand, Registers
    <3> HIDE DEF g, d
    <3> QED
      BY <2>1, <2>2, <2>4, <3>1, <3>2, <3>3, <3>4
  <2> QED
    BY <2>3, <2>4
<1> HIDE DEF T
<1>12. 16 \in T
  <2> DEFINE f == [k \in 0 .. 16 |-> k]
  <2>1. f[0] \in T /\ \A k \in 1 .. 16 : f[k - 1] \in T => f[k] \in T
    BY <1>10, <1>11
  <2> HIDE DEF f
  <2>2. f[16] \in T
    BY <2>1, Reached
  <2> QED
    BY <2>2 DEF f
<1>13. Fine(16)
  BY <1>12 DEF T
<1>14. /\ memory' = memory /\ r'[SP] = Wrap(p + (4 * n))
       /\ \A g \in Regs \ {SP} : r'[g] = IF g \in i.rl THEN ReadDword(memory, at(g + 1), 0)
                                                       ELSE Fetched[g]
  <2>1. i.w /\ i.rn \notin i.rl
    BY <1>5
  <2>2. Count(i, 16) = n /\ Met(i, 16) = i.rl
    BY Counting DEF Count
  <2> DEFINE end == t[16]
  <2>3. end.m = memory /\ end.a = Wrap(p + (4 * n))
    BY <1>9, <1>13, <2>2
  <2>4. \A g \in Regs : end.f[g] = IF g \in i.rl THEN ReadDword(memory, at(g + 1), 0)
                                                 ELSE Fetched[g]
    BY <1>13, <2>2
  <2>5. memory' = end.m /\ r' = [end.f EXCEPT ![SP] = end.a]
    BY <1>6, <2>1 DEF Course, Effect
  <2>6. end.f \in [Regs -> Dword]
    BY <1>9 DEF Stand, Registers
  <2> HIDE DEF end, p, n
  <2> QED
    BY <1>2, <2>3, <2>4, <2>5, <2>6
<1> HIDE DEF Fine
<1>15. PICK q : Meets(i, q)
  BY Meeting
<1> DEFINE l == [c \in 1 .. n |-> <<"r", InOrder(i, q[c])>>]
<1>16. \A c \in 1 .. n : /\ q[c] \in 1 .. 16 /\ InOrder(i, q[c]) \in i.rl
                         /\ Count(i, q[c]) = c /\ InOrder(i, q[c]) + 1 = q[c]
  BY <1>15 DEF Meets, InOrder
<1>17. l \in ListsOf(n)
  <2>1. \A c \in 1 .. n : l[c] \in Names /\ Order(l[c]) = InOrder(i, q[c])
    BY <1>5, <1>16 DEF Names, GPRs, Order
  <2>2. ASSUME NEW b \in 1 .. n, NEW c \in 1 .. n, b < c
        PROVE  InOrder(i, q[b]) < InOrder(i, q[c])
    <3>1. q[b] < q[c]
      BY <1>15, <2>2 DEF Meets
    <3> QED
      BY <1>16, <3>1 DEF InOrder
  <2>3. l \in [1 .. n -> Names]
    BY <2>1
  <2> HIDE DEF l
  <2> QED
    BY <2>1, <2>2, <2>3 DEF ListsOf
<1>18. ASSUME NEW c \in 1 .. n
       PROVE  Held(l[c])' = ReadDword(memory, p + (4 * (c - 1)), 0)
  <2> DEFINE g == InOrder(i, q[c])
  <2>1. Held(l[c])' = r'[g]
    BY DEF Held
  <2>2. at(g + 1) = p + (4 * (c - 1))
    BY <1>16 DEF at
  <2>3. g \in Regs \ {SP} /\ g \in i.rl
    BY <1>5, <1>16
  <2> HIDE DEF l, g, p
  <2> QED
    BY <1>14, <2>1, <2>2, <2>3
<1>19. ASSUME NEW h \in Names \ {<<"r", PC>>}, \A c \in 1 .. n : l[c] # h
       PROVE  Held(h)' = Held(h)
  <2>1. CASE h[1] = "r"
    <3> DEFINE g == h[2]
    <3>1. h = <<"r", g>> /\ g \in Regs \ {SP, PC}
      BY <2>1 DEF Names, GPRs
    <3>2. g \notin i.rl
      <4> SUFFICES ASSUME g \in i.rl PROVE FALSE
        OBVIOUS
      <4> DEFINE j == g + 1
      <4>1. j \in 1 .. 16 /\ InOrder(i, j) = g
        BY <1>5 DEF InOrder
      <4>2. Count(i, j) \in 1 .. n /\ q[Count(i, j)] = j
        BY <1>15, <4>1 DEF Meets
      <4>3. l[Count(i, j)] = <<"r", g>>
        BY <4>1, <4>2
      <4> HIDE DEF l, g
      <4> QED
        BY <1>19, <3>1, <4>2, <4>3
    <3>3. r'[g] = r[g]
      BY <1>2, <1>14, <3>1, <3>2
    <3> QED
      BY <2>1, <3>3 DEF Held
  <2>2. CASE h[1] # "r"
    BY <2>2 DEF Held, vfpVars
  <2> QED
    BY <2>1, <2>2
<1> HIDE DEF l
<1> QED
  BY <1>3, <1>14, <1>17, <1>18, <1>19, PoppedAs

\* The cells n from fd on, as a list.
LEMMA CellList ==
    ASSUME NEW n \in Nat \ {0}, NEW fd \in 0 .. VfpCount - 1, fd + n <= VfpCount
    PROVE  LET l == [c \in 1 .. n |-> <<"s", fd + (c - 1)>>]
           IN  /\ l \in ListsOf(n)
               /\ \A c \in 1 .. n : /\ fd + (c - 1) \in 0 .. VfpCount - 1
                                    /\ l[c] = <<"s", fd + (c - 1)>>
                                    /\ Held(l[c]) = s[fd + (c - 1)]
                                    /\ Held(l[c])' = s'[fd + (c - 1)]
<1> DEFINE l == [c \in 1 .. n |-> <<"s", fd + (c - 1)>>]
<1>1. VfpCount \in Nat
  BY VfpAssumption
<1>2. \A c \in 1 .. n : fd + (c - 1) \in 0 .. VfpCount - 1
  BY <1>1
<1>3. \A c \in 1 .. n : /\ l[c] = <<"s", fd + (c - 1)>> /\ l[c] \in Names
                        /\ Order(l[c]) = PC + 1 + (fd + (c - 1))
  BY <1>2 DEF Names, Order
<1>4. \A b, c \in 1 .. n : b < c => PC + 1 + (fd + (b - 1)) < PC + 1 + (fd + (c - 1))
  BY DEF PC
<1>5. l \in [1 .. n -> Names]
  BY <1>3
<1> HIDE DEF l
<1>6. l \in ListsOf(n)
  BY <1>3, <1>4, <1>5 DEF ListsOf
<1>7. \A c \in 1 .. n : Held(l[c]) = s[fd + (c - 1)] /\ Held(l[c])' = s'[fd + (c - 1)]
  BY <1>3 DEF Held
<1> QED
  BY <1>2, <1>3, <1>6, <1>7 DEF l

\* FSTMDB to the stack.
LEMMA VfpPushes ==
    ASSUME MInv, Inside, Standing, NEW i \in Instructions, i.kind = "vfp_transfer",
           i.rn = SP, ~ i.l, i.mode = "decrement", i.fd + i.offset <= VfpCount,
           i.offset > 0, 4 * i.offset <= r[SP],
           NEW x \in [Cells -> Dword], NEW y \in [Offsets(i.offset) -> Dword],
           VfpMultiple(i, x, y),
           depth' = depth + i.offset
    PROVE  Abstract!Push /\ Inside'
<1> DEFINE p == r[SP]
           n == i.offset
           at(j) == (p - (4 * n)) + (4 * (j - 1))
<1>1. r \in Registers /\ Processor /\ Unit
  BY DEF MInv, Processor
<1>2. /\ p \in Nat /\ p \in Dword /\ p < Full /\ SP # PC /\ SP \in Regs
      /\ Read(Fetched, SP) = p
      /\ Fetched \in Registers /\ \A g \in Regs \ {PC} : Fetched[g] = r[g]
  BY <1>1, FetchedIs, Powers DEF Dword
<1>3. /\ p % 4 = 0 /\ p <= MemSize /\ p <= AddressSpace /\ 4 * n <= p
      /\ MemSize \in Nat /\ AddressSpace \in Nat
  BY SizeAssumption, SpaceAssumption DEF Standing
<1>4. n \in Nat \ {0} /\ i.fd \in 0 .. VfpCount - 1 /\ i.fd + n <= VfpCount
  BY UnitAssumption
<1>5. PICK f : Filed(i, y, f) /\ Effect(f[n], Passed(i))
  BY <1>1, ListRuns
<1>6. p - (4 * n) \in Nat /\ (p - (4 * n)) % 4 = 0 /\ p - (4 * n) < Full
  <2> HIDE DEF p, n
  <2> QED
    BY <1>2, <1>3, <1>4, Powers
<1>7. First(i) = p - (4 * n)
  <2>1. p - (p % 4) = p
    BY <1>2, <1>3
  <2>2. Wrap(p - (4 * n)) = p - (4 * n)
    BY <1>6, Landing
  <2> HIDE DEF p
  <2> QED
    BY <1>2, <2>1, <2>2 DEF First
<1>8. ASSUME NEW j \in 1 .. n
      PROVE  /\ at(j) \in Nat /\ at(j) + 4 <= p /\ Grounded(at(j)) /\ at(j) \in Dword
             /\ Wrap(First(i) + (4 * (j - 1))) = at(j)
             /\ Place(at(j)) = at(j)
  <2> DEFINE a == at(j)
  <2>1. a \in Nat /\ a + 4 <= p /\ a % 4 = 0
    <3> DEFINE b == p - (4 * n)
    <3>1. b \in Nat /\ b % 4 = 0 /\ p = b + (4 * n)
      BY <1>2, <1>4, <1>6
    <3> HIDE DEF b, p, n
    <3>2. b + (4 * (j - 1)) \in Nat /\ (b + (4 * (j - 1))) % 4 = 0
      BY <1>4, <3>1
    <3>3. b + (4 * (j - 1)) + 4 <= p
      BY <1>4, <3>1
    <3> QED
      BY <3>2, <3>3 DEF b
  <2> HIDE DEF p, n
  <2>2. Grounded(a)
    BY <1>2, <1>3, <2>1 DEF Grounded
  <2>3. a < Full /\ a < AddressSpace
    BY <1>2, <1>3, <2>1, Powers
  <2>4. a \in Dword /\ Wrap(a) = a /\ Place(a) = a
    BY <2>1, <2>3, Powers, Landing, OwnPlace DEF Dword
  <2> QED
    BY <1>7, <2>1, <2>2, <2>4
<1>9. /\ f \in [0 .. n -> Memories] /\ f[0] = memory
      /\ \A k \in 1 .. n : f[k] = WriteDword(f[k - 1], at(k), s[i.fd + (k - 1)])
  <2>1. ASSUME NEW k \in 1 .. n
        PROVE  i.fd + (k - 1) \in Cells
    <3>1. i.fd + (k - 1) \in 0 .. VfpCount - 1
      BY <1>4, VfpAssumption
    <3> QED
      BY <3>1, CellOrder
  <2>2. f \in [0 .. n -> Memories] /\ f[0] = memory
    BY <1>5 DEF Filed
  <2>3. ASSUME NEW k \in 1 .. n
        PROVE  f[k] = WriteDword(f[k - 1], at(k), s[i.fd + (k - 1)])
    <3>1. f[k] = WriteDword(f[k - 1], Wrap(First(i) + (4 * (k - 1))),
                            IF i.fd + (k - 1) \in Cells THEN s[i.fd + (k - 1)]
                                                        ELSE y[k - 1])
      BY <1>5 DEF Filed
    <3> QED
      BY <1>8, <2>1, <3>1
  <2> QED
    BY <2>2, <2>3
<1> HIDE DEF at
<1> DEFINE Fine(k) ==
               /\ \A b : Grounded(b) /\ p <= b =>
                      ReadDword(f[k], b, 0) = ReadDword(memory, b, 0)
               /\ \A j \in 1 .. k : ReadDword(f[k], at(j), 0) = s[i.fd + (j - 1)]
           T == {k \in 0 .. n : Fine(k)}
           id == [k \in 0 .. n |-> k]
<1>10. 0 \in T
  BY <1>4, <1>9
<1>11. ASSUME NEW k \in 1 .. n, k - 1 \in T
       PROVE  k \in T
  <2> DEFINE m == f[k - 1]
             v == s[i.fd + (k - 1)]
  <2>1. k - 1 \in 0 .. n /\ k \in 0 .. n /\ Fine(k - 1)
    BY <1>4, <1>11
  <2>2. Sound(m)
    BY <1>9, <2>1 DEF Memories
  <2>3. v \in Dword
    <3>1. i.fd + (k - 1) \in 0 .. VfpCount - 1
      BY <1>4, VfpAssumption
    <3> QED
      BY <1>1, <3>1, CellOrder DEF Unit
  <2>4. f[k] = WriteDword(m, at(k), v)
    BY <1>9
  <2>5. Grounded(at(k)) /\ at(k) \in Dword /\ at(k) \in Nat /\ at(k) + 4 <= p
        /\ Place(at(k)) = at(k)
    BY <1>8
  <2> HIDE DEF m, v
  <2>6. ReadDword(f[k], at(k), 0) = v
    BY <2>2, <2>3, <2>4, <2>5, WordStored
  <2>7. ASSUME NEW b, Grounded(b), at(k) + 4 <= b \/ b + 4 <= at(k)
        PROVE  ReadDword(f[k], b, 0) = ReadDword(m, b, 0)
    <3>1. Clear(at(k), b)
      BY <2>5, <2>7 DEF Clear, Grounded
    <3> QED
      BY <2>2, <2>4, <2>5, <2>7, <3>1, Apart
  <2>8. ASSUME NEW b, Grounded(b), p <= b
        PROVE  ReadDword(f[k], b, 0) = ReadDword(memory, b, 0)
    <3>1. at(k) + 4 <= b
      <4> HIDE DEF p
      <4> QED
        BY <1>2, <2>5, <2>8 DEF Grounded
    <3> QED
      BY <2>1, <2>7, <2>8, <3>1 DEF m
  <2>9. ASSUME NEW j \in 1 .. k
        PROVE  ReadDword(f[k], at(j), 0) = s[i.fd + (j - 1)]
    <3>1. CASE j = k
      BY <2>6, <3>1 DEF v
    <3>2. CASE j # k
      <4>1. j \in 1 .. k - 1 /\ j \in 1 .. n /\ j < k
        <5> HIDE DEF n
        <5> QED
          BY <1>4, <3>2
      <4>2. at(j) + 4 <= at(k)
        <5> HIDE DEF p, n
        <5> QED
          BY <1>2, <1>4, <4>1 DEF at
      <4>3. Grounded(at(j))
        BY <1>8, <4>1
      <4> QED
        BY <2>1, <2>7, <4>1, <4>2, <4>3 DEF m
    <3> QED
      BY <3>1, <3>2
  <2> QED
    BY <2>1, <2>8, <2>9
<1> HIDE DEF T, n
<1>12. n \in T
  <2>1. id[0] \in T /\ \A k \in 1 .. n : id[k - 1] \in T => id[k] \in T
    BY <1>4, <1>10, <1>11
  <2> HIDE DEF id
  <2>2. id[n] \in T
    BY <1>4, <2>1, Reached
  <2> QED
    BY <1>4, <2>2 DEF id
<1>13. Fine(n)
  BY <1>12 DEF T
<1>14. memory' = f[n] /\ r' = [Fetched EXCEPT ![SP] = p - (4 * n)] /\ s' = s
  BY <1>5, <1>7 DEF Effect, Passed, VfpMultiple
<1> DEFINE l == [c \in 1 .. n |-> <<"s", i.fd + (c - 1)>>]
<1>15. l \in ListsOf(n) /\ \A c \in 1 .. n : Held(l[c]) = s[i.fd + (c - 1)]
  BY <1>4, CellList
<1>16. ASSUME NEW c \in 1 .. n
       PROVE  ReadDword(memory', (p - (4 * n)) + (4 * (c - 1)), 0) = Held(l[c])
  <2> HIDE DEF l
  <2> QED
    BY <1>13, <1>14, <1>15 DEF at
<1>17. \A b : Grounded(b) /\ p <= b => Keeps(b)
  BY <1>13, <1>14 DEF Keeps
<1>18. r'[SP] = p - (4 * n) /\ \A g \in GPRs \ {PC} : r'[g] = r[g]
  BY <1>2, <1>14 DEF GPRs, Registers
<1>19. depth' = depth + n
  BY DEF n
<1> HIDE DEF l, Fine
<1> QED
  BY <1>3, <1>4, <1>14, <1>15, <1>16, <1>17, <1>18, <1>19, PushedAs

\* FLDMIA from the stack.
LEMMA VfpPops ==
    ASSUME MInv, Inside, NEW i \in Instructions, i.kind = "vfp_transfer",
           i.rn = SP, i.l, i.mode = "increment", i.fd + i.offset <= VfpCount,
           i.offset > 0, i.offset <= depth,
           NEW x \in [Cells -> Dword], NEW y \in [Offsets(i.offset) -> Dword],
           VfpMultiple(i, x, y),
           depth' = depth - i.offset
    PROVE  Abstract!Pop /\ Inside'
<1> DEFINE p == r[SP]
           n == i.offset
<1>1. r \in Registers /\ Processor /\ Unit /\ depth \in Nat
  BY DEF MInv, Processor
<1>2. /\ p \in Nat /\ SP # PC /\ SP \in Regs /\ Read(Fetched, SP) = p
      /\ Fetched \in Registers /\ \A g \in Regs \ {PC} : Fetched[g] = r[g]
  BY <1>1, FetchedIs
<1>3. n \in 1 .. depth /\ n \in Nat \ {0} /\ i.fd \in 0 .. VfpCount - 1
      /\ i.fd + n <= VfpCount
  BY <1>1, UnitAssumption
<1>4. Standing /\ \A k \in 1 .. depth : Grounded(p + (4 * (k - 1)))
  BY <1>1, <1>3, Lives
<1>5. First(i) = p
  BY <1>2, <1>4 DEF First, Standing
<1>6. /\ memory' = memory /\ r' = [Fetched EXCEPT ![SP] = Wrap(p + (4 * n))]
      /\ s' = [c \in Cells |-> IF c - i.fd \in Offsets(n)
                               THEN ReadDword(memory, Wrap(p + (4 * (c - i.fd))), x[c])
                               ELSE s[c]]
  BY <1>5 DEF VfpMultiple, Effect
<1> HIDE DEF n
<1>7. ASSUME NEW c \in 1 .. n
      PROVE  s'[i.fd + (c - 1)] = ReadDword(memory, p + (4 * (c - 1)), 0)
  <2> DEFINE a == p + (4 * (c - 1))
             d == i.fd + (c - 1)
  <2>1. d \in Cells /\ d - i.fd = c - 1 /\ c - 1 \in Offsets(n)
    <3>1. /\ i.fd \in Nat /\ n \in Nat /\ VfpCount \in Nat /\ i.fd + n <= VfpCount
          /\ c \in Nat /\ 1 <= c /\ c <= n
      BY <1>3, VfpAssumption
    <3> DEFINE f == i.fd
    <3> HIDE DEF f
    <3>2. f \in Nat /\ f + n <= VfpCount
      BY <3>1 DEF f
    <3>3. /\ f + (c - 1) \in 0 .. VfpCount + 2 /\ (f + (c - 1)) - f = c - 1
          /\ c - 1 \in 0 .. n - 1
      BY <3>1, <3>2
    <3> QED
      BY <3>3 DEF f, Cells, FPEXC, Offsets
  <2>2. Grounded(a)
    <3>1. c \in 1 .. depth
      BY <1>1, <1>3
    <3> QED
      BY <1>4, <3>1
  <2>3. Wrap(a) = a
    <3>1. AddressSpace <= Full /\ Full \in Nat /\ AddressSpace \in Nat
      BY Landing, Powers, SpaceAssumption
    <3> HIDE DEF a
    <3> QED
      BY <2>2, <3>1, Landing DEF Grounded
  <2>4. s'[d] = ReadDword(memory, Wrap(a), x[d])
    BY <1>6, <2>1
  <2> HIDE DEF a
  <2>5. ReadDword(memory, a, x[d]) = ReadDword(memory, a, 0)
    BY <2>2, WordLoaded
  <2> QED
    BY <2>3, <2>4, <2>5 DEF a
<1>8. ASSUME NEW d \in Cells, \A c \in 1 .. n : d # i.fd + (c - 1)
      PROVE  s'[d] = s[d]
  <2>1. d \in Int /\ i.fd \in Int
    BY <1>3, CellOrder
  <2>2. d - i.fd \notin Offsets(n)
    <3> SUFFICES ASSUME d - i.fd \in Offsets(n) PROVE FALSE
      OBVIOUS
    <3> DEFINE c == (d - i.fd) + 1
    <3>1. c \in 1 .. n /\ d = i.fd + (c - 1)
      BY <1>3, <2>1 DEF Offsets
    <3> QED
      BY <1>8, <3>1
  <2> QED
    BY <1>6, <2>2
<1> DEFINE l == [c \in 1 .. n |-> <<"s", i.fd + (c - 1)>>]
<1>9. l \in ListsOf(n) /\ \A c \in 1 .. n : /\ l[c] = <<"s", i.fd + (c - 1)>>
                                            /\ Held(l[c])' = s'[i.fd + (c - 1)]
  BY <1>3, CellList
<1> HIDE DEF l
<1>10. \A c \in 1 .. n : Held(l[c])' = ReadDword(memory, p + (4 * (c - 1)), 0)
  BY <1>7, <1>9
<1>11. r'[SP] = Wrap(p + (4 * n)) /\ \A g \in GPRs \ {PC} : r'[g] = r[g]
  BY <1>2, <1>6 DEF GPRs, Registers
<1>12. ASSUME NEW h \in Names \ {<<"r", PC>>}, \A c \in 1 .. n : l[c] # h
       PROVE  Held(h)' = Held(h)
  <2>1. CASE h[1] = "r"
    <3>1. h = <<"r", h[2]>> /\ h[2] \in GPRs \ {PC}
      BY <2>1 DEF Names
    <3> QED
      BY <1>11, <2>1, <3>1 DEF Held
  <2>2. CASE h[1] # "r"
    <3> DEFINE d == h[2]
    <3>1. h = <<"s", d>> /\ d \in 0 .. VfpCount - 1
      BY <2>2 DEF Names
    <3>2. d \in Cells
      BY <3>1, VfpAssumption DEF Cells, FPEXC
    <3> HIDE DEF d
    <3>3. \A c \in 1 .. n : d # i.fd + (c - 1)
      BY <1>9, <1>12, <3>1
    <3>4. s'[d] = s[d]
      BY <1>8, <3>2, <3>3
    <3> QED
      BY <2>2, <3>4 DEF Held, d
  <2> QED
    BY <2>1, <2>2
<1>13. depth' = depth - n
  BY DEF n
<1> QED
  BY <1>3, <1>6, <1>9, <1>10, <1>11, <1>12, <1>13, PoppedAs

\* Other instructions that touch no word of the stack.
LEMMA OthersMiss ==
    ASSUME MInv, NEW i \in Instructions, Handled(i), NEW a, Grounded(a), Misses(i, a)
    PROVE  Keeps(a)
<1>1. Answers \subseteq Dword /\ Results \subseteq Dword /\ Processor /\ Unit
  BY ProgramAssumption, VfpAssumption DEF MInv
<1>2. CASE i.kind = "single" /\ \E x \in Answers : Single(i, x)
  BY <1>1, <1>2, SingleMisses
<1>3. CASE i.kind = "swap" /\ \E x \in Answers : Swap(i, x)
  BY <1>1, <1>3, SwapMisses
<1>4. CASE i.kind = "half" /\ \E x \in Answers : Halfword(i, x)
  BY <1>1, <1>4, HalfwordMisses
<1>5. CASE i.kind = "block" /\ \E x \in [i.rl -> Answers] : Block(i, x)
  <2>1. PICK x \in [i.rl -> Dword] : Block(i, x)
    BY <1>1, <1>5
  <2> QED
    BY <1>1, <1>5, <2>1, BlockMisses
<1>6. CASE i.kind = "vfp_data" /\ \E o \in Results : DataProc(i, o)
  BY <1>6 DEF DataProc, Keeps
<1>7. CASE /\ i.kind = "vfp_transfer"
           /\ \E x \in [Cells -> Answers], y \in [Offsets(i.offset) -> Answers] :
                  DataTransfer(i, x, y)
  <2>1. PICK x \in [Cells -> Dword], y \in [Offsets(i.offset) -> Dword] :
                 DataTransfer(i, x, y)
    BY <1>1, <1>7
  <2>2. x[i.fd] \in Dword
    BY <1>7, UnitAssumption, CellOrder
  <2>3. CASE Fatal
    BY <2>3, FatalMisses
  <2>4. CASE VfpSingle(i, x[i.fd])
    BY <1>1, <1>7, <2>2, <2>4, VfpSingleMisses
  <2>5. CASE VfpMultiple(i, x, y)
    BY <1>1, <1>7, <2>5, VfpMultipleMisses
  <2> QED
    BY <2>1, <2>3, <2>4, <2>5 DEF DataTransfer
<1>8. CASE i.kind = "vfp_register" /\ RegTransfer(i)
  BY <1>8 DEF RegTransfer, Keeps
<1>9. CASE i.kind = "vfp_status" /\ StatusTransfer(i)
  BY <1>9 DEF StatusTransfer, Fatal, Keeps
<1>10. CASE i.kind = "ignored" /\ Effect(memory, Fetched)
  BY <1>10 DEF Effect, Keeps
<1>11. CASE i.kind = "unsupported" /\ Fatal
  BY <1>11, FatalMisses
<1> QED
  BY <1>2, <1>3, <1>4, <1>5, <1>6, <1>7, <1>8, <1>9, <1>10, <1>11 DEF Handled

\* An instruction that is no push and no pop works or leaves the stack.
LEMMA WorksOrLeaves ==
    ASSUME MInv, MInv', Inside, NEW i \in Instructions, Handled(i),
           depth' = IF \/ r'[SP] # r[SP]
                       \/ \E d \in Stores(i) :
                              d .. d + 3 \cap r[SP] .. r[SP] + (4 * depth) - 1 # {}
                    THEN 0 ELSE depth
    PROVE  (Abstract!Work \/ Abstract!Leave) /\ Inside'
<1>1. CASE depth' = 0
  <2>1. Inside'
    BY <1>1 DEF Inside
  <2> QED
    BY <1>1, <2>1, Leaves
<1>2. CASE depth' # 0
  <2> DEFINE p == r[SP]
             live == p .. p + (4 * depth) - 1
  <2>1. /\ r'[SP] = p /\ depth' = depth
        /\ \A d \in Stores(i) : d .. d + 3 \cap live = {}
    BY <1>2
  <2>2. p \in Nat /\ depth \in Nat
    BY FetchedIs DEF MInv, Processor
  <2>3. ASSUME NEW k \in 1 .. depth
        PROVE  Slot(memory', r'[SP], k) = Slot(memory, r[SP], k)
    <3> DEFINE a == p + (4 * (k - 1))
    <3>1. Grounded(a)
      BY Lives
    <3>2. a .. a + 3 \subseteq live
      <4> HIDE DEF p
      <4> QED
        BY <2>2
    <3> HIDE DEF a, live
    <3>3. Misses(i, a)
      BY <2>1, <3>2 DEF Misses
    <3>4. Keeps(a)
      BY <3>1, <3>3, OthersMiss
    <3> QED
      BY <2>1, <3>4 DEF Slot, Keeps, a
  <2>4. Abstract!Work
    BY <2>1, <2>2, <2>3, Works
  <2>5. Inside'
    <3>1. MemSize' = MemSize
      OBVIOUS
    <3> HIDE DEF live
    <3> QED
      BY <2>1 DEF Inside
  <2> QED
    BY <2>4, <2>5
<1> QED
  BY <1>1, <1>2

\* What each pattern of a push asks of the instruction.
LEMMA PushPatterns ==
    ASSUME NEW i, Pushed(i) # 0
    PROVE  /\ i.rn = SP /\ ~ i.l /\ Popped(i) = 0
           /\ \/ /\ i.kind = "single" /\ ~ i.b /\ i.p /\ i.w /\ ~ i.u
                 /\ i.offset = 4 /\ i.rd \notin {SP, PC} /\ Pushed(i) = 1
              \/ /\ i.kind = "block" /\ i.p /\ i.w /\ ~ i.u
                 /\ i.rl \cap {SP, PC} = {} /\ Pushed(i) = Cardinality(i.rl)
              \/ /\ i.kind = "vfp_transfer" /\ i.mode = "decrement"
                 /\ i.fd + i.offset <= VfpCount /\ Pushed(i) = i.offset
BY DEF Pushed, Popped

\* And each pattern of a pop.
LEMMA PopPatterns ==
    ASSUME NEW i, Popped(i) # 0
    PROVE  /\ i.rn = SP /\ i.l
           /\ \/ /\ i.kind = "single" /\ ~ i.b /\ ~ i.p /\ i.u
                 /\ i.offset = 4 /\ i.rd # SP /\ Popped(i) = 1
              \/ /\ i.kind = "block" /\ ~ i.p /\ i.w /\ i.u
                 /\ SP \notin i.rl /\ Popped(i) = Cardinality(i.rl)
              \/ /\ i.kind = "vfp_transfer" /\ i.mode = "increment"
                 /\ i.fd + i.offset <= VfpCount /\ Popped(i) = i.offset
BY DEF Popped

\* The one handler that runs an instruction of a push or a pop.
LEMMA HandledAs ==
    ASSUME NEW i \in Instructions, Handled(i)
    PROVE  /\ i.kind = "single" => (\E x \in Dword : Single(i, x)) /\ UNCHANGED vfpVars
           /\ i.kind = "block" =>
                  (\E x \in [i.rl -> Dword] : Block(i, x)) /\ UNCHANGED vfpVars
           /\ i.kind = "vfp_transfer" /\ i.mode \in {"increment", "decrement"} =>
                  \E x \in [Cells -> Dword], y \in [Offsets(i.offset) -> Dword] :
                      VfpMultiple(i, x, y)
<1>1. Answers \subseteq Dword
  BY ProgramAssumption
<1>2. i.kind = "single" => (\E x \in Answers : Single(i, x)) /\ UNCHANGED vfpVars
  BY DEF Handled
<1>3. i.kind = "block" => (\E x \in [i.rl -> Dword] : Block(i, x)) /\ UNCHANGED vfpVars
  BY <1>1 DEF Handled
<1>4. ASSUME i.kind = "vfp_transfer", i.mode \in {"increment", "decrement"}
      PROVE  \E x \in [Cells -> Dword], y \in [Offsets(i.offset) -> Dword] :
                 VfpMultiple(i, x, y)
  <2>1. PICK x \in [Cells -> Dword], y \in [Offsets(i.offset) -> Dword] :
                 DataTransfer(i, x, y)
    BY <1>1, <1>4 DEF Handled
  <2>2. VfpMultiple(i, x, y)
    BY <1>4, <2>1 DEF DataTransfer, VfpSingle
  <2> QED
    BY <2>2
<1> QED
  BY <1>1, <1>2, <1>3, <1>4

\* What the account calls a push is one.
LEMMA InstructionPushes ==
    ASSUME MInv, Inside, Standing, NEW i \in Instructions, Handled(i),
           Pushed(i) > 0, 4 * Pushed(i) <= r[SP], depth' = depth + Pushed(i)
    PROVE  Abstract!Push /\ Inside'
<1>1. Pushed(i) # 0
  OBVIOUS
<1>2. CASE i.kind = "single"
  <2>1. PICK x \in Dword : Single(i, x) /\ UNCHANGED vfpVars
    BY <1>2, HandledAs
  <2>2. Pushed(i) = 1 /\ 4 * 1 = 4
    BY <1>1, <1>2, PushPatterns
  <2>3. /\ i.rn = SP /\ ~ i.l /\ ~ i.b /\ i.p /\ i.w /\ ~ i.u /\ i.offset = 4
        /\ i.rd \notin {SP, PC}
    BY <1>1, <1>2, PushPatterns
  <2>4. depth' = depth + 1 /\ 4 <= r[SP]
    BY <2>2
  <2> QED
    BY <1>2, <2>1, <2>3, <2>4, SinglePushes
<1>3. CASE i.kind = "block"
  <2>1. PICK x \in [i.rl -> Dword] : Block(i, x) /\ UNCHANGED vfpVars
    BY <1>3, HandledAs
  <2>2. /\ i.rn = SP /\ ~ i.l /\ i.p /\ i.w /\ ~ i.u /\ i.rl \cap {SP, PC} = {}
        /\ Pushed(i) = Cardinality(i.rl)
    BY <1>1, <1>3, PushPatterns
  <2>3. Cardinality(i.rl) > 0 /\ 4 * Cardinality(i.rl) <= r[SP]
        /\ depth' = depth + Cardinality(i.rl)
    BY <2>2
  <2> QED
    BY <1>3, <2>1, <2>2, <2>3, BlockPushes
<1>4. CASE i.kind = "vfp_transfer"
  <2>1. /\ i.rn = SP /\ ~ i.l /\ i.mode = "decrement" /\ i.fd + i.offset <= VfpCount
        /\ Pushed(i) = i.offset
    BY <1>1, <1>4, PushPatterns
  <2>2. PICK x \in [Cells -> Dword], y \in [Offsets(i.offset) -> Dword] :
                 VfpMultiple(i, x, y)
    BY <1>4, <2>1, HandledAs
  <2>3. i.offset > 0 /\ 4 * i.offset <= r[SP] /\ depth' = depth + i.offset
    BY <2>1
  <2> QED
    BY <1>4, <2>1, <2>2, <2>3, VfpPushes
<1> QED
  BY <1>1, <1>2, <1>3, <1>4, PushPatterns

\* What it calls a pop is one.
LEMMA InstructionPops ==
    ASSUME MInv, Inside, NEW i \in Instructions, Handled(i),
           Popped(i) > 0, Popped(i) <= depth, depth' = depth - Popped(i)
    PROVE  Abstract!Pop /\ Inside'
<1>1. Popped(i) # 0
  OBVIOUS
<1>2. CASE i.kind = "single"
  <2>1. PICK x \in Dword : Single(i, x) /\ UNCHANGED vfpVars
    BY <1>2, HandledAs
  <2>2. /\ i.rn = SP /\ i.l /\ ~ i.b /\ ~ i.p /\ i.u /\ i.offset = 4 /\ i.rd # SP
        /\ Popped(i) = 1
    BY <1>1, <1>2, PopPatterns
  <2>3. depth' = depth - 1 /\ 1 <= depth
    BY <2>2
  <2> QED
    BY <1>2, <2>1, <2>2, <2>3, SinglePops
<1>3. CASE i.kind = "block"
  <2>1. PICK x \in [i.rl -> Dword] : Block(i, x) /\ UNCHANGED vfpVars
    BY <1>3, HandledAs
  <2>2. /\ i.rn = SP /\ i.l /\ ~ i.p /\ i.w /\ i.u /\ SP \notin i.rl
        /\ Popped(i) = Cardinality(i.rl)
    BY <1>1, <1>3, PopPatterns
  <2>3. Cardinality(i.rl) > 0 /\ Cardinality(i.rl) <= depth
        /\ depth' = depth - Cardinality(i.rl)
    BY <2>2
  <2> QED
    BY <1>3, <2>1, <2>2, <2>3, BlockPops
<1>4. CASE i.kind = "vfp_transfer"
  <2>1. /\ i.rn = SP /\ i.l /\ i.mode = "increment" /\ i.fd + i.offset <= VfpCount
        /\ Popped(i) = i.offset
    BY <1>1, <1>4, PopPatterns
  <2>2. PICK x \in [Cells -> Dword], y \in [Offsets(i.offset) -> Dword] :
                 VfpMultiple(i, x, y)
    BY <1>4, <2>1, HandledAs
  <2>3. i.offset > 0 /\ i.offset <= depth /\ depth' = depth - i.offset
    BY <2>1
  <2> QED
    BY <1>4, <2>1, <2>2, <2>3, VfpPops
<1> QED
  BY <1>1, <1>2, <1>3, <1>4, PopPatterns

\* The program begins with an empty stack.
LEMMA StackInit == Init => Abstract!Init /\ Inside
<1> SUFFICES ASSUME Init PROVE Abstract!Init /\ Inside
  OBVIOUS
<1>1. MInv
  BY MachineInit
<1>2. [g \in Names |-> IF g[1] = "r" THEN r[g[2]] ELSE s[g[2]]] \in [Names -> Dword]
  <2> SUFFICES ASSUME NEW g \in Names
               PROVE  (IF g[1] = "r" THEN r[g[2]] ELSE s[g[2]]) \in Dword
    OBVIOUS
  <2>1. r \in [Regs -> Dword] /\ s \in [Cells -> Dword]
    BY <1>1 DEF MInv, Processor, Registers, Unit
  <2> QED
    BY <2>1, CellOrder DEF Names, GPRs, Cells
<1>3. depth = 0
  BY DEF Init
<1>4. [k \in 1 .. depth |-> ReadDword(memory, r[SP] + (4 * (k - 1)), 0)] = <<>>
  BY <1>3
<1> QED
  BY <1>2, <1>3, <1>4 DEF Abstract!Init, Inside

\* Every instruction is a step of the stack.
LEMMA StackStep ==
    MInv /\ Inside /\ MInv' /\ [Next]_vars => [Abstract!Next]_(Abstract!vars) /\ Inside'
<1> SUFFICES ASSUME MInv, Inside, MInv', [Next]_vars
             PROVE  [Abstract!Next]_(Abstract!vars) /\ Inside'
  OBVIOUS
<1>1. CASE Next
  <2>1. PICK i \in Instructions : Handled(i) /\ Account(i)
    BY <1>1 DEF Next
  <2>2. Pushed(i) > 0 => ~ (Popped(i) > 0)
    BY PushPatterns
  <2>3. CASE Standing /\ Pushed(i) > 0 /\ 4 * Pushed(i) <= r[SP]
    <3>1. depth' = depth + Pushed(i)
      BY <2>1, <2>2, <2>3 DEF Account, Standing
    <3> QED
      BY <2>1, <2>3, <3>1, InstructionPushes DEF Abstract!Next
  <2>4. CASE Standing /\ Popped(i) > 0 /\ Popped(i) <= depth
    <3>1. depth' = depth - Popped(i)
      BY <2>1, <2>2, <2>4 DEF Account, Standing
    <3> QED
      BY <2>1, <2>4, <3>1, InstructionPops DEF Abstract!Next
  <2>5. CASE /\ ~ (Standing /\ Pushed(i) > 0 /\ 4 * Pushed(i) <= r[SP])
             /\ ~ (Standing /\ Popped(i) > 0 /\ Popped(i) <= depth)
    <3>1. depth' = IF \/ r'[SP] # r[SP]
                      \/ \E d \in Stores(i) :
                             d .. d + 3 \cap r[SP] .. r[SP] + (4 * depth) - 1 # {}
                   THEN 0 ELSE depth
      BY <2>1, <2>5 DEF Account, Standing
    <3> QED
      BY <2>1, <3>1, WorksOrLeaves DEF Abstract!Next
  <2> QED
    BY <2>3, <2>4, <2>5
<1>2. CASE UNCHANGED vars
  BY <1>2 DEF vars, vfpVars, Abstract!vars, Inside
<1> QED
  BY <1>1, <1>2

\* Whatever the program, the processor, the unit and the memory keep the stack of its
\* account: PUSH, FSTMDB and STR push, POP, FLDMIA and LDR pop.
THEOREM StackImplemented == Spec => ImplementsStack
<1>1. Init => Abstract!Init /\ Inside
  BY StackInit
<1>2. MInv /\ Inside /\ MInv' /\ [Next]_vars => [Abstract!Next]_(Abstract!vars) /\ Inside'
  BY StackStep
<1> QED
  BY <1>1, <1>2, MachineInvariant, PTL DEF Spec, ImplementsStack, Abstract!Spec
=============================================================================
