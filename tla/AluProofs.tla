------------------------------ MODULE AluProofs ------------------------------
(***************************************************************************)
(* Proofs about Alu.tla, for words of every width: the type of the flags   *)
(* and results, which conditions decide an order after a subtraction, that *)
(* the shifter moves every bit to its place, what a long product is, and   *)
(* how sums and differences of double words are chained.                   *)
(***************************************************************************)
EXTENDS Alu, Division, TLAPS

Operand == [value : Word, carry : Bit]

IInv == TypeOK /\ SignedOrder /\ UnsignedOrder

\* What the flags say of the operands of the last subtraction.
Told == Subtracted => /\ flags.z = 1 <=> last.x = last.y
                      /\ flags.n = flags.v <=> Signed(last.x) >= Signed(last.y)
                      /\ flags.c = 1 <=> Signed(last.x) >= Signed(last.y)
-----------------------------------------------------------------------------
(* Arithmetic *)

\* The top bit is a word, and twice the top bit bounds the words.
LEMMA HalfPositive == Half \in Nat \ {0} /\ Full \in Nat \ {0} /\ Full = 2 * Half
<1>1. Bits - 1 \in 0 .. Bits
  BY WidthAssumption
<1>2. Half \in Nat \ {0}
  BY <1>1, WeightAssumption DEF Half
<1> QED
  BY <1>2 DEF Full

\* The weight of every bit is positive.
LEMMA WeightPositive == ASSUME NEW k \in 0 .. Bits PROVE Weight[k] \in Nat \ {0}
BY WidthAssumption, WeightAssumption

\* The quotient and the remainder of a number between -F and F.
LEMMA NearQuotient ==
    ASSUME NEW F \in Nat \ {0}, NEW e \in -F .. F - 1
    PROVE  /\ e \div F = IF e < 0 THEN -1 ELSE 0
           /\ e % F = IF e < 0 THEN e + F ELSE e
<1>1. CASE e < 0
  BY <1>1
<1>2. CASE e >= 0
  BY <1>2
<1> QED
  BY <1>1, <1>2

\* Every remainder is a word.
LEMMA WrapWord == ASSUME NEW e \in Int PROVE Wrap(e) \in Word
BY HalfPositive DEF Wrap, Word

\* Every remainder by the square of Full is a double word.
LEMMA WrapDouble == ASSUME NEW e \in Int PROVE e % (Full * Full) \in 0 .. (Full * Full) - 1
<1>1. Full * Full \in Nat \ {0}
  BY HalfPositive
<1> QED
  BY <1>1

\* A word shifted to the right is a word.
LEMMA QuotientWord ==
    ASSUME NEW x \in Word, NEW w \in Nat \ {0}
    PROVE  x \div w \in Word
<1>1. x \in Nat
  BY HalfPositive DEF Word
<1>2. x \div w \in Nat /\ x \div w <= x
  BY <1>1
<1> QED
  BY <1>1, <1>2, HalfPositive DEF Word

\* A bit is 0 or 1.
LEMMA BitOfBit ==
    ASSUME NEW x \in Word, NEW k \in 0 .. Bits
    PROVE  BitOf(x, k) \in Bit
<1>1. x \div Weight[k] \in Nat
  BY QuotientWord, WeightPositive, HalfPositive DEF Word
<1> QED
  BY <1>1 DEF BitOf, Bit

\* A word and its number.
LEMMA SignedRange ==
    ASSUME NEW x \in Word
    PROVE  /\ Signed(x) \in -Half .. Half - 1
           /\ Signed(x) < 0 <=> x >= Half
           /\ Signed(x) = IF x < Half THEN x ELSE x - 2 * Half
BY HalfPositive DEF Word, Signed
-----------------------------------------------------------------------------
(* The shifter *)

\* What the shifter hands to the instruction has its type.
LEMMA OperandTyped ==
    ASSUME NEW c \in Bit, NEW o \in Operands(c)
    PROVE  o \in Operand
<1>1. PICK kind \in Kinds, x \in Word, k \in 0 .. MaxShift :
          o = Operand2(kind, x, k, c)
  BY DEF Operands
<1>2. x \in Nat /\ k \in Nat /\ Signed(x) \in Int
  BY HalfPositive, SignedRange, WidthAssumption DEF Word
<1>3. 0 \in Word /\ Full - 1 \in Word
  BY HalfPositive DEF Word
<1>4. CASE k = 0
  BY <1>1, <1>4 DEF Operand2, Operand
<1>5. CASE k > 0 /\ kind = "LSL"
  <2>1. ShiftLeft(x, k) \in Operand
    <3>1. CASE k >= Bits
      BY <1>3, <3>1 DEF ShiftLeft, Operand, Flag, Bit
    <3>2. CASE ~ (k >= Bits)
      <4>1. k \in 0 .. Bits /\ Bits - k \in 0 .. Bits
        BY <1>2, <3>2, WidthAssumption
      <4>2. x * Weight[k] \in Int
        BY <1>2, <4>1, WeightPositive
      <4> QED
        BY <3>2, <4>1, <4>2, WrapWord, BitOfBit DEF ShiftLeft, Operand
    <3> QED
      BY <3>1, <3>2
  <2> QED
    BY <1>1, <1>5, <2>1 DEF Operand2
<1>6. CASE k > 0 /\ kind = "LSR"
  <2>1. ShiftRight(x, k) \in Operand
    <3>1. CASE k >= Bits
      BY <1>3, <3>1 DEF ShiftRight, Operand, Flag, Bit
    <3>2. CASE ~ (k >= Bits)
      <4>1. k \in 0 .. Bits /\ k - 1 \in 0 .. Bits
        BY <1>2, <1>6, <3>2, WidthAssumption
      <4> QED
        BY <3>2, <4>1, WeightPositive, QuotientWord, BitOfBit
           DEF ShiftRight, Operand
    <3> QED
      BY <3>1, <3>2
  <2> QED
    BY <1>1, <1>6, <2>1 DEF Operand2
<1>7. CASE k > 0 /\ kind = "ASR"
  <2>1. ShiftArithmetic(x, k) \in Operand
    <3>1. CASE k >= Bits
      BY <1>3, <3>1 DEF ShiftArithmetic, Operand, Flag, Bit
    <3>2. CASE ~ (k >= Bits)
      <4>1. k \in 0 .. Bits /\ k - 1 \in 0 .. Bits
        BY <1>2, <1>7, <3>2, WidthAssumption
      <4>2. Signed(x) \div Weight[k] \in Int
        BY <1>2, <4>1, WeightPositive
      <4> QED
        BY <3>2, <4>1, <4>2, WrapWord, BitOfBit DEF ShiftArithmetic, Operand
    <3> QED
      BY <3>1, <3>2
  <2> QED
    BY <1>1, <1>7, <2>1 DEF Operand2
<1>8. CASE k > 0 /\ kind = "ROR"
  <2> DEFINE t == Turns(k)
  <2>1. t \in 1 .. Bits
    BY <1>2, <1>8, WidthAssumption DEF Turns
  <2> HIDE DEF t
  <2>2. Rotate(x, t) \in Operand
    <3>1. CASE t = Bits
      BY <3>1 DEF Rotate, Operand, Flag, Bit
    <3>2. CASE t # Bits
      <4>1. t \in 0 .. Bits /\ t - 1 \in 0 .. Bits /\ Bits - t \in 0 .. Bits
        BY <2>1, WidthAssumption
      <4>2. /\ Signed(x) \div Weight[t] \in Int
            /\ x \div Weight[t] \in Int
            /\ x * Weight[Bits - t] \in Int
        BY <1>2, <4>1, WeightPositive
      <4>3. RotateRight(x, t) \in Word
        BY <4>2, WrapWord DEF RotateRight
      <4> QED
        BY <3>2, <4>1, <4>3, BitOfBit DEF Rotate, Operand
    <3> QED
      BY <3>1, <3>2
  <2> QED
    BY <1>1, <1>8, <2>2 DEF Operand2, t
<1> QED
  BY <1>2, <1>4, <1>5, <1>6, <1>7, <1>8 DEF Kinds
-----------------------------------------------------------------------------
(* Instructions *)

\* After a subtraction of y from x that keeps the flags n, z, c and v of the
\* difference, the conditions decide the order of x and y.
LEMMA DifferenceOrders ==
    ASSUME NEW x \in Word, NEW y \in Word, NEW res,
           res = Wrap(Signed(x) - Signed(y)),
           NEW n \in Bit, NEW v \in Bit,
           n = 1 <=> res >= Half,
           v = 1 <=> \/ Signed(x) >= 0 /\ Signed(y) < 0 /\ Signed(res) < 0
                     \/ Signed(x) < 0 /\ Signed(y) >= 0 /\ Signed(res) >= 0
    PROVE  /\ res = 0 <=> x = y
           /\ n = v <=> Signed(x) >= Signed(y)
<1> DEFINE d == Signed(x) - Signed(y)
<1>1. d \in -Full .. Full - 1
  BY SignedRange, HalfPositive
<1>2. res = IF d < 0 THEN d + Full ELSE d
  BY <1>1, NearQuotient, HalfPositive DEF Wrap
<1>3. res \in Word
  BY <1>1, <1>2, HalfPositive DEF Word
<1>4. /\ Signed(x) = IF x < Half THEN x ELSE x - 2 * Half
      /\ Signed(y) = IF y < Half THEN y ELSE y - 2 * Half
      /\ Signed(res) = IF res < Half THEN res ELSE res - 2 * Half
  BY <1>3, SignedRange
<1> QED
  BY <1>2, <1>3, <1>4, HalfPositive DEF Word, Bit

\* The carry flag of a difference is 1 unless the difference is negative.
LEMMA DifferenceCarry ==
    ASSUME NEW op \in Minus, NEW x \in Word, NEW y \in Word
    PROVE  LET d == Signed(x) - Signed(y)
           IN  Carry(op, d) = 1 <=> d >= 0
<1> DEFINE d == Signed(x) - Signed(y)
<1>1. d \in -Full .. Full - 1
  BY SignedRange, HalfPositive
<1>2. d \div Full = IF d < 0 THEN -1 ELSE 0
  BY <1>1, NearQuotient, HalfPositive
<1>3. op \notin Plus
  BY DEF Minus, Plus
<1> HIDE DEF d
<1> QED
  BY <1>1, <1>2, <1>3 DEF Carry, Flag, d

\* The order of two words with the same top bit is that of their numbers, and
\* the opposite if the top bits differ.
LEMMA TopBits ==
    ASSUME NEW x \in Word, NEW y \in Word
    PROVE  LET same == (x < Half) <=> (y < Half)
           IN  /\ (Signed(x) >= Signed(y) <=> x >= y) <=> same
               /\ (Signed(x) > Signed(y) <=> x > y) <=> same
BY HalfPositive, SignedRange DEF Word

\* The exact sum or difference is an integer.
LEMMA ExactInteger ==
    ASSUME NEW op \in Minus \cup Plus, NEW x \in Word, NEW y \in Word, NEW c \in Bit
    PROVE  Exact(op, x, y, c) \in Int
<1>1. Signed(x) \in Int /\ Signed(y) \in Int /\ c \in Int
  BY SignedRange, HalfPositive DEF Bit
<1> QED
  BY <1>1 DEF Exact, Minus, Plus

\* An instruction leaves typed flags and a typed record of itself.
LEMMA ProcessingTyped ==
    ASSUME TypeOK, NEW op \in Minus \cup Plus, NEW a \in Word,
           NEW o \in Operand, NEW s \in BOOLEAN,
           DataProcessing(op, a, o, s)
    PROVE  TypeOK'
<1> DEFINE x == IF op \in Reversed THEN o.value ELSE a
           y == IF op \in Reversed THEN a ELSE o.value
           c == IF s THEN o.carry ELSE flags.c
           exact == Exact(op, x, y, c)
           res == Wrap(exact)
           v == Overflow(op, x, y, res)
<1>1. x \in Word /\ y \in Word /\ c \in Bit
  BY DEF TypeOK, Flags, Operand
<1> HIDE DEF x, y, c
<1>2. exact \in Int
  BY <1>1, ExactInteger
<1> HIDE DEF exact
<1>3. res \in Word
  BY <1>2, WrapWord
<1> HIDE DEF res
<1>4. CASE s \/ op \in Compares
  <2>1. /\ flags' = [n |-> Flag(res >= Half), z |-> Flag(res = 0),
                     c |-> Carry(op, exact),
                     v |-> IF op = "ADC" /\ ~ v THEN flags.v ELSE Flag(v)]
        /\ last' = [op |-> op, x |-> x, y |-> y, carry |-> c, res |-> res]
    BY <1>4 DEF DataProcessing, x, y, c, exact, res
  <2> HIDE DEF v
  <2>2. /\ Flag(res >= Half) \in Bit
        /\ Flag(res = 0) \in Bit
        /\ Flag(v) \in Bit
        /\ Carry(op, exact) \in Bit
    BY DEF Flag, Carry, Bit
  <2>3. flags.v \in Bit
    BY DEF TypeOK, Flags
  <2>4. flags' \in Flags
    BY <2>1, <2>2, <2>3 DEF Flags
  <2> QED
    BY <1>1, <1>3, <2>1, <2>4 DEF TypeOK
<1>5. CASE ~ (s \/ op \in Compares)
  <2>1. flags' = flags /\ last' = Nothing
    BY <1>5 DEF DataProcessing
  <2> QED
    BY <2>1, HalfPositive DEF TypeOK, Nothing, Word, Bit
<1> QED
  BY <1>4, <1>5

\* A subtraction leaves flags that tell the signed order of its operands, and whose
\* carry flag is the signed order too.
LEMMA ProcessingOrders ==
    ASSUME TypeOK, NEW op \in Minus \cup Plus, NEW a \in Word,
           NEW o \in Operand, NEW s \in BOOLEAN,
           DataProcessing(op, a, o, s), Subtracted'
    PROVE  /\ flags'.z = 1 <=> last'.x = last'.y
           /\ flags'.n = flags'.v <=> Signed(last'.x) >= Signed(last'.y)
           /\ flags'.c = 1 <=> Signed(last'.x) >= Signed(last'.y)
<1> DEFINE x == IF op \in Reversed THEN o.value ELSE a
           y == IF op \in Reversed THEN a ELSE o.value
           c == IF s THEN o.carry ELSE flags.c
           exact == Exact(op, x, y, c)
           res == Wrap(exact)
           v == Overflow(op, x, y, res)
<1>1. x \in Word /\ y \in Word
  BY DEF Operand
<1>2. s \/ op \in Compares
  BY DEF DataProcessing, Nothing, Subtracted
<1>3. /\ flags'.n = Flag(res >= Half) /\ flags'.z = Flag(res = 0)
      /\ flags'.c = Carry(op, exact)
      /\ flags'.v = IF op = "ADC" /\ ~ v THEN flags.v ELSE Flag(v)
      /\ last'.op = op /\ last'.x = x /\ last'.y = y
  BY <1>2 DEF DataProcessing
<1>4. op \in {"SUB", "RSB", "CMP"}
  BY <1>3 DEF Subtracted
<1> HIDE DEF x, y, c
<1>5. exact = Signed(x) - Signed(y)
  BY <1>4 DEF Exact
<1> HIDE DEF exact
<1>6. flags'.c = 1 <=> Signed(x) >= Signed(y)
  <2>1. Signed(x) \in Int /\ Signed(y) \in Int
    BY <1>1, SignedRange, HalfPositive
  <2> QED
    BY <1>1, <1>3, <1>4, <1>5, <2>1, DifferenceCarry DEF Minus
<1>7. res = Wrap(Signed(x) - Signed(y))
  BY <1>5
<1> HIDE DEF res
<1>8. v <=> \/ Signed(x) >= 0 /\ Signed(y) < 0 /\ Signed(res) < 0
            \/ Signed(x) < 0 /\ Signed(y) >= 0 /\ Signed(res) >= 0
  BY <1>4 DEF Overflow, Plus
<1> HIDE DEF v
<1>9. flags'.v = Flag(v)
  BY <1>3, <1>4
<1>10. /\ flags'.n \in Bit /\ flags'.v \in Bit
       /\ flags'.n = 1 <=> res >= Half
       /\ flags'.v = 1 <=> v
       /\ flags'.z = 1 <=> res = 0
  BY <1>3, <1>9 DEF Flag, Bit
<1>11. /\ res = 0 <=> x = y
       /\ flags'.n = flags'.v <=> Signed(x) >= Signed(y)
  BY <1>1, <1>7, <1>8, <1>10, DifferenceOrders
<1> QED
  BY <1>3, <1>6, <1>10, <1>11

\* The initial state.
LEMMA InitInvariant == Init => IInv
BY HalfPositive DEF Init, IInv, TypeOK, Flags, Bit, Nothing, Word,
                    SignedOrder, UnsignedOrder, Subtracted

\* The conditions after a step that told the order of x and y.
LEMMA OrderedConditions == TypeOK /\ Told => SignedOrder /\ UnsignedOrder
<1> SUFFICES ASSUME TypeOK, Told, Subtracted
             PROVE  SignedOrder /\ UnsignedOrder
  BY DEF SignedOrder, UnsignedOrder
<1> USE DEF Told
<1>1. last.x \in Word /\ last.y \in Word /\ flags \in Flags
  BY DEF TypeOK
<1>2. /\ flags.z \in Bit /\ flags.c \in Bit
  BY <1>1 DEF Flags
<1>3. /\ Signed(last.x) \in Int /\ Signed(last.y) \in Int
      /\ Signed(last.x) = Signed(last.y) <=> last.x = last.y
  BY <1>1, SignedRange, HalfPositive DEF Word
<1>4. SignedOrder
  BY <1>2, <1>3 DEF SignedOrder, Passes, Bit
<1>5. /\ Passes("CS") <=> Signed(last.x) >= Signed(last.y)
      /\ Passes("HI") <=> Signed(last.x) > Signed(last.y)
  BY <1>2, <1>3 DEF Passes, Bit
<1>6. UnsignedOrder
  BY <1>1, <1>5, TopBits DEF UnsignedOrder, SameTop
<1> QED
  BY <1>4, <1>6

\* Every instruction keeps the invariant.
LEMMA NextInvariant == IInv /\ [Next]_vars => IInv'
<1> SUFFICES ASSUME IInv, [Next]_vars
             PROVE  IInv'
  OBVIOUS
<1>1. TypeOK
  BY DEF IInv
<1>2. ASSUME NEW test \in BOOLEAN, NEW v \in Word, NEW o \in Operands(flags.c),
             NEW s \in BOOLEAN, LogicalProcessing(test, v, o, s)
      PROVE  IInv'
  <2>1. o.carry \in Bit /\ flags \in Flags
    BY <1>1, OperandTyped DEF Operand, TypeOK, Flags
  <2>2. Flag(v >= Half) \in Bit /\ Flag(v = 0) \in Bit
    BY DEF Flag, Bit
  <2>3. flags' \in Flags /\ last' = Nothing
    BY <1>2, <2>1, <2>2 DEF LogicalProcessing, Flags
  <2>4. TypeOK' /\ ~ Subtracted'
    BY <2>3, HalfPositive DEF TypeOK, Subtracted, Nothing, Word, Bit
  <2> QED
    BY <2>4 DEF IInv, SignedOrder, UnsignedOrder
<1>3. ASSUME NEW op \in Minus \cup Plus, NEW a \in Word,
             NEW o \in Operands(flags.c), NEW s \in BOOLEAN,
             DataProcessing(op, a, o, s)
      PROVE  IInv'
  <2>1. o \in Operand
    BY <1>1, OperandTyped DEF TypeOK, Flags
  <2>2. TypeOK'
    BY <1>1, <1>3, <2>1, ProcessingTyped
  <2>3. Told'
    BY <1>1, <1>3, <2>1, ProcessingOrders DEF Told
  <2>4. (SignedOrder /\ UnsignedOrder)'
    BY <2>2, <2>3, OrderedConditions, PTL
  <2> QED
    BY <2>2, <2>4 DEF IInv
<1>4. ASSUME NEW x \in Word, NEW y \in Word, NEW a \in Word, NEW s \in BOOLEAN,
             Multiply(x, y, a, s)
      PROVE  IInv'
  <2> DEFINE res == Wrap((x * y) + a)
  <2>1. Flag(res >= Half) \in Bit /\ Flag(res = 0) \in Bit /\ flags \in Flags
    BY <1>1 DEF Flag, Bit, TypeOK
  <2> HIDE DEF res
  <2>2. flags' = (IF s THEN [flags EXCEPT !.n = Flag(res >= Half), !.z = Flag(res = 0)]
                       ELSE flags)
        /\ last' = Nothing
    BY <1>4 DEF Multiply, res
  <2>3. flags' \in Flags
    BY <2>1, <2>2 DEF Flags
  <2>4. TypeOK' /\ ~ Subtracted'
    BY <2>2, <2>3, HalfPositive DEF TypeOK, Subtracted, Nothing, Word, Bit
  <2> QED
    BY <2>4 DEF IInv, SignedOrder, UnsignedOrder
<1>5. ASSUME NEW op \in Long, NEW x \in Word, NEW y \in Word,
             NEW sum \in Accumulated, NEW s \in BOOLEAN,
             MultiplyLong(op, x, y, sum, s)
      PROVE  IInv'
  <2> DEFINE res == ((x * y) + sum) % (Full * Full)
  <2>1. (x * y) + sum \in Int
    BY AccumulatedAssumption, HalfPositive DEF Word
  <2>2. res \in 0 .. (Full * Full) - 1
    BY <2>1, WrapDouble
  <2>3. Flag(res >= Half * Full) \in Bit /\ Flag(res = 0) \in Bit /\ flags \in Flags
    BY <1>1 DEF Flag, Bit, TypeOK
  <2> HIDE DEF res
  <2>4. \/ /\ flags' = [flags EXCEPT !.n = Flag(res >= Half * Full), !.z = Flag(res = 0)]
           /\ last' = [op |-> op, x |-> x, y |-> y, sum |-> sum, res |-> res]
        \/ flags' = flags /\ last' = Nothing
    BY <1>5 DEF MultiplyLong, res
  <2>5. flags' \in Flags
    BY <2>3, <2>4 DEF Flags
  <2>6. TypeOK'
    BY <2>2, <2>4, <2>5, HalfPositive DEF TypeOK, Nothing, Word, Bit
  <2>7. ~ Subtracted'
    BY <2>4 DEF Subtracted, Nothing, Long
  <2> QED
    BY <2>6, <2>7 DEF IInv, SignedOrder, UnsignedOrder
<1>6. CASE UNCHANGED vars
  BY <1>6 DEF vars, IInv, TypeOK, SignedOrder, UnsignedOrder, Subtracted,
              SameTop, Passes
<1> QED
  BY <1>2, <1>3, <1>4, <1>5, <1>6 DEF Next
-----------------------------------------------------------------------------
(* Bits *)

\* The weights of the bits of a word, as far as the proofs need them.
LEMMA Weights ==
    /\ Weight[0] = 1 /\ Full = Weight[Bits] /\ Half = Weight[Bits - 1]
    /\ \A i, j \in 0 .. Bits :
           i <= j => /\ j - i \in 0 .. Bits
                     /\ Weight[i] \in Nat \ {0} /\ Weight[j - i] \in Nat \ {0}
                     /\ Weight[j] = Weight[i] * Weight[j - i]
    /\ \A i, j \in 0 .. Bits :
           i < j => /\ j - i - 1 \in 0 .. Bits
                    /\ Weight[i] \in Nat \ {0} /\ Weight[j - i - 1] \in Nat \ {0}
                    /\ Weight[j] = Weight[i] * (2 * Weight[j - i - 1])
<1>1. Weight[0] = 1 /\ Weight[1] = 2 /\ 1 \in 0 .. Bits /\ Bits - 1 \in 0 .. Bits
  BY WidthAssumption, WeightAssumption
<1>2. \A k \in 0 .. Bits : Weight[k] \in Nat \ {0}
  BY WeightPositive
<1>3. \A i, j \in 0 .. Bits : i + j <= Bits => Weight[i + j] = Weight[i] * Weight[j]
  BY WeightAssumption
<1>4. Full = Weight[Bits] /\ Half = Weight[Bits - 1]
  <2>1. Weight[1 + (Bits - 1)] = Weight[1] * Weight[Bits - 1] /\ 1 + (Bits - 1) = Bits
    BY <1>1, <1>3, WidthAssumption
  <2> QED
    BY <1>1, <2>1 DEF Full, Half
<1>5. ASSUME NEW i \in 0 .. Bits, NEW j \in 0 .. Bits, i <= j
      PROVE  /\ j - i \in 0 .. Bits
             /\ Weight[i] \in Nat \ {0} /\ Weight[j - i] \in Nat \ {0}
             /\ Weight[j] = Weight[i] * Weight[j - i]
  <2>1. j - i \in 0 .. Bits /\ i + (j - i) = j /\ j <= Bits
    BY <1>5, WidthAssumption
  <2> QED
    BY <1>2, <1>3, <2>1
<1>6. ASSUME NEW i \in 0 .. Bits, NEW j \in 0 .. Bits, i < j
      PROVE  /\ j - i - 1 \in 0 .. Bits
             /\ Weight[i] \in Nat \ {0} /\ Weight[j - i - 1] \in Nat \ {0}
             /\ Weight[j] = Weight[i] * (2 * Weight[j - i - 1])
  <2>1. j - i \in 0 .. Bits /\ j - i - 1 \in 0 .. Bits /\ 1 + (j - i - 1) = j - i
    BY <1>6, WidthAssumption
  <2>2. Weight[j - i] = Weight[1] * Weight[j - i - 1]
    BY <1>1, <1>3, <2>1
  <2> QED
    BY <1>1, <1>2, <1>5, <1>6, <2>1, <2>2
<1> QED
  BY <1>1, <1>4, <1>5, <1>6

\* What is added above a bit does not change it.
LEMMA LowerBits ==
    ASSUME NEW j \in 0 .. Bits, NEW k \in 0 .. Bits, j < k, NEW lo \in Nat, NEW hi \in Int
    PROVE  BitOf(lo + (Weight[k] * hi), j) = BitOf(lo, j)
<1> DEFINE w == Weight[j]
           d == Weight[k - j - 1]
<1>1. w \in Nat \ {0} /\ d \in Nat \ {0} /\ Weight[k] = w * (2 * d)
  BY Weights
<1> HIDE DEF w, d
<1>2. Weight[k] * hi = w * (2 * (d * hi)) /\ 2 * (d * hi) \in Int /\ d * hi \in Int
  BY <1>1
<1>3. (lo + (w * (2 * (d * hi)))) \div w = (lo \div w) + (2 * (d * hi))
  BY <1>1, <1>2, AddedMultiple
<1>4. ((lo \div w) + (2 * (d * hi))) % 2 = (lo \div w) % 2
  <2>1. lo \div w \in Int
    BY <1>1
  <2> QED
    BY <1>2, <2>1, AddedMultiple
<1> QED
  BY <1>2, <1>3, <1>4 DEF BitOf, w

\* The bits of what is put above lower ones.
LEMMA UpperBits ==
    ASSUME NEW j \in 0 .. Bits, NEW k \in 0 .. Bits, k <= j,
           NEW lo \in 0 .. Weight[k] - 1, NEW hi \in Nat
    PROVE  BitOf(lo + (Weight[k] * hi), j) = BitOf(hi, j - k)
<1> DEFINE w == Weight[k]
           d == Weight[j - k]
           x == lo + (w * hi)
<1>1. w \in Nat \ {0} /\ d \in Nat \ {0} /\ Weight[j] = w * d
  BY Weights
<1>2. lo \in 0 .. w - 1
  OBVIOUS
<1> HIDE DEF w, d
<1>3. x \in Nat /\ x \div w = hi
  <2>1. w * hi \in Nat /\ lo \in Nat /\ hi \in Int
    BY <1>1, <1>2
  <2>2. (lo + (w * hi)) \div w = hi
    BY <1>1, <1>2, <2>1, Unique
  <2> QED
    BY <2>1, <2>2
<1> HIDE DEF x
<1>4. (x \div w) \div d = x \div (w * d)
  BY <1>1, <1>3, Twice
<1> QED
  BY <1>1, <1>3, <1>4 DEF BitOf, w, d, x

\* Zero has no bits, and no number has bits above it.
LEMMA ZeroBits == \A j \in 0 .. Bits : BitOf(0, j) = 0
BY WeightPositive DEF BitOf

LEMMA NoBits ==
    ASSUME NEW j \in 0 .. Bits, NEW k \in 0 .. Bits, k <= j, NEW lo \in 0 .. Weight[k] - 1
    PROVE  BitOf(lo, j) = 0
<1>1. Weight[k] \in Nat \ {0} /\ j - k \in 0 .. Bits
  BY Weights
<1>2. BitOf(0, j - k) = 0
  BY <1>1, ZeroBits
<1>3. lo + (Weight[k] * 0) = lo
  BY <1>1
<1>4. BitOf(lo + (Weight[k] * 0), j) = BitOf(0, j - k)
  BY UpperBits
<1> QED
  BY <1>2, <1>3, <1>4

\* One less than the weight of a bit has all bits below it.
LEMMA AllOnes ==
    ASSUME NEW j \in 0 .. Bits, NEW k \in 0 .. Bits, j < k
    PROVE  BitOf(Weight[k] - 1, j) = 1
<1> DEFINE w == Weight[j]
           d == Weight[k - j - 1]
<1>1. w \in Nat \ {0} /\ d \in Nat \ {0} /\ Weight[k] = w * (2 * d)
  BY Weights
<1> HIDE DEF w, d
<1>2. Weight[k] - 1 = (w - 1) + (w * ((2 * d) - 1)) /\ w - 1 \in 0 .. w - 1
  BY <1>1
<1>3. ((w - 1) + (w * ((2 * d) - 1))) \div w = (2 * d) - 1
  <2> DEFINE e == (2 * d) - 1
  <2>1. e \in Int
    BY <1>1
  <2> HIDE DEF e
  <2>2. ((w - 1) + (w * e)) \div w = e
    BY <1>1, <1>2, <2>1, Unique
  <2> QED
    BY <2>2 DEF e
<1>4. ((2 * d) - 1) % 2 = 1
  BY <1>1
<1> QED
  BY <1>2, <1>3, <1>4 DEF BitOf, w

\* The top bit and the bottom bit.
LEMMA EndBits ==
    ASSUME NEW x \in Word
    PROVE  BitOf(x, Bits - 1) = Flag(x >= Half) /\ BitOf(x, 0) = Flag(x % 2 = 1)
<1>1. x \in Nat /\ x < 2 * Half /\ Half \in Nat \ {0}
  BY HalfPositive DEF Word
<1>2. x \div Half = IF x >= Half THEN 1 ELSE 0
  BY <1>1
<1>3. x \div 1 = x /\ x % 2 \in {0, 1}
  BY <1>1
<1> QED
  BY <1>2, <1>3, Weights DEF BitOf, Flag

\* A word in two parts, the upper one of Bits - k bits.
LEMMA Parts ==
    ASSUME NEW x \in Word, NEW k \in 0 .. Bits
    PROVE  /\ Weight[k] \in Nat \ {0} /\ Weight[Bits - k] \in Nat \ {0}
           /\ Bits - k \in 0 .. Bits
           /\ Full = Weight[k] * Weight[Bits - k]
           /\ x % Weight[k] \in 0 .. Weight[k] - 1
           /\ x \div Weight[k] \in 0 .. Weight[Bits - k] - 1
           /\ x = (x % Weight[k]) + (Weight[k] * (x \div Weight[k]))
<1> DEFINE w == Weight[k]
           d == Weight[Bits - k]
           q == x \div w
           r == x % w
<1>1. w \in Nat \ {0} /\ d \in Nat \ {0} /\ Full = w * d /\ Bits - k \in 0 .. Bits
  <2>1. k \in 0 .. Bits /\ Bits \in 0 .. Bits /\ k <= Bits
    BY WidthAssumption
  <2> QED
    BY <2>1, Weights, Zenon
<1>2. x \in Nat /\ x < Full
  BY HalfPositive DEF Word
<1> HIDE DEF w, d
<1>3. q \in Nat /\ r \in 0 .. w - 1 /\ x = r + (w * q)
  BY <1>1, <1>2
<1> HIDE DEF q, r
<1>4. q < d
  <2> SUFFICES ASSUME q >= d PROVE FALSE
    BY <1>1, <1>3
  <2>1. w * q >= w * d
    BY <1>1, <1>3
  <2> QED
    BY <1>1, <1>2, <1>3, <2>1
<1> QED
  BY <1>1, <1>3, <1>4 DEF w, d, q, r
-----------------------------------------------------------------------------
(* The shifter moves the bits *)

\* What ShiftsExact asks of one shift.
Exactly(kind, x, k, o, c) ==
    /\ kind # "ROR" \/ x < Half =>
           \A i \in 0 .. Bits - 1 : BitOf(o.value, i) = Placed(kind, x, k, i)
    /\ o.carry = IF k = 0 THEN c ELSE FallenOff(kind, x, k)

\* Every bit goes up by the amount, and zeros come in.
LEMMA LeftExact ==
    ASSUME NEW x \in Word, NEW k \in Nat \ {0}, NEW c \in Bit
    PROVE  Exactly("LSL", x, k, ShiftLeft(x, k), c)
<1>1. CASE k >= Bits
  <2>1. ASSUME NEW i \in 0 .. Bits - 1
        PROVE  BitOf(0, i) = Placed("LSL", x, k, i)
    <3>1. i \in 0 .. Bits /\ i - k \notin 0 .. Bits - 1
      BY <1>1, WidthAssumption
    <3>2. BitOf(0, i) = 0
      BY <3>1, ZeroBits
    <3> QED
      BY <3>1, <3>2 DEF Placed
  <2>2. Flag(k = Bits /\ x % 2 = 1) = FallenOff("LSL", x, k)
    <3>1. CASE k = Bits
      <4>1. Bits - k = 0
        BY <3>1, WidthAssumption
      <4> QED
        BY <3>1, <4>1, EndBits, WidthAssumption DEF FallenOff, Flag
    <3>2. CASE k # Bits
      BY <1>1, <3>2, WidthAssumption DEF FallenOff, Flag
    <3> QED
      BY <3>1, <3>2
  <2> QED
    BY <1>1, <2>1, <2>2 DEF Exactly, ShiftLeft
<1>2. CASE k < Bits
  <2> DEFINE n == Bits - k
             lo == x % Weight[n]
             hi == x \div Weight[n]
             v == Wrap(x * Weight[k])
  <2>1. k \in 0 .. Bits /\ n \in 0 .. Bits /\ Bits - n = k
    BY <1>2, WidthAssumption
  <2>2. /\ Weight[n] \in Nat \ {0} /\ Weight[k] \in Nat \ {0}
        /\ Full = Weight[n] * Weight[k]
        /\ lo \in 0 .. Weight[n] - 1 /\ hi \in Nat
        /\ x = lo + (Weight[n] * hi)
    BY <2>1, Parts
  <2> HIDE DEF lo, hi, n
  <2>3. v = Weight[k] * lo
    <3> DEFINE w == Weight[k]
               d == Weight[n]
    <3>1. w \in Nat \ {0} /\ d \in Nat \ {0} /\ lo \in 0 .. d - 1 /\ hi \in Nat
          /\ Full = d * w /\ x = lo + (d * hi)
      BY <2>2
    <3> HIDE DEF w, d
    <3>2. w * lo <= w * (d - 1)
      BY <3>1
    <3>3. w * (d - 1) = (d * w) - w /\ w * lo \in Nat
      BY <3>1
    <3>4. w * lo \in 0 .. Full - 1
      BY <3>1, <3>2, <3>3
    <3>5. x * w = (w * lo) + (Full * hi)
      BY <3>1
    <3>6. ((w * lo) + (Full * hi)) % Full = w * lo
      <4> DEFINE r == w * lo
      <4>1. r \in 0 .. Full - 1 /\ Full \in Nat \ {0} /\ hi \in Int
        BY <3>1, <3>4, HalfPositive
      <4> HIDE DEF r
      <4>2. (r + (Full * hi)) % Full = r
        BY <4>1, Unique
      <4> QED
        BY <4>2 DEF r
    <3> QED
      BY <3>5, <3>6 DEF Wrap, w
  <2> HIDE DEF v
  <2>4. ASSUME NEW i \in 0 .. Bits - 1
        PROVE  BitOf(v, i) = Placed("LSL", x, k, i)
    <3>1. i \in 0 .. Bits /\ 0 \in Nat /\ lo \in Nat /\ 0 \in 0 .. Weight[k] - 1
      BY <2>2, WidthAssumption
    <3>2. v = 0 + (Weight[k] * lo)
      BY <2>2, <2>3, <3>1
    <3>3. CASE i < k
      <4>1. BitOf(v, i) = BitOf(0, i) /\ BitOf(0, i) = 0
        BY <2>1, <3>1, <3>2, <3>3, LowerBits, ZeroBits
      <4> QED
        BY <3>1, <3>3, <4>1 DEF Placed
    <3>4. CASE i >= k
      <4>1. i - k \in 0 .. Bits - 1 /\ i - k \in 0 .. Bits /\ i - k < n
        BY <2>1, <3>1, <3>4, WidthAssumption DEF n
      <4>2. BitOf(v, i) = BitOf(lo, i - k)
        BY <2>1, <3>1, <3>2, <3>4, UpperBits
      <4>3. BitOf(x, i - k) = BitOf(lo, i - k)
        BY <2>1, <2>2, <3>1, <4>1, LowerBits
      <4> QED
        BY <4>1, <4>2, <4>3 DEF Placed
    <3> QED
      BY <3>1, <3>3, <3>4
  <2>5. BitOf(x, Bits - k) = FallenOff("LSL", x, k)
    BY <1>2, WidthAssumption DEF FallenOff
  <2>6. ShiftLeft(x, k) = [value |-> v, carry |-> BitOf(x, Bits - k)]
    BY <1>2, WidthAssumption DEF ShiftLeft, v
  <2> QED
    BY <2>4, <2>5, <2>6 DEF Exactly
<1> QED
  BY <1>1, <1>2, WidthAssumption

\* Every bit goes down by the amount, and zeros come in.
LEMMA RightExact ==
    ASSUME NEW x \in Word, NEW k \in Nat \ {0}, NEW c \in Bit
    PROVE  Exactly("LSR", x, k, ShiftRight(x, k), c)
<1>1. CASE k >= Bits
  <2>1. ASSUME NEW i \in 0 .. Bits - 1
        PROVE  BitOf(0, i) = Placed("LSR", x, k, i)
    <3>1. i \in 0 .. Bits /\ i + k \notin 0 .. Bits - 1
      BY <1>1, WidthAssumption
    <3>2. BitOf(0, i) = 0
      BY <3>1, ZeroBits
    <3> QED
      BY <3>1, <3>2 DEF Placed
  <2>2. Flag(k = Bits /\ x >= Half) = FallenOff("LSR", x, k)
    BY <1>1, EndBits, WidthAssumption DEF FallenOff, Flag
  <2> QED
    BY <1>1, <2>1, <2>2 DEF Exactly, ShiftRight
<1>2. CASE k < Bits
  <2> DEFINE lo == x % Weight[k]
             v == x \div Weight[k]
  <2>1. k \in 0 .. Bits /\ Bits - k \in 0 .. Bits
    BY <1>2, WidthAssumption
  <2>2. /\ lo \in 0 .. Weight[k] - 1 /\ v \in 0 .. Weight[Bits - k] - 1
        /\ v \in Nat /\ x = lo + (Weight[k] * v)
    BY <2>1, Parts
  <2>3. ShiftRight(x, k) = [value |-> v, carry |-> BitOf(x, k - 1)]
    BY <1>2, WidthAssumption DEF ShiftRight
  <2> HIDE DEF lo, v
  <2>4. ASSUME NEW i \in 0 .. Bits - 1
        PROVE  BitOf(v, i) = Placed("LSR", x, k, i)
    <3>1. i \in 0 .. Bits
      BY WidthAssumption
    <3>2. CASE i + k < Bits
      <4>1. i + k \in 0 .. Bits /\ i + k \in 0 .. Bits - 1 /\ k <= i + k /\ (i + k) - k = i
        BY <2>1, <3>2, WidthAssumption
      <4>2. BitOf(x, i + k) = BitOf(v, i)
        BY <2>1, <2>2, <4>1, UpperBits
      <4> QED
        BY <4>1, <4>2 DEF Placed
    <3>3. CASE i + k >= Bits
      <4>1. Bits - k <= i /\ i + k \notin 0 .. Bits - 1
        BY <2>1, <3>3, WidthAssumption
      <4>2. BitOf(v, i) = 0
        BY <2>1, <2>2, <3>1, <4>1, NoBits
      <4> QED
        BY <4>1, <4>2 DEF Placed
    <3> QED
      BY <2>1, <3>2, <3>3, WidthAssumption
  <2>5. BitOf(x, k - 1) = FallenOff("LSR", x, k)
    BY <1>2, WidthAssumption DEF FallenOff
  <2> QED
    BY <2>3, <2>4, <2>5 DEF Exactly
<1> QED
  BY <1>1, <1>2, WidthAssumption


\* Every bit goes down by the amount, and copies of the sign come in.
LEMMA ArithmeticExact ==
    ASSUME NEW x \in Word, NEW k \in Nat \ {0}, NEW c \in Bit
    PROVE  Exactly("ASR", x, k, ShiftArithmetic(x, k), c)
<1> DEFINE top == Flag(x >= Half)
<1>1. BitOf(x, Bits - 1) = top
  BY EndBits
<1>2. CASE k >= Bits
  <2> DEFINE v == IF x >= Half THEN Full - 1 ELSE 0
  <2>1. ASSUME NEW i \in 0 .. Bits - 1
        PROVE  BitOf(v, i) = Placed("ASR", x, k, i)
    <3>1. i \in 0 .. Bits /\ Bits \in 0 .. Bits /\ i < Bits /\ ~ (i + k < Bits)
      BY <1>2, WidthAssumption
    <3>2. Placed("ASR", x, k, i) = top
      BY <1>1, <3>1 DEF Placed
    <3>3. BitOf(Full - 1, i) = 1 /\ BitOf(0, i) = 0
      BY <3>1, AllOnes, ZeroBits, Weights
    <3> QED
      BY <3>2, <3>3 DEF Flag
  <2>2. top = FallenOff("ASR", x, k)
    BY <1>1, <1>2, WidthAssumption DEF FallenOff
  <2> QED
    BY <1>2, <2>1, <2>2 DEF Exactly, ShiftArithmetic
<1>3. CASE k < Bits
  <2> DEFINE n == Bits - k
             lo == x % Weight[k]
             q == x \div Weight[k]
             v == Wrap(Signed(x) \div Weight[k])
  <2>1. k \in 0 .. Bits /\ n \in 0 .. Bits
    BY <1>3, WidthAssumption
  <2>2. /\ Weight[k] \in Nat \ {0} /\ Weight[n] \in Nat \ {0}
        /\ Full = Weight[k] * Weight[n]
        /\ lo \in 0 .. Weight[k] - 1 /\ q \in 0 .. Weight[n] - 1 /\ q \in Nat
        /\ x = lo + (Weight[k] * q)
    BY <2>1, Parts
  <2>3. ShiftArithmetic(x, k) = [value |-> v, carry |-> BitOf(x, k - 1)]
    BY <1>3, WidthAssumption DEF ShiftArithmetic
  <2> HIDE DEF lo
  <2>4. v = q + (Weight[n] * (IF x >= Half THEN Weight[k] - 1 ELSE 0))
    <3> DEFINE w == Weight[k]
               d == Weight[n]
    <3>1. w \in Nat \ {0} /\ d \in Nat \ {0} /\ Full = w * d /\ q \in 0 .. d - 1
          /\ q \in Nat /\ x \in Nat /\ q = x \div w
      BY <2>2, HalfPositive DEF Word
    <3> HIDE DEF w, d, q
    <3>2. d <= w * d
      BY <3>1
    <3>3. CASE x < Half
      <4>1. Signed(x) = x /\ q \in 0 .. Full - 1
        BY <3>1, <3>2, <3>3 DEF Signed
      <4>2. Wrap(q) = q
        BY <4>1, HalfPositive DEF Wrap
      <4>3. q + (d * 0) = q /\ ~ (x >= Half)
        BY <3>1, <3>3, HalfPositive
      <4> QED
        BY <3>1, <4>1, <4>2, <4>3 DEF w, d
    <3>4. CASE x >= Half
      <4>1. Signed(x) = x + (w * (- d)) /\ - d \in Int
        BY <3>1, <3>4, HalfPositive DEF Signed
      <4>2. (x + (w * (- d))) \div w = q + (- d)
        BY <3>1, <4>1, AddedMultiple
      <4>3. q + (- d) \in - Full .. Full - 1 /\ q + (- d) < 0
        BY <3>1, <3>2
      <4>4. Wrap(q + (- d)) = (q + (- d)) + Full
        BY <4>3, HalfPositive, NearQuotient DEF Wrap
      <4>5. (q + (- d)) + Full = q + (d * (w - 1))
        BY <3>1
      <4> QED
        BY <3>4, <4>1, <4>2, <4>4, <4>5 DEF w, d
    <3> QED
      BY <3>1, <3>3, <3>4, HalfPositive
  <2> HIDE DEF v, q, n
  <2>5. ASSUME NEW i \in 0 .. Bits - 1
        PROVE  BitOf(v, i) = Placed("ASR", x, k, i)
    <3>1. i \in 0 .. Bits
      BY WidthAssumption
    <3> DEFINE hi == IF x >= Half THEN Weight[k] - 1 ELSE 0
    <3>2. hi \in Nat /\ v = q + (Weight[n] * hi)
      BY <2>2, <2>4
    <3>3. hi \in {0, Weight[k] - 1} /\ (hi = 0 \/ x >= Half)
      OBVIOUS
    <3>4. CASE i + k < Bits
      <4>1. /\ i + k \in 0 .. Bits /\ k <= i + k /\ (i + k) - k = i /\ i < n
        BY <2>1, <3>4, WidthAssumption DEF n
      <4>2. BitOf(x, i + k) = BitOf(q, i)
        BY <2>1, <2>2, <4>1, UpperBits
      <4>3. BitOf(v, i) = BitOf(q, i)
        <5>1. hi \in Int
          BY <3>2
        <5> HIDE DEF hi
        <5> QED
          BY <2>1, <2>2, <3>1, <3>2, <4>1, <5>1, LowerBits
      <4> QED
        BY <3>4, <4>2, <4>3 DEF Placed
    <3>5. CASE i + k >= Bits
      <4>1. n <= i /\ i - n \in 0 .. Bits /\ i - n < k /\ ~ (i + k < Bits)
        BY <2>1, <3>1, <3>5, WidthAssumption DEF n
      <4>2. BitOf(v, i) = BitOf(hi, i - n)
        <5> HIDE DEF hi
        <5> QED
          BY <2>1, <2>2, <3>1, <3>2, <4>1, UpperBits
      <4>3. BitOf(Weight[k] - 1, i - n) = 1 /\ BitOf(0, i - n) = 0
        BY <2>1, <4>1, AllOnes, ZeroBits
      <4>4. BitOf(v, i) = top
        BY <4>2, <4>3 DEF Flag
      <4> QED
        BY <1>1, <4>1, <4>4 DEF Placed
    <3> QED
      BY <2>1, <3>1, <3>4, <3>5, WidthAssumption
  <2>6. BitOf(x, k - 1) = FallenOff("ASR", x, k)
    BY <1>3, WidthAssumption DEF FallenOff
  <2> QED
    BY <2>3, <2>5, <2>6 DEF Exactly
<1> QED
  BY <1>2, <1>3, WidthAssumption

\* The amount of a rotation and what it is reduced to move the bits alike.
LEMMA TurnsAlike ==
    ASSUME NEW k \in Nat \ {0}
    PROVE  LET t == Turns(k)
           IN  /\ t \in 1 .. Bits /\ (k - 1) % Bits = t - 1
               /\ \A i \in 0 .. Bits - 1 :
                      (i + k) % Bits = IF i + t < Bits THEN i + t ELSE i + t - Bits
<1> DEFINE q == (k - 1) \div Bits
           t == Turns(k)
<1>1. Bits \in Nat \ {0} /\ k - 1 \in Nat
  BY WidthAssumption
<1>2. q \in Int /\ (k - 1) % Bits \in 0 .. Bits - 1 /\ k - 1 = ((k - 1) % Bits) + (Bits * q)
  <2> DEFINE j == k - 1
  <2>1. j \in Int
    BY <1>1
  <2> HIDE DEF j
  <2>2. j \div Bits \in Int /\ j % Bits \in 0 .. Bits - 1 /\ j = (j % Bits) + (Bits * (j \div Bits))
    BY <1>1, <2>1, Split
  <2> QED
    BY <2>2 DEF j
<1>3. t \in 1 .. Bits /\ (k - 1) % Bits = t - 1
  BY <1>1, <1>2 DEF Turns
<1>4. k = t + (Bits * q)
  BY <1>1, <1>2, <1>3
<1> HIDE DEF t, q
<1>5. ASSUME NEW i \in 0 .. Bits - 1
      PROVE  (i + k) % Bits = IF i + t < Bits THEN i + t ELSE i + t - Bits
  <2>1. CASE i + t < Bits
    <3>1. i + t \in 0 .. Bits - 1 /\ i + k = (i + t) + (Bits * q)
      BY <1>1, <1>2, <1>3, <1>4, <2>1
    <3> QED
      BY <1>1, <1>2, <2>1, <3>1, Unique
  <2>2. CASE i + t >= Bits
    <3>1. /\ i + t - Bits \in 0 .. Bits - 1 /\ q + 1 \in Int
          /\ i + k = (i + t - Bits) + (Bits * (q + 1))
      BY <1>1, <1>2, <1>3, <1>4, <2>2
    <3>2. ((i + t - Bits) + (Bits * (q + 1))) % Bits = i + t - Bits
      BY <1>1, <3>1, Unique
    <3> QED
      BY <1>1, <1>3, <2>2, <3>1, <3>2
  <2> QED
    BY <1>1, <1>3, <2>1, <2>2
<1> QED
  BY <1>3, <1>5 DEF t

\* The bits of a positive word go around.
LEMMA RotateExact ==
    ASSUME NEW x \in Word, NEW k \in Nat \ {0}, NEW c \in Bit
    PROVE  Exactly("ROR", x, k, Rotate(x, Turns(k)), c)
<1> DEFINE t == Turns(k)
<1>1. /\ t \in 1 .. Bits /\ (k - 1) % Bits = t - 1
      /\ \A i \in 0 .. Bits - 1 :
             (i + k) % Bits = IF i + t < Bits THEN i + t ELSE i + t - Bits
  BY TurnsAlike
<1> HIDE DEF t
<1>2. FallenOff("ROR", x, k) = BitOf(x, t - 1)
  BY <1>1 DEF FallenOff
<1>3. CASE t = Bits
  <2>1. Rotate(x, t) = [value |-> x, carry |-> Flag(x >= Half)]
    BY <1>3 DEF Rotate
  <2>2. ASSUME NEW i \in 0 .. Bits - 1
        PROVE  BitOf(x, i) = Placed("ROR", x, k, i)
    <3>1. ~ (i + t < Bits) /\ i + t - Bits = i
      BY <1>3, WidthAssumption
    <3> QED
      BY <1>1, <3>1 DEF Placed
  <2>3. Flag(x >= Half) = FallenOff("ROR", x, k)
    BY <1>2, <1>3, EndBits
  <2> QED
    BY <2>1, <2>2, <2>3 DEF Exactly, t
<1>4. CASE t # Bits
  <2> DEFINE n == Bits - t
             lo == x % Weight[t]
             hi == x \div Weight[t]
             v == RotateRight(x, t)
  <2>1. t \in 0 .. Bits /\ n \in 0 .. Bits
    BY <1>1, WidthAssumption
  <2>2. /\ Weight[t] \in Nat \ {0} /\ Weight[n] \in Nat \ {0}
        /\ Full = Weight[t] * Weight[n]
        /\ lo \in 0 .. Weight[t] - 1 /\ hi \in 0 .. Weight[n] - 1
        /\ lo \in Nat /\ hi \in Nat
        /\ x = lo + (Weight[t] * hi)
    BY <2>1, Parts
  <2>3. Rotate(x, t) = [value |-> v, carry |-> BitOf(x, t - 1)]
    BY <1>4 DEF Rotate
  <2>4. ASSUME x < Half
        PROVE  v = hi + (Weight[n] * lo)
    <3> DEFINE w == Weight[t]
               d == Weight[n]
    <3>1. w \in Nat \ {0} /\ d \in Nat \ {0} /\ Full = w * d /\ lo \in 0 .. w - 1
          /\ hi \in 0 .. d - 1 /\ x = lo + (w * hi) /\ lo \in Int /\ hi \in Int
      BY <2>2
    <3>2. v = Wrap(hi + (x * d))
      BY <2>4 DEF RotateRight
    <3> HIDE DEF w, d, lo, hi, v
    <3>3. hi + (x * d) = (hi + (d * lo)) + (Full * hi)
      BY <3>1
    <3>4. d * lo <= d * (w - 1) /\ d * (w - 1) = (w * d) - d /\ d * lo \in Nat
      BY <3>1
    <3>5. hi + (d * lo) \in 0 .. Full - 1
      BY <3>1, <3>4
    <3>6. Wrap(hi + (x * d)) = hi + (d * lo)
      <4> DEFINE r == hi + (d * lo)
      <4>1. r \in 0 .. Full - 1 /\ Full \in Nat \ {0} /\ hi \in Int
        BY <3>1, <3>5, HalfPositive
      <4> HIDE DEF r
      <4>2. (r + (Full * hi)) % Full = r
        BY <4>1, Unique
      <4> QED
        BY <3>3, <4>2 DEF Wrap, r
    <3> QED
      BY <3>2, <3>6 DEF d
  <2> HIDE DEF n, lo, hi, v
  <2>5. ASSUME x < Half, NEW i \in 0 .. Bits - 1
        PROVE  BitOf(v, i) = Placed("ROR", x, k, i)
    <3>1. i \in 0 .. Bits
      BY WidthAssumption
    <3>2. CASE i + t < Bits
      <4>1. i + t \in 0 .. Bits /\ t <= i + t /\ (i + t) - t = i /\ i < n
        BY <2>1, <3>2, WidthAssumption DEF n
      <4>2. BitOf(x, i + t) = BitOf(hi, i)
        BY <2>1, <2>2, <4>1, UpperBits
      <4>3. BitOf(v, i) = BitOf(hi, i)
        BY <2>1, <2>2, <2>4, <2>5, <3>1, <4>1, LowerBits
      <4> QED
        BY <1>1, <3>2, <4>2, <4>3 DEF Placed
    <3>3. CASE i + t >= Bits
      <4>1. n <= i /\ i - n \in 0 .. Bits /\ i - n = i + t - Bits /\ i - n < t
            /\ ~ (i + t < Bits)
        BY <2>1, <3>1, <3>3, WidthAssumption DEF n
      <4>2. BitOf(v, i) = BitOf(lo, i - n)
        BY <2>1, <2>2, <2>4, <2>5, <3>1, <4>1, UpperBits
      <4>3. BitOf(x, i - n) = BitOf(lo, i - n)
        BY <2>1, <2>2, <4>1, LowerBits
      <4> QED
        BY <1>1, <4>1, <4>2, <4>3 DEF Placed
    <3> QED
      BY <2>1, <3>1, <3>2, <3>3, WidthAssumption
  <2> QED
    BY <1>2, <2>3, <2>5 DEF Exactly, t
<1> QED
  BY <1>3, <1>4

\* So does every operand of the shifter.
LEMMA TypedShifts == TypeOK => ShiftsExact
<1> SUFFICES ASSUME TypeOK, NEW kind \in Kinds, NEW x \in Word, NEW k \in 0 .. MaxShift
             PROVE  Exactly(kind, x, k, Operand2(kind, x, k, flags.c), flags.c)
  BY DEF ShiftsExact, Exactly
<1>1. flags.c \in Bit /\ k \in Nat
  BY WidthAssumption DEF TypeOK, Flags
<1>2. CASE k = 0
  <2>1. Operand2(kind, x, k, flags.c) = [value |-> x, carry |-> flags.c]
    BY <1>2 DEF Operand2
  <2>2. ASSUME NEW i \in 0 .. Bits - 1
        PROVE  BitOf(x, i) = Placed(kind, x, k, i)
    <3>1. i - k = i /\ i + k = i /\ i % Bits = i /\ i + k < Bits
      BY <1>2, WidthAssumption
    <3> QED
      BY <3>1 DEF Placed, Kinds
  <2> QED
    BY <1>2, <2>1, <2>2 DEF Exactly
<1>3. CASE k # 0
  <2>1. k \in Nat \ {0} /\ k > 0 /\ ~ (k = 0)
    BY <1>1, <1>3
  <2>2. CASE kind = "LSL"
    BY <1>1, <2>1, <2>2, LeftExact DEF Operand2
  <2>3. CASE kind = "LSR"
    BY <1>1, <2>1, <2>3, RightExact DEF Operand2
  <2>4. CASE kind = "ASR"
    BY <1>1, <2>1, <2>4, ArithmeticExact DEF Operand2
  <2>5. CASE kind = "ROR"
    BY <1>1, <2>1, <2>5, RotateExact DEF Operand2
  <2> QED
    BY <2>2, <2>3, <2>4, <2>5 DEF Kinds
<1> QED
  BY <1>2, <1>3
-----------------------------------------------------------------------------
(* Long products *)

\* A multiple of F added to a number modulo F * F is not seen below F, and is seen
\* above unless it is one of F * F.
LEMMA AddedAbove ==
    ASSUME NEW F \in Nat \ {0}, NEW p \in Int, NEW d \in Int
    PROVE  /\ ((p + (F * d)) % (F * F)) % F = (p % (F * F)) % F
           /\ (p + (F * d)) % (F * F) = p % (F * F) <=> \E k \in Int : d = F * k
<1> DEFINE D == F * F
           e == p + (F * d)
<1>1. D \in Nat \ {0} /\ e \in Int /\ F * d \in Int
  OBVIOUS
<1>2. e % F = p % F
  BY AddedMultiple
<1>3. (e % (F * F)) % F = e % F /\ (p % (F * F)) % F = p % F
  <2> HIDE DEF e
  <2> QED
    BY <1>1, Nested
<1>4. ASSUME e % D = p % D
      PROVE  \E k \in Int : d = F * k
  <2>1. PICK k \in Int : e = p + (D * k)
    <3> HIDE DEF D, e
    <3> QED
      BY <1>1, <1>4, SameRemainder
  <2>2. F * d = F * (F * k) /\ F * k \in Int
    <3>1. D * k = F * (F * k)
      OBVIOUS
    <3> HIDE DEF D
    <3> QED
      BY <2>1, <3>1, <1>1
  <2>3. d = F * k
    BY <2>2
  <2> QED
    BY <2>3
<1>5. ASSUME NEW k \in Int, d = F * k
      PROVE  e % D = p % D
  <2>1. e = p + (D * k)
    BY <1>5
  <2> HIDE DEF D, e
  <2> QED
    BY <1>1, <2>1, AddedMultiple
<1> QED
  BY <1>2, <1>3, <1>4, <1>5

\* Zero is the only multiple close to zero.
LEMMA SmallMultiple ==
    ASSUME NEW F \in Nat \ {0}, NEW d \in Int, - F < d, d <= 0
    PROVE  (\E k \in Int : d = F * k) <=> d = 0
<1>1. ASSUME NEW k \in Int, d = F * k
      PROVE  d = 0
  <2>1. CASE k >= 1
    <3>1. F * k >= F
      BY <2>1
    <3> QED
      BY <1>1, <3>1
  <2>2. CASE k <= -1
    <3>1. F * (- k) >= F /\ F * (- k) = - (F * k)
      BY <2>2
    <3> QED
      BY <1>1, <3>1
  <2>3. CASE k = 0
    BY <1>1, <2>3
  <2> QED
    BY <2>1, <2>2, <2>3
<1>2. d = 0 => d = F * 0
  OBVIOUS
<1> QED
  BY <1>1, <1>2

\* The signed product differs from the unsigned one by the operands whose numbers
\* lose Full, and the difference is seen in the upper half only.
LEMMA SignedProduct ==
    ASSUME NEW x \in Word, NEW y \in Word, NEW sum \in Nat
    PROVE  LET p == (x * y) + sum
               e == (Signed(x) * Signed(y)) + sum
           IN  /\ (p % (Full * Full)) % Full = (e % (Full * Full)) % Full
               /\ p % (Full * Full) = e % (Full * Full) <=>
                      \/ 0 \in {Signed(x), Signed(y)} \/ (Signed(x) >= 0 /\ Signed(y) >= 0)
                      \/ Signed(x) < 0 /\ Signed(y) < 0 /\ x + y = Full
<1> DEFINE p == (x * y) + sum
           e == (Signed(x) * Signed(y)) + sum
           d == CASE x < Half /\ y < Half -> 0
                  [] x >= Half /\ y < Half -> - y
                  [] x < Half /\ y >= Half -> - x
                  [] OTHER -> Full - (x + y)
           right == \/ 0 \in {Signed(x), Signed(y)} \/ (Signed(x) >= 0 /\ Signed(y) >= 0)
                    \/ Signed(x) < 0 /\ Signed(y) < 0 /\ x + y = Full
<1>1. /\ Full \in Nat \ {0} /\ Half \in Nat \ {0} /\ Full = 2 * Half
      /\ x \in 0 .. Full - 1 /\ y \in 0 .. Full - 1 /\ x \in Nat /\ y \in Nat
      /\ Signed(x) = (IF x < Half THEN x ELSE x - Full)
      /\ Signed(y) = (IF y < Half THEN y ELSE y - Full)
  BY HalfPositive DEF Word, Signed
<1>2. p \in Int
  BY <1>1
<1>3. d \in Int /\ - Full < d /\ d <= 0 /\ (d = 0 <=> right)
  <2>1. CASE x < Half /\ y < Half
    BY <1>1, <2>1
  <2>2. CASE x >= Half /\ y < Half
    BY <1>1, <2>2
  <2>3. CASE x < Half /\ y >= Half
    BY <1>1, <2>3
  <2>4. CASE x >= Half /\ y >= Half
    BY <1>1, <2>4
  <2> QED
    BY <1>1, <2>1, <2>2, <2>3, <2>4
<1>4. e = p + (Full * d)
  <2>1. CASE x < Half /\ y < Half
    BY <1>1, <2>1
  <2>2. CASE x >= Half /\ y < Half
    BY <1>1, <2>2
  <2>3. CASE x < Half /\ y >= Half
    BY <1>1, <2>3
  <2>4. CASE x >= Half /\ y >= Half
    BY <1>1, <2>4
  <2> QED
    BY <1>1, <2>1, <2>2, <2>3, <2>4
<1> HIDE DEF p, e, d, right
<1>5. /\ ((p + (Full * d)) % (Full * Full)) % Full = (p % (Full * Full)) % Full
      /\ (p + (Full * d)) % (Full * Full) = p % (Full * Full) <=> \E k \in Int : d = Full * k
  <2>1. Full \in Nat \ {0} /\ p \in Int /\ d \in Int
    BY <1>1, <1>2, <1>3
  <2> QED
    BY <2>1, AddedAbove, ZenonT(30)
<1>6. (\E k \in Int : d = Full * k) <=> d = 0
  BY <1>1, <1>3, SmallMultiple
<1> QED
  BY <1>3, <1>4, <1>5, <1>6 DEF p, e, right
-----------------------------------------------------------------------------
(* What the flags keep of the last instruction *)

\* The result and the carry flag are those of the exact sum or difference, and a
\* long product is the product of unsigned numbers, with the flags of all of it.
Recorded ==
    /\ last.op \in Minus \cup Plus =>
           LET e == Exact(last.op, last.x, last.y, last.carry)
           IN  last.res = Wrap(e) /\ flags.c = Carry(last.op, e)
    /\ last.op \in Long =>
           /\ last.res = ((last.x * last.y) + last.sum) % (Full * Full)
           /\ flags.z = 1 <=> last.res = 0
           /\ flags.n = 1 <=> last.res >= Half * Full

\* A sum or a difference is recorded with its flags, or nothing is.
LEMMA ProcessingRecorded ==
    ASSUME NEW op \in Minus \cup Plus, NEW a \in Word,
           NEW o \in Operand, NEW s \in BOOLEAN, DataProcessing(op, a, o, s)
    PROVE  \/ last' = Nothing
           \/ LET e == Exact(last'.op, last'.x, last'.y, last'.carry)
                  v == Overflow(last'.op, last'.x, last'.y, last'.res)
              IN  /\ last'.op = op /\ last'.res = Wrap(e) /\ flags'.c = Carry(op, e)
                  /\ flags'.v = IF op = "ADC" /\ ~ v THEN flags.v ELSE Flag(v)
<1> DEFINE x == IF op \in Reversed THEN o.value ELSE a
           y == IF op \in Reversed THEN a ELSE o.value
           c == IF s THEN o.carry ELSE flags.c
           e == Exact(op, x, y, c)
           res == Wrap(e)
           v == Overflow(op, x, y, res)
<1>1. CASE s \/ op \in Compares
  <2>1. /\ flags' = [n |-> Flag(res >= Half), z |-> Flag(res = 0), c |-> Carry(op, e),
                     v |-> IF op = "ADC" /\ ~ v THEN flags.v ELSE Flag(v)]
        /\ last' = [op |-> op, x |-> x, y |-> y, carry |-> c, res |-> res]
    BY <1>1 DEF DataProcessing
  <2>2. /\ last'.op = op /\ last'.x = x /\ last'.y = y /\ last'.carry = c /\ last'.res = res
        /\ flags'.c = Carry(op, e)
        /\ flags'.v = IF op = "ADC" /\ ~ v THEN flags.v ELSE Flag(v)
    <3> HIDE DEF x, y, c, e, res, v
    <3> QED
      BY <2>1
  <2> QED
    BY <2>2
<1>2. CASE ~ (s \/ op \in Compares)
  BY <1>2 DEF DataProcessing
<1> QED
  BY <1>1, <1>2

\* So is a long product.
LEMMA ProductRecorded ==
    ASSUME flags \in Flags, NEW op \in Long, NEW x \in Word, NEW y \in Word,
           NEW sum \in Accumulated, NEW s \in BOOLEAN, MultiplyLong(op, x, y, sum, s)
    PROVE  \/ last' = Nothing
           \/ /\ last'.op = op
              /\ last'.res = ((last'.x * last'.y) + last'.sum) % (Full * Full)
              /\ flags'.z = 1 <=> last'.res = 0
              /\ flags'.n = 1 <=> last'.res >= Half * Full
<1> DEFINE res == ((x * y) + sum) % (Full * Full)
<1>1. CASE s
  <2>1. /\ flags' = [flags EXCEPT !.n = Flag(res >= Half * Full), !.z = Flag(res = 0)]
        /\ last' = [op |-> op, x |-> x, y |-> y, sum |-> sum, res |-> res]
    BY <1>1 DEF MultiplyLong
  <2>2. /\ last'.op = op /\ last'.x = x /\ last'.y = y /\ last'.sum = sum /\ last'.res = res
        /\ flags'.n = Flag(res >= Half * Full) /\ flags'.z = Flag(res = 0)
    <3> HIDE DEF res
    <3> QED
      BY <2>1 DEF Flags
  <2>3. last'.res = ((last'.x * last'.y) + last'.sum) % (Full * Full)
    BY <2>2
  <2> HIDE DEF res
  <2> QED
    BY <2>2, <2>3 DEF Flag
<1>2. CASE ~ s
  BY <1>2 DEF MultiplyLong
<1> QED
  BY <1>1, <1>2

\* Every step records what it does, or nothing.
LEMMA RecordedKept == TypeOK /\ Recorded /\ [Next]_vars => Recorded'
<1> SUFFICES ASSUME TypeOK, Recorded, [Next]_vars
             PROVE  Recorded'
  OBVIOUS
<1>1. flags.c \in Bit /\ flags \in Flags
  BY DEF TypeOK, Flags
<1>2. ASSUME last' = Nothing
      PROVE  Recorded'
  BY <1>2 DEF Recorded, Nothing, Minus, Plus, Long
<1>3. ASSUME NEW op \in Minus \cup Plus, NEW a \in Word,
             NEW o \in Operands(flags.c), NEW s \in BOOLEAN, DataProcessing(op, a, o, s)
      PROVE  Recorded'
  <2>1. o \in Operand
    BY <1>1, OperandTyped
  <2>2. \/ last' = Nothing
        \/ LET e == Exact(last'.op, last'.x, last'.y, last'.carry)
           IN  /\ last'.op = op /\ last'.res = Wrap(e) /\ flags'.c = Carry(op, e)
    BY <1>3, <2>1, ProcessingRecorded
  <2>3. op \notin Long
    BY DEF Minus, Plus, Long
  <2> QED
    BY <1>2, <2>2, <2>3 DEF Recorded
<1>4. ASSUME NEW op \in Long, NEW x \in Word, NEW y \in Word,
             NEW sum \in Accumulated, NEW s \in BOOLEAN, MultiplyLong(op, x, y, sum, s)
      PROVE  Recorded'
  <2>1. op \notin Minus \cup Plus
    BY DEF Minus, Plus, Long
  <2> QED
    BY <1>1, <1>2, <1>4, <2>1, ProductRecorded DEF Recorded
<1>5. ASSUME NEW test \in BOOLEAN, NEW v \in Word, NEW o \in Operands(flags.c),
             NEW s \in BOOLEAN, LogicalProcessing(test, v, o, s)
      PROVE  Recorded'
  BY <1>2, <1>5 DEF LogicalProcessing
<1>6. ASSUME NEW x \in Word, NEW y \in Word, NEW a \in Word, NEW s \in BOOLEAN,
             Multiply(x, y, a, s)
      PROVE  Recorded'
  BY <1>2, <1>6 DEF Multiply
<1>7. CASE UNCHANGED vars
  BY <1>7 DEF vars, Recorded
<1> QED
  BY <1>3, <1>4, <1>5, <1>6, <1>7 DEF Next

\* Every recorded product is what LongProducts says.
LEMMA RecordedProducts == TypeOK /\ Recorded => LongProducts
<1> SUFFICES ASSUME TypeOK, Recorded, last.op \in Long
             PROVE  LongProducts
  BY DEF LongProducts
<1>1. last \in [op : Long, x : Word, y : Word, sum : Accumulated, res : 0 .. (Full * Full) - 1]
  <2>1. last.op \notin Minus \cup Plus \cup {"none"}
    BY DEF Long, Minus, Plus
  <2> QED
    BY <2>1 DEF TypeOK
<1>2. last.x \in Word /\ last.y \in Word /\ last.sum \in Nat /\ flags \in Flags
  BY <1>1, AccumulatedAssumption DEF TypeOK
<1>3. /\ last.res = ((last.x * last.y) + last.sum) % (Full * Full)
      /\ flags.z = 1 <=> last.res = 0
      /\ flags.n = 1 <=> last.res >= Half * Full
  BY DEF Recorded
<1>4. (Passes("EQ") <=> last.res = 0) /\ (Passes("MI") <=> last.res >= Half * Full)
  BY <1>3 DEF Passes
<1>5. \A x \in Word : Signed(x) \in Int /\ x >= 0
  BY SignedRange, HalfPositive DEF Word
<1> DEFINE signed == last.op = "SMULL"
           x == IF signed THEN Signed(last.x) ELSE last.x
           y == IF signed THEN Signed(last.y) ELSE last.y
           exact == ((x * y) + last.sum) % (Full * Full)
<1>6. /\ last.res % Full = exact % Full
      /\ last.res = exact <=>
             \/ ~ signed \/ 0 \in {x, y} \/ (x >= 0 /\ y >= 0)
             \/ x < 0 /\ y < 0 /\ last.x + last.y = Full
  <2>1. CASE signed
    <3>1. x = Signed(last.x) /\ y = Signed(last.y)
      BY <2>1
    <3> QED
      BY <1>2, <1>3, <2>1, <3>1, SignedProduct
  <2>2. CASE ~ signed
    <3>1. x = last.x /\ y = last.y
      BY <2>2
    <3> QED
      BY <1>3, <2>2, <3>1
  <2> QED
    BY <2>1, <2>2
<1> QED
  BY <1>4, <1>6 DEF LongProducts
-----------------------------------------------------------------------------
(* Sums and differences of double words *)

\* The sum of two words with the same top bit, with the carry the flags keep of it.
LEMMA AddedWords ==
    ASSUME NEW x \in Word, NEW y \in Word, x < Half <=> y < Half
    PROVE  LET e == Signed(x) + Signed(y)
           IN  x + y = Wrap(e) + (Full * Carry("ADD", e))
<1> DEFINE e == Signed(x) + Signed(y)
<1>1. e \in -Full .. Full - 1 /\ x \in Int /\ y \in Int /\ (e < 0 <=> x >= Half)
      /\ e = IF x < Half THEN x + y ELSE (x + y) - (2 * Full)
  BY SignedRange, HalfPositive DEF Word
<1> HIDE DEF e
<1>2. /\ e \div Full = IF e < 0 THEN -1 ELSE 0
      /\ Wrap(e) = IF e < 0 THEN e + Full ELSE e
  BY <1>1, HalfPositive, NearQuotient DEF Wrap
<1>3. Carry("ADD", e) = IF e < 0 THEN 1 ELSE 0
  BY <1>2 DEF Carry, Plus, Flag
<1>4. x + y = Wrap(e) + (Full * Carry("ADD", e))
  <2>1. CASE e < 0
    BY <1>1, <1>2, <1>3, <2>1, HalfPositive
  <2>2. CASE ~ (e < 0)
    BY <1>1, <1>2, <1>3, <2>2, HalfPositive
  <2> QED
    BY <2>1, <2>2
<1> QED
  BY <1>4 DEF e

\* Their difference, with the borrow.
LEMMA SubtractedWords ==
    ASSUME NEW x \in Word, NEW y \in Word, x < Half <=> y < Half
    PROVE  LET e == Signed(x) - Signed(y)
           IN  x - y = Wrap(e) + (Full * (Carry("SUB", e) - 1))
<1> DEFINE e == Signed(x) - Signed(y)
<1>1. e \in -Full .. Full - 1 /\ x \in Int /\ y \in Int /\ e = x - y
  BY SignedRange, HalfPositive DEF Word
<1> HIDE DEF e
<1>2. /\ e \div Full = IF e < 0 THEN -1 ELSE 0
      /\ Wrap(e) = IF e < 0 THEN e + Full ELSE e
  BY <1>1, HalfPositive, NearQuotient DEF Wrap
<1>3. Carry("SUB", e) = IF e < 0 THEN 0 ELSE 1
  BY <1>2 DEF Carry, Plus, Flag
<1>4. x - y = Wrap(e) + (Full * (Carry("SUB", e) - 1))
  <2>1. CASE e < 0
    BY <1>1, <1>2, <1>3, <2>1, HalfPositive
  <2>2. CASE ~ (e < 0)
    BY <1>1, <1>2, <1>3, <2>2, HalfPositive
  <2> QED
    BY <2>1, <2>2
<1> QED
  BY <1>4 DEF e

\* A double word from a low word and a high word known but for a multiple.
LEMMA Joined ==
    ASSUME NEW F \in Nat \ {0}, NEW l \in 0 .. F - 1, NEW m \in Int, NEW d \in Int
    PROVE  ((m % F) * F) + l = (l + (F * (m + (F * d)))) % (F * F)
<1> DEFINE h == m % F
           q == m \div F
           r == l + (F * h)
<1>1. h \in 0 .. F - 1 /\ q \in Int /\ m = h + (F * q)
  BY Split
<1> HIDE DEF h, q
<1>2. F * F \in Nat \ {0} /\ F * h \in Nat /\ F * h <= F * (F - 1) /\ F * (F - 1) = (F * F) - F
  BY <1>1
<1>3. r \in 0 .. (F * F) - 1 /\ q + d \in Int
  BY <1>1, <1>2
<1>4. l + (F * (m + (F * d))) = r + ((F * F) * (q + d))
  <2>1. F * (m + (F * d)) = (F * h) + (F * (F * (q + d)))
    BY <1>1
  <2>2. F * (F * (q + d)) = (F * F) * (q + d)
    BY <1>1
  <2> QED
    BY <1>1, <1>2, <2>1, <2>2
<1> HIDE DEF r
<1>5. (r + ((F * F) * (q + d))) % (F * F) = r
  BY <1>2, <1>3, Unique
<1>6. (h * F) + l = r
  BY <1>1 DEF r
<1> QED
  BY <1>4, <1>5, <1>6 DEF h

\* A word is its signed number, but for Full.
LEMMA SignedMultiple == ASSUME NEW x \in Word PROVE \E d \in Int : x = Signed(x) + (Full * d)
<1>1. x \in Int /\ Full \in Int
  BY HalfPositive DEF Word
<1>2. CASE x < Half
  <2>1. x = Signed(x) + (Full * 0)
    BY <1>1, <1>2 DEF Signed
  <2> QED
    BY <2>1
<1>3. CASE ~ (x < Half)
  <2>1. x = Signed(x) + (Full * 1)
    BY <1>1, <1>3 DEF Signed
  <2> QED
    BY <2>1
<1> QED
  BY <1>2, <1>3

\* The high words are added with the carry of the low words.
LEMMA AddedInTwo ==
    ASSUME NEW lx \in Word, NEW ly \in Word, NEW hx \in Word, NEW hy \in Word,
           lx < Half <=> ly < Half
    PROVE  LET e == Exact("ADD", lx, ly, 0)
               h == Exact("ADC", hx, hy, Carry("ADD", e))
           IN  (Wrap(h) * Full) + Wrap(e)
                   = (((hx * Full) + lx) + (1 * ((hy * Full) + ly))) % (Full * Full)
<1> DEFINE e == Signed(lx) + Signed(ly)
           c == Carry("ADD", e)
           h == Signed(hx) + Signed(hy) + c
<1>1. lx \in Int /\ ly \in Int /\ hx \in Int /\ hy \in Int /\ Signed(hx) \in Int /\ Signed(hy) \in Int
      /\ Signed(lx) \in Int /\ Signed(ly) \in Int
  BY SignedRange, HalfPositive DEF Word
<1>2. lx + ly = Wrap(e) + (Full * c)
  BY AddedWords
<1>3. c \in Int /\ e \in Int
  BY <1>1 DEF Carry, Flag
<1>4. Wrap(e) \in 0 .. Full - 1
  BY <1>3, WrapWord DEF Word
<1>5. PICK dx \in Int, dy \in Int : hx = Signed(hx) + (Full * dx) /\ hy = Signed(hy) + (Full * dy)
  BY SignedMultiple
<1> HIDE DEF e, c
<1>6. h \in Int
  BY <1>1, <1>3
<1> DEFINE l == Wrap(e)
<1>7. l \in 0 .. Full - 1 /\ lx + ly = l + (Full * c)
  BY <1>2, <1>4
<1> HIDE DEF l
<1>8. ((hx * Full) + lx) + (1 * ((hy * Full) + ly)) = l + (Full * (h + (Full * (dx + dy))))
  <2>1. hx + hy + c = h + (Full * (dx + dy))
    BY <1>1, <1>3, <1>5, HalfPositive
  <2>2. ((hx * Full) + lx) + (1 * ((hy * Full) + ly)) = l + (Full * (hx + hy + c))
    BY <1>1, <1>3, <1>7, HalfPositive
  <2> QED
    BY <2>1, <2>2
<1> HIDE DEF h
<1>9. ((h % Full) * Full) + l = (l + (Full * (h + (Full * (dx + dy))))) % (Full * Full)
  <2> DEFINE d == dx + dy
  <2>1. d \in Int
    BY <1>5
  <2>2. Full \in Nat \ {0} /\ l \in 0 .. Full - 1
    BY <1>7, HalfPositive
  <2> HIDE DEF d
  <2>3. ((h % Full) * Full) + l = (l + (Full * (h + (Full * d)))) % (Full * Full)
    BY <1>6, <2>1, <2>2, Joined, Zenon
  <2> QED
    BY <2>3 DEF d
<1>10. Exact("ADD", lx, ly, 0) = e /\ Exact("ADC", hx, hy, c) = h
  BY DEF Exact, e, h
<1> QED
  BY <1>8, <1>9, <1>10 DEF l, Wrap, c

\* And subtracted with their borrow.
LEMMA SubtractedInTwo ==
    ASSUME NEW lx \in Word, NEW ly \in Word, NEW hx \in Word, NEW hy \in Word,
           lx < Half <=> ly < Half
    PROVE  LET e == Exact("SUB", lx, ly, 0)
               h == Exact("SBC", hx, hy, Carry("SUB", e))
           IN  (Wrap(h) * Full) + Wrap(e)
                   = (((hx * Full) + lx) + ((-1) * ((hy * Full) + ly))) % (Full * Full)
<1> DEFINE e == Signed(lx) - Signed(ly)
           c == Carry("SUB", e)
           h == Signed(hx) - Signed(hy) + c - 1
<1>1. lx \in Int /\ ly \in Int /\ hx \in Int /\ hy \in Int /\ Signed(hx) \in Int /\ Signed(hy) \in Int
      /\ Signed(lx) \in Int /\ Signed(ly) \in Int
  BY SignedRange, HalfPositive DEF Word
<1>2. lx - ly = Wrap(e) + (Full * (c - 1))
  BY SubtractedWords
<1>3. c \in Int /\ e \in Int
  BY <1>1 DEF Carry, Flag
<1>4. Wrap(e) \in 0 .. Full - 1
  BY <1>3, WrapWord DEF Word
<1>5. PICK dx \in Int, dy \in Int : hx = Signed(hx) + (Full * dx) /\ hy = Signed(hy) + (Full * dy)
  BY SignedMultiple
<1> HIDE DEF e, c
<1>6. h \in Int
  BY <1>1, <1>3
<1> DEFINE l == Wrap(e)
<1>7. l \in 0 .. Full - 1 /\ lx - ly = l + (Full * (c - 1))
  BY <1>2, <1>4
<1> HIDE DEF l
<1>8. ((hx * Full) + lx) + ((-1) * ((hy * Full) + ly)) = l + (Full * (h + (Full * (dx - dy))))
  <2>1. hx - hy + (c - 1) = h + (Full * (dx - dy))
    BY <1>1, <1>3, <1>5, HalfPositive
  <2>2. ((hx * Full) + lx) + ((-1) * ((hy * Full) + ly)) = l + (Full * (hx - hy + (c - 1)))
    BY <1>1, <1>3, <1>7, HalfPositive
  <2> QED
    BY <2>1, <2>2
<1> HIDE DEF h
<1>9. ((h % Full) * Full) + l = (l + (Full * (h + (Full * (dx - dy))))) % (Full * Full)
  <2> DEFINE d == dx - dy
  <2>1. d \in Int
    BY <1>5
  <2>2. Full \in Nat \ {0} /\ l \in 0 .. Full - 1
    BY <1>7, HalfPositive
  <2> HIDE DEF d
  <2>3. ((h % Full) * Full) + l = (l + (Full * (h + (Full * d)))) % (Full * Full)
    BY <1>6, <2>1, <2>2, Joined, Zenon
  <2> QED
    BY <2>3 DEF d
<1>10. Exact("SUB", lx, ly, 0) = e /\ Exact("SBC", hx, hy, c) = h
  BY DEF Exact, e, h
<1> QED
  BY <1>8, <1>9, <1>10 DEF l, Wrap, c

\* The overflow of a sum: it does not fit a signed word, and nothing is 0.
LEMMA OverflowExceeds ==
    ASSUME NEW op \in Plus, NEW x \in Word, NEW y \in Word, NEW c \in Bit
    PROVE  LET e == Exact(op, x, y, c)
           IN  Overflow(op, x, y, Wrap(e))
                   <=> /\ Signed(x) + Signed(y) + (IF op = "ADC" THEN c ELSE 0)
                              \notin -Half .. Half - 1
                       /\ 0 \notin {x, y, Wrap(e)}
<1> DEFINE k == IF op = "ADC" THEN c ELSE 0
           e == Signed(x) + Signed(y) + k
           r == Wrap(e)
<1>1. k \in {0, 1}
  BY DEF Bit
<1>2. Exact(op, x, y, c) = e
  <2>1. Signed(x) \in Int /\ Signed(y) \in Int
    BY SignedRange, HalfPositive
  <2> QED
    BY <2>1 DEF Exact, Plus, Bit
<1> HIDE DEF k
<1>3. Signed(x) \in -Half .. Half - 1 /\ Signed(y) \in -Half .. Half - 1 
      /\ (Signed(x) = 0 <=> x = 0) /\ (Signed(y) = 0 <=> y = 0)
  BY SignedRange, HalfPositive DEF Word
<1>4. e \in -Full .. Full - 1
  BY <1>1, <1>3, HalfPositive
<1>5. r = IF e < 0 THEN e + Full ELSE e
  BY <1>4, HalfPositive, NearQuotient DEF Wrap
<1>6. r \in Word
  BY <1>4, WrapWord, HalfPositive
<1>7. /\ Signed(r) < 0 <=> r >= Half
      /\ Signed(r) > 0 <=> r < Half /\ r # 0
  BY <1>6, SignedRange, HalfPositive DEF Word
<1>8. Overflow(op, x, y, r)
          <=> \/ Signed(x) < 0 /\ Signed(y) < 0 /\ Signed(r) > 0
              \/ Signed(x) > 0 /\ Signed(y) > 0 /\ Signed(r) < 0
  BY DEF Overflow
<1> DEFINE sx == Signed(x)
           sy == Signed(y)
<1>9. /\ sx \in -Half .. Half - 1 /\ sy \in -Half .. Half - 1 /\ e = sx + sy + k
      /\ Overflow(op, x, y, r) <=> \/ sx < 0 /\ sy < 0 /\ r < Half /\ r # 0
                                   \/ sx > 0 /\ sy > 0 /\ r >= Half
  BY <1>3, <1>7, <1>8
<1> HIDE DEF e, r, sx, sy
<1>10. Overflow(op, x, y, r) <=> e \notin -Half .. Half - 1 /\ sx # 0 /\ sy # 0 /\ r # 0
  <2>1. CASE e < 0
    BY <1>1, <1>4, <1>5, <1>9, <2>1, HalfPositive
  <2>2. CASE e >= 0
    BY <1>1, <1>4, <1>5, <1>9, <2>2, HalfPositive
  <2> QED
    BY <1>4, <2>1, <2>2, HalfPositive
<1> QED
  BY <1>2, <1>3, <1>10 DEF e, r, k, sx, sy
-----------------------------------------------------------------------------
\* What a step records is what Chain says of it.
LEMMA StepChains == TypeOK /\ Recorded /\ TypeOK' /\ [Next]_vars => [Chain]_vars
<1> SUFFICES ASSUME TypeOK, Recorded, TypeOK', Next, vars' # vars
             PROVE  Chain
  OBVIOUS
<1>1. flags \in Flags /\ flags.c \in Bit
  BY DEF TypeOK, Flags
<1>2. ASSUME last'.op \notin Minus \cup Plus
      PROVE  Chain
  BY <1>2 DEF Chain, Minus, Plus
<1>3. ASSUME last' = Nothing
      PROVE  Chain
  BY <1>2, <1>3 DEF Nothing, Minus, Plus
<1>4. ASSUME NEW op \in Minus \cup Plus, NEW a \in Word,
             NEW o \in Operands(flags.c), NEW s \in BOOLEAN, DataProcessing(op, a, o, s)
      PROVE  Chain
  <2>1. o \in Operand
    BY <1>1, OperandTyped
  <2> DEFINE e == Exact(last'.op, last'.x, last'.y, last'.carry)
             v == Overflow(last'.op, last'.x, last'.y, last'.res)
  <2>2. CASE last' # Nothing
    <3>1. /\ last'.op = op /\ last'.res = Wrap(e) /\ flags'.c = Carry(op, e)
          /\ flags'.v = IF op = "ADC" /\ ~ v THEN flags.v ELSE Flag(v)
      BY <1>4, <2>1, <2>2, ProcessingRecorded
    <3> HIDE DEF e, v
    <3>2. last'.x \in Word /\ last'.y \in Word /\ last'.carry \in Bit
      <4>1. op \notin Long
        BY DEF Minus, Plus, Long
      <4> QED
        BY <3>1, <4>1 DEF TypeOK
    <3>3. ASSUME last.op \in Minus \cup Plus
          PROVE  /\ last.x \in Word /\ last.y \in Word
                 /\ LET d == Exact(last.op, last.x, last.y, last.carry)
                    IN  last.res = Wrap(d) /\ flags.c = Carry(last.op, d)
      <4>1. last.op \notin Long
        BY <3>3 DEF Minus, Plus, Long
      <4> QED
        BY <3>3, <4>1 DEF TypeOK, Recorded
    <3>4. ASSUME SameTop, last.op = "ADD", last'.op = "ADC", last'.carry = flags.c
          PROVE  Chained(last, last', 1)
      <4> DEFINE d == Exact("ADD", last.x, last.y, 0)
      <4>1. /\ last.x \in Word /\ last.y \in Word
            /\ last.res = Wrap(d) /\ flags.c = Carry("ADD", d)
        <5>1. Exact("ADD", last.x, last.y, last.carry) = d
          BY DEF Exact
        <5> QED
          BY <3>3, <3>4, <5>1 DEF Plus
      <4>2. last'.res = Wrap(Exact("ADC", last'.x, last'.y, Carry("ADD", d)))
        BY <3>1, <3>4, <4>1 DEF e
      <4>3. (last.x < Half) <=> (last.y < Half)
        BY <3>4 DEF SameTop
      <4> HIDE DEF d
      <4>4. LET h == Exact("ADC", last'.x, last'.y, Carry("ADD", d))
            IN  (Wrap(h) * Full) + Wrap(d)
                    = (((last'.x * Full) + last.x) + (1 * ((last'.y * Full) + last.y))) % (Full * Full)
        BY <3>2, <4>1, <4>3, AddedInTwo DEF d
      <4> QED
        BY <4>1, <4>2, <4>4 DEF Chained
    <3>5. ASSUME SameTop, last.op = "SUB", last'.op = "SBC", last'.carry = flags.c
          PROVE  Chained(last, last', -1)
      <4> DEFINE d == Exact("SUB", last.x, last.y, 0)
      <4>1. /\ last.x \in Word /\ last.y \in Word
            /\ last.res = Wrap(d) /\ flags.c = Carry("SUB", d)
        <5>1. Exact("SUB", last.x, last.y, last.carry) = d
          BY DEF Exact
        <5> QED
          BY <3>3, <3>5, <5>1 DEF Minus
      <4>2. last'.res = Wrap(Exact("SBC", last'.x, last'.y, Carry("SUB", d)))
        BY <3>1, <3>5, <4>1 DEF e
      <4>3. (last.x < Half) <=> (last.y < Half)
        BY <3>5 DEF SameTop
      <4> HIDE DEF d
      <4>4. LET h == Exact("SBC", last'.x, last'.y, Carry("SUB", d))
            IN  (Wrap(h) * Full) + Wrap(d)
                    = (((last'.x * Full) + last.x) + ((-1) * ((last'.y * Full) + last.y))) % (Full * Full)
        BY <3>2, <4>1, <4>3, SubtractedInTwo DEF d
      <4> QED
        BY <4>1, <4>2, <4>4 DEF Chained
    <3>6. ASSUME last'.op \in Plus
          PROVE  flags'.v = 1 <=> \/ last'.op = "ADC" /\ flags.v = 1
                                  \/ /\ Exceeds(last')
                                     /\ 0 \notin {last'.x, last'.y, last'.res}
      <4>1. v <=> Exceeds(last') /\ 0 \notin {last'.x, last'.y, last'.res}
        BY <3>1, <3>2, <3>6, OverflowExceeds DEF e, v, Exceeds
      <4>2. flags.v \in Bit
        BY <1>1 DEF Flags
      <4>3. CASE v
        <5>1. flags'.v = 1
          BY <3>1, <4>3 DEF Flag
        <5> QED
          BY <4>1, <4>3, <5>1
      <4>4. CASE ~ v
        <5>1. flags'.v = IF op = "ADC" THEN flags.v ELSE 0
          BY <3>1, <4>4 DEF Flag
        <5> QED
          BY <3>1, <4>1, <4>2, <4>4, <5>1 DEF Bit
      <4> QED
        BY <4>3, <4>4
    <3> QED
      BY <3>4, <3>5, <3>6 DEF Chain
  <2> QED
    BY <1>3, <2>2
<1>5. ASSUME NEW test \in BOOLEAN, NEW u \in Word, NEW o \in Operands(flags.c),
             NEW s \in BOOLEAN, LogicalProcessing(test, u, o, s)
      PROVE  Chain
  BY <1>3, <1>5 DEF LogicalProcessing
<1>6. ASSUME NEW x \in Word, NEW y \in Word, NEW a \in Word, NEW s \in BOOLEAN,
             Multiply(x, y, a, s)
      PROVE  Chain
  BY <1>3, <1>6 DEF Multiply
<1>7. ASSUME NEW op \in Long, NEW x \in Word, NEW y \in Word,
             NEW sum \in Accumulated, NEW s \in BOOLEAN, MultiplyLong(op, x, y, sum, s)
      PROVE  Chain
  <2>1. last' = Nothing \/ last'.op = op
    BY <1>1, <1>7, ProductRecorded
  <2>2. op \notin Minus \cup Plus
    BY DEF Minus, Plus, Long
  <2> QED
    BY <1>2, <1>3, <2>1, <2>2
<1> QED
  BY <1>4, <1>5, <1>6, <1>7 DEF Next

\* The inductive invariant of the results: TypeOK, the orders and Recorded.
LEMMA RecordedInvariant == Spec => [](IInv /\ Recorded)
<1>1. Init => Recorded
  BY DEF Init, Recorded, Nothing, Minus, Plus, Long
<1>2. IInv => TypeOK
  BY DEF IInv
<1> QED
  BY <1>1, <1>2, InitInvariant, NextInvariant, RecordedKept, PTL DEF Spec

-----------------------------------------------------------------------------
(* The theorems *)

\* Typed flags and results, whatever the shifter and the instruction.
THEOREM TypeCorrect == Spec => []TypeOK
<1>1. IInv => TypeOK
  BY DEF IInv
<1> QED
  BY InitInvariant, NextInvariant, <1>1, PTL DEF Spec

\* For words of every width, the signed conditions of check_cond (cpu.c:14) decide
\* the order of the operands of the last subtraction, overflow or not.
THEOREM SignedConditions == Spec => []SignedOrder
<1>1. IInv => SignedOrder
  BY DEF IInv
<1> QED
  BY InitInvariant, NextInvariant, <1>1, PTL DEF Spec

\* For words of every width, the unsigned conditions decide it exactly when the top
\* bits agree: the carry flag of cpu.c:675 is the sign of a signed difference.
THEOREM UnsignedConditions == Spec => []UnsignedOrder
<1>1. IInv => UnsignedOrder
  BY DEF IInv
<1> QED
  BY InitInvariant, NextInvariant, <1>1, PTL DEF Spec

\* For words of every width and every amount: the shifter of cpu.c:602 moves every bit
\* to its place and leaves the last one that falls off in the carry flag, rotations
\* of negative words (cpu.c:415) excepted.
THEOREM ShiftsMoveBits == Spec => []ShiftsExact
BY TypeCorrect, TypedShifts, PTL

\* For words of every width: a long product is the product of unsigned numbers
\* (cpu.c:274), right for signed ones in exactly the cases LongProducts lists, and
\* its flags are those of the whole double word.
THEOREM LongProductsUnsigned == Spec => []LongProducts
<1>1. IInv => TypeOK
  BY DEF IInv
<1> QED
  BY <1>1, RecordedInvariant, RecordedProducts, PTL

\* For words of every width: double words are added and subtracted in two
\* instructions when the low words have the same top bit, and the overflow flag is
\* that of the sum, but at the edges (cpu.c:675 to cpu.c:760).
THEOREM DoubleWordsChained == Spec => Chains
<1>1. IInv => TypeOK
  BY DEF IInv
<1> QED
  BY <1>1, RecordedInvariant, StepChains, PTL DEF Spec, Chains
=============================================================================
