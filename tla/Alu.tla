-------------------------------- MODULE Alu --------------------------------
(***************************************************************************)
(* Data processing in cpu.c: the shifter of compute_offset_operand2, the   *)
(* results and the condition flags of instr_single_data_processing and of  *)
(* the multiplications, and the condition codes of check_cond that read    *)
(* them.                                                                   *)
(*                                                                         *)
(* Words have Bits bits, 32 in C.  The code computes on int32_t and keeps  *)
(* the exact sum or difference in an int64_t, which here is an integer.    *)
(* The flags are the one-bit fields n, z, c and v of cpsr.  Which bits a   *)
(* logical instruction combines to its result is left open.                *)
(***************************************************************************)
EXTENDS Integers

CONSTANTS
    Bits,       \* the bits of a word
    Weight,     \* the weight 2^k of each bit k, and Weight[Bits]
    MaxShift,   \* bound: the greatest shift amount, 255 in C
    Accumulated \* bound: the double words that long products are added to

ASSUME WidthAssumption == Bits \in Nat \ {0} /\ MaxShift \in Nat
ASSUME WeightAssumption ==
    /\ Weight \in [0 .. Bits -> Nat \ {0}]
    /\ Weight[0] = 1 /\ Weight[1] = 2
    /\ \A i, j \in 0 .. Bits :
           i + j <= Bits => Weight[i + j] = Weight[i] * Weight[j]

ASSUME AccumulatedAssumption == Accumulated \subseteq Nat

VARIABLES
    flags,      \* cpsr.b.n, .z, .c and .v
    last        \* history: the last instruction, if it was a sum, a difference or
                \* a long product that set the flags, with its operands, the carry
                \* flag a sum found after its shift, and its result

vars == <<flags, last>>

Half == Weight[Bits - 1]     \* the word with the top bit only
Full == 2 * Half
Word == 0 .. Full - 1
Bit == {0, 1}
Flags == [n : Bit, z : Bit, c : Bit, v : Bit]

Minus == {"SUB", "RSB", "CMP", "SBC", "RSC"}
Plus == {"ADD", "CMN", "ADC"}
Compares == {"CMP", "CMN"}
Reversed == {"RSB", "RSC"}
Long == {"UMULL", "SMULL"}

Signed(x) == IF x < Half THEN x ELSE x - Full
Unbounded(n) == n
Wrap(n) == n % Full
Flag(p) == IF p THEN 1 ELSE 0
BitOf(x, k) == (x \div Weight[k]) % 2
-----------------------------------------------------------------------------
(* The shifter *)

\* rotate_right on an int32_t: x >> k copies the sign, so the bits the rotation
\* brings in from the right are lost under the copies when x is negative.
RotateRight(x, k) ==
    IF x < Half THEN Wrap((x \div Weight[k]) + (x * Weight[Bits - k]))
                ELSE Wrap(Signed(x) \div Weight[k])

\* The amount ROR is reduced to: above Bits, Bits is taken off until it is not.
Turns(k) == ((k - 1) % Bits) + 1

LosesTopBit(x, k) ==
    IF k >= Bits
    THEN [value |-> 0, carry |-> Flag(k = Bits /\ x % 2 = 1)]
    ELSE [value |-> Wrap(x * Weight[k]), carry |-> BitOf(x, Bits - 1)]

ShiftLeft(x, k) ==
    IF k >= Bits
    THEN [value |-> 0, carry |-> Flag(k = Bits /\ x % 2 = 1)]
    ELSE [value |-> Wrap(x * Weight[k]), carry |-> BitOf(x, Bits - k)]

ShiftRight(x, k) ==
    IF k >= Bits
    THEN [value |-> 0, carry |-> Flag(k = Bits /\ x >= Half)]
    ELSE [value |-> x \div Weight[k], carry |-> BitOf(x, k - 1)]

ShiftArithmetic(x, k) ==
    IF k >= Bits
    THEN [value |-> IF x >= Half THEN Full - 1 ELSE 0, carry |-> Flag(x >= Half)]
    ELSE [value |-> Wrap(Signed(x) \div Weight[k]), carry |-> BitOf(x, k - 1)]

Rotate(x, k) ==
    IF k = Bits
    THEN [value |-> x, carry |-> Flag(x >= Half)]
    ELSE [value |-> RotateRight(x, k), carry |-> BitOf(x, k - 1)]

\* compute_offset_operand2: the second operand and the carry flag.  An amount of 0
\* is no shift at all, for every kind.
Operand2(kind, x, k, c) ==
    CASE k = 0 -> [value |-> x, carry |-> c]
      [] k > 0 /\ kind = "LSL" -> ShiftLeft(x, k)
      [] k > 0 /\ kind = "LSR" -> ShiftRight(x, k)
      [] k > 0 /\ kind = "ASR" -> ShiftArithmetic(x, k)
      [] k > 0 /\ kind = "ROR" -> Rotate(x, Turns(k))

Kinds == {"LSL", "LSR", "ASR", "ROR"}
Operands(c) == {Operand2(kind, x, k, c) :
                    kind \in Kinds, x \in Word, k \in 0 .. MaxShift}
-----------------------------------------------------------------------------
(* Instructions *)

\* check_cond
Passes(cc) ==
    CASE cc = "EQ" -> flags.z = 1
      [] cc = "NE" -> flags.z = 0
      [] cc = "CS" -> flags.c = 1
      [] cc = "CC" -> flags.c = 0
      [] cc = "MI" -> flags.n = 1
      [] cc = "PL" -> flags.n = 0
      [] cc = "VS" -> flags.v = 1
      [] cc = "VC" -> flags.v = 0
      [] cc = "HI" -> flags.c = 1 /\ flags.z = 0
      [] cc = "LS" -> flags.c = 0 \/ flags.z = 1
      [] cc = "GE" -> flags.n = flags.v
      [] cc = "LT" -> flags.n # flags.v
      [] cc = "GT" -> flags.z = 0 /\ flags.n = flags.v
      [] cc = "LE" -> flags.z = 1 \/ flags.n # flags.v
      [] OTHER -> cc = "AL"

\* res64
BorrowsTwice(op, x, y, c) ==
    CASE op \in {"SUB", "RSB", "CMP"} -> Signed(x) - Signed(y)
      [] op \in {"SBC", "RSC"} -> Signed(x) - Signed(y) - c - 1
      [] op \in {"ADD", "CMN"} -> Signed(x) + Signed(y)
      [] op = "ADC" -> Signed(x) + Signed(y) + c

Exact(op, x, y, c) ==
    CASE op \in {"SUB", "RSB", "CMP"} -> Signed(x) - Signed(y)
      [] op \in {"SBC", "RSC"} -> Signed(x) - Signed(y) + c - 1
      [] op \in {"ADD", "CMN"} -> Signed(x) + Signed(y)
      [] op = "ADC" -> Signed(x) + Signed(y) + c

\* The carry flag, from the upper half of res64.
CarryAsBorrow(op, exact) ==
    IF op \in Plus THEN Flag(exact \div Full # 0) ELSE Flag(exact \div Full = -1)

Carry(op, exact) ==
    IF op \in Plus THEN Flag(exact \div Full # 0) ELSE Flag(exact \div Full # -1)

\* The overflow flag, from the signs of the operands and the result.
OverflowUnsigned(op, x, y, res) ==
    IF op \in Plus
    THEN \/ Signed(x) < 0 /\ Signed(y) < 0 /\ Signed(res) > 0
         \/ Signed(x) > 0 /\ Signed(y) > 0 /\ Signed(res) < 0
    ELSE x < y

Overflow(op, x, y, res) ==
    IF op \in Plus
    THEN \/ Signed(x) < 0 /\ Signed(y) < 0 /\ Signed(res) > 0
         \/ Signed(x) > 0 /\ Signed(y) > 0 /\ Signed(res) < 0
    ELSE \/ Signed(x) >= 0 /\ Signed(y) < 0 /\ Signed(res) < 0
         \/ Signed(x) < 0 /\ Signed(y) >= 0 /\ Signed(res) >= 0

\* Nothing that can be told from the flags.
Nothing == [op |-> "none", x |-> 0, y |-> 0, carry |-> 0, res |-> 0]

\* AND, EOR, ORR, MOV, BIC and MVN, and TST and TEQ, which set the flags whatever
\* the S bit: v is the result and o what the shifter made of the second operand.
LogicalProcessing(test, v, o, s) ==
    /\ flags' = [flags EXCEPT !.n = IF s \/ test THEN Flag(v >= Half) ELSE @,
                              !.z = IF s \/ test THEN Flag(v = 0) ELSE @,
                              !.c = IF s THEN o.carry ELSE @]
    /\ last' = Nothing

\* The other instructions, with the first operand a.  The shifter has set the carry
\* flag before ADC, SBC and RSC add it in; ADC never clears the overflow flag.
DataProcessing(op, a, o, s) ==
    LET x     == IF op \in Reversed THEN o.value ELSE a
        y     == IF op \in Reversed THEN a ELSE o.value
        c     == IF s THEN o.carry ELSE flags.c
        exact == Exact(op, x, y, c)
        res   == Wrap(exact)
        v     == Overflow(op, x, y, res)
    IN  IF s \/ op \in Compares
        THEN /\ flags' = [n |-> Flag(res >= Half), z |-> Flag(res = 0),
                          c |-> Carry(op, exact),
                          v |-> IF op = "ADC" /\ ~ v THEN flags.v ELSE Flag(v)]
             /\ last' = [op |-> op, x |-> x, y |-> y, carry |-> c, res |-> res]
        ELSE UNCHANGED flags /\ last' = Nothing

\* MUL and MLA, which adds a: the lower half of the product is the same for signed
\* and unsigned operands.
Multiply(x, y, a, s) ==
    LET res == Wrap((x * y) + a)
    IN  /\ flags' = IF s THEN [flags EXCEPT !.n = Flag(res >= Half), !.z = Flag(res = 0)]
                         ELSE flags
        /\ last' = Nothing

\* UMULL, SMULL and those that accumulate; sum is 0 for those that do not.  ts64
\* takes a word for the number it is without a sign, so that the signed product is
\* the unsigned one, as far as both fit: beyond, the product of int64_t wraps.
LowSign(op, x, y, sum, s) ==
    LET res == ((x * y) + sum) % (Full * Full)
    IN  IF s
        THEN /\ flags' = [flags EXCEPT !.n = Flag(res % Full >= Half), !.z = Flag(res = 0)]
             /\ last' = [op |-> op, x |-> x, y |-> y, sum |-> sum, res |-> res]
        ELSE UNCHANGED flags /\ last' = Nothing

MultiplyLong(op, x, y, sum, s) ==
    LET res == ((x * y) + sum) % (Full * Full)
    IN  IF s
        THEN /\ flags' = [flags EXCEPT !.n = Flag(res >= Half * Full), !.z = Flag(res = 0)]
             /\ last' = [op |-> op, x |-> x, y |-> y, sum |-> sum, res |-> res]
        ELSE UNCHANGED flags /\ last' = Nothing

Init == /\ flags = [n |-> 0, z |-> 0, c |-> 0, v |-> 0]
        /\ last = Nothing

Next == \/ \E test \in BOOLEAN, v \in Word, o \in Operands(flags.c), s \in BOOLEAN :
               LogicalProcessing(test, v, o, s)
        \/ \E op \in Minus \cup Plus, a \in Word, o \in Operands(flags.c),
              s \in BOOLEAN :
               DataProcessing(op, a, o, s)
        \/ \E x, y, a \in Word, s \in BOOLEAN : Multiply(x, y, a, s)
        \/ \E op \in Long, x, y \in Word, sum \in Accumulated, s \in BOOLEAN :
               MultiplyLong(op, x, y, sum, s)

Spec == Init /\ [][Next]_vars
-----------------------------------------------------------------------------
TypeOK ==
    /\ flags \in Flags
    /\ last \in [op : Minus \cup Plus \cup {"none"},
                 x : Word, y : Word, carry : Bit, res : Word]
           \cup [op : Long, x : Word, y : Word, sum : Accumulated,
                 res : 0 .. (Full * Full) - 1]

\* After a subtraction or a comparison the conditions EQ, GE, GT, LE and LT decide
\* the order of the operands as signed numbers, also when the difference overflows.
Subtracted == last.op \in {"SUB", "RSB", "CMP"}

SignedOrder ==
    Subtracted => /\ Passes("EQ") <=> last.x = last.y
                  /\ Passes("GE") <=> Signed(last.x) >= Signed(last.y)
                  /\ Passes("LT") <=> Signed(last.x) < Signed(last.y)
                  /\ Passes("GT") <=> Signed(last.x) > Signed(last.y)
                  /\ Passes("LE") <=> Signed(last.x) <= Signed(last.y)

\* The carry flag comes from the sign of a difference of signed numbers, so CS, CC,
\* HI and LS decide the order of the operands as unsigned numbers only when both
\* have the same top bit, and the opposite order when they have not.
SameTop == (last.x < Half) <=> (last.y < Half)

UnsignedOrder ==
    Subtracted =>
        /\ (Passes("CS") <=> last.x >= last.y) <=> SameTop
        /\ (Passes("HI") <=> last.x > last.y) <=> SameTop

\* Every result is right modulo the size of a word, and the operands of a double
\* word can be added and subtracted in two instructions, ADDS and ADC or SUBS and
\* SBC, when the low words have the same top bit and the second operand of the high
\* words is not shifted: a shift leaves its own carry (cpu.c:618).  The overflow flag
\* tells whether the sum exceeds a signed word, but at the edges, when the result or
\* an operand is 0; and ADC keeps one that was set, whoever has set it (cpu.c:737).
Chained(low, high, sign) ==
    LET Double(h, l) == (h * Full) + l
    IN  Double(high.res, low.res) =
            (Double(high.x, low.x) + (sign * Double(high.y, low.y))) % (Full * Full)

Exceeds(l) == Signed(l.x) + Signed(l.y) + (IF l.op = "ADC" THEN l.carry ELSE 0)
                  \notin -Half .. Half - 1

Chain ==
    /\ SameTop /\ last.op = "ADD" /\ last'.op = "ADC" /\ last'.carry = flags.c =>
           Chained(last, last', 1)
    /\ SameTop /\ last.op = "SUB" /\ last'.op = "SBC" /\ last'.carry = flags.c =>
           Chained(last, last', -1)
    /\ last'.op \in Plus =>
           (flags'.v = 1 <=> \/ last'.op = "ADC" /\ flags.v = 1
                            \/ /\ Exceeds(last')
                               /\ 0 \notin {last'.x, last'.y, last'.res})

Chains == [][Chain]_vars

\* A long product is the product of its operands as unsigned numbers, also when they
\* are signed (cpu.c:274): then it is right when they are not negative, when one is
\* zero and when both are negative and opposite as unsigned numbers, and wrong in its
\* upper half only.  The conditions tell the sign and the zero of all of it.
LongProducts ==
    last.op \in Long =>
        LET signed == last.op = "SMULL"
            x == IF signed THEN Signed(last.x) ELSE last.x
            y == IF signed THEN Signed(last.y) ELSE last.y
            exact == ((x * y) + last.sum) % (Full * Full)
        IN  /\ last.res % Full = exact % Full
            /\ last.res = exact <=>
                   \/ ~ signed \/ 0 \in {x, y} \/ (x >= 0 /\ y >= 0)
                   \/ x < 0 /\ y < 0 /\ last.x + last.y = Full
            /\ Passes("EQ") <=> last.res = 0
            /\ Passes("MI") <=> last.res >= Half * Full

\* The shifter moves every bit to its place and leaves the last bit that falls off
\* in the carry flag, whatever the amount.  A rotation does so for positive words
\* only.  (An immediate amount of 0 encodes a shift by a whole word in the ARM, and
\* none here.)
Placed(kind, x, k, i) ==
    CASE kind = "LSL" -> IF i - k \in 0 .. Bits - 1 THEN BitOf(x, i - k) ELSE 0
      [] kind = "LSR" -> IF i + k \in 0 .. Bits - 1 THEN BitOf(x, i + k) ELSE 0
      [] kind = "ASR" -> BitOf(x, IF i + k < Bits THEN i + k ELSE Bits - 1)
      [] kind = "ROR" -> BitOf(x, (i + k) % Bits)

FallenOff(kind, x, k) ==
    CASE kind = "LSL" -> IF k <= Bits THEN BitOf(x, Bits - k) ELSE 0
      [] kind = "LSR" -> IF k <= Bits THEN BitOf(x, k - 1) ELSE 0
      [] kind = "ASR" -> BitOf(x, IF k <= Bits THEN k - 1 ELSE Bits - 1)
      [] kind = "ROR" -> BitOf(x, (k - 1) % Bits)

ShiftsExact ==
    \A kind \in Kinds, x \in Word, k \in 0 .. MaxShift :
        LET o == Operand2(kind, x, k, flags.c)
        IN  /\ kind # "ROR" \/ x < Half =>
                   \A i \in 0 .. Bits - 1 : BitOf(o.value, i) = Placed(kind, x, k, i)
            /\ o.carry = IF k = 0 THEN flags.c ELSE FallenOff(kind, x, k)

\* cpu.c:415: "Rotates a number to the right".
RotatesRight ==
    \A x \in Word, k \in 1 .. MaxShift, i \in 0 .. Bits - 1 :
        BitOf(Operand2("ROR", x, k, flags.c).value, i) = Placed("ROR", x, k, i)
=============================================================================
