------------------------------ MODULE Decoder ------------------------------
(***************************************************************************)
(* The choice of a handler in cpu_tick.  An instruction is the record of   *)
(* its fields, which opcode.h names differently in each layout:            *)
(*                                                                         *)
(*      31-28   27-25   24 23 22 21 20   19-16  15-12  11-8   7-4   3-0    *)
(*      cond    c       p  u  b  w  l    rn     rd     rs     sh    rm     *)
(*                                                                         *)
(* The tests of the code are masks with overlaps, tried in order.          *)
(***************************************************************************)
EXTENDS Integers

CONSTANTS Conds, Rns, Rds, Rss, Shs, Rms    \* the values of the fields

Nibble == 0 .. 15
Bit == {0, 1}

ASSUME FieldsAssumption ==
    /\ Conds \subseteq Nibble /\ Rns \subseteq Nibble /\ Rds \subseteq Nibble
    /\ Rss \subseteq Nibble /\ Shs \subseteq Nibble /\ Rms \subseteq Nibble

VARIABLES
    instr,      \* the word fetched
    passes,     \* check_cond of its condition
    debugged,   \* debug_break has been called
    handler     \* the function called, or why there was none

vars == <<instr, passes, debugged, handler>>

Instructions ==
    [cond : Conds, c : 0 .. 7, p : Bit, u : Bit, b : Bit, w : Bit, l : Bit,
     rn : Rns, rd : Rds, rs : Rss, sh : Shs, rm : Rms]

Op(i) == <<i.p, i.u, i.b, i.w, i.l>>
Zero(i) == i.c = 0 /\ Op(i) = <<0, 0, 0, 0, 0>> /\ i.rn = 0 /\ i.rd = 0
               /\ i.rs = 0 /\ i.sh = 0 /\ i.rm = 0
-----------------------------------------------------------------------------
(* The masks                                                               *)

AnyHint(i) == Op(i) = <<1, 0, 0, 1, 0>> /\ i.rn = 0 /\ i.sh = 0 /\ i.rm = 3
IsBreakpoint(i) == i.c = 1 /\ Op(i) = <<1, 0, 0, 1, 0>> /\ i.rn = 0 /\ i.sh = 0
                       /\ i.rm = 3

IsPreload(i) == i.cond = 15 /\ i.c = 2 /\ Op(i) = <<1, 1, 1, 0, 1>> /\ i.rn = 1
                    /\ i.rd = 15 /\ i.rs = 1 /\ i.sh = 0 /\ i.rm = 0

IsBranchExchange(i) == i.c = 0 /\ Op(i) = <<1, 0, 0, 1, 0>> /\ i.rn = 15
                           /\ i.rd = 15 /\ i.rs = 15 /\ i.sh = 1

AnyProduct(i) == i.c = 0 /\ i.u = 0 /\ i.b = 0 /\ i.sh = 9
IsMultiply(i) == i.c = 0 /\ i.p = 0 /\ i.u = 0 /\ i.b = 0 /\ i.sh = 9

LosesAccumulate(i) ==
    i.c = 0 /\ i.p = 0 /\ i.u = 1 /\ i.b = 0 /\ i.w = 0 /\ i.sh = 9
IsMultiplyLong(i) == i.c = 0 /\ i.p = 0 /\ i.u = 1 /\ i.b = 0 /\ i.sh = 9

IsSwap(i) == i.c = 0 /\ i.p = 1 /\ i.b = 0 /\ i.rs = 0 /\ i.sh = 9

AnyOperand(i) == i.w = 0 /\ i.l = 0 /\ i.rs = 0 /\ i.sh = 0 /\ i.rm = 0
\* The bits of the operation are not in the mask.
IsMrs(i) == i.w = 0 /\ i.l = 0 /\ i.rn = 15 /\ i.rs = 0 /\ i.sh = 0 /\ i.rm = 0

IsMsr(i) == i.c = 0 /\ i.p = 1 /\ i.u = 0 /\ i.w = 1 /\ i.l = 0 /\ i.rn = 9
                /\ i.rd = 15 /\ i.rs = 0 /\ i.sh = 0

AnyField(i) == i.p = 1 /\ i.u = 0 /\ i.w = 1 /\ i.l = 0 /\ i.rd = 15
IsMsrFlags(i) == i.p = 1 /\ i.u = 0 /\ i.w = 1 /\ i.l = 0 /\ i.rn = 8 /\ i.rd = 15

\* Bits 7 and 4 are set; the offset is in rm, or in rs and rm.
IsHalfword(i) == i.c = 0 /\ i.sh \in {9, 11, 13, 15} /\ (i.b = 1 \/ i.rs = 0)
-----------------------------------------------------------------------------
(* The switch of cpu_tick                                                  *)

\* c = 0 and c = 1: the tests in the order of the code.
DataDispatch(i) ==
    IF IsBranchExchange(i) THEN "branch exchange"
    ELSE IF IsMultiply(i) THEN "multiply"
    ELSE IF IsMultiplyLong(i) THEN "multiply long"
    ELSE IF IsSwap(i) THEN "swap"
    ELSE IF IsMrs(i) THEN "mrs"
    ELSE IF IsMsr(i) THEN "msr"
    ELSE IF IsMsrFlags(i) THEN "msr flags"
    ELSE IF IsHalfword(i) THEN "halfword"
    ELSE "data processing"

Dispatch(i) ==
    CASE i.c \in {0, 1} -> DataDispatch(i)
      [] i.c \in {2, 3} -> IF i.c = 3 /\ i.sh % 2 = 1 THEN "undefined"
                                                      ELSE "single transfer"
      [] i.c = 4 -> "block transfer"
      [] i.c = 5 -> "branch"
      [] i.c = 6 -> "coprocessor transfer"
      [] i.c = 7 -> IF i.p = 1 THEN "swi"
                    ELSE IF i.sh % 2 = 0 THEN "coprocessor operation"
                    ELSE "coprocessor register"

Init == /\ instr \in Instructions
        /\ passes \in (CASE instr.cond = 14 -> {TRUE} [] instr.cond = 15 -> {FALSE}
                         [] OTHER -> BOOLEAN)
        /\ debugged = FALSE /\ handler = "fetched"

\* A zero word ends the program before its condition is looked at.
Terminate == /\ instr.cond = 0 /\ Zero(instr)
             /\ handler' = "terminated"
             /\ UNCHANGED <<instr, passes, debugged>>

Ignore == /\ IsPreload(instr)
          /\ handler' = "ignored"
          /\ UNCHANGED <<instr, passes, debugged>>

Skip == /\ ~ (instr.cond = 0 /\ Zero(instr)) /\ ~ IsPreload(instr) /\ ~ passes
        /\ handler' = "skipped"
        /\ UNCHANGED <<instr, passes, debugged>>

\* The breakpoint then executes as the instruction it is.
Execute == /\ ~ (instr.cond = 0 /\ Zero(instr)) /\ ~ IsPreload(instr) /\ passes
           /\ debugged' = IsBreakpoint(instr)
           /\ handler' = Dispatch(instr)
           /\ UNCHANGED <<instr, passes>>

Next == handler = "fetched" /\ (Terminate \/ Ignore \/ Skip \/ Execute)

Spec == Init /\ [][Next]_vars
-----------------------------------------------------------------------------
(* What the architecture calls the words of c = 0 and c = 1, by the names  *)
(* of the comments in cpu.c and the layouts of opcode.h.                   *)

\* The operations that only compare, without the S bit that would keep their result.
StatusSpace(i) == i.p = 1 /\ i.u = 0 /\ i.l = 0

MulLayout(i) == i.c = 0 /\ i.sh = 9 /\ i.p = 0 /\ i.u = 0 /\ i.b = 0
LongLayout(i) == i.c = 0 /\ i.sh = 9 /\ i.p = 0 /\ i.u = 1
SwapLayout(i) == i.c = 0 /\ i.sh = 9 /\ StatusSpace(i) /\ i.w = 0 /\ i.rs = 0
HalfLayout(i) == i.c = 0 /\ i.sh \in {11, 13, 15} /\ (i.b = 1 \/ i.rs = 0)
MrsLayout(i) == i.c = 0 /\ StatusSpace(i) /\ i.w = 0 /\ i.rn = 15 /\ i.rs = 0
                    /\ i.sh = 0 /\ i.rm = 0
MsrLayout(i) == /\ StatusSpace(i) /\ i.w = 1 /\ i.rd = 15
                /\ \/ i.c = 0 /\ i.rs = 0 /\ i.sh = 0
                   \/ i.c = 1 /\ ~ (i.b = 0 /\ i.rn = 0)
DataLayout(i) == i.c \in {0, 1} /\ ~ StatusSpace(i)
                     /\ ~ (i.c = 0 /\ i.sh \in {9, 11, 13, 15})

Executed == handler \notin {"fetched", "terminated", "ignored", "skipped"}

\* The field of halfword transfers that says what is transferred, 0 for a swap.
Transferred(i) == (i.sh \div 2) % 4
-----------------------------------------------------------------------------
\* Every word has a handler, and the breakpoint, which is the hint WFI, goes on as a
\* comparison without an effect.
TypeOK ==
    /\ instr \in Instructions /\ passes \in BOOLEAN /\ debugged \in BOOLEAN
    /\ handler \in {"fetched", "terminated", "ignored", "skipped", "undefined", "swi",
                    "branch exchange", "multiply", "multiply long", "swap", "mrs", "msr",
                    "msr flags", "halfword", "data processing", "single transfer",
                    "block transfer", "branch", "coprocessor transfer",
                    "coprocessor operation", "coprocessor register"}
    /\ debugged => handler = "data processing"

\* The mask of the long multiplication holds the bit that makes it signed
\* (cpu.c:1656): UMULL and UMLAL reach their handler, SMULL and SMLAL reach that of
\* the halfwords, which swaps a word with memory and writes RdHi, its base, back.
LongMultiplication ==
    Executed /\ LongLayout(instr) =>
        /\ instr.b = 0 => handler = "multiply long"
        /\ instr.b = 1 => /\ handler = "halfword"
                          /\ Transferred(instr) = 0 /\ instr.p = 0

\* The mask of MRS holds no bit of the operation but the lowest (cpu.c:1666).  Every
\* word of the data processing layout is executed as such, except the six operations
\* with an even number that do not compare, without S, on PC and a second operand of
\* zero bits, #0 or R0: ADD Rd, PC, #0 reads the CPSR.
PcOperands ==
    Executed /\ DataLayout(instr) =>
        LET op == (8 * instr.p) + (4 * instr.u) + (2 * instr.b) + instr.w
            lost == /\ instr.rn = 15 /\ instr.l = 0
                    /\ instr.rs = 0 /\ instr.sh = 0 /\ instr.rm = 0
                    /\ op \in {0, 2, 4, 6, 12, 14}
        IN  handler = IF lost THEN "mrs" ELSE "data processing"

\* MSR names the fields of the status register it writes (cpu.c:1671).  Two sets of
\* fields are decoded, the flags alone and, from a register, flags and control; any
\* other is a comparison without an effect, also the control field alone and all
\* fields together.
StatusWrites ==
    Executed /\ MsrLayout(instr) =>
        handler = CASE instr.rn = 8 -> "msr flags"
                    [] instr.rn = 9 /\ instr.c = 0 -> "msr"
                    [] OTHER -> "data processing"

\* The products, swaps and halfwords share bits 7 and 4 and reach their handlers in
\* spite of the overlaps of the masks: SWPB by way of the halfwords, which swap bytes
\* and write nothing back.  Only STRH PC, [R8, -]! goes astray, to MSR.
SharedBits ==
    Executed =>
        /\ MulLayout(instr) => handler = "multiply"
        /\ MrsLayout(instr) => handler = "mrs"
        /\ SwapLayout(instr) =>
               handler = IF instr.b = 0 THEN "swap" ELSE "halfword"
        /\ HalfLayout(instr) =>
               handler = IF /\ StatusSpace(instr) /\ instr.w = 1
                            /\ instr.rn = 8 /\ instr.rd = 15
                         THEN "msr flags" ELSE "halfword"
=============================================================================
