------------------------------ MODULE Machine ------------------------------
(***************************************************************************)
(* The processor, its floating point unit and the storage together: the    *)
(* instructions of Transfers and Vfp in any order, as cpu_tick runs them   *)
(* on one memory.                                                          *)
(*                                                                         *)
(* What a program may rely on is stated about a program that keeps a stack *)
(* below its stack pointer, as compilers do, and compares numbers.  The    *)
(* histories depth, compared, reported and strayed follow that program and *)
(* decide nothing.                                                         *)
(***************************************************************************)
EXTENDS Vfp, Sequences, FiniteSets

CONSTANTS
    Pointers, Numbers,      \* what the program's first registers hold
    Answers,                \* the answers of devices and the words behind the unit
    StackTop,
    MaxTicks                \* bound: the instructions of a program

ASSUME ProgramAssumption ==
    /\ Pointers \cup Numbers \cup Answers \subseteq Dword
    /\ StackTop \in Dword /\ MaxTicks \in Nat

VARIABLES
    ticks,
    depth,      \* the words the program has pushed and not popped
    compared,   \* the operands whose order the flags of FPSCR tell, or none
    reported,   \* those whose order the flags of cpsr tell, or none
    strayed     \* FMXR has run, or a list of cells has passed the last register

vars == <<memory, r, status, vfpVars, ticks, depth, compared, reported, strayed>>

R0 == 0
GPRs == Regs \ {SP}

\* main clears the emulator; the program has loaded some registers.
Init ==
    /\ MemoryInit
    /\ \E p \in Pointers, v \in Numbers :
           r = [g \in Regs |-> CASE g = R0 -> p [] g = SP -> StackTop
                                 [] g = PC -> 0 [] OTHER -> v]
    /\ \E f \in [0 .. VfpCount - 1 -> Numbers] :
           s = [c \in Cells |-> IF c < VfpCount THEN f[c] ELSE 0]
    /\ status = "run" /\ nzcv = 0 /\ overrun = FALSE
    /\ ticks = 0 /\ depth = 0 /\ strayed = FALSE
    /\ compared = <<>> /\ reported = <<>>
-----------------------------------------------------------------------------
(* The program's account of its stack *)

\* The words pushed by PUSH, by FSTMDB and by STR, and those popped by their
\* counterparts; 0 if the instruction is none of them.
Pushed(i) ==
    CASE i.kind = "single" /\ i.rn = SP /\ ~ i.l /\ ~ i.b /\ i.p /\ i.w /\ ~ i.u
             /\ i.offset = 4 /\ i.rd \notin {SP, PC} -> 1
      [] i.kind = "block" /\ i.rn = SP /\ ~ i.l /\ i.p /\ i.w /\ ~ i.u
             /\ i.rl \cap {SP, PC} = {} -> Cardinality(i.rl)
      [] i.kind = "vfp_transfer" /\ i.rn = SP /\ ~ i.l /\ i.mode = "decrement"
             /\ i.fd + i.offset <= VfpCount -> i.offset
      [] OTHER -> 0

Popped(i) ==
    CASE i.kind = "single" /\ i.rn = SP /\ i.l /\ ~ i.b /\ ~ i.p /\ i.u
             /\ i.offset = 4 /\ i.rd # SP -> 1
      [] i.kind = "block" /\ i.rn = SP /\ i.l /\ ~ i.p /\ i.w /\ i.u
             /\ SP \notin i.rl -> Cardinality(i.rl)
      [] i.kind = "vfp_transfer" /\ i.rn = SP /\ i.l /\ i.mode = "increment"
             /\ i.fd + i.offset <= VfpCount -> i.offset
      [] OTHER -> 0

\* The addresses an instruction may store from, a few too many.
Stores(i) ==
    LET rn == Read(Fetched, i.rn)
        around(n) == {Place(Wrap(rn + (4 * k))) : k \in -n .. n}
    IN  CASE i.kind = "swap" -> {Place(rn)}
          [] i.kind = "half" -> {Place(rn), Place(Moved(i)), Place(Address(i) + 12)}
          [] i.kind = "single" /\ ~ i.l -> {Place(Address(i))}
          [] i.kind = "block" /\ ~ i.l -> around(Cardinality(i.rl))
          [] i.kind = "vfp_transfer" /\ i.mode # "unimplemented" /\ ~ i.l ->
                 around(IF i.offset < 0 THEN -i.offset ELSE i.offset)
          [] OTHER -> {}

Account(i) ==
    LET live == r[SP] .. r[SP] + (4 * depth) - 1
        sound == r[SP] % 4 = 0 /\ r[SP] <= MemSize /\ r[SP] <= AddressSpace
    IN  depth' = CASE sound /\ Pushed(i) > 0 /\ 4 * Pushed(i) <= r[SP]
                          -> depth + Pushed(i)
                   [] sound /\ Popped(i) > 0 /\ Popped(i) <= depth
                          -> depth - Popped(i)
                   [] OTHER -> IF r'[SP] # r[SP] \/ \E a \in Stores(i) :
                                                        a .. a + 3 \cap live # {}
                               THEN 0 ELSE depth
-----------------------------------------------------------------------------
(* The program's account of its comparisons *)

Strays(i) == i.kind = "vfp_transfer" /\ i.l /\ i.mode \notin {"single", "unimplemented"}
                 /\ i.fd + i.offset > VfpCount

Compares(i) ==
    /\ compared' = CASE i.kind = "vfp_data" /\ i.op = "compare" -> <<s[i.fd], s[i.fm]>>
                     [] i.kind = "vfp_data" /\ i.op = "compare_zero" -> <<s[i.fd], ZERO>>
                     [] Strays(i) -> <<>>
                     [] i.kind = "vfp_status" /\ ~ i.l /\ i.cell = FPSCR -> <<>>
                     [] OTHER -> compared
    /\ reported' = IF i.kind = "vfp_status" /\ i.l /\ i.rd = PC /\ i.cell = FPSCR
                   THEN compared ELSE reported
    /\ strayed' = (strayed \/ Strays(i) \/ (i.kind = "vfp_status" /\ ~ i.l))
-----------------------------------------------------------------------------
\* cpu_tick on the instruction i: cpu.c sends the instructions of coprocessor 10 to
\* the unit, ignores those of coprocessor 15 and ends with any other.
Handled(i) ==
    \/ i.kind = "single" /\ (\E x \in Answers : Single(i, x)) /\ UNCHANGED vfpVars
    \/ i.kind = "swap" /\ (\E x \in Answers : Swap(i, x)) /\ UNCHANGED vfpVars
    \/ i.kind = "half" /\ (\E x \in Answers : Halfword(i, x)) /\ UNCHANGED vfpVars
    \/ i.kind = "block" /\ (\E x \in [i.rl -> Answers] : Block(i, x)) /\ UNCHANGED vfpVars
    \/ i.kind = "vfp_data" /\ \E o \in Results : DataProc(i, o)
    \/ /\ i.kind = "vfp_transfer"
       /\ \E x \in [Cells -> Answers], y \in [Offsets(i.offset) -> Answers] :
              DataTransfer(i, x, y)
    \/ i.kind = "vfp_register" /\ RegTransfer(i)
    \/ i.kind = "vfp_status" /\ StatusTransfer(i)
    \/ i.kind = "ignored" /\ Effect(memory, Fetched) /\ UNCHANGED vfpVars
    \/ i.kind = "unsupported" /\ Fatal /\ UNCHANGED vfpVars

Next ==
    /\ status = "run" /\ ticks < MaxTicks
    /\ ticks' = ticks + 1
    /\ \E i \in Instructions : Handled(i) /\ Account(i) /\ Compares(i)

Spec == Init /\ [][Next]_vars
-----------------------------------------------------------------------------
TypeOK ==
    /\ MemoryTypeOK
    /\ r \in [Regs -> Dword] /\ status \in {"run", "fatal"}
    /\ s \in [Cells -> Dword] /\ nzcv \in 0 .. 15 /\ overrun \in BOOLEAN
    /\ ticks \in 0 .. MaxTicks /\ depth \in Nat
    /\ strayed \in BOOLEAN
    /\ compared \in Seq(Dword) /\ reported \in Seq(Dword)

\* PUSH and POP, FSTMDB and FLDMIA, STR and LDR agree about the order of registers,
\* the direction of growth and where the pointer stands, so words pushed by one come
\* back by another: the processor, the unit and the memory implement Stack.
Names == ({"r"} \X GPRs) \cup ({"s"} \X (0 .. VfpCount - 1))

Abstract == INSTANCE Stack WITH
    Number <- [n \in Names |-> IF n[1] = "r" THEN n[2] ELSE PC + 1 + n[2]],
    Moving <- {<<"r", PC>>},
    Words <- Dword,
    regs <- [n \in Names |-> IF n[1] = "r" THEN r[n[2]] ELSE s[n[2]]],
    stack <- [k \in 1 .. depth |-> ReadDword(memory, r[SP] + (4 * (k - 1)), 0)]

ImplementsStack == Abstract!Spec

\* After FCMP and FMSTAT the conditions of the processor tell the order of the two
\* numbers; when one of them is none, those that ask for less, greater or equal fail
\* and those that are their opposites hold.
Cond == INSTANCE Alu WITH
    Bits <- 1, Weight <- [k \in {0, 1} |-> k + 1], MaxShift <- 0, Accumulated <- {}, last <- <<>>,
    flags <- [n |-> nzcv \div 8, z |-> (nzcv \div 4) % 2,
              c |-> (nzcv \div 2) % 2, v |-> nzcv % 2]

FloatOrder == reported # <<>> =>
    LET a == Float[reported[1]]
        b == Float[reported[2]]
        ordered == reported[1] \notin NaN /\ reported[2] \notin NaN
        Tells(cc, p) == Cond!Passes(cc) <=> p
    IN  /\ Tells("VS", ~ ordered)
        /\ Tells("EQ", ordered /\ a = b) /\ Tells("NE", ~ ordered \/ a # b)
        /\ Tells("MI", ordered /\ a < b) /\ Tells("LT", ~ ordered \/ a < b)
        /\ Tells("LS", ordered /\ a <= b) /\ Tells("LE", ~ ordered \/ a <= b)
        /\ Tells("GT", ordered /\ a > b) /\ Tells("HI", ~ ordered \/ a > b)
        /\ Tells("GE", ordered /\ a >= b) /\ Tells("CS", ~ ordered \/ a >= b)

\* No list of registers is tested against the 32 of the unit: one that passes the
\* last loads the status registers and what lies behind them.  Until one does, or
\* FMXR writes them, comparing leaves everything but the flags of FPSCR as vfp_init
\* left it.
StatusKept ==
    ~ strayed => /\ s[FPSID] = 0 /\ s[FPEXC] = 0 /\ ~ overrun
                 /\ s[FPSCR] % FlagUnit = 0
                 /\ FlagsOf(s[FPSCR]) \in {0, 2, 3, 6, 8}
=============================================================================
