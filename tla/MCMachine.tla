----------------------------- MODULE MCMachine -----------------------------
(* Bytes of radix 8, three dwords and a byte of RAM, and six bytes of      *)
(* framebuffer, which therefore begins at no multiple of four.             *)
EXTENDS Machine

R1 == 1
NotANumber == 3839
Answer == 4095

\* Words of four different bytes, one of them no number, the other negative.
NumberValues == {NotANumber, 2698}
FloatValues == [w \in Dword |-> IF w < Full \div 2 THEN w ELSE w - Full]

\* A misaligned address, two in the framebuffer, an aligned one from which a dword
\* passes its end and one from which a word does, the enables, interrupts and format
\* of the UART, and the RAM once more.
PointerValues == {5, 14, 16, 18, 48, 68}

Single1(rd, rn, o, p, u, b, w, l) ==
    [kind |-> "single", rd |-> rd, rn |-> rn, offset |-> o, p |-> p, u |-> u,
     b |-> b, w |-> w, l |-> l]
Half1(rd, rn, rm, sh, o, p, u, b, w, l) ==
    [kind |-> "half", rd |-> rd, rn |-> rn, rm |-> rm, sh |-> sh, offset |-> o,
     p |-> p, u |-> u, b |-> b, w |-> w, l |-> l]
Block1(rn, rl, p, u, w, l) ==
    [kind |-> "block", rn |-> rn, rl |-> rl, p |-> p, u |-> u, w |-> w, l |-> l]
Cells1(mode, fd, rn, o, l) ==
    [kind |-> "vfp_transfer", mode |-> mode, fd |-> fd, rn |-> rn, offset |-> o,
     l |-> l]

T == TRUE
F == FALSE

InstructionSet ==
    \* LDR, STR, LDRB and STRB, pre- and post-indexed, PUSH and POP
    {Single1(R1, R0, 4, T, T, F, F, l) : l \in BOOLEAN}
    \cup {Single1(R1, R0, 1, F, T, b, F, l) : b, l \in BOOLEAN}
    \cup {Single1(R0, R0, 4, T, F, F, T, T), Single1(R1, PC, 0, F, T, F, F, T)}
    \cup {Single1(R1, SP, 4, T, F, F, T, F), Single1(R0, SP, 4, F, T, F, F, T)}
    \* SWP and SWPB
    \cup {[kind |-> "swap", rd |-> rd, rn |-> R0, rm |-> R1, b |-> F] : rd \in {R1, PC}}
    \cup {[kind |-> "swap", rd |-> R1, rn |-> R0, rm |-> R1, b |-> T]}
    \* the halfwords, and the swap that reaches them
    \cup {Half1(rd, R0, R1, 1, 0, T, T, T, F, F) : rd \in {R1, PC}}
    \cup {Half1(R1, R0, R1, sh, 2, F, F, T, F, T) : sh \in {1, 2, 3}}
    \cup {Half1(R1, R0, R1, sh, 0, T, T, F, T, l) : sh \in {0, 2}, l \in BOOLEAN}
    \* PUSH and POP, and the other directions
    \cup {Block1(SP, {R0, R1}, T, F, T, F), Block1(SP, {R0, R1}, F, T, T, T),
          Block1(SP, {R1, PC}, F, T, T, T), Block1(R0, {R0, R1}, T, T, T, T),
          Block1(R0, {R0, R1}, F, F, T, F), Block1(R0, {R1, SP}, F, T, F, F),
          Block1(R0, {}, F, T, F, F), Block1(PC, {R1}, F, T, F, F)}
    \* FLDS, FSTS, and FLDM and FSTM beside and beyond the registers
    \cup {Cells1("single", 0, R0, -1, l) : l \in BOOLEAN}
    \cup {Cells1("decrement", 0, SP, n, F) : n \in {1, 2}}
    \cup {Cells1("increment", 0, SP, n, T) : n \in {1, 2}}
    \cup {Cells1("unindexed", 1, SP, 6, l) : l \in BOOLEAN}
    \cup {Cells1("increment", 0, R0, 2, l) : l \in BOOLEAN}
    \cup {Cells1("unimplemented", 0, R0, 1, T)}
    \* FCMP, FCMPZ, FCPY, FADD
    \cup {[kind |-> "vfp_data", op |-> op, fd |-> 0, fm |-> 1] :
             op \in {"compare", "compare_zero", "copy", "arithmetic",
                     "undefined_extension", "undefined"}}
    \* FMRS, FMSR, FMRX, FMXR and FMSTAT
    \cup {[kind |-> "vfp_register", fn |-> 1, rd |-> R0, l |-> l] : l \in BOOLEAN}
    \cup {[kind |-> "vfp_status", cell |-> FPSCR, rd |-> rd, l |-> l] :
             rd \in {R1, PC}, l \in BOOLEAN}
    \cup {[kind |-> "vfp_status", cell |-> FPSID, rd |-> PC, l |-> T]}
    \* coprocessors 15 and 14
    \cup {[kind |-> "ignored"], [kind |-> "unsupported"]}
=============================================================================
