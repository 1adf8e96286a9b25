----------------------------- MODULE Transfers -----------------------------
(***************************************************************************)
(* The instructions of cpu.c that move words between registers and memory: *)
(* single, halfword and block transfers and the swap.  An instruction is a *)
(* record of the fields of opcode.h, and its kind is the handler cpu_tick  *)
(* has chosen (Decoder has the choice).  One mode is kept, since Cpu has   *)
(* the banks; the S bit of block transfers is one of theirs.               *)
(***************************************************************************)
EXTENDS Memory

CONSTANTS
    Regs,           \* the registers that are followed, PC among them
    Instructions    \* the instructions the program may hold

SP == 13
LR == 14
PC == 15

ASSUME RegsAssumption == Regs \subseteq 0 .. PC /\ {SP, PC} \subseteq Regs

\* The registers an instruction names are among those followed.
ASSUME TransfersAssumption == \A i \in Instructions :
    /\ i.kind = "single" => {i.rd, i.rn} \subseteq Regs /\ i.offset \in Int
    /\ i.kind = "half" => /\ {i.rd, i.rn, i.rm} \subseteq Regs /\ i.offset \in Int
                          /\ i.sh \in 0 .. 3
    /\ i.kind = "swap" => {i.rd, i.rn, i.rm} \subseteq Regs
    /\ i.kind = "block" => i.rn \in Regs /\ i.rl \subseteq Regs

VARIABLES
    r,          \* the registers of the mode
    status      \* "run", or "fatal" after emulator_fatal

\* The fetch moves PC, and reading it adds 4 more.
Fetched == [r EXCEPT ![PC] = Wrap(@ + 4)]
Read(f, reg) == IF reg = PC THEN Wrap(f[PC] + 4) ELSE f[reg]

SignByte(v) == IF v < Base \div 2 THEN v ELSE Wrap(v - Base)
SignWord(v) == IF v < (Base * Base) \div 2 THEN v ELSE Wrap(v - (Base * Base))

Fatal == /\ status' = "fatal"
         /\ UNCHANGED <<memory, r>>

Effect(m, f) == /\ memory' = m /\ r' = f
                /\ UNCHANGED status

\* The base register after the offset, which a halfword transfer may take from rm,
\* and the address transferred.
OffsetOf(i) == IF i.kind = "half" /\ ~ i.b THEN Read(Fetched, i.rm) ELSE i.offset
Moved(i) == LET base == Read(Fetched, i.rn)
            IN  Wrap(IF i.u THEN base + OffsetOf(i) ELSE base - OffsetOf(i))
Address(i) == IF i.p THEN Moved(i) ELSE Read(Fetched, i.rn)

\* The write-back comes last, over a word loaded into the base register.  That to PC
\* ends the program, after the transfer.
WritesBack(i) == i.w \/ ~ i.p
WriteBack(i, f) ==
    IF WritesBack(i) /\ i.rn # PC THEN [f EXCEPT ![i.rn] = Moved(i)] ELSE f
Finish(i, m, f) ==
    /\ memory' = m /\ r' = WriteBack(i, f)
    /\ status' = IF WritesBack(i) /\ i.rn = PC THEN "fatal" ELSE status
-----------------------------------------------------------------------------
(* Handlers.  x is what a device answers, or what devices answer to each   *)
(* register of a list.                                                     *)

\* instr_single_data_trans
Single(i, x) ==
    LET a == Address(i)
        v == Read(Fetched, i.rd)
    IN  IF i.l THEN Finish(i, memory, [Fetched EXCEPT ![i.rd] =
                               IF i.b THEN ReadByte(memory, a)
                                      ELSE ReadDword(memory, a, x)])
               ELSE Finish(i, IF i.b THEN WriteByte(memory, a, v)
                                     ELSE WriteDword(memory, a, v),
                           Fetched)

\* instr_single_data_swap on the registers rd, rn and rm: the memory and the
\* registers after it.
Swapped(i, f, x) ==
    LET a == f[i.rn]
    IN  IF i.b THEN [m |-> WriteByte(memory, a, f[i.rm]),
                     f |-> [f EXCEPT ![i.rd] = ReadByte(memory, a)]]
               ELSE [m |-> WriteDword(memory, a, f[i.rm]),
                     f |-> [f EXCEPT ![i.rd] = ReadDword(memory, a, x)]]

Swap(i, x) ==
    \/ PC \in {i.rd, i.rn, i.rm} /\ Fatal
    \/ /\ PC \notin {i.rd, i.rn, i.rm}
       /\ LET s == Swapped(i, Fetched, x) IN Effect(s.m, s.f)

\* instr_hw_sd_transfer.  b is the bit that says the offset is an immediate, which
\* the swap of sh = 0 takes for its own; that swap addresses rn, whatever p and u.
\* A store of PC moves the address where the comment moves the word (cpu.c:1142).
HalfLegal(i) ==
    /\ i.b \/ i.rm # PC
    /\ i.sh = 0 => PC \notin {i.rd, i.rn, i.rm}
    /\ i.sh \in {2, 3} => i.l

HalfEffect(i, x) ==
    LET a == Address(i)
        w == ReadWord(memory, a)
        s == Swapped(i, Fetched, x)
        load(v) == Finish(i, memory, [Fetched EXCEPT ![i.rd] = v])
    IN  CASE i.sh = 0 -> Finish(i, s.m, s.f)
          [] i.sh = 1 /\ i.l -> load(w)
          [] i.sh = 1 /\ ~ i.l ->
                 Finish(i, WriteWord(memory, IF i.rd = PC THEN Wrap(a + 12) ELSE a,
                                     Read(Fetched, i.rd)), Fetched)
          [] i.sh = 2 -> load(SignByte(ReadByte(memory, a)))
          [] i.sh = 3 -> load(SignWord(w))

Halfword(i, x) == \/ ~ HalfLegal(i) /\ Fatal
                  \/ HalfLegal(i) /\ HalfEffect(i, x)

\* One turn of the loop of instr_block_data_transfer for the register reg, from the
\* memory m, the registers f and the address a: the base is written back when the
\* loop meets it, before it is loaded or stored.
Turn(i, t, reg, x) ==
    LET step == IF i.u THEN 4 ELSE -4
        a    == IF i.p THEN Wrap(t.a + step) ELSE t.a
        f    == IF i.w /\ reg = i.rn THEN [t.f EXCEPT ![reg] = a] ELSE t.f
    IN  [m |-> IF i.l THEN t.m ELSE WriteDword(t.m, a, Read(f, reg)),
         f |-> IF i.l THEN [f EXCEPT ![reg] = ReadDword(t.m, a, x[reg])] ELSE f,
         a |-> IF i.p THEN a ELSE Wrap(a + step)]

\* The register of the k-th turn: the loop counts the 16 registers in the direction
\* of the addresses.
Ascending(i, k) == k - 1

InOrder(i, k) == IF i.u THEN k - 1 ELSE 16 - k

Block(i, x) ==
    LET base == Read(Fetched, i.rn)
        turns[k \in 0 .. 16] ==
            CASE k = 0 -> [m |-> memory, f |-> Fetched, a |-> base - (base % 4)]
              [] k # 0 /\ InOrder(i, k) \in i.rl -> Turn(i, turns[k - 1], InOrder(i, k), x)
              [] OTHER -> turns[k - 1]
        end  == turns[16]
    IN  \/ (i.rl = {} \/ i.rn = PC) /\ Fatal
        \/ /\ i.rl # {} /\ i.rn # PC
           /\ Effect(end.m, IF i.w /\ i.rn \notin i.rl THEN [end.f EXCEPT ![i.rn] = end.a]
                                                       ELSE end.f)
=============================================================================
