-------------------------------- MODULE Cpu --------------------------------
(***************************************************************************)
(* The register file, the processor modes and the status registers of      *)
(* cpu.c, with one action per kind of instruction cpu_tick executes.       *)
(*                                                                         *)
(* The instruction stream is any stream: memory is not modelled here, so   *)
(* the instruction fetched, the words it computes or loads and the flags   *)
(* it sets are chosen freely (Alu has the words of data processing).       *)
(* What is kept exactly is where a word goes: which bank, which status     *)
(* register, in which order, and what stops the emulator.                  *)
(*                                                                         *)
(* A word has the layout of the union cpsr of cpu.h: the mode in the low   *)
(* five bits, the other control bits below FlagUnit, the four condition    *)
(* flags from FlagUnit up.  FlagUnit is 2^28 in C.                         *)
(***************************************************************************)
EXTENDS Integers, FiniteSets

CONSTANTS
    Low,        \* the registers of R0 .. R7 that are followed
    High,       \* the registers of R8 .. R12 that are followed
    FlagUnit,   \* the weight of the lowest condition flag in a status word
    StartAddr,  \* emu->start_addr
    Data,       \* the words an instruction may compute or load
    Addresses,  \* the addresses a transfer may write back
    Offsets,    \* the branch offsets, as words
    Lists,      \* the sets of registers an instruction may load or write
    MaxTicks    \* bound: the number of instructions executed

Word == 0 .. 16 * FlagUnit - 1

SP == 13
LR == 14
PC == 15
Regs == Low \cup High \cup {SP, LR, PC}

ASSUME RegsAssumption == Low \subseteq 0 .. 7 /\ High \subseteq 8 .. 12
ASSUME FlagUnitAssumption == FlagUnit \in Nat /\ FlagUnit > 0 /\ FlagUnit % 32 = 0
ASSUME InputsAssumption ==
    /\ StartAddr \in Word
    /\ Data \subseteq Word
    /\ Addresses \subseteq Word
    /\ Offsets \subseteq Word
    /\ Lists \subseteq SUBSET Regs
    /\ MaxTicks \in Nat

MODE_USR == 16
MODE_FIQ == 17
MODE_IRQ == 18
MODE_SVC == 19
MODE_ABT == 23
MODE_UND == 27
MODE_SYS == 31

NoWrap(n) == n
Wrap(n) == n % (16 * FlagUnit)
ModeOf(psr) == psr % 32
WithMode(psr, m) == (psr - (psr % 32)) + m
Unmasked(psr, v) == v
WithFlags(psr, v) == ((v \div FlagUnit) * FlagUnit) + (psr % FlagUnit)

\* The carry is the second flag from below.
CarryUnit == 2 * FlagUnit
OtherCarry(psr) == IF (psr \div CarryUnit) % 2 = 1 THEN psr - CarryUnit
                                                   ELSE psr + CarryUnit

VARIABLES
    r,          \* the banks r_usr, r_fiq, ..: a word in every cell
    cpsr,       \* the current program status register
    spsr,       \* the saved program status registers
    status,     \* "run", "terminated" (emu->terminated), "fatal" (longjmp)
    msr,        \* history: the status registers a full MSR has written
    ticks       \* the number of instructions executed

vars == <<r, cpsr, spsr, status, msr, ticks>>
-----------------------------------------------------------------------------
(* Banks *)

\* The bank that holds SP and LR in mode m; "none" in an invalid mode.
Own(m) == CASE m \in {MODE_USR, MODE_SYS} -> "usr"
            [] m = MODE_FIQ -> "fiq"
            [] m = MODE_IRQ -> "irq"
            [] m = MODE_SVC -> "svc"
            [] m = MODE_ABT -> "abt"
            [] m = MODE_UND -> "und"
            [] OTHER -> "none"

Saved == {"svc", "abt", "und", "irq", "fiq"}
HandlerMode == [b \in Saved |-> CASE b = "svc" -> MODE_SVC
                                  [] b = "abt" -> MODE_ABT
                                  [] b = "und" -> MODE_UND
                                  [] b = "irq" -> MODE_IRQ
                                  [] b = "fiq" -> MODE_FIQ]

Cell == ({"usr"} \X Regs) \cup ({"fiq"} \X High) \cup (Saved \X {SP, LR})

OneExceptionStack(m, reg) == CASE reg = SP /\ Own(m) \in Saved -> "svc"
                               [] reg \in {SP, LR} -> Own(m)
                               [] reg \in High /\ m = MODE_FIQ -> "fiq"
                               [] OTHER -> "usr"

BankOf(m, reg) == CASE reg \in {SP, LR} -> Own(m)
                    [] reg \in High /\ m = MODE_FIQ -> "fiq"
                    [] OTHER -> "usr"

CellOf(m, reg) == <<BankOf(m, reg), reg>>
Pc == <<"usr", PC>>

\* cpu_read_register is fatal, and cpu_write_register without effect, for the
\* SP and LR of an invalid mode.
Accessible(m, reg) == CellOf(m, reg) \in Cell

Read(f, m, reg) == IF reg = PC THEN Wrap(f[Pc] + 4) ELSE f[CellOf(m, reg)]

Write(f, m, reg, v) ==
    IF Accessible(m, reg) THEN [f EXCEPT ![CellOf(m, reg)] = v] ELSE f

\* v has the word of each register.
WriteAll(f, cells, v) == [c \in Cell |-> IF c \in cells THEN v[c[2]] ELSE f[c]]

ReadSpsr(m) == IF Own(m) \in Saved THEN spsr[Own(m)] ELSE 0

WriteSpsr(m, v) ==
    spsr' = IF Own(m) \in Saved THEN [spsr EXCEPT ![Own(m)] = v] ELSE spsr

Mode == ModeOf(cpsr)
-----------------------------------------------------------------------------
Init ==
    /\ r = [c \in Cell |-> IF c = Pc THEN StartAddr ELSE 0]
    /\ cpsr = MODE_SVC
    /\ spsr = [b \in Saved |-> 0]
    /\ status = "run"
    /\ msr = {}
    /\ ticks = 0

\* The fetch every tick starts with.
Tick == /\ status = "run"
        /\ ticks < MaxTicks
        /\ ticks' = ticks + 1

Fetched == [r EXCEPT ![Pc] = Wrap(@ + 4)]

\* emulator_fatal: the longjmp abandons the instruction.  What it had already
\* written is freed unread by main, so it is not kept.
Fatal == /\ status' = "fatal"
         /\ r' = Fetched
         /\ UNCHANGED <<cpsr, spsr, msr>>

-----------------------------------------------------------------------------
(* Instructions that leave the control bits of cpsr alone *)

\* A failing condition, PLD, coprocessor 15, a store without write-back.
Ignored == /\ Tick
           /\ r' = Fetched
           /\ UNCHANGED <<cpsr, spsr, status, msr>>

\* The word zero ends the program.
Stop == /\ Tick
        /\ status' = "terminated"
        /\ r' = Fetched
        /\ UNCHANGED <<cpsr, spsr, msr>>

\* WFI is a breakpoint, and then executes as the TEQ it decodes to.  A command
\* that dumps the stack reads SP.
Breakpoint(quit, flags) ==
    /\ Tick
    /\ \/ ~ Accessible(Mode, SP) /\ Fatal
       \/ /\ status' = IF quit THEN "terminated" ELSE "run"
          /\ r' = Fetched
          /\ cpsr' = WithFlags(cpsr, flags)
          /\ UNCHANGED <<spsr, msr>>

\* An instruction for a coprocessor that is not there, a malformed transfer.
Unsupported == Tick /\ Fatal

\* A register operand rn is read, the registers rl (none for a compare, two for
\* a long multiply) get the words v and the condition flags those of the word flags: data
\* processing, multiply, swap, transfers from the VFP.
DataProcessing(rn, rl, v, flags) ==
    /\ Tick
    /\ \/ ~ Accessible(Mode, rn) /\ Fatal
       \/ /\ Accessible(Mode, rn)
          /\ r' = WriteAll(Fetched, {CellOf(Mode, reg) : reg \in rl}, v)
          /\ cpsr' = WithFlags(cpsr, flags)
          /\ UNCHANGED <<spsr, status, msr>>

\* LDR and STR with the loaded word v and the written-back address base.
SingleTransfer(rn, rd, l, w, v, base) ==
    LET loaded == IF l THEN Write(Fetched, Mode, rd, v) ELSE Fetched
        legal  == /\ Accessible(Mode, rn)
                  /\ ~ l => Accessible(Mode, rd)
                  /\ ~ (w /\ rn = PC)
    IN  /\ Tick
        /\ \/ ~ legal /\ Fatal
           \/ /\ legal
              /\ r' = IF w THEN Write(loaded, Mode, rn, base) ELSE loaded
              /\ UNCHANGED <<cpsr, spsr, status, msr>>

\* B and BL
Branch(offset, l) ==
    LET pc     == Read(Fetched, Mode, PC)
        jumped == [Fetched EXCEPT ![Pc] = Wrap(pc + offset)]
    IN  /\ Tick
        /\ r' = IF l THEN Write(jumped, Mode, LR, Wrap(pc - 4)) ELSE jumped
        /\ UNCHANGED <<cpsr, spsr, status, msr>>

\* BX: the test for THUMB looks at the number of the register.
BranchExchange(rn) ==
    LET legal == rn % 2 = 0 /\ Accessible(Mode, rn)
    IN  /\ Tick
        /\ \/ ~ legal /\ Fatal
           \/ /\ legal
              /\ r' = [Fetched EXCEPT ![Pc] = Read(Fetched, Mode, rn)]
              /\ UNCHANGED <<cpsr, spsr, status, msr>>

-----------------------------------------------------------------------------
(* Status registers *)

\* MRS from CPSR, and from SPSR, which the code refuses outside user mode.
MrsCpsr(rd) == /\ Tick
               /\ r' = Write(Fetched, Mode, rd, cpsr)
               /\ UNCHANGED <<cpsr, spsr, status, msr>>

MrsSpsr(rd) ==
    /\ Tick
    /\ \/ Mode # MODE_USR /\ Fatal
       \/ /\ Mode = MODE_USR
          /\ r' = Write(Fetched, Mode, rd, ReadSpsr(Mode))
          /\ UNCHANGED <<cpsr, spsr, status, msr>>

UserWritesAll(v, flagsOnly) ==
    /\ cpsr' = IF flagsOnly THEN WithFlags(cpsr, v) ELSE v
    /\ msr' = IF flagsOnly THEN msr ELSE msr \cup {"cpsr"}
    /\ r' = Fetched
    /\ UNCHANGED <<spsr, status>>

\* write_psr to the CPSR: only the flags in user mode.
WriteCpsr(v, flagsOnly) ==
    LET partial == flagsOnly \/ Mode = MODE_USR
    IN  /\ cpsr' = IF partial THEN WithFlags(cpsr, v) ELSE v
        /\ msr' = IF partial THEN msr ELSE msr \cup {"cpsr"}
        /\ r' = Fetched
        /\ UNCHANGED <<spsr, status>>

\* write_psr to the SPSR of the current mode; none in SYS or an invalid mode.  f
\* has the flags of cpsr by then.
WriteSavedPsr(v, flagsOnly, f) ==
    \/ Mode = MODE_USR /\ Fatal
    \/ /\ Mode # MODE_USR
       /\ WriteSpsr(Mode, IF flagsOnly THEN WithFlags(ReadSpsr(Mode), v) ELSE v)
       /\ msr' = IF flagsOnly THEN msr ELSE msr \cup ({Own(Mode)} \cap Saved)
       /\ cpsr' = WithFlags(cpsr, f)
       /\ r' = Fetched
       /\ UNCHANGED status

\* MSR: the whole register rm, or the flags of rm or of an immediate.  The
\* immediate v is computed as a shifted register rm, with the rotation for the
\* bit that lets the shifter set the carry before the status register is written.
Msr(saved, rm) ==
    /\ Tick
    /\ \/ ~ Accessible(Mode, rm) /\ Fatal
       \/ /\ Accessible(Mode, rm)
          /\ LET v == Read(Fetched, Mode, rm)
             IN  IF saved THEN WriteSavedPsr(v, FALSE, cpsr) ELSE WriteCpsr(v, FALSE)

MsrFlags(saved, rm, v) ==
    /\ Tick
    /\ \/ ~ Accessible(Mode, rm) /\ Fatal
       \/ /\ Accessible(Mode, rm)
          /\ \E w \in {v, Read(Fetched, Mode, rm)}, f \in {cpsr, OtherCarry(cpsr)} :
                 IF saved THEN WriteSavedPsr(w, TRUE, f) ELSE WriteCpsr(w, TRUE)

-----------------------------------------------------------------------------
(* Exceptions *)

SavesInterrupted(mode, vector) ==
    LET linked == Write(Fetched, mode, LR, Read(Fetched, mode, PC))
    IN  /\ Tick
        /\ cpsr' = WithMode(cpsr, mode)
        /\ r' = [linked EXCEPT ![Pc] = vector]
        /\ WriteSpsr(mode, cpsr)
        /\ UNCHANGED <<status, msr>>

\* The mode changes before LR and SPSR are written, both of the new mode.
Exception(mode, vector) ==
    LET entered == WithMode(cpsr, mode)
        linked  == Write(Fetched, mode, LR, Read(Fetched, mode, PC))
    IN  /\ Tick
        /\ cpsr' = entered
        /\ r' = [linked EXCEPT ![Pc] = vector]
        /\ WriteSpsr(mode, entered)
        /\ UNCHANGED <<status, msr>>

Swi == Exception(MODE_SVC, 8)
Undefined == Exception(MODE_UND, 4)

-----------------------------------------------------------------------------
(* Block transfers *)

BlockLegal(rn, rl, s) == /\ rl # {}
                         /\ rn # PC
                         /\ s => Mode \notin {MODE_USR, MODE_SYS}
                         /\ Accessible(Mode, rn)

\* LDM: v has the words loaded into the registers of the list and base is the
\* address written back: when the loop meets rn, before rn is loaded, or at the
\* end, after cpsr has been restored.  With s the list is that of the user bank.
LoadMultiple(rn, rl, s, w, v, base) ==
    LET targets  == {IF s THEN <<"usr", reg>> ELSE CellOf(Mode, reg) : reg \in rl}
        early    == w /\ rn \in rl
        based    == IF early THEN Write(Fetched, Mode, rn, base) ELSE Fetched
        loaded   == WriteAll(based, targets, v)
        restored == IF s /\ PC \in rl THEN ReadSpsr(Mode) ELSE cpsr
    IN  /\ Tick
        /\ \/ ~ BlockLegal(rn, rl, s) /\ Fatal
           \/ /\ BlockLegal(rn, rl, s)
              /\ cpsr' = restored
              /\ r' = IF w /\ rn \notin rl
                      THEN Write(loaded, ModeOf(restored), rn, base)
                      ELSE loaded
              /\ UNCHANGED <<spsr, status, msr>>

\* STM: only the write-back changes a register.
StoreMultiple(rn, rl, s, w, base) ==
    LET legal == /\ BlockLegal(rn, rl, s)
                 /\ ~ s => \A reg \in rl : Accessible(Mode, reg)
    IN  /\ Tick
        /\ \/ ~ legal /\ Fatal
           \/ /\ legal
              /\ r' = IF w THEN Write(Fetched, Mode, rn, base) ELSE Fetched
              /\ UNCHANGED <<cpsr, spsr, status, msr>>
-----------------------------------------------------------------------------
Next ==
    \/ Ignored
    \/ Stop
    \/ Unsupported
    \/ \E quit \in BOOLEAN, f \in Data : Breakpoint(quit, f)
    \/ \E rn \in Regs, rl \in Lists, f \in Data \cup {cpsr} :
           \E v \in [rl -> Data] : DataProcessing(rn, rl, v, f)
    \/ \E rn, rd \in Regs, l, w \in BOOLEAN, v \in Data, b \in Addresses :
           SingleTransfer(rn, rd, l, w, v, b)
    \/ \E o \in Offsets, l \in BOOLEAN : Branch(o, l)
    \/ \E rn \in Regs : BranchExchange(rn)
    \/ \E rd \in Regs : MrsCpsr(rd)
    \/ \E rd \in Regs : MrsSpsr(rd)
    \/ \E saved \in BOOLEAN, rm \in Regs : Msr(saved, rm)
    \/ \E saved \in BOOLEAN, rm \in Regs, v \in Data : MsrFlags(saved, rm, v)
    \/ Swi
    \/ Undefined
    \/ \E rn \in Regs, rl \in Lists, s, w \in BOOLEAN, b \in Addresses :
           \E v \in [rl -> Data] : LoadMultiple(rn, rl, s, w, v, b)
    \/ \E rn \in Regs, rl \in Lists, s, w \in BOOLEAN, b \in Addresses :
           StoreMultiple(rn, rl, s, w, b)

Spec == Init /\ [][Next]_vars
-----------------------------------------------------------------------------
TypeOK ==
    /\ r \in [Cell -> Word]
    /\ cpsr \in Word
    /\ spsr \in [Saved -> Word]
    /\ status \in {"run", "terminated", "fatal"}
    /\ msr \subseteq Saved \cup {"cpsr"}
    /\ ticks \in 0 .. MaxTicks

\* The banks hide the modes from each other (cpu_read_register,
\* cpu_write_register): a step changes no register of a bank other than the bank
\* of the mode it starts in, of the mode it ends in, and the user bank.
Isolated ==
    \A c \in Cell : r'[c] # r[c] => c[1] \in {"usr", Own(Mode), Own(Mode')}

BankIsolation == [][Isolated]_vars

\* A step of user mode either leaves every control bit, every SPSR and every
\* other bank as it is, or is an exception that enters its vector and changes
\* only the LR and the SPSR of the handler's mode.
Confined ==
    /\ cpsr' % FlagUnit = cpsr % FlagUnit
    /\ spsr' = spsr
    /\ \A c \in Cell : c[1] # "usr" => r'[c] = r[c]

Enters(b, vector) ==
    /\ Mode' = HandlerMode[b]
    /\ r'[Pc] = vector
    /\ \A c \in Cell \ {Pc, <<b, LR>>} : r'[c] = r[c]
    /\ \A s \in Saved \ {b} : spsr'[s] = spsr[s]

UserStep ==
    Mode = MODE_USR => Confined \/ Enters("svc", 8) \/ Enters("und", 4)

UserConfined == [][UserStep]_vars

\* instr_swi and instr_undefined save the CPSR after they have changed its mode.
\* So until a full MSR fills it, the SPSR of a mode names that mode itself, or no
\* mode at all, and never the mode that was interrupted.
SavedModeIsOwn ==
    \A b \in Saved \ msr : ModeOf(spsr[b]) \in {0, HandlerMode[b]}

\* Consequently a program that never executes a full MSR runs in supervisor and
\* undefined mode only, or in the invalid mode 0 an LDM^ restores from an SPSR
\* nothing has filled: exception returns alone never reach user mode.
ModeNeedsMsr == msr = {} => Mode \in {MODE_SVC, MODE_UND, 0}

\* What comments and messages of cpu.c say, and the code does not do.

\* "Save PC in lr, with PC adjusted to the word after SWI instruction"
SwiLinksNext == [][Swi => r'[<<"svc", LR>>] = Wrap(r[Pc] + 4)]_vars

\* "Cannot read from SPSR in user mode": that read, and no other, is fatal.
SpsrReadInHandlers ==
    [][\A rd \in Regs : MrsSpsr(rd) => (status' = "fatal" <=> Mode = MODE_USR)]_vars
=============================================================================
