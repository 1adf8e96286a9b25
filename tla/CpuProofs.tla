------------------------------ MODULE CpuProofs ------------------------------
(***************************************************************************)
(* Proofs about Cpu: its type invariant, the isolation of the register     *)
(* banks, the confinement of user mode and what an SPSR can hold.          *)
(***************************************************************************)
EXTENDS Cpu, TLAPS

-----------------------------------------------------------------------------
(* Arithmetic of words: the layout of a status register *)

LEMMA DivMod ==
    ASSUME NEW a \in Nat, NEW d \in Nat, d > 0
    PROVE  /\ a \div d \in Nat
           /\ a % d \in 0 .. d - 1
           /\ a = d * (a \div d) + (a % d)
OBVIOUS

LEMMA Add32 == ASSUME NEW a \in Int, NEW b \in Nat
               PROVE  (32 * a + b) % 32 = b % 32
OBVIOUS

LEMMA FlagUnitMultiple == \E k \in Nat : k > 0 /\ FlagUnit = 32 * k
<1>1. FlagUnit = 32 * (FlagUnit \div 32)
  BY FlagUnitAssumption
<1>2. FlagUnit \div 32 \in Nat /\ FlagUnit \div 32 > 0
  BY FlagUnitAssumption
<1> QED
  BY <1>1, <1>2

\* The mode is part of the control bits.
LEMMA ModeOfControl == ASSUME NEW a \in Nat
                       PROVE  (a % FlagUnit) % 32 = a % 32
<1>1. PICK k \in Nat : k > 0 /\ FlagUnit = 32 * k
  BY FlagUnitMultiple
<1>2. /\ a % FlagUnit \in Nat
      /\ a \div FlagUnit \in Nat
      /\ a = FlagUnit * (a \div FlagUnit) + (a % FlagUnit)
  BY DivMod, FlagUnitAssumption
<1>3. FlagUnit * (a \div FlagUnit) = 32 * (k * (a \div FlagUnit))
  BY <1>1, <1>2
<1>4. a = 32 * (k * (a \div FlagUnit)) + (a % FlagUnit)
  BY <1>2, <1>3
<1>5. k * (a \div FlagUnit) \in Int
  BY <1>2
<1>6. (32 * (k * (a \div FlagUnit)) + (a % FlagUnit)) % 32 = (a % FlagUnit) % 32
  BY <1>2, <1>5, Add32
<1> QED
  BY ONLY <1>4, <1>6

LEMMA WrapWord == ASSUME NEW n \in Int PROVE Wrap(n) \in Word
  BY FlagUnitAssumption DEF Wrap, Word

LEMMA ModeRange == ASSUME NEW w \in Word PROVE ModeOf(w) \in 0 .. 31
  BY FlagUnitAssumption DEF ModeOf, Word

LEMMA SmallWords == 0 .. 31 \subseteq Word
  BY FlagUnitAssumption DEF Word

\* Writing the flags leaves every control bit, and so the mode, as it is.
LEMMA WithFlagsControl ==
    ASSUME NEW psr \in Word, NEW v \in Word
    PROVE  /\ WithFlags(psr, v) \in Word
           /\ WithFlags(psr, v) % FlagUnit = psr % FlagUnit
           /\ ModeOf(WithFlags(psr, v)) = ModeOf(psr)
<1> DEFINE q == v \div FlagUnit
           c == psr % FlagUnit
<1>1. psr \in Nat /\ v \in Nat /\ v < 16 * FlagUnit /\ FlagUnit \in Nat /\ FlagUnit > 0
  BY FlagUnitAssumption DEF Word
<1>2. c \in 0 .. FlagUnit - 1
  BY <1>1, DivMod
<1>3. q \in 0 .. 15
  <2>1. q \in Nat /\ v = FlagUnit * q + (v % FlagUnit) /\ v % FlagUnit \in Nat
    BY <1>1, DivMod
  <2>2. SUFFICES ASSUME q >= 16 PROVE FALSE
    BY <2>1
  <2>3. FlagUnit * q >= 16 * FlagUnit
    BY <1>1, <2>1, <2>2
  <2> HIDE DEF q
  <2> QED
    BY <1>1, <2>1, <2>3
<1>4. WithFlags(psr, v) = q * FlagUnit + c
  BY DEF WithFlags
<1>5. q * FlagUnit + c \in Word
  <2>1. q * FlagUnit <= 15 * FlagUnit /\ q * FlagUnit \in Nat
    BY <1>1, <1>3
  <2> HIDE DEF q, c
  <2> QED
    BY <1>1, <1>2, <2>1 DEF Word
<1>6. (q * FlagUnit + c) % FlagUnit = c
  <2> HIDE DEF q, c
  <2> QED
    BY <1>1, <1>2, <1>3
<1>7. ModeOf(WithFlags(psr, v)) = c % 32
  <2>1. (q * FlagUnit + c) \in Nat
    BY <1>5 DEF Word
  <2>2. ((q * FlagUnit + c) % FlagUnit) % 32 = (q * FlagUnit + c) % 32
    BY <2>1, ModeOfControl
  <2> QED
    BY <1>4, <1>6, <2>2 DEF ModeOf
<1>8. ModeOf(psr) = c % 32
  BY <1>1, ModeOfControl DEF ModeOf
<1> QED
  BY <1>4, <1>5, <1>6, <1>7, <1>8

LEMMA OtherCarryWord == ASSUME NEW psr \in Word PROVE OtherCarry(psr) \in Word
<1> DEFINE q == psr \div CarryUnit
           c == psr % CarryUnit
<1>1. psr \in Nat /\ psr < 8 * CarryUnit /\ CarryUnit \in Nat /\ CarryUnit > 0
  BY FlagUnitAssumption DEF Word, CarryUnit
<1>2. q \in Nat /\ c \in 0 .. CarryUnit - 1 /\ psr = CarryUnit * q + c
  BY <1>1, DivMod
<1>3. q <= 7
  <2>1. SUFFICES ASSUME q >= 8 PROVE FALSE
    BY <1>2
  <2>2. CarryUnit * q >= 8 * CarryUnit
    <3> HIDE DEF q, c
    <3> QED
      BY <1>1, <1>2, <2>1
  <2> HIDE DEF q, c
  <2> QED
    BY <1>1, <1>2, <2>2
<1>4. OtherCarry(psr) = IF q % 2 = 1 THEN psr - CarryUnit ELSE psr + CarryUnit
  BY DEF OtherCarry
<1>5. OtherCarry(psr) \in 0 .. 8 * CarryUnit - 1
  <2> HIDE DEF q, c
  <2>1. CASE q % 2 = 1
    <3>1. CarryUnit * q >= CarryUnit
      BY <1>1, <1>2, <2>1
    <3> QED
      BY <1>1, <1>2, <1>4, <2>1, <3>1
  <2>2. CASE q % 2 # 1
    <3>1. q <= 6
      BY <1>2, <1>3, <2>2
    <3>2. CarryUnit * q <= 6 * CarryUnit
      BY <1>1, <1>2, <3>1
    <3> QED
      BY <1>1, <1>2, <1>4, <2>2, <3>2
  <2> QED
    BY <2>1, <2>2
<1> QED
  BY <1>5, FlagUnitAssumption DEF Word, CarryUnit

\* Entering a mode changes nothing but the mode field.
LEMMA WithModeMode ==
    ASSUME NEW psr \in Word, NEW m \in 0 .. 31
    PROVE  WithMode(psr, m) \in Word /\ ModeOf(WithMode(psr, m)) = m
<1>1. PICK k \in Nat : k > 0 /\ FlagUnit = 32 * k
  BY FlagUnitMultiple
<1>2. psr \in Nat /\ psr < 512 * k
  BY <1>1 DEF Word
<1> QED
  BY <1>1, <1>2 DEF WithMode, ModeOf, Word
-----------------------------------------------------------------------------
(* The register file *)

File == [Cell -> Word]

\* Only cells of the user bank and of the mode's own bank are ever named.
LEMMA CellOfMode ==
    ASSUME NEW m \in 0 .. 31, NEW reg \in Regs
    PROVE  CellOf(m, reg)[1] \in {"usr", Own(m)}
<1>1. Own(MODE_FIQ) = "fiq"
  BY DEF Own, MODE_FIQ, MODE_USR, MODE_SYS, MODE_IRQ, MODE_SVC, MODE_ABT, MODE_UND
<1>2. BankOf(m, reg) \in {"usr", Own(m)}
  <2>1. CASE reg \in {SP, LR}
    <3>1. reg \notin High
      BY <2>1, RegsAssumption DEF SP, LR
    <3> QED
      BY <2>1, <3>1 DEF BankOf
  <2>2. CASE reg \notin {SP, LR} /\ reg \in High /\ m = MODE_FIQ
    BY <2>2, <1>1 DEF BankOf
  <2>3. CASE reg \notin {SP, LR} /\ ~ (reg \in High /\ m = MODE_FIQ)
    BY <2>3 DEF BankOf
  <2> QED
    BY <2>1, <2>2, <2>3
<1> QED
  BY <1>2 DEF CellOf

LEMMA CellPair == \A c \in Cell : c[1] \in Saved \cup {"usr"} /\ c[2] \in Regs
  BY DEF Cell, Saved, Regs

LEMMA PcCell == Pc \in Cell /\ Pc[1] = "usr"
  BY DEF Pc, Cell, Regs, PC

LEMMA FetchedFile ==
    ASSUME r \in File
    PROVE  /\ Fetched \in File
           /\ \A c \in Cell \ {Pc} : Fetched[c] = r[c]
<1>1. r[Pc] \in Word
  BY PcCell DEF File
<1>2. Wrap(r[Pc] + 4) \in Word
  BY <1>1, WrapWord DEF Word
<1> QED
  BY <1>2 DEF Fetched, File

LEMMA ReadWord ==
    ASSUME NEW f \in File, NEW m, NEW reg \in Regs, Accessible(m, reg)
    PROVE  Read(f, m, reg) \in Word
<1>1. CASE reg = PC
  <2>1. f[Pc] \in Word
    BY PcCell DEF File
  <2>2. f[Pc] + 4 \in Int
    BY <2>1 DEF Word
  <2> QED
    BY <1>1, <2>2, WrapWord DEF Read
<1>2. CASE reg # PC
  BY <1>2 DEF Read, Accessible, File
<1> QED
  BY <1>1, <1>2

LEMMA ReadPc ==
    ASSUME NEW f \in File, NEW m
    PROVE  Read(f, m, PC) = Wrap(f[Pc] + 4) /\ Read(f, m, PC) \in Word
<1>1. f[Pc] \in Word
  BY PcCell DEF File
<1>2. f[Pc] + 4 \in Int
  BY <1>1 DEF Word
<1> QED
  BY <1>2, WrapWord DEF Read

LEMMA WriteFile ==
    ASSUME NEW f \in File, NEW m, NEW reg, NEW v \in Word
    PROVE  /\ Write(f, m, reg, v) \in File
           /\ \A c \in Cell : c # CellOf(m, reg) => Write(f, m, reg, v)[c] = f[c]
  BY DEF Write, File

LEMMA WriteAllFile ==
    ASSUME NEW f \in File, NEW cells, NEW v, \A c \in cells : v[c[2]] \in Word
    PROVE  /\ WriteAll(f, cells, v) \in File
           /\ \A c \in Cell \ cells : WriteAll(f, cells, v)[c] = f[c]
  BY DEF WriteAll, File

LEMMA PutPc ==
    ASSUME NEW f \in File, NEW v \in Word
    PROVE  /\ [f EXCEPT ![Pc] = v] \in File
           /\ \A c \in Cell \ {Pc} : [f EXCEPT ![Pc] = v][c] = f[c]
           /\ [f EXCEPT ![Pc] = v][Pc] = v
  BY PcCell DEF File

\* What every kind of step keeps, and the cells it may change.
Shape == TypeOK' /\ Isolated

LEMMA SavedPsr ==
    ASSUME TypeOK, NEW m PROVE ReadSpsr(m) \in Word
  BY SmallWords DEF TypeOK, ReadSpsr

LEMMA ModeNow == ASSUME TypeOK PROVE Mode \in 0 .. 31
  BY ModeRange DEF TypeOK, Mode

LEMMA TickTicks == ASSUME TypeOK, Tick PROVE ticks' \in 0 .. MaxTicks
  BY InputsAssumption DEF TypeOK, Tick

LEMMA FatalShape == ASSUME TypeOK, Tick, Fatal PROVE Shape
<1>1. r \in File
  BY DEF TypeOK, File
<1>2. Fetched \in File /\ \A c \in Cell \ {Pc} : Fetched[c] = r[c]
  BY <1>1, FetchedFile
<1> QED
  BY <1>2, TickTicks, PcCell DEF TypeOK, Fatal, Shape, Isolated, File

LEMMA IgnoredShape == ASSUME TypeOK, Ignored \/ Stop \/ Unsupported PROVE Shape
<1>1. r \in File
  BY DEF TypeOK, File
<1>2. Fetched \in File /\ \A c \in Cell \ {Pc} : Fetched[c] = r[c]
  BY <1>1, FetchedFile
<1>3. CASE Unsupported
  BY <1>3, FatalShape DEF Unsupported
<1>4. CASE Ignored
  BY <1>4, <1>2, TickTicks, PcCell DEF TypeOK, Ignored, Shape, Isolated, File
<1>5. CASE Stop
  BY <1>5, <1>2, TickTicks, PcCell DEF TypeOK, Stop, Shape, Isolated, File
<1> QED
  BY <1>3, <1>4, <1>5

LEMMA BreakpointShape ==
    ASSUME TypeOK, NEW quit \in BOOLEAN, NEW f \in Data, Breakpoint(quit, f)
    PROVE  Shape
<1>1. r \in File
  BY DEF TypeOK, File
<1>2. Fetched \in File /\ \A c \in Cell \ {Pc} : Fetched[c] = r[c]
  BY <1>1, FetchedFile
<1>3. WithFlags(cpsr, f) \in Word
  BY WithFlagsControl, InputsAssumption DEF TypeOK
<1>4. Tick
  BY DEF Breakpoint
<1>5. CASE Fatal
  BY <1>4, <1>5, FatalShape
<1>6. CASE ~ Fatal
  <2>1. /\ status' \in {"terminated", "run"}
        /\ r' = Fetched
        /\ cpsr' = WithFlags(cpsr, f)
        /\ UNCHANGED <<spsr, msr>>
    BY <1>6 DEF Breakpoint
  <2> QED
    BY <1>2, <1>3, <1>4, <2>1, TickTicks, PcCell DEF TypeOK, Shape, Isolated, File
<1> QED
  BY <1>5, <1>6

LEMMA DataProcessingShape ==
    ASSUME TypeOK, NEW rn \in Regs, NEW rl \in Lists, NEW v \in [rl -> Data],
           NEW f \in Word, DataProcessing(rn, rl, v, f)
    PROVE  Shape
<1> DEFINE cells == {CellOf(Mode, reg) : reg \in rl}
<1>1. r \in File
  BY DEF TypeOK, File
<1>2. Fetched \in File /\ \A c \in Cell \ {Pc} : Fetched[c] = r[c]
  BY <1>1, FetchedFile
<1>3. WithFlags(cpsr, f) \in Word /\ \A c \in cells : v[c[2]] \in Word
  BY WithFlagsControl, InputsAssumption DEF TypeOK, CellOf
<1>4. Tick
  BY DEF DataProcessing
<1>5. CASE Fatal
  BY <1>4, <1>5, FatalShape
<1>6. CASE ~ Fatal
  <2>1. /\ r' = WriteAll(Fetched, cells, v)
        /\ cpsr' = WithFlags(cpsr, f)
        /\ UNCHANGED <<spsr, status, msr>>
    BY <1>6 DEF DataProcessing
  <2>2. r' \in File /\ \A c \in Cell \ cells : r'[c] = Fetched[c]
    BY <1>2, <1>3, <2>1, WriteAllFile
  <2>3. \A c \in cells : c[1] \in {"usr", Own(Mode)}
    BY ModeNow, CellOfMode, InputsAssumption
  <2>4. Isolated
    BY <1>2, <2>2, <2>3, PcCell DEF Isolated
  <2> QED
    BY <1>3, <1>4, <2>1, <2>2, <2>4, TickTicks DEF TypeOK, Shape, File
<1> QED
  BY <1>5, <1>6

LEMMA SingleTransferShape ==
    ASSUME TypeOK, NEW rn \in Regs, NEW rd \in Regs, NEW l \in BOOLEAN,
           NEW w \in BOOLEAN, NEW v \in Data, NEW base \in Addresses,
           SingleTransfer(rn, rd, l, w, v, base)
    PROVE  Shape
<1> DEFINE loaded == IF l THEN Write(Fetched, Mode, rd, v) ELSE Fetched
           put    == IF w THEN Write(loaded, Mode, rn, base) ELSE loaded
<1>1. r \in File
  BY DEF TypeOK, File
<1>2. Fetched \in File /\ \A c \in Cell \ {Pc} : Fetched[c] = r[c]
  BY <1>1, FetchedFile
<1>3. v \in Word /\ base \in Word
  BY InputsAssumption
<1>4. Tick
  BY DEF SingleTransfer
<1>5. CASE Fatal
  BY <1>4, <1>5, FatalShape
<1>6. CASE ~ Fatal
  <2>1. r' = put /\ UNCHANGED <<cpsr, spsr, status, msr>>
    BY <1>6 DEF SingleTransfer
  <2>2. loaded \in File /\ \A c \in Cell \ {CellOf(Mode, rd)} : loaded[c] = Fetched[c]
    BY <1>2, <1>3, WriteFile
  <2>3. put \in File /\ \A c \in Cell \ {CellOf(Mode, rn)} : put[c] = loaded[c]
    <3> HIDE DEF loaded
    <3> QED
      BY <1>3, <2>2, WriteFile
  <2>4. {CellOf(Mode, rd)[1], CellOf(Mode, rn)[1]} \subseteq {"usr", Own(Mode)}
    BY ModeNow, CellOfMode
  <2>5. Isolated
    <3> HIDE DEF put, loaded
    <3> QED
      BY <1>2, <2>1, <2>2, <2>3, <2>4, PcCell DEF Isolated
  <2> QED
    BY <1>4, <2>1, <2>3, <2>5, TickTicks DEF TypeOK, Shape, File
<1> QED
  BY <1>5, <1>6

LEMMA BranchShape ==
    ASSUME TypeOK, NEW o \in Offsets, NEW l \in BOOLEAN, Branch(o, l)
    PROVE  Shape
<1> DEFINE pc     == Read(Fetched, Mode, PC)
           jumped == [Fetched EXCEPT ![Pc] = Wrap(pc + o)]
           linked == Write(jumped, Mode, LR, Wrap(pc - 4))
<1>1. r \in File
  BY DEF TypeOK, File
<1>2. Fetched \in File /\ \A c \in Cell \ {Pc} : Fetched[c] = r[c]
  BY <1>1, FetchedFile
<1>3. Wrap(pc + o) \in Word /\ Wrap(pc - 4) \in Word
  <2>1. pc \in Word /\ o \in Word
    BY <1>2, ReadPc, InputsAssumption
  <2>2. pc + o \in Int /\ pc - 4 \in Int
    BY <2>1 DEF Word
  <2> QED
    BY <2>2, WrapWord
<1>4. jumped \in File /\ \A c \in Cell \ {Pc} : jumped[c] = Fetched[c]
  BY <1>2, <1>3, PutPc
<1>5. linked \in File /\ \A c \in Cell : c # CellOf(Mode, LR) => linked[c] = jumped[c]
  <2> HIDE DEF jumped, pc
  <2> QED
    BY <1>3, <1>4, WriteFile
<1>6. r' \in {jumped, linked} /\ UNCHANGED <<cpsr, spsr, status, msr>> /\ Tick
  BY DEF Branch
<1>7. CellOf(Mode, LR)[1] \in {"usr", Own(Mode)}
  BY ModeNow, CellOfMode DEF Regs
<1>8. Isolated
  <2> HIDE DEF linked, jumped
  <2> QED
    BY <1>2, <1>4, <1>5, <1>6, <1>7, PcCell DEF Isolated
<1> QED
  BY <1>4, <1>5, <1>6, <1>8, TickTicks DEF TypeOK, Shape, File

LEMMA BranchExchangeShape ==
    ASSUME TypeOK, NEW rn \in Regs, BranchExchange(rn)
    PROVE  Shape
<1>1. r \in File
  BY DEF TypeOK, File
<1>2. Fetched \in File /\ \A c \in Cell \ {Pc} : Fetched[c] = r[c]
  BY <1>1, FetchedFile
<1>3. Tick
  BY DEF BranchExchange
<1>4. CASE Fatal
  BY <1>3, <1>4, FatalShape
<1>5. CASE ~ Fatal
  <2>1. /\ Accessible(Mode, rn)
        /\ r' = [Fetched EXCEPT ![Pc] = Read(Fetched, Mode, rn)]
        /\ UNCHANGED <<cpsr, spsr, status, msr>>
    BY <1>5 DEF BranchExchange
  <2>2. r' \in File /\ \A c \in Cell \ {Pc} : r'[c] = Fetched[c]
    <3>1. Read(Fetched, Mode, rn) \in Word
      BY <1>2, <2>1, ReadWord
    <3> DEFINE target == Read(Fetched, Mode, rn)
    <3>2. /\ [Fetched EXCEPT ![Pc] = target] \in File
          /\ \A c \in Cell \ {Pc} : [Fetched EXCEPT ![Pc] = target][c] = Fetched[c]
      <4> HIDE DEF target
      <4> QED
        BY <1>2, <3>1, PutPc DEF target
    <3> QED
      BY <2>1, <3>2
  <2> QED
    BY <1>2, <1>3, <2>1, <2>2, TickTicks, PcCell DEF TypeOK, Shape, Isolated, File
<1> QED
  BY <1>4, <1>5

LEMMA MrsShape ==
    ASSUME TypeOK, NEW rd \in Regs, MrsCpsr(rd) \/ MrsSpsr(rd)
    PROVE  Shape
<1>1. r \in File /\ cpsr \in Word /\ ReadSpsr(Mode) \in Word
  BY SavedPsr DEF TypeOK, File
<1>2. Fetched \in File /\ \A c \in Cell \ {Pc} : Fetched[c] = r[c]
  BY <1>1, FetchedFile
<1>3. Tick
  BY DEF MrsCpsr, MrsSpsr
<1>4. CASE Fatal
  BY <1>3, <1>4, FatalShape
<1>5. CASE ~ Fatal
  <2>1. /\ \E v \in {cpsr, ReadSpsr(Mode)} : r' = Write(Fetched, Mode, rd, v)
        /\ UNCHANGED <<cpsr, spsr, status, msr>>
    BY <1>5 DEF MrsCpsr, MrsSpsr
  <2>2. PICK v \in Word : r' = Write(Fetched, Mode, rd, v)
    BY <1>1, <2>1
  <2>3. r' \in File /\ \A c \in Cell : c # CellOf(Mode, rd) => r'[c] = Fetched[c]
    BY <1>2, <2>2, WriteFile
  <2>4. CellOf(Mode, rd)[1] \in {"usr", Own(Mode)}
    BY ModeNow, CellOfMode
  <2> QED
    BY <1>2, <1>3, <2>1, <2>3, <2>4, TickTicks, PcCell DEF TypeOK, Shape, Isolated, File
<1> QED
  BY <1>4, <1>5

\* write_psr with a word v
LEMMA WritePsrShape ==
    ASSUME TypeOK, Tick, NEW v \in Word, NEW flagsOnly \in BOOLEAN,
           NEW f \in Word,
           WriteCpsr(v, flagsOnly) \/ WriteSavedPsr(v, flagsOnly, f)
    PROVE  Shape
<1>1. r \in File /\ cpsr \in Word /\ ReadSpsr(Mode) \in Word
  BY SavedPsr DEF TypeOK, File
<1>2. Fetched \in File /\ \A c \in Cell \ {Pc} : Fetched[c] = r[c]
  BY <1>1, FetchedFile
<1>3. /\ WithFlags(cpsr, v) \in Word
      /\ WithFlags(cpsr, f) \in Word
      /\ WithFlags(ReadSpsr(Mode), v) \in Word
  BY <1>1, WithFlagsControl
<1>4. CASE Fatal
  BY <1>4, FatalShape
<1>5. CASE ~ Fatal /\ WriteCpsr(v, flagsOnly)
  <2>1. /\ cpsr' \in Word
        /\ msr' \in {msr, msr \cup {"cpsr"}}
        /\ r' = Fetched
        /\ UNCHANGED <<spsr, status>>
    BY <1>3, <1>5 DEF WriteCpsr
  <2> QED
    BY <1>2, <2>1, TickTicks, PcCell DEF TypeOK, Shape, Isolated, File
<1>6. CASE ~ Fatal /\ WriteSavedPsr(v, flagsOnly, f)
  <2>1. /\ \E u \in Word : WriteSpsr(Mode, u)
        /\ msr' \subseteq msr \cup Saved
        /\ cpsr' = WithFlags(cpsr, f)
        /\ r' = Fetched
        /\ UNCHANGED status
    BY <1>3, <1>6 DEF WriteSavedPsr
  <2>2. spsr' \in [Saved -> Word]
    BY <2>1 DEF WriteSpsr, TypeOK
  <2> QED
    BY <1>2, <1>3, <2>1, <2>2, TickTicks, PcCell DEF TypeOK, Shape, Isolated, File
<1> QED
  BY <1>4, <1>5, <1>6

LEMMA MsrShape ==
    ASSUME TypeOK, NEW saved \in BOOLEAN, NEW rm \in Regs, NEW v \in Word,
           Msr(saved, rm) \/ MsrFlags(saved, rm, v)
    PROVE  Shape
<1>1. Tick /\ Fetched \in File
  BY FetchedFile DEF Msr, MsrFlags, TypeOK, File
<1>2. CASE Fatal
  BY <1>1, <1>2, FatalShape
<1>3. CASE ~ Fatal
  <2>1. Accessible(Mode, rm)
    BY <1>3 DEF Msr, MsrFlags
  <2>2. Read(Fetched, Mode, rm) \in Word
    BY <1>1, <2>1, ReadWord
  <2>3. \E u \in {v, Read(Fetched, Mode, rm)}, flagsOnly \in BOOLEAN,
           f \in {cpsr, OtherCarry(cpsr)} :
            WriteCpsr(u, flagsOnly) \/ WriteSavedPsr(u, flagsOnly, f)
    BY <1>3 DEF Msr, MsrFlags
  <2>4. cpsr \in Word /\ OtherCarry(cpsr) \in Word
    BY OtherCarryWord DEF TypeOK
  <2> QED
    BY <1>1, <2>2, <2>3, <2>4, WritePsrShape
<1> QED
  BY <1>2, <1>3

\* The cell and the SPSR an exception writes are those of the mode it enters.
LEMMA ExceptionEffect ==
    ASSUME TypeOK, NEW b \in {"svc", "und"}, NEW vector \in Word,
           Exception(HandlerMode[b], vector)
    PROVE  /\ Tick
           /\ cpsr' \in Word
           /\ Mode' = HandlerMode[b]
           /\ Own(Mode') = b
           /\ r' \in File
           /\ \A c \in Cell \ {Pc, <<b, LR>>} : r'[c] = r[c]
           /\ r'[Pc] = vector
           /\ spsr' = [spsr EXCEPT ![b] = cpsr']
           /\ UNCHANGED <<status, msr>>
<1> DEFINE m      == HandlerMode[b]
           linked == Write(Fetched, m, LR, Read(Fetched, m, PC))
<1>1. m \in 0 .. 31 /\ Own(m) = b /\ b \in Saved
  BY DEF HandlerMode, Saved, Own, MODE_SVC, MODE_UND, MODE_USR, MODE_SYS,
         MODE_FIQ, MODE_IRQ, MODE_ABT
<1>2. r \in File /\ cpsr \in Word
  BY DEF TypeOK, File
<1>3. Fetched \in File /\ \A c \in Cell \ {Pc} : Fetched[c] = r[c]
  BY <1>2, FetchedFile
<1>4. cpsr' = WithMode(cpsr, m) /\ cpsr' \in Word /\ Mode' = m
  <2>1. cpsr' = WithMode(cpsr, m)
    BY DEF Exception
  <2>2. WithMode(cpsr, m) \in Word /\ ModeOf(WithMode(cpsr, m)) = m
    BY <1>1, <1>2, WithModeMode
  <2> QED
    BY <2>1, <2>2 DEF Mode
<1>5. CellOf(m, LR) = <<b, LR>>
  <2>1. LR \notin High
    BY RegsAssumption DEF LR
  <2> QED
    BY <1>1, <2>1 DEF CellOf, BankOf
<1>6. linked \in File /\ \A c \in Cell : c # <<b, LR>> => linked[c] = Fetched[c]
  <2>1. Read(Fetched, m, PC) \in Word
    BY <1>3, ReadPc
  <2> QED
    BY <1>3, <1>5, <2>1, WriteFile
<1>7. r' = [linked EXCEPT ![Pc] = vector]
  BY DEF Exception
<1>8. /\ r' \in File
      /\ \A c \in Cell \ {Pc} : r'[c] = linked[c]
      /\ r'[Pc] = vector
  <2>1. /\ [linked EXCEPT ![Pc] = vector] \in File
        /\ \A c \in Cell \ {Pc} : [linked EXCEPT ![Pc] = vector][c] = linked[c]
        /\ [linked EXCEPT ![Pc] = vector][Pc] = vector
    <3> HIDE DEF linked
    <3> QED
      BY <1>6, PutPc
  <2> QED
    BY ONLY <1>7, <2>1
<1>9. spsr' = [spsr EXCEPT ![b] = cpsr']
  BY <1>1, <1>4 DEF Exception, WriteSpsr
<1>10. Tick /\ UNCHANGED <<status, msr>>
  BY DEF Exception
<1> QED
  BY <1>1, <1>3, <1>4, <1>6, <1>8, <1>9, <1>10

LEMMA Vectors == 8 \in Word /\ 4 \in Word
  BY SmallWords

LEMMA ExceptionCases ==
    ASSUME Swi \/ Undefined
    PROVE  \/ Exception(HandlerMode["svc"], 8)
           \/ Exception(HandlerMode["und"], 4)
  BY DEF Swi, Undefined, HandlerMode, Saved

LEMMA ExceptionShape == ASSUME TypeOK, Swi \/ Undefined PROVE Shape
<1>1. PICK b \in {"svc", "und"}, vector \in Word : Exception(HandlerMode[b], vector)
  BY ExceptionCases, Vectors
<1>2. /\ Tick
      /\ cpsr' \in Word
      /\ Own(Mode') = b
      /\ r' \in File
      /\ \A c \in Cell \ {Pc, <<b, LR>>} : r'[c] = r[c]
      /\ spsr' = [spsr EXCEPT ![b] = cpsr']
      /\ UNCHANGED <<status, msr>>
  BY <1>1, ExceptionEffect
<1>3. spsr' \in [Saved -> Word]
  BY <1>2 DEF TypeOK
<1>4. Isolated
  BY <1>2, PcCell DEF Isolated
<1> QED
  BY <1>2, <1>3, <1>4, TickTicks DEF TypeOK, Shape, File

LEMMA LoadMultipleShape ==
    ASSUME TypeOK, NEW rn \in Regs, NEW rl \in Lists, NEW s \in BOOLEAN,
           NEW w \in BOOLEAN, NEW v \in [rl -> Data], NEW base \in Addresses,
           LoadMultiple(rn, rl, s, w, v, base)
    PROVE  Shape
<1> DEFINE targets  == {IF s THEN <<"usr", reg>> ELSE CellOf(Mode, reg) : reg \in rl}
           based    == IF w /\ rn \in rl THEN Write(Fetched, Mode, rn, base)
                                         ELSE Fetched
           loaded   == WriteAll(based, targets, v)
           restored == IF s /\ PC \in rl THEN ReadSpsr(Mode) ELSE cpsr
           final    == IF w /\ rn \notin rl
                       THEN Write(loaded, ModeOf(restored), rn, base)
                       ELSE loaded
<1>1. r \in File /\ cpsr \in Word /\ ReadSpsr(Mode) \in Word
  BY SavedPsr DEF TypeOK, File
<1>2. Fetched \in File /\ \A c \in Cell \ {Pc} : Fetched[c] = r[c]
  BY <1>1, FetchedFile
<1>3. /\ base \in Word /\ rl \subseteq Regs
      /\ \A c \in targets : v[c[2]] \in Word
  BY InputsAssumption DEF CellOf
<1>4. Tick
  BY DEF LoadMultiple
<1>5. CASE Fatal
  BY <1>4, <1>5, FatalShape
<1>6. CASE ~ Fatal
  <2>1. /\ r' = final
        /\ cpsr' = restored
        /\ UNCHANGED <<spsr, status, msr>>
    BY <1>6 DEF LoadMultiple
  <2>2. restored \in Word
    BY <1>1
  <2>3. \A c \in targets : c[1] \in {"usr", Own(Mode)}
    BY <1>3, ModeNow, CellOfMode
  <2>4. based \in File /\ \A c \in Cell \ {CellOf(Mode, rn)} : based[c] = Fetched[c]
    BY <1>2, <1>3, WriteFile
  <2>5. loaded \in File /\ \A c \in Cell \ targets : loaded[c] = based[c]
    <3> HIDE DEF based, targets
    <3> QED
      BY <1>3, <2>4, WriteAllFile
  <2>6. /\ final \in File
        /\ \A c \in Cell \ {CellOf(ModeOf(restored), rn)} : final[c] = loaded[c]
    <3> HIDE DEF loaded, restored
    <3> QED
      BY <1>3, <2>5, WriteFile
  <2>7. CellOf(Mode, rn)[1] \in {"usr", Own(Mode)}
    BY ModeNow, CellOfMode
  <2>8. CellOf(ModeOf(restored), rn)[1] \in {"usr", Own(ModeOf(restored))}
    <3> HIDE DEF restored
    <3> QED
      BY <2>2, ModeRange, CellOfMode
  <2>9. Mode' = ModeOf(restored)
    BY <2>1 DEF Mode
  <2>10. Isolated
    <3> HIDE DEF final, loaded, based, restored, targets
    <3> QED
      BY <1>2, <2>1, <2>3, <2>4, <2>5, <2>6, <2>7, <2>8, <2>9, PcCell DEF Isolated
  <2> QED
    <3> HIDE DEF final, restored
    <3> QED
      BY <1>4, <2>1, <2>2, <2>6, <2>10, TickTicks DEF TypeOK, Shape, File
<1> QED
  BY <1>5, <1>6

LEMMA StoreMultipleShape ==
    ASSUME TypeOK, NEW rn \in Regs, NEW rl \in Lists, NEW s \in BOOLEAN,
           NEW w \in BOOLEAN, NEW base \in Addresses,
           StoreMultiple(rn, rl, s, w, base)
    PROVE  Shape
<1>1. r \in File
  BY DEF TypeOK, File
<1>2. Fetched \in File /\ \A c \in Cell \ {Pc} : Fetched[c] = r[c]
  BY <1>1, FetchedFile
<1>3. Tick /\ base \in Word
  BY InputsAssumption DEF StoreMultiple
<1>4. CASE Fatal
  BY <1>3, <1>4, FatalShape
<1>5. CASE ~ Fatal
  <2>1. /\ r' = IF w THEN Write(Fetched, Mode, rn, base) ELSE Fetched
        /\ UNCHANGED <<cpsr, spsr, status, msr>>
    BY <1>5 DEF StoreMultiple
  <2>2. r' \in File /\ \A c \in Cell : c # CellOf(Mode, rn) => r'[c] = Fetched[c]
    BY <1>2, <1>3, <2>1, WriteFile
  <2>3. CellOf(Mode, rn)[1] \in {"usr", Own(Mode)}
    BY ModeNow, CellOfMode
  <2> QED
    BY <1>2, <1>3, <2>1, <2>2, <2>3, TickTicks, PcCell DEF TypeOK, Shape, Isolated, File
<1> QED
  BY <1>4, <1>5

LEMMA NextShape == ASSUME TypeOK, Next PROVE Shape
<1>1. 0 \in Word /\ Data \subseteq Word /\ cpsr \in Word
  BY SmallWords, InputsAssumption DEF TypeOK
<1> QED
  BY <1>1, IgnoredShape, BreakpointShape, DataProcessingShape, SingleTransferShape,
     BranchShape, BranchExchangeShape, MrsShape, MsrShape, ExceptionShape,
     LoadMultipleShape, StoreMultipleShape DEF Next

-----------------------------------------------------------------------------
(* The five ways in which a step treats the status registers *)

KeepsControl == /\ cpsr' % FlagUnit = cpsr % FlagUnit
                /\ UNCHANGED <<spsr, msr>>

\* LDM^ with PC in the list
Restores == /\ Mode # MODE_USR
            /\ cpsr' = ReadSpsr(Mode)
            /\ UNCHANGED <<spsr, msr>>

\* full MSR to the CPSR
SetsCpsr == /\ Mode # MODE_USR
            /\ msr' = msr \cup {"cpsr"}
            /\ UNCHANGED spsr

\* MSR to the SPSR, full or flags only
SetsSpsr == /\ Mode # MODE_USR
            /\ cpsr' % FlagUnit = cpsr % FlagUnit
            /\ \E u \in Word :
                   /\ WriteSpsr(Mode, u)
                   /\ \/ msr' = msr \cup ({Own(Mode)} \cap Saved)
                      \/ msr' = msr /\ ModeOf(u) = ModeOf(ReadSpsr(Mode))

LEMMA WritePsrControl ==
    ASSUME TypeOK, Tick, NEW v \in Word, NEW flagsOnly \in BOOLEAN,
           NEW f \in Word,
           WriteCpsr(v, flagsOnly) \/ WriteSavedPsr(v, flagsOnly, f)
    PROVE  KeepsControl \/ SetsCpsr \/ SetsSpsr
<1>1. cpsr \in Word /\ ReadSpsr(Mode) \in Word
  BY SavedPsr DEF TypeOK
<1>2. /\ WithFlags(cpsr, v) % FlagUnit = cpsr % FlagUnit
      /\ WithFlags(cpsr, f) % FlagUnit = cpsr % FlagUnit
      /\ WithFlags(ReadSpsr(Mode), v) \in Word
      /\ ModeOf(WithFlags(ReadSpsr(Mode), v)) = ModeOf(ReadSpsr(Mode))
  BY <1>1, WithFlagsControl
<1>3. CASE WriteCpsr(v, flagsOnly)
  <2>1. CASE flagsOnly \/ Mode = MODE_USR
    BY <1>2, <1>3, <2>1 DEF WriteCpsr, KeepsControl
  <2>2. CASE ~ (flagsOnly \/ Mode = MODE_USR)
    BY <1>3, <2>2 DEF WriteCpsr, SetsCpsr
  <2> QED
    BY <2>1, <2>2
<1>4. CASE WriteSavedPsr(v, flagsOnly, f) /\ Mode = MODE_USR
  BY <1>4 DEF WriteSavedPsr, Fatal, KeepsControl
<1>5. CASE WriteSavedPsr(v, flagsOnly, f) /\ Mode # MODE_USR
  <2>1. CASE flagsOnly
    <3>1. /\ WriteSpsr(Mode, WithFlags(ReadSpsr(Mode), v))
          /\ msr' = msr
          /\ cpsr' = WithFlags(cpsr, f)
      BY <1>5, <2>1 DEF WriteSavedPsr
    <3> QED
      BY <1>2, <1>5, <3>1 DEF SetsSpsr
  <2>2. CASE ~ flagsOnly
    <3>1. /\ WriteSpsr(Mode, v)
          /\ msr' = msr \cup ({Own(Mode)} \cap Saved)
          /\ cpsr' = WithFlags(cpsr, f)
      BY <1>5, <2>2 DEF WriteSavedPsr
    <3> QED
      BY <1>2, <1>5, <3>1 DEF SetsSpsr
  <2> QED
    BY <2>1, <2>2
<1> QED
  BY <1>3, <1>4, <1>5

LEMMA FatalControl == ASSUME Fatal PROVE KeepsControl
  BY DEF Fatal, KeepsControl

LEMMA ControlEffect ==
    ASSUME TypeOK, Next
    PROVE  \/ KeepsControl \/ Restores \/ SetsCpsr \/ SetsSpsr
           \/ Swi \/ Undefined
<1>1. cpsr \in Word /\ Data \subseteq Word /\ 0 \in Word
  BY InputsAssumption, SmallWords DEF TypeOK
<1>2. \A f \in Data \cup {cpsr} : WithFlags(cpsr, f) % FlagUnit = cpsr % FlagUnit
  BY <1>1, WithFlagsControl
<1>3. CASE Ignored \/ Stop \/ Unsupported
  BY <1>3, FatalControl DEF Ignored, Stop, Unsupported, KeepsControl
<1>4. CASE \E quit \in BOOLEAN, f \in Data : Breakpoint(quit, f)
  BY <1>2, <1>4, FatalControl DEF Breakpoint, KeepsControl
<1>5. CASE \E rn \in Regs, rl \in Lists, f \in Data \cup {cpsr} :
               \E v \in [rl -> Data] : DataProcessing(rn, rl, v, f)
  BY <1>2, <1>5, FatalControl DEF DataProcessing, KeepsControl
<1>6. CASE \E rn, rd \in Regs, l, w \in BOOLEAN, v \in Data, b \in Addresses :
               SingleTransfer(rn, rd, l, w, v, b)
  BY <1>6, FatalControl DEF SingleTransfer, KeepsControl
<1>7. CASE \/ \E o \in Offsets, l \in BOOLEAN : Branch(o, l)
           \/ \E rn \in Regs : BranchExchange(rn)
  BY <1>7, FatalControl DEF Branch, BranchExchange, KeepsControl
<1>8. CASE \E rd \in Regs : MrsCpsr(rd) \/ MrsSpsr(rd)
  BY <1>8, FatalControl DEF MrsCpsr, MrsSpsr, KeepsControl
<1>9. CASE \E saved \in BOOLEAN, rm \in Regs, v \in Word :
               Msr(saved, rm) \/ MsrFlags(saved, rm, v)
  <2>1. PICK saved \in BOOLEAN, rm \in Regs, v \in Word :
            Msr(saved, rm) \/ MsrFlags(saved, rm, v)
    BY <1>9
  <2>2. CASE Fatal
    BY <2>2, FatalControl
  <2>3. CASE ~ Fatal
    <3>1. Accessible(Mode, rm) /\ Fetched \in File /\ Tick
      BY <2>1, <2>3, FetchedFile DEF Msr, MsrFlags, TypeOK, File
    <3>2. Read(Fetched, Mode, rm) \in Word
      BY <3>1, ReadWord
    <3>3. \E u \in {v, Read(Fetched, Mode, rm)}, flagsOnly \in BOOLEAN,
             f \in {cpsr, OtherCarry(cpsr)} :
              WriteCpsr(u, flagsOnly) \/ WriteSavedPsr(u, flagsOnly, f)
      BY <2>1, <2>3 DEF Msr, MsrFlags
    <3>4. OtherCarry(cpsr) \in Word
      BY <1>1, OtherCarryWord
    <3> QED
      BY <1>1, <3>1, <3>2, <3>3, <3>4, WritePsrControl
  <2> QED
    BY <2>2, <2>3
<1>10. CASE \E rn \in Regs, rl \in Lists, s, w \in BOOLEAN, b \in Addresses :
                \E v \in [rl -> Data] : LoadMultiple(rn, rl, s, w, v, b)
  <2>1. PICK rn \in Regs, rl \in Lists, s \in BOOLEAN, w \in BOOLEAN,
             b \in Addresses : \E v \in [rl -> Data] : LoadMultiple(rn, rl, s, w, v, b)
    BY <1>10
  <2>2. CASE Fatal
    BY <2>2, FatalControl
  <2>3. CASE ~ Fatal
    <3>1. /\ BlockLegal(rn, rl, s)
          /\ cpsr' = IF s /\ PC \in rl THEN ReadSpsr(Mode) ELSE cpsr
          /\ UNCHANGED <<spsr, msr>>
      BY <2>1, <2>3 DEF LoadMultiple
    <3> QED
      BY <3>1 DEF BlockLegal, KeepsControl, Restores
  <2> QED
    BY <2>2, <2>3
<1>11. CASE \E rn \in Regs, rl \in Lists, s, w \in BOOLEAN, b \in Addresses :
                StoreMultiple(rn, rl, s, w, b)
  BY <1>11, FatalControl DEF StoreMultiple, KeepsControl
<1> QED
  BY <1>1, <1>3, <1>4, <1>5, <1>6, <1>7, <1>8, <1>9, <1>10, <1>11 DEF Next

\* Equal control bits are equal modes.
LEMMA SameControlSameMode ==
    ASSUME TypeOK, TypeOK', cpsr' % FlagUnit = cpsr % FlagUnit
    PROVE  Mode' = Mode
<1>1. cpsr \in Nat /\ cpsr' \in Nat
  BY DEF TypeOK, Word
<1> QED
  BY <1>1, ModeOfControl DEF Mode, ModeOf

-----------------------------------------------------------------------------
(* Theorems *)

LEMMA InitTyped == Init => TypeOK
  BY SmallWords, InputsAssumption DEF Init, TypeOK, MODE_SVC

\* Every register of every bank and every status register holds a word, whatever
\* the instructions do.
THEOREM TypeCorrect == Spec => []TypeOK
<1>1. Init => TypeOK
  BY InitTyped
<1>2. TypeOK /\ [Next]_vars => TypeOK'
  <2> SUFFICES ASSUME TypeOK, [Next]_vars PROVE TypeOK'
    OBVIOUS
  <2>1. CASE Next
    BY <2>1, NextShape DEF Shape
  <2>2. CASE UNCHANGED vars
    BY <2>2 DEF vars, TypeOK
  <2> QED
    BY <2>1, <2>2
<1> QED
  BY <1>1, <1>2, PTL DEF Spec

\* No step reaches a register bank of a mode that is neither left nor entered.
THEOREM BanksIsolated == Spec => BankIsolation
<1>1. TypeOK /\ [Next]_vars => [Isolated]_vars
  BY NextShape DEF Shape
<1> QED
  BY <1>1, TypeCorrect, PTL DEF Spec, BankIsolation

\* User mode keeps the control bits, the SPSRs and the other banks, except by
\* entering the SWI or the undefined-instruction vector.
THEOREM UserModeConfined == Spec => UserConfined
<1>1. TypeOK /\ [Next]_vars => [UserStep]_vars
  <2> SUFFICES ASSUME TypeOK, Next, Mode = MODE_USR
               PROVE  Confined \/ Enters("svc", 8) \/ Enters("und", 4)
    BY DEF UserStep
  <2>1. TypeOK' /\ Isolated
    BY NextShape DEF Shape
  <2>2. Own(Mode) = "usr"
    BY DEF Own, MODE_USR, MODE_SYS, MODE_FIQ, MODE_IRQ, MODE_SVC, MODE_ABT, MODE_UND
  <2>3. CASE KeepsControl
    <3>1. Mode' = Mode
      BY <2>1, <2>3, SameControlSameMode DEF KeepsControl
    <3> QED
      BY <2>1, <2>2, <2>3, <3>1 DEF KeepsControl, Isolated, Confined
  <2>4. ASSUME NEW b \in {"svc", "und"}, NEW vector \in Word,
               Exception(HandlerMode[b], vector)
        PROVE  Enters(b, vector)
    <3>1. /\ Mode' = HandlerMode[b]
          /\ r'[Pc] = vector
          /\ \A c \in Cell \ {Pc, <<b, LR>>} : r'[c] = r[c]
          /\ spsr' = [spsr EXCEPT ![b] = cpsr']
      BY <2>4, ExceptionEffect
    <3> QED
      BY <3>1 DEF Enters, TypeOK
  <2> QED
    BY <2>3, <2>4, ControlEffect, ExceptionCases, Vectors
       DEF Restores, SetsCpsr, SetsSpsr
<1> QED
  BY <1>1, TypeCorrect, PTL DEF Spec, UserConfined

\* The inductive invariant behind the two facts about SPSRs.
SavedInv == TypeOK /\ SavedModeIsOwn /\ ModeNeedsMsr

LEMMA OwnHandler ==
    \A m \in 0 .. 31 : Own(m) \in Saved => HandlerMode[Own(m)] = m
  BY DEF Own, Saved, HandlerMode, MODE_USR, MODE_SYS, MODE_FIQ, MODE_IRQ, MODE_SVC,
         MODE_ABT, MODE_UND

LEMMA ZeroMode == ModeOf(0) = 0
  BY DEF ModeOf

\* What LDM^ can restore, as long as no full MSR has filled the SPSR of the mode.
LEMMA RestoredMode ==
    ASSUME TypeOK, SavedModeIsOwn, Own(Mode) \notin msr
    PROVE  ModeOf(ReadSpsr(Mode)) \in {0, Mode}
<1>1. CASE Own(Mode) \in Saved
  BY <1>1, ModeNow, OwnHandler DEF ReadSpsr, SavedModeIsOwn
<1>2. CASE Own(Mode) \notin Saved
  BY <1>2, ZeroMode DEF ReadSpsr
<1> QED
  BY <1>1, <1>2

LEMMA SavedInvStep == ASSUME SavedInv, Next PROVE SavedInv'
<1>1. TypeOK /\ TypeOK'
  BY NextShape DEF Shape, SavedInv
<1>2. SavedModeIsOwn /\ ModeNeedsMsr
  BY DEF SavedInv
<1>3. CASE KeepsControl
  <2>1. Mode' = Mode
    BY <1>1, <1>3, SameControlSameMode DEF KeepsControl
  <2> QED
    BY <1>1, <1>2, <1>3, <2>1 DEF KeepsControl, SavedInv, SavedModeIsOwn, ModeNeedsMsr
<1>4. CASE Restores
  <2>1. SavedModeIsOwn'
    BY <1>2, <1>4 DEF Restores, SavedModeIsOwn
  <2>2. ModeNeedsMsr'
    <3> SUFFICES ASSUME msr' = {} PROVE Mode' \in {MODE_SVC, MODE_UND, 0}
      BY DEF ModeNeedsMsr
    <3>1. msr = {} /\ Mode' = ModeOf(ReadSpsr(Mode))
      BY <1>4 DEF Restores, Mode
    <3>2. ModeOf(ReadSpsr(Mode)) \in {0, Mode}
      BY <1>1, <1>2, <3>1, RestoredMode
    <3> QED
      BY <1>2, <3>1, <3>2 DEF ModeNeedsMsr
  <2> QED
    BY <1>1, <2>1, <2>2 DEF SavedInv
<1>5. CASE SetsCpsr
  BY <1>1, <1>2, <1>5 DEF SetsCpsr, SavedInv, SavedModeIsOwn, ModeNeedsMsr
<1>6. CASE SetsSpsr
  <2>1. PICK u \in Word :
            /\ WriteSpsr(Mode, u)
            /\ \/ msr' = msr \cup ({Own(Mode)} \cap Saved)
               \/ msr' = msr /\ ModeOf(u) = ModeOf(ReadSpsr(Mode))
    BY <1>6 DEF SetsSpsr
  <2>2. SavedModeIsOwn'
    <3> SUFFICES ASSUME NEW b \in Saved \ msr'
                 PROVE  ModeOf(spsr'[b]) \in {0, HandlerMode[b]}
      BY DEF SavedModeIsOwn
    <3>1. b \in Saved \ msr
      BY <2>1
    <3>2. CASE b # Own(Mode)
      <4>1. spsr'[b] = spsr[b]
        BY <1>1, <2>1, <3>2 DEF WriteSpsr, TypeOK
      <4> QED
        BY <1>2, <3>1, <4>1 DEF SavedModeIsOwn
    <3>3. CASE b = Own(Mode)
      <4>1. msr' = msr /\ ModeOf(u) = ModeOf(ReadSpsr(Mode))
        BY <2>1, <3>3
      <4>2. spsr'[b] = u
        BY <1>1, <2>1, <3>3 DEF WriteSpsr, TypeOK
      <4>3. ModeOf(ReadSpsr(Mode)) \in {0, Mode} /\ HandlerMode[b] = Mode
        BY <1>1, <1>2, <3>1, <3>3, RestoredMode, ModeNow, OwnHandler
      <4> QED
        BY <4>1, <4>2, <4>3
    <3> QED
      BY <3>2, <3>3
  <2>3. ModeNeedsMsr'
    <3>1. Mode' = Mode /\ (msr' = {} => msr = {})
      BY <1>1, <1>6, <2>1, SameControlSameMode DEF SetsSpsr
    <3> QED
      BY <1>2, <3>1 DEF ModeNeedsMsr
  <2> QED
    BY <1>1, <2>2, <2>3 DEF SavedInv
<1>7. CASE Swi \/ Undefined
  <2>1. PICK b \in {"svc", "und"}, vector \in Word : Exception(HandlerMode[b], vector)
    BY <1>7, ExceptionCases, Vectors
  <2>2. /\ Mode' = HandlerMode[b]
        /\ spsr' = [spsr EXCEPT ![b] = cpsr']
        /\ msr' = msr
    BY <1>1, <2>1, ExceptionEffect
  <2>3. SavedModeIsOwn'
    BY <1>1, <1>2, <2>2 DEF SavedModeIsOwn, TypeOK, Mode
  <2>4. ModeNeedsMsr'
    BY <2>2 DEF ModeNeedsMsr, HandlerMode, Saved
  <2> QED
    BY <1>1, <2>3, <2>4 DEF SavedInv
<1> QED
  BY <1>1, <1>3, <1>4, <1>5, <1>6, <1>7, ControlEffect

LEMMA SavedInvariant == Spec => []SavedInv
<1>1. Init => SavedInv
  <2> SUFFICES ASSUME Init PROVE SavedInv
    OBVIOUS
  <2>1. \A b \in Saved : spsr[b] = 0
    BY DEF Init
  <2>2. Mode = MODE_SVC
    BY DEF Init, Mode, ModeOf, MODE_SVC
  <2> QED
    BY <2>1, <2>2, InitTyped, ZeroMode DEF SavedInv, SavedModeIsOwn, ModeNeedsMsr
<1>2. SavedInv /\ [Next]_vars => SavedInv'
  <2> SUFFICES ASSUME SavedInv, [Next]_vars PROVE SavedInv'
    OBVIOUS
  <2>1. CASE Next
    BY <2>1, SavedInvStep
  <2>2. CASE UNCHANGED vars
    BY <2>2 DEF vars, SavedInv, TypeOK, SavedModeIsOwn, ModeNeedsMsr, Mode
  <2> QED
    BY <2>1, <2>2
<1> QED
  BY <1>1, <1>2, PTL DEF Spec

\* An SPSR no full MSR has written names the mode of its own handler, or none:
\* the interrupted mode is lost at every exception.
THEOREM InterruptedModeLost == Spec => []SavedModeIsOwn
<1>1. SavedInv => SavedModeIsOwn
  BY DEF SavedInv
<1> QED
  BY <1>1, SavedInvariant, PTL

\* Without a full MSR the processor never leaves supervisor, undefined and the
\* invalid mode 0.
THEOREM ModesWithoutMsr == Spec => []ModeNeedsMsr
<1>1. SavedInv => ModeNeedsMsr
  BY DEF SavedInv
<1> QED
  BY <1>1, SavedInvariant, PTL
=============================================================================
