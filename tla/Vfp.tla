--------------------------------- MODULE Vfp ---------------------------------
(***************************************************************************)
(* The floating point unit of vfp.c, as coprocessor 10 of cpu.c.           *)
(*                                                                         *)
(* Its registers are the cells of one structure, in the order of vfp.h: s, *)
(* then FPSID, FPSCR and FPEXC, and no index is tested against their       *)
(* number.  The number a cell holds is Float of its word, or NaN; what the *)
(* arithmetic computes is left open.                                       *)
(***************************************************************************)
EXTENDS Transfers

CONSTANTS
    VfpCount,   \* the registers s: 32
    Float,      \* the number each word stands for
    NaN,        \* the words that stand for none
    Results     \* the words arithmetic may compute

ASSUME VfpAssumption == /\ VfpCount \in Nat \ {0}
                        /\ Float \in [Dword -> Int] /\ NaN \subseteq Dword
                        /\ Results \subseteq Dword

\* The fields that name a register of the unit have five bits, for its 32; only the
\* offset of a single transfer is negated.
ASSUME UnitAssumption == \A i \in Instructions :
    /\ i.kind = "vfp_data" => {i.fd, i.fm} \subseteq 0 .. VfpCount - 1
    /\ i.kind = "vfp_transfer" =>
           /\ i.fd \in 0 .. VfpCount - 1 /\ i.rn \in Regs
           /\ i.offset \in Int /\ (i.mode # "single" => i.offset \in Nat)
    /\ i.kind = "vfp_register" => i.fn \in 0 .. VfpCount - 1 /\ i.rd \in Regs
    /\ i.kind = "vfp_status" => i.rd \in Regs

FPSID == VfpCount
FPSCR == VfpCount + 1
FPEXC == VfpCount + 2
Cells == 0 .. FPEXC

VARIABLES
    s,          \* the cells
    nzcv,       \* the flags of cpsr as a number, n the highest bit
    overrun     \* a load has passed the last cell: what lay behind is lost

vfpVars == <<s, nzcv, overrun>>

\* The flags are the four highest bits of FPSCR.
FlagUnit == Full \div 16
FlagsOf(v) == v \div FlagUnit
FlagsLow(v, f) == (v - (v % 16)) + f
WithFlags(v, f) == (f * FlagUnit) + (v % FlagUnit)
ZERO == 0   \* the word of 0.0
-----------------------------------------------------------------------------
(* Data processing *)

\* dp_fcmps
UnorderedLess(a, b) ==
    CASE a \notin NaN /\ b \notin NaN /\ Float[a] = Float[b] -> 6
      [] a \notin NaN /\ b \notin NaN /\ Float[a] > Float[b] -> 2
      [] OTHER -> 8

Compared(a, b) ==
    CASE a \in NaN \/ b \in NaN -> 3
      [] a \notin NaN /\ b \notin NaN /\ Float[a] = Float[b] -> 6
      [] a \notin NaN /\ b \notin NaN /\ Float[a] < Float[b] -> 8
      [] OTHER -> 2

\* vfp_data_proc.  Whatever the instruction, the destination is written at the end:
\* with what it held after a compare or an undefined extension.
DataProc(i, o) ==
    /\ UNCHANGED <<memory, overrun, nzcv>>
    /\ \/ i.op = "undefined" /\ status' = "fatal" /\ UNCHANGED <<r, s>>
       \/ /\ i.op \in {"compare", "compare_zero"}
          /\ s' = [s EXCEPT ![FPSCR] = WithFlags(@, Compared(s[i.fd],
                       IF i.op = "compare" THEN s[i.fm] ELSE ZERO))]
          /\ r' = Fetched /\ UNCHANGED status
       \/ /\ i.op \in {"arithmetic", "copy", "undefined_extension"}
          /\ s' = [s EXCEPT ![i.fd] = CASE i.op = "arithmetic" -> o
                                        [] i.op = "copy" -> s[i.fm]
                                        [] OTHER -> @]
          /\ r' = Fetched /\ UNCHANGED status
-----------------------------------------------------------------------------
(* Transfers with the memory *)

\* dt_single_data_transfer.  The offset is negated before it is scaled.
VfpSingle(i, x) ==
    LET a == Wrap(Read(Fetched, i.rn) + (4 * i.offset))
    IN  /\ i.mode = "single"
        /\ s' = IF i.l THEN [s EXCEPT ![i.fd] = ReadDword(memory, a, x)] ELSE s
        /\ Effect(IF i.l THEN memory ELSE WriteDword(memory, a, s[i.fd]), Fetched)
        /\ UNCHANGED <<nzcv, overrun>>

\* Where dt_multiple_data_transfer begins.
First(i) == LET rn   == Read(Fetched, i.rn)
                base == rn - (rn % 4)
            IN  IF i.mode = "decrement" THEN Wrap(base - (4 * i.offset)) ELSE base

\* dt_multiple_data_transfer of offset cells from fd on.  The cells have the answers x
\* of devices.  Behind the last lie nes_t, the base of the timer and last_refresh, the
\* state of other modules (emulator.h:39-46): loaded over, they are lost, and here
\* nothing but what devices answer depends on them; stored, they are the words y.
VfpMultiple(i, x, y) ==
    LET base == First(i)
        at(k) == Wrap(base + (4 * k))
        cell(k) == IF i.fd + k \in Cells THEN s[i.fd + k] ELSE y[k]
        stores[k \in 0 .. i.offset] ==
            IF k = 0 THEN memory ELSE WriteDword(stores[k - 1], at(k - 1), cell(k - 1))
        moved == CASE i.mode = "decrement" -> [Fetched EXCEPT ![i.rn] = base]
                   [] i.mode = "increment" -> [Fetched EXCEPT ![i.rn] = at(i.offset)]
                   [] OTHER -> Fetched
    IN  /\ i.mode \in {"unindexed", "increment", "decrement"}
        /\ s' = IF i.l THEN [c \in Cells |-> IF c - i.fd \in Offsets(i.offset)
                                             THEN ReadDword(memory, at(c - i.fd), x[c])
                                             ELSE s[c]]
                       ELSE s
        /\ overrun' = (overrun \/ (i.l /\ i.fd + i.offset > VfpCount + 3))
        /\ Effect(IF i.l THEN memory ELSE stores[i.offset], moved)
        /\ UNCHANGED nzcv

\* vfp_data_transfer
DataTransfer(i, x, y) ==
    \/ i.mode = "unimplemented" /\ Fatal /\ UNCHANGED vfpVars
    \/ VfpSingle(i, x[i.fd])
    \/ VfpMultiple(i, x, y)
-----------------------------------------------------------------------------
(* Transfers with the registers of the processor *)

\* rt_reg_transfer: FMRS and FMSR.
RegTransfer(i) ==
    /\ r' = IF i.l THEN [Fetched EXCEPT ![i.rd] = s[i.fn]] ELSE Fetched
    /\ s' = IF i.l THEN s ELSE [s EXCEPT ![i.fn] = Read(Fetched, i.rd)]
    /\ UNCHANGED <<memory, status, nzcv, overrun>>

\* rt_status_reg_transfer: FMXR, and FMRX, which is FMSTAT for PC and FPSCR.
StatusTransfer(i) ==
    \/ /\ i.cell \notin {FPSID, FPSCR, FPEXC} \/ (i.l /\ i.rd = PC /\ i.cell # FPSCR)
       /\ Fatal /\ UNCHANGED vfpVars
    \/ /\ i.cell \in {FPSID, FPSCR, FPEXC} /\ ~ i.l
       /\ s' = [s EXCEPT ![i.cell] = Read(Fetched, i.rd)]
       /\ r' = Fetched /\ UNCHANGED <<memory, status, nzcv, overrun>>
    \/ /\ i.cell = FPSCR /\ i.l /\ i.rd = PC
       /\ nzcv' = FlagsOf(s[FPSCR])
       /\ r' = Fetched /\ UNCHANGED <<memory, status, s, overrun>>
    \/ /\ i.cell \in {FPSID, FPSCR, FPEXC} /\ i.l /\ i.rd # PC
       /\ r' = [Fetched EXCEPT ![i.rd] = s[i.cell]]
       /\ UNCHANGED <<memory, status, vfpVars>>
=============================================================================
