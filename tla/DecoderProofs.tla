--------------------------- MODULE DecoderProofs ---------------------------
(***************************************************************************)
(* Proofs about Decoder.tla for every value of the fields: which handler   *)
(* cpu_tick chooses for the layouts that share bits.                       *)
(***************************************************************************)
EXTENDS Decoder, TLAPS

\* An instruction that is executed has the handler the switch chooses, and no other
\* has stopped in the debugger.
Chosen == IF Executed
          THEN handler = Dispatch(instr) /\ debugged = IsBreakpoint(instr)
          ELSE debugged = FALSE

Reasons == {"fetched", "terminated", "ignored", "skipped"}

Handlers == {"undefined", "swi", "branch exchange", "multiply", "multiply long", "swap",
             "mrs", "msr", "msr flags", "halfword", "data processing",
             "single transfer", "block transfer", "branch", "coprocessor transfer",
             "coprocessor operation", "coprocessor register"}

IInv == /\ instr \in Instructions /\ passes \in BOOLEAN
        /\ handler \in Reasons \cup Handlers
        /\ Chosen
-----------------------------------------------------------------------------
(* The switch                                                              *)

\* The fields of an instruction.
LEMMA FieldValues ==
    ASSUME NEW i \in Instructions
    PROVE  /\ i.cond \in Nibble /\ i.rn \in Nibble /\ i.rd \in Nibble
           /\ i.rs \in Nibble /\ i.sh \in Nibble /\ i.rm \in Nibble
           /\ i.c \in 0 .. 7
           /\ i.p \in Bit /\ i.u \in Bit /\ i.b \in Bit /\ i.w \in Bit /\ i.l \in Bit
BY FieldsAssumption DEF Instructions

\* Of c = 0 and c = 1 the switch chooses one of nine.
LEMMA DataHandlers ==
    ASSUME NEW i
    PROVE  DataDispatch(i) \in {"branch exchange", "multiply", "multiply long", "swap",
                                "mrs", "msr", "msr flags", "halfword",
                                "data processing"}
BY DEF DataDispatch

\* Those of c = 0 and c = 1 are tested one by one.
LEMMA DataDispatched ==
    ASSUME NEW i, i.c \in {0, 1}
    PROVE  Dispatch(i) = DataDispatch(i)
<1>1. CASE i.c = 0
  BY <1>1 DEF Dispatch
<1>2. CASE i.c = 1
  BY <1>2 DEF Dispatch
<1> QED
  BY <1>1, <1>2

\* Every word has a handler.
LEMMA DispatchHandlers ==
    ASSUME NEW i \in Instructions
    PROVE  Dispatch(i) \in Handlers /\ Dispatch(i) \notin Reasons
<1>1. i.c \in 0 .. 7
  BY FieldValues
<1>2. CASE i.c \in {0, 1}
  <2>1. Dispatch(i) = DataDispatch(i)
    BY <1>2, DataDispatched
  <2> QED
    BY <2>1, DataHandlers DEF Handlers, Reasons
<1>3. CASE i.c = 2
  BY <1>3 DEF Dispatch, Handlers, Reasons
<1>4. CASE i.c = 3
  <2>1. Dispatch(i) \in {"undefined", "single transfer"}
    BY <1>4 DEF Dispatch
  <2> QED
    BY <2>1 DEF Handlers, Reasons
<1>5. CASE i.c = 4
  BY <1>5 DEF Dispatch, Handlers, Reasons
<1>6. CASE i.c = 5
  BY <1>6 DEF Dispatch, Handlers, Reasons
<1>7. CASE i.c = 6
  BY <1>7 DEF Dispatch, Handlers, Reasons
<1>8. CASE i.c = 7
  <2>1. Dispatch(i) \in {"swi", "coprocessor operation", "coprocessor register"}
    BY <1>8 DEF Dispatch
  <2> QED
    BY <2>1 DEF Handlers, Reasons
<1> QED
  BY <1>1, <1>2, <1>3, <1>4, <1>5, <1>6, <1>7, <1>8

\* The breakpoint is none of the layouts the tests look for: it is executed as a
\* comparison.
LEMMA BreakpointCompares ==
    ASSUME NEW i \in Instructions, IsBreakpoint(i)
    PROVE  Dispatch(i) = "data processing"
<1>1. /\ i.c = 1 /\ i.p = 1 /\ i.u = 0 /\ i.b = 0 /\ i.w = 1 /\ i.l = 0
      /\ i.rn = 0 /\ i.sh = 0
  BY DEF IsBreakpoint, Op
<1>2. /\ ~ IsBranchExchange(i) /\ ~ IsMultiply(i) /\ ~ IsMultiplyLong(i)
      /\ ~ IsSwap(i) /\ ~ IsMrs(i) /\ ~ IsMsr(i) /\ ~ IsMsrFlags(i) /\ ~ IsHalfword(i)
  BY <1>1 DEF IsBranchExchange, IsMultiply, IsMultiplyLong, IsSwap, IsMrs, IsMsr,
              IsMsrFlags, IsHalfword
<1> QED
  BY <1>1, <1>2 DEF Dispatch, DataDispatch
-----------------------------------------------------------------------------
(* The invariant                                                           *)

LEMMA InitInvariant == Init => IInv
BY DEF Init, IInv, Chosen, Executed, Reasons

LEMMA NextInvariant == IInv /\ [Next]_vars => IInv'
<1> SUFFICES ASSUME IInv, [Next]_vars
             PROVE  IInv'
  OBVIOUS
<1>1. CASE handler = "fetched" /\ (Terminate \/ Ignore \/ Skip)
  BY <1>1 DEF Terminate, Ignore, Skip, IInv, Chosen, Executed, Reasons
<1>2. CASE handler = "fetched" /\ Execute
  <2>1. /\ instr' = instr /\ passes' = passes
        /\ handler' = Dispatch(instr) /\ debugged' = IsBreakpoint(instr)
    BY <1>2 DEF Execute
  <2>2. Dispatch(instr) \in Handlers /\ Dispatch(instr) \notin Reasons
    BY DispatchHandlers DEF IInv
  <2> QED
    BY <2>1, <2>2 DEF IInv, Chosen, Executed, Reasons
<1>3. CASE UNCHANGED vars
  BY <1>3 DEF vars, IInv, Chosen, Executed
<1> QED
  BY <1>1, <1>2, <1>3 DEF Next

\* Every word has a handler, and stopping at a breakpoint does not change it.
THEOREM TypeCorrect == Spec => []TypeOK
<1>1. IInv => TypeOK
  <2> SUFFICES ASSUME IInv PROVE TypeOK
    OBVIOUS
  <2>1. debugged \in BOOLEAN
    BY DEF IInv, Chosen, IsBreakpoint
  <2>2. debugged => handler = "data processing"
    BY BreakpointCompares DEF IInv, Chosen
  <2> QED
    BY <2>1, <2>2 DEF IInv, TypeOK, Reasons, Handlers
<1> QED
  BY <1>1, InitInvariant, NextInvariant, PTL DEF Spec

\* UMULL and UMLAL reach instr_multiply_long; SMULL and SMLAL, whatever their
\* registers, execute as a swap with write-back (cpu.c:1656).
THEOREM LongProductsDecoded == Spec => []LongMultiplication
<1>1. IInv => LongMultiplication
  <2> SUFFICES ASSUME IInv, Executed, LongLayout(instr)
               PROVE  /\ instr.b = 0 => handler = "multiply long"
                      /\ instr.b = 1 => /\ handler = "halfword"
                                        /\ Transferred(instr) = 0 /\ instr.p = 0
    BY DEF LongMultiplication
  <2>1. handler = DataDispatch(instr) /\ instr \in Instructions
    <3>1. instr.c \in {0, 1}
      BY DEF LongLayout
    <3> QED
      BY <3>1, DataDispatched DEF IInv, Chosen
  <2>2. instr.c = 0 /\ instr.sh = 9 /\ instr.p = 0 /\ instr.u = 1
    BY DEF LongLayout
  <2>3. ~ IsBranchExchange(instr) /\ ~ IsMultiply(instr)
    BY <2>2 DEF IsBranchExchange, IsMultiply
  <2>4. ASSUME instr.b = 0
        PROVE  handler = "multiply long"
    <3>1. IsMultiplyLong(instr)
      BY <2>2, <2>4 DEF IsMultiplyLong
    <3> QED
      BY <2>1, <2>3, <3>1 DEF DataDispatch
  <2>5. ASSUME instr.b = 1
        PROVE  handler = "halfword" /\ Transferred(instr) = 0 /\ instr.p = 0
    <3>1. /\ ~ IsMultiplyLong(instr) /\ ~ IsSwap(instr) /\ ~ IsMrs(instr)
          /\ ~ IsMsr(instr) /\ ~ IsMsrFlags(instr) /\ IsHalfword(instr)
      BY <2>2, <2>5 DEF IsMultiplyLong, IsSwap, IsMrs, IsMsr, IsMsrFlags, IsHalfword
    <3>2. handler = "halfword"
      BY <2>1, <2>3, <3>1 DEF DataDispatch
    <3> QED
      BY <2>2, <3>2 DEF Transferred
  <2> QED
    BY <2>4, <2>5
<1> QED
  BY <1>1, InitInvariant, NextInvariant, PTL DEF Spec

\* Exactly the six operations on PC that PcOperands names are lost to MRS
\* (cpu.c:1666), with any condition and any destination.
THEOREM PcOperandsLost == Spec => []PcOperands
<1>1. IInv => PcOperands
  <2> SUFFICES ASSUME IInv, Executed, DataLayout(instr)
               PROVE  PcOperands
    BY DEF PcOperands
  <2> DEFINE op == (8 * instr.p) + (4 * instr.u) + (2 * instr.b) + instr.w
             lost == /\ instr.rn = 15 /\ instr.l = 0
                     /\ instr.rs = 0 /\ instr.sh = 0 /\ instr.rm = 0
                     /\ op \in {0, 2, 4, 6, 12, 14}
  <2>1. handler = DataDispatch(instr) /\ instr \in Instructions
    <3>1. instr.c \in {0, 1}
      BY DEF DataLayout
    <3> QED
      BY <3>1, DataDispatched DEF IInv, Chosen
  <2>2. /\ ~ (instr.p = 1 /\ instr.u = 0 /\ instr.l = 0)
        /\ ~ (instr.c = 0 /\ instr.sh \in {9, 11, 13, 15})
    BY DEF DataLayout, StatusSpace
  <2>3. /\ instr.p \in {0, 1} /\ instr.u \in {0, 1} /\ instr.b \in {0, 1}
        /\ instr.w \in {0, 1} /\ instr.l \in {0, 1}
    BY <2>1, FieldValues DEF Bit
  <2>4. /\ ~ IsBranchExchange(instr) /\ ~ IsMultiply(instr) /\ ~ IsMultiplyLong(instr)
        /\ ~ IsSwap(instr) /\ ~ IsMsr(instr) /\ ~ IsMsrFlags(instr)
        /\ ~ IsHalfword(instr)
    BY <2>2 DEF IsBranchExchange, Op, IsMultiply, IsMultiplyLong, IsSwap, IsMsr,
                IsMsrFlags, IsHalfword
  <2>5. instr.l = 0 => (op \in {0, 2, 4, 6, 12, 14} <=> instr.w = 0)
    BY <2>2, <2>3
  <2>6. IsMrs(instr) <=> lost
    BY <2>5 DEF IsMrs
  <2>7. handler = IF lost THEN "mrs" ELSE "data processing"
    BY <2>1, <2>4, <2>6 DEF DataDispatch
  <2> QED
    BY <2>7 DEF PcOperands
<1> QED
  BY <1>1, InitInvariant, NextInvariant, PTL DEF Spec

\* An MSR that names any fields but the flags, or flags and control, is executed as a
\* comparison (cpu.c:1671), whatever it names besides.
THEOREM StatusFieldsDropped == Spec => []StatusWrites
<1>1. IInv => StatusWrites
  <2> SUFFICES ASSUME IInv, Executed, MsrLayout(instr)
               PROVE  handler = CASE instr.rn = 8 -> "msr flags"
                                  [] instr.rn = 9 /\ instr.c = 0 -> "msr"
                                  [] OTHER -> "data processing"
    BY DEF StatusWrites
  <2>1. instr.c \in {0, 1}
    BY DEF MsrLayout
  <2>2. handler = DataDispatch(instr)
    <3>1. Dispatch(instr) = DataDispatch(instr)
      BY <2>1, DataDispatched
    <3> QED
      BY <3>1 DEF IInv, Chosen
  <2>3. /\ instr.p = 1 /\ instr.u = 0 /\ instr.l = 0 /\ instr.w = 1 /\ instr.rd = 15
        /\ instr.c = 0 => instr.rs = 0 /\ instr.sh = 0
    BY <2>1 DEF MsrLayout, StatusSpace
  <2>4. /\ ~ IsBranchExchange(instr) /\ ~ IsMultiply(instr) /\ ~ IsMultiplyLong(instr)
        /\ ~ IsSwap(instr) /\ ~ IsMrs(instr) /\ ~ IsHalfword(instr)
        /\ IsMsr(instr) <=> (instr.rn = 9 /\ instr.c = 0)
        /\ IsMsrFlags(instr) <=> instr.rn = 8
    BY <2>1, <2>3 DEF IsBranchExchange, IsMultiply, IsMultiplyLong, IsSwap, IsMrs,
                      IsHalfword, IsMsr, IsMsrFlags
  <2>5. CASE instr.rn = 8
    <3>1. ~ (instr.rn = 9 /\ instr.c = 0)
      BY <2>5
    <3>2. handler = "msr flags"
      BY <2>2, <2>4, <2>5, <3>1 DEF DataDispatch
    <3> QED
      BY <2>5, <3>1, <3>2
  <2>6. CASE instr.rn = 9 /\ instr.c = 0
    BY <2>2, <2>4, <2>6 DEF DataDispatch
  <2>7. CASE instr.rn # 8 /\ ~ (instr.rn = 9 /\ instr.c = 0)
    BY <2>2, <2>4, <2>7 DEF DataDispatch
  <2> QED
    BY <2>5, <2>6, <2>7
<1> QED
  BY <1>1, InitInvariant, NextInvariant, PTL DEF Spec

\* The tests overlap in the words with bits 7 and 4 set, and in MRS: every layout
\* reaches its handler, SWPB that of the halfwords, and the one halfword transfer
\* that SharedBits names goes to MSR, for all registers.
THEOREM SharedBitsDecoded == Spec => []SharedBits
<1>1. IInv => SharedBits
  <2> SUFFICES ASSUME IInv, Executed
               PROVE  SharedBits
    BY DEF SharedBits
  <2>1. instr.c = 0 => handler = DataDispatch(instr)
    BY DataDispatched DEF IInv, Chosen
  <2>2. ASSUME MulLayout(instr)
        PROVE  handler = "multiply"
    <3>1. ~ IsBranchExchange(instr) /\ IsMultiply(instr) /\ instr.c = 0
      BY <2>2 DEF MulLayout, IsBranchExchange, IsMultiply
    <3> QED
      BY <2>1, <3>1 DEF DataDispatch
  <2>3. ASSUME MrsLayout(instr)
        PROVE  handler = "mrs"
    <3>1. /\ ~ IsBranchExchange(instr) /\ ~ IsMultiply(instr) /\ ~ IsMultiplyLong(instr)
          /\ ~ IsSwap(instr) /\ IsMrs(instr) /\ instr.c = 0
      BY <2>3 DEF MrsLayout, StatusSpace, IsBranchExchange, IsMultiply, IsMultiplyLong,
                  IsSwap, IsMrs
    <3> QED
      BY <2>1, <3>1 DEF DataDispatch
  <2>4. ASSUME SwapLayout(instr)
        PROVE  handler = IF instr.b = 0 THEN "swap" ELSE "halfword"
    <3>1. /\ instr.c = 0 /\ instr.sh = 9 /\ instr.p = 1 /\ instr.u = 0 /\ instr.l = 0
          /\ instr.w = 0 /\ instr.rs = 0
      BY <2>4 DEF SwapLayout, StatusSpace
    <3>2. /\ ~ IsBranchExchange(instr) /\ ~ IsMultiply(instr) /\ ~ IsMultiplyLong(instr)
          /\ ~ IsMrs(instr) /\ ~ IsMsr(instr) /\ ~ IsMsrFlags(instr) /\ IsHalfword(instr)
      BY <3>1 DEF IsBranchExchange, IsMultiply, IsMultiplyLong, IsMrs, IsMsr, IsMsrFlags,
                  IsHalfword
    <3>3. IsSwap(instr) <=> instr.b = 0
      BY <3>1 DEF IsSwap
    <3> QED
      BY <2>1, <3>1, <3>2, <3>3 DEF DataDispatch
  <2>5. ASSUME HalfLayout(instr)
        PROVE  handler = IF /\ StatusSpace(instr) /\ instr.w = 1
                            /\ instr.rn = 8 /\ instr.rd = 15
                         THEN "msr flags" ELSE "halfword"
    <3>1. /\ instr.c = 0 /\ instr.sh \in {11, 13, 15}
          /\ instr.b = 1 \/ instr.rs = 0
      BY <2>5 DEF HalfLayout
    <3>2. /\ ~ IsBranchExchange(instr) /\ ~ IsMultiply(instr) /\ ~ IsMultiplyLong(instr)
          /\ ~ IsSwap(instr) /\ ~ IsMrs(instr) /\ ~ IsMsr(instr) /\ IsHalfword(instr)
      BY <3>1 DEF IsBranchExchange, IsMultiply, IsMultiplyLong, IsSwap, IsMrs, IsMsr,
                  IsHalfword
    <3>3. IsMsrFlags(instr) <=> /\ StatusSpace(instr) /\ instr.w = 1
                                /\ instr.rn = 8 /\ instr.rd = 15
      BY <3>1 DEF IsMsrFlags, StatusSpace
    <3> QED
      BY <2>1, <3>1, <3>2, <3>3 DEF DataDispatch
  <2> QED
    BY <2>2, <2>3, <2>4, <2>5 DEF SharedBits
<1> QED
  BY <1>1, InitInvariant, NextInvariant, PTL DEF Spec
=============================================================================
