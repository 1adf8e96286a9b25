------------------------------- MODULE Stack -------------------------------
(***************************************************************************)
(* What a program expects of its stack: it pushes registers, integer and   *)
(* floating point alike, and pops the words it pushed, the last first, to  *)
(* registers of either kind.                                               *)
(***************************************************************************)
EXTENDS Integers, Sequences

CONSTANTS
    Names,      \* the registers a word can be pushed from and popped to
    Number,     \* the order of the registers
    Moving,     \* those that change by themselves: the program counter
    Words

VARIABLES
    regs,       \* the word in each register
    stack       \* the words pushed and not yet popped, the last first

vars == <<regs, stack>>

\* The lists of registers that can be moved at once: an instruction names a set of
\* registers and its order is theirs.
Lists(n) == {l \in [1 .. n -> Names] :
                \A j, k \in 1 .. n : j < k => Number[l[j]] < Number[l[k]]}

Init == regs \in [Names -> Words] /\ stack = <<>>

\* The first register of the list ends up on top.
Push == \E n \in 1 .. Len(stack') :
    /\ Len(stack') = Len(stack) + n
    /\ \E l \in Lists(n) : stack' = [k \in 1 .. n |-> regs[l[k]]] \o stack
    /\ \A g \in Names \ Moving : regs'[g] = regs[g]

Pop == \E n \in 1 .. Len(stack) :
    /\ stack' = SubSeq(stack, n + 1, Len(stack))
    /\ \E l \in Lists(n) :
           /\ \A k \in 1 .. n : regs'[l[k]] = stack[k]
           /\ \A g \in Names \ Moving :
                  (\A k \in 1 .. n : l[k] # g) => regs'[g] = regs[g]

\* Anything else the program does to its registers.
Work == regs' \in [Names -> Words] /\ UNCHANGED stack

\* It leaves its stack: it sets the stack pointer or stores into the stack by
\* another register.
Leave == regs' \in [Names -> Words] /\ stack' = <<>>

Next == Push \/ Pop \/ Work \/ Leave

Spec == Init /\ [][Next]_vars
=============================================================================
