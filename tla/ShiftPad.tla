------------------------------ MODULE ShiftPad ------------------------------
(***************************************************************************)
(* What nes.c promises a guest: an NES controller is a shift register on   *)
(* three wires.  A rising latch puts the first button on the data line, a  *)
(* rising clock the next one, and past the last button the line is high.   *)
(* Buttons are active low and sampled when they are shifted out.           *)
(***************************************************************************)
EXTENDS Integers

CONSTANT ButtonCount    \* NES_BUTTON_COUNT

VARIABLES
    latch, clock,       \* the level of each wire, 0 or 1
    line,               \* the level of the data wire
    buttons,            \* the buttons that are held down
    index               \* the next button to shift out, ButtonCount past the last

padVars == <<latch, clock, line, buttons, index>>

Level == {0, 1}
Buttons == 0 .. ButtonCount - 1
Shown(i) == IF i \in buttons THEN 0 ELSE 1

Init == /\ latch = 0 /\ clock = 0 /\ line = 0
        /\ buttons = {}
        /\ index = 0

\* The guest drives the wires.  A latch and a clock that rise together are a
\* latch; a guest that drives the data wire itself is overruled by an edge.
Latch == /\ latch = 0 /\ latch' = 1
         /\ clock' \in Level
         /\ line' = Shown(0)
         /\ index' = 1
         /\ UNCHANGED buttons

Shift == /\ clock = 0 /\ clock' = 1
         /\ UNCHANGED <<latch, buttons>>
         /\ line' = Shown(index)
         /\ index' = IF index < ButtonCount THEN index + 1 ELSE index

Drive == /\ latch' \in 0 .. latch /\ clock' \in 0 .. clock
         /\ line' \in Level
         /\ UNCHANGED <<buttons, index>>

Press == /\ \E b \in Buttons : buttons' = buttons \cup {b}
         /\ UNCHANGED <<latch, clock, line, index>>

Release == /\ \E b \in Buttons : buttons' = buttons \ {b}
           /\ UNCHANGED <<latch, clock, line, index>>

Next == Latch \/ Shift \/ Drive \/ Press \/ Release

Spec == Init /\ [][Next]_padVars
=============================================================================
