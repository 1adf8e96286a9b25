------------------------------ MODULE NesScan ------------------------------
(***************************************************************************)
(* A guest that reads the controller while the player plays: pulse the     *)
(* latch, read the data line, then pulse the clock before every further    *)
(* read.  fb_tick may route any number of key events between two of its    *)
(* instructions.  The guest is not part of the repository: it is the       *)
(* protocol nes.c is written for.                                          *)
(***************************************************************************)
EXTENDS Nes, Sequences

VARIABLES
    pc,         \* the next instruction of the guest
    bits,       \* what it has read, TRUE for a button held down
    held,       \* history: the states of each button since the latch rose
    disturbed   \* history: a digit key has driven the data line since then

scanVars == <<pc, bits, held, disturbed>>

Now(b) == b \in buttons

ScanInit == /\ Init
            /\ pc = "latchUp" /\ bits = <<>>
            /\ held = [b \in Buttons |-> {Now(b)}] /\ disturbed = FALSE

LatchUp == /\ pc = "latchUp" /\ pc' = "latchDown"
           /\ GpioWrite({LATCH}, 1)
           /\ bits' = <<>>
           /\ held' = [b \in Buttons |-> {Now(b)}] /\ disturbed' = FALSE

LatchDown == /\ pc = "latchDown" /\ pc' = "read"
             /\ GpioWrite({LATCH}, 0)
             /\ UNCHANGED <<bits, held, disturbed>>

\* gpio_read_port of GPIO_LEV0; a pressed button pulls the line down.
ReadLine == /\ pc = "read"
            /\ bits' = Append(bits, ports[DATA] = 0)
            /\ pc' = IF Len(bits') = ButtonCount THEN "done" ELSE "clockUp"
            /\ UNCHANGED <<vars, held, disturbed>>

ClockUp == /\ pc = "clockUp" /\ pc' = "clockDown"
           /\ GpioWrite({CLOCK}, 1)
           /\ UNCHANGED <<bits, held, disturbed>>

ClockDown == /\ pc = "clockDown" /\ pc' = "read"
             /\ GpioWrite({CLOCK}, 0)
             /\ UNCHANGED <<bits, held, disturbed>>

Again == /\ pc = "done" /\ pc' = "latchUp"
         /\ UNCHANGED <<vars, bits, held, disturbed>>

Guest == LatchUp \/ LatchDown \/ ReadLine \/ ClockUp \/ ClockDown \/ Again

Key == /\ \/ \E b \in Buttons : KeyDown(b)
          \/ \E b \in Buttons : KeyUp(b)
       /\ held' = [b \in Buttons |-> held[b] \cup {Now(b)'}]
       /\ UNCHANGED <<pc, bits, disturbed>>

Digit(port) == /\ \E value \in Level : DigitKey(port, value)
               /\ disturbed' = (disturbed \/ port = DATA)
               /\ UNCHANGED <<pc, bits, held>>

ScanNext == Guest \/ Key \/ \E port \in Tested : Digit(port)

ScanSpec == ScanInit /\ [][ScanNext]_<<vars, scanVars>>
-----------------------------------------------------------------------------
\* Every bit of a finished scan is a state its own button had during the scan, so a
\* button that is not touched is reported as it is, whatever the others do: only a
\* digit key on the data line can make the scan lie, and none on the other wires.
ScanFaithful ==
    pc = "done" /\ ~ disturbed => \A b \in Buttons : bits[b + 1] \in held[b]

\* A guest that follows the protocol never lets the 32-bit counter run away.
CounterStays == counter <= ButtonCount
=============================================================================
