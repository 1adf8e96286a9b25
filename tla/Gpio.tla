-------------------------------- MODULE Gpio --------------------------------
(***************************************************************************)
(* gpio_write_port and gpio_read_port on every register they implement:    *)
(* function selection, SET and CLR of both banks, and the controller of    *)
(* Nes on three ports of the first.  The registers overlap the 54 ports    *)
(* badly: FSEL5, SET1 and CLR1 name ten ports, or 32, that run past the    *)
(* last.  Those bits are written behind the array, to memory that is not   *)
(* the ports' own: it is not kept, and they change nothing else.           *)
(*                                                                         *)
(* A store to any other port reports an error and changes nothing.         *)
(***************************************************************************)
EXTENDS Nes

CONSTANTS
    Watched,        \* the ports whose level is followed besides the controller's
    Selectors,      \* the registers FSEL the guest uses
    Selections      \* the values it stores there

GPIO_PORT_COUNT == 54
Bank == 32

ASSUME WatchedAssumption == Watched \subseteq 0 .. GPIO_PORT_COUNT - 1 /\ Watched \cap Ports = {}
ASSUME SelectionsAssumption == Selectors \subseteq 0 .. 5 /\ Selections \subseteq 0 .. (8^10) - 1

VARIABLES
    funcs,          \* ports[i].func
    levels,         \* ports[i].state of the ports watched
    selected        \* history: what was last stored to each FSEL

gpioVars == <<funcs, levels, selected>>

\* The ports of FSELn, and the field of its k-th port.
Group(n) == 10 * n .. (10 * n) + 9

TwoBits(v, k) == (v \div 8^k) % 4
Field(v, k) == (v \div 8^k) % 8

GpioInit == /\ Init
            /\ funcs = [i \in 0 .. GPIO_PORT_COUNT - 1 |-> 0]
            /\ levels = [i \in Watched |-> 0]
            /\ selected = [n \in 0 .. 5 |-> 0]

\* A store to FSELn.
Select(n, v) ==
    /\ funcs' = [i \in DOMAIN funcs |-> IF i \in Group(n) THEN Field(v, i % 10)
                                                          ELSE funcs[i]]
    /\ selected' = [selected EXCEPT ![n] = v]
    /\ UNCHANGED <<levels, vars>>

\* The controller after the bits of a bank are written: nes_gpio_write is told of
\* those of the first.
CaughtToo(p, offset, bits, value) ==
    LET clocked == IF CLOCK \in bits THEN WriteClock(p, value) ELSE p
    IN  IF offset = 0 THEN WriteBits(p, bits, value)
        ELSE IF LATCH \in bits THEN WriteLatch(clocked, value) ELSE clocked

Caught(p, offset, bits, value) ==
    IF offset = 0 THEN WriteBits(p, bits, value) ELSE p

\* A store to SET (value 1) or CLR (value 0) of the bank at offset.
WriteBank(offset, bits, value) ==
    LET named == {offset + b : b \in bits}
    IN  /\ levels' = [i \in Watched |-> IF i \in named THEN value ELSE levels[i]]
        /\ value = 1 /\ CLOCK \in bits => counter < MaxCount
        /\ Become(Caught(Pad, offset, bits, value))
        /\ driven' = [w \in Wires |-> IF w \in named THEN value ELSE driven[w]]
        /\ UNCHANGED <<buttons, funcs, selected>>

\* What reading FSELn returns, of the ports that are there.
ReadSelect(n) ==
    LET func(i) == IF i \in DOMAIN funcs THEN funcs[i] ELSE 0
        reg[k \in 0 .. 10] ==
            IF k = 0 THEN 0 ELSE reg[k - 1] + (func((10 * n) + (k - 1)) * 8^(k - 1))
    IN  reg[10]

\* The digit keys reach the ports watched as well.
WatchedKey(port, value) ==
    /\ levels' = [levels EXCEPT ![port] = value]
    /\ UNCHANGED <<vars, funcs, selected>>

Names(offset) == {i - offset : i \in (Ports \cup Watched) \cap (offset .. offset + Bank - 1)}

GpioNext ==
    \/ \E n \in Selectors, v \in Selections : Select(n, v)
    \/ \E offset \in {0, Bank} : \E bits \in SUBSET Names(offset), value \in Level :
           WriteBank(offset, bits, value)
    \/ /\ \/ \E b \in Buttons : KeyDown(b)
          \/ \E b \in Buttons : KeyUp(b)
          \/ \E port \in Tested, value \in Level : DigitKey(port, value)
       /\ UNCHANGED gpioVars
    \/ \E port \in Watched, value \in Level :
           port - TestOffset \in 0 .. 8 /\ WatchedKey(port, value)

GpioSpec == GpioInit /\ [][GpioNext]_<<vars, gpioVars>>
-----------------------------------------------------------------------------
\* Whatever the guest stores to GPIO, the controller sees nothing but what Nes
\* describes: the ports 42 and 43 share their bits with its clock and its latch, and
\* only those of the first bank may reach it (gpio.c:148).
DrivesController == Spec

\* Each of the registers FSEL0 to FSEL4 selects the functions of ten ports and reads
\* back as it was written, whatever is selected for the others; FSEL5 keeps the four
\* fields of ports that are there.
SelectsOwn == \A n \in 0 .. 5 : ReadSelect(n) = selected[n] % (IF n = 5 THEN 8^4 ELSE 8^10)
=============================================================================
