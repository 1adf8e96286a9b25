-------------------------------- MODULE Nes --------------------------------
(***************************************************************************)
(* The GPIO ports and the NES controller behind them, as run with --nes:   *)
(* gpio_write_port to SET0 and CLR0, which hands every bit it writes to    *)
(* nes_gpio_write, and the key events fb_tick routes.  The digit keys set  *)
(* nine ports from gpio_test_offset on, which may be any, directly, so     *)
(* nes_gpio_write never hears of them.                                     *)
(*                                                                         *)
(* Only the three ports of the controller are kept: no other port changes  *)
(* its state or is changed by it.  Digit keys that fall outside the 54     *)
(* ports write memory that is not kept either.                             *)
(***************************************************************************)
EXTENDS Integers

CONSTANTS
    ButtonCount,    \* NES_BUTTON_COUNT: 8
    CounterMod,     \* counter is a uint32_t: 2^32
    MaxCount,       \* bound: the value of counter at which no clock rises
    TestOffset      \* gpio_test_offset, an int --gpio-test sets unchecked

ASSUME ButtonAssumption == ButtonCount \in Nat \ {0}
ASSUME CountAssumption ==
    /\ CounterMod \in Nat /\ CounterMod > ButtonCount
    /\ MaxCount \in 1 .. CounterMod - 1
ASSUME OffsetAssumption == TestOffset \in Int

DATA == 4
CLOCK == 10
LATCH == 11
Ports == {DATA, CLOCK, LATCH}
Wires == {CLOCK, LATCH}         \* the ones nes_gpio_write listens to
Tested == {p \in Ports : p - TestOffset \in 0 .. 8}

VARIABLES
    ports,          \* gpio.ports[i].state
    buttons,        \* the buttons b whose state[b] is 1
    counter, last_latch, last_clock,
    driven          \* history: the level the guest stored last to each wire

vars == <<ports, buttons, counter, last_latch, last_clock, driven>>

Level == {0, 1}
Buttons == 0 .. ButtonCount - 1
Shown(b) == IF b \in buttons THEN 0 ELSE 1

\* The state gpio_write_port works on, one bit at a time.
Pad == [ports |-> ports, counter |-> counter,
        latch |-> last_latch, clock |-> last_clock]

Become(p) == /\ ports' = p.ports /\ counter' = p.counter
             /\ last_latch' = p.latch /\ last_clock' = p.clock
-----------------------------------------------------------------------------
Init == /\ ports = [p \in Ports |-> 0]
        /\ buttons = {}
        /\ counter = 0 /\ last_latch = 0 /\ last_clock = 0
        /\ driven = [w \in Wires |-> 0]

\* nes_gpio_write on the latch, and on the clock.
NeverResets(p, value) ==
    LET edge == p.latch = 0 /\ value = 1
    IN  [p EXCEPT !.counter = IF edge THEN (@ + 1) % CounterMod ELSE @,
                  !.ports[DATA] = IF edge THEN Shown(0) ELSE @,
                  !.latch = value]

FirstTwice(p, value) ==
    LET edge == p.latch = 0 /\ value = 1
    IN  [p EXCEPT !.counter = IF edge THEN 0 ELSE @,
                  !.ports[DATA] = IF edge THEN Shown(0) ELSE @,
                  !.latch = value]

WriteLatch(p, value) ==
    LET edge == p.latch = 0 /\ value = 1
    IN  [p EXCEPT !.counter = IF edge THEN 1 ELSE @,
                  !.ports[DATA] = IF edge THEN Shown(0) ELSE @,
                  !.latch = value]

ForgetsClock(p, value) ==
    LET edge == p.clock = 0 /\ value = 1
    IN  [p EXCEPT !.counter = IF edge THEN (@ + 1) % CounterMod ELSE @,
                  !.ports[DATA] = IF edge THEN Shown(p.counter) ELSE @]

WriteClock(p, value) ==
    LET edge == p.clock = 0 /\ value = 1
    IN  [p EXCEPT !.counter = IF edge THEN (@ + 1) % CounterMod ELSE @,
                  !.ports[DATA] = IF edge THEN Shown(p.counter) ELSE @,
                  !.clock = value]

\* One turn of the loop: the bit is stored, then caught.
Store(p, port, bits, value) ==
    IF port \in bits THEN [p EXCEPT !.ports[port] = value] ELSE p

LatchFirst(p, bits, value) ==
    LET data    == Store(p, DATA, bits, value)
        stored  == Store(data, LATCH, bits, value)
        latched == IF LATCH \in bits THEN WriteLatch(stored, value) ELSE stored
        clocked == Store(latched, CLOCK, bits, value)
    IN  IF CLOCK \in bits THEN WriteClock(clocked, value) ELSE clocked

\* The loop over the 32 bits, lowest first.
WriteBits(p, bits, value) ==
    LET data    == Store(p, DATA, bits, value)
        stored  == Store(data, CLOCK, bits, value)
        clocked == IF CLOCK \in bits THEN WriteClock(stored, value) ELSE stored
        latched == Store(clocked, LATCH, bits, value)
    IN  IF LATCH \in bits THEN WriteLatch(latched, value) ELSE latched

\* A store to GPIO_SET0 (value 1) or GPIO_CLR0 (value 0).
GpioWrite(bits, value) ==
    /\ value = 1 /\ CLOCK \in bits => counter < MaxCount
    /\ Become(WriteBits(Pad, bits, value))
    /\ driven' = [w \in Wires |-> IF w \in bits THEN value ELSE driven[w]]
    /\ UNCHANGED buttons

\* nes_on_key_down and nes_on_key_up for the key bound to b.
KeyDownBeside(b) == /\ buttons' = buttons \cup {b + 1}
                    /\ UNCHANGED <<ports, counter, last_latch, last_clock, driven>>

KeyDown(b) == /\ buttons' = buttons \cup {b}
              /\ UNCHANGED <<ports, counter, last_latch, last_clock, driven>>

KeyUp(b) == /\ buttons' = buttons \ {b}
            /\ UNCHANGED <<ports, counter, last_latch, last_clock, driven>>

\* A digit key goes down (1) or up (0).
DigitKey(port, value) ==
    /\ ports' = [ports EXCEPT ![port] = value]
    /\ UNCHANGED <<buttons, counter, last_latch, last_clock, driven>>

Next == \/ \E bits \in SUBSET Ports, value \in Level : GpioWrite(bits, value)
        \/ \E b \in Buttons : KeyDown(b)
        \/ \E b \in Buttons : KeyUp(b)
        \/ \E port \in Tested, value \in Level : DigitKey(port, value)

Spec == Init /\ [][Next]_vars
-----------------------------------------------------------------------------
TypeOK == /\ ports \in [Ports -> Level]
          /\ buttons \subseteq Buttons
          /\ counter \in 0 .. MaxCount
          /\ last_latch \in Level /\ last_clock \in Level
          /\ driven \in [Wires -> Level]

Remembered(w) == IF w = LATCH THEN last_latch ELSE last_clock

\* nes_gpio_write finds edges by the last level it was told, not by the port's: that
\* is always the level the guest stored last, in SET0 or CLR0, whatever the digit
\* keys do.  A guest that reads the port back finds another level only on a wire that
\* --gpio-test put under a digit key (main.c:91): what it takes for an edge there is
\* none to the controller.
EdgesFollowGuest == \A w \in Wires :
    /\ Remembered(w) = driven[w]
    /\ ports[w] # driven[w] => w \in Tested

\* The controller is the shift register a guest expects on the wires it drives: no
\* edge of a wire is missed, doubled or taken in another order, even when a digit
\* key moves the port under it.
Shifted == INSTANCE ShiftPad WITH
    latch <- driven[LATCH], clock <- driven[CLOCK], line <- ports[DATA],
    index <- IF counter < ButtonCount THEN counter ELSE ButtonCount

ImplementsPad == Shifted!Spec
=============================================================================
