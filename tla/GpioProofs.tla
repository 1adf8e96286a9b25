----------------------------- MODULE GpioProofs -----------------------------
(***************************************************************************)
(* Proofs about Nes.tla and NesScan.tla: the controller of nes.c behind    *)
(* gpio.c is a shift register, for every number of buttons, every width of *)
(* its counter and every offset of the digit keys; and what a guest reads  *)
(* of it while its player plays.                                           *)
(*                                                                         *)
(* Then about Gpio.tla: whatever else the guest does to the ports, the     *)
(* controller on three of them is that of Nes, and so a shift register,    *)
(* and the functions selected read back.                                   *)
(***************************************************************************)
EXTENDS Gpio, NesScan, Division, TLAPS

IInv == TypeOK /\ EdgesFollowGuest

\* The controller remembers what the guest drives, the digit keys or no.
LEMMA EdgesAreDriven ==
    ASSUME EdgesFollowGuest
    PROVE  last_latch = driven[LATCH] /\ last_clock = driven[CLOCK]
BY DEF EdgesFollowGuest, Remembered, Wires, LATCH, CLOCK

USE ButtonAssumption, CountAssumption, OffsetAssumption
USE DEF DATA, CLOCK, LATCH

PadState == [ports : [Ports -> Level], counter : Nat, latch : Level, clock : Level]

\* What storing one bit, the clock and the latch make of a pad.
LEMMA StoreIs ==
    ASSUME NEW p \in PadState, NEW port \in Ports, NEW mask, NEW value \in Level
    PROVE  LET q == Store(p, port, mask, value)
           IN  /\ q \in PadState
               /\ q.ports = [x \in Ports |-> IF x = port /\ port \in mask
                                            THEN value ELSE p.ports[x]]
               /\ q.counter = p.counter /\ q.latch = p.latch /\ q.clock = p.clock
<1>1. CASE port \in mask
  BY <1>1 DEF Store, PadState, Level
<1>2. CASE port \notin mask
  BY <1>2 DEF Store, PadState, Level
<1>3. QED
  BY <1>1, <1>2

LEMMA ClockIs ==
    ASSUME NEW p \in PadState, NEW value \in Level
    PROVE  LET q    == WriteClock(p, value)
               edge == p.clock = 0 /\ value = 1
           IN  /\ q \in PadState
               /\ q.ports = [x \in Ports |-> IF x = DATA /\ edge
                                            THEN Shown(p.counter) ELSE p.ports[x]]
               /\ q.counter = IF edge THEN (p.counter + 1) % CounterMod ELSE p.counter
               /\ q.latch = p.latch /\ q.clock = value
<1>1. Shown(p.counter) \in Level
  BY DEF Shown, Level
<1>2. DATA \in Ports /\ (p.counter + 1) % CounterMod \in Nat
  BY DEF Ports, PadState
<1>3. QED
  BY <1>1, <1>2 DEF WriteClock, PadState

LEMMA LatchIs ==
    ASSUME NEW p \in PadState, NEW value \in Level
    PROVE  LET q    == WriteLatch(p, value)
               edge == p.latch = 0 /\ value = 1
           IN  /\ q \in PadState
               /\ q.ports = [x \in Ports |-> IF x = DATA /\ edge
                                            THEN Shown(0) ELSE p.ports[x]]
               /\ q.counter = IF edge THEN 1 ELSE p.counter
               /\ q.latch = value /\ q.clock = p.clock
<1>1. Shown(0) \in Level /\ DATA \in Ports
  BY DEF Shown, Level, Ports
<1>2. QED
  BY <1>1 DEF WriteLatch, PadState

\* The whole loop: a rising latch wins over a rising clock, and a rising clock over
\* the data bit.
LEMMA WriteIs ==
    ASSUME NEW p \in PadState, NEW mask, NEW value \in Level
    PROVE  LET q       == WriteBits(p, mask, value)
               latched == LATCH \in mask /\ p.latch = 0 /\ value = 1
               clocked == CLOCK \in mask /\ p.clock = 0 /\ value = 1
           IN  /\ q.counter = IF latched THEN 1
                              ELSE IF clocked THEN (p.counter + 1) % CounterMod
                              ELSE p.counter
               /\ q.ports = [x \in Ports |->
                      IF x # DATA \/ ~ (latched \/ clocked)
                      THEN IF x \in mask THEN value ELSE p.ports[x]
                      ELSE IF latched THEN Shown(0) ELSE Shown(p.counter)]
               /\ q.latch = IF LATCH \in mask THEN value ELSE p.latch
               /\ q.clock = IF CLOCK \in mask THEN value ELSE p.clock
<1> DEFINE data    == Store(p, DATA, mask, value)
           stored  == Store(data, CLOCK, mask, value)
           clock   == IF CLOCK \in mask THEN WriteClock(stored, value) ELSE stored
           raised  == Store(clock, LATCH, mask, value)
           q       == IF LATCH \in mask THEN WriteLatch(raised, value) ELSE raised
           latched == LATCH \in mask /\ p.latch = 0 /\ value = 1
           clocked == CLOCK \in mask /\ p.clock = 0 /\ value = 1
<1>0. WriteBits(p, mask, value) = q
  BY DEF WriteBits
<1>1. DATA \in Ports /\ CLOCK \in Ports /\ LATCH \in Ports
  BY DEF Ports
<1>2. /\ data \in PadState
      /\ data.ports = [x \in Ports |-> IF x = DATA /\ DATA \in mask
                                       THEN value ELSE p.ports[x]]
      /\ data.counter = p.counter /\ data.latch = p.latch /\ data.clock = p.clock
  BY <1>1, StoreIs
<1> HIDE DEF data
<1>3. /\ stored \in PadState
      /\ stored.ports = [x \in Ports |-> IF x = CLOCK /\ CLOCK \in mask
                                         THEN value ELSE data.ports[x]]
      /\ stored.counter = p.counter /\ stored.latch = p.latch
      /\ stored.clock = p.clock
  BY <1>1, <1>2, StoreIs
<1> HIDE DEF stored
<1>4. /\ clock \in PadState
      /\ clock.ports = [x \in Ports |-> IF x = DATA /\ clocked
                                        THEN Shown(p.counter) ELSE stored.ports[x]]
      /\ clock.counter = IF clocked THEN (p.counter + 1) % CounterMod ELSE p.counter
      /\ clock.latch = p.latch
      /\ clock.clock = IF CLOCK \in mask THEN value ELSE p.clock
  <2>1. CASE CLOCK \in mask
    BY <1>3, <2>1, ClockIs
  <2>2. CASE CLOCK \notin mask
    BY <1>3, <2>2 DEF PadState
  <2>3. QED
    BY <2>1, <2>2
<1> HIDE DEF clock
<1>5. /\ raised \in PadState
      /\ raised.ports = [x \in Ports |-> IF x = LATCH /\ LATCH \in mask
                                         THEN value ELSE clock.ports[x]]
      /\ raised.counter = clock.counter /\ raised.latch = p.latch
      /\ raised.clock = clock.clock
  BY <1>1, <1>4, StoreIs
<1> HIDE DEF raised
<1>6. /\ q.ports = [x \in Ports |-> IF x = DATA /\ latched
                                    THEN Shown(0) ELSE raised.ports[x]]
      /\ q.counter = IF latched THEN 1 ELSE raised.counter
      /\ q.latch = IF LATCH \in mask THEN value ELSE p.latch
      /\ q.clock = raised.clock
  <2>1. CASE LATCH \in mask
    BY <1>5, <2>1, LatchIs
  <2>2. CASE LATCH \notin mask
    BY <1>5, <2>2 DEF PadState
  <2>3. QED
    BY <2>1, <2>2
<1> HIDE DEF q
<1>7. q.ports = [x \in Ports |->
                      IF x # DATA \/ ~ (latched \/ clocked)
                      THEN IF x \in mask THEN value ELSE p.ports[x]
                      ELSE IF latched THEN Shown(0) ELSE Shown(p.counter)]
  BY <1>2, <1>3, <1>4, <1>5, <1>6 DEF Ports
<1>8. QED
  BY <1>0, <1>4, <1>5, <1>6, <1>7

\* What a store to SET0 or CLR0 does to the variables.
LEMMA StoreStep ==
    ASSUME IInv, NEW mask \in SUBSET Ports, NEW value \in Level,
           GpioWrite(mask, value)
    PROVE  LET latched == LATCH \in mask /\ driven[LATCH] = 0 /\ value = 1
               clocked == CLOCK \in mask /\ driven[CLOCK] = 0 /\ value = 1
           IN  /\ counter' = IF latched THEN 1
                             ELSE IF clocked THEN counter + 1 ELSE counter
               /\ ports' = [p \in Ports |->
                    IF p # DATA \/ ~ (latched \/ clocked)
                    THEN IF p \in mask THEN value ELSE ports[p]
                    ELSE IF latched THEN Shown(0) ELSE Shown(counter)]
               /\ last_latch' = driven'[LATCH] /\ last_clock' = driven'[CLOCK]
               /\ driven' = [w \in Wires |-> IF w \in mask THEN value ELSE driven[w]]
               /\ driven'[LATCH] = IF LATCH \in mask THEN value ELSE driven[LATCH]
               /\ driven'[CLOCK] = IF CLOCK \in mask THEN value ELSE driven[CLOCK]
               /\ buttons' = buttons
               /\ clocked => counter < MaxCount
<1>1. Pad \in PadState
  BY DEF Pad, PadState, IInv, TypeOK
<1>2. /\ Pad.ports = ports /\ Pad.counter = counter
      /\ Pad.latch = driven[LATCH] /\ Pad.clock = driven[CLOCK]
  BY EdgesAreDriven DEF Pad, IInv
<1>3. CLOCK \in mask /\ value = 1 =>
         counter < MaxCount /\ (counter + 1) % CounterMod = counter + 1
  BY DEF GpioWrite, IInv, TypeOK
<1>4. Become(WriteBits(Pad, mask, value)) /\ buttons' = buttons
  BY DEF GpioWrite
<1>5. /\ DATA # LATCH /\ DATA # CLOCK /\ LATCH \in Wires /\ CLOCK \in Wires
      /\ driven' = [w \in Wires |-> IF w \in mask THEN value ELSE driven[w]]
  BY DEF Wires, GpioWrite
<1>6. QED
  BY <1>1, <1>2, <1>3, <1>4, <1>5, WriteIs DEF Become

LEMMA InitIInv == Init => IInv
  BY DEF Init, IInv, TypeOK, EdgesFollowGuest, Remembered, Wires, Ports, Level

LEMMA NextIInv == IInv /\ [Next]_vars => IInv'
<1> SUFFICES ASSUME IInv, [Next]_vars PROVE IInv'
  OBVIOUS
<1>1. ASSUME NEW mask \in SUBSET Ports, NEW value \in Level, GpioWrite(mask, value)
      PROVE  IInv'
  <2> DEFINE latched == LATCH \in mask /\ driven[LATCH] = 0 /\ value = 1
             clocked == CLOCK \in mask /\ driven[CLOCK] = 0 /\ value = 1
  <2>0. /\ counter' = IF latched THEN 1 ELSE IF clocked THEN counter + 1 ELSE counter
        /\ clocked => counter < MaxCount
        /\ ports' = [p \in Ports |->
                    IF p # DATA \/ ~ (latched \/ clocked)
                    THEN IF p \in mask THEN value ELSE ports[p]
                    ELSE IF latched THEN Shown(0) ELSE Shown(counter)]
        /\ driven' = [w \in Wires |-> IF w \in mask THEN value ELSE driven[w]]
    BY <1>1, StoreStep
  <2> HIDE DEF latched, clocked
  <2>1. counter' \in 0 .. MaxCount
    BY <2>0 DEF IInv, TypeOK
  <2>2. ports' \in [Ports -> Level]
    BY <2>0 DEF IInv, TypeOK, Shown, Level
  <2>3. driven' \in [Wires -> Level]
    BY <2>0 DEF IInv, TypeOK
  <2>4. EdgesFollowGuest'
    <3>1. \A w \in Wires : ports'[w] = IF w \in mask THEN value ELSE ports[w]
      BY <1>1, StoreStep DEF Wires, Ports
    <3>2. \A w \in Wires : driven'[w] = IF w \in mask THEN value ELSE driven[w]
      BY <1>1, StoreStep
    <3>3. \A w \in Wires : Remembered(w)' = driven'[w]
      BY <1>1, StoreStep DEF Remembered, Wires
    <3> QED
      BY <3>1, <3>2, <3>3 DEF IInv, EdgesFollowGuest, Tested
  <2>5. buttons' \subseteq Buttons /\ last_latch' \in Level /\ last_clock' \in Level
    <3>1. LATCH \in Wires /\ CLOCK \in Wires
      BY DEF Wires
    <3> QED
      BY <1>1, <2>3, <3>1, StoreStep DEF IInv, TypeOK
  <2> QED
    BY <2>1, <2>2, <2>3, <2>4, <2>5 DEF IInv, TypeOK
<1>3. ASSUME NEW b \in Buttons, KeyDown(b) \/ KeyUp(b) PROVE IInv'
  BY <1>3 DEF KeyDown, KeyUp, IInv, TypeOK, EdgesFollowGuest, Remembered, Tested
<1>4. ASSUME NEW port \in Tested, NEW value \in Level, DigitKey(port, value) PROVE IInv'
  <2>1. /\ ports' = [ports EXCEPT ![port] = value] /\ port \in Ports
        /\ UNCHANGED <<buttons, counter, last_latch, last_clock, driven>>
    BY <1>4 DEF DigitKey, Tested
  <2>2. \A w \in Wires : w # port => ports'[w] = ports[w]
    BY <2>1 DEF IInv, TypeOK, Wires, Ports
  <2>3. EdgesFollowGuest'
    BY <2>1, <2>2 DEF IInv, EdgesFollowGuest, Remembered, Tested
  <2> QED
    BY <2>1, <2>3 DEF IInv, TypeOK
<1>5. CASE UNCHANGED vars
  BY <1>5 DEF vars, IInv, TypeOK, EdgesFollowGuest, Remembered, Tested
<1>6. QED
  BY <1>1, <1>3, <1>4, <1>5 DEF Next

LEMMA Invariance == Spec => []IInv
  BY InitIInv, NextIInv, PTL DEF Spec

\* The counter stays a uint32_t and every port a bit, and no key sets a button that
\* is not there.
THEOREM TypeCorrect == Spec => []TypeOK
<1>1. IInv => TypeOK
  BY DEF IInv
<1>2. QED
  BY <1>1, Invariance, PTL

\* Whatever --gpio-test sets, nes_gpio_write (nes.c:37) never takes a level the guest
\* stores for an edge, nor an edge for a level; and a port differs from what the guest
\* stored there only where a digit key falls on it.
THEOREM EdgesTracked == Spec => []EdgesFollowGuest
<1>1. IInv => EdgesFollowGuest
  BY DEF IInv
<1>2. QED
  BY <1>1, Invariance, PTL
-----------------------------------------------------------------------------
(* Refinement *)

Index == IF counter < ButtonCount THEN counter ELSE ButtonCount

LEMMA ButtonShown ==
    ASSUME IInv PROVE Shifted!Shown(Index) = Shown(counter) /\ Shifted!Shown(0) = Shown(0)
  BY DEF IInv, TypeOK, Shifted!Shown, Shown, Index, Buttons

LEMMA StepShifts == IInv /\ IInv' /\ [Next]_vars => [Shifted!Next]_(Shifted!padVars)
<1> SUFFICES ASSUME IInv, IInv', [Next]_vars
             PROVE  Shifted!Next \/ UNCHANGED Shifted!padVars
  OBVIOUS
<1> USE DEF Shifted!Level, Level
<1>1. ASSUME NEW mask \in SUBSET Ports, NEW value \in Level, GpioWrite(mask, value)
      PROVE  Shifted!Next
  <2> DEFINE latched == LATCH \in mask /\ driven[LATCH] = 0 /\ value = 1
             clocked == CLOCK \in mask /\ driven[CLOCK] = 0 /\ value = 1
  <2>0. /\ buttons' = buttons
        /\ driven'[LATCH] = IF LATCH \in mask THEN value ELSE driven[LATCH]
        /\ driven'[CLOCK] = IF CLOCK \in mask THEN value ELSE driven[CLOCK]
        /\ driven[LATCH] \in Level /\ driven[CLOCK] \in Level
    BY <1>1, StoreStep DEF Wires, IInv, TypeOK
  <2>1. CASE latched
    BY <1>1, <2>0, <2>1, StoreStep, ButtonShown
       DEF IInv, TypeOK, Ports, Shifted!Next, Shifted!Latch
  <2>2. CASE ~ latched /\ clocked
    BY <1>1, <2>0, <2>2, StoreStep, ButtonShown
       DEF IInv, TypeOK, Ports, Index, Shifted!Next, Shifted!Shift
  <2>3. CASE ~ latched /\ ~ clocked
    BY <1>1, <2>0, <2>3, StoreStep DEF IInv, TypeOK, Ports, Shifted!Next, Shifted!Drive
  <2>4. QED
    BY <2>1, <2>2, <2>3
<1>3. ASSUME NEW b \in Buttons, KeyDown(b) PROVE Shifted!Next
  BY <1>3 DEF KeyDown, Buttons, Shifted!Next, Shifted!Press, Shifted!Buttons
<1>4. ASSUME NEW b \in Buttons, KeyUp(b) PROVE Shifted!Next
  BY <1>4 DEF KeyUp, Buttons, Shifted!Next, Shifted!Release, Shifted!Buttons
<1>5. ASSUME NEW port \in Tested, NEW value \in Level, DigitKey(port, value)
      PROVE  Shifted!Next \/ UNCHANGED Shifted!padVars
  <2>1. /\ ports' = [ports EXCEPT ![port] = value]
        /\ UNCHANGED <<buttons, counter, driven>>
    BY <1>5 DEF DigitKey
  <2>2. driven[LATCH] \in Level /\ driven[CLOCK] \in Level /\ DATA \in Ports
    BY DEF Wires, Ports, IInv, TypeOK
  <2>3. CASE port = DATA
    BY <2>1, <2>2, <2>3 DEF IInv, TypeOK, Shifted!Next, Shifted!Drive
  <2>4. CASE port # DATA
    BY <2>1, <2>2, <2>4 DEF IInv, TypeOK, Shifted!padVars
  <2> QED
    BY <2>3, <2>4
<1>6. CASE UNCHANGED vars
  BY <1>6 DEF vars, Shifted!padVars
<1>7. QED
  BY <1>1, <1>3, <1>4, <1>5, <1>6 DEF Next

\* Every behaviour of the controller is one of the shift register: no store of the
\* guest and no key, in any order and at any offset of the digits, loses, doubles or
\* misorders a button.
THEOREM PadImplemented == Spec => ImplementsPad
<1>1. Init => Shifted!Init
  BY DEF Init, Ports, Wires, Shifted!Init
<1>2. QED
  BY <1>1, StepShifts, Invariance, PTL DEF Spec, ImplementsPad, Shifted!Spec
-----------------------------------------------------------------------------
(* The guest of NesScan                                                    *)

Instructions == {"latchUp", "latchDown", "read", "clockUp", "clockDown", "done"}

\* Where the guest is tells the levels of the wires it drives, the buttons shifted out
\* and the bits it has read.
GuestLevels == /\ driven[LATCH] = IF pc = "latchDown" THEN 1 ELSE 0
               /\ driven[CLOCK] = IF pc = "clockDown" THEN 1 ELSE 0

Progress ==
    /\ bits \in Seq(BOOLEAN) /\ pc \in Instructions
    /\ counter <= ButtonCount
    /\ pc = "latchDown" => bits = <<>> /\ counter = 1
    /\ pc \in {"read", "clockDown"} => counter = Len(bits) + 1
    /\ pc = "clockUp" => counter = Len(bits) /\ counter < ButtonCount
    /\ pc = "done" => Len(bits) = ButtonCount

\* What the line shows and what has been read are states of their own buttons.
Seen ==
    /\ held \in [Buttons -> SUBSET BOOLEAN]
    /\ \A b \in Buttons : Now(b) \in held[b]
    /\ disturbed \in BOOLEAN
    /\ ~ disturbed /\ pc \in {"latchDown", "read", "clockDown"} =>
           (ports[DATA] = 0) \in held[counter - 1]
    /\ ~ disturbed /\ pc # "latchUp" =>
           \A i \in 1 .. Len(bits) : i - 1 \in Buttons /\ bits[i] \in held[i - 1]

ScanInv == IInv /\ GuestLevels /\ Progress /\ Seen
-----------------------------------------------------------------------------
\* What has been seen when a scan begins, each button once.
LEMMA SeenAtFirst ==
    ASSUME NEW h, h = [b \in Buttons |-> {Now(b)}]
    PROVE  h \in [Buttons -> SUBSET BOOLEAN] /\ \A b \in Buttons : Now(b) \in h[b]
<1>1. \A b \in Buttons : {Now(b)} \in SUBSET BOOLEAN
  BY DEF Now
<1>2. h \in [Buttons -> SUBSET BOOLEAN]
  BY <1>1
<1> QED
  BY <1>2

LEMMA ScanInitial == ScanInit => ScanInv
<1> SUFFICES ASSUME ScanInit PROVE ScanInv
  OBVIOUS
<1>1. Init /\ IInv
  BY InitIInv DEF ScanInit
<1>2. pc = "latchUp" /\ bits = <<>> /\ bits \in Seq(BOOLEAN) /\ counter = 0
  BY <1>1 DEF ScanInit, Init
<1>3. GuestLevels /\ Progress
  BY <1>1, <1>2 DEF Init, GuestLevels, Progress, Instructions, Wires
<1>4. Seen
  <2>1. held \in [Buttons -> SUBSET BOOLEAN] /\ \A b \in Buttons : Now(b) \in held[b]
    BY SeenAtFirst DEF ScanInit
  <2>2. disturbed \in BOOLEAN /\ Len(bits) = 0
    BY <1>2 DEF ScanInit
  <2> QED
    BY <1>2, <2>1, <2>2 DEF Seen
<1> QED
  BY <1>1, <1>3, <1>4 DEF ScanInv

\* A step of the guest or the player is one of the controller.
LEMMA ScanIsNes == [ScanNext]_<<vars, scanVars>> => [Next]_vars
<1> SUFFICES ASSUME [ScanNext]_<<vars, scanVars>> PROVE [Next]_vars
  OBVIOUS
<1>1. {LATCH} \in SUBSET Ports /\ {CLOCK} \in SUBSET Ports /\ 0 \in Level /\ 1 \in Level
  BY DEF Ports, Level
<1>2. CASE LatchUp
  BY <1>1, <1>2 DEF LatchUp, Next
<1>3. CASE LatchDown
  BY <1>1, <1>3 DEF LatchDown, Next
<1>4. CASE ClockUp
  BY <1>1, <1>4 DEF ClockUp, Next
<1>5. CASE ClockDown
  BY <1>1, <1>5 DEF ClockDown, Next
<1>6. CASE ReadLine \/ Again
  BY <1>6 DEF ReadLine, Again
<1>7. CASE Key
  BY <1>7 DEF Key, Next
<1>8. CASE \E port \in Tested : Digit(port)
  BY <1>8 DEF Digit, Next
<1>9. CASE UNCHANGED <<vars, scanVars>>
  BY <1>9
<1> QED
  BY <1>2, <1>3, <1>4, <1>5, <1>6, <1>7, <1>8, <1>9 DEF ScanNext, Guest
-----------------------------------------------------------------------------
(* The steps of the guest                                                  *)

\* The latch puts the first button on the line.
LEMMA LatchUpKeeps == ScanInv /\ LatchUp => (GuestLevels /\ Progress /\ Seen)'
<1> SUFFICES ASSUME ScanInv, LatchUp PROVE (GuestLevels /\ Progress /\ Seen)'
  OBVIOUS
<1>1. IInv /\ {LATCH} \in SUBSET Ports /\ 1 \in Level /\ ports \in [Ports -> Level]
  BY DEF ScanInv, IInv, TypeOK, Ports, Level
<1>2. driven[LATCH] = 0 /\ driven[CLOCK] = 0
  BY DEF ScanInv, GuestLevels, LatchUp
<1>3. /\ counter' = 1 /\ buttons' = buttons
      /\ ports' = [p \in Ports |-> IF p # DATA THEN IF p = LATCH THEN 1 ELSE ports[p]
                                              ELSE Shown(0)]
      /\ driven'[LATCH] = 1 /\ driven'[CLOCK] = 0
  <2>1. GpioWrite({LATCH}, 1)
    BY DEF LatchUp
  <2>2. LATCH \in {LATCH} /\ CLOCK \notin {LATCH} /\ DATA \notin {LATCH}
    OBVIOUS
  <2> QED
    BY <1>1, <1>2, <2>1, <2>2, StoreStep
<1>4. /\ pc' = "latchDown" /\ bits' = <<>> /\ disturbed' = FALSE
      /\ held' = [b \in Buttons |-> {Now(b)}]
  BY DEF LatchUp
<1>5. GuestLevels'
  BY <1>3, <1>4 DEF GuestLevels
<1>6. Progress'
  BY <1>3, <1>4 DEF Progress, Instructions
<1>7. 0 \in Buttons /\ (Shown(0) = 0) = Now(0)
  BY DEF Buttons, Shown, Now
<1>8. (ports'[DATA] = 0) \in held'[counter' - 1]
  BY <1>3, <1>4, <1>7 DEF Ports
<1>9. Seen'
  <2>1. Now(0)' = Now(0) /\ \A b \in Buttons : Now(b)' = Now(b)
    BY <1>3 DEF Now
  <2>2. held' \in [Buttons -> SUBSET BOOLEAN] /\ \A b \in Buttons : Now(b)' \in held'[b]
    BY <1>4, <2>1, SeenAtFirst
  <2>3. disturbed' \in BOOLEAN /\ Len(bits') = 0
    BY <1>4
  <2> QED
    BY <1>4, <1>8, <2>2, <2>3 DEF Seen
<1> QED
  BY <1>5, <1>6, <1>9

\* The latch falls: nothing is shifted.
LEMMA LatchDownKeeps == ScanInv /\ LatchDown => (GuestLevels /\ Progress /\ Seen)'
<1> SUFFICES ASSUME ScanInv, LatchDown PROVE (GuestLevels /\ Progress /\ Seen)'
  OBVIOUS
<1>1. IInv /\ {LATCH} \in SUBSET Ports /\ 0 \in Level /\ ports \in [Ports -> Level]
  BY DEF ScanInv, IInv, TypeOK, Ports, Level
<1>2. /\ counter' = counter /\ buttons' = buttons
      /\ ports' = [p \in Ports |-> IF p = LATCH THEN 0 ELSE ports[p]]
      /\ driven'[LATCH] = 0 /\ driven'[CLOCK] = driven[CLOCK]
  BY <1>1, StoreStep DEF LatchDown
<1>3. /\ pc = "latchDown" /\ pc' = "read" /\ bits' = bits /\ disturbed' = disturbed
      /\ held' = held
  BY DEF LatchDown
<1>4. GuestLevels'
  BY <1>2, <1>3 DEF ScanInv, GuestLevels
<1>5. Progress'
  BY <1>2, <1>3 DEF ScanInv, Progress, Instructions
<1>6. Seen'
  BY <1>2, <1>3 DEF ScanInv, Seen, Now, Ports
<1> QED
  BY <1>4, <1>5, <1>6

\* The bit read is the state on the line.
LEMMA ReadLineKeeps == ScanInv /\ ReadLine => (GuestLevels /\ Progress /\ Seen)'
<1> SUFFICES ASSUME ScanInv, ReadLine PROVE (GuestLevels /\ Progress /\ Seen)'
  OBVIOUS
<1>1. /\ pc = "read" /\ bits' = Append(bits, ports[DATA] = 0)
      /\ pc' = IF Len(bits') = ButtonCount THEN "done" ELSE "clockUp"
      /\ ports' = ports /\ counter' = counter /\ buttons' = buttons
      /\ driven' = driven /\ held' = held /\ disturbed' = disturbed
  BY DEF ReadLine, vars
<1>2. /\ bits \in Seq(BOOLEAN) /\ counter = Len(bits) + 1 /\ counter <= ButtonCount
  BY <1>1 DEF ScanInv, Progress
<1>3. (ports[DATA] = 0) \in BOOLEAN
  OBVIOUS
<1>4. /\ bits' \in Seq(BOOLEAN) /\ Len(bits') = counter
      /\ \A i \in 1 .. Len(bits') : bits'[i] = IF i = counter THEN ports[DATA] = 0
                                                              ELSE bits[i]
  BY <1>1, <1>2, <1>3
<1>5. GuestLevels'
  BY <1>1 DEF ScanInv, GuestLevels
<1>6. Progress'
  BY <1>1, <1>2, <1>4 DEF Progress, Instructions
<1>7. ASSUME ~ disturbed, NEW i \in 1 .. Len(bits')
      PROVE  i - 1 \in Buttons /\ bits'[i] \in held[i - 1]
  <2>1. i - 1 \in Buttons
    BY <1>2, <1>4, <1>7 DEF Buttons
  <2>2. CASE i = counter
    BY <1>1, <1>4, <1>7, <2>1, <2>2 DEF ScanInv, Seen
  <2>3. CASE i # counter
    <3>1. i \in 1 .. Len(bits)
      BY <1>2, <1>4, <2>3
    <3> QED
      BY <1>1, <1>4, <1>7, <2>1, <2>3, <3>1 DEF ScanInv, Seen
  <2> QED
    BY <2>2, <2>3
<1>8. Seen'
  BY <1>1, <1>7 DEF ScanInv, Seen, Now
<1> QED
  BY <1>5, <1>6, <1>8

\* The clock puts the next button on the line.
LEMMA ClockUpKeeps == ScanInv /\ ClockUp => (GuestLevels /\ Progress /\ Seen)'
<1> SUFFICES ASSUME ScanInv, ClockUp PROVE (GuestLevels /\ Progress /\ Seen)'
  OBVIOUS
<1>1. IInv /\ {CLOCK} \in SUBSET Ports /\ 1 \in Level /\ ports \in [Ports -> Level]
  BY DEF ScanInv, IInv, TypeOK, Ports, Level
<1>2. /\ pc = "clockUp" /\ pc' = "clockDown" /\ bits' = bits /\ held' = held
      /\ disturbed' = disturbed
  BY DEF ClockUp
<1>3. driven[LATCH] = 0 /\ driven[CLOCK] = 0
  BY <1>2 DEF ScanInv, GuestLevels
<1>4. /\ counter' = counter + 1 /\ buttons' = buttons
      /\ ports' = [p \in Ports |-> IF p # DATA THEN IF p = CLOCK THEN 1 ELSE ports[p]
                                              ELSE Shown(counter)]
      /\ driven'[LATCH] = 0 /\ driven'[CLOCK] = 1
  BY <1>1, <1>3, StoreStep DEF ClockUp
<1>5. /\ counter = Len(bits) /\ counter < ButtonCount /\ counter \in Nat
  BY <1>2 DEF ScanInv, Progress, IInv, TypeOK
<1>6. GuestLevels'
  BY <1>2, <1>4 DEF GuestLevels
<1>7. Progress'
  BY <1>2, <1>4, <1>5 DEF ScanInv, Progress, Instructions
<1>8. counter \in Buttons /\ (Shown(counter) = 0) = Now(counter)
  BY <1>5 DEF Buttons, Shown, Now
<1>9. (ports'[DATA] = 0) \in held'[counter' - 1]
  <2>1. counter' - 1 = counter /\ ports'[DATA] = Shown(counter)
    BY <1>4, <1>5 DEF Ports
  <2>2. Now(counter) \in held[counter]
    BY <1>8 DEF ScanInv, Seen
  <2> QED
    BY <1>2, <1>8, <2>1, <2>2
<1>10. Seen'
  BY <1>2, <1>4, <1>9 DEF ScanInv, Seen, Now
<1> QED
  BY <1>6, <1>7, <1>10

\* The clock falls: nothing is shifted.
LEMMA ClockDownKeeps == ScanInv /\ ClockDown => (GuestLevels /\ Progress /\ Seen)'
<1> SUFFICES ASSUME ScanInv, ClockDown PROVE (GuestLevels /\ Progress /\ Seen)'
  OBVIOUS
<1>1. IInv /\ {CLOCK} \in SUBSET Ports /\ 0 \in Level /\ ports \in [Ports -> Level]
  BY DEF ScanInv, IInv, TypeOK, Ports, Level
<1>2. /\ counter' = counter /\ buttons' = buttons
      /\ ports' = [p \in Ports |-> IF p = CLOCK THEN 0 ELSE ports[p]]
      /\ driven'[LATCH] = driven[LATCH] /\ driven'[CLOCK] = 0
  BY <1>1, StoreStep DEF ClockDown
<1>3. /\ pc = "clockDown" /\ pc' = "read" /\ bits' = bits /\ disturbed' = disturbed
      /\ held' = held
  BY DEF ClockDown
<1>4. GuestLevels'
  BY <1>2, <1>3 DEF ScanInv, GuestLevels
<1>5. Progress'
  BY <1>2, <1>3 DEF ScanInv, Progress, Instructions
<1>6. Seen'
  BY <1>2, <1>3 DEF ScanInv, Seen, Now, Ports
<1> QED
  BY <1>4, <1>5, <1>6
-----------------------------------------------------------------------------
(* The player                                                              *)

\* A key adds the state of its button to those of the scan.
LEMMA KeyKeeps == ScanInv /\ Key => (GuestLevels /\ Progress /\ Seen)'
<1> SUFFICES ASSUME ScanInv, Key PROVE (GuestLevels /\ Progress /\ Seen)'
  OBVIOUS
<1>1. /\ ports' = ports /\ counter' = counter /\ pc' = pc /\ bits' = bits
      /\ driven' = driven
      /\ disturbed' = disturbed
      /\ held' = [b \in Buttons |-> held[b] \cup {Now(b)'}]
  BY DEF Key, KeyDown, KeyUp
<1>2. (GuestLevels /\ Progress)'
  BY <1>1 DEF ScanInv, GuestLevels, Progress
<1>3. \A b \in Buttons : held'[b] = held[b] \cup {Now(b)'}
  BY <1>1
<1>4. /\ held' \in [Buttons -> SUBSET BOOLEAN]
      /\ \A b \in Buttons : Now(b)' \in held'[b]
  <2>1. \A b \in Buttons : Now(b)' \in BOOLEAN
    BY DEF Now
  <2>2. \A b \in Buttons : held[b] \in SUBSET BOOLEAN
    BY DEF ScanInv, Seen
  <2>3. \A b \in Buttons : held[b] \cup {Now(b)'} \in SUBSET BOOLEAN
    BY <2>1, <2>2
  <2> QED
    BY <1>1, <1>3, <2>3
<1>5. ~ disturbed /\ pc \in {"latchDown", "read", "clockDown"} =>
          (ports[DATA] = 0) \in held'[counter - 1]
  <2> SUFFICES ASSUME ~ disturbed, pc \in {"latchDown", "read", "clockDown"}
               PROVE  (ports[DATA] = 0) \in held'[counter - 1]
    OBVIOUS
  <2>1. counter - 1 \in Buttons
    <3>1. counter \in Nat
      BY DEF ScanInv, IInv, TypeOK
    <3>2. bits \in Seq(BOOLEAN) /\ Len(bits) \in Nat
      BY DEF ScanInv, Progress
    <3>3. counter <= ButtonCount
      BY DEF ScanInv, Progress
    <3>4. counter = 1 \/ counter = Len(bits) + 1
      BY DEF ScanInv, Progress
    <3> QED
      BY <3>1, <3>2, <3>3, <3>4 DEF Buttons
  <2> QED
    BY <1>3, <2>1 DEF ScanInv, Seen
<1>6. Seen'
  BY <1>1, <1>3, <1>4, <1>5 DEF ScanInv, Seen
<1> QED
  BY <1>2, <1>6

\* A digit key drives a port, and the guest reads no other than the data line.
LEMMA DigitKeeps ==
    ASSUME ScanInv, NEW port \in Tested, Digit(port)
    PROVE  (GuestLevels /\ Progress /\ Seen)'
<1>1. PICK value \in Level : DigitKey(port, value)
  BY DEF Digit
<1>2. /\ buttons' = buttons /\ counter' = counter /\ pc' = pc /\ bits' = bits
      /\ disturbed' = (disturbed \/ port = DATA) /\ held' = held /\ driven' = driven
      /\ ports' = [ports EXCEPT ![port] = value]
  BY <1>1 DEF Digit, DigitKey
<1>3. ~ disturbed' => ports'[DATA] = ports[DATA] /\ ~ disturbed
  <2>1. ports' = [ports EXCEPT ![port] = value] /\ ports \in [Ports -> Level]
    BY <1>2 DEF ScanInv, IInv, TypeOK
  <2>2. ~ disturbed' => ~ disturbed /\ port # DATA
    BY <1>2, Zenon DEF ScanInv, Seen
  <2> QED
    BY <2>1, <2>2
<1>4. disturbed' \in BOOLEAN
  BY <1>2
<1>5. (GuestLevels /\ Progress)'
  BY <1>2 DEF ScanInv, GuestLevels, Progress
<1>6. Seen'
  <2>1. \A b \in Buttons : Now(b)' = Now(b)
    BY <1>2 DEF Now
  <2> HIDE DEF LATCH, CLOCK, DATA
  <2> QED
    BY <1>2, <1>3, <1>4, <2>1 DEF ScanInv, Seen
<1> QED
  BY <1>5, <1>6

LEMMA ScanStep == ScanInv /\ [ScanNext]_<<vars, scanVars>> => ScanInv'
<1> SUFFICES ASSUME ScanInv, [ScanNext]_<<vars, scanVars>> PROVE ScanInv'
  OBVIOUS
<1>1. IInv'
  BY ScanIsNes, NextIInv DEF ScanInv
<1>2. ASSUME Again \/ UNCHANGED <<vars, scanVars>>
      PROVE  (GuestLevels /\ Progress /\ Seen)'
  <2>1. /\ ports' = ports /\ counter' = counter /\ buttons' = buttons
        /\ driven' = driven /\ bits' = bits /\ held' = held /\ disturbed' = disturbed
        /\ pc' = pc \/ (pc = "done" /\ pc' = "latchUp")
    BY <1>2 DEF Again, vars, scanVars
  <2> QED
    BY <2>1 DEF ScanInv, GuestLevels, Progress, Seen, Now, Instructions
<1>3. (GuestLevels /\ Progress /\ Seen)'
  BY <1>2, LatchUpKeeps, LatchDownKeeps, ReadLineKeeps, ClockUpKeeps, ClockDownKeeps,
     KeyKeeps, DigitKeeps DEF ScanNext, Guest
<1> QED
  BY <1>1, <1>3 DEF ScanInv

LEMMA ScanInvariance == ScanSpec => []ScanInv
  BY ScanInitial, ScanStep, PTL DEF ScanSpec

\* However the keys move between the instructions of the guest, each bit it reads is
\* a state its own button had during the scan, for any number of buttons.
THEOREM ScansFaithful == ScanSpec => []ScanFaithful
<1>1. ScanInv => ScanFaithful
  <2> SUFFICES ASSUME ScanInv, pc = "done", ~ disturbed, NEW b \in Buttons
               PROVE  bits[b + 1] \in held[b]
    BY DEF ScanFaithful
  <2>1. Len(bits) = ButtonCount
    BY DEF ScanInv, Progress
  <2>2. b + 1 \in 1 .. Len(bits) /\ (b + 1) - 1 = b
    BY <2>1 DEF Buttons
  <2> QED
    BY <2>2 DEF ScanInv, Seen
<1> QED
  BY <1>1, ScanInvariance, PTL

\* A guest that latches before every scan never clocks past the last button, so the
\* counter of nes.c does not wrap.
THEOREM CounterBounded == ScanSpec => []CounterStays
<1>1. ScanInv => CounterStays
  BY DEF ScanInv, Progress, CounterStays
<1> QED
  BY <1>1, ScanInvariance, PTL
-----------------------------------------------------------------------------
(* The other ports *)


\* The controller looks at its own bits only.
LEMMA OwnBits ==
    ASSUME NEW p, NEW mask, NEW value
    PROVE  WriteBits(p, mask, value) = WriteBits(p, mask \cap Ports, value)
<1>1. /\ DATA \in mask <=> DATA \in mask \cap Ports
      /\ CLOCK \in mask <=> CLOCK \in mask \cap Ports
      /\ LATCH \in mask <=> LATCH \in mask \cap Ports
  BY DEF Ports
<1>2. ASSUME NEW q, NEW port \in Ports
      PROVE  Store(q, port, mask, value) = Store(q, port, mask \cap Ports, value)
  BY DEF Store
<1>3. DATA \in Ports /\ CLOCK \in Ports /\ LATCH \in Ports
  BY DEF Ports
<1> HIDE DEF DATA, CLOCK, LATCH
<1> QED
  BY <1>1, <1>2, <1>3 DEF WriteBits

\* A store to a bank is one to the controller, or none.
LEMMA BankStep ==
    ASSUME IInv, NEW offset \in {0, Bank}, NEW mask \in SUBSET Names(offset),
           NEW value \in Level, WriteBank(offset, mask, value)
    PROVE  [Next]_vars
<1>1. CASE offset = 0
  <2>1. Become(WriteBits(Pad, mask \cap Ports, value)) /\ buttons' = buttons
    BY <1>1, OwnBits DEF WriteBank, Caught
  <2>4. driven' = [w \in Wires |-> IF w \in mask \cap Ports THEN value ELSE driven[w]]
    <3>1. \A w \in Wires : w \in {offset + b : b \in mask} <=> w \in mask \cap Ports
      BY <1>1 DEF Wires, Ports, Names, Bank
    <3> QED
      BY <3>1 DEF WriteBank
  <2>2. value = 1 /\ CLOCK \in mask \cap Ports => counter < MaxCount
    BY DEF WriteBank
  <2>3. GpioWrite(mask \cap Ports, value)
    BY <2>1, <2>2, <2>4 DEF GpioWrite
  <2> QED
    BY <2>3 DEF Next
<1>2. CASE offset = Bank
  <2>1. Become(Pad) /\ buttons' = buttons
    BY <1>2 DEF WriteBank, Caught, Bank
  <2>2. driven' = [w \in Wires |-> driven[w]]
    <3>1. \A w \in Wires : w \notin {offset + b : b \in mask}
      BY <1>2 DEF Wires, Names, Bank
    <3> QED
      BY <3>1 DEF WriteBank
  <2>3. driven' = driven
    BY <2>2 DEF IInv, TypeOK
  <2> QED
    BY <2>1, <2>3 DEF Become, Pad, vars
<1> QED
  BY <1>1, <1>2

LEMMA GpioIsNes == IInv /\ [GpioNext]_<<vars, gpioVars>> => [Next]_vars
<1> SUFFICES ASSUME IInv, [GpioNext]_<<vars, gpioVars>> PROVE [Next]_vars
  OBVIOUS
<1>1. ASSUME NEW n \in Selectors, NEW v \in Selections, Select(n, v)
      PROVE  [Next]_vars
  BY <1>1 DEF Select
<1>2. ASSUME NEW offset \in {0, Bank}, NEW mask \in SUBSET Names(offset),
             NEW value \in Level, WriteBank(offset, mask, value)
      PROVE  [Next]_vars
  BY <1>2, BankStep
<1>3. ASSUME \/ \E b \in Buttons : KeyDown(b)
             \/ \E b \in Buttons : KeyUp(b)
             \/ \E port \in Tested, value \in Level : DigitKey(port, value)
      PROVE  [Next]_vars
  BY <1>3 DEF Next
<1>4. ASSUME NEW port \in Watched, NEW value \in Level, WatchedKey(port, value)
      PROVE  [Next]_vars
  BY <1>4 DEF WatchedKey
<1>5. CASE UNCHANGED <<vars, gpioVars>>
  BY <1>5
<1> QED
  BY <1>1, <1>2, <1>3, <1>4, <1>5 DEF GpioNext

\* Whatever a guest stores to the registers of both banks, the controller sees a
\* behaviour of Nes.
THEOREM ControllerDriven == GpioSpec => DrivesController
<1>1. GpioInit => Init
  BY DEF GpioInit
<1>2. IInv /\ [GpioNext]_<<vars, gpioVars>> => IInv'
  BY GpioIsNes, NextIInv
<1> QED
  BY <1>1, <1>2, GpioIsNes, InitIInv, PTL DEF GpioSpec, DrivesController, Spec

\* So it is the shift register of ShiftPad behind all of gpio.c, too.
THEOREM PadBehindGpio == GpioSpec => ImplementsPad
BY ControllerDriven, PadImplemented DEF DrivesController
-----------------------------------------------------------------------------
(* The functions selected *)

\* Each port has the function last selected for it.
Selected ==
    /\ selected \in [0 .. 5 -> 0 .. (8^10) - 1]
    /\ funcs = [i \in 0 .. GPIO_PORT_COUNT - 1 |-> Field(selected[i \div 10], i % 10)]

\* Every store selects what Selected says.
LEMMA SelectedKept == Selected /\ [GpioNext]_<<vars, gpioVars>> => Selected'
<1> SUFFICES ASSUME Selected, [GpioNext]_<<vars, gpioVars>> PROVE Selected'
  OBVIOUS
<1>1. ASSUME NEW n \in Selectors, NEW v \in Selections, Select(n, v)
      PROVE  Selected'
  <2>1. n \in 0 .. 5 /\ v \in 0 .. (8^10) - 1
    BY SelectionsAssumption
  <2>2. /\ selected' = [selected EXCEPT ![n] = v]
        /\ funcs' = [i \in DOMAIN funcs |-> IF i \in Group(n) THEN Field(v, i % 10)
                                                              ELSE funcs[i]]
    BY <1>1 DEF Select
  <2>3. selected' \in [0 .. 5 -> 0 .. (8^10) - 1]
    BY <2>1, <2>2 DEF Selected
  <2>4. ASSUME NEW i \in 0 .. GPIO_PORT_COUNT - 1
        PROVE  /\ i \div 10 \in 0 .. 5 /\ (i \in Group(n) <=> i \div 10 = n)
               /\ selected'[i \div 10] = IF i \in Group(n) THEN v ELSE selected[i \div 10]
    <3>1. i \div 10 \in 0 .. 5 /\ (i \in Group(n) <=> i \div 10 = n)
      BY <2>1 DEF Group, GPIO_PORT_COUNT
    <3> QED
      BY <2>1, <2>2, <3>1 DEF Selected
  <2>5. funcs' = [i \in 0 .. GPIO_PORT_COUNT - 1 |-> Field(selected'[i \div 10], i % 10)]
    <3> HIDE DEF GPIO_PORT_COUNT, Field
    <3> QED
      BY <2>2, <2>4 DEF Selected
  <2> QED
    BY <2>3, <2>5 DEF Selected
<1>2. ASSUME UNCHANGED <<funcs, selected>>
      PROVE  Selected'
  BY <1>2 DEF Selected
<1> QED
  BY <1>1, <1>2, Zenon DEF GpioNext, WriteBank, WatchedKey, gpioVars

\* What the loop of gpio.c:67 reads: the sum of the functions, each in its field.
LEMMA ReadSum ==
    ASSUME NEW n \in 0 .. 5, NEW d \in [0 .. 9 -> Int],
           \A k \in 0 .. 9 :
               (IF (10 * n) + k \in DOMAIN funcs THEN funcs[(10 * n) + k] ELSE 0) * 8^k = d[k]
    PROVE  ReadSelect(n) = d[0] + d[1] + d[2] + d[3] + d[4] + d[5] + d[6] + d[7] + d[8] + d[9]
<1> DEFINE func(i) == IF i \in DOMAIN funcs THEN funcs[i] ELSE 0
           term(k) == func((10 * n) + (k - 1)) * 8^(k - 1)
           Loop(f) == f = [k \in 0 .. 10 |-> IF k = 0 THEN 0 ELSE f[k - 1] + term(k)]
           reg == CHOOSE f : Loop(f)
           e2 == d[0] + d[1]
           e3 == e2 + d[2]
           e4 == e3 + d[3]
           e5 == e4 + d[4]
           e6 == e5 + d[5]
           e7 == e6 + d[6]
           e8 == e7 + d[7]
           e9 == e8 + d[8]
           e10 == e9 + d[9]
<1>1. ReadSelect(n) = reg[10]
  BY DEF ReadSelect
<1> HIDE DEF func
<1>2. \A f : Loop(f) <=> f = [k \in 0 .. 10 |-> IF k = 0 THEN 0 ELSE f[k - 1] + d[k - 1]]
  <2>1. ASSUME NEW k \in 0 .. 10, k # 0
        PROVE  term(k) = d[k - 1]
    <3>1. k - 1 \in 0 .. 9
      BY <2>1
    <3> DEFINE j == k - 1
    <3>2. func((10 * n) + j) * 8^j = d[j]
      <4>1. j \in 0 .. 9
        BY <3>1
      <4> HIDE DEF j
      <4> QED
        BY <4>1, Zenon DEF func
    <3> QED
      BY <3>2
  <2> HIDE DEF term
  <2> SUFFICES ASSUME NEW f
               PROVE  Loop(f) <=> f = [k \in 0 .. 10 |-> IF k = 0 THEN 0 ELSE f[k - 1] + d[k - 1]]
    OBVIOUS
  <2> QED
    BY <2>1
<1> HIDE DEF Loop
<1>3. \E f : Loop(f)
  <2> DEFINE g == [k \in 0 .. 10 |->
                     CASE k = 0 -> 0 [] k = 1 -> d[0] [] k = 2 -> e2 [] k = 3 -> e3
                       [] k = 4 -> e4 [] k = 5 -> e5 [] k = 6 -> e6 [] k = 7 -> e7
                       [] k = 8 -> e8 [] k = 9 -> e9 [] k = 10 -> e10]
  <2>1. g = [k \in 0 .. 10 |-> IF k = 0 THEN 0 ELSE g[k - 1] + d[k - 1]]
    OBVIOUS
  <2> QED
    BY <1>2, <2>1
<1>4. reg = [k \in 0 .. 10 |-> IF k = 0 THEN 0 ELSE reg[k - 1] + d[k - 1]]
  BY <1>2, <1>3
<1> HIDE DEF reg
<1>5. reg[0] = 0 /\ \A k \in 1 .. 10 : reg[k] = reg[k - 1] + d[k - 1]
  BY <1>4
<1>6. reg[10] = e10
  BY <1>5
<1> QED
  BY <1>1, <1>6

\* A number is the sum of its digits, each in its field.
LEMMA FieldsSum ==
    ASSUME NEW v \in 0 .. (8^10) - 1
    PROVE  /\ Field(v, 0) + (Field(v, 1) * 8^1) + (Field(v, 2) * 8^2) + (Field(v, 3) * 8^3)
                  = v % 8^4
           /\ (v % 8^4) + (Field(v, 4) * 8^4) + (Field(v, 5) * 8^5) + (Field(v, 6) * 8^6)
                  + (Field(v, 7) * 8^7) + (Field(v, 8) * 8^8) + (Field(v, 9) * 8^9) = v
<1> DEFINE q1 == v \div 8
           q2 == q1 \div 8
           q3 == q2 \div 8
           q4 == q3 \div 8
           q5 == q4 \div 8
           q6 == q5 \div 8
           q7 == q6 \div 8
           q8 == q7 \div 8
           q9 == q8 \div 8
<1>1. /\ v \div 8^0 = v /\ v \div 8^1 = q1 /\ v \div 8^2 = q2 /\ v \div 8^3 = q3
      /\ v \div 8^4 = q4 /\ v \div 8^5 = q5 /\ v \div 8^6 = q6 /\ v \div 8^7 = q7
      /\ v \div 8^8 = q8 /\ v \div 8^9 = q9 /\ v % 8^4 = v - (q4 * 8^4)
  OBVIOUS
<1>2. /\ v = (v % 8) + (8 * q1) /\ q1 = (q1 % 8) + (8 * q2) /\ q2 = (q2 % 8) + (8 * q3)
      /\ q3 = (q3 % 8) + (8 * q4) /\ q4 = (q4 % 8) + (8 * q5) /\ q5 = (q5 % 8) + (8 * q6)
      /\ q6 = (q6 % 8) + (8 * q7) /\ q7 = (q7 % 8) + (8 * q8) /\ q8 = (q8 % 8) + (8 * q9)
      /\ q9 % 8 = q9
  OBVIOUS
<1>3. q1 \in Nat /\ q2 \in Nat /\ q3 \in Nat /\ q4 \in Nat /\ q5 \in Nat
      /\ q6 \in Nat /\ q7 \in Nat /\ q8 \in Nat /\ q9 \in Nat
  OBVIOUS
<1> HIDE DEF q1, q2, q3, q4, q5, q6, q7, q8, q9
<1> QED
  BY <1>1, <1>2, <1>3 DEF Field

\* And it is read back.
LEMMA SelectedRead == Selected => SelectsOwn
<1> SUFFICES ASSUME Selected, NEW n \in 0 .. 5
             PROVE  ReadSelect(n) = selected[n] % (IF n = 5 THEN 8^4 ELSE 8^10)
  BY DEF SelectsOwn
<1> DEFINE v == selected[n]
           func(k) == IF (10 * n) + k \in DOMAIN funcs THEN funcs[(10 * n) + k] ELSE 0
<1>1. v \in 0 .. (8^10) - 1
  BY DEF Selected
<1>2. ASSUME NEW k \in 0 .. 9
      PROVE  func(k) = IF n = 5 /\ k >= 4 THEN 0 ELSE Field(v, k)
  <2> DEFINE i == (10 * n) + k
  <2>1. i \div 10 = n /\ i % 10 = k /\ i \in Nat
    OBVIOUS
  <2>2. i \in 0 .. GPIO_PORT_COUNT - 1 <=> ~ (n = 5 /\ k >= 4)
    BY DEF GPIO_PORT_COUNT
  <2> HIDE DEF i
  <2>3. i \in 0 .. GPIO_PORT_COUNT - 1 => funcs[i] = Field(v, k)
    BY <2>1 DEF Selected
  <2>4. DOMAIN funcs = 0 .. GPIO_PORT_COUNT - 1
    BY DEF Selected
  <2> HIDE DEF GPIO_PORT_COUNT, v
  <2> QED
    BY <2>2, <2>3, <2>4 DEF i
<1> HIDE DEF func, v
<1>3. /\ Field(v, 0) \in 0 .. 7 /\ Field(v, 1) \in 0 .. 7 /\ Field(v, 2) \in 0 .. 7
      /\ Field(v, 3) \in 0 .. 7 /\ Field(v, 4) \in 0 .. 7 /\ Field(v, 5) \in 0 .. 7
      /\ Field(v, 6) \in 0 .. 7 /\ Field(v, 7) \in 0 .. 7 /\ Field(v, 8) \in 0 .. 7
      /\ Field(v, 9) \in 0 .. 7
  BY <1>1 DEF Field
<1>4. func(0) \in 0 .. 7 /\ func(1) \in 0 .. 7 /\ func(2) \in 0 .. 7 /\ func(3) \in 0 .. 7
      /\ func(4) \in 0 .. 7 /\ func(5) \in 0 .. 7 /\ func(6) \in 0 .. 7 /\ func(7) \in 0 .. 7
      /\ func(8) \in 0 .. 7 /\ func(9) \in 0 .. 7
  BY <1>2, <1>3
<1> DEFINE d == [k \in 0 .. 9 |->
                   CASE k = 0 -> func(0) [] k = 1 -> func(1) * 8^1 [] k = 2 -> func(2) * 8^2
                     [] k = 3 -> func(3) * 8^3 [] k = 4 -> func(4) * 8^4 [] k = 5 -> func(5) * 8^5
                     [] k = 6 -> func(6) * 8^6 [] k = 7 -> func(7) * 8^7 [] k = 8 -> func(8) * 8^8
                     [] k = 9 -> func(9) * 8^9]
<1>5. /\ d[0] = func(0) /\ d[1] = func(1) * 8^1 /\ d[2] = func(2) * 8^2 /\ d[3] = func(3) * 8^3
      /\ d[4] = func(4) * 8^4 /\ d[5] = func(5) * 8^5 /\ d[6] = func(6) * 8^6
      /\ d[7] = func(7) * 8^7 /\ d[8] = func(8) * 8^8 /\ d[9] = func(9) * 8^9
  OBVIOUS
<1>6. d \in [0 .. 9 -> Int]
  BY <1>4
<1> HIDE DEF d
<1>7. ReadSelect(n) = d[0] + d[1] + d[2] + d[3] + d[4] + d[5] + d[6] + d[7] + d[8] + d[9]
  <2>1. ASSUME NEW k \in 0 .. 9
        PROVE  func(k) * 8^k = d[k]
    <3>1. /\ func(0) * 8^0 = d[0] /\ func(1) * 8^1 = d[1] /\ func(2) * 8^2 = d[2]
          /\ func(3) * 8^3 = d[3] /\ func(4) * 8^4 = d[4] /\ func(5) * 8^5 = d[5]
          /\ func(6) * 8^6 = d[6] /\ func(7) * 8^7 = d[7] /\ func(8) * 8^8 = d[8]
          /\ func(9) * 8^9 = d[9]
      BY <1>4, <1>5
    <3>2. k = 0 \/ k = 1 \/ k = 2 \/ k = 3 \/ k = 4 \/ k = 5 \/ k = 6 \/ k = 7 \/ k = 8 \/ k = 9
      OBVIOUS
    <3> QED
      BY <3>1, <3>2, Zenon
  <2> QED
    BY <1>6, <2>1, ReadSum DEF func
<1>8. /\ Field(v, 0) + (Field(v, 1) * 8^1) + (Field(v, 2) * 8^2) + (Field(v, 3) * 8^3)
             = v % 8^4
      /\ (v % 8^4) + (Field(v, 4) * 8^4) + (Field(v, 5) * 8^5) + (Field(v, 6) * 8^6)
             + (Field(v, 7) * 8^7) + (Field(v, 8) * 8^8) + (Field(v, 9) * 8^9) = v
  BY <1>1, FieldsSum, Zenon
<1> HIDE DEF Field
<1>9. CASE n = 5
  <2>1. /\ func(0) = Field(v, 0) /\ func(1) = Field(v, 1) /\ func(2) = Field(v, 2)
        /\ func(3) = Field(v, 3) /\ func(4) = 0 /\ func(5) = 0 /\ func(6) = 0
        /\ func(7) = 0 /\ func(8) = 0 /\ func(9) = 0
    BY <1>2, <1>9
  <2>2. ReadSelect(n) = v % 8^4
    <3>1. v % 8^4 \in Int
      BY <1>1
    <3> QED
      BY <1>3, <1>5, <1>7, <1>8, <2>1, <3>1
  <2> QED
    BY <1>9, <2>2 DEF v
<1>10. CASE n # 5
  <2>1. /\ func(0) = Field(v, 0) /\ func(1) = Field(v, 1) /\ func(2) = Field(v, 2)
        /\ func(3) = Field(v, 3) /\ func(4) = Field(v, 4) /\ func(5) = Field(v, 5)
        /\ func(6) = Field(v, 6) /\ func(7) = Field(v, 7) /\ func(8) = Field(v, 8)
        /\ func(9) = Field(v, 9)
    BY <1>2, <1>10
  <2>2. ReadSelect(n) = v
    <3>1. v % 8^4 \in Int
      BY <1>1
    <3> QED
      BY <1>3, <1>5, <1>7, <1>8, <2>1, <3>1
  <2>3. v % 8^10 = v
    BY <1>1
  <2> QED
    BY <1>10, <2>2, <2>3 DEF v
<1> QED
  BY <1>9, <1>10

\* Whatever the guest selects, in any order, FSEL0 to FSEL4 (gpio.c:63 and gpio.c:122)
\* read back as they were last written, and FSEL5 in the fields of its four ports.
THEOREM FunctionsReadBack == GpioSpec => []SelectsOwn
<1>1. GpioInit => Selected
  <2>1. ASSUME NEW i \in 0 .. GPIO_PORT_COUNT - 1
        PROVE  i \div 10 \in 0 .. 5 /\ Field(0, i % 10) = 0
    <3>1. i \div 10 \in 0 .. 5
      BY DEF GPIO_PORT_COUNT
    <3>2. i % 10 \in 0 .. 9
      BY DEF GPIO_PORT_COUNT
    <3> DEFINE k == i % 10
    <3>3. k = 0 \/ k = 1 \/ k = 2 \/ k = 3 \/ k = 4 \/ k = 5 \/ k = 6 \/ k = 7 \/ k = 8 \/ k = 9
      BY <3>2
    <3> HIDE DEF k
    <3>4. /\ Field(0, 0) = 0 /\ Field(0, 1) = 0 /\ Field(0, 2) = 0 /\ Field(0, 3) = 0
          /\ Field(0, 4) = 0 /\ Field(0, 5) = 0 /\ Field(0, 6) = 0 /\ Field(0, 7) = 0
          /\ Field(0, 8) = 0 /\ Field(0, 9) = 0
      BY DEF Field
    <3> QED
      BY <3>1, <3>3, <3>4, Zenon DEF k
  <2> HIDE DEF Field, GPIO_PORT_COUNT
  <2>2. GpioInit => Selected
    <3> SUFFICES ASSUME GpioInit PROVE Selected
      OBVIOUS
    <3>1. /\ funcs = [i \in 0 .. GPIO_PORT_COUNT - 1 |-> 0]
          /\ selected = [n \in 0 .. 5 |-> 0]
      BY DEF GpioInit
    <3>2. selected \in [0 .. 5 -> 0 .. (8^10) - 1]
      <4>1. 0 \in 0 .. (8^10) - 1
        OBVIOUS
      <4> QED
        BY <3>1, <4>1, Zenon
    <3>3. \A i \in 0 .. GPIO_PORT_COUNT - 1 : Field(selected[i \div 10], i % 10) = 0
      BY <2>1, <3>1
    <3>4. funcs = [i \in 0 .. GPIO_PORT_COUNT - 1 |-> Field(selected[i \div 10], i % 10)]
      BY <3>1, <3>3, Zenon
    <3> QED
      BY <3>2, <3>4, Zenon DEF Selected
  <2> QED
    BY <2>2
<1> QED
  BY <1>1, SelectedKept, SelectedRead, PTL DEF GpioSpec
=============================================================================
