# PiEmu, specified

PiEmu (`src/`) is an emulator of the Raspberry Pi written in C: an ARM processor
with its register banks, a memory that routes addresses to peripherals, a
framebuffer shown in an SDL window, a mailbox, GPIO ports and, behind three of
them, an NES controller played on the keyboard. It is one thread. What runs beside
it is a guest program nobody has seen, a player, the window system and the wall
clock; all of them are adversaries in these modules.

The modules are written in TLA+, model-checked with TLC on small instances and
proved with TLAPS for every value of their constants.

## Inventory

| Part | State | Operations | Interacts with |
|---|---|---|---|
| Register file, modes (`cpu.c`, `cpu.h`) | 31 registers in banks by mode, CPSR, five SPSRs | one instruction per `cpu_tick` | memory; `emulator_fatal`; `terminated` |
| Data processing (`cpu.c` 14-39, 217-323, 421-566, 596-837) | the flags N, Z, C, V | shifter, 16 operations, products, 15 conditions | the register file |
| Transfers (`cpu.c` 844-941, 1001-1266) | none | single, halfword and block transfers, swaps | the register file, memory |
| Decoder (`cpu.c` 1605-1746, `opcode.h`) | none | masks and bit fields | every instruction |
| Main loop (`main.c`, `emulator.c`) | `terminated`, `last_refresh`, `err_jmp` | init, load, tick, dump, destroy, fatal | everything; the wall clock |
| Framebuffer (`framebuffer.c`) | buffer, pitch, size, address, error | `fb_request`, `fb_tick`, reads and writes of pixels | mailbox, memory, SDL, NES, GPIO |
| Mailbox (`mbox.c`) | `last_channel` | read, write | framebuffer |
| GPIO (`gpio.c`) | 54 ports, function and level | read, write | NES |
| NES controller (`nes.c`) | buttons, counter, last latch and clock | latch, clock, key down, key up | GPIO, keyboard |
| Memory (`memory.c`, `memory.h`) | the bytes | reads and writes of 8, 16, 32 bits, routing | GPIO, mailbox, UART, framebuffer, timer |
| UART (`peripheral.c`) | a few registers | read, write | stdout |
| VFP (`vfp.c`) | 32 registers, FPSCR | arithmetic, transfers | registers, memory |
| Debugger (`cpu.c` 1428-1569) | none | a prompt that prints registers and memory | the main loop |

What is hard in this code, and what would make it correct:

* **Banks and modes.** An access resolves its register by the mode of the moment, and
  SWI, undefined instructions, MSR and LDM^ change the mode in the middle of an
  instruction. No mode may reach the registers of another, user mode may not gain
  privileges, and an exception should remember what it interrupted (it does not).
* **Flags.** Carry and overflow are computed from a sign-extended 64-bit difference.
  The conditions must order operands; chained additions must carry. Both hold only
  for some operands, and the modules say which.
* **Time.** The refresh compares wall-clock times without a sign. The clock may be
  set back. A picture must not grow old and a quit must not be lost.
* **Masks.** The decoder tests overlapping masks in order. A word must reach the handler
  of its own layout; some do not.
* **Storage.** Loads turn a misaligned word, stores do not; a store is routed by its first
  byte; a list of floating point registers is not compared with their number. Three kinds
  of instruction push and pop, and must agree about the stack.
* **Failure.** `emulator_fatal` leaves any depth by `longjmp`; `emulator_error` returns.
* **Interleaving.** Keys arrive between any two instructions of a guest that scans the
  controller; mail goes to other channels between a request and its answer;
  a request replaces the framebuffer a guest is drawing on.

Every hazard found is listed, at its line, in `PROJECT.json`.

## Modules

| Module | Models | Run by | Proved in |
|---|---|---|---|
| `Cpu` | registers, modes, status registers, every kind of instruction | `MCCpu` | `CpuProofs` |
| `Alu` | shifter, sums, differences and products, flags, conditions | `MCAlu` | `AluProofs` |
| `Decoder` | the switch of `cpu_tick` and its masks | itself | `DecoderProofs` |
| `Emulator` | `main`, the tick, the event loop, errors and exit | itself | `EmulatorProofs` |
| `ShiftPad` | abstract: what a controller promises on three wires | as a property of `Nes` | |
| `Nes` | GPIO SET0 and CLR0, `nes.c`, the keys | in `Gpio` and `NesScan` | `GpioProofs` |
| `Gpio` | extends `Nes` by the other GPIO registers and ports | itself | `GpioProofs` |
| `NesScan` | composes `Nes` with a guest that scans and a player | itself | `GpioProofs` |
| `Framebuffer` | mailbox, `fb_request`, routing of stores, pixels | `MCFramebuffer` | `FramebufferProofs` |
| `Memory` | `memory.c`, the stores of `framebuffer.c`, `peripheral.c` | in `Machine` | `MachineProofs` |
| `Transfers` | the instructions that move words, over `Memory` | in `Machine` | `MachineProofs` |
| `Vfp` | the floating point unit, over `Transfers` | in `Machine` | `MachineProofs` |
| `Stack` | abstract: what a program expects of its stack | as a property of `Machine` | `MachineProofs` |
| `Machine` | processor, unit and memory together, and a program's account of them | `MCMachine` | `MachineProofs` |

`Division` holds the lemmas on quotients and remainders that several of the proofs need.

### Cpu

`r` is one function from cells, pairs of a bank and a register, to words: the
arrays `r_usr`, `r_fiq`, ... of `cpu_t`. `BankOf` is the switch of
`cpu_read_register` and `cpu_write_register`, which answer the SP and LR of an
invalid mode with a fatal error and with nothing, respectively (`Accessible`).
A status word keeps the layout of the union in `cpu.h`; its width is a constant,
so the mode and the flags are real bit fields and the proofs do arithmetic on them.

There is an action per kind of instruction; each starts with the fetch (`Tick`,
`Fetched`) and contains every fatal exit of the handler. `Exception` keeps the order
of `instr_swi`: mode, LR, PC, SPSR. `LoadMultiple` keeps that of
`instr_block_data_transfer`: base in the list, registers, CPSR, base. `MsrFlags` of an
immediate goes through the shifter, as the code's does, and may change the carry flag.
The instruction stream is arbitrary: what a program computes or loads is a free word.
This is more than any program does, and what holds of it holds of all programs.
`msr` is a history variable, the status registers a full MSR has written.

### Alu

Exact sums are integers, as the code's `int64_t` are; words are taken modulo their
size. `RotateRight` is written as the shift of a signed number, which it is in C.
Powers of two are a constant function `Weight`, constrained by an assumption, so no
recursive definition stands in the way of a proof. `last` is a history variable, the
last sum, difference or long product. The `int64_t` of `instr_multiply_long` is a number
modulo the square of the size of a word.

### Decoder

A word is the record of its fields at their places (the drawing heads the module);
`opcode.h` names them differently in each layout. `Op` and the predicates `IsMultiply`,
`IsMrs`, ... are the masks, one each, and `DataDispatch` tries them in the order of the
code. An `Init` draws any word and whether its condition passes, one step decodes it.
The predicates ending in `Layout` are the reference: the words the comments and the
structures of the code give to an instruction.

### Emulator

`at` is a program counter through `main`: every place where the program can wait,
leave or be interrupted. Times are distances, cut off at `Cap`: `gap` from
`last_refresh` to the last sampled `now`, `lag` from there to the clock. `ClockBack`
sets the clock back up to `MaxBack`. `QueueEvent` is the window system. `Fatal` is the
`longjmp`, `Destroy` both places that release. The debugger waits at `debug` for a
command that need not come.

### ShiftPad, Nes, NesScan

`Nes` handles one store bit by bit in the order of the loop in `gpio_write_port`, so a
store that moves several wires is one step with the code's order inside. `ShiftPad`
knows no counters and no edges seen: wires and the index of the next button. `Nes`
implements it under the mapping that takes the wires from what the guest stored last
(`driven`) and caps the counter. `--gpio-test` puts nine ports under the digit keys from
any number on, and some of them may be the controller's wires: the port then moves behind
its back, and the modules say that its edges remain those of the guest's stores
(`EdgesFollowGuest`, `ImplementsPad`). `NesScan` adds the guest, which is not part of the repository: it is the
protocol `nes.c` is written for, and its actions are external in the map.

`Gpio` adds the registers that `Nes` leaves out. FSEL5, SET1 and CLR1 name more ports than
the array has; what a store writes behind it is not kept. `DrivesController` is the step
refinement between the two modules: whatever the guest stores, what the controller does
is a step of `Nes`.

### Memory, Transfers, Vfp, Stack, Machine

`Memory` has the storage as one variable: the bytes of the RAM and of the framebuffer, the
registers of the UART, and two histories, the last store to the RAM and the stores that
passed the end of the framebuffer. The six operators `ReadByte` ... `WriteDword` are the six
functions of `memory.c`, each with its routes in the order of the code. They map a memory
to a memory, so an instruction of several accesses is one action and still does them in
order. What a timer, a GPIO port or the mailbox answers is chosen freely, for each access
anew. The RAM may have any size, as `main` allows, so the framebuffer behind it may begin at
no multiple of four; `OnlyRaggedSpill` counts from its start.

`Transfers` has a handler per kind of transfer, every fatal exit included. That of a
write-back to PC comes after the access, as in the code (`Finish`). `Turn` is one
pass of the loop of `instr_block_data_transfer`, and `Block` makes sixteen of them as a
recursive function, over the registers in the direction of the U bit. `Vfp` keeps its registers as the cells of one structure, because the code does
not test an index: a list of registers that passes the last one reaches FPSID, FPSCR and
FPEXC, and then `nes_t`, the base of the timer and `last_refresh` (`emulator.h`), which
belong to other modules and are not followed (`overrun`). Numbers are those a table
gives to words; what arithmetic computes is free.

`Machine` runs all of them on one memory. `Stack` is what a program expects: it pushes
registers of either kind and pops them, last first. `Machine` implements it under a mapping
that reads the stack from memory, `depth` words from the stack pointer on. `depth` counts
what the program has pushed by PUSH, FSTMDB or STR and not popped by POP, FLDMIA or LDR, and
is 0 again when the program sets its stack pointer otherwise or stores into its stack, which
are `Leave` in `Stack`. A push counts only from an aligned pointer within the RAM and the
address space (`Account`): below any other the words pushed need not be words of the RAM.

### Framebuffer

The guest requests, is answered in its own memory, and stores pixels at the address
and with the pitch of the answer. Stores go through the routing of `memory.c`: words
of 16 and 32 bits reach the framebuffer, bytes do not. An address keeps `AddressMod`
values, 30 bits, and a word on one of `Devices` is taken by GPIO or the mailbox before it
is drawn; both matter where the memory reaches that far. `drawn` remembers, per pixel,
what was stored. The radix of a byte is a constant, and so are the widths of a `size_t`
and of a word of the answer, so sizes may wrap. `RequestAcross` is a request that ends behind
the memory: its missing fields read as zeros, and the words of its answer that lie there
are written into the framebuffer it has just installed.

## Runs

| Run | Instance | Shows |
|---|---|---|
| `cpu` | registers R0, R8, SP, LR, PC; a status word of 10 bits; 3 instructions; 124,374 states | banks are isolated, user mode is confined, SPSRs lose the interrupted mode, no way to user mode without MSR |
| `cpu_swi_link` | 2 instructions | **violated**: LR after SWI is not the next word (`cpu.c:1398`) |
| `cpu_spsr` | 2 instructions | **violated**: the inverted test of MRS from SPSR (`cpu.c:340`) |
| `emulator` | frame time 2, clock steps of 1, two jumps back by up to 2, two events; 32,941 states | pictures stay fresh, queued events are handled, exits are clean, a quit stops |
| `emulator_34ms` | the real 20 ms, steps of 7 | **violated**: refreshes before 34 ms (`emulator.c:111`) |
| `gpio` | 3 buttons, counter up to 6; ports 5, 42 and 43 besides the controller's; FSEL0, 4 and 5; digit keys from port 3, so on all three wires; 102,400 states | `Nes` implements `ShiftPad`, `Gpio` drives `Nes`; edges follow the guest; functions read back |
| `nes_scan` | 3 buttons, digit keys on all three wires; 25,092 states | every bit of a scan is a state its own button had; the counter stays small |
| `framebuffer` | 1 or 2 by 1 to 3 pixels, five depths, two colours; sizes modulo 20, addresses modulo 78, 62 bytes of memory, a port at 74; 62,398 states | which pixels the window reads from outside the buffer; it shows what was drawn; failures are reported |
| `alu` | words of 3 bits, all operands, shifts up to 7; 3,183 states | which conditions order which operands; the shifter; chained sums and V; which long products are right |
| `decode` | 5 values of Rn, 2 of Rd, 3 of Rs, 2 of Rm, 3 conditions, all others in full; 1,966,080 states | which words reach another handler than their own |
| `machine` | bytes of radix 8, 13 of RAM, 6 of framebuffer; 4 registers, 2 floating point registers; 3 of some 50 instructions; 508,578 states | what loads return; one stack; comparisons and conditions; spills and overruns |
| `alu_rotate` | the same | **violated**: `rotate_right` of a negative word (`cpu.c:415`) |

Why the bounds are enough:

* Three instructions reach the states where the banks interact: MSR into a mode, an
  exception or LDM^ out of it, and a use of what was left. The instance has a data
  word for user mode, FIQ with flags and, through unfilled SPSRs, the invalid mode 0.
  One low and one high register stand for their groups because the code treats a group
  alike. The theorems remove the bound.
* Frame time 2 with a cap of 4 has distances below, at, above and far above the
  frame time, and negative ones; a second jump back can follow a refresh caused by
  the first.
* Three buttons and a counter up to 6 have a first, a middle and a last button, and
  clocks past the last. The guest of `NesScan` starts over, so scans follow each other.
* The ports watched are one of the first bank beside the controller's and the two of the
  second that share a bit with its clock and its latch. The selectors are the first, the
  last that is whole and the one that is not; each of the functions stored is different
  from its neighbours. The digit keys start at port 3, where they reach data, clock and
  latch; port 5 is one they move and port 42 one they do not.
* Two by two pixels have a neighbour in each direction; a row of one pixel of 16 bits
  is one whose pitch the answer pads and the buffer does not. Two by three pixels of four
  bytes no longer fit modulo 20, nor do most of eight. With 62 bytes of memory a request
  may end behind it by fields, and by words of the answer; the port at 74 and the last address,
  77, lie in the larger framebuffers.
* A word is decoded on its own, so no sequence is missing from `decode`; the fields it does
  not enumerate in full have every value a mask names and one that none does. The theorems
  cover all words.
* Three dwords of RAM hold a stack of two and a word outside; the byte after them lets
  the framebuffer begin at no multiple of four. Its six bytes are one dword and a half, so a
  dword aligned for the guest can pass the end, and so can a word. Three instructions are a push, something in between and a pop, or a
  comparison, FMSTAT and a second comparison. The radix is 8 because the UART uses three
  bits of a byte.
* Words of three bits have two values on each side of every sign and overflow
  boundary, a shift amount below, at and above the width and a second turn of the
  rotation.

`RefreshAfter34`, `SwiLinksNext`, `SpsrReadInHandlers` and `RotatesRight` state what
comments and messages of the code say; each run finds the code doing otherwise.

Deadlock is checked wherever the system cannot stop. `Cpu` stops after `MaxTicks`
instructions and when the program ends, `Emulator` when the program has exited.

## Fairness

`Emulator` assumes weak fairness of `Program`, the steps of a thread the operating
system keeps scheduling, and of `ClockForward`, time that passes. It assumes none of
the debugger's prompt, of the player, of the window system or of a clock set back,
none of which has to happen. `QuitStops` therefore excludes a program that waits at the
prompt, and one that crashed. Nothing else is a liveness property: the other parts only
answer. The jumps back are finitely many; a clock set back forever is not a clock.

## Proofs

All theorems hold for every value of the constants within the assumptions named in
the modules, and TLC evaluates those assumptions on each run.

* **`CpuProofs`.** `TypeCorrect`, `BanksIsolated`, `UserModeConfined`,
  `InterruptedModeLost`, `ModesWithoutMsr`. First the arithmetic of status words: writing
  flags leaves every control bit (`WithFlagsControl`), entering a mode sets exactly the
  mode (`WithModeMode`). Then one lemma per kind of instruction shows that it keeps the
  types and changes only cells of the banks it may (`Shape`); `BankIsolation` follows.
  `ControlEffect` sorts all steps by what they do to status registers: keep the control
  bits, restore, set CPSR, set SPSR, or enter a vector. User mode leaves only the
  first and the last. `SavedModeIsOwn` and `ModeNeedsMsr` are inductive only together,
  with the types: what LDM^ restores is bounded by the first, what an MSR adds to an
  SPSR by the second.
* **`AluProofs`.** `TypeCorrect`, `SignedConditions`, `UnsignedConditions`, `ShiftsMoveBits`,
  `LongProductsUnsigned`, `DoubleWordsChained`, for words of every width. The invariant
  relates the flags to the last instruction (`IInv`), and its result and carry to the exact
  sum, difference or product (`Recorded`); without the second nothing is known of the low
  words when the high ones are added. For the shifter, a word is cut at the bit where a shift
  cuts it (`Weight` turns amounts into powers of two), and the parts are the only ones
  that fit. The rest is the arithmetic of signed words.
* **`EmulatorProofs`.** `TypeCorrect`, `PictureFresh`, `EventsDrained`, `ExitClean`. The
  invariant adds where the program is: what each place in `main` implies about
  `terminated`, the exit status, what was released and what was dumped.
* **`GpioProofs`.** For `Nes` and `NesScan`: `TypeCorrect`, `EdgesTracked`, `PadImplemented`,
  `ScansFaithful`, `CounterBounded`, for every offset of the digit keys. The refinement splits a store by the wires it moves and
  maps it to a latch, a shift or a drive of the wires. For the scan the invariant relates
  the place of the guest to the counter and the wires, and each bit read so far to a state
  its button had; the bound of the counter is a part of it. For `Gpio`:
  `ControllerDriven`, `PadBehindGpio`, `FunctionsReadBack`. A store to the first
  bank is the store of `Nes`, one to the second or to a function register leaves the
  controller alone; with `PadImplemented` the pad is implemented behind all of GPIO.
  For `SelectsOwn` the invariant says which bits of the last word stored to its selector
  each port keeps (`Selected`); then a word is the sum of its groups of three bits.
* **`DecoderProofs`.** `TypeCorrect`, `LongProductsDecoded`, `PcOperandsLost`,
  `StatusFieldsDropped`, `SharedBitsDecoded`, over all words of all fields. The invariant says
  that a word which was executed has the handler `Dispatch` chooses; the rest is a
  comparison of masks and layouts, field by field.
* **`MachineProofs`**, first for `Memory`: `LastStoreRead`, `SpillsRagged`, for every
  sequence of stores (`MemorySpec`), every radix, address and size of RAM and framebuffer.
  The invariant adds what the last store left behind (`Written`); that a load returns it is arithmetic: a number is its quotient and remainder and these are the only
  ones (`Unique`), so a dword is its four bytes and a load joins them, turned.
  Then for `Machine`: `MachineTyped`, `FloatsOrdered`, `StatusRegistersKept`,
  `MachineReadsBack`, `MachineSpills`, for every instruction set,
  number of floating point registers and program. All of the memory's invariant is one
  predicate `Sound` of a memory, which every store keeps, so an instruction of several
  accesses keeps it access by access, and the loops of block transfers turn by turn:
  `LoopRuns` shows once that the states of a loop exist, `Reached` that a set kept by each
  turn holds them. Neither needs an induction theorem of the library: a set of naturals
  that misses one has a least one it misses (`Climb`). The invariant `MInv` adds `Record`: the
  flags of FPSCR are those of the last comparison and the flags of cpsr those of the one
  they were copied from (`Ordered`); `FloatOrder` alone forgets where the flags came from.
  Last `StackImplemented`: `Machine` implements `Stack`. The invariant adds `Inside`, that
  the words pushed are aligned words of the RAM, without which a push could overlap them or
  a load turn their bytes. A stored word is loaded again (`WordStored`), and a store misses
  every word of which it touches no byte (`Apart`). So a push or a pop is followed through its
  loop: where it stands at each turn is a count of the registers it has met (`Counting`,
  `CourseAt`), and the turns at which it meets them, in the order of the addresses, are the
  list `Stack` asks for (`Meeting`, `CellList`). What is neither stays off the stack because
  each handler stores no further than `Stores` says (the lemmas named `...Misses`).
* **`FramebufferProofs`.** `TypeCorrect`, `WindowInBuffer`, `RefusalReported`, `PictureShown`.
  The invariant is that the size is height times pitch and the pitch width times depth, each
  modulo a `size_t`, and that the error flag tells whether the last request was refused.
  Nonlinear lemmas bound every pixel of a size that fits, the byte too many at 24 bits
  included (`FitsInside`); of one that does not, some pixel takes the last byte a
  `size_t` can name, which no buffer has (`WrapsOutside`). For the picture it adds that a guest with an
  answer has a framebuffer at the address it was told and has drawn in its window only
  (`Drawing`), and the picture itself: two pixels of the window share no byte.

Assumptions added for the proofs, which the code justifies: a register field of an
instruction names a register and an offset is a number, and `Instructions` holds nothing
else (`TransfersAssumption`, `UnitAssumption`); what a program loads and a device answers
is a dword (`ProgramAssumption`); the radix of a byte is even and at least 4, for the
status of the UART is 96 and the flags of FPSCR are a sixteenth of a dword
(`BaseAssumption`).

Only model-checked: `QuitStops`, since liveness under fairness is out of the prover's
reach.

## What is not modelled

* What floating point arithmetic and conversions compute: it is that of the C compiler's
  `float`. Comparisons, copies and all transfers are modelled.
* Which bits a logical instruction combines: `LogicalProcessing` takes any word.
* GPIO behind the array of ports, where FSEL5, SET1, CLR1 and digit keys of an offset below
  0 or above 45 write: what that damages is not modelled; a load from there returns anything
  and is left out.
* What floating point loads beyond the last register do to `nes_t`, the timer and
  `last_refresh`; and a `malloc` of the framebuffer that fails, after which the emulator aborts.
* What a port makes of a word of a framebuffer's answer that is written to it, which takes a
  memory that reaches the ports.
* Palettes, colours and the SDL window; the characters the UART prints; the text of
  messages and of the debugger; the parsing of the command line. None of them changes
  a state that another part reads.
* A counter of the controller that wraps: the models stop a guest that clocks on without
  latching at `MaxCount`, below 2^32.
* `cpu.c:986`: BX looks for THUMB in the number of the register. `Cpu` models what it does;
  no document of the repository says otherwise.

## Plan

Done: the modes first, because every guest relies on them, then `Emulator`, `Nes` with
`ShiftPad` and `NesScan`, `Framebuffer`, `Alu`; then `Decoder`, `Gpio`, `Memory` with
`Transfers`, `Vfp`, `Stack` and `Machine`; and the proofs named above.

What would come next: the stack with banks, so that an exception handler's pushes and the
interrupted program's are two stacks; and the composition of `Decoder` with `Machine`, so
that a program is a sequence of words.
