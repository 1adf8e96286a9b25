------------------------------- MODULE Memory -------------------------------
(***************************************************************************)
(* Storage and its routes: memory.c, the stores of framebuffer.c and the   *)
(* registers of peripheral.c.  A load or a store reaches the RAM, a device *)
(* or nothing, by its address, its size and its direction.                 *)
(*                                                                         *)
(* Bytes have radix Base, 256 in C, so a byte, a word and a dword are      *)
(* numbers below Base, Base^2 and Base^4.  The framebuffer lies behind the *)
(* RAM, where fb_request places it (Framebuffer has its requests).  GPIO   *)
(* and mailbox are other modules: here they swallow what they are sent,    *)
(* and what they and the timer answer is chosen freely.                    *)
(***************************************************************************)
EXTENDS Integers

CONSTANTS
    Base,           \* the radix of a byte
    AddressSpace,   \* the addresses that are told apart, 2^30 in C
    MemSize,        \* emu->mem_size
    FbSize,         \* fb->fb_size, 0 without --graphics
    OtherPorts,     \* the addresses of GPIO and mailbox ports
    TimerPorts,     \* 0x20003004 and 0x20003008
    AUX_ENABLES, AUX_MU_IO_REG, AUX_MU_IER_REG, AUX_MU_LCR_REG,
    AUX_MU_LSR_REG, AUX_MU_BAUD_REG

AuxNamed == {AUX_ENABLES, AUX_MU_IO_REG, AUX_MU_IER_REG, AUX_MU_LCR_REG,
             AUX_MU_LSR_REG, AUX_MU_BAUD_REG}

Full == Base * Base * Base * Base

\* A dword has room for the status of the UART, 96.
ASSUME BaseAssumption == Base \in Nat \ (0 .. 3) /\ Base % 2 = 0
ASSUME SpaceAssumption == /\ AddressSpace \in Nat \ {0}
                          /\ Full % AddressSpace = 0 /\ AddressSpace % 4 = 0
\* main accepts any size of 64K bytes or more, a multiple of four or not.
ASSUME SizeAssumption == MemSize \in Nat /\ FbSize \in Nat
ASSUME PortAssumption ==
    OtherPorts \cup TimerPorts \cup AuxNamed \subseteq Nat

VARIABLE memory     \* emu->memory, the bytes of emu->fb, and emu->pr

Byte == 0 .. Base - 1
Word == 0 .. (Base * Base) - 1
Dword == 0 .. Full - 1
Offsets(n) == 0 .. n - 1
Unwrapped(v) == v
Wrap(v) == v % Full

Power(k) == CASE k = 0 -> 1 [] k = 1 -> Base [] k = 2 -> Base * Base
              [] OTHER -> Base * Base * Base
ByteOf(v, k) == (v \div Power(k)) % Base

\* A word of two bytes, a dword of four, the lowest first.
WordFrom(b) == b[0] + (Base * b[1])
DwordFrom(b) == b[0] + (Base * b[1]) + (Base * Base * b[2])
                     + (Base * Base * Base * b[3])
-----------------------------------------------------------------------------
(* peripheral.c *)

\* pr_init, on an emulator cleared by main.
PrInit == [uart |-> FALSE, spi1 |-> FALSE, spi2 |-> FALSE, rx |-> FALSE,
           tx |-> FALSE, bits |-> 7, counter |-> 0, baud |-> 0, dlab |-> FALSE]

Has(v, bit) == (v \div bit) % 2 = 1

\* pr_write takes the lowest byte v of the store.  No store sets uart_dlab, so the
\* two halves of the baud rate behind it are never written.  A character printed
\* leaves no trace.
PrWrite(pr, a, v) ==
    CASE a = AUX_ENABLES -> [pr EXCEPT !.uart = Has(v, 1), !.spi1 = Has(v, 2),
                                       !.spi2 = Has(v, 4)]
      [] a = AUX_MU_IER_REG /\ pr.dlab -> [pr EXCEPT !.baud = @ % Base]
      [] a = AUX_MU_IER_REG /\ ~ pr.dlab -> [pr EXCEPT !.rx = Has(v, 1),
                                                       !.tx = Has(v, 1)]
      [] a = AUX_MU_LCR_REG -> [pr EXCEPT !.bits = IF Has(v, 1) THEN 8 ELSE 7]
      [] a = AUX_MU_BAUD_REG -> [pr EXCEPT !.counter = v]
      [] a = AUX_MU_IO_REG /\ pr.dlab -> [pr EXCEPT !.baud = @ - (@ % Base) + v]
      [] OTHER -> pr

PrRead(pr, a) ==
    LET bit(p, w) == IF p THEN w ELSE 0
    IN  CASE a = AUX_ENABLES -> bit(pr.uart, 1) + bit(pr.spi1, 2) + bit(pr.spi2, 4)
          [] a = AUX_MU_IER_REG -> bit(pr.rx, 1) + bit(pr.tx, 2)
          [] a = AUX_MU_LSR_REG -> 96
          [] a = AUX_MU_IO_REG /\ pr.dlab -> pr.baud % Base
          [] OTHER -> 0
-----------------------------------------------------------------------------
(* memory.c.  m is the memory before an access.                            *)

MemoryInit ==
    memory = [ram |-> [i \in Offsets(MemSize) |-> 0],
              fb |-> [i \in Offsets(FbSize) |-> 0],
              pr |-> PrInit,
              last |-> [a |-> 0, n |-> 0, v |-> 0],     \* history: the last store
                                                        \* of n bytes to the RAM
              spills |-> {}]                            \* history: the stores that
                                                        \* passed the buffer's end

Place(a) == a % AddressSpace
InRam(a, n) == a + n - 1 < MemSize

\* fb_is_buffer
EndsLate(a) == MemSize <= a /\ a <= MemSize + FbSize

IsBuffer(a) == MemSize <= a /\ a < MemSize + FbSize

\* A load of n bytes turns inside the aligned n bytes around its address.
Turned(m, a, n) == [k \in Offsets(n) |-> m.ram[(a - (a % n)) + (((a % n) + k) % n)]]

\* The error of an access to nothing is reported and has no effect, no more than an
\* access to a DMA port, which is not reported.
ReadByte(m, addr) ==
    LET a == Place(addr) IN IF InRam(a, 1) THEN m.ram[a] ELSE 0

ReadWord(m, addr) ==
    LET a == Place(addr) IN IF InRam(a, 2) THEN WordFrom(Turned(m, a, 2)) ELSE 0

\* x is what the timer, a GPIO port or the mailbox answers.
ReadDword(m, addr, x) ==
    LET a == Place(addr)
    IN  CASE InRam(a, 4) -> DwordFrom(Turned(m, a, 4))
          [] ~ InRam(a, 4) /\ a \in TimerPorts \cup OtherPorts -> x
          [] ~ InRam(a, 4) /\ a \in AuxNamed \ (TimerPorts \cup OtherPorts) ->
                 PrRead(m.pr, a)
          [] OTHER -> 0

\* The bytes f after a store of n bytes at i.
Stored(f, i, n, v) ==
    [j \in DOMAIN f |-> IF j - i \in Offsets(n) THEN ByteOf(v, j - i) ELSE f[j]]

\* A store whose bytes begin at the address aligned down.
StoreAligned(m, a, n, v) ==
    [m EXCEPT !.ram = Stored(@, a - (a % 4), n, v),
              !.last = [a |-> a, n |-> n, v |-> v]]

StoreRam(m, a, n, v) == [m EXCEPT !.ram = Stored(@, a, n, v),
                                  !.last = [a |-> a, n |-> n, v |-> v]]

\* fb_write_word and fb_write_dword: nothing tests where the last byte lands.
StoreBuffer(m, a, n, v) ==
    [m EXCEPT !.fb = Stored(@, a - MemSize, n, v),
              !.spills = IF a + n > MemSize + FbSize THEN @ \cup {<<a, n>>} ELSE @]

WriteByte(m, addr, v) ==
    LET a == Place(addr) IN IF InRam(a, 1) THEN StoreRam(m, a, 1, v % Base) ELSE m

WriteWord(m, addr, v) ==
    LET a == Place(addr)
    IN  CASE InRam(a, 2) -> StoreRam(m, a, 2, v % (Base * Base))
          [] ~ InRam(a, 2) /\ IsBuffer(a) -> StoreBuffer(m, a, 2, v)
          [] OTHER -> m

\* GPIO and mailbox come before the framebuffer, the other devices behind it.
WriteDword(m, addr, v) ==
    LET a == Place(addr)
    IN  CASE InRam(a, 4) -> StoreRam(m, a, 4, v)
          [] ~ InRam(a, 4) /\ a \notin OtherPorts /\ IsBuffer(a) -> StoreBuffer(m, a, 4, v)
          [] ~ InRam(a, 4) /\ a \notin OtherPorts /\ ~ IsBuffer(a) /\ a \in AuxNamed ->
                 [m EXCEPT !.pr = PrWrite(@, a, v % Base)]
          [] OTHER -> m

\* Any store, one at a time.
Store == \E a, v \in Dword :
    memory' \in {WriteByte(memory, a, v), WriteWord(memory, a, v),
                 WriteDword(memory, a, v)}

MemorySpec == MemoryInit /\ [][Store]_memory
-----------------------------------------------------------------------------
Pr == [uart : BOOLEAN, spi1 : BOOLEAN, spi2 : BOOLEAN, rx : BOOLEAN, tx : BOOLEAN,
       bits : {7, 8}, counter : Byte, baud : Nat, dlab : BOOLEAN]

MemoryTypeOK ==
    memory \in [ram : [Offsets(MemSize) -> Byte], fb : [Offsets(FbSize) -> Byte],
                pr : Pr, last : [a : Nat, n : {0, 1, 2, 4}, v : Dword],
                spills : SUBSET (Nat \X {2, 4})]

\* A store writes at its address and a load reads turned inside the aligned bytes
\* around it.  So the last dword stored is what a load there returns when its
\* address is aligned; when it is not, only the bytes up to the next aligned address
\* come back, and the bytes below the store take the place of the rest.  For a word
\* it is one byte.
ReadsBack ==
    LET s == memory.last
        k == s.a % 4
    IN  /\ s.n = 4 =>
               /\ ReadDword(memory, s.a, 0) % Power(4 - k) = s.v % Power(4 - k)
               /\ k = 0 => ReadDword(memory, s.a, 0) = s.v
               /\ \A j \in 0 .. k - 1 :
                      ByteOf(ReadDword(memory, s.a, 0), (4 - k) + j)
                          = memory.ram[(s.a - k) + j]
        /\ s.n = 2 =>
               /\ ByteOf(ReadWord(memory, s.a), 0) = ByteOf(s.v, 0)
               /\ s.a % 2 = 0 => ReadWord(memory, s.a) = s.v
        /\ s.n = 1 => ReadByte(memory, s.a) = s.v

\* fb_is_buffer looks at the first byte of a store.  The buffer begins where the RAM
\* ends, at any address, so alignment of the guest's addresses keeps nothing inside:
\* what does is a distance from the buffer's start and a size of the buffer that the
\* size of the store divides.  Every store behind the buffer breaks one of the two.
OnlyRaggedSpill ==
    \A s \in memory.spills : (s[1] - MemSize) % s[2] # 0 \/ FbSize % s[2] # 0
=============================================================================
