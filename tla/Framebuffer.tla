----------------------------- MODULE Framebuffer -----------------------------
(***************************************************************************)
(* The mailbox and the framebuffer: mbox_read and mbox_write of mbox.c,    *)
(* fb_request, fb_get_pixel and the writes of framebuffer.c, and the       *)
(* routing of memory.c that lets a guest's store reach them.               *)
(*                                                                         *)
(* The guest asks for a framebuffer, reads the answer back from its own    *)
(* memory, and draws pixels at the address and with the pitch it was told, *)
(* one store of the size of a pixel each.  Bytes have radix Base, 256 in   *)
(* C.  Palettes and the conversion to the window's format are left out,    *)
(* and so is a failed malloc, at which the emulator aborts.                *)
(***************************************************************************)
EXTENDS Integers

CONSTANTS
    Base,                   \* the values of a byte are 0 .. Base - 1
    SizeMod,                \* a size_t: 2^64, or 2^32 on a smaller host
    AnswerMod,              \* a word of the answer: 2^32
    MemSize,                \* emu->mem_size, where the framebuffer is placed
    AddressMod,             \* memory.c keeps 30 bits of an address: 2^30
    Devices,                \* where it finds a port of GPIO or the mailbox first
    Widths, Heights,        \* the virtual sizes a guest may ask for
    Depths,                 \* the bits per pixel it may ask for
    Colours,                \* the words it may draw
    Channels                \* the mailbox channels besides the framebuffer's

ASSUME BaseAssumption == Base \in Nat \ {0, 1} /\ MemSize \in Nat
ASSUME ModAssumption ==
    /\ SizeMod \in Nat \ {0} /\ AnswerMod \in Nat \ {0} /\ AddressMod \in Nat \ {0}
ASSUME RequestAssumption ==
    /\ Widths \subseteq Nat /\ Heights \subseteq Nat /\ Depths \subseteq Nat
    /\ Colours \subseteq Nat
    /\ Channels \subseteq 0 .. 15

VARIABLES
    graphics,       \* emu->graphics
    last_channel,   \* mbox->last_channel
    error,          \* fb->error
    fb,             \* fb_bpp, fb_pitch, fb_size, fb_address, width, height
    allocated,      \* framebuffer is not NULL
    buffer,         \* the bytes of framebuffer
    answer,         \* the addr and the pitch the guest was answered
    answered,       \* the guest has an answer to its last accepted request
    got,            \* what the guest read from MBOX_READ last
    drawn,          \* history: the words drawn since that request
    refused         \* history: its last request was refused

screen == <<fb, allocated, buffer, answer, answered, drawn>>
mail == <<last_channel, error, refused>>
vars == <<graphics, screen, mail, got>>

Power(k) == CASE k = 0 -> 1 [] k = 1 -> Base [] k = 2 -> Base * Base
              [] OTHER -> Base * Base * Base
Coordinates(w, h) == (0 .. w - 1) \X (0 .. h - 1)
BytesOf(colour, n) == [k \in 0 .. n - 1 |-> (colour \div Power(k)) % Base]
-----------------------------------------------------------------------------
\* cpu_init .. fb_init.  Nothing is allocated, and the window is 640 by 480.
Init == /\ graphics \in BOOLEAN
        /\ last_channel = 0 /\ error = FALSE
        /\ fb = [bpp |-> 0, pitch |-> 0, size |-> 0, address |-> 0,
                 width |-> IF graphics THEN 640 ELSE 0,
                 height |-> IF graphics THEN 480 ELSE 0]
        /\ allocated = FALSE /\ buffer = <<>>
        /\ answer = [addr |-> 0, pitch |-> 0] /\ answered = FALSE
        /\ got = [channel |-> 0, failed |-> FALSE]
        /\ drawn = <<>> /\ refused = FALSE

\* The bytes fb_get_pixel fetches for the pixel (x, y), and their number: four for
\* 24 bits, too, and none of a depth it does not support.
Fetched == IF fb.bpp = 3 THEN 4 ELSE IF fb.bpp \in {1, 2, 4} THEN fb.bpp ELSE 0
PixelByte(x, y, k) == ((y * fb.pitch) + (x * fb.bpp) + k) % SizeMod

\* fb_get_pixel, as the word it takes from the buffer: a palette index, RGB16 or
\* RGB24.  The fourth byte of four is fetched and has no effect.
Pixel(x, y) ==
    LET byte(k) == buffer[PixelByte(x, y, k)]
    IN  CASE fb.bpp = 1 -> byte(0)
          [] fb.bpp = 2 -> byte(0) + (Base * byte(1))
          [] fb.bpp \in {3, 4} -> byte(0) + (Base * byte(1)) + (Base * Base * byte(2))
          [] OTHER -> 0

Padded(pitch) == pitch + ((4 - (pitch % 4)) % 4)

\* Freeing the old framebuffer and installing a new one.
Unsized(w, h, depth) ==
    LET bpp == depth \div 8
    IN  [bpp |-> bpp, pitch |-> (w * bpp) % SizeMod, size |-> (w * h) % SizeMod,
         address |-> MemSize, width |-> w, height |-> h]

Sized(w, h, depth) ==
    LET bpp   == depth \div 8
        pitch == (w * bpp) % SizeMod
    IN  [bpp |-> bpp, pitch |-> pitch, size |-> (pitch * h) % SizeMod,
         address |-> MemSize, width |-> w, height |-> h]

Answer(w, depth) ==
    [addr |-> MemSize, pitch |-> Padded((w * (depth \div 8)) % SizeMod) % AnswerMod]

ReusesBuffer(w, h, depth) ==
    /\ fb' = Sized(w, h, depth)
    /\ allocated' = TRUE
    /\ buffer' = IF allocated THEN buffer ELSE [i \in 0 .. fb'.size - 1 |-> 0]
    /\ drawn' = [p \in Coordinates(w, h) |-> 0]

Install(w, h, depth) ==
    /\ fb' = Sized(w, h, depth)
    /\ allocated' = TRUE
    /\ buffer' = [i \in 0 .. fb'.size - 1 |-> 0]
    /\ drawn' = [p \in Coordinates(w, h) |-> 0]

\* A request that is refused: no --graphics, or an address below 0x40000000.
FreesFirst ==
    /\ last_channel' = 1 /\ error' = TRUE /\ refused' = TRUE
    /\ allocated' = FALSE /\ buffer' = <<>>
    /\ UNCHANGED <<graphics, fb, answer, answered, drawn, got>>

Refuse ==
    /\ last_channel' = 1 /\ error' = TRUE /\ refused' = TRUE
    /\ UNCHANGED <<graphics, screen, got>>

\* A request in memory, and the answer written over it.
KeepsError(w, h, depth) ==
    /\ graphics
    /\ last_channel' = 1 /\ refused' = FALSE
    /\ Install(w, h, depth)
    /\ answer' = Answer(w, depth)
    /\ answered' = TRUE
    /\ UNCHANGED <<graphics, error, got>>

Request(w, h, depth) ==
    /\ graphics
    /\ last_channel' = 1 /\ error' = FALSE /\ refused' = FALSE
    /\ Install(w, h, depth)
    /\ answer' = Answer(w, depth)
    /\ answered' = TRUE
    /\ UNCHANGED <<graphics, got>>

\* The addresses of dwords behind the memory where no port is found.
Nowhere == (MemSize .. AddressMod - 1) \ Devices

\* A request at a that ends behind the memory: the fields there read as zeros, and
\* their answer is stored in the new framebuffer, which begins there.  Without the
\* depth, or what comes before it, that has no bytes.  What a port answers for a field
\* is any, and what it makes of a word of the answer is not followed.
RequestAcross(a, w, h, depth) ==
    LET Silent(at)     == at + 3 >= MemSize /\ (at < MemSize \/ at \in Nowhere)
        Read(i, field) == IF Silent(a + (4 * i)) THEN 0 ELSE field
        Word(i)        == CASE i = 8 -> MemSize [] i = 9 -> fb'.size [] OTHER -> 0
        Spilled(j)     == LET at == (j + MemSize) - a
                          IN  IF at \div 4 \in 6 .. 9 /\ a + at - (at % 4) \in Nowhere
                              THEN BytesOf(Word(at \div 4), 4)[at % 4] ELSE 0
    IN  /\ graphics
        /\ last_channel' = 1 /\ error' = FALSE /\ refused' = FALSE
        /\ fb' = Sized(Read(2, w), Read(3, h), Read(5, depth))
        /\ allocated' = TRUE
        /\ buffer' = [j \in 0 .. fb'.size - 1 |-> Spilled(j)]
        /\ answered' = FALSE /\ drawn' = <<>>
        /\ UNCHANGED <<graphics, answer, got>>

\* mbox_write keeps the channel in the last four bits of the address.
Across == {a \in 0 .. MemSize + 15 : a % 16 = 0 /\ a + 40 > MemSize}

\* A write to another channel, or to another port of the mailbox.
OtherMail(channel) ==
    /\ last_channel' = channel
    /\ UNCHANGED <<graphics, screen, error, refused, got>>

\* mbox_read of MBOX_READ
MailRead ==
    /\ got' = [channel |-> last_channel, failed |-> last_channel = 1 /\ error]
    /\ UNCHANGED <<graphics, screen, mail>>

\* fb_is_buffer
IsBuffer(address) ==
    graphics /\ fb.address <= address /\ address < fb.address + fb.size

\* The guest stores the pixel (x, y).  memory_write_word_le and _dword_le hand an
\* address behind the memory to the framebuffer, memory_write_byte does not, so
\* the bytes of pixels of 8 or 24 bits are dropped.  A word on a port is not drawn: it
\* is a store to the port (memory.c:257).
Draw(x, y, colour) ==
    LET address == (answer.addr + (y * answer.pitch) + (x * fb.bpp)) % AddressMod
        bytes   == BytesOf(colour, fb.bpp)
        reached == fb.bpp \in {2, 4} /\ IsBuffer(address)
    IN  /\ answered
        /\ ~ (fb.bpp = 4 /\ address \in Devices)
        /\ buffer' = IF reached
                     THEN [i \in DOMAIN buffer |->
                             IF i - (address - fb.address) \in 0 .. fb.bpp - 1
                             THEN bytes[i - (address - fb.address)]
                             ELSE buffer[i]]
                     ELSE buffer
        /\ drawn' = [drawn EXCEPT ![<<x, y>>] = colour]
        /\ UNCHANGED <<graphics, mail, got, fb, allocated, answer, answered>>

Next == \/ Refuse
        \/ \E w \in Widths, h \in Heights, d \in Depths : Request(w, h, d)
        \/ \E a \in Across, w \in Widths, h \in Heights, d \in Depths :
               RequestAcross(a, w, h, d)
        \/ \E c \in Channels \cup {1} : OtherMail(c)
        \/ MailRead
        \/ \E p \in DOMAIN drawn, c \in Colours : Draw(p[1], p[2], c)

Spec == Init /\ [][Next]_vars
-----------------------------------------------------------------------------
Byte == 0 .. Base - 1

TypeOK ==
    /\ graphics \in BOOLEAN /\ error \in BOOLEAN /\ refused \in BOOLEAN
    /\ allocated \in BOOLEAN /\ answered \in BOOLEAN
    /\ last_channel \in 0 .. 15
    /\ got \in [channel : 0 .. 15, failed : BOOLEAN]
    /\ fb \in [bpp : Nat, pitch : Nat, size : Nat, address : Nat,
               width : Nat, height : Nat]
    /\ allocated => buffer \in [0 .. fb.size - 1 -> Byte]
    /\ answer \in [addr : Nat, pitch : Nat]

\* No request is tested for its size: the product of width, depth and height may
\* leave a size_t (framebuffer.c:339).
Fits == fb.width * fb.bpp * fb.height < SizeMod

Window == Coordinates(fb.width, fb.height)
Corner == <<fb.width - 1, fb.height - 1>>

\* The pixels of the window that fb_get_pixel fetches from behind the buffer.
Strays == {p \in Window : \E k \in 0 .. Fetched - 1 :
                              PixelByte(p[1], p[2], k) >= fb.size}

\* After any requests, of any size and depth, accepted or refused, fb_tick takes the
\* whole window from inside the buffer, but for two over-reads, each where it is said
\* to be: at 24 bits the last pixel takes one byte too many (framebuffer.c:174), and
\* no other does; and a size that leaves its type always leaves pixels outside.
PixelsInBuffer ==
    allocated =>
        /\ Fits => Strays = (IF fb.bpp = 3 THEN Window \cap {Corner} ELSE {})
        /\ ~ Fits /\ Fetched > 0 => Strays # {}

\* The picture is what the guest drew since its last accepted request: nothing of an
\* older framebuffer, no pixel in the place of another, and a refused request
\* leaves it alone.  This holds for 16 and 32 bits and rows whose length the answer
\* does not have to pad: the buffer itself is never padded (framebuffer.c:337).
\* The fourth byte of a word is not shown, and a buffer has to end where addresses do.
PictureExact ==
    /\ answered /\ Fits /\ fb.bpp \in {2, 4} /\ answer.pitch = fb.pitch
    /\ MemSize + fb.size <= AddressMod
    =>
        /\ allocated
        /\ \A p \in DOMAIN drawn :
               Pixel(p[1], p[2]) = drawn[p] % Power(fb.bpp)

\* The framebuffer channel answers for the last request, whatever was sent to
\* other channels in between.
FailureReported == [][MailRead => (got'.failed <=> last_channel = 1 /\ refused)]_vars
=============================================================================
