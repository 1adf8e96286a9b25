--------------------------- MODULE FramebufferProofs ---------------------------
(***************************************************************************)
(* Proofs about Framebuffer.tla, for every memory size, every sizes and    *)
(* depths a guest may ask for, every radix of a byte and width of a size.  *)
(***************************************************************************)
EXTENDS Framebuffer, Division, TLAPS

\* The rows of an allocated framebuffer follow each other without a gap, as far as a
\* size_t can tell.
Packed == allocated => /\ fb.pitch = (fb.width * fb.bpp) % SizeMod
                       /\ fb.size = (fb.pitch * fb.height) % SizeMod

\* The error flag tells whether the last request was refused.
ErrorIsRefusal == error = refused

IInv == TypeOK /\ Packed /\ ErrorIsRefusal

\* While the guest has an answer, it has a framebuffer, at the address it was told,
\* and has drawn numbers in all of its window and nowhere else.
Drawing ==
    answered => /\ graphics /\ allocated
                /\ answer.addr = MemSize /\ fb.address = MemSize
                /\ drawn \in [Coordinates(fb.width, fb.height) -> Nat]

\* What a step that installs a framebuffer leaves behind.
InstalledOK ==
    /\ fb' \in [bpp : Nat, pitch : Nat, size : Nat, address : Nat,
                width : Nat, height : Nat]
    /\ allocated' \in BOOLEAN
    /\ allocated' => buffer' \in [0 .. fb'.size - 1 -> Byte']
    /\ Packed'
-----------------------------------------------------------------------------
\* A product grows with its factor.
LEMMA TimesMonotone ==
    ASSUME NEW a \in Nat, NEW b \in Nat, NEW c \in Nat, a <= b
    PROVE  a * c <= b * c
OBVIOUS

\* The last byte of the pixel (x, y) of a packed picture of w by h pixels of n
\* bytes lies inside of it.
LEMMA PixelFits ==
    ASSUME NEW w \in Nat, NEW h \in Nat, NEW n \in Nat,
           NEW x \in 0 .. w - 1, NEW y \in 0 .. h - 1
    PROVE  (y * (w * n)) + (x * n) + n <= (w * n) * h
<1> DEFINE pitch == w * n
<1>1. pitch \in Nat
  OBVIOUS
<1>2. (x + 1) * n <= pitch
  BY TimesMonotone
<1>3. (x * n) + n <= pitch
  BY <1>2
<1> HIDE DEF pitch
<1>4. (y + 1) * pitch <= h * pitch
  BY <1>1, TimesMonotone
<1>5. (y * pitch) + pitch <= pitch * h
  BY <1>1, <1>4
<1>6. /\ x * n \in Nat
      /\ y * pitch \in Nat
      /\ pitch * h \in Nat
  BY <1>1
<1>7. (y * pitch) + (x * n) + n <= pitch * h
  BY <1>1, <1>3, <1>5, <1>6
<1> QED
  BY <1>7 DEF pitch

\* A size that does not wrap, with the pixel at o inside.
Packs(w, h, n, o) == /\ (w * n) % SizeMod = w * n
                     /\ ((w * n) * h) % SizeMod = (w * n) * h
                     /\ o \in Nat /\ (w * n) * h \in Nat /\ o + n <= (w * n) * h
                     /\ (w * n) * h < SizeMod

\* When the whole size fits its type, nothing wraps, and the pixels are inside.
LEMMA Layout ==
    ASSUME NEW w \in Nat, NEW h \in Nat, NEW n \in Nat, w * n * h < SizeMod,
           NEW x \in 0 .. w - 1, NEW y \in 0 .. h - 1
    PROVE  Packs(w, h, n, (y * (w * n)) + (x * n))
<1> DEFINE pitch == w * n
           size == pitch * h
<1>1. pitch \in Nat
  OBVIOUS
<1>2. (y * pitch) + (x * n) + n <= size
  BY PixelFits
<1> HIDE DEF pitch
<1>3. 1 * pitch <= h * pitch
  BY <1>1, TimesMonotone
<1>4. size \in Nat /\ pitch <= size
  BY <1>1, <1>3
<1>5. y * pitch \in Nat /\ x * n \in Nat
  BY <1>1
<1>6. pitch < SizeMod /\ size < SizeMod
  BY <1>1, <1>4, ModAssumption DEF pitch
<1> HIDE DEF size
<1>7. pitch % SizeMod = pitch /\ size % SizeMod = size
  BY <1>1, <1>4, <1>6, ModAssumption
<1> QED
  BY <1>1, <1>2, <1>4, <1>5, <1>7 DEF Packs, pitch, size

\* A byte before the end of a size is fetched from where it is.
LEMMA ByteIs ==
    ASSUME NEW o \in Nat, NEW k \in Nat, o + k < SizeMod
    PROVE  (o + k) % SizeMod = o + k
BY ModAssumption

\* What fb_request computes has its type and is packed.
LEMMA SizedPacked ==
    ASSUME NEW w \in Nat, NEW h \in Nat, NEW depth \in Nat
    PROVE  /\ Sized(w, h, depth) \in [bpp : Nat, pitch : Nat, size : Nat,
                                      address : Nat, width : Nat, height : Nat]
           /\ Sized(w, h, depth).pitch =
                  (Sized(w, h, depth).width * Sized(w, h, depth).bpp) % SizeMod
           /\ Sized(w, h, depth).size =
                  (Sized(w, h, depth).pitch * Sized(w, h, depth).height) % SizeMod
<1> DEFINE bpp == depth \div 8
           pitch == (w * bpp) % SizeMod
           size == (pitch * h) % SizeMod
<1>1. bpp \in Nat
  OBVIOUS
<1>2. w * bpp \in Nat
  BY <1>1
<1>3. pitch \in Nat
  BY <1>2, ModAssumption
<1> HIDE DEF pitch
<1>4. pitch * h \in Nat
  BY <1>3
<1>5. size \in Nat
  BY <1>4, ModAssumption
<1>6. Sized(w, h, depth) =
        [bpp |-> bpp, pitch |-> pitch, size |-> size,
         address |-> MemSize, width |-> w, height |-> h]
  BY DEF Sized, pitch
<1>7. pitch = (w * bpp) % SizeMod /\ size = (pitch * h) % SizeMod
  BY DEF pitch
<1> HIDE DEF size, bpp
<1> QED
  BY <1>1, <1>3, <1>5, <1>6, <1>7, BaseAssumption

\* The answer has its type.
LEMMA AnswerTyped ==
    ASSUME NEW w \in Nat, NEW depth \in Nat
    PROVE  Answer(w, depth) \in [addr : Nat, pitch : Nat]
<1> DEFINE bpp == depth \div 8
           pitch == (w * bpp) % SizeMod
<1>1. bpp \in Nat
  OBVIOUS
<1>2. w * bpp \in Nat
  BY <1>1
<1>3. pitch \in Nat
  BY <1>2, ModAssumption
<1> HIDE DEF pitch
<1>4. Padded(pitch) \in Nat
  BY <1>3 DEF Padded
<1>5. Padded(pitch) % AnswerMod \in Nat
  BY <1>4, ModAssumption
<1> QED
  BY <1>5, BaseAssumption DEF Answer, pitch

\* Each byte of a colour is a byte.
LEMMA BytesAreBytes ==
    ASSUME NEW colour \in Nat, NEW n \in Nat, NEW k \in 0 .. n - 1
    PROVE  BytesOf(colour, n)[k] \in Byte
<1>1. Base * Base \in Nat \ {0} /\ Base * Base * Base \in Nat \ {0}
  BY BaseAssumption
<1>2. Power(k) \in Nat \ {0}
  BY <1>1, BaseAssumption DEF Power
<1>3. colour \div Power(k) \in Nat
  BY <1>2
<1> QED
  BY <1>3, BaseAssumption DEF BytesOf, Byte

\* The initial state is typed, and nothing is allocated in it.
LEMMA InitInvariant == Init => IInv
<1> SUFFICES ASSUME Init
             PROVE  IInv
  OBVIOUS
<1>1. /\ graphics \in BOOLEAN /\ error \in BOOLEAN /\ refused \in BOOLEAN
      /\ allocated \in BOOLEAN /\ answered \in BOOLEAN
  BY Zenon DEF Init
<1>2. ~allocated
  BY Zenon DEF Init
<1>3. fb \in [bpp : Nat, pitch : Nat, size : Nat, address : Nat,
             width : Nat, height : Nat]
  <2> DEFINE Side(size) == IF graphics THEN size ELSE 0
  <2>1. fb = [bpp |-> 0, pitch |-> 0, size |-> 0, address |-> 0,
              width |-> Side(640), height |-> Side(480)]
    BY Zenon DEF Init
  <2>2. Side(640) \in {0, 640} /\ Side(480) \in {0, 480}
    OBVIOUS
  <2> HIDE DEF Side
  <2> QED
    BY <2>1, <2>2
<1>4. /\ last_channel \in 0 .. 15
      /\ answer \in [addr : Nat, pitch : Nat]
  BY DEF Init
<1>5. got \in [channel : 0 .. 15, failed : BOOLEAN]
  BY DEF Init
<1>6. ErrorIsRefusal
  BY Zenon DEF Init, ErrorIsRefusal
<1> QED
  BY <1>1, <1>2, <1>3, <1>4, <1>5, <1>6, Zenon DEF IInv, TypeOK, Packed

\* A new framebuffer is typed, packed and filled with zeros.
LEMMA InstallInvariant ==
    ASSUME IInv, NEW w \in Nat, NEW h \in Nat, NEW depth \in Nat,
           Install(w, h, depth)
    PROVE  InstalledOK
<1>1. 0 \in Byte
  BY BaseAssumption DEF Byte
<1> QED
  BY <1>1, SizedPacked DEF Install, Packed, Byte, InstalledOK

\* The same of a framebuffer a request installs.
LEMMA InstalledPacked ==
    ASSUME NEW w \in Nat, NEW h \in Nat, NEW depth \in Nat, fb' = Sized(w, h, depth)
    PROVE  /\ fb' \in [bpp : Nat, pitch : Nat, size : Nat, address : Nat,
                       width : Nat, height : Nat]
           /\ fb'.pitch = (fb'.width * fb'.bpp) % SizeMod
           /\ fb'.size = (fb'.pitch * fb'.height) % SizeMod
BY SizedPacked

\* So is one that the answer to a request runs into.
LEMMA AcrossInvariant ==
    ASSUME IInv, NEW a \in Nat, NEW w \in Nat, NEW h \in Nat, NEW depth \in Nat,
           RequestAcross(a, w, h, depth)
    PROVE  InstalledOK
<1> DEFINE Silent(at)     == at + 3 >= MemSize /\ (at < MemSize \/ at \in Nowhere)
           Read(i, field) == IF Silent(a + (4 * i)) THEN 0 ELSE field
           Word(i)        == CASE i = 8 -> MemSize [] i = 9 -> fb'.size [] OTHER -> 0
           At(j)          == (j + MemSize) - a
           Spilled(j)     == IF At(j) \div 4 \in 6 .. 9 /\ a + At(j) - (At(j) % 4) \in Nowhere
                             THEN BytesOf(Word(At(j) \div 4), 4)[At(j) % 4] ELSE 0
<1>0. fb' = Sized(Read(2, w), Read(3, h), Read(5, depth))
  BY DEF RequestAcross
<1>1. /\ allocated' = TRUE
      /\ buffer' = [j \in 0 .. fb'.size - 1 |-> Spilled(j)]
  BY DEF RequestAcross
<1>2. PICK u \in Nat, v \in Nat, d \in Nat : fb' = Sized(u, v, d)
  <2> HIDE DEF Silent
  <2>1. Read(2, w) \in Nat /\ Read(3, h) \in Nat /\ Read(5, depth) \in Nat
    OBVIOUS
  <2> HIDE DEF Read
  <2> QED
    BY <1>0, <2>1
<1> HIDE DEF Spilled
<1>3. /\ fb' \in [bpp : Nat, pitch : Nat, size : Nat, address : Nat,
                  width : Nat, height : Nat]
      /\ fb'.pitch = (fb'.width * fb'.bpp) % SizeMod
      /\ fb'.size = (fb'.pitch * fb'.height) % SizeMod
  BY <1>2, InstalledPacked
<1>4. ASSUME NEW j \in 0 .. fb'.size - 1
      PROVE  Spilled(j) \in Byte
  <2> USE DEF Spilled
  <2>1. 0 \in Byte /\ MemSize \in Nat /\ fb'.size \in Nat
    BY <1>3, BaseAssumption DEF Byte
  <2>2. Word(At(j) \div 4) \in Nat
    BY <2>1
  <2>3. At(j) \in Int
    BY <2>1
  <2>4. At(j) % 4 \in 0 .. 4 - 1
    <3> HIDE DEF At
    <3> QED
      BY <2>3
  <2> HIDE DEF Word, At
  <2>5. BytesOf(Word(At(j) \div 4), 4)[At(j) % 4] \in Byte
    BY <2>2, <2>4, BytesAreBytes
  <2> QED
    BY <2>1, <2>5
<1>5. buffer' \in [0 .. fb'.size - 1 -> Byte]
  BY <1>1, <1>4
<1> QED
  BY <1>1, <1>3, <1>5 DEF InstalledOK, Packed, Byte

\* Every step of the guest keeps the invariant.
LEMMA NextInvariant == IInv /\ [Next]_vars => IInv'
<1> SUFFICES ASSUME IInv, [Next]_vars
             PROVE  IInv'
  OBVIOUS
<1> USE DEF IInv
<1>1. CASE Refuse
  BY <1>1 DEF Refuse, TypeOK, Packed, screen, Byte, ErrorIsRefusal
<1>2. CASE \E w \in Widths, h \in Heights, d \in Depths : Request(w, h, d)
  <2>1. PICK w \in Widths, h \in Heights, d \in Depths : Request(w, h, d)
    BY <1>2
  <2>2. w \in Nat /\ h \in Nat /\ d \in Nat
    BY RequestAssumption
  <2>3. answer' \in [addr : Nat, pitch : Nat]
    BY <2>1, <2>2, AnswerTyped DEF Request
  <2>4. Install(w, h, d)
    BY <2>1 DEF Request
  <2>5. InstalledOK
    BY <2>2, <2>4, InstallInvariant
  <2>6. /\ last_channel' = 1 /\ error' = FALSE /\ refused' = FALSE
        /\ answered' = TRUE
        /\ UNCHANGED <<graphics, got>>
    BY <2>1 DEF Request
  <2>7. /\ graphics' \in BOOLEAN /\ error' \in BOOLEAN /\ refused' \in BOOLEAN
        /\ allocated' \in BOOLEAN /\ answered' \in BOOLEAN
    BY <2>5, <2>6, Zenon DEF TypeOK, InstalledOK
  <2>8. /\ last_channel' \in 0 .. 15
        /\ got' \in [channel : 0 .. 15, failed : BOOLEAN]
        /\ answer' \in [addr : Nat, pitch : Nat]
    BY <2>3, <2>6 DEF TypeOK
  <2>9. ErrorIsRefusal'
    BY <2>6, Zenon DEF ErrorIsRefusal
  <2> QED
    BY <2>5, <2>7, <2>8, <2>9 DEF TypeOK, InstalledOK, Byte
<1>3. CASE \E a \in Across, w \in Widths, h \in Heights, d \in Depths :
              RequestAcross(a, w, h, d)
  <2>1. PICK a \in Across, w \in Widths, h \in Heights, d \in Depths :
            RequestAcross(a, w, h, d)
    BY <1>3
  <2>2. InstalledOK
    BY <2>1, RequestAssumption, AcrossInvariant DEF Across
  <2>3. /\ last_channel' = 1 /\ error' = FALSE /\ refused' = FALSE
        /\ answered' = FALSE
        /\ UNCHANGED <<graphics, answer, got>>
    BY <2>1 DEF RequestAcross
  <2>4. /\ graphics' \in BOOLEAN /\ error' \in BOOLEAN /\ refused' \in BOOLEAN
        /\ allocated' \in BOOLEAN /\ answered' \in BOOLEAN
    BY <2>2, <2>3, Zenon DEF TypeOK, InstalledOK
  <2>5. /\ last_channel' \in 0 .. 15
        /\ got' \in [channel : 0 .. 15, failed : BOOLEAN]
        /\ answer' \in [addr : Nat, pitch : Nat]
    BY <2>3 DEF TypeOK
  <2>6. ErrorIsRefusal'
    BY <2>3, Zenon DEF ErrorIsRefusal
  <2> QED
    BY <2>2, <2>4, <2>5, <2>6 DEF TypeOK, InstalledOK, Byte
<1>4. CASE \E c \in Channels \cup {1} : OtherMail(c)
  BY <1>4, RequestAssumption DEF OtherMail, TypeOK, Packed, screen, Byte, ErrorIsRefusal
<1>5. CASE MailRead
  BY <1>5 DEF MailRead, TypeOK, Packed, screen, mail, Byte, ErrorIsRefusal
<1>6. CASE \E p \in DOMAIN drawn, c \in Colours : Draw(p[1], p[2], c)
  <2>1. PICK p \in DOMAIN drawn, c \in Colours : Draw(p[1], p[2], c)
    BY <1>6
  <2> DEFINE address == (answer.addr + (p[2] * answer.pitch) + (p[1] * fb.bpp)) % AddressMod
             at(i)   == i - (address - fb.address)
  <2>2. /\ UNCHANGED <<graphics, mail, got, fb, allocated, answer, answered>>
        /\ \/ buffer' = buffer
           \/ buffer' = [i \in DOMAIN buffer |->
                           IF at(i) \in 0 .. fb.bpp - 1
                           THEN BytesOf(c, fb.bpp)[at(i)] ELSE buffer[i]]
    BY <2>1 DEF Draw
  <2> HIDE DEF at
  <2>3. ASSUME allocated
        PROVE  buffer' \in [0 .. fb.size - 1 -> Byte]
    <3>1. buffer \in [0 .. fb.size - 1 -> Byte]
      BY <2>3 DEF TypeOK
    <3>2. c \in Nat /\ fb.bpp \in Nat
      BY RequestAssumption DEF TypeOK
    <3>3. \A i \in DOMAIN buffer : at(i) \in 0 .. fb.bpp - 1 =>
              BytesOf(c, fb.bpp)[at(i)] \in Byte
      BY <3>2, BytesAreBytes
    <3> QED
      BY <2>2, <3>1, <3>3
  <2> QED
    BY <2>2, <2>3 DEF TypeOK, Packed, mail, Byte, ErrorIsRefusal
<1>7. CASE UNCHANGED vars
  BY <1>7 DEF vars, screen, mail, TypeOK, Packed, Byte, ErrorIsRefusal
<1> QED
  BY <1>1, <1>2, <1>3, <1>4, <1>5, <1>6, <1>7 DEF Next

\* Two pixels of a packed picture have no byte in common.
LEMMA PixelsApart ==
    ASSUME NEW w \in Nat, NEW n \in Nat, NEW x \in 0 .. w - 1, NEW u \in 0 .. w - 1,
           NEW y \in Nat, NEW v \in Nat, x # u \/ y # v
    PROVE  LET o == (y * (w * n)) + (x * n)
               p == (v * (w * n)) + (u * n)
           IN  o + n <= p \/ p + n <= o
<1> DEFINE pitch == w * n
           a == x * n
           b == u * n
           i == y * pitch
           j == v * pitch
<1>1. pitch \in Nat /\ a \in Nat /\ b \in Nat
  OBVIOUS
<1>2. (x + 1) * n <= pitch /\ (u + 1) * n <= pitch
  BY TimesMonotone
<1>3. a + n <= pitch /\ b + n <= pitch
  BY <1>2
<1>4. (x < u => a + n <= b) /\ (u < x => b + n <= a)
  <2>1. (x < u => (x + 1) * n <= u * n) /\ (u < x => (u + 1) * n <= x * n)
    BY TimesMonotone
  <2> QED
    BY <2>1
<1> HIDE DEF pitch, a, b
<1>5. i \in Nat /\ j \in Nat
  BY <1>1
<1>6. (y < v => i + pitch <= j) /\ (v < y => j + pitch <= i)
  <2>1. (y < v => (y + 1) * pitch <= v * pitch) /\ (v < y => (v + 1) * pitch <= y * pitch)
    BY <1>1, TimesMonotone
  <2> QED
    BY <1>1, <2>1
<1>7. y = v => i = j
  OBVIOUS
<1> HIDE DEF i, j
<1>8. i + a + n <= j + b \/ j + b + n <= i + a
  BY <1>1, <1>3, <1>4, <1>5, <1>6, <1>7
<1> QED
  BY <1>8 DEF i, j, a, b, pitch

\* What fb_get_pixel fetches of a picture that fits lies inside of it, but for the byte
\* behind the last pixel of 24 bits.
LEMMA FitsInside ==
    ASSUME IInv, allocated, Fits
    PROVE  Strays = (IF fb.bpp = 3 THEN Window \cap {Corner} ELSE {})
<1> DEFINE w == fb.width
           h == fb.height
           n == fb.bpp
           size == (w * n) * h
           o(p) == (p[2] * (w * n)) + (p[1] * n)
<1>1. w \in Nat /\ h \in Nat /\ n \in Nat /\ w * n * h < SizeMod
  BY DEF IInv, TypeOK, Fits
<1>2. fb.pitch = (w * n) % SizeMod /\ fb.size = (fb.pitch * h) % SizeMod
  BY DEF IInv, Packed
<1>3. ASSUME NEW p \in Window
      PROVE  /\ p[1] \in 0 .. w - 1 /\ p[2] \in 0 .. h - 1 /\ p = <<p[1], p[2]>>
             /\ o(p) \in Nat /\ size \in Nat /\ o(p) + n <= size /\ size < SizeMod
             /\ fb.pitch = w * n /\ fb.size = size
  <2>1. p[1] \in 0 .. w - 1 /\ p[2] \in 0 .. h - 1 /\ p = <<p[1], p[2]>>
    BY DEF Window, Coordinates
  <2>2. Packs(w, h, n, o(p))
    <3> HIDE DEF w, h, n
    <3> QED
      BY <1>1, <2>1, Layout, Zenon
  <2>3. /\ (w * n) % SizeMod = w * n /\ size % SizeMod = size
        /\ o(p) \in Nat /\ size \in Nat /\ o(p) + n <= size /\ size < SizeMod
    BY <2>2 DEF Packs
  <2> HIDE DEF o
  <2> QED
    BY <1>2, <2>1, <2>3
<1>4. ASSUME NEW p \in Window, NEW k \in Nat
      PROVE  PixelByte(p[1], p[2], k) = (o(p) + k) % SizeMod
  BY <1>3 DEF PixelByte
<1> HIDE DEF w, h, size, o
<1>5. ASSUME NEW p \in Window, NEW k \in Nat, o(p) + k < fb.size
      PROVE  ~ PixelByte(p[1], p[2], k) >= fb.size
  <2>1. /\ o(p) \in Nat /\ fb.size \in Nat /\ SizeMod \in Nat /\ fb.size < SizeMod
        /\ PixelByte(p[1], p[2], k) = (o(p) + k) % SizeMod
    BY <1>3, <1>4, ModAssumption
  <2> DEFINE c == o(p)
  <2>2. o(p) + k < SizeMod
    <3> HIDE DEF c
    <3>1. c + k < fb.size /\ c \in Nat
      BY <1>5, <2>1 DEF c
    <3>2. c + k < SizeMod
      BY <2>1, <3>1
    <3> QED
      BY <3>2 DEF c
  <2>3. PixelByte(p[1], p[2], k) = o(p) + k
    BY <2>1, <2>2, ByteIs
  <2> QED
    BY <1>5, <2>1, <2>3
<1>6. CASE n # 3
  <2>1. ASSUME NEW p \in Window, NEW k \in 0 .. Fetched - 1
        PROVE  ~ PixelByte(p[1], p[2], k) >= fb.size
    <3>1. k \in Nat /\ k < n
      BY <1>6 DEF Fetched, n
    <3>2. o(p) + n <= fb.size /\ o(p) \in Nat /\ fb.size \in Nat /\ n \in Nat
      BY <1>1, <1>3
    <3> HIDE DEF n
    <3>3. o(p) + k < fb.size
      BY <3>1, <3>2
    <3> QED
      BY <1>5, <3>1, <3>3
  <2> QED
    BY <1>6, <2>1 DEF Strays, n
<1>7. CASE n = 3
  <2>1. Fetched = 4
    BY <1>7 DEF Fetched, n
  <2>2. ASSUME NEW p \in Window, p = Corner
        PROVE  p \in Strays
    <3>1. /\ p[1] = w - 1 /\ p[2] = h - 1 /\ w - 1 \in Nat /\ h - 1 \in Nat
          /\ w \in Nat /\ h \in Nat
      BY <1>1, <1>3, <2>2 DEF Corner, w, h
    <3>2. o(p) + 3 = size
      <4> DEFINE pitch == w * n
      <4>1. pitch \in Nat /\ (w - 1) * n = pitch - 3
        BY <1>1, <1>7, <3>1
      <4>2. o(p) = ((h - 1) * pitch) + (pitch - 3) /\ size = pitch * h
        BY <3>1, <4>1 DEF o, size
      <4> HIDE DEF pitch
      <4>3. (h - 1) * pitch = (pitch * h) - pitch /\ pitch * h \in Nat
        BY <3>1, <4>1
      <4> QED
        BY <4>1, <4>2, <4>3
    <3>3. PixelByte(p[1], p[2], 3) = fb.size
      <4>1. PixelByte(p[1], p[2], 3) = size % SizeMod /\ size \in Nat /\ size < SizeMod
            /\ fb.size = size
        BY <1>3, <1>4, <3>2
      <4> QED
        BY <4>1, ModAssumption
    <3>4. fb.size \in Nat
      BY <1>3
    <3>5. PixelByte(p[1], p[2], 3) >= fb.size /\ 3 \in 0 .. Fetched - 1
      BY <2>1, <3>3, <3>4
    <3> QED
      BY <3>5 DEF Strays
  <2>3. ASSUME NEW p \in Window, p # Corner
        PROVE  p \notin Strays
    <3> DEFINE q == Corner
    <3>1. /\ p[1] \in 0 .. w - 1 /\ p[2] \in 0 .. h - 1
          /\ w \in Nat /\ h \in Nat /\ n \in Nat /\ p = <<p[1], p[2]>>
      BY <1>1, <1>3
    <3>2. q[1] = w - 1 /\ q[2] = h - 1 /\ q = <<w - 1, h - 1>>
      BY DEF Corner, w, h
    <3>3. w - 1 \in 0 .. w - 1 /\ h - 1 \in 0 .. h - 1
      BY <3>1
    <3>4. q \in Window
      BY <3>2, <3>3 DEF Window, Coordinates, w, h
    <3> HIDE DEF q, n
    <3>5. p[1] # q[1] \/ p[2] # q[2]
      BY <2>3, <3>1, <3>2 DEF q
    <3>6. /\ q[1] \in 0 .. w - 1 /\ q[2] \in Nat /\ p[2] \in Nat
      BY <3>1, <3>2, <3>3
    <3>7. o(p) + n <= o(q) \/ o(q) + n <= o(p)
      BY <3>1, <3>5, <3>6, PixelsApart DEF o
    <3>8. /\ o(p) \in Nat /\ o(q) \in Nat /\ fb.size \in Nat
          /\ o(p) + n <= fb.size /\ o(q) + n <= fb.size
      BY <1>3, <3>4
    <3>9. o(q) + n = fb.size
      <4> DEFINE pitch == w * n
      <4>1. pitch \in Nat /\ (w - 1) * n = pitch - n /\ n \in Nat
        BY <3>1
      <4>2. o(q) = ((h - 1) * pitch) + (pitch - n) /\ size = pitch * h /\ fb.size = size
        BY <1>3, <3>2, <3>4, <4>1 DEF o, size
      <4> HIDE DEF pitch
      <4>3. (h - 1) * pitch = (pitch * h) - pitch /\ pitch * h \in Nat
        BY <3>1, <4>1
      <4> QED
        BY <4>1, <4>2, <4>3
    <3>10. ASSUME NEW k \in 0 .. Fetched - 1
           PROVE  ~ PixelByte(p[1], p[2], k) >= fb.size
      <4>1. n = 3 /\ k \in 0 .. 3
        BY <1>7, <2>1
      <4>2. o(p) + k < fb.size
        BY <3>7, <3>8, <3>9, <4>1
      <4> QED
        BY <1>5, <4>1, <4>2
    <3> QED
      BY <3>10 DEF Strays
  <2> QED
    BY <1>7, <2>2, <2>3 DEF Strays, n
<1> QED
  BY <1>6, <1>7

\* Of a picture that does not fit, fb_get_pixel fetches the last byte a size can name,
\* and no buffer has that.
LEMMA WrapsOutside ==
    ASSUME IInv, allocated, ~ Fits, Fetched > 0
    PROVE  Strays # {}
<1> DEFINE w == fb.width
           h == fb.height
           n == fb.bpp
           last == SizeMod - 1
<1>1. /\ w \in Nat /\ h \in Nat /\ n \in 1 .. 4 /\ n <= Fetched /\ Fetched \in Nat
      /\ last \in Nat /\ w * n * h > last
  <2>1. w \in Nat /\ h \in Nat /\ n \in Nat
    BY DEF IInv, TypeOK
  <2>2. n \in 1 .. 4 /\ n <= Fetched /\ Fetched \in Nat
    BY <2>1 DEF Fetched
  <2>3. w * n \in Nat
    BY <2>1
  <2>4. w * n * h \in Nat /\ ~ (w * n * h < SizeMod)
    BY <2>1, <2>3 DEF Fits
  <2> HIDE DEF w, h, n
  <2> QED
    BY <2>1, <2>2, <2>4, ModAssumption
<1>2. fb.pitch = (w * n) % SizeMod /\ fb.size = (fb.pitch * h) % SizeMod
  BY DEF IInv, Packed
<1>3. fb.pitch \in Nat
  BY DEF IInv, TypeOK
<1>4. fb.size <= last
  <2>1. fb.pitch * h \in Nat
    BY <1>1, <1>3
  <2> QED
    BY <1>2, <2>1, ModAssumption
<1>5. fb.size \in Nat
  BY DEF IInv, TypeOK
<1>6. SUFFICES \E x \in 0 .. w - 1, y \in 0 .. h - 1, k \in 0 .. n - 1 :
                   (y * fb.pitch) + (x * n) + k = last
  <2> SUFFICES ASSUME NEW x \in 0 .. w - 1, NEW y \in 0 .. h - 1, NEW k \in 0 .. n - 1,
                      (y * fb.pitch) + (x * n) + k = last
               PROVE  Strays # {}
    BY <1>6
  <2>1. PixelByte(x, y, k) = last
    <3>1. PixelByte(x, y, k) = last % SizeMod
      BY DEF PixelByte
    <3> QED
      BY <1>1, <3>1, ModAssumption
  <2>2. k \in 0 .. Fetched - 1
    BY <1>1
  <2>3. <<x, y>> \in Window
    BY DEF Window, Coordinates
  <2>4. PixelByte(x, y, k) >= fb.size
    BY <1>1, <1>4, <1>5, <2>1
  <2>5. <<x, y>> \in Strays
    BY <2>2, <2>3, <2>4 DEF Strays
  <2> QED
    BY <2>5
<1> HIDE DEF w, h, n, last
<1>7. \A r \in Nat : r < w * n => r \div n \in 0 .. w - 1 /\ r % n \in 0 .. n - 1
                               /\ ((r \div n) * n) + (r % n) = r
  <2> SUFFICES ASSUME NEW r \in Nat, r < w * n
               PROVE  r \div n \in 0 .. w - 1 /\ r % n \in 0 .. n - 1
                      /\ ((r \div n) * n) + (r % n) = r
    OBVIOUS
  <2> DEFINE x == r \div n
             k == r % n
  <2>1. n \in Nat \ {0}
    BY <1>1
  <2>2. x \in Nat /\ k \in 0 .. n - 1 /\ r = k + (n * x)
    BY <2>1, NatSplit
  <2> HIDE DEF x, k
  <2>3. x < w
    <3>1. ASSUME w <= x
          PROVE  FALSE
      <4>1. w * n <= x * n
        BY <1>1, <2>1, <2>2, <3>1, TimesMonotone
      <4>2. x * n = n * x /\ n * x \in Nat
        BY <2>1, <2>2
      <4>3. w * n \in Nat
        BY <1>1, <2>1
      <4> QED
        BY <2>2, <4>1, <4>2, <4>3
    <3> QED
      BY <1>1, <2>2, <3>1
  <2>4. (x * n) + k = r
    <3>1. x * n = n * x /\ n * x \in Nat
      BY <2>1, <2>2
    <3> QED
      BY <2>2, <3>1
  <2> QED
    BY <1>1, <2>2, <2>3, <2>4 DEF x, k
<1>8. CASE last < w * n
  <2>1. /\ last \div n \in 0 .. w - 1 /\ last % n \in 0 .. n - 1
        /\ ((last \div n) * n) + (last % n) = last
    BY <1>1, <1>7, <1>8
  <2>2. 0 \in 0 .. h - 1
    <3>1. h # 0
      <4>1. ASSUME h = 0
            PROVE  FALSE
        <5>1. w * n \in Nat
          BY <1>1
        <5>2. w * n * h = 0
          BY <4>1, <5>1
        <5> QED
          BY <1>1, <5>2
      <4> QED
        BY <4>1
    <3> QED
      BY <1>1, <3>1
  <2> DEFINE x == last \div n
             k == last % n
  <2> HIDE DEF x, k
  <2>3. (0 * fb.pitch) + (x * n) + k = last
    <3>1. 0 * fb.pitch = 0
      BY <1>3
    <3>2. x * n \in Nat /\ k \in Nat
      BY <1>1, <2>1 DEF x, k
    <3>3. (x * n) + k = last
      BY <2>1 DEF x, k
    <3> QED
      BY <3>1, <3>2, <3>3
  <2>4. x \in 0 .. w - 1 /\ k \in 0 .. n - 1
    BY <2>1 DEF x, k
  <2> QED
    BY <2>2, <2>3, <2>4
<1>9. CASE last >= w * n
  <2> DEFINE pitch == w * n
  <2>1. pitch \in Nat
    BY <1>1
  <2>2. fb.pitch = pitch
    <3>1. pitch < SizeMod
      BY <1>1, <1>9, <2>1, ModAssumption DEF last
    <3>2. fb.pitch = pitch % SizeMod
      BY <1>2
    <3> HIDE DEF pitch
    <3> QED
      BY <2>1, <3>1, <3>2, ModAssumption
  <2>3. pitch * h > last
    BY <1>1
  <2> HIDE DEF pitch
  <2>4. pitch # 0
    <3>1. ASSUME pitch = 0
          PROVE  FALSE
      BY <1>1, <2>3, <3>1
    <3> QED
      BY <3>1
  <2> DEFINE y == last \div pitch
             r == last % pitch
  <2>5. y \in Nat /\ r \in 0 .. pitch - 1 /\ last = r + (pitch * y)
    BY <1>1, <2>1, <2>4, NatSplit
  <2> HIDE DEF y, r
  <2>6. y < h
    <3>1. ASSUME h <= y
          PROVE  FALSE
      <4>1. h * pitch <= y * pitch
        BY <1>1, <2>1, <2>5, <3>1, TimesMonotone
      <4>2. h * pitch = pitch * h /\ y * pitch = pitch * y /\ pitch * y \in Nat
            /\ pitch * h \in Nat
        BY <1>1, <2>1, <2>5
      <4> QED
        BY <1>1, <2>3, <2>5, <4>1, <4>2
    <3> QED
      BY <1>1, <2>5, <3>1
  <2> DEFINE x == r \div n
             k == r % n
  <2>7. x \in 0 .. w - 1 /\ k \in 0 .. n - 1 /\ (x * n) + k = r
    BY <1>7, <2>1, <2>5 DEF pitch
  <2> HIDE DEF x, k
  <2>8. (y * fb.pitch) + (x * n) + k = last
    <3>1. y * fb.pitch = pitch * y /\ pitch * y \in Nat
      BY <2>1, <2>2, <2>5
    <3>2. x * n \in Nat /\ k \in Nat /\ r \in Nat
      BY <1>1, <2>1, <2>5, <2>7
    <3> QED
      BY <2>5, <2>7, <3>1, <3>2
  <2>9. y \in 0 .. h - 1
    BY <1>1, <2>5, <2>6
  <2> QED
    BY <2>7, <2>8, <2>9
<1>10. w * n \in Nat
  BY <1>1
<1> QED
  BY <1>1, <1>8, <1>9, <1>10

\* Together they say which pixels are taken from inside.
LEMMA PackedInBuffer == IInv => PixelsInBuffer
BY FitsInside, WrapsOutside DEF PixelsInBuffer

-----------------------------------------------------------------------------
(* The picture *)

\* The bytes of a colour that are stored make up the colour that is shown.
LEMMA ColourShown ==
    ASSUME NEW c \in Nat, NEW n \in {2, 4}
    PROVE  LET b == BytesOf(c, n)
           IN  c % Power(n) = IF n = 2 THEN b[0] + (Base * b[1])
                              ELSE b[0] + (Base * b[1]) + (Base * Base * b[2])
<1> DEFINE q == c \div Base
           r == q \div Base
<1>1. q \in Nat /\ r \in Nat /\ r = c \div (Base * Base) /\ c \div 1 = c
  <2>1. q \in Nat /\ c \div 1 = c
    BY BaseAssumption
  <2>2. r = c \div (Base * Base)
    BY BaseAssumption, Twice
  <2> HIDE DEF q
  <2> QED
    BY <2>1, <2>2, BaseAssumption
<1>2. c % (Base * Base) = (c % Base) + (Base * (q % Base))
  BY BaseAssumption, Digits
<1>3. q % (Base * Base) = (q % Base) + (Base * (r % Base))
  <2> HIDE DEF q
  <2> QED
    BY <1>1, BaseAssumption, Digits DEF q
<1>4. c % (Base * (Base * Base)) = (c % Base) + (Base * (q % (Base * Base)))
  <2>1. Base * Base \in Nat \ {0}
    BY BaseAssumption
  <2> DEFINE C == Base * Base
  <2> HIDE DEF C
  <2>2. (c % Base) + (Base * ((c \div Base) % C)) = c % (Base * C)
    BY <2>1, BaseAssumption, Digits DEF C
  <2> QED
    BY <2>2 DEF C
<1>5. /\ BytesOf(c, n)[0] = c % Base /\ BytesOf(c, n)[1] = q % Base
      /\ n = 4 => BytesOf(c, n)[2] = r % Base
  <2>1. /\ BytesOf(c, n)[0] = (c \div Power(0)) % Base
        /\ BytesOf(c, n)[1] = (c \div Power(1)) % Base
        /\ n = 4 => BytesOf(c, n)[2] = (c \div Power(2)) % Base
    BY DEF BytesOf
  <2>2. Power(0) = 1 /\ Power(1) = Base /\ Power(2) = Base * Base
    BY DEF Power
  <2> QED
    BY <1>1, <2>1, <2>2
<1>6. Power(2) = Base * Base /\ Power(4) = Base * Base * Base
  BY DEF Power
<1>7. c % Base \in Int /\ q % Base \in Int /\ r % Base \in Int
  BY <1>1, BaseAssumption, Split
<1> HIDE DEF q, r
<1>8. CASE n = 2
  BY <1>2, <1>5, <1>6, <1>8
<1>9. CASE n = 4
  <2>1. Base * Base * Base = Base * (Base * Base)
    BY BaseAssumption
  <2>2. Base * ((q % Base) + (Base * (r % Base))) = (Base * (q % Base)) + (Base * Base * (r % Base))
    BY <1>7, BaseAssumption
  <2>3. c % Power(4) = (c % Base) + ((Base * (q % Base)) + (Base * Base * (r % Base)))
    BY <1>3, <1>4, <1>6, <2>1, <2>2
  <2> DEFINE s == Base * (q % Base)
             t == Base * Base * (r % Base)
  <2>4. s \in Int /\ t \in Int
    BY <1>7, BaseAssumption
  <2>5. (c % Base) + (s + t) = (c % Base) + s + t
    <3> HIDE DEF s, t
    <3> QED
      BY <1>7, <2>4
  <2> QED
    BY <1>5, <1>9, <2>3, <2>5
<1> QED
  BY <1>8, <1>9
\* A new framebuffer shows what was drawn in it: nothing.
LEMMA InstallPicture ==
    ASSUME NEW w \in Nat, NEW h \in Nat, NEW depth \in Nat, Install(w, h, depth)
    PROVE  /\ allocated' /\ fb'.address = MemSize
           /\ drawn' \in [Coordinates(fb'.width, fb'.height) -> Nat]
           /\ PictureExact'
<1> DEFINE n == depth \div 8
           pitch == (w * n) % SizeMod
           size == (pitch * h) % SizeMod
<1>1. /\ fb' = Sized(w, h, depth) /\ allocated' = TRUE
      /\ buffer' = [i \in 0 .. fb'.size - 1 |-> 0]
      /\ drawn' = [p \in Coordinates(w, h) |-> 0]
  BY DEF Install
<1>2. /\ fb'.address = MemSize /\ fb'.width = w /\ fb'.height = h /\ fb'.bpp = n
      /\ fb'.pitch = pitch /\ fb'.size = size
  <2>1. Sized(w, h, depth) = [bpp |-> n, pitch |-> pitch, size |-> size,
                              address |-> MemSize, width |-> w, height |-> h]
    BY DEF Sized
  <2> HIDE DEF n, pitch, size
  <2> QED
    BY <1>1, <2>1
<1>3. n \in Nat
  OBVIOUS
<1>4. drawn' \in [Coordinates(fb'.width, fb'.height) -> Nat]
  BY <1>1, <1>2
<1> HIDE DEF n
<1>5. ASSUME Fits', n \in {2, 4}, NEW p \in Coordinates(w, h)
      PROVE  Pixel(p[1], p[2])' = drawn'[p] % Power(n)
  <2> DEFINE o == (p[2] * (w * n)) + (p[1] * n)
  <2>1. p[1] \in 0 .. w - 1 /\ p[2] \in 0 .. h - 1 /\ w * n * h < SizeMod
    BY <1>2, <1>5 DEF Coordinates, Fits
  <2>2. /\ pitch = w * n /\ size = (w * n) * h /\ o \in Nat /\ size \in Nat
        /\ o + n <= size /\ size < SizeMod
    <3>1. /\ (w * n) % SizeMod = w * n /\ ((w * n) * h) % SizeMod = (w * n) * h
          /\ o \in Nat /\ (w * n) * h \in Nat /\ o + n <= (w * n) * h
          /\ (w * n) * h < SizeMod
      <4> HIDE DEF pitch, size
      <4>1. w \in Nat /\ h \in Nat
        OBVIOUS
      <4>2. Packs(w, h, n, o)
        BY <1>3, <2>1, <4>1, Layout, Zenon
      <4> QED
        BY <4>2 DEF Packs
    <3> HIDE DEF o
    <3>2. pitch = w * n
      BY <3>1
    <3>3. size = (w * n) * h
      <4> HIDE DEF pitch
      <4> QED
        BY <3>1, <3>2
    <3> HIDE DEF pitch, size
    <3> QED
      BY <3>1, <3>2, <3>3
  <2>3. \A k \in 0 .. n - 1 : PixelByte(p[1], p[2], k)' = o + k
    <3>1. \A k \in 0 .. n - 1 : PixelByte(p[1], p[2], k)' = (o + k) % SizeMod
      BY <1>2, <2>2 DEF PixelByte
    <3> HIDE DEF o, pitch, size
    <3>2. \A k \in 0 .. n - 1 : o + k < SizeMod
      BY <1>3, <2>2, ModAssumption
    <3> QED
      BY <1>3, <2>2, <3>1, <3>2, ByteIs
  <2> HIDE DEF o, pitch, size
  <2>4. \A k \in 0 .. n - 1 : buffer'[o + k] = 0
    BY <1>1, <1>2, <1>3, <2>2
  <2>5. Pixel(p[1], p[2])' = 0
    <3>1. buffer'[o] = 0 /\ buffer'[o + 1] = 0
      BY <1>5, <2>2, <2>4
    <3>2. n = 4 => buffer'[o + 2] = 0
      BY <2>4
    <3>3. /\ PixelByte(p[1], p[2], 0)' = o /\ PixelByte(p[1], p[2], 1)' = o + 1
          /\ n = 4 => PixelByte(p[1], p[2], 2)' = o + 2
      <4>1. PixelByte(p[1], p[2], 0)' = o + 0 /\ o + 0 = o
        BY <1>5, <2>2, <2>3
      <4> QED
        BY <1>5, <2>3, <4>1
    <3> QED
      BY <1>2, <1>5, <3>1, <3>2, <3>3, BaseAssumption DEF Pixel
  <2>6. drawn'[p] = 0 /\ Power(n) \in Nat \ {0}
    BY <1>1, <1>5, BaseAssumption DEF Power
  <2> QED
    BY <2>5, <2>6
<1> QED
  BY <1>1, <1>2, <1>4, <1>5 DEF PictureExact

\* A pixel the guest draws shows its colour, and no other pixel changes.
LEMMA DrawPicture ==
    ASSUME IInv, Drawing, PictureExact, NEW p \in DOMAIN drawn, NEW c \in Colours,
           Draw(p[1], p[2], c)
    PROVE  Drawing' /\ PictureExact'
<1> DEFINE w == fb.width
           h == fb.height
           n == fb.bpp
           o(q) == (q[2] * (w * n)) + (q[1] * n)
           bytes == BytesOf(c, n)
<1>1. /\ UNCHANGED <<graphics, fb, allocated, answer, answered>>
      /\ answered /\ drawn' = [drawn EXCEPT ![<<p[1], p[2]>>] = c]
  BY DEF Draw
<1>2. /\ graphics /\ allocated /\ answer.addr = MemSize /\ fb.address = MemSize
      /\ drawn \in [Coordinates(w, h) -> Nat] /\ c \in Nat
  BY <1>1, RequestAssumption DEF Drawing
<1>3. p \in Coordinates(w, h) /\ p = <<p[1], p[2]>>
  BY <1>2 DEF Coordinates
<1>4. Drawing'
  BY <1>1, <1>2, <1>3 DEF Drawing
<1>5. ASSUME Fits, n \in {2, 4}, answer.pitch = fb.pitch, MemSize + fb.size <= AddressMod,
             NEW q \in Coordinates(w, h)
      PROVE  Pixel(q[1], q[2])' = drawn'[q] % Power(n)
  <2>1. w \in Nat /\ h \in Nat /\ n \in Nat /\ w * n * h < SizeMod
    BY <1>5 DEF IInv, TypeOK, Fits
  <2>2. /\ fb.pitch = (w * n) % SizeMod /\ fb.size = (fb.pitch * h) % SizeMod
        /\ buffer \in [0 .. fb.size - 1 -> Byte]
    BY <1>2 DEF IInv, TypeOK, Packed
  <2>3. /\ p[1] \in 0 .. w - 1 /\ p[2] \in 0 .. h - 1
        /\ q[1] \in 0 .. w - 1 /\ q[2] \in 0 .. h - 1 /\ q = <<q[1], q[2]>>
    BY <1>3, <1>5 DEF Coordinates
  <2> DEFINE size == (w * n) * h
  <2>4. /\ o(p) \in Nat /\ o(p) + n <= size /\ o(q) \in Nat /\ o(q) + n <= size
        /\ size \in Nat /\ fb.pitch = w * n /\ fb.size = size /\ size < SizeMod
    <3>1. /\ (w * n) % SizeMod = w * n /\ ((w * n) * h) % SizeMod = (w * n) * h
          /\ o(p) \in Nat /\ (w * n) * h \in Nat /\ o(p) + n <= (w * n) * h
          /\ (w * n) * h < SizeMod
      <4> HIDE DEF w, h, n, size, bytes
      <4>1. p[1] \in 0 .. w - 1 /\ p[2] \in 0 .. h - 1
        BY <2>3
      <4>2. Packs(w, h, n, o(p))
        BY <2>1, <4>1, Layout, Zenon
      <4> QED
        BY <4>2 DEF Packs
    <3>2. o(q) \in Nat /\ o(q) + n <= (w * n) * h
      <4> HIDE DEF w, h, n, size, bytes
      <4>1. q[1] \in 0 .. w - 1 /\ q[2] \in 0 .. h - 1
        BY <2>3
      <4>2. Packs(w, h, n, o(q))
        BY <2>1, <4>1, Layout, Zenon
      <4> QED
        BY <4>2 DEF Packs
    <3> HIDE DEF o
    <3> QED
      BY <2>2, <3>1, <3>2, Zenon
  <2>5. /\ \A k \in 0 .. n - 1 : PixelByte(q[1], q[2], k) = o(q) + k
        /\ \A k \in 0 .. n - 1 : PixelByte(q[1], q[2], k)' = o(q) + k
    <3>1. \A k \in 0 .. n - 1 : /\ PixelByte(q[1], q[2], k) = (o(q) + k) % SizeMod
                               /\ PixelByte(q[1], q[2], k)' = (o(q) + k) % SizeMod
      BY <1>1, <2>4 DEF PixelByte
    <3> DEFINE j == o(q)
    <3>2. j \in Nat /\ j + n <= size /\ size < SizeMod /\ size \in Nat
      BY <2>4
    <3> HIDE DEF j, size, n
    <3>3. \A k \in 0 .. n - 1 : (j + k) % SizeMod = j + k
      BY <2>1, <3>2, ByteIs, ModAssumption
    <3> QED
      BY <3>1, <3>3 DEF j
  <2>6. (answer.addr + (p[2] * answer.pitch) + (p[1] * n)) % AddressMod = MemSize + o(p)
    <3> DEFINE a == p[2] * (w * n)
               b == p[1] * n
    <3>1. a \in Nat /\ b \in Nat
      BY <2>1, <2>3
    <3>2. answer.addr + (p[2] * answer.pitch) + (p[1] * n) = MemSize + a + b
      BY <1>2, <1>5, <2>4
    <3> HIDE DEF a, b
    <3>3. MemSize + a + b = MemSize + (a + b)
      BY <3>1, BaseAssumption
    <3>4. answer.addr + (p[2] * answer.pitch) + (p[1] * n) = MemSize + o(p)
      BY <3>2, <3>3 DEF a, b
    <3>5. MemSize + o(p) \in Nat /\ MemSize + o(p) < AddressMod
      <4> DEFINE d == o(p)
      <4>1. d \in Nat /\ d + n <= fb.size /\ fb.size \in Nat
        BY <2>4
      <4> HIDE DEF d
      <4> QED
        BY <1>5, <4>1, BaseAssumption, ModAssumption DEF d
    <3> DEFINE address == MemSize + o(p)
    <3>6. address % AddressMod = address
      <4>1. address \in Nat /\ address < AddressMod
        BY <3>5
      <4> HIDE DEF address
      <4> QED
        BY <4>1, ModAssumption
    <3> QED
      BY <3>4, <3>6
  <2> HIDE DEF size, o
  <2>7. buffer' = [i \in DOMAIN buffer |->
                     IF i - o(p) \in 0 .. n - 1 THEN bytes[i - o(p)] ELSE buffer[i]]
    <3>1. IsBuffer(MemSize + o(p))
      BY <1>2, <1>5, <2>4, BaseAssumption DEF IsBuffer
    <3>2. (MemSize + o(p)) - fb.address = o(p)
      BY <1>2, <2>4, BaseAssumption
    <3> HIDE DEF bytes
    <3> QED
      BY <1>5, <2>6, <3>1, <3>2 DEF Draw, bytes
  <2>8. \A k \in 0 .. n - 1 : o(q) + k \in DOMAIN buffer
    <3> DEFINE j == o(q)
    <3>1. DOMAIN buffer = 0 .. size - 1 /\ j \in Nat /\ j + n <= size /\ size \in Nat
      BY <2>2, <2>4
    <3>2. n \in Nat
      BY <2>1
    <3> HIDE DEF j, n
    <3>3. \A k \in 0 .. n - 1 : j + k \in 0 .. size - 1
      BY <3>1, <3>2
    <3> QED
      BY <3>1, <3>3 DEF j, n
  <2> HIDE DEF bytes
  <2>11. /\ PixelByte(q[1], q[2], 0) = o(q) /\ PixelByte(q[1], q[2], 0)' = o(q)
         /\ PixelByte(q[1], q[2], 1) = o(q) + 1 /\ PixelByte(q[1], q[2], 1)' = o(q) + 1
         /\ n = 4 => /\ PixelByte(q[1], q[2], 2) = o(q) + 2
                     /\ PixelByte(q[1], q[2], 2)' = o(q) + 2
    <3>1. o(q) + 0 = o(q)
      BY <2>4
    <3> QED
      BY <1>5, <2>5, <3>1
  <2>9. CASE q = p
    <3>1. \A k \in 0 .. n - 1 : buffer'[o(q) + k] = bytes[k]
      <4> TAKE k \in 0 .. n - 1
      <4>1. (o(q) + k) - o(p) = k
        BY <2>4, <2>9
      <4> QED
        BY <2>7, <2>8, <4>1
    <3>2. buffer'[o(q)] = bytes[0] /\ buffer'[o(q) + 1] = bytes[1]
          /\ (n = 4 => buffer'[o(q) + 2] = bytes[2])
      <4>1. buffer'[o(q) + 0] = bytes[0] /\ o(q) + 0 = o(q)
        BY <1>5, <2>4, <3>1
      <4> QED
        BY <1>5, <3>1, <4>1
    <3>3. drawn'[q] = c
      BY <1>1, <1>2, <1>3, <2>9
    <3>4. Pixel(q[1], q[2])' = IF n = 2 THEN bytes[0] + (Base * bytes[1])
                               ELSE bytes[0] + (Base * bytes[1]) + (Base * Base * bytes[2])
      BY <1>1, <1>5, <2>11, <3>2 DEF Pixel
    <3> QED
      BY <1>2, <1>5, <3>3, <3>4, ColourShown DEF bytes
  <2>10. CASE q # p
    <3>1. o(p) + n <= o(q) \/ o(q) + n <= o(p)
      <4>1. p[1] # q[1] \/ p[2] # q[2]
        BY <1>3, <2>3, <2>10
      <4> QED
        BY <2>1, <2>3, <4>1, PixelsApart DEF o
    <3>2. \A k \in 0 .. n - 1 : buffer'[o(q) + k] = buffer[o(q) + k]
      <4> TAKE k \in 0 .. n - 1
      <4>1. (o(q) + k) - o(p) \notin 0 .. n - 1
        BY <2>1, <2>4, <3>1
      <4> QED
        BY <2>7, <2>8, <4>1
    <3>3. buffer'[o(q)] = buffer[o(q)] /\ buffer'[o(q) + 1] = buffer[o(q) + 1]
          /\ (n = 4 => buffer'[o(q) + 2] = buffer[o(q) + 2])
      <4>1. buffer'[o(q) + 0] = buffer[o(q) + 0] /\ o(q) + 0 = o(q)
        BY <1>5, <2>4, <3>2
      <4> QED
        BY <1>5, <3>2, <4>1
    <3>4. drawn'[q] = drawn[q]
      BY <1>1, <1>2, <1>3, <1>5, <2>10
    <3>5. Pixel(q[1], q[2])' = Pixel(q[1], q[2])
      BY <1>1, <1>5, <2>11, <3>3 DEF Pixel
    <3>6. Pixel(q[1], q[2]) = drawn[q] % Power(n)
      BY <1>1, <1>2, <1>5 DEF PictureExact
    <3> QED
      BY <3>4, <3>5, <3>6
  <2> QED
    BY <2>9, <2>10
<1>6. DOMAIN drawn' = Coordinates(w, h)
  BY <1>1, <1>2
<1> QED
  BY <1>1, <1>2, <1>4, <1>5, <1>6 DEF PictureExact, Fits

\* Every other step of the guest leaves the picture alone, or starts a new one.
LEMMA PictureKept == IInv /\ Drawing /\ PictureExact /\ [Next]_vars => Drawing' /\ PictureExact'
<1> SUFFICES ASSUME IInv, Drawing, PictureExact, [Next]_vars
             PROVE  Drawing' /\ PictureExact'
  OBVIOUS
<1>1. ASSUME UNCHANGED <<graphics, screen>>
      PROVE  Drawing' /\ PictureExact'
  BY <1>1 DEF screen, Drawing, PictureExact, Fits, Pixel, PixelByte
<1>2. ASSUME NEW w \in Widths, NEW h \in Heights, NEW d \in Depths, Request(w, h, d)
      PROVE  Drawing' /\ PictureExact'
  <2>1. w \in Nat /\ h \in Nat /\ d \in Nat
    BY RequestAssumption
  <2>2. Install(w, h, d) /\ graphics' /\ answer' = Answer(w, d)
    BY <1>2 DEF Request
  <2>3. answer'.addr = MemSize
    BY <2>2 DEF Answer
  <2> QED
    BY <2>1, <2>2, <2>3, InstallPicture DEF Drawing
<1>3. CASE \E a \in Across, w \in Widths, h \in Heights, d \in Depths :
              RequestAcross(a, w, h, d)
  BY <1>3 DEF RequestAcross, Drawing, PictureExact
<1>4. CASE \E p \in DOMAIN drawn, c \in Colours : Draw(p[1], p[2], c)
  BY <1>4, DrawPicture
<1>5. CASE UNCHANGED vars
  BY <1>1, <1>5 DEF vars
<1> QED
  BY <1>1, <1>2, <1>3, <1>4, <1>5 DEF Next, Refuse, OtherMail, MailRead
-----------------------------------------------------------------------------
(* The theorems *)

\* Every state fb_request, the mailbox and the guest's stores (framebuffer.c:285,
\* mbox.c:75, memory.c:243) reach is typed; the buffer always has fb_size bytes.
THEOREM TypeCorrect == Spec => []TypeOK
<1>1. IInv => TypeOK
  BY DEF IInv
<1> QED
  BY InitInvariant, NextInvariant, <1>1, PTL DEF Spec

\* For every size and depth the guest asks for, those whose product wraps included,
\* and after refused requests too: which pixels fb_tick (framebuffer.c:260) reads from
\* outside the buffer.  None if the size fits and has not 24 bits, the last one by a
\* byte if it has (framebuffer.c:174), and always some if it wraps.
THEOREM WindowInBuffer == Spec => []PixelsInBuffer
BY InitInvariant, NextInvariant, PackedInBuffer, PTL DEF Spec

\* A read of the framebuffer channel fails exactly when the last request to it was
\* refused (mbox.c:47), whatever mail went elsewhere.
THEOREM RefusalReported == Spec => FailureReported
<1>1. IInv /\ [Next]_vars => [MailRead => (got'.failed <=> last_channel = 1 /\ refused)]_vars
  <2> SUFFICES ASSUME IInv, MailRead
               PROVE  got'.failed <=> last_channel = 1 /\ refused
    OBVIOUS
  <2>1. got'.failed = (last_channel = 1 /\ error)
    BY DEF MailRead
  <2>2. error = refused
    BY DEF IInv, ErrorIsRefusal
  <2> QED
    BY <2>1, <2>2
<1> QED
  BY InitInvariant, NextInvariant, <1>1, PTL DEF Spec, FailureReported

\* Whatever was asked for and drawn before, every pixel of an unpadded framebuffer of
\* 16 or 32 bits is the last one the guest drew in its place (memory.c:243,
\* framebuffer.c:119), and no other pixel's bytes.
THEOREM PictureShown == Spec => []PictureExact
<1>1. Init => Drawing /\ PictureExact
  BY DEF Init, Drawing, PictureExact
<1> QED
  BY <1>1, InitInvariant, NextInvariant, PictureKept, PTL DEF Spec
=============================================================================
