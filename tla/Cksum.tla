------------------------------- MODULE Cksum --------------------------------
(***************************************************************************)
(* The checksum both sides compute of a file, and whose equality decides   *)
(* the verdict on an upload: memcrc of cksum.cpp step by step, memcrc of   *)
(* cksum.py as one value, each with its own table and operators, and the   *)
(* division of polynomials that both stand for (POSIX cksum), bit by bit   *)
(* and without a table.                                                    *)
(*                                                                         *)
(* A word is the set of its bits that are 1, 0 being the lowest.           *)
(***************************************************************************)
EXTENDS Naturals, Sequences, FiniteSetsExt, CrcTable

CONSTANT Contents  \* the contents of files

Byte == 0..255
Word == SUBSET (0..31)

ASSUME CksumConstantsOK == Contents \subseteq Seq(Byte)

VARIABLES
    b,  \* the buffer
    i,  \* bytes of it the first loop is done with
    n,  \* what is left of the size, in the second loop
    s,  \* the register
    pc  \* "data", "size" or "return"

vars == <<b, i, n, s, pc>>
-----------------------------------------------------------------------------
(* Words. *)

Bits(number, width) == {k \in 0..(width - 1) : (number \div 2^k) % 2 = 1}
Number(bits) == MapThenSumSet(LAMBDA k : 2^k, bits)

\* tab[index]: a sequence has its first entry at 1
Entry(tab, index) ==
    LET halves == tab[Number(index) + 1] IN
    {k + 16 : k \in Bits(halves[1], 16)} \cup Bits(halves[2], 16)
-----------------------------------------------------------------------------
(* The client. *)

\* s << 8 and the mask of 32 bits; s >> 24
MutShiftLeft8(w) == {k + 8 : k \in w}                  \* mutant: no mask
ShiftLeft8(w) == {k + 8 : k \in {j \in w : j < 24}}
ShiftRight24(w) == {k - 24 : k \in {j \in w : j >= 24}}

MutComplement(w) == w                                  \* mutant: s for ~s
Complement(w) == (0..31) \ w

MutIndex(w, c) == Bits(c, 8)                           \* mutant: without s
Index(w, c) == SymDiff(ShiftRight24(w), Bits(c, 8))

Update(w, c) == SymDiff(ShiftLeft8(w), Entry(crctab, Index(w, c)))

TypeOK ==
    /\ b \in Contents
    /\ i \in 0..Len(b)
    /\ n \in 0..Len(b)
    /\ s \in Word
    /\ pc \in {"data", "size", "return"}

Init ==
    /\ b \in Contents
    /\ i = 0 /\ n = Len(b) /\ s = {} /\ pc = "data"

DataByte ==
    /\ pc = "data" /\ i < Len(b)
    /\ s' = Update(s, b[i + 1])
    /\ i' = i + 1
    /\ UNCHANGED <<b, n, pc>>

EndOfData ==
    /\ pc = "data" /\ i = Len(b)
    /\ pc' = "size"
    /\ UNCHANGED <<b, i, n, s>>

\* The bytes of the size, n & 0377, the lowest first.
MutLowByte(left) == left % 128                         \* mutant: n & 0177
LowByte(left) == left % 256

SizeByte ==
    /\ pc = "size" /\ n # 0
    /\ s' = Update(s, LowByte(n))
    /\ n' = n \div 256
    /\ UNCHANGED <<b, i, pc>>

EndOfSize ==
    /\ pc = "size" /\ n = 0
    /\ s' = Complement(s)
    /\ pc' = "return"
    /\ UNCHANGED <<b, i, n>>

Over == pc = "return" /\ UNCHANGED vars

Next == DataByte \/ EndOfData \/ SizeByte \/ EndOfSize \/ Over

Spec == Init /\ [][Next]_vars
-----------------------------------------------------------------------------
(* The server, in integers without a width. *)

\* n & 0xffffffff
UNSIGNED(w) == w \cap (0..31)

\* mutant: seven bits of the byte
MutTabIdx(w, c) == SymDiff({k - 24 : k \in w \ (0..23)}, Bits(c, 7))
TabIdx(w, c) == SymDiff({k - 24 : k \in w \ (0..23)}, Bits(c, 8))

ServerUpdate(w, c) ==
    SymDiff(UNSIGNED({k + 8 : k \in w}), Entry(ServerCrctab, TabIdx(w, c)))

\* The register after the first k bytes of bytes, from w.  Taken in halves, the
\* recursion stays shallow.
Fold(op(_, _), w, bytes, k) ==
    LET f[x \in Word \X (1..Len(bytes)) \X (1..Len(bytes))] ==
            LET lo == x[2]  hi == x[3]  mid == (lo + hi) \div 2 IN
            IF lo < hi THEN f[<<f[<<x[1], lo, mid>>], mid + 1, hi>>]
                       ELSE op(x[1], bytes[lo])
    IN IF k = 0 THEN w ELSE f[<<w, 1, k>>]

\* while n: c = n & 0o377
SizeBytes[left \in Nat] ==
    IF left # 0 THEN <<left % 256>> \o SizeBytes[left \div 256] ELSE <<>>

\* UNSIGNED(~s): the bits below 32 that s has not
memcrc(bytes) ==
    LET size == SizeBytes[Len(bytes)]
        data == Fold(ServerUpdate, {}, bytes, Len(bytes))
    IN  (0..31) \ Fold(ServerUpdate, data, size, Len(size))
-----------------------------------------------------------------------------
(* The division. *)

\* x^26 + x^23 + ... + x + 1, below x^32
Generator == {26, 23, 22, 16, 12, 11, 10, 8, 7, 5, 4, 2, 1, 0}

Shift(w, bit) ==
    LET up == {k + 1 : k \in w \ {31}} IN
    IF (31 \in w) # bit THEN SymDiff(up, Generator) ELSE up

\* The bits of a byte enter at the top, the highest first.
ShiftIn(w, bits) ==
    LET f[k \in 0..8] == IF k = 0 THEN w ELSE Shift(f[k - 1], 8 - k \in bits)
    IN f[8]

Divide(w, c) == ShiftIn(w, Bits(c, 8))

Remainder(bytes, k) == Fold(Divide, {}, bytes, k)

\* The bytes of a size, the lowest first, without the zeros above the highest.
BytesOf[size \in Nat] ==
    IF size = 0 THEN <<>> ELSE <<size % 256>> \o BytesOf[size \div 256]

Posix(bytes) ==
    LET all == bytes \o BytesOf[Len(bytes)] IN
    (0..31) \ Remainder(all, Len(all))

\* The bits of a byte are its number, so that tab[index] is its entry.
ASSUME BitsAreTheByte == \A c \in Byte : Number(Bits(c, 8)) = c

\* The 256 words of the table are what the division leaves of the 256 bytes.
ASSUME TableIsRemainders ==
    \A index \in SUBSET (0..7) : Entry(crctab, index) = ShiftIn({}, index)
-----------------------------------------------------------------------------
(* Properties. *)

\* At every byte of the data the register of memcrc is the remainder of the
\* division so far (crctab and the first loop).
RegisterIsRemainder == pc = "data" => s = Remainder(b, i)

\* What memcrc of cksum.cpp returns is the checksum of POSIX, the bytes of the
\* size included.
ClientIsPosix == pc = "return" => s = Posix(b)

\* Client and server give one content one checksum: an intact upload is never
\* refused (crctab, the shifts and the loops of cksum.cpp against those of
\* cksum.py).
SumsAgree == pc = "return" => s = memcrc(b)

Sums == [c \in Contents |-> memcrc(c)]

\* As long as bytes, and different from it in at most four neighbouring bytes.
Damaged(bytes, c) ==
    /\ c # bytes /\ Len(c) = Len(bytes)
    /\ \E k \in 1..Len(bytes) :
           \A j \in 1..Len(bytes) : c[j] # bytes[j] => j \in k..(k + 3)

\* What is stored with one place of up to four bytes wrong is never taken for
\* the file: the server's checksum of it is not the one the client computed
\* (memcrc of cksum.cpp and of cksum.py, compared in handle_send_file).
DamageIsNoticed ==
    pc = "return" => \A c \in Contents : Damaged(b, c) => s # Sums[c]

Remainders == [c \in Contents |-> Remainder(c, Len(c))]

\* As many bytes of size, up to the four of content_size, but another size.
Resized(bytes, c) ==
    /\ Len(c) # Len(bytes)
    /\ Len(BytesOf[Len(c)]) = Len(BytesOf[Len(bytes)])
    /\ Len(BytesOf[Len(bytes)]) <= 4

\* What the register of the data does not show, the size shows: a file that lost
\* or gained zeros at its start, which leave the register as it is, is never
\* taken for the file (the second loop of memcrc of cksum.cpp and of cksum.py).
SizeIsNoticed ==
    pc = "return" =>
        \A c \in Contents :
            Resized(b, c) /\ Remainders[c] = Remainders[b] => s # Sums[c]
=============================================================================
