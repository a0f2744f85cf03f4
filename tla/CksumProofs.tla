---------------------------- MODULE CksumProofs -----------------------------
(***************************************************************************)
(* That memcrc of either side is the checksum of POSIX for contents of any *)
(* length, and which damage to a content it notices.                       *)
(***************************************************************************)
EXTENDS Cksum, Integers, SequenceTheorems, WellFoundedInduction, TLAPS

-----------------------------------------------------------------------------
(* Words. *)

LEMMA BitsAre ==
    ASSUME NEW number, NEW width \in Nat
    PROVE  Bits(number, width) \in SUBSET (0..(width - 1))
  BY DEF Bits

LEMMA IndexIs ==
    ASSUME NEW w \in Word, NEW c
    PROVE  Index(w, c) \in SUBSET (0..7)
  <1>1. Bits(c, 8) \in SUBSET (0..7)
    BY BitsAre
  <1>2. ShiftRight24(w) \in SUBSET (0..7)
    BY DEF ShiftRight24, Word
  <1>3. QED  BY <1>1, <1>2 DEF Index, SymDiff

LEMMA EntryIsWord ==
    ASSUME NEW tab, NEW index
    PROVE  Entry(tab, index) \in Word
  <1> DEFINE halves == tab[Number(index) + 1]
             upper == Bits(halves[1], 16)
             lower == Bits(halves[2], 16)
  <1>1. upper \in SUBSET (0..15) /\ lower \in SUBSET (0..15)
    BY BitsAre
  <1> HIDE DEF upper, lower
  <1>2. ASSUME NEW e \in {k + 16 : k \in upper} \cup lower
        PROVE  e \in 0..31
    <2>1. CASE e \in lower
      BY <1>1, <2>1
    <2>2. CASE \E k \in upper : e = k + 16
      BY <1>1, <2>2
    <2>3. QED  BY <2>1, <2>2
  <1>3. QED  BY <1>2 DEF Entry, Word, upper, lower

LEMMA ShiftLeftIsWord ==
    ASSUME NEW w \in Word
    PROVE  ShiftLeft8(w) \in Word
  BY DEF ShiftLeft8, Word

LEMMA UpdateIsWord ==
    ASSUME NEW w \in Word, NEW c
    PROVE  Update(w, c) \in Word
  <1> DEFINE e == Entry(crctab, Index(w, c))
  <1>1. e \in Word
    BY EntryIsWord
  <1> HIDE DEF e
  <1>2. SymDiff(ShiftLeft8(w), e) \in Word
    BY <1>1, ShiftLeftIsWord DEF SymDiff, Word
  <1>3. QED  BY <1>2 DEF Update, e

-----------------------------------------------------------------------------
(* The register after every byte, from any register and any byte on. *)

LessThan == {ss \in Nat \X Nat : ss[1] < ss[2]}

LEMMA NatWellFounded == IsWellFoundedOn(LessThan, Nat)
  BY NatLessThanWellFounded DEF OpToRel, LessThan

LEMMA Least ==
    ASSUME NEW T \in SUBSET Nat, T # {}
    PROVE  \E x \in T : \A y \in T : x <= y
  <1>1. PICK x \in T : \A y \in T : ~(<<y, x>> \in LessThan)
    BY NatWellFounded, WFMin
  <1>2. ASSUME NEW y \in T
        PROVE  x <= y
    <2>1. <<y, x>> \in Nat \X Nat /\ <<y, x>>[1] = y /\ <<y, x>>[2] = x
      OBVIOUS
    <2>2. ~(y < x)
      BY <1>1, <2>1 DEF LessThan
    <2>3. QED  BY <2>2
  <1>3. QED  BY <1>2

\* What one byte does to the register, as a function.
Table == [Word -> [Byte -> Word]]

\* r holds the registers after the bytes from a + 1 on to c.
Steps(D, bytes, r, a, c) == \A j \in (a + 1)..c : r[j] = D[r[j - 1]][bytes[j]]

Walks(D, bytes, w, a) ==
    {r \in [0..Len(bytes) -> Word] : r[a] = w /\ Steps(D, bytes, r, a, Len(bytes))}

Walk(D, bytes, w, a) == CHOOSE r : r \in Walks(D, bytes, w, a)

LEMMA WalksAgree ==
    ASSUME NEW D, NEW bytes, NEW a \in Nat, NEW c \in Nat, NEW r, NEW q,
           r[a] = q[a], Steps(D, bytes, r, a, c), Steps(D, bytes, q, a, c)
    PROVE  \A j \in a..c : r[j] = q[j]
  <1> DEFINE Bad == {j \in a..c : r[j] # q[j]}
  <1>1. SUFFICES ASSUME Bad # {} PROVE FALSE
    OBVIOUS
  <1>2. Bad \in SUBSET Nat
    OBVIOUS
  <1>3. PICK m \in Bad : \A y \in Bad : m <= y
    BY <1>1, <1>2, Least
  <1>4. m \in (a + 1)..c /\ r[m] # q[m]
    BY <1>3
  <1>5. m - 1 \in a..c /\ m - 1 \notin Bad
    BY <1>3, <1>4
  <1>6. r[m - 1] = q[m - 1]
    BY <1>5
  <1>7. r[m] = q[m]
    BY <1>4, <1>6 DEF Steps
  <1>8. QED  BY <1>4, <1>7

LEMMA WalkExists ==
    ASSUME NEW D \in Table, NEW bytes \in Seq(Byte), NEW w \in Word,
           NEW a \in 0..Len(bytes)
    PROVE  Walk(D, bytes, w, a) \in Walks(D, bytes, w, a)
  <1> DEFINE len == Len(bytes)
             Upto(m) == \E r \in [0..len -> Word] : r[a] = w /\ Steps(D, bytes, r, a, m)
             Bad == {m \in a..len : ~Upto(m)}
  <1>1. len \in Nat
    OBVIOUS
  <1>2. \A j \in 1..len : bytes[j] \in Byte
    OBVIOUS
  <1> HIDE DEF len
  <1>3. Bad = {}
    <2>1. SUFFICES ASSUME Bad # {} PROVE FALSE
      OBVIOUS
    <2>2. Bad \in SUBSET Nat
      BY <1>1 DEF len
    <2>3. PICK m \in Bad : \A y \in Bad : m <= y
      BY <2>1, <2>2, Least
    <2>4. m # a
      <3> DEFINE r == [j \in 0..len |-> w]
      <3>1. r \in [0..len -> Word] /\ r[a] = w
        BY DEF len
      <3>2. Steps(D, bytes, r, a, a)
        BY DEF Steps
      <3>3. Upto(a)
        BY <3>1, <3>2
      <3>4. QED  BY <2>3, <3>3
    <2>5. m \in (a + 1)..len /\ m - 1 \in a..len /\ m \in 1..len
      BY <1>1, <2>3, <2>4 DEF len
    <2>6. m - 1 \notin Bad
      BY <2>3, <2>5
    <2>7. PICK r \in [0..len -> Word] : r[a] = w /\ Steps(D, bytes, r, a, m - 1)
      BY <2>5, <2>6
    <2> DEFINE e == D[r[m - 1]][bytes[m]]
               q == [r EXCEPT ![m] = e]
    <2>8. e \in Word
      <3>1. m - 1 \in 0..len
        BY <1>1, <2>5
      <3>2. r[m - 1] \in Word /\ bytes[m] \in Byte
        BY <1>2, <2>5, <2>7, <3>1
      <3>3. QED  BY <3>2 DEF Table
    <2>9. q \in [0..len -> Word] /\ q[m] = e /\ \A j \in 0..len : j # m => q[j] = r[j]
      BY <2>7, <2>8, <2>5, <1>1
    <2>10. q[a] = w
      BY <2>9, <2>7, <2>4 DEF len
    <2> HIDE DEF q
    <2>11. ASSUME NEW j \in (a + 1)..m
           PROVE  q[j] = D[q[j - 1]][bytes[j]]
      <3>1. j - 1 \in 0..len /\ j - 1 # m /\ j \in 0..len
        BY <2>5, <1>1 DEF len
      <3>2. q[j - 1] = r[j - 1]
        BY <3>1, <2>9
      <3>3. CASE j = m
        BY <3>2, <3>3, <2>9
      <3>4. CASE j # m
        <4>1. j \in (a + 1)..(m - 1)
          BY <3>4, <2>5
        <4>2. r[j] = D[r[j - 1]][bytes[j]]
          BY <4>1, <2>7 DEF Steps
        <4>3. QED  BY <4>2, <3>1, <3>2, <3>4, <2>9
      <3>5. QED  BY <3>3, <3>4
    <2>12. Steps(D, bytes, q, a, m)
      BY <2>11 DEF Steps
    <2>13. Upto(m)
      BY <2>9, <2>10, <2>12
    <2>14. QED  BY <2>3, <2>13
  <1>4. Upto(len)
    BY <1>1, <1>3 DEF len
  <1>5. \E r : r \in Walks(D, bytes, w, a)
    BY <1>4 DEF Walks, len
  <1>6. QED  BY <1>5 DEF Walk

LEMMA WalkIs ==
    ASSUME NEW D \in Table, NEW bytes \in Seq(Byte), NEW w \in Word,
           NEW a \in 0..Len(bytes)
    PROVE  /\ Walk(D, bytes, w, a) \in [0..Len(bytes) -> Word]
           /\ Walk(D, bytes, w, a)[a] = w
           /\ Steps(D, bytes, Walk(D, bytes, w, a), a, Len(bytes))
  <1> DEFINE r == Walk(D, bytes, w, a)
  <1>1. r \in Walks(D, bytes, w, a)
    BY WalkExists
  <1> HIDE DEF r
  <1>2. r \in [0..Len(bytes) -> Word] /\ r[a] = w /\ Steps(D, bytes, r, a, Len(bytes))
    BY <1>1 DEF Walks
  <1>3. QED  BY <1>2 DEF r

\* A walk continues from where it is.
LEMMA WalkSplits ==
    ASSUME NEW D \in Table, NEW bytes \in Seq(Byte), NEW w \in Word,
           NEW a \in 0..Len(bytes), NEW m \in a..Len(bytes), NEW j \in m..Len(bytes)
    PROVE  Walk(D, bytes, Walk(D, bytes, w, a)[m], m)[j] = Walk(D, bytes, w, a)[j]
  <1> DEFINE len == Len(bytes)
             r == Walk(D, bytes, w, a)
             v == r[m]
             q == Walk(D, bytes, v, m)
  <1>1. len \in Nat /\ a \in 0..len /\ m \in a..len /\ j \in m..len /\ m \in 0..len
    OBVIOUS
  <1>2. r \in [0..len -> Word] /\ Steps(D, bytes, r, a, len)
    BY WalkIs
  <1>3. v \in Word
    BY <1>1, <1>2
  <1> HIDE DEF v
  <1>4. q[m] = v /\ Steps(D, bytes, q, m, len)
    BY <1>1, <1>3, WalkIs
  <1> HIDE DEF len, r, q
  <1>5. Steps(D, bytes, r, m, len)
    BY <1>1, <1>2 DEF Steps
  <1>6. r[m] = q[m]
    BY <1>4 DEF v
  <1>7. m \in Nat
    BY <1>1
  <1>8. \A k \in m..len : r[k] = q[k]
    BY <1>1, <1>4, <1>5, <1>6, <1>7, WalksAgree
  <1>9. QED  BY <1>1, <1>8 DEF r, q, v

-----------------------------------------------------------------------------
(* Fold halves the bytes; it computes the same registers. *)

Spans(bytes) == Word \X (1..Len(bytes)) \X (1..Len(bytes))

Halved(f, D, bytes, x) ==
    LET lo == x[2]  hi == x[3]  mid == (lo + hi) \div 2 IN
    IF lo < hi THEN f[<<f[<<x[1], lo, mid>>], mid + 1, hi>>] ELSE D[x[1]][bytes[lo]]

Halves(f, D, bytes) == f = [x \in Spans(bytes) |-> Halved(f, D, bytes, x)]

LEMMA Middle ==
    ASSUME NEW lo \in Nat, NEW hi \in Nat, lo < hi
    PROVE  (lo + hi) \div 2 \in lo..(hi - 1)
  OBVIOUS

LEMMA HalvesExist ==
    ASSUME NEW D \in Table, NEW bytes \in Seq(Byte)
    PROVE  \E f : Halves(f, D, bytes)
  <1> DEFINE len == Len(bytes)
             at(x) == IF x[2] <= x[3] THEN Walk(D, bytes, x[1], x[2] - 1)[x[3]]
                                      ELSE D[x[1]][bytes[x[2]]]
             g == [x \in Spans(bytes) |-> at(x)]
  <1>1. len \in Nat
    OBVIOUS
  <1>2. ASSUME NEW v \in Word, NEW lo \in 1..len, NEW hi \in 1..len, lo <= hi
        PROVE  /\ g[<<v, lo, hi>>] = Walk(D, bytes, v, lo - 1)[hi]
               /\ g[<<v, lo, hi>>] \in Word
    <2>1. <<v, lo, hi>> \in Spans(bytes)
      BY DEF Spans
    <2>2. g[<<v, lo, hi>>] = at(<<v, lo, hi>>)
      BY <2>1
    <2>3. at(<<v, lo, hi>>) = Walk(D, bytes, v, lo - 1)[hi]
      BY <1>2
    <2>4. lo - 1 \in 0..Len(bytes) /\ hi \in 0..Len(bytes)
      BY <1>1
    <2>5. Walk(D, bytes, v, lo - 1) \in [0..Len(bytes) -> Word]
      BY <2>4, WalkIs
    <2>6. Walk(D, bytes, v, lo - 1)[hi] \in Word
      BY <2>4, <2>5
    <2>7. QED  BY <2>2, <2>3, <2>6
  <1>3. ASSUME NEW v \in Word, NEW lo \in 1..len, NEW hi \in 1..len
        PROVE  at(<<v, lo, hi>>) = Halved(g, D, bytes, <<v, lo, hi>>)
    <2> DEFINE mid == (lo + hi) \div 2
               r == Walk(D, bytes, v, lo - 1)
    <2>1. CASE lo < hi
      <3>1. mid \in lo..(hi - 1)
        BY <2>1, Middle
      <3> HIDE DEF mid
      <3>2. mid \in 1..len /\ mid + 1 \in 1..len /\ lo <= mid /\ mid + 1 <= hi
        BY <3>1, <1>1
      <3>3. g[<<v, lo, mid>>] = r[mid] /\ g[<<v, lo, mid>>] \in Word
        <4> HIDE DEF g
        <4>1. QED  BY <1>2, <3>2
      <3>4. r[mid] \in Word
        BY <3>3
      <3>5. g[<<r[mid], mid + 1, hi>>] = Walk(D, bytes, r[mid], (mid + 1) - 1)[hi]
        <4> DEFINE u == r[mid]
                   from == mid + 1
        <4>1. u \in Word /\ from \in 1..len /\ from <= hi
          BY <3>2, <3>4
        <4> HIDE DEF u, from, g, at
        <4>2. g[<<u, from, hi>>] = Walk(D, bytes, u, from - 1)[hi]
          BY <1>2, <4>1
        <4>3. QED  BY <4>2 DEF u, from
      <3>6. (mid + 1) - 1 = mid
        BY <3>2
      <3>7. Walk(D, bytes, r[mid], mid)[hi] = r[hi]
        <4>1. lo - 1 \in 0..Len(bytes) /\ mid \in (lo - 1)..Len(bytes)
              /\ hi \in mid..Len(bytes)
          BY <3>1, <1>1
        <4>2. QED  BY <4>1, WalkSplits
      <3>8. g[<<g[<<v, lo, mid>>], mid + 1, hi>>] = r[hi]
        BY <3>3, <3>5, <3>6, <3>7
      <3>9. at(<<v, lo, hi>>) = r[hi]
        BY <2>1
      <3> HIDE DEF g
      <3>10. Halved(g, D, bytes, <<v, lo, hi>>) = g[<<g[<<v, lo, mid>>], mid + 1, hi>>]
        BY <2>1 DEF Halved, mid
      <3>11. QED  BY <3>8, <3>9, <3>10
    <2>2. CASE lo = hi
      <3>1. lo - 1 \in 0..Len(bytes) /\ lo \in ((lo - 1) + 1)..Len(bytes)
        BY <1>1
      <3>2. r[lo - 1] = v /\ Steps(D, bytes, r, lo - 1, Len(bytes))
        BY <3>1, WalkIs
      <3> HIDE DEF r
      <3>3. r[lo] = D[v][bytes[lo]]
        BY <3>1, <3>2 DEF Steps
      <3>4. at(<<v, lo, hi>>) = r[lo]
        BY <2>2 DEF r
      <3> HIDE DEF g
      <3>5. Halved(g, D, bytes, <<v, lo, hi>>) = D[v][bytes[lo]]
        BY <2>2 DEF Halved
      <3>6. QED  BY <3>3, <3>4, <3>5
    <2>3. CASE lo > hi
      <3>1. at(<<v, lo, hi>>) = D[v][bytes[lo]]
        BY <2>3
      <3> HIDE DEF g
      <3>2. Halved(g, D, bytes, <<v, lo, hi>>) = D[v][bytes[lo]]
        BY <2>3 DEF Halved
      <3>3. QED  BY <3>1, <3>2
    <2>4. QED  BY <2>1, <2>2, <2>3
  <1>4. ASSUME NEW x \in Spans(bytes)
        PROVE  at(x) = Halved(g, D, bytes, x)
    <2>1. PICK v \in Word, lo \in 1..len, hi \in 1..len : x = <<v, lo, hi>>
      BY DEF Spans
    <2> HIDE DEF at, g
    <2>2. QED  BY <1>3, <2>1
  <1> HIDE DEF at
  <1>5. g = [x \in Spans(bytes) |-> Halved(g, D, bytes, x)]
    <2> DEFINE h == [x \in Spans(bytes) |-> Halved(g, D, bytes, x)]
    <2>1. \A x \in Spans(bytes) : g[x] = h[x]
      BY <1>4
    <2>2. QED  BY <1>4
  <1> HIDE DEF g
  <1>6. QED  BY <1>5 DEF Halves

LEMMA HalvesUnfolds ==
    ASSUME NEW D \in Table, NEW bytes \in Seq(Byte), NEW f, Halves(f, D, bytes),
           NEW v \in Word, NEW lo \in 1..Len(bytes), NEW hi \in 1..Len(bytes)
    PROVE  f[<<v, lo, hi>>] =
               IF lo < hi
               THEN f[<<f[<<v, lo, (lo + hi) \div 2>>], (lo + hi) \div 2 + 1, hi>>]
               ELSE D[v][bytes[lo]]
  <1> DEFINE x == <<v, lo, hi>>
  <1>1. f = [y \in Spans(bytes) |-> Halved(f, D, bytes, y)]
    BY DEF Halves
  <1>2. x \in Spans(bytes)
    BY DEF Spans
  <1> HIDE DEF x
  <1>3. f[x] = Halved(f, D, bytes, x)
    BY <1>1, <1>2
  <1>4. x[1] = v /\ x[2] = lo /\ x[3] = hi
    BY DEF x
  <1>5. f[x] = IF lo < hi THEN f[<<f[<<v, lo, (lo + hi) \div 2>>], (lo + hi) \div 2 + 1, hi>>]
                          ELSE D[v][bytes[lo]]
    BY <1>3, <1>4 DEF Halved
  <1>6. QED  BY <1>5 DEF x

LEMMA HalvesWalk ==
    ASSUME NEW D \in Table, NEW bytes \in Seq(Byte), NEW f, Halves(f, D, bytes),
           NEW w \in Word, NEW k \in 1..Len(bytes)
    PROVE  f[<<w, 1, k>>] = Walk(D, bytes, w, 0)[k]
  <1> DEFINE len == Len(bytes)
             Span(d) == \A v \in Word : \A lo \in 1..len : \A hi \in 1..len :
                            hi - lo = d => f[<<v, lo, hi>>] = Walk(D, bytes, v, lo - 1)[hi]
             Bad == {d \in Nat : ~Span(d)}
  <1>1. len \in Nat
    OBVIOUS
  <1>2. Bad = {}
    <2>1. SUFFICES ASSUME Bad # {} PROVE FALSE
      OBVIOUS
    <2>2. PICK d \in Bad : \A y \in Bad : d <= y
      BY <2>1, Least
    <2>3. PICK v \in Word, lo \in 1..len, hi \in 1..len :
              hi - lo = d /\ f[<<v, lo, hi>>] # Walk(D, bytes, v, lo - 1)[hi]
      BY <2>2
    <2>4. ASSUME NEW u \in Word, NEW p \in 1..len, NEW q \in 1..len, p <= q, q - p < d
          PROVE  f[<<u, p, q>>] = Walk(D, bytes, u, p - 1)[q]
      <3> DEFINE e == q - p
      <3>1. e \in Nat /\ e < d
        BY <1>1, <2>4
      <3>2. Span(e)
        <4> HIDE DEF Span, e
        <4>1. d \in Nat /\ \A y \in Nat : ~Span(y) => d <= y
          BY <2>2
        <4>2. QED  BY <3>1, <4>1
      <3>3. QED  BY <3>2
    <2> DEFINE mid == (lo + hi) \div 2
               r == Walk(D, bytes, v, lo - 1)
    <2>5. f[<<v, lo, hi>>] = IF lo < hi THEN f[<<f[<<v, lo, mid>>], mid + 1, hi>>]
                                        ELSE D[v][bytes[lo]]
      BY HalvesUnfolds
    <2>6. d \in Nat /\ lo <= hi
      BY <2>2, <2>3
    <2>7. lo - 1 \in 0..Len(bytes) /\ hi \in 0..Len(bytes)
          /\ lo \in ((lo - 1) + 1)..Len(bytes)
      BY <1>1
    <2>8. r \in [0..Len(bytes) -> Word] /\ r[lo - 1] = v /\ Steps(D, bytes, r, lo - 1, Len(bytes))
      BY <2>7, WalkIs
    <2>9. CASE lo = hi
      <3> HIDE DEF r
      <3>1. r[lo] = D[v][bytes[lo]]
        BY <2>7, <2>8 DEF Steps
      <3>2. f[<<v, lo, hi>>] = D[v][bytes[lo]]
        BY <2>5, <2>9
      <3>3. QED  BY <3>1, <3>2, <2>3, <2>9 DEF r
    <2>10. CASE lo < hi
      <3>1. mid \in lo..(hi - 1)
        BY <2>10, Middle
      <3> HIDE DEF mid
      <3>2. mid \in 1..len /\ mid + 1 \in 1..len /\ mid - lo \in Nat /\ mid - lo < d
            /\ hi - (mid + 1) \in Nat /\ hi - (mid + 1) < d /\ (mid + 1) - 1 = mid
            /\ lo <= mid /\ mid + 1 <= hi
        BY <3>1, <1>1, <2>3
      <3>9. mid \in 0..Len(bytes)
        BY <3>2
      <3>3. f[<<v, lo, mid>>] = r[mid]
        BY <2>4, <3>2
      <3>4. r[mid] \in Word
        <4> HIDE DEF r, mid
        <4>1. QED  BY <3>9, <2>8
      <3>5. f[<<r[mid], mid + 1, hi>>] = Walk(D, bytes, r[mid], (mid + 1) - 1)[hi]
        <4> DEFINE u == r[mid]
                   from == mid + 1
        <4>1. u \in Word /\ from \in 1..len /\ from <= hi /\ hi - from < d
          BY <3>2, <3>4
        <4> HIDE DEF u, from, len, Span, Bad, r
        <4>2. f[<<u, from, hi>>] = Walk(D, bytes, u, from - 1)[hi]
          BY <2>4, <4>1
        <4>3. QED  BY <4>2 DEF u, from
      <3>6. Walk(D, bytes, r[mid], mid)[hi] = r[hi]
        <4>1. lo - 1 \in 0..Len(bytes) /\ mid \in (lo - 1)..Len(bytes)
              /\ hi \in mid..Len(bytes)
          BY <3>1, <1>1
        <4>2. QED  BY <4>1, WalkSplits
      <3>7. f[<<v, lo, hi>>] = r[hi]
        BY <2>5, <2>10, <3>2, <3>3, <3>5, <3>6
      <3>8. QED  BY <3>7, <2>3
    <2>11. QED  BY <2>6, <2>9, <2>10
  <1>3. k - 1 \in Nat /\ k \in 1..len /\ 1 \in 1..len
    BY <1>1
  <1>4. Span(k - 1)
    <2> HIDE DEF Span
    <2>1. QED  BY <1>2, <1>3
  <1>5. f[<<w, 1, k>>] = Walk(D, bytes, w, 1 - 1)[k]
    BY <1>3, <1>4
  <1>6. 1 - 1 = 0
    OBVIOUS
  <1>7. QED  BY <1>5, <1>6

-----------------------------------------------------------------------------
(* One step of the division. *)

\* What Shift adds to the shifted register: the generator, or nothing.
Feedback(w, bit) == ~(31 \in w <=> bit)

LEMMA ShiftIs ==
    ASSUME NEW w \in Word, NEW bit \in BOOLEAN
    PROVE  /\ Shift(w, bit) \in Word
           /\ \A e \in 0..31 :
                  e \in Shift(w, bit) <=>
                      ~((e # 0 /\ e - 1 \in w) <=> (Feedback(w, bit) /\ e \in Generator))
  <1> DEFINE up == {k + 1 : k \in w \ {31}}
  <1>1. up \in Word
    BY DEF Word
  <1>2. Generator \in Word
    BY DEF Generator, Word
  <1>3. \A e \in 0..31 : e \in up <=> (e # 0 /\ e - 1 \in w)
    <2>1. TAKE e \in 0..31
    <2>2. ASSUME e \in up PROVE e # 0 /\ e - 1 \in w
      <3>1. PICK k \in w \ {31} : e = k + 1
        BY <2>2
      <3>2. k \in 0..31
        BY DEF Word
      <3>3. e # 0 /\ e - 1 = k
        BY <3>1, <3>2
      <3>4. QED  BY <3>1, <3>3
    <2>3. ASSUME e # 0, e - 1 \in w PROVE e \in up
      <3>1. e - 1 \in w \ {31} /\ e = (e - 1) + 1
        BY <2>1, <2>3
      <3>2. QED  BY <3>1
    <2>4. QED  BY <2>2, <2>3
  <1>4. Shift(w, bit) = IF Feedback(w, bit) THEN SymDiff(up, Generator) ELSE up
    BY DEF Shift, Feedback
  <1> HIDE DEF up
  <1>5. Shift(w, bit) \in Word
    BY <1>1, <1>2, <1>4 DEF SymDiff, Word
  <1>6. \A e \in 0..31 :
            e \in Shift(w, bit) <=> ~((e \in up) <=> (Feedback(w, bit) /\ e \in Generator))
    <2>1. TAKE e \in 0..31
    <2>2. CASE Feedback(w, bit)
      BY <1>4, <2>2 DEF SymDiff
    <2>3. CASE ~Feedback(w, bit)
      BY <1>4, <2>3
    <2>4. QED  BY <2>2, <2>3
  <1>7. QED
    <2>1. ASSUME NEW e \in 0..31
          PROVE  e \in Shift(w, bit) <=>
                     ~((e # 0 /\ e - 1 \in w) <=> (Feedback(w, bit) /\ e \in Generator))
      BY <1>3, <1>6
    <2>2. QED  BY <1>5, <2>1

LEMMA Extensional ==
    ASSUME NEW w \in Word, NEW v \in Word, \A e \in 0..31 : e \in w <=> e \in v
    PROVE  w = v
  BY DEF Word

\* f holds the registers of ShiftIn, one for each of the eight bits.
Registers(f, w, bits) ==
    /\ f \in [0..8 -> Word]
    /\ f[0] = w
    /\ \A k \in 1..8 : f[k] = Shift(f[k - 1], 8 - k \in bits)
    /\ ShiftIn(w, bits) = f[8]

LEMMA ShiftInRegisters ==
    ASSUME NEW w \in Word, NEW bits
    PROVE  \E f : Registers(f, w, bits)
  <1> DEFINE bit(k) == 8 - k \in bits
             s1 == Shift(w, bit(1))
             s2 == Shift(s1, bit(2))
             s3 == Shift(s2, bit(3))
             s4 == Shift(s3, bit(4))
             s5 == Shift(s4, bit(5))
             s6 == Shift(s5, bit(6))
             s7 == Shift(s6, bit(7))
             s8 == Shift(s7, bit(8))
             g == [k \in 0..8 |->
                     IF k = 0 THEN w ELSE IF k = 1 THEN s1 ELSE IF k = 2 THEN s2 ELSE
                     IF k = 3 THEN s3 ELSE IF k = 4 THEN s4 ELSE IF k = 5 THEN s5 ELSE
                     IF k = 6 THEN s6 ELSE IF k = 7 THEN s7 ELSE s8]
             body(f, k) == IF k = 0 THEN w ELSE Shift(f[k - 1], 8 - k \in bits)
             F == CHOOSE f : f = [k \in 0..8 |-> body(f, k)]
  <1>1. \A k : bit(k) \in BOOLEAN
    OBVIOUS
  <1>2. ShiftIn(w, bits) = F[8]
    BY DEF ShiftIn
  <1> HIDE DEF bit
  <1>3. s1 \in Word /\ s2 \in Word /\ s3 \in Word /\ s4 \in Word
    <2>1. s1 \in Word
      BY <1>1, ShiftIs
    <2> HIDE DEF s1
    <2>2. s2 \in Word
      BY <1>1, <2>1, ShiftIs
    <2> HIDE DEF s2
    <2>3. s3 \in Word
      BY <1>1, <2>2, ShiftIs
    <2> HIDE DEF s3
    <2>4. s4 \in Word
      BY <1>1, <2>3, ShiftIs
    <2>5. QED  BY <2>1, <2>2, <2>3, <2>4
  <1> HIDE DEF s1, s2, s3, s4
  <1>4. s5 \in Word /\ s6 \in Word /\ s7 \in Word /\ s8 \in Word
    <2>1. s5 \in Word
      BY <1>1, <1>3, ShiftIs
    <2> HIDE DEF s5
    <2>2. s6 \in Word
      BY <1>1, <2>1, ShiftIs
    <2> HIDE DEF s6
    <2>3. s7 \in Word
      BY <1>1, <2>2, ShiftIs
    <2> HIDE DEF s7
    <2>4. s8 \in Word
      BY <1>1, <2>3, ShiftIs
    <2>5. QED  BY <2>1, <2>2, <2>3, <2>4
  <1> HIDE DEF s5, s6, s7, s8
  <1>5. /\ g[0] = w /\ g[1] = s1 /\ g[2] = s2 /\ g[3] = s3 /\ g[4] = s4
        /\ g[5] = s5 /\ g[6] = s6 /\ g[7] = s7 /\ g[8] = s8
    OBVIOUS
  <1>6. g \in [0..8 -> Word]
    BY <1>3, <1>4
  <1>7. \A k \in 0..8 : g[k] = body(g, k)
    <2> HIDE DEF g
    <2>1. /\ g[1] = body(g, 1) /\ g[2] = body(g, 2) /\ g[3] = body(g, 3) /\ g[4] = body(g, 4)
          /\ g[5] = body(g, 5) /\ g[6] = body(g, 6) /\ g[7] = body(g, 7) /\ g[8] = body(g, 8)
      BY <1>5 DEF s1, s2, s3, s4, s5, s6, s7, s8, bit
    <2>2. g[0] = body(g, 0)
      BY <1>5
    <2> HIDE DEF body
    <2>3. QED  BY <2>1, <2>2
  <1>8. g = [k \in 0..8 |-> body(g, k)]
    <2> HIDE DEF body
    <2> DEFINE h == [k \in 0..8 |-> body(g, k)]
    <2>1. \A k \in 0..8 : g[k] = h[k]
      BY <1>7
    <2>2. QED  BY <1>7
  <1>9. F = [k \in 0..8 |-> body(F, k)]
    <2>1. \E f : f = [k \in 0..8 |-> body(f, k)]
      <3> HIDE DEF g
      <3>1. QED  BY <1>8
    <2>2. QED  BY <2>1, Zenon
  <1> HIDE DEF F
  <1>10. \A k \in 0..8 : F[k] = body(F, k)
    BY <1>9
  <1>11. F = g
    <2> HIDE DEF g
    <2>1. F[0] = g[0]
      BY <1>10, <1>5
    <2>2. \A k \in 1..8 : F[k - 1] = g[k - 1] => F[k] = g[k]
      BY <1>7, <1>10
    <2>3. \A k \in 0..7 : F[k] = g[k] => F[k + 1] = g[k + 1]
      <3>1. TAKE k \in 0..7
      <3>2. k + 1 \in 1..8 /\ (k + 1) - 1 = k
        OBVIOUS
      <3>3. QED  BY <2>2, <3>2
    <2>4. F[1] = g[1] /\ F[2] = g[2] /\ F[3] = g[3] /\ F[4] = g[4]
      BY <2>1, <2>3
    <2>5. F[5] = g[5] /\ F[6] = g[6] /\ F[7] = g[7] /\ F[8] = g[8]
      BY <2>4, <2>3
    <2>6. \A k \in 0..8 : F[k] = g[k]
      BY <2>1, <2>4, <2>5
    <2>7. QED  BY <1>8, <1>9, <2>6
  <1> HIDE DEF g
  <1>12. \A k \in 1..8 : g[k] = Shift(g[k - 1], 8 - k \in bits)
    BY <1>7
  <1>13. g[0] = w /\ ShiftIn(w, bits) = g[8]
    BY <1>2, <1>5, <1>11
  <1>14. QED  BY <1>6, <1>12, <1>13 DEF Registers

-----------------------------------------------------------------------------
(* One byte of the division is one lookup in the table. *)

LEMMA BitsOfShiftLeft8 ==
    ASSUME NEW w \in Word, NEW e \in 0..31
    PROVE  e \in ShiftLeft8(w) <=> (e >= 8 /\ e - 8 \in w)
  <1>1. ASSUME e \in ShiftLeft8(w) PROVE e >= 8 /\ e - 8 \in w
    <2>1. PICK k \in {j \in w : j < 24} : e = k + 8
      BY <1>1 DEF ShiftLeft8
    <2>2. k \in 0..31 /\ k \in w
      BY DEF Word
    <2>3. e >= 8 /\ e - 8 = k
      BY <2>1, <2>2
    <2>4. QED  BY <2>2, <2>3
  <1>2. ASSUME e >= 8, e - 8 \in w PROVE e \in ShiftLeft8(w)
    <2>1. e - 8 \in {j \in w : j < 24} /\ e = (e - 8) + 8
      BY <1>2
    <2>2. QED  BY <2>1 DEF ShiftLeft8
  <1>3. QED  BY <1>1, <1>2

LEMMA BitsOfShiftRight24 ==
    ASSUME NEW w \in Word, NEW e \in 0..7
    PROVE  e \in ShiftRight24(w) <=> e + 24 \in w
  <1>1. ASSUME e \in ShiftRight24(w) PROVE e + 24 \in w
    <2>1. PICK k \in {j \in w : j >= 24} : e = k - 24
      BY <1>1 DEF ShiftRight24
    <2>2. k \in 0..31 /\ k \in w
      BY DEF Word
    <2>3. e + 24 = k
      BY <2>1, <2>2
    <2>4. QED  BY <2>2, <2>3
  <1>2. ASSUME e + 24 \in w PROVE e \in ShiftRight24(w)
    <2>1. e + 24 \in {j \in w : j >= 24} /\ e = (e + 24) - 24
      BY <1>2
    <2>2. QED  BY <2>1 DEF ShiftRight24
  <1>3. QED  BY <1>1, <1>2

LEMMA XorIsWord ==
    ASSUME NEW w \in Word, NEW v \in Word
    PROVE  /\ SymDiff(w, v) \in Word
           /\ \A e : e \in SymDiff(w, v) <=> ~(e \in w <=> e \in v)
  BY DEF SymDiff, Word

\* What the upper byte of the register and the byte that enters do to it, they
\* do together; the lower three bytes only move up.
LEMMA ShiftInSplits ==
    ASSUME NEW w \in Word, NEW x \in SUBSET (0..7)
    PROVE  ShiftIn(w, x) =
               SymDiff(ShiftLeft8(w), ShiftIn({}, SymDiff(ShiftRight24(w), x)))
  <1> DEFINE y == SymDiff(ShiftRight24(w), x)
  <1>1. {} \in Word
    BY DEF Word
  <1>2. \A e \in 0..7 : (e \in y) <=> ~(e + 24 \in w <=> e \in x)
    BY BitsOfShiftRight24 DEF SymDiff
  <1> HIDE DEF y
  <1>3. PICK f : Registers(f, w, x)
    BY ShiftInRegisters
  <1>4. PICK g : Registers(g, {}, y)
    BY <1>1, ShiftInRegisters
  <1> DEFINE low(k, e) == e >= k /\ e - k \in w
             At(k) == \A e \in 0..31 : e \in f[k] <=> ~(low(k, e) <=> e \in g[k])
  <1>5. At(0)
    BY <1>3, <1>4 DEF Registers
  <1>6. ASSUME NEW k \in 1..8, At(k - 1)
        PROVE  At(k)
    <2> DEFINE p == 8 - k \in x
               q == 8 - k \in y
    <2>1. f[k - 1] \in Word /\ g[k - 1] \in Word
      <3>1. k - 1 \in 0..8
        OBVIOUS
      <3>2. QED  BY <3>1, <1>3, <1>4 DEF Registers
    <2>2. f[k] = Shift(f[k - 1], p) /\ g[k] = Shift(g[k - 1], q)
      BY <1>3, <1>4 DEF Registers
    <2>3. Feedback(f[k - 1], p) <=> Feedback(g[k - 1], q)
      <3>1. 31 \in f[k - 1] <=> ~(low(k - 1, 31) <=> 31 \in g[k - 1])
        BY <1>6
      <3>2. low(k - 1, 31) <=> ((8 - k) + 24 \in w)
        <4>1. 31 >= k - 1 /\ 31 - (k - 1) = (8 - k) + 24
          OBVIOUS
        <4>2. QED  BY <4>1
      <3>3. q <=> ~((8 - k) + 24 \in w <=> p)
        BY <1>2
      <3> HIDE DEF low, p, q
      <3>4. QED  BY <3>1, <3>2, <3>3 DEF Feedback
    <2>4. p \in BOOLEAN /\ q \in BOOLEAN
      OBVIOUS
    <2> HIDE DEF p, q
    <2>5. ASSUME NEW e \in 0..31
          PROVE  e \in f[k] <=> ~(low(k, e) <=> e \in g[k])
      <3>1. e \in f[k] <=>
                ~((e # 0 /\ e - 1 \in f[k - 1]) <=> (Feedback(f[k - 1], p) /\ e \in Generator))
        BY <2>1, <2>2, <2>4, ShiftIs
      <3>2. e \in g[k] <=>
                ~((e # 0 /\ e - 1 \in g[k - 1]) <=> (Feedback(g[k - 1], q) /\ e \in Generator))
        BY <2>1, <2>2, <2>4, ShiftIs
      <3>3. CASE e = 0
        <4>1. ~low(k, e)
          BY <3>3
        <4> HIDE DEF low
        <4>2. QED  BY <2>3, <3>1, <3>2, <3>3, <4>1
      <3>4. CASE e # 0
        <4>1. e - 1 \in 0..31
          BY <3>4
        <4>2. e - 1 \in f[k - 1] <=> ~(low(k - 1, e - 1) <=> e - 1 \in g[k - 1])
          BY <1>6, <4>1
        <4>3. low(k - 1, e - 1) <=> low(k, e)
          <5>1. (e - 1) - (k - 1) = e - k /\ (e - 1 >= k - 1 <=> e >= k)
            OBVIOUS
          <5>2. QED  BY <5>1
        <4> HIDE DEF low
        <4>4. QED  BY <2>3, <3>1, <3>2, <3>4, <4>2, <4>3
      <3>5. QED  BY <3>3, <3>4
    <2>6. QED  BY <2>5
  <1>7. At(8)
    <2>1. ASSUME NEW k \in 0..7, At(k) PROVE At(k + 1)
      <3>1. k + 1 \in 1..8 /\ (k + 1) - 1 = k
        OBVIOUS
      <3> HIDE DEF At
      <3>2. QED  BY <1>6, <2>1, <3>1
    <2> HIDE DEF At
    <2>2. At(1) /\ At(2) /\ At(3) /\ At(4)
      BY <1>5, <2>1
    <2>3. QED  BY <2>2, <2>1
  <1>8. f[8] \in Word /\ g[8] \in Word /\ ShiftLeft8(w) \in Word
    BY <1>3, <1>4, ShiftLeftIsWord DEF Registers
  <1> DEFINE z == SymDiff(ShiftLeft8(w), g[8])
  <1>9. z \in Word /\ \A e : e \in z <=> ~(e \in ShiftLeft8(w) <=> e \in g[8])
    BY <1>8, XorIsWord
  <1> HIDE DEF z
  <1>10. \A e \in 0..31 : e \in f[8] <=> e \in z
    BY <1>7, <1>9, BitsOfShiftLeft8
  <1>11. f[8] = z
    BY <1>8, <1>9, <1>10, Extensional
  <1>12. QED  BY <1>3, <1>4, <1>11 DEF z, y, Registers

LEMMA DivideIsWord ==
    ASSUME NEW w \in Word, NEW c
    PROVE  Divide(w, c) \in Word
  <1>1. PICK f : Registers(f, w, Bits(c, 8))
    BY ShiftInRegisters
  <1>2. QED  BY <1>1 DEF Divide, Registers

\* The lookup of memcrc is eight steps of the division (cksum.cpp 446-447),
\* whatever the register and the byte.
LEMMA UpdateIsDivide ==
    ASSUME NEW w \in Word, NEW c
    PROVE  Update(w, c) = Divide(w, c)
  <1> DEFINE x == Bits(c, 8)
             y == Index(w, c)
  <1>1. x \in SUBSET (0..7)
    BY BitsAre
  <1>2. y \in SUBSET (0..7)
    BY IndexIs
  <1>3. y = SymDiff(ShiftRight24(w), x)
    BY DEF Index
  <1> HIDE DEF x, y
  <1>4. Entry(crctab, y) = ShiftIn({}, y)
    BY <1>2, TableIsRemainders
  <1>5. ShiftIn(w, x) = SymDiff(ShiftLeft8(w), ShiftIn({}, y))
    BY <1>1, <1>3, ShiftInSplits
  <1>6. Update(w, c) = SymDiff(ShiftLeft8(w), ShiftIn({}, y))
    BY <1>4 DEF Update, y
  <1>7. QED  BY <1>5, <1>6 DEF Divide, x

-----------------------------------------------------------------------------
(* The folds of both sides and of the division are one walk. *)

Divisions == [w \in Word |-> [c \in Byte |-> Divide(w, c)]]

LEMMA DivisionsAre ==
    /\ Divisions \in Table
    /\ \A w \in Word : \A c \in Byte : Divisions[w][c] = Divide(w, c)
  <1>1. \A w \in Word : \A c \in Byte : Divide(w, c) \in Word
    BY DivideIsWord
  <1>2. Divisions \in Table
    BY <1>1 DEF Divisions, Table
  <1>3. QED  BY <1>2 DEF Divisions

LEMMA FoldDivideWalks ==
    ASSUME NEW w \in Word, NEW bytes \in Seq(Byte), NEW k \in 0..Len(bytes)
    PROVE  Fold(Divide, w, bytes, k) = Walk(Divisions, bytes, w, 0)[k]
  <1> DEFINE body(f, x) ==
                 LET lo == x[2]  hi == x[3]  mid == (lo + hi) \div 2 IN
                 IF lo < hi THEN f[<<f[<<x[1], lo, mid>>], mid + 1, hi>>]
                            ELSE Divide(x[1], bytes[lo])
             F == CHOOSE f : f = [x \in Spans(bytes) |-> body(f, x)]
  <1>1. ASSUME NEW f, NEW x \in Spans(bytes)
        PROVE  body(f, x) = Halved(f, Divisions, bytes, x)
    <2>1. x[1] \in Word /\ x[2] \in 1..Len(bytes) /\ x[3] \in 1..Len(bytes)
      BY DEF Spans
    <2>2. bytes[x[2]] \in Byte
      BY <2>1
    <2>3. Divide(x[1], bytes[x[2]]) = Divisions[x[1]][bytes[x[2]]]
      BY <2>1, <2>2, DivisionsAre
    <2>4. QED  BY <2>3 DEF Halved
  <1>2. 0 \in 0..Len(bytes) /\ Divisions \in Table
    BY DivisionsAre
  <1>3. CASE k = 0
    <2>1. Walk(Divisions, bytes, w, 0)[0] = w
      BY <1>2, WalkIs
    <2>2. Fold(Divide, w, bytes, k) = w
      BY <1>3 DEF Fold
    <2>3. QED  BY <1>3, <2>1, <2>2
  <1>4. CASE k # 0
    <2>1. Fold(Divide, w, bytes, k) = F[<<w, 1, k>>]
      BY <1>4 DEF Fold, Spans
    <2> HIDE DEF body
    <2>2. \A f : [x \in Spans(bytes) |-> body(f, x)]
                 = [x \in Spans(bytes) |-> Halved(f, Divisions, bytes, x)]
      BY <1>1
    <2>3. \E f : f = [x \in Spans(bytes) |-> body(f, x)]
      BY <1>2, <2>2, HalvesExist DEF Halves
    <2>4. F = [x \in Spans(bytes) |-> body(F, x)]
      BY <2>3, Zenon
    <2> HIDE DEF F
    <2>5. Halves(F, Divisions, bytes)
      BY <2>2, <2>4 DEF Halves
    <2>6. k \in 1..Len(bytes)
      BY <1>4
    <2>7. F[<<w, 1, k>>] = Walk(Divisions, bytes, w, 0)[k]
      BY <1>2, <2>5, <2>6, HalvesWalk
    <2>8. QED  BY <2>1, <2>7
  <1>5. QED  BY <1>3, <1>4

\* The 256 entries of cksum.py are those of crctab[0] of cksum.cpp.
LEMMA TablesAgree == ServerCrctab = crctab
  BY DEF ServerCrctab, crctab

\* And so is the lookup of the server (cksum.py 68-69), whose integers have no
\* width.
LEMMA ServerUpdateIsDivide ==
    ASSUME NEW w \in Word, NEW c
    PROVE  ServerUpdate(w, c) = Divide(w, c)
  <1> DEFINE x == TabIdx(w, c)
             up == UNSIGNED({k + 8 : k \in w})
  <1>1. {k - 24 : k \in w \ (0..23)} = ShiftRight24(w)
    <2>1. \A k \in 0..31 : k \notin 0..23 <=> k >= 24
      OBVIOUS
    <2>2. w \in SUBSET (0..31)
      BY DEF Word
    <2>3. \A k : k \in w \ (0..23) <=> k \in {j \in w : j >= 24}
      BY <2>1, <2>2
    <2>4. w \ (0..23) = {j \in w : j >= 24}
      BY <2>3, Zenon
    <2>5. QED  BY <2>4, Zenon DEF ShiftRight24
  <1>2. x = Index(w, c)
    BY <1>1 DEF TabIdx, Index
  <1>3. up = ShiftLeft8(w)
    BY DEF UNSIGNED, ShiftLeft8, Word
  <1> HIDE DEF x, up
  <1>4. ServerUpdate(w, c) = SymDiff(up, Entry(crctab, x))
    BY TablesAgree DEF ServerUpdate, up, x
  <1>5. ServerUpdate(w, c) = Update(w, c)
    BY <1>2, <1>3, <1>4 DEF Update
  <1>6. QED  BY <1>5, UpdateIsDivide

LEMMA FoldServerWalks ==
    ASSUME NEW w \in Word, NEW bytes \in Seq(Byte), NEW k \in 0..Len(bytes)
    PROVE  Fold(ServerUpdate, w, bytes, k) = Walk(Divisions, bytes, w, 0)[k]
  <1> DEFINE body(f, x) ==
                 LET lo == x[2]  hi == x[3]  mid == (lo + hi) \div 2 IN
                 IF lo < hi THEN f[<<f[<<x[1], lo, mid>>], mid + 1, hi>>]
                            ELSE ServerUpdate(x[1], bytes[lo])
             F == CHOOSE f : f = [x \in Spans(bytes) |-> body(f, x)]
  <1>1. ASSUME NEW f, NEW x \in Spans(bytes)
        PROVE  body(f, x) = Halved(f, Divisions, bytes, x)
    <2>1. x[1] \in Word /\ x[2] \in 1..Len(bytes) /\ x[3] \in 1..Len(bytes)
      BY DEF Spans
    <2>2. bytes[x[2]] \in Byte
      BY <2>1
    <2>3. ServerUpdate(x[1], bytes[x[2]]) = Divisions[x[1]][bytes[x[2]]]
      BY <2>1, <2>2, DivisionsAre, ServerUpdateIsDivide
    <2>4. QED  BY <2>3 DEF Halved
  <1>2. 0 \in 0..Len(bytes) /\ Divisions \in Table
    BY DivisionsAre
  <1>3. CASE k = 0
    <2>1. Walk(Divisions, bytes, w, 0)[0] = w
      BY <1>2, WalkIs
    <2>2. Fold(ServerUpdate, w, bytes, k) = w
      BY <1>3 DEF Fold
    <2>3. QED  BY <1>3, <2>1, <2>2
  <1>4. CASE k # 0
    <2>1. Fold(ServerUpdate, w, bytes, k) = F[<<w, 1, k>>]
      BY <1>4 DEF Fold, Spans
    <2> HIDE DEF body
    <2>2. \A f : [x \in Spans(bytes) |-> body(f, x)]
                 = [x \in Spans(bytes) |-> Halved(f, Divisions, bytes, x)]
      BY <1>1
    <2>3. \E f : f = [x \in Spans(bytes) |-> body(f, x)]
      BY <1>2, <2>2, HalvesExist DEF Halves
    <2>4. F = [x \in Spans(bytes) |-> body(F, x)]
      BY <2>3, Zenon
    <2> HIDE DEF F
    <2>5. Halves(F, Divisions, bytes)
      BY <2>2, <2>4 DEF Halves
    <2>6. k \in 1..Len(bytes)
      BY <1>4
    <2>7. F[<<w, 1, k>>] = Walk(Divisions, bytes, w, 0)[k]
      BY <1>2, <2>5, <2>6, HalvesWalk
    <2>8. QED  BY <2>1, <2>7
  <1>5. QED  BY <1>3, <1>4

\* The register after the first k bytes, from w.
After(bytes, w, k) == Walk(Divisions, bytes, w, 0)[k]

LEMMA AfterIs ==
    ASSUME NEW bytes \in Seq(Byte), NEW w \in Word
    PROVE  /\ \A k \in 0..Len(bytes) : After(bytes, w, k) \in Word
           /\ After(bytes, w, 0) = w
           /\ \A k \in 1..Len(bytes) :
                  After(bytes, w, k) = Divide(After(bytes, w, k - 1), bytes[k])
  <1> DEFINE r == Walk(Divisions, bytes, w, 0)
  <1>1. Divisions \in Table /\ 0 \in 0..Len(bytes)
    BY DivisionsAre
  <1>2. r \in [0..Len(bytes) -> Word] /\ r[0] = w /\ Steps(Divisions, bytes, r, 0, Len(bytes))
    BY <1>1, WalkIs
  <1> HIDE DEF r
  <1>3. ASSUME NEW k \in 1..Len(bytes)
        PROVE  r[k] = Divide(r[k - 1], bytes[k])
    <2>1. k \in (0 + 1)..Len(bytes) /\ k - 1 \in 0..Len(bytes) /\ bytes[k] \in Byte
      OBVIOUS
    <2>2. r[k - 1] \in Word
      BY <1>2, <2>1
    <2>3. r[k] = Divisions[r[k - 1]][bytes[k]]
      BY <1>2, <2>1 DEF Steps
    <2>4. QED  BY <2>1, <2>2, <2>3, DivisionsAre
  <1>4. \A k \in 0..Len(bytes) : r[k] \in Word
    BY <1>2
  <1>5. QED  BY <1>2, <1>3, <1>4 DEF After, r

\* The register after the bytes of p and then of t.
LEMMA AfterConcat ==
    ASSUME NEW p \in Seq(Byte), NEW t \in Seq(Byte), NEW w \in Word
    PROVE  /\ \A j \in 0..Len(p) : After(p \o t, w, j) = After(p, w, j)
           /\ \A j \in 0..Len(t) :
                  After(p \o t, w, Len(p) + j) = After(t, After(p, w, Len(p)), j)
  <1> DEFINE q == p \o t
             m == Len(p)
             len == Len(t)
             v == After(p, w, m)
  <1>1. /\ q \in Seq(Byte) /\ Len(q) = m + len /\ m \in Nat /\ len \in Nat
        /\ \A j \in 1..m : q[j] = p[j]
        /\ \A j \in 1..len : q[m + j] = t[j]
    <2>1. q \in Seq(Byte) /\ Len(q) = m + len /\ m \in Nat /\ len \in Nat
      OBVIOUS
    <2>2. \A j \in 1..m : q[j] = p[j]
      OBVIOUS
    <2>3. ASSUME NEW j \in 1..len PROVE q[m + j] = t[j]
      <3>1. m + j \in 1..(m + len) /\ m + j > m /\ (m + j) - m = j
        BY <2>1
      <3>2. QED  BY <3>1
    <2>4. QED  BY <2>1, <2>2, <2>3
  <1> HIDE DEF q
  <1>2. ASSUME NEW j \in 0..m
        PROVE  After(q, w, j) = After(p, w, j)
    <2> DEFINE Bad == {k \in 0..m : After(q, w, k) # After(p, w, k)}
    <2>1. SUFFICES ASSUME Bad # {} PROVE FALSE
      OBVIOUS
    <2>2. Bad \in SUBSET Nat
      BY <1>1
    <2>3. PICK k \in Bad : \A y \in Bad : k <= y
      BY <2>1, <2>2, Least
    <2>4. k # 0
      BY <1>1, <2>3, AfterIs
    <2>5. k \in 1..m /\ k \in 1..Len(q) /\ k - 1 \in 0..m
      BY <1>1, <2>3, <2>4
    <2>6. After(q, w, k - 1) = After(p, w, k - 1)
      BY <2>3, <2>5
    <2>7. After(q, w, k) = Divide(After(q, w, k - 1), q[k])
      BY <1>1, <2>5, AfterIs
    <2>8. After(p, w, k) = Divide(After(p, w, k - 1), p[k])
      BY <2>5, AfterIs
    <2>9. q[k] = p[k]
      BY <1>1, <2>5
    <2>10. QED  BY <2>3, <2>6, <2>7, <2>8, <2>9
  <1>3. v \in Word /\ m \in 0..m
    BY <1>1, AfterIs
  <1>4. After(q, w, m) = v
    BY <1>2, <1>3
  <1> HIDE DEF v
  <1>5. ASSUME NEW j \in 0..len
        PROVE  After(q, w, m + j) = After(t, v, j)
    <2> DEFINE Bad == {k \in 0..len : After(q, w, m + k) # After(t, v, k)}
    <2>1. SUFFICES ASSUME Bad # {} PROVE FALSE
      OBVIOUS
    <2>2. Bad \in SUBSET Nat
      BY <1>1
    <2>3. PICK k \in Bad : \A y \in Bad : k <= y
      BY <2>1, <2>2, Least
    <2>4. k # 0
      <3>1. After(t, v, 0) = v
        BY <1>3, AfterIs
      <3>2. m + 0 = m
        BY <1>1
      <3>3. QED  BY <1>4, <2>3, <3>1, <3>2
    <2>5. k \in 1..len /\ m + k \in 1..Len(q) /\ k - 1 \in 0..len /\ (m + k) - 1 = m + (k - 1)
      BY <1>1, <2>3, <2>4
    <2>6. After(q, w, m + (k - 1)) = After(t, v, k - 1)
      BY <2>3, <2>5
    <2>7. After(q, w, m + k) = Divide(After(q, w, m + (k - 1)), q[m + k])
      <3> DEFINE e == m + k
      <3>1. e \in 1..Len(q) /\ e - 1 = m + (k - 1)
        BY <2>5
      <3> HIDE DEF e
      <3>2. After(q, w, e) = Divide(After(q, w, e - 1), q[e])
        BY <1>1, <3>1, AfterIs
      <3>3. After(q, w, e) = Divide(After(q, w, m + (k - 1)), q[e])
        BY <3>1, <3>2
      <3>4. QED  BY <3>3 DEF e
    <2>8. After(t, v, k) = Divide(After(t, v, k - 1), t[k])
      BY <1>3, <2>5, AfterIs
    <2>9. q[m + k] = t[k]
      BY <1>1, <2>5
    <2>10. QED  BY <2>3, <2>6, <2>7, <2>8, <2>9
  <1>6. QED  BY <1>2, <1>5 DEF q, v

-----------------------------------------------------------------------------
(* The bytes of a size. *)

Lower(f, size) == IF size = 0 THEN <<>> ELSE <<size % 256>> \o f[size \div 256]

LEMMA Quotient ==
    ASSUME NEW size \in Nat
    PROVE  /\ size % 256 \in Byte
           /\ size \div 256 \in 0..size
           /\ size # 0 => size \div 256 < size
  BY DEF Byte

LEMMA LowerExists == \E f \in [Nat -> Seq(Byte)] : \A size \in Nat : f[size] = Lower(f, size)
  <1> DEFINE Sol(r, m) == r \in [0..m -> Seq(Byte)] /\ \A k \in 0..m : r[k] = Lower(r, k)
             Upto(m) == \E r : Sol(r, m)
             Bad == {m \in Nat : ~Upto(m)}
  <1>1. Bad = {}
    <2>1. SUFFICES ASSUME Bad # {} PROVE FALSE
      OBVIOUS
    <2>2. PICK m \in Bad : \A y \in Bad : m <= y
      BY <2>1, Least
    <2>3. \E r \in [0..(m - 1) -> Seq(Byte)] : \A k \in 0..(m - 1) : r[k] = Lower(r, k)
      <3>1. CASE m = 0
        <4> DEFINE r == [k \in 0..(m - 1) |-> <<>>]
        <4>1. 0..(m - 1) = {}
          BY <3>1
        <4>2. r \in [0..(m - 1) -> Seq(Byte)] /\ \A k \in 0..(m - 1) : r[k] = Lower(r, k)
          BY <4>1
        <4>3. QED  BY <4>2
      <3>2. CASE m # 0
        <4>1. m \in Nat /\ m - 1 \in Nat /\ m - 1 < m
          BY <2>2, <3>2
        <4>2. Upto(m - 1)
          <5> DEFINE e == m - 1
          <5> HIDE DEF Upto, e
          <5>1. \A y \in Nat : ~Upto(y) => m <= y
            BY <2>2
          <5>2. e \in Nat /\ ~(m <= e)
            BY <4>1 DEF e
          <5>3. Upto(e)
            BY <5>1, <5>2
          <5>4. QED  BY <5>3 DEF e
        <4>3. QED  BY <4>2
      <3>3. QED  BY <3>1, <3>2
    <2>4. PICK r \in [0..(m - 1) -> Seq(Byte)] : \A k \in 0..(m - 1) : r[k] = Lower(r, k)
      BY <2>3
    <2> DEFINE q == [k \in 0..m |-> IF k = m THEN Lower(r, m) ELSE r[k]]
    <2>5. m \in Nat
      BY <2>2
    <2>6. ASSUME NEW k \in 0..m PROVE q[k] = Lower(r, k) /\ q[k] \in Seq(Byte)
      <3>1. q[k] = Lower(r, k)
        BY <2>4
      <3>2. CASE k = 0
        <4>1. Lower(r, k) = <<>>
          BY <3>2 DEF Lower
        <4>2. <<>> \in Seq(Byte)
          OBVIOUS
        <4> HIDE DEF q
        <4>3. QED  BY <3>1, <4>1, <4>2
      <3>3. CASE k # 0
        <4>1. k \in Nat
          BY <2>5
        <4>2. k \div 256 \in 0..(m - 1) /\ k % 256 \in Byte
          BY <3>3, <4>1, <2>5, Quotient
        <4> DEFINE low == k % 256
                   rest == k \div 256
        <4>3. Lower(r, k) = <<low>> \o r[rest]
          BY <3>3 DEF Lower
        <4> HIDE DEF low, rest, q
        <4>4. low \in Byte /\ rest \in 0..(m - 1)
          BY <4>2 DEF low, rest
        <4>5. r[rest] \in Seq(Byte)
          BY <4>4
        <4>6. <<low>> \o r[rest] \in Seq(Byte)
          BY <4>4, <4>5
        <4>7. QED  BY <3>1, <4>3, <4>6
      <3>4. QED  BY <3>2, <3>3
    <2>7. ASSUME NEW k \in 0..m PROVE q[k] = Lower(q, k)
      <3>1. CASE k = 0
        <4> HIDE DEF q
        <4>1. Lower(q, k) = Lower(r, k)
          BY <3>1 DEF Lower
        <4>2. QED  BY <2>6, <4>1
      <3>2. CASE k # 0
        <4>1. k \in Nat
          BY <2>5
        <4>2. k \div 256 \in 0..(m - 1)
          BY <3>2, <4>1, <2>5, Quotient
        <4>3. q[k \div 256] = r[k \div 256]
          BY <4>2, <2>5
        <4> HIDE DEF q
        <4>4. QED  BY <2>6, <4>3 DEF Lower
      <3>3. QED  BY <3>1, <3>2
    <2>8. q \in [0..m -> Seq(Byte)]
      <3> DEFINE body(k) == IF k = m THEN Lower(r, m) ELSE r[k]
      <3>1. \A k \in 0..m : q[k] = body(k)
        OBVIOUS
      <3>2. \A k \in 0..m : body(k) \in Seq(Byte)
        BY <2>6, <3>1
      <3> HIDE DEF body
      <3>3. QED  BY <3>2 DEF body
    <2> HIDE DEF q
    <2>9. Sol(q, m)
      BY <2>7, <2>8
    <2>10. QED  BY <2>2, <2>9
  <1> DEFINE sol(m) == CHOOSE r : Sol(r, m)
             f == [m \in Nat |-> sol(m)[m]]
  <1>2. ASSUME NEW m \in Nat PROVE Sol(sol(m), m)
    <2>1. Upto(m)
      BY <1>1
    <2> HIDE DEF Sol
    <2>2. QED  BY <2>1
  <1>3. ASSUME NEW m \in Nat, NEW k \in 0..m
        PROVE  sol(m)[k] = sol(k)[k]
    <2> DEFINE g == sol(m)
               h == sol(k)
               Off == {j \in 0..k : g[j] # h[j]}
    <2>1. k \in Nat
      OBVIOUS
    <2>2. Sol(g, m) /\ Sol(h, k)
      BY <1>2, <2>1
    <2> HIDE DEF g, h, sol
    <2>3. Off = {}
      <3>1. SUFFICES ASSUME Off # {} PROVE FALSE
        OBVIOUS
      <3>2. PICK j \in Off : \A y \in Off : j <= y
        <4>1. Off \in SUBSET Nat
          BY <2>1
        <4>2. QED  BY <3>1, <4>1, Least
      <3>3. g[j] = Lower(g, j) /\ h[j] = Lower(h, j) /\ j \in Nat /\ j <= k
        BY <2>1, <2>2, <3>2
      <3>4. CASE j = 0
        BY <3>2, <3>3, <3>4 DEF Lower
      <3>5. CASE j # 0
        <4>1. j \div 256 \in 0..k /\ j \div 256 < j
          BY <3>3, <3>5, Quotient
        <4>2. g[j \div 256] = h[j \div 256]
          BY <3>2, <4>1
        <4>3. QED  BY <3>2, <3>3, <4>2 DEF Lower
      <3>6. QED  BY <3>4, <3>5
    <2>4. g[k] = h[k]
      BY <2>1, <2>3
    <2>5. QED  BY <2>4 DEF g, h
  <1> HIDE DEF sol
  <1>4. ASSUME NEW m \in Nat PROVE f[m] = Lower(f, m) /\ f[m] \in Seq(Byte)
    <2> DEFINE g == sol(m)
    <2>1. m \in 0..m
      OBVIOUS
    <2>2. Sol(g, m)
      BY <1>2
    <2> HIDE DEF g
    <2>3. g[m] = Lower(g, m) /\ g[m] \in Seq(Byte)
      BY <2>1, <2>2
    <2>4. f[m] = g[m]
      BY DEF g
    <2>5. CASE m = 0
      <3> HIDE DEF f
      <3>1. QED  BY <2>3, <2>4, <2>5 DEF Lower
    <2>6. CASE m # 0
      <3>1. m \div 256 \in 0..m
        BY Quotient
      <3>2. g[m \div 256] = sol(m \div 256)[m \div 256]
        BY <1>3, <3>1 DEF g
      <3>3. m \div 256 \in Nat
        BY <3>1
      <3>4. f[m \div 256] = sol(m \div 256)[m \div 256]
        BY <3>3
      <3> HIDE DEF f
      <3>5. QED  BY <2>3, <2>4, <3>2, <3>4 DEF Lower
    <2>7. QED  BY <2>5, <2>6
  <1>5. f \in [Nat -> Seq(Byte)]
    <2> DEFINE body(m) == sol(m)[m]
    <2>1. \A m \in Nat : body(m) \in Seq(Byte)
      BY <1>4
    <2> HIDE DEF body
    <2>2. [m \in Nat |-> body(m)] \in [Nat -> Seq(Byte)]
      BY <2>1
    <2>3. QED  BY <2>2 DEF body
  <1> HIDE DEF f
  <1>6. QED  BY <1>4, <1>5

LEMMA LowerUnique ==
    ASSUME NEW f, NEW g,
           \A size \in Nat : f[size] = Lower(f, size),
           \A size \in Nat : g[size] = Lower(g, size)
    PROVE  \A size \in Nat : f[size] = g[size]
  <1> DEFINE Off == {size \in Nat : f[size] # g[size]}
  <1>1. SUFFICES ASSUME Off # {} PROVE FALSE
    OBVIOUS
  <1>2. PICK k \in Off : \A y \in Off : k <= y
    BY <1>1, Least
  <1>3. f[k] = Lower(f, k) /\ g[k] = Lower(g, k) /\ k \in Nat
    BY <1>2
  <1>4. CASE k = 0
    BY <1>2, <1>3, <1>4 DEF Lower
  <1>5. CASE k # 0
    <2>1. k \div 256 \in Nat /\ k \div 256 < k
      BY <1>3, <1>5, Quotient
    <2>2. f[k \div 256] = g[k \div 256]
      BY <1>2, <2>1
    <2>3. QED  BY <1>2, <1>3, <2>2 DEF Lower
  <1>6. QED  BY <1>4, <1>5

\* The bytes of a size, and that the loop of memcrc writes them (cksum.py 71-74).
LEMMA SizesAre ==
    ASSUME NEW size \in Nat
    PROVE  /\ BytesOf[size] \in Seq(Byte)
           /\ BytesOf[0] = <<>>
           /\ size # 0 => BytesOf[size] = <<size % 256>> \o BytesOf[size \div 256]
           /\ SizeBytes[size] = BytesOf[size]
  <1>1. PICK h \in [Nat -> Seq(Byte)] : \A k \in Nat : h[k] = Lower(h, k)
    BY LowerExists
  <1> DEFINE B(f, k) == IF k = 0 THEN <<>> ELSE <<k % 256>> \o f[k \div 256]
             S(f, k) == IF k # 0 THEN <<k % 256>> \o f[k \div 256] ELSE <<>>
  <1>2. \A f, k : B(f, k) = Lower(f, k) /\ S(f, k) = Lower(f, k)
    BY DEF Lower
  <1>3. BytesOf = CHOOSE f : f = [k \in Nat |-> B(f, k)]
    BY DEF BytesOf
  <1>4. SizeBytes = CHOOSE f : f = [k \in Nat |-> S(f, k)]
    BY DEF SizeBytes
  <1> HIDE DEF B, S
  <1>5. h = [k \in Nat |-> B(h, k)] /\ h = [k \in Nat |-> S(h, k)]
    BY <1>1, <1>2
  <1>6. BytesOf = [k \in Nat |-> B(BytesOf, k)]
    <2>1. \E f : f = [k \in Nat |-> B(f, k)]
      BY <1>5
    <2>2. QED  BY <1>3, <2>1, Zenon
  <1>7. SizeBytes = [k \in Nat |-> S(SizeBytes, k)]
    <2>1. \E f : f = [k \in Nat |-> S(f, k)]
      BY <1>5
    <2>2. QED  BY <1>4, <2>1, Zenon
  <1>8. \A k \in Nat : BytesOf[k] = Lower(BytesOf, k)
    BY <1>2, <1>6
  <1>9. \A k \in Nat : SizeBytes[k] = Lower(SizeBytes, k)
    BY <1>2, <1>7
  <1>10. \A k \in Nat : BytesOf[k] = h[k]
    BY <1>1, <1>8, LowerUnique
  <1>11. \A k \in Nat : SizeBytes[k] = BytesOf[k]
    BY <1>8, <1>9, LowerUnique
  <1>12. BytesOf[size] \in Seq(Byte)
    BY <1>1, <1>10
  <1>13. BytesOf[0] = <<>>
    <2>1. BytesOf[0] = Lower(BytesOf, 0)
      BY <1>8
    <2>2. QED  BY <2>1 DEF Lower
  <1>14. size # 0 => BytesOf[size] = <<size % 256>> \o BytesOf[size \div 256]
    <2>1. BytesOf[size] = Lower(BytesOf, size)
      BY <1>8
    <2>2. QED  BY <2>1 DEF Lower
  <1>15. QED  BY <1>11, <1>12, <1>13, <1>14

-----------------------------------------------------------------------------
(* memcrc. *)

LEMMA ComplementIsWord ==
    ASSUME NEW w \in Word
    PROVE  Complement(w) \in Word /\ (0..31) \ Complement(w) = w
  BY DEF Complement, Word

\* The register at the end of the content, and after the bytes of its size.
AfterData(bytes) == After(bytes, {}, Len(bytes))

AfterSize(w, size) == After(BytesOf[size], w, Len(BytesOf[size]))

LEMMA AfterSizeIs ==
    ASSUME NEW w \in Word, NEW size \in Nat
    PROVE  /\ AfterSize(w, size) \in Word
           /\ size = 0 => AfterSize(w, size) = w
           /\ size # 0 => AfterSize(w, size) = AfterSize(Divide(w, size % 256), size \div 256)
  <1> DEFINE t == BytesOf[size]
             rest == BytesOf[size \div 256]
             c == size % 256
             one == <<c>>
  <1>1. t \in Seq(Byte) /\ rest \in Seq(Byte) /\ c \in Byte /\ Len(t) \in 0..Len(t)
    <2>1. t \in Seq(Byte)
      BY SizesAre
    <2>2. size \div 256 \in Nat /\ c \in Byte
      BY Quotient
    <2>3. rest \in Seq(Byte)
      BY <2>2, SizesAre
    <2>4. QED  BY <2>1, <2>2, <2>3
  <1> HIDE DEF c, t
  <1>2. AfterSize(w, size) \in Word
    BY <1>1, AfterIs DEF AfterSize, t
  <1>3. ASSUME size = 0 PROVE AfterSize(w, size) = w
    <2>1. t = <<>>
      BY <1>3, SizesAre DEF t
    <2>2. Len(t) = 0
      BY <2>1
    <2>3. QED  BY <1>1, <2>2, AfterIs DEF AfterSize, t
  <1>4. ASSUME size # 0
        PROVE  AfterSize(w, size) = AfterSize(Divide(w, c), size \div 256)
    <2>1. t = one \o rest
      BY <1>4, SizesAre DEF t, c
    <2>2. one \in Seq(Byte) /\ Len(one) = 1 /\ one[1] = c
      BY <1>1
    <2> HIDE DEF one, rest
    <2>3. After(one, w, 1) = Divide(w, c)
      <3>1. 1 \in 1..Len(one) /\ 1 - 1 = 0
        BY <2>2
      <3>2. After(one, w, 1) = Divide(After(one, w, 1 - 1), one[1])
        BY <2>2, <3>1, AfterIs
      <3>3. After(one, w, 0) = w
        BY <2>2, AfterIs
      <3>4. QED  BY <2>2, <3>1, <3>2, <3>3
    <2>4. Len(t) = Len(one) + Len(rest)
      <3>1. Len(one \o rest) = Len(one) + Len(rest)
        BY <1>1, <2>2, ConcatProperties
      <3>2. QED  BY <2>1, <3>1
    <2>5. After(one \o rest, w, Len(one) + Len(rest))
            = After(rest, After(one, w, Len(one)), Len(rest))
      <3>1. Len(rest) \in 0..Len(rest)
        BY <1>1
      <3>2. QED  BY <1>1, <2>2, <3>1, AfterConcat
    <2>6. After(t, w, Len(t)) = After(rest, Divide(w, c), Len(rest))
      BY <2>1, <2>2, <2>3, <2>4, <2>5
    <2>7. QED  BY <2>6 DEF AfterSize, t, rest
  <1>5. QED  BY <1>2, <1>3, <1>4 DEF c

LEMMA PosixIs ==
    ASSUME NEW bytes \in Seq(Byte)
    PROVE  /\ AfterData(bytes) \in Word
           /\ Posix(bytes) = Complement(AfterSize(AfterData(bytes), Len(bytes)))
  <1> DEFINE size == BytesOf[Len(bytes)]
             all == bytes \o size
             m == Len(bytes)
             len == Len(size)
  <1>1. {} \in Word
    BY DEF Word
  <1>2. m \in Nat /\ m \in 0..m
    OBVIOUS
  <1>3. size \in Seq(Byte)
    BY <1>2, SizesAre
  <1>4. AfterData(bytes) \in Word
    BY <1>1, <1>2, AfterIs DEF AfterData
  <1> HIDE DEF size
  <1>5. len \in 0..len /\ all \in Seq(Byte) /\ Len(all) = m + len /\ m + len \in 0..(m + len)
    BY <1>3
  <1>6. After(all, {}, m + len) = After(size, After(bytes, {}, m), len)
    BY <1>1, <1>3, <1>5, AfterConcat
  <1> HIDE DEF all
  <1>7. Fold(Divide, {}, all, Len(all)) = After(all, {}, m + len)
    BY <1>1, <1>5, FoldDivideWalks DEF After
  <1>8. Posix(bytes) = (0..31) \ Fold(Divide, {}, all, Len(all))
    BY DEF Posix, Remainder, all, size
  <1>9. QED  BY <1>4, <1>6, <1>7, <1>8 DEF Complement, AfterSize, AfterData, size

\* For every content, of any length, the checksum of the server is the checksum
\* of POSIX (memcrc of cksum.py).
THEOREM ServerIsPosix == \A bytes \in Seq(Byte) : memcrc(bytes) = Posix(bytes)
  <1>1. TAKE bytes \in Seq(Byte)
  <1> DEFINE size == SizeBytes[Len(bytes)]
             m == Len(bytes)
             data == Fold(ServerUpdate, {}, bytes, m)
  <1>2. {} \in Word
    BY DEF Word
  <1>3. m \in Nat /\ m \in 0..m
    OBVIOUS
  <1>4. size = BytesOf[m] /\ size \in Seq(Byte)
    BY <1>3, SizesAre
  <1>5. data = AfterData(bytes)
    BY <1>2, <1>3, FoldServerWalks DEF AfterData, After
  <1>6. data \in Word
    BY <1>5, PosixIs
  <1> HIDE DEF size, data
  <1>7. Len(size) \in 0..Len(size)
    BY <1>4
  <1>8. Fold(ServerUpdate, data, size, Len(size)) = After(size, data, Len(size))
    BY <1>4, <1>6, <1>7, FoldServerWalks DEF After
  <1>9. memcrc(bytes) = Complement(Fold(ServerUpdate, data, size, Len(size)))
    BY DEF memcrc, data, size, Complement
  <1>10. memcrc(bytes) = Complement(AfterSize(data, m))
    BY <1>4, <1>8, <1>9 DEF AfterSize
  <1>11. QED  BY <1>5, <1>10, PosixIs

-----------------------------------------------------------------------------
(* The specification. *)

\* What the register will be at the end is fixed: while the size is written, it
\* is the register now and then the bytes that are left.
IInv ==
    /\ TypeOK
    /\ pc = "data" => n = Len(b) /\ s = After(b, {}, i)
    /\ pc = "size" => AfterSize(s, n) = AfterSize(AfterData(b), Len(b))
    /\ pc = "return" => s = Posix(b)

LEMMA ContentIs ==
    ASSUME b \in Contents
    PROVE  b \in Seq(Byte) /\ Len(b) \in Nat
  BY CksumConstantsOK

LEMMA InitIInv == Init => IInv
  <1> SUFFICES ASSUME Init PROVE IInv
    OBVIOUS
  <1>1. {} \in Word
    BY DEF Word
  <1>2. b \in Contents /\ b \in Seq(Byte) /\ Len(b) \in Nat
    BY ContentIs DEF Init
  <1>3. TypeOK
    BY <1>1, <1>2 DEF Init, TypeOK
  <1>4. After(b, {}, 0) = {}
    BY <1>1, <1>2, AfterIs
  <1>5. QED  BY <1>3, <1>4 DEF Init, IInv

LEMMA StepIInv == IInv /\ [Next]_vars => IInv'
  <1> SUFFICES ASSUME IInv, [Next]_vars PROVE IInv'
    OBVIOUS
  <1>1. /\ b \in Contents /\ b \in Seq(Byte) /\ Len(b) \in Nat
        /\ i \in 0..Len(b) /\ n \in 0..Len(b) /\ s \in Word
        /\ pc \in {"data", "size", "return"}
    BY ContentIs DEF IInv, TypeOK
  <1>2. {} \in Word
    BY DEF Word
  <1>3. CASE DataByte
    <2>1. /\ pc = "data" /\ i < Len(b) /\ s' = Update(s, b[i + 1]) /\ i' = i + 1
          /\ b' = b /\ n' = n /\ pc' = "data"
      BY <1>3 DEF DataByte
    <2>2. i + 1 \in 1..Len(b) /\ (i + 1) - 1 = i /\ i + 1 \in 0..Len(b)
      BY <1>1, <2>1
    <2>3. s' \in Word
      BY <1>1, <2>1, UpdateIsWord
    <2>4. s' = Divide(s, b[i + 1])
      BY <1>1, <2>1, UpdateIsDivide
    <2> DEFINE j == i + 1
    <2>5. j \in 1..Len(b) /\ j - 1 = i
      BY <2>2
    <2> HIDE DEF j
    <2>6. After(b, {}, j) = Divide(After(b, {}, j - 1), b[j])
      BY <1>1, <1>2, <2>5, AfterIs
    <2>7. s = After(b, {}, i) /\ n = Len(b)
      BY <2>1 DEF IInv
    <2>8. s' = After(b, {}, i + 1)
      BY <2>4, <2>5, <2>6, <2>7 DEF j
    <2>9. TypeOK'
      BY <1>1, <2>1, <2>2, <2>3 DEF TypeOK
    <2>10. QED  BY <2>1, <2>7, <2>8, <2>9 DEF IInv
  <1>4. CASE EndOfData
    <2>1. /\ pc = "data" /\ i = Len(b) /\ pc' = "size"
          /\ b' = b /\ i' = i /\ n' = n /\ s' = s
      BY <1>4 DEF EndOfData
    <2>2. n = Len(b) /\ s = AfterData(b)
      BY <2>1 DEF IInv, AfterData
    <2>3. TypeOK'
      BY <1>1, <2>1 DEF TypeOK
    <2>4. QED  BY <2>1, <2>2, <2>3 DEF IInv
  <1>5. CASE SizeByte
    <2>1. /\ pc = "size" /\ n # 0 /\ s' = Update(s, n % 256) /\ n' = n \div 256
          /\ b' = b /\ i' = i /\ pc' = "size"
      BY <1>5 DEF SizeByte, LowByte
    <2>2. s' = Divide(s, n % 256) /\ s' \in Word
      BY <1>1, <2>1, UpdateIsDivide, UpdateIsWord
    <2>3. n \in Nat
      BY <1>1
    <2>4. n' \in 0..Len(b)
      <3>1. n \div 256 \in 0..n
        BY <2>3, Quotient
      <3>2. QED  BY <1>1, <2>1, <3>1
    <2>5. AfterSize(s, n) = AfterSize(s', n')
      BY <1>1, <2>1, <2>2, <2>3, AfterSizeIs
    <2>6. TypeOK'
      BY <1>1, <2>1, <2>2, <2>4 DEF TypeOK
    <2>7. QED  BY <2>1, <2>5, <2>6 DEF IInv
  <1>6. CASE EndOfSize
    <2>1. /\ pc = "size" /\ n = 0 /\ s' = Complement(s) /\ pc' = "return"
          /\ b' = b /\ i' = i /\ n' = n
      BY <1>6 DEF EndOfSize
    <2>2. s' \in Word
      BY <1>1, <2>1, ComplementIsWord
    <2>3. s = AfterSize(AfterData(b), Len(b))
      <3>1. AfterSize(s, n) = AfterSize(AfterData(b), Len(b))
        BY <2>1 DEF IInv
      <3>2. n \in Nat
        BY <1>1
      <3>3. AfterSize(s, n) = s
        BY <1>1, <2>1, <3>2, AfterSizeIs
      <3>4. QED  BY <3>1, <3>3
    <2>4. s' = Posix(b)
      BY <1>1, <2>1, <2>3, PosixIs
    <2>5. TypeOK'
      BY <1>1, <2>1, <2>2 DEF TypeOK
    <2>6. Posix(b)' = Posix(b)
      BY <2>1
    <2>7. QED  BY <2>1, <2>4, <2>5, <2>6 DEF IInv
  <1>7. CASE UNCHANGED vars
    BY <1>7 DEF IInv, TypeOK, vars, After, AfterData, AfterSize
  <1>8. QED
    BY <1>3, <1>4, <1>5, <1>6, <1>7 DEF Next, Over

LEMMA AlwaysIInv == Spec => []IInv
  BY InitIInv, StepIInv, PTL DEF Spec

\* The register stays a word of 32 bits and the loops within the buffer and the
\* size (memcrc of cksum.cpp).
THEOREM TypeCorrect == Spec => []TypeOK
  <1>1. IInv => TypeOK
    BY DEF IInv
  <1>2. QED  BY <1>1, AlwaysIInv, PTL

\* At every byte of the data the register is the remainder of the division of
\* what was read (crctab and the first loop of memcrc).
THEOREM RegisterIsRemainderHolds == Spec => []RegisterIsRemainder
  <1>1. IInv => RegisterIsRemainder
    <2> SUFFICES ASSUME IInv, pc = "data" PROVE s = Remainder(b, i)
      BY DEF RegisterIsRemainder
    <2>1. b \in Seq(Byte) /\ i \in 0..Len(b) /\ s = After(b, {}, i) /\ {} \in Word
      BY ContentIs DEF IInv, TypeOK, Word
    <2>2. Fold(Divide, {}, b, i) = After(b, {}, i)
      BY <2>1, FoldDivideWalks DEF After
    <2>3. QED  BY <2>1, <2>2 DEF Remainder
  <1>2. QED  BY <1>1, AlwaysIInv, PTL

\* What the client returns for any content is the checksum of POSIX (memcrc of
\* cksum.cpp).
THEOREM ClientIsPosixHolds == Spec => []ClientIsPosix
  <1>1. IInv => ClientIsPosix
    BY DEF IInv, ClientIsPosix
  <1>2. QED  BY <1>1, AlwaysIInv, PTL

\* Client and server agree on the checksum of any content: an intact upload is
\* never refused (crctab, the shifts and the loops of cksum.cpp against those of
\* cksum.py).
THEOREM SumsAgreeHolds == Spec => []SumsAgree
  <1>1. IInv => SumsAgree
    <2> SUFFICES ASSUME IInv, pc = "return" PROVE s = memcrc(b)
      BY DEF SumsAgree
    <2>1. b \in Seq(Byte) /\ s = Posix(b)
      BY ContentIs DEF IInv, TypeOK
    <2>2. QED  BY <2>1, ServerIsPosix
  <1>2. QED  BY <1>1, AlwaysIInv, PTL

-----------------------------------------------------------------------------
(* Damage of up to four neighbouring bytes. *)

\* w and v have the same bits below a.
Same(w, v, a) == \A e \in 0..31 : e < a => (e \in w <=> e \in v)

\* A step of the division can be undone: the lowest bit of its result tells
\* whether the generator was added, as the generator ends in 1.
LEMMA ShiftBack ==
    ASSUME NEW w \in Word, NEW v \in Word, NEW p \in BOOLEAN, NEW q \in BOOLEAN,
           NEW a \in 1..32, Same(Shift(w, p), Shift(v, q), a)
    PROVE  /\ Feedback(w, p) <=> Feedback(v, q)
           /\ Same(w, v, a - 1)
  <1> DEFINE sw == Shift(w, p)
             sv == Shift(v, q)
  <1>1. \A e \in 0..31 : e \in sw <=> ~((e # 0 /\ e - 1 \in w) <=> (Feedback(w, p) /\ e \in Generator))
    BY ShiftIs
  <1>2. \A e \in 0..31 : e \in sv <=> ~((e # 0 /\ e - 1 \in v) <=> (Feedback(v, q) /\ e \in Generator))
    BY ShiftIs
  <1>3. \A e \in 0..31 : e < a => (e \in sw <=> e \in sv)
    BY DEF Same
  <1> HIDE DEF sw, sv
  <1>4. 0 \in Generator /\ 0 \in 0..31 /\ 0 < a
    BY DEF Generator
  <1>5. Feedback(w, p) <=> Feedback(v, q)
    BY <1>1, <1>2, <1>3, <1>4
  <1>6. ASSUME NEW e \in 0..31, e < a - 1
        PROVE  e \in w <=> e \in v
    <2> DEFINE d == e + 1
    <2>1. d \in 0..31 /\ d < a /\ d # 0 /\ d - 1 = e
      BY <1>6
    <2> HIDE DEF d
    <2>2. d \in sw <=> ~(e \in w <=> (Feedback(w, p) /\ d \in Generator))
      BY <1>1, <2>1
    <2>3. d \in sv <=> ~(e \in v <=> (Feedback(v, q) /\ d \in Generator))
      BY <1>2, <2>1
    <2>4. d \in sw <=> d \in sv
      BY <1>3, <2>1
    <2>5. QED  BY <1>5, <2>2, <2>3, <2>4
  <1>7. QED  BY <1>5, <1>6 DEF Same

\* The lowest byte of an entry tells which entry it is.
LEMMA LowByteTells ==
    ASSUME NEW x \in SUBSET (0..7), NEW y \in SUBSET (0..7),
           Same(ShiftIn({}, x), ShiftIn({}, y), 8)
    PROVE  x = y
  <1>1. {} \in Word
    BY DEF Word
  <1>2. PICK f : Registers(f, {}, x)
    BY <1>1, ShiftInRegisters
  <1>3. PICK g : Registers(g, {}, y)
    BY <1>1, ShiftInRegisters
  <1> DEFINE p(k) == 8 - k \in x
             q(k) == 8 - k \in y
             Back(k) == Same(f[k], g[k], k)
             Fed(k) == Feedback(f[k - 1], p(k)) <=> Feedback(g[k - 1], q(k))
  <1>4. Back(8)
    BY <1>2, <1>3 DEF Registers
  <1>5. ASSUME NEW k \in 1..8, Back(k)
        PROVE  Fed(k) /\ Back(k - 1)
    <2>1. k - 1 \in 0..8 /\ k \in 1..32
      OBVIOUS
    <2>2. f[k - 1] \in Word /\ g[k - 1] \in Word
      BY <1>2, <1>3, <2>1 DEF Registers
    <2>3. f[k] = Shift(f[k - 1], p(k)) /\ g[k] = Shift(g[k - 1], q(k))
      BY <1>2, <1>3 DEF Registers
    <2>4. p(k) \in BOOLEAN /\ q(k) \in BOOLEAN
      OBVIOUS
    <2> DEFINE pk == p(k)
               qk == q(k)
    <2> HIDE DEF p, q
    <2>5. Same(Shift(f[k - 1], pk), Shift(g[k - 1], qk), k) /\ pk \in BOOLEAN /\ qk \in BOOLEAN
      BY <1>5, <2>3, <2>4
    <2> HIDE DEF pk, qk
    <2>6. (Feedback(f[k - 1], pk) <=> Feedback(g[k - 1], qk)) /\ Same(f[k - 1], g[k - 1], k - 1)
      BY <2>1, <2>2, <2>5, ShiftBack
    <2>7. QED  BY <2>6 DEF pk, qk
  <1>6. \A k \in 1..8 : Fed(k)
    <2> HIDE DEF Back, Fed
    <2>1. ASSUME NEW k \in 0..7, NEW j \in 1..8, j = k + 1, Back(j)
          PROVE  Fed(j) /\ Back(k)
      <3>1. j - 1 = k
        BY <2>1
      <3>2. QED  BY <1>5, <2>1, <3>1
    <2>2. Fed(8) /\ Back(7)
      <3> DEFINE k == 7
                 j == 8
      <3>1. k \in 0..7 /\ j \in 1..8 /\ j = k + 1
        OBVIOUS
      <3>2. Back(j)
        BY <1>4
      <3> HIDE DEF k, j
      <3>3. Fed(j) /\ Back(k)
        BY <2>1, <3>1, <3>2
      <3>4. QED  BY <3>3 DEF k, j
    <2>3. Fed(7) /\ Back(6)
      BY <2>1, <2>2, 6 \in 0..7, 7 \in 1..8, 7 = 6 + 1
    <2>4. Fed(6) /\ Back(5)
      BY <2>1, <2>3, 5 \in 0..7, 6 \in 1..8, 6 = 5 + 1
    <2>5. Fed(5) /\ Back(4)
      BY <2>1, <2>4, 4 \in 0..7, 5 \in 1..8, 5 = 4 + 1
    <2>6. Fed(4) /\ Back(3)
      BY <2>1, <2>5, 3 \in 0..7, 4 \in 1..8, 4 = 3 + 1
    <2>7. Fed(3) /\ Back(2)
      BY <2>1, <2>6, 2 \in 0..7, 3 \in 1..8, 3 = 2 + 1
    <2>8. Fed(2) /\ Back(1)
      BY <2>1, <2>7, 1 \in 0..7, 2 \in 1..8, 2 = 1 + 1
    <2>9. Fed(1)
      BY <2>1, <2>8, 0 \in 0..7, 1 \in 1..8, 1 = 0 + 1
    <2>10. QED  BY <2>2, <2>3, <2>4, <2>5, <2>6, <2>7, <2>8, <2>9
  <1> DEFINE Forth(k) == f[k] = g[k]
  <1>7. ASSUME NEW k \in 1..8, Forth(k - 1)
        PROVE  (p(k) <=> q(k)) /\ Forth(k)
    <2>1. Fed(k)
      BY <1>6
    <2>2. p(k) <=> q(k)
      BY <1>7, <2>1 DEF Feedback
    <2>3. f[k] = Shift(f[k - 1], p(k)) /\ g[k] = Shift(g[k - 1], q(k))
      BY <1>2, <1>3 DEF Registers
    <2>4. p(k) = q(k)
      BY <2>2
    <2> HIDE DEF p, q
    <2>5. f[k] = g[k]
      BY <1>7, <2>3, <2>4
    <2>6. QED  BY <2>2, <2>5
  <1>8. \A k \in 1..8 : p(k) <=> q(k)
    <2>1. Forth(0)
      BY <1>2, <1>3 DEF Registers
    <2> DEFINE Bit(k) == p(k) <=> q(k)
    <2>2. ASSUME NEW k \in 0..7, Forth(k) PROVE Bit(k + 1) /\ Forth(k + 1)
      <3>1. k + 1 \in 1..8 /\ (k + 1) - 1 = k
        OBVIOUS
      <3> HIDE DEF p, q, Forth
      <3>2. QED  BY <1>7, <2>2, <3>1
    <2> HIDE DEF Bit, Forth
    <2>3. Bit(1) /\ Forth(1) /\ Bit(2) /\ Forth(2)
      BY <2>1, <2>2
    <2>4. Bit(3) /\ Forth(3) /\ Bit(4) /\ Forth(4)
      BY <2>2, <2>3
    <2>5. Bit(5) /\ Forth(5) /\ Bit(6) /\ Forth(6)
      BY <2>2, <2>4
    <2>6. Bit(7) /\ Forth(7) /\ Bit(8)
      BY <2>2, <2>5
    <2>7. \A k \in 1..8 : Bit(k)
      BY <2>3, <2>4, <2>5, <2>6
    <2>8. QED  BY <2>7 DEF Bit
  <1>9. ASSUME NEW e \in 0..7 PROVE e \in x <=> e \in y
    <2>1. 8 - e \in 1..8 /\ 8 - (8 - e) = e
      OBVIOUS
    <2>2. p(8 - e) <=> q(8 - e)
      BY <1>8, <2>1
    <2>3. QED  BY <2>1, <2>2
  <1>10. QED  BY <1>9

\* What two results of a byte have in common tells that the same entry was
\* added, and what the registers before had in common.
LEMMA DivideBack ==
    ASSUME NEW w \in Word, NEW v \in Word, NEW c, NEW d, NEW a \in 8..32,
           Same(Divide(w, c), Divide(v, d), a)
    PROVE  Index(w, c) = Index(v, d) /\ Same(w, v, a - 8)
  <1> DEFINE x == Index(w, c)
             y == Index(v, d)
             lw == ShiftLeft8(w)
             lv == ShiftLeft8(v)
             tx == ShiftIn({}, x)
             ty == ShiftIn({}, y)
             dw == Divide(w, c)
             dv == Divide(v, d)
  <1>1. x \in SUBSET (0..7) /\ y \in SUBSET (0..7)
    BY IndexIs
  <1>2. dw = SymDiff(lw, tx) /\ dv = SymDiff(lv, ty)
    <2>1. Bits(c, 8) \in SUBSET (0..7) /\ Bits(d, 8) \in SUBSET (0..7)
      BY BitsAre
    <2>2. QED  BY <2>1, ShiftInSplits DEF Divide, Index
  <1>3. lw \in Word /\ lv \in Word /\ tx \in Word /\ ty \in Word
    <2>1. {} \in Word
      BY DEF Word
    <2>2. \A z : ShiftIn({}, z) \in Word
      <3>1. TAKE z
      <3>2. PICK f : Registers(f, {}, z)
        BY <2>1, ShiftInRegisters
      <3>3. QED  BY <3>2 DEF Registers
    <2>3. QED  BY <2>2, ShiftLeftIsWord
  <1>4. \A e \in 0..31 : e \in lw <=> (e >= 8 /\ e - 8 \in w)
    BY BitsOfShiftLeft8
  <1>5. \A e \in 0..31 : e \in lv <=> (e >= 8 /\ e - 8 \in v)
    BY BitsOfShiftLeft8
  <1>6. \A e \in 0..31 : e < a => (e \in dw <=> e \in dv)
    BY DEF Same
  <1> HIDE DEF x, y, dw, dv, lw, lv
  <1>7. \A e : e \in dw <=> ~(e \in lw <=> e \in tx)
    BY <1>2, <1>3, XorIsWord
  <1>8. \A e : e \in dv <=> ~(e \in lv <=> e \in ty)
    BY <1>2, <1>3, XorIsWord
  <1> HIDE DEF tx, ty
  <1>9. Same(tx, ty, 8)
    <2>1. ASSUME NEW e \in 0..31, e < 8 PROVE e \in tx <=> e \in ty
      <3>1. e < a /\ ~(e \in lw) /\ ~(e \in lv)
        BY <1>4, <1>5, <2>1
      <3>2. QED  BY <1>6, <1>7, <1>8, <3>1
    <2>2. QED  BY <2>1 DEF Same
  <1>10. x = y
    BY <1>1, <1>9, LowByteTells DEF tx, ty
  <1>11. tx = ty
    BY <1>10 DEF tx, ty
  <1>12. ASSUME NEW e \in 0..31, e < a - 8 PROVE e \in w <=> e \in v
    <2> DEFINE k == e + 8
    <2>1. k \in 0..31 /\ k < a /\ k >= 8 /\ k - 8 = e
      BY <1>12
    <2> HIDE DEF k
    <2>2. k \in lw <=> k \in lv
      BY <1>6, <1>7, <1>8, <1>11, <2>1
    <2>3. QED  BY <1>4, <1>5, <2>1, <2>2
  <1>13. QED  BY <1>10, <1>12 DEF Same, x, y

LEMMA SymDiffCancels ==
    ASSUME NEW z, NEW x, NEW y, SymDiff(z, x) = SymDiff(z, y)
    PROVE  x = y
  BY DEF SymDiff

\* From one register the entry tells the byte.
LEMMA IndexTells ==
    ASSUME NEW w \in Word, NEW c \in Byte, NEW d \in Byte, Index(w, c) = Index(w, d)
    PROVE  c = d
  <1>1. Bits(c, 8) = Bits(d, 8)
    BY SymDiffCancels DEF Index
  <1>2. Number(Bits(c, 8)) = c /\ Number(Bits(d, 8)) = d
    BY BitsAreTheByte
  <1>3. QED  BY <1>1, <1>2

\* Different registers stay different whatever byte both take.
LEMMA DivideInjective ==
    ASSUME NEW w \in Word, NEW v \in Word, NEW c, Divide(w, c) = Divide(v, c)
    PROVE  w = v
  <1>1. 32 \in 8..32 /\ 32 - 8 = 24
    OBVIOUS
  <1>2. Same(Divide(w, c), Divide(v, c), 32)
    BY DEF Same
  <1>3. Index(w, c) = Index(v, c) /\ Same(w, v, 24)
    BY <1>1, <1>2, DivideBack
  <1>4. ShiftRight24(w) = ShiftRight24(v)
    <2>1. SymDiff(Bits(c, 8), ShiftRight24(w)) = SymDiff(Bits(c, 8), ShiftRight24(v))
      BY <1>3 DEF Index, SymDiff
    <2>2. QED  BY <2>1, SymDiffCancels
  <1>5. ASSUME NEW e \in 0..31 PROVE e \in w <=> e \in v
    <2>1. CASE e < 24
      BY <1>3, <2>1 DEF Same
    <2>2. CASE e >= 24
      <3> DEFINE k == e - 24
      <3>1. k \in 0..7 /\ k + 24 = e
        BY <2>2
      <3> HIDE DEF k
      <3>2. k \in ShiftRight24(w) <=> k + 24 \in w
        BY <3>1, BitsOfShiftRight24
      <3>3. k \in ShiftRight24(v) <=> k + 24 \in v
        BY <3>1, BitsOfShiftRight24
      <3>4. QED  BY <1>4, <3>1, <3>2, <3>3
    <2>3. QED  BY <2>1, <2>2
  <1>6. QED  BY <1>5, Extensional

LEMMA AfterPrefix ==
    ASSUME NEW p \in Seq(Byte), NEW t \in Seq(Byte), NEW w \in Word, NEW a \in Nat,
           a <= Len(p), a <= Len(t), \A j \in 1..a : p[j] = t[j]
    PROVE  After(p, w, a) = After(t, w, a)
  <1> DEFINE Off == {k \in 0..a : After(p, w, k) # After(t, w, k)}
  <1>1. SUFFICES ASSUME Off # {} PROVE FALSE
    OBVIOUS
  <1>2. Off \in SUBSET Nat
    OBVIOUS
  <1>3. PICK k \in Off : \A y \in Off : k <= y
    BY <1>1, <1>2, Least
  <1>4. k # 0
    BY <1>3, AfterIs
  <1>5. k \in 1..a /\ k \in 1..Len(p) /\ k \in 1..Len(t) /\ k - 1 \in 0..a
    BY <1>3, <1>4
  <1>6. After(p, w, k - 1) = After(t, w, k - 1)
    BY <1>3, <1>5
  <1>7. After(p, w, k) = Divide(After(p, w, k - 1), p[k])
    BY <1>5, AfterIs
  <1>8. After(t, w, k) = Divide(After(t, w, k - 1), t[k])
    BY <1>5, AfterIs
  <1>9. QED  BY <1>3, <1>5, <1>6, <1>7, <1>8

\* Bytes that are the same make no difference go away.
LEMMA NothingHeals ==
    ASSUME NEW p \in Seq(Byte), NEW t \in Seq(Byte), NEW w \in Word, NEW v \in Word,
           NEW a \in Nat, NEW c \in Nat, a <= c, c <= Len(p), c <= Len(t),
           \A j \in (a + 1)..c : p[j] = t[j],
           After(p, w, c) = After(t, v, c)
    PROVE  After(p, w, a) = After(t, v, a)
  <1> DEFINE differ(d) == After(p, w, c - d) # After(t, v, c - d)
             Off == {d \in 0..(c - a) : differ(d)}
  <1>1. SUFFICES ASSUME After(p, w, a) # After(t, v, a) PROVE FALSE
    OBVIOUS
  <1>2. Off # {}
    <2> DEFINE e == c - a
    <2>1. e \in 0..(c - a) /\ c - e = a
      OBVIOUS
    <2> HIDE DEF e
    <2>2. differ(e)
      BY <1>1, <2>1
    <2> HIDE DEF differ
    <2>3. QED  BY <2>1, <2>2
  <1>3. Off \in SUBSET Nat
    OBVIOUS
  <1>4. PICK d \in Off : \A y \in Off : d <= y
    BY <1>2, <1>3, Least
  <1>5. d # 0
    <2>1. c - 0 = c
      OBVIOUS
    <2>2. QED  BY <1>4, <2>1
  <1> DEFINE k == (c - d) + 1
  <1>6. /\ d \in 1..(c - a) /\ d - 1 \in 0..(c - a)
        /\ k \in (a + 1)..c /\ k \in 1..Len(p) /\ k \in 1..Len(t)
        /\ k - 1 \in 0..Len(p) /\ k - 1 \in 0..Len(t)
        /\ k - 1 = c - d /\ c - (d - 1) = k
    <2> HIDE DEF differ
    <2>1. d \in 1..(c - a)
      BY <1>4, <1>5
    <2>2. d - 1 \in 0..(c - a)
      BY <2>1
    <2>3. k \in (a + 1)..c /\ k - 1 = c - d /\ c - (d - 1) = k
      BY <2>1
    <2> HIDE DEF k, Off
    <2>4. k \in 1..Len(p) /\ k - 1 \in 0..Len(p)
      BY <2>3
    <2>5. k \in 1..Len(t) /\ k - 1 \in 0..Len(t)
      BY <2>3
    <2>6. QED  BY <2>1, <2>2, <2>3, <2>4, <2>5
  <1>7. d - 1 \notin Off
    <2> HIDE DEF Off, k
    <2>1. ~(d <= d - 1)
      BY <1>6
    <2>2. QED  BY <1>4, <2>1
  <1>8. ~differ(d - 1) /\ differ(d)
    <2> HIDE DEF differ, k
    <2>1. QED  BY <1>4, <1>6, <1>7
  <1> HIDE DEF k
  <1>9. After(p, w, k) = After(t, v, k) /\ After(p, w, k - 1) # After(t, v, k - 1)
    BY <1>6, <1>8
  <1>10. After(p, w, k) = Divide(After(p, w, k - 1), p[k])
    BY <1>6, AfterIs
  <1>11. After(t, v, k) = Divide(After(t, v, k - 1), t[k])
    BY <1>6, AfterIs
  <1>12. After(p, w, k - 1) \in Word /\ After(t, v, k - 1) \in Word
    <2>1. After(p, w, k - 1) \in Word
      BY <1>6, AfterIs
    <2>2. After(t, v, k - 1) \in Word
      BY <1>6, AfterIs
    <2>3. QED  BY <2>1, <2>2
  <1>13. p[k] = t[k]
    BY <1>6
  <1> DEFINE x == After(p, w, k - 1)
             y == After(t, v, k - 1)
  <1>14. x \in Word /\ y \in Word /\ Divide(x, p[k]) = Divide(y, p[k]) /\ x # y
    BY <1>9, <1>10, <1>11, <1>12, <1>13
  <1> HIDE DEF x, y
  <1>15. QED  BY <1>14, DivideInjective

LEMMA Differing ==
    ASSUME NEW p \in Seq(Byte), NEW t \in Seq(Byte), Len(p) = Len(t), p # t
    PROVE  \E j \in 1..Len(p) : p[j] # t[j] /\ \A k \in 1..(j - 1) : p[k] = t[k]
  <1> DEFINE Off == {j \in 1..Len(p) : p[j] # t[j]}
  <1>1. Off # {} /\ Off \in SUBSET Nat
    OBVIOUS
  <1>2. PICK j \in Off : \A y \in Off : j <= y
    BY <1>1, Least
  <1>3. ASSUME NEW k \in 1..(j - 1) PROVE p[k] = t[k]
    BY <1>2
  <1>4. QED  BY <1>2, <1>3

\* Different registers stay different over the bytes of one size.
LEMMA SizeKeeps ==
    ASSUME NEW u \in Word, NEW v \in Word, NEW n1 \in Nat,
           AfterSize(u, n1) = AfterSize(v, n1)
    PROVE  u = v
  <1> DEFINE size == BytesOf[n1]
  <1>1. size \in Seq(Byte)
    BY SizesAre
  <1>2. After(size, u, Len(size)) = After(size, v, Len(size))
    BY DEF AfterSize
  <1> HIDE DEF size
  <1>3. Len(size) \in Nat /\ 0 \in Nat /\ 0 <= Len(size)
    BY <1>1
  <1>4. After(size, u, 0) = After(size, v, 0)
    BY <1>1, <1>2, <1>3, NothingHeals
  <1>5. QED  BY <1>1, <1>4, AfterIs

\* Damage of at most four neighbouring bytes shows in the register, from any
\* register on and whatever the length: the register after the damage tells every
\* entry that was added on the way.
LEMMA RegisterShows ==
    ASSUME NEW p \in Seq(Byte), NEW t \in Seq(Byte), Damaged(p, t), NEW w \in Word
    PROVE  After(p, w, Len(p)) # After(t, w, Len(t))
  <1> DEFINE len == Len(p)
             u(j) == After(p, w, j)
             v(j) == After(t, w, j)
  <1>1. SUFFICES ASSUME After(p, w, Len(p)) = After(t, w, Len(t)) PROVE FALSE
    OBVIOUS
  <1>2. len \in Nat /\ Len(t) = len /\ p # t
    BY DEF Damaged
  <1>3. PICK k \in 1..len : \A j \in 1..len : t[j] # p[j] => j \in k..(k + 3)
    BY DEF Damaged
  <1>4. PICK m \in 1..len : p[m] # t[m] /\ \A j \in 1..(m - 1) : p[j] = t[j]
    BY <1>2, Differing
  <1>5. m \in k..(k + 3)
    BY <1>3, <1>4
  <1> DEFINE h == IF k + 3 <= len THEN k + 3 ELSE len
  <1>6. h \in m..len /\ h <= m + 3 /\ \A j \in (h + 1)..len : ~(j \in k..(k + 3)) /\ j \in 1..len
    BY <1>2, <1>4, <1>5
  <1> HIDE DEF h
  <1>7. \A j \in 0..len : u(j) \in Word /\ v(j) \in Word
    BY <1>2, AfterIs
  <1>8. \A j \in 1..len : u(j) = Divide(u(j - 1), p[j]) /\ v(j) = Divide(v(j - 1), t[j])
    BY <1>2, AfterIs
  <1>9. u(len) = v(len)
    BY <1>1, <1>2
  <1>10. u(h) = v(h)
    <2>1. h \in Nat /\ h <= len
      BY <1>2, <1>6
    <2>2. \A j \in (h + 1)..len : p[j] = t[j]
      BY <1>3, <1>6
    <2>3. len <= Len(p) /\ len <= Len(t)
      BY <1>2
    <2> HIDE DEF len
    <2>4. After(p, w, len) = After(t, w, len)
      BY <1>9
    <2>5. After(p, w, h) = After(t, w, h)
      BY <1>2, <2>1, <2>2, <2>3, <2>4, NothingHeals
    <2>6. QED  BY <2>5
  <1>11. u(m - 1) = v(m - 1)
    <2>1. m - 1 \in Nat /\ m - 1 <= len
      BY <1>2
    <2>2. QED  BY <1>2, <1>4, <2>1, AfterPrefix
  <1>12. m - 1 \in 0..len
    BY <1>2
  \* From the end of the damage back to its first byte.
  <1> DEFINE Back(d) == Same(u(h - d), v(h - d), 32 - 8 * d)
  <1>13. ASSUME NEW d \in 0..3, h - d >= m, Back(d)
         PROVE  /\ Index(u((h - d) - 1), p[h - d]) = Index(v((h - d) - 1), t[h - d])
                /\ Back(d + 1)
    <2> DEFINE j == h - d
               a == 32 - 8 * d
    <2>1. j \in 1..len /\ a \in 8..32 /\ j - 1 \in 0..len /\ h - (d + 1) = j - 1
          /\ 32 - 8 * (d + 1) = a - 8
      BY <1>2, <1>6, <1>13
    <2>2. Same(u(j), v(j), a)
      BY <1>13
    <2> HIDE DEF j, a
    <2>3. u(j) = Divide(u(j - 1), p[j]) /\ v(j) = Divide(v(j - 1), t[j])
      BY <1>8, <2>1
    <2>4. u(j - 1) \in Word /\ v(j - 1) \in Word
      BY <1>7, <2>1
    <2> HIDE DEF u, v
    <2>5. Same(Divide(u(j - 1), p[j]), Divide(v(j - 1), t[j]), a)
      BY <2>2, <2>3
    <2>6. Index(u(j - 1), p[j]) = Index(v(j - 1), t[j]) /\ Same(u(j - 1), v(j - 1), a - 8)
      BY <2>1, <2>4, <2>5, DivideBack
    <2>7. Back(d + 1)
      BY <2>1, <2>6
    <2>8. QED  BY <2>6, <2>7 DEF j
  <1>14. Back(0)
    <2>1. h - 0 = h
      BY <1>6
    <2>2. QED  BY <1>10, <2>1 DEF Same
  <1>15. h - m \in 0..3 /\ h - (h - m) = m
    BY <1>6
  <1>16. Back(h - m)
    <2> DEFINE e == h - m
    <2>1. e \in 0..3 /\ \A d \in 0..3 : h - d >= m <=> d <= e
      BY <1>6
    <2>2. ASSUME NEW d \in 0..3, d < e, Back(d) PROVE Back(d + 1)
      <3>1. h - d >= m
        BY <2>1, <2>2
      <3> HIDE DEF Back
      <3>2. QED  BY <1>13, <2>2, <3>1
    <2> HIDE DEF e, Back
    <2>3. \A d \in 0..2 : d < e /\ Back(d) => Back(d + 1)
      BY <2>2
    <2>4. e >= 1 => Back(1)
      BY <1>14, <2>1, <2>3
    <2>5. e >= 2 => Back(2)
      BY <2>1, <2>3, <2>4
    <2>6. e >= 3 => Back(3)
      BY <2>1, <2>3, <2>5
    <2>7. e = 0 \/ e = 1 \/ e = 2 \/ e = 3
      BY <2>1
    <2>8. Back(e)
      BY <1>14, <2>4, <2>5, <2>6, <2>7
    <2>9. QED  BY <2>8 DEF e
  <1>17. Index(u(m - 1), p[m]) = Index(v(m - 1), t[m])
    <2> DEFINE e == h - m
    <2>1. e \in 0..3 /\ h - e = m /\ h - e >= m /\ Back(e)
      BY <1>15, <1>16, <1>6
    <2> HIDE DEF e, Back
    <2>2. Index(u((h - e) - 1), p[h - e]) = Index(v((h - e) - 1), t[h - e])
      BY <1>13, <2>1
    <2> HIDE DEF u, v
    <2>3. QED  BY <2>1, <2>2
  <1>18. p[m] \in Byte /\ t[m] \in Byte /\ u(m - 1) \in Word
    BY <1>2, <1>7, <1>12
  <1> HIDE DEF u, v
  <1>19. QED  BY <1>4, <1>11, <1>17, <1>18, IndexTells

LEMMA DamageShows ==
    ASSUME NEW p \in Seq(Byte), NEW t \in Seq(Byte), Damaged(p, t)
    PROVE  Posix(p) # Posix(t)
  <1> DEFINE u == AfterData(p)
             v == AfterData(t)
             len == Len(p)
  <1>1. {} \in Word /\ len \in Nat /\ Len(t) = len
    BY DEF Word, Damaged
  <1>2. u # v
    BY <1>1, RegisterShows DEF AfterData
  <1>3. u \in Word /\ Posix(p) = Complement(AfterSize(u, len))
    BY PosixIs
  <1>4. v \in Word /\ Posix(t) = Complement(AfterSize(v, len))
    BY <1>1, PosixIs
  <1> HIDE DEF u, v, len
  <1>5. AfterSize(u, len) # AfterSize(v, len)
    BY <1>1, <1>2, <1>3, <1>4, SizeKeeps
  <1>6. AfterSize(u, len) \in Word /\ AfterSize(v, len) \in Word
    BY <1>1, <1>3, <1>4, AfterSizeIs
  <1> DEFINE x == AfterSize(u, len)
             y == AfterSize(v, len)
  <1>7. x \in Word /\ y \in Word /\ x # y /\ Posix(p) = Complement(x) /\ Posix(t) = Complement(y)
    BY <1>3, <1>4, <1>5, <1>6
  <1> HIDE DEF x, y
  <1>8. (0..31) \ Complement(x) = x /\ (0..31) \ Complement(y) = y
    BY <1>7, ComplementIsWord
  <1>9. QED  BY <1>7, <1>8

\* What is stored with one place of up to four bytes wrong is never taken for
\* the file: the checksum of the server differs from the one of the client
\* (memcrc of both sides, compared in handle_send_file).
THEOREM DamageIsNoticedHolds == Spec => []DamageIsNoticed
  <1>1. IInv => DamageIsNoticed
    <2> SUFFICES ASSUME IInv, pc = "return", NEW c \in Contents, Damaged(b, c)
                 PROVE  s # Sums[c]
      BY DEF DamageIsNoticed
    <2>1. b \in Seq(Byte) /\ c \in Seq(Byte) /\ s = Posix(b)
      BY ContentIs, CksumConstantsOK DEF IInv, TypeOK
    <2>2. Sums[c] = Posix(c)
      BY <2>1, ServerIsPosix DEF Sums
    <2>3. QED  BY <2>1, <2>2, DamageShows
  <1>2. QED  BY <1>1, AlwaysIInv, PTL

-----------------------------------------------------------------------------
(* Another size. *)

\* Different sizes have different bytes.
LEMMA SizesDiffer ==
    ASSUME NEW n1 \in Nat, NEW n2 \in Nat, BytesOf[n1] = BytesOf[n2]
    PROVE  n1 = n2
  <1> DEFINE Off == {x \in Nat : \E y \in Nat : y # x /\ BytesOf[x] = BytesOf[y]}
  <1>1. SUFFICES ASSUME Off # {} PROVE FALSE
    OBVIOUS
  <1>2. PICK x \in Off : \A y \in Off : x <= y
    BY <1>1, Least
  <1>3. PICK y \in Nat : y # x /\ BytesOf[x] = BytesOf[y]
    BY <1>2
  <1>4. x \in Nat
    BY <1>2
  <1>5. ASSUME NEW z \in Nat, z # 0
        PROVE  BytesOf[z] # <<>>
    <2>1. z \div 256 \in Nat /\ z % 256 \in Byte
      BY Quotient
    <2> DEFINE c == z % 256
               rest == BytesOf[z \div 256]
    <2>2. rest \in Seq(Byte) /\ c \in Byte /\ BytesOf[z] = <<c>> \o rest
      <3>1. BytesOf[z] = <<c>> \o rest
        BY <1>5, SizesAre
      <3>2. rest \in Seq(Byte)
        <4> HIDE DEF c
        <4> DEFINE k == z \div 256
        <4>1. k \in Nat
          BY <2>1
        <4> HIDE DEF k
        <4>2. BytesOf[k] \in Seq(Byte)
          BY <4>1, SizesAre
        <4>3. QED  BY <4>2 DEF k
      <3>3. QED  BY <2>1, <3>1, <3>2
    <2> HIDE DEF c, rest
    <2> DEFINE one == <<c>>
    <2>3. one \in Seq(Byte) /\ Len(one) = 1
      BY <2>2
    <2> HIDE DEF one
    <2>4. rest \in Seq(Byte)
      BY <2>2
    <2>5. Len(one \o rest) = Len(one) + Len(rest)
      BY <2>3, <2>4, ConcatProperties
    <2>6. one \o rest # <<>>
      <3>1. Len(rest) \in Nat
        BY <2>4
      <3>2. Len(<<>>) = 0
        OBVIOUS
      <3>3. QED  BY <2>3, <2>5, <3>1, <3>2
    <2>7. QED  BY <2>2, <2>6 DEF one
  <1>6. x # 0 /\ y # 0
    <2>1. BytesOf[0] = <<>>
      BY SizesAre
    <2>2. QED  BY <1>3, <1>4, <1>5, <2>1
  <1> DEFINE c == x % 256
             d == y % 256
             q == x \div 256
             r == y \div 256
  <1>7. /\ c \in Byte /\ d \in Byte /\ q \in Nat /\ r \in Nat /\ q < x
        /\ x = 256 * q + c /\ y = 256 * r + d
    <2>1. c \in Byte /\ q \in Nat /\ q < x
      <3>1. c \in Byte /\ q \in 0..x
        BY <1>4, Quotient
      <3>2. q < x
        BY <1>4, <1>6, Quotient
      <3>3. QED  BY <1>4, <3>1, <3>2
    <2>2. d \in Byte /\ r \in Nat
      <3>1. d \in Byte /\ r \in 0..y
        BY <1>3, Quotient
      <3>2. QED  BY <1>3, <3>1
    <2>3. x = 256 * q + c
      BY <1>4
    <2>4. y = 256 * r + d
      BY <1>3
    <2>5. QED  BY <2>1, <2>2, <2>3, <2>4
  <1>8. BytesOf[x] = <<c>> \o BytesOf[q] /\ BytesOf[y] = <<d>> \o BytesOf[r]
    <2>1. BytesOf[x] = <<c>> \o BytesOf[q]
      BY <1>4, <1>6, SizesAre
    <2>2. BytesOf[y] = <<d>> \o BytesOf[r]
      BY <1>3, <1>6, SizesAre
    <2>3. QED  BY <2>1, <2>2
  <1> HIDE DEF c, d, q, r
  <1>9. c = d /\ BytesOf[q] = BytesOf[r]
    <2> DEFINE u == BytesOf[q]
               v == BytesOf[r]
    <2>1. u \in Seq(Byte) /\ v \in Seq(Byte)
      BY <1>7, SizesAre
    <2>2. <<c>> \o u = <<d>> \o v
      BY <1>3, <1>8
    <2> HIDE DEF u, v
    <2>3. ASSUME NEW e \in Byte, NEW z \in Seq(Byte)
          PROVE  /\ (<<e>> \o z)[1] = e /\ Len(<<e>> \o z) = 1 + Len(z)
                 /\ \A j \in 1..Len(z) : (<<e>> \o z)[1 + j] = z[j]
      <3> DEFINE one == <<e>>
      <3>1. one \in Seq(Byte) /\ Len(one) = 1 /\ one[1] = e /\ Len(z) \in Nat
        OBVIOUS
      <3> HIDE DEF one
      <3>2. (one \o z)[1] = e /\ Len(one \o z) = 1 + Len(z)
        <4>1. Len(one \o z) = Len(one) + Len(z)
          BY <3>1, ConcatProperties
        <4>2. 1 \in 1..(Len(one) + Len(z)) /\ 1 <= Len(one)
          BY <3>1
        <4>3. (one \o z)[1] = one[1]
          BY <3>1, <4>2, ConcatProperties
        <4>4. QED  BY <3>1, <4>1, <4>3
      <3>3. ASSUME NEW j \in 1..Len(z) PROVE (one \o z)[1 + j] = z[j]
        <4> DEFINE k == 1 + j
        <4>1. k \in 1..(Len(one) + Len(z)) /\ ~(k <= Len(one)) /\ k - Len(one) = j
          BY <3>1
        <4> HIDE DEF k
        <4>2. (one \o z)[k] = z[k - Len(one)]
          BY <3>1, <4>1, ConcatProperties
        <4>3. QED  BY <4>1, <4>2 DEF k
      <3>4. QED  BY <3>2, <3>3 DEF one
    <2>4. c = d
      BY <1>7, <2>1, <2>2, <2>3
    <2>5. Len(u) = Len(v)
      <3>1. Len(<<c>> \o u) = 1 + Len(u)
        BY <1>7, <2>1, <2>3
      <3>2. Len(<<d>> \o v) = 1 + Len(v)
        BY <1>7, <2>1, <2>3
      <3>3. Len(u) \in Nat /\ Len(v) \in Nat
        BY <2>1
      <3>4. QED  BY <2>2, <3>1, <3>2, <3>3
    <2>6. \A j \in 1..Len(u) : u[j] = v[j]
      BY <1>7, <2>1, <2>2, <2>3, <2>5
    <2>7. u = v
      BY <2>1, <2>5, <2>6
    <2>8. QED  BY <2>4, <2>7 DEF u, v
  <1>10. q = r
    <2>1. ~(x <= q)
      BY <1>4, <1>7
    <2>2. q \notin Off
      BY <1>2, <2>1
    <2>3. QED  BY <1>7, <1>9, <2>2
  <1>11. QED  BY <1>3, <1>7, <1>9, <1>10

\* The bytes of a size are a place of at most four bytes.
LEMMA SizeShows ==
    ASSUME NEW p \in Seq(Byte), NEW t \in Seq(Byte), Resized(p, t),
           AfterData(p) = AfterData(t)
    PROVE  Posix(p) # Posix(t)
  <1> DEFINE w == AfterData(p)
             sp == BytesOf[Len(p)]
             st == BytesOf[Len(t)]
             x == After(sp, w, Len(sp))
             y == After(st, w, Len(st))
  <1>1. sp \in Seq(Byte) /\ st \in Seq(Byte)
    <2>1. Len(p) \in Nat /\ Len(t) \in Nat
      OBVIOUS
    <2>2. QED  BY <2>1, SizesAre
  <1>2. w \in Word /\ Posix(p) = Complement(x)
    BY PosixIs DEF AfterSize
  <1>3. Posix(t) = Complement(y)
    BY PosixIs DEF AfterSize
  <1>4. sp # st /\ Len(st) = Len(sp) /\ Len(sp) <= 4
    <2>1. Len(p) \in Nat /\ Len(t) \in Nat /\ Len(p) # Len(t)
      BY DEF Resized
    <2>2. sp # st
      BY <2>1, SizesDiffer
    <2>3. QED  BY <2>2 DEF Resized
  <1> HIDE DEF sp, st, w
  <1>5. Damaged(sp, st)
    <2>1. PICK j \in 1..Len(sp) : sp[j] # st[j]
      BY <1>1, <1>4, Differing
    <2>2. 1 \in 1..Len(sp) /\ \A k \in 1..Len(sp) : k \in 1..(1 + 3)
      BY <1>1, <1>4, <2>1
    <2>3. QED  BY <1>4, <2>2 DEF Damaged
  <1>6. x # y
    BY <1>1, <1>2, <1>5, RegisterShows
  <1>7. x \in Word /\ y \in Word
    <2>1. Len(sp) \in 0..Len(sp) /\ Len(st) \in 0..Len(st)
      BY <1>1
    <2>2. QED  BY <1>1, <1>2, <2>1, AfterIs
  <1> HIDE DEF x, y
  <1>8. (0..31) \ Complement(x) = x /\ (0..31) \ Complement(y) = y
    BY <1>7, ComplementIsWord
  <1>9. QED  BY <1>2, <1>3, <1>6, <1>8

\* What the register of the data does not show, the size shows: a file that lost
\* or gained zeros at its start, which leave the register as it is, is never
\* taken for the file (the second loop of memcrc of both sides).
THEOREM SizeIsNoticedHolds == Spec => []SizeIsNoticed
  <1>1. IInv => SizeIsNoticed
    <2> SUFFICES ASSUME IInv, pc = "return", NEW c \in Contents, Resized(b, c),
                        Remainders[c] = Remainders[b]
                 PROVE  s # Sums[c]
      BY DEF SizeIsNoticed
    <2>1. b \in Seq(Byte) /\ c \in Seq(Byte) /\ s = Posix(b) /\ b \in Contents
      BY ContentIs, CksumConstantsOK DEF IInv, TypeOK
    <2>2. Sums[c] = Posix(c)
      BY <2>1, ServerIsPosix DEF Sums
    <2>3. ASSUME NEW d \in Seq(Byte) PROVE Remainder(d, Len(d)) = AfterData(d)
      <3>1. {} \in Word /\ Len(d) \in 0..Len(d)
        BY DEF Word
      <3>2. Fold(Divide, {}, d, Len(d)) = After(d, {}, Len(d))
        BY <3>1, FoldDivideWalks DEF After
      <3>3. QED  BY <3>2 DEF Remainder, AfterData
    <2>4. AfterData(b) = AfterData(c)
      BY <2>1, <2>3 DEF Remainders
    <2>5. QED  BY <2>1, <2>2, <2>4, SizeShows
  <1>2. QED  BY <1>1, AlwaysIInv, PTL

=============================================================================
