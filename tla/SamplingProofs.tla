--------------------------- MODULE SamplingProofs ---------------------------
(***************************************************************************)
(* Proofs about modules Crc and Sampling.  First the checksums, for bytes  *)
(* and frames of every value and every length: both routines are tables    *)
(* that lose nothing, so a changed byte is always seen, and both are the   *)
(* polynomial division that the sensors make.  Then one update, for every  *)
(* world, every noise, every number of samples, polls, faults and changes  *)
(* of the lines.                                                           *)
(***************************************************************************)
(***************************************************************************)
(* Induction over a loop is here induction over a set of numbers: if a     *)
(* property failed for some turn it would fail for a least one (WFMin).    *)
(***************************************************************************)
EXTENDS Sampling, WellFoundedInduction, TLAPS

-----------------------------------------------------------------------------
(* Loops: what holds before the first turn and is kept by each, holds after. *)

\* A set of numbers that is not empty has a least one.
LEMMA Least ==
  ASSUME NEW T \in SUBSET Nat, T # {}
  PROVE  \E x \in T : \A y \in T : x <= y
<1> DEFINE R == OpToRel(<, Nat)
<1>1. IsWellFoundedOn(R, Nat)
  BY NatLessThanWellFounded
<1>2. \A x, y \in Nat : y < x => <<y, x>> \in R
  BY DEF OpToRel
<1> HIDE DEF R
<1>3. PICK x \in T : \A y \in T : ~(<<y, x>> \in R)
  BY <1>1, WFMin
<1>4. ASSUME NEW y \in T PROVE x <= y
  <2>1. ~(y < x)
    BY <1>2, <1>3
  <2>2. QED
    BY <2>1
<1>5. QED
  BY <1>4

\* Induction up to n, in a set: what holds for 0 and for the next number holds
\* for all.
LEMMA Steps ==
  ASSUME NEW n \in Nat, NEW S, 0 \in S, \A k \in 0..(n - 1) : k \in S => (k + 1) \in S
  PROVE  \A k \in 0..n : k \in S
<1> SUFFICES ASSUME NEW k \in 0..n, k \notin S PROVE FALSE
  OBVIOUS
<1> DEFINE T == {i \in 0..n : i \notin S}
<1>1. T \in SUBSET Nat /\ T # {}
  OBVIOUS
<1>2. PICK x \in T : \A y \in T : x <= y
  BY <1>1, Least
<1>3. x \in 0..n /\ x \notin S /\ x # 0
  OBVIOUS
<1>4. x - 1 \in 0..(n - 1) /\ x = (x - 1) + 1
  BY <1>3
<1>5. x - 1 \in S
  BY <1>2, <1>4
<1>6. QED
  BY <1>3, <1>4, <1>5

\* What a loop over 1..n computes.
Computes(f, n, X, c, g) ==
  f \in [0..n -> X] /\ f[0] = c /\ \A k \in 1..n : f[k] = g[<<f[k - 1], k>>]

\* The recursive functions of the model are defined: a loop of n turns
\* computes something.
LEMMA LoopExists ==
  ASSUME NEW n \in Nat, NEW X, NEW c \in X, NEW g \in [X \X (1..n) -> X]
  PROVE  \E f : Computes(f, n, X, c, g)
<1> DEFINE S == {m \in 0..n : \E f : Computes(f, m, X, c, g)}
<1>1. 0 \in S
  <2>1. Computes([k \in 0..0 |-> c], 0, X, c, g)
    BY DEF Computes
  <2>2. QED
    BY <2>1
<1>2. ASSUME NEW m \in 0..(n - 1), m \in S PROVE (m + 1) \in S
  <2>1. PICK f : Computes(f, m, X, c, g)
    BY <1>2
  <2> DEFINE h == [k \in 0..(m + 1) |-> IF k = m + 1 THEN g[<<f[m], m + 1>>] ELSE f[k]]
  <2>2. f[m] \in X /\ g[<<f[m], m + 1>>] \in X
    BY <2>1 DEF Computes
  <2>3. h \in [0..(m + 1) -> X]
    BY <2>1, <2>2 DEF Computes
  <2>4. h[0] = c
    BY <2>1 DEF Computes
  <2>5. ASSUME NEW k \in 1..(m + 1) PROVE h[k] = g[<<h[k - 1], k>>]
    <3>1. CASE k = m + 1
      <4>1. h[m + 1] = g[<<f[m], m + 1>>] /\ h[m] = f[m] /\ (m + 1) - 1 = m
        OBVIOUS
      <4>2. QED
        BY <3>1, <4>1
    <3>2. CASE k # m + 1
      <4>1. k \in 1..m /\ k \in 0..(m + 1) /\ k - 1 \in 0..(m + 1) /\ k - 1 # m + 1
        BY <3>2
      <4>2. h[k] = f[k] /\ h[k - 1] = f[k - 1]
        BY <3>2, <4>1
      <4>3. QED
        BY <2>1, <4>1, <4>2 DEF Computes
    <3>3. QED
      BY <3>1, <3>2
  <2>6. Computes(h, m + 1, X, c, g)
    BY <2>3, <2>4, <2>5 DEF Computes
  <2>7. m + 1 \in 0..n
    OBVIOUS
  <2>8. QED
    BY <2>6, <2>7
<1>3. \A k \in 0..n : k \in S
  <2> HIDE DEF S
  <2>1. QED
    BY <1>1, <1>2, Steps
<1>4. QED
  BY <1>3

\* f is what a checksum routine with the table g has after each byte of a.
Chained(f, n, c, g, a) ==
  /\ f \in [0..n -> Byte] /\ f[0] = c
  /\ \A k \in 1..n : f[k] = g[SymDiff(f[k - 1], a[k])]

\* So are the checksums.
LEMMA ChainExists ==
  ASSUME NEW n \in Nat, NEW c \in Byte, NEW g \in [Byte -> Byte], NEW a \in [1..n -> Byte]
  PROVE  \E f : Chained(f, n, c, g, a)
<1> DEFINE G == [p \in Byte \X (1..n) |-> g[SymDiff(p[1], a[p[2]])]]
<1>1. \A x \in Byte, k \in 1..n : SymDiff(x, a[k]) \in Byte
  BY DEF SymDiff, Byte
<1>2. G \in [Byte \X (1..n) -> Byte]
  BY <1>1
<1>3. \A x \in Byte, k \in 1..n : G[<<x, k>>] = g[SymDiff(x, a[k])]
  OBVIOUS
<1> HIDE DEF G
<1>4. PICK f : Computes(f, n, Byte, c, G)
  BY <1>2, LoopExists
<1>5. ASSUME NEW k \in 1..n PROVE f[k] = g[SymDiff(f[k - 1], a[k])]
  <2>1. f[k - 1] \in Byte
    BY <1>4 DEF Computes
  <2>2. QED
    BY <1>3, <1>4, <2>1 DEF Computes
<1>6. QED
  BY <1>4, <1>5 DEF Chained, Computes

\* Two runs of a routine whose table loses nothing, over bytes that differ in
\* one place, end differently: a byte that differs is never made good by the
\* bytes after it.
LEMMA ChangeStays ==
  ASSUME NEW n \in Nat, NEW c, NEW g \in [Byte -> Byte],
         \A x, y \in Byte : x # y => g[x] # g[y],
         NEW a \in [1..n -> Byte], NEW b \in [1..n -> Byte], NEW i \in 1..n,
         a[i] # b[i], \A k \in 1..n : k # i => a[k] = b[k],
         NEW f, NEW h, Chained(f, n, c, g, a), Chained(h, n, c, g, b)
  PROVE  f[n] # h[n]
<1> DEFINE S == {k \in 0..n : (f[k] = h[k]) <=> k < i}
<1>1. 0 \in S
  BY DEF Chained
<1>2. ASSUME NEW m \in 0..(n - 1), m \in S PROVE (m + 1) \in S
  <2>1. /\ m + 1 \in 1..n /\ m \in 0..n /\ (m + 1) - 1 = m
        /\ (f[m] = h[m]) <=> m < i
    BY <1>2
  <2>2. f[m] \in Byte /\ h[m] \in Byte /\ a[m + 1] \in Byte /\ b[m + 1] \in Byte
    BY <2>1 DEF Chained
  <2> DEFINE x == SymDiff(f[m], a[m + 1])
             y == SymDiff(h[m], b[m + 1])
  <2>3. x \in Byte /\ y \in Byte
    BY <2>2 DEF SymDiff, Byte
  <2>4. f[m + 1] = g[x] /\ h[m + 1] = g[y]
    BY <2>1 DEF Chained
  <2>5. /\ f[m] = h[m] /\ a[m + 1] = b[m + 1] => x = y
        /\ f[m] = h[m] /\ a[m + 1] # b[m + 1] => x # y
        /\ f[m] # h[m] /\ a[m + 1] = b[m + 1] => x # y
    BY DEF SymDiff
  <2> HIDE DEF x, y
  <2>6. (f[m + 1] = h[m + 1]) <=> x = y
    BY <2>3, <2>4
  <2>7. CASE m + 1 < i
    BY <2>1, <2>5, <2>6, <2>7
  <2>8. CASE m + 1 = i
    BY <2>1, <2>5, <2>6, <2>8
  <2>9. CASE m + 1 > i
    BY <2>1, <2>5, <2>6, <2>9
  <2>10. QED
    BY <2>7, <2>8, <2>9
<1>3. n \in S
  <2> HIDE DEF S
  <2>1. \A k \in 0..n : k \in S
    BY <1>1, <1>2, Steps
  <2>2. QED
    BY <2>1
<1>4. QED
  BY <1>3
-----------------------------------------------------------------------------
(* One bit of either checksum can be undone, so a byte of it can.            *)

\* CrcBit, bit by bit.
LEMMA CrcBitAt ==
  ASSUME NEW c \in Byte
  PROVE  /\ CrcBit(c) \in Byte
         /\ 0 \in CrcBit(c) <=> 7 \in c
         /\ \A i \in 0..6 : (i + 1) \in CrcBit(c) <=>
                               ((i \in c) # (7 \in c /\ i \in {3, 4}))
<1>1. CrcBit(c) \in Byte
  BY DEF CrcBit, Byte
<1>2. c \subseteq 0..7
  BY DEF Byte, Bits
<1>3. 0 \notin Shl(c)
  BY <1>2 DEF Shl
<1>4. ASSUME NEW i \in 0..6 PROVE (i + 1) \in Shl(c) <=> i \in c
  <2>1. (i + 1) \in Shl(c) <=> \E j \in c : i + 1 = j + 1
    BY DEF Shl
  <2>2. \A j \in c : i + 1 = j + 1 <=> i = j
    BY <1>2
  <2>3. QED
    BY <2>1, <2>2
<1>5. /\ 7 \in c => CrcBit(c) = Bits \cap SymDiff(Shl(c), polynomial)
      /\ 7 \notin c => CrcBit(c) = Bits \cap Shl(c)
  <2>1. CASE 7 \in c
    BY <2>1 DEF CrcBit
  <2>2. CASE 7 \notin c
    BY <2>2 DEF CrcBit
  <2>3. QED
    BY <2>1, <2>2
<1>6. ASSUME NEW i \in Bits
      PROVE  /\ 7 \in c => (i \in CrcBit(c) <=> ((i \in Shl(c)) # (i \in polynomial)))
             /\ 7 \notin c => (i \in CrcBit(c) <=> i \in Shl(c))
  BY <1>5 DEF SymDiff
<1>7. 0 \in CrcBit(c) <=> 7 \in c
  <2>1. 0 \in Bits /\ 0 \in polynomial
    BY DEF Bits, polynomial
  <2>2. QED
    BY <1>3, <1>6, <2>1
<1>8. ASSUME NEW i \in 0..6
      PROVE  (i + 1) \in CrcBit(c) <=> ((i \in c) # (7 \in c /\ i \in {3, 4}))
  <2>1. (i + 1) \in Bits /\ ((i + 1) \in polynomial <=> i \in {3, 4})
    BY DEF Bits, polynomial
  <2>2. QED
    BY <1>4, <1>6, <2>1
<1>9. QED
  BY <1>1, <1>7, <1>8

\* Two registers stay apart under one bit of the routine of the SHT30.
LEMMA CrcBitApart ==
  ASSUME NEW c \in Byte, NEW d \in Byte, c # d
  PROVE  CrcBit(c) # CrcBit(d)
<1> SUFFICES ASSUME CrcBit(c) = CrcBit(d) PROVE c = d
  OBVIOUS
<1>1. 7 \in c <=> 7 \in d
  BY CrcBitAt
<1>2. ASSUME NEW i \in 0..6 PROVE i \in c <=> i \in d
  <2>1. (i \in c) # (7 \in c /\ i \in {3, 4}) <=> ((i \in d) # (7 \in d /\ i \in {3, 4}))
    BY CrcBitAt
  <2>2. QED
    BY <1>1, <2>1
<1>3. ASSUME NEW i \in Bits PROVE i \in 0..6 \/ i = 7
  BY DEF Bits
<1>4. ASSUME NEW i \in Bits PROVE i \in c <=> i \in d
  BY <1>1, <1>2, <1>3
<1>5. c \subseteq Bits /\ d \subseteq Bits
  BY DEF Byte
<1>6. QED
  BY <1>4, <1>5

\* The register of calcrc_byte with the byte still to come already in it.
Merged(x) == IF 0 \in x THEN SymDiff(Shr(SymDiff(x, {3, 4})), {7}) ELSE Shr(x)

\* A shift to the right, bit by bit.
LEMMA ShrAt ==
  ASSUME NEW c \in Byte
  PROVE  /\ Shr(c) \subseteq 0..6
         /\ \A i \in 0..6 : i \in Shr(c) <=> (i + 1) \in c
<1>1. c \subseteq 0..7
  BY DEF Byte, Bits
<1>2. Shr(c) \subseteq 0..6
  BY <1>1 DEF Shr
<1>3. ASSUME NEW i \in 0..6 PROVE i \in Shr(c) <=> (i + 1) \in c
  <2>1. i \in Shr(c) <=> \E j \in c \ {0} : i = j - 1
    BY DEF Shr
  <2>2. \A j \in c : i = j - 1 <=> i + 1 = j
    BY <1>1
  <2>3. i + 1 # 0
    OBVIOUS
  <2>4. QED
    BY <2>1, <2>2, <2>3
<1>4. QED
  BY <1>2, <1>3

\* Merged, bit by bit.
LEMMA MergedAt ==
  ASSUME NEW x \in Byte
  PROVE  /\ Merged(x) \in Byte
         /\ 7 \in Merged(x) <=> 0 \in x
         /\ \A i \in 0..6 : i \in Merged(x) <=> (((i + 1) \in x) # (0 \in x /\ i \in {2, 3}))
<1>1. SymDiff(x, {3, 4}) \in Byte
  BY DEF SymDiff, Byte, Bits
<1> DEFINE y == SymDiff(x, {3, 4})
<1>2. \A i \in 0..6 : (i + 1) \in y <=> (((i + 1) \in x) # (i \in {2, 3}))
  BY DEF SymDiff
<1> HIDE DEF y
<1>3. /\ Shr(x) \subseteq 0..6 /\ Shr(y) \subseteq 0..6
      /\ \A i \in 0..6 : i \in Shr(x) <=> (i + 1) \in x
      /\ \A i \in 0..6 : i \in Shr(y) <=> (i + 1) \in y
  BY <1>1, ShrAt DEF y
<1>4. CASE 0 \in x
  <2>1. Merged(x) = SymDiff(Shr(y), {7})
    BY <1>4 DEF Merged, y
  <2>2. \A i : i \in Merged(x) <=> (i \in Shr(y)) # (i = 7)
    BY <2>1 DEF SymDiff
  <2>3. 7 \in Merged(x)
    BY <1>3, <2>2
  <2>4. Merged(x) \in Byte
    BY <1>3, <2>2 DEF Byte, Bits
  <2>5. \A i \in 0..6 : i \in Merged(x) <=> i \in Shr(y)
    BY <2>2
  <2>6. QED
    BY <1>2, <1>3, <1>4, <2>3, <2>4, <2>5
<1>5. CASE 0 \notin x
  <2>1. Merged(x) = Shr(x)
    BY <1>5 DEF Merged
  <2>2. Merged(x) \in Byte /\ 7 \notin Merged(x)
    BY <1>3, <2>1 DEF Byte, Bits
  <2>3. QED
    BY <1>3, <1>5, <2>1, <2>2
<1>6. QED
  BY <1>4, <1>5

\* Two registers stay apart under one bit of the routine of the probes.
LEMMA MergedApart ==
  ASSUME NEW x \in Byte, NEW y \in Byte, x # y
  PROVE  Merged(x) # Merged(y)
<1> SUFFICES ASSUME Merged(x) = Merged(y) PROVE x = y
  OBVIOUS
<1>1. 0 \in x <=> 0 \in y
  BY MergedAt
<1>2. ASSUME NEW i \in 0..6 PROVE (i + 1) \in x <=> (i + 1) \in y
  <2>1. ((i + 1) \in x) # (0 \in x /\ i \in {2, 3}) <=> (((i + 1) \in y) # (0 \in y /\ i \in {2, 3}))
    BY MergedAt
  <2>2. QED
    BY <1>1, <2>1
<1>3. ASSUME NEW i \in Bits PROVE i = 0 \/ (i - 1 \in 0..6 /\ i = (i - 1) + 1)
  BY DEF Bits
<1>4. ASSUME NEW i \in Bits PROVE i \in x <=> i \in y
  BY <1>1, <1>2, <1>3
<1>5. x \subseteq Bits /\ y \subseteq Bits
  BY DEF Byte
<1>6. QED
  BY <1>4, <1>5

\* A bit of calcrc_byte moves register and byte together.
LEMMA ReflectedMerges ==
  ASSUME NEW c \in Byte, NEW b \in Byte
  PROVE  LET s == ReflectedBit([crc |-> c, byte |-> b])
         IN  /\ s = [crc |-> s.crc, byte |-> Shr(b)] /\ s.crc \in Byte
             /\ SymDiff(s.crc, Shr(b)) = Merged(SymDiff(c, b))
<1> DEFINE s == ReflectedBit([crc |-> c, byte |-> b])
           x == SymDiff(c, b)
<1>1. s.byte = Shr(b) /\ s = [crc |-> s.crc, byte |-> Shr(b)]
  BY DEF ReflectedBit
<1>2. s.crc = IF (0 \in c) # (0 \in b) THEN Shr(SymDiff(c, {3, 4})) \cup {7} ELSE Shr(c)
  BY DEF ReflectedBit
<1> HIDE DEF s
<1>3. x \in Byte /\ SymDiff(c, {3, 4}) \in Byte
  BY DEF SymDiff, Byte, Bits
<1>4. \A i : i \in x <=> (i \in c) # (i \in b)
  BY DEF SymDiff
<1>5. /\ \A i \in 0..6 : i \in Shr(b) <=> (i + 1) \in b
      /\ \A i \in 0..6 : i \in Shr(c) <=> (i + 1) \in c
      /\ \A i \in 0..6 : i \in Shr(SymDiff(c, {3, 4})) <=> (((i + 1) \in c) # (i \in {2, 3}))
      /\ Shr(b) \subseteq 0..6 /\ Shr(c) \subseteq 0..6 /\ Shr(SymDiff(c, {3, 4})) \subseteq 0..6
  <2>1. \A i \in 0..6 : (i + 1) \in SymDiff(c, {3, 4}) <=> (((i + 1) \in c) # (i \in {2, 3}))
    BY DEF SymDiff
  <2>2. QED
    BY <1>3, <2>1, ShrAt
<1>6. /\ s.crc \in Byte
      /\ 7 \in s.crc <=> 0 \in x
      /\ \A i \in 0..6 : i \in s.crc <=> (((i + 1) \in c) # (0 \in x /\ i \in {2, 3}))
  <2>1. CASE 0 \in x
    <3>1. s.crc = Shr(SymDiff(c, {3, 4})) \cup {7}
      BY <1>2, <1>4, <2>1
    <3>2. QED
      BY <1>5, <2>1, <3>1 DEF Byte, Bits
  <2>2. CASE 0 \notin x
    <3>1. s.crc = Shr(c)
      BY <1>2, <1>4, <2>2
    <3>2. QED
      BY <1>5, <2>2, <3>1 DEF Byte, Bits
  <2>3. QED
    BY <2>1, <2>2
<1>7. /\ Merged(x) \in Byte
      /\ 7 \in Merged(x) <=> 0 \in x
      /\ \A i \in 0..6 : i \in Merged(x) <=> (((i + 1) \in x) # (0 \in x /\ i \in {2, 3}))
  BY <1>3, MergedAt
<1>8. ASSUME NEW i \in Bits PROVE i \in SymDiff(s.crc, Shr(b)) <=> i \in Merged(x)
  <2>1. i \in SymDiff(s.crc, Shr(b)) <=> ((i \in s.crc) # (i \in Shr(b)))
    BY DEF SymDiff
  <2>2. CASE i = 7
    BY <1>5, <1>6, <1>7, <2>1, <2>2
  <2>3. CASE i \in 0..6
    <3>1. (i + 1) \in x <=> ((i + 1) \in c) # ((i + 1) \in b)
      BY <1>4
    <3>2. QED
      BY <1>5, <1>6, <1>7, <2>1, <2>3, <3>1
  <2>4. QED
    BY <2>2, <2>3 DEF Bits
<1>9. SymDiff(s.crc, Shr(b)) \subseteq Bits /\ Merged(x) \subseteq Bits
  BY <1>5, <1>6, <1>7 DEF SymDiff, Byte, Bits
<1>10. SymDiff(s.crc, Shr(b)) = Merged(x)
  BY <1>8, <1>9
<1>11. QED
  BY <1>1, <1>6, <1>10 DEF s

-----------------------------------------------------------------------------
(* Both routines as tables of 256 bytes.                                     *)

CrcTable == [x \in Byte |-> EightTimes(CrcBit, x)]
MergedTable == [x \in Byte |-> EightTimes(Merged, x)]

\* No two bytes have the same entry in the table of the SHT30,
LEMMA CrcTableIsInjective ==
  /\ CrcTable \in [Byte -> Byte]
  /\ \A x, y \in Byte : x # y => CrcTable[x] # CrcTable[y]
<1>1. \A x \in Byte : CrcBit(x) \in Byte
  BY CrcBitAt
<1>2. \A x, y \in Byte : x # y => CrcBit(x) # CrcBit(y)
  BY CrcBitApart
<1>3. ASSUME NEW x \in Byte PROVE EightTimes(CrcBit, x) \in Byte
  BY <1>1 DEF EightTimes
<1>4. ASSUME NEW x \in Byte, NEW y \in Byte, x # y
      PROVE  EightTimes(CrcBit, x) # EightTimes(CrcBit, y)
  BY <1>1, <1>2, <1>4 DEF EightTimes
<1>5. QED
  BY <1>3, <1>4 DEF CrcTable

\* nor in the table of the probes.
LEMMA MergedTableIsInjective ==
  /\ MergedTable \in [Byte -> Byte]
  /\ \A x, y \in Byte : x # y => MergedTable[x] # MergedTable[y]
<1>1. \A x \in Byte : Merged(x) \in Byte
  BY MergedAt
<1>2. \A x, y \in Byte : x # y => Merged(x) # Merged(y)
  BY MergedApart
<1>3. ASSUME NEW x \in Byte PROVE EightTimes(Merged, x) \in Byte
  BY <1>1 DEF EightTimes
<1>4. ASSUME NEW x \in Byte, NEW y \in Byte, x # y
      PROVE  EightTimes(Merged, x) # EightTimes(Merged, y)
  BY <1>1, <1>2, <1>4 DEF EightTimes
<1>5. QED
  BY <1>3, <1>4 DEF MergedTable

\* Eight shifts leave nothing of a byte.
LEMMA ShiftedOut == ASSUME NEW b \in Byte PROVE EightTimes(Shr, b) = {}
<1>1. ASSUME NEW m \in 0..7, NEW c \in SUBSET (0..m) PROVE Shr(c) \in SUBSET (0..(m - 1))
  <2>1. \A j \in c \ {0} : j - 1 \in 0..(m - 1)
    OBVIOUS
  <2>2. QED
    BY <2>1 DEF Shr
<1> DEFINE b1 == Shr(b)
           b2 == Shr(b1)
           b3 == Shr(b2)
           b4 == Shr(b3)
           b5 == Shr(b4)
           b6 == Shr(b5)
           b7 == Shr(b6)
           b8 == Shr(b7)
<1>2. b8 = EightTimes(Shr, b)
  BY DEF EightTimes
<1>3. b \in SUBSET (0..7)
  BY DEF Byte, Bits
<1> HIDE DEF b1, b2, b3, b4, b5, b6, b7, b8
<1>4. b1 \in SUBSET (0..6)
  BY <1>1, <1>3 DEF b1
<1>5. b2 \in SUBSET (0..5)
  BY <1>1, <1>4 DEF b2
<1>6. b3 \in SUBSET (0..4)
  BY <1>1, <1>5 DEF b3
<1>7. b4 \in SUBSET (0..3)
  BY <1>1, <1>6 DEF b4
<1>8. b5 \in SUBSET (0..2)
  BY <1>1, <1>7 DEF b5
<1>9. b6 \in SUBSET (0..1)
  BY <1>1, <1>8 DEF b6
<1>10. b7 \in SUBSET (0..0)
  BY <1>1, <1>9 DEF b7
<1>11. b8 \in SUBSET (0..(-1))
  BY <1>1, <1>10 DEF b8
<1>12. b8 = {}
  BY <1>11
<1>13. QED
  BY <1>2, <1>12

\* calcrc_byte is a look-up in the table.
LEMMA CalcrcIsMerged == ASSUME NEW b \in Byte PROVE calcrc_byte(b) = MergedTable[b]
<1> DEFINE Follows(s, x, c) == /\ s = [crc |-> s.crc, byte |-> c] /\ s.crc \in Byte /\ c \in Byte
                               /\ SymDiff(s.crc, c) = x
<1>1. ASSUME NEW s, NEW x \in Byte, NEW c, Follows(s, x, c)
      PROVE  Follows(ReflectedBit(s), Merged(x), Shr(c)) /\ Merged(x) \in Byte
  <2>1. s = [crc |-> s.crc, byte |-> c] /\ s.crc \in Byte /\ c \in Byte /\ SymDiff(s.crc, c) = x
    BY <1>1
  <2>2. Shr(c) \in Byte
    BY <2>1, ShrAt DEF Byte, Bits
  <2> DEFINE r == ReflectedBit([crc |-> s.crc, byte |-> c])
  <2>3. /\ r = [crc |-> r.crc, byte |-> Shr(c)] /\ r.crc \in Byte
        /\ SymDiff(r.crc, Shr(c)) = Merged(x)
    BY <2>1, ReflectedMerges
  <2>4. ReflectedBit(s) = r
    BY <2>1
  <2> HIDE DEF r
  <2>5. QED
    BY <2>1, <2>2, <2>3, <2>4, MergedAt
<1>2. Follows([crc |-> {}, byte |-> b], b, b)
  BY DEF SymDiff, Byte
<1> HIDE DEF Follows
<1> DEFINE s0 == [crc |-> {}, byte |-> b]
           s8 == EightTimes(ReflectedBit, s0)
<1>3. Follows(s8, EightTimes(Merged, b), EightTimes(Shr, b))
  BY <1>1, <1>2 DEF EightTimes
<1>4. s8.crc \in Byte /\ SymDiff(s8.crc, {}) = EightTimes(Merged, b)
  BY <1>3, ShiftedOut DEF Follows
<1>5. SymDiff(s8.crc, {}) = s8.crc
  BY DEF SymDiff
<1>6. calcrc_byte(b) = s8.crc
  BY DEF calcrc_byte
<1> HIDE DEF s8
<1>7. QED
  BY <1>4, <1>5, <1>6 DEF MergedTable

\* Data_Crc_Check looks each byte up in turn, from 0xff,
LEMMA DataCrcChains ==
  ASSUME NEW buf \in Seq(Byte)
  PROVE  \E f : Chained(f, Len(buf), Bits, CrcTable, buf) /\ Data_Crc_Check(buf) = f[Len(buf)]
<1> DEFINE n == Len(buf)
           Def(f) == f = [k \in 0..n |-> IF k = 0 THEN Bits ELSE EightTimes(CrcBit, SymDiff(f[k - 1], buf[k]))]
<1>1. n \in Nat /\ buf \in [1..n -> Byte] /\ Bits \in Byte
  BY DEF Byte
<1>2. PICK h : Chained(h, n, Bits, CrcTable, buf)
  BY <1>1, ChainExists, CrcTableIsInjective
<1>3. ASSUME NEW k \in 1..n PROVE h[k] = EightTimes(CrcBit, SymDiff(h[k - 1], buf[k]))
  <2>1. h[k - 1] \in Byte /\ buf[k] \in Byte
    BY <1>1, <1>2 DEF Chained
  <2>2. SymDiff(h[k - 1], buf[k]) \in Byte
    BY <2>1 DEF SymDiff, Byte
  <2>3. QED
    BY <1>2, <2>2 DEF Chained, CrcTable
<1>4. Def(h)
  <2>1. h \in [0..n -> Byte] /\ h[0] = Bits
    BY <1>2 DEF Chained
  <2>2. QED
    BY <1>3, <2>1
<1> DEFINE F == CHOOSE f : Def(f)
<1>5. Def(F)
  BY <1>4
<1>6. Data_Crc_Check(buf) = F[n]
  BY DEF Data_Crc_Check
<1> HIDE DEF F
<1>7. F[0] = Bits /\ \A k \in 1..n : F[k] = EightTimes(CrcBit, SymDiff(F[k - 1], buf[k]))
  BY <1>1, <1>5
<1> DEFINE S == {k \in 0..n : F[k] = h[k]}
<1>8. \A k \in 0..n : k \in S
  <2>1. 0 \in S
    BY <1>2, <1>7 DEF Chained
  <2>2. ASSUME NEW k \in 0..(n - 1), k \in S PROVE (k + 1) \in S
    <3>1. k + 1 \in 1..n /\ (k + 1) - 1 = k /\ F[k] = h[k]
      BY <2>2
    <3>2. QED
      BY <1>3, <1>7, <3>1
  <2> HIDE DEF S
  <2>3. QED
    BY <1>1, <2>1, <2>2, Steps
<1>9. F[n] = h[n]
  BY <1>1, <1>8
<1>10. QED
  BY <1>2, <1>6, <1>9

\* and calcrc_bytes from 0.
LEMMA CalcrcChains ==
  ASSUME NEW buf \in Seq(Byte)
  PROVE  \E f : Chained(f, Len(buf), {}, MergedTable, buf) /\ calcrc_bytes(buf) = f[Len(buf)]
<1> DEFINE n == Len(buf)
           Def(f) == f = [k \in 0..n |-> IF k = 0 THEN {} ELSE calcrc_byte(SymDiff(f[k - 1], buf[k]))]
<1>1. n \in Nat /\ buf \in [1..n -> Byte] /\ {} \in Byte
  BY DEF Byte
<1>2. PICK h : Chained(h, n, {}, MergedTable, buf)
  BY <1>1, ChainExists, MergedTableIsInjective
<1>3. ASSUME NEW k \in 1..n PROVE h[k] = calcrc_byte(SymDiff(h[k - 1], buf[k]))
  <2>1. h[k - 1] \in Byte /\ buf[k] \in Byte
    BY <1>1, <1>2 DEF Chained
  <2>2. SymDiff(h[k - 1], buf[k]) \in Byte
    BY <2>1 DEF SymDiff, Byte
  <2>3. QED
    BY <1>2, <2>2, CalcrcIsMerged DEF Chained
<1>4. Def(h)
  <2>1. h \in [0..n -> Byte] /\ h[0] = {}
    BY <1>2 DEF Chained
  <2>2. QED
    BY <1>3, <2>1
<1> DEFINE F == CHOOSE f : Def(f)
<1>5. Def(F)
  BY <1>4
<1>6. calcrc_bytes(buf) = F[n]
  BY DEF calcrc_bytes
<1> HIDE DEF F
<1>7. F[0] = {} /\ \A k \in 1..n : F[k] = calcrc_byte(SymDiff(F[k - 1], buf[k]))
  <2>1. 0 \in 0..n /\ \A k \in 1..n : k \in 0..n /\ k # 0
    BY <1>1
  <2>2. F[0] = {}
    BY <1>5, <2>1
  <2>3. \A k \in 1..n : F[k] = calcrc_byte(SymDiff(F[k - 1], buf[k]))
    BY <1>5, <2>1
  <2>4. QED
    BY <2>2, <2>3
<1> DEFINE S == {k \in 0..n : F[k] = h[k]}
<1>8. \A k \in 0..n : k \in S
  <2>1. 0 \in S
    <3>1. h[0] = {} /\ F[0] = {} /\ 0 \in 0..n
      BY <1>1, <1>2, <1>7 DEF Chained
    <3>2. QED
      BY <3>1
  <2>2. ASSUME NEW k \in 0..(n - 1), k \in S PROVE (k + 1) \in S
    <3>1. k + 1 \in 1..n /\ (k + 1) - 1 = k /\ F[k] = h[k]
      BY <2>2
    <3>2. QED
      BY <1>3, <1>7, <3>1
  <2> HIDE DEF S
  <2>3. QED
    BY <1>1, <2>1, <2>2, Steps
<1>9. F[n] = h[n]
  BY <1>1, <1>8
<1>10. QED
  BY <1>2, <1>6, <1>9
-----------------------------------------------------------------------------
(* Long division is the plain routine: a turn of either clears one bit.      *)

\* The bits of c, j places up; and one turn of the long division, at bit e.
Up(c, j) == {x + j : x \in c}
Cleared(m, e) == IF e \in m THEN SymDiff(m, {e - 8, e - 4, e - 3, e}) ELSE m

\* Up, bit by bit,
LEMMA UpAt ==
  ASSUME NEW c \in Byte, NEW j \in Int, NEW x \in Int
  PROVE  x \in Up(c, j) <=> x - j \in c
<1>1. \A y \in c : y \in Int /\ (x = y + j <=> x - j = y)
  BY DEF Byte, Bits
<1>2. x \in Up(c, j) <=> \E y \in c : x = y + j
  BY DEF Up
<1>3. QED
  BY <1>1, <1>2

\* and of an exclusive or.
LEMMA UpOfBoth ==
  ASSUME NEW c \in Byte, NEW d \in Byte, NEW j \in Int
  PROVE  Up(SymDiff(c, d), j) = SymDiff(Up(c, j), Up(d, j))
<1> DEFINE x == SymDiff(c, d)
<1>1. x \in Byte
  BY DEF SymDiff, Byte
<1>2. \A y : y \in x <=> (y \in c) # (y \in d)
  BY DEF SymDiff
<1> HIDE DEF x
<1>3. ASSUME NEW e \in Int PROVE e \in Up(x, j) <=> e \in SymDiff(Up(c, j), Up(d, j))
  <2>1. /\ e \in Up(x, j) <=> e - j \in x
        /\ e \in Up(c, j) <=> e - j \in c
        /\ e \in Up(d, j) <=> e - j \in d
    BY <1>1, UpAt
  <2>2. QED
    BY <1>2, <2>1 DEF SymDiff
<1>4. (\A y \in x : y + j \in Int) /\ (\A y \in c : y + j \in Int) /\ (\A y \in d : y + j \in Int)
  BY <1>1 DEF Byte, Bits
<1>5. Up(x, j) \subseteq Int /\ Up(c, j) \subseteq Int /\ Up(d, j) \subseteq Int
  BY <1>4 DEF Up
<1>6. SymDiff(Up(c, j), Up(d, j)) \subseteq Int
  BY <1>5 DEF SymDiff
<1>7. QED
  BY <1>3, <1>5, <1>6 DEF x

\* One bit of CrcBit, on a register that stands j places up, clears the top
\* bit of the polynomial as the long division does.
LEMMA BitCleared ==
  ASSUME NEW c \in Byte, NEW j \in Nat, NEW low \in SUBSET (0..(j + 7))
  PROVE  Cleared(SymDiff(Up(c, j + 1), low), j + 8) = SymDiff(Up(CrcBit(c), j), low)
<1> DEFINE m == SymDiff(Up(c, j + 1), low)
           l == Cleared(m, j + 8)
           r == SymDiff(Up(CrcBit(c), j), low)
<1>1. /\ CrcBit(c) \in Byte
      /\ 0 \in CrcBit(c) <=> 7 \in c
      /\ \A i \in 0..6 : (i + 1) \in CrcBit(c) <=> ((i \in c) # (7 \in c /\ i \in {3, 4}))
  BY CrcBitAt
<1>2. Up(c, j + 1) \subseteq Int /\ Up(CrcBit(c), j) \subseteq Int
  <2>1. \A x \in c : x + (j + 1) \in Int
    BY DEF Byte, Bits
  <2>2. \A x \in CrcBit(c) : x + j \in Int
    BY <1>1 DEF Byte, Bits
  <2>3. QED
    BY <2>1, <2>2 DEF Up
<1>3. m \subseteq Int /\ r \subseteq Int
  <2>1. low \subseteq Int
    OBVIOUS
  <2>2. QED
    BY <1>2, <2>1 DEF SymDiff
<1>4. \A x : x \in m <=> (x \in Up(c, j + 1)) # (x \in low)
  BY DEF SymDiff
<1>5. \A x : x \in r <=> (x \in Up(CrcBit(c), j)) # (x \in low)
  BY DEF SymDiff
<1> HIDE DEF m, r
<1>6. (j + 8) \in m <=> 7 \in c
  <2>1. (j + 8) \in Up(c, j + 1) <=> 7 \in c
    <3>1. (j + 8) - (j + 1) = 7 /\ j + 8 \in Int /\ j + 1 \in Int
      OBVIOUS
    <3>2. QED
      BY <3>1, UpAt
  <2>2. (j + 8) \notin low
    OBVIOUS
  <2>3. QED
    BY <1>4, <2>1, <2>2
<1>7. ASSUME NEW x \in Int
      PROVE  x \in l <=> ((x \in m) # (7 \in c /\ x - j \in {0, 4, 5, 8}))
  <2>1. x \in {(j + 8) - 8, (j + 8) - 4, (j + 8) - 3, j + 8} <=> x - j \in {0, 4, 5, 8}
    OBVIOUS
  <2>2. CASE 7 \in c
    <3>1. l = SymDiff(m, {(j + 8) - 8, (j + 8) - 4, (j + 8) - 3, j + 8})
      BY <1>6, <2>2 DEF Cleared
    <3>2. x \in l <=> ((x \in m) # (x \in {(j + 8) - 8, (j + 8) - 4, (j + 8) - 3, j + 8}))
      BY <3>1 DEF SymDiff
    <3>3. QED
      BY <2>1, <2>2, <3>2
  <2>3. CASE 7 \notin c
    <3>1. l = m
      BY <1>6, <2>3 DEF Cleared
    <3>2. QED
      BY <2>3, <3>1
  <2>4. QED
    BY <2>2, <2>3
<1>8. ASSUME NEW d \in Int
      PROVE  ((d - 1 \in c) # (7 \in c /\ d \in {0, 4, 5, 8})) <=> d \in CrcBit(c)
  <2>1. c \subseteq 0..7 /\ CrcBit(c) \subseteq 0..7
    BY <1>1 DEF Byte, Bits
  <2>2. CASE d = 0
    BY <1>1, <2>1, <2>2
  <2>3. CASE d \in 1..7
    <3>1. d - 1 \in 0..6 /\ (d - 1) + 1 = d /\ (d \in {0, 4, 5, 8} <=> d - 1 \in {3, 4})
      BY <2>3
    <3>2. QED
      BY <1>1, <3>1
  <2>4. CASE d = 8
    <3>1. d - 1 = 7 /\ d \notin 0..7 /\ d \in {0, 4, 5, 8}
      BY <2>4
    <3>2. QED
      BY <2>1, <3>1
  <2>5. CASE d < 0 \/ d > 8
    <3>1. d - 1 \notin 0..7 /\ d \notin 0..7 /\ d \notin {0, 4, 5, 8}
      BY <2>5
    <3>2. QED
      BY <2>1, <3>1
  <2>6. QED
    BY <2>2, <2>3, <2>4, <2>5
<1>9. ASSUME NEW x \in Int PROVE x \in l <=> x \in r
  <2>1. /\ x \in Up(c, j + 1) <=> x - (j + 1) \in c
        /\ x \in Up(CrcBit(c), j) <=> x - j \in CrcBit(c)
    BY <1>1, UpAt
  <2>2. x - (j + 1) = (x - j) - 1 /\ x - j \in Int
    OBVIOUS
  <2>3. (((x - j) - 1 \in c) # (7 \in c /\ x - j \in {0, 4, 5, 8})) <=> x - j \in CrcBit(c)
    BY <1>8, <2>2
  <2>4. (x \in m <=> (x \in Up(c, j + 1)) # (x \in low)) /\ (x \in r <=> (x \in Up(CrcBit(c), j)) # (x \in low))
    BY <1>4, <1>5
  <2>5. x \in l <=> ((x \in m) # (7 \in c /\ x - j \in {0, 4, 5, 8}))
    BY <1>7
  <2> DEFINE p == (x - j) - 1 \in c
             q == 7 \in c /\ x - j \in {0, 4, 5, 8}
  <2>6. x \in Up(c, j + 1) <=> p
    BY <2>1, <2>2
  <2>7. p \in BOOLEAN /\ q \in BOOLEAN
    OBVIOUS
  <2>8. x \in Up(CrcBit(c), j) <=> p # q
    BY <2>1, <2>3
  <2>9. x \in l <=> ((x \in m) # q)
    BY <2>5
  <2> HIDE DEF p, q, l
  <2>10. QED
    BY <2>4, <2>6, <2>7, <2>8, <2>9
<1>10. l \subseteq Int
  BY <1>3 DEF Cleared, SymDiff
<1>11. l = r
  <2> HIDE DEF l
  <2>1. QED
    BY <1>3, <1>9, <1>10
<1>12. QED
  BY <1>11 DEF m, r

\* Eight turns of the long division that start at bit j + 15,
ByteTurns(left, k, j) ==
  \A i \in 1..8 : left[k + i] = Cleared(left[k + i - 1], j + 16 - i)

\* do to the byte at j what eight bits of the routine do to a register.
LEMMA ByteCleared ==
  ASSUME NEW c \in Byte, NEW j \in Nat, NEW low \in SUBSET (0..(j + 7)), NEW left, NEW k \in Nat,
         left[k] = SymDiff(Up(c, j + 8), low), ByteTurns(left, k, j)
  PROVE  left[k + 8] = SymDiff(Up(CrcTable[c], j), low)
<1> DEFINE At(i, x) == x \in Byte /\ left[k + i] = SymDiff(Up(x, j + (8 - i)), low)
<1>1. ASSUME NEW i \in 0..7, NEW x, At(i, x) PROVE At(i + 1, CrcBit(x))
  <2>1. low \in SUBSET (0..((j + (7 - i)) + 7)) /\ j + (7 - i) \in Nat
    OBVIOUS
  <2>2. left[k + (i + 1)] = Cleared(left[k + (i + 1) - 1], j + 16 - (i + 1))
    BY i + 1 \in 1..8 DEF ByteTurns
  <2>3. /\ k + (i + 1) - 1 = k + i /\ j + 16 - (i + 1) = (j + (7 - i)) + 8
        /\ j + (8 - i) = (j + (7 - i)) + 1 /\ j + (8 - (i + 1)) = j + (7 - i)
    OBVIOUS
  <2>4. left[k + i] = SymDiff(Up(x, (j + (7 - i)) + 1), low) /\ x \in Byte
    BY <1>1, <2>3
  <2>5. Cleared(left[k + i], (j + (7 - i)) + 8) = SymDiff(Up(CrcBit(x), j + (7 - i)), low)
    BY <2>1, <2>4, BitCleared
  <2>6. left[k + (i + 1)] = SymDiff(Up(CrcBit(x), j + (7 - i)), low)
    BY <2>2, <2>3, <2>5
  <2>7. QED
    BY <2>3, <2>4, <2>6, CrcBitAt
<1>2. At(0, c)
  BY k + 0 = k, j + (8 - 0) = j + 8
<1> HIDE DEF At
<1>3. At(8, EightTimes(CrcBit, c))
  <2> DEFINE c1 == CrcBit(c)
             c2 == CrcBit(c1)
             c3 == CrcBit(c2)
             c4 == CrcBit(c3)
             c5 == CrcBit(c4)
             c6 == CrcBit(c5)
             c7 == CrcBit(c6)
             c8 == CrcBit(c7)
  <2>1. At(0 + 1, c1)
    BY <1>1, <1>2
  <2>2. At(1 + 1, c2)
    BY <1>1, <2>1
  <2>3. At(2 + 1, c3)
    BY <1>1, <2>2
  <2>4. At(3 + 1, c4)
    BY <1>1, <2>3
  <2>5. At(4 + 1, c5)
    BY <1>1, <2>4
  <2>6. At(5 + 1, c6)
    BY <1>1, <2>5
  <2>7. At(6 + 1, c7)
    BY <1>1, <2>6
  <2>8. At(7 + 1, c8)
    BY <1>1, <2>7
  <2>9. c8 = EightTimes(CrcBit, c)
    BY DEF EightTimes
  <2> HIDE DEF c8
  <2>10. QED
    BY <2>8, <2>9
<1>4. left[k + 8] = SymDiff(Up(EightTimes(CrcBit, c), j + (8 - 8)), low)
  BY <1>3 DEF At
<1>5. j + (8 - 8) = j
  OBVIOUS
<1>6. QED
  BY <1>4, <1>5 DEF CrcTable

\* The message of n bytes, followed by a byte of zeros.
Message(b, n) == {e \in 8..(8 * n + 7) : e % 8 \in b[n + 1 - (e \div 8)]}
\* What of it lies below the byte after k.
Low(b, n, k) == {e \in Message(b, n) : e <= 8 * (n - k) + 7}

\* The next byte of the message, and what lies below it.
LEMMA LowSplit ==
  ASSUME NEW n \in Nat, NEW b \in [1..n -> Byte], NEW k \in 0..(n - 1)
  PROVE  /\ Low(b, n, k) = SymDiff(Up(b[k + 1], 8 * (n - k)), Low(b, n, k + 1))
         /\ Low(b, n, k + 1) \in SUBSET (0..(8 * (n - (k + 1)) + 7))
<1> DEFINE j == 8 * (n - k)
<1>1. j \in Nat /\ j >= 8 /\ b[k + 1] \in Byte /\ 8 * (n - (k + 1)) = j - 8
  OBVIOUS
<1>2. Message(b, n) \subseteq 8..(8 * n + 7)
  BY DEF Message
<1>3. ASSUME NEW e \in Int PROVE e \in Low(b, n, k) <=>
        e \in SymDiff(Up(b[k + 1], j), Low(b, n, k + 1))
  <2>1. e \in Low(b, n, k) <=> e \in Message(b, n) /\ e <= j + 7
    BY DEF Low
  <2>2. e \in Low(b, n, k + 1) <=> e \in Message(b, n) /\ e <= j - 1
    BY <1>1 DEF Low
  <2>3. e \in Up(b[k + 1], j) <=> e - j \in b[k + 1]
    BY <1>1, UpAt
  <2>4. b[k + 1] \subseteq 0..7
    BY <1>1 DEF Byte, Bits
  <2>5. CASE e \in j..(j + 7)
    <3>1. e \div 8 = n - k /\ e % 8 = e - j
      <4>1. PICK d \in 0..7 : e = 8 * (n - k) + d
        <5>1. e - j \in 0..7 /\ e = 8 * (n - k) + (e - j)
          BY <2>5
        <5>2. QED
          BY <5>1
      <4>2. QED
        BY <4>1
    <3>2. n + 1 - (e \div 8) = k + 1
      BY <3>1
    <3>3. e \in 8..(8 * n + 7)
      BY <1>1, <2>5
    <3>4. e \in Message(b, n) <=> e - j \in b[k + 1]
      BY <3>1, <3>2, <3>3 DEF Message
    <3>5. e <= j + 7 /\ ~(e <= j - 1)
      BY <2>5
    <3>6. QED
      BY <2>1, <2>2, <2>3, <3>4, <3>5 DEF SymDiff
  <2>6. CASE e \notin j..(j + 7)
    <3>1. e - j \notin 0..7
      BY <1>1, <2>6
    <3>2. e <= j + 7 <=> e <= j - 1
      BY <1>1, <2>6
    <3>3. e \notin Up(b[k + 1], j)
      BY <2>3, <2>4, <3>1
    <3>4. QED
      BY <2>1, <2>2, <3>2, <3>3 DEF SymDiff
  <2>7. QED
    BY <2>5, <2>6
<1>4. Low(b, n, k) \subseteq Int /\ Low(b, n, k + 1) \subseteq Int
  BY <1>2 DEF Low
<1>5. Up(b[k + 1], j) \subseteq Int
  <2>1. \A x \in b[k + 1] : x + j \in Int
    BY <1>1 DEF Byte, Bits
  <2>2. QED
    BY <2>1 DEF Up
<1>6. SymDiff(Up(b[k + 1], j), Low(b, n, k + 1)) \subseteq Int
  BY <1>4, <1>5 DEF SymDiff
<1>7. Low(b, n, k) = SymDiff(Up(b[k + 1], j), Low(b, n, k + 1))
  BY <1>3, <1>4, <1>6
<1>8. Low(b, n, k + 1) \in SUBSET (0..(8 * (n - (k + 1)) + 7))
  BY <1>2 DEF Low
<1>9. QED
  BY <1>7, <1>8

(***************************************************************************)
(* The checksum a sensor computes, the remainder of its message under long *)
(* division by x^8 + x^5 + x^4 + 1, is what the byte-wise loop of          *)
(* Data_Crc_Check computes from zero, for messages of every length.        *)
(***************************************************************************)
THEOREM RemainderIsChained ==
  ASSUME NEW n \in Nat, NEW b \in [1..n -> Byte], NEW f, Chained(f, n, {}, CrcTable, b)
  PROVE  Remainder(Message(b, n), 8 * n + 7) = f[n]
<1> DEFINE top == 8 * n + 7
           msg == Message(b, n)
           Sets == SUBSET Int
           Def(l) == l = [i \in 0..(top - 7) |->
                            IF i = 0 THEN msg
                            ELSE LET m == l[i - 1]
                                     e == top + 1 - i
                                 IN  IF e \in m THEN SymDiff(m, {e - 8, e - 4, e - 3, e}) ELSE m]
           g == [p \in Sets \X (1..(top - 7)) |-> Cleared(p[1], top + 1 - p[2])]
<1>1. top - 7 \in Nat /\ top - 7 = 8 * n /\ top \in Nat
  OBVIOUS
<1>2. msg \in Sets
  BY DEF Message
<1>3. g \in [Sets \X (1..(top - 7)) -> Sets]
  <2>1. ASSUME NEW m \in Sets, NEW e \in Int PROVE Cleared(m, e) \in Sets
    BY DEF Cleared, SymDiff
  <2>2. ASSUME NEW p \in Sets \X (1..(top - 7)) PROVE Cleared(p[1], top + 1 - p[2]) \in Sets
    <3>1. p[1] \in Sets /\ top + 1 - p[2] \in Int
      BY <1>1
    <3>2. QED
      BY <2>1, <3>1
  <2>3. QED
    BY <2>2
<1>4. \A m \in Sets, i \in 1..(top - 7) : g[<<m, i>>] = Cleared(m, top + 1 - i)
  OBVIOUS
<1> HIDE DEF g
<1>5. PICK h : Computes(h, top - 7, Sets, msg, g)
  BY <1>1, <1>2, <1>3, LoopExists
<1>6. ASSUME NEW i \in 1..(top - 7) PROVE h[i] = Cleared(h[i - 1], top + 1 - i)
  <2>1. h[i - 1] \in Sets
    BY <1>1, <1>5 DEF Computes
  <2>2. QED
    BY <1>4, <1>5, <2>1 DEF Computes
<1>7. Def(h)
  <2>1. h \in [0..(top - 7) -> Sets] /\ h[0] = msg
    BY <1>5 DEF Computes
  <2>2. h = [i \in 0..(top - 7) |-> IF i = 0 THEN msg ELSE Cleared(h[i - 1], top + 1 - i)]
    <3> HIDE DEF top, msg, Sets
    <3>1. \A i \in 0..(top - 7) : i # 0 => i \in 1..(top - 7)
      BY <1>1
    <3>2. QED
      BY <1>6, <2>1, <3>1
  <2>3. QED
    BY <2>2 DEF Cleared
<1> DEFINE L == CHOOSE l : Def(l)
<1>8. Def(L)
  BY <1>7
<1>9. Remainder(msg, top) = L[top - 7]
  BY DEF Remainder
<1> HIDE DEF L
<1>10. /\ L[0] = msg
       /\ \A i \in 1..(8 * n) : L[i] = Cleared(L[i - 1], 8 * n + 8 - i)
  <2>1. 0 \in 0..(top - 7) /\ \A i \in 1..(8 * n) : i \in 0..(top - 7) /\ i # 0 /\ top + 1 - i = 8 * n + 8 - i
    BY <1>1
  <2>2. L[0] = msg
    BY <1>8, <2>1
  <2>3. ASSUME NEW i \in 1..(8 * n) PROVE L[i] = Cleared(L[i - 1], top + 1 - i)
    BY <1>8, <2>1 DEF Cleared
  <2>4. QED
    BY <2>1, <2>2, <2>3
<1> HIDE DEF top, msg
<1> DEFINE S == {k \in 0..n : L[8 * k] = SymDiff(Up(f[k], 8 * (n - k)), Low(b, n, k))}
<1>11. 0 \in S
  <2>1. f[0] = {} /\ Up({}, 8 * (n - 0)) = {}
    BY DEF Chained, Up
  <2>2. Low(b, n, 0) = msg
    BY DEF Low, Message, msg
  <2>3. SymDiff({}, msg) = msg
    BY DEF SymDiff
  <2>4. L[8 * 0] = msg
    BY <1>10
  <2>5. L[8 * 0] = SymDiff(Up(f[0], 8 * (n - 0)), Low(b, n, 0))
    BY <2>1, <2>2, <2>3, <2>4
  <2>6. QED
    BY <2>5
<1>12. ASSUME NEW k \in 0..(n - 1), k \in S PROVE (k + 1) \in S
  <2> DEFINE j == 8 * (n - (k + 1))
             low == Low(b, n, k + 1)
             x == SymDiff(f[k], b[k + 1])
  <2>1. j \in Nat /\ j + 8 = 8 * (n - k) /\ 8 * k + 8 = 8 * (k + 1) /\ 8 * k \in Nat
    OBVIOUS
  <2>2. /\ Low(b, n, k) = SymDiff(Up(b[k + 1], j + 8), low)
        /\ low \in SUBSET (0..(j + 7))
    BY <2>1, LowSplit
  <2>3. f[k] \in Byte /\ b[k + 1] \in Byte /\ x \in Byte /\ f[k + 1] = CrcTable[x]
    <3>1. k \in 0..n /\ k + 1 \in 1..n /\ (k + 1) - 1 = k
      OBVIOUS
    <3>2. f[k] \in Byte /\ b[k + 1] \in Byte /\ f[k + 1] = CrcTable[x]
      BY <3>1 DEF Chained
    <3>3. QED
      BY <3>2 DEF SymDiff, Byte
  <2>4. L[8 * k] = SymDiff(Up(x, j + 8), low)
    <3>1. L[8 * k] = SymDiff(Up(f[k], j + 8), SymDiff(Up(b[k + 1], j + 8), low))
      BY <1>12, <2>1, <2>2
    <3>2. Up(x, j + 8) = SymDiff(Up(f[k], j + 8), Up(b[k + 1], j + 8))
      BY <2>1, <2>3, UpOfBoth
    <3>3. \A p, q, r : SymDiff(p, SymDiff(q, r)) = SymDiff(SymDiff(p, q), r)
      BY DEF SymDiff
    <3>4. QED
      BY <3>1, <3>2, <3>3
  <2> DEFINE d == 8 * k
  <2>5. ASSUME NEW i \in 1..8 PROVE L[d + i] = Cleared(L[d + i - 1], j + 16 - i)
    <3>1. 8 * k + i \in 1..(8 * n) /\ 8 * n + 8 - (8 * k + i) = j + 16 - i
      OBVIOUS
    <3>2. QED
      BY <1>10, <3>1
  <2>6. d \in Nat
    BY <2>1
  <2> HIDE DEF d, j, low, x
  <2>7. L[d + 8] = SymDiff(Up(CrcTable[x], j), low)
    <3>1. L[d] = SymDiff(Up(x, j + 8), low)
      BY <2>4 DEF d
    <3>2. ByteTurns(L, d, j)
      BY <2>5 DEF ByteTurns
    <3>3. j \in Nat /\ x \in Byte /\ low \in SUBSET (0..(j + 7))
      BY <2>1, <2>2, <2>3
    <3>4. QED
      BY <2>6, <3>1, <3>2, <3>3, ByteCleared
  <2>8. L[8 * (k + 1)] = SymDiff(Up(f[k + 1], 8 * (n - (k + 1))), Low(b, n, k + 1))
    BY <2>1, <2>3, <2>7 DEF d, j, low
  <2>9. k + 1 \in 0..n
    OBVIOUS
  <2>10. QED
    BY <2>8, <2>9
<1>13. n \in S
  <2> HIDE DEF S
  <2>1. \A k \in 0..n : k \in S
    BY <1>11, <1>12, Steps
  <2>2. QED
    BY <2>1
<1>14. L[8 * n] = SymDiff(Up(f[n], 8 * (n - n)), Low(b, n, n))
  BY <1>13
<1>15. Low(b, n, n) = {}
  BY DEF Low, Message
<1>16. Up(f[n], 8 * (n - n)) = f[n]
  <2>1. f[n] \in Byte /\ 8 * (n - n) = 0
    BY DEF Chained
  <2>2. \A y \in f[n] : y + 0 = y
    BY <2>1 DEF Byte, Bits
  <2>3. QED
    BY <2>1, <2>2 DEF Up
<1>17. SymDiff(f[n], {}) = f[n]
  BY DEF SymDiff
<1>18. QED
  BY <1>1, <1>9, <1>14, <1>15, <1>16, <1>17 DEF top, msg
-----------------------------------------------------------------------------
(* The routine of the probes is the other one in the mirror.                 *)

Mirror(x) == {7 - i : i \in x}

\* Mirror, bit by bit,
LEMMA MirrorAt ==
  ASSUME NEW x \in Byte
  PROVE  Mirror(x) \in Byte /\ \A i \in Bits : i \in Mirror(x) <=> 7 - i \in x
<1>1. \A k \in x : k \in 0..7 /\ 7 - k \in 0..7
  BY DEF Byte, Bits
<1>2. Mirror(x) \in Byte
  BY <1>1 DEF Mirror, Byte, Bits
<1>3. ASSUME NEW i \in Bits PROVE i \in Mirror(x) <=> 7 - i \in x
  <2>1. i \in Mirror(x) <=> \E k \in x : i = 7 - k
    BY DEF Mirror
  <2>2. i \in Int /\ \A k \in x : (i = 7 - k) <=> (7 - i = k)
    BY <1>1 DEF Bits
  <2>3. QED
    BY <2>1, <2>2
<1>4. QED
  BY <1>2, <1>3

\* of an exclusive or,
LEMMA MirrorOfBoth ==
  ASSUME NEW x \in Byte, NEW y \in Byte
  PROVE  Mirror(SymDiff(x, y)) = SymDiff(Mirror(x), Mirror(y))
<1> DEFINE z == SymDiff(x, y)
<1>1. z \in Byte /\ \A i : i \in z <=> (i \in x) # (i \in y)
  BY DEF SymDiff, Byte
<1> HIDE DEF z
<1>2. /\ Mirror(x) \in Byte /\ Mirror(y) \in Byte /\ Mirror(z) \in Byte
      /\ \A i \in Bits : i \in Mirror(x) <=> 7 - i \in x
      /\ \A i \in Bits : i \in Mirror(y) <=> 7 - i \in y
      /\ \A i \in Bits : i \in Mirror(z) <=> 7 - i \in z
  BY <1>1, MirrorAt
<1>3. ASSUME NEW i \in Bits PROVE i \in Mirror(z) <=> i \in SymDiff(Mirror(x), Mirror(y))
  BY <1>1, <1>2 DEF SymDiff
<1>4. Mirror(z) \subseteq Bits /\ SymDiff(Mirror(x), Mirror(y)) \subseteq Bits
  BY <1>2 DEF SymDiff, Byte
<1>5. QED
  BY <1>3, <1>4 DEF z

\* and twice.
LEMMA MirrorTwice == ASSUME NEW x \in Byte PROVE Mirror(Mirror(x)) = x
<1>1. /\ Mirror(x) \in Byte /\ Mirror(Mirror(x)) \in Byte
      /\ \A i \in Bits : i \in Mirror(x) <=> 7 - i \in x
      /\ \A i \in Bits : i \in Mirror(Mirror(x)) <=> 7 - i \in Mirror(x)
  BY MirrorAt
<1>2. ASSUME NEW i \in Bits PROVE i \in Mirror(Mirror(x)) <=> i \in x
  <2>1. 7 - i \in Bits /\ 7 - (7 - i) = i
    BY DEF Bits
  <2>2. QED
    BY <1>1, <2>1
<1>3. x \subseteq Bits /\ Mirror(Mirror(x)) \subseteq Bits
  BY <1>1 DEF Byte
<1>4. QED
  BY <1>2, <1>3

\* One bit of one routine is one bit of the other in the mirror,
LEMMA BitMirrored == ASSUME NEW x \in Byte PROVE CrcBit(Mirror(x)) = Mirror(Merged(x))
<1> DEFINE y == Mirror(x)
           z == Merged(x)
<1>1. /\ y \in Byte /\ \A i \in Bits : i \in y <=> 7 - i \in x
  BY MirrorAt
<1>2. /\ z \in Byte
      /\ 7 \in z <=> 0 \in x
      /\ \A i \in 0..6 : i \in z <=> (((i + 1) \in x) # (0 \in x /\ i \in {2, 3}))
  BY MergedAt
<1> HIDE DEF y, z
<1>3. /\ CrcBit(y) \in Byte
      /\ 0 \in CrcBit(y) <=> 7 \in y
      /\ \A i \in 0..6 : (i + 1) \in CrcBit(y) <=> ((i \in y) # (7 \in y /\ i \in {3, 4}))
  BY <1>1, CrcBitAt
<1>4. /\ Mirror(z) \in Byte /\ \A i \in Bits : i \in Mirror(z) <=> 7 - i \in z
  BY <1>2, MirrorAt
<1>5. 7 \in y <=> 0 \in x
  <2>1. 7 \in Bits /\ 7 - 7 = 0
    BY DEF Bits
  <2>2. QED
    BY <1>1, <2>1
<1>6. 0 \in CrcBit(y) <=> 0 \in Mirror(z)
  <2>1. 0 \in Bits /\ 7 - 0 = 7
    BY DEF Bits
  <2>2. QED
    BY <1>2, <1>3, <1>4, <1>5, <2>1
<1>7. ASSUME NEW i \in 0..6 PROVE (i + 1) \in CrcBit(y) <=> (i + 1) \in Mirror(z)
  <2>1. /\ i + 1 \in Bits /\ i \in Bits /\ 7 - (i + 1) = 6 - i /\ 6 - i \in 0..6
        /\ (6 - i) + 1 = 7 - i /\ (i \in {3, 4} <=> 6 - i \in {2, 3})
    BY DEF Bits
  <2>2. (i + 1) \in Mirror(z) <=> 6 - i \in z
    BY <1>4, <2>1
  <2>3. 6 - i \in z <=> ((7 - i \in x) # (0 \in x /\ 6 - i \in {2, 3}))
    BY <1>2, <2>1
  <2>4. i \in y <=> 7 - i \in x
    BY <1>1, <2>1
  <2>5. (i + 1) \in CrcBit(y) <=> ((i \in y) # (7 \in y /\ i \in {3, 4}))
    BY <1>3
  <2>6. QED
    BY <1>5, <2>1, <2>2, <2>3, <2>4, <2>5
<1>8. ASSUME NEW i \in Bits PROVE i \in CrcBit(y) <=> i \in Mirror(z)
  <2>1. i = 0 \/ (i - 1 \in 0..6 /\ i = (i - 1) + 1)
    BY DEF Bits
  <2>2. QED
    BY <1>6, <1>7, <2>1
<1>9. CrcBit(y) \subseteq Bits /\ Mirror(z) \subseteq Bits
  BY <1>3, <1>4 DEF Byte
<1>10. CrcBit(y) = Mirror(z)
  BY <1>8, <1>9
<1>11. QED
  BY <1>10 DEF y, z

\* so is a byte,
LEMMA TableMirrored == ASSUME NEW x \in Byte PROVE CrcTable[Mirror(x)] = Mirror(MergedTable[x])
<1> DEFINE x1 == Merged(x)
           x2 == Merged(x1)
           x3 == Merged(x2)
           x4 == Merged(x3)
           x5 == Merged(x4)
           x6 == Merged(x5)
           x7 == Merged(x6)
           x8 == Merged(x7)
<1>1. x8 = EightTimes(Merged, x)
  BY DEF EightTimes
<1> HIDE DEF x1, x2, x3, x4, x5, x6, x7, x8
<1>2. /\ x1 \in Byte /\ x2 \in Byte /\ x3 \in Byte /\ x4 \in Byte
      /\ x5 \in Byte /\ x6 \in Byte /\ x7 \in Byte /\ x8 \in Byte
  BY MergedAt DEF x1, x2, x3, x4, x5, x6, x7, x8
<1>3. /\ CrcBit(Mirror(x)) = Mirror(x1) /\ CrcBit(Mirror(x1)) = Mirror(x2)
      /\ CrcBit(Mirror(x2)) = Mirror(x3) /\ CrcBit(Mirror(x3)) = Mirror(x4)
      /\ CrcBit(Mirror(x4)) = Mirror(x5) /\ CrcBit(Mirror(x5)) = Mirror(x6)
      /\ CrcBit(Mirror(x6)) = Mirror(x7) /\ CrcBit(Mirror(x7)) = Mirror(x8)
  BY <1>2, BitMirrored DEF x1, x2, x3, x4, x5, x6, x7, x8
<1>4. EightTimes(CrcBit, Mirror(x)) = Mirror(x8)
  BY <1>3 DEF EightTimes
<1>5. Mirror(x) \in Byte
  BY MirrorAt
<1>6. CrcTable[Mirror(x)] = Mirror(x8)
  BY <1>4, <1>5 DEF CrcTable
<1>7. MergedTable[x] = x8
  BY <1>1 DEF MergedTable
<1>8. QED
  BY <1>6, <1>7

\* and so is a run over bytes.
LEMMA ChainMirrored ==
  ASSUME NEW n \in Nat, NEW a \in [1..n -> Byte], NEW f, Chained(f, n, {}, MergedTable, a)
  PROVE  Chained([k \in 0..n |-> Mirror(f[k])], n, {}, CrcTable, [k \in 1..n |-> Mirror(a[k])])
<1> DEFINE h == [k \in 0..n |-> Mirror(f[k])]
           b == [k \in 1..n |-> Mirror(a[k])]
<1>1. f \in [0..n -> Byte] /\ f[0] = {} /\ \A k \in 1..n : f[k] = MergedTable[SymDiff(f[k - 1], a[k])]
  BY DEF Chained
<1>2. h \in [0..n -> Byte]
  BY <1>1, MirrorAt
<1>3. h[0] = {}
  <2>1. h[0] = Mirror(f[0]) /\ f[0] = {}
    <3>1. 0 \in 0..n
      OBVIOUS
    <3>2. QED
      BY <1>1, <3>1
  <2>2. QED
    BY <2>1 DEF Mirror
<1>4. ASSUME NEW k \in 1..n PROVE h[k] = CrcTable[SymDiff(h[k - 1], b[k])]
  <2>1. k \in 0..n /\ k - 1 \in 0..n /\ f[k - 1] \in Byte /\ a[k] \in Byte
    BY <1>1
  <2>2. h[k] = Mirror(f[k]) /\ h[k - 1] = Mirror(f[k - 1]) /\ b[k] = Mirror(a[k])
    BY <2>1
  <2>3. SymDiff(f[k - 1], a[k]) \in Byte
    BY <2>1 DEF SymDiff, Byte
  <2> HIDE DEF h, b
  <2>4. h[k] = CrcTable[Mirror(SymDiff(f[k - 1], a[k]))]
    BY <1>1, <2>2, <2>3, TableMirrored
  <2>5. QED
    BY <2>1, <2>2, <2>4, MirrorOfBoth
<1> HIDE DEF h, b
<1>5. Chained(h, n, {}, CrcTable, b)
  BY <1>2, <1>3, <1>4 DEF Chained
<1>6. QED
  BY <1>5 DEF h, b

\* Zero is its own entry in either table.
LEMMA EmptyByte == CrcTable[{}] = {} /\ MergedTable[{}] = {}
<1>1. {} \in Byte
  BY DEF Byte
<1>2. Shl({}) = {} /\ Shr({}) = {}
  BY DEF Shl, Shr
<1>3. CrcBit({}) = {}
  BY <1>2 DEF CrcBit
<1>4. Merged({}) = {}
  BY <1>2 DEF Merged
<1>5. EightTimes(CrcBit, {}) = {} /\ EightTimes(Merged, {}) = {}
  BY <1>3, <1>4 DEF EightTimes
<1>6. QED
  BY <1>1, <1>5 DEF CrcTable, MergedTable
-----------------------------------------------------------------------------
(* The frames of the sensors.                                                *)

\* What arrives is the frame, or differs from it in exactly one byte.
LEMMA ReceivedFrames ==
  ASSUME NEW f \in Seq(Byte), NEW g \in Received(f), g # f
  PROVE  /\ g \in Seq(Byte) /\ Len(g) = Len(f)
         /\ \E i \in 1..Len(f) : f[i] # g[i] /\ \A k \in 1..Len(f) : k # i => f[k] = g[k]
<1>1. PICK i \in DOMAIN f, b \in Noise : g = [f EXCEPT ![i] = b]
  BY DEF Received
<1>2. i \in 1..Len(f) /\ b \in Byte
  BY NoiseAssumption
<1>3. g \in Seq(Byte) /\ Len(g) = Len(f)
  BY <1>1, <1>2
<1>4. \A k \in 1..Len(f) : k # i => f[k] = g[k]
  BY <1>1
<1>5. f[i] # g[i]
  <2>1. SUFFICES ASSUME f[i] = g[i] PROVE FALSE
    OBVIOUS
  <2>2. b = f[i]
    BY <1>1, <1>2, <2>1
  <2>3. g = f
    BY <1>1, <1>2, <2>2
  <2>4. QED
    BY <2>3
<1>6. QED
  BY <1>2, <1>3, <1>4, <1>5

(***************************************************************************)
(* A changed byte is always seen (1): if Data_Crc_Check gives the same for *)
(* a frame and for what arrived, and at most one byte was changed, nothing *)
(* was changed.  For frames of every length.                               *)
(***************************************************************************)
THEOREM ShtChangeIsSeen ==
  ASSUME NEW f \in Seq(Byte), NEW g \in Received(f), Data_Crc_Check(f) = Data_Crc_Check(g)
  PROVE  g = f
<1> SUFFICES ASSUME g # f PROVE FALSE
  OBVIOUS
<1> DEFINE n == Len(f)
<1>1. g \in Seq(Byte) /\ Len(g) = n
  BY ReceivedFrames
<1>2. PICK i \in 1..n : f[i] # g[i] /\ \A k \in 1..n : k # i => f[k] = g[k]
  BY ReceivedFrames
<1>3. n \in Nat /\ f \in [1..n -> Byte] /\ g \in [1..n -> Byte]
  BY <1>1
<1>4. PICK p : Chained(p, n, Bits, CrcTable, f) /\ Data_Crc_Check(f) = p[n]
  BY DataCrcChains
<1>5. PICK q : Chained(q, n, Bits, CrcTable, g) /\ Data_Crc_Check(g) = q[n]
  BY <1>1, DataCrcChains
<1> HIDE DEF n
<1>6. p[n] # q[n]
  BY <1>2, <1>3, <1>4, <1>5, ChangeStays, CrcTableIsInjective
<1>7. QED
  BY <1>4, <1>5, <1>6

(***************************************************************************)
(* A changed byte is always seen (2): the same for calcrc_bytes, the       *)
(* checksum of the probes.                                                 *)
(***************************************************************************)
THEOREM ProbeChangeIsSeen ==
  ASSUME NEW f \in Seq(Byte), NEW g \in Received(f), calcrc_bytes(f) = calcrc_bytes(g)
  PROVE  g = f
<1> SUFFICES ASSUME g # f PROVE FALSE
  OBVIOUS
<1> DEFINE n == Len(f)
<1>1. g \in Seq(Byte) /\ Len(g) = n
  BY ReceivedFrames
<1>2. PICK i \in 1..n : f[i] # g[i] /\ \A k \in 1..n : k # i => f[k] = g[k]
  BY ReceivedFrames
<1>3. n \in Nat /\ f \in [1..n -> Byte] /\ g \in [1..n -> Byte]
  BY <1>1
<1>4. PICK p : Chained(p, n, {}, MergedTable, f) /\ calcrc_bytes(f) = p[n]
  BY CalcrcChains
<1>5. PICK q : Chained(q, n, {}, MergedTable, g) /\ calcrc_bytes(g) = q[n]
  BY <1>1, CalcrcChains
<1> HIDE DEF n
<1>6. p[n] # q[n]
  BY <1>2, <1>3, <1>4, <1>5, ChangeStays, MergedTableIsInjective
<1>7. QED
  BY <1>4, <1>5, <1>6

(***************************************************************************)
(* What the SHT30 sends passes Data_Crc_Check: two bytes and their         *)
(* remainder leave zero, whatever was measured, so a sensor that works is  *)
(* never refused.                                                          *)
(***************************************************************************)
THEOREM ShtFrameIsRight ==
  ASSUME NEW raw \in Raw
  PROVE  /\ ShtFrame(raw) \in Seq(Byte) /\ ShtFrame(raw)[1] = raw[1] /\ ShtFrame(raw)[2] = raw[2]
         /\ Data_Crc_Check(ShtFrame(raw)) = {}
<1> DEFINE b == <<Bits \ raw[1], raw[2]>>
           sent == {i + 16 : i \in Bits \ raw[1]} \cup {i + 8 : i \in raw[2]}
<1>1. raw[1] \in Byte /\ raw[2] \in Byte /\ Bits \ raw[1] \in Byte /\ {} \in Byte
  BY DEF Raw, Byte
<1>2. b \in [1..2 -> Byte] /\ b[1] = Bits \ raw[1] /\ b[2] = raw[2]
  BY <1>1
<1>3. sent = Message(b, 2)
  <2>1. sent = Up(b[1], 16) \cup Up(b[2], 8)
    BY <1>2 DEF Up
  <2>2. \A e \in Int : (e \in Up(b[1], 16) <=> e - 16 \in b[1]) /\ (e \in Up(b[2], 8) <=> e - 8 \in b[2])
    BY <1>1, <1>2, UpAt
  <2>3. b[1] \subseteq 0..7 /\ b[2] \subseteq 0..7
    BY <1>1, <1>2 DEF Byte, Bits
  <2>4. (\A x \in b[1] : x + 16 \in Int) /\ (\A x \in b[2] : x + 8 \in Int)
    BY <2>3
  <2> HIDE DEF b, sent
  <2>5. sent \subseteq Int /\ Message(b, 2) \subseteq Int
    BY <2>1, <2>4 DEF Up, Message
  <2>6. ASSUME NEW e \in Int PROVE e \in sent <=> e \in Message(b, 2)
    <3>1. CASE e \in 8..15
      <4>1. e \div 8 = 1 /\ e % 8 = e - 8 /\ e - 16 \notin 0..7 /\ 2 + 1 - 1 = 2 /\ e \in 8..(8 * 2 + 7)
        BY <3>1
      <4>2. e \in Message(b, 2) <=> e - 8 \in b[2]
        BY <4>1 DEF Message
      <4>3. QED
        BY <2>1, <2>2, <2>3, <4>1, <4>2
    <3>2. CASE e \in 16..23
      <4>1. e \div 8 = 2 /\ e % 8 = e - 16 /\ e - 8 \notin 0..7 /\ 2 + 1 - 2 = 1 /\ e \in 8..(8 * 2 + 7)
        BY <3>2
      <4>2. e \in Message(b, 2) <=> e - 16 \in b[1]
        BY <4>1 DEF Message
      <4>3. QED
        BY <2>1, <2>2, <2>3, <4>1, <4>2
    <3>3. CASE e \notin 8..23
      <4>1. e - 8 \notin 0..7 /\ e - 16 \notin 0..7 /\ e \notin 8..(8 * 2 + 7)
        BY <3>3
      <4>2. QED
        BY <2>1, <2>2, <2>3, <4>1 DEF Message
    <3>4. QED
      BY <3>1, <3>2, <3>3
  <2>7. QED
    BY <2>5, <2>6
<1>4. PICK f : Chained(f, 2, {}, CrcTable, b)
  BY <1>1, <1>2, ChainExists, CrcTableIsInjective
<1>5. Remainder(sent, 23) = f[2]
  <2> HIDE DEF b, sent
  <2> DEFINE two == 2
  <2>1. two \in Nat /\ b \in [1..two -> Byte] /\ Chained(f, two, {}, CrcTable, b)
    BY <1>2, <1>4
  <2>2. sent = Message(b, two) /\ 8 * two + 7 = 23 /\ f[two] = f[2]
    BY <1>3
  <2> HIDE DEF two
  <2>3. Remainder(Message(b, two), 8 * two + 7) = f[two]
    BY <2>1, RemainderIsChained
  <2>4. QED
    BY <2>2, <2>3
<1> DEFINE fr == <<raw[1], raw[2], f[2]>>
<1>6. ShtFrame(raw) = fr
  BY <1>5 DEF ShtFrame
<1>7. f[1] = CrcTable[SymDiff({}, b[1])] /\ f[2] = CrcTable[SymDiff(f[1], b[2])] /\ f[2] \in Byte
  BY <1>4 DEF Chained
<1>8. fr \in Seq(Byte) /\ Len(fr) = 3 /\ fr[1] = raw[1] /\ fr[2] = raw[2] /\ fr[3] = f[2]
  BY <1>1, <1>7
<1> HIDE DEF fr
<1>9. PICK h : Chained(h, 3, Bits, CrcTable, fr) /\ Data_Crc_Check(fr) = h[3]
  BY <1>8, DataCrcChains
<1>10. /\ h[1] = CrcTable[SymDiff(Bits, fr[1])] /\ h[2] = CrcTable[SymDiff(h[1], fr[2])]
       /\ h[3] = CrcTable[SymDiff(h[2], fr[3])]
  BY <1>9 DEF Chained
<1>11. SymDiff(Bits, fr[1]) = SymDiff({}, b[1])
  BY <1>1, <1>2, <1>8 DEF SymDiff, Byte
<1>12. h[1] = f[1] /\ h[2] = f[2]
  BY <1>2, <1>7, <1>8, <1>10, <1>11
<1>13. SymDiff(h[2], fr[3]) = {}
  BY <1>8, <1>12 DEF SymDiff
<1>14. h[3] = {}
  BY <1>10, <1>13, EmptyByte
<1>15. QED
  BY <1>6, <1>8, <1>9, <1>14

\* Sequences: one element more, nine bytes out of eight and one, and a tuple
\* of eight.
LEMMA AppendAt ==
  ASSUME NEW S, NEW s \in Seq(S), NEW e \in S
  PROVE  /\ Append(s, e) \in Seq(S) /\ Len(Append(s, e)) = Len(s) + 1
         /\ Append(s, e)[Len(s) + 1] = e
         /\ \A k \in 1..Len(s) : Append(s, e)[k] = s[k]
OBVIOUS

LEMMA NineBytes ==
  ASSUME NEW S, NEW s \in Seq(S), NEW e \in S
  PROVE  LET a == Append(s, e)
         IN  Len(s) = 8 =>
               a \in Seq(S) /\ Len(a) = 9 /\ a[9] = e /\ \A k \in 1..8 : a[k] = s[k]
<1> DEFINE a == Append(s, e)
           n == Len(s)
<1>1. /\ a \in Seq(S) /\ Len(a) = n + 1 /\ a[n + 1] = e
      /\ \A k \in 1..n : a[k] = s[k]
  BY AppendAt
<1> HIDE DEF a, n
<1>2. n = 8 => a \in Seq(S) /\ Len(a) = 9 /\ a[9] = e /\ \A k \in 1..8 : a[k] = s[k]
  BY <1>1
<1>3. QED
  BY <1>2 DEF a, n

LEMMA EightTuple ==
  ASSUME NEW S, NEW a \in S, NEW b \in S, NEW c \in S, NEW d \in S, NEW e \in S, NEW f \in S,
         NEW g \in S, NEW h \in S
  PROVE  LET t == <<a, b, c, d, e, f, g, h>>
         IN  t \in Seq(S) /\ Len(t) = 8 /\ t \in [1..8 -> S] /\ t[1] = a /\ t[2] = b
<1> DEFINE t == <<a, b, c, d, e, f, g, h>>
<1>1. t \in Seq(S) /\ Len(t) = 8 /\ t[1] = a /\ t[2] = b
  OBVIOUS
<1>2. \A k \in 1..8 : t[k] \in S
  OBVIOUS
<1>3. t = [k \in 1..8 |-> t[k]]
  BY <1>1
<1>4. QED
  BY <1>1, <1>2, <1>3

(***************************************************************************)
(* What a probe sends passes calcrc_bytes: eight bytes and their           *)
(* remainder, sent least significant bit first, leave zero, whatever the   *)
(* temperature.                                                            *)
(***************************************************************************)
THEOREM ProbeFrameIsRight ==
  ASSUME NEW raw \in Raw
  PROVE  /\ ProbeFrame(raw) \in Seq(Byte) /\ ProbeFrame(raw)[1] = raw[1] /\ ProbeFrame(raw)[2] = raw[2]
         /\ calcrc_bytes(ProbeFrame(raw)) = {}
<1> DEFINE bytes == <<raw[1], raw[2], Bits, {}, Bits \ {7}, Bits, {}, {4}>>
           message == {71 - 8 * (k - 1) - i : k \in 1..8, i \in Bits}
           sent == {e \in message : (71 - e) % 8 \in bytes[(71 - e) \div 8 + 1]}
           left == Remainder(sent, 71)
<1>1. /\ raw = <<raw[1], raw[2]>> /\ raw[1] \in Byte /\ raw[2] \in Byte
      /\ {} \in Byte /\ Bits \in Byte /\ Bits \ {7} \in Byte /\ {4} \in Byte
  BY DEF Raw, Byte, Bits
<1>2. /\ bytes \in Seq(Byte) /\ Len(bytes) = 8 /\ bytes \in [1..8 -> Byte]
      /\ bytes[1] = raw[1] /\ bytes[2] = raw[2]
  BY <1>1, EightTuple
<1>3. ProbeFrame(raw) = Append(bytes, {7 - e : e \in left})
  BY DEF ProbeFrame
<1> HIDE DEF bytes
<1>4. message = 8..71
  <2>1. ASSUME NEW e \in 8..71 PROVE e \in message
    <3>1. PICK k \in 1..8, i \in 0..7 : 71 - e = 8 * (k - 1) + i
      <4>1. (71 - e) \div 8 \in 0..7 /\ (71 - e) % 8 \in 0..7
            /\ 71 - e = 8 * ((71 - e) \div 8) + ((71 - e) % 8)
        OBVIOUS
      <4>2. (71 - e) \div 8 + 1 \in 1..8 /\ ((71 - e) \div 8 + 1) - 1 = (71 - e) \div 8
        BY <4>1
      <4>3. QED
        BY <4>1, <4>2
    <3>2. e = 71 - 8 * (k - 1) - i
      BY <3>1
    <3>3. QED
      BY <3>2 DEF Bits
  <2>2. ASSUME NEW e \in message PROVE e \in 8..71
    <3>1. PICK k \in 1..8, i \in Bits : e = 71 - 8 * (k - 1) - i
      OBVIOUS
    <3>2. QED
      BY <3>1 DEF Bits
  <2> HIDE DEF message
  <2>3. QED
    BY <2>1, <2>2
<1>5. PICK f : Chained(f, 8, {}, MergedTable, bytes)
  BY <1>2, ChainExists, MergedTableIsInjective DEF Byte
<1> DEFINE b == [k \in 1..8 |-> Mirror(bytes[k])]
           h == [k \in 0..8 |-> Mirror(f[k])]
<1>6. b \in [1..8 -> Byte] /\ Chained(h, 8, {}, CrcTable, b)
  <2>1. b \in [1..8 -> Byte]
    BY <1>2, MirrorAt
  <2>2. Chained(h, 8, {}, CrcTable, b)
    BY <1>2, <1>5, ChainMirrored
  <2>3. QED
    BY <2>1, <2>2
<1>7. sent = Message(b, 8)
  <2>1. ASSUME NEW e \in 8..71
        PROVE  (71 - e) % 8 \in bytes[(71 - e) \div 8 + 1] <=> e % 8 \in b[8 + 1 - (e \div 8)]
    <3>1. PICK q \in 1..8, r \in 0..7 : e = 8 * q + r
      <4>1. e \div 8 \in 1..8 /\ e % 8 \in 0..7 /\ e = 8 * (e \div 8) + (e % 8)
        OBVIOUS
      <4>2. QED
        BY <4>1
    <3>2. e \div 8 = q /\ e % 8 = r
      BY <3>1
    <3>3. (71 - e) \div 8 = 8 - q /\ (71 - e) % 8 = 7 - r
      <4>1. 71 - e = 8 * (8 - q) + (7 - r) /\ 7 - r \in 0..7 /\ 8 - q \in 0..7
        BY <3>1
      <4>2. QED
        BY <4>1
    <3> DEFINE k == 9 - q
    <3>4. /\ k \in 1..8 /\ (8 - q) + 1 = k /\ 8 + 1 - q = k /\ bytes[k] \in Byte /\ r \in Bits
          /\ b[k] = Mirror(bytes[k])
      BY <1>2 DEF Bits
    <3>5. r \in Mirror(bytes[k]) <=> 7 - r \in bytes[k]
      BY <3>4, MirrorAt
    <3>6. QED
      BY <3>2, <3>3, <3>4, <3>5
  <2>2. Message(b, 8) = {e \in 8..71 : e % 8 \in b[8 + 1 - (e \div 8)]}
    BY DEF Message
  <2> HIDE DEF b, message
  <2>3. QED
    BY <1>4, <2>1, <2>2
<1>8. left = h[8]
  <2> DEFINE eight == 8
  <2> HIDE DEF b, h, sent
  <2>1. eight \in Nat /\ b \in [1..eight -> Byte] /\ Chained(h, eight, {}, CrcTable, b)
    BY <1>6
  <2>2. sent = Message(b, eight) /\ 8 * eight + 7 = 71 /\ h[eight] = h[8]
    BY <1>7
  <2> HIDE DEF eight
  <2>3. Remainder(Message(b, eight), 8 * eight + 7) = h[eight]
    BY <2>1, RemainderIsChained
  <2>4. QED
    BY <2>2, <2>3
<1>9. f[8] \in Byte /\ h[8] = Mirror(f[8])
  BY <1>5 DEF Chained
<1> HIDE DEF left
<1>10. {7 - e : e \in left} = f[8]
  <2>1. {7 - e : e \in left} = Mirror(Mirror(f[8]))
    BY <1>8, <1>9 DEF Mirror
  <2>2. QED
    BY <1>9, <2>1, MirrorTwice
<1> DEFINE fr == Append(bytes, f[8])
<1>11. /\ ProbeFrame(raw) = fr /\ fr \in Seq(Byte) /\ Len(fr) = 9 /\ fr[9] = f[8]
       /\ \A k \in 1..8 : fr[k] = bytes[k]
  <2>1. f[8] \in Byte /\ bytes \in Seq(Byte) /\ Len(bytes) = 8
    BY <1>2, <1>9
  <2>2. ProbeFrame(raw) = fr
    BY <1>3, <1>10
  <2>3. QED
    BY <2>1, <2>2, NineBytes
<1> HIDE DEF fr
<1>12. PICK g : Chained(g, 9, {}, MergedTable, fr) /\ calcrc_bytes(fr) = g[9]
  BY <1>11, CalcrcChains
<1> DEFINE S == {k \in 0..8 : g[k] = f[k]}
<1>13. 8 \in S
  <2>1. 0 \in S
    BY <1>5, <1>12 DEF Chained
  <2>2. ASSUME NEW k \in 0..(8 - 1), k \in S PROVE (k + 1) \in S
    <3>1. /\ k + 1 \in 1..8 /\ k + 1 \in 1..9 /\ (k + 1) - 1 = k /\ g[k] = f[k]
          /\ fr[k + 1] = bytes[k + 1]
      BY <1>11, <2>2
    <3>2. g[k + 1] = f[k + 1]
      BY <1>5, <1>12, <3>1 DEF Chained
    <3>3. QED
      BY <3>1, <3>2
  <2> HIDE DEF S
  <2>3. \A k \in 0..8 : k \in S
    BY <2>1, <2>2, Steps
  <2>4. QED
    BY <2>3
<1>14. g[9] = MergedTable[SymDiff(g[8], fr[9])]
  BY <1>12 DEF Chained
<1>15. SymDiff(g[8], fr[9]) = {}
  BY <1>11, <1>13 DEF SymDiff
<1>16. g[9] = {}
  BY <1>14, <1>15, EmptyByte
<1>17. fr[1] = raw[1] /\ fr[2] = raw[2]
  BY <1>2, <1>11
<1>18. QED
  BY <1>11, <1>12, <1>16, <1>17

-----------------------------------------------------------------------------
(* The invariant of an update.                                               *)

\* How far the update is: it has not passed the SHT30, the light sensor, the
\* battery.
UntilSht == {"boot", "start", "sht30"}
UntilLight == UntilSht \cup {"ltr_id", "ltr_setup", "ltr_poll", "ltr_data", "ltr_standby"}
UntilBattery == UntilLight \cup {"adc_init", "adc_sample"}

(***************************************************************************)
(* A reading of the SHT30 is the one of this world, it is in the queue if  *)
(* the sensor did not fail, and before it the queue is empty.              *)
(***************************************************************************)
ShtInv ==
  /\ pc \in UntilSht => queue = <<>>
  /\ Values(1) \subseteq {Celsius(world.temp[1], world.temp[2])}
  /\ Values(2) \subseteq {Humidity(world.humi[1], world.humi[2])}
  /\ pc \notin UntilSht /\ "sht30" \notin faulty =>
       /\ Values(1) = {Celsius(world.temp[1], world.temp[2])}
       /\ Values(2) = {Humidity(world.humi[1], world.humi[2])}

(***************************************************************************)
(* A light sensor that did not fail measures while it is polled, has this  *)
(* world's light when it is ready, and is reported; after the update it    *)
(* stands by or has failed.                                                *)
(***************************************************************************)
LightInv ==
  /\ pc \notin UntilLight /\ ltr.mode = "active" => "light" \in faulty
  /\ pc \in UntilLight => Values(3) = {}
  /\ faulty \cap {"light", "slow", "data"} = {} =>
       /\ pc \in {"ltr_poll", "ltr_data"} =>
            ltr.mode = "active" /\ (ltr.ready => ltr.als = world.lux)
       /\ pc = "ltr_data" => ltr.ready
       /\ pc = "ltr_standby" => lightvalue = 3 * world.lux
       /\ pc \notin UntilLight => Values(3) = {3 * world.lux}

(***************************************************************************)
(* The light sensor holds a light it measured, or none yet, and unless its *)
(* data broke off that is what is reported.                                *)
(***************************************************************************)
Lights == {0} \cup {3 * w.lux : w \in Worlds}

ShownLightInv ==
  /\ 3 * ltr.als \in Lights
  /\ "data" \notin faulty =>
       lightvalue \in Lights \cup {ERROR_CODE} /\ Values(3) \subseteq Lights

(***************************************************************************)
(* No sample and no voltage is above the battery's, the sum is at most     *)
(* that of the samples taken, and exactly that if every call worked.  A    *)
(* failed read counts the value before it, and that value is of this boot. *)
(***************************************************************************)
BatteryInv ==
  /\ adc.raw <= world.mv /\ adc.voltage <= world.mv /\ adc.sum <= adc.i * world.mv
  /\ pc \notin {"adc_sample", "aborted"} => adc = NoSamples
  /\ pc = "adc_sample" =>
       /\ adc.i < NO_OF_SAMPLES
       /\ "battery" \notin faulty => adc.cali /\ adc.sum = adc.i * world.mv
  /\ pc \in UntilBattery => Values(4) = {}
  /\ \A v \in Values(4) : v <= NO_OF_SAMPLES * world.mv
  /\ pc \notin UntilBattery \cup {"aborted"} /\ "battery" \notin faulty =>
       Values(4) = {NO_OF_SAMPLES * world.mv}

\* It has not started probe p, not waited for the conversion, not read probe
\* p.
UntilStart(p) == UntilBattery \cup (IF p = 1 THEN {"start1"} ELSE {"start1", "start2"})
UntilConvert == UntilStart(2) \cup {"convert"}
UntilRead(p) == UntilConvert \cup (IF p = 1 THEN {"read1"} ELSE {"read1", "read2"})

\* What probe p may hold, and what it may be reported with.
Raws(p) == {PowerUp} \cup {w.probe[p] : w \in Worlds}
Sensible(p, v) == (v = 0 /\ p \in shorted) \/ (\E raw \in Raws(p) : Shows(v, raw))

(***************************************************************************)
(* A line that is low is in shorted, a scratchpad holds the power-up value *)
(* or a world's temperature, and a temperature is one of those, or 0 if    *)
(* the line was low, or the reading was torn.  A probe that stays on its   *)
(* line, and whose transfers work, is started, converts, holds this        *)
(* world's temperature and shows it; a probe that is not there shows       *)
(* nothing.                                                                *)
(***************************************************************************)
ProbeInv(p) ==
  /\ line[p] = "low" => p \in shorted
  /\ pad[p] \in Raws(p)
  /\ p \notin torn /\ temp_value[p] # ERROR_CODE => Sensible(p, temp_value[p])
  /\ pc \in UntilStart(p) => p \notin ext_status
  /\ pc \in UntilRead(p) => temp_value[p] = ERROR_CODE
  /\ pc # "done" => Values(5 + p) = {}
  /\ p \notin torn => \A v \in Values(5 + p) : Sensible(p, v)
  /\ Probe(p) \notin faulty /\ p \notin shorted =>
       /\ line[p] = "open" => p \notin ext_status /\ temp_value[p] = ERROR_CODE /\ Values(5 + p) = {}
       /\ line[p] = "probe" =>
            /\ pc \in UntilConvert \ UntilStart(p) => p \in converting
            /\ pc \in UntilRead(2) \ UntilStart(p) => p \in ext_status
            /\ pc \in UntilRead(2) \ UntilConvert => pad[p] = world.probe[p]
            /\ pc = "push" \/ pc \in UntilRead(2) \ UntilRead(p) =>
                 Shows(temp_value[p], world.probe[p]) /\ temp_value[p] # ERROR_CODE
            /\ pc = "done" => \E v \in Values(5 + p) : Shows(v, world.probe[p]) /\ Values(5 + p) = {v}

\* The queue without its values, as the report takes it.
Tagged(q) == [i \in DOMAIN q |-> [num |-> q[i].num, ts |-> q[i].ts]]

\* What of Sampled the update has pushed after the SHT30, the light sensor,
\* the battery.
ShtPart(failed) == Given("sht30", <<1, 2>>, failed, sMsg)
LightPart(failed) == ShtPart(failed) \o Given("light", <<3>>, failed, sMsg)
BatteryPart(failed) == LightPart(failed) \o <<[num |-> 4, ts |-> sMsg]>>

\* The queue is the part of Sampled that belongs to this place, if failed
\* failed.
ShapeIs(failed) ==
  /\ pc \in UntilLight \ UntilSht => Tagged(queue) = ShtPart(failed)
  /\ pc \in UntilBattery \ UntilLight => Tagged(queue) = LightPart(failed)
  /\ pc \in UntilRead(2) \cup {"push"} => pc \in UntilBattery \/ Tagged(queue) = BatteryPart(failed)
  /\ pc = "done" => Tagged(queue) = Sampled(failed, sMsg)

(***************************************************************************)
(* At every place the queue is what Sampled has there for some set of      *)
(* failed sensors.                                                         *)
(***************************************************************************)
ShapeInv == \E failed \in SUBSET Sensors : ShapeIs(failed)

-----------------------------------------------------------------------------
(* Types.                                                                    *)

Reading == [num : {1, 2, 3, 4, 6, 7}, ts : Stamps, val : Int]
Names == Sensors \cup {"battery", "slow", "data"}

\* Numbers.
LEMMA NumIsInt == \A b : Num(b) \in Int
  BY DEF Num, Bit

LEMMA SixteenthsIsInt == \A lo, hi : Sixteenths(lo, hi) \in Int
<1> TAKE lo, hi
<1>1. /\ Num(lo) \in Int /\ Num(hi) \in Int /\ Num(Bits \ lo) \in Int /\ Num(Bits \ hi) \in Int
  BY NumIsInt
<1>2. Word(hi, lo) \in Int /\ Word(Bits \ hi, Bits \ lo) \in Int
  BY <1>1 DEF Word
<1>3. Short(Word(hi, lo)) \in Int /\ Short(Word(Bits \ hi, Bits \ lo)) \in Int
  BY <1>2 DEF Short
<1>4. QED
  BY <1>3 DEF Sixteenths

LEMMA ValuesAreTyped ==
  /\ \A hi, lo : Celsius(hi, lo) \in Int /\ Humidity(hi, lo) \in Int
  /\ \A f : ProbeValue(f) \in Value
<1>1. ASSUME NEW hi, NEW lo PROVE Celsius(hi, lo) \in Int /\ Humidity(hi, lo) \in Int
  <2>1. Num(hi) \in Int /\ Num(lo) \in Int
    BY NumIsInt
  <2>2. Word(hi, lo) \in Int
    BY <2>1 DEF Word
  <2>3. QED
    BY <2>2 DEF Celsius, Humidity
<1>2. ASSUME NEW f PROVE ProbeValue(f) \in Value
  BY SixteenthsIsInt DEF ProbeValue, Value
<1>3. QED
  BY <1>1, <1>2

\* Faults and readings have their types.
LEMMA FaultIsNamed ==
  ASSUME NEW s \in Names, NEW ok \in BOOLEAN, Fault(s, ok), faulty \subseteq Names
  PROVE  faulty' \subseteq Names
  BY DEF Fault

LEMMA ReadingIs ==
  ASSUME NEW n \in {1, 2, 3, 4, 6, 7}, NEW v \in Int, sMsg \in Stamps
  PROVE  /\ [num |-> n, ts |-> sMsg, val |-> v] \in Reading
         /\ <<[num |-> n, ts |-> sMsg, val |-> v]>> \in Seq(Reading)
  BY DEF Reading

LEMMA PushedIs ==
  ASSUME NEW n \in {1, 2, 3, 4, 6, 7}, NEW v \in Int, sMsg \in Stamps, queue \in Seq(Reading)
  PROVE  Pushed(n, v) \in Seq(Reading)
  BY ReadingIs DEF Pushed

TypeInv == TypeOK /\ (pc \notin {"boot", "start"} => sMsg \in Stamps)

LEMMA InitTypeInv == Init => TypeInv
<1> SUFFICES ASSUME Init PROVE TypeInv
  OBVIOUS
<1>1. queue \in Seq(Reading)
  BY DEF Init
<1>2. PowerUp \in Raw /\ NO_OF_SAMPLES \in Nat /\ Retries \in Nat /\ MaxPlug \in Nat
  BY WorldsAssumption, CountsAssumption
<1>3. ltr \in [mode : {"standby", "active"}, ready : BOOLEAN, als : Nat]
  BY DEF Init
<1>4. adc \in [raw : Nat, voltage : Nat, sum : Nat, i : 0..NO_OF_SAMPLES, cali : BOOLEAN]
  BY <1>2 DEF Init, NoSamples
<1>5. /\ temp_value \in [Probes -> Value] /\ pad \in [Probes -> Raw]
      /\ line \in [Probes -> Line] /\ world \in Worlds
  BY <1>2 DEF Init, Value
<1>6. /\ pc = "boot" /\ sMsg = 0 /\ lightvalue \in Value /\ retry \in 0..Retries
      /\ ext_status \subseteq Probes /\ converting \subseteq Probes /\ faulty = {}
      /\ shorted \subseteq Probes /\ torn \subseteq Probes /\ plugs \in 0..MaxPlug
  BY <1>2 DEF Init, Value
<1>7. QED
  BY <1>1, <1>3, <1>4, <1>5, <1>6 DEF TypeInv, TypeOK, Reading

\* Short sequences.
LEMMA PairIs ==
  ASSUME NEW S, NEW a \in S, NEW b \in S
  PROVE  <<a, b>> \in Seq(S) /\ <<a>> \in Seq(S) /\ <<>> \in Seq(S)
OBVIOUS

\* A record with four of its fields changed.
LEMMA SampledIs ==
  ASSUME NEW R, NEW a \in [raw : Nat, voltage : Nat, sum : Nat, i : R, cali : BOOLEAN],
         NEW raw \in Nat, NEW voltage \in Nat, NEW i \in R, NEW sum \in Nat
  PROVE  LET s == [a EXCEPT !.raw = raw, !.voltage = voltage, !.i = i, !.sum = sum]
         IN  /\ s \in [raw : Nat, voltage : Nat, sum : Nat, i : R, cali : BOOLEAN]
             /\ s.raw = raw /\ s.voltage = voltage /\ s.i = i /\ s.sum = sum /\ s.cali = a.cali
<1> DEFINE s == [a EXCEPT !.raw = raw, !.voltage = voltage, !.i = i, !.sum = sum]
<1>1. s \in [raw : Nat, voltage : Nat, sum : Nat, i : R, cali : BOOLEAN]
  OBVIOUS
<1>2. s.raw = raw
  OBVIOUS
<1>3. s.voltage = voltage
  OBVIOUS
<1>4. s.i = i
  OBVIOUS
<1>5. s.sum = sum
  OBVIOUS
<1>6. s.cali = a.cali
  OBVIOUS
<1>7. QED
  BY <1>1, <1>2, <1>3, <1>4, <1>5, <1>6

AdcType == [raw : Nat, voltage : Nat, sum : Nat, i : 0..NO_OF_SAMPLES, cali : BOOLEAN]

\* One sample: what it read, what it adds, and where it leads.
Sample(read, converted, raw, voltage) ==
  /\ Fault("battery", read /\ converted)
  /\ raw = IF read THEN world.mv ELSE adc.raw
  /\ voltage = IF adc.cali /\ converted THEN raw ELSE adc.voltage
  /\ \/ /\ adc.i + 1 < NO_OF_SAMPLES /\ pc' = "adc_sample" /\ queue' = queue
        /\ adc' \in AdcType
        /\ adc'.raw = raw /\ adc'.voltage = voltage /\ adc'.i = adc.i + 1
        /\ adc'.sum = adc.sum + voltage /\ adc'.cali = adc.cali
     \/ /\ adc.i + 1 >= NO_OF_SAMPLES /\ pc' = "start1" /\ adc' = NoSamples
        /\ queue' = Pushed(4, adc.sum + voltage)

\* Every step of the loop is such a sample.
LEMMA SampleTaken ==
  ASSUME adc \in AdcType, world \in World, AdcSample
  PROVE  \E read, converted \in BOOLEAN, raw, voltage \in Nat : Sample(read, converted, raw, voltage)
<1> DEFINE Taken(read) == IF read THEN world.mv ELSE adc.raw
           Voltage(read, converted) == IF adc.cali /\ converted THEN Taken(read) ELSE adc.voltage
           sampled(read, converted) ==
             [adc EXCEPT !.raw = Taken(read), !.voltage = Voltage(read, converted), !.i = @ + 1,
                         !.sum = @ + Voltage(read, converted)]
<1>1. PICK read \in BOOLEAN, converted \in BOOLEAN :
        /\ Fault("battery", read /\ converted)
        /\ IF sampled(read, converted).i < NO_OF_SAMPLES
           THEN pc' = pc /\ adc' = sampled(read, converted) /\ UNCHANGED queue
           ELSE /\ pc' = "start1"
                /\ adc' = NoSamples
                /\ queue' = Pushed(4, sampled(read, converted).sum)
  BY DEF AdcSample
<1> DEFINE raw == Taken(read)
           voltage == Voltage(read, converted)
           s == [adc EXCEPT !.raw = raw, !.voltage = voltage, !.i = adc.i + 1,
                            !.sum = adc.sum + voltage]
<1>2. raw \in Nat /\ voltage \in Nat
  BY DEF World, AdcType
<1>3. /\ Fault("battery", read /\ converted)
      /\ IF s.i < NO_OF_SAMPLES
         THEN pc' = "adc_sample" /\ adc' = s /\ queue' = queue
         ELSE pc' = "start1" /\ adc' = NoSamples /\ queue' = Pushed(4, s.sum)
  BY <1>1 DEF AdcSample
<1>4. /\ raw = IF read THEN world.mv ELSE adc.raw
      /\ voltage = IF adc.cali /\ converted THEN raw ELSE adc.voltage
  OBVIOUS
<1> HIDE DEF raw, voltage
<1>5. /\ adc \in [raw : Nat, voltage : Nat, sum : Nat, i : Nat, cali : BOOLEAN]
      /\ adc.sum + voltage \in Nat /\ adc.i + 1 \in Nat /\ NO_OF_SAMPLES \in Nat
  BY <1>2, CountsAssumption DEF AdcType
<1>6. /\ s \in [raw : Nat, voltage : Nat, sum : Nat, i : Nat, cali : BOOLEAN]
      /\ s.raw = raw /\ s.voltage = voltage /\ s.i = adc.i + 1 /\ s.sum = adc.sum + voltage
      /\ s.cali = adc.cali
  BY <1>2, <1>5, SampledIs
<1> HIDE DEF s
<1>7. CASE s.i < NO_OF_SAMPLES
  <2>1. adc.i + 1 < NO_OF_SAMPLES /\ adc' = s
    BY <1>3, <1>6, <1>7
  <2>2. adc' \in AdcType
    <3>1. adc.i + 1 \in 0..NO_OF_SAMPLES
      BY <1>5, <2>1
    <3>2. QED
      BY <1>6, <2>1, <3>1 DEF AdcType
  <2>3. Sample(read, converted, raw, voltage)
    BY <1>3, <1>4, <1>6, <1>7, <2>1, <2>2 DEF Sample
  <2>4. QED
    BY <1>2, <2>3
<1>8. CASE ~(s.i < NO_OF_SAMPLES)
  <2>1. adc.i + 1 >= NO_OF_SAMPLES
    BY <1>5, <1>6, <1>8
  <2>2. Sample(read, converted, raw, voltage)
    BY <1>3, <1>4, <1>6, <1>8, <2>1 DEF Sample
  <2>3. QED
    BY <1>2, <2>2
<1>9. QED
  BY <1>7, <1>8

LEMMA ShtReadingsAre ==
  ASSUME NEW t, NEW h, sMsg \in Stamps
  PROVE  ShtReadings(t, h) \in Seq(Reading)
<1> DEFINE r == [num |-> 1, ts |-> sMsg, val |-> Celsius(t[1], t[2])]
           s == [num |-> 2, ts |-> sMsg, val |-> Humidity(h[1], h[2])]
<1>1. r \in Reading /\ s \in Reading
  BY ValuesAreTyped DEF Reading
<1>2. ShtReadings(t, h) = <<r, s>> \/ ShtReadings(t, h) = <<>>
  BY DEF ShtReadings
<1> HIDE DEF r, s
<1>3. <<r, s>> \in Seq(Reading) /\ <<>> \in Seq(Reading)
  BY <1>1, PairIs
<1>4. QED
  BY <1>2, <1>3

LEMMA ProbedIs ==
  ASSUME NEW p \in Probes, temp_value \in [Probes -> Value], sMsg \in Stamps
  PROVE  Probed(p) \in Seq(Reading)
<1>1. CASE temp_value[p] = ERROR_CODE
  BY <1>1 DEF Probed
<1>2. CASE temp_value[p] # ERROR_CODE
  <2>1. temp_value[p] \in Int /\ 5 + p \in {6, 7}
    BY <1>2 DEF Value, Probes
  <2>2. QED
    BY <1>2, <2>1, ReadingIs DEF Probed
<1>3. QED
  BY <1>1, <1>2

LEMMA ProbesAreNamed == \A p \in Probes : Probe(p) \in Names
  BY DEF Probe, Probes, Names, Sensors

LEMMA ChangeIsTyped ==
  ASSUME TypeInv, NEW p \in Probes, Change(p)
  PROVE  /\ faulty' \subseteq Names /\ line' \in [Probes -> Line] /\ pad' \in [Probes -> Raw]
         /\ plugs' \in 0..MaxPlug /\ shorted' \subseteq Probes /\ converting' \subseteq Probes
<1> USE DEF TypeInv, TypeOK
<1>1. faulty' \subseteq Names
  BY ProbesAreNamed DEF Change, Names
<1>2. line' \in [Probes -> Line] /\ pad' \in [Probes -> Raw]
  BY WorldsAssumption DEF Change
<1>3. plugs' \in 0..MaxPlug /\ shorted' \subseteq Probes /\ converting' \subseteq Probes
  BY CountsAssumption DEF Change
<1>4. QED
  BY <1>1, <1>2, <1>3

LEMMA TypeStep == TypeInv /\ [Next]_vars => TypeInv'
<1> SUFFICES ASSUME TypeInv, [Next]_vars PROVE TypeInv'
  OBVIOUS
<1> USE DEF TypeInv, TypeOK
<1>0. /\ queue \in Seq(Reading) /\ faulty \subseteq Names /\ Retries \in Nat /\ MaxPlug \in Nat
      /\ NO_OF_SAMPLES \in Nat \ {0} /\ world \in World
  BY CountsAssumption, WorldsAssumption DEF Reading, Names
<1>1. CASE Boot
  BY <1>1 DEF Boot, history
<1>2. CASE Sensors_Data_Update
  BY <1>2 DEF Sensors_Data_Update, sensors, history
<1>3. CASE sht30_SingleShotMeasure
  <2>1. queue' \in Seq(Reading)
    <3>1. CASE UNCHANGED queue
      BY <1>0, <3>1
    <3>2. CASE \E t, h : queue' = queue \o ShtReadings(t, h)
      BY <1>0, <1>3, <3>2, ShtReadingsAre DEF sht30_SingleShotMeasure
    <3>3. QED
      BY <1>3, <3>1, <3>2 DEF sht30_SingleShotMeasure
  <2>2. faulty' \subseteq Names
    BY <1>0, <1>3 DEF sht30_SingleShotMeasure, Fault, Names, Sensors
  <2>3. QED
    BY <1>3, <2>1, <2>2 DEF sht30_SingleShotMeasure, notSht30, sensors, Reading, Names
<1>4. CASE LtrCheckId
  <2>1. faulty' \subseteq Names
    BY <1>0, <1>4 DEF LtrCheckId, Fault, Names, Sensors
  <2>2. QED
    BY <1>4, <2>1 DEF LtrCheckId, notLight, Names
<1>5. CASE LtrSetup
  <2>1. faulty' \subseteq Names
    BY <1>0, <1>5 DEF LtrSetup, Fault, Names, Sensors
  <2>2. ltr' \in [mode : {"standby", "active"}, ready : BOOLEAN, als : Nat]
    BY <1>5 DEF LtrSetup, IIC_Write_Reg
  <2>3. QED
    BY <1>5, <2>1, <2>2 DEF LtrSetup, notLight, Names
<1>6. CASE LtrPoll
  <2>1. faulty' \subseteq Names
    BY <1>0, <1>6 DEF LtrPoll, Fault, Names, Sensors
  <2>2. retry' \in 0..Retries
    BY <1>0, <1>6 DEF LtrPoll
  <2>3. pc' \in {"ltr_standby", "ltr_data", "ltr_poll"}
    BY <1>6 DEF LtrPoll
  <2>4. QED
    BY <1>6, <2>1, <2>2, <2>3 DEF LtrPoll, notLight, Names
<1>7. CASE LtrData
  <2>1. faulty' \subseteq Names
    BY <1>0, <1>7 DEF LtrData, Fault, Names, Sensors
  <2>2. ltr' \in [mode : {"standby", "active"}, ready : BOOLEAN, als : Nat]
    BY <1>7 DEF LtrData
  <2>3. lightvalue' \in Value
    BY <1>7 DEF LtrData, Partial, Value
  <2>4. QED
    BY <1>7, <2>1, <2>2, <2>3 DEF LtrData, notLight, Names
<1>8. CASE LtrStandby
  <2>1. faulty' \subseteq Names
    BY <1>0, <1>8 DEF LtrStandby, Fault, Names, Sensors
  <2>2. ltr' \in [mode : {"standby", "active"}, ready : BOOLEAN, als : Nat]
    BY <1>8 DEF LtrStandby, IIC_Write_Reg
  <2>3. queue' \in Seq(Reading)
    BY <1>0, <1>8, PushedIs DEF LtrStandby, Value
  <2>4. QED
    BY <1>0, <1>8, <2>1, <2>2, <2>3 DEF LtrStandby, notLight, Value, Names, Reading
<1>9. CASE AdcInit
  <2>1. faulty' \subseteq Names
    BY <1>0, <1>9 DEF AdcInit, Fault, Names, Sensors
  <2>2. adc' \in [raw : Nat, voltage : Nat, sum : Nat, i : 0..NO_OF_SAMPLES, cali : BOOLEAN]
    <3>1. PICK cali \in BOOLEAN : adc' = [adc EXCEPT !.sum = 0, !.i = 0, !.cali = cali]
      BY <1>9 DEF AdcInit
    <3>2. adc' = [raw |-> adc.raw, voltage |-> adc.voltage, sum |-> 0, i |-> 0, cali |-> cali]
      BY <3>1
    <3>3. QED
      BY <1>0, <3>2
  <2>3. pc' \in {"adc_sample", "aborted"}
    BY <1>9 DEF AdcInit
  <2>4. QED
    BY <1>9, <2>1, <2>2, <2>3 DEF AdcInit, notAdc, sensors, Names
<1>10. CASE AdcSample
  <2>1. faulty' \subseteq Names
    BY <1>0, <1>10 DEF AdcSample, Fault, Names, Sensors
  <2>2. PICK read \in BOOLEAN, converted \in BOOLEAN, raw \in Nat, voltage \in Nat :
          Sample(read, converted, raw, voltage)
    BY <1>0, <1>10, SampleTaken DEF AdcType
  <2>3. CASE pc' = "adc_sample"
    <3>1. adc' \in AdcType /\ queue' = queue
      BY <2>2, <2>3 DEF Sample
    <3>2. QED
      BY <1>10, <2>1, <2>3, <3>1 DEF AdcSample, notAdc, sensors, Names, AdcType
  <2>4. CASE pc' = "start1"
    <3>1. adc' = NoSamples /\ queue' = Pushed(4, adc.sum + voltage) /\ adc.sum + voltage \in Int
      BY <2>2, <2>4 DEF Sample
    <3>2. queue' \in Seq(Reading)
      BY <1>0, <1>10, <3>1, PushedIs DEF AdcSample
    <3>3. adc' \in [raw : Nat, voltage : Nat, sum : Nat, i : 0..NO_OF_SAMPLES, cali : BOOLEAN]
      BY <1>0, <3>1 DEF NoSamples
    <3>4. QED
      BY <1>10, <2>1, <2>4, <3>2, <3>3 DEF AdcSample, notAdc, sensors, Names, Reading
  <2>5. QED
    BY <2>2, <2>3, <2>4 DEF Sample
<1>11. ASSUME NEW p \in Probes, Start(p), pc' \in {"start2", "convert"}, pc \in {"start1", "start2"}
       PROVE  TypeInv'
  <2>1. faulty' \subseteq Names
    BY <1>0, <1>11, ProbesAreNamed DEF Start, Fault
  <2>2. ext_status' \subseteq Probes /\ converting' \subseteq Probes
    BY <1>11 DEF Start
  <2>3. QED
    BY <1>11, <2>1, <2>2 DEF Start, notProbes, Names
<1>12. CASE Convert
  <2>1. pad' \in [Probes -> Raw]
    BY <1>0, <1>12 DEF Convert, World
  <2>2. QED
    BY <1>12, <2>1 DEF Convert, notProbes
<1>13. ASSUME NEW p \in Probes, Read(p), pc' \in {"read2", "push"}, pc \in {"read1", "read2"}
       PROVE  TypeInv'
  <2>1. faulty' \subseteq Names
    BY <1>0, <1>13, ProbesAreNamed DEF Read, Fault
  <2>2. temp_value' \in [Probes -> Value]
    <3>1. CASE UNCHANGED temp_value
      BY <3>1
    <3>2. CASE \E a \in Answers : temp_value' = [temp_value EXCEPT ![p] = a.value]
      <4>1. PICK a \in Answers : temp_value' = [temp_value EXCEPT ![p] = a.value]
        BY <3>2
      <4>2. a.value \in Value
        BY ValuesAreTyped DEF Answers
      <4>3. QED
        BY <4>1, <4>2
    <3>3. CASE temp_value' = [temp_value EXCEPT ![p] = Zero]
      BY <3>3, ValuesAreTyped DEF Zero
    <3>4. QED
      BY <1>13, <3>1, <3>2, <3>3 DEF Read
  <2>3. QED
    BY <1>13, <2>1, <2>2 DEF Read, notProbes, Names
<1>20. ASSUME NEW p \in Probes, ReadTorn(p), pc' \in {"read2", "push"}, pc \in {"read1", "read2"}
       PROVE  TypeInv'
  <2>1. /\ faulty' \subseteq Names /\ line' \in [Probes -> Line] /\ pad' \in [Probes -> Raw]
        /\ plugs' \in 0..MaxPlug /\ shorted' \subseteq Probes /\ converting' \subseteq Probes
    BY <1>0, <1>20, ChangeIsTyped DEF ReadTorn
  <2>2. temp_value' \in [Probes -> Value]
    <3>1. PICK c \in Cuts : temp_value' = [temp_value EXCEPT ![p] = c.value]
      BY <1>20 DEF ReadTorn
    <3>2. \E f : c.value = ProbeValue(f)
      BY DEF Cuts
    <3>4. c.value \in Value
      BY <3>2, ValuesAreTyped
    <3>3. QED
      BY <3>1, <3>4
  <2>3. torn' \subseteq Probes
    BY <1>20 DEF ReadTorn
  <2>4. UNCHANGED <<sMsg, queue, lightvalue, retry, adc, ext_status, world, ltr>>
    BY <1>20 DEF ReadTorn
  <2>5. QED
    BY <1>20, <2>1, <2>2, <2>3, <2>4 DEF Names
<1>14. CASE PushProbes
  <2>1. queue' \in Seq(Reading)
    <3>1. Probed(1) \in Seq(Reading) /\ Probed(2) \in Seq(Reading)
      BY <1>14, ProbedIs DEF PushProbes, Probes
    <3>2. QED
      BY <1>0, <1>14, <3>1 DEF PushProbes
  <2>2. temp_value' \in [Probes -> Value]
    BY <1>14 DEF PushProbes, Value
  <2>3. QED
    BY <1>14, <2>1, <2>2 DEF PushProbes, notProbes, Reading
<1>15. CASE LtrConverts
  <2>1. ltr' \in [mode : {"standby", "active"}, ready : BOOLEAN, als : Nat]
    BY <1>0, <1>15 DEF LtrConverts, World
  <2>2. QED
    BY <1>15, <2>1 DEF LtrConverts, code, history
<1>16. ASSUME NEW p \in Probes, Plug(p) PROVE TypeInv'
  <2>1. /\ faulty' \subseteq Names /\ line' \in [Probes -> Line] /\ pad' \in [Probes -> Raw]
        /\ plugs' \in 0..MaxPlug /\ shorted' \subseteq Probes /\ converting' \subseteq Probes
    BY <1>0, <1>16, ChangeIsTyped DEF Plug
  <2>2. QED
    BY <1>16, <2>1 DEF Plug, code, Names
<1>17. CASE NextBoot
  <2>1. line' \in [Probes -> Line] /\ pad' \in [Probes -> Raw] /\ temp_value' \in [Probes -> Value]
    BY <1>17, WorldsAssumption DEF NextBoot, RamCleared, Value
  <2>2. adc' \in [raw : Nat, voltage : Nat, sum : Nat, i : 0..NO_OF_SAMPLES, cali : BOOLEAN]
    BY <1>0, <1>17 DEF NextBoot, RamCleared, NoSamples
  <2>3. QED
    BY <1>0, <1>17, <2>1, <2>2 DEF NextBoot, RamCleared, Value
<1>18. CASE UNCHANGED vars
  BY <1>18 DEF vars, code, sensors, history
<1>19. QED
  BY <1>1, <1>2, <1>3, <1>4, <1>5, <1>6, <1>7, <1>8, <1>9, <1>10, <1>11, <1>12, <1>13, <1>14,
     <1>15, <1>16, <1>17, <1>18, <1>20
  DEF Next, Update, LightSensor_value, ub_dt_p1_start, ub_dt_p1_get_temp, Probes

\* A world lasts until the next boot, a fault too, and only the sensors' last
\* steps touch the queue.
LEMMA Kept ==
  ASSUME [Next]_vars
  PROVE  \/ NextBoot
         \/ /\ world' = world /\ faulty \subseteq faulty'
            /\ pc \notin {"sht30", "ltr_standby", "adc_sample", "push"} => queue' = queue
<1> DEFINE Q == \/ NextBoot
                \/ /\ world' = world /\ faulty \subseteq faulty'
                   /\ pc \notin {"sht30", "ltr_standby", "adc_sample", "push"} => queue' = queue
<1>1. CASE Boot \/ Sensors_Data_Update
  BY <1>1 DEF Boot, Sensors_Data_Update, sensors, history
<1>2. CASE sht30_SingleShotMeasure
  BY <1>2 DEF sht30_SingleShotMeasure, notSht30, sensors, Fault
<1>3. CASE LightSensor_value
  <2>1. CASE LtrCheckId
    BY <2>1 DEF LtrCheckId, notLight, Fault
  <2>2. CASE LtrSetup
    BY <2>2 DEF LtrSetup, notLight, Fault
  <2>3. CASE LtrPoll
    BY <2>3 DEF LtrPoll, notLight, Fault
  <2>4. CASE LtrData
    BY <2>4 DEF LtrData, notLight, Fault
  <2>5. CASE LtrStandby
    BY <2>5 DEF LtrStandby, notLight, Fault
  <2>6. QED
    BY <1>3, <2>1, <2>2, <2>3, <2>4, <2>5 DEF LightSensor_value
<1>4. CASE AdcInit
  BY <1>4 DEF AdcInit, notAdc, sensors, Fault
<1>5. CASE AdcSample
  BY <1>5 DEF AdcSample, notAdc, sensors, Fault
<1>6. CASE ub_dt_p1_start
  BY <1>6 DEF ub_dt_p1_start, Start, notProbes, Fault
<1>7. CASE Convert \/ PushProbes
  BY <1>7 DEF Convert, PushProbes, notProbes
<1>8. CASE ub_dt_p1_get_temp
  BY <1>8 DEF ub_dt_p1_get_temp, Read, ReadTorn, Change, notProbes, Fault
<1>9. CASE LtrConverts
  BY <1>9 DEF LtrConverts, code, history
<1>10. ASSUME NEW p \in Probes, Plug(p) PROVE Q
  BY <1>10 DEF Plug, Change, code
<1>11. CASE UNCHANGED vars
  BY <1>11 DEF vars, code, sensors, history
<1>12. QED
  BY <1>1, <1>2, <1>3, <1>4, <1>5, <1>6, <1>7, <1>8, <1>9, <1>10, <1>11 DEF Next, Update

-----------------------------------------------------------------------------
\* The values a sequence has under a number.
ValuesOf(s, n) == {s[i].val : i \in {j \in DOMAIN s : s[j].num = n}}
ValueOf(r, n) == IF r.num = n THEN {r.val} ELSE {}

LEMMA ValuesAppended ==
  ASSUME NEW q \in Seq(Reading), NEW r \in Reading, NEW n
  PROVE  ValuesOf(Append(q, r), n) = ValuesOf(q, n) \cup ValueOf(r, n)
<1> DEFINE a == Append(q, r)
<1>1. /\ DOMAIN q = 1..Len(q) /\ DOMAIN a = 1..(Len(q) + 1) /\ Len(q) \in Nat
      /\ a[Len(q) + 1] = r /\ \A i \in 1..Len(q) : a[i] = q[i]
  OBVIOUS
<1> HIDE DEF a
<1>2. ASSUME NEW v \in ValuesOf(a, n) PROVE v \in ValuesOf(q, n) \cup ValueOf(r, n)
  <2>1. PICK i \in 1..(Len(q) + 1) : a[i].num = n /\ v = a[i].val
    BY <1>1, <1>2 DEF ValuesOf
  <2>2. CASE i = Len(q) + 1
    BY <1>1, <2>1, <2>2 DEF ValueOf
  <2>3. CASE i # Len(q) + 1
    <3>1. i \in 1..Len(q)
      BY <1>1, <2>3
    <3>2. QED
      BY <1>1, <2>1, <3>1 DEF ValuesOf
  <2>4. QED
    BY <2>2, <2>3
<1>3. ASSUME NEW v \in ValuesOf(q, n) PROVE v \in ValuesOf(a, n)
  <2>1. PICK i \in 1..Len(q) : q[i].num = n /\ v = q[i].val
    BY <1>1, <1>3 DEF ValuesOf
  <2>2. i \in DOMAIN a /\ a[i] = q[i]
    BY <1>1, <2>1
  <2>3. QED
    BY <2>1, <2>2 DEF ValuesOf
<1>4. ASSUME NEW v \in ValueOf(r, n) PROVE v \in ValuesOf(a, n)
  <2>1. r.num = n /\ v = r.val
    BY <1>4 DEF ValueOf
  <2>2. Len(q) + 1 \in DOMAIN a
    BY <1>1
  <2>3. QED
    BY <1>1, <2>1, <2>2 DEF ValuesOf
<1>5. QED
  BY <1>2, <1>3, <1>4 DEF a

LEMMA ValuesJoined ==
  ASSUME NEW q \in Seq(Reading), NEW s \in Seq(Reading), NEW n
  PROVE  ValuesOf(q \o s, n) = ValuesOf(q, n) \cup ValuesOf(s, n)
<1> DEFINE a == q \o s
<1>1. /\ DOMAIN q = 1..Len(q) /\ DOMAIN s = 1..Len(s) /\ DOMAIN a = 1..(Len(q) + Len(s))
      /\ Len(q) \in Nat /\ Len(s) \in Nat
      /\ \A i \in 1..Len(q) : a[i] = q[i]
      /\ \A i \in 1..Len(s) : a[Len(q) + i] = s[i]
  <2>1. \A i \in 1..Len(s) : a[Len(q) + i] = s[i]
    OBVIOUS
  <2>2. \A i \in 1..Len(q) : a[i] = q[i]
    OBVIOUS
  <2>3. QED
    BY <2>1, <2>2
<1> HIDE DEF a
<1>2. ASSUME NEW v \in ValuesOf(a, n) PROVE v \in ValuesOf(q, n) \cup ValuesOf(s, n)
  <2>1. PICK i \in 1..(Len(q) + Len(s)) : a[i].num = n /\ v = a[i].val
    BY <1>1, <1>2 DEF ValuesOf
  <2>2. CASE i \in 1..Len(q)
    BY <1>1, <2>1, <2>2 DEF ValuesOf
  <2>3. CASE i \notin 1..Len(q)
    <3> DEFINE j == i - Len(q)
    <3>1. j \in 1..Len(s) /\ i = Len(q) + j
      BY <1>1, <2>3
    <3> HIDE DEF j
    <3>2. a[i] = s[j] /\ j \in DOMAIN s
      BY <1>1, <3>1
    <3>3. QED
      BY <2>1, <3>2 DEF ValuesOf
  <2>4. QED
    BY <2>2, <2>3
<1>3. ASSUME NEW v \in ValuesOf(q, n) PROVE v \in ValuesOf(a, n)
  <2>1. PICK i \in 1..Len(q) : q[i].num = n /\ v = q[i].val
    BY <1>1, <1>3 DEF ValuesOf
  <2>2. i \in DOMAIN a /\ a[i] = q[i]
    BY <1>1, <2>1
  <2>3. QED
    BY <2>1, <2>2 DEF ValuesOf
<1>4. ASSUME NEW v \in ValuesOf(s, n) PROVE v \in ValuesOf(a, n)
  <2>1. PICK i \in 1..Len(s) : s[i].num = n /\ v = s[i].val
    BY <1>1, <1>4 DEF ValuesOf
  <2> DEFINE j == Len(q) + i
  <2>2. j \in DOMAIN a /\ a[j] = s[i]
    BY <1>1, <2>1
  <2> HIDE DEF j
  <2>3. QED
    BY <2>1, <2>2 DEF ValuesOf
<1>5. QED
  BY <1>2, <1>3, <1>4 DEF a

LEMMA ValuesOfNone == \A n : ValuesOf(<<>>, n) = {}
  BY DEF ValuesOf

LEMMA ValuesOfOne == \A r, n : ValuesOf(<<r>>, n) = ValueOf(r, n)
<1> TAKE r, n
<1>1. DOMAIN <<r>> = {1} /\ <<r>>[1] = r
  OBVIOUS
<1>2. QED
  BY <1>1 DEF ValuesOf, ValueOf

LEMMA ValuesOfTwo == \A r, s, n : ValuesOf(<<r, s>>, n) = ValueOf(r, n) \cup ValueOf(s, n)
<1> TAKE r, s, n
<1>1. DOMAIN <<r, s>> = {1, 2} /\ <<r, s>>[1] = r /\ <<r, s>>[2] = s
  OBVIOUS
<1>2. QED
  BY <1>1 DEF ValuesOf, ValueOf

-----------------------------------------------------------------------------
(* The SHT30. *)

\* What passes the checksum is what was sent, and what was sent passes.
LEMMA ShtPassed ==
  ASSUME NEW raw \in Raw, NEW f \in Received(ShtFrame(raw)), ShtValid(f)
  PROVE  f = ShtFrame(raw)
  BY ShtFrameIsRight, ShtChangeIsSeen DEF ShtValid

LEMMA ShtFramed ==
  ASSUME NEW raw \in Raw
  PROVE  ShtValid(ShtFrame(raw)) /\ ShtFrame(raw)[1] = raw[1] /\ ShtFrame(raw)[2] = raw[2]
  BY ShtFrameIsRight DEF ShtValid

\* Both readings, and right, if nothing was changed; else none.
LEMMA ShtReadingsRight ==
  ASSUME world \in World, sMsg \in Stamps,
         NEW t \in Received(ShtFrame(world.temp)), NEW h \in Received(ShtFrame(world.humi))
  PROVE  LET r == [num |-> 1, ts |-> sMsg, val |-> Celsius(world.temp[1], world.temp[2])]
             s == [num |-> 2, ts |-> sMsg, val |-> Humidity(world.humi[1], world.humi[2])]
             whole == t = ShtFrame(world.temp) /\ h = ShtFrame(world.humi)
         IN  /\ ShtReadings(t, h) = IF whole THEN <<r, s>> ELSE <<>>
<1> DEFINE r == [num |-> 1, ts |-> sMsg, val |-> Celsius(world.temp[1], world.temp[2])]
           s == [num |-> 2, ts |-> sMsg, val |-> Humidity(world.humi[1], world.humi[2])]
           whole == t = ShtFrame(world.temp) /\ h = ShtFrame(world.humi)
<1>1. world.temp \in Raw /\ world.humi \in Raw
  BY DEF World
<1>2. CASE whole
  BY <1>1, <1>2, ShtFramed DEF ShtReadings
<1>3. CASE ~whole
  <2>1. ~ShtValid(t) \/ ~ShtValid(h)
    BY <1>1, <1>3, ShtPassed
  <2>2. QED
    BY <1>3, <2>1 DEF ShtReadings
<1>4. QED
  BY <1>2, <1>3

\* Values is ValuesOf the queue.
LEMMA ValuesAre == \A n : Values(n) = ValuesOf(queue, n)
  BY DEF Values, ValuesOf

LEMMA ValuesAreInts == TypeInv => \A n : \A v \in Values(n) : v \in Int
<1> SUFFICES ASSUME TypeInv, NEW n, NEW v \in Values(n) PROVE v \in Int
  OBVIOUS
<1>1. queue \in Seq(Reading)
  BY DEF TypeInv, TypeOK, Reading
<1>2. PICK i \in DOMAIN queue : v = queue[i].val
  BY DEF Values
<1>3. queue[i] \in Reading
  BY <1>1
<1>4. QED
  BY <1>2, <1>3 DEF Reading

LEMMA ValuesWillBe == \A n : Values(n)' = ValuesOf(queue', n)
  BY DEF Values, ValuesOf

(* What each sensor adds to the queue. *)

LEMMA ShtAdds ==
  ASSUME TypeInv, sht30_SingleShotMeasure, NEW n, n \notin {1, 2}
  PROVE  Values(n)' = Values(n)
<1>1. queue \in Seq(Reading) /\ sMsg \in Stamps
  BY DEF TypeInv, TypeOK, Reading, sht30_SingleShotMeasure
<1>2. CASE UNCHANGED queue
  BY <1>2, ValuesAre, ValuesWillBe
<1>3. CASE \E t, h : queue' = queue \o ShtReadings(t, h)
  <2>1. PICK t, h : queue' = queue \o ShtReadings(t, h)
    BY <1>3
  <2>2. ShtReadings(t, h) \in Seq(Reading)
    BY <1>1, ShtReadingsAre
  <2>3. ValuesOf(ShtReadings(t, h), n) = {}
    <3> DEFINE r == [num |-> 1, ts |-> sMsg, val |-> Celsius(t[1], t[2])]
               s == [num |-> 2, ts |-> sMsg, val |-> Humidity(h[1], h[2])]
    <3>1. ValueOf(r, n) = {} /\ ValueOf(s, n) = {}
      BY DEF ValueOf
    <3>2. ShtReadings(t, h) = <<r, s>> \/ ShtReadings(t, h) = <<>>
      BY DEF ShtReadings
    <3> HIDE DEF r, s
    <3>3. ValuesOf(<<r, s>>, n) = {} /\ ValuesOf(<<>>, n) = {}
      BY <3>1, ValuesOfTwo, ValuesOfNone
    <3>4. QED
      BY <3>2, <3>3
  <2>4. ValuesOf(queue', n) = ValuesOf(queue, n) \cup ValuesOf(ShtReadings(t, h), n)
    BY <1>1, <2>1, <2>2, ValuesJoined
  <2>5. QED
    BY <2>3, <2>4, ValuesAre, ValuesWillBe
<1>4. QED
  BY <1>2, <1>3 DEF sht30_SingleShotMeasure

LEMMA PushedAdds ==
  ASSUME TypeInv, pc \notin {"boot", "start"}, NEW m \in {1, 2, 3, 4, 6, 7}, NEW v \in Int,
         queue' = Pushed(m, v), NEW n
  PROVE  Values(n)' = Values(n) \cup (IF n = m THEN {v} ELSE {})
<1> DEFINE r == [num |-> m, ts |-> sMsg, val |-> v]
<1>1. queue \in Seq(Reading) /\ sMsg \in Stamps
  BY DEF TypeInv, TypeOK, Reading
<1>2. r \in Reading
  BY <1>1, ReadingIs
<1>3. ValueOf(r, n) = IF n = m THEN {v} ELSE {}
  BY DEF ValueOf
<1>4. queue' = Append(queue, r)
  BY DEF Pushed
<1> HIDE DEF r
<1>5. ValuesOf(queue', n) = ValuesOf(queue, n) \cup ValueOf(r, n)
  BY <1>1, <1>2, <1>4, ValuesAppended
<1>6. QED
  BY <1>3, <1>5, ValuesAre, ValuesWillBe

LEMMA LightAdds ==
  ASSUME TypeInv, LtrStandby, NEW n
  PROVE  Values(n)' = Values(n) \cup (IF n = 3 /\ lightvalue # ERROR_CODE THEN {lightvalue} ELSE {})
<1>1. CASE lightvalue = ERROR_CODE
  <2>1. queue' = queue
    BY <1>1 DEF LtrStandby
  <2>2. QED
    BY <1>1, <2>1, ValuesAre, ValuesWillBe
<1>2. CASE lightvalue # ERROR_CODE
  <2>1. lightvalue \in Int /\ queue' = Pushed(3, lightvalue) /\ pc = "ltr_standby"
    BY <1>2 DEF LtrStandby, TypeInv, TypeOK, Value
  <2>2. Values(n)' = Values(n) \cup (IF n = 3 THEN {lightvalue} ELSE {})
    BY <2>1, PushedAdds
  <2>3. QED
    BY <1>2, <2>2
<1>3. QED
  BY <1>1, <1>2

LEMMA BatteryAdds ==
  ASSUME TypeInv, pc = "adc_sample", NEW voltage \in Nat, queue' = Pushed(4, adc.sum + voltage), NEW n
  PROVE  Values(n)' = Values(n) \cup (IF n = 4 THEN {adc.sum + voltage} ELSE {})
<1> DEFINE v == adc.sum + voltage
<1>1. v \in Int
  BY DEF TypeInv, TypeOK
<1> HIDE DEF v
<1>2. queue' = Pushed(4, v)
  BY DEF v
<1>3. Values(n)' = Values(n) \cup (IF n = 4 THEN {v} ELSE {})
  BY <1>1, <1>2, PushedAdds
<1>4. QED
  BY <1>3 DEF v

LEMMA ProbesAdd ==
  ASSUME TypeInv, PushProbes, NEW n
  PROVE  Values(n)' = Values(n)
                        \cup (IF n = 6 /\ temp_value[1] # ERROR_CODE THEN {temp_value[1]} ELSE {})
                        \cup (IF n = 7 /\ temp_value[2] # ERROR_CODE THEN {temp_value[2]} ELSE {})
<1>1. /\ queue \in Seq(Reading) /\ sMsg \in Stamps /\ temp_value \in [Probes -> Value]
      /\ 1 \in Probes /\ 2 \in Probes
  BY DEF TypeInv, TypeOK, Reading, PushProbes, Probes
<1>2. Probed(1) \in Seq(Reading) /\ Probed(2) \in Seq(Reading)
  BY <1>1, ProbedIs
<1>3. ASSUME NEW p \in Probes
      PROVE  ValuesOf(Probed(p), n) =
               IF n = 5 + p /\ temp_value[p] # ERROR_CODE THEN {temp_value[p]} ELSE {}
  <2> DEFINE r == [num |-> 5 + p, ts |-> sMsg, val |-> temp_value[p]]
  <2>1. ValueOf(r, n) = IF n = 5 + p THEN {temp_value[p]} ELSE {}
    BY DEF ValueOf
  <2>2. Probed(p) = IF temp_value[p] = ERROR_CODE THEN <<>> ELSE <<r>>
    BY DEF Probed
  <2> HIDE DEF r
  <2>3. QED
    BY <2>1, <2>2, ValuesOfOne, ValuesOfNone
<1>4. queue' = (queue \o Probed(1)) \o Probed(2)
  BY DEF PushProbes
<1>5. queue \o Probed(1) \in Seq(Reading)
  BY <1>1, <1>2
<1>6. ValuesOf(queue', n) = ValuesOf(queue \o Probed(1), n) \cup ValuesOf(Probed(2), n)
  BY <1>2, <1>4, <1>5, ValuesJoined
<1>7. ValuesOf(queue \o Probed(1), n) = ValuesOf(queue, n) \cup ValuesOf(Probed(1), n)
  BY <1>1, <1>2, ValuesJoined
<1>8. /\ ValuesOf(Probed(1), n) = IF n = 6 /\ temp_value[1] # ERROR_CODE THEN {temp_value[1]} ELSE {}
      /\ ValuesOf(Probed(2), n) = IF n = 7 /\ temp_value[2] # ERROR_CODE THEN {temp_value[2]} ELSE {}
  BY <1>1, <1>3
<1>9. QED
  BY <1>6, <1>7, <1>8, ValuesAre, ValuesWillBe

\* A sensor's readings change in its own step only.
LEMMA ValuesStay ==
  ASSUME TypeInv, [Next]_vars, ~NextBoot
  PROVE  /\ pc # "sht30" => Values(1)' = Values(1) /\ Values(2)' = Values(2)
         /\ pc # "ltr_standby" => Values(3)' = Values(3)
         /\ pc # "adc_sample" => Values(4)' = Values(4)
         /\ pc # "push" => Values(6)' = Values(6) /\ Values(7)' = Values(7)
<1>1. CASE UNCHANGED queue
  BY <1>1, ValuesAre, ValuesWillBe
<1>2. CASE sht30_SingleShotMeasure
  <2>1. \A n : n \notin {1, 2} => Values(n)' = Values(n)
    BY <1>2, ShtAdds
  <2>2. QED
    BY <1>2, <2>1 DEF sht30_SingleShotMeasure
<1>3. CASE LtrStandby
  <2>1. \A n : n # 3 => Values(n)' = Values(n)
    BY <1>3, LightAdds
  <2>2. QED
    BY <1>3, <2>1 DEF LtrStandby
<1>4. CASE AdcSample /\ ~UNCHANGED queue
  <2>1. PICK read \in BOOLEAN, converted \in BOOLEAN, raw \in Nat, voltage \in Nat :
          Sample(read, converted, raw, voltage)
    BY <1>4, SampleTaken, WorldsAssumption DEF TypeInv, TypeOK, AdcType
  <2>2. \A n : n # 4 => Values(n)' = Values(n)
    <3>1. pc = "adc_sample" /\ queue' = Pushed(4, adc.sum + voltage)
      BY <1>4, <2>1 DEF Sample, AdcSample
    <3>2. ASSUME NEW n, n # 4 PROVE Values(n)' = Values(n)
      <4>1. Values(n)' = Values(n) \cup (IF n = 4 THEN {adc.sum + voltage} ELSE {})
        BY <3>1, BatteryAdds
      <4>2. QED
        BY <3>2, <4>1
    <3>3. QED
      BY <3>2
  <2>3. QED
    BY <1>4, <2>2 DEF AdcSample
<1>5. CASE PushProbes
  <2>1. \A n : n \notin {6, 7} => Values(n)' = Values(n)
    BY <1>5, ProbesAdd
  <2>2. QED
    BY <1>5, <2>1 DEF PushProbes
<1>6. CASE ~UNCHANGED queue
  <2>1. pc \in {"sht30", "ltr_standby", "adc_sample", "push"}
    BY <1>6, Kept
  <2>2. sht30_SingleShotMeasure \/ LtrStandby \/ AdcSample \/ PushProbes
    BY <1>6, <2>1
    DEF Next, Boot, Update, Sensors_Data_Update, LightSensor_value, LtrCheckId, LtrSetup, LtrPoll,
        LtrData, AdcInit, ub_dt_p1_start, Convert, ub_dt_p1_get_temp, LtrConverts, Plug, code,
        vars, NextBoot
  <2>3. QED
    BY <1>2, <1>3, <1>4, <1>5, <1>6, <2>2
<1>7. QED
  BY <1>1, <1>6

LEMMA ShtStep == TypeInv /\ ShtInv /\ [Next]_vars => ShtInv'
<1> SUFFICES ASSUME TypeInv, ShtInv, [Next]_vars PROVE ShtInv'
  OBVIOUS
<1> DEFINE C == Celsius(world.temp[1], world.temp[2])
           H == Humidity(world.humi[1], world.humi[2])
<1>0. queue \in Seq(Reading) /\ world \in World /\ (pc \notin {"boot", "start"} => sMsg \in Stamps)
  BY WorldsAssumption DEF TypeInv, TypeOK, Reading
<1>1. CASE NextBoot
  <2>1. queue' = <<>> /\ pc' = "boot"
    BY <1>1 DEF NextBoot, RamCleared
  <2>2. \A n : Values(n)' = {}
    BY <2>1 DEF Values
  <2>3. QED
    BY <2>1, <2>2 DEF ShtInv, UntilSht
<1>2. CASE ~NextBoot /\ ~sht30_SingleShotMeasure
  <2>1. world' = world /\ faulty \subseteq faulty'
    BY <1>2, Kept
  <2>2. pc' \in UntilSht <=> pc \in UntilSht
    BY <1>2
    DEF Next, Boot, Update, Sensors_Data_Update, LightSensor_value,
        LtrCheckId, LtrSetup, LtrPoll, LtrData, LtrStandby, AdcInit, AdcSample, ub_dt_p1_start,
        Convert, ub_dt_p1_get_temp, PushProbes, LtrConverts, Plug, code, vars, UntilSht
  <2>3. pc \in UntilSht => queue' = queue
    BY <1>2, Kept
    DEF Next, Boot, Update, Sensors_Data_Update, LightSensor_value,
        LtrCheckId, LtrSetup, LtrPoll, LtrData, LtrStandby, AdcInit, AdcSample, ub_dt_p1_start,
        Convert, ub_dt_p1_get_temp, PushProbes, LtrConverts, Plug, code, vars, UntilSht
  <2>4. Values(1)' = Values(1) /\ Values(2)' = Values(2)
    <3>1. CASE pc = "sht30"
      BY <2>3, <3>1, ValuesAre, ValuesWillBe DEF UntilSht
    <3>2. QED
      BY <1>2, <3>1, ValuesStay
  <2>5. QED
    BY <2>1, <2>2, <2>3, <2>4 DEF ShtInv
<1>3. CASE sht30_SingleShotMeasure
  <2>1. /\ world' = world /\ queue = <<>> /\ pc' = "ltr_id" /\ sMsg \in Stamps
    BY <1>0, <1>3 DEF sht30_SingleShotMeasure, notSht30, sensors, ShtInv, UntilSht
  <2>2. CASE queue' = queue /\ "sht30" \in faulty'
    BY <2>1, <2>2 DEF ShtInv, Values
  <2>3. CASE \E t \in Received(ShtFrame(world.temp)), h \in Received(ShtFrame(world.humi)) :
          /\ queue' = queue \o ShtReadings(t, h)
          /\ Fault("sht30", t = ShtFrame(world.temp) /\ h = ShtFrame(world.humi))
    <3>1. PICK t \in Received(ShtFrame(world.temp)), h \in Received(ShtFrame(world.humi)) :
            /\ queue' = queue \o ShtReadings(t, h)
            /\ Fault("sht30", t = ShtFrame(world.temp) /\ h = ShtFrame(world.humi))
      BY <2>3
    <3> DEFINE r == [num |-> 1, ts |-> sMsg, val |-> C]
               s == [num |-> 2, ts |-> sMsg, val |-> H]
               whole == t = ShtFrame(world.temp) /\ h = ShtFrame(world.humi)
    <3>2. ShtReadings(t, h) = IF whole THEN <<r, s>> ELSE <<>>
      BY <1>0, <2>1, ShtReadingsRight
    <3>3. queue' = ShtReadings(t, h)
      <4>1. ShtReadings(t, h) \in Seq(Reading)
        BY <2>1, ShtReadingsAre
      <4>2. QED
        BY <2>1, <3>1, <4>1
    <3>4. whole \/ "sht30" \in faulty'
      BY <3>1 DEF Fault
    <3>5. CASE whole
      <4>1. \A n : Values(n)' = ValueOf(r, n) \cup ValueOf(s, n)
        <5>1. queue' = <<r, s>>
          BY <3>2, <3>3, <3>5
        <5> HIDE DEF r, s
        <5>2. ASSUME NEW n PROVE Values(n)' = ValueOf(r, n) \cup ValueOf(s, n)
          <6>1. ValuesOf(<<r, s>>, n) = ValueOf(r, n) \cup ValueOf(s, n)
            BY ValuesOfTwo
          <6>2. Values(n)' = ValuesOf(queue', n)
            BY ValuesWillBe
          <6>3. QED
            BY <5>1, <6>1, <6>2
        <5>3. QED
          BY <5>2
      <4>2. Values(1)' = {C} /\ Values(2)' = {H}
        BY <4>1 DEF ValueOf
      <4>3. QED
        BY <2>1, <4>2 DEF ShtInv, UntilSht
    <3>6. CASE ~whole
      <4>1. \A n : Values(n)' = {}
        BY <3>2, <3>3, <3>6, ValuesWillBe, ValuesOfNone
      <4>2. QED
        BY <2>1, <3>4, <3>6, <4>1 DEF ShtInv, UntilSht
    <3>7. QED
      BY <3>5, <3>6
  <2>4. QED
    BY <1>3, <2>2, <2>3 DEF sht30_SingleShotMeasure, Fault
<1>4. QED
  BY <1>1, <1>2, <1>3 DEF Next, Update

-----------------------------------------------------------------------------
(* The light sensor. *)

LEMMA LightStep == TypeInv /\ LightInv /\ [Next]_vars => LightInv'
<1> SUFFICES ASSUME TypeInv, LightInv, [Next]_vars PROVE LightInv'
  OBVIOUS
<1> DEFINE clean == faulty \cap {"light", "slow", "data"} = {}
           lux == world.lux
<1>0. /\ world \in World /\ lux \in Nat
      /\ ltr \in [mode : {"standby", "active"}, ready : BOOLEAN, als : Nat]
      /\ ltr.mode \in {"standby", "active"} /\ ltr.ready \in BOOLEAN
  BY WorldsAssumption DEF TypeInv, TypeOK, World
<1>1. CASE NextBoot
  <2>1. queue' = <<>> /\ pc' = "boot"
    BY <1>1 DEF NextBoot, RamCleared
  <2>2. Values(3)' = {}
    BY <2>1 DEF Values
  <2>3. QED
    BY <2>1, <2>2 DEF LightInv, UntilLight, UntilSht
<1> SUFFICES ASSUME ~NextBoot PROVE LightInv'
  BY <1>1
<1>2. world' = world /\ faulty \subseteq faulty' /\ (clean' => clean)
  BY Kept
<1>3. pc # "ltr_standby" => Values(3)' = Values(3)
  BY ValuesStay
<1>4. CASE LtrCheckId
  <2>1. pc = "ltr_id" /\ pc' \in {"ltr_setup", "adc_init"} /\ ltr' = ltr
    BY <1>4 DEF LtrCheckId
  <2>2. pc' = "adc_init" => "light" \in faulty'
    BY <1>4 DEF LtrCheckId, Fault, IIC_Read_Reg
  <2>3. Values(3)' = {}
    BY <1>3, <2>1 DEF LightInv, UntilLight, UntilSht
  <2>4. QED
    BY <2>1, <2>2, <2>3 DEF LightInv, UntilLight, UntilSht
<1>5. CASE LtrSetup
  <2>1. pc = "ltr_setup" /\ pc' = "ltr_poll"
    BY <1>5 DEF LtrSetup
  <2>2. clean' => ltr'.mode = "active" /\ ltr'.ready = FALSE
    BY <1>0, <1>5 DEF LtrSetup, Fault, IIC_Write_Reg
  <2>3. Values(3)' = {}
    BY <1>3, <2>1 DEF LightInv, UntilLight, UntilSht
  <2>4. QED
    BY <2>1, <2>2, <2>3 DEF LightInv, UntilLight, UntilSht
<1>6. CASE LtrPoll
  <2>1. pc = "ltr_poll" /\ pc' \in {"ltr_poll", "ltr_data", "ltr_standby"} /\ ltr' = ltr
    BY <1>6 DEF LtrPoll
  <2>2. clean' => pc' # "ltr_standby" /\ (pc' = "ltr_data" => ltr.ready)
    BY <1>6 DEF LtrPoll, Fault, IIC_Read_Reg
  <2>3. Values(3)' = {}
    BY <1>3, <2>1 DEF LightInv, UntilLight, UntilSht
  <2>4. QED
    BY <1>2, <2>1, <2>2, <2>3 DEF LightInv, UntilLight, UntilSht
<1>7. CASE LtrData
  <2>1. pc = "ltr_data" /\ pc' = "ltr_standby"
    BY <1>7 DEF LtrData
  <2>2. clean' => lightvalue' = 3 * ltr.als
    BY <1>7 DEF LtrData, Fault
  <2>3. clean => ltr.als = lux
    BY <2>1 DEF LightInv
  <2>4. Values(3)' = {}
    BY <1>3, <2>1 DEF LightInv, UntilLight, UntilSht
  <2>5. QED
    BY <1>2, <2>1, <2>2, <2>3, <2>4 DEF LightInv, UntilLight, UntilSht
<1>8. CASE LtrStandby
  <2>1. pc = "ltr_standby" /\ pc' = "adc_init"
    BY <1>8 DEF LtrStandby
  <2>2. "light" \notin faulty' => ltr'.mode = "standby"
    BY <1>0, <1>8 DEF LtrStandby, Fault, IIC_Write_Reg
  <2>3. Values(3) = {}
    BY <2>1 DEF LightInv, UntilLight, UntilSht
  <2>4. clean' => lightvalue = 3 * lux /\ lightvalue # ERROR_CODE
    BY <1>0, <1>2, <2>1, ErrorAssumption DEF LightInv
  <2>5. clean' => Values(3)' = {3 * lux}
    BY <1>8, <2>3, <2>4, LightAdds
  <2>6. QED
    BY <1>2, <2>1, <2>2, <2>5 DEF LightInv, UntilLight, UntilSht
<1>9. CASE LtrConverts
  <2>1. /\ pc' = pc /\ ltr'.mode = ltr.mode /\ ltr'.ready = TRUE /\ ltr'.als = lux
        /\ faulty' = faulty /\ lightvalue' = lightvalue
    BY <1>0, <1>9 DEF LtrConverts, code, history
  <2>2. Values(3)' = Values(3)
    BY <1>9, ValuesAre, ValuesWillBe DEF LtrConverts, code
  <2>3. QED
    BY <1>2, <2>1, <2>2 DEF LightInv
<1>10. CASE Boot
  <2>1. pc = "boot" /\ pc' = "start"
    BY <1>10 DEF Boot
  <2>2. Values(3)' = {}
    BY <1>3, <2>1 DEF LightInv, UntilLight, UntilSht
  <2>3. QED
    BY <2>1, <2>2 DEF LightInv, UntilLight, UntilSht
<1>11. CASE Sensors_Data_Update \/ sht30_SingleShotMeasure
  <2>1. pc \in {"start", "sht30"} /\ pc' \in {"sht30", "ltr_id"}
    BY <1>11 DEF Sensors_Data_Update, sht30_SingleShotMeasure
  <2>2. Values(3)' = {}
    BY <1>3, <2>1 DEF LightInv, UntilLight, UntilSht
  <2>3. QED
    BY <2>1, <2>2 DEF LightInv, UntilLight, UntilSht
<1>12. CASE UNCHANGED vars
  <2>1. Values(3)' = Values(3)
    BY <1>12, ValuesAre, ValuesWillBe DEF vars, code
  <2>2. QED
    BY <1>12, <2>1 DEF LightInv, vars, code, sensors, history
<1>13. ASSUME pc \notin UntilLight, pc' \notin UntilLight, ltr' = ltr PROVE LightInv'
  <2>1. Values(3)' = Values(3)
    BY <1>3, <1>13 DEF UntilLight, UntilSht
  <2>2. QED
    BY <1>2, <1>13, <2>1 DEF LightInv, UntilLight, UntilSht
<1>14. CASE AdcInit \/ AdcSample
  <2>1. ltr' = ltr /\ pc \in {"adc_init", "adc_sample"} /\ pc' \in {"adc_sample", "aborted", "start1"}
    BY <1>14 DEF AdcInit, AdcSample, notAdc, sensors
  <2>2. QED
    BY <1>13, <2>1 DEF UntilLight, UntilSht
<1>15. CASE ub_dt_p1_start \/ Convert \/ ub_dt_p1_get_temp \/ PushProbes
  <2>1. /\ ltr' = ltr /\ pc \in {"start1", "start2", "convert", "read1", "read2", "push"}
        /\ pc' \in {"start2", "convert", "read1", "read2", "push", "done"}
    BY <1>15
    DEF ub_dt_p1_start, Start, Convert, ub_dt_p1_get_temp, Read, ReadTorn, PushProbes, notProbes
  <2>2. QED
    BY <1>13, <2>1 DEF UntilLight, UntilSht
<1>16. CASE \E p \in Probes : Plug(p)
  <2>1. ltr' = ltr /\ pc' = pc /\ pc \in {"start1", "start2", "convert", "read1", "read2"}
    BY <1>16 DEF Plug, code
  <2>2. QED
    BY <1>13, <2>1 DEF UntilLight, UntilSht
<1>17. QED
  BY <1>4, <1>5, <1>6, <1>7, <1>8, <1>9, <1>10, <1>11, <1>12, <1>14, <1>15, <1>16
  DEF Next, Update, LightSensor_value

\* Only LtrData gives a value, and only a conversion changes what is held.
LEMMA LightKept ==
  ASSUME TypeInv, [Next]_vars
  PROVE  /\ ltr'.als \in {ltr.als, world.lux}
         /\ LtrData \/ lightvalue' \in {lightvalue, ERROR_CODE}
<1> DEFINE Q == /\ ltr'.als \in {ltr.als, world.lux}
                /\ LtrData \/ lightvalue' \in {lightvalue, ERROR_CODE}
<1>0. ltr \in [mode : {"standby", "active"}, ready : BOOLEAN, als : Nat]
  BY DEF TypeInv, TypeOK
<1>1. CASE Boot
  BY <1>0, <1>1 DEF Boot
<1>2. CASE Sensors_Data_Update \/ sht30_SingleShotMeasure \/ AdcInit \/ AdcSample
  BY <1>2 DEF Sensors_Data_Update, sht30_SingleShotMeasure, AdcInit, AdcSample, notSht30, notAdc, sensors
<1>3. CASE LtrCheckId \/ LtrSetup \/ LtrPoll \/ LtrStandby
  BY <1>0, <1>3 DEF LtrCheckId, LtrSetup, LtrPoll, LtrStandby
<1>4. CASE LtrData
  BY <1>0, <1>4 DEF LtrData
<1>5. CASE ub_dt_p1_start \/ Convert \/ PushProbes
  BY <1>5 DEF ub_dt_p1_start, Start, Convert, PushProbes, notProbes
<1>6. CASE ub_dt_p1_get_temp
  BY <1>6 DEF ub_dt_p1_get_temp, Read, ReadTorn, notProbes
<1>7. CASE LtrConverts
  BY <1>0, <1>7 DEF LtrConverts, code
<1>8. ASSUME NEW p \in Probes, Plug(p) PROVE Q
  BY <1>8 DEF Plug, code
<1>9. CASE NextBoot
  BY <1>9 DEF NextBoot, RamCleared
<1>10. CASE UNCHANGED vars
  BY <1>10 DEF vars, code, sensors
<1>11. QED
  BY <1>1, <1>2, <1>3, <1>4, <1>5, <1>6, <1>7, <1>8, <1>9, <1>10
  DEF Next, Update, LightSensor_value

LEMMA ShownLightStep == TypeInv /\ ShownLightInv /\ [Next]_vars => ShownLightInv'
<1> SUFFICES ASSUME TypeInv, ShownLightInv, [Next]_vars PROVE ShownLightInv'
  OBVIOUS
<1>1. 3 * ltr.als \in Lights /\ 3 * world.lux \in Lights
  BY DEF ShownLightInv, Lights, TypeInv, TypeOK
<1>2. (3 * ltr.als)' \in Lights
  BY <1>1, LightKept
<1>3. ASSUME "data" \notin faulty' PROVE (lightvalue \in Lights \cup {ERROR_CODE})' /\ Values(3)' \subseteq Lights
  <2>1. CASE NextBoot
    <3>1. queue' = <<>> /\ lightvalue' = ERROR_CODE
      BY <2>1 DEF NextBoot, RamCleared
    <3>2. Values(3)' = {}
      BY <3>1 DEF Values
    <3>3. QED
      BY <3>1, <3>2
  <2>2. CASE ~NextBoot
    <3>1. "data" \notin faulty /\ lightvalue \in Lights \cup {ERROR_CODE} /\ Values(3) \subseteq Lights
      BY <1>3, <2>2, Kept DEF ShownLightInv
    <3>2. lightvalue' \in Lights \cup {ERROR_CODE}
      <4>1. CASE LtrData
        <5>1. lightvalue' = 3 * ltr.als
          BY <1>3, <4>1 DEF LtrData, Fault
        <5>2. QED
          BY <1>1, <5>1
      <4>2. CASE ~LtrData
        BY <3>1, <4>2, LightKept
      <4>3. QED
        BY <4>1, <4>2
    <3>3. CASE LtrStandby
      <4>1. Values(3)' = Values(3) \cup (IF 3 = 3 /\ lightvalue # ERROR_CODE THEN {lightvalue} ELSE {})
        BY <3>3, LightAdds
      <4>2. QED
        BY <3>1, <3>2, <4>1 DEF Lights
    <3>4. CASE ~LtrStandby
      <4>1. Values(3)' = Values(3)
        <5>1. CASE UNCHANGED queue
          BY <5>1, ValuesAre, ValuesWillBe
        <5>2. CASE ~UNCHANGED queue
          <6>1. CASE sht30_SingleShotMeasure \/ AdcSample \/ PushProbes
            <7>1. pc # "ltr_standby"
              <8>1. CASE sht30_SingleShotMeasure
                BY <8>1 DEF sht30_SingleShotMeasure
              <8>2. CASE AdcSample
                <9>1. pc = "adc_sample"
                  BY <8>2 DEF AdcSample
                <9>2. QED
                  BY <9>1
              <8>3. CASE PushProbes
                BY <8>3 DEF PushProbes
              <8>4. QED
                BY <6>1, <8>1, <8>2, <8>3
            <7>2. QED
              BY <2>2, <7>1, ValuesStay
          <6>2. CASE ~(sht30_SingleShotMeasure \/ AdcSample \/ PushProbes)
            <7>1. pc # "ltr_standby"
              BY <2>2, <3>4, <5>2, <6>2
              DEF Next, Boot, Update, Sensors_Data_Update, LightSensor_value, LtrCheckId, LtrSetup,
                  LtrPoll, LtrData, AdcInit, ub_dt_p1_start, Convert, ub_dt_p1_get_temp,
                  LtrConverts, Plug, code, vars
            <7>2. QED
              BY <2>2, <7>1, ValuesStay
          <6>3. QED
            BY <6>1, <6>2
        <5>3. QED
          BY <5>1, <5>2
      <4>2. QED
        BY <3>1, <3>2, <4>1
    <3>5. QED
      BY <3>3, <3>4
  <2>3. QED
    BY <2>1, <2>2
<1>4. QED
  BY <1>2, <1>3 DEF ShownLightInv, Lights

-----------------------------------------------------------------------------
(* The battery. *)

\* Arithmetic of the samples.
LEMMA Less == ASSUME NEW a \in Nat, NEW b \in Nat, NEW n \in Nat, NEW m \in Nat, a <= n * m, b <= m
              PROVE  a + b <= (n + 1) * m
<1>1. (n + 1) * m = n * m + m /\ n * m \in Nat
  OBVIOUS
<1>2. QED
  BY <1>1

LEMMA OneMore == ASSUME NEW n \in Nat, NEW m \in Nat PROVE n * m + m = (n + 1) * m
OBVIOUS

LEMMA NoSamplesBounded ==
  ASSUME NEW mv \in Nat
  PROVE  NoSamples.raw <= mv /\ NoSamples.voltage <= mv /\ NoSamples.sum <= NoSamples.i * mv
  BY DEF NoSamples

LEMMA BatteryStep == TypeInv /\ BatteryInv /\ [Next]_vars => BatteryInv'
<1> SUFFICES ASSUME TypeInv, BatteryInv, [Next]_vars PROVE BatteryInv'
  OBVIOUS
<1> DEFINE mv == world.mv
           N == NO_OF_SAMPLES
<1>0. /\ world \in World /\ world' \in World' /\ mv \in Nat /\ adc \in AdcType /\ N \in Nat /\ N # 0
  BY WorldsAssumption, CountsAssumption, TypeStep DEF TypeInv, TypeOK, World, AdcType
<1>1. CASE NextBoot
  <2>1. queue' = <<>> /\ pc' = "boot" /\ adc' = NoSamples
    BY <1>1 DEF NextBoot, RamCleared
  <2>2. Values(4)' = {}
    BY <2>1 DEF Values
  <2>3. world'.mv \in Nat
    BY <1>0 DEF World
  <2>4. adc'.raw <= world'.mv /\ adc'.voltage <= world'.mv /\ adc'.sum <= adc'.i * world'.mv
    BY <2>1, <2>3, NoSamplesBounded
  <2>5. QED
    BY <2>1, <2>2, <2>4 DEF BatteryInv, UntilBattery, UntilLight, UntilSht
<1> SUFFICES ASSUME ~NextBoot PROVE BatteryInv'
  BY <1>1
<1>2. world' = world /\ mv' = mv /\ faulty \subseteq faulty'
  BY Kept
<1>3. pc # "adc_sample" => Values(4)' = Values(4)
  BY ValuesStay
<1>4. CASE AdcInit
  <2>1. pc = "adc_init" /\ pc' \in {"adc_sample", "aborted"} /\ adc = NoSamples
    BY <1>4 DEF AdcInit, BatteryInv
  <2>2. /\ adc'.raw = adc.raw /\ adc'.voltage = adc.voltage /\ adc'.sum = 0 /\ adc'.i = 0
        /\ "battery" \notin faulty' => adc'.cali = TRUE
    BY <1>0, <1>4 DEF AdcInit, Fault, AdcType
  <2>3. Values(4)' = {}
    BY <1>3, <2>1 DEF BatteryInv, UntilBattery
  <2>4. 0 <= 0 * mv /\ 0 = 0 * mv /\ 0 < N
    BY <1>0
  <2>5. QED
    BY <1>2, <2>1, <2>2, <2>3, <2>4 DEF BatteryInv, UntilBattery, UntilLight, UntilSht
<1>5. CASE AdcSample
  <2>1. PICK read \in BOOLEAN, converted \in BOOLEAN, raw \in Nat, voltage \in Nat :
          Sample(read, converted, raw, voltage)
    BY <1>0, <1>5, SampleTaken
  <2> DEFINE i == adc.i
             sum == adc.sum
  <2>2. pc = "adc_sample" /\ i < N /\ i \in Nat /\ sum \in Nat /\ sum <= i * mv
    BY <1>0, <1>5 DEF AdcSample, BatteryInv, AdcType
  <2>3. raw <= mv /\ voltage <= mv
    BY <1>0, <2>1 DEF Sample, BatteryInv
  <2>4. sum + voltage <= (i + 1) * mv
    BY <1>0, <2>2, <2>3, Less
  <2>5. "battery" \notin faulty' => adc.cali /\ sum + voltage = (i + 1) * mv
    <3>1. SUFFICES ASSUME "battery" \notin faulty' PROVE adc.cali /\ sum + voltage = (i + 1) * mv
      OBVIOUS
    <3>2. read /\ converted /\ "battery" \notin faulty
      BY <1>2, <2>1, <3>1 DEF Sample, Fault
    <3>3. adc.cali /\ sum = i * mv
      BY <2>2, <3>2 DEF BatteryInv
    <3>4. voltage = mv
      BY <2>1, <3>2, <3>3 DEF Sample
    <3>5. i * mv + mv = (i + 1) * mv
      BY <1>0, <2>2, OneMore
    <3>6. QED
      BY <3>3, <3>4, <3>5
  <2>6. CASE pc' = "adc_sample"
    <3>1. /\ i + 1 < N /\ queue' = queue /\ adc'.raw = raw /\ adc'.voltage = voltage
          /\ adc'.i = i + 1 /\ adc'.sum = sum + voltage /\ adc'.cali = adc.cali
      BY <2>1, <2>6 DEF Sample
    <3>2. Values(4)' = {}
      BY <2>2, <3>1, ValuesAre, ValuesWillBe DEF BatteryInv, UntilBattery
    <3> HIDE DEF i, sum, mv
    <3>3. /\ adc'.raw <= mv' /\ adc'.voltage <= mv' /\ adc'.sum <= adc'.i * mv'
          /\ adc'.i < N /\ ("battery" \notin faulty' => adc'.cali /\ adc'.sum = adc'.i * mv')
      BY <1>2, <2>3, <2>4, <2>5, <3>1
    <3>4. QED
      BY <2>6, <3>2, <3>3 DEF BatteryInv, UntilBattery, mv
  <2>7. CASE pc' = "start1"
    <3>1. i + 1 >= N /\ adc' = NoSamples /\ queue' = Pushed(4, sum + voltage)
      BY <2>1, <2>7 DEF Sample
    <3>2. i + 1 = N
      BY <1>0, <2>2, <3>1
    <3>3. Values(4)' = {sum + voltage}
      <4>1. Values(4) = {}
        BY <2>2 DEF BatteryInv, UntilBattery
      <4>2. Values(4)' = Values(4) \cup (IF 4 = 4 THEN {adc.sum + voltage} ELSE {})
        BY <2>2, <3>1, BatteryAdds
      <4>3. QED
        BY <4>1, <4>2
    <3>4. adc'.raw <= world'.mv /\ adc'.voltage <= world'.mv /\ adc'.sum <= adc'.i * world'.mv
      BY <1>0, <1>2, <3>1, NoSamplesBounded
    <3> HIDE DEF i, sum
    <3>5. \A v \in Values(4)' : v <= N * world'.mv
      BY <1>2, <2>4, <3>2, <3>3
    <3>6. "battery" \notin faulty' => Values(4)' = {N * world'.mv}
      BY <1>2, <2>5, <3>2, <3>3
    <3>7. QED
      BY <2>7, <3>1, <3>4, <3>5, <3>6 DEF BatteryInv, UntilBattery, UntilLight, UntilSht
  <2>8. QED
    BY <2>1, <2>6, <2>7 DEF Sample
<1>6. ASSUME adc' = adc, pc' # "adc_sample", pc # "adc_sample", pc = "aborted" => pc' = "aborted",
             pc' = "aborted" => pc = "aborted", pc \in UntilBattery <=> pc' \in UntilBattery
      PROVE  BatteryInv'
  BY <1>2, <1>3, <1>6 DEF BatteryInv
<1>7. CASE Boot \/ Sensors_Data_Update \/ sht30_SingleShotMeasure
  BY <1>6, <1>7
  DEF Boot, Sensors_Data_Update, sht30_SingleShotMeasure, notSht30, UntilBattery, UntilLight,
      UntilSht
<1>8. CASE LightSensor_value
  <2>1. adc' = adc
    BY <1>8
    DEF LightSensor_value, LtrCheckId, LtrSetup, LtrPoll, LtrData, LtrStandby, notLight
  <2>2. pc \in {"ltr_id", "ltr_setup", "ltr_poll", "ltr_data", "ltr_standby"}
    BY <1>8 DEF LightSensor_value, LtrCheckId, LtrSetup, LtrPoll, LtrData, LtrStandby
  <2>3. pc' \in {"ltr_setup", "ltr_poll", "ltr_data", "ltr_standby", "adc_init"}
    BY <1>8 DEF LightSensor_value, LtrCheckId, LtrSetup, LtrPoll, LtrData, LtrStandby
  <2>4. QED
    BY <1>6, <2>1, <2>2, <2>3 DEF UntilBattery, UntilLight, UntilSht
<1>9. CASE ub_dt_p1_start \/ Convert \/ ub_dt_p1_get_temp \/ PushProbes
  <2>1. /\ adc' = adc /\ pc \in {"start1", "start2", "convert", "read1", "read2", "push"}
        /\ pc' \in {"start2", "convert", "read1", "read2", "push", "done"}
    BY <1>9
    DEF ub_dt_p1_start, Start, Convert, ub_dt_p1_get_temp, Read, ReadTorn, PushProbes, notProbes
  <2>2. QED
    BY <1>6, <2>1 DEF UntilBattery, UntilLight, UntilSht
<1>10. CASE LtrConverts \/ (\E p \in Probes : Plug(p)) \/ UNCHANGED vars
  <2>1. queue' = queue /\ adc' = adc /\ pc' = pc
    BY <1>10 DEF LtrConverts, Plug, vars, code
  <2>2. Values(4)' = Values(4)
    BY <2>1, ValuesAre, ValuesWillBe
  <2>3. QED
    BY <1>2, <2>1, <2>2 DEF BatteryInv
<1>11. QED
  BY <1>4, <1>5, <1>7, <1>8, <1>9, <1>10 DEF Next, Update

-----------------------------------------------------------------------------
(* What a probe's answer is taken for. *)

\* The complement of a byte, a word and a temperature.
LEMMA BitOfComplement ==
  ASSUME NEW i \in Bits, NEW w \in Int, NEW b
  PROVE  Bit(i, w, Bits \ b) = w - Bit(i, w, b)
  BY DEF Bit

LEMMA NumOfComplement ==
  \A b : /\ Num(b) \in Int /\ 0 <= Num(b) /\ Num(b) <= 255
         /\ Num(Bits \ b) = 255 - Num(b)
<1> TAKE b
<1>1. /\ Bit(0, 1, Bits \ b) = 1 - Bit(0, 1, b) /\ Bit(1, 2, Bits \ b) = 2 - Bit(1, 2, b)
      /\ Bit(2, 4, Bits \ b) = 4 - Bit(2, 4, b) /\ Bit(3, 8, Bits \ b) = 8 - Bit(3, 8, b)
  BY BitOfComplement DEF Bits
<1>2. /\ Bit(4, 16, Bits \ b) = 16 - Bit(4, 16, b) /\ Bit(5, 32, Bits \ b) = 32 - Bit(5, 32, b)
      /\ Bit(6, 64, Bits \ b) = 64 - Bit(6, 64, b) /\ Bit(7, 128, Bits \ b) = 128 - Bit(7, 128, b)
  BY BitOfComplement DEF Bits
<1>3. /\ Bit(0, 1, b) \in Int /\ 0 <= Bit(0, 1, b) /\ Bit(0, 1, b) <= 1
      /\ Bit(1, 2, b) \in Int /\ 0 <= Bit(1, 2, b) /\ Bit(1, 2, b) <= 2
      /\ Bit(2, 4, b) \in Int /\ 0 <= Bit(2, 4, b) /\ Bit(2, 4, b) <= 4
      /\ Bit(3, 8, b) \in Int /\ 0 <= Bit(3, 8, b) /\ Bit(3, 8, b) <= 8
  BY DEF Bit
<1>4. /\ Bit(4, 16, b) \in Int /\ 0 <= Bit(4, 16, b) /\ Bit(4, 16, b) <= 16
      /\ Bit(5, 32, b) \in Int /\ 0 <= Bit(5, 32, b) /\ Bit(5, 32, b) <= 32
      /\ Bit(6, 64, b) \in Int /\ 0 <= Bit(6, 64, b) /\ Bit(6, 64, b) <= 64
      /\ Bit(7, 128, b) \in Int /\ 0 <= Bit(7, 128, b) /\ Bit(7, 128, b) <= 128
  BY DEF Bit
<1>5. Num(b) \in Int /\ 0 <= Num(b) /\ Num(b) <= 255
  BY <1>3, <1>4 DEF Num
<1>6. Num(Bits \ b) = 255 - Num(b)
  <2> DEFINE c == Bits \ b
  <2>1. /\ Bit(0, 1, c) = 1 - Bit(0, 1, b) /\ Bit(1, 2, c) = 2 - Bit(1, 2, b)
        /\ Bit(2, 4, c) = 4 - Bit(2, 4, b) /\ Bit(3, 8, c) = 8 - Bit(3, 8, b)
        /\ Bit(4, 16, c) = 16 - Bit(4, 16, b) /\ Bit(5, 32, c) = 32 - Bit(5, 32, b)
        /\ Bit(6, 64, c) = 64 - Bit(6, 64, b) /\ Bit(7, 128, c) = 128 - Bit(7, 128, b)
    BY <1>1, <1>2
  <2> HIDE DEF c
  <2>2. Num(c) = 255 - Num(b)
    BY <1>3, <1>4, <2>1 DEF Num
  <2>3. QED
    BY <2>2 DEF c
<1>7. QED
  BY <1>5, <1>6

LEMMA WordOfTwo ==
  ASSUME NEW h \in Int, NEW l \in Int, 0 <= h, h <= 255, 0 <= l, l <= 255
  PROVE  /\ 0 <= 256 * h + l /\ 256 * h + l <= 65535
         /\ 256 * (255 - h) + (255 - l) = 65535 - (256 * h + l)
OBVIOUS

LEMMA WordOfComplement ==
  \A lo, hi : /\ Word(hi, lo) \in Int /\ 0 <= Word(hi, lo) /\ Word(hi, lo) <= 65535
              /\ Word(Bits \ hi, Bits \ lo) = 65535 - Word(hi, lo)
<1> TAKE lo, hi
<1>1. /\ Num(lo) \in Int /\ 0 <= Num(lo) /\ Num(lo) <= 255
      /\ Num(hi) \in Int /\ 0 <= Num(hi) /\ Num(hi) <= 255
      /\ Num(Bits \ lo) = 255 - Num(lo) /\ Num(Bits \ hi) = 255 - Num(hi)
  BY NumOfComplement
<1>2. QED
  BY <1>1, WordOfTwo DEF Word

LEMMA ShortOfComplement ==
  ASSUME NEW w \in Int, 0 <= w, w <= 65535
  PROVE  Short(w) \in Int /\ -Short(65535 - w) = Short(w) + 1
  BY DEF Short

LEMMA SixteenthsAre ==
  \A lo, hi : \/ Sixteenths(lo, hi) = Short(Word(hi, lo))
              \/ Sixteenths(lo, hi) = Short(Word(hi, lo)) + 1
<1> TAKE lo, hi
<1> DEFINE W == Word(hi, lo)
<1>1. W \in Int /\ 0 <= W /\ W <= 65535 /\ Word(Bits \ hi, Bits \ lo) = 65535 - W
  BY WordOfComplement
<1>2. Sixteenths(lo, hi) = Short(W) \/ Sixteenths(lo, hi) = -Short(65535 - W)
  BY <1>1 DEF Sixteenths
<1> HIDE DEF W
<1>3. -Short(65535 - W) = Short(W) + 1
  BY <1>1, ShortOfComplement
<1>4. Sixteenths(lo, hi) = Short(W) \/ Sixteenths(lo, hi) = Short(W) + 1
  BY <1>2, <1>3
<1>5. QED
  BY <1>4 DEF W

\* A temperature from 0 to 128 degrees is not taken for a negative one.
LEMMA NotNegative ==
  \A lo, hi : 0 <= Short(Word(hi, lo)) /\ Short(Word(hi, lo)) < 2048
             => Sixteenths(lo, hi) = Short(Word(hi, lo))
<1> SUFFICES ASSUME NEW lo, NEW hi, 0 <= Short(Word(hi, lo)), Short(Word(hi, lo)) < 2048
             PROVE  Sixteenths(lo, hi) = Short(Word(hi, lo))
  OBVIOUS
<1> DEFINE h == Num(hi)
           l == Num(lo)
<1>1. h \in Int /\ l \in Int /\ 0 <= l /\ 0 <= h /\ h <= 255 /\ l <= 255
  BY NumOfComplement
<1> DEFINE w == 256 * h + l
           v == IF w >= 32768 THEN w - 65536 ELSE w
<1>2. 0 <= v /\ v < 2048
  BY DEF Short, Word
<1> HIDE DEF h, l
<1>3. ~(h > 7)
  BY <1>1, <1>2
<1>4. QED
  BY <1>3 DEF Sixteenths, h

LEMMA SixteenthsShown ==
  ASSUME NEW raw
  PROVE  Shows(Sixteenths(raw[1], raw[2]), raw) /\ Sixteenths(raw[1], raw[2]) # ERROR_CODE
<1> DEFINE v == Sixteenths(raw[1], raw[2])
           s == Short(Word(raw[2], raw[1]))
<1>1. (v = s \/ v = s + 1) /\ (0 <= s /\ s < 2048 => v = s)
  BY SixteenthsAre, NotNegative
<1>2. v \in Int /\ s \in Int
  BY SixteenthsIsInt, WordOfComplement, ShortOfComplement
<1> HIDE DEF v, s
<1>3. v - s \in (IF 0 <= s /\ s < 2048 THEN {0} ELSE {0, 1}) /\ v # ERROR_CODE
  BY <1>1, <1>2, ErrorAssumption
<1>4. QED
  BY <1>3 DEF v, s, Shows, Degrees

\* Nine zero bytes are 0 degrees, if they are anything.
LEMMA SilenceIsZero == Sixteenths({}, {}) = 0
<1>1. Num({}) = 0
  BY DEF Num, Bit
<1>2. Word({}, {}) = 0
  BY <1>1 DEF Word
<1>3. QED
  BY <1>1, <1>2 DEF Sixteenths, Short

\* A reading that breaks off after the first two bytes shows what the probe
\* holds, or the 0 of a low line, or is refused.
LEMMA CutsAreShown ==
  ASSUME NEW c \in Cuts, ~c.early, c.value # ERROR_CODE
  PROVE  IF c.from = "low" THEN c.value = 0 ELSE Shows(c.value, c.raw)
<1>1. PICK from \in {"probe", "low"}, raw \in Held, to \in Line, k \in 0..71 :
        c = [from |-> from, raw |-> raw, to |-> to, early |-> k < 16,
             value |-> ProbeValue(Torn(IF from = "low" THEN Silence ELSE ProbeFrame(raw), k, to))]
  BY DEF Cuts
<1> DEFINE f == IF from = "low" THEN Silence ELSE ProbeFrame(raw)
           g == Torn(f, k, to)
<1>2. c.from = from /\ c.raw = raw /\ c.value = ProbeValue(g) /\ ~(k < 16)
  BY <1>1
<1>3. f[1] \in Byte /\ f[2] \in Byte /\ (from = "low" => f[1] = {} /\ f[2] = {})
      /\ (from # "low" => f[1] = raw[1] /\ f[2] = raw[2])
  <2>1. CASE from = "low"
    BY <2>1 DEF Silence, Byte
  <2>2. CASE from # "low"
    <3>1. raw \in Raw
      BY WorldsAssumption DEF Held, World
    <3>2. ProbeFrame(raw)[1] = raw[1] /\ ProbeFrame(raw)[2] = raw[2]
      BY <3>1, ProbeFrameIsRight
    <3>3. raw[1] \in Byte /\ raw[2] \in Byte
      BY <3>1 DEF Raw
    <3>4. QED
      BY <2>2, <3>2, <3>3
  <2>3. QED
    BY <2>1, <2>2
<1> HIDE DEF f
<1>4. g[1] = f[1] /\ g[2] = f[2]
  <2>1. \A i \in {1, 2} : \A b \in Bits : 8 * (i - 1) + b < k
    BY <1>2 DEF Bits
  <2>2. \A i \in {1, 2} : g[i] = {b \in Bits : IF 8 * (i - 1) + b < k THEN b \in f[i] ELSE to # "low"}
    BY DEF Torn
  <2>3. \A i \in {1, 2} : g[i] = {b \in Bits : b \in f[i]}
    BY <2>1, <2>2
  <2>4. QED
    BY <1>3, <2>3 DEF Byte
<1> HIDE DEF g
<1>5. c.value = Sixteenths(f[1], f[2])
  BY <1>2, <1>4 DEF ProbeValue
<1>6. CASE from = "low"
  BY <1>2, <1>3, <1>5, <1>6, SilenceIsZero
<1>7. CASE from # "low"
  BY <1>2, <1>3, <1>5, <1>7, SixteenthsShown
<1>8. QED
  BY <1>2, <1>6, <1>7

\* An answer that was changed is refused; one that was not shows what the
\* probe holds.
LEMMA AnswersAreShown ==
  ASSUME NEW a \in Answers
  PROVE  /\ a.value = ERROR_CODE \/ Shows(a.value, a.raw)
         /\ a.whole => Shows(a.value, a.raw) /\ a.value # ERROR_CODE
<1>1. PICK raw \in Held : \E f \in Received(ProbeFrame(raw)) :
          a = [raw |-> raw, value |-> ProbeValue(f), whole |-> f = ProbeFrame(raw)]
  BY DEF Answers
<1>2. PICK f \in Received(ProbeFrame(raw)) :
          a = [raw |-> raw, value |-> ProbeValue(f), whole |-> f = ProbeFrame(raw)]
  BY <1>1
<1>3. raw \in Raw
  BY <1>1, WorldsAssumption DEF Held, World
<1> DEFINE frame == ProbeFrame(raw)
<1>4. frame \in Seq(Byte) /\ frame[1] = raw[1] /\ frame[2] = raw[2] /\ calcrc_bytes(frame) = {}
  BY <1>3, ProbeFrameIsRight
<1> HIDE DEF frame
<1>5. /\ f \in Received(frame)
      /\ a = [raw |-> raw, value |-> ProbeValue(f), whole |-> f = frame]
  BY <1>2 DEF frame
<1>6. a.raw = raw /\ a.value = ProbeValue(f)
  BY <1>5
<1>11. a.whole = (f = frame)
  BY <1>5
<1>12. calcrc_bytes(f) = {} => f = frame
  <2>1. ASSUME calcrc_bytes(f) = {} PROVE f = frame
    <3>1. calcrc_bytes(frame) = calcrc_bytes(f)
      BY <1>4, <2>1
    <3>2. QED
      BY <1>4, <1>5, <3>1, ProbeChangeIsSeen
  <2>2. QED
    BY <2>1
<1>7. f = frame => a.value = Sixteenths(raw[1], raw[2])
  BY <1>4, <1>6 DEF ProbeValue
<1>8. f = frame => Shows(a.value, a.raw) /\ a.value # ERROR_CODE
  BY <1>6, <1>7, SixteenthsShown
<1>9. f # frame => a.value = ERROR_CODE
  BY <1>6, <1>12 DEF ProbeValue
<1>10. CASE f = frame
  BY <1>8, <1>10
<1>13. CASE f # frame
  <2> DEFINE same == f = frame
  <2>1. same = FALSE /\ a.whole = same
    BY <1>11, <1>13
  <2> HIDE DEF same
  <2>2. a.whole = FALSE
    BY <2>1
  <2>3. QED
    BY <1>9, <1>13, <2>2
<1>14. QED
  BY <1>10, <1>13

-----------------------------------------------------------------------------
(* The probes. *)

LEMMA ProbeValuesStay ==
  ASSUME TypeInv, [Next]_vars, ~NextBoot, pc # "push", NEW p \in Probes
  PROVE  Values(5 + p)' = Values(5 + p)
<1>1. Values(6)' = Values(6) /\ Values(7)' = Values(7)
  BY ValuesStay
<1>2. p = 1 \/ p = 2
  BY DEF Probes
<1>3. CASE p = 1
  BY <1>1, <1>3
<1>4. CASE p = 2
  BY <1>1, <1>4
<1>5. QED
  BY <1>2, <1>3, <1>4

\* A step keeps the invariant of a probe, whichever probe takes it.
LEMMA ProbeStep ==
  ASSUME TypeInv, [Next]_vars, NEW p \in Probes, ProbeInv(p)
  PROVE  ProbeInv(p)'
<1> USE DEF UntilRead, UntilConvert, UntilStart, UntilBattery, UntilLight, UntilSht
<1>0. /\ line \in [Probes -> Line] /\ pad \in [Probes -> Raw] /\ temp_value \in [Probes -> Value]
      /\ world \in Worlds /\ ext_status \subseteq Probes /\ converting \subseteq Probes
  BY DEF TypeInv, TypeOK
<1>1. CASE NextBoot
  <2>1. /\ queue' = <<>> /\ pc' = "boot" /\ ext_status' = {} /\ temp_value'[p] = ERROR_CODE
        /\ (line'[p] = "low" => p \in shorted') /\ pad'[p] \in {pad[p], PowerUp}
    BY <1>1 DEF NextBoot, RamCleared
  <2>2. Values(5 + p)' = {}
    BY <2>1 DEF Values
  <2>3. pad'[p] \in Raws(p)
    BY <2>1 DEF ProbeInv, Raws
  <2>4. QED
    BY <2>1, <2>2, <2>3 DEF ProbeInv
<1> SUFFICES ASSUME ~NextBoot PROVE ProbeInv(p)'
  BY <1>1
<1>2. world' = world /\ faulty \subseteq faulty'
  BY Kept
<1>3. pc # "push" => Values(5 + p)' = Values(5 + p)
  BY ProbeValuesStay
<1>4. ASSUME pc \in UntilBattery, pc' \in UntilBattery \cup {"start1", "aborted"},
             UNCHANGED <<line, pad, ext_status, temp_value, shorted, torn>>
      PROVE  ProbeInv(p)'
  BY <1>2, <1>3, <1>4 DEF ProbeInv, Sensible
<1>5. CASE Boot \/ Sensors_Data_Update \/ sht30_SingleShotMeasure
  BY <1>4, <1>5
  DEF Boot, Sensors_Data_Update, sht30_SingleShotMeasure, notSht30, sensors, history
<1>6. CASE LightSensor_value
  <2>1. /\ pc \in {"ltr_id", "ltr_setup", "ltr_poll", "ltr_data", "ltr_standby"}
        /\ pc' \in {"ltr_setup", "ltr_poll", "ltr_data", "ltr_standby", "adc_init"}
    BY <1>6 DEF LightSensor_value, LtrCheckId, LtrSetup, LtrPoll, LtrData, LtrStandby
  <2>2. UNCHANGED <<line, pad, ext_status, temp_value, shorted, torn>>
    BY <1>6
    DEF LightSensor_value, LtrCheckId, LtrSetup, LtrPoll, LtrData, LtrStandby, notLight
  <2>3. QED
    BY <1>4, <2>1, <2>2
<1>7. CASE AdcInit \/ AdcSample
  <2>1. pc \in {"adc_init", "adc_sample"} /\ pc' \in {"adc_sample", "start1", "aborted"}
    BY <1>7 DEF AdcInit, AdcSample
  <2>2. UNCHANGED <<line, pad, ext_status, temp_value, shorted, torn>>
    BY <1>7 DEF AdcInit, AdcSample, notAdc, sensors
  <2>3. QED
    BY <1>4, <2>1, <2>2
<1>8. ASSUME NEW q \in Probes, Start(q), \/ q = 1 /\ pc = "start1" /\ pc' = "start2"
                                         \/ q = 2 /\ pc = "start2" /\ pc' = "convert"
      PROVE  ProbeInv(p)'
  <2>1. UNCHANGED <<line, pad, temp_value, shorted, torn>>
    BY <1>8 DEF Start, notProbes
  <2>2. p # q => (p \in ext_status' <=> p \in ext_status) /\ (p \in converting' <=> p \in converting)
    BY <1>8 DEF Start
  <2>3. p = q => (line[p] = "open" => (p \in ext_status' <=> p \in ext_status))
    BY <1>8 DEF Start, Resets
  <2>4. p = q /\ line[p] = "probe" /\ Probe(p) \notin faulty' => p \in ext_status' /\ p \in converting'
    BY <1>8 DEF Start, Resets, Fault
  <2>5. Values(5 + p)' = {} /\ Values(5 + p) = {}
    BY <1>3, <1>8 DEF ProbeInv
  <2>6. p = 1 \/ p = 2
    BY DEF Probes
  <2>7. CASE p = q
    BY <1>2, <1>8, <2>1, <2>3, <2>4, <2>5, <2>7 DEF ProbeInv, Sensible
  <2>8. CASE p # q
    BY <1>2, <1>8, <2>1, <2>2, <2>5, <2>6, <2>8 DEF ProbeInv, Sensible
  <2>9. QED
    BY <2>7, <2>8
<1>9. CASE Convert
  <2>1. /\ pc = "convert" /\ pc' = "read1" /\ UNCHANGED <<line, ext_status, temp_value, shorted, torn, faulty>>
        /\ pad'[p] = IF p \in converting THEN world.probe[p] ELSE pad[p]
    BY <1>9 DEF Convert, notProbes
  <2>2. pad'[p] \in Raws(p)
    BY <1>0, <2>1 DEF ProbeInv, Raws
  <2>3. QED
    BY <1>2, <1>3, <2>1, <2>2 DEF ProbeInv, Sensible
<1>10. ASSUME NEW q \in Probes, Read(q), \/ q = 1 /\ pc = "read1" /\ pc' = "read2"
                                         \/ q = 2 /\ pc = "read2" /\ pc' = "push"
       PROVE  ProbeInv(p)'
  <2>1. UNCHANGED <<line, pad, ext_status, shorted, torn>>
    BY <1>10 DEF Read, notProbes
  <2>2. Values(5 + p)' = {} /\ Values(5 + p) = {}
    BY <1>3, <1>10 DEF ProbeInv
  <2>3. p = 1 \/ p = 2
    BY DEF Probes
  <2>4. CASE p # q
    <3>1. temp_value'[p] = temp_value[p]
      BY <1>0, <1>10, <2>4 DEF Read
    <3>2. QED
      BY <1>2, <1>10, <2>1, <2>2, <2>3, <2>4, <3>1 DEF ProbeInv, Sensible
  <2>5. CASE p = q
    <3>1. temp_value[p] = ERROR_CODE
      BY <1>10, <2>5 DEF ProbeInv
    <3>2. temp_value'[p] # ERROR_CODE => Sensible(p, temp_value'[p])
      <4>1. \/ temp_value'[p] = ERROR_CODE \/ Shows(temp_value'[p], pad[p])
            \/ line[p] = "low" /\ temp_value'[p] = Zero
        BY <1>0, <1>10, <2>5, <3>1, AnswersAreShown DEF Read
      <4>2. Zero \in {0, ERROR_CODE}
        BY SilenceIsZero DEF Zero, ProbeValue, Silence
      <4>3. QED
        BY <4>1, <4>2 DEF ProbeInv, Sensible
    <3>3. line[p] = "open" /\ p \notin ext_status => temp_value'[p] = ERROR_CODE
      BY <1>10, <2>5, <3>1 DEF Read
    <3>4. line[p] = "probe" /\ p \in ext_status /\ Probe(p) \notin faulty' =>
            Shows(temp_value'[p], pad[p]) /\ temp_value'[p] # ERROR_CODE
      BY <1>0, <1>10, <2>5, AnswersAreShown DEF Read, Fault
    <3>5. QED
      BY <1>2, <1>10, <2>1, <2>2, <2>5, <3>2, <3>3, <3>4 DEF ProbeInv, Sensible
  <2>6. QED
    BY <2>4, <2>5
<1>15. ASSUME NEW q \in Probes, ReadTorn(q), \/ q = 1 /\ pc = "read1" /\ pc' = "read2"
                                             \/ q = 2 /\ pc = "read2" /\ pc' = "push"
       PROVE  ProbeInv(p)'
  <2>1. /\ ext_status' = ext_status /\ shorted \subseteq shorted' /\ torn \subseteq torn'
        /\ (line'[p] = "low" => p \in shorted') /\ pad'[p] \in Raws(p)
    BY <1>0, <1>15 DEF ReadTorn, Change, ProbeInv, Raws
  <2>2. Values(5 + p)' = {} /\ Values(5 + p) = {}
    BY <1>3, <1>15 DEF ProbeInv
  <2>3. p = 1 \/ p = 2
    BY DEF Probes
  <2>4. CASE p # q
    <3>1. /\ temp_value'[p] = temp_value[p] /\ line'[p] = line[p] /\ pad'[p] = pad[p]
          /\ (p \in converting' <=> p \in converting)
      BY <1>0, <1>15, <2>4 DEF ReadTorn, Change
    <3>2. p \notin torn' /\ temp_value'[p] # ERROR_CODE => (Sensible(p, temp_value[p]))'
      BY <2>1, <3>1 DEF ProbeInv, Sensible
    <3>3. QED
      BY <1>2, <1>15, <2>1, <2>2, <2>3, <2>4, <3>1, <3>2 DEF ProbeInv
  <2>5. CASE p = q
    <3>1. Probe(p) \in faulty'
      BY <1>15, <2>5 DEF ReadTorn, Change
    <3>2. PICK c \in Cuts : /\ c.from = line[p] /\ c.raw = pad[p] /\ temp_value'[p] = c.value
                            /\ p \in torn' \/ ~c.early
      BY <1>0, <1>15, <2>5 DEF ReadTorn
    <3>3. p \notin torn' /\ temp_value'[p] # ERROR_CODE =>
            IF line[p] = "low" THEN temp_value'[p] = 0 ELSE Shows(temp_value'[p], pad[p])
      BY <3>2, CutsAreShown
    <3>4. p \notin torn' /\ temp_value'[p] # ERROR_CODE => (Sensible(p, temp_value[p]))'
      BY <2>1, <3>3 DEF ProbeInv, Sensible
    <3>5. QED
      BY <1>15, <2>1, <2>2, <2>3, <2>5, <3>1, <3>4 DEF ProbeInv
  <2>6. QED
    BY <2>4, <2>5
<1>11. CASE PushProbes
  <2>1. /\ pc = "push" /\ pc' = "done" /\ UNCHANGED <<line, pad, shorted, torn, faulty>>
        /\ ext_status' = {} /\ temp_value'[p] = ERROR_CODE
    BY <1>11 DEF PushProbes, notProbes
  <2>2. Values(5 + p)' = IF temp_value[p] # ERROR_CODE THEN {temp_value[p]} ELSE {}
    <3>1. Values(5 + p) = {}
      BY <2>1 DEF ProbeInv
    <3>2. CASE p = 1
      <4>1. Values(6)' = Values(6)
              \cup (IF 6 = 6 /\ temp_value[1] # ERROR_CODE THEN {temp_value[1]} ELSE {})
              \cup (IF 6 = 7 /\ temp_value[2] # ERROR_CODE THEN {temp_value[2]} ELSE {})
        BY <1>11, ProbesAdd
      <4>2. QED
        BY <3>1, <3>2, <4>1
    <3>3. CASE p = 2
      <4>1. Values(7)' = Values(7)
              \cup (IF 7 = 6 /\ temp_value[1] # ERROR_CODE THEN {temp_value[1]} ELSE {})
              \cup (IF 7 = 7 /\ temp_value[2] # ERROR_CODE THEN {temp_value[2]} ELSE {})
        BY <1>11, ProbesAdd
      <4>2. QED
        BY <3>1, <3>3, <4>1
    <3>4. QED
      BY <3>2, <3>3 DEF Probes
  <2>3. p \notin torn => \A v \in Values(5 + p)' : (Sensible(p, v))'
    BY <2>1, <2>2 DEF ProbeInv, Sensible
  <2>4. QED
    BY <1>2, <2>1, <2>2, <2>3 DEF ProbeInv
<1>12. ASSUME NEW q \in Probes, Plug(q) PROVE ProbeInv(p)'
  <2>1. /\ pc' = pc /\ UNCHANGED <<ext_status, temp_value, queue, torn>> /\ shorted \subseteq shorted'
        /\ pc \in {"start1", "start2", "convert", "read1", "read2"}
    BY <1>12 DEF Plug, Change, code
  <2>2. Values(5 + p)' = {} /\ Values(5 + p) = {}
    BY <1>3, <2>1 DEF ProbeInv
  <2>3. pad'[p] \in Raws(p)
    BY <1>0, <1>12 DEF Plug, Change, ProbeInv, Raws
  <2>4. line'[p] = "low" => p \in shorted'
    BY <1>0, <1>12 DEF Plug, Change, ProbeInv
  <2>8. p \notin torn' /\ temp_value'[p] # ERROR_CODE => (Sensible(p, temp_value[p]))'
    BY <2>1 DEF ProbeInv, Sensible
  <2>5. CASE p = q
    <3>1. Probe(p) \in faulty'
      BY <1>12, <2>5 DEF Plug, Change
    <3>2. QED
      BY <2>1, <2>2, <2>3, <2>4, <2>8, <3>1 DEF ProbeInv
  <2>6. CASE p # q
    <3>1. line'[p] = line[p] /\ pad'[p] = pad[p] /\ (p \in converting' <=> p \in converting)
      BY <1>0, <1>12, <2>6 DEF Plug, Change
    <3>2. QED
      BY <1>2, <2>1, <2>2, <2>3, <2>4, <2>8, <3>1 DEF ProbeInv
  <2>7. QED
    BY <2>5, <2>6
<1>13. CASE LtrConverts \/ UNCHANGED vars
  <2>1. UNCHANGED <<pc, queue, line, pad, converting, ext_status, temp_value, shorted, torn, faulty>>
    BY <1>13 DEF LtrConverts, vars, code, sensors, history
  <2>2. Values(5 + p)' = Values(5 + p)
    BY <2>1, ValuesAre, ValuesWillBe
  <2>3. QED
    BY <1>2, <2>1, <2>2 DEF ProbeInv, Sensible
<1>14. QED
  BY <1>5, <1>6, <1>7, <1>8, <1>9, <1>10, <1>11, <1>12, <1>13, <1>15
  DEF Next, Update, ub_dt_p1_start, ub_dt_p1_get_temp, Probes

-----------------------------------------------------------------------------
(* The numbers and time stamps of the queue. *)

Tag(r) == [num |-> r.num, ts |-> r.ts]
Tags == [num : {1, 2, 3, 4, 6, 7}, ts : Stamps]

\* Tagged, element by element, of a concatenation, and of short sequences.
LEMMA TaggedIs ==
  ASSUME NEW q \in Seq(Reading)
  PROVE  /\ Tagged(q) \in Seq(Tags) /\ Len(Tagged(q)) = Len(q)
         /\ \A i \in 1..Len(q) : Tagged(q)[i] = Tag(q[i])
<1>1. /\ DOMAIN q = 1..Len(q) /\ Len(q) \in Nat /\ \A i \in 1..Len(q) : q[i] \in Reading
  OBVIOUS
<1>2. Tagged(q) = [i \in 1..Len(q) |-> Tag(q[i])]
  BY <1>1 DEF Tagged, Tag
<1>3. \A i \in 1..Len(q) : Tag(q[i]) \in Tags
  BY <1>1 DEF Tag, Tags, Reading
<1>4. QED
  BY <1>1, <1>2, <1>3

LEMMA SameSequence ==
  ASSUME NEW S, NEW s \in Seq(S), NEW t \in Seq(S), Len(s) = Len(t),
         \A i \in 1..Len(s) : s[i] = t[i]
  PROVE  s = t
OBVIOUS

LEMMA JoinedIs ==
  ASSUME NEW S, NEW s \in Seq(S), NEW t \in Seq(S)
  PROVE  /\ s \o t \in Seq(S) /\ Len(s \o t) = Len(s) + Len(t)
         /\ \A i \in 1..Len(s) : (s \o t)[i] = s[i]
         /\ \A i \in 1..Len(t) : (s \o t)[Len(s) + i] = t[i]
<1>1. s \o t \in Seq(S) /\ Len(s \o t) = Len(s) + Len(t)
  OBVIOUS
<1>2. \A i \in 1..Len(s) : (s \o t)[i] = s[i]
  OBVIOUS
<1>3. \A i \in 1..Len(t) : (s \o t)[Len(s) + i] = t[i]
  OBVIOUS
<1>4. QED
  BY <1>1, <1>2, <1>3

LEMMA TaggedJoined ==
  ASSUME NEW q \in Seq(Reading), NEW s \in Seq(Reading)
  PROVE  Tagged(q \o s) = Tagged(q) \o Tagged(s)
<1> DEFINE a == q \o s
           m == Len(q)
           n == Len(s)
           tq == Tagged(q)
           ts == Tagged(s)
           ta == Tagged(a)
           tj == tq \o ts
<1>1. /\ a \in Seq(Reading) /\ Len(a) = m + n /\ m \in Nat /\ n \in Nat
      /\ \A i \in 1..m : a[i] = q[i]
      /\ \A i \in 1..n : a[m + i] = s[i]
  BY JoinedIs
<1>2. tq \in Seq(Tags) /\ Len(tq) = m /\ \A i \in 1..m : tq[i] = Tag(q[i])
  BY TaggedIs
<1>3. ts \in Seq(Tags) /\ Len(ts) = n /\ \A i \in 1..n : ts[i] = Tag(s[i])
  BY TaggedIs
<1> HIDE DEF a
<1>4. ta \in Seq(Tags) /\ Len(ta) = m + n /\ \A i \in 1..(m + n) : ta[i] = Tag(a[i])
  BY <1>1, TaggedIs
<1> HIDE DEF tq, ts, ta
<1>5. /\ tj \in Seq(Tags) /\ Len(tj) = Len(tq) + Len(ts)
      /\ \A i \in 1..Len(tq) : tj[i] = tq[i]
      /\ \A i \in 1..Len(ts) : tj[Len(tq) + i] = ts[i]
  <2>1. tq \in Seq(Tags) /\ ts \in Seq(Tags)
    BY <1>2, <1>3
  <2>2. QED
    BY <2>1, JoinedIs
<1> HIDE DEF tj, m, n
<1>6. ASSUME NEW i \in 1..(m + n) PROVE ta[i] = tj[i]
  <2>1. CASE i \in 1..m
    BY <1>1, <1>2, <1>4, <1>5, <2>1
  <2>2. CASE i \notin 1..m
    <3>1. PICK j \in 1..n : i = m + j
      <4>1. i - m \in 1..n /\ i = m + (i - m)
        BY <1>1, <2>2
      <4>2. QED
        BY <4>1
    <3>2. ta[i] = Tag(s[j])
      BY <1>1, <1>4, <3>1
    <3>3. tj[i] = ts[j]
      BY <1>2, <1>3, <1>5, <3>1
    <3>4. QED
      BY <1>3, <3>2, <3>3
  <2>3. QED
    BY <2>1, <2>2
<1>7. ta = tj
  BY <1>2, <1>3, <1>4, <1>5, <1>6, SameSequence
<1>8. QED
  BY <1>7 DEF ta, tj, a, tq, ts

LEMMA TaggedListed ==
  /\ Tagged(<<>>) = <<>>
  /\ \A r : Tagged(<<r>>) = <<Tag(r)>>
  /\ \A r, s : Tagged(<<r, s>>) = <<Tag(r), Tag(s)>>
<1>1. Tagged(<<>>) = <<>>
  BY DEF Tagged
<1>2. ASSUME NEW r PROVE Tagged(<<r>>) = <<Tag(r)>>
  BY DEF Tagged, Tag
<1>3. ASSUME NEW r, NEW s PROVE Tagged(<<r, s>>) = <<Tag(r), Tag(s)>>
  BY DEF Tagged, Tag
<1>4. QED
  BY <1>1, <1>2, <1>3

\* Given, for sensors of one and of two numbers.
LEMMA GivenIs ==
  /\ \A x, nums, failed, t : x \in failed => Given(x, nums, failed, t) = <<>>
  /\ \A x, n, failed, t : x \notin failed => Given(x, <<n>>, failed, t) = <<[num |-> n, ts |-> t]>>
  /\ \A x, n, m, failed, t : x \notin failed =>
       Given(x, <<n, m>>, failed, t) = <<[num |-> n, ts |-> t], [num |-> m, ts |-> t]>>
<1>1. ASSUME NEW x, NEW nums, NEW failed, NEW t, x \in failed
      PROVE  Given(x, nums, failed, t) = <<>>
  BY <1>1 DEF Given
<1>2. ASSUME NEW x, NEW n, NEW failed, NEW t, x \notin failed
      PROVE  Given(x, <<n>>, failed, t) = <<[num |-> n, ts |-> t]>>
  BY <1>2 DEF Given
<1>3. ASSUME NEW x, NEW n, NEW m, NEW failed, NEW t, x \notin failed
      PROVE  Given(x, <<n, m>>, failed, t) = <<[num |-> n, ts |-> t], [num |-> m, ts |-> t]>>
  BY <1>3 DEF Given
<1>4. QED
  BY <1>1, <1>2, <1>3

\* What each sensor adds, without values.
LEMMA ShtTagged ==
  ASSUME sMsg \in Stamps, NEW t, NEW h
  PROVE  \E failed \in SUBSET Sensors : Tagged(ShtReadings(t, h)) = ShtPart(failed)
<1> DEFINE r == [num |-> 1, ts |-> sMsg, val |-> Celsius(t[1], t[2])]
           s == [num |-> 2, ts |-> sMsg, val |-> Humidity(h[1], h[2])]
<1>1. Tag(r) = [num |-> 1, ts |-> sMsg] /\ Tag(s) = [num |-> 2, ts |-> sMsg]
  BY DEF Tag
<1>2. ShtReadings(t, h) = <<r, s>> \/ ShtReadings(t, h) = <<>>
  BY DEF ShtReadings
<1> HIDE DEF r, s
<1>3. CASE ShtReadings(t, h) = <<r, s>>
  <2>1. Tagged(ShtReadings(t, h)) = <<Tag(r), Tag(s)>>
    BY <1>3, TaggedListed
  <2>2. ShtPart({}) = <<[num |-> 1, ts |-> sMsg], [num |-> 2, ts |-> sMsg]>>
    BY GivenIs DEF ShtPart
  <2>3. QED
    BY <1>1, <2>1, <2>2
<1>4. CASE ShtReadings(t, h) = <<>>
  <2>1. Tagged(ShtReadings(t, h)) = <<>>
    BY <1>4, TaggedListed
  <2>2. ShtPart({"sht30"}) = <<>>
    BY GivenIs DEF ShtPart
  <2>3. QED
    BY <2>1, <2>2 DEF Sensors
<1>5. QED
  BY <1>2, <1>3, <1>4

LEMMA PushedTagged ==
  ASSUME TypeInv, sMsg \in Stamps, NEW n \in {1, 2, 3, 4, 6, 7}, NEW v \in Int
  PROVE  Tagged(Pushed(n, v)) = Tagged(queue) \o <<[num |-> n, ts |-> sMsg]>>
<1> DEFINE r == [num |-> n, ts |-> sMsg, val |-> v]
<1>1. queue \in Seq(Reading) /\ r \in Reading /\ Tag(r) = [num |-> n, ts |-> sMsg]
  BY ReadingIs DEF TypeInv, TypeOK, Reading, Tag
<1> HIDE DEF r
<1>2. Append(queue, r) = queue \o <<r>> /\ <<r>> \in Seq(Reading)
  BY <1>1
<1>3. Tagged(Append(queue, r)) = Tagged(queue) \o <<Tag(r)>>
  BY <1>1, <1>2, TaggedJoined, TaggedListed
<1>4. QED
  BY <1>1, <1>3 DEF Pushed, r

LEMMA ProbedTagged ==
  ASSUME TypeInv, sMsg \in Stamps, NEW p \in Probes
  PROVE  /\ temp_value[p] = ERROR_CODE => Tagged(Probed(p)) = <<>>
         /\ temp_value[p] # ERROR_CODE => Tagged(Probed(p)) = <<[num |-> 5 + p, ts |-> sMsg]>>
<1> DEFINE r == [num |-> 5 + p, ts |-> sMsg, val |-> temp_value[p]]
<1>1. Tag(r) = [num |-> 5 + p, ts |-> sMsg]
  BY DEF Tag
<1>2. Probed(p) = IF temp_value[p] = ERROR_CODE THEN <<>> ELSE <<r>>
  BY DEF Probed
<1> HIDE DEF r
<1>3. QED
  BY <1>1, <1>2, TaggedListed

\* The parts depend on their own sensors.
LEMMA PartsDepend ==
  ASSUME NEW failed, NEW other
  PROVE  /\ ("sht30" \in failed <=> "sht30" \in other) => ShtPart(failed) = ShtPart(other)
         /\ ("sht30" \in failed <=> "sht30" \in other) /\ ("light" \in failed <=> "light" \in other)
              => LightPart(failed) = LightPart(other) /\ BatteryPart(failed) = BatteryPart(other)
<1>1. ASSUME NEW x, NEW nums, NEW t, x \in failed <=> x \in other
      PROVE  Given(x, nums, failed, t) = Given(x, nums, other, t)
  BY <1>1 DEF Given
<1>2. QED
  BY <1>1 DEF ShtPart, LightPart, BatteryPart

\* A step takes the queue from one part of Sampled to the next.
LEMMA ShapeStep ==
  TypeInv /\ ShtInv /\ ShapeInv /\ [Next]_vars => ShapeInv'
<1> SUFFICES ASSUME TypeInv, ShtInv, ShapeInv, [Next]_vars PROVE ShapeInv'
  OBVIOUS
<1> USE DEF UntilRead, UntilConvert, UntilStart, UntilBattery, UntilLight, UntilSht
<1>0. queue \in Seq(Reading) /\ (pc \notin {"boot", "start"} => sMsg \in Stamps)
  BY DEF TypeInv, TypeOK, Reading
<1>1. PICK failed \in SUBSET Sensors : ShapeIs(failed)
  BY DEF ShapeInv
<1>2. ASSUME pc' \in UntilSht \cup {"aborted"} PROVE ShapeInv'
  <2>1. ShapeIs({})'
    BY <1>2 DEF ShapeIs
  <2>2. QED
    BY <2>1 DEF ShapeInv
<1>3. ASSUME UNCHANGED <<sMsg, queue>>, pc' = pc
      PROVE  ShapeInv'
  <2>1. ShapeIs(failed)'
    BY <1>1, <1>3 DEF ShapeIs, ShtPart, LightPart, BatteryPart
  <2>2. QED
    BY <2>1 DEF ShapeInv
<1>4. CASE Boot \/ Sensors_Data_Update \/ NextBoot
  BY <1>2, <1>4 DEF Boot, Sensors_Data_Update, NextBoot
<1>5. CASE sht30_SingleShotMeasure
  <2>1. pc = "sht30" /\ pc' = "ltr_id" /\ queue = <<>> /\ sMsg' = sMsg /\ sMsg \in Stamps
    BY <1>0, <1>5 DEF sht30_SingleShotMeasure, notSht30, ShtInv
  <2>2. \E f \in SUBSET Sensors : Tagged(queue') = ShtPart(f)
    <3>1. CASE UNCHANGED queue
      <4>1. Tagged(queue') = <<>>
        BY <2>1, <3>1, TaggedListed
      <4>2. ShtPart({"sht30"}) = <<>>
        BY GivenIs DEF ShtPart
      <4>3. QED
        BY <4>1, <4>2 DEF Sensors
    <3>2. CASE \E t, h : queue' = queue \o ShtReadings(t, h)
      <4>1. PICK t, h : queue' = queue \o ShtReadings(t, h)
        BY <3>2
      <4>2. ShtReadings(t, h) \in Seq(Reading)
        BY <2>1, ShtReadingsAre
      <4>3. queue' = ShtReadings(t, h)
        BY <2>1, <4>1, <4>2
      <4>4. QED
        BY <2>1, <4>3, ShtTagged
    <3>3. QED
      BY <1>5, <3>1, <3>2 DEF sht30_SingleShotMeasure
  <2>3. PICK f \in SUBSET Sensors : Tagged(queue') = ShtPart(f)
    BY <2>2
  <2>4. ShapeIs(f)'
    BY <2>1, <2>3 DEF ShapeIs, ShtPart
  <2>5. QED
    BY <2>4 DEF ShapeInv
<1>6. CASE LtrCheckId
  <2>1. /\ pc = "ltr_id" /\ pc' \in {"ltr_setup", "adc_init"} /\ UNCHANGED <<sMsg, queue>>
        /\ Tagged(queue) = ShtPart(failed)
    BY <1>1, <1>6 DEF LtrCheckId, notLight, ShapeIs
  <2> DEFINE f == failed \cup {"light"}
  <2>2. /\ ShtPart(f) = ShtPart(failed) /\ Given("light", <<3>>, f, sMsg) = <<>>
        /\ f \in SUBSET Sensors
    BY PartsDepend, GivenIs DEF Sensors
  <2> HIDE DEF f
  <2>3. LightPart(f) = ShtPart(f)
    <3>1. ShtPart(f) \in Seq(Tags)
      BY <1>0, <2>1, <2>2, TaggedIs
    <3>2. QED
      BY <2>2, <3>1 DEF LightPart
  <2>4. ShapeIs(f)'
    BY <2>1, <2>2, <2>3 DEF ShapeIs, ShtPart, LightPart
  <2>5. QED
    BY <2>2, <2>4 DEF ShapeInv
<1>7. CASE LtrSetup \/ LtrPoll \/ LtrData
  <2>1. /\ pc \in UntilLight \ UntilSht /\ pc' \in UntilLight \ UntilSht
        /\ UNCHANGED <<sMsg, queue>>
    BY <1>7 DEF LtrSetup, LtrPoll, LtrData, notLight
  <2>2. ShapeIs(failed)'
    BY <1>1, <2>1 DEF ShapeIs, ShtPart
  <2>3. QED
    BY <2>2 DEF ShapeInv
<1>8. CASE LtrStandby
  <2>1. /\ pc = "ltr_standby" /\ pc' = "adc_init" /\ sMsg' = sMsg /\ sMsg \in Stamps
        /\ Tagged(queue) = ShtPart(failed)
    BY <1>0, <1>1, <1>8 DEF LtrStandby, notLight, ShapeIs
  <2>2. \E f \in SUBSET Sensors : Tagged(queue') = LightPart(f)
    <3>1. CASE lightvalue = ERROR_CODE
      <4> DEFINE f == failed \cup {"light"}
      <4>1. /\ ShtPart(f) = ShtPart(failed) /\ Given("light", <<3>>, f, sMsg) = <<>>
            /\ f \in SUBSET Sensors
        BY PartsDepend, GivenIs DEF Sensors
      <4> HIDE DEF f
      <4>2. ShtPart(f) \in Seq(Tags)
        BY <1>0, <2>1, <4>1, TaggedIs
      <4>3. LightPart(f) = ShtPart(f)
        BY <4>1, <4>2 DEF LightPart
      <4>4. queue' = queue
        BY <1>8, <3>1 DEF LtrStandby
      <4>5. QED
        BY <2>1, <4>1, <4>3, <4>4
    <3>2. CASE lightvalue # ERROR_CODE
      <4> DEFINE f == failed \ {"light"}
      <4>1. /\ ShtPart(f) = ShtPart(failed) /\ f \in SUBSET Sensors
            /\ Given("light", <<3>>, f, sMsg) = <<[num |-> 3, ts |-> sMsg]>>
        BY PartsDepend, GivenIs
      <4> HIDE DEF f
      <4>2. queue' = Pushed(3, lightvalue) /\ lightvalue \in Int
        BY <1>8, <3>2 DEF LtrStandby, TypeInv, TypeOK, Value
      <4>3. Tagged(queue') = Tagged(queue) \o <<[num |-> 3, ts |-> sMsg]>>
        BY <2>1, <4>2, PushedTagged
      <4>4. QED
        BY <2>1, <4>1, <4>3 DEF LightPart
    <3>3. QED
      BY <3>1, <3>2
  <2>3. PICK f \in SUBSET Sensors : Tagged(queue') = LightPart(f)
    BY <2>2
  <2>4. ShapeIs(f)'
    BY <2>1, <2>3 DEF ShapeIs, ShtPart, LightPart
  <2>5. QED
    BY <2>4 DEF ShapeInv
<1>9. CASE AdcInit
  <2>1. /\ pc = "adc_init" /\ pc' \in {"adc_sample", "aborted"} /\ UNCHANGED <<sMsg, queue>>
    BY <1>9 DEF AdcInit, notAdc
  <2>2. ShapeIs(failed)'
    BY <1>1, <2>1 DEF ShapeIs, ShtPart, LightPart
  <2>3. QED
    BY <2>2 DEF ShapeInv
<1>10. CASE AdcSample
  <2>1. PICK read \in BOOLEAN, converted \in BOOLEAN, raw \in Nat, voltage \in Nat :
          Sample(read, converted, raw, voltage)
    BY <1>10, SampleTaken, WorldsAssumption DEF TypeInv, TypeOK, AdcType
  <2>2. pc = "adc_sample" /\ sMsg' = sMsg /\ sMsg \in Stamps /\ Tagged(queue) = LightPart(failed)
    BY <1>0, <1>1, <1>10 DEF AdcSample, notAdc, ShapeIs
  <2>3. CASE pc' = "adc_sample"
    <3>1. queue' = queue
      BY <2>1, <2>3 DEF Sample
    <3>2. QED
      BY <1>3, <2>2, <2>3, <3>1
  <2>4. CASE pc' = "start1"
    <3>1. adc.sum + voltage \in Int
      BY DEF TypeInv, TypeOK
    <3>2. Tagged(queue') = Tagged(queue) \o <<[num |-> 4, ts |-> sMsg]>>
      BY <2>1, <2>2, <2>4, <3>1, PushedTagged DEF Sample
    <3>3. ShapeIs(failed)'
      BY <2>2, <2>4, <3>2 DEF ShapeIs, ShtPart, LightPart, BatteryPart
    <3>4. QED
      BY <3>3 DEF ShapeInv
  <2>5. QED
    BY <2>1, <2>3, <2>4 DEF Sample
<1>11. CASE ub_dt_p1_start \/ Convert \/ ub_dt_p1_get_temp
  <2>1. /\ UNCHANGED <<sMsg, queue>> /\ pc \in {"start1", "start2", "convert", "read1", "read2"}
        /\ pc' \in {"start2", "convert", "read1", "read2", "push"}
    BY <1>11 DEF ub_dt_p1_start, Start, Convert, ub_dt_p1_get_temp, Read, ReadTorn, notProbes
  <2>2. ShapeIs(failed)'
    BY <1>1, <2>1 DEF ShapeIs, ShtPart, LightPart, BatteryPart
  <2>3. QED
    BY <2>2 DEF ShapeInv
<1>12. CASE PushProbes
  <2>1. /\ pc = "push" /\ pc' = "done" /\ sMsg' = sMsg /\ sMsg \in Stamps
        /\ queue' = (queue \o Probed(1)) \o Probed(2)
        /\ Tagged(queue) = BatteryPart(failed) /\ 1 \in Probes /\ 2 \in Probes
    BY <1>0, <1>1, <1>12 DEF PushProbes, notProbes, ShapeIs, Probes
  <2>2. Probed(1) \in Seq(Reading) /\ Probed(2) \in Seq(Reading)
    BY <2>1, ProbedIs DEF TypeInv, TypeOK
  <2>3. queue \o Probed(1) \in Seq(Reading)
    BY <1>0, <2>2
  <2>4. Tagged(queue') = (Tagged(queue) \o Tagged(Probed(1))) \o Tagged(Probed(2))
    BY <1>0, <2>1, <2>2, <2>3, TaggedJoined
  <2> DEFINE f == (failed \ {"probe1", "probe2"})
                    \cup (IF temp_value[1] = ERROR_CODE THEN {"probe1"} ELSE {})
                    \cup (IF temp_value[2] = ERROR_CODE THEN {"probe2"} ELSE {})
  <2>5. /\ f \in SUBSET Sensors
        /\ "probe1" \in f <=> temp_value[1] = ERROR_CODE
        /\ "probe2" \in f <=> temp_value[2] = ERROR_CODE
        /\ BatteryPart(f) = BatteryPart(failed)
    BY PartsDepend DEF Sensors
  <2> HIDE DEF f
  <2>6. Tagged(Probed(1)) = Given("probe1", <<6>>, f, sMsg)
    BY <2>1, <2>5, ProbedTagged, GivenIs
  <2>7. Tagged(Probed(2)) = Given("probe2", <<7>>, f, sMsg)
    BY <2>1, <2>5, ProbedTagged, GivenIs
  <2>8. Tagged(queue') = Sampled(f, sMsg)
    <3>1. Sampled(f, sMsg) =
            (BatteryPart(f) \o Given("probe1", <<6>>, f, sMsg)) \o Given("probe2", <<7>>, f, sMsg)
      BY DEF Sampled, BatteryPart, LightPart, ShtPart
    <3>2. Tagged(queue') = (BatteryPart(f) \o Tagged(Probed(1))) \o Tagged(Probed(2))
      BY <2>1, <2>4, <2>5
    <3>3. QED
      BY <2>6, <2>7, <3>1, <3>2
  <2>9. PICK g \in SUBSET Sensors : Tagged(queue') = Sampled(g, sMsg')
    BY <2>1, <2>5, <2>8
  <2>10. ShapeIs(g)'
    BY <2>1, <2>9 DEF ShapeIs
  <2>11. QED
    BY <2>10 DEF ShapeInv
<1>13. CASE LtrConverts \/ (\E p \in Probes : Plug(p)) \/ UNCHANGED vars
  BY <1>3, <1>13 DEF LtrConverts, Plug, vars, code
<1>14. QED
  BY <1>4, <1>5, <1>6, <1>7, <1>8, <1>9, <1>10, <1>11, <1>12, <1>13
  DEF Next, Update, LightSensor_value

-----------------------------------------------------------------------------
(* The theorems. *)

IInv ==
  /\ TypeInv /\ ShtInv /\ LightInv /\ ShownLightInv /\ BatteryInv
  /\ ProbeInv(1) /\ ProbeInv(2) /\ ShapeInv

LEMMA InitIInv == Init => IInv
<1> SUFFICES ASSUME Init PROVE IInv
  OBVIOUS
<1>1. pc = "boot" /\ queue = <<>> /\ TypeInv
  BY InitTypeInv DEF Init
<1>2. \A n : Values(n) = {}
  BY <1>1 DEF Values
<1>3. ShtInv /\ LightInv /\ ShownLightInv
  BY <1>1, <1>2 DEF Init, ShtInv, LightInv, ShownLightInv, Lights, UntilLight, UntilSht
<1>4. BatteryInv
  <2>1. world.mv \in Nat /\ adc = NoSamples
    BY WorldsAssumption DEF Init, World
  <2>2. adc.raw <= world.mv /\ adc.voltage <= world.mv /\ adc.sum <= adc.i * world.mv
    BY <2>1, NoSamplesBounded
  <2>3. QED
    BY <1>1, <1>2, <2>1, <2>2 DEF BatteryInv, UntilBattery, UntilLight, UntilSht
<1>5. ASSUME NEW p \in Probes PROVE ProbeInv(p)
  <2>1. /\ (line[p] = "low" => p \in shorted) /\ pad[p] = PowerUp /\ temp_value[p] = ERROR_CODE
        /\ ext_status = {}
    BY DEF Init
  <2>2. QED
    BY <1>1, <1>2, <2>1
    DEF ProbeInv, Raws, UntilRead, UntilConvert, UntilStart, UntilBattery, UntilLight, UntilSht
<1>6. ShapeInv
  <2>1. ShapeIs({})
    BY <1>1
    DEF ShapeIs, UntilRead, UntilConvert, UntilStart, UntilBattery, UntilLight, UntilSht
  <2>2. QED
    BY <2>1 DEF ShapeInv
<1>7. QED
  BY <1>1, <1>3, <1>4, <1>5, <1>6 DEF IInv, Probes

LEMMA NextIInv == IInv /\ [Next]_vars => IInv'
<1> SUFFICES ASSUME IInv, [Next]_vars PROVE IInv'
  OBVIOUS
<1>1. TypeInv' /\ ShtInv' /\ LightInv' /\ ShownLightInv' /\ BatteryInv' /\ ShapeInv'
  BY TypeStep, ShtStep, LightStep, ShownLightStep, BatteryStep, ShapeStep DEF IInv
<1>2. ProbeInv(1)' /\ ProbeInv(2)'
  BY ProbeStep DEF IInv, Probes
<1>3. QED
  BY <1>1, <1>2 DEF IInv

(***************************************************************************)
(* The inductive invariant: types, and each sensor's part of main.c's      *)
(* update from its first step to the last.                                 *)
(***************************************************************************)
THEOREM SamplingInvariant == Spec => []IInv
  BY InitIInv, NextIInv, PTL DEF Spec

(***************************************************************************)
(* Types: what Sensors_Data_Update and the drivers keep in RAM, and what   *)
(* the sensors hold.                                                       *)
(***************************************************************************)
THEOREM SamplingTyped == Spec => []TypeOK
<1>1. IInv => TypeOK
  BY DEF IInv, TypeInv
<1>2. QED
  BY <1>1, SamplingInvariant, PTL

(***************************************************************************)
(* LightSensor_value leaves the light sensor in standby after every update *)
(* in which its bus worked, for every number of polls and also when its    *)
(* time was over.                                                          *)
(***************************************************************************)
THEOREM LightEndsInStandby == Spec => []LightStandsBy
<1>1. IInv => LightStandsBy
  BY DEF IInv, LightInv, LightStandsBy, UntilLight, UntilSht
<1>2. QED
  BY <1>1, SamplingInvariant, PTL

(***************************************************************************)
(* Sensors_Data_Update queues what module ReportCycle takes for an update: *)
(* each sensor with all its numbers or none, the battery always, in order, *)
(* under one time stamp.                                                   *)
(***************************************************************************)
THEOREM UpdateMatchesReport == Spec => []AsReportCycleTakes
<1>1. IInv => AsReportCycleTakes
  BY DEF IInv, ShapeInv, ShapeIs, AsReportCycleTakes, Tagged
<1>2. QED
  BY <1>1, SamplingInvariant, PTL

(***************************************************************************)
(* No failure but three invents a measurement, whatever there is to        *)
(* measure, whatever one byte of an answer becomes, and however often      *)
(* probes are plugged: SHT30 readings are of this update, the light is one *)
(* that was measured, unless its data could not be read, a probe shows a   *)
(* temperature it measured or powers up with, or 0 if its line was shorted *)
(* to ground, unless it was pulled out or shorted while it sent the two    *)
(* bytes of its temperature, and power_adcValue never shows the battery    *)
(* fuller than it is.                                                      *)
(***************************************************************************)
THEOREM FailuresInventNothing == Spec => []NothingInvented
<1>1. IInv => NothingInvented
  <2> SUFFICES ASSUME IInv PROVE NothingInvented
    OBVIOUS
  <2>1. /\ Values(1) \subseteq {Celsius(world.temp[1], world.temp[2])}
        /\ Values(2) \subseteq {Humidity(world.humi[1], world.humi[2])}
        /\ "data" \notin faulty => Values(3) \subseteq {0} \cup {3 * w.lux : w \in Worlds}
        /\ \A v \in Values(4) : v <= NO_OF_SAMPLES * world.mv
    BY DEF IInv, ShtInv, ShownLightInv, Lights, BatteryInv
  <2>2. ASSUME NEW p \in Probes \ torn, NEW v \in Values(5 + p)
        PROVE  \/ v = 0 /\ p \in shorted
               \/ \E raw \in {PowerUp} \cup {w.probe[p] : w \in Worlds} : Shows(v, raw)
    BY <2>2 DEF IInv, ProbeInv, Sensible, Raws, Probes
  <2>3. QED
    BY <2>1, <2>2 DEF NothingInvented
<1>2. QED
  BY <1>1, SamplingInvariant, PTL

(***************************************************************************)
(* A sensor that did not fail is reported once, under its number and with  *)
(* what it measured, whatever the other sensors do and for every value     *)
(* they can measure: sht30_SingleShotMeasure, unless all its bytes are     *)
(* zero, LightSensor_value, power_adcValue, and ub_dt_p1_get_temp, exactly *)
(* from 0 to 128 degrees.  Below zero the theorem leaves a sixteenth of a  *)
(* degree, which the code does get wrong (ActualTemperature).              *)
(***************************************************************************)
THEOREM ReadingsMeasured == Spec => []ReadingsAreMeasured
<1>1. IInv => ReadingsAreMeasured
  <2> SUFFICES ASSUME IInv, pc = "done"
               PROVE  ReadingsAreMeasured
    BY DEF ReadingsAreMeasured
  <2> USE DEF UntilRead, UntilConvert, UntilStart, UntilBattery, UntilLight, UntilSht
  <2>1. "sht30" \notin faulty /\ ~AllZero =>
          /\ Values(1) = {Celsius(world.temp[1], world.temp[2])}
          /\ Values(2) = {Humidity(world.humi[1], world.humi[2])}
    BY DEF IInv, ShtInv
  <2>2. faulty \cap {"light", "slow", "data"} = {} => Values(3) = {3 * world.lux}
    BY DEF IInv, LightInv
  <2>3. "battery" \notin faulty => Values(4) = {NO_OF_SAMPLES * world.mv}
    BY DEF IInv, BatteryInv
  <2>4. ASSUME NEW p \in Probes, Probe(p) \notin faulty, p \notin shorted
        PROVE  IF line[p] = "open" THEN Values(5 + p) = {}
               ELSE \E v \in Values(5 + p) : Values(5 + p) = {v} /\ Shows(v, world.probe[p])
    <3>1. ProbeInv(p) /\ line[p] \in Line
      BY DEF IInv, Probes, TypeInv, TypeOK
    <3>2. CASE line[p] = "open"
      BY <2>4, <3>1, <3>2 DEF ProbeInv
    <3>3. CASE line[p] # "open"
      <4>1. line[p] = "probe"
        BY <2>4, <3>1, <3>3 DEF ProbeInv, Line
      <4>2. QED
        BY <2>4, <3>1, <3>3, <4>1 DEF ProbeInv
    <3>4. QED
      BY <3>2, <3>3
  <2>5. QED
    BY <2>1, <2>2, <2>3, <2>4 DEF ReadingsAreMeasured
<1>2. QED
  BY <1>1, SamplingInvariant, PTL
=============================================================================
