------------------------------ MODULE WireProofs ------------------------------
(***************************************************************************)
(* Facts about the line protocol for values of any length.                 *)
(***************************************************************************)
EXTENDS Wire, SequenceFacts

Byte == 0..255

(* A hexadecimal digit that was written is read back as its value.         *)
LEMMA NibbleOfDigit ==
  ASSUME NEW d \in 0..15
  PROVE  Nibble(HexDigit(d)) = d
<1>1. CASE d < 10
  BY <1>1 DEF HexDigit, Nibble
<1>2. CASE d >= 10
  BY <1>2 DEF HexDigit, Nibble
<1>3. QED
  BY <1>1, <1>2

(* A byte is two such digits. *)
LEMMA Halves ==
  ASSUME NEW b \in Byte
  PROVE  /\ b \div 16 \in 0..15 /\ (b % 16) \in 0..15
         /\ 16 * (b \div 16) + (b % 16) = b
BY DEF Byte

(* What hexadecimal encoding makes of a string of bytes.                   *)
LEMMA EncodedLength ==
  ASSUME NEW s \in Seq(Byte)
  PROVE  /\ Len(HexEncode(s)) = 2 * Len(s)
         /\ \A i \in 1..Len(s) :
              /\ HexEncode(s)[2 * i - 1] = HexDigit(s[i] \div 16)
              /\ HexEncode(s)[2 * i] = HexDigit(s[i] % 16)
<1>1. 2 * Len(s) \in Nat
  OBVIOUS
<1>2. Len(HexEncode(s)) = 2 * Len(s)
  BY <1>1 DEF HexEncode
<1>3. ASSUME NEW i \in 1..Len(s)
      PROVE  /\ HexEncode(s)[2 * i - 1] = HexDigit(s[i] \div 16)
             /\ HexEncode(s)[2 * i] = HexDigit(s[i] % 16)
  <2>1. /\ 2 * i - 1 \in 1..2 * Len(s) /\ 2 * i \in 1..2 * Len(s)
        /\ (2 * i - 1) % 2 = 1 /\ (2 * i) % 2 = 0
        /\ (2 * i - 1 + 1) \div 2 = i /\ (2 * i) \div 2 = i
    OBVIOUS
  <2>2. QED
    BY <2>1 DEF HexEncode
<1>4. QED
  BY <1>2, <1>3

(* Each of its characters is a digit. *)
LEMMA EncodedDigits ==
  ASSUME NEW s \in Seq(Byte), NEW i \in 1..2 * Len(s)
  PROVE  Nibble(HexEncode(s)[i]) < 16
<1>1. PICK j \in 1..Len(s) : i = 2 * j - 1 \/ i = 2 * j
  <2>1. (i + 1) \div 2 \in 1..Len(s)
        /\ (i = 2 * ((i + 1) \div 2) - 1 \/ i = 2 * ((i + 1) \div 2))
    OBVIOUS
  <2>2. QED
    BY <2>1
<1>2. s[j] \in Byte
  OBVIOUS
<1>3. s[j] \div 16 \in 0..15 /\ (s[j] % 16) \in 0..15
  BY <1>2, Halves
<1>4. HexEncode(s)[i] \in {HexDigit(s[j] \div 16), HexDigit(s[j] % 16)}
  BY <1>1, EncodedLength
<1>5. PICK d \in 0..15 : HexEncode(s)[i] = HexDigit(d)
  BY <1>3, <1>4
<1>6. Nibble(HexDigit(d)) = d
  BY NibbleOfDigit
<1>7. QED
  BY <1>5, <1>6

(* The bytes of a control transfer and of an AOA string arrive as they were *)
(* sent: what hupi_hex_encode writes, hupi_hex_decode accepts when there is *)
(* room for it and turns back into the same bytes (wire.c:326, 340).       *)
THEOREM HexRoundTrip ==
  ASSUME NEW s \in Seq(Byte), NEW cap \in Nat, Len(s) <= cap
  PROVE  /\ HexAccepts(HexEncode(s), cap)
         /\ HexDecode(HexEncode(s), cap) = s
<1> DEFINE h == HexEncode(s)
<1>1. Len(h) = 2 * Len(s) /\ Len(h) % 2 = 0 /\ Len(h) \div 2 = Len(s)
  BY EncodedLength
<1>2. HexAccepts(h, cap)
  BY <1>1, EncodedDigits DEF HexAccepts
<1>3. ASSUME NEW i \in 1..Len(s)
      PROVE  16 * Nibble(h[2 * i - 1]) + Nibble(h[2 * i]) = s[i]
  <2>1. s[i] \in Byte
    OBVIOUS
  <2>2. /\ s[i] \div 16 \in 0..15 /\ (s[i] % 16) \in 0..15
        /\ 16 * (s[i] \div 16) + (s[i] % 16) = s[i]
    BY <2>1, Halves
  <2>3. /\ Nibble(h[2 * i - 1]) = s[i] \div 16
        /\ Nibble(h[2 * i]) = s[i] % 16
    BY <2>2, EncodedLength, NibbleOfDigit
  <2>4. QED
    BY <2>2, <2>3
<1>4. HexDecode(h, cap) = [i \in 1..Len(s) |->
                             16 * Nibble(h[2 * i - 1]) + Nibble(h[2 * i])]
  BY <1>1, <1>2 DEF HexDecode
<1>5. HexDecode(h, cap) = [i \in 1..Len(s) |-> s[i]]
  BY <1>3, <1>4
<1>6. QED
  BY <1>2, <1>5

-----------------------------------------------------------------------------
(* Values in a line are strings: sequences of characters other than NUL.   *)
Char == 1..255

Code(c) == IF Plain(c) THEN 1 ELSE 3

(* The code of a character is itself or three characters, none a space,    *)
(* and the last two of three are the digits of its number.                 *)
LEMMA EncodedIs ==
  ASSUME NEW c \in Char
  PROVE  /\ Plain(c) => Encoded(c) = <<c>> /\ c # PCT /\ c # SP
         /\ ~Plain(c) =>
              /\ Encoded(c) = <<PCT, HexDigit(c \div 16), HexDigit(c % 16)>>
              /\ Nibble(HexDigit(c \div 16)) = c \div 16
              /\ Nibble(HexDigit(c % 16)) = c % 16
              /\ c \div 16 < 16 /\ c % 16 < 16
              /\ 16 * (c \div 16) + (c % 16) = c
<1>1. c \in Byte
  BY DEF Char, Byte
<1>2. /\ c \div 16 \in 0..15 /\ (c % 16) \in 0..15
      /\ 16 * (c \div 16) + (c % 16) = c
  BY <1>1, Halves
<1>3. /\ Nibble(HexDigit(c \div 16)) = c \div 16
      /\ Nibble(HexDigit(c % 16)) = c % 16
  BY <1>2, NibbleOfDigit
<1>4. Plain(c) => c # PCT /\ c # SP
  BY DEF Plain, PCT, SP
<1>5. c \div 16 < 16 /\ c % 16 < 16
  BY <1>2
<1> QED BY <1>2, <1>3, <1>4, <1>5 DEF Encoded

LEMMA DigitIs ==
  ASSUME NEW d \in 0..15
  PROVE  HexDigit(d) \in Char \ {SP}
<1>1. CASE d < 10
  BY <1>1 DEF HexDigit, Char, SP
<1>2. CASE d >= 10
  BY <1>2 DEF HexDigit, Char, SP
<1> QED BY <1>1, <1>2

LEMMA EncodedSeq ==
  ASSUME NEW c \in Char
  PROVE  Encoded(c) \in Seq(Char \ {SP}) /\ Len(Encoded(c)) = Code(c)
<1>1. CASE Plain(c)
  <2>1. c \in Char \ {SP}
    BY <1>1, EncodedIs
  <2>2. Encoded(c) = <<c>>
    BY <1>1, EncodedIs
  <2> QED BY <1>1, <2>1, <2>2 DEF Code
<1>2. CASE ~Plain(c)
  <2>1. c \div 16 \in 0..15 /\ (c % 16) \in 0..15
    BY Halves DEF Char, Byte
  <2>2. PICK x \in Char \ {SP}, y \in Char \ {SP} :
          x = HexDigit(c \div 16) /\ y = HexDigit(c % 16)
    BY <2>1, DigitIs
  <2>3. Encoded(c) = <<PCT, x, y>>
    BY <1>2, <2>2, EncodedIs
  <2>4. PCT \in Char \ {SP}
    BY DEF PCT, SP, Char
  <2> QED BY <1>2, <2>3, <2>4 DEF Code
<1> QED BY <1>1, <1>2

(* How long the code of the first m characters is.                         *)
LEMMA WidthStep ==
  ASSUME NEW s \in Seq(Char), NEW m \in 1..Len(s)
  PROVE  Width(s, m) = Width(s, m - 1) + Code(s[m])
<1> DEFINE K(j) == {i \in 1..j : ~Plain(s[i])}
<1>1. m \in Nat /\ m - 1 \in Nat /\ 1..m = (1..m - 1) \cup {m} /\ m \notin 1..m - 1
  OBVIOUS
<1>2. IsFiniteSet(K(m - 1)) /\ Cardinality(K(m - 1)) \in Nat
  BY <1>1, FiniteSub
<1>3. /\ Width(s, m) = m + 2 * Cardinality(K(m))
      /\ Width(s, m - 1) = m - 1 + 2 * Cardinality(K(m - 1))
  BY DEF Width
<1>4. /\ Plain(s[m]) => K(m) = K(m - 1)
      /\ ~Plain(s[m]) => K(m) = K(m - 1) \cup {m} /\ m \notin K(m - 1)
  BY <1>1
<1> HIDE DEF K
<1>5. CASE Plain(s[m])
  BY <1>1, <1>2, <1>3, <1>4, <1>5 DEF Code
<1>6. CASE ~Plain(s[m])
  <2>1. Cardinality(K(m)) = Cardinality(K(m - 1)) + 1
    BY <1>2, <1>4, <1>6, FS_AddElement
  <2> QED BY <1>1, <1>2, <1>3, <1>6, <2>1 DEF Code
<1> QED BY <1>5, <1>6

LEMMA WidthIs ==
  ASSUME NEW s \in Seq(Char)
  PROVE  /\ Width(s, 0) = 0
         /\ \A m \in 0..Len(s) : Width(s, m) \in Nat /\ Width(s, m) >= m
<1>1. {i \in 1..0 : ~Plain(s[i])} = {}
  OBVIOUS
<1>2. Width(s, 0) = 0
  BY <1>1, FS_EmptySet DEF Width
<1>3. ASSUME NEW m \in 0..Len(s) PROVE Width(s, m) \in Nat /\ Width(s, m) >= m
  <2>1. {i \in 1..m : ~Plain(s[i])} \in SUBSET (1..m) /\ m \in Nat
    OBVIOUS
  <2>2. Cardinality({i \in 1..m : ~Plain(s[i])}) \in Nat
    BY <2>1, FiniteSub
  <2> QED BY <2>1, <2>2 DEF Width
<1> QED BY <1>2, <1>3

LEMMA WidthGrows ==
  ASSUME NEW s \in Seq(Char), NEW k \in 0..Len(s), NEW m \in 0..k
  PROVE  Width(s, m) <= Width(s, k)
<1> DEFINE K(j) == {i \in 1..j : ~Plain(s[i])}
<1>1. k \in Nat /\ m \in Nat /\ m <= k
  OBVIOUS
<1>2. K(m) \subseteq K(k) /\ K(k) \in SUBSET (1..k)
  BY <1>1
<1>3. Width(s, m) = m + 2 * Cardinality(K(m)) /\ Width(s, k) = k + 2 * Cardinality(K(k))
  BY DEF Width
<1> HIDE DEF K
<1>4. IsFiniteSet(K(k))
  BY <1>1, <1>2, FiniteSub
<1>5. /\ Cardinality(K(m)) \in Nat /\ Cardinality(K(k)) \in Nat
      /\ Cardinality(K(m)) <= Cardinality(K(k))
  BY <1>2, <1>4, FS_Subset, FS_CardinalityType
<1> QED BY <1>1, <1>3, <1>5

(* w spells the first k characters of s: their codes, one behind the other. *)
Spells(w, s, k) ==
  /\ w \in Seq(Char \ {SP}) /\ Len(w) = Width(s, k)
  /\ \A m \in 1..k : \A r \in 1..Code(s[m]) :
       w[Width(s, m - 1) + r] = Encoded(s[m])[r]

LEMMA SpellsNext ==
  ASSUME NEW s \in Seq(Char), NEW k \in 1..Len(s), NEW w, Spells(w, s, k - 1)
  PROVE  Spells(w \o Encoded(s[k]), s, k)
<1> DEFINE c == Encoded(s[k])
           v == w \o c
           S == Char \ {SP}
<1>1. s[k] \in Char
  OBVIOUS
<1>2. c \in Seq(S) /\ Len(c) = Code(s[k]) /\ w \in Seq(S) /\ Len(w) = Width(s, k - 1)
  BY <1>1, EncodedSeq DEF Spells
<1>3. Width(s, k) = Width(s, k - 1) + Code(s[k])
  BY WidthStep
<1> HIDE DEF c, S
<1>4. /\ v \in Seq(S) /\ Len(v) = Len(w) + Len(c)
      /\ \A i \in 1..Len(w) + Len(c) :
           v[i] = IF i <= Len(w) THEN w[i] ELSE c[i - Len(w)]
  BY <1>2, ConcatProperties
<1> HIDE DEF v
<1>5. ASSUME NEW m \in 1..k, NEW r \in 1..Code(s[m])
      PROVE  v[Width(s, m - 1) + r] = Encoded(s[m])[r]
  <2>1. /\ m \in 1..Len(s) /\ m - 1 \in 0..Len(s) /\ r \in Nat /\ r >= 1
        /\ r <= Code(s[m]) /\ k - 1 \in 0..Len(s)
    BY DEF Code
  <2>2. Width(s, m - 1) \in Nat /\ Width(s, k - 1) \in Nat
    BY <2>1, WidthIs
  <2>3. CASE m = k
    <3>1. Code(s[k]) \in Nat
      BY DEF Code
    <3> DEFINE x == Width(s, k - 1)
    <3>2. x \in Nat /\ Len(w) = x /\ Len(c) = Code(s[k])
      BY <1>2, <2>2
    <3> HIDE DEF x
    <3>3. x + r \in Nat
      BY <2>1, <3>2
    <3> DEFINE i == x + r
    <3>4. i \in 1..Len(w) + Len(c) /\ ~(i <= Len(w)) /\ i - Len(w) = r
      BY <2>1, <2>3, <3>1, <3>2, <3>3
    <3> HIDE DEF i
    <3>5. v[i] = c[i - Len(w)]
      BY <1>4, <3>4
    <3>6. v[i] = c[r]
      BY <3>4, <3>5
    <3> QED BY <2>3, <3>6 DEF c, x, i
  <2>4. CASE m # k
    <3>1. m \in 0..k - 1 /\ m \in 1..k - 1
      BY <2>4
    <3>2. Width(s, m) <= Width(s, k - 1)
      BY <2>1, <3>1, WidthGrows
    <3>3. Width(s, m) = Width(s, m - 1) + Code(s[m])
      BY <2>1, WidthStep
    <3>4. w[Width(s, m - 1) + r] = Encoded(s[m])[r]
      BY <3>1 DEF Spells
    <3> DEFINE x == Width(s, m - 1)
               y == Width(s, k - 1)
    <3>5. Code(s[m]) \in Nat /\ Len(c) \in Nat
      BY <1>2 DEF Code
    <3>6. x \in Nat /\ y \in Nat /\ Len(w) = y /\ x + Code(s[m]) <= y
      BY <1>2, <2>2, <3>2, <3>3
    <3> HIDE DEF x, y
    <3>7. x + r \in 1..Len(w) + Len(c) /\ x + r <= Len(w)
      BY <2>1, <3>5, <3>6
    <3>8. v[x + r] = w[x + r]
      BY <1>4, <3>7
    <3> QED BY <3>4, <3>8 DEF x
  <2> QED BY <2>3, <2>4
<1> QED BY <1>2, <1>3, <1>4, <1>5 DEF Spells, S, v, c

(* FlattenSeq appends one part after the other.                            *)
Joins(f, n, q) ==
  f = [i \in 1..n |-> IF i = 1 THEN q[i] ELSE f[i - 1] \o q[i]]

LEMMA JoinsExist ==
  ASSUME NEW q, NEW n \in Nat
  PROVE  \E f : Joins(f, n, q)
<1> DEFINE T == {m \in 0..n : ~\E f : Joins(f, m, q)}
<1>1. ASSUME T # {} PROVE FALSE
  <2>1. T \in SUBSET Nat
    OBVIOUS
  <2>2. PICK m \in T : \A y \in T : m <= y
    <3> HIDE DEF T
    <3> QED BY <1>1, <2>1, LeastOf
  <2>3. m \in 0..n /\ ~\E f : Joins(f, m, q)
    OBVIOUS
  <2>4. CASE m = 0
    <3>1. Joins([k \in 1..0 |-> 0], 0, q)
      BY DEF Joins
    <3> QED BY <2>3, <2>4, <3>1
  <2>5. CASE m # 0
    <3>1. m - 1 \in 0..n /\ ~(m <= m - 1)
      BY <2>3, <2>5
    <3>2. m - 1 \notin T
      BY <2>2, <3>1
    <3>3. PICK f : Joins(f, m - 1, q)
      BY <3>1, <3>2
    <3> DEFINE h == [k \in 1..m |-> IF k < m THEN f[k]
                                    ELSE IF k = 1 THEN q[k]
                                    ELSE f[m - 1] \o q[m]]
    <3>4. ASSUME NEW k \in 1..m
          PROVE  h[k] = IF k = 1 THEN q[k] ELSE h[k - 1] \o q[k]
      <4>1. \A i \in 1..m - 1 : f[i] = IF i = 1 THEN q[i] ELSE f[i - 1] \o q[i]
        BY <3>3 DEF Joins
      <4>2. \A i \in 1..m - 1 : i \in 1..m /\ i < m
        BY <2>3
      <4>3. \A i \in 1..m - 1 : h[i] = f[i]
        BY <4>2
      <4>4. h[m] = IF m = 1 THEN q[m] ELSE f[m - 1] \o q[m]
        BY <2>3
      <4> HIDE DEF h
      <4>5. CASE k = m
        <5>1. k # 1 => m - 1 \in 1..m - 1
          BY <4>5, <2>3, <2>5
        <5> QED BY <4>3, <4>4, <4>5, <5>1
      <4>6. CASE k # m
        <5>1. k \in 1..m - 1 /\ (k = 1 \/ k - 1 \in 1..m - 1)
          BY <4>6, <2>3
        <5> QED BY <4>1, <4>3, <5>1
      <4> QED BY <4>5, <4>6
    <3>5. h = [k \in 1..m |-> IF k = 1 THEN q[k] ELSE h[k - 1] \o q[k]]
      <4>1. h = [k \in 1..m |-> h[k]]
        OBVIOUS
      <4> HIDE DEF h
      <4> QED BY <3>4, <4>1
    <3>6. Joins(h, m, q)
      BY <3>5 DEF Joins
    <3> QED BY <2>3, <3>6
  <2> QED BY <2>4, <2>5
<1>2. n \in 0..n
  OBVIOUS
<1> QED BY <1>1, <1>2

LEMMA FlattenIs ==
  ASSUME NEW q, Len(q) \in Nat, Len(q) # 0
  PROVE  \E f : Joins(f, Len(q), q) /\ FlattenSeq(q) = f[Len(q)]
<1> DEFINE f == CHOOSE flatten : Joins(flatten, Len(q), q)
<1>1. Joins(f, Len(q), q)
  BY JoinsExist
<1>2. FlattenSeq(q) = f[Len(q)]
  BY DEF FlattenSeq, Joins
<1> QED BY <1>1, <1>2

(* What Escape copies of a value: as many characters as have room.         *)
Fits(s, n) == Max({k \in 0..Len(s) : Width(s, k) < n})

LEMMA FitsIs ==
  ASSUME NEW s \in Seq(Char), NEW n \in Nat \ {0}
  PROVE  /\ Fits(s, n) \in 0..Len(s) /\ Width(s, Fits(s, n)) < n
         /\ \A k \in 0..Len(s) : Width(s, k) < n => k <= Fits(s, n)
<1> DEFINE T == {k \in 0..Len(s) : Width(s, k) < n}
           L == Len(s)
           U == {L - k : k \in T}
<1>1. L \in Nat /\ 0 \in T
  BY WidthIs
<1>2. U \in SUBSET Nat /\ U # {} /\ T \in SUBSET Int
  BY <1>1
<1>3. PICK u \in U : \A y \in U : u <= y
  <2> HIDE DEF U
  <2> QED BY <1>2, LeastOf
<1>4. PICK x \in T : u = L - x
  OBVIOUS
<1>5. ASSUME NEW y \in T PROVE y <= x
  <2>1. L - y \in U /\ y \in Int /\ x \in Int
    OBVIOUS
  <2> HIDE DEF T, U
  <2>2. L - x <= L - y
    BY <1>3, <1>4, <2>1
  <2> QED BY <1>1, <2>1, <2>2
<1>6. Max(T) = x
  <2> HIDE DEF T
  <2> QED BY <1>2, <1>5, MaxIs
<1> QED BY <1>5, <1>6 DEF Fits

LEMMA FlattenSpells ==
  ASSUME NEW s \in Seq(Char), NEW k \in 0..Len(s)
  PROVE  Spells(FlattenSeq([i \in 1..k |-> Encoded(s[i])]), s, k)
<1> DEFINE q == [i \in 1..k |-> Encoded(s[i])]
           S == Char \ {SP}
<1>1. k \in Nat /\ k <= Len(s) /\ \A i \in 1..k : s[i] \in Char
  OBVIOUS
<1>2. \A i \in 1..k : Encoded(s[i]) \in Seq(S)
  BY <1>1, EncodedSeq
<1>3. q \in Seq(Seq(S)) /\ Len(q) = k
  BY <1>1, <1>2
<1>4. Spells(<<>>, s, 0)
  BY WidthIs, EmptySeq DEF Spells
<1>5. CASE k = 0
  <2>1. q = <<>>
    BY <1>3, <1>5, EmptySeq
  <2> QED BY <1>3, <1>5, <1>4, <2>1 DEF FlattenSeq
<1>6. CASE k # 0
  <2>1. PICK f : Joins(f, k, q) /\ FlattenSeq(q) = f[k]
    <3> HIDE DEF q
    <3> QED BY <1>1, <1>3, <1>6, FlattenIs
  <2> DEFINE T == {m \in 1..k : ~Spells(f[m], s, m)}
  <2>2. ASSUME T # {} PROVE FALSE
    <3>1. T \in SUBSET Nat
      BY <1>1
    <3>2. PICK m \in T : \A y \in T : m <= y
      <4> HIDE DEF T
      <4> QED BY <2>2, <3>1, LeastOf
    <3>3. m \in 1..k /\ m \in 1..Len(s) /\ ~Spells(f[m], s, m)
      BY <1>1
    <3>4. f[m] = IF m = 1 THEN Encoded(s[m]) ELSE f[m - 1] \o Encoded(s[m])
      BY <2>1, <3>3 DEF Joins
    <3>5. CASE m = 1
      <4>1. Spells(<<>> \o Encoded(s[m]), s, m)
        <5>1. m - 1 = 0
          BY <3>5
        <5> QED BY <1>4, <3>3, <5>1, SpellsNext
      <4>2. <<>> \o Encoded(s[m]) = Encoded(s[m])
        BY <1>2, <3>3, ConcatEmptySeq
      <4> QED BY <3>3, <3>4, <3>5, <4>1, <4>2
    <3>6. CASE m # 1
      <4>1. m - 1 \in 1..k /\ ~(m <= m - 1)
        BY <3>3, <3>6
      <4>2. m - 1 \notin T
        BY <3>2, <4>1
      <4>3. Spells(f[m - 1], s, m - 1)
        BY <4>1, <4>2
      <4> QED BY <3>3, <3>4, <3>6, <4>3, SpellsNext
    <3> QED BY <3>5, <3>6
  <2>3. k \in 1..k
    BY <1>1, <1>6
  <2>4. Spells(f[k], s, k)
    BY <2>2, <2>3
  <2> QED BY <2>1, <2>4
<1> QED BY <1>5, <1>6

LEMMA EscapeSpells ==
  ASSUME NEW s \in Seq(Char), s # <<>>, NEW n \in Nat \ {0}
  PROVE  Spells(Escape(s, n), s, Fits(s, n))
<1>1. Escape(s, n) = FlattenSeq([i \in 1..Fits(s, n) |-> Encoded(s[i])])
  BY DEF Escape, Fits
<1> QED BY <1>1, FitsIs, FlattenSpells

(* Unescape reads from the end: what it makes of a string from position i  *)
(* on, given what it makes of the positions behind.                        *)
Decode(f, in, i) ==
  IF i > Len(in) THEN <<>>
  ELSE IF /\ in[i] = PCT /\ i + 2 <= Len(in)
          /\ Nibble(in[i + 1]) < 16 /\ Nibble(in[i + 2]) < 16
  THEN <<16 * Nibble(in[i + 1]) + Nibble(in[i + 2])>> \o f[i + 3]
  ELSE <<in[i]>> \o f[i + 1]

Decodes(f, in, a) == f = [i \in a..Len(in) + 3 |-> Decode(f, in, i)]

LEMMA DecodesMore ==
  ASSUME NEW in, Len(in) \in Nat, NEW a \in 1..Len(in) + 3,
         NEW f, Decodes(f, in, a + 1)
  PROVE  \E h : Decodes(h, in, a)
<1> DEFINE N == Len(in) + 3
           h == [i \in a..N |-> IF i > a THEN f[i] ELSE Decode(f, in, a)]
<1>1. /\ \A i \in a + 1..N : i \in a..N /\ i > a
      /\ a \in a..N /\ ~(a > a)
  OBVIOUS
<1>2. /\ \A i \in a + 1..N : h[i] = f[i]
      /\ h[a] = Decode(f, in, a)
  BY <1>1
<1>3. h = [i \in a..N |-> h[i]]
  OBVIOUS
<1>4. \A i \in a + 1..N : f[i] = Decode(f, in, i)
  BY DEF Decodes
<1> HIDE DEF h
<1>5. ASSUME NEW i \in a..N PROVE h[i] = Decode(h, in, i)
  <2>1. CASE i > Len(in)
    <3>1. Decode(f, in, i) = <<>> /\ Decode(h, in, i) = <<>>
      BY <2>1 DEF Decode
    <3>2. i = a \/ i \in a + 1..N
      OBVIOUS
    <3> QED BY <1>2, <1>4, <3>1, <3>2
  <2>2. CASE ~(i > Len(in))
    <3>1. i + 1 \in a + 1..N /\ i + 3 \in a + 1..N
      BY <2>2
    <3>2. h[i + 1] = f[i + 1] /\ h[i + 3] = f[i + 3]
      BY <1>2, <3>1
    <3>3. Decode(h, in, i) = Decode(f, in, i)
      BY <3>2 DEF Decode
    <3>4. i = a \/ i \in a + 1..N
      OBVIOUS
    <3> QED BY <1>2, <1>4, <3>3, <3>4
  <2> QED BY <2>1, <2>2
<1>6. Decodes(h, in, a)
  BY <1>3, <1>5 DEF Decodes
<1> QED BY <1>6

LEMMA DecodesExist ==
  ASSUME NEW in, Len(in) \in Nat
  PROVE  \E f : Decodes(f, in, 1)
<1> DEFINE N == Len(in) + 3
           T == {m \in 0..N : ~\E f : Decodes(f, in, N + 1 - m)}
<1>1. ASSUME T # {} PROVE FALSE
  <2>1. T \in SUBSET Nat
    OBVIOUS
  <2>2. PICK m \in T : \A y \in T : m <= y
    <3> HIDE DEF T
    <3> QED BY <1>1, <2>1, LeastOf
  <2>3. m \in 0..N /\ ~\E f : Decodes(f, in, N + 1 - m)
    OBVIOUS
  <2>4. CASE m = 0
    <3>1. N + 1 - m = Len(in) + 4
      BY <2>4
    <3>2. Decodes([i \in Len(in) + 4..Len(in) + 3 |-> 0], in, Len(in) + 4)
      BY DEF Decodes
    <3> QED BY <2>3, <3>1, <3>2
  <2>5. CASE m # 0
    <3>1. m - 1 \in 0..N /\ ~(m <= m - 1)
      BY <2>3, <2>5
    <3>2. m - 1 \notin T
      BY <2>2, <3>1
    <3>3. PICK f : Decodes(f, in, N + 1 - (m - 1))
      BY <3>1, <3>2
    <3> DEFINE a == N + 1 - m
    <3>4. a \in 1..Len(in) + 3 /\ a + 1 = N + 1 - (m - 1)
      BY <2>3, <2>5
    <3> HIDE DEF a
    <3>5. \E h : Decodes(h, in, a)
      BY <3>3, <3>4, DecodesMore
    <3> QED BY <2>3, <3>5 DEF a
  <2> QED BY <2>4, <2>5
<1>2. N \in 0..N /\ N + 1 - N = 1
  OBVIOUS
<1>3. N \notin T
  BY <1>1
<1> QED BY <1>2, <1>3

LEMMA UnescapeIs ==
  ASSUME NEW in, Len(in) \in Nat, in # <<Dash>>, NEW n
  PROVE  \E f : Decodes(f, in, 1) /\ Unescape(in, n) = Cut(f[1], n)
<1> DEFINE f == CHOOSE at : Decodes(at, in, 1)
<1>1. Decodes(f, in, 1)
  BY DecodesExist
<1>2. Unescape(in, n) = Cut(f[1], n)
  BY DEF Unescape, Decodes, Decode
<1> QED BY <1>1, <1>2

(* w begins with the codes of the first k characters of s.                 *)
Begins(w, s, k) ==
  /\ w \in Seq(Char) /\ Width(s, k) <= Len(w)
  /\ \A m \in 1..k : \A r \in 1..Code(s[m]) :
       w[Width(s, m - 1) + r] = Encoded(s[m])[r]

(* The code of one character is read back as that character.               *)
LEMMA DecodesOne ==
  ASSUME NEW s \in Seq(Char), NEW k \in 0..Len(s), NEW w, Begins(w, s, k),
         NEW f, Decodes(f, w, 1), NEW j \in 1..k
  PROVE  f[Width(s, j - 1) + 1] = <<s[j]>> \o f[Width(s, j) + 1]
<1> DEFINE c == s[j]
           p == Width(s, j - 1) + 1
           e == Width(s, j)
<1>1. c \in Char /\ j \in 1..Len(s) /\ j - 1 \in 0..Len(s) /\ j \in 0..k
  OBVIOUS
<1>2. e = Width(s, j - 1) + Code(c) /\ Width(s, j - 1) \in Nat
  BY <1>1, WidthStep, WidthIs
<1>3. e <= Len(w) /\ Len(w) \in Nat
  <2>1. e <= Width(s, k) /\ e \in Nat /\ Width(s, k) \in Nat
    BY <1>1, WidthGrows, WidthIs
  <2> QED BY <2>1 DEF Begins
<1>4. \A r \in 1..Code(c) : w[Width(s, j - 1) + r] = Encoded(c)[r]
  BY DEF Begins
<1>5. Code(c) \in {1, 3} /\ 1 \in 1..Code(c)
  BY DEF Code
<1>6. w[p] = Encoded(c)[1]
  BY <1>4, <1>5
<1>7. p \in 1..Len(w) + 3 /\ ~(p > Len(w))
  <2> DEFINE x == Width(s, j - 1)
             l == Len(w)
  <2>1. x \in Nat /\ e = x + Code(c) /\ e <= l /\ l \in Nat
    BY <1>2, <1>3
  <2> HIDE DEF x, e, l, c
  <2>2. x + 1 \in 1..l + 3 /\ ~(x + 1 > l)
    BY <1>5, <2>1
  <2> QED BY <2>2 DEF x, l
<1>8. f[p] = Decode(f, w, p)
  BY <1>7 DEF Decodes
<1>9. CASE Plain(c)
  <2>1. Encoded(c)[1] = c /\ c # PCT /\ Code(c) = 1
    BY <1>1, <1>9, EncodedIs DEF Code
  <2>2. e = p
    BY <1>2, <2>1
  <2>3. w[p] = c
    BY <1>6, <2>1
  <2> HIDE DEF c, p, e
  <2>4. f[p] = <<c>> \o f[p + 1]
    BY <1>7, <1>8, <2>1, <2>3 DEF Decode
  <2> QED BY <2>2, <2>4 DEF c, p, e
<1>10. CASE ~Plain(c)
  <2> DEFINE x == HexDigit(c \div 16)
             y == HexDigit(c % 16)
  <2>1. Encoded(c) = <<PCT, x, y>> /\ Code(c) = 3
    BY <1>1, <1>10, EncodedIs DEF Code
  <2>2. /\ Nibble(x) < 16 /\ Nibble(y) < 16
        /\ 16 * Nibble(x) + Nibble(y) = c
    BY <1>1, <1>10, EncodedIs
  <2>3. /\ Width(s, j - 1) + 2 = p + 1 /\ Width(s, j - 1) + 3 = p + 2
        /\ p + 2 <= Len(w) /\ e + 1 = p + 3
    <3> DEFINE z == Width(s, j - 1)
               l == Len(w)
    <3>1. z \in Nat /\ e = z + Code(c) /\ e <= l /\ l \in Nat
      BY <1>2, <1>3
    <3> HIDE DEF z, e, l, c
    <3>2. /\ z + 2 = z + 1 + 1 /\ z + 3 = z + 1 + 2
          /\ z + 1 + 2 <= l /\ e + 1 = z + 1 + 3
      BY <2>1, <3>1
    <3> QED BY <3>2 DEF z, l
  <2>4. w[Width(s, j - 1) + 2] = Encoded(c)[2] /\ w[Width(s, j - 1) + 3] = Encoded(c)[3]
    BY <1>4, <2>1
  <2>5. w[p] = PCT /\ w[p + 1] = x /\ w[p + 2] = y
    BY <1>6, <2>1, <2>3, <2>4
  <2> HIDE DEF c, p, e, x, y
  <2>6. f[p] = <<c>> \o f[p + 3]
    BY <1>7, <1>8, <2>2, <2>3, <2>5 DEF Decode
  <2> QED BY <2>3, <2>6 DEF c, p, e
<1> QED BY <1>9, <1>10

LEMMA Associative ==
  ASSUME NEW u \in Seq(Char), NEW v \in Seq(Char), NEW z \in Seq(Char)
  PROVE  (u \o v) \o z = u \o (v \o z)
BY ConcatAssociative, SMTT(30)

LEMMA DecodesAll ==
  ASSUME NEW s \in Seq(Char), NEW k \in 0..Len(s), NEW w, Begins(w, s, k),
         NEW f, Decodes(f, w, 1), NEW x \in Seq(Char), f[Width(s, k) + 1] = x
  PROVE  f[1] = SubSeq(s, 1, k) \o x
<1> DEFINE At(m) == f[Width(s, k - m) + 1] = SubSeq(s, k - m + 1, k) \o x
           T == {m \in 0..k : ~At(m)}
<1>1. k \in Nat /\ k <= Len(s) /\ \A i \in 1..Len(s) : s[i] \in Char
  OBVIOUS
<1>2. ASSUME T # {} PROVE FALSE
  <2>1. T \in SUBSET Nat
    BY <1>1
  <2>2. PICK m \in T : \A y \in T : m <= y
    <3> HIDE DEF T
    <3> QED BY <1>2, <2>1, LeastOf
  <2>3. m \in 0..k /\ ~At(m)
    OBVIOUS
  <2>4. CASE m = 0
    <3>1. SubSeq(s, k + 1, k) = <<>>
      BY <1>1, SubSeqEmpty
    <3>2. <<>> \o x = x
      BY ConcatEmptySeq
    <3>3. k - m = k
      BY <1>1, <2>4
    <3> QED BY <2>3, <3>1, <3>2, <3>3
  <2>5. CASE m # 0
    <3>1. m - 1 \in 0..k /\ ~(m <= m - 1)
      BY <2>3, <2>5
    <3>2. m - 1 \notin T
      BY <2>2, <3>1
    <3>3. At(m - 1)
      BY <3>1, <3>2
    <3> DEFINE j == k - m + 1
    <3>4. /\ j \in 1..k /\ j \in 1..Len(s) /\ k \in j..Len(s)
          /\ k - (m - 1) = j /\ k - m = j - 1
      BY <1>1, <2>3, <2>5
    <3>5. f[Width(s, j) + 1] = SubSeq(s, j + 1, k) \o x
      BY <3>3, <3>4
    <3> HIDE DEF j
    <3>6. f[Width(s, j - 1) + 1] = <<s[j]>> \o f[Width(s, j) + 1]
      BY <3>4, DecodesOne
    <3>7. SubSeq(s, j, k) = <<s[j]>> \o SubSeq(s, j + 1, k)
      BY <3>4, SubSeqRecursiveFirst
    <3>8. /\ <<s[j]>> \in Seq(Char) /\ SubSeq(s, j + 1, k) \in Seq(Char)
      <4>1. s[j] \in Char /\ \A i \in j + 1..k : s[i] \in Char
        BY <1>1, <3>4
      <4>2. SubSeq(s, j + 1, k) \in Seq(Char)
        BY <1>1, <3>4, <4>1, SubSeqProperties
      <4> QED BY <4>1, <4>2
    <3>9. (<<s[j]>> \o SubSeq(s, j + 1, k)) \o x
            = <<s[j]>> \o (SubSeq(s, j + 1, k) \o x)
      <4> DEFINE u == <<s[j]>>
                 v == SubSeq(s, j + 1, k)
      <4>1. u \in Seq(Char) /\ v \in Seq(Char)
        BY <3>8
      <4> HIDE DEF At, T, u, v
      <4>2. (u \o v) \o x = u \o (v \o x)
        BY <4>1, Associative, ZenonT(40)
      <4> QED BY <4>2 DEF u, v
    <3>10. f[Width(s, j - 1) + 1] = SubSeq(s, j, k) \o x
      BY <3>5, <3>6, <3>7, <3>9
    <3> QED BY <2>3, <3>4, <3>10 DEF j
  <2> QED BY <2>4, <2>5
<1>3. k \in 0..k /\ k - k = 0 /\ Width(s, 0) + 1 = 1
  BY <1>1, WidthIs
<1>4. At(k)
  BY <1>2, <1>3
<1> QED BY <1>3, <1>4

(* At most two characters at the end, too few for a code, are read as they *)
(* stand.                                                                  *)
LEMMA DecodesRest ==
  ASSUME NEW w \in Seq(Char), NEW f, Decodes(f, w, 1), NEW a \in 0..Len(w),
         Len(w) <= a + 2
  PROVE  f[a + 1] = SubSeq(w, a + 1, Len(w))
<1> DEFINE l == Len(w)
<1>1. l \in Nat /\ a \in Nat /\ \A i \in 1..l : w[i] \in Char
  OBVIOUS
<1>2. \A i \in 1..l + 3 : f[i] = Decode(f, w, i)
  BY DEF Decodes
<1>3. ASSUME NEW i \in 1..l, i + 2 > l
      PROVE  f[i] = <<w[i]>> \o f[i + 1]
  <2>1. i \in 1..l + 3 /\ ~(i > l) /\ ~(i + 2 <= l)
    BY <1>1, <1>3
  <2>2. f[i] = Decode(f, w, i)
    BY <1>2, <2>1
  <2>3. Decode(f, w, i) = <<w[i]>> \o f[i + 1]
    BY <2>1, Zenon DEF Decode
  <2> QED BY <2>2, <2>3
<1>4. f[l + 1] = <<>>
  <2>1. l + 1 \in 1..l + 3 /\ l + 1 > l
    BY <1>1
  <2>2. f[l + 1] = Decode(f, w, l + 1)
    BY <1>2, <2>1
  <2>3. Decode(f, w, l + 1) = <<>>
    BY <2>1, Zenon DEF Decode
  <2> QED BY <2>2, <2>3
<1>o. ASSUME NEW i \in 1..l PROVE SubSeq(w, i, i) = <<w[i]>>
  <2>1. SubSeq(w, i, i) = <<w[i]>> \o SubSeq(w, i + 1, i)
    <3>1. i \in 1..Len(w) /\ i \in i..Len(w)
      BY <1>o
    <3> QED BY <3>1, SubSeqRecursiveFirst
  <2>2. SubSeq(w, i + 1, i) = <<>>
    BY SubSeqEmpty
  <2>3. <<w[i]>> \o <<>> = <<w[i]>>
    <3>1. <<w[i]>> \in Seq(Char)
      BY <1>1, <1>o
    <3> QED BY <3>1, ConcatEmptySeq
  <2> QED BY <2>1, <2>2, <2>3
<1>p. ASSUME NEW i \in 1..l, i = l PROVE f[i] = <<w[i]>>
  <2>1. f[i] = <<w[i]>> \o <<>>
    <3>1. i + 2 > l /\ i + 1 = l + 1
      BY <1>1, <1>p
    <3> QED BY <1>3, <1>4, <3>1
  <2>2. <<w[i]>> \in Seq(Char)
    BY <1>1, <1>p
  <2> QED BY <2>1, <2>2, ConcatEmptySeq
<1> HIDE DEF l
<1>5. CASE a = l
  <2>1. SubSeq(w, l + 1, l) = <<>>
    BY <1>1, SubSeqEmpty
  <2> QED BY <1>4, <1>5, <2>1 DEF l
<1>6. CASE a + 1 = l
  <2>1. f[l] = <<w[l]>>
    BY <1>1, <1>6, <1>p
  <2>2. SubSeq(w, l, l) = <<w[l]>>
    BY <1>1, <1>6, <1>o
  <2> QED BY <1>6, <2>1, <2>2 DEF l
<1>7. CASE a + 2 = l
  <2>1. f[l] = <<w[l]>>
    BY <1>1, <1>7, <1>p
  <2>2. f[a + 1] = <<w[a + 1]>> \o <<w[l]>>
    <3>1. a + 1 \in 1..l /\ a + 1 + 2 > l /\ a + 1 + 1 = l
      BY <1>1, <1>7
    <3> QED BY <1>3, <2>1, <3>1
  <2>3. SubSeq(w, a + 1, l) = <<w[a + 1]>> \o SubSeq(w, l, l)
    <3>1. a + 1 \in 1..l /\ l \in a + 1..l /\ a + 1 + 1 = l
      BY <1>1, <1>7
    <3> QED BY <3>1, SubSeqRecursiveFirst DEF l
  <2>4. SubSeq(w, l, l) = <<w[l]>>
    BY <1>1, <1>7, <1>o
  <2> QED BY <2>2, <2>3, <2>4 DEF l
<1> QED BY <1>1, <1>5, <1>6, <1>7 DEF l

LEMMA CutIs ==
  ASSUME NEW w \in Seq(Char), NEW r \in Nat \ {0}
  PROVE  /\ Cut(w, r) \in Seq(Char)
         /\ Len(Cut(w, r)) = IF Len(w) < r THEN Len(w) ELSE r - 1
         /\ \A i \in 1..Len(Cut(w, r)) : Cut(w, r)[i] = w[i]
<1> DEFINE l == IF Len(w) < r THEN Len(w) ELSE r - 1
           t == SubSeq(w, 1, l)
<1>1. l \in Nat /\ l <= Len(w) /\ \A i \in 1..l : w[i] \in Char
  OBVIOUS
<1>2. Cut(w, r) = t
  BY DEF Cut
<1> HIDE DEF l
<1>3. /\ t \in Seq(Char) /\ Len(t) = IF 1 <= l THEN l - 1 + 1 ELSE 0
      /\ \A i \in 1..l - 1 + 1 : t[i] = w[1 + i - 1]
  BY <1>1, SubSeqProperties
<1> HIDE DEF t
<1>4. Len(t) = l /\ \A i \in 1..l : t[i] = w[i]
  BY <1>1, <1>3
<1> QED BY <1>2, <1>3, <1>4 DEF l

LEMMA NotCut ==
  ASSUME NEW x \in Seq(Char), NEW n \in Nat, Len(x) < n
  PROVE  Cut(x, n) = x
BY SubSeqFull DEF Cut

(* The first k characters of a value, and the l characters of what was     *)
(* written of it.                                                          *)
LEMMA FirstOf ==
  ASSUME NEW s \in Seq(Char), NEW k \in 0..Len(s)
  PROVE  /\ SubSeq(s, 1, k) \in Seq(Char) /\ Len(SubSeq(s, 1, k)) = k
         /\ \A i \in 1..k : SubSeq(s, 1, k)[i] = s[i]
<1> DEFINE t == SubSeq(s, 1, k)
<1>1. k \in Nat /\ \A i \in 1..k : s[i] \in Char
  OBVIOUS
<1>2. /\ t \in Seq(Char) /\ Len(t) = IF 1 <= k THEN k - 1 + 1 ELSE 0
      /\ \A i \in 1..k - 1 + 1 : t[i] = s[1 + i - 1]
  BY <1>1, SubSeqProperties
<1> HIDE DEF t
<1> QED BY <1>1, <1>2 DEF t

(* The smaller of the sizes of two buffers.                                *)
Smaller(n, r) == IF n < r THEN n ELSE r

(* How far a value comes through the writer's buffer of n and the reader's *)
(* buffer of r for the raw value.                                          *)
Through(s, n, r, raw, k) ==
  /\ k \in 0..Len(s) /\ Begins(raw, s, k)
  /\ Len(raw) <= Width(s, k) + 2
  /\ Len(raw) <= Width(s, Len(s))
  /\ n <= r => Len(raw) = Width(s, k)
  /\ Len(raw) < r - 1 => Len(raw) = Width(s, Fits(s, n))

LEMMA ComesThrough ==
  ASSUME NEW s \in Seq(Char), s # <<>>, NEW n \in Nat \ {0}, NEW r \in Nat \ {0}
  PROVE  Through(s, n, r, Cut(Escape(s, n), r), Fits(s, Smaller(n, r)))
<1>a. PICK raw, k : raw = Cut(Escape(s, n), r) /\ k = Fits(s, Smaller(n, r))
  OBVIOUS
<1> DEFINE w == Escape(s, n)
           K == Fits(s, n)
           l == IF Len(w) < r THEN Len(w) ELSE r - 1
<1>1. Spells(w, s, K) /\ K \in 0..Len(s) /\ Width(s, K) < n
  BY EscapeSpells, FitsIs
<1>2. /\ w \in Seq(Char) /\ Len(w) = Width(s, K)
      /\ \A m \in 1..K : \A x \in 1..Code(s[m]) :
           w[Width(s, m - 1) + x] = Encoded(s[m])[x]
  <2> HIDE DEF w, K
  <2> QED BY <1>1 DEF Spells
<1> HIDE DEF w
<1>3. raw \in Seq(Char) /\ Len(raw) = l /\ \A i \in 1..l : raw[i] = w[i]
  BY <1>a, <1>2, CutIs DEF w
<1>4. /\ k \in 0..Len(s) /\ Width(s, k) < Smaller(n, r)
      /\ \A j \in 0..Len(s) : Width(s, j) < Smaller(n, r) => j <= k
  <2>1. Smaller(n, r) \in Nat \ {0}
    BY DEF Smaller
  <2> QED BY <1>a, <2>1, FitsIs
<1>5. \A j \in 0..Len(s) : Width(s, j) \in Nat /\ Width(s, j) >= j
  BY WidthIs
<1>6. k <= K
  <2>1. Width(s, k) < n
    BY <1>4, <1>5 DEF Smaller
  <2> QED BY <1>4, <2>1, FitsIs
<1> HIDE DEF K
<1>7. Width(s, k) <= Width(s, K) /\ Width(s, K) <= Width(s, Len(s))
  <2>1. k \in 0..K /\ K \in 0..Len(s) /\ Len(s) \in 0..Len(s)
    BY <1>1, <1>4, <1>6
  <2> QED BY <2>1, WidthGrows
<1>8. Width(s, k) < r
  BY <1>4, <1>5 DEF Smaller
<1>9. /\ Width(s, k) \in Nat /\ Width(s, K) \in Nat /\ Width(s, Len(s)) \in Nat
      /\ Width(s, K) = Len(w)
  BY <1>1, <1>2, <1>4, <1>5
<1>10. /\ Width(s, k) <= l /\ l <= Len(w) /\ l <= r - 1 /\ l \in Nat
       /\ l < r - 1 => l = Len(w)
  BY <1>7, <1>8, <1>9
<1>11. n <= r => l = Width(s, k)
  <2>1. CASE n < r
    <3>1. k = K
      BY <1>a, <2>1 DEF Smaller, K
    <3> QED BY <1>1, <1>9, <2>1, <3>1
  <2>2. CASE n = r
    <3>1. k = K
      BY <1>a, <2>2 DEF Smaller, K
    <3> QED BY <1>1, <1>9, <2>2, <3>1
  <2> QED BY <2>1, <2>2
<1>12. l <= Width(s, k) + 2
  <2>1. CASE k = K
    BY <1>9, <1>10, <2>1
  <2>2. CASE k # K /\ n < r
    BY <1>a, <2>2 DEF Smaller, K
  <2>3. CASE k # K /\ ~(n < r)
    <3>1. k + 1 \in 0..Len(s) /\ k + 1 \in 1..Len(s) /\ ~(k + 1 <= k) /\ k \in Nat
      BY <1>1, <1>4, <1>6, <2>3
    <3>2. ~(Width(s, k + 1) < r)
      BY <1>4, <2>3, <3>1 DEF Smaller
    <3>3. Width(s, k + 1) = Width(s, k) + Code(s[k + 1])
      <4>1. PICK j \in 1..Len(s) : j = k + 1 /\ j - 1 = k
        BY <3>1
      <4>2. Width(s, j) = Width(s, j - 1) + Code(s[j])
        BY WidthStep
      <4> QED BY <4>1, <4>2
    <3>4. Code(s[k + 1]) \in {1, 3}
      BY DEF Code
    <3> DEFINE y == Width(s, k)
               c == Code(s[k + 1])
    <3>5. ~(y + c < r) /\ c \in {1, 3} /\ y \in Nat /\ l \in Nat /\ l <= r - 1
      BY <1>9, <1>10, <3>2, <3>3, <3>4
    <3> HIDE DEF l, y, c
    <3>6. l <= y + 2
      BY <3>5
    <3> QED BY <3>6 DEF y
  <2> QED BY <2>1, <2>2, <2>3
<1>13. Begins(raw, s, k)
  <2>1. ASSUME NEW m \in 1..k, NEW x \in 1..Code(s[m])
        PROVE  raw[Width(s, m - 1) + x] = Encoded(s[m])[x]
    <3>1. m \in 1..K /\ m \in 1..Len(s) /\ m \in 0..k /\ m - 1 \in 0..Len(s)
      BY <1>1, <1>4, <1>6
    <3>2. Width(s, m) <= Width(s, k) /\ Width(s, m) = Width(s, m - 1) + Code(s[m])
      BY <1>4, <3>1, WidthGrows, WidthStep
    <3>3. Width(s, m - 1) \in Nat /\ x \in Nat /\ x >= 1 /\ x <= Code(s[m])
          /\ Code(s[m]) \in Nat
      BY <1>5, <3>1 DEF Code
    <3> DEFINE i == Width(s, m - 1) + x
    <3>4. i \in 1..l
      <4> DEFINE y == Width(s, m - 1)
                 c == Code(s[m])
                 z == Width(s, k)
      <4>1. y \in Nat /\ c \in Nat /\ z \in Nat /\ y + c <= z /\ z <= l /\ l \in Nat
        BY <1>9, <1>10, <3>2, <3>3
      <4>2. x \in Nat /\ x >= 1 /\ x <= c
        BY <3>3
      <4> HIDE DEF y, c, z, l
      <4>3. y + x \in 1..l
        BY <4>1, <4>2
      <4> QED BY <4>3 DEF y
    <3>5. w[i] = Encoded(s[m])[x]
      BY <1>2, <3>1
    <3> HIDE DEF i
    <3>6. raw[i] = w[i]
      BY <1>3, <3>4
    <3> QED BY <3>5, <3>6 DEF i
  <2> QED BY <1>3, <1>10, <2>1 DEF Begins
<1> HIDE DEF l
<1>14. l <= Width(s, Len(s)) /\ (l < r - 1 => l = Width(s, K))
  BY <1>7, <1>9, <1>10
<1>15. Len(raw) = l /\ k \in 0..Len(s)
  BY <1>3, <1>4
<1>16. Through(s, n, r, raw, k)
  BY <1>11, <1>12, <1>13, <1>14, <1>15 DEF K, Through
<1> QED BY <1>a, <1>16

LEMMA Joined ==
  ASSUME NEW u \in Seq(Char), NEW v \in Seq(Char)
  PROVE  /\ u \o v \in Seq(Char) /\ Len(u \o v) = Len(u) + Len(v)
         /\ \A i \in 1..Len(u) : (u \o v)[i] = u[i]
         /\ \A i \in 1..Len(v) : (u \o v)[Len(u) + i] = v[i]
OBVIOUS

LEMMA EmptyComesThrough ==
  ASSUME NEW n \in Nat \ {0}, NEW r \in Nat \ {0}, NEW m \in Nat,
         NEW raw, raw = Cut(Escape(<<>>, n), r)
  PROVE  /\ raw \in {<<>>, <<Dash>>} /\ Unescape(raw, m) = <<>>
         /\ \A z \in Nat : Cut(<<>>, z) = <<>>
<1>1. Dash \in Char /\ <<Dash>> \in Seq(Char) /\ Len(<<Dash>>) = 1
      /\ <<>> \in Seq(Char) /\ Len(<<>>) = 0
  BY DEF Dash, Char
<1>2. ASSUME NEW z \in Nat \ {0}, NEW v \in {<<>>, <<Dash>>}
      PROVE  Cut(v, z) \in {<<>>, <<Dash>>}
  <2>1. CASE Len(v) < z
    BY <1>1, <2>1, NotCut
  <2>2. CASE ~(Len(v) < z)
    <3>1. z - 1 = 0
      <4> DEFINE l == Len(v)
      <4>1. l \in {0, 1} /\ ~(l < z)
        BY <1>1, <1>2, <2>2
      <4> HIDE DEF l
      <4> QED BY <4>1
    <3> QED BY <2>2, <3>1, SubSeqEmpty DEF Cut
  <2> QED BY <2>1, <2>2
<1>3. ASSUME NEW z \in Nat PROVE Cut(<<>>, z) = <<>>
  <2>1. CASE 0 < z
    BY <1>1, <2>1, NotCut
  <2>2. CASE ~(0 < z)
    <3>1. z - 1 < 1 /\ z - 1 \in Int
      BY <2>2
    <3> QED BY <1>1, <2>2, <3>1, SubSeqEmpty DEF Cut
  <2> QED BY <2>1, <2>2
<1>4. Escape(<<>>, n) = Cut(<<Dash>>, n)
  BY DEF Escape
<1>5. raw \in {<<>>, <<Dash>>}
  BY <1>2, <1>4
<1>6. CASE raw = <<Dash>>
  BY <1>3, <1>6 DEF Unescape
<1>7. CASE raw = <<>>
  <2>1. raw # <<Dash>> /\ Len(raw) = 0
    BY <1>1, <1>7
  <2>2. PICK f : Decodes(f, raw, 1) /\ Unescape(raw, m) = Cut(f[1], m)
    <3>1. Len(raw) \in Nat
      BY <2>1
    <3> QED BY <2>1, <3>1, UnescapeIs
  <2>3. 1 \in 1..Len(raw) + 3 /\ 1 > Len(raw)
    BY <2>1
  <2>4. f[1] = <<>>
    BY <2>2, <2>3 DEF Decodes, Decode
  <2> QED BY <1>3, <1>7, <2>2, <2>4
<1> QED BY <1>3, <1>5, <1>6, <1>7

(* What hupi_escape writes into a buffer of n, hupi_kv_get copies into one *)
(* of r and hupi_unescape into one of m, for buffers of any sizes          *)
(* (driverd.c:79, classify.c:72): the characters whose codes have room in  *)
(* the first two come back as they were, whatever they are, and behind     *)
(* them the remains of one code that the second cut short, up to what the  *)
(* third holds.  Only "-" cannot be told from the empty value.             *)
THEOREM EscapeRoundTrip ==
  ASSUME NEW s \in Seq(Char),
         NEW n \in Nat \ {0}, NEW r \in Nat \ {0}, NEW m \in Nat \ {0}
  PROVE  LET raw == Cut(Escape(s, n), r)
             k == Fits(s, Smaller(n, r))
             t == SubSeq(s, 1, k) \o SubSeq(raw, Width(s, k) + 1, Len(raw))
         IN /\ Unescape(raw, m) = IF t = <<Dash>> THEN <<>> ELSE Cut(t, m)
            /\ Len(raw) <= Width(s, k) + 2
            /\ n <= r /\ s # <<>> => Len(raw) = Width(s, k)
<1> DEFINE raw == Cut(Escape(s, n), r)
           k == Fits(s, Smaller(n, r))
           u == SubSeq(s, 1, k)
           x == SubSeq(raw, Width(s, k) + 1, Len(raw))
           t == u \o x
<1>1. CASE s = <<>>
  <2>1. raw \in {<<>>, <<Dash>>} /\ Unescape(raw, m) = <<>> /\ Cut(<<>>, m) = <<>>
    BY <1>1, EmptyComesThrough
  <2>2. Smaller(n, r) \in Nat \ {0}
    BY DEF Smaller
  <2>3. k \in 0..Len(s) /\ Len(s) = 0
    BY <1>1, <2>2, FitsIs
  <2> HIDE DEF k
  <2>4. k = 0 /\ Width(s, k) = 0
    <3>1. k = 0
      BY <2>3
    <3> QED BY <3>1, WidthIs
  <2>5. raw \in Seq(Char) /\ Len(raw) <= 1 /\ Len(raw) \in Nat
    <3>1. Dash \in Char /\ Len(<<Dash>>) = 1 /\ Len(<<>>) = 0
      BY DEF Dash, Char
    <3>2. <<Dash>> \in Seq(Char) /\ <<>> \in Seq(Char)
      BY <3>1
    <3>3. raw \in {<<>>, <<Dash>>}
      BY <2>1
    <3> HIDE DEF raw
    <3>4. CASE raw = <<>>
      BY <3>1, <3>2, <3>4
    <3>5. CASE raw = <<Dash>>
      BY <3>1, <3>2, <3>5
    <3> QED BY <3>3, <3>4, <3>5
  <2> HIDE DEF raw
  <2>6. u = <<>> /\ x = raw
    BY <2>4, <2>5, SubSeqEmpty, SubSeqFull
  <2>7. t = raw
    BY <2>5, <2>6, ConcatEmptySeq
  <2> HIDE DEF t
  <2>8. Unescape(raw, m) = IF t = <<Dash>> THEN <<>> ELSE Cut(t, m)
    BY <2>1, <2>7
  <2> QED BY <1>1, <2>4, <2>5, <2>8 DEF t, raw, k
<1>2. CASE s # <<>>
  <2>1. /\ k \in 0..Len(s) /\ Begins(raw, s, k)
        /\ Len(raw) <= Width(s, k) + 2
        /\ n <= r => Len(raw) = Width(s, k)
    <3>1. Through(s, n, r, raw, k)
      BY <1>2, ComesThrough
    <3> HIDE DEF raw, k
    <3> QED BY <3>1 DEF Through
  <2>2. k \in Nat /\ Width(s, k) \in Nat /\ k <= Width(s, k) /\ Width(s, 0) = 0
    BY <2>1, WidthIs
  <2> HIDE DEF k, raw
  <2>3. /\ raw \in Seq(Char) /\ Len(raw) \in Nat /\ Width(s, k) <= Len(raw)
        /\ \A i \in 1..Len(raw) : raw[i] \in Char
    BY <2>1 DEF Begins
  <2>4. /\ x \in Seq(Char) /\ Len(x) = Len(raw) - Width(s, k)
    <3> DEFINE d == Width(s, k)
               l == Len(raw)
    <3>1. d \in Nat /\ l \in Nat /\ d <= l /\ \A i \in d + 1..l : raw[i] \in Char
      BY <2>2, <2>3
    <3> HIDE DEF d, l
    <3>2. SubSeq(raw, d + 1, l) \in Seq(Char)
      BY <3>1, SubSeqProperties
    <3>3. Len(SubSeq(raw, d + 1, l)) = IF d + 1 <= l THEN l - (d + 1) + 1 ELSE 0
      BY <3>1, SubSeqProperties
    <3>4. Len(SubSeq(raw, d + 1, l)) = l - d
      BY <3>1, <3>3
    <3> QED BY <3>2, <3>4 DEF d, l
  <2>5. u \in Seq(Char) /\ Len(u) = k /\ \A i \in 1..k : u[i] = s[i]
    BY <2>1, FirstOf
  <2> HIDE DEF x, u
  <2>6. /\ t \in Seq(Char) /\ Len(t) = k + Len(x)
        /\ \A i \in 1..k : t[i] = s[i]
    <3>1. /\ u \o x \in Seq(Char) /\ Len(u \o x) = Len(u) + Len(x)
          /\ \A i \in 1..Len(u) : (u \o x)[i] = u[i]
      BY <2>4, <2>5, Joined
    <3> HIDE DEF t
    <3> QED BY <2>5, <3>1 DEF t
  <2>7. ASSUME NEW f, Decodes(f, raw, 1) PROVE f[1] = t
    <3>1. Width(s, k) \in 0..Len(raw)
      BY <2>2, <2>3
    <3>2. f[Width(s, k) + 1] = x
      BY <2>1, <2>3, <2>7, <3>1, DecodesRest DEF x
    <3> QED BY <2>1, <2>4, <2>7, <3>2, DecodesAll, SMTT(20) DEF u
  <2>8. ASSUME raw = <<Dash>> PROVE t = <<Dash>>
    <3>1. PICK f : Decodes(f, raw, 1)
      BY <2>3, DecodesExist
    <3>2. Len(raw) = 1 /\ raw[1] = Dash /\ Dash # PCT
      BY <2>8 DEF Dash, PCT
    <3>3. \A i \in 1..4 : f[i] = Decode(f, raw, i)
      BY <3>1, <3>2 DEF Decodes
    <3>4. f[2] = <<>>
      BY <3>2, <3>3 DEF Decode
    <3>5. f[1] = <<Dash>> \o f[1 + 1]
      BY <3>2, <3>3 DEF Decode
    <3>6. <<Dash>> \in Seq(Char)
      BY DEF Dash, Char
    <3>7. f[1] = <<Dash>>
      <4>1. <<Dash>> \o <<>> = <<Dash>>
        BY <3>6, ConcatEmptySeq
      <4>2. 1 + 1 = 2
        OBVIOUS
      <4> QED BY <3>4, <3>5, <4>1, <4>2
    <3> QED BY <2>7, <3>1, <3>7
  <2>9. ASSUME t = <<Dash>> PROVE raw = <<Dash>>
    <3>1. k + Len(x) = 1 /\ Len(x) \in Nat /\ t[1] = Dash
      BY <2>4, <2>6, <2>9
    <3>2. CASE k = 0
      <4>1. x = raw
        BY <2>2, <2>3, <3>2, SubSeqFull DEF x
      <4>2. u = <<>>
        BY <2>5, <3>2, EmptySeq
      <4> QED BY <2>4, <2>9, <4>1, <4>2, ConcatEmptySeq
    <3>3. CASE k # 0
      <4>1. k = 1 /\ Len(x) = 0 /\ Len(raw) = Width(s, 1)
        BY <2>2, <2>3, <2>4, <3>1, <3>3
      <4>2. s[1] = Dash /\ 1 \in 1..Len(s)
        <5>1. 1 \in 1..k /\ 1 \in 1..Len(s)
          BY <2>1, <4>1
        <5>2. t[1] = s[1]
          BY <2>6, <5>1
        <5> QED BY <3>1, <5>1, <5>2
      <4>3. Plain(Dash) /\ Code(Dash) = 1 /\ Encoded(Dash)[1] = Dash
        BY DEF Plain, Dash, Code, Encoded
      <4>4. Width(s, 1) = Width(s, 1 - 1) + Code(s[1])
        BY <4>2, WidthStep
      <4>5. Len(raw) = 1
        BY <2>2, <4>1, <4>2, <4>3, <4>4
      <4>6. raw[Width(s, 1 - 1) + 1] = Encoded(s[1])[1]
        <5>1. 1 \in 1..k /\ 1 \in 1..Code(s[1])
          BY <4>1, <4>2, <4>3
        <5> QED BY <2>1, <5>1 DEF Begins
      <4>7. raw[1] = Dash
        BY <2>2, <4>2, <4>3, <4>6
      <4> QED BY <2>3, <4>5, <4>7
    <3> QED BY <3>2, <3>3
  <2> HIDE DEF t
  <2>10. Unescape(raw, m) = IF t = <<Dash>> THEN <<>> ELSE Cut(t, m)
    <3>1. CASE raw = <<Dash>>
      <4>1. Unescape(raw, m) = <<>>
        BY <3>1 DEF Unescape
      <4> QED BY <2>8, <3>1, <4>1
    <3>2. CASE raw # <<Dash>>
      <4>1. PICK f : Decodes(f, raw, 1) /\ Unescape(raw, m) = Cut(f[1], m)
        BY <2>3, <3>2, UnescapeIs
      <4> QED BY <2>7, <2>9, <3>2, <4>1
    <3> QED BY <3>1, <3>2
  <2> QED BY <2>1, <2>10 DEF t, u, x, raw, k
<1> QED BY <1>1, <1>2


-----------------------------------------------------------------------------
(* Two fields a=x and b=y, with a space between them.                      *)
Fields(a, x, b, y) ==
  <<a>> \o <<EQ>> \o x \o <<SP>> \o <<b>> \o <<EQ>> \o y

AreFields(line, a, x, b, y) ==
  LET l == Len(x)
  IN /\ line \in Seq(Char) /\ Len(line) = l + 5 + Len(y)
     /\ line[1] = a /\ line[2] = EQ
     /\ \A i \in 1..l : line[2 + i] = x[i]
     /\ line[l + 3] = SP /\ line[l + 4] = b /\ line[l + 5] = EQ
     /\ \A i \in 1..Len(y) : line[l + 5 + i] = y[i]

LEMMA Appended ==
  ASSUME NEW T, NEW u \in Seq(T), NEW c \in T
  PROVE  /\ u \o <<c>> \in Seq(T) /\ Len(u \o <<c>>) = Len(u) + 1
         /\ (u \o <<c>>)[Len(u) + 1] = c
         /\ \A i \in 1..Len(u) : (u \o <<c>>)[i] = u[i]
OBVIOUS

LEMMA FieldsAre ==
  ASSUME NEW a \in Char, NEW b \in Char,
         NEW x \in Seq(Char), NEW y \in Seq(Char)
  PROVE  AreFields(Fields(a, x, b, y), a, x, b, y)
<1> DEFINE l == Len(x)
           u1 == <<a>> \o <<EQ>>
           u2 == u1 \o x
           u3 == u2 \o <<SP>>
           u4 == u3 \o <<b>>
           u5 == u4 \o <<EQ>>
           u6 == u5 \o y
<1>1. EQ \in Char /\ SP \in Char /\ l \in Nat /\ Len(y) \in Nat
  BY DEF EQ, SP, Char
<1>2. u1 \in Seq(Char) /\ Len(u1) = 2 /\ u1[1] = a /\ u1[2] = EQ
  BY <1>1
<1> HIDE DEF u1
<1>3. /\ u2 \in Seq(Char) /\ Len(u2) = l + 2 /\ u2[1] = a /\ u2[2] = EQ
      /\ \A i \in 1..l : u2[2 + i] = x[i]
  <2>1. /\ u2 \in Seq(Char) /\ Len(u2) = Len(u1) + Len(x)
        /\ \A i \in 1..Len(u1) : u2[i] = u1[i]
        /\ \A i \in 1..Len(x) : u2[Len(u1) + i] = x[i]
    BY <1>2, Joined
  <2> HIDE DEF u2
  <2> QED BY <1>1, <1>2, <2>1
<1> HIDE DEF u2
<1>4. /\ u3 \in Seq(Char) /\ Len(u3) = l + 3 /\ u3[l + 3] = SP
      /\ \A i \in 1..l + 2 : u3[i] = u2[i]
  BY <1>1, <1>3, Appended
<1> HIDE DEF u3
<1>5. /\ u4 \in Seq(Char) /\ Len(u4) = l + 4 /\ u4[l + 4] = b
      /\ \A i \in 1..l + 3 : u4[i] = u3[i]
  BY <1>1, <1>4, Appended
<1> HIDE DEF u4
<1>6. /\ u5 \in Seq(Char) /\ Len(u5) = l + 5 /\ u5[l + 5] = EQ
      /\ \A i \in 1..l + 4 : u5[i] = u4[i]
  BY <1>1, <1>5, Appended
<1> HIDE DEF u5
<1>7. /\ u6 \in Seq(Char) /\ Len(u6) = l + 5 + Len(y)
      /\ \A i \in 1..l + 5 : u6[i] = u5[i]
      /\ \A i \in 1..Len(y) : u6[l + 5 + i] = y[i]
  <2>1. /\ u6 \in Seq(Char) /\ Len(u6) = Len(u5) + Len(y)
        /\ \A i \in 1..Len(u5) : u6[i] = u5[i]
        /\ \A i \in 1..Len(y) : u6[Len(u5) + i] = y[i]
    BY <1>6, Joined
  <2> HIDE DEF u6, l
  <2> QED BY <1>6, <2>1
<1> HIDE DEF u6
<1>8. /\ 1 \in 1..l + 2 /\ 2 \in 1..l + 2 /\ \A i \in 1..l : 2 + i \in 1..l + 2
      /\ \A i \in 1..l + 2 : i \in 1..l + 3
      /\ \A i \in 1..l + 3 : i \in 1..l + 4
      /\ \A i \in 1..l + 4 : i \in 1..l + 5
      /\ l + 3 \in 1..l + 3 /\ l + 4 \in 1..l + 4 /\ l + 5 \in 1..l + 5
  BY <1>1
<1>9. \A i \in 1..l + 2 : u6[i] = u2[i]
  BY <1>4, <1>5, <1>6, <1>7, <1>8
<1>10. u6[l + 3] = SP /\ u6[l + 4] = b /\ u6[l + 5] = EQ
  BY <1>4, <1>5, <1>6, <1>7, <1>8
<1>11. Fields(a, x, b, y) = u6
  BY DEF Fields, u1, u2, u3, u4, u5, u6
<1> HIDE DEF l
<1>12. u6[1] = a /\ u6[2] = EQ /\ \A i \in 1..l : u6[2 + i] = x[i]
  BY <1>3, <1>8, <1>9
<1> QED BY <1>7, <1>10, <1>11, <1>12 DEF AreFields, l

IsKey(line, a, p) ==
  /\ p = 1 \/ line[p - 1] = SP
  /\ p + 1 <= Len(line) /\ line[p] = a /\ line[p + 1] = EQ

LEMMA KeyOfOne ==
  ASSUME NEW line \in Seq(Char), NEW a \in Char, NEW p \in 1..Len(line)
  PROVE  KeyAt(line, <<a>>, p) <=> IsKey(line, a, p)
<1>1. Len(<<a>>) = 1 /\ p + 1 - 1 = p /\ p \in Int /\ line[p] \in Char
  OBVIOUS
<1>2. SubSeq(line, p, p) = <<line[p]>>
  <2>1. \A i \in p..p : line[i] \in Char
    BY <1>1
  <2> DEFINE t == SubSeq(line, p, p)
  <2>2. /\ t \in Seq(Char) /\ Len(t) = 1 /\ t[1] = line[p]
    BY <1>1, <2>1, SubSeqProperties
  <2> HIDE DEF t
  <2>3. t = <<line[p]>>
    BY <2>2
  <2> QED BY <2>3 DEF t
<1>3. SubSeq(line, p, p) = <<a>> <=> line[p] = a
  BY <1>2
<1> QED BY <1>1, <1>3 DEF KeyAt, IsKey

(* A part of a sequence that is a sequence of its own.                     *)
LEMMA PartIs ==
  ASSUME NEW line \in Seq(Char), NEW x \in Seq(Char), NEW d \in Nat,
         d + Len(x) <= Len(line), \A i \in 1..Len(x) : line[d + i] = x[i]
  PROVE  SubSeq(line, d + 1, d + Len(x)) = x
<1> DEFINE t == SubSeq(line, d + 1, d + Len(x))
           l == Len(x)
<1>1. l \in Nat /\ d + 1 \in Int /\ d + l \in Int
  OBVIOUS
<1>2. \A i \in d + 1..d + l : line[i] \in Char
  OBVIOUS
<1>3. /\ t \in Seq(Char)
      /\ Len(t) = IF d + 1 <= d + l THEN d + l - (d + 1) + 1 ELSE 0
      /\ \A i \in 1..d + l - (d + 1) + 1 : t[i] = line[d + 1 + i - 1]
  <2> HIDE DEF l
  <2> QED BY <1>1, <1>2, SubSeqProperties DEF l
<1> HIDE DEF t
<1>4. Len(t) = l /\ \A i \in 1..l : t[i] = line[d + i]
  BY <1>1, <1>3
<1>5. \A i \in 1..l : t[i] = x[i]
  BY <1>4
<1> QED BY <1>3, <1>4, <1>5, SeqEqual DEF t

LEMMA LeastIs ==
  ASSUME NEW T \in SUBSET Nat, NEW x \in T, \A y \in T : x <= y
  PROVE  Min(T) = x
<1>1. Min(T) \in T /\ Min(T) <= x
  BY MinIs
<1>2. Min(T) \in Nat /\ x \in Nat /\ x <= Min(T)
  BY <1>1
<1> QED BY <1>1, <1>2

(* A value without spaces.                                                 *)
Value(x) == /\ x \in Seq(Char)
            /\ \A i \in 1..Len(x) : x[i] # SP

LEMMA WhereSpaces ==
  ASSUME NEW a \in Char, NEW b, a # SP, NEW x, Value(x),
         NEW y, Value(y), NEW line, AreFields(line, a, x, b, y),
         NEW p \in 1..Len(line), line[p] = SP
  PROVE  p = Len(x) + 3 \/ p = Len(x) + 4
<1> DEFINE l == Len(x)
<1>1. /\ Len(line) = l + 5 + Len(y)
      /\ line[1] = a /\ line[2] = EQ
      /\ \A i \in 1..l : line[2 + i] = x[i]
      /\ line[l + 5] = EQ
      /\ \A i \in 1..Len(y) : line[l + 5 + i] = y[i]
  BY DEF AreFields
<1>2. l \in Nat /\ Len(y) \in Nat /\ EQ # SP
  BY DEF EQ, SP, Value
<1>3. /\ \A i \in 1..l : x[i] # SP
      /\ \A i \in 1..Len(y) : y[i] # SP
  BY DEF Value
<1>4. p # 1 /\ p # 2 /\ p # l + 5
  BY <1>1, <1>2
<1>5. CASE p > 2 /\ p <= l + 2
  <2>1. p - 2 \in 1..l /\ 2 + (p - 2) = p
    BY <1>2, <1>5
  <2> QED BY <1>1, <1>3, <2>1
<1>6. CASE p > l + 5
  <2>1. p - (l + 5) \in 1..Len(y) /\ l + 5 + (p - (l + 5)) = p
    BY <1>1, <1>2, <1>6
  <2> QED BY <1>1, <1>3, <2>1
<1> QED BY <1>2, <1>4, <1>5, <1>6

LEMMA FirstField ==
  ASSUME NEW a \in Char, NEW b \in Char, a # SP, NEW n \in Nat,
         NEW x, Value(x), NEW y, Value(y),
         NEW line, AreFields(line, a, x, b, y)
  PROVE  KvGet(line, <<a>>, n) = Cut(x, n)
<1> DEFINE K == Keys(line, <<a>>)
           F(q) == {p \in q..Len(line) : line[p] = SP}
           E == F(3)
           l == Len(x)
<1>1. /\ line \in Seq(Char) /\ Len(line) = l + 5 + Len(y)
      /\ line[1] = a /\ line[2] = EQ
      /\ \A i \in 1..l : line[2 + i] = x[i]
      /\ line[l + 3] = SP
  BY DEF AreFields
<1>2. l \in Nat /\ Len(y) \in Nat /\ x \in Seq(Char)
      /\ Len(<<a>>) = 1
  BY DEF Value
<1>3. 1 \in 1..Len(line) /\ l + 3 \in 3..Len(line) /\ 1 + 1 <= Len(line)
      /\ 1 + 1 = 2
  BY <1>1, <1>2
<1>4. KeyAt(line, <<a>>, 1)
  <2>1. IsKey(line, a, 1)
    BY <1>1, <1>3 DEF IsKey
  <2> QED BY <1>1, <1>3, <2>1, KeyOfOne
<1>5. K \in SUBSET Nat /\ 1 \in K /\ \A p \in K : 1 <= p
  BY <1>3, <1>4 DEF Keys
<1>6. K # {} /\ Min(K) = 1
  <2> HIDE DEF K
  <2> QED BY <1>5, LeastIs
<1>7. ASSUME NEW p \in E PROVE p \in Nat /\ l + 3 <= p
  <2>1. p \in 1..Len(line) /\ line[p] = SP
    BY <1>1, <1>2
  <2>2. p = l + 3 \/ p = l + 4
    BY <2>1, WhereSpaces
  <2> QED BY <1>2, <2>2
<1>8. l + 3 \in E
  BY <1>1, <1>3
<1>9. KvGet(line, <<a>>, n)
        = Cut(SubSeq(line, 1 + 1 + 1, IF F(1 + 1 + 1) = {} THEN Len(line)
                                      ELSE Min(F(1 + 1 + 1)) - 1), n)
  BY <1>2, <1>6 DEF KvGet
<1>10. 1 + 1 + 1 = 3 /\ 3 = 2 + 1
  OBVIOUS
<1> HIDE DEF F
<1>11. E # {} /\ Min(E) = l + 3
  <2> HIDE DEF E
  <2> QED BY <1>7, <1>8, LeastIs
<1>12. KvGet(line, <<a>>, n) = Cut(SubSeq(line, 2 + 1, 2 + l), n)
  <2>1. Min(E) - 1 = 2 + l
    BY <1>2, <1>11
  <2> QED BY <1>9, <1>10, <1>11, <2>1
<1>13. SubSeq(line, 2 + 1, 2 + l) = x
  BY <1>1, <1>2, PartIs
<1> QED BY <1>12, <1>13

LEMMA SecondField ==
  ASSUME NEW a \in Char, NEW b \in Char, a # b, a # SP, NEW n \in Nat,
         NEW x, Value(x), NEW y, Value(y),
         NEW line, AreFields(line, a, x, b, y)
  PROVE  KvGet(line, <<b>>, n) = Cut(y, n)
<1> DEFINE K == Keys(line, <<b>>)
           F(q) == {p \in q..Len(line) : line[p] = SP}
           l == Len(x)
           k == l + 4
<1>1. /\ line \in Seq(Char) /\ Len(line) = l + 5 + Len(y)
      /\ line[1] = a /\ line[l + 3] = SP /\ line[k] = b /\ line[l + 5] = EQ
      /\ \A i \in 1..Len(y) : line[l + 5 + i] = y[i]
  BY DEF AreFields
<1>2. l \in Nat /\ Len(y) \in Nat /\ y \in Seq(Char)
      /\ Len(<<b>>) = 1 /\ EQ # SP
  BY DEF Value, EQ, SP
<1>3. /\ k \in 1..Len(line) /\ k - 1 = l + 3 /\ k + 1 = l + 5 /\ k \in Nat
      /\ k + 1 <= Len(line)
  BY <1>1, <1>2
<1> HIDE DEF k
<1>4. KeyAt(line, <<b>>, k)
  <2>1. IsKey(line, b, k)
    BY <1>1, <1>3 DEF IsKey
  <2> QED BY <1>1, <1>3, <2>1, KeyOfOne
<1>5. ASSUME NEW p \in K PROVE p = k
  <2>1. p \in 1..Len(line) /\ KeyAt(line, <<b>>, p)
    BY DEF Keys
  <2>2. IsKey(line, b, p)
    <3> HIDE DEF K
    <3> QED BY <1>1, <2>1, KeyOfOne
  <2>3. (p = 1 \/ line[p - 1] = SP) /\ line[p] = b /\ line[p + 1] = EQ
    BY <2>2 DEF IsKey
  <2>4. p # 1
    BY <1>1, <2>3
  <2>5. p - 1 \in 1..Len(line) /\ line[p - 1] = SP
    BY <2>1, <2>3, <2>4
  <2>6. p - 1 = l + 3 \/ p - 1 = l + 4
    BY <2>5, WhereSpaces
  <2>7. CASE p - 1 = l + 4
    <3>1. p = l + 5 /\ p - 1 = k
      BY <1>2, <1>3, <2>1, <2>7 DEF k
    <3>2. b = SP /\ b = EQ
      BY <1>1, <2>3, <2>5, <3>1
    <3> QED BY <1>2, <3>2
  <2> QED BY <1>2, <1>3, <2>1, <2>6, <2>7
<1>6. K \in SUBSET Nat /\ k \in K /\ \A p \in K : k <= p
  BY <1>3, <1>4, <1>5 DEF Keys
<1>7. K # {} /\ Min(K) = k
  <2> HIDE DEF K
  <2> QED BY <1>6, LeastIs
<1>8. KvGet(line, <<b>>, n)
        = Cut(SubSeq(line, k + 1 + 1, IF F(k + 1 + 1) = {} THEN Len(line)
                                      ELSE Min(F(k + 1 + 1)) - 1), n)
  BY <1>2, <1>7 DEF KvGet
<1>9. k + 1 + 1 = l + 5 + 1 /\ l + 5 \in Nat
  BY <1>2, <1>3
<1>10. F(l + 5 + 1) = {}
  <2> SUFFICES ASSUME NEW p \in l + 5 + 1..Len(line), line[p] = SP PROVE FALSE
    OBVIOUS
  <2>1. p \in 1..Len(line) /\ p # l + 3 /\ p # l + 4
    BY <1>2
  <2> QED BY <2>1, WhereSpaces
<1> HIDE DEF F
<1>11. KvGet(line, <<b>>, n) = Cut(SubSeq(line, l + 5 + 1, l + 5 + Len(y)), n)
  BY <1>1, <1>8, <1>9, <1>10
<1>12. SubSeq(line, l + 5 + 1, l + 5 + Len(y)) = y
  <2> DEFINE d == l + 5
  <2>1. /\ d \in Nat /\ d + Len(y) <= Len(line)
        /\ \A i \in 1..Len(y) : line[d + i] = y[i]
    <3>1. d = l + 5 /\ Len(line) = l + 5 + Len(y)
      BY <1>1
    <3>2. \A i \in 1..Len(y) : line[l + 5 + i] = y[i]
      BY <1>1
    <3> HIDE DEF d, l
    <3>3. \A i \in 1..Len(y) : line[d + i] = y[i]
      BY <3>1, <3>2
    <3> QED BY <1>2, <3>1, <3>3
  <2>2. line \in Seq(Char) /\ y \in Seq(Char)
    BY <1>1, <1>2
  <2> HIDE DEF d
  <2>3. SubSeq(line, d + 1, d + Len(y)) = y
    BY <2>1, <2>2, PartIs
  <2> QED BY <2>3 DEF d
<1> QED BY <1>11, <1>12

(* Each field of a line is found again: its key by what stands around it,  *)
(* its value by the space behind it or the end of the line.                *)
LEMMA FieldsRead ==
  ASSUME NEW a \in Char, NEW b \in Char, a # b, a # SP, NEW n \in Nat,
         NEW x, Value(x), NEW y, Value(y)
  PROVE  /\ KvGet(Fields(a, x, b, y), <<a>>, n) = Cut(x, n)
         /\ KvGet(Fields(a, x, b, y), <<b>>, n) = Cut(y, n)
<1>1. AreFields(Fields(a, x, b, y), a, x, b, y)
  <2>1. x \in Seq(Char) /\ y \in Seq(Char)
    BY DEF Value
  <2> QED BY <2>1, FieldsAre
<1>2. PICK line : line = Fields(a, x, b, y)
  OBVIOUS
<1>3. AreFields(line, a, x, b, y)
  BY <1>1, <1>2
<1>4. KvGet(line, <<a>>, n) = Cut(x, n)
  BY <1>3, FirstField
<1>5. KvGet(line, <<b>>, n) = Cut(y, n)
  BY <1>3, SecondField
<1> QED BY <1>2, <1>4, <1>5

LEMMA EscapeIs ==
  ASSUME NEW s \in Seq(Char), NEW n \in Nat \ {0}
  PROVE  Value(Escape(s, n))
<1> DEFINE w == Escape(s, n)
<1>1. CASE s = <<>>
  <2>1. w = Cut(<<Dash>>, n)
    BY <1>1 DEF Escape
  <2>2. <<Dash>> \in Seq(Char) /\ Len(<<Dash>>) = 1 /\ <<Dash>>[1] # SP
    BY DEF Dash, Char, SP
  <2>3. PICK d \in Seq(Char) : d = <<Dash>> /\ Len(d) = 1 /\ d[1] # SP
    BY <2>2
  <2>4. /\ Cut(d, n) \in Seq(Char)
        /\ Len(Cut(d, n)) = IF 1 < n THEN 1 ELSE n - 1
        /\ \A i \in 1..Len(Cut(d, n)) : Cut(d, n)[i] = d[i]
    <3>1. /\ Cut(d, n) \in Seq(Char)
          /\ Len(Cut(d, n)) = IF Len(d) < n THEN Len(d) ELSE n - 1
          /\ \A i \in 1..Len(Cut(d, n)) : Cut(d, n)[i] = d[i]
      BY <2>3, CutIs
    <3> QED BY <2>3, <3>1
  <2> HIDE DEF w
  <2>5. w \in Seq(Char) /\ \A i \in 1..Len(w) : i = 1 /\ w[i] = d[i]
    BY <2>1, <2>3, <2>4
  <2> QED BY <2>3, <2>5 DEF Value, w
<1>2. CASE s # <<>>
  <2>1. Spells(w, s, Fits(s, n))
    BY <1>2, EscapeSpells
  <2> HIDE DEF w
  <2>2. w \in Seq(Char \ {SP})
    BY <2>1 DEF Spells
  <2>3. w \in Seq(Char) /\ \A i \in 1..Len(w) : w[i] # SP
    BY <2>2
  <2> QED BY <2>3 DEF Value, w
<1> QED BY <1>1, <1>2

(* A value reaches the reader as far as the reader has room for it, if the  *)
(* writer has room for all of it and the raw buffer for the codes of what   *)
(* the reader keeps.                                                       *)
Reaches(s, n, r, m) == /\ s \in Seq(Char) /\ Width(s, Len(s)) < n
                       /\ Width(s, Len(Cut(s, m))) < r

Kept(s, m) == IF s = <<Dash>> THEN <<>> ELSE Cut(s, m)

LEMMA ReachesReader ==
  ASSUME NEW s, NEW n \in Nat \ {0}, NEW r \in Nat, r > 2, NEW m \in Nat \ {0},
         Reaches(s, n, r, m)
  PROVE  Unescape(Cut(Escape(s, n), r), m) = Kept(s, m)
<1> DEFINE raw == Cut(Escape(s, n), r)
           k == Fits(s, Smaller(n, r))
           u == SubSeq(s, 1, k)
           x == SubSeq(raw, Width(s, k) + 1, Len(raw))
           t == u \o x
           c == Len(Cut(s, m))
<1>1. /\ s \in Seq(Char) /\ r \in Nat \ {0}
      /\ Width(s, Len(s)) < n /\ Width(s, c) < r
  BY DEF Reaches
<1>2. Unescape(raw, m) = IF t = <<Dash>> THEN <<>> ELSE Cut(t, m)
  BY <1>1, EscapeRoundTrip
<1>a. raw = Cut(Escape(s, n), r) /\ k = Fits(s, Smaller(n, r))
  OBVIOUS
<1> HIDE DEF raw, k
<1>3. CASE s = <<>>
  <2>1. Unescape(raw, m) = <<>> /\ Cut(<<>>, m) = <<>>
    BY <1>a, <1>1, <1>3, EmptyComesThrough
  <2>2. <<>> # <<Dash>>
    OBVIOUS
  <2> QED BY <1>a, <1>3, <2>1, <2>2 DEF Kept
<1>4. CASE s # <<>>
  <2>1. /\ k \in 0..Len(s) /\ raw \in Seq(Char) /\ Width(s, k) <= Len(raw)
        /\ Len(raw) <= Width(s, Len(s))
        /\ Len(raw) < r - 1 => Len(raw) = Width(s, Fits(s, n))
    <3>1. Through(s, n, r, raw, k)
      BY <1>a, <1>1, <1>4, ComesThrough
    <3> QED BY <3>1 DEF Through, Begins
  <2>2. /\ Cut(s, m) \in Seq(Char) /\ Len(s) \in Nat
        /\ c = IF Len(s) < m THEN Len(s) ELSE m - 1
        /\ \A i \in 1..c : Cut(s, m)[i] = s[i]
    BY <1>1, CutIs
  <2> HIDE DEF c
  <2>3. c \in 0..Len(s) /\ Len(s) \in 0..Len(s) /\ Len(s) # 0
    <3>1. Len(s) # 0
      BY <1>1, <1>4, EmptySeq
    <3> QED BY <2>2, <3>1
  <2>4. \A j \in 0..Len(s) : Width(s, j) \in Nat /\ Width(s, j) >= j
    BY <1>1, WidthIs
  <2>5. Fits(s, n) = Len(s)
    <3>1. Fits(s, n) \in 0..Len(s) /\ Len(s) <= Fits(s, n)
      BY <1>1, <2>3, FitsIs
    <3> QED BY <2>2, <3>1
  <2>6. c <= k
    <3>1. Width(s, c) <= Width(s, Len(s))
      <4>1. c \in 0..Len(s)
        BY <2>3
      <4> QED BY <1>1, <2>3, <4>1, WidthGrows
    <3>2. Width(s, c) < n
      BY <1>1, <2>3, <2>4, <3>1
    <3>3. Width(s, c) < Smaller(n, r) /\ Smaller(n, r) \in Nat \ {0}
      BY <1>1, <3>2 DEF Smaller
    <3> QED BY <1>a, <1>1, <2>3, <3>3, FitsIs
  <2>7. /\ x \in Seq(Char) /\ Len(x) = Len(raw) - Width(s, k) /\ Len(x) \in Nat
    <3> DEFINE d == Width(s, k)
               l == Len(raw)
    <3>1. d \in Nat /\ l \in Nat /\ d <= l /\ \A i \in d + 1..l : raw[i] \in Char
      BY <2>1, <2>4
    <3> HIDE DEF d, l
    <3>2. SubSeq(raw, d + 1, l) \in Seq(Char)
      BY <3>1, SubSeqProperties
    <3>3. Len(SubSeq(raw, d + 1, l)) = IF d + 1 <= l THEN l - (d + 1) + 1 ELSE 0
      BY <3>1, SubSeqProperties
    <3>4. Len(SubSeq(raw, d + 1, l)) = l - d
      BY <3>1, <3>3
    <3> QED BY <3>1, <3>2, <3>4 DEF d, l
  <2>8. u \in Seq(Char) /\ Len(u) = k /\ \A i \in 1..k : u[i] = s[i]
    BY <1>1, <2>1, FirstOf
  <2> HIDE DEF x, u
  <2>9. /\ t \in Seq(Char) /\ Len(t) = k + Len(x)
        /\ \A i \in 1..k : t[i] = s[i]
    <3>1. /\ u \o x \in Seq(Char) /\ Len(u \o x) = Len(u) + Len(x)
          /\ \A i \in 1..Len(u) : (u \o x)[i] = u[i]
      BY <2>7, <2>8, Joined
    <3> HIDE DEF t
    <3> QED BY <2>8, <3>1 DEF t
  <2> HIDE DEF t
  <2>10. k = Len(s) => Len(x) = 0
    BY <2>1, <2>4, <2>7
  <2>11. Cut(t, m) = Cut(s, m)
    <3>1. /\ Cut(t, m) \in Seq(Char)
          /\ Len(Cut(t, m)) = IF Len(t) < m THEN Len(t) ELSE m - 1
          /\ \A i \in 1..Len(Cut(t, m)) : Cut(t, m)[i] = t[i]
      BY <2>9, CutIs
    <3>2. Len(Cut(t, m)) = c
      BY <2>1, <2>2, <2>6, <2>7, <2>9, <2>10, <3>1, SMTT(20)
    <3>3. \A i \in 1..c : Cut(t, m)[i] = Cut(s, m)[i]
      <4>1. \A i \in 1..c : i \in 1..k
        BY <2>1, <2>3, <2>6
      <4> QED BY <2>2, <2>9, <3>1, <3>2, <4>1
    <3> QED BY <2>2, <3>1, <3>2, <3>3, SeqEqual DEF c
  <2>12. ASSUME t = <<Dash>>, s # <<Dash>> PROVE Cut(s, m) = <<>>
    <3>1. k + Len(x) = 1 /\ t[1] = Dash
      BY <2>9, <2>12
    <3>2. CASE k = 0
      <4>1. c = 0
        BY <2>3, <2>6, <3>2
      <4> QED BY <2>2, <4>1, EmptySeq DEF c
    <3>3. CASE k # 0
      <4>1. k = 1 /\ Len(x) = 0 /\ Len(raw) = Width(s, 1)
        <5>1. k \in Nat /\ Len(x) \in Nat
          BY <2>1, <2>7
        <5>2. k = 1 /\ Len(x) = 0
          BY <3>1, <3>3, <5>1
        <5>3. Len(raw) = Width(s, k)
          <6> DEFINE w == Width(s, k)
                     l == Len(raw)
          <6>1. w \in Nat /\ l \in Nat /\ 0 = l - w
            BY <2>1, <2>4, <2>7, <5>2
          <6> HIDE DEF w, l
          <6>2. l = w
            BY <6>1
          <6> QED BY <6>2 DEF w, l
        <5> QED BY <5>2, <5>3
      <4>2. s[1] = Dash /\ 1 \in 1..Len(s)
        BY <2>1, <2>9, <3>1, <4>1
      <4>3. Plain(Dash) /\ Code(Dash) = 1
        BY DEF Plain, Dash, Code
      <4>4. Width(s, 1) = Width(s, 1 - 1) + Code(s[1]) /\ Width(s, 0) = 0
        BY <1>1, <4>2, WidthStep, WidthIs
      <4>5. Len(raw) = 1
        BY <4>1, <4>2, <4>3, <4>4
      <4>6. Len(raw) = Width(s, Len(s))
        BY <1>1, <2>1, <2>5, <4>5
      <4>7. Len(s) = 1
        BY <2>2, <2>3, <2>4, <4>5, <4>6
      <4>8. s = <<Dash>>
        BY <1>1, <4>2, <4>7
      <4> QED BY <2>12, <4>8
    <3> QED BY <3>2, <3>3
  <2>13. ASSUME s = <<Dash>> PROVE t = <<Dash>>
    <3>1. Len(s) = 1 /\ s[1] = Dash /\ Plain(Dash)
      BY <2>13 DEF Plain, Dash
    <3>2. Width(s, 1) = 1
      <4>1. Width(s, 1) = Width(s, 1 - 1) + Code(s[1]) /\ Width(s, 0) = 0
        <5>1. 1 \in 1..Len(s)
          BY <3>1
        <5> QED BY <1>1, <5>1, WidthStep, WidthIs
      <4> QED BY <3>1, <4>1 DEF Code
    <3>3. k = 1
      <4>1. 1 \in 0..Len(s) /\ Smaller(n, r) \in Nat \ {0} /\ Width(s, 1) < Smaller(n, r)
        BY <1>1, <3>1, <3>2 DEF Smaller
      <4>2. 1 <= k
        BY <1>a, <1>1, <4>1, FitsIs
      <4> QED BY <2>1, <3>1, <4>2
    <3>4. Len(t) = 1 /\ t[1] = Dash
      BY <2>9, <2>10, <3>1, <3>3
    <3>5. t \in Seq(Char)
      BY <2>9
    <3> HIDE DEF t
    <3> QED BY <3>4, <3>5
  <2> QED BY <1>a, <1>2, <2>11, <2>12, <2>13 DEF Kept
<1> QED BY <1>3, <1>4

(* In any case it reads characters.                                         *)
LEMMA ReadsChars ==
  ASSUME NEW s \in Seq(Char),
         NEW n \in Nat \ {0}, NEW r \in Nat \ {0}, NEW m \in Nat \ {0}
  PROVE  Unescape(Cut(Escape(s, n), r), m) \in Seq(Char)
<1> DEFINE raw == Cut(Escape(s, n), r)
           k == Fits(s, Smaller(n, r))
           u == SubSeq(s, 1, k)
           x == SubSeq(raw, Width(s, k) + 1, Len(raw))
           t == u \o x
<1>1. Unescape(raw, m) = IF t = <<Dash>> THEN <<>> ELSE Cut(t, m)
  BY EscapeRoundTrip
<1>2. CASE s = <<>>
  <2>1. Unescape(raw, m) = <<>>
    BY <1>2, EmptyComesThrough
  <2> QED BY <2>1
<1>3. CASE s # <<>>
  <2>1. Through(s, n, r, raw, k)
    BY <1>3, ComesThrough
  <2> HIDE DEF raw, k
  <2>2. k \in 0..Len(s) /\ raw \in Seq(Char) /\ Width(s, k) <= Len(raw)
    BY <2>1 DEF Through, Begins
  <2>3. u \in Seq(Char)
    BY <2>2, FirstOf
  <2>4. x \in Seq(Char)
    <3> DEFINE d == Width(s, k)
               l == Len(raw)
    <3>1. d \in Nat
      BY <2>2, WidthIs
    <3>2. l \in Nat /\ d <= l /\ \A i \in 1..l : raw[i] \in Char
      BY <2>2
    <3> HIDE DEF d, l
    <3>3. \A i \in d + 1..l : raw[i] \in Char
      BY <3>1, <3>2
    <3>4. SubSeq(raw, d + 1, l) \in Seq(Char)
      BY <3>1, <3>2, <3>3, SubSeqProperties
    <3> QED BY <3>4 DEF d, l
  <2> HIDE DEF u, x
  <2>5. t \in Seq(Char)
    BY <2>3, <2>4, Joined
  <2> HIDE DEF t
  <2>6. Cut(t, m) \in Seq(Char) /\ <<>> \in Seq(Char)
    BY <2>5, CutIs
  <2>7. Unescape(raw, m) = <<>> \/ Unescape(raw, m) = Cut(t, m)
    BY <1>1
  <2> QED BY <2>6, <2>7 DEF raw
<1> QED BY <1>2, <1>3

(* So each of two fields is read as it was written.                        *)
Returns(line, key, s, n, r, m) ==
  /\ Take(line, key, r, m) \in Seq(Char)
  /\ Reaches(s, n, r, m) => Take(line, key, r, m) = Kept(s, m)

LEMMA FieldsTaken ==
  ASSUME NEW a \in Char, NEW b \in Char, a # b, a # SP,
         NEW r \in Nat, r > 2, NEW m \in Nat \ {0},
         NEW s \in Seq(Char), NEW n \in Nat \ {0},
         NEW v \in Seq(Char), NEW p \in Nat \ {0}
  PROVE  /\ Returns(Fields(a, Escape(s, n), b, Escape(v, p)), <<a>>, s, n, r, m)
         /\ Returns(Fields(a, Escape(s, n), b, Escape(v, p)), <<b>>, v, p, r, m)
<1> DEFINE x == Escape(s, n)
           y == Escape(v, p)
<1>1. Value(x) /\ Value(y)
  BY EscapeIs
<1>2. /\ Reaches(s, n, r, m) => Unescape(Cut(x, r), m) = Kept(s, m)
      /\ Reaches(v, p, r, m) => Unescape(Cut(y, r), m) = Kept(v, m)
  BY ReachesReader
<1>3. Unescape(Cut(x, r), m) \in Seq(Char) /\ Unescape(Cut(y, r), m) \in Seq(Char)
  BY ReadsChars
<1> HIDE DEF x, y
<1>4. /\ KvGet(Fields(a, x, b, y), <<a>>, r) = Cut(x, r)
      /\ KvGet(Fields(a, x, b, y), <<b>>, r) = Cut(y, r)
  BY <1>1, FieldsRead
<1> QED BY <1>2, <1>3, <1>4 DEF Returns, Take, x, y

(* What a daemon writes into the fields of a line is what the other reads  *)
(* from them (wire.c:196, classify.c:70), whatever characters it contains   *)
(* and whatever sizes the buffers have: spaces, "=" and "%" do not end a    *)
(* value or begin another key, and what the reader has no room for is cut.  *)
(* A value of which more is cut does not spoil the other.                  *)
THEOREM FieldsRoundTrip ==
  ASSUME NEW a \in Char, NEW b \in Char, a # b, a # SP,
         NEW r \in Nat, r > 2,
         NEW s \in Seq(Char), NEW n \in Nat \ {0}, NEW m \in Nat \ {0},
         NEW v \in Seq(Char), NEW p \in Nat \ {0}, NEW q \in Nat \ {0}
  PROVE  LET line == Fields(a, Escape(s, n), b, Escape(v, p))
         IN /\ Take(line, <<a>>, r, m) \in Seq(Char)
            /\ Take(line, <<b>>, r, q) \in Seq(Char)
            /\ Reaches(s, n, r, m) => Take(line, <<a>>, r, m) = Kept(s, m)
            /\ Reaches(v, p, r, q) => Take(line, <<b>>, r, q) = Kept(v, q)
<1> DEFINE line == Fields(a, Escape(s, n), b, Escape(v, p))
<1>1. Returns(line, <<a>>, s, n, r, m)
  BY FieldsTaken
<1>2. Returns(line, <<b>>, v, p, r, q)
  BY FieldsTaken
<1> HIDE DEF line
<1>3. /\ Take(line, <<a>>, r, m) \in Seq(Char)
      /\ Reaches(s, n, r, m) => Take(line, <<a>>, r, m) = Kept(s, m)
  BY <1>1 DEF Returns
<1>4. /\ Take(line, <<b>>, r, q) \in Seq(Char)
      /\ Reaches(v, p, r, q) => Take(line, <<b>>, r, q) = Kept(v, q)
  BY <1>2 DEF Returns
<1> QED BY <1>3, <1>4 DEF line
===============================================================================
