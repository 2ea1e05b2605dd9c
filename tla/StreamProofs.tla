----------------------------- MODULE StreamProofs -----------------------------
(***************************************************************************)
(* Proofs about Stream, for any number of phones and connections, frames   *)
(* of any length and sockets of any size.                                  *)
(*                                                                         *)
(* ReaderInSync compares neighbours in what the cluster has received.  It  *)
(* becomes inductive with InSync, which says where in a frame any piece    *)
(* behind another one stands, and with Writer, which ties the last piece   *)
(* to the frame the daemon is sending.                                     *)
(***************************************************************************)
EXTENDS Stream, SequenceFacts

-----------------------------------------------------------------------------
(* Sequences of pieces. *)
Starts(s) == s # <<>> => s[1].part = 1

Sound(s) == \A i \in 1..Len(s) : s[i].part <= s[i].len /\ Header < s[i].len

(* A piece that has a frame's piece before it, near enough to belong to    *)
(* the same frame, does.                                                   *)
Runs(s) == \A i, j \in 1..Len(s) :
             i <= j /\ s[i].part + (j - i) <= s[i].len
               => /\ s[j].src = s[i].src /\ s[j].bit = s[i].bit
                  /\ s[j].len = s[i].len
                  /\ s[j].part = s[i].part + (j - i)

(* Behind the last piece of a frame comes the first one of the next. *)
Turns(s) == \A i \in 1..Len(s) - 1 :
              s[i].part = s[i].len => s[i + 1].part = 1 /\ s[i + 1].bit # s[i].bit

InSync(s) == Starts(s) /\ Sound(s) /\ Runs(s) /\ Turns(s)

(* Consecutive pieces of one frame, *)
Block(c) == /\ c # <<>>
            /\ Header < c[1].len /\ c[1].part + (Len(c) - 1) <= c[1].len
            /\ \A i \in 1..Len(c) : /\ c[i].src = c[1].src
                                    /\ c[i].bit = c[1].bit
                                    /\ c[i].len = c[1].len
                                    /\ c[i].part = c[1].part + (i - 1)

(* that begin a frame behind a complete one or go on with the last one.    *)
Fits(s, c) ==
  IF c[1].part = 1
  THEN s # <<>> => /\ s[Len(s)].part = s[Len(s)].len
                   /\ s[Len(s)].bit # c[1].bit
  ELSE /\ s # <<>>
       /\ s[Len(s)].src = c[1].src /\ s[Len(s)].bit = c[1].bit
       /\ s[Len(s)].len = c[1].len /\ s[Len(s)].part + 1 = c[1].part

(* The assumptions on the constants, as numbers. *)
LEMMA Constants ==
  /\ Consumers \in SUBSET Nat /\ None \notin Consumers /\ None \notin Sources
  /\ Header \in Nat \ {0} /\ FrameLen \in Nat \ {0} /\ PipeLen \in Nat \ {0}
  /\ \A src \in Sources : /\ MediaLen[src] \in 1..FrameLen
                          /\ Header < MediaLen[src]
  /\ Header < FrameLen
<1>1. Cardinality(Consumers) \in Nat
  BY StreamAssumption, FS_CardinalityType
<1> QED
  BY <1>1, StreamAssumption

LEMMA PieceType ==
  ASSUME NEW p \in Pieces
  PROVE  /\ p.src \in Sources /\ p.bit \in {0, 1}
         /\ p.len \in 1..FrameLen /\ p.part \in 1..FrameLen
         /\ p.len \in Nat \ {0} /\ p.part \in Nat \ {0}
<1>1. /\ p.src \in Sources /\ p.bit \in {0, 1}
      /\ p.len \in 1..FrameLen /\ p.part \in 1..FrameLen
  BY DEF Pieces
<1> QED
  BY <1>1, Constants

(* What the daemon appends keeps the order, if it fits. *)
LEMMA AppendBlock ==
  ASSUME NEW s \in Seq(Pieces), InSync(s),
         NEW c \in Seq(Pieces), Block(c), Fits(s, c)
  PROVE  /\ InSync(s \o c)
         /\ s \o c \in Seq(Pieces) /\ s \o c # <<>>
         /\ (s \o c)[Len(s \o c)] = c[Len(c)]
<1>a. Len(c) \in Nat \ {0} /\ c[1] \in Pieces
  <2>1. Len(c) \in Nat \ {0}
    BY EmptySeq DEF Block
  <2> QED
    BY <2>1, ElementOfSeq
<1>b. PICK src \in Sources, bit \in {0, 1}, len \in 1..FrameLen, off \in Nat,
           n \in Nat \ {0} :
        /\ c[1].src = src /\ c[1].bit = bit /\ c[1].len = len
        /\ c[1].part = off + 1 /\ Len(c) = n
  <2>1. c[1].part - 1 \in Nat /\ c[1].part = (c[1].part - 1) + 1
    BY <1>a, PieceType
  <2> QED
    BY <2>1, <1>a, PieceType
<1>c. off + n <= len /\ Header < len
  <2>1. (off + 1) + (n - 1) <= len /\ Header < len
    BY <1>b DEF Block
  <2> QED
    BY <2>1
<1>d. /\ off = 0 => (s # <<>> => /\ s[Len(s)].part = s[Len(s)].len
                                 /\ s[Len(s)].bit # bit)
      /\ off # 0 => /\ s # <<>>
                    /\ s[Len(s)].src = src /\ s[Len(s)].bit = bit
                    /\ s[Len(s)].len = len /\ s[Len(s)].part + 1 = off + 1
  BY <1>b DEF Fits
<1>3. \A i \in 1..n : /\ c[i].src = src /\ c[i].bit = bit /\ c[i].len = len
                      /\ c[i].part = off + i
  <2>1. \A i \in 1..n : off + i = (off + 1) + (i - 1)
    OBVIOUS
  <2> QED
    BY <2>1, <1>b DEF Block
<1> DEFINE t == s \o c
           L == Len(s)
<1>2. /\ t \in Seq(Pieces)
      /\ L \in Nat /\ Len(t) = L + n
      /\ \A i \in 1..L + n : t[i] = IF i <= L THEN s[i] ELSE c[i - L]
  <2>1. s \in Seq(Pieces) /\ c \in Seq(Pieces) /\ Len(c) = n
    BY <1>b DEF Block
  <2>2. L \in Nat /\ n \in Nat
    BY <2>1, LenProperties
  <2>3. /\ t \in Seq(Pieces) /\ Len(t) = L + n
        /\ \A i \in 1..L + n : t[i] = IF i <= L THEN s[i] ELSE c[i - L]
    BY <2>1, ConcatProperties
  <2> QED
    BY <2>2, <2>3
<1>4. \A i \in 1..L : /\ s[i] \in Pieces /\ s[i].part \in Nat
                      /\ s[i].len \in Nat
  <2>1. \A i \in 1..L : s[i] \in Pieces
    BY ElementOfSeq
  <2> QED
    BY <2>1, PieceType
<1>5. s = <<>> <=> L = 0
  BY EmptySeq
<1>6. t[L + n] = c[n]
  BY <1>2
<1>n. /\ L \in Nat /\ n \in Nat /\ len \in Nat /\ off \in Nat /\ Header \in Nat
      /\ Len(t) = L + n /\ off + n <= len /\ Header < len
  BY <1>2, <1>c, Constants
<1>e. t # <<>>
  BY <1>2, <1>n, EmptySeq
<1> HIDE DEF t, L
<1>7. Starts(t)
  <2>1. CASE L = 0
    <3>1. off = 0
      BY <2>1, <1>5, <1>d
    <3>2. 1 \in 1..L + n /\ ~(1 <= L) /\ 1 - L = 1
      BY <2>1, <1>n
    <3>3. t[1] = c[1]
      BY <3>2, <1>2
    <3> QED
      BY <3>1, <3>3, <1>b DEF Starts
  <2>2. CASE L > 0
    BY <2>2, <1>2, <1>n, <1>5 DEF Starts, InSync
  <2> QED
    BY <2>1, <2>2, <1>2, <1>n
<1>8. Sound(t)
  <2> SUFFICES ASSUME NEW i \in 1..L + n
               PROVE  t[i].part <= t[i].len /\ Header < t[i].len
    BY <1>2, <1>n DEF Sound
  <2>1. CASE i <= L
    BY <2>1, <1>2, <1>n DEF Sound, InSync, L
  <2>2. CASE i > L
    <3>1. i - L \in 1..n /\ t[i] = c[i - L]
      BY <2>2, <1>2, <1>n
    <3>2. t[i].part = off + (i - L) /\ t[i].len = len
      BY <3>1, <1>3
    <3>3. off + (i - L) <= len
      BY <3>1, <1>n
    <3> QED
      BY <3>2, <3>3, <1>n
  <2> QED
    BY <2>1, <2>2, <1>2, <1>n
<1>9. Runs(t)
  <2> SUFFICES ASSUME NEW i \in 1..L + n, NEW j \in 1..L + n, i <= j,
                      t[i].part + (j - i) <= t[i].len
               PROVE  /\ t[j].src = t[i].src /\ t[j].bit = t[i].bit
                      /\ t[j].len = t[i].len
                      /\ t[j].part = t[i].part + (j - i)
    BY <1>2, <1>n DEF Runs
  <2>1. CASE j <= L
    <3>1. i \in 1..L /\ j \in 1..L /\ t[i] = s[i] /\ t[j] = s[j]
      BY <2>1, <1>2, <1>n
    <3>2. \A k, m \in 1..L : k <= m /\ s[k].part + (m - k) <= s[k].len =>
            /\ s[m].src = s[k].src /\ s[m].bit = s[k].bit
            /\ s[m].len = s[k].len /\ s[m].part = s[k].part + (m - k)
      BY DEF InSync, Runs, L
    <3> QED
      BY <3>1, <3>2
  <2>2. CASE i > L
    <3>1. i - L \in 1..n /\ j - L \in 1..n
      BY <2>2, <1>2, <1>n, SMTT(30)
    <3>2. t[i] = c[i - L] /\ t[j] = c[j - L]
      BY <2>2, <1>2, <1>n
    <3>3. /\ t[i].part = off + (i - L)
          /\ t[j].part = off + (j - L)
      BY <3>1, <3>2, <1>3
    <3>4. off + (j - L) = (off + (i - L)) + (j - i)
      BY <1>n
    <3> QED
      BY <3>1, <3>2, <3>3, <3>4, <1>3
  <2>3. CASE i <= L /\ j > L
    <3>1. i \in 1..L /\ L \in 1..L /\ j - L \in 1..n
      BY <2>3, <1>2, <1>n
    <3>2. t[i] = s[i] /\ t[j] = c[j - L]
      BY <2>3, <1>2, <1>n
    <3>3. s[i].part + (L - i) <= s[i].len
      <4>1. s[i].part + (j - i) <= s[i].len
        BY <3>2
      <4>2. s[i].part \in Int /\ s[i].len \in Int
        BY <3>1, <1>4
      <4>3. i \in Int /\ j \in Int /\ L \in Int /\ L <= j
        BY <2>3, <1>n
      <4>4. \A x, y, a, b, z \in Int :
              x + (b - a) <= y /\ z <= b => x + (z - a) <= y
        OBVIOUS
      <4> QED
        BY <4>1, <4>2, <4>3, <4>4
    <3>4. /\ s[L].src = s[i].src /\ s[L].bit = s[i].bit
          /\ s[L].len = s[i].len
          /\ s[L].part = s[i].part + (L - i)
      BY <3>1, <3>3 DEF InSync, Runs, L
    <3>5. off # 0
      BY <3>1, <3>2, <3>4, <1>4, <1>5, <1>d, <2>3, SMTT(30) DEF L
    <3>6. /\ s[L].src = src /\ s[L].bit = bit
          /\ s[L].len = len /\ s[L].part = off
      <4>1. s[L].part \in Nat
        BY <3>1, <1>4
      <4>2. s[L].part + 1 = off + 1
        BY <3>5, <1>d DEF L
      <4>3. s[L].part = off
        BY <4>1, <4>2, SMTT(30)
      <4> QED
        BY <4>3, <3>5, <1>d DEF L
    <3>7. t[j].part = off + (j - L)
      BY <3>1, <3>2, <1>3
    <3>8. off + (j - L) = s[i].part + (j - i)
      <4>1. PICK x \in Nat : x = s[i].part
        BY <3>1, <1>4
      <4>2. off = x + (L - i)
        BY <4>1, <3>4, <3>6
      <4>3. off + (j - L) = x + (j - i)
        BY <4>2, <1>n
      <4> QED
        BY <4>1, <4>3
    <3> QED
      BY <3>1, <3>2, <3>4, <3>6, <3>7, <3>8, <1>3
  <2> QED
    BY <2>1, <2>2, <2>3, <1>2, <1>n
<1>10. Turns(t)
  <2> SUFFICES ASSUME NEW i \in 1..Len(t) - 1, t[i].part = t[i].len
               PROVE  t[i + 1].part = 1 /\ t[i + 1].bit # t[i].bit
    BY DEF Turns
  <2>1. CASE i < L
    <3>1. i \in 1..L - 1 /\ t[i] = s[i] /\ t[i + 1] = s[i + 1]
      <4>1. /\ i \in 1..L - 1 /\ i \in 1..L + n /\ i + 1 \in 1..L + n
            /\ i <= L /\ i + 1 <= L
        BY <2>1, <1>n
      <4> QED
        BY <4>1, <1>2
    <3> QED
      BY <3>1 DEF InSync, Turns, L
  <2>2. CASE i = L
    <3>1. i \in 1..L /\ t[i] = s[L] /\ t[i + 1] = c[1] /\ L > 0
      <4>1. /\ L \in 1..L /\ L \in 1..L + n /\ L > 0 /\ L <= L
            /\ L + 1 \in 1..L + n /\ ~(L + 1 <= L) /\ (L + 1) - L = 1
        BY <2>2, <1>n
      <4>2. t[L] = s[L]
        BY <4>1, <1>2
      <4>3. t[L + 1] = c[1]
        BY <4>1, <1>2
      <4> QED
        BY <4>1, <4>2, <4>3, <2>2
    <3>2. off = 0
      BY <3>1, <1>4, <1>n, <1>d DEF L
    <3> QED
      BY <3>1, <3>2, <1>3, <1>5, <1>d DEF L
  <2>3. CASE i > L
    <3>1. i - L \in 1..n /\ i - L < n /\ t[i] = c[i - L]
      BY <2>3, <1>2, <1>n
    <3>2. t[i].part = off + (i - L) /\ t[i].len = len
      BY <3>1, <1>3
    <3> QED
      BY <3>1, <3>2, <1>n
  <2> QED
    BY <2>1, <2>2, <2>3, <1>2, <1>n
<1> QED
  BY <1>2, <1>n, <1>6, <1>7, <1>8, <1>9, <1>10, <1>b, <1>e DEF InSync, t, L

(* A frame taken from the front leaves pieces in order, and the same last  *)
(* piece if any is left.                                                   *)
LEMMA DropFrame ==
  ASSUME NEW s \in Seq(Pieces), InSync(s), s # <<>>, s[1].len <= Len(s)
  PROVE  LET t == SubSeq(s, s[1].len + 1, Len(s))
         IN /\ t \in Seq(Pieces)
            /\ InSync(t)
            /\ t # <<>> => t[Len(t)] = s[Len(s)]
            /\ t = <<>> => s[Len(s)].part = s[Len(s)].len
<1> DEFINE m == s[1].len
           t == SubSeq(s, m + 1, Len(s))
           L == Len(s)
<1>1. /\ L \in Nat \ {0}
      /\ \A i \in 1..L : /\ s[i] \in Pieces /\ s[i].part \in Nat
                         /\ s[i].len \in Nat \ {0}
  <2>1. L \in Nat \ {0}
    BY EmptySeq, LenProperties
  <2>2. \A i \in 1..L : s[i] \in Pieces
    BY ElementOfSeq
  <2> QED
    BY <2>1, <2>2, PieceType
<1>2. m \in 1..L
  BY <1>1
<1>3. /\ t \in Seq(Pieces)
      /\ Len(t) = L - m
      /\ \A i \in 1..L - m : t[i] = s[m + i]
  <2>1. \A i \in m + 1..L : s[i] \in Pieces
    BY <1>1, <1>2
  <2>2. m + 1 \in Int /\ L \in Int
    BY <1>1, <1>2
  <2>3. /\ t \in Seq(Pieces)
        /\ Len(t) = IF m + 1 <= L THEN L - (m + 1) + 1 ELSE 0
        /\ \A i \in 1..L - (m + 1) + 1 : t[i] = s[m + 1 + i - 1]
    BY <2>1, <2>2, SubSeqProperties
  <2> QED
    BY <2>3, <1>1, <1>2
<1>4. /\ s[m].part = m /\ s[m].len = m
  <2>1. s[1].part = 1 /\ 1 \in 1..L
    BY <1>1 DEF InSync, Starts
  <2>2. s[1].part + (m - 1) <= s[1].len
    BY <2>1, <1>1, <1>2
  <2> QED
    BY <2>1, <2>2, <1>2 DEF InSync, Runs
<1> HIDE DEF t, m, L
<1>5. Starts(t)
  <2> SUFFICES ASSUME t # <<>> PROVE t[1].part = 1
    BY DEF Starts
  <2>1. Len(t) \in Nat \ {0}
    BY <1>3, EmptySeq
  <2>2. m \in 1..L - 1 /\ t[1] = s[m + 1]
    BY <2>1, <1>1, <1>2, <1>3
  <2> QED
    BY <2>2, <1>4 DEF InSync, Turns, L
<1>6. Sound(t)
  <2> SUFFICES ASSUME NEW i \in 1..L - m
               PROVE  t[i].part <= t[i].len /\ Header < t[i].len
    BY <1>3 DEF Sound
  <2>1. m + i \in 1..L /\ t[i] = s[m + i]
    BY <1>1, <1>2, <1>3
  <2> QED
    BY <2>1 DEF InSync, Sound, L
<1>7. Runs(t)
  <2> SUFFICES ASSUME NEW i \in 1..L - m, NEW j \in 1..L - m, i <= j,
                      t[i].part + (j - i) <= t[i].len
               PROVE  /\ t[j].src = t[i].src /\ t[j].bit = t[i].bit
                      /\ t[j].len = t[i].len
                      /\ t[j].part = t[i].part + (j - i)
    BY <1>3 DEF Runs
  <2>1. /\ m + i \in 1..L /\ t[i] = s[m + i]
        /\ m + j \in 1..L /\ t[j] = s[m + j]
        /\ (m + j) - (m + i) = j - i /\ m + i <= m + j
    BY <1>1, <1>2, <1>3
  <2>2. s[m + i].part + ((m + j) - (m + i)) <= s[m + i].len
    BY <2>1
  <2>3. /\ s[m + j].src = s[m + i].src /\ s[m + j].bit = s[m + i].bit
        /\ s[m + j].len = s[m + i].len
        /\ s[m + j].part = s[m + i].part + ((m + j) - (m + i))
    BY <2>1, <2>2 DEF InSync, Runs, L
  <2> QED
    BY <2>1, <2>3
<1>8. Turns(t)
  <2> SUFFICES ASSUME NEW i \in 1..L - m - 1, t[i].part = t[i].len
               PROVE  t[i + 1].part = 1 /\ t[i + 1].bit # t[i].bit
    BY <1>3 DEF Turns
  <2>1. /\ m + i \in 1..L - 1 /\ t[i] = s[m + i]
        /\ t[i + 1] = s[(m + i) + 1]
    BY <1>1, <1>2, <1>3
  <2> QED
    BY <2>1 DEF InSync, Turns, L
<1>9. t # <<>> => t[Len(t)] = s[L]
  <2> SUFFICES ASSUME t # <<>> PROVE t[Len(t)] = s[L]
    OBVIOUS
  <2>1. Len(t) \in Nat \ {0}
    BY <1>3, EmptySeq
  <2> QED
    BY <2>1, <1>1, <1>2, <1>3
<1>10. t = <<>> => s[L].part = s[L].len
  <2> SUFFICES ASSUME t = <<>> PROVE s[L].part = s[L].len
    OBVIOUS
  <2>1. Len(t) = 0
    BY EmptySeq
  <2>2. L = m
    BY <2>1, <1>1, <1>2, <1>3
  <2> QED
    BY <2>2, <1>4
<1> QED
  BY <1>3, <1>5, <1>6, <1>7, <1>8, <1>9, <1>10 DEF InSync, t, m, L

LEMMA Associative ==
  \A x, y, z \in Seq(Pieces) : x \o (y \o z) = (x \o y) \o z
<1>1. PICK T : T = Pieces
  OBVIOUS
<1>2. \A x, y, z \in Seq(T) : x \o (y \o z) = (x \o y) \o z
  BY ConcatAssociative, SMTT(30)
<1> QED
  BY <1>1, <1>2

(* At the front of pieces in order stands a frame's header. *)
LEMMA FrontIsHeader ==
  ASSUME NEW a \in Seq(Pieces), NEW q \in Seq(Pieces), InSync(a \o q),
         Header <= Len(a)
  PROVE  IsHeader(a) /\ a[1].len \in Nat \ {0}
<1> DEFINE w == a \o q
<1>1. Len(a) \in Nat \ {0} /\ Len(q) \in Nat /\ Header \in Nat \ {0}
  BY LenProperties, Constants
<1>2. /\ w \in Seq(Pieces) /\ Len(w) = Len(a) + Len(q)
      /\ \A i \in 1..Len(a) : w[i] = a[i]
  BY <1>1, ConcatProperties
<1>3. w # <<>> /\ 1 \in 1..Len(a) /\ 1 \in 1..Len(w)
  BY <1>1, <1>2, EmptySeq
<1>4. a[1] \in Pieces /\ a[1].len \in Nat \ {0}
  BY <1>3, ElementOfSeq, PieceType
<1>5. a[1].part = 1 /\ Header < a[1].len
  BY <1>2, <1>3 DEF InSync, Starts, Sound
<1>6. \A k \in 1..Header : a[k] = [a[1] EXCEPT !.part = k]
  <2> SUFFICES ASSUME NEW k \in 1..Header
               PROVE  a[k] = [a[1] EXCEPT !.part = k]
    OBVIOUS
  <2>1. k \in 1..Len(a) /\ k \in 1..Len(w) /\ 1 <= k
    BY <1>1, <1>2
  <2>2. w[1].part + (k - 1) <= w[1].len
    BY <2>1, <1>1, <1>2, <1>3, <1>4, <1>5
  <2>3. /\ w[k].src = w[1].src /\ w[k].bit = w[1].bit
        /\ w[k].len = w[1].len
        /\ w[k].part = w[1].part + (k - 1)
    BY <2>1, <2>2, <1>3 DEF InSync, Runs
  <2>4. /\ a[k].src = a[1].src /\ a[k].bit = a[1].bit
        /\ a[k].len = a[1].len /\ a[k].part = k
    BY <2>1, <2>3, <1>2, <1>3, <1>5
  <2>5. a[k] \in Pieces
    BY <2>1, ElementOfSeq
  <2> QED
    BY <2>4, <2>5, <1>4 DEF Pieces
<1> QED
  BY <1>4, <1>6 DEF IsHeader

-----------------------------------------------------------------------------
(* The inductive invariant. *)
Received == app.acc \o pipe

(* A frame the backend delivered is one of the session's phone. *)
OwnVideo == ready # None => ready = source

(* The connections not accepted yet are open and different from each other *)
(* and from the consumer.                                                  *)
Queued == /\ \A i \in 1..Len(backlog) : /\ backlog[i] # consumer
                                        /\ sock[backlog[i]].used
                                        /\ ~sock[backlog[i]].cut
          /\ \A i, j \in 1..Len(backlog) : backlog[i] = backlog[j] => i = j
          /\ app.fd # None => sock[app.fd].used
          /\ \A c \in Consumers : sock[c].cut => sock[c].used

(* Nothing is received before the connection is accepted. *)
Unserved == app.fd = None \/ \E i \in 1..Len(backlog) : backlog[i] = app.fd

NotYet == Unserved => app.acc = <<>> /\ pipe = <<>>

Sending == frame.busy => /\ frame.src \in Sources
                         /\ Header < frame.len /\ frame.off < frame.len

(* While the cluster is the consumer, the frame under way goes on behind   *)
(* what it has received, and the next one alternates with it.              *)
Continues(s) ==
  LET last == s[Len(s)]
  IN IF frame.busy /\ frame.off > 0
     THEN s # <<>> /\ last = Piece(frame.off)
     ELSE s # <<>> => /\ last.part = last.len
                      /\ (last.bit = frame.bit <=> ~frame.busy)

Writer == consumer # None /\ consumer = app.fd => Continues(Received)

IInv == /\ TypeOK /\ OwnVideo /\ Queued /\ NotYet /\ Sending
        /\ InSync(Received) /\ Writer

LEMMA EmptyInSync ==
  /\ <<>> \in Seq(Pieces) /\ Len(<<>>) = 0
  /\ InSync(<<>>) /\ InSync(<<>> \o <<>>)
<1>1. <<>> \in Seq(Pieces) /\ Len(<<>>) = 0
  BY EmptySeq
<1>2. InSync(<<>>)
  BY <1>1 DEF InSync, Starts, Sound, Runs, Turns
<1>3. <<>> \o <<>> = <<>>
  BY <1>1, ConcatEmptySeq
<1> QED
  BY <1>1, <1>2, <1>3

LEMMA InitIInv == Init => IInv
<1> SUFFICES ASSUME Init PROVE IInv
  OBVIOUS
<1>1. <<>> \in Seq(Consumers) /\ Len(<<>>) = 0
  BY EmptySeq
<1>2. TypeOK
  BY <1>1, EmptyInSync, Constants DEF Init, TypeOK, NoFrame, NewSock, NewApp
<1>3. OwnVideo /\ NotYet /\ Sending /\ Writer
  BY DEF Init, OwnVideo, NotYet, Sending, Writer, NoFrame, NewApp
<1>4. Queued
  BY <1>1 DEF Init, Queued, NewSock, NewApp
<1>5. InSync(Received)
  BY EmptyInSync DEF Init, Received, NewApp
<1> QED
  BY <1>2, <1>3, <1>4, <1>5 DEF IInv

LEMMA StutterKeeps == ASSUME IInv, UNCHANGED vars PROVE IInv'
<1> USE DEF vars, manager
<1>1. TypeOK'
  BY DEF IInv, TypeOK
<1>2. OwnVideo' /\ Queued' /\ NotYet' /\ Sending'
  BY DEF IInv, OwnVideo, Queued, NotYet, Unserved, Sending
<1>3. InSync(Received)' /\ Writer'
  BY DEF IInv, Received, Writer, Continues, Piece
<1> QED
  BY <1>1, <1>2, <1>3 DEF IInv

Sockets == [Consumers -> [used : BOOLEAN, hup : BOOLEAN, cut : BOOLEAN,
                          full : BOOLEAN]]

(* Closing the consumer's connection. *)
LEMMA CutType ==
  ASSUME NEW S \in Sockets, NEW c \in Consumers \cup {None}
  PROVE  /\ Cut(c, S) \in Sockets
         /\ \A d \in Consumers :
              /\ Cut(c, S)[d].used = S[d].used
              /\ Cut(c, S)[d].hup = S[d].hup
              /\ d # c => Cut(c, S)[d].cut = S[d].cut
              /\ c = None => Cut(c, S)[d].cut = S[d].cut
<1> DEFINE Open == [used : BOOLEAN, hup : BOOLEAN, cut : BOOLEAN,
                    full : BOOLEAN]
<1>1. CASE c = None
  BY <1>1 DEF Cut
<1>2. CASE c # None
  <2>1. c \in Consumers
    BY <1>2
  <2>2. Cut(c, S) = [S EXCEPT ![c] = [S[c] EXCEPT !.cut = TRUE,
                                                  !.full = FALSE]]
    BY <1>2, <2>1 DEF Cut, Sockets
  <2>3. \A r \in Open :
          /\ [r EXCEPT !.cut = TRUE, !.full = FALSE] \in Open
          /\ [r EXCEPT !.cut = TRUE, !.full = FALSE].used = r.used
          /\ [r EXCEPT !.cut = TRUE, !.full = FALSE].hup = r.hup
    <3> SUFFICES ASSUME NEW r \in Open
                 PROVE  LET q == [r EXCEPT !.cut = TRUE, !.full = FALSE]
                        IN q \in Open /\ q.used = r.used /\ q.hup = r.hup
      OBVIOUS
    <3> DEFINE q == [r EXCEPT !.cut = TRUE, !.full = FALSE]
    <3>1. q \in Open
      OBVIOUS
    <3>2. q.used = r.used
      OBVIOUS
    <3>3. q.hup = r.hup
      OBVIOUS
    <3> QED
      BY <3>1, <3>2, <3>3
  <2>4. S \in [Consumers -> Open] /\ S[c] \in Open
    BY <2>1 DEF Sockets
  <2> HIDE DEF Open
  <2>5. PICK x \in Open : /\ Cut(c, S) = [S EXCEPT ![c] = x]
                          /\ x.used = S[c].used /\ x.hup = S[c].hup
    BY <2>2, <2>3, <2>4
  <2>6. Cut(c, S) \in [Consumers -> Open]
    BY <2>1, <2>4, <2>5
  <2>7. \A d \in Consumers : /\ Cut(c, S)[d].used = S[d].used
                             /\ Cut(c, S)[d].hup = S[d].hup
                             /\ d # c => Cut(c, S)[d] = S[d]
    <3> SUFFICES ASSUME NEW d \in Consumers
                 PROVE  /\ Cut(c, S)[d].used = S[d].used
                        /\ Cut(c, S)[d].hup = S[d].hup
                        /\ d # c => Cut(c, S)[d] = S[d]
      OBVIOUS
    <3>1. Cut(c, S)[d] = IF d = c THEN x ELSE S[d]
      BY <2>1, <2>4, <2>5
    <3> QED
      BY <3>1, <2>5
  <2> QED
    BY <1>2, <2>6, <2>7 DEF Sockets, Open
<1> QED
  BY <1>1, <1>2

LEMMA MediaSyncKeeps ==
  ASSUME IInv, NEW src \in Sources \cup {None}, MediaSync(src)
  PROVE  IInv'
<1> USE DEF MediaSync
<1>1. TypeOK'
  BY DEF IInv, TypeOK
<1>2. OwnVideo' /\ Queued' /\ NotYet' /\ Sending'
  BY DEF IInv, OwnVideo, Queued, NotYet, Unserved, Sending
<1>3. InSync(Received)' /\ Writer'
  BY DEF IInv, Received, Writer, Continues, Piece
<1> QED
  BY <1>1, <1>2, <1>3 DEF IInv

LEMMA ClientCloseKeeps ==
  ASSUME IInv, NEW c \in Consumers, ClientClose(c) \/ ClientRead(c)
  PROVE  IInv'
<1>1. /\ UNCHANGED <<manager, backlog, app, pipe>>
      /\ \/ sock' = [sock EXCEPT ![c].hup = TRUE]
         \/ sock' = [sock EXCEPT ![c].full = FALSE]
  BY DEF ClientClose, ClientRead
<1> USE DEF manager
<1>2. /\ sock' \in [Consumers -> [used : BOOLEAN, hup : BOOLEAN,
                                  cut : BOOLEAN, full : BOOLEAN]]
      /\ \A d \in Consumers : /\ sock'[d].used = sock[d].used
                              /\ sock'[d].cut = sock[d].cut
  <2>1. sock \in Sockets
    BY DEF IInv, TypeOK, Sockets
  <2>2. CASE sock' = [sock EXCEPT ![c].hup = TRUE]
    BY <2>1, <2>2 DEF Sockets
  <2>3. CASE sock' = [sock EXCEPT ![c].full = FALSE]
    BY <2>1, <2>3 DEF Sockets
  <2> QED
    BY <1>1, <2>2, <2>3
<1>3. TypeOK'
  BY <1>1, <1>2 DEF IInv, TypeOK
<1>4. OwnVideo' /\ NotYet' /\ Sending'
  BY <1>1 DEF IInv, OwnVideo, NotYet, Unserved, Sending
<1>5. Queued'
  <2>1. \A i \in 1..Len(backlog) : backlog[i] \in Consumers
    BY ElementOfSeq DEF IInv, TypeOK
  <2>2. app.fd \in Consumers \cup {None}
    BY DEF IInv, TypeOK
  <2> QED
    BY <1>1, <1>2, <2>1, <2>2 DEF IInv, Queued
<1>6. InSync(Received)' /\ Writer'
  BY <1>1 DEF IInv, Received, Writer, Continues, Piece
<1> QED
  BY <1>3, <1>4, <1>5, <1>6 DEF IInv

Apps == [fd : Consumers \cup {None}, acc : Seq(Pieces),
         shown : Video \cup {None}]

(* Connecting or leaving empties the cluster's buffer. *)
LEMMA AppType ==
  ASSUME NEW a \in Apps, NEW f \in Consumers \cup {None}
  PROVE  LET b == [a EXCEPT !.fd = f, !.acc = <<>>]
         IN b \in Apps /\ b.fd = f /\ b.acc = <<>>
<1> DEFINE b == [a EXCEPT !.fd = f, !.acc = <<>>]
<1>1. <<>> \in Seq(Pieces)
  BY EmptySeq
<1>2. b \in Apps
  BY <1>1 DEF Apps
<1>3. b.fd = f
  BY DEF Apps
<1>4. b.acc = <<>>
  BY DEF Apps
<1> QED
  BY <1>2, <1>3, <1>4

(* A client's new connection waits behind those accepted before. *)
LEMMA ConnectQueues ==
  ASSUME TypeOK, Queued, NEW c \in Consumers, Connect(c)
  PROVE  /\ backlog' \in Seq(Consumers) /\ Len(backlog') = Len(backlog) + 1
         /\ \A i \in 1..Len(backlog) : backlog'[i] = backlog[i]
         /\ backlog'[Len(backlog) + 1] = c
         /\ sock' \in Sockets /\ sock'[c].used /\ ~sock[c].used
         /\ \A d \in Consumers : /\ sock[d].used => sock'[d].used
                                 /\ sock'[d].cut = sock[d].cut
         /\ \A i \in 1..Len(backlog') : /\ backlog'[i] # consumer
                                        /\ sock'[backlog'[i]].used
                                        /\ ~sock'[backlog'[i]].cut
         /\ \A i, j \in 1..Len(backlog') : backlog'[i] = backlog'[j] => i = j
         /\ \A d \in Consumers : sock'[d].cut => sock'[d].used
<1>1. /\ backlog' = Append(backlog, c) /\ ~sock[c].used
      /\ sock' = [sock EXCEPT ![c].used = TRUE]
  BY DEF Connect
<1>2. backlog \in Seq(Consumers) /\ sock \in Sockets /\ Len(backlog) \in Nat
  BY LenProperties DEF TypeOK, Sockets
<1>3. /\ backlog' \in Seq(Consumers) /\ Len(backlog') = Len(backlog) + 1
      /\ \A i \in 1..Len(backlog) : backlog'[i] = backlog[i]
      /\ backlog'[Len(backlog) + 1] = c
  BY <1>1, <1>2, AppendProperties
<1>4. /\ sock' \in Sockets /\ sock'[c].used
      /\ \A d \in Consumers : /\ sock[d].used => sock'[d].used
                              /\ sock'[d].cut = sock[d].cut
  <2>1. LET s == [sock EXCEPT ![c].used = TRUE]
        IN /\ s \in Sockets
           /\ \A d \in Consumers :
                /\ s[d].cut = sock[d].cut
                /\ s[d].used = IF d = c THEN TRUE ELSE sock[d].used
    BY <1>2 DEF Sockets
  <2> QED
    BY <1>1, <2>1
<1>5. \A i \in 1..Len(backlog) : backlog[i] \in Consumers /\ backlog[i] # c
  BY <1>1, <1>2, ElementOfSeq DEF Queued
<1>6. c # consumer /\ ~sock[c].cut
  <2>1. c # consumer
    BY <1>1, Constants DEF TypeOK
  <2>2. ~sock[c].cut
    BY <1>1 DEF Queued
  <2> QED
    BY <2>1, <2>2
<1>7. \A i \in 1..Len(backlog') :
        IF i = Len(backlog) + 1 THEN backlog'[i] = c
        ELSE i \in 1..Len(backlog) /\ backlog'[i] = backlog[i]
  BY <1>2, <1>3
<1>8. \A i \in 1..Len(backlog') : /\ backlog'[i] # consumer
                                  /\ sock'[backlog'[i]].used
                                  /\ ~sock'[backlog'[i]].cut
  BY <1>4, <1>5, <1>6, <1>7 DEF Queued
<1>9. \A i, j \in 1..Len(backlog') : backlog'[i] = backlog'[j] => i = j
  BY <1>5, <1>7 DEF Queued
<1>10. \A d \in Consumers : sock'[d].cut => sock'[d].used
  BY <1>4 DEF Queued
<1> QED
  BY <1>1, <1>3, <1>4, <1>8, <1>9, <1>10

LEMMA ClientConnectKeeps ==
  ASSUME IInv, NEW c \in Consumers, ClientConnect(c)
  PROVE  IInv'
<1>1. Connect(c) /\ UNCHANGED <<manager, app, pipe>>
  BY DEF ClientConnect, Connect
<1>2. TypeOK /\ Queued
  BY DEF IInv
<1> USE DEF manager
<1>3. TypeOK'
  BY <1>1, <1>2, ConnectQueues DEF TypeOK, Sockets
<1>4. OwnVideo' /\ Sending'
  BY <1>1 DEF IInv, OwnVideo, Sending
<1>5. app.fd # None => sock[app.fd].used /\ app.fd \in Consumers
  BY <1>2 DEF TypeOK, Queued
<1>6. Queued'
  BY <1>1, <1>2, <1>5, ConnectQueues DEF Queued
<1>7. NotYet'
  <2>1. Unserved' => Unserved
    <3> SUFFICES ASSUME app.fd # None, NEW i \in 1..Len(backlog'),
                        backlog'[i] = app.fd
                 PROVE  Unserved
      BY <1>1 DEF Unserved
    <3>1. i # Len(backlog) + 1
      BY <1>1, <1>2, <1>5, ConnectQueues
    <3>2. i \in 1..Len(backlog)
      BY <3>1, <1>1, <1>2, ConnectQueues, LenProperties DEF TypeOK
    <3> QED
      BY <3>2, <1>1, <1>2, ConnectQueues DEF Unserved
  <2> QED
    BY <2>1, <1>1 DEF IInv, NotYet
<1>8. InSync(Received)' /\ Writer'
  BY <1>1 DEF IInv, Received, Writer, Continues, Piece
<1> QED
  BY <1>3, <1>4, <1>6, <1>7, <1>8 DEF IInv

LEMMA AppConnectKeeps ==
  ASSUME IInv, NEW c \in Consumers, AppConnect(c)
  PROVE  IInv'
<1>1. /\ Connect(c) /\ UNCHANGED <<manager, pipe>> /\ app.fd = None
      /\ app' = [app EXCEPT !.fd = c, !.acc = <<>>]
  BY DEF AppConnect, Connect
<1>2. TypeOK /\ Queued
  BY DEF IInv
<1>3. app' \in Apps /\ app'.fd = c /\ app'.acc = <<>>
  BY <1>1, <1>2, AppType DEF TypeOK, Apps
<1>4. pipe = <<>>
  BY <1>1 DEF IInv, NotYet, Unserved
<1> USE DEF manager
<1>5. TypeOK'
  <2>1. Len(app'.acc) <= FrameLen
    BY <1>3, EmptyInSync, Constants
  <2> QED
    BY <2>1, <1>1, <1>2, <1>3, ConnectQueues DEF TypeOK, Sockets, Apps
<1>6. OwnVideo' /\ Sending'
  BY <1>1 DEF IInv, OwnVideo, Sending
<1>7. Queued'
  BY <1>1, <1>2, <1>3, ConnectQueues DEF Queued
<1>8. NotYet' /\ InSync(Received)'
  BY <1>1, <1>3, <1>4, EmptyInSync DEF NotYet, Received
<1>9. Writer'
  <2>1. consumer # None => consumer # c
    BY <1>1, <1>2, ConnectQueues DEF TypeOK
  <2> QED
    BY <2>1, <1>1, <1>3 DEF Writer
<1> QED
  BY <1>5, <1>6, <1>7, <1>8, <1>9 DEF IInv

LEMMA AppLeavesKeeps ==
  ASSUME IInv, AppEnds \/ AppExits
  PROVE  IInv'
<1>1. /\ UNCHANGED <<manager, backlog>> /\ pipe' = <<>> /\ app.fd # None
      /\ sock' = [sock EXCEPT ![app.fd].hup = TRUE]
      /\ app' = [app EXCEPT !.fd = None, !.acc = <<>>] \/ app' = NewApp
  BY DEF AppEnds, AppExits, AppLeaves
<1>2. TypeOK /\ Queued
  BY DEF IInv
<1>3. app' \in Apps /\ app'.fd = None /\ app'.acc = <<>>
  <2>1. CASE app' = NewApp
    BY <2>1, EmptyInSync DEF NewApp, Apps
  <2>2. CASE app' = [app EXCEPT !.fd = None, !.acc = <<>>]
    BY <2>2, <1>2, AppType DEF TypeOK, Apps
  <2> QED
    BY <2>1, <2>2, <1>1
<1> USE DEF manager
<1>4. /\ sock' \in Sockets
      /\ \A d \in Consumers : /\ sock'[d].used = sock[d].used
                              /\ sock'[d].cut = sock[d].cut
  <2>1. sock \in Sockets /\ app.fd \in Consumers
    BY <1>1, <1>2 DEF TypeOK, Sockets
  <2>2. LET s == [sock EXCEPT ![app.fd].hup = TRUE]
        IN /\ s \in Sockets
           /\ \A d \in Consumers : /\ s[d].used = sock[d].used
                                   /\ s[d].cut = sock[d].cut
    BY <2>1 DEF Sockets
  <2> QED
    BY <2>2, <1>1
<1>5. TypeOK'
  <2>1. Len(app'.acc) <= FrameLen /\ pipe' \in Seq(Pieces)
        /\ Len(pipe') <= PipeLen
    BY <1>1, <1>3, EmptyInSync, Constants
  <2> QED
    BY <2>1, <1>1, <1>2, <1>3, <1>4 DEF TypeOK, Sockets, Apps
<1>6. OwnVideo' /\ Sending'
  BY <1>1 DEF IInv, OwnVideo, Sending
<1>7. Queued'
  <2>1. \A i \in 1..Len(backlog) : backlog[i] \in Consumers
    BY <1>2, ElementOfSeq DEF TypeOK
  <2> QED
    BY <2>1, <1>1, <1>2, <1>3, <1>4 DEF Queued
<1>8. NotYet' /\ InSync(Received)'
  BY <1>1, <1>3, EmptyInSync DEF NotYet, Received
<1>9. Writer'
  BY <1>1, <1>3 DEF Writer
<1> QED
  BY <1>5, <1>6, <1>7, <1>8, <1>9 DEF IInv

Frames == [src : Sources \cup {None}, bit : {0, 1}, len : 1..FrameLen,
           busy : BOOLEAN, off : 0..FrameLen]

(* Giving a frame up leaves the bit the next one is told apart by. *)
LEMMA IdleType ==
  ASSUME TypeOK
  PROVE  /\ Idle \in Frames /\ ~Idle.busy /\ Idle.bit = frame.bit
         /\ frame \in Frames
<1>1. frame \in Frames /\ frame.bit \in {0, 1}
  BY DEF TypeOK, Frames
<1>2. NoFrame \in Frames
  BY Constants DEF NoFrame, Frames
<1>3. Idle \in Frames
  BY <1>1, <1>2 DEF Idle, Frames
<1>4. Idle.bit = frame.bit
  BY <1>2 DEF Idle, Frames
<1>5. Idle.busy = NoFrame.busy
  BY <1>2 DEF Idle, Frames
<1>6. ~NoFrame.busy
  BY DEF NoFrame
<1> QED
  BY <1>1, <1>3, <1>4, <1>5, <1>6

LEMMA AcceptStreamKeeps == ASSUME IInv, AcceptStream PROVE IInv'
<1> DEFINE n == Len(backlog)
<1>1. /\ backlog # <<>> /\ consumer' = Head(backlog)
      /\ backlog' = Tail(backlog) /\ sock' = Cut(consumer, sock)
      /\ frame' = Idle /\ pc' = "lines"
      /\ UNCHANGED <<source, ready, revents, app, pipe>>
  BY DEF AcceptStream
<1>2. TypeOK /\ Queued
  BY DEF IInv
<1>3. /\ n \in Nat \ {0} /\ backlog' \in Seq(Consumers) /\ Len(backlog') = n - 1
      /\ \A i \in 1..n - 1 : backlog'[i] = backlog[i + 1]
      /\ \A i \in 1..n : backlog[i] \in Consumers
  BY <1>1, <1>2, EmptySeq, HeadTailProperties, ElementOfSeq DEF TypeOK
<1>4. consumer' = backlog[1] /\ 1 \in 1..n /\ consumer' \in Consumers
  BY <1>1, <1>3
<1>5. /\ sock' \in Sockets
      /\ \A d \in Consumers : /\ sock'[d].used = sock[d].used
                              /\ d # consumer => sock'[d].cut = sock[d].cut
  BY <1>1, <1>2, CutType DEF TypeOK, Sockets
<1>6. frame' \in Frames /\ ~frame'.busy
  BY <1>1, <1>2, IdleType
<1>7. TypeOK'
  <2>1. sock'[consumer'].used /\ ~sock'[consumer'].cut
    BY <1>2, <1>4, <1>5 DEF Queued
  <2> QED
    BY <2>1, <1>1, <1>2, <1>3, <1>4, <1>5, <1>6 DEF TypeOK, Sockets, Frames
<1>8. OwnVideo' /\ Sending'
  BY <1>1, <1>6 DEF IInv, OwnVideo, Sending
<1>9. \A i \in 1..n - 1 : i + 1 \in 1..n /\ i + 1 # 1
  BY <1>3
<1>10. Queued'
  <2>1. \A i \in 1..n - 1 : /\ backlog'[i] # consumer'
                            /\ sock'[backlog'[i]].used
                            /\ ~sock'[backlog'[i]].cut
    BY <1>2, <1>3, <1>4, <1>5, <1>9 DEF Queued
  <2>2. \A i, j \in 1..n - 1 : backlog'[i] = backlog'[j] => i = j
    <3> SUFFICES ASSUME NEW i \in 1..n - 1, NEW j \in 1..n - 1,
                        backlog'[i] = backlog'[j]
                 PROVE  i = j
      OBVIOUS
    <3>1. backlog[i + 1] = backlog[j + 1] /\ i + 1 \in 1..n /\ j + 1 \in 1..n
      BY <1>3, <1>9
    <3>2. i + 1 = j + 1
      BY <3>1, <1>2 DEF Queued
    <3> QED
      BY <3>2
  <2>3. app'.fd # None => sock'[app'.fd].used
    BY <1>1, <1>2, <1>5 DEF Queued, TypeOK
  <2>4. \A d \in Consumers : sock'[d].cut => sock'[d].used
    <3>1. consumer # None => sock[consumer].used
      BY <1>2 DEF TypeOK
    <3> QED
      BY <3>1, <1>2, <1>5, Constants DEF Queued
  <2> QED
    BY <2>1, <2>2, <2>3, <2>4, <1>3 DEF Queued
<1>11. NotYet'
  <2>1. Unserved' => Unserved
    BY <1>1, <1>3, <1>9 DEF Unserved
  <2> QED
    BY <2>1, <1>1 DEF IInv, NotYet
<1>12. InSync(Received)'
  BY <1>1 DEF IInv, Received
<1>13. Writer'
  <2> SUFFICES ASSUME consumer' = app'.fd PROVE Continues(Received)'
    BY DEF Writer
  <2>1. app.acc = <<>> /\ pipe = <<>>
    BY <1>1, <1>3, <1>4 DEF IInv, NotYet, Unserved
  <2>2. Received' = <<>>
    BY <2>1, <1>1, EmptyInSync, ConcatEmptySeq DEF Received
  <2> QED
    BY <2>2, <1>6 DEF Continues
<1> QED
  BY <1>7, <1>8, <1>10, <1>11, <1>12, <1>13 DEF IInv

LEMMA PollKeeps == ASSUME IInv, Poll PROVE IInv'
<1>1. /\ ConsiderFrame
      /\ revents' = IF consumer = None THEN {} ELSE Reported(consumer)
      /\ pc' = IF backlog # <<>> THEN "accept" ELSE "lines"
      /\ UNCHANGED <<source, consumer, backlog, sock, app, pipe>>
  BY DEF Poll
<1>2. TypeOK
  BY DEF IInv
<1>3. revents' \subseteq {"HUP", "OUT"} /\ pc' \in {"accept", "lines"}
  BY <1>1 DEF Reported
<1>4. PICK r \in Delivered :
        \/ ready' = r /\ UNCHANGED frame
        \/ /\ consumer # None /\ ~frame.busy /\ source # None /\ r # None
           /\ Begin(r, MediaLen[r]) /\ ready' = None
        \/ /\ consumer # None /\ ~frame.busy /\ source # None
           /\ ready' = None
           /\ Begin(source, FrameLen) \/ UNCHANGED frame
  BY <1>1 DEF ConsiderFrame
<1>5. r \in Sources \cup {None} /\ (r # None => r = source)
  BY <1>2 DEF IInv, OwnVideo, Delivered, TypeOK
<1>6. ready' \in Sources \cup {None} /\ OwnVideo'
  BY <1>1, <1>4, <1>5 DEF OwnVideo
<1>7. \/ UNCHANGED frame
      \/ /\ consumer # None /\ ~frame.busy
         /\ \E src \in Sources, len \in 1..FrameLen :
              Header < len /\ Begin(src, len)
  <2>1. source \in Sources \cup {None}
    BY <1>2 DEF TypeOK
  <2>2. CASE /\ consumer # None /\ ~frame.busy /\ r # None
             /\ Begin(r, MediaLen[r])
    BY <2>2, <1>5, Constants
  <2>3. CASE /\ consumer # None /\ ~frame.busy /\ source # None
             /\ Begin(source, FrameLen)
    BY <2>1, <2>3, Constants
  <2> QED
    BY <2>2, <2>3, <1>4
<1>8. TypeOK' /\ Sending' /\ Writer'
  <2>1. CASE UNCHANGED frame
    <3>1. TypeOK'
      BY <2>1, <1>1, <1>2, <1>3, <1>6 DEF TypeOK
    <3> QED
      BY <3>1, <2>1, <1>1 DEF IInv, Sending, Writer, Continues, Received, Piece
  <2>2. CASE /\ consumer # None /\ ~frame.busy
             /\ \E src \in Sources, len \in 1..FrameLen :
                  Header < len /\ Begin(src, len)
    <3>1. PICK src \in Sources, len \in 1..FrameLen :
            Header < len /\ Begin(src, len)
      BY <2>2
    <3>2. frame.bit \in {0, 1} /\ len \in Nat /\ FrameLen \in Nat
      BY <1>2, Constants DEF TypeOK
    <3>3. /\ frame' \in Frames /\ frame'.src = src /\ frame'.len = len
          /\ frame'.bit = 1 - frame.bit /\ frame'.busy /\ frame'.off = 0
      BY <3>1, <3>2 DEF Begin, Frames
    <3>4. TypeOK'
      BY <3>3, <1>1, <1>2, <1>3, <1>6 DEF TypeOK, Frames
    <3>5. Sending'
      BY <3>1, <3>2, <3>3 DEF Sending
    <3>6. Writer'
      <4> SUFFICES ASSUME consumer # None, consumer = app.fd, Received # <<>>
                   PROVE  LET last == Received[Len(Received)]
                          IN last.part = last.len /\ last.bit # frame'.bit
        BY <3>3, <1>1 DEF Writer, Continues, Received
      <4>1. LET last == Received[Len(Received)]
            IN last.part = last.len /\ last.bit = frame.bit
        BY <2>2 DEF IInv, Writer, Continues
      <4> QED
        BY <4>1, <3>2, <3>3
    <3> QED
      BY <3>4, <3>5, <3>6
  <2> QED
    BY <2>1, <2>2, <1>7
<1>9. Queued' /\ NotYet' /\ InSync(Received)'
  BY <1>1 DEF IInv, Queued, NotYet, Unserved, Received
<1> QED
  BY <1>6, <1>8, <1>9 DEF IInv

(* Giving up the consumer keeps the invariant: nobody is written to. *)
LEMMA DropKeeps ==
  ASSUME IInv, Drop, UNCHANGED <<source, ready, backlog, app>>,
         revents' = {}, pc' = "top"
  PROVE  IInv'
<1>1. /\ sock' = Cut(consumer, sock) /\ consumer' = None
      /\ frame' = Idle /\ UNCHANGED pipe
  BY DEF Drop
<1>2. TypeOK /\ Queued
  BY DEF IInv
<1>3. /\ sock' \in Sockets
      /\ \A d \in Consumers : /\ sock'[d].used = sock[d].used
                              /\ d # consumer => sock'[d].cut = sock[d].cut
  BY <1>1, <1>2, CutType DEF TypeOK, Sockets
<1>4. frame' \in Frames /\ ~frame'.busy
  BY <1>1, <1>2, IdleType
<1>5. TypeOK'
  BY <1>1, <1>2, <1>3, <1>4 DEF TypeOK, Sockets, Frames
<1>6. OwnVideo' /\ Sending' /\ NotYet' /\ Writer'
  BY <1>1, <1>4 DEF IInv, OwnVideo, Sending, NotYet, Unserved, Writer
<1>7. Queued'
  <2>1. \A i \in 1..Len(backlog) : backlog[i] \in Consumers
    BY <1>2, ElementOfSeq DEF TypeOK
  <2>2. app.fd # None => app.fd \in Consumers
    BY <1>2 DEF TypeOK
  <2>3. consumer # None => sock[consumer].used
    BY <1>2 DEF TypeOK
  <2>4. \A i \in 1..Len(backlog') : /\ backlog'[i] # consumer'
                                    /\ sock'[backlog'[i]].used
                                    /\ ~sock'[backlog'[i]].cut
    BY <2>1, <1>1, <1>2, <1>3, Constants DEF Queued
  <2>5. \A d \in Consumers : sock'[d].cut => sock'[d].used
    BY <2>3, <1>2, <1>3, Constants DEF Queued
  <2> QED
    BY <2>2, <2>4, <2>5, <1>2, <1>3 DEF Queued
<1>8. InSync(Received)'
  BY <1>1 DEF IInv, Received
<1> QED
  BY <1>5, <1>6, <1>7, <1>8 DEF IInv

(* Writing to the cluster appends the next pieces of the frame. *)
LEMMA WriteKeeps ==
  ASSUME IInv, DrainStreamWrite, consumer # None, frame.busy,
         UNCHANGED <<source, ready, backlog, app>>, revents' = {}, pc' = "top"
  PROVE  IInv'
<1>1. TypeOK /\ Queued /\ UNCHANGED consumer
  BY DEF IInv, DrainStreamWrite
<1>2. PICK n \in 1..frame.len - frame.off :
        /\ frame' = IF frame.off + n < frame.len
                    THEN [frame EXCEPT !.off = @ + n] ELSE Idle
        /\ IF consumer = app.fd
           THEN /\ Len(pipe) + n <= PipeLen
                /\ pipe' = pipe \o [i \in 1..n |-> Piece(frame.off + i)]
                /\ UNCHANGED sock
           ELSE /\ \E full \in BOOLEAN :
                     sock' = [sock EXCEPT ![consumer].full = full]
                /\ UNCHANGED pipe
  BY DEF DrainStreamWrite
<1>3. /\ frame \in Frames /\ frame.src \in Sources /\ frame.bit \in {0, 1}
      /\ frame.len \in 1..FrameLen /\ frame.off \in Nat
      /\ Header < frame.len /\ frame.off < frame.len
      /\ frame.len \in Nat /\ FrameLen \in Nat
  BY <1>1, Constants DEF IInv, Sending, TypeOK, Frames
<1>4. n \in Nat \ {0} /\ frame.off + n <= frame.len
  BY <1>3
<1>5. /\ frame' \in Frames /\ frame'.bit = frame.bit
      /\ IF frame.off + n < frame.len
         THEN /\ frame'.src = frame.src /\ frame'.len = frame.len
              /\ frame'.busy /\ frame'.off = frame.off + n
         ELSE ~frame'.busy
  <2>1. CASE frame.off + n < frame.len
    <3>1. frame' = [frame EXCEPT !.off = frame.off + n]
      BY <2>1, <1>2, <1>3 DEF Frames
    <3>2. frame.off + n \in 0..FrameLen
      BY <2>1, <1>3, <1>4
    <3>3. frame' \in Frames
      BY <3>1, <3>2, <1>3 DEF Frames
    <3>4. /\ frame'.bit = frame.bit /\ frame'.src = frame.src
          /\ frame'.len = frame.len /\ frame'.off = frame.off + n
      BY <3>1, <1>3 DEF Frames
    <3>5. frame'.busy = frame.busy
      BY <3>1, <1>3 DEF Frames
    <3> QED
      BY <2>1, <3>3, <3>4, <3>5
  <2>2. CASE ~(frame.off + n < frame.len)
    BY <2>2, <1>1, <1>2, IdleType
  <2> QED
    BY <2>1, <2>2
<1>6. /\ sock' \in Sockets
      /\ \A d \in Consumers : /\ sock'[d].used = sock[d].used
                              /\ sock'[d].cut = sock[d].cut
  <2>1. sock \in Sockets /\ consumer \in Consumers
    BY <1>1 DEF TypeOK, Sockets
  <2>2. CASE UNCHANGED sock
    BY <2>1, <2>2
  <2>3. CASE \E full \in BOOLEAN : sock' = [sock EXCEPT ![consumer].full = full]
    <3>1. PICK full \in BOOLEAN : sock' = [sock EXCEPT ![consumer].full = full]
      BY <2>3
    <3> QED
      BY <3>1, <2>1 DEF Sockets
  <2> QED
    BY <2>2, <2>3, <1>2
<1>7. OwnVideo' /\ Sending'
  BY <1>3, <1>5 DEF IInv, OwnVideo, Sending
<1>8. Queued'
  <2>1. \A i \in 1..Len(backlog) : backlog[i] \in Consumers
    BY <1>1, ElementOfSeq DEF TypeOK
  <2>2. app.fd # None => app.fd \in Consumers
    BY <1>1 DEF TypeOK
  <2> QED
    BY <2>1, <2>2, <1>1, <1>6 DEF Queued
<1>9. CASE consumer # app.fd
  <2>1. UNCHANGED pipe
    BY <1>2, <1>9
  <2>2. TypeOK'
    BY <2>1, <1>1, <1>5, <1>6 DEF TypeOK, Sockets, Frames
  <2>3. NotYet' /\ InSync(Received)' /\ Writer'
    BY <2>1, <1>1, <1>9 DEF IInv, NotYet, Unserved, Received, Writer
  <2> QED
    BY <2>2, <2>3, <1>7, <1>8 DEF IInv
<1>10. CASE consumer = app.fd
  <2>a. PICK src \in Sources, bit \in {0, 1}, len \in 1..FrameLen, off \in Nat,
             k \in Nat \ {0} :
          /\ frame.src = src /\ frame.bit = bit
          /\ frame.len = len /\ frame.off = off /\ n = k
    BY <1>3, <1>4
  <2> DEFINE c == [i \in 1..k |-> [src |-> src, bit |-> bit, len |-> len,
                                   part |-> off + i]]
             s == Received
  <2>1. pipe' = pipe \o c /\ Len(pipe) + k <= PipeLen
    BY <2>a, <1>2, <1>10 DEF Piece
  <2>b. off + k <= len /\ Header < len /\ k \in Nat \ {0}
    BY <2>a, <1>3, <1>4
  <2>2. c \in Seq(Pieces) /\ Len(c) = k /\ Block(c)
    <3>1. \A i \in 1..k : off + i \in 1..FrameLen
      BY <2>b, Constants
    <3>2. c \in [1..k -> Pieces]
      BY <3>1 DEF Pieces
    <3>3. \A i \in 1..k : /\ c[i].src = src /\ c[i].bit = bit
                          /\ c[i].len = len /\ c[i].part = off + i
      OBVIOUS
    <3> HIDE DEF c
    <3>4. c \in Seq(Pieces) /\ Len(c) = k
      BY <3>2
    <3>5. 1 \in 1..k /\ c # <<>>
      BY <3>4, EmptySeq
    <3>6. \A i \in 1..k : off + i = (off + 1) + (i - 1)
      OBVIOUS
    <3>7. (off + 1) + (k - 1) <= len
      BY <2>b
    <3> QED
      BY <3>3, <3>4, <3>5, <3>6, <3>7, <2>b DEF Block
  <2>d. /\ c[1] = [src |-> src, bit |-> bit, len |-> len, part |-> off + 1]
        /\ c[k] = [src |-> src, bit |-> bit, len |-> len, part |-> off + k]
    BY <2>b
  <2>3. /\ pipe \in Seq(Pieces) /\ app.acc \in Seq(Pieces)
        /\ s \in Seq(Pieces)
    BY <1>1, ConcatProperties DEF TypeOK, Received
  <2> HIDE DEF c
  <2>4. pipe' \in Seq(Pieces) /\ Len(pipe') <= PipeLen
    BY <2>1, <2>2, <2>3, ConcatProperties
  <2>5. Received' = s \o c
    BY <2>1, <2>2, <2>3, Associative, ZenonT(30) DEF Received
  <2>6. TypeOK'
    BY <2>4, <1>1, <1>5, <1>6 DEF TypeOK, Sockets, Frames
  <2>7. NotYet'
    <3>1. ~Unserved
      BY <1>1, <1>10 DEF Unserved, Queued
    <3> QED
      BY <3>1 DEF NotYet, Unserved
  <2>8. Continues(s)
    BY <1>10 DEF IInv, Writer
  <2>9. Fits(s, c)
    <3>1. CASE off = 0
      BY <3>1, <2>8, <2>a, <2>d, <1>3 DEF Continues, Fits
    <3>2. CASE off # 0
      BY <3>2, <2>8, <2>a, <2>d, <1>3 DEF Continues, Piece, Fits
    <3> QED
      BY <3>1, <3>2
  <2>10. /\ InSync(s \o c) /\ s \o c # <<>>
         /\ (s \o c)[Len(s \o c)] = c[k]
    <3>1. InSync(s)
      BY DEF IInv
    <3> HIDE DEF s
    <3> QED
      BY <3>1, <2>2, <2>3, <2>9, AppendBlock
  <2>12. InSync(Received)'
    BY <2>5, <2>10
  <2>13. Continues(Received)'
    <3>1. Received'[Len(Received')]
            = [src |-> src, bit |-> bit, len |-> len, part |-> off + k]
      BY <2>5, <2>10, <2>d
    <3>2. CASE off + k < len
      <4>1. /\ frame'.busy /\ frame'.off > 0
            /\ Piece(frame.off)' = [src |-> src, bit |-> bit, len |-> len,
                                    part |-> off + k]
        BY <3>2, <2>a, <1>4, <1>5 DEF Piece
      <4> QED
        BY <4>1, <3>1, <2>5, <2>10 DEF Continues
    <3>3. CASE ~(off + k < len)
      <4>1. off + k = len /\ ~frame'.busy /\ frame'.bit = bit
        BY <3>3, <2>a, <2>b, <1>4, <1>5
      <4> QED
        BY <4>1, <3>1 DEF Continues
    <3> QED
      BY <3>2, <3>3
  <2> QED
    BY <2>6, <2>7, <2>12, <2>13, <1>7, <1>8 DEF IInv, Writer
<1> QED
  BY <1>9, <1>10

(* What the parser leaves of the pieces in front is what it was given, or  *)
(* all behind the first frame.                                             *)
LEMMA ParsedInSync ==
  ASSUME NEW a \in Seq(Pieces), NEW q \in Seq(Pieces), InSync(a \o q)
  PROVE  LET t == Parsed(a) \o q
             w == a \o q
         IN /\ Parsed(a) \in Seq(Pieces) /\ Len(Parsed(a)) <= Len(a)
            /\ InSync(t)
            /\ t # <<>> => w # <<>> /\ t[Len(t)] = w[Len(w)]
            /\ t = <<>> => w = <<>> \/ w[Len(w)].part = w[Len(w)].len
            /\ Complete(a) => a[1] \in Pieces
<1> DEFINE t == Parsed(a) \o q
           w == a \o q
<1>1. Len(a) \in Nat /\ Header \in Nat \ {0} /\ w \in Seq(Pieces)
  BY LenProperties, ConcatProperties, Constants
<1>2. Complete(a) => a[1] \in Pieces
  <2> SUFFICES ASSUME Header <= Len(a) PROVE a[1] \in Pieces
    BY <1>1 DEF Complete
  <2>1. 1 \in 1..Len(a)
    BY <1>1
  <2> QED
    BY <2>1, ElementOfSeq
<1>3. CASE ~Complete(a)
  <2>1. Parsed(a) = a
    <3>1. CASE Len(a) < Header
      BY <3>1 DEF Parsed
    <3>2. CASE ~(Len(a) < Header)
      <4>1. IsHeader(a)
        BY <3>2, <1>1, FrontIsHeader
      <4> QED
        BY <4>1, <3>2, <1>3 DEF Parsed
    <3> QED
      BY <3>1, <3>2
  <2> QED
    BY <2>1, <1>1, <1>2
<1>4. CASE Complete(a)
  <2> DEFINE m == a[1].len
  <2>1. Header <= Len(a) /\ IsHeader(a) /\ m <= Len(a)
    BY <1>1, <1>4 DEF Complete
  <2>2. m \in Nat \ {0}
    BY <2>1, FrontIsHeader
  <2>3. m \in 0..Len(a)
    BY <2>1, <2>2, <1>1
  <2>4. Parsed(a) = SubSeq(a, m + 1, Len(a))
    <3>1. ~(Len(a) < Header)
      BY <2>1, <1>1
    <3> QED
      BY <3>1, <2>1, <1>4 DEF Parsed
  <2>5. /\ Len(w) = Len(a) + Len(q) /\ Len(q) \in Nat
        /\ w[1] = a[1] /\ w # <<>>
    <3>1. 1 \in 1..Len(a) /\ Len(q) \in Nat
      BY <2>1, <1>1, LenProperties
    <3>2. Len(w) = Len(a) + Len(q) /\ w[1] = a[1]
      BY <3>1, <1>1, ConcatProperties
    <3>3. Len(w) # 0
      BY <3>1, <3>2, <1>1
    <3> QED
      BY <3>1, <3>2, <3>3, EmptySeq
  <2> HIDE DEF w, m
  <2>6. /\ Parsed(a) \in Seq(Pieces) /\ Len(Parsed(a)) = Len(a) - m
        /\ t = SubSeq(w, m + 1, Len(w))
    <3>1. PICK T : T = Pieces
      OBVIOUS
    <3>2. a \in Seq(T) /\ q \in Seq(T)
      BY <3>1
    <3>3. /\ SubSeq(a, m + 1, Len(a)) \in Seq(T)
          /\ Len(SubSeq(a, m + 1, Len(a))) = Len(a) - m
          /\ SubSeq(a, m + 1, Len(a)) \o q
               = SubSeq(a \o q, m + 1, Len(a \o q))
      BY <3>2, <2>3, TakeFront, ZenonT(60)
    <3> QED
      BY <3>1, <3>3, <2>4 DEF w
  <2>7. w[1].len <= Len(w) /\ w[1].len = m
    BY <2>1, <2>2, <2>5, <1>1 DEF m
  <2>8. /\ InSync(t)
        /\ t # <<>> => t[Len(t)] = w[Len(w)]
        /\ t = <<>> => w[Len(w)].part = w[Len(w)].len
    <3>1. InSync(w)
      BY DEF w
    <3> HIDE DEF t
    <3> QED
      BY <3>1, <2>5, <2>6, <2>7, <1>1, DropFrame
  <2>9. Len(Parsed(a)) <= Len(a)
    BY <2>2, <2>6, <1>1
  <2> QED
    BY <2>5, <2>6, <2>8, <2>9, <1>2 DEF w
<1> QED
  BY <1>3, <1>4

(* The cluster reads and shows: pieces leave at the front. *)
LEMMA TakeStreamKeeps == ASSUME IInv, TakeStream PROVE IInv'
<1> DEFINE n == Min({Len(pipe), FrameLen - Len(app.acc)})
           a == app.acc \o SubSeq(pipe, 1, n)
           q == SubSeq(pipe, n + 1, Len(pipe))
           s == Received
<1>1. /\ app.fd # None /\ pipe # <<>> /\ Len(app.acc) < FrameLen
      /\ pipe' = q
      /\ app' = [app EXCEPT !.acc = Parsed(a),
                   !.shown = IF Complete(a)
                             THEN [src |-> a[1].src, bit |-> a[1].bit] ELSE @]
      /\ UNCHANGED <<manager, backlog, sock>>
  BY DEF TakeStream
<1>2. /\ TypeOK /\ app \in Apps /\ app.acc \in Seq(Pieces)
      /\ pipe \in Seq(Pieces) /\ Len(pipe) <= PipeLen
  BY DEF IInv, TypeOK, Apps
<1>3. /\ Len(pipe) \in Nat \ {0} /\ Len(app.acc) \in Nat
      /\ FrameLen \in Nat /\ PipeLen \in Nat
  BY <1>1, <1>2, EmptySeq, LenProperties, Constants
<1>4. n \in 1..Len(pipe) /\ n <= FrameLen - Len(app.acc)
  <2>1. FrameLen - Len(app.acc) \in Nat \ {0}
    BY <1>1, <1>3
  <2>2. LET m == Min({Len(pipe), FrameLen - Len(app.acc)})
        IN /\ m \in {Len(pipe), FrameLen - Len(app.acc)}
           /\ m <= Len(pipe) /\ m <= FrameLen - Len(app.acc)
    <3>1. PICK x \in Int, y \in Int :
            x = Len(pipe) /\ y = FrameLen - Len(app.acc)
      <4>1. Len(pipe) \in Int /\ FrameLen - Len(app.acc) \in Int
        BY <2>1, <1>3
      <4> QED
        BY <4>1, Zenon
    <3>2. Min({x, y}) \in {x, y} /\ Min({x, y}) <= x /\ Min({x, y}) <= y
      BY MinOfTwo
    <3> QED
      BY <3>1, <3>2
  <2> HIDE DEF n
  <2>3. /\ n \in {Len(pipe), FrameLen - Len(app.acc)}
        /\ n <= Len(pipe) /\ n <= FrameLen - Len(app.acc)
    BY <2>2 DEF n
  <2> QED
    BY <2>1, <2>3, <1>3
<1> HIDE DEF n
<1>5. /\ a \in Seq(Pieces) /\ Len(a) = Len(app.acc) + n
      /\ q \in Seq(Pieces) /\ Len(q) = Len(pipe) - n
      /\ a \o q = s
  <2>1. PICK u \in Seq(Pieces), v \in Seq(Pieces) : u = app.acc /\ v = pipe
    BY <1>2
  <2>2. PICK k \in 1..Len(v) : k = n
    BY <2>1, <1>4
  <2>3. /\ u \o SubSeq(v, 1, k) \in Seq(Pieces)
        /\ Len(u \o SubSeq(v, 1, k)) = Len(u) + k
        /\ SubSeq(v, k + 1, Len(v)) \in Seq(Pieces)
        /\ Len(SubSeq(v, k + 1, Len(v))) = Len(v) - k
        /\ (u \o SubSeq(v, 1, k)) \o SubSeq(v, k + 1, Len(v)) = u \o v
    <3>1. k \in 0..Len(v)
      BY LenProperties
    <3>2. /\ u \o SubSeq(v, 1, k) \in Seq(Pieces)
          /\ Len(u \o SubSeq(v, 1, k)) = Len(u) + k
          /\ SubSeq(v, k + 1, Len(v)) \in Seq(Pieces)
          /\ Len(SubSeq(v, k + 1, Len(v))) = Len(v) - k
      BY <3>1, MovePieces
    <3>3. PICK w : w = u \o SubSeq(v, 1, k)
      OBVIOUS
    <3>4. w \o SubSeq(v, k + 1, Len(v)) = u \o v
      BY <3>1, <3>3, KeepOrder
    <3>5. (u \o SubSeq(v, 1, k)) \o SubSeq(v, k + 1, Len(v)) = u \o v
      BY <3>3, <3>4
    <3> QED
      BY <3>2, <3>5
  <2> QED
    BY <2>1, <2>2, <2>3 DEF Received
<1> HIDE DEF a, q
<1>6. InSync(a \o q)
  BY <1>5 DEF IInv
<1> DEFINE t == Parsed(a) \o q
<1>7. /\ Parsed(a) \in Seq(Pieces) /\ Len(Parsed(a)) <= Len(a)
      /\ InSync(t)
      /\ t # <<>> => s # <<>> /\ t[Len(t)] = s[Len(s)]
      /\ t = <<>> => s = <<>> \/ s[Len(s)].part = s[Len(s)].len
      /\ Complete(a) => a[1] \in Pieces
  BY <1>5, <1>6, ParsedInSync
<1>8. /\ app' \in Apps /\ app'.fd = app.fd /\ app'.acc = Parsed(a)
  <2>1. PICK v \in Video \cup {None} :
          app' = [app EXCEPT !.acc = Parsed(a), !.shown = v]
    <3>1. CASE Complete(a)
      <4>1. [src |-> a[1].src, bit |-> a[1].bit] \in Video
        BY <3>1, <1>7, PieceType DEF Video
      <4> QED
        BY <4>1, <3>1, <1>1
    <3>2. CASE ~Complete(a)
      <4>1. app.shown \in Video \cup {None}
        BY <1>2 DEF Apps
      <4> QED
        BY <4>1, <3>2, <1>1, <1>2 DEF Apps
    <3> QED
      BY <3>1, <3>2
  <2> QED
    BY <2>1, <1>2, <1>7 DEF Apps
<1> HIDE DEF s
<1>9. Received' = t
  BY <1>1, <1>8 DEF Received
<1>10. TypeOK'
  <2>1. Len(app'.acc) <= FrameLen /\ Len(pipe') <= PipeLen
    <3>1. Len(Parsed(a)) \in Nat
      BY <1>7, LenProperties
    <3>2. Len(Parsed(a)) <= FrameLen
      BY <3>1, <1>3, <1>4, <1>5, <1>7
    <3>3. Len(pipe') <= PipeLen
      BY <1>1, <1>2, <1>3, <1>4, <1>5
    <3> QED
      BY <3>2, <3>3, <1>8
  <2> QED
    BY <2>1, <1>1, <1>2, <1>5, <1>8 DEF TypeOK, Apps, manager
<1>11. OwnVideo' /\ Queued' /\ Sending'
  BY <1>1, <1>8 DEF IInv, OwnVideo, Queued, Sending, manager
<1>12. NotYet'
  <2>1. ~Unserved
    BY <1>1 DEF IInv, NotYet
  <2> QED
    BY <2>1, <1>1, <1>8 DEF NotYet, Unserved, manager
<1>13. Writer'
  <2> SUFFICES ASSUME consumer # None, consumer = app.fd
               PROVE  Continues(Received)'
    BY <1>1, <1>8 DEF Writer, manager
  <2>1. Continues(s)
    BY DEF IInv, Writer, s
  <2>2. CASE frame.busy /\ frame.off > 0
    <3>1. s # <<>> /\ s[Len(s)] = Piece(frame.off)
      BY <2>1, <2>2 DEF Continues
    <3>2. s[Len(s)].part # s[Len(s)].len
      <4>1. frame.off < frame.len /\ frame.off \in Nat /\ frame.len \in Nat
        BY <2>2, <1>2, Constants DEF IInv, Sending, TypeOK
      <4>2. s[Len(s)].part = frame.off /\ s[Len(s)].len = frame.len
        BY <3>1 DEF Piece
      <4> QED
        BY <4>1, <4>2
    <3>3. t # <<>> /\ t[Len(t)] = s[Len(s)]
      BY <3>1, <3>2, <1>7
    <3> QED
      BY <3>1, <3>3, <2>2, <1>1, <1>9 DEF Continues, Piece, manager
  <2>3. CASE ~(frame.busy /\ frame.off > 0)
    <3> SUFFICES ASSUME t # <<>>
                 PROVE  /\ t[Len(t)].part = t[Len(t)].len
                        /\ (t[Len(t)].bit = frame.bit <=> ~frame.busy)
      BY <2>3, <1>1, <1>9 DEF Continues, manager
    <3> QED
      BY <2>1, <2>3, <1>7 DEF Continues
  <2> QED
    BY <2>2, <2>3
<1> QED
  BY <1>7, <1>9, <1>10, <1>11, <1>12, <1>13 DEF IInv

(* The consumer's turn: given up, written to or left alone. *)
LEMMA StreamClientKeeps == ASSUME IInv, StreamClient PROVE IInv'
<1>1. /\ UNCHANGED <<source, ready, backlog, app>>
      /\ revents' = {} /\ pc' = "top"
      /\ \/ Drop
         \/ consumer # None /\ frame.busy /\ DrainStreamWrite
         \/ UNCHANGED <<frame, consumer, sock, pipe>>
  BY DEF StreamClient, Writes
<1>2. CASE Drop
  BY <1>1, <1>2, DropKeeps
<1>3. CASE consumer # None /\ frame.busy /\ DrainStreamWrite
  BY <1>1, <1>3, WriteKeeps
<1>4. CASE UNCHANGED <<frame, consumer, sock, pipe>>
  <2>1. TypeOK'
    BY <1>1, <1>4 DEF IInv, TypeOK
  <2>2. OwnVideo' /\ Queued' /\ NotYet' /\ Sending'
    BY <1>1, <1>4 DEF IInv, OwnVideo, Queued, NotYet, Unserved, Sending
  <2>3. InSync(Received)' /\ Writer'
    BY <1>1, <1>4 DEF IInv, Received, Writer, Continues, Piece
  <2> QED
    BY <2>1, <2>2, <2>3 DEF IInv
<1> QED
  BY <1>1, <1>2, <1>3, <1>4

LEMMA NextKeeps == IInv /\ [Next]_vars => IInv'
<1> SUFFICES ASSUME IInv, [Next]_vars PROVE IInv'
  OBVIOUS
<1>1. CASE Poll
  BY <1>1, PollKeeps
<1>2. CASE AcceptStream
  BY <1>2, AcceptStreamKeeps
<1>3. CASE StreamClient
  BY <1>3, StreamClientKeeps
<1>4. CASE \E src \in Sources \cup {None} : MediaSync(src)
  BY <1>4, MediaSyncKeeps
<1>5. CASE \E c \in Consumers : \/ ClientConnect(c) \/ ClientClose(c)
                                \/ ClientRead(c) \/ AppConnect(c)
  BY <1>5, ClientConnectKeeps, ClientCloseKeeps, AppConnectKeeps
<1>6. CASE AppEnds \/ AppExits
  BY <1>6, AppLeavesKeeps
<1>7. CASE TakeStream
  BY <1>7, TakeStreamKeeps
<1>8. CASE UNCHANGED vars
  BY <1>8, StutterKeeps
<1> QED
  BY <1>1, <1>2, <1>3, <1>4, <1>5, <1>6, <1>7, <1>8 DEF Next, Loop

LEMMA Inductive == Spec => []IInv
<1> QED
  BY InitIInv, NextKeeps, PTL DEF Spec

-----------------------------------------------------------------------------
(* The globals of the video path keep their types, its buffers their       *)
(* sizes, and the consumer is an open connection: no descriptor of a       *)
(* closed one is polled or written to (managerd.c:728).                    *)
THEOREM StreamTypes == Spec => []TypeOK
<1>1. IInv => TypeOK
  BY DEF IInv
<1> QED
  BY <1>1, Inductive, PTL

LEMMA InSyncFollows == IInv => ReaderInSync
<1> SUFFICES ASSUME IInv PROVE ReaderInSync
  OBVIOUS
<1> DEFINE s == Received
<1>1. app.acc \in Seq(Pieces) /\ pipe \in Seq(Pieces) /\ InSync(s)
  BY DEF IInv, TypeOK
<1>2. s \in Seq(Pieces) /\ Len(s) \in Nat
  BY <1>1, ConcatProperties, LenProperties DEF Received
<1> HIDE DEF s
<1>3. s # <<>> => s[1].part = 1
  BY <1>1 DEF InSync, Starts
<1>4. \A i \in 1..Len(s) - 1 : Follows(s[i + 1], s[i])
  <2> SUFFICES ASSUME NEW i \in 1..Len(s) - 1
               PROVE  Follows(s[i + 1], s[i])
    OBVIOUS
  <2>1. i \in 1..Len(s) /\ i + 1 \in 1..Len(s) /\ i <= i + 1 /\ (i + 1) - i = 1
    BY <1>2
  <2>2. s[i] \in Pieces /\ s[i + 1] \in Pieces
    BY <2>1, <1>2, ElementOfSeq
  <2>3. s[i].part \in Nat /\ s[i].len \in Nat
    BY <2>2, PieceType
  <2>4. CASE s[i].part < s[i].len
    <3>1. s[i].part + ((i + 1) - i) <= s[i].len
      BY <2>1, <2>3, <2>4
    <3>2. /\ s[i + 1].src = s[i].src /\ s[i + 1].bit = s[i].bit
          /\ s[i + 1].len = s[i].len
          /\ s[i + 1].part = s[i].part + ((i + 1) - i)
      BY <3>1, <2>1, <1>1 DEF InSync, Runs
    <3>3. s[i + 1].part = s[i].part + 1
      BY <3>2, <2>1
    <3>4. s[i + 1] = [s[i] EXCEPT !.part = s[i].part + 1]
      BY <3>2, <3>3, <2>2 DEF Pieces
    <3> QED
      BY <3>4, <2>2, <2>4 DEF Follows, Pieces
  <2>5. CASE ~(s[i].part < s[i].len)
    <3>1. s[i].part <= s[i].len
      BY <2>1, <1>1 DEF InSync, Sound
    <3>2. s[i].part = s[i].len
      BY <3>1, <2>3, <2>5
    <3> QED
      BY <3>2, <2>5, <1>1 DEF InSync, Turns, Follows
  <2> QED
    BY <2>4, <2>5
<1> QED
  BY <1>3, <1>4 DEF ReaderInSync, Received, s

(* The cluster never meets a piece that is no header where a frame should  *)
(* begin, nor a frame cut short, doubled or left out, whatever the number  *)
(* of phones and clients and wherever a send or a recv stops               *)
(* (managerd.c:732, cluster/main.c:61).                                    *)
THEOREM StreamInSync == Spec => []ReaderInSync
<1> QED
  BY InSyncFollows, Inductive, PTL

LEMMA OnlyPollBegins == IInv /\ [Next]_vars => [BeginsOwnVideo]_vars
<1> SUFFICES ASSUME IInv, Next, frame'.busy, ~frame.busy
             PROVE  source # None /\ frame'.src = source
  BY DEF BeginsOwnVideo, vars, manager
<1>1. CASE Poll
  <2>1. ConsiderFrame /\ OwnVideo
    BY <1>1 DEF Poll, IInv
  <2>2. PICK r \in Delivered :
          \/ UNCHANGED frame
          \/ /\ source # None
             /\ \/ r # None /\ Begin(r, MediaLen[r])
                \/ Begin(source, FrameLen)
    BY <2>1 DEF ConsiderFrame
  <2>3. r # None => r = source
    BY <2>1 DEF Delivered, OwnVideo
  <2> QED
    BY <2>2, <2>3 DEF Begin
<1>2. CASE AcceptStream
  BY <1>2, IdleType DEF AcceptStream, IInv
<1>3. CASE StreamClient
  BY <1>3, IdleType DEF StreamClient, Drop, Writes, IInv
<1>4. CASE \E src \in Sources \cup {None} : MediaSync(src)
  BY <1>4 DEF MediaSync
<1>5. CASE \E c \in Consumers : \/ ClientConnect(c) \/ ClientClose(c)
                                \/ ClientRead(c) \/ AppConnect(c)
  BY <1>5 DEF ClientConnect, ClientClose, ClientRead, AppConnect, Connect,
              manager
<1>6. CASE AppEnds \/ AppExits \/ TakeStream
  BY <1>6 DEF AppEnds, AppExits, AppLeaves, TakeStream, manager
<1> QED
  BY <1>1, <1>2, <1>3, <1>4, <1>5, <1>6 DEF Next, Loop

(* No frame of a former session is begun after the session has changed,    *)
(* for any number of phones (media_stop, managerd.c:108).                  *)
THEOREM FrameOfSessionOnly == Spec => FrameOfSession
<1> QED
  BY OnlyPollBegins, Inductive, PTL DEF Spec, FrameOfSession
=============================================================================
