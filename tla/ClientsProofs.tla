----------------------------- MODULE ClientsProofs ----------------------------
(***************************************************************************)
(* Proofs about Clients, for any number of applications, tools and slots,  *)
(* sockets and buffers of any size that holds a line, and any number of    *)
(* presses and crashes.                                                    *)
(*                                                                         *)
(* That nobody is left with an old state needs to know who can be written  *)
(* to: a connection has one entry at the manager, whose other end is open, *)
(* and a client that still has to be read as subscribing has not been      *)
(* sent anything, so that its socket has room for the state it is owed.    *)
(***************************************************************************)
EXTENDS Clients, SequenceFacts

(* What is on its way and read, but not taken as lines yet. *)
Unread(rx) == rx.buf \o rx.rest

(* Lines of one character. *)
Lines(t) == \A i \in 1..Len(t) : t[i] = LF <=> i % 2 = 0

Whole(t) == Len(t) % 2 = 0 /\ Lines(t)

(* The last state line of a text, `old` if there is none. *)
States(t) == {i \in 1..Len(t) : t[i] \in Values}

Latest(t, old) == IF States(t) = {} THEN old ELSE t[Max(States(t))]

Commands == Values \cup {SUB, STATUS}

(* An entry of the manager.  A subscription still to be read is the first   *)
(* line of an application that was not sent anything.                      *)
PeerSound(p, l) ==
  /\ Len(p.rx.buf) <= 1
  /\ Whole(Unread(p.rx))
  /\ \A i \in 1..Len(Unread(p.rx)) : Unread(p.rx)[i] \in Commands \cup {LF}
  /\ p.owner # None => l[p.owner] # None /\ ~l[p.owner].ended
  /\ p.owner \in Tools => ~p.sub
  /\ \A i \in 1..Len(Unread(p.rx)) :
       Unread(p.rx)[i] = SUB => /\ i = 1 /\ ~p.sub /\ p.owner \notin Tools
                                /\ p.owner # None => l[p.owner] = NewLink

LinkSound(e) == /\ Len(e.rx.rest) <= SockBuf
                /\ Len(e.rx.buf) <= PeerBuf
                /\ Whole(Unread(e.rx))

(* A connection has one entry, in a slot or waiting. *)
OneEntry(sl, b) ==
  /\ \A s, t \in Slots :
       sl[s] # None /\ sl[t] # None /\ sl[s].owner # None
         => (sl[s].owner = sl[t].owner => s = t)
  /\ \A i, j \in 1..Len(b) :
       b[i].owner # None => (b[i].owner = b[j].owner => i = j)
  /\ \A s \in Slots, i \in 1..Len(b) :
       sl[s] # None /\ sl[s].owner # None => sl[s].owner # b[i].owner

Sound(sl, l, b) ==
  /\ b \in Seq(Peer) /\ Len(b) <= Backlog
  /\ sl \in [Slots -> Peer \cup {None}]
  /\ l \in [Clients -> Link \cup {None}]
  /\ \A s \in Slots : sl[s] # None => PeerSound(sl[s], l)
  /\ \A i \in 1..Len(b) : PeerSound(b[i], l) /\ ~b[i].sub
  /\ \A c \in Clients : l[c] # None => LinkSound(l[c])
  /\ OneEntry(sl, b)

(* Every subscriber was sent the session last. *)
AllTold(v, sl, l, sh) ==
  \A s \in Slots :
    sl[s] # None /\ sl[s].sub /\ sl[s].owner # None
      => Latest(Unread(l[sl[s].owner].rx), sh[sl[s].owner]) = v

IInv == /\ session \in Values
        /\ shown \in [Clients -> Values \cup {None, 0, 1}]
        /\ presses \in 0..Presses
        /\ crashes \in 0..Crashes
        /\ Sound(slot, link, backlog)
        /\ AllTold(session, slot, link, shown)


-----------------------------------------------------------------------------
(* The characters. *)
LEMMA Constants ==
  /\ Values \subseteq Nat /\ Initial \in Values
  /\ LF \notin Values /\ SUB \notin Values /\ STATUS \notin Values
  /\ OK \notin Values /\ CR \notin Bytes
  /\ LF \in Nat /\ LF # SUB /\ LF # STATUS /\ LF # OK /\ SUB # STATUS
  /\ None \notin Clients /\ None \notin Peer /\ None \notin Link /\ Apps \cap Tools = {}
  /\ SockBuf \in Nat /\ SockBuf >= 2 /\ PeerBuf \in Nat /\ PeerBuf >= 2
<1>1. \A v \in Values : v \in 48..57
  BY ClientsAssumption
<1>2. \A v \in Values : /\ v \in Nat
                        /\ v # 10 /\ v # 13 /\ v # 115 /\ v # 63 /\ v # 111
  BY <1>1
<1>3. 13 \notin Bytes
  BY <1>2 DEF Bytes, SUB, STATUS, OK, LF
<1> QED
  BY <1>2, <1>3, ClientsAssumption DEF SUB, STATUS, OK, LF, CR

(* The ends of lines of one character are at the even places. *)
LEMMA EndsOfLines ==
  ASSUME NEW buf \in Seq(Bytes), Lines(buf)
  PROVE  Ends(buf) = [k \in 1..Len(buf) \div 2 |-> 2 * k]
<1> DEFINE at == {p \in 1..Len(buf) : buf[p] = LF}
           n == Len(buf) \div 2
           upto(m) == {q \in at : q <= 2 * m}
<1>1. Len(buf) \in Nat /\ n \in Nat /\ 2 * n <= Len(buf) /\ Len(buf) <= 2 * n + 1
  BY LenProperties
<1>2. at = {p \in 1..Len(buf) : p % 2 = 0}
  BY DEF Lines
<1>3. \A p \in at : p \div 2 \in 1..n /\ p = 2 * (p \div 2)
  <2> HIDE DEF n
  <2> QED BY <1>1, <1>2
<1>4. \A k \in 1..n : 2 * k \in at
  <2> HIDE DEF n
  <2>1. \A k \in 1..n : 2 * k \in 1..Len(buf) /\ (2 * k) % 2 = 0
    BY <1>1
  <2> QED BY <1>2, <2>1
<1>5. ASSUME NEW m \in 0..n PROVE Cardinality(upto(m)) = m
  <2> DEFINE f == [k \in 1..m |-> 2 * k]
  <2> HIDE DEF n, at
  <2>1. m \in Nat /\ \A k \in 1..m : k \in 1..n
    BY <1>1
  <2>2. \A k \in 1..m : 2 * k <= 2 * m
    BY <2>1
  <2>3. f \in [1..m -> upto(m)]
    BY <1>4, <2>1, <2>2
  <2>4. \A j, k \in 1..m : f[j] = f[k] => j = k
    BY <2>1
  <2>5. \A q \in upto(m) : q \div 2 \in 1..m /\ f[q \div 2] = q
    <3> TAKE q \in upto(m)
    <3>1. q \in at /\ q <= 2 * m
      OBVIOUS
    <3>2. q \div 2 \in 1..n /\ q = 2 * (q \div 2)
      BY <1>3, <3>1
    <3> DEFINE h == q \div 2
    <3>3. h \in 1..n /\ q = 2 * h
      BY <3>2
    <3> HIDE DEF h
    <3>4. h \in 1..m
      BY <3>1, <3>3, <2>1, <1>1
    <3> QED BY <3>3, <3>4 DEF h
  <2>6. f \in Bijection(1..m, upto(m))
    <3>1. f \in Injection(1..m, upto(m))
      BY <2>3, <2>4 DEF Injection, IsInjective
    <3>2. f \in Surjection(1..m, upto(m))
      BY <2>3, <2>5 DEF Surjection
    <3> QED BY <3>1, <3>2 DEF Bijection
  <2>7. ExistsBijection(1..m, upto(m))
    BY <2>6 DEF ExistsBijection
  <2> HIDE DEF upto
  <2> QED BY <2>1, <2>7, FS_CountingElements
<1>6. Cardinality(at) = n
  <2>1. upto(n) = at
    <3>1. \A p \in at : p <= 2 * n
      <4> HIDE DEF n
      <4>1. \A p \in at : p \in 1..Len(buf) /\ p <= 2 * n
        BY <1>1, <1>3
      <4> QED BY <4>1
    <3> QED BY <3>1
  <2> HIDE DEF upto, at, n
  <2> QED BY <1>1, <1>5, <2>1
<1>7. ASSUME NEW k \in 1..n
      PROVE  (CHOOSE p \in at : Cardinality({q \in at : q <= p}) = k) = 2 * k
  <2>1. \A p \in at : p \div 2 \in 0..n /\ {q \in at : q <= p} = upto(p \div 2)
    <3> TAKE p \in at
    <3>1. p \div 2 \in 0..n /\ p = 2 * (p \div 2)
      BY <1>3
    <3> HIDE DEF n, at
    <3> QED BY <3>1
  <2>2. \A p \in at : Cardinality({q \in at : q <= p}) = p \div 2
    <3> HIDE DEF n, at, upto
    <3> QED BY <2>1, <1>5
  <2>3. (2 * k) \div 2 = k /\ 2 * k \in at
    <3> HIDE DEF n, at
    <3>1. k \in Nat
      BY <1>1
    <3> QED BY <1>4, <3>1
  <2> HIDE DEF n, at
  <2>4. \A p \in at : Cardinality({q \in at : q <= p}) = k <=> p = 2 * k
    BY <2>2, <2>3, <1>3
  <2> QED BY <2>3, <2>4
<1> QED
  BY <1>6, <1>7 DEF Ends, Ranked, UpTo


LEMMA OneOf ==
  ASSUME NEW T, NEW s \in Seq(T), NEW j \in 1..Len(s)
  PROVE  SubSeq(s, j, j) = <<s[j]>>
<1>1. s[j] \in T
  BY ElementOfSeq
<1>2. j \in Int /\ \A i \in j..j : s[i] \in T
  BY <1>1
<1>3. /\ SubSeq(s, j, j) \in Seq(T)
      /\ Len(SubSeq(s, j, j)) = IF j <= j THEN j - j + 1 ELSE 0
      /\ \A i \in 1..j - j + 1 : SubSeq(s, j, j)[i] = s[j + i - 1]
  BY <1>2, SubSeqProperties
<1>4. Len(SubSeq(s, j, j)) = 1 /\ SubSeq(s, j, j)[1] = s[j]
  BY <1>2, <1>3
<1>5. <<s[j]>> \in Seq(T) /\ Len(<<s[j]>>) = 1 /\ <<s[j]>>[1] = s[j]
  BY <1>1
<1>6. \A i \in 1..Len(SubSeq(s, j, j)) : SubSeq(s, j, j)[i] = <<s[j]>>[i]
  BY <1>4, <1>5
<1> QED BY <1>3, <1>4, <1>5, <1>6, SeqEqual

(* What the first lines of a buffer are, and what is left behind them.     *)
LEMMA Dropped ==
  ASSUME NEW t \in Seq(Bytes), NEW k \in 0..Len(t) \div 2
  PROVE  /\ SubSeq(t, 2 * k + 1, Len(t)) \in Seq(Bytes)
         /\ Len(SubSeq(t, 2 * k + 1, Len(t))) = Len(t) - 2 * k
         /\ Len(t) \in Nat /\ 2 * k \in 0..Len(t)
         /\ \A i \in 1..Len(t) - 2 * k :
              /\ SubSeq(t, 2 * k + 1, Len(t))[i] = t[i + 2 * k]
              /\ i + 2 * k \in 1..Len(t)
<1>1. PICK n \in Nat : n = Len(t)
  OBVIOUS
<1>2. PICK m \in Nat : m = 2 * k /\ m <= n
  BY <1>1
<1>3. \A i \in m + 1..n : t[i] \in Bytes
  BY <1>1, <1>2, ElementOfSeq
<1>4. /\ SubSeq(t, m + 1, n) \in Seq(Bytes)
      /\ Len(SubSeq(t, m + 1, n)) = IF m + 1 <= n THEN n - (m + 1) + 1 ELSE 0
      /\ \A i \in 1..n - (m + 1) + 1 :
           SubSeq(t, m + 1, n)[i] = t[(m + 1) + i - 1]
  <2>1. m + 1 \in Int /\ n \in Int
    OBVIOUS
  <2> QED BY <2>1, <1>3, SubSeqProperties
<1>5. /\ n - (m + 1) + 1 = n - m
      /\ \A i \in 1..n - m : (m + 1) + i - 1 = i + m /\ i + m \in 1..n
      /\ (IF m + 1 <= n THEN n - (m + 1) + 1 ELSE 0) = n - m
  BY <1>2
<1>6. /\ SubSeq(t, m + 1, n) \in Seq(Bytes)
      /\ Len(SubSeq(t, m + 1, n)) = n - m
      /\ \A i \in 1..n - m : SubSeq(t, m + 1, n)[i] = t[i + m] /\ i + m \in 1..n
  BY <1>4, <1>5
<1>7. m \in 0..n
  BY <1>2
<1> QED BY <1>1, <1>2, <1>6, <1>7

LEMMA DroppedLines ==
  ASSUME NEW t \in Seq(Bytes), NEW k \in 0..Len(t) \div 2, Lines(t)
  PROVE  /\ Lines(SubSeq(t, 2 * k + 1, Len(t)))
         /\ Whole(t) => Whole(SubSeq(t, 2 * k + 1, Len(t)))
<1> DEFINE u == SubSeq(t, 2 * k + 1, Len(t))
<1>1. /\ Len(u) = Len(t) - 2 * k /\ Len(t) \in Nat /\ k \in Nat
      /\ \A i \in 1..Len(u) : u[i] = t[i + 2 * k] /\ i + 2 * k \in 1..Len(t)
  <2>1. /\ Len(u) = Len(t) - 2 * k /\ Len(t) \in Nat
        /\ \A i \in 1..Len(t) - 2 * k :
             u[i] = t[i + 2 * k] /\ i + 2 * k \in 1..Len(t)
    BY Dropped
  <2> HIDE DEF u
  <2> QED BY <2>1
<1> HIDE DEF u
<1>2. \A i \in 1..Len(u) : (i + 2 * k) % 2 = i % 2
  BY <1>1
<1>3. Lines(u)
  BY <1>1, <1>2 DEF Lines
<1>4. (Len(t) - 2 * k) % 2 = Len(t) % 2
  BY <1>1
<1> QED BY <1>1, <1>3, <1>4 DEF Whole, u

LEMMA FirstPart ==
  ASSUME NEW a \in Seq(Bytes), NEW b \in Seq(Bytes), Lines(a \o b)
  PROVE  Lines(a)
<1>1. Len(a) \in Nat /\ Len(b) \in Nat /\ Len(a \o b) = Len(a) + Len(b)
  OBVIOUS
<1>2. \A i \in 1..Len(a) : (a \o b)[i] = a[i] /\ i \in 1..Len(a \o b)
  BY <1>1
<1> QED BY <1>2 DEF Lines

(* After and Pull on lines of one character. *)
LEMMA Parsed ==
  ASSUME NEW buf \in Seq(Bytes), Lines(buf)
  PROVE  /\ Len(Ends(buf)) = Len(buf) \div 2
         /\ Ends(buf) = <<>> <=> Len(buf) <= 1
         /\ \A k \in 0..Len(buf) \div 2 :
              After(buf, k) = SubSeq(buf, 2 * k + 1, Len(buf))
         /\ \A n \in 0..Len(buf) \div 2 :
              /\ Len(Pull(buf, n, PeerBuf)) = n
              /\ \A k \in 1..n : /\ Pull(buf, n, PeerBuf)[k] = <<buf[2 * k - 1]>>
                                 /\ 2 * k - 1 \in 1..Len(buf)
<1> DEFINE N == Len(buf) \div 2
<1>1. Len(buf) \in Nat /\ N \in Nat /\ 2 * N <= Len(buf) /\ Len(buf) <= 2 * N + 1
  BY LenProperties
<1>2. Ends(buf) = [k \in 1..N |-> 2 * k]
  BY EndsOfLines
<1> HIDE DEF N
<1>3. Len(Ends(buf)) = N
  BY <1>1, <1>2
<1>4. Ends(buf) = <<>> <=> Len(buf) <= 1
  <2>1. N = 0 <=> Len(buf) <= 1
    BY <1>1
  <2>2. Ends(buf) \in Seq(Nat)
    BY <1>1, <1>2
  <2> QED BY <2>1, <2>2, <1>3, EmptySeq
<1>5. ASSUME NEW k \in 0..N
      PROVE  After(buf, k) = SubSeq(buf, 2 * k + 1, Len(buf))
  <2>1. CASE k = 0
    BY <2>1, SubSeqFull DEF After
  <2>2. CASE k # 0
    <3>1. k \in 1..N
      BY <1>1, <2>2
    <3> QED BY <3>1, <2>2, <1>2 DEF After
  <2> QED BY <2>1, <2>2
<1>6. ASSUME NEW n \in 0..N
      PROVE  /\ Len(Pull(buf, n, PeerBuf)) = n
             /\ \A k \in 1..n : /\ Pull(buf, n, PeerBuf)[k] = <<buf[2 * k - 1]>>
                                /\ 2 * k - 1 \in 1..Len(buf)
  <2> DEFINE from(i) == IF i = 1 THEN 1 ELSE Ends(buf)[i - 1] + 1
             line(i) == Chomp(Cut(SubSeq(buf, from(i), Ends(buf)[i] - 1), PeerBuf))
  <2>1. Pull(buf, n, PeerBuf) = [i \in 1..n |-> line(i)]
    BY DEF Pull
  <2>2. ASSUME NEW k \in 1..n
        PROVE  line(k) = <<buf[2 * k - 1]>> /\ 2 * k - 1 \in 1..Len(buf)
    <3>1. k \in 1..N /\ k - 1 \in Int
      BY <1>1
    <3>2. Ends(buf)[k] - 1 = 2 * k - 1
      BY <3>1, <1>2
    <3>3. from(k) = 2 * k - 1
      <4>1. CASE k = 1
        BY <4>1
      <4>2. CASE k # 1
        <5>1. k - 1 \in 1..N
          BY <3>1, <4>2, <1>1
        <5>2. Ends(buf)[k - 1] = 2 * (k - 1)
          BY <5>1, <1>2
        <5>3. 2 * (k - 1) + 1 = 2 * k - 1
          BY <3>1
        <5> QED BY <4>2, <5>2, <5>3
      <4> QED BY <4>1, <4>2
    <3>4. PICK j \in 1..Len(buf) : j = 2 * k - 1
      BY <3>1, <1>1
    <3>5. SubSeq(buf, j, j) = <<buf[j]>>
      BY ElementOfSeq, OneOf
    <3>6. Cut(<<buf[j]>>, PeerBuf) = <<buf[j]>>
      <4>1. Len(<<buf[j]>>) = 1 /\ 1 < PeerBuf
        BY Constants
      <4>2. SubSeq(<<buf[j]>>, 1, 1) = <<buf[j]>>
        <5>1. <<buf[j]>> \in Seq(Bytes) /\ Len(<<buf[j]>>) = 1
          BY ElementOfSeq
        <5>2. <<buf[j]>>[1] = buf[j] /\ 1 \in 1..Len(<<buf[j]>>)
          BY <5>1
        <5> QED BY <5>1, <5>2, OneOf
      <4> QED BY <4>1, <4>2 DEF Cut
    <3>7. Chomp(<<buf[j]>>) = <<buf[j]>>
      <4>1. buf[j] # CR
        BY ElementOfSeq, Constants
      <4>2. Last(<<buf[j]>>) = buf[j]
        BY DEF Last
      <4> QED BY <4>1, <4>2 DEF Chomp
    <3> HIDE DEF from
    <3> QED BY <3>2, <3>3, <3>4, <3>5, <3>6, <3>7
  <2> HIDE DEF line
  <2>3. Len(Pull(buf, n, PeerBuf)) = n
    BY <2>1, <1>1
  <2> QED BY <2>1, <2>2, <2>3
<1> QED BY <1>3, <1>4, <1>5, <1>6 DEF N


(* Reading moves bytes from the socket to the buffer, ...                  *)
LEMMA Received ==
  ASSUME NEW r \in Rx, Len(r.buf) <= PeerBuf
  PROVE  /\ Recv(r, PeerBuf) \in Rx
         /\ Unread(Recv(r, PeerBuf)) = Unread(r)
         /\ Len(Recv(r, PeerBuf).buf) <= PeerBuf
         /\ Len(Recv(r, PeerBuf).rest) <= Len(r.rest)
<1>1. PICK a \in Seq(Bytes), p \in Seq(Bytes) : a = r.buf /\ p = r.rest
  BY DEF Rx
<1>2. Len(a) \in Nat /\ Len(p) \in Nat
  BY LenProperties
<1>3. PICK got \in 0..Len(p) :
        got = Min({PeerBuf - Len(a), Len(p)}) /\ got <= PeerBuf - Len(a)
  <2>1. PeerBuf - Len(a) \in Nat
    BY <1>1, <1>2, Constants
  <2>2. PICK g : g = Min({PeerBuf - Len(a), Len(p)})
    OBVIOUS
  <2>3. g = IF PeerBuf - Len(a) <= Len(p) THEN PeerBuf - Len(a) ELSE Len(p)
    BY <1>2, <2>1, <2>2, MinOfTwo
  <2>4. g \in 0..Len(p) /\ g <= PeerBuf - Len(a)
    BY <1>2, <2>1, <2>3
  <2> QED BY <2>2, <2>4
<1> DEFINE q == SubSeq(p, got + 1, Len(p))
           b == a \o SubSeq(p, 1, got)
<1>4. Recv(r, PeerBuf) = [rest |-> q, buf |-> b]
  BY <1>1, <1>3 DEF Recv
<1>5. /\ b \in Seq(Bytes) /\ Len(b) = Len(a) + got
      /\ q \in Seq(Bytes) /\ Len(q) = Len(p) - got
  BY MovePieces
<1>6. b \o q = a \o p
  <2>1. PICK w : w = a \o SubSeq(p, 1, got)
    OBVIOUS
  <2>2. w \o SubSeq(p, got + 1, Len(p)) = a \o p
    BY <2>1, KeepOrder
  <2> QED BY <2>1, <2>2
<1> HIDE DEF b, q
<1>7. PICK z : z = Recv(r, PeerBuf) /\ z = [rest |-> q, buf |-> b]
  BY <1>4
<1>8. z \in Rx /\ z.buf = b /\ z.rest = q
  BY <1>5, <1>7 DEF Rx
<1>9. Unread(z) = Unread(r)
  BY <1>1, <1>6, <1>8 DEF Unread
<1>10. Len(b) <= PeerBuf /\ Len(q) <= Len(p)
  BY <1>2, <1>3, <1>5, Constants, SMTT(30)
<1> QED BY <1>1, <1>7, <1>8, <1>9, <1>10

(* ... sending adds them at the end, ...                                   *)
LEMMA Sending ==
  ASSUME NEW r \in Rx, NEW text \in Seq(Bytes)
  PROVE  /\ [r EXCEPT !.rest = @ \o text] \in Rx
         /\ [r EXCEPT !.rest = @ \o text].buf = r.buf
         /\ [r EXCEPT !.rest = @ \o text].rest = r.rest \o text
         /\ Unread([r EXCEPT !.rest = @ \o text]) = Unread(r) \o text
<1>1. r.buf \in Seq(Bytes) /\ r.rest \in Seq(Bytes)
  BY DEF Rx
<1>2. r.rest \o text \in Seq(Bytes)
  BY <1>1
<1>3. PICK s : s = [r EXCEPT !.rest = @ \o text]
  OBVIOUS
<1>4. s = [rest |-> r.rest \o text, buf |-> r.buf]
  BY <1>3 DEF Rx
<1>5. \A x, y, z \in Seq(Bytes) : x \o (y \o z) = (x \o y) \o z
  OBVIOUS
<1>6. PICK x \in Seq(Bytes), y \in Seq(Bytes) : x = r.buf /\ y = r.rest
  BY <1>1
<1>7. x \o (y \o text) = (x \o y) \o text
  BY <1>5
<1>8. Unread(s) = Unread(r) \o text
  BY <1>4, <1>6, <1>7 DEF Unread
<1>9. s \in Rx
  BY <1>1, <1>2, <1>4 DEF Rx
<1> QED BY <1>3, <1>4, <1>8, <1>9

(* ... and taking lines removes them at the front.                         *)
LEMMA Taking ==
  ASSUME NEW r \in Rx, Lines(r.buf), NEW k \in 0..Len(r.buf) \div 2
  PROVE  /\ [r EXCEPT !.buf = After(@, k)] \in Rx
         /\ [r EXCEPT !.buf = After(@, k)].rest = r.rest
         /\ [r EXCEPT !.buf = After(@, k)].buf = After(r.buf, k)
         /\ Len(After(r.buf, k)) = Len(r.buf) - 2 * k
         /\ Unread([r EXCEPT !.buf = After(@, k)])
              = SubSeq(Unread(r), 2 * k + 1, Len(Unread(r)))
         /\ k \in 0..Len(Unread(r)) \div 2
<1>1. PICK a \in Seq(Bytes), q \in Seq(Bytes) : a = r.buf /\ q = r.rest
  BY DEF Rx
<1>2. PICK m \in 0..Len(a) : m = 2 * k
  BY <1>1, Dropped
<1>3. /\ SubSeq(a, m + 1, Len(a)) \in Seq(Bytes)
      /\ Len(SubSeq(a, m + 1, Len(a))) = Len(a) - m
      /\ SubSeq(a, m + 1, Len(a)) \o q = SubSeq(a \o q, m + 1, Len(a \o q))
  BY TakeFront, ZenonT(40)
<1>4. After(r.buf, k) = SubSeq(a, m + 1, Len(a))
  BY <1>1, <1>2, Parsed
<1>5. PICK s : s = [r EXCEPT !.buf = After(@, k)]
  OBVIOUS
<1>6. s = [rest |-> q, buf |-> SubSeq(a, m + 1, Len(a))]
  BY <1>1, <1>4, <1>5 DEF Rx
<1>7. Unread(s) = SubSeq(Unread(r), 2 * k + 1, Len(Unread(r)))
  BY <1>1, <1>2, <1>3, <1>6 DEF Unread
<1>8. s \in Rx
  BY <1>3, <1>6 DEF Rx
<1>9. k \in 0..Len(Unread(r)) \div 2
  <2>1. Len(a \o q) = Len(a) + Len(q) /\ Len(a) \in Nat /\ Len(q) \in Nat
    BY LenProperties, ConcatProperties
  <2>2. PICK l \in Nat, n \in Nat : l = Len(a) /\ n = Len(q)
    BY <2>1
  <2>3. k \in 0..l \div 2
    BY <1>1, <2>2
  <2>4. k \in 0..(l + n) \div 2
    BY <2>3
  <2>5. Len(Unread(r)) = l + n
    BY <1>1, <2>1, <2>2 DEF Unread
  <2> QED BY <2>4, <2>5
<1> QED BY <1>1, <1>2, <1>3, <1>4, <1>5, <1>6, <1>7, <1>8, <1>9

(* A line at the end of whole lines. *)
LEMMA LineAdded ==
  ASSUME NEW t \in Seq(Bytes), Whole(t), NEW x \in Bytes, x # LF
  PROVE  /\ t \o Text(x) \in Seq(Bytes) /\ Whole(t \o Text(x))
         /\ Len(t) \in Nat /\ Len(t \o Text(x)) = Len(t) + 2
         /\ \A i \in 1..Len(t) : (t \o Text(x))[i] = t[i]
         /\ (t \o Text(x))[Len(t) + 1] = x /\ (t \o Text(x))[Len(t) + 2] = LF
         /\ \A i \in 1..Len(t) + 2 :
              i \in 1..Len(t) \/ i = Len(t) + 1 \/ i = Len(t) + 2
<1> DEFINE u == t \o Text(x)
<1>1. PICK n \in Nat : n = Len(t)
  OBVIOUS
<1>2. LF \in Bytes
  BY DEF Bytes
<1>3. /\ Text(x) \in Seq(Bytes) /\ Len(Text(x)) = 2
      /\ Text(x)[1] = x /\ Text(x)[2] = LF
  BY <1>2 DEF Text
<1>4. /\ u \in Seq(Bytes) /\ Len(u) = n + 2
      /\ \A i \in 1..n : u[i] = t[i]
      /\ u[n + 1] = x /\ u[n + 2] = LF
  <2>1. /\ u \in Seq(Bytes) /\ Len(u) = n + 2
        /\ \A i \in 1..n + 2 :
             u[i] = IF i <= n THEN t[i] ELSE Text(x)[i - n]
    <3>1. PICK y \in Seq(Bytes) : y = Text(x)
      BY <1>3
    <3>2. /\ t \o y \in Seq(Bytes) /\ Len(t \o y) = Len(t) + Len(y)
          /\ \A i \in 1..Len(t) + Len(y) :
               (t \o y)[i] = IF i <= Len(t) THEN t[i] ELSE y[i - Len(t)]
      BY ConcatProperties
    <3>3. u = t \o y /\ Len(y) = 2
      BY <1>3, <3>1
    <3> HIDE DEF u
    <3> QED BY <1>1, <3>1, <3>2, <3>3
  <2>2. /\ \A i \in 1..n : i \in 1..n + 2 /\ i <= n
        /\ n + 1 \in 1..n + 2 /\ ~(n + 1 <= n) /\ (n + 1) - n = 1
        /\ n + 2 \in 1..n + 2 /\ ~(n + 2 <= n) /\ (n + 2) - n = 2
    OBVIOUS
  <2> HIDE DEF u
  <2>3. u[n + 1] = Text(x)[1] /\ u[n + 2] = Text(x)[2]
    BY <2>1, <2>2
  <2>4. \A i \in 1..n : u[i] = t[i]
    BY <2>1, <2>2
  <2> QED BY <2>1, <2>3, <2>4, <1>3
<1> HIDE DEF u
<1>5. \A i \in 1..n + 2 : i \in 1..n \/ i = n + 1 \/ i = n + 2
  OBVIOUS
<1>6. n % 2 = 0 /\ (n + 1) % 2 = 1 /\ (n + 2) % 2 = 0
  BY <1>1 DEF Whole
<1>7. Whole(u)
  <2>1. \A i \in 1..n : u[i] = LF <=> i % 2 = 0
    BY <1>1, <1>4 DEF Whole, Lines
  <2> QED BY <2>1, <1>4, <1>5, <1>6 DEF Whole, Lines
<1> QED BY <1>1, <1>4, <1>5, <1>7 DEF u

(* What it does to the last state in the text: a state line is it, *)
LEMMA StateAdded ==
  ASSUME NEW t \in Seq(Bytes), Whole(t), NEW v \in Values, NEW old
  PROVE  Latest(t \o Text(v), old) = v
<1>1. v \in Bytes /\ v # LF
  BY Constants DEF Bytes
<1> DEFINE u == t \o Text(v)
           n == Len(t)
<1>2. /\ n \in Nat /\ Len(u) = n + 2 /\ u[n + 1] = v /\ u[n + 2] = LF
      /\ \A i \in 1..n + 2 : i \in 1..n \/ i = n + 1 \/ i = n + 2
  BY <1>1, LineAdded
<1> HIDE DEF u, n
<1>3. n + 1 \in States(u) /\ n + 2 \notin States(u)
  BY <1>2, Constants DEF States
<1>4. \A i \in States(u) : i <= n + 1
  BY <1>2, <1>3 DEF States
<1>5. States(u) \in SUBSET Int
  BY DEF States
<1>6. Max(States(u)) = n + 1
  BY <1>3, <1>4, <1>5, MaxIs
<1> QED BY <1>2, <1>3, <1>6 DEF Latest, u

(* another one leaves it. *)
LEMMA OtherAdded ==
  ASSUME NEW t \in Seq(Bytes), Whole(t), NEW x \in Bytes \ Values, x # LF,
         NEW old
  PROVE  Latest(t \o Text(x), old) = Latest(t, old)
<1> DEFINE u == t \o Text(x)
           n == Len(t)
<1>2. /\ n \in Nat /\ Len(u) = n + 2 /\ u[n + 1] = x /\ u[n + 2] = LF
      /\ \A i \in 1..n : u[i] = t[i]
      /\ \A i \in 1..n + 2 : i \in 1..n \/ i = n + 1 \/ i = n + 2
  BY LineAdded
<1>3. \A i \in 1..n : i \in 1..n + 2
  BY <1>2
<1>4. States(u) = States(t)
  <2> HIDE DEF u
  <2>1. \A i : i \in States(u) => i \in States(t)
    BY <1>2, Constants DEF States, n
  <2>2. \A i : i \in States(t) => i \in States(u)
    BY <1>2, <1>3 DEF States, n
  <2> QED BY <2>1, <2>2
<1>5. States(t) # {} => Max(States(t)) \in 1..n
  <2>1. States(t) \in SUBSET (1..n)
    BY DEF States
  <2>2. ASSUME States(t) # {}
        PROVE  \E i \in States(t) : \A j \in States(t) : j <= i
    BY <1>2, <2>1, <2>2, GreatestOf
  <2>3. ASSUME NEW i \in States(t), \A j \in States(t) : j <= i
        PROVE  Max(States(t)) \in 1..n
    <3>1. States(t) \in SUBSET Int
      BY <1>2, <2>1
    <3> QED BY <2>1, <2>3, <3>1, MaxIs
  <2> QED BY <2>2, <2>3
<1> HIDE DEF u
<1>6. States(t) # {} => u[Max(States(t))] = t[Max(States(t))]
  BY <1>2, <1>5
<1> QED BY <1>4, <1>6 DEF Latest, u


(* A client that takes the first line and shows it if it is a state.       *)
LEMMA StateTaken ==
  ASSUME NEW t \in Seq(Bytes), Whole(t), 1 \in 0..Len(t) \div 2, NEW old
  PROVE  Latest(SubSeq(t, 2 * 1 + 1, Len(t)),
                IF t[1] \in Values THEN t[1] ELSE old) = Latest(t, old)
<1> DEFINE u == SubSeq(t, 2 * 1 + 1, Len(t))
           next == IF t[1] \in Values THEN t[1] ELSE old
<1>1. PICK n \in Nat : n = Len(t)
  BY LenProperties
<1>2. /\ u \in Seq(Bytes) /\ Len(u) = n - 2 * 1 /\ 2 * 1 \in 0..n
      /\ \A i \in 1..n - 2 * 1 : u[i] = t[i + 2 * 1] /\ i + 2 * 1 \in 1..n
  BY <1>1, Dropped
<1> HIDE DEF u
<1>3. /\ Len(u) = n - 2 /\ 2 <= n
      /\ \A i \in 1..n - 2 : u[i] = t[i + 2] /\ i + 2 \in 1..n
  BY <1>2
<1>4. t[2] = LF /\ LF \notin Values
  <2>1. 2 \in 1..n /\ 2 % 2 = 0
    BY <1>3
  <2> QED BY <2>1, <1>1, Constants DEF Whole, Lines
<1>5. \A i \in States(u) : i \in 1..n - 2 /\ i + 2 \in States(t)
  BY <1>1, <1>3 DEF States
<1>6. \A i \in States(t) : i = 1 \/ (i - 2 \in States(u) /\ i \in Nat)
  <2> TAKE i \in States(t)
  <2>1. i \in 1..n /\ t[i] \in Values
    BY <1>1 DEF States
  <2>2. i # 2
    BY <1>4, <2>1
  <2>3. i = 1 \/ (i - 2 \in 1..n - 2 /\ (i - 2) + 2 = i)
    BY <2>1, <2>2
  <2> QED BY <2>1, <2>3, <1>3 DEF States
<1>7. 1 \in States(t) <=> t[1] \in Values
  BY <1>1, <1>3 DEF States
<1>8. CASE States(u) = {}
  <2>1. \A i \in States(t) : i = 1
    BY <1>6, <1>8
  <2>2. CASE t[1] \in Values
    <3>1. States(t) \in SUBSET Int /\ 1 \in States(t)
      BY <1>7, <2>2 DEF States
    <3>2. \A i \in States(t) : i <= 1
      BY <2>1
    <3>3. Max(States(t)) = 1
      BY <3>1, <3>2, MaxIs
    <3>4. Latest(t, old) = t[1]
      BY <3>1, <3>3 DEF Latest
    <3> QED BY <3>4, <1>8, <2>2 DEF Latest, u
  <2>3. CASE t[1] \notin Values
    <3>1. States(t) = {}
      BY <2>1, <1>7, <2>3
    <3> QED BY <3>1, <1>8, <2>3 DEF Latest, u
  <2> QED BY <2>2, <2>3
<1>9. CASE States(u) # {}
  <2>1. States(u) \in SUBSET (1..n - 2) /\ n - 2 \in Nat
    BY <1>3, <1>5
  <2>2. PICK k \in States(u) : \A i \in States(u) : i <= k
    BY <2>1, <1>9, GreatestOf
  <2>3. k \in 1..n - 2 /\ k + 2 \in States(t)
    BY <2>2, <1>5
  <2>4. \A i \in States(t) : i <= k + 2
    <3> TAKE i \in States(t)
    <3>1. CASE i = 1
      BY <3>1, <2>3
    <3>2. CASE i - 2 \in States(u) /\ i \in Nat
      <4>1. i - 2 <= k
        BY <3>2, <2>2
      <4> QED BY <4>1, <3>2, <2>3
    <3> QED BY <3>1, <3>2, <1>6
  <2>5. States(u) \in SUBSET Int /\ States(t) \in SUBSET Int
    BY DEF States
  <2>6. Max(States(u)) = k
    BY <2>2, <2>5, MaxIs
  <2>7. Max(States(t)) = k + 2
    BY <2>3, <2>4, <2>5, MaxIs
  <2>8. u[k] = t[k + 2]
    BY <2>3, <1>3
  <2> QED BY <2>3, <2>6, <2>7, <2>8, <1>9 DEF Latest, u
<1> QED BY <1>8, <1>9

-----------------------------------------------------------------------------
(* Entries and connections. *)
Quiet(p) == \A i \in 1..Len(Unread(p.rx)) : Unread(p.rx)[i] # SUB

LEMMA EntryType ==
  ASSUME NEW p \in Peer
  PROVE  /\ p.owner \in Clients \cup {None} /\ p.sub \in BOOLEAN /\ p.rx \in Rx
         /\ p.rx.rest \in Seq(Bytes) /\ p.rx.buf \in Seq(Bytes)
         /\ Unread(p.rx) \in Seq(Bytes)
         /\ p # None
<1>1. /\ p.owner \in Clients \cup {None} /\ p.sub \in BOOLEAN /\ p.rx \in Rx
  BY DEF Peer
<1>2. p.rx.rest \in Seq(Bytes) /\ p.rx.buf \in Seq(Bytes)
  BY <1>1 DEF Rx
<1> QED BY <1>1, <1>2, Constants DEF Unread

LEMMA LinkType ==
  ASSUME NEW e \in Link
  PROVE  /\ e.rx \in Rx /\ e.ended \in BOOLEAN
         /\ e.rx.rest \in Seq(Bytes) /\ e.rx.buf \in Seq(Bytes)
         /\ Unread(e.rx) \in Seq(Bytes)
<1>1. e.rx \in Rx /\ e.ended \in BOOLEAN
  BY DEF Link
<1>2. e.rx.rest \in Seq(Bytes) /\ e.rx.buf \in Seq(Bytes)
  BY <1>1 DEF Rx
<1> QED BY <1>1, <1>2 DEF Unread


(* An entry stays sound while its connection does, and is not sent          *)
(* anything before it has subscribed.                                      *)
LEMMA SoundWith ==
  ASSUME NEW p \in Peer, NEW l, NEW m, PeerSound(p, l),
         p.owner # None =>
           \/ m[p.owner] = l[p.owner]
           \/ m[p.owner] # None /\ ~m[p.owner].ended /\ Quiet(p)
  PROVE  PeerSound(p, m)
<1>1. p.owner # None => m[p.owner] # None /\ ~m[p.owner].ended
  BY DEF PeerSound
<1>2. ASSUME NEW i \in 1..Len(Unread(p.rx)), Unread(p.rx)[i] = SUB
      PROVE  /\ i = 1 /\ ~p.sub /\ p.owner \notin Tools
             /\ p.owner # None => m[p.owner] = NewLink
  <2>1. /\ i = 1 /\ ~p.sub /\ p.owner \notin Tools
        /\ p.owner # None => l[p.owner] = NewLink
    BY <1>2 DEF PeerSound
  <2>2. ~Quiet(p)
    BY <1>2 DEF Quiet
  <2> QED BY <2>1, <2>2
<1> QED BY <1>1, <1>2 DEF PeerSound

LEMMA SubscriberQuiet ==
  ASSUME NEW p, NEW l, PeerSound(p, l), p.sub
  PROVE  Quiet(p)
BY DEF PeerSound, Quiet

(* A connection that is sent a line. *)
Sent(e, x) == [e EXCEPT !.rx.rest = @ \o Text(x)]

LEMMA LineSent ==
  ASSUME NEW e \in Link, LinkSound(e), NEW x \in Bytes, x # LF,
         Holds(e.rx, Text(x))
  PROVE  /\ Sent(e, x) \in Link /\ LinkSound(Sent(e, x))
         /\ Sent(e, x).ended = e.ended
         /\ Unread(Sent(e, x).rx) = Unread(e.rx) \o Text(x)
<1>1. /\ e.rx \in Rx /\ e.ended \in BOOLEAN
      /\ e.rx.rest \in Seq(Bytes) /\ e.rx.buf \in Seq(Bytes)
      /\ Unread(e.rx) \in Seq(Bytes)
  BY LinkType
<1>2. Text(x) \in Seq(Bytes) /\ Len(Text(x)) = 2
  BY DEF Text, Bytes
<1>3. PICK r : r = [e.rx EXCEPT !.rest = @ \o Text(x)]
  OBVIOUS
<1>4. /\ r \in Rx /\ r.buf = e.rx.buf /\ r.rest = e.rx.rest \o Text(x)
      /\ Unread(r) = Unread(e.rx) \o Text(x)
  BY <1>1, <1>2, <1>3, Sending
<1>5. Sent(e, x) = [e EXCEPT !.rx = r]
  BY <1>3 DEF Sent, Link
<1>6. Sent(e, x) \in Link /\ Sent(e, x).rx = r /\ Sent(e, x).ended = e.ended
  BY <1>1, <1>4, <1>5 DEF Link
<1>7. Len(r.rest) <= SockBuf
  <2>1. PICK a \in Seq(Bytes), y \in Seq(Bytes) : a = e.rx.rest /\ y = Text(x)
    BY <1>1, <1>2
  <2>2. Len(a \o y) = Len(a) + Len(y)
    BY ConcatProperties
  <2> QED BY <1>4, <2>1, <2>2 DEF Holds
<1>8. Whole(Unread(r))
  BY <1>1, <1>4, LineAdded DEF LinkSound
<1> QED BY <1>4, <1>6, <1>7, <1>8 DEF LinkSound

LEMMA LineEnded ==
  ASSUME NEW e \in Link, LinkSound(e)
  PROVE  /\ [e EXCEPT !.ended = TRUE] \in Link
         /\ LinkSound([e EXCEPT !.ended = TRUE])
<1>1. [e EXCEPT !.ended = TRUE] \in Link /\ [e EXCEPT !.ended = TRUE].rx = e.rx
  BY DEF Link
<1> QED BY <1>1 DEF LinkSound

(* What the manager does to its entries and to the connections: some        *)
(* entries are closed; connections are left alone, or sent a line if        *)
(* their entry does not ask to subscribe, or ended with their entry.       *)
Treated(c, l, m, sm, b) ==
  \/ m[c] = l[c]
  \/ /\ l[c] # None
     /\ \E x \in Bytes \ {LF} : Holds(l[c].rx, Text(x)) /\ m[c] = Sent(l[c], x)
     /\ \A s \in Slots : sm[s] # None /\ sm[s].owner = c => Quiet(sm[s])
     /\ \A i \in 1..Len(b) : b[i].owner = c => Quiet(b[i])
  \/ /\ l[c] # None /\ m[c] = [l[c] EXCEPT !.ended = TRUE]
     /\ \A s \in Slots : sm[s] # None => sm[s].owner # c
     /\ \A i \in 1..Len(b) : b[i].owner # c

LEMMA Rewritten ==
  ASSUME NEW sl, NEW l, NEW b, Sound(sl, l, b),
         NEW sm \in [Slots -> Peer \cup {None}],
         NEW m, m = [c \in Clients |-> m[c]],
         \A s \in Slots : sm[s] = None \/ sm[s] = sl[s],
         \A c \in Clients : Treated(c, l, m, sm, b)
  PROVE  Sound(sm, m, b)
<1>1. /\ b \in Seq(Peer) /\ Len(b) <= Backlog
      /\ sl \in [Slots -> Peer \cup {None}] /\ l \in [Clients -> Link \cup {None}]
      /\ \A s \in Slots : sl[s] # None => PeerSound(sl[s], l)
      /\ \A i \in 1..Len(b) : PeerSound(b[i], l) /\ ~b[i].sub
      /\ \A c \in Clients : l[c] # None => LinkSound(l[c])
      /\ OneEntry(sl, b)
  BY DEF Sound
<1>2. ASSUME NEW c \in Clients
      PROVE  m[c] \in Link \cup {None} /\ (m[c] # None => LinkSound(m[c]))
  <2>1. CASE m[c] = l[c]
    BY <1>1, <2>1
  <2>2. CASE /\ l[c] # None
             /\ \E x \in Bytes \ {LF} :
                  Holds(l[c].rx, Text(x)) /\ m[c] = Sent(l[c], x)
    <3>1. l[c] \in Link /\ LinkSound(l[c])
      BY <1>1, <2>2
    <3> QED BY <2>2, <3>1, LineSent
  <2>3. CASE l[c] # None /\ m[c] = [l[c] EXCEPT !.ended = TRUE]
    <3>1. l[c] \in Link /\ LinkSound(l[c])
      BY <1>1, <2>3
    <3> QED BY <2>3, <3>1, LineEnded
  <2> QED BY <2>1, <2>2, <2>3 DEF Treated
<1>3. ASSUME NEW p \in Peer, PeerSound(p, l),
             \A c \in Clients :
               \/ m[c] = l[c]
               \/ m[c] # None /\ ~m[c].ended /\ Quiet(p)
               \/ p.owner # c
      PROVE  PeerSound(p, m)
  <2>1. p.owner \in Clients \cup {None}
    BY EntryType
  <2>2. p.owner # None =>
          \/ m[p.owner] = l[p.owner]
          \/ m[p.owner] # None /\ ~m[p.owner].ended /\ Quiet(p)
    BY <1>3, <2>1
  <2> QED BY <1>3, <2>2, SoundWith
<1>4. ASSUME NEW c \in Clients, NEW p \in Peer, PeerSound(p, l), p.owner = c,
             NEW x \in Bytes \ {LF}, l[c] # None, Holds(l[c].rx, Text(x)),
             m[c] = Sent(l[c], x)
      PROVE  m[c] # None /\ ~m[c].ended
  <2>1. l[c] \in Link /\ LinkSound(l[c])
    BY <1>1, <1>4
  <2>2. c # None /\ ~l[c].ended
    BY <1>4, Constants DEF PeerSound
  <2>3. m[c] \in Link /\ m[c].ended = l[c].ended
    BY <1>4, <2>1, LineSent
  <2> QED BY <2>2, <2>3, Constants
<1>5. ASSUME NEW s \in Slots, sm[s] # None PROVE PeerSound(sm[s], m)
  <2>1. sm[s] = sl[s] /\ sm[s] \in Peer /\ PeerSound(sm[s], l)
    BY <1>1, <1>5
  <2> QED BY <2>1, <1>3, <1>4, <1>5 DEF Treated
<1>6. ASSUME NEW i \in 1..Len(b) PROVE PeerSound(b[i], m)
  <2>1. b[i] \in Peer /\ PeerSound(b[i], l)
    BY <1>1, ElementOfSeq
  <2> QED BY <2>1, <1>3, <1>4 DEF Treated
<1>7. OneEntry(sm, b)
  BY <1>1 DEF OneEntry
<1>8. m \in [Clients -> Link \cup {None}]
  BY <1>2
<1> QED BY <1>1, <1>2, <1>5, <1>6, <1>7, <1>8 DEF Sound


-----------------------------------------------------------------------------
(* The manager's globals while a handler runs.  A handler that keeps them  *)
(* consistent may be followed by another one.                              *)
State == [session : Values,
          slot : [Slots -> Peer \cup {None}],
          link : [Clients -> Link \cup {None}]]

Consistent(g, b, sh) == /\ g \in State
                        /\ Sound(g.slot, g.link, b)
                        /\ AllTold(g.session, g.slot, g.link, sh)

LEMMA StateType ==
  ASSUME NEW g \in State
  PROVE  /\ g.session \in Values
         /\ g.slot \in [Slots -> Peer \cup {None}]
         /\ g.link \in [Clients -> Link \cup {None}]
BY DEF State

(* The entry of a connection, and the connection. *)
LEMMA OwnerOf ==
  ASSUME NEW g \in State, NEW b, Sound(g.slot, g.link, b), NEW s \in Slots,
         g.slot[s] # None, g.slot[s].owner # None
  PROVE  /\ g.slot[s] \in Peer /\ g.slot[s].owner \in Clients
         /\ PeerSound(g.slot[s], g.link)
         /\ g.link[g.slot[s].owner] \in Link
         /\ LinkSound(g.link[g.slot[s].owner])
         /\ ~g.link[g.slot[s].owner].ended
<1>1. g.slot[s] \in Peer /\ PeerSound(g.slot[s], g.link)
  BY StateType DEF Sound
<1>2. g.slot[s].owner \in Clients
  BY <1>1, EntryType
<1>3. /\ g.link[g.slot[s].owner] # None
      /\ ~g.link[g.slot[s].owner].ended
  BY <1>1 DEF PeerSound
<1> QED BY <1>1, <1>2, <1>3, StateType DEF Sound

(* An answer goes to the other end if there is one with room for it.       *)
LEMMA AnswerIs ==
  ASSUME NEW g \in State, NEW b, Sound(g.slot, g.link, b), NEW s \in Slots, NEW x
  PROVE  \/ Answer(g, s, Text(x)) = g
         \/ /\ g.slot[s] # None /\ g.slot[s].owner # None
            /\ Holds(g.link[g.slot[s].owner].rx, Text(x))
            /\ Answer(g, s, Text(x)) =
                 [session |-> g.session, slot |-> g.slot,
                  link |-> [c \in Clients |->
                              IF c = g.slot[s].owner THEN Sent(g.link[c], x)
                              ELSE g.link[c]]]
<1>1. CASE ~(g.slot[s] # None /\ Writable(g, s, Text(x)))
  BY <1>1 DEF Answer
<1>2. CASE g.slot[s] # None /\ Writable(g, s, Text(x))
  <2>1. g.slot[s].owner # None /\ Holds(g.link[g.slot[s].owner].rx, Text(x))
    BY <1>2 DEF Writable
  <2>2. PICK o \in Clients : o = g.slot[s].owner /\ g.link[o] \in Link
    BY <1>2, <2>1, OwnerOf
  <2>3. Answer(g, s, Text(x)) = [g EXCEPT !.link[o].rx.rest = @ \o Text(x)]
    BY <1>2, <2>2 DEF Answer
  <2>4. /\ g = [session |-> g.session, slot |-> g.slot, link |-> g.link]
        /\ g.link \in [Clients -> Link \cup {None}]
    BY DEF State
  <2>5. [g.link EXCEPT ![o].rx.rest = @ \o Text(x)]
          = [c \in Clients |-> IF c = o THEN Sent(g.link[c], x) ELSE g.link[c]]
    BY <2>2, <2>4 DEF Sent
  <2>6. [g EXCEPT !.link[o].rx.rest = @ \o Text(x)]
          = [session |-> g.session, slot |-> g.slot,
             link |-> [g.link EXCEPT ![o].rx.rest = @ \o Text(x)]]
    <3>1. [g EXCEPT !.link[o].rx.rest = @ \o Text(x)]
            = [g EXCEPT !.link = [g.link EXCEPT ![o].rx.rest = @ \o Text(x)]]
      OBVIOUS
    <3>2. PICK m : m = [g.link EXCEPT ![o].rx.rest = @ \o Text(x)]
      OBVIOUS
    <3>3. [g EXCEPT !.link = m]
            = [session |-> g.session, slot |-> g.slot, link |-> m]
      BY <2>4
    <3> QED BY <3>1, <3>2, <3>3
  <2>7. Answer(g, s, Text(x)) =
          [session |-> g.session, slot |-> g.slot,
           link |-> [c \in Clients |->
                       IF c = o THEN Sent(g.link[c], x) ELSE g.link[c]]]
    BY <2>3, <2>5, <2>6
  <2> QED BY <1>2, <2>1, <2>2, <2>7
<1> QED BY <1>1, <1>2

Behind(t, x) == t \o Text(x)

(* A peer that can be written to gets the line. *)
Reaches(g, h, s, x) ==
  g.slot[s] # None /\ g.slot[s].owner # None
    /\ Holds(g.link[g.slot[s].owner].rx, Text(x))
  => Unread(h.link[g.slot[s].owner].rx)
       = Behind(Unread(g.link[g.slot[s].owner].rx), x)

(* An answer leaves the entries as they are. *)
LEMMA AnswerKeeps ==
  ASSUME NEW g \in State, NEW b, Sound(g.slot, g.link, b), NEW s \in Slots,
         NEW x \in Bytes, x # LF, g.slot[s] # None => Quiet(g.slot[s]),
         NEW h, h = Answer(g, s, Text(x))
  PROVE  /\ h \in State /\ Sound(h.slot, h.link, b)
         /\ h.session = g.session /\ h.slot = g.slot
         /\ \A c \in Clients :
              \/ h.link[c] = g.link[c]
              \/ Unread(h.link[c].rx) = Behind(Unread(g.link[c].rx), x)
         /\ Reaches(g, h, s, x)
<1>1. CASE /\ g.slot[s] # None /\ g.slot[s].owner # None
           /\ Holds(g.link[g.slot[s].owner].rx, Text(x))
  <2>1. PICK o \in Clients : /\ o = g.slot[s].owner
                             /\ g.link[o] \in Link /\ LinkSound(g.link[o])
    BY <1>1, OwnerOf
  <2> DEFINE m == [c \in Clients |->
                     IF c = o THEN Sent(g.link[c], x) ELSE g.link[c]]
  <2>2. h = [session |-> g.session, slot |-> g.slot, link |-> m]
    <3>1. Writable(g, s, Text(x))
      BY <1>1 DEF Writable
    <3>2. h = [g EXCEPT !.link[g.slot[s].owner].rx.rest = @ \o Text(x)]
      BY <1>1, <3>1 DEF Answer
    <3>3. h = [g EXCEPT !.link = [g.link EXCEPT ![o].rx.rest = @ \o Text(x)]]
      BY <2>1, <3>2
    <3>4. g.link \in [Clients -> Link \cup {None}]
      BY StateType
    <3>5. [g.link EXCEPT ![o].rx.rest = @ \o Text(x)] = m
      BY <2>1, <3>4 DEF Sent
    <3> HIDE DEF m
    <3>6. h = [g EXCEPT !.link = m]
      BY <3>3, <3>5
    <3> QED BY <3>6 DEF State
  <2>3. /\ Sent(g.link[o], x) \in Link
        /\ Unread(Sent(g.link[o], x).rx) = Behind(Unread(g.link[o].rx), x)
    BY <1>1, <2>1, LineSent DEF Behind
  <2>4. /\ m \in [Clients -> Link \cup {None}] /\ DOMAIN m = Clients
        /\ m[o] = Sent(g.link[o], x)
        /\ \A c \in Clients \ {o} : m[c] = g.link[c]
    BY <2>3, StateType
  <2>5. OneEntry(g.slot, b)
    BY DEF Sound
  <2>6. /\ \A t \in Slots : g.slot[t] # None /\ g.slot[t].owner = o
                              => Quiet(g.slot[t])
        /\ \A i \in 1..Len(b) : b[i].owner # o
    BY <1>1, <2>1, <2>5 DEF OneEntry
  <2>7. m = [c \in Clients |-> m[c]]
    BY <2>4
  <2> HIDE DEF m
  <2>8. Sound(g.slot, m, b)
    <3>1. \A c \in Clients : Treated(c, g.link, m, g.slot, b)
      BY <1>1, <2>1, <2>4, <2>6, Constants DEF Treated
    <3>2. g.slot \in [Slots -> Peer \cup {None}]
      BY StateType
    <3> QED BY <2>4, <2>7, <3>1, <3>2, Rewritten
  <2>9. h \in State /\ h.session = g.session /\ h.slot = g.slot /\ h.link = m
    BY <2>2, <2>4, StateType DEF State
  <2>10. Reaches(g, h, s, x)
    BY <2>1, <2>3, <2>4, <2>9 DEF Reaches
  <2>11. \A c \in Clients :
           \/ h.link[c] = g.link[c]
           \/ Unread(h.link[c].rx) = Behind(Unread(g.link[c].rx), x)
    BY <2>1, <2>3, <2>4, <2>9
  <2> QED BY <2>4, <2>8, <2>9, <2>10, <2>11
<1>2. CASE ~(/\ g.slot[s] # None /\ g.slot[s].owner # None
             /\ Holds(g.link[g.slot[s].owner].rx, Text(x)))
  <2>1. h = g
    BY <1>2, AnswerIs
  <2>2. Reaches(g, h, s, x)
    BY <1>2 DEF Reaches
  <2> QED BY <2>1, <2>2
<1> QED BY <1>1, <1>2

(* An answer that is not a state line, or is the session's, leaves those    *)
(* who were told it told.                                                  *)
LEMMA AnswerTells ==
  ASSUME NEW g, NEW b, NEW sh, Consistent(g, b, sh), NEW s \in Slots,
         NEW x \in Bytes, x # LF, x \in Values => x = g.session,
         g.slot[s] # None => Quiet(g.slot[s]),
         NEW h, h = Answer(g, s, Text(x))
  PROVE  Consistent(h, b, sh) /\ h.session = g.session /\ h.slot = g.slot
<1>1. /\ g \in State /\ Sound(g.slot, g.link, b)
      /\ AllTold(g.session, g.slot, g.link, sh)
  BY DEF Consistent
<1>2. /\ h \in State /\ Sound(h.slot, h.link, b)
      /\ h.session = g.session /\ h.slot = g.slot
      /\ \A c \in Clients :
           \/ h.link[c] = g.link[c]
           \/ Unread(h.link[c].rx) = Behind(Unread(g.link[c].rx), x)
  <2>1. h \in State /\ Sound(h.slot, h.link, b)
    BY <1>1, AnswerKeeps
  <2>2. h.session = g.session /\ h.slot = g.slot
    BY <1>1, AnswerKeeps
  <2>3. \A c \in Clients :
           \/ h.link[c] = g.link[c]
           \/ Unread(h.link[c].rx) = Behind(Unread(g.link[c].rx), x)
    BY <1>1, AnswerKeeps
  <2> QED BY <2>1, <2>2, <2>3
<1>3. ASSUME NEW t \in Slots, g.slot[t] # None, g.slot[t].sub,
             g.slot[t].owner # None
      PROVE  Latest(Unread(h.link[g.slot[t].owner].rx), sh[g.slot[t].owner])
               = g.session
  <2>1. PICK o \in Clients : /\ o = g.slot[t].owner
                             /\ g.link[o] \in Link /\ LinkSound(g.link[o])
    BY <1>1, <1>3, OwnerOf
  <2>2. Latest(Unread(g.link[o].rx), sh[o]) = g.session
    BY <1>1, <1>3, <2>1 DEF AllTold
  <2>3. Unread(g.link[o].rx) \in Seq(Bytes) /\ Whole(Unread(g.link[o].rx))
    BY <2>1, LinkType DEF LinkSound
  <2>4. Latest(Behind(Unread(g.link[o].rx), x), sh[o]) = g.session
    <3>1. CASE x \in Values
      BY <2>3, <3>1, StateAdded DEF Behind
    <3>2. CASE x \notin Values
      BY <2>2, <2>3, <3>2, OtherAdded DEF Behind
    <3> QED BY <3>1, <3>2
  <2> QED BY <1>2, <2>1, <2>2, <2>4
<1> QED BY <1>2, <1>3 DEF Consistent, AllTold

(* publish: whoever it does not reach is disconnected, so that afterwards   *)
(* all subscribers were told, whatever they had been told before.          *)
LEMMA PublishTells ==
  ASSUME NEW g \in State, NEW b, Sound(g.slot, g.link, b), NEW sh,
         NEW h, h = Publish(g)
  PROVE  /\ Consistent(h, b, sh) /\ h.session = g.session
         /\ \A s \in Slots : h.slot[s] = None \/ h.slot[s] = g.slot[s]
<1> DEFINE v == g.session
           reached == {s \in Subscribers(g) : Writable(g, s, Text(v))}
           closed == Subscribers(g) \ reached
           told == {g.slot[s].owner : s \in reached}
           cut == {g.slot[s].owner : s \in closed}
           sm == [s \in Slots |-> IF s \in closed THEN None ELSE g.slot[s]]
           m == [c \in Clients |->
                   IF c \in told
                   THEN [g.link[c] EXCEPT !.rx.rest = @ \o Text(v)]
                   ELSE IF c \in cut THEN [g.link[c] EXCEPT !.ended = TRUE]
                   ELSE g.link[c]]
<1>1. h = [session |-> v, slot |-> sm, link |-> m]
  <2>1. h = [g EXCEPT !.slot = sm, !.link = m]
    BY DEF Publish
  <2> HIDE DEF sm, m
  <2> QED BY <2>1 DEF State
<1>2. /\ g.slot \in [Slots -> Peer \cup {None}]
      /\ g.link \in [Clients -> Link \cup {None}]
      /\ v \in Values /\ v \in Bytes \ {LF}
  BY StateType, Constants DEF Bytes
<1>3. /\ \A s \in reached : /\ s \in Slots /\ g.slot[s] # None /\ g.slot[s].sub
                            /\ g.slot[s].owner # None
                            /\ Holds(g.link[g.slot[s].owner].rx, Text(v))
      /\ \A s \in closed : s \in Slots /\ g.slot[s] # None
  BY DEF Subscribers, Writable
<1>4. OneEntry(g.slot, b)
  BY DEF Sound
<1>5. /\ \A c \in Clients : c \in told =>
           \E s \in reached : g.slot[s].owner = c
      /\ \A c \in Clients : c \in cut => \E s \in closed : g.slot[s].owner = c
      /\ \A s \in Slots : g.slot[s] # None /\ g.slot[s].sub
                            => s \in reached \/ s \in closed
  BY DEF Subscribers
<1>6. /\ \A s \in Slots : sm[s] = IF s \in closed THEN None ELSE g.slot[s]
      /\ sm \in [Slots -> Peer \cup {None}]
  BY <1>2
<1>7. /\ m = [c \in Clients |-> m[c]]
      /\ \A c \in Clients :
           m[c] = IF c \in told THEN Sent(g.link[c], v)
                  ELSE IF c \in cut THEN [g.link[c] EXCEPT !.ended = TRUE]
                  ELSE g.link[c]
  BY DEF Sent
<1>8. \A s \in reached : g.slot[s].owner \in told
  OBVIOUS
<1> HIDE DEF sm, m, reached, closed, told, cut, v
<1>9. \A s \in Slots : sm[s] = None \/ sm[s] = g.slot[s]
  BY <1>6
<1>10. ASSUME NEW c \in Clients
       PROVE  Treated(c, g.link, m, sm, b)
  <2>1. c # None
    BY Constants
  <2>2. ASSUME NEW s \in Slots, g.slot[s] # None, g.slot[s].owner = c
        PROVE  /\ g.link[c] # None /\ PeerSound(g.slot[s], g.link)
               /\ \A t \in Slots : g.slot[t] # None /\ g.slot[t].owner = c => t = s
               /\ \A i \in 1..Len(b) : b[i].owner # c
    <3>1. PeerSound(g.slot[s], g.link) /\ g.link[c] \in Link
      BY <2>1, <2>2, OwnerOf
    <3> QED BY <2>1, <2>2, <3>1, <1>4, Constants DEF OneEntry
  <2>3. CASE c \in told
    <3>1. PICK s \in reached : g.slot[s].owner = c
      BY <1>5, <2>3
    <3>2. /\ s \in Slots /\ g.slot[s] # None /\ g.slot[s].sub
          /\ Holds(g.link[c].rx, Text(v))
      BY <1>3, <3>1
    <3>3. Quiet(g.slot[s])
      BY <2>2, <3>1, <3>2, SubscriberQuiet
    <3>4. \A t \in Slots : sm[t] # None /\ sm[t].owner = c => Quiet(sm[t])
      BY <1>9, <2>2, <3>1, <3>2, <3>3
    <3>5. m[c] = Sent(g.link[c], v)
      BY <1>7, <2>3
    <3> QED BY <1>2, <2>2, <3>1, <3>2, <3>4, <3>5 DEF Treated
  <2>4. CASE c \notin told /\ c \in cut
    <3>1. PICK s \in closed : g.slot[s].owner = c
      BY <1>5, <2>4
    <3>2. s \in Slots /\ g.slot[s] # None /\ sm[s] = None
      BY <1>3, <1>6, <3>1
    <3>3. \A t \in Slots : sm[t] # None => sm[t].owner # c
      BY <1>9, <2>2, <3>1, <3>2
    <3>4. m[c] = [g.link[c] EXCEPT !.ended = TRUE]
      BY <1>7, <2>4
    <3> QED BY <2>2, <3>1, <3>2, <3>3, <3>4 DEF Treated
  <2>5. CASE c \notin told /\ c \notin cut
    BY <1>7, <2>5 DEF Treated
  <2> QED BY <2>3, <2>4, <2>5
<1>11. Sound(sm, m, b)
  <2>1. \A c \in Clients : Treated(c, g.link, m, sm, b)
    BY <1>10
  <2>2. /\ sm \in [Slots -> Peer \cup {None}]
        /\ m = [c \in Clients |-> m[c]]
        /\ \A s \in Slots : sm[s] = None \/ sm[s] = g.slot[s]
    BY <1>6, <1>7, <1>9
  <2> QED BY <2>1, <2>2, Rewritten
<1>12. m \in [Clients -> Link \cup {None}]
  BY <1>11 DEF Sound
<1>13. ASSUME NEW s \in Slots, sm[s] # None, sm[s].sub, sm[s].owner # None
       PROVE  Latest(Unread(m[sm[s].owner].rx), sh[sm[s].owner]) = v
  <2>1. sm[s] = g.slot[s] /\ s \in reached
    BY <1>5, <1>6, <1>13
  <2>2. PICK o \in Clients : /\ o = g.slot[s].owner
                             /\ g.link[o] \in Link /\ LinkSound(g.link[o])
    BY <1>13, <2>1, OwnerOf
  <2>3. m[o] = Sent(g.link[o], v) /\ Holds(g.link[o].rx, Text(v))
    BY <1>3, <1>7, <1>8, <2>1, <2>2
  <2>4. Unread(m[o].rx) = Unread(g.link[o].rx) \o Text(v)
    BY <1>2, <2>2, <2>3, LineSent
  <2>5. Unread(g.link[o].rx) \in Seq(Bytes) /\ Whole(Unread(g.link[o].rx))
    BY <2>2, LinkType DEF LinkSound
  <2>6. Latest(Unread(g.link[o].rx) \o Text(v), sh[o]) = v
    BY <1>2, <2>5, StateAdded
  <2> QED BY <2>1, <2>2, <2>4, <2>6
<1>14. AllTold(v, sm, m, sh)
  BY <1>13 DEF AllTold
<1>15. h \in State /\ h.session = v /\ h.slot = sm /\ h.link = m
  BY <1>1, <1>2, <1>6, <1>12 DEF State
<1> QED BY <1>9, <1>11, <1>14, <1>15 DEF Consistent, v


(* sub: the entry becomes a subscriber, and its connection, which was not   *)
(* sent anything, takes the state.                                         *)
LEMMA SubscribeTells ==
  ASSUME NEW g, NEW b, NEW sh, Consistent(g, b, sh), NEW s \in Slots,
         g.slot[s] # None, Quiet(g.slot[s]), g.slot[s].owner \notin Tools,
         g.slot[s].owner # None => g.link[g.slot[s].owner] = NewLink,
         NEW h, h = Answer([g EXCEPT !.slot[s].sub = TRUE], s, Text(g.session))
  PROVE  /\ Consistent(h, b, sh) /\ h.session = g.session
         /\ h.slot[s].rx = g.slot[s].rx
<1> DEFINE e == [g.slot[s] EXCEPT !.sub = TRUE]
           sm == [g.slot EXCEPT ![s] = e]
           f == [session |-> g.session, slot |-> sm, link |-> g.link]
           v == g.session
<1>1. /\ g \in State /\ Sound(g.slot, g.link, b)
      /\ AllTold(g.session, g.slot, g.link, sh)
      /\ g.slot \in [Slots -> Peer \cup {None}]
      /\ g.link \in [Clients -> Link \cup {None}]
      /\ v \in Values /\ v \in Bytes \ {LF}
  BY StateType, Constants DEF Consistent, Bytes
<1>2. [g EXCEPT !.slot[s].sub = TRUE] = f
  <2>1. [g EXCEPT !.slot[s].sub = TRUE]
          = [g EXCEPT !.slot = [g.slot EXCEPT ![s] = [@ EXCEPT !.sub = TRUE]]]
    OBVIOUS
  <2>2. PICK m : m = [g.slot EXCEPT ![s] = [@ EXCEPT !.sub = TRUE]]
    OBVIOUS
  <2>3. [g EXCEPT !.slot = m]
          = [session |-> g.session, slot |-> m, link |-> g.link]
    BY <1>1 DEF State
  <2> QED BY <2>1, <2>2, <2>3
<1>3. g.slot[s] \in Peer /\ PeerSound(g.slot[s], g.link)
  BY <1>1 DEF Sound
<1>4. /\ e \in Peer /\ e # None /\ e.sub /\ e.owner = g.slot[s].owner
      /\ e.rx = g.slot[s].rx
  BY <1>3, Constants DEF Peer
<1>5. PeerSound(e, g.link)
  BY <1>3, <1>4 DEF PeerSound, Quiet
<1> HIDE DEF e
<1>6. /\ sm \in [Slots -> Peer \cup {None}] /\ sm[s] = e
      /\ \A t \in Slots \ {s} : sm[t] = g.slot[t]
  BY <1>1, <1>4
<1> HIDE DEF sm
<1>7. Sound(sm, g.link, b)
  <2>1. OneEntry(g.slot, b)
    BY <1>1 DEF Sound
  <2>2. \A t \in Slots : /\ sm[t] # None <=> g.slot[t] # None
                         /\ sm[t].owner = g.slot[t].owner
    BY <1>4, <1>6
  <2>3. OneEntry(sm, b)
    BY <2>1, <2>2 DEF OneEntry
  <2>4. \A t \in Slots : sm[t] # None => PeerSound(sm[t], g.link)
    BY <1>1, <1>5, <1>6 DEF Sound
  <2> QED BY <1>1, <1>6, <2>3, <2>4 DEF Sound
<1>8. f \in State /\ f.slot = sm /\ f.link = g.link /\ f.session = v
  BY <1>1, <1>6 DEF State
<1>9. Quiet(sm[s])
  BY <1>4, <1>6 DEF Quiet
<1> HIDE DEF f
<1>10. h = Answer(f, s, Text(v))
  BY <1>2
<1>11. /\ f \in State /\ Sound(f.slot, f.link, b) /\ Quiet(f.slot[s])
       /\ v \in Bytes /\ v # LF
  BY <1>1, <1>7, <1>8, <1>9
<1>12. /\ h \in State /\ Sound(h.slot, h.link, b)
       /\ h.session = v /\ h.slot = sm
  <2>1. h \in State /\ Sound(h.slot, h.link, b)
    BY <1>10, <1>11, AnswerKeeps
  <2>2. h.session = f.session /\ h.slot = f.slot
    BY <1>10, <1>11, AnswerKeeps
  <2> QED BY <2>1, <2>2, <1>8
<1>13. \A c \in Clients : \/ h.link[c] = g.link[c]
                          \/ Unread(h.link[c].rx) = Behind(Unread(g.link[c].rx), v)
  <2>1. \A c \in Clients :
          \/ h.link[c] = f.link[c]
          \/ Unread(h.link[c].rx) = Behind(Unread(f.link[c].rx), v)
    BY <1>10, <1>11, AnswerKeeps
  <2> QED BY <2>1, <1>8
<1>14. e.owner # None /\ Holds(g.link[e.owner].rx, Text(v))
         => Unread(h.link[e.owner].rx) = Behind(Unread(g.link[e.owner].rx), v)
  <2> HIDE DEF v
  <2>1. Reaches(f, h, s, v)
    BY <1>10, <1>11, AnswerKeeps
  <2>2. f.slot[s] = e /\ f.link = g.link
    BY <1>6, <1>8
  <2> QED BY <2>1, <2>2, <1>4 DEF Reaches
<1>15. ASSUME NEW t \in Slots, sm[t] # None, sm[t].sub, sm[t].owner # None
       PROVE  Latest(Unread(h.link[sm[t].owner].rx), sh[sm[t].owner]) = v
  <2>1. PICK o \in Clients : /\ o = sm[t].owner
                             /\ g.link[o] \in Link /\ LinkSound(g.link[o])
    BY <1>7, <1>8, <1>15, OwnerOf
  <2>2. Unread(g.link[o].rx) \in Seq(Bytes) /\ Whole(Unread(g.link[o].rx))
    BY <2>1, LinkType DEF LinkSound
  <2>3. Latest(Behind(Unread(g.link[o].rx), v), sh[o]) = v
    BY <1>1, <2>2, StateAdded DEF Behind
  <2>4. CASE t = s
    <3>1. g.link[o] = NewLink
      BY <1>4, <1>6, <1>15, <2>1, <2>4
    <3>2. Holds(g.link[o].rx, Text(v))
      BY <3>1, Constants DEF NewLink, Receiver, Holds, Text
    <3> QED BY <1>4, <1>6, <1>14, <1>15, <2>1, <2>3, <2>4, <3>2
  <2>5. CASE t # s
    <3>1. Latest(Unread(g.link[o].rx), sh[o]) = v
      BY <1>1, <1>6, <1>15, <2>1, <2>5 DEF AllTold
    <3>2. \/ h.link[o] = g.link[o]
          \/ Unread(h.link[o].rx) = Behind(Unread(g.link[o].rx), v)
      BY <1>13
    <3> QED BY <2>1, <2>3, <3>1, <3>2
  <2> QED BY <2>4, <2>5
<1>16. AllTold(v, sm, h.link, sh)
  BY <1>15 DEF AllTold
<1> QED BY <1>4, <1>6, <1>12, <1>16 DEF Consistent

LEMMA HandleKeeps ==
  ASSUME NEW g, NEW b, NEW sh, Consistent(g, b, sh), NEW s \in Slots,
         g.slot[s] # None, Quiet(g.slot[s]), NEW x \in Commands,
         x = SUB => /\ g.slot[s].owner \notin Tools
                    /\ g.slot[s].owner # None
                         => g.link[g.slot[s].owner] = NewLink,
         NEW h, h = HandleClient(g, s, <<x>>)
  PROVE  /\ Consistent(h, b, sh)
         /\ h.slot[s] = None \/ h.slot[s].rx = g.slot[s].rx
<1>1. /\ g \in State /\ Sound(g.slot, g.link, b)
      /\ g.session \in Values /\ g.session \in Bytes /\ g.session # LF
      /\ OK \in Bytes /\ OK # LF /\ OK \notin Values
  BY StateType, Constants DEF Consistent, Bytes
<1>2. <<x>>[1] = x
  OBVIOUS
<1>3. CASE x = SUB
  <2>1. PICK f : f = Answer([g EXCEPT !.slot[s].sub = TRUE], s, Text(g.session))
    OBVIOUS
  <2>2. h = Answer(f, s, Text(OK))
    BY <1>2, <1>3, <2>1 DEF HandleClient
  <2>3. Consistent(f, b, sh) /\ f.slot[s].rx = g.slot[s].rx
    BY <1>3, <2>1, SubscribeTells
  <2>4. Quiet(f.slot[s])
    BY <2>3 DEF Quiet
  <2> QED BY <1>1, <2>2, <2>3, <2>4, AnswerTells
<1>4. CASE x = STATUS
  <2>1. PICK f : f = Answer(g, s, Text(g.session))
    OBVIOUS
  <2>2. h = Answer(f, s, Text(OK))
    BY <1>2, <1>4, <2>1, Constants DEF HandleClient
  <2>3. Consistent(f, b, sh) /\ f.slot = g.slot
    BY <1>1, <2>1, AnswerTells
  <2>4. Consistent(h, b, sh) /\ h.slot = f.slot
    BY <1>1, <2>2, <2>3, AnswerTells
  <2> QED BY <2>3, <2>4
<1>5. CASE x \in Values
  <2>1. PICK e : e = [g EXCEPT !.session = x]
    OBVIOUS
  <2>2. /\ e \in State /\ e.slot = g.slot /\ e.link = g.link
        /\ Sound(e.slot, e.link, b)
    BY <1>1, <1>5, <2>1 DEF State
  <2>3. PICK f : f = Publish(e)
    OBVIOUS
  <2>4. h = Answer(f, s, Text(OK))
    BY <1>2, <1>5, <2>1, <2>3, Constants DEF HandleClient
  <2>5. /\ Consistent(f, b, sh)
        /\ f.slot[s] = None \/ f.slot[s] = g.slot[s]
    BY <2>2, <2>3, PublishTells
  <2>6. Consistent(h, b, sh) /\ h.slot = f.slot
    BY <1>1, <2>4, <2>5, AnswerTells
  <2> QED BY <2>5, <2>6
<1> QED BY <1>3, <1>4, <1>5 DEF Commands


(* The lines of one read, one after the other.  The function exists because *)
(* the shortest list without one would be one line longer than one that    *)
(* has it, and it keeps what every line keeps for the same reason.         *)
Turn(lines, s, H, k) ==
  {IF h.slot[s] = None THEN h ELSE HandleClient(h, s, lines[k]) : h \in H}

Turns(after, n, g, s, lines) ==
  after = [k \in 0..n |->
             IF k = 0 THEN {g} ELSE Turn(lines, s, after[k - 1], k)]

LEMMA TurnsExist ==
  ASSUME NEW n \in Nat, NEW g, NEW s, NEW lines
  PROVE  \E f : Turns(f, n, g, s, lines)
<1> DEFINE T == {m \in 0..n : ~\E f : Turns(f, m, g, s, lines)}
<1>1. ASSUME T # {} PROVE FALSE
  <2>1. T \in SUBSET Nat
    OBVIOUS
  <2>2. PICK m \in T : \A y \in T : m <= y
    <3> HIDE DEF T
    <3> QED BY <1>1, <2>1, LeastOf
  <2>3. m \in 0..n /\ ~\E f : Turns(f, m, g, s, lines)
    OBVIOUS
  <2>4. CASE m = 0
    <3>1. Turns([k \in 0..0 |-> {g}], 0, g, s, lines)
      BY DEF Turns
    <3> QED BY <2>3, <2>4, <3>1
  <2>5. CASE m # 0
    <3>1. m - 1 \in 0..n /\ ~(m <= m - 1)
      BY <2>3, <2>5
    <3>2. m - 1 \notin T
      BY <2>2, <3>1
    <3>3. PICK f : Turns(f, m - 1, g, s, lines)
      BY <3>1, <3>2
    <3> DEFINE h == [k \in 0..m |-> IF k < m THEN f[k]
                                    ELSE Turn(lines, s, f[m - 1], m)]
    <3>4. ASSUME NEW k \in 0..m
          PROVE  h[k] = IF k = 0 THEN {g} ELSE Turn(lines, s, h[k - 1], k)
      <4>1. \A i \in 0..m - 1 :
              f[i] = IF i = 0 THEN {g} ELSE Turn(lines, s, f[i - 1], i)
        BY <3>3 DEF Turns
      <4>2. \A i \in 0..m - 1 : i \in 0..m /\ i < m
        BY <2>3
      <4>3. \A i \in 0..m - 1 : h[i] = f[i]
        BY <4>2
      <4>4. h[m] = Turn(lines, s, f[m - 1], m)
        BY <2>3
      <4> HIDE DEF h
      <4>5. CASE k = m
        <5>1. m - 1 \in 0..m - 1
          BY <2>3, <2>5
        <5> QED BY <2>5, <4>3, <4>4, <4>5, <5>1
      <4>6. CASE k # m
        <5>1. k \in 0..m - 1 /\ (k = 0 \/ k - 1 \in 0..m - 1)
          BY <4>6, <2>3
        <5> QED BY <4>1, <4>3, <5>1
      <4> QED BY <4>5, <4>6
    <3>5. h = [k \in 0..m |->
                 IF k = 0 THEN {g} ELSE Turn(lines, s, h[k - 1], k)]
      <4>1. h = [k \in 0..m |-> h[k]]
        OBVIOUS
      <4> HIDE DEF h
      <4> QED BY <3>4, <4>1
    <3>6. Turns(h, m, g, s, lines)
      BY <3>5 DEF Turns
    <3> QED BY <2>3, <3>6
  <2> QED BY <2>4, <2>5
<1>2. n \in 0..n
  OBVIOUS
<1> QED BY <1>1, <1>2

LEMMA ServedIs ==
  ASSUME NEW g, NEW s, NEW lines, Len(lines) \in Nat
  PROVE  \E f : /\ Turns(f, Len(lines), g, s, lines)
                /\ Served(g, s, lines) = f[Len(lines)]
<1> DEFINE f == CHOOSE after : Turns(after, Len(lines), g, s, lines)
<1>1. Turns(f, Len(lines), g, s, lines)
  BY TurnsExist
<1>2. Served(g, s, lines) = f[Len(lines)]
  BY DEF Served, Turns, Turn
<1> QED BY <1>1, <1>2


(* Lines that are commands, of which the first may be a subscription. *)
Commanded(p, l, lines) ==
  \A k \in 1..Len(lines) :
    \E x \in Commands :
      /\ lines[k] = <<x>>
      /\ x = SUB => /\ k = 1 /\ p.owner \notin Tools
                    /\ p.owner # None => l[p.owner] = NewLink

LEMMA ServedKeeps ==
  ASSUME NEW g, NEW b, NEW sh, Consistent(g, b, sh), NEW s \in Slots,
         g.slot[s] # None, Quiet(g.slot[s]),
         NEW lines, Len(lines) \in Nat,
         Commanded(g.slot[s], g.link, lines),
         NEW h \in Served(g, s, lines)
  PROVE  Consistent(h, b, sh)
<1> DEFINE n == Len(lines)
           Kept(f) == /\ Consistent(f, b, sh)
                      /\ f.slot[s] = None \/ f.slot[s].rx = g.slot[s].rx
<1>1. PICK after : Turns(after, n, g, s, lines) /\ Served(g, s, lines) = after[n]
  BY ServedIs
<1> DEFINE T == {k \in 0..n : \E f \in after[k] : ~Kept(f)}
<1>2. ASSUME T # {} PROVE FALSE
  <2>1. T \in SUBSET Nat
    OBVIOUS
  <2>2. PICK k \in T : \A y \in T : k <= y
    <3> HIDE DEF T
    <3> QED BY <1>2, <2>1, LeastOf
  <2>3. PICK f \in after[k] : k \in 0..n /\ ~Kept(f)
    OBVIOUS
  <2>4. after[k] = IF k = 0 THEN {g} ELSE Turn(lines, s, after[k - 1], k)
    BY <1>1, <2>3 DEF Turns
  <2>5. CASE k = 0
    BY <2>3, <2>4, <2>5
  <2>6. CASE k # 0
    <3>1. k - 1 \in 0..n /\ ~(k <= k - 1) /\ k \in 1..n
      BY <2>3, <2>6
    <3>2. k - 1 \notin T
      BY <2>2, <3>1
    <3>3. PICK e \in after[k - 1] :
            f = IF e.slot[s] = None THEN e ELSE HandleClient(e, s, lines[k])
      BY <2>3, <2>4, <2>6 DEF Turn
    <3>4. Kept(e)
      BY <3>1, <3>2, <3>3
    <3>5. CASE e.slot[s] = None
      BY <2>3, <3>3, <3>4, <3>5
    <3>6. CASE e.slot[s] # None
      <4>1. f = HandleClient(e, s, lines[k])
        BY <3>3, <3>6
      <4>2. PICK x \in Commands :
              /\ lines[k] = <<x>>
              /\ x = SUB => /\ k = 1 /\ g.slot[s].owner \notin Tools
                            /\ g.slot[s].owner # None
                                 => g.link[g.slot[s].owner] = NewLink
        BY <3>1 DEF Commanded
      <4>3. Consistent(e, b, sh) /\ e.slot[s].rx = g.slot[s].rx
        BY <3>4, <3>6
      <4>4. Quiet(e.slot[s])
        BY <4>3 DEF Quiet
      <4>5. k = 1 => e = g
        <5>1. ASSUME k = 1 PROVE after[k - 1] = {g}
          BY <1>1, <3>1, <5>1 DEF Turns
        <5> QED BY <3>3, <5>1
      <4>6. x = SUB => /\ e.slot[s].owner \notin Tools
                       /\ e.slot[s].owner # None
                            => e.link[e.slot[s].owner] = NewLink
        BY <4>2, <4>5
      <4>7. f = HandleClient(e, s, <<x>>)
        BY <4>1, <4>2
      <4>8. /\ Consistent(f, b, sh)
            /\ f.slot[s] = None \/ f.slot[s].rx = e.slot[s].rx
        BY <3>6, <4>3, <4>4, <4>6, <4>7, HandleKeeps
      <4> QED BY <2>3, <4>3, <4>8
    <3> QED BY <3>5, <3>6
  <2> QED BY <2>5, <2>6
<1>3. n \in 0..n
  OBVIOUS
<1> HIDE DEF Kept
<1>4. Kept(h)
  BY <1>1, <1>2, <1>3
<1> QED BY <1>4 DEF Kept

-----------------------------------------------------------------------------
(* The manager's steps. *)
LEMMA GlobalsConsistent ==
  ASSUME IInv PROVE Consistent(Globals, backlog, shown)
BY DEF IInv, Consistent, Globals, State, Sound

LEMMA BecomesConsistent ==
  ASSUME IInv, NEW h, Consistent(h, backlog, shown), Becomes(h),
         UNCHANGED <<backlog, shown, presses, crashes>>
  PROVE  IInv'
BY StateType DEF IInv, Consistent, Becomes

LEMMA InitIInv == Init => IInv
<1> SUFFICES ASSUME Init PROVE IInv
  OBVIOUS
<1>1. /\ backlog = <<>> /\ backlog \in Seq(Peer) /\ Len(backlog) = 0
      /\ slot \in [Slots -> Peer \cup {None}] /\ \A s \in Slots : slot[s] = None
      /\ link \in [Clients -> Link \cup {None}]
      /\ \A c \in Clients : link[c] = None
  BY DEF Init
<1>2. session \in Values /\ shown \in [Clients -> Values \cup {None, 0, 1}]
  BY Constants DEF Init
<1>3. presses \in 0..Presses /\ crashes \in 0..Crashes /\ 0 <= Backlog
  BY ClientsAssumption DEF Init
<1>4. OneEntry(slot, backlog)
  BY <1>1 DEF OneEntry
<1>5. Sound(slot, link, backlog)
  BY <1>1, <1>3, <1>4 DEF Sound
<1>6. AllTold(session, slot, link, shown)
  BY <1>1 DEF AllTold
<1> QED BY <1>2, <1>3, <1>5, <1>6 DEF IInv

LEMMA StutterKeeps == ASSUME IInv, UNCHANGED vars PROVE IInv'
BY DEF IInv, vars

LEMMA DriverLineKeeps ==
  ASSUME IInv, NEW v \in Values, DriverLine(v) PROVE IInv'
<1>1. PICK g : g = [Globals EXCEPT !.session = v]
  OBVIOUS
<1>2. Consistent(Globals, backlog, shown)
  BY GlobalsConsistent
<1>3. /\ g \in State /\ g.slot = Globals.slot /\ g.link = Globals.link
      /\ Sound(g.slot, g.link, backlog)
  BY <1>1, <1>2 DEF Consistent, State
<1>4. PICK h : h = Publish(g)
  OBVIOUS
<1>5. Consistent(h, backlog, shown)
  BY <1>3, <1>4, PublishTells
<1> QED BY <1>1, <1>4, <1>5, BecomesConsistent DEF DriverLine

LEMMA CrashKeeps == ASSUME IInv, Crash PROVE IInv'
<1>1. /\ slot' = [s \in Slots |-> None] /\ backlog' = <<>>
      /\ session' = Initial /\ crashes < Crashes /\ crashes' = crashes + 1
      /\ UNCHANGED <<shown, presses>>
      /\ link' = [c \in Clients |->
                    IF link[c] = None THEN None
                    ELSE [link[c] EXCEPT !.ended = TRUE]]
  BY DEF Crash
<1>2. /\ link \in [Clients -> Link \cup {None}]
      /\ \A c \in Clients : link[c] # None => LinkSound(link[c])
  BY DEF IInv, Sound
<1>3. ASSUME NEW c \in Clients
      PROVE  /\ link'[c] \in Link \cup {None}
             /\ link'[c] # None => LinkSound(link'[c])
  <2>1. CASE link[c] = None
    BY <1>1, <2>1
  <2>2. CASE link[c] # None
    <3>1. link[c] \in Link /\ LinkSound(link[c])
      BY <1>2, <2>2
    <3>2. link'[c] = [link[c] EXCEPT !.ended = TRUE]
      BY <1>1, <2>2
    <3> QED BY <3>1, <3>2, LineEnded
  <2> QED BY <2>1, <2>2
<1>4. /\ link' \in [Clients -> Link \cup {None}]
      /\ slot' \in [Slots -> Peer \cup {None}]
      /\ \A s \in Slots : slot'[s] = None
      /\ backlog' \in Seq(Peer) /\ Len(backlog') = 0 /\ 0 <= Backlog
  <2>1. link' = [c \in Clients |-> link'[c]]
    BY <1>1
  <2> QED BY <1>1, <1>3, <2>1, ClientsAssumption
<1>5. OneEntry(slot', backlog')
  BY <1>4 DEF OneEntry
<1>6. Sound(slot', link', backlog')
  BY <1>3, <1>4, <1>5 DEF Sound
<1>7. AllTold(session', slot', link', shown')
  BY <1>4 DEF AllTold
<1>8. crashes' \in 0..Crashes
  BY <1>1, ClientsAssumption DEF IInv
<1> QED BY <1>1, <1>6, <1>7, <1>8, Constants DEF IInv


(* What a read leaves of an entry, and the lines it yields. *)
LEMMA EntryRead ==
  ASSUME NEW p \in Peer, NEW l, PeerSound(p, l),
         NEW rx, rx = Recv(p.rx, PeerBuf), NEW n, n = Len(Ends(rx.buf)),
         NEW q, q = [p EXCEPT !.rx = [rx EXCEPT !.buf = After(@, n)]]
  PROVE  /\ q \in Peer /\ q.owner = p.owner /\ q.sub = p.sub
         /\ PeerSound(q, l)
         /\ n \in Nat /\ Len(Pull(rx.buf, n, PeerBuf)) = n
         /\ n # 0 => Quiet(q)
         /\ Commanded(p, l, Pull(rx.buf, n, PeerBuf))
<1> DEFINE t == Unread(p.rx)
<1>1. /\ p.rx \in Rx /\ t \in Seq(Bytes) /\ Len(p.rx.buf) <= PeerBuf
      /\ Whole(t) /\ Lines(t)
      /\ \A i \in 1..Len(t) : t[i] \in Commands \cup {LF}
      /\ \A i \in 1..Len(t) :
           t[i] = SUB => /\ i = 1 /\ ~p.sub /\ p.owner \notin Tools
                         /\ p.owner # None => l[p.owner] = NewLink
  <2>1. Len(p.rx.buf) \in Nat /\ Len(p.rx.buf) <= 1
    BY EntryType DEF PeerSound
  <2> QED BY <2>1, EntryType, Constants DEF PeerSound, Whole
<1> HIDE DEF t
<1>2. rx \in Rx /\ Unread(rx) = t
  BY <1>1, Received DEF t
<1>3. PICK a \in Seq(Bytes), c \in Seq(Bytes) :
        a = rx.buf /\ c = rx.rest /\ t = a \o c
  BY <1>2 DEF Rx, Unread
<1>4. Lines(a)
  BY <1>1, <1>3, FirstPart
<1>5. /\ n = Len(a) \div 2 /\ n \in 0..Len(a) \div 2 /\ n \in Nat
      /\ Len(a) \in Nat /\ Len(a) - 2 * n <= 1
  <2>1. n = Len(a) \div 2
    BY <1>3, <1>4, Parsed
  <2>2. Len(a) \in Nat
    BY LenProperties
  <2> QED BY <2>1, <2>2
<1>6. PICK y : y = [rx EXCEPT !.buf = After(@, n)]
  OBVIOUS
<1>7. /\ y \in Rx /\ Len(y.buf) = Len(a) - 2 * n
      /\ Unread(y) = SubSeq(t, 2 * n + 1, Len(t))
      /\ n \in 0..Len(t) \div 2
  BY <1>2, <1>3, <1>4, <1>5, <1>6, Taking
<1>8. /\ Whole(Unread(y))
      /\ Len(Unread(y)) = Len(t) - 2 * n /\ Len(t) \in Nat
      /\ \A i \in 1..Len(t) - 2 * n :
           Unread(y)[i] = t[i + 2 * n] /\ i + 2 * n \in 1..Len(t)
  <2>1. PICK u \in Seq(Bytes) : \E k \in 0..Len(u) \div 2 : u = t /\ k = n
    BY <1>1, <1>7
  <2>2. PICK k \in 0..Len(u) \div 2 : u = t /\ k = n
    BY <2>1
  <2>3. Whole(SubSeq(u, 2 * k + 1, Len(u)))
    BY <1>1, <2>2, DroppedLines
  <2>4. /\ Len(SubSeq(u, 2 * k + 1, Len(u))) = Len(u) - 2 * k /\ Len(u) \in Nat
        /\ \A i \in 1..Len(u) - 2 * k :
             /\ SubSeq(u, 2 * k + 1, Len(u))[i] = u[i + 2 * k]
             /\ i + 2 * k \in 1..Len(u)
    BY Dropped
  <2> QED BY <1>7, <2>2, <2>3, <2>4, ZenonT(60)
<1>9. q \in Peer /\ q.owner = p.owner /\ q.sub = p.sub /\ q.rx = y
  BY <1>6, <1>7 DEF Peer
<1>10. ASSUME NEW i \in 1..Len(Unread(y)), Unread(y)[i] = SUB
       PROVE  n = 0 /\ i = 1 /\ t[1] = SUB /\ 1 \in 1..Len(t)
  <2>1. t[i + 2 * n] = SUB /\ i + 2 * n \in 1..Len(t)
    BY <1>8, <1>10
  <2>2. i + 2 * n = 1
    BY <1>1, <2>1
  <2>3. n = 0 /\ i = 1
    BY <1>5, <1>8, <2>2
  <2> QED BY <2>1, <2>3
<1>11. PeerSound(q, l)
  <2>1. \A i \in 1..Len(Unread(y)) : Unread(y)[i] \in Commands \cup {LF}
    BY <1>1, <1>8
  <2>2. \A i \in 1..Len(Unread(y)) :
          Unread(y)[i] = SUB => /\ i = 1 /\ ~p.sub /\ p.owner \notin Tools
                                /\ p.owner # None => l[p.owner] = NewLink
    BY <1>1, <1>10
  <2>3. /\ p.owner # None => l[p.owner] # None /\ ~l[p.owner].ended
        /\ p.owner \in Tools => ~p.sub
    BY DEF PeerSound
  <2>4. Len(y.buf) <= 1
    BY <1>5, <1>7
  <2> QED BY <1>8, <1>9, <2>1, <2>2, <2>3, <2>4 DEF PeerSound
<1>12. n # 0 => Quiet(q)
  BY <1>9, <1>10 DEF Quiet
<1>13. /\ Len(Pull(a, n, PeerBuf)) = n
       /\ \A k \in 1..n : /\ Pull(a, n, PeerBuf)[k] = <<a[2 * k - 1]>>
                          /\ 2 * k - 1 \in 1..Len(a)
  BY <1>4, <1>5, Parsed
<1>14. ASSUME NEW k \in 1..n
       PROVE  \E x \in Commands :
                /\ Pull(a, n, PeerBuf)[k] = <<x>>
                /\ x = SUB => /\ k = 1 /\ p.owner \notin Tools
                              /\ p.owner # None => l[p.owner] = NewLink
  <2>1. PICK j \in 1..Len(a) : j = 2 * k - 1 /\ j % 2 = 1 /\ k \in Nat
    BY <1>5, <1>13
  <2>2. a[j] = t[j] /\ j \in 1..Len(t)
    <3>1. /\ Len(a \o c) = Len(a) + Len(c) /\ Len(c) \in Nat
          /\ \A i \in 1..Len(a) + Len(c) :
               (a \o c)[i] = IF i <= Len(a) THEN a[i] ELSE c[i - Len(a)]
      BY ConcatProperties
    <3>2. j \in 1..Len(a) + Len(c) /\ j <= Len(a)
      BY <1>5, <3>1
    <3> QED BY <1>3, <3>1, <3>2
  <2>3. a[j] # LF
    BY <1>1, <2>1, <2>2 DEF Lines
  <2>4. a[j] \in Commands
    BY <1>1, <2>2, <2>3
  <2>5. a[j] = SUB => /\ k = 1 /\ p.owner \notin Tools
                      /\ p.owner # None => l[p.owner] = NewLink
    <3>1. a[j] = SUB => j = 1
      BY <1>1, <2>2
    <3>2. j = 1 => k = 1
      BY <2>1
    <3> QED BY <1>1, <2>2, <3>1, <3>2
  <2> QED BY <1>13, <2>1, <2>4, <2>5
<1>15. Commanded(p, l, Pull(a, n, PeerBuf))
  BY <1>13, <1>14 DEF Commanded
<1> QED BY <1>3, <1>5, <1>9, <1>11, <1>12, <1>13, <1>15

(* Replacing an entry by one of the same owner that is as good. *)
LEMMA EntryReplaced ==
  ASSUME NEW sl, NEW l, NEW b, Sound(sl, l, b), NEW s \in Slots,
         sl[s] # None, NEW q \in Peer, q.owner = sl[s].owner, PeerSound(q, l)
  PROVE  Sound([sl EXCEPT ![s] = q], l, b)
<1> DEFINE sm == [sl EXCEPT ![s] = q]
<1>1. /\ sl \in [Slots -> Peer \cup {None}] /\ OneEntry(sl, b)
      /\ \A t \in Slots : sl[t] # None => PeerSound(sl[t], l)
  BY DEF Sound
<1>2. /\ sm \in [Slots -> Peer \cup {None}] /\ sm[s] = q
      /\ \A t \in Slots \ {s} : sm[t] = sl[t]
  BY <1>1
<1> HIDE DEF sm
<1>3. \A t \in Slots : /\ sm[t] # None => sl[t] # None
                       /\ sm[t].owner = sl[t].owner
  BY <1>2
<1>4. OneEntry(sm, b)
  BY <1>1, <1>3 DEF OneEntry
<1>5. \A t \in Slots : sm[t] # None => PeerSound(sm[t], l)
  BY <1>1, <1>2
<1>6. Sound(sm, l, b)
  BY <1>2, <1>4, <1>5 DEF Sound
<1> QED BY <1>6 DEF sm


LEMMA DrainClientKeeps ==
  ASSUME IInv, NEW s \in Slots, DrainClient(s) PROVE IInv'
<1>1. /\ slot[s] # None /\ UNCHANGED <<backlog, shown, presses, crashes>>
      /\ \/ /\ slot[s].rx.rest = <<>> /\ slot[s].owner = None
            /\ Becomes(ClosePeer(Globals, s))
         \/ \E rx \in {Recv(slot[s].rx, PeerBuf)} :
              LET n == Len(Ends(rx.buf))
                  g == [Globals EXCEPT !.slot[s].rx = [rx EXCEPT !.buf = After(@, n)]]
              IN \E h \in Served(g, s, Pull(rx.buf, n, PeerBuf)) : Becomes(h)
  BY DEF DrainClient
<1>2. /\ Globals \in State /\ Globals.slot = slot /\ Globals.link = link
      /\ Globals.session = session
      /\ Sound(slot, link, backlog) /\ AllTold(session, slot, link, shown)
      /\ slot \in [Slots -> Peer \cup {None}]
      /\ link \in [Clients -> Link \cup {None}] /\ session \in Values
  BY GlobalsConsistent, StateType DEF Consistent, Globals
<1>3. CASE slot[s].owner = None /\ Becomes(ClosePeer(Globals, s))
  <2> DEFINE sm == [slot EXCEPT ![s] = None]
  <2>1. ClosePeer(Globals, s) = [session |-> session, slot |-> sm, link |-> link]
    <3>1. ClosePeer(Globals, s) = [Globals EXCEPT !.slot = sm, !.link = link]
      BY <1>2, <1>3 DEF ClosePeer, Ended
    <3> HIDE DEF sm
    <3> QED BY <3>1 DEF Globals
  <2>2. session' = session /\ slot' = sm /\ link' = link
    BY <1>3, <2>1 DEF Becomes
  <2>3. sm \in [Slots -> Peer \cup {None}]
        /\ \A t \in Slots : sm[t] = None \/ sm[t] = slot[t]
    BY <1>2
  <2> HIDE DEF sm
  <2>4. \A c \in Clients : Treated(c, link, link, sm, backlog)
    BY DEF Treated
  <2>5. link = [c \in Clients |-> link[c]]
    BY <1>2
  <2>6. Sound(sm, link, backlog)
    BY <1>2, <2>3, <2>4, <2>5, Rewritten
  <2>7. AllTold(session, sm, link, shown)
    BY <1>2, <2>3 DEF AllTold
  <2> QED BY <1>1, <2>2, <2>6, <2>7 DEF IInv
<1>4. ASSUME NEW rx, rx = Recv(slot[s].rx, PeerBuf),
             NEW n, n = Len(Ends(rx.buf)),
             NEW g, g = [Globals EXCEPT !.slot[s].rx =
                           [rx EXCEPT !.buf = After(@, n)]],
             NEW h \in Served(g, s, Pull(rx.buf, n, PeerBuf)), Becomes(h)
      PROVE  IInv'
  <2>1. slot[s] \in Peer /\ PeerSound(slot[s], link)
    BY <1>1, <1>2 DEF Sound
  <2>2. PICK q : q = [slot[s] EXCEPT !.rx = [rx EXCEPT !.buf = After(@, n)]]
    OBVIOUS
  <2>3. /\ q \in Peer /\ q.owner = slot[s].owner /\ q.sub = slot[s].sub
        /\ PeerSound(q, link)
        /\ n \in Nat /\ Len(Pull(rx.buf, n, PeerBuf)) = n
        /\ n # 0 => Quiet(q)
    BY <1>4, <2>1, <2>2, EntryRead
  <2>4. Commanded(slot[s], link, Pull(rx.buf, n, PeerBuf))
    BY <1>4, <2>1, <2>2, EntryRead
  <2> DEFINE sm == [slot EXCEPT ![s] = q]
  <2>5. g = [session |-> session, slot |-> sm, link |-> link]
    <3>1. PICK y : y = [rx EXCEPT !.buf = After(@, n)]
      OBVIOUS
    <3>2. g = [Globals EXCEPT !.slot = [slot EXCEPT ![s] = [@ EXCEPT !.rx = y]]]
      BY <1>2, <1>4, <3>1
    <3>3. g = [Globals EXCEPT !.slot = sm]
      BY <2>2, <3>1, <3>2
    <3> HIDE DEF sm
    <3> QED BY <3>3 DEF Globals
  <2>6. Sound(sm, link, backlog)
    BY <1>1, <1>2, <2>3, EntryReplaced
  <2>7. /\ sm \in [Slots -> Peer \cup {None}] /\ sm[s] = q
        /\ \A t \in Slots \ {s} : sm[t] = slot[t]
    BY <1>2, <2>3
  <2> HIDE DEF sm
  <2>8. AllTold(session, sm, link, shown)
    <3>1. \A t \in Slots : /\ sm[t].owner = slot[t].owner
                           /\ sm[t].sub = slot[t].sub
                           /\ sm[t] # None => slot[t] # None
      BY <1>1, <2>3, <2>7
    <3> QED BY <1>2, <3>1 DEF AllTold
  <2>9. /\ Consistent(g, backlog, shown) /\ g.slot[s] = q /\ g.link = link
    BY <1>2, <2>5, <2>6, <2>7, <2>8 DEF Consistent, State
  <2>10. Consistent(h, backlog, shown)
    <3>1. CASE n = 0
      <4>1. PICK f : /\ Turns(f, n, g, s, Pull(rx.buf, n, PeerBuf))
                     /\ Served(g, s, Pull(rx.buf, n, PeerBuf)) = f[n]
        BY <2>3, ServedIs
      <4>2. f[n] = {g}
        BY <3>1, <4>1 DEF Turns
      <4> QED BY <1>4, <2>9, <4>1, <4>2
    <3>2. CASE n # 0
      <4>1. PICK lines : lines = Pull(rx.buf, n, PeerBuf)
        OBVIOUS
      <4>2. g.slot[s] # None /\ Quiet(g.slot[s])
        BY <2>3, <2>9, <3>2, Constants
      <4>3. Len(lines) \in Nat /\ Len(lines) = n
        BY <2>3, <4>1
      <4>4. Commanded(g.slot[s], g.link, lines)
        BY <2>3, <2>4, <2>9, <4>1 DEF Commanded
      <4>5. h \in Served(g, s, lines)
        BY <1>4, <4>1
      <4> QED BY <2>9, <4>2, <4>3, <4>4, <4>5, ServedKeeps
    <3> QED BY <3>1, <3>2
  <2> QED BY <1>1, <1>4, <2>10, BecomesConsistent
<1> QED BY <1>1, <1>3, <1>4


(* accept_client: the first waiting entry moves to a free slot, or its      *)
(* connection is closed.                                                   *)
LEMMA RestWaits ==
  ASSUME NEW sl, NEW l, NEW b, Sound(sl, l, b), b # <<>>
  PROVE  /\ Sound(sl, l, Tail(b)) /\ Head(b) = b[1] /\ 1 \in 1..Len(b)
         /\ Len(b) \in Nat /\ Len(Tail(b)) = Len(b) - 1
         /\ \A i \in 1..Len(b) - 1 :
              /\ Tail(b)[i] = b[i + 1]
              /\ i + 1 \in 1..Len(b) /\ i + 1 # 1
<1>1. /\ b \in Seq(Peer) /\ Len(b) <= Backlog /\ OneEntry(sl, b)
      /\ \A i \in 1..Len(b) : PeerSound(b[i], l) /\ ~b[i].sub
  BY DEF Sound
<1>2. /\ Len(b) \in Nat \ {0} /\ Tail(b) \in Seq(Peer)
      /\ Len(Tail(b)) = Len(b) - 1 /\ Head(b) = b[1]
  BY <1>1, EmptySeq, HeadTailProperties
<1>3. \A i \in 1..Len(b) - 1 : /\ Tail(b)[i] = b[i + 1]
                               /\ i + 1 \in 1..Len(b) /\ i + 1 # 1
  BY <1>1, <1>2
<1>4. OneEntry(sl, Tail(b))
  <2>1. \A s, t \in Slots :
          sl[s] # None /\ sl[t] # None /\ sl[s].owner # None
            => (sl[s].owner = sl[t].owner => s = t)
    BY <1>1 DEF OneEntry
  <2>2. \A i, j \in 1..Len(b) - 1 :
          Tail(b)[i].owner # None
            => (Tail(b)[i].owner = Tail(b)[j].owner => i = j)
    <3> TAKE i, j \in 1..Len(b) - 1
    <3>1. b[i + 1].owner # None
            => (b[i + 1].owner = b[j + 1].owner => i + 1 = j + 1)
      BY <1>1, <1>3 DEF OneEntry
    <3>2. i + 1 = j + 1 => i = j
      BY <1>2
    <3> QED BY <1>3, <3>1, <3>2
  <2>3. \A s \in Slots, i \in 1..Len(b) - 1 :
          sl[s] # None /\ sl[s].owner # None => sl[s].owner # Tail(b)[i].owner
    BY <1>1, <1>3 DEF OneEntry
  <2> QED BY <1>2, <2>1, <2>2, <2>3 DEF OneEntry
<1>5. \A i \in 1..Len(Tail(b)) : PeerSound(Tail(b)[i], l) /\ ~Tail(b)[i].sub
  BY <1>1, <1>2, <1>3
<1>6. Len(Tail(b)) <= Backlog
  BY <1>1, <1>2, ClientsAssumption
<1> QED BY <1>2, <1>3, <1>4, <1>5, <1>6 DEF Sound

LEMMA AcceptKeeps == ASSUME IInv, Accept PROVE IInv'
<1> DEFINE free == {s \in Slots : slot[s] = None}
           p == Head(backlog)
<1>1. /\ backlog # <<>> /\ backlog' = Tail(backlog)
      /\ IF free # {} THEN slot' = [slot EXCEPT ![Min(free)] = p] /\ link' = link
         ELSE link' = Ended(link, p.owner) /\ slot' = slot
      /\ UNCHANGED <<session, shown, presses, crashes>>
  BY DEF Accept
<1>2. /\ Sound(slot, link, backlog) /\ AllTold(session, slot, link, shown)
      /\ slot \in [Slots -> Peer \cup {None}]
      /\ link \in [Clients -> Link \cup {None}]
      /\ \A s \in Slots : slot[s] # None => PeerSound(slot[s], link)
      /\ \A c \in Clients : link[c] # None => LinkSound(link[c])
      /\ OneEntry(slot, backlog)
  BY DEF IInv, Sound
<1>3. /\ Sound(slot, link, Tail(backlog)) /\ p = backlog[1]
      /\ 1 \in 1..Len(backlog) /\ Len(Tail(backlog)) = Len(backlog) - 1
      /\ \A i \in 1..Len(backlog) - 1 :
           /\ Tail(backlog)[i] = backlog[i + 1]
           /\ i + 1 \in 1..Len(backlog) /\ i + 1 # 1
  BY <1>1, <1>2, RestWaits
<1>4. /\ p \in Peer /\ p # None /\ PeerSound(p, link) /\ ~p.sub
      /\ p.owner \in Clients \cup {None}
  <2>1. backlog \in Seq(Peer) /\ PeerSound(backlog[1], link) /\ ~backlog[1].sub
    BY <1>2, <1>3 DEF Sound
  <2> QED BY <1>3, <2>1, ElementOfSeq, EntryType
<1>5. p.owner # None =>
        /\ \A s \in Slots : slot[s] # None => slot[s].owner # p.owner
        /\ \A i \in 1..Len(Tail(backlog)) : Tail(backlog)[i].owner # p.owner
  BY <1>2, <1>3, Constants DEF OneEntry
<1>6. free \in SUBSET Nat
  BY DEF Slots
<1> HIDE DEF p
<1>7. CASE free # {}
  <2>1. PICK k \in Slots : k = Min(free) /\ slot[k] = None
    BY <1>6, <1>7, MinIs
  <2> DEFINE sm == [slot EXCEPT ![k] = p]
  <2>2. slot' = sm /\ link' = link
    BY <1>1, <1>7, <2>1
  <2>3. /\ sm \in [Slots -> Peer \cup {None}] /\ sm[k] = p
        /\ \A s \in Slots \ {k} : sm[s] = slot[s]
    BY <1>2, <1>4
  <2> HIDE DEF sm
  <2>4. OneEntry(sm, Tail(backlog))
    <3>1. OneEntry(slot, Tail(backlog))
      BY <1>3 DEF Sound
    <3>2. \A s, t \in Slots :
            sm[s] # None /\ sm[t] # None /\ sm[s].owner # None
              => (sm[s].owner = sm[t].owner => s = t)
      BY <1>5, <2>3, <3>1 DEF OneEntry
    <3>3. \A s \in Slots, i \in 1..Len(Tail(backlog)) :
            sm[s] # None /\ sm[s].owner # None
              => sm[s].owner # Tail(backlog)[i].owner
      BY <1>5, <2>3, <3>1 DEF OneEntry
    <3> QED BY <3>1, <3>2, <3>3 DEF OneEntry
  <2>5. \A s \in Slots : sm[s] # None => PeerSound(sm[s], link)
    BY <1>2, <1>4, <2>3
  <2>6. Sound(sm, link, Tail(backlog))
    BY <1>3, <2>3, <2>4, <2>5 DEF Sound
  <2>7. AllTold(session, sm, link, shown)
    BY <1>2, <1>4, <2>3 DEF AllTold
  <2> QED BY <1>1, <2>2, <2>6, <2>7 DEF IInv
<1>8. CASE ~(free # {})
  <2>1. link' = Ended(link, p.owner) /\ slot' = slot
    BY <1>1, <1>8
  <2>2. CASE p.owner = None
    <3>1. link' = link
      BY <2>1, <2>2 DEF Ended
    <3> QED BY <1>1, <1>2, <1>3, <2>1, <3>1 DEF IInv
  <2>3. CASE p.owner # None
    <3>1. PICK o \in Clients : o = p.owner /\ link[o] # None
      BY <1>4, <2>3 DEF PeerSound
    <3> DEFINE m == [link EXCEPT ![o].ended = TRUE]
    <3>2. link' = m
      BY <2>1, <2>3, <3>1 DEF Ended
    <3>3. /\ m = [c \in Clients |-> m[c]]
          /\ m[o] = [link[o] EXCEPT !.ended = TRUE]
          /\ \A c \in Clients \ {o} : m[c] = link[c]
      BY <1>2, <3>1
    <3> HIDE DEF m
    <3>4. \A c \in Clients : Treated(c, link, m, slot, Tail(backlog))
      BY <1>5, <2>3, <3>1, <3>3 DEF Treated
    <3>5. Sound(slot, m, Tail(backlog))
      BY <1>2, <1>3, <3>3, <3>4, Rewritten
    <3>6. AllTold(session, slot, m, shown)
      <4>1. ASSUME NEW s \in Slots, slot[s] # None, slot[s].owner # None
            PROVE  m[slot[s].owner] = link[slot[s].owner]
        <5>1. slot[s].owner \in Clients /\ slot[s].owner # o
          BY <1>2, <1>5, <2>3, <3>1, <4>1, EntryType
        <5> QED BY <3>3, <5>1
      <4> QED BY <1>2, <4>1 DEF AllTold
    <3> QED BY <1>1, <2>1, <3>2, <3>5, <3>6 DEF IInv
  <2> QED BY <2>2, <2>3
<1> QED BY <1>7, <1>8

(* hupi_link_close: the entry of the connection, if it still has one, is    *)
(* left without an owner.                                                  *)
Left(p, c) == IF p # None /\ p.owner = c THEN [p EXCEPT !.owner = None] ELSE p

SlotsLeft(sl, c) == [s \in Slots |-> Left(sl[s], c)]
QueueLeft(b, c) == [i \in 1..Len(b) |-> Left(b[i], c)]
LinkLeft(l, c) == [l EXCEPT ![c] = None]

LEMMA EntryLeft ==
  ASSUME NEW p \in Peer, NEW c \in Clients, NEW l, PeerSound(p, l),
         l \in [Clients -> Link \cup {None}],
         NEW q, q = Left(p, c)
  PROVE  /\ q \in Peer /\ q.sub = p.sub /\ q # None
         /\ q.owner # None => q.owner = p.owner /\ q.owner # c
         /\ PeerSound(q, LinkLeft(l, c))
<1> DEFINE m == LinkLeft(l, c)
<1>1. /\ p.owner \in Clients \cup {None} /\ p.sub \in BOOLEAN /\ p.rx \in Rx
      /\ p # None
  BY EntryType
<1>2. CASE p.owner = c
  <2>1. q = [p EXCEPT !.owner = None]
    BY <1>1, <1>2 DEF Left
  <2>2. q \in Peer /\ q.owner = None /\ q.sub = p.sub /\ q.rx = p.rx
    BY <1>1, <2>1 DEF Peer
  <2>3. None \notin Tools
    BY Constants DEF Clients
  <2>4. PeerSound(q, m)
    BY <2>2, <2>3 DEF PeerSound
  <2> QED BY <2>2, <2>4, EntryType
<1>3. CASE p.owner # c
  <2>1. q = p
    BY <1>3 DEF Left
  <2>2. p.owner # None => m[p.owner] = l[p.owner]
    BY <1>1, <1>3 DEF LinkLeft
  <2> HIDE DEF m
  <2>3. PeerSound(p, m)
    BY <2>2, SoundWith
  <2> QED BY <1>1, <1>3, <2>1, <2>3 DEF m
<1> QED BY <1>2, <1>3

LEMMA LeftKeeps ==
  ASSUME NEW sl, NEW l, NEW b, Sound(sl, l, b), NEW c \in Clients
  PROVE  /\ Sound(SlotsLeft(sl, c), LinkLeft(l, c), QueueLeft(b, c))
         /\ \A s \in Slots : SlotsLeft(sl, c)[s] # None =>
              /\ sl[s] # None /\ SlotsLeft(sl, c)[s].sub = sl[s].sub
              /\ SlotsLeft(sl, c)[s].owner # None
                   => /\ SlotsLeft(sl, c)[s].owner = sl[s].owner
                      /\ sl[s].owner \in Clients \ {c}
<1> DEFINE sm == SlotsLeft(sl, c)
           bm == QueueLeft(b, c)
           m == LinkLeft(l, c)
<1>0. /\ sm = [s \in Slots |-> Left(sl[s], c)]
      /\ bm = [i \in 1..Len(b) |-> Left(b[i], c)]
      /\ m = [l EXCEPT ![c] = None]
  BY DEF SlotsLeft, QueueLeft, LinkLeft
<1> HIDE DEF sm, bm, m
<1>1. /\ b \in Seq(Peer) /\ Len(b) <= Backlog /\ OneEntry(sl, b) /\ Len(b) \in Nat
      /\ sl \in [Slots -> Peer \cup {None}]
      /\ l \in [Clients -> Link \cup {None}]
      /\ \A s \in Slots : sl[s] # None => PeerSound(sl[s], l)
      /\ \A i \in 1..Len(b) : PeerSound(b[i], l) /\ ~b[i].sub
      /\ \A d \in Clients : l[d] # None => LinkSound(l[d])
  BY LenProperties DEF Sound
<1>2. ASSUME NEW s \in Slots
      PROVE  /\ sm[s] \in Peer \cup {None}
             /\ sl[s] = None => sm[s] = None
             /\ sl[s] # None =>
                  /\ sm[s] \in Peer /\ sm[s].sub = sl[s].sub
                  /\ sm[s].owner # None
                       => sm[s].owner = sl[s].owner /\ sm[s].owner # c
                  /\ PeerSound(sm[s], m)
  <2>1. sm[s] = Left(sl[s], c)
    BY <1>0
  <2>2. CASE sl[s] = None
    BY <2>1, <2>2 DEF Left
  <2>3. CASE sl[s] # None
    <3>1. /\ sl[s] \in Peer /\ PeerSound(sl[s], l)
          /\ l \in [Clients -> Link \cup {None}]
      BY <1>1, <2>3
    <3>2. /\ sm[s] \in Peer /\ sm[s].sub = sl[s].sub
          /\ sm[s].owner # None
               => sm[s].owner = sl[s].owner /\ sm[s].owner # c
      BY <2>1, <3>1, EntryLeft
    <3>3. PeerSound(sm[s], m)
      BY <2>1, <3>1, EntryLeft DEF m
    <3> QED BY <2>3, <3>2, <3>3
  <2> QED BY <2>2, <2>3
<1>3. ASSUME NEW i \in 1..Len(b)
      PROVE  /\ bm[i] \in Peer /\ ~bm[i].sub
             /\ bm[i].owner # None
                  => bm[i].owner = b[i].owner /\ bm[i].owner # c
             /\ PeerSound(bm[i], m)
  <2>1. b[i] \in Peer /\ PeerSound(b[i], l) /\ ~b[i].sub
    BY <1>1, ElementOfSeq
  <2>2. bm[i] = Left(b[i], c) /\ l \in [Clients -> Link \cup {None}]
    BY <1>0, <1>1
  <2>3. /\ bm[i] \in Peer /\ bm[i].sub = b[i].sub
        /\ bm[i].owner # None
             => bm[i].owner = b[i].owner /\ bm[i].owner # c
    BY <2>1, <2>2, EntryLeft
  <2>4. PeerSound(bm[i], m)
    BY <2>1, <2>2, EntryLeft DEF m
  <2> QED BY <2>1, <2>3, <2>4
<1>4. bm \in Seq(Peer) /\ Len(bm) = Len(b)
  BY <1>0, <1>1, <1>3
<1>5. sm \in [Slots -> Peer \cup {None}] /\ m \in [Clients -> Link \cup {None}]
  BY <1>0, <1>1, <1>2
<1>6. \A d \in Clients : m[d] # None => LinkSound(m[d])
  BY <1>0, <1>1
<1>7. OneEntry(sm, bm)
  <2>1. \A s, t \in Slots :
          sm[s] # None /\ sm[t] # None /\ sm[s].owner # None
            => (sm[s].owner = sm[t].owner => s = t)
    BY <1>1, <1>2 DEF OneEntry
  <2>2. \A i, j \in 1..Len(b) :
          bm[i].owner # None => (bm[i].owner = bm[j].owner => i = j)
    BY <1>1, <1>3 DEF OneEntry
  <2>3. \A s \in Slots, i \in 1..Len(b) :
          sm[s] # None /\ sm[s].owner # None => sm[s].owner # bm[i].owner
    BY <1>1, <1>2, <1>3 DEF OneEntry
  <2> QED BY <1>4, <2>1, <2>2, <2>3 DEF OneEntry
<1>8. Sound(sm, m, bm)
  <2>1. \A s \in Slots : sm[s] # None => PeerSound(sm[s], m)
    BY <1>2
  <2>2. \A i \in 1..Len(bm) : PeerSound(bm[i], m) /\ ~bm[i].sub
    BY <1>3, <1>4
  <2> QED BY <1>1, <1>4, <1>5, <1>6, <1>7, <2>1, <2>2 DEF Sound
<1>9. ASSUME NEW s \in Slots, sm[s] # None
      PROVE  /\ sl[s] # None /\ sm[s].sub = sl[s].sub
             /\ sm[s].owner # None
                  => sm[s].owner = sl[s].owner /\ sl[s].owner \in Clients \ {c}
  <2>1. sl[s] # None /\ sm[s] \in Peer
    BY <1>2, <1>9
  <2>2. sm[s].owner \in Clients \cup {None}
    BY <2>1, EntryType
  <2> QED BY <1>2, <2>1, <2>2
<1> QED BY <1>8, <1>9 DEF sm, m, bm

LEMMA CloseLinkKeeps ==
  ASSUME IInv, NEW c \in Clients, CloseLink(c), session' = session,
         presses' \in 0..Presses, crashes' \in 0..Crashes,
         shown' \in [Clients -> Values \cup {None, 0, 1}],
         \A d \in Clients \ {c} : shown'[d] = shown[d]
  PROVE  IInv'
<1>1. /\ link' = LinkLeft(link, c)
      /\ slot' = SlotsLeft(slot, c)
      /\ backlog' = QueueLeft(backlog, c)
  BY DEF CloseLink, Orphan, ToPeer, Left, LinkLeft, SlotsLeft, QueueLeft
<1>2. /\ Sound(slot, link, backlog) /\ AllTold(session, slot, link, shown)
      /\ session \in Values
      /\ link \in [Clients -> Link \cup {None}]
  BY DEF IInv, Sound
<1>3. Sound(slot', link', backlog')
  BY <1>1, <1>2, LeftKeeps
<1>4. \A s \in Slots : slot'[s] # None =>
        /\ slot[s] # None /\ slot'[s].sub = slot[s].sub
        /\ slot'[s].owner # None
             => slot'[s].owner = slot[s].owner /\ slot[s].owner \in Clients \ {c}
  BY <1>1, <1>2, LeftKeeps
<1>5. \A d \in Clients \ {c} : link'[d] = link[d]
  BY <1>1, <1>2 DEF LinkLeft
<1>6. AllTold(session, slot', link', shown')
  BY <1>2, <1>4, <1>5 DEF AllTold
<1> QED BY <1>2, <1>3, <1>6 DEF IInv

(* hupi_link_open: a client without a connection owns no entry. *)
LEMMA OpenKeeps ==
  ASSUME IInv, NEW c \in Clients, Open(c) PROVE IInv'
<1> DEFINE q == [NewPeer(c) EXCEPT !.rx.rest = Text(FirstCommand(c))]
           m == [link EXCEPT ![c] = NewLink]
           n == Len(backlog)
<1>1. /\ link[c] = None /\ n < Backlog
      /\ link' = m /\ backlog' = Append(backlog, q)
      /\ UNCHANGED <<session, slot, shown, presses, crashes>>
  BY DEF Open
<1>2. /\ backlog \in Seq(Peer) /\ n \in Nat /\ OneEntry(slot, backlog)
      /\ slot \in [Slots -> Peer \cup {None}]
      /\ link \in [Clients -> Link \cup {None}]
      /\ AllTold(session, slot, link, shown)
  BY LenProperties DEF IInv, Sound
<1>3. ASSUME NEW s \in Slots, slot[s] # None
      PROVE  slot[s] \in Peer /\ PeerSound(slot[s], link)
  BY <1>3 DEF IInv, Sound
<1>4. ASSUME NEW i \in 1..n
      PROVE  backlog[i] \in Peer /\ PeerSound(backlog[i], link) /\ ~backlog[i].sub
  BY <1>2, ElementOfSeq DEF IInv, Sound
<1>5. NewLink = [rx |-> [rest |-> <<>>, buf |-> <<>>], ended |-> FALSE]
  BY DEF NewLink, Receiver
<1>6. /\ NewLink \in Link /\ LinkSound(NewLink) /\ ~NewLink.ended
      /\ NewLink # None
  <2>1. <<>> \in Seq(Bytes) /\ Len(<<>>) = 0
    OBVIOUS
  <2>2. NewLink \in Link
    BY <1>5, <2>1 DEF Link, Rx
  <2>3. Unread(NewLink.rx) = <<>>
    BY <1>5, <2>1 DEF Unread
  <2>4. Whole(<<>>)
    BY <2>1 DEF Whole, Lines
  <2>5. LinkSound(NewLink)
    <3>1. NewLink.rx.rest = <<>> /\ NewLink.rx.buf = <<>>
      BY <1>5
    <3> QED BY <2>1, <2>3, <2>4, <3>1, Constants DEF LinkSound
  <2> QED BY <1>5, <2>2, <2>5, Constants
<1>7. /\ m \in [Clients -> Link \cup {None}] /\ m[c] = NewLink
      /\ \A d \in Clients \ {c} : m[d] = link[d]
  BY <1>2, <1>6
<1> HIDE DEF m
<1>8. ASSUME NEW p \in Peer, PeerSound(p, link)
      PROVE  PeerSound(p, m) /\ p.owner # c
  <2>1. p.owner \in Clients \cup {None}
    BY EntryType
  <2>2. p.owner # c
    BY <1>1, <1>8, Constants DEF PeerSound
  <2>3. p.owner # None => m[p.owner] = link[p.owner]
    BY <1>7, <2>1, <2>2
  <2> QED BY <1>8, <2>2, <2>3, SoundWith
<1>9. /\ q \in Peer /\ q.owner = c /\ ~q.sub
      /\ q.rx = [rest |-> <<FirstCommand(c), LF>>, buf |-> <<>>]
  <2>1. q = [owner |-> c, sub |-> FALSE,
             rx |-> [rest |-> <<FirstCommand(c), LF>>, buf |-> <<>>]]
    <3>1. PICK r : r = NewPeer(c)
      OBVIOUS
    <3>2. PICK x : x = Text(FirstCommand(c))
      OBVIOUS
    <3>3. r = [owner |-> c, sub |-> FALSE, rx |-> [rest |-> <<>>, buf |-> <<>>]]
      BY <3>1 DEF NewPeer, Receiver
    <3>4. q = [r EXCEPT !.rx = [r.rx EXCEPT !.rest = x]]
      BY <3>1, <3>2
    <3> HIDE DEF q
    <3>5. q = [owner |-> c, sub |-> FALSE, rx |-> [rest |-> x, buf |-> <<>>]]
      BY <3>3, <3>4
    <3> QED BY <3>2, <3>5 DEF Text
  <2>2. FirstCommand(c) \in Bytes /\ LF \in Bytes
    BY DEF FirstCommand, Bytes
  <2> HIDE DEF q
  <2> QED BY <2>1, <2>2 DEF Peer, Rx
<1> HIDE DEF q
<1>10. PeerSound(q, m)
  <2>1. PICK x : x = FirstCommand(c)
    OBVIOUS
  <2>2. /\ x \in Commands /\ x # LF /\ x \in Bytes
        /\ x = SUB => c \notin Tools
    BY <2>1, Constants DEF FirstCommand, Commands, Bytes, Clients
  <2>3. Unread(q.rx) = <<x, LF>>
    BY <1>9, <2>1 DEF Unread
  <2>4. Whole(<<x, LF>>)
    BY <2>2 DEF Whole, Lines
  <2>5. \A i \in 1..Len(<<x, LF>>) :
          /\ <<x, LF>>[i] \in Commands \cup {LF}
          /\ <<x, LF>>[i] = SUB => i = 1 /\ x = SUB
    BY <2>2, Constants
  <2>6. Len(q.rx.buf) <= 1
    BY <1>9
  <2> QED BY <1>6, <1>7, <1>9, <2>2, <2>3, <2>4, <2>5, <2>6 DEF PeerSound
<1>11. PICK b : b = Append(backlog, q)
  OBVIOUS
<1>12. /\ b \in Seq(Peer) /\ Len(b) = n + 1 /\ b[n + 1] = q
       /\ \A i \in 1..n : b[i] = backlog[i]
       /\ \A i \in 1..n + 1 : i \in 1..n \/ i = n + 1
  BY <1>2, <1>9, <1>11, AppendProperties
<1> HIDE DEF n
<1>13. OneEntry(slot, b)
  <2>1. \A s \in Slots : slot[s] # None => slot[s].owner # c
    BY <1>3, <1>8
  <2>2. \A i \in 1..n : b[i].owner # c /\ b[i].owner = backlog[i].owner
    BY <1>4, <1>8, <1>12
  <2>3. b[n + 1].owner = c
    BY <1>9, <1>12
  <2>4. /\ \A s, t \in Slots :
             slot[s] # None /\ slot[t] # None /\ slot[s].owner # None
               => (slot[s].owner = slot[t].owner => s = t)
        /\ \A i, j \in 1..n :
             backlog[i].owner # None
               => (backlog[i].owner = backlog[j].owner => i = j)
        /\ \A s \in Slots, i \in 1..n :
             slot[s] # None /\ slot[s].owner # None
               => slot[s].owner # backlog[i].owner
    BY <1>2 DEF OneEntry, n
  <2>5. \A i, j \in 1..n + 1 :
          b[i].owner # None => (b[i].owner = b[j].owner => i = j)
    BY <1>12, <2>2, <2>3, <2>4
  <2>6. \A s \in Slots, i \in 1..n + 1 :
          slot[s] # None /\ slot[s].owner # None => slot[s].owner # b[i].owner
    BY <1>12, <2>1, <2>2, <2>3, <2>4
  <2> QED BY <1>12, <2>4, <2>5, <2>6 DEF OneEntry
<1>14. Sound(slot, m, b)
  <2>1. \A s \in Slots : slot[s] # None => PeerSound(slot[s], m)
    BY <1>3, <1>8
  <2>2. \A i \in 1..Len(b) : PeerSound(b[i], m) /\ ~b[i].sub
    BY <1>4, <1>8, <1>9, <1>10, <1>12
  <2>3. \A d \in Clients : m[d] # None => LinkSound(m[d])
    BY <1>6, <1>7 DEF IInv, Sound
  <2>4. Len(b) <= Backlog
    BY <1>1, <1>2, <1>12, ClientsAssumption DEF n
  <2> QED BY <1>2, <1>7, <1>12, <1>13, <2>1, <2>2, <2>3, <2>4 DEF Sound
<1>15. AllTold(session, slot, m, shown)
  <2>1. ASSUME NEW s \in Slots, slot[s] # None, slot[s].owner # None
        PROVE  m[slot[s].owner] = link[slot[s].owner]
    BY <1>3, <1>7, <1>8, <2>1, EntryType
  <2> QED BY <1>2, <2>1 DEF AllTold
<1> QED BY <1>1, <1>11, <1>14, <1>15 DEF IInv

(* hupi_link_send: the bytes of a press reach the entry of the connection. *)
Pressed(p, c, v) ==
  IF p # None /\ p.owner = c THEN [p EXCEPT !.rx.rest = @ \o Text(v)] ELSE p

SlotsPressed(sl, c, v) == [s \in Slots |-> Pressed(sl[s], c, v)]
QueuePressed(b, c, v) == [i \in 1..Len(b) |-> Pressed(b[i], c, v)]

LEMMA EntryPressed ==
  ASSUME NEW p \in Peer, NEW c, NEW v \in Values, NEW l, PeerSound(p, l),
         NEW q, q = Pressed(p, c, v)
  PROVE  /\ q \in Peer /\ q.sub = p.sub /\ q.owner = p.owner
         /\ PeerSound(q, l)
<1>1. CASE p.owner # c
  BY <1>1 DEF Pressed
<1>2. CASE p.owner = c
  <2>1. p.rx \in Rx /\ p # None /\ Unread(p.rx) \in Seq(Bytes)
    BY EntryType
  <2>2. q = [p EXCEPT !.rx = [p.rx EXCEPT !.rest = @ \o Text(v)]]
    BY <1>2, <2>1 DEF Pressed
  <2>3. PICK r : r = [p.rx EXCEPT !.rest = @ \o Text(v)]
    OBVIOUS
  <2>4. v \in Bytes /\ LF \in Bytes /\ v # LF /\ v # SUB
    BY Constants DEF Bytes
  <2>5. Text(v) \in Seq(Bytes)
    BY <2>4 DEF Text
  <2>6. /\ r \in Rx /\ r.buf = p.rx.buf
        /\ Unread(r) = Unread(p.rx) \o Text(v)
    BY <2>1, <2>3, <2>5, Sending
  <2>7. q \in Peer /\ q.sub = p.sub /\ q.owner = p.owner /\ q.rx = r
    <3>1. q = [p EXCEPT !.rx = r]
      BY <2>2, <2>3
    <3> QED BY <2>6, <3>1 DEF Peer
  <2>8. PICK t \in Seq(Bytes) : t = Unread(p.rx)
    BY <2>1
  <2>9. /\ Whole(t) /\ \A i \in 1..Len(t) : t[i] \in Commands \cup {LF}
        /\ \A i \in 1..Len(t) :
             t[i] = SUB => /\ i = 1 /\ ~p.sub /\ p.owner \notin Tools
                           /\ p.owner # None => l[p.owner] = NewLink
    BY <2>8 DEF PeerSound
  <2>10. PICK u : u = t \o Text(v)
    OBVIOUS
  <2>11. Whole(u) /\ Len(t) \in Nat /\ Len(u) = Len(t) + 2
    BY <2>4, <2>9, <2>10, LineAdded
  <2>12. /\ \A i \in 1..Len(t) : u[i] = t[i]
         /\ u[Len(t) + 1] = v /\ u[Len(t) + 2] = LF
         /\ \A i \in 1..Len(t) + 2 :
              i \in 1..Len(t) \/ i = Len(t) + 1 \/ i = Len(t) + 2
    BY <2>4, <2>9, <2>10, LineAdded
  <2>13. v \in Commands /\ SUB # LF
    BY Constants DEF Commands
  <2>14. \A i \in 1..Len(u) :
           /\ u[i] \in Commands \cup {LF}
           /\ u[i] = SUB => i \in 1..Len(t) /\ t[i] = SUB
    BY <2>4, <2>9, <2>11, <2>12, <2>13
  <2>15. Unread(q.rx) = u /\ Len(q.rx.buf) <= 1
    BY <2>6, <2>7, <2>8, <2>10 DEF PeerSound
  <2>16. /\ p.owner # None => l[p.owner] # None /\ ~l[p.owner].ended
         /\ p.owner \in Tools => ~p.sub
    BY DEF PeerSound
  <2> QED BY <2>7, <2>9, <2>11, <2>14, <2>15, <2>16 DEF PeerSound
<1> QED BY <1>1, <1>2

LEMMA PressKeeps ==
  ASSUME IInv, NEW c \in Apps, NEW v \in Values, Press(c, v) PROVE IInv'
<1>1. /\ presses < Presses /\ presses' = presses + 1
      /\ UNCHANGED <<session, shown, crashes>>
      /\ \/ CloseLink(c)
         \/ /\ slot' = SlotsPressed(slot, c, v)
            /\ backlog' = QueuePressed(backlog, c, v)
            /\ UNCHANGED link
  BY DEF Press, ToPeer, Pressed, SlotsPressed, QueuePressed
<1>2. presses' \in 0..Presses
  BY <1>1, ClientsAssumption DEF IInv
<1>3. CASE CloseLink(c)
  BY <1>1, <1>2, <1>3, CloseLinkKeeps DEF IInv, Clients
<1>4. CASE /\ slot' = SlotsPressed(slot, c, v)
           /\ backlog' = QueuePressed(backlog, c, v)
           /\ UNCHANGED link
  <2>1. /\ backlog \in Seq(Peer) /\ Len(backlog) \in Nat /\ Len(backlog) <= Backlog
        /\ OneEntry(slot, backlog)
        /\ slot \in [Slots -> Peer \cup {None}]
        /\ link \in [Clients -> Link \cup {None}]
        /\ \A d \in Clients : link[d] # None => LinkSound(link[d])
        /\ AllTold(session, slot, link, shown)
    BY LenProperties DEF IInv, Sound
  <2>2. ASSUME NEW s \in Slots
        PROVE  /\ slot'[s] \in Peer \cup {None}
               /\ slot[s] = None => slot'[s] = None
               /\ slot[s] # None =>
                    /\ slot'[s] \in Peer /\ slot'[s].sub = slot[s].sub
                    /\ slot'[s].owner = slot[s].owner
                    /\ PeerSound(slot'[s], link)
    <3>1. slot'[s] = Pressed(slot[s], c, v)
      BY <1>4 DEF SlotsPressed
    <3>2. CASE slot[s] = None
      BY <3>1, <3>2 DEF Pressed
    <3>3. CASE slot[s] # None
      <4>1. slot[s] \in Peer /\ PeerSound(slot[s], link)
        BY <2>1, <3>3 DEF IInv, Sound
      <4>2. PICK q : q = slot'[s]
        OBVIOUS
      <4>3. q \in Peer /\ q.sub = slot[s].sub /\ q.owner = slot[s].owner
        BY <3>1, <4>1, <4>2, EntryPressed
      <4>4. PeerSound(q, link)
        BY <3>1, <4>1, <4>2, EntryPressed
      <4> QED BY <3>3, <4>2, <4>3, <4>4
    <3> QED BY <3>2, <3>3
  <2>3. ASSUME NEW i \in 1..Len(backlog)
        PROVE  /\ backlog'[i] \in Peer /\ ~backlog'[i].sub
               /\ backlog'[i].owner = backlog[i].owner
               /\ PeerSound(backlog'[i], link)
    <3>1. backlog'[i] = Pressed(backlog[i], c, v)
      BY <1>4 DEF QueuePressed
    <3>2. /\ backlog[i] \in Peer /\ PeerSound(backlog[i], link)
          /\ ~backlog[i].sub
      BY <2>1, ElementOfSeq DEF IInv, Sound
    <3>3. PICK q : q = backlog'[i]
      OBVIOUS
    <3>4. q \in Peer /\ q.sub = backlog[i].sub /\ q.owner = backlog[i].owner
      BY <3>1, <3>2, <3>3, EntryPressed
    <3>5. PeerSound(q, link)
      BY <3>1, <3>2, <3>3, EntryPressed
    <3> QED BY <3>2, <3>3, <3>4, <3>5
  <2>4. backlog' \in Seq(Peer) /\ Len(backlog') = Len(backlog)
    BY <1>4, <2>1, <2>3 DEF QueuePressed
  <2>5. slot' \in [Slots -> Peer \cup {None}]
    BY <1>4, <2>2 DEF SlotsPressed
  <2>6. OneEntry(slot', backlog')
    <3>1. \A s, t \in Slots :
            slot'[s] # None /\ slot'[t] # None /\ slot'[s].owner # None
              => (slot'[s].owner = slot'[t].owner => s = t)
      BY <2>1, <2>2 DEF OneEntry
    <3>2. \A i, j \in 1..Len(backlog) :
            backlog'[i].owner # None
              => (backlog'[i].owner = backlog'[j].owner => i = j)
      BY <2>1, <2>3 DEF OneEntry
    <3>3. \A s \in Slots, i \in 1..Len(backlog) :
            slot'[s] # None /\ slot'[s].owner # None
              => slot'[s].owner # backlog'[i].owner
      BY <2>1, <2>2, <2>3 DEF OneEntry
    <3> QED BY <2>4, <3>1, <3>2, <3>3 DEF OneEntry
  <2>7. Sound(slot', link', backlog')
    <3>1. \A s \in Slots : slot'[s] # None => PeerSound(slot'[s], link)
      BY <2>2
    <3>2. \A i \in 1..Len(backlog') : PeerSound(backlog'[i], link) /\ ~backlog'[i].sub
      BY <2>3, <2>4
    <3> QED BY <1>4, <2>1, <2>4, <2>5, <2>6, <3>1, <3>2 DEF Sound
  <2>8. AllTold(session, slot', link, shown)
    BY <2>1, <2>2 DEF AllTold
  <2> QED BY <1>1, <1>2, <1>4, <2>7, <2>8 DEF IInv
<1> QED BY <1>1, <1>3, <1>4

(* hupi_link_poll: what is left of an end when a line is taken. *)
Taken(e, rx) ==
  [e EXCEPT !.rx = [rest |-> rx.rest,
                    buf  |-> IF Ends(rx.buf) = <<>> THEN rx.buf
                             ELSE After(rx.buf, 1)]]

LEMMA LineTaken ==
  ASSUME NEW e \in Link, LinkSound(e), NEW rx \in Rx,
         Unread(rx) = Unread(e.rx),
         Len(rx.buf) <= PeerBuf, Len(rx.rest) <= SockBuf,
         NEW m, m = Taken(e, rx), NEW t, t = Unread(e.rx)
  PROVE  /\ m \in Link /\ LinkSound(m) /\ m.ended = e.ended
         /\ \/ LineOf(rx) = <<>> /\ Unread(m.rx) = t
            \/ /\ 1 \in 0..Len(t) \div 2 /\ LineOf(rx) = <<t[1]>>
               /\ Unread(m.rx) = SubSeq(t, 2 * 1 + 1, Len(t))
<1>1. /\ rx.buf \in Seq(Bytes) /\ rx.rest \in Seq(Bytes)
      /\ Unread(rx) = rx.buf \o rx.rest /\ Whole(t) /\ Unread(rx) = t
      /\ t \in Seq(Bytes) /\ e.ended \in BOOLEAN
  BY LinkType DEF Rx, Unread, LinkSound
<1>2. Lines(rx.buf)
  BY <1>1, FirstPart DEF Whole
<1>3. CASE Ends(rx.buf) = <<>>
  <2>1. m = [e EXCEPT !.rx = [rest |-> rx.rest, buf |-> rx.buf]]
    BY <1>3 DEF Taken
  <2>2. rx = [rest |-> rx.rest, buf |-> rx.buf]
    BY DEF Rx
  <2>3. m \in Link /\ m.rx = rx /\ m.ended = e.ended
    BY <2>1, <2>2 DEF Link
  <2>4. LinkSound(m)
    BY <1>1, <2>3 DEF LinkSound
  <2>5. LineOf(rx) = <<>>
    BY <1>3 DEF LineOf
  <2> QED BY <1>1, <2>3, <2>4, <2>5
<1>4. CASE Ends(rx.buf) # <<>>
  <2>1. /\ Len(rx.buf) \in Nat /\ ~(Len(rx.buf) <= 1)
    BY <1>1, <1>2, <1>4, Parsed
  <2>2. 1 \in 0..Len(rx.buf) \div 2
    <3>1. \A n \in Nat : ~(n <= 1) => 1 \in 0..n \div 2
      OBVIOUS
    <3> QED BY <2>1, <3>1
  <2>3. PICK y : y = [rx EXCEPT !.buf = After(@, 1)]
    OBVIOUS
  <2>4. /\ y \in Rx /\ y.rest = rx.rest /\ y.buf = After(rx.buf, 1)
        /\ Len(y.buf) = Len(rx.buf) - 2 * 1
    BY <1>2, <2>2, <2>3, Taking
  <2>5. /\ Unread(y) = SubSeq(t, 2 * 1 + 1, Len(t))
        /\ 1 \in 0..Len(t) \div 2
    BY <1>1, <1>2, <2>2, <2>3, Taking
  <2>6. m = [e EXCEPT !.rx = y]
    <3>1. y = [rest |-> rx.rest, buf |-> After(rx.buf, 1)]
      BY <2>3 DEF Rx
    <3> QED BY <1>4, <3>1 DEF Taken
  <2>7. m \in Link /\ m.rx = y /\ m.ended = e.ended
    BY <2>4, <2>6 DEF Link
  <2>8. Whole(Unread(y))
    BY <1>1, <2>5, DroppedLines DEF Whole
  <2>9. LinkSound(m)
    <3>1. Len(y.buf) <= PeerBuf
      BY <2>1, <2>4, Constants
    <3> QED BY <2>4, <2>7, <2>8, <3>1 DEF LinkSound
  <2>10. LineOf(rx) = <<rx.buf[2 * 1 - 1]>> /\ 2 * 1 - 1 \in 1..Len(rx.buf)
    <3>1. \A k \in 1..1 : /\ Pull(rx.buf, 1, PeerBuf)[k] = <<rx.buf[2 * k - 1]>>
                          /\ 2 * k - 1 \in 1..Len(rx.buf)
      BY <1>1, <1>2, <2>2, Parsed
    <3>2. 1 \in 1..1
      OBVIOUS
    <3>3. /\ Pull(rx.buf, 1, PeerBuf)[1] = <<rx.buf[2 * 1 - 1]>>
          /\ 2 * 1 - 1 \in 1..Len(rx.buf)
      BY <3>1, <3>2
    <3> QED BY <1>4, <3>3 DEF LineOf
  <2>11. rx.buf[2 * 1 - 1] = t[1]
    <3>1. PICK a \in Seq(Bytes), b \in Seq(Bytes) :
            a = rx.buf /\ b = rx.rest /\ t = a \o b
      BY <1>1
    <3>2. \A i \in 1..Len(a) + Len(b) :
            (a \o b)[i] = IF i <= Len(a) THEN a[i] ELSE b[i - Len(a)]
      BY ConcatProperties
    <3>3. Len(a) \in Nat /\ Len(b) \in Nat /\ Len(a) >= 1
      BY <2>1, <3>1, LenProperties
    <3>4. 1 \in 1..Len(a) + Len(b) /\ 1 <= Len(a)
      BY <3>3
    <3>5. (a \o b)[1] = a[1]
      BY <3>2, <3>4
    <3> QED BY <3>1, <3>5
  <2> QED BY <2>5, <2>7, <2>9, <2>10, <2>11
<1> QED BY <1>3, <1>4

(* What a client has after a read, if it needed one. *)
LEMMA FilledIs ==
  ASSUME NEW c \in Clients, link[c] \in Link, LinkSound(link[c]),
         NEW rx, rx = Filled(c)
  PROVE  /\ rx \in Rx /\ Unread(rx) = Unread(link[c].rx)
         /\ Len(rx.buf) <= PeerBuf /\ Len(rx.rest) <= SockBuf
<1>1. /\ link[c].rx \in Rx /\ Len(link[c].rx.buf) <= PeerBuf
      /\ Len(link[c].rx.rest) <= SockBuf /\ Len(link[c].rx.rest) \in Nat
  BY LinkType, LenProperties DEF LinkSound
<1>2. CASE Buffered(c)
  BY <1>1, <1>2 DEF Filled
<1>3. CASE ~Buffered(c)
  <2>1. rx = Recv(link[c].rx, PeerBuf)
    BY <1>3 DEF Filled
  <2>2. /\ rx \in Rx /\ Unread(rx) = Unread(link[c].rx)
        /\ Len(rx.buf) <= PeerBuf /\ Len(rx.rest) <= Len(link[c].rx.rest)
    BY <1>1, <2>1, Received
  <2>3. Len(rx.rest) \in Nat
    BY <2>2, LenProperties DEF Rx
  <2> QED BY <1>1, <2>2, <2>3, Constants
<1> QED BY <1>2, <1>3

(* A client that has something to read does not wait for its subscription. *)
LEMMA NothingToRead ==
  ASSUME NEW c \in Clients, link[c] = NewLink PROVE ~Readable(c)
<1>1. link[c].rx.rest = <<>> /\ link[c].rx.buf = <<>>
  BY DEF NewLink, Receiver
<1>2. Ends(<<>>) = <<>>
  <2>1. PICK s \in Seq(Bytes) : s = <<>> /\ Len(s) = 0
    <3>1. <<>> \in Seq(Bytes) /\ Len(<<>>) = 0
      OBVIOUS
    <3> QED BY <3>1
  <2>2. Lines(s)
    BY <2>1 DEF Lines
  <2>3. Ends(s) = <<>> <=> Len(s) <= 1
    BY <2>2, Parsed
  <2> QED BY <2>1, <2>3
<1> QED BY <1>1, <1>2 DEF Readable, Buffered

LEMMA KeepKeeps ==
  ASSUME IInv, NEW c \in Clients, Readable(c),
         NEW rx, rx = Filled(c), Keep(c, rx),
         UNCHANGED <<session, backlog, slot, presses, crashes>>,
         shown' \in [Clients -> Values \cup {None, 0, 1}],
         \A d \in Clients \ {c} : shown'[d] = shown[d],
         c \in Tools \/ shown'[c] =
           IF \E v \in Values : LineOf(rx) = <<v>> THEN LineOf(rx)[1]
           ELSE shown[c]
  PROVE  IInv'
<1>1. /\ link[c] # None
      /\ Sound(slot, link, backlog) /\ AllTold(session, slot, link, shown)
      /\ slot \in [Slots -> Peer \cup {None}] /\ backlog \in Seq(Peer)
      /\ link \in [Clients -> Link \cup {None}]
      /\ \A d \in Clients : link[d] # None => LinkSound(link[d])
  BY DEF Readable, IInv, Sound
<1> DEFINE t == Unread(link[c].rx)
           m == Taken(link[c], rx)
<1>2. link[c] \in Link /\ LinkSound(link[c]) /\ t \in Seq(Bytes) /\ Whole(t)
  <2>1. link[c] \in Link /\ LinkSound(link[c])
    BY <1>1
  <2> QED BY <2>1, LinkType DEF LinkSound
<1>3. /\ rx \in Rx /\ Unread(rx) = t
      /\ Len(rx.buf) <= PeerBuf /\ Len(rx.rest) <= SockBuf
  BY <1>2, FilledIs
<1>4. link' = [link EXCEPT ![c] = m]
  <2>1. PICK b : b = IF Ends(rx.buf) = <<>> THEN rx.buf ELSE After(rx.buf, 1)
    OBVIOUS
  <2>2. link' = [link EXCEPT ![c].rx.rest = rx.rest, ![c].rx.buf = b]
    BY <2>1 DEF Keep
  <2>3. PICK a : a = rx.rest
    OBVIOUS
  <2>4. PICK e : e = link[c]
    OBVIOUS
  <2>5. link' = [link EXCEPT ![c] = [e EXCEPT !.rx.rest = a, !.rx.buf = b]]
    BY <1>1, <2>2, <2>3, <2>4, ZenonT(40)
  <2>6. [e EXCEPT !.rx.rest = a, !.rx.buf = b]
          = [e EXCEPT !.rx = [rest |-> a, buf |-> b]]
    <3>1. PICK r, x : e = [rx |-> r, ended |-> x] /\ r \in Rx
      BY <1>2, <2>4 DEF Link
    <3>2. [e EXCEPT !.rx.rest = a, !.rx.buf = b]
            = [e EXCEPT !.rx = [r EXCEPT !.rest = a, !.buf = b]]
      BY <3>1
    <3>3. PICK r1, r2 : r = [rest |-> r1, buf |-> r2]
      BY <3>1 DEF Rx
    <3>4. [r EXCEPT !.rest = a] = [rest |-> a, buf |-> r2]
      BY <3>3
    <3>5. [[rest |-> a, buf |-> r2] EXCEPT !.buf = b] = [rest |-> a, buf |-> b]
      OBVIOUS
    <3>6. [r EXCEPT !.rest = a, !.buf = b] = [[r EXCEPT !.rest = a] EXCEPT !.buf = b]
      OBVIOUS
    <3> QED BY <3>2, <3>4, <3>5, <3>6
  <2> QED BY <2>1, <2>3, <2>4, <2>5, <2>6 DEF Taken
<1> HIDE DEF t, m
<1>5. /\ m \in Link /\ LinkSound(m) /\ m.ended = link[c].ended
  BY <1>2, <1>3, LineTaken DEF m, t
<1>6. \/ LineOf(rx) = <<>> /\ Unread(m.rx) = t
      \/ /\ 1 \in 0..Len(t) \div 2 /\ LineOf(rx) = <<t[1]>>
         /\ Unread(m.rx) = SubSeq(t, 2 * 1 + 1, Len(t))
  BY <1>2, <1>3, LineTaken DEF m, t
<1>7. /\ link' \in [Clients -> Link \cup {None}] /\ link'[c] = m
      /\ \A d \in Clients \ {c} : link'[d] = link[d]
  BY <1>1, <1>4, <1>5
<1>8. ASSUME NEW p \in Peer, PeerSound(p, link)
      PROVE  PeerSound(p, link')
  <2>1. p.owner \in Clients \cup {None}
    BY EntryType
  <2>2. CASE p.owner = c
    <3>1. Quiet(p)
      BY <1>8, <2>2, NothingToRead, Constants DEF PeerSound, Quiet
    <3>2. m # None /\ ~m.ended
      BY <1>5, <1>8, <2>2, Constants DEF PeerSound
    <3> QED BY <1>7, <1>8, <2>2, <3>1, <3>2, SoundWith
  <2>3. CASE p.owner # c
    BY <1>7, <1>8, <2>1, <2>3, SoundWith
  <2> QED BY <2>2, <2>3
<1>9. Sound(slot, link', backlog)
  <2>1. \A s \in Slots : slot[s] # None => PeerSound(slot[s], link')
    BY <1>1, <1>8 DEF Sound
  <2>2. \A i \in 1..Len(backlog) : PeerSound(backlog[i], link') /\ ~backlog[i].sub
    BY <1>1, <1>8, ElementOfSeq DEF Sound
  <2>3. \A d \in Clients : link'[d] # None => LinkSound(link'[d])
    BY <1>1, <1>5, <1>7
  <2>4. Len(backlog) <= Backlog /\ OneEntry(slot, backlog)
    BY <1>1 DEF Sound
  <2> QED BY <1>1, <1>7, <2>1, <2>2, <2>3, <2>4 DEF Sound
<1>10. ASSUME c \notin Tools
       PROVE  Latest(Unread(m.rx), shown'[c]) = Latest(t, shown[c])
  <2>1. shown'[c] = IF \E v \in Values : LineOf(rx) = <<v>> THEN LineOf(rx)[1]
                    ELSE shown[c]
    BY <1>10
  <2>2. CASE LineOf(rx) = <<>> /\ Unread(m.rx) = t
    <3>1. \A v \in Values : <<>> # <<v>>
      OBVIOUS
    <3> QED BY <2>1, <2>2, <3>1
  <2>3. CASE /\ 1 \in 0..Len(t) \div 2 /\ LineOf(rx) = <<t[1]>>
             /\ Unread(m.rx) = SubSeq(t, 2 * 1 + 1, Len(t))
    <3>1. shown'[c] = IF t[1] \in Values THEN t[1] ELSE shown[c]
      <4>1. \A v \in Values : <<t[1]>> = <<v>> => t[1] = v
        OBVIOUS
      <4>2. <<t[1]>>[1] = t[1]
        OBVIOUS
      <4> QED BY <2>1, <2>3, <4>1, <4>2
    <3> QED BY <1>2, <2>3, <3>1, StateTaken
  <2> QED BY <1>6, <2>2, <2>3
<1>11. AllTold(session, slot, link', shown')
  <2>1. ASSUME NEW s \in Slots, slot[s] # None, slot[s].sub, slot[s].owner # None
        PROVE  Latest(Unread(link'[slot[s].owner].rx), shown'[slot[s].owner])
                 = session
    <3>1. PICK o \in Clients : o = slot[s].owner
      BY <1>1, <2>1, EntryType
    <3>2. Latest(Unread(link[o].rx), shown[o]) = session
      BY <1>1, <2>1, <3>1 DEF AllTold
    <3>3. o \notin Tools
      BY <1>1, <2>1, <3>1 DEF Sound, PeerSound
    <3> QED BY <1>7, <1>10, <2>1, <3>1, <3>2, <3>3 DEF t
  <2> QED BY <2>1 DEF AllTold
<1> QED BY <1>9, <1>11 DEF IInv

LEMMA PollKeeps == ASSUME IInv, NEW c \in Apps, Poll(c) PROVE IInv'
<1>1. PICK rx : /\ rx = Filled(c) /\ Readable(c) /\ Keep(c, rx)
                /\ shown' = [shown EXCEPT ![c] =
                     IF \E v \in Values : LineOf(rx) = <<v>> THEN LineOf(rx)[1]
                     ELSE @]
                /\ UNCHANGED <<session, backlog, slot, presses, crashes>>
  BY DEF Poll
<1>2. c \in Clients /\ shown \in [Clients -> Values \cup {None, 0, 1}]
  BY DEF IInv, Clients
<1>3. PICK w : w = IF \E v \in Values : LineOf(rx) = <<v>> THEN LineOf(rx)[1]
                   ELSE shown[c]
  OBVIOUS
<1>4. w \in Values \cup {None, 0, 1}
  <2>1. ASSUME NEW v \in Values, LineOf(rx) = <<v>>
        PROVE  LineOf(rx)[1] \in Values
    BY <2>1
  <2> QED BY <1>2, <1>3, <2>1
<1>5. shown' = [shown EXCEPT ![c] = w]
  BY <1>1, <1>2, <1>3
<1>6. /\ shown' \in [Clients -> Values \cup {None, 0, 1}] /\ shown'[c] = w
      /\ \A d \in Clients \ {c} : shown'[d] = shown[d]
  BY <1>2, <1>4, <1>5
<1> QED BY <1>1, <1>2, <1>3, <1>6, KeepKeeps

LEMMA LinkEndsKeeps == ASSUME IInv, NEW c \in Clients, LinkEnds(c) PROVE IInv'
BY CloseLinkKeeps DEF IInv, LinkEnds

LEMMA ExitKeeps ==
  ASSUME IInv, NEW c \in Clients, NEW status \in {0, 1}, Exit(c, status)
  PROVE  IInv'
<1>1. /\ CloseLink(c) /\ shown' = [shown EXCEPT ![c] = status]
      /\ UNCHANGED <<session, presses, crashes>>
  BY DEF Exit
<1>2. /\ shown' \in [Clients -> Values \cup {None, 0, 1}]
      /\ \A d \in Clients \ {c} : shown'[d] = shown[d]
      /\ presses' \in 0..Presses /\ crashes' \in 0..Crashes
  BY <1>1 DEF IInv
<1> QED BY <1>1, <1>2, CloseLinkKeeps

LEMMA ToolKeeps == ASSUME IInv, NEW c \in Tools, Tool(c) PROVE IInv'
<1>1. c \in Clients
  BY DEF Clients
<1>2. CASE Open(c)
  BY <1>1, <1>2, OpenKeeps
<1>3. CASE \E status \in {0, 1} : Exit(c, status)
  BY <1>1, <1>3, ExitKeeps
<1>4. ASSUME Readable(c), NEW rx, rx = Filled(c), Keep(c, rx),
             UNCHANGED <<session, backlog, slot, shown, presses, crashes>>
      PROVE  IInv'
  BY <1>1, <1>4, KeepKeeps DEF IInv
<1> QED BY <1>2, <1>3, <1>4 DEF Tool

LEMMA NextKeeps == ASSUME IInv, Next PROVE IInv'
<1>1. CASE Accept
  BY <1>1, AcceptKeeps
<1>2. CASE Crash
  BY <1>2, CrashKeeps
<1>3. CASE \E v \in Values : DriverLine(v)
  BY <1>3, DriverLineKeeps
<1>4. CASE \E s \in Slots : DrainClient(s)
  BY <1>4, DrainClientKeeps
<1>5. ASSUME NEW c \in Apps, App(c) PROVE IInv'
  <2>1. c \in Clients
    BY DEF Clients
  <2> QED BY <1>5, <2>1, OpenKeeps, PollKeeps, LinkEndsKeeps DEF App
<1>6. CASE \E c \in Apps, v \in Values : Press(c, v)
  BY <1>6, PressKeeps
<1>7. CASE \E c \in Tools : Tool(c)
  BY <1>7, ToolKeeps
<1> QED BY <1>1, <1>2, <1>3, <1>4, <1>5, <1>6, <1>7 DEF Next

(* The strengthened invariant holds in every run: connections have one     *)
(* entry, ends and entries carry whole lines, and every subscriber was      *)
(* sent the session last.                                                  *)
THEOREM ClientsInvariant == Spec => []IInv
<1>1. Init => IInv
  BY InitIInv
<1>2. IInv /\ [Next]_vars => IInv'
  BY NextKeeps, StutterKeeps
<1> QED BY <1>1, <1>2, PTL DEF Spec

-----------------------------------------------------------------------------
(* Variables keep their types: the backlog of listen never holds more than *)
(* its bound, sockets and hupi_peer_t's buffer never more than their sizes,*)
(* and no client stands with a full buffer that has no line in it.         *)
THEOREM ClientTypes == Spec => []TypeOK
<1>1. ASSUME IInv, NEW c \in Clients, link[c] # None
      PROVE  /\ Len(link[c].rx.rest) <= SockBuf
             /\ Len(link[c].rx.buf) <= PeerBuf
             /\ ~Stuck(link[c].rx.buf, PeerBuf)
  <2>1. link[c] \in Link /\ LinkSound(link[c])
    BY <1>1 DEF IInv, Sound
  <2>2. PICK a \in Seq(Bytes), b \in Seq(Bytes) :
          /\ a = link[c].rx.buf /\ b = link[c].rx.rest
          /\ Unread(link[c].rx) = a \o b
    BY <2>1, LinkType DEF Unread
  <2>3. Lines(a)
    BY <2>1, <2>2, FirstPart DEF LinkSound, Whole
  <2>4. Ends(a) = <<>> <=> Len(a) <= 1
    BY <2>3, Parsed
  <2>5. ~Stuck(a, PeerBuf)
    BY <2>4, Constants DEF Stuck
  <2> QED BY <2>1, <2>2, <2>5 DEF LinkSound
<1>2. IInv => TypeOK
  BY <1>1 DEF IInv, Sound, TypeOK
<1> QED BY <1>2, ClientsInvariant, PTL

(* What a client has not parsed is whole lines at any moment: neither a    *)
(* lost connection, nor a manager that dies in the middle of its work, nor *)
(* a read that ends inside a line leaves half a line in front of another.  *)
THEOREM ClientsWholeLines == Spec => []WholeLines
<1>1. ASSUME IInv, NEW c \in Clients, link[c] # None
      PROVE  Whole(Pending(c))
  BY <1>1 DEF IInv, Sound, LinkSound, Pending, Unread
<1>2. IInv => WholeLines
  BY <1>1 DEF WholeLines, Whole, Lines
<1> QED BY <1>2, ClientsInvariant, PTL

(* The last state a subscriber was sent is the session's, through every    *)
(* order of presses, driver lines, full sockets, crashes and new           *)
(* connections: publish reaches a subscriber or disconnects it.            *)
THEOREM NobodyOutdated == Spec => []SubscribersAreTold
<1>1. \A c \in Clients : Told(c) = Latest(Unread(link[c].rx), shown[c])
  BY DEF Told, Latest, States, Pending, Unread
<1>2. ASSUME IInv, NEW s \in Slots, slot[s] # None, slot[s].sub,
             slot[s].owner # None
      PROVE  Told(slot[s].owner) = session
  <2>1. slot[s] \in Peer
    BY <1>2 DEF IInv, Sound
  <2>2. slot[s].owner \in Clients
    BY <1>2, <2>1, EntryType
  <2> QED BY <1>1, <1>2, <2>2 DEF IInv, AllTold
<1>3. IInv => SubscribersAreTold
  BY <1>2 DEF SubscribersAreTold
<1> QED BY <1>3, ClientsInvariant, PTL
===============================================================================
