--------------------------------- MODULE Wire ---------------------------------
(***************************************************************************)
(* The line protocol of the sockets (wire.c): how a value is escaped into  *)
(* a field, found again and unescaped, how bytes become hexadecimal, and   *)
(* how a receiver cuts the stream into lines.  Pure functions on strings,  *)
(* which are sequences of character codes without the terminating NUL; a  *)
(* size n of a C buffer leaves room for n - 1 characters.                  *)
(***************************************************************************)
EXTENDS Naturals, Sequences, FiniteSets, SequencesExt, FiniteSetsExt, Picking

LF  == 10
CR  == 13
SP  == 32
PCT == 37
Dash == 45
EQ  == 61

Cut(s, n) == SubSeq(s, 1, IF Len(s) < n THEN Len(s) ELSE n - 1)

-----------------------------------------------------------------------------
(* hupi_escape: an empty value is "-", a character that is not plain %XX;  *)
(* the copy stops in front of the first character that does not fit.       *)
PlainSpace(c) == c # PCT            \* mutant: only % is escaped

Plain(c) == \/ c \in 48..57 \/ c \in 65..90 \/ c \in 97..122
            \/ c \in {45, 46, 47, 58, 95}                     \* - . / : _

HexDigit(d) == IF d < 10 THEN 48 + d ELSE 87 + d

Encoded(c) == IF Plain(c) THEN <<c>>
              ELSE <<PCT, HexDigit(c \div 16), HexDigit(c % 16)>>

Width(in, k) == k + 2 * Cardinality({i \in 1..k : ~Plain(in[i])})

Escape(in, n) ==
  IF in = <<>> THEN Cut(<<Dash>>, n)
  ELSE LET fits == Max({k \in 0..Len(in) : Width(in, k) < n})
       IN FlattenSeq([i \in 1..fits |-> Encoded(in[i])])

(* nibble: the value of a hexadecimal digit, 16 for any other character.   *)
Nibble(c) == IF c \in 48..57 THEN c - 48
             ELSE IF c \in 97..102 THEN c - 87
             ELSE IF c \in 65..70 THEN c - 55 ELSE 16

UnescapeSkipsOne(in, n) ==          \* mutant: the second digit is kept
  IF in = <<Dash>> THEN <<>>
  ELSE LET at[i \in 1..Len(in) + 3] ==
             IF i > Len(in) THEN <<>>
             ELSE IF /\ in[i] = PCT /\ i + 2 <= Len(in)
                     /\ Nibble(in[i + 1]) < 16 /\ Nibble(in[i + 2]) < 16
             THEN <<16 * Nibble(in[i + 1]) + Nibble(in[i + 2])>> \o at[i + 2]
             ELSE <<in[i]>> \o at[i + 1]
       IN Cut(at[1], n)

Unescape(in, n) ==
  IF in = <<Dash>> THEN <<>>
  ELSE LET at[i \in 1..Len(in) + 3] ==
             IF i > Len(in) THEN <<>>
             ELSE IF /\ in[i] = PCT /\ i + 2 <= Len(in)
                     /\ Nibble(in[i + 1]) < 16 /\ Nibble(in[i + 2]) < 16
             THEN <<16 * Nibble(in[i + 1]) + Nibble(in[i + 2])>> \o at[i + 3]
             ELSE <<in[i]>> \o at[i + 1]
       IN Cut(at[1], n)

-----------------------------------------------------------------------------
(* find_key: the value of `key` begins behind its first occurrence at the  *)
(* start of the line or after a space.                                     *)
KeyAt(line, key, p) ==
  /\ p = 1 \/ line[p - 1] = SP
  /\ p + Len(key) <= Len(line)
  /\ SubSeq(line, p, p + Len(key) - 1) = key
  /\ line[p + Len(key)] = EQ

Keys(line, key) == {p \in 1..Len(line) : KeyAt(line, key, p)}

(* hupi_kv_get: the characters up to the next space; a missing key reads   *)
(* as the empty string here.                                               *)
KvGet(line, key, n) ==
  IF Keys(line, key) = {} THEN <<>>
  ELSE LET from == Min(Keys(line, key)) + Len(key) + 1
           ends == {p \in from..Len(line) : line[p] = SP}
       IN Cut(SubSeq(line, from,
                     IF ends = {} THEN Len(line) ELSE Min(ends) - 1), n)

(* take (classify.c): what the manager reads of a field. *)
Take(line, key, raw, n) == Unescape(KvGet(line, key, raw), n)

-----------------------------------------------------------------------------
(* hupi_hex_encode, and hupi_hex_decode with a capacity; <<>> when refused. *)
HexEncode(bytes) ==
  [i \in 1..2 * Len(bytes) |->
     IF i % 2 = 1 THEN HexDigit(bytes[(i + 1) \div 2] \div 16)
     ELSE HexDigit(bytes[i \div 2] % 16)]

HexAccepts(in, cap) == /\ Len(in) % 2 = 0
                       /\ Len(in) \div 2 <= cap
                       /\ \A i \in 1..Len(in) : Nibble(in[i]) < 16

HexDecode(in, cap) ==
  IF HexAccepts(in, cap)
  THEN [i \in 1..Len(in) \div 2 |-> 16 * Nibble(in[2 * i - 1])
                                      + Nibble(in[2 * i])]
  ELSE <<>>

-----------------------------------------------------------------------------
(* hupi_peer_recv and hupi_peer_pull: a receiver whose buffer `buf` has the *)
(* bytes `rest` before it in the socket.                                   *)
Receiver(rest) == [rest |-> rest, buf |-> <<>>]

Recv(r, size) ==
  LET got == Min({size - Len(r.buf), Len(r.rest)})
  IN [rest |-> SubSeq(r.rest, got + 1, Len(r.rest)),
      buf  |-> r.buf \o SubSeq(r.rest, 1, got)]

(* The ends of the lines in the buffer.  A receiver whose buffer is full    *)
(* without one gives up.                                                   *)
Ends(buf) == Ranked({p \in 1..Len(buf) : buf[p] = LF})

Stuck(buf, size) == Len(buf) = size /\ Ends(buf) = <<>>

(* A line is cut to the caller's buffer, then loses a final CR. *)
Chomp(line) == IF line # <<>> /\ Last(line) = CR THEN Front(line) ELSE line

(* What the first k lines were, and what is left of the buffer.            *)
Pull(buf, k, n) ==
  LET from(i) == IF i = 1 THEN 1 ELSE Ends(buf)[i - 1] + 1
  IN [i \in 1..k |-> Chomp(Cut(SubSeq(buf, from(i), Ends(buf)[i] - 1), n))]

After(buf, k) == IF k = 0 THEN buf
                 ELSE SubSeq(buf, Ends(buf)[k] + 1, Len(buf))
=============================================================================
