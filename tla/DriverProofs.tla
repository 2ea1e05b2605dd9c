----------------------------- MODULE DriverProofs -----------------------------
(***************************************************************************)
(* Proofs about Driver, for every set of devices, any number of clients    *)
(* and any size of their buffers that holds a dump.                        *)
(***************************************************************************)
EXTENDS Driver, SequenceFacts, TLAPS

-----------------------------------------------------------------------------
(* The inductive invariant. *)

(* A table lists every device under its own id. *)
ById(tab) == \A id \in Id : tab[id] # None => tab[id].id = id

(* Which lines are about a device, and what they say of it. *)
About(line, id) == \/ line.op = "dev" /\ line.dev.id = id
                   \/ line.op = "gone" /\ line.id = id

Says(line) == IF line.op = "dev" THEN line.dev ELSE None

(* Who knew `view` and has read the lines of `out` believes that device id *)
(* is d: the last line about it counts.                                    *)
Believes(view, out, id, d) ==
  \/ /\ view[id] = d
     /\ \A i \in 1..Len(out) : ~About(out[i], id)
  \/ \E i \in 1..Len(out) : /\ About(out[i], id)
                           /\ Says(out[i]) = d
                           /\ \A j \in i + 1..Len(out) : ~About(out[j], id)

(* Lines that turn one picture of the devices into another. *)
Tells(lines, tab, new) == \A id \in Id : Believes(tab, lines, id, new[id])

(* A subscriber that reads on will know the table. *)
ToldTable(p, tab) == p.sub /\ ~p.hup => Tells(p.out, p.view, tab)

(* Replies are to commands that were handled, one each. *)
Answers(p) ==
  \A i \in 1..Len(p.out) : p.out[i].op = "reply" =>
    /\ p.waits
    /\ p.cmd = None
    /\ \A j \in 1..Len(p.out) : p.out[j].op = "reply" => j = i

Waiting(p) ==
  /\ p.cmd # None /\ ~p.hup => p.waits
  /\ p.hup => p.out = <<>>

(* Before `sub` a client finds the answers to its own commands only: it    *)
(* has read them all when it sends the next one.                           *)
Quiet(p) ==
  ~p.sub =>
    /\ \A i \in 1..Len(p.out) : p.out[i].op = "reply" => i = Len(p.out)
    /\ ~p.waits \/ p.cmd # None => p.out = <<>>

PeerInv(p, tab) == /\ Answers(p)
                   /\ Waiting(p)
                   /\ Quiet(p)
                   /\ ToldTable(p, tab)

IInv == /\ TypeOK
        /\ ById(bus)
        /\ ById(table)
        /\ OwnerKeepsClaim
        /\ \A f \in Fds : Open(f) => PeerInv(peer[f], table)

-----------------------------------------------------------------------------
(* What lines tell. *)

(* Lines that repeat what is true, and mention everything that changed,    *)
(* tell the change.                                                        *)
LEMMA TellsAll ==
  ASSUME NEW lines \in Seq(Line), NEW tab, NEW new,
         \A id \in Id : \A i \in 1..Len(lines) :
           About(lines[i], id) => Says(lines[i]) = new[id],
         \A id \in Id : tab[id] # new[id] =>
           \E i \in 1..Len(lines) : About(lines[i], id)
  PROVE  Tells(lines, tab, new)
<1> SUFFICES ASSUME NEW id \in Id
             PROVE  Believes(tab, lines, id, new[id])
  BY DEF Tells
<1> DEFINE at == {i \in 1..Len(lines) : About(lines[i], id)}
<1>1. CASE at = {}
  <2>1. \A i \in 1..Len(lines) : ~About(lines[i], id)
    BY <1>1
  <2> QED BY <2>1 DEF Believes
<1>2. CASE at # {}
  <2>1. PICK i \in at : \A j \in at : j <= i
    <3>1. Len(lines) \in Nat /\ at \in SUBSET (1..Len(lines))
      OBVIOUS
    <3> HIDE DEF at
    <3> QED BY <1>2, <3>1, GreatestOf
  <2>2. \A j \in i + 1..Len(lines) : ~About(lines[j], id)
    <3> SUFFICES ASSUME NEW j \in i + 1..Len(lines), About(lines[j], id)
                 PROVE  FALSE
      OBVIOUS
    <3>1. i \in 1..Len(lines)
      OBVIOUS
    <3>2. j \in 1..Len(lines) /\ ~(j <= i)
      BY <3>1
    <3>3. j \in at
      BY <3>2
    <3> QED BY <2>1, <3>2, <3>3
  <2>3. i \in 1..Len(lines) /\ About(lines[i], id) /\ Says(lines[i]) = new[id]
    OBVIOUS
  <2> QED BY <2>2, <2>3 DEF Believes
<1> QED BY <1>1, <1>2

(* One story after another. *)
LEMMA TellsThen ==
  ASSUME NEW out \in Seq(Line), NEW lines \in Seq(Line),
         NEW view, NEW tab, NEW new,
         Tells(out, view, tab), Tells(lines, tab, new)
  PROVE  Tells(out \o lines, view, new)
<1> SUFFICES ASSUME NEW id \in Id
             PROVE  Believes(view, out \o lines, id, new[id])
  BY DEF Tells
<1> DEFINE both == out \o lines
<1>1. PICK m \in Nat : m = Len(out)
  OBVIOUS
<1>2. PICK n \in Nat : n = Len(lines)
  OBVIOUS
<1>3. /\ both \in Seq(Line)
      /\ Len(both) = m + n
      /\ \A i \in 1..m : both[i] = out[i]
      /\ \A i \in 1..n : both[m + i] = lines[i]
      /\ \A i \in m + 1..m + n : i - m \in 1..n /\ both[i] = lines[i - m]
  BY <1>1, <1>2
<1>4. Believes(view, out, id, tab[id]) /\ Believes(tab, lines, id, new[id])
  BY DEF Tells
<1> HIDE DEF both
<1>5. CASE \E i \in 1..n : /\ About(lines[i], id)
                           /\ Says(lines[i]) = new[id]
                           /\ \A j \in i + 1..n : ~About(lines[j], id)
  <2>1. PICK i \in 1..n : /\ About(lines[i], id)
                          /\ Says(lines[i]) = new[id]
                          /\ \A j \in i + 1..n : ~About(lines[j], id)
    BY <1>5
  <2>2. m + i \in 1..m + n /\ both[m + i] = lines[i]
    BY <1>3
  <2>3. ASSUME NEW j \in m + i + 1..m + n PROVE ~About(both[j], id)
    <3>1. j - m \in i + 1..n /\ j \in m + 1..m + n
      OBVIOUS
    <3> QED BY <2>1, <3>1, <1>3
  <2> QED BY <2>1, <2>2, <2>3, <1>3 DEF Believes, both
<1>6. CASE /\ tab[id] = new[id]
           /\ \A i \in 1..n : ~About(lines[i], id)
  <2>1. \A j \in m + 1..m + n : ~About(both[j], id)
    BY <1>6, <1>3
  <2>2. CASE /\ view[id] = tab[id]
             /\ \A i \in 1..m : ~About(out[i], id)
    <3>1. \A j \in 1..m + n : j \in 1..m \/ j \in m + 1..m + n
      OBVIOUS
    <3>2. \A j \in 1..m + n : ~About(both[j], id)
      BY <2>1, <2>2, <3>1, <1>3
    <3> QED BY <2>2, <3>2, <1>3, <1>6 DEF Believes, both
  <2>3. CASE \E i \in 1..m : /\ About(out[i], id)
                             /\ Says(out[i]) = tab[id]
                             /\ \A j \in i + 1..m : ~About(out[j], id)
    <3>1. PICK i \in 1..m : /\ About(out[i], id)
                            /\ Says(out[i]) = tab[id]
                            /\ \A j \in i + 1..m : ~About(out[j], id)
      BY <2>3
    <3>2. i \in 1..m + n /\ both[i] = out[i]
      BY <1>3
    <3>3. \A j \in i + 1..m + n :
            (j \in i + 1..m /\ j \in 1..m) \/ j \in m + 1..m + n
      OBVIOUS
    <3>4. \A j \in i + 1..m + n : ~About(both[j], id)
      BY <3>1, <3>3, <2>1, <1>3
    <3> QED BY <3>1, <3>2, <3>4, <1>3, <1>6 DEF Believes, both
  <2> QED BY <2>2, <2>3, <1>1, <1>4 DEF Believes
<1> QED BY <1>2, <1>4, <1>5, <1>6 DEF Believes

-----------------------------------------------------------------------------
(* What FoldLeft(See, view, out) is: SubscriberCatchesUp is stated with it. *)

(* g folds See over the lines s at each set of positions out of D. *)
Folds(g, view, s, D) ==
  g = [S \in SUBSET D |-> IF S = {} THEN view
                         ELSE See(g[S \ {Max(S)}], s[Max(S)])]

(* The recursion of FoldLeft over the positions of a sequence has a        *)
(* solution: if it had none for 1..n, it would have none for 1..n - 1.     *)
LEMMA SeeRecursion ==
  ASSUME NEW view, NEW s, NEW m \in Nat
  PROVE  \E g : Folds(g, view, s, 1..m)
<1> USE DEF Folds
<1> DEFINE Solves(g, n) == Folds(g, view, s, 1..n)
           bad == {n \in Nat : ~ \E g : Solves(g, n)}
<1>1. ASSUME bad # {} PROVE FALSE
  <2>1. PICK n \in bad : \A y \in bad : n <= y
    <3>1. bad \in SUBSET Nat
      OBVIOUS
    <3> HIDE DEF bad
    <3> QED BY <1>1, <3>1, LeastOf
  <2>2. n \in Nat /\ ~ \E g : Solves(g, n)
    OBVIOUS
  <2>3. CASE n = 0
    <3>1. SUBSET (1..0) = {{}}
      OBVIOUS
    <3> DEFINE g == [S \in {{}} |-> view]
    <3>2. \A S \in SUBSET (1..0) : S = {}
      OBVIOUS
    <3>3. Solves(g, 0)
      BY <3>1, <3>2
    <3> QED BY <2>2, <2>3, <3>3
  <2>4. CASE n # 0
    <3>1. n - 1 \in Nat /\ n - 1 \notin bad
      <4>1. n - 1 \in Nat /\ ~(n <= n - 1)
        BY <2>2, <2>4
      <4> HIDE DEF bad
      <4> QED BY <4>1, <2>1
    <3>2. PICK h : Solves(h, n - 1)
      BY <3>1
    <3> DEFINE g == [S \in SUBSET (1..n) |->
                       IF n \in S THEN See(h[S \ {n}], s[n]) ELSE h[S]]
    <3>3. ASSUME NEW S \in SUBSET (1..n), n \in S
          PROVE  Max(S) = n
      <4>1. S \in SUBSET Int /\ n \in S /\ \A y \in S : y <= n
        BY <2>2, <3>3
      <4> QED BY <4>1, MaxIs
    <3>4. ASSUME NEW S \in SUBSET (1..n), n \notin S
          PROVE  S \in SUBSET (1..n - 1)
      BY <2>2, <3>4
    <3>5. ASSUME NEW S \in SUBSET (1..n - 1), S # {}
          PROVE  Max(S) \in S /\ S \in SUBSET (1..n) /\ n \notin S
      <4>1. PICK x \in S : \A y \in S : y <= x
        BY <3>1, <3>5, GreatestOf
      <4>2. S \in SUBSET Int
        BY <3>1
      <4>3. Max(S) = x
        BY <4>1, <4>2, MaxIs
      <4> QED BY <4>3, <2>2
    <3>6. ASSUME NEW S \in SUBSET (1..n)
          PROVE  g[S] = IF S = {} THEN view
                        ELSE See(g[S \ {Max(S)}], s[Max(S)])
      <4>1. CASE n \in S
        <5>1. Max(S) = n /\ S # {} /\ S \ {n} \in SUBSET (1..n)
              /\ n \notin S \ {n}
          BY <4>1, <3>3
        <5>2. g[S] = See(h[S \ {n}], s[n]) /\ g[S \ {n}] = h[S \ {n}]
          BY <4>1, <5>1
        <5> HIDE DEF g
        <5> QED BY <5>1, <5>2
      <4>2. CASE n \notin S /\ S # {}
        <5>1. S \in SUBSET (1..n - 1)
          BY <4>2, <3>4
        <5>2. Max(S) \in S
          BY <5>1, <4>2, <3>5
        <5>3. S \ {Max(S)} \in SUBSET (1..n) /\ n \notin S \ {Max(S)}
          BY <4>2
        <5>4. g[S] = h[S] /\ g[S \ {Max(S)}] = h[S \ {Max(S)}]
          BY <4>2, <5>3
        <5>5. h[S] = See(h[S \ {Max(S)}], s[Max(S)])
          BY <5>1, <4>2, <3>2
        <5> HIDE DEF g
        <5> QED BY <4>2, <5>4, <5>5
      <4>3. CASE S = {}
        <5>1. S \in SUBSET (1..n - 1) /\ n \notin S
          BY <4>3
        <5>2. g[S] = h[S] /\ h[S] = view
          BY <5>1, <3>2, <4>3
        <5> QED BY <4>3, <5>2
      <4> QED BY <4>1, <4>2, <4>3
    <3>7. Solves(g, n)
      BY <3>6
    <3> QED BY <2>2, <3>7
  <2> QED BY <2>3, <2>4
<1>2. m \notin bad
  BY <1>1
<1> QED BY <1>2

(* Reading is told by the lines read.  A line tells what it says.          *)
LEMMA SeeTells ==
  ASSUME NEW view \in Table, NEW line \in Line
  PROVE  See(view, line) \in Table /\ Tells(<<line>>, view, See(view, line))
<1>1. See(view, line) \in Table
  BY DEF See, Line, DevIs, Gone, Reply, Table, Device
<1>2. \A id \in Id : About(line, id) => Says(line) = See(view, line)[id]
  BY DEF See, Line, Table, About, Says, Device
<1>3. \A id \in Id : view[id] # See(view, line)[id] => About(line, id)
  BY DEF See, Line, Table, About, Device
<1>4. <<line>> \in Seq(Line) /\ Len(<<line>>) = 1 /\ <<line>>[1] = line
  OBVIOUS
<1>5. \A i \in 1..1 : i = 1
  OBVIOUS
<1>6. 1 \in 1..1
  OBVIOUS
<1> QED BY <1>1, <1>2, <1>3, <1>4, <1>5, <1>6, TellsAll

LEMMA SeeAll ==
  ASSUME NEW view \in Table, NEW s \in Seq(Line)
  PROVE  /\ FoldLeft(See, view, s) \in Table
         /\ Tells(s, view, FoldLeft(See, view, s))
<1>1. PICK n \in Nat : n = Len(s) /\ DOMAIN s = 1..n
  OBVIOUS
<1>2. \E g : Folds(g, view, s, DOMAIN s)
  <2>1. \E g : Folds(g, view, s, 1..n)
    BY SeeRecursion
  <2> QED BY <1>1, <2>1
<1> DEFINE iter == CHOOSE g : Folds(g, view, s, DOMAIN s)
<1>9. FoldLeft(See, view, s) = iter[DOMAIN s]
  BY DEF FoldLeft, MapThenFoldSet, Folds
<1>3. iter = [S \in SUBSET (1..n) |-> IF S = {} THEN view
                                     ELSE See(iter[S \ {Max(S)}], s[Max(S)])]
  <2>1. Folds(iter, view, s, DOMAIN s)
    BY <1>2
  <2> HIDE DEF iter
  <2> QED BY <2>1, <1>1 DEF Folds
<1> HIDE DEF iter
<1> DEFINE Told(k) == /\ iter[1..k] \in Table
                      /\ Tells(SubSeq(s, 1, k), view, iter[1..k])
           bad == {k \in 0..n : ~Told(k)}
<1>4. Told(0)
  <2>1. 1..0 = {} /\ {} \in SUBSET (1..n)
    OBVIOUS
  <2>2. iter[1..0] = view
    BY <1>3, <2>1
  <2>3. SubSeq(s, 1, 0) = <<>> /\ <<>> \in Seq(Line) /\ Len(<<>>) = 0
    OBVIOUS
  <2>4. Tells(<<>>, view, view)
    BY <2>3 DEF Tells, Believes
  <2> QED BY <2>2, <2>3, <2>4
<1>5. ASSUME NEW k \in 1..n, Told(k - 1)
      PROVE  Told(k)
  <2>1. Max(1..k) = k
    <3>1. 1..k \in SUBSET Int /\ k \in 1..k /\ \A y \in 1..k : y <= k
      BY <1>1
    <3> QED BY <3>1, MaxIs
  <2>2. /\ 1..k # {} /\ 1..k \in SUBSET (1..n)
        /\ (1..k) \ {k} = 1..(k - 1)
    <3>1. k \in Nat /\ k >= 1 /\ k <= n /\ k \in 1..k
      BY <1>1
    <3>2. \A i : i \in 1..k /\ i # k <=> i \in 1..(k - 1)
      BY <3>1
    <3> QED BY <1>1, <3>1, <3>2
  <2>3. iter[1..k] = See(iter[1..k - 1], s[k])
    BY <1>3, <2>1, <2>2
  <2>4. s[k] \in Line
    BY <1>1
  <2>5. See(iter[1..k - 1], s[k]) \in Table
        /\ Tells(<<s[k]>>, iter[1..k - 1], See(iter[1..k - 1], s[k]))
    BY <1>5, <2>4, SeeTells
  <2>6. /\ SubSeq(s, 1, k) = SubSeq(s, 1, k - 1) \o <<s[k]>>
        /\ SubSeq(s, 1, k - 1) \in Seq(Line) /\ <<s[k]>> \in Seq(Line)
    BY <1>1, <2>4
  <2>7. Tells(SubSeq(s, 1, k - 1), view, iter[1..k - 1])
    BY <1>5
  <2>8. Tells(SubSeq(s, 1, k - 1) \o <<s[k]>>, view,
              See(iter[1..k - 1], s[k]))
    BY <2>5, <2>6, <2>7, TellsThen
  <2> QED BY <2>3, <2>5, <2>6, <2>8
<1>6. ASSUME bad # {} PROVE FALSE
  <2>1. PICK k \in bad : \A y \in bad : k <= y
    <3>1. bad \in SUBSET Nat
      BY <1>1
    <3> HIDE DEF bad
    <3> QED BY <1>6, <3>1, LeastOf
  <2>2. k \in 0..n /\ ~Told(k)
    OBVIOUS
  <2> HIDE DEF Told
  <2>3. k # 0
    BY <2>2, <1>4
  <2>4. k \in 1..n /\ k - 1 \in 0..n /\ ~(k <= k - 1)
    BY <1>1, <2>2, <2>3
  <2>5. Told(k - 1)
    BY <2>1, <2>4
  <2> QED BY <1>5, <2>2, <2>4, <2>5
<1>7. Told(n)
  BY <1>1, <1>6
<1>8. SubSeq(s, 1, n) = s
  BY <1>1
<1> QED BY <1>1, <1>7, <1>8, <1>9

(* One story has one end, so a subscriber that was told the table will     *)
(* know it.                                                                *)
LEMMA OneStory ==
  ASSUME NEW view \in Table, NEW s \in Seq(Line), NEW tab \in Table,
         Tells(s, view, tab)
  PROVE  FoldLeft(See, view, s) = tab
<1> DEFINE read == FoldLeft(See, view, s)
<1>1. read \in Table /\ Tells(s, view, read)
  BY SeeAll
<1> HIDE DEF read
<1>2. ASSUME NEW id \in Id PROVE read[id] = tab[id]
  <2>1. Believes(view, s, id, read[id]) /\ Believes(view, s, id, tab[id])
    BY <1>1 DEF Tells
  <2>2. PICK n \in Nat : n = Len(s)
    OBVIOUS
  <2>3. \A i, j \in 1..n : i = j \/ j \in i + 1..n \/ i \in j + 1..n
    OBVIOUS
  <2> QED BY <2>1, <2>2, <2>3 DEF Believes
<1>3. read = tab
  BY <1>1, <1>2 DEF Table
<1> QED BY <1>3 DEF read

-----------------------------------------------------------------------------
(* What sending does to the connections. *)

Sound(P) == /\ P \in [Fds -> Peer \cup {None}]
            /\ \A g \in Fds : P[g] # None => Len(P[g].out) <= Cap

(* Connection q is p with more lines to read, and nothing else changed but *)
(* what its client owns.  Nothing reaches a client that closed its end.    *)
Carries(q, p, lines) ==
  /\ q \in Peer /\ Len(q.out) <= Cap
  /\ q.sub = p.sub /\ q.cmd = p.cmd /\ q.hup = p.hup
  /\ q.waits = p.waits /\ q.view = p.view
  /\ q.out = p.out \o lines
  /\ p.hup => lines = <<>>

LEMMA PeerFields ==
  ASSUME NEW p \in Peer
  PROVE  /\ p.sub \in BOOLEAN /\ p.cmd \in Command \cup {None}
         /\ p.out \in Seq(Line) /\ p.hup \in BOOLEAN /\ p.waits \in BOOLEAN
         /\ p.view \in Table /\ p.owns \in SUBSET Id /\ p # None
BY NoneIsNothing DEF Peer

LEMMA WithOut ==
  ASSUME NEW p \in Peer, NEW o \in Seq(Line), NEW q, q = [p EXCEPT !.out = o]
  PROVE  /\ q \in Peer /\ q.out = o /\ q.sub = p.sub /\ q.cmd = p.cmd
         /\ q.hup = p.hup /\ q.waits = p.waits /\ q.view = p.view
         /\ q.owns = p.owns
BY DEF Peer

LEMMA WithOwns ==
  ASSUME NEW p \in Peer, NEW o \in SUBSET Id, NEW q, q = [p EXCEPT !.owns = o]
  PROVE  /\ q \in Peer /\ q.out = p.out /\ q.sub = p.sub /\ q.cmd = p.cmd
         /\ q.hup = p.hup /\ q.waits = p.waits /\ q.view = p.view
         /\ q.owns = o
BY DEF Peer

LEMMA WithNoCmd ==
  ASSUME NEW p \in Peer, NEW q, q = [p EXCEPT !.cmd = None]
  PROVE  /\ q \in Peer /\ q.out = p.out /\ q.sub = p.sub /\ q.cmd = None
         /\ q.hup = p.hup /\ q.waits = p.waits /\ q.view = p.view
         /\ q.owns = p.owns
BY DEF Peer

(* Connections after a broadcast of `lines`: those that are left have all  *)
(* of it if they subscribed.                                               *)
Broadcasted(P, Q, lines) ==
  \A g \in Fds : Q[g] # None =>
    /\ P[g] # None
    /\ Carries(Q[g], P[g], IF P[g].sub THEN lines ELSE <<>>)
    /\ Q[g].owns = P[g].owns

LEMMA BroadcastStep ==
  ASSUME NEW P, Sound(P), NEW lines \in Seq(Line)
  PROVE  /\ Sound(Broadcast(P, lines))
         /\ Broadcasted(P, Broadcast(P, lines), lines)
<1> DEFINE Q == Broadcast(P, lines)
<1>1. ASSUME NEW g \in Fds, Q[g] # None
      PROVE  /\ P[g] # None
             /\ Carries(Q[g], P[g], IF P[g].sub THEN lines ELSE <<>>)
             /\ Q[g].owns = P[g].owns
  <2>1. P[g] # None
    BY <1>1 DEF Broadcast
  <2>2. P[g] \in Peer /\ Len(P[g].out) <= Cap
    BY <2>1 DEF Sound
  <2>3. PICK p \in Peer : p = P[g]
    BY <2>2
  <2>4. p.out \in Seq(Line) /\ p.sub \in BOOLEAN /\ p.hup \in BOOLEAN
    BY PeerFields
  <2>5. CASE lines = <<>> \/ ~p.sub
    <3>1. Q[g] = p
      BY <2>1, <2>3, <2>5 DEF Broadcast
    <3>2. (IF p.sub THEN lines ELSE <<>>) = <<>> /\ p.out \o <<>> = p.out
      BY <2>4, <2>5
    <3> QED BY <2>1, <2>2, <2>3, <3>1, <3>2 DEF Carries
  <2>6. CASE lines # <<>> /\ p.sub
    <3>1. Fits(p, Len(lines)) /\ Q[g] = [p EXCEPT !.out = @ \o lines]
      BY <1>1, <2>1, <2>3, <2>6 DEF Broadcast
    <3>2. ~p.hup /\ Len(p.out) + Len(lines) <= Cap
      BY <3>1 DEF Fits
    <3>3. p.out \o lines \in Seq(Line) /\ Len(p.out \o lines) <= Cap
      BY <2>4, <3>2
    <3>4. PICK o \in Seq(Line) : o = p.out \o lines
      BY <3>3
    <3>5. /\ Q[g] \in Peer /\ Q[g].out = o /\ Q[g].sub = p.sub
          /\ Q[g].cmd = p.cmd /\ Q[g].hup = p.hup /\ Q[g].waits = p.waits
          /\ Q[g].view = p.view /\ Q[g].owns = p.owns
      <4>1. Q[g] = [p EXCEPT !.out = o]
        BY <3>1, <3>4
      <4> QED BY <4>1, WithOut
    <3> QED BY <2>1, <2>3, <2>6, <3>2, <3>3, <3>4, <3>5 DEF Carries
  <2> QED BY <2>4, <2>5, <2>6
<1>2. Broadcasted(P, Q, lines)
  BY <1>1 DEF Broadcasted
<1>3. \A g \in Fds : Q[g] # None => Q[g] \in Peer /\ Len(Q[g].out) <= Cap
  BY <1>1 DEF Carries
<1>4. Q = [g \in Fds |-> Q[g]]
  BY DEF Broadcast
<1>5. Sound(Q)
  <2> HIDE DEF Q
  <2> QED BY <1>3, <1>4 DEF Sound
<1> QED BY <1>2, <1>5

(* Connections after the claims on `ids` are lost. *)
Lost(P, Q, ids) ==
  \A g \in Fds : Q[g] # None =>
    P[g] # None /\ Carries(Q[g], P[g], <<>>) /\ Q[g].owns = P[g].owns \ ids

LEMMA LoseStep ==
  ASSUME NEW P, Sound(P), NEW ids
  PROVE  Sound(Lose(P, ids)) /\ Lost(P, Lose(P, ids), ids)
<1> DEFINE Q == Lose(P, ids)
<1>1. ASSUME NEW g \in Fds, Q[g] # None
      PROVE  /\ P[g] # None /\ Carries(Q[g], P[g], <<>>)
             /\ Q[g].owns = P[g].owns \ ids
  <2>1. P[g] # None
    BY <1>1 DEF Lose
  <2>2. P[g] \in Peer /\ Len(P[g].out) <= Cap
    BY <2>1 DEF Sound
  <2>3. PICK p \in Peer : p = P[g]
    BY <2>2
  <2>4. p.out \in Seq(Line) /\ p.owns \in SUBSET Id
    BY PeerFields
  <2>5. p.owns \ ids \in SUBSET Id /\ p.out \o <<>> = p.out
    BY <2>4
  <2>6. Q[g] = [p EXCEPT !.owns = p.owns \ ids]
    BY <2>1, <2>3 DEF Lose
  <2>7. /\ Q[g] \in Peer /\ Q[g].out = p.out /\ Q[g].sub = p.sub
        /\ Q[g].cmd = p.cmd /\ Q[g].hup = p.hup /\ Q[g].waits = p.waits
        /\ Q[g].view = p.view /\ Q[g].owns = p.owns \ ids
    <3> DEFINE o == p.owns \ ids
               q == Q[g]
    <3>1. o \in SUBSET Id /\ q = [p EXCEPT !.owns = o]
      BY <2>5, <2>6
    <3> HIDE DEF o, q, Q
    <3>2. /\ q \in Peer /\ q.out = p.out /\ q.sub = p.sub
          /\ q.cmd = p.cmd /\ q.hup = p.hup /\ q.waits = p.waits
          /\ q.view = p.view /\ q.owns = o
      BY <3>1, WithOwns
    <3> QED BY <3>2 DEF o, q
  <2> QED BY <2>1, <2>2, <2>3, <2>5, <2>7 DEF Carries
<1>2. Lost(P, Q, ids)
  BY <1>1 DEF Lost
<1>3. \A g \in Fds : Q[g] # None => Q[g] \in Peer /\ Len(Q[g].out) <= Cap
  BY <1>1 DEF Carries
<1>4. Q = [g \in Fds |-> Q[g]]
  BY DEF Lose
<1>5. Sound(Q)
  <2> HIDE DEF Q
  <2> QED BY <1>3, <1>4 DEF Sound
<1> QED BY <1>2, <1>5

(* Connections after `lines` were sent to f: a beginning of them arrives,  *)
(* all of them if there is room.                                           *)
Begins(part, lines) == /\ Len(part) <= Len(lines)
                       /\ \A i \in 1..Len(part) : part[i] = lines[i]

Arrives(p, lines, part) ==
  /\ Begins(part, lines)
  /\ p.hup => part = <<>>
  /\ part = lines \/ p.hup \/ Len(p.out \o part) = Cap

Sent(P, Q, f, lines) ==
  \A g \in Fds : Q[g] # None =>
    /\ P[g] # None
    /\ Q[g].owns = P[g].owns
    /\ g # f => Carries(Q[g], P[g], <<>>)
    /\ g = f => \E part \in Seq(Line) : /\ Arrives(P[f], lines, part)
                                        /\ Carries(Q[f], P[f], part)

LEMMA SendStep ==
  ASSUME NEW P, Sound(P), NEW f \in Fds, NEW lines \in Seq(Line)
  PROVE  /\ Sound(Send(P, f, lines)) /\ Sent(P, Send(P, f, lines), f, lines)
         /\ P[f] # None => Send(P, f, lines)[f] # None
<1> DEFINE Q == Send(P, f, lines)
<1>1. ASSUME NEW g \in Fds, P[g] # None
      PROVE  P[g] \in Peer /\ Len(P[g].out) <= Cap /\ Carries(P[g], P[g], <<>>)
  <2>1. P[g] \in Peer /\ Len(P[g].out) <= Cap
    BY <1>1 DEF Sound
  <2>2. P[g].out \o <<>> = P[g].out
    BY <2>1, PeerFields
  <2> QED BY <2>1, <2>2 DEF Carries
<1>2. CASE P[f] = None
  <2>1. Q = P
    BY <1>2 DEF Send
  <2> QED BY <1>1, <1>2, <2>1 DEF Sent
<1>3. CASE P[f] # None
  <2>1. PICK p \in Peer : p = P[f]
    BY <1>3, <1>1
  <2>2. p.out \in Seq(Line) /\ p.hup \in BOOLEAN /\ Len(p.out) <= Cap
    BY <2>1, <1>1, <1>3, PeerFields
  <2>3. PICK n \in Nat : n = Len(p.out)
    BY <2>2
  <2>4. PICK m \in Nat : m = Len(lines)
    OBVIOUS
  <2>5. Cap \in Nat /\ Cap - n \in Nat
    BY <2>2, <2>3, DriverAssumption
  <2> DEFINE room == IF p.hup THEN 0 ELSE Min({m, Cap - n})
             part == SubSeq(lines, 1, room)
  <2>6. /\ room \in Nat /\ room <= m /\ (p.hup \/ n + room <= Cap)
        /\ (p.hup => room = 0) /\ (p.hup \/ room = m \/ n + room = Cap)
    <3>1. Min({m, Cap - n}) = IF m <= Cap - n THEN m ELSE Cap - n
      BY <2>5, MinOfTwo
    <3> QED BY <3>1, <2>5
  <2> HIDE DEF room
  <2>7. /\ part \in Seq(Line) /\ Len(part) = room
        /\ (room = m => part = lines) /\ (room = 0 => part = <<>>)
        /\ Len(p.out \o part) = n + room /\ p.out \o part \in Seq(Line)
        /\ p.out \o <<>> = p.out
    <3>1. part \in Seq(Line) /\ Len(part) = room
      BY <2>4, <2>6
    <3>2. (room = m => part = lines) /\ (room = 0 => part = <<>>)
      BY <2>4, <2>6
    <3> HIDE DEF part
    <3>3. /\ Len(p.out \o part) = n + room /\ p.out \o part \in Seq(Line)
          /\ p.out \o <<>> = p.out
      BY <2>2, <2>3, <3>1
    <3> QED BY <3>1, <3>2, <3>3
  <2>8. Begins(part, lines)
    BY <2>4, <2>6, <2>7 DEF Begins
  <2> HIDE DEF part
  <2>9. Arrives(p, lines, part)
    BY <2>4, <2>6, <2>7, <2>8 DEF Arrives
  <2>10. Q = [P EXCEPT ![f] = [p EXCEPT !.out = p.out \o part]]
    <3>1. Q = [P EXCEPT ![f].out = IF p.hup THEN p.out
                 ELSE p.out \o SubSeq(lines, 1, Min({m, Cap - n}))]
      BY <1>3, <2>1, <2>3, <2>4 DEF Send
    <3>2. (IF p.hup THEN p.out
           ELSE p.out \o SubSeq(lines, 1, Min({m, Cap - n}))) = p.out \o part
      BY <2>2, <2>6, <2>7 DEF room, part
    <3> QED BY <3>1, <3>2, <2>1
  <2>11. PICK q : q = [p EXCEPT !.out = p.out \o part]
    OBVIOUS
  <2>18. PICK o \in Seq(Line) : o = p.out \o part
    BY <2>7
  <2>12. /\ q \in Peer /\ q.out = p.out \o part /\ q.sub = p.sub
         /\ q.cmd = p.cmd /\ q.hup = p.hup /\ q.waits = p.waits
         /\ q.view = p.view /\ q.owns = p.owns
    <3>1. q = [p EXCEPT !.out = o]
      BY <2>11, <2>18
    <3>2. /\ q \in Peer /\ q.out = o /\ q.sub = p.sub
          /\ q.cmd = p.cmd /\ q.hup = p.hup /\ q.waits = p.waits
          /\ q.view = p.view /\ q.owns = p.owns
      BY <3>1, WithOut
    <3> QED BY <2>18, <3>2
  <2>13. /\ Q = [P EXCEPT ![f] = q] /\ Q[f] = q
         /\ \A g \in Fds : g # f => Q[g] = P[g]
    BY <2>10, <2>11 DEF Sound
  <2>14. Len(q.out) <= Cap
    BY <2>2, <2>3, <2>6, <2>7, <2>12
  <2>15. Carries(q, p, part)
    BY <2>6, <2>7, <2>12, <2>14 DEF Carries
  <2> HIDE DEF Q
  <2>16. Sound(Q)
    BY <2>12, <2>13, <2>14 DEF Sound
  <2>17. Sent(P, Q, f, lines)
    <3>1. ASSUME NEW g \in Fds, Q[g] # None, g # f
          PROVE  P[g] # None /\ Q[g].owns = P[g].owns
                 /\ Carries(Q[g], P[g], <<>>)
      BY <1>1, <2>13, <3>1
    <3>2. /\ P[f] # None /\ Q[f].owns = P[f].owns
          /\ \E pt \in Seq(Line) : /\ Arrives(P[f], lines, pt)
                                   /\ Carries(Q[f], P[f], pt)
      BY <1>3, <2>1, <2>7, <2>9, <2>12, <2>13, <2>15
    <3> QED BY <3>1, <3>2 DEF Sent
  <2>19. Q[f] # None
    BY <2>12, <2>13, PeerFields
  <2> QED BY <2>16, <2>17, <2>19 DEF Q
<1> QED BY <1>2, <1>3

-----------------------------------------------------------------------------
(* What a handler does to the connections. *)

(* Events: no reply is broadcast, and they tell how the table changed.     *)
News(lines, tab, new) ==
  /\ lines \in Seq(Line)
  /\ \A i \in 1..Len(lines) : lines[i].op # "reply"
  /\ Tells(lines, tab, new)

(* The answer to a command: its reply is the last line, and the lines      *)
(* before it repeat the table.                                             *)
Reports(lines, tab) ==
  /\ lines \in Seq(Line)
  /\ \A i \in 1..Len(lines) : lines[i].op = "reply" => i = Len(lines)
  /\ \A id \in Id : \A i \in 1..Len(lines) :
       About(lines[i], id) => Says(lines[i]) = tab[id]

(* A part of an answer is one, and changes nobody's picture. *)
LEMMA PartReports ==
  ASSUME NEW lines, NEW tab, Reports(lines, tab), NEW part \in Seq(Line),
         Begins(part, lines)
  PROVE  Reports(part, tab) /\ Tells(part, tab, tab)
<1>1. PICK n \in Nat : n = Len(part)
  OBVIOUS
<1>2. PICK m \in Nat : m = Len(lines)
  BY DEF Reports
<1>3. n <= m /\ \A i \in 1..n : part[i] = lines[i]
  BY <1>1, <1>2 DEF Begins
<1>4. Reports(part, tab)
  <2>1. \A i \in 1..n : i \in 1..m /\ (i = m => i = n)
    BY <1>3
  <2> QED BY <1>1, <1>2, <1>3, <2>1 DEF Reports
<1>5. Tells(part, tab, tab)
  BY <1>4, TellsAll DEF Reports
<1> QED BY <1>4, <1>5

(* The connection q after a handler broadcast `events` and, if the command *)
(* was its own, answered with `part`.                                      *)
Follows(q, p, mine, events, part) ==
  /\ q \in Peer
  /\ q.sub = p.sub /\ q.hup = p.hup /\ q.waits = p.waits /\ q.view = p.view
  /\ q.cmd = IF mine THEN None ELSE p.cmd
  /\ q.out = (p.out \o (IF p.sub THEN events ELSE <<>>))
               \o (IF mine THEN part ELSE <<>>)
  /\ p.hup => /\ ~p.sub \/ events = <<>>
              /\ ~mine \/ part = <<>>

(* Where the replies are once events or an answer are added. *)
LEMMA RepliesOf ==
  ASSUME NEW T, NEW a \in Seq(T), NEW b \in Seq(T),
         \A k \in 1..Len(b) : b[k].op = "reply" => k = Len(b)
  PROVE  \A i \in 1..Len(a \o b) : (a \o b)[i].op = "reply" =>
           \/ i \in 1..Len(a) /\ a[i].op = "reply"
           \/ /\ b # <<>> /\ i = Len(a \o b)
              /\ \E k \in 1..Len(b) : b[k].op = "reply"
<1>1. \A i \in 1..Len(a \o b) :
        \/ i \in 1..Len(a) /\ (a \o b)[i] = a[i]
        \/ \E k \in 1..Len(b) : /\ (a \o b)[i] = b[k]
                                /\ i = Len(a \o b) <=> k = Len(b)
  BY InTwo
<1>2. \A k \in 1..Len(b) : b # <<>>
  OBVIOUS
<1> QED BY <1>1, <1>2

(* Where the replies of such a connection are. *)
LEMMA FollowsReplies ==
  ASSUME NEW p \in Peer, NEW q, NEW mine \in BOOLEAN, NEW tab, NEW new,
         NEW events, News(events, tab, new), NEW part, Reports(part, new),
         Follows(q, p, mine, events, part)
  PROVE  \A i \in 1..Len(q.out) : q.out[i].op = "reply" =>
           \/ i \in 1..Len(p.out) /\ p.out[i].op = "reply"
           \/ mine /\ part # <<>> /\ i = Len(q.out)
<1> DEFINE ev == IF p.sub THEN events ELSE <<>>
           pt == IF mine THEN part ELSE <<>>
<1>1. /\ p.out \in Seq(Line) /\ ev \in Seq(Line) /\ pt \in Seq(Line)
      /\ p.sub \in BOOLEAN
  BY PeerFields DEF News, Reports
<1>2. q.out = (p.out \o ev) \o pt
  BY DEF Follows
<1>3. /\ \A k \in 1..Len(ev) : ev[k].op # "reply"
      /\ \A k \in 1..Len(pt) : pt[k].op = "reply" => k = Len(pt)
      /\ pt # <<>> => mine /\ part # <<>>
      /\ \A k \in 1..Len(pt) : pt # <<>>
  BY DEF News, Reports
<1> HIDE DEF ev, pt
<1>6. PICK T : T = Line
  OBVIOUS
<1>4. PICK a \in Seq(T), b \in Seq(T), c \in Seq(T) :
        a = p.out /\ b = ev /\ c = pt
  BY <1>1, <1>6
<1>7. /\ \A k \in 1..Len(b) : b[k].op # "reply"
      /\ \A k \in 1..Len(c) : c[k].op = "reply" => k = Len(c)
  BY <1>3, <1>4
<1>5. \A i \in 1..Len(a \o b) : (a \o b)[i].op = "reply" =>
        i \in 1..Len(a) /\ a[i].op = "reply"
  BY <1>7, RepliesOf
<1>8. PICK d \in Seq(T) : d = a \o b
  <2>1. a \o b \in Seq(T)
    OBVIOUS
  <2> QED BY <2>1
<1>9. \A i \in 1..Len(d \o c) : (d \o c)[i].op = "reply" =>
        \/ i \in 1..Len(d) /\ d[i].op = "reply"
        \/ c # <<>> /\ i = Len(d \o c)
  BY <1>7, RepliesOf
<1>10. \A i \in 1..Len(d) : d[i].op = "reply" =>
         i \in 1..Len(a) /\ a[i].op = "reply"
  BY <1>5, <1>8
<1>11. PICK w : w = d \o c /\ w = q.out
  BY <1>2, <1>4, <1>8
<1>12. \A i \in 1..Len(w) : w[i].op = "reply" =>
         \/ i \in 1..Len(a) /\ a[i].op = "reply"
         \/ c # <<>> /\ i = Len(w)
  BY <1>9, <1>10, <1>11
<1> QED BY <1>3, <1>4, <1>11, <1>12

(* A handler keeps what is known of every connection. *)
LEMMA FollowsKeeps ==
  ASSUME NEW p \in Peer, NEW q, NEW mine \in BOOLEAN, mine => p.cmd # None,
         NEW tab, NEW new, PeerInv(p, tab),
         NEW events, News(events, tab, new), NEW part, Reports(part, new),
         Follows(q, p, mine, events, part)
  PROVE  PeerInv(q, new)
<1> DEFINE ev == IF p.sub THEN events ELSE <<>>
           pt == IF mine THEN part ELSE <<>>
<1>1. /\ p.out \in Seq(Line) /\ ev \in Seq(Line) /\ pt \in Seq(Line)
      /\ p.sub \in BOOLEAN /\ p.hup \in BOOLEAN /\ p.waits \in BOOLEAN
  BY PeerFields DEF News, Reports
<1>2. /\ q.out = (p.out \o ev) \o pt
      /\ q.sub = p.sub /\ q.hup = p.hup /\ q.waits = p.waits
      /\ q.view = p.view /\ q.cmd = IF mine THEN None ELSE p.cmd
      /\ (p.hup => ev = <<>> /\ pt = <<>>)
  BY DEF Follows
<1>3. Answers(p) /\ Waiting(p) /\ Quiet(p) /\ ToldTable(p, tab)
  BY DEF PeerInv
<1>4. Answers(q)
  <2>1. ASSUME NEW i \in 1..Len(q.out), q.out[i].op = "reply"
        PROVE  q.waits /\ q.cmd = None
    <3>1. CASE p.out[i].op = "reply" /\ i \in 1..Len(p.out)
      BY <3>1, <1>2, <1>3 DEF Answers
    <3>2. CASE mine /\ part # <<>>
      BY <3>2, <1>2, <1>3 DEF Waiting
    <3> QED BY <2>1, <3>1, <3>2, FollowsReplies
  <2>2. ASSUME NEW i \in 1..Len(q.out), q.out[i].op = "reply",
               NEW j \in 1..Len(q.out), q.out[j].op = "reply"
        PROVE  i = j
    <3>1. CASE mine
      <4>1. \A k \in 1..Len(p.out) : p.out[k].op # "reply"
        BY <3>1, <1>3 DEF Answers
      <4>2. i = Len(q.out)
        BY <2>2, <4>1, FollowsReplies
      <4>3. j = Len(q.out)
        BY <2>2, <4>1, FollowsReplies
      <4> QED BY <4>2, <4>3
    <3>2. CASE ~mine
      <4>1. i \in 1..Len(p.out) /\ p.out[i].op = "reply"
        BY <2>2, <3>2, FollowsReplies
      <4>2. j \in 1..Len(p.out) /\ p.out[j].op = "reply"
        BY <2>2, <3>2, FollowsReplies
      <4> QED BY <4>1, <4>2, <1>3 DEF Answers
    <3> QED BY <3>1, <3>2
  <2> QED BY <2>1, <2>2 DEF Answers
<1>5. Waiting(q)
  <2>1. p.hup => q.out = <<>>
    <3>1. <<>> \o <<>> = <<>>
      OBVIOUS
    <3> QED BY <3>1, <1>2, <1>3 DEF Waiting
  <2> QED BY <2>1, <1>2, <1>3 DEF Waiting
<1>6. Quiet(q)
  <2> SUFFICES ASSUME p.sub = FALSE
               PROVE  /\ \A i \in 1..Len(q.out) :
                           q.out[i].op = "reply" => i = Len(q.out)
                      /\ ~q.waits \/ q.cmd # None => q.out = <<>>
    BY <1>1, <1>2 DEF Quiet
  <2>1. ASSUME NEW i \in 1..Len(q.out), q.out[i].op = "reply"
        PROVE  i = Len(q.out)
    <3>1. CASE mine
      <4>1. \A k \in 1..Len(p.out) : p.out[k].op # "reply"
        BY <3>1, <1>3 DEF Answers
      <4> QED BY <2>1, <4>1, FollowsReplies
    <3>2. CASE ~mine
      <4>1. i \in 1..Len(p.out) /\ p.out[i].op = "reply"
        BY <2>1, <3>2, FollowsReplies
      <4>2. q.out = p.out
        <5>1. (p.out \o <<>>) \o <<>> = p.out
          BY <1>1
        <5> QED BY <3>2, <5>1, <1>2
      <4> QED BY <4>1, <4>2, <1>3 DEF Quiet
    <3> QED BY <3>1, <3>2
  <2>2. ASSUME ~q.waits \/ q.cmd # None PROVE q.out = <<>>
    <3>1. ev = <<>> /\ (p.out \o <<>>) \o <<>> = p.out
      BY <1>1
    <3>2. CASE mine
      <4>1. p.hup
        BY <2>2, <3>2, <1>2, <1>3 DEF Waiting
      <4> QED BY <4>1, <3>1, <1>2, <1>3 DEF Waiting
    <3>3. CASE ~mine
      <4>1. p.out = <<>> /\ pt = <<>>
        BY <2>2, <3>3, <1>2, <1>3 DEF Quiet
      <4> QED BY <4>1, <3>1, <1>2
    <3> QED BY <3>2, <3>3
  <2> QED BY <2>1, <2>2
<1>7. ToldTable(q, new)
  <2> SUFFICES ASSUME p.sub, ~p.hup PROVE Tells(q.out, p.view, new)
    BY <1>2 DEF ToldTable
  <2>1. Tells(p.out, p.view, tab) /\ Tells(ev, tab, new)
    BY <1>3 DEF ToldTable, News
  <2>2. Tells(p.out \o ev, p.view, new)
    BY <1>1, <2>1, TellsThen
  <2>3. Tells(pt, new, new)
    <3>1. pt = <<>> \/ pt = part
      OBVIOUS
    <3>2. Tells(<<>>, new, new)
      <4>1. Len(<<>>) = 0
        OBVIOUS
      <4> QED BY <4>1 DEF Tells, Believes
    <3>3. Tells(part, new, new)
      BY TellsAll DEF Reports
    <3> QED BY <3>1, <3>2, <3>3
  <2>4. p.out \o ev \in Seq(Line)
    BY <1>1
  <2> QED BY <1>1, <1>2, <2>2, <2>3, <2>4, TellsThen
<1> QED BY <1>4, <1>5, <1>6, <1>7 DEF PeerInv

-----------------------------------------------------------------------------
(* The command of f is taken; what f owns may change with it. *)
Ready(P, f) ==
  /\ Sound(P)
  /\ \A g \in Fds : g # f => P[g] = peer[g]
  /\ P[f] # None
  /\ P[f].cmd = None /\ P[f].sub = peer[f].sub /\ P[f].out = peer[f].out
  /\ P[f].hup = peer[f].hup /\ P[f].waits = peer[f].waits
  /\ P[f].view = peer[f].view

LEMMA NothingSent ==
  ASSUME NEW P, Sound(P)
  PROVE  Broadcasted(P, P, <<>>) /\ Lost(P, P, {})
<1>1. ASSUME NEW g \in Fds, P[g] # None
      PROVE  Carries(P[g], P[g], <<>>)
  <2>1. P[g] \in Peer /\ Len(P[g].out) <= Cap
    BY <1>1 DEF Sound
  <2>2. P[g].out \o <<>> = P[g].out
    BY <2>1, PeerFields
  <2> QED BY <2>1, <2>2 DEF Carries
<1> QED BY <1>1 DEF Broadcasted, Lost

(* Events, lost claims and an answer, one after another. *)
Answered(P, Q, f, events, ids, answer) ==
  \E P1, P2 : /\ Broadcasted(P, P1, events)
              /\ Lost(P1, P2, ids)
              /\ Sent(P2, Q, f, answer)

LEMMA Handled ==
  ASSUME Sound(peer), NEW f \in Fds, Open(f), NEW P0, Ready(P0, f), NEW P3,
         NEW events \in Seq(Line), NEW ids, NEW answer \in Seq(Line),
         Answered(P0, P3, f, events, ids, answer),
         NEW g \in Fds, P3[g] # None
  PROVE  /\ peer[g] # None
         /\ P3[g].owns = P0[g].owns \ ids
         /\ \E part \in Seq(Line) :
              /\ Begins(part, answer)
              /\ Follows(P3[g], peer[g], g = f, events, part)
<1>0. PICK P1, P2 : /\ Broadcasted(P0, P1, events)
                    /\ Lost(P1, P2, ids)
                    /\ Sent(P2, P3, f, answer)
  BY DEF Answered
<1>1. P2[g] # None /\ P1[g] # None /\ P0[g] # None
  BY <1>0 DEF Sent, Lost, Broadcasted
<1>2. PICK p \in Peer : p = P0[g]
  BY <1>1 DEF Ready, Sound
<1>3. /\ peer[g] # None /\ p.out = peer[g].out /\ p.sub = peer[g].sub
      /\ p.hup = peer[g].hup /\ p.waits = peer[g].waits
      /\ p.view = peer[g].view
      /\ p.cmd = IF g = f THEN None ELSE peer[g].cmd
  BY <1>1, <1>2 DEF Ready, Open
<1>4. PICK ev \in Seq(Line) : ev = IF p.sub THEN events ELSE <<>>
  <2>1. (IF p.sub THEN events ELSE <<>>) \in Seq(Line)
    OBVIOUS
  <2> QED BY <2>1
<1>5. Carries(P1[g], p, ev) /\ P1[g].owns = p.owns
  BY <1>0, <1>1, <1>2, <1>4 DEF Broadcasted
<1>6. Carries(P2[g], P1[g], <<>>) /\ P2[g].owns = p.owns \ ids
  BY <1>0, <1>1, <1>5 DEF Lost
<1>7. /\ P3[g].owns = p.owns \ ids
      /\ \E part \in Seq(Line) : /\ Begins(part, answer)
                                 /\ g # f => part = <<>>
                                 /\ Carries(P3[g], P2[g], part)
  <2>1. P3[g].owns = p.owns \ ids
    BY <1>0, <1>6 DEF Sent
  <2>2. <<>> \in Seq(Line) /\ Begins(<<>>, answer)
    BY DEF Begins
  <2>3. CASE g = f
    BY <1>0, <2>1, <2>3 DEF Sent, Arrives
  <2>4. CASE g # f
    BY <1>0, <2>1, <2>2, <2>4 DEF Sent
  <2> QED BY <2>3, <2>4
<1>8. PICK part \in Seq(Line) : /\ Begins(part, answer)
                                /\ g # f => part = <<>>
                                /\ Carries(P3[g], P2[g], part)
  BY <1>7
<1>9. PICK a \in Seq(Line), b \in Seq(Line) :
        a = p.out /\ b = a \o ev
  <2>1. p.out \in Seq(Line) /\ p.out \o ev \in Seq(Line)
    BY PeerFields
  <2> QED BY <2>1
<1>10. P1[g].out = b /\ P2[g].out = b \o <<>> /\ b \o <<>> = b
  BY <1>5, <1>6, <1>9 DEF Carries
<1>11. P3[g].out = b \o part
  BY <1>8, <1>10 DEF Carries
<1>12. /\ P3[g] \in Peer
       /\ P3[g].sub = p.sub /\ P3[g].hup = p.hup /\ P3[g].waits = p.waits
       /\ P3[g].view = p.view /\ P3[g].cmd = p.cmd
       /\ p.hup => ev = <<>> /\ part = <<>>
  BY <1>5, <1>6, <1>8 DEF Carries
<1>13. (IF g = f THEN part ELSE <<>>) = part
  BY <1>8
<1>14. PICK q : q = P3[g]
  OBVIOUS
<1>15. q.out = (peer[g].out \o (IF peer[g].sub THEN events ELSE <<>>))
                 \o (IF g = f THEN part ELSE <<>>)
  BY <1>3, <1>4, <1>9, <1>11, <1>13, <1>14
<1>16. Follows(q, peer[g], g = f, events, part)
  BY <1>3, <1>4, <1>12, <1>14, <1>15 DEF Follows
<1> QED BY <1>2, <1>3, <1>7, <1>8, <1>14, <1>16

(* A handler keeps what is known of all connections. *)
LEMMA HandledKeeps ==
  ASSUME Sound(peer), NEW f \in Fds, Open(f), peer[f].cmd # None,
         \A g \in Fds : Open(g) => PeerInv(peer[g], table),
         NEW P0, Ready(P0, f), NEW P3,
         NEW new, NEW events, News(events, table, new),
         NEW ids, NEW answer, Reports(answer, new),
         Answered(P0, P3, f, events, ids, answer),
         NEW g \in Fds, P3[g] # None
  PROVE  /\ PeerInv(P3[g], new)
         /\ peer[g] # None
         /\ P3[g].owns = P0[g].owns \ ids
<1>1. events \in Seq(Line) /\ answer \in Seq(Line)
  BY DEF News, Reports
<1>2. /\ peer[g] # None
      /\ P3[g].owns = P0[g].owns \ ids
      /\ \E part \in Seq(Line) :
           /\ Begins(part, answer)
           /\ Follows(P3[g], peer[g], g = f, events, part)
  BY <1>1, Handled
<1>3. PICK part \in Seq(Line) :
        /\ Begins(part, answer)
        /\ Follows(P3[g], peer[g], g = f, events, part)
  BY <1>2
<1>4. Reports(part, new)
  BY <1>3, PartReports
<1>5. PICK p \in Peer : p = peer[g]
  BY <1>2 DEF Sound
<1> PICK q : q = P3[g]
  OBVIOUS
<1>6. PeerInv(p, table) /\ (g = f => p.cmd # None)
  BY <1>2, <1>5 DEF Open
<1>7. Follows(q, p, g = f, events, part)
  BY <1>3, <1>5
<1>8. CASE g = f
  <2>1. Follows(q, p, TRUE, events, part)
    BY <1>7, <1>8 DEF Follows
  <2>2. PeerInv(q, new)
    BY <1>4, <1>6, <1>8, <2>1, FollowsKeeps
  <2> QED BY <1>2, <1>5, <2>2
<1>9. CASE g # f
  <2>1. Follows(q, p, FALSE, events, part)
    BY <1>7, <1>9 DEF Follows
  <2>2. PeerInv(q, new)
    BY <1>4, <1>6, <2>1, FollowsKeeps
  <2> QED BY <1>2, <1>5, <2>2
<1> QED BY <1>8, <1>9

(* The forms in which the handlers compose these steps. *)
LEMMA SendAnswers ==
  ASSUME NEW P, Sound(P), NEW f \in Fds, NEW answer \in Seq(Line)
  PROVE  /\ Sound(Send(P, f, answer))
         /\ Answered(P, Send(P, f, answer), f, <<>>, {}, answer)
BY NothingSent, SendStep DEF Answered

LEMMA EventsAnswer ==
  ASSUME NEW P, Sound(P), NEW f \in Fds, NEW events \in Seq(Line), NEW ids,
         NEW answer \in Seq(Line)
  PROVE  /\ Sound(Send(Lose(Broadcast(P, events), ids), f, answer))
         /\ Answered(P, Send(Lose(Broadcast(P, events), ids), f, answer),
                     f, events, ids, answer)
<1>1. PICK P1 : P1 = Broadcast(P, events)
  OBVIOUS
<1>2. Sound(P1) /\ Broadcasted(P, P1, events)
  BY <1>1, BroadcastStep
<1>3. PICK P2 : P2 = Lose(P1, ids)
  OBVIOUS
<1>4. Sound(P2) /\ Lost(P1, P2, ids)
  BY <1>2, <1>3, LoseStep
<1>5. Sound(Send(P2, f, answer)) /\ Sent(P2, Send(P2, f, answer), f, answer)
  BY <1>4, SendStep
<1> QED BY <1>1, <1>2, <1>3, <1>4, <1>5 DEF Answered

LEMMA BroadcastAnswers ==
  ASSUME NEW P, Sound(P), NEW f \in Fds, NEW events \in Seq(Line),
         NEW answer \in Seq(Line)
  PROVE  /\ Sound(Send(Broadcast(P, events), f, answer))
         /\ Answered(P, Send(Broadcast(P, events), f, answer),
                     f, events, {}, answer)
<1>1. PICK P1 : P1 = Broadcast(P, events)
  OBVIOUS
<1>2. Sound(P1) /\ Broadcasted(P, P1, events)
  BY <1>1, BroadcastStep
<1>3. Lost(P1, P1, {})
  BY <1>2, NothingSent
<1>4. Sound(Send(P1, f, answer)) /\ Sent(P1, Send(P1, f, answer), f, answer)
  BY <1>2, SendStep
<1> QED BY <1>1, <1>2, <1>3, <1>4 DEF Answered

LEMMA TakenReady ==
  ASSUME Sound(peer), NEW f \in Fds, Open(f)
  PROVE  /\ Ready(Taken(f), f)
         /\ \A g \in Fds : Open(g) => Taken(f)[g].owns = peer[g].owns
<1>1. PICK p \in Peer : p = peer[f]
  BY DEF Sound, Open
<1>2. PICK q : q = [p EXCEPT !.cmd = None]
  OBVIOUS
<1>3. /\ q \in Peer /\ q.out = p.out /\ q.sub = p.sub /\ q.cmd = None
      /\ q.hup = p.hup /\ q.waits = p.waits /\ q.view = p.view
      /\ q.owns = p.owns /\ q # None
  BY <1>2, WithNoCmd, NoneIsNothing
<1>4. Taken(f) = [peer EXCEPT ![f] = q]
  BY <1>1, <1>2 DEF Taken
<1>5. /\ Taken(f) \in [Fds -> Peer \cup {None}] /\ Taken(f)[f] = q
      /\ \A g \in Fds : g # f => Taken(f)[g] = peer[g]
  BY <1>3, <1>4 DEF Sound
<1>6. Sound(Taken(f))
  BY <1>1, <1>3, <1>5 DEF Sound, Open
<1> QED BY <1>1, <1>3, <1>5, <1>6 DEF Ready

Owning(f, ids) == [Taken(f) EXCEPT ![f].owns = ids]

LEMMA OwningReady ==
  ASSUME Sound(peer), NEW f \in Fds, Open(f), NEW ids \in SUBSET Id,
         NEW P, P = Owning(f, ids)
  PROVE  /\ Ready(P, f)
         /\ P[f].owns = ids
         /\ \A g \in Fds : g # f /\ Open(g) => P[g].owns = peer[g].owns
<1>1. Ready(Taken(f), f)
  BY TakenReady
<1>2. PICK T : T = Taken(f)
  OBVIOUS
<1>3. PICK p \in Peer : p = T[f]
  BY <1>1, <1>2 DEF Ready, Sound
<1>4. PICK q : q = [p EXCEPT !.owns = ids]
  OBVIOUS
<1>5. /\ q \in Peer /\ q.out = p.out /\ q.sub = p.sub /\ q.cmd = p.cmd
      /\ q.hup = p.hup /\ q.waits = p.waits /\ q.view = p.view
      /\ q.owns = ids /\ q # None
  BY <1>4, WithOwns, NoneIsNothing
<1>6. P = [T EXCEPT ![f] = q]
  BY <1>2, <1>3, <1>4 DEF Owning
<1>7. /\ P \in [Fds -> Peer \cup {None}] /\ P[f] = q
      /\ \A g \in Fds : g # f => P[g] = T[g]
  BY <1>1, <1>2, <1>5, <1>6 DEF Ready, Sound
<1>8. Sound(P)
  BY <1>1, <1>2, <1>3, <1>5, <1>7 DEF Sound, Ready
<1> QED BY <1>1, <1>2, <1>3, <1>5, <1>7, <1>8 DEF Ready

-----------------------------------------------------------------------------
(* What the lines of the daemon tell. *)
LEMMA ReplyReports ==
  ASSUME NEW tab, NEW ok \in BOOLEAN, NEW protocol \in BOOLEAN
  PROVE  Reports(<<Reply(ok, protocol)>>, tab)
<1>1. PICK r : r = Reply(ok, protocol)
  OBVIOUS
<1>2. r \in Line /\ r.op = "reply"
  BY <1>1 DEF Reply, Line
<1>3. \A id \in Id : ~About(r, id)
  BY <1>2 DEF About
<1>4. /\ <<r>> \in Seq(Line) /\ Len(<<r>>) = 1
      /\ \A i \in 1..1 : i = 1 /\ <<r>>[i] = r
  BY <1>2
<1> QED BY <1>1, <1>2, <1>3, <1>4 DEF Reports

LEMMA OkReports ==
  ASSUME NEW tab
  PROVE  Reports(<<Ok>>, tab) /\ Reports(<<Err>>, tab)
BY ReplyReports DEF Ok, Err

LEMMA NoNews ==
  ASSUME NEW tab
  PROVE  News(<<>>, tab, tab)
<1>1. <<>> \in Seq(Line) /\ Len(<<>>) = 0
  OBVIOUS
<1> QED BY <1>1 DEF News, Tells, Believes

(* One line that says what changed. *)
LEMMA OneLine ==
  ASSUME NEW line \in Line, line.op # "reply", NEW id \in Id, NEW tab \in Table,
         \A i \in Id : About(line, i) <=> i = id,
         NEW new \in Table, new = [tab EXCEPT ![id] = Says(line)]
  PROVE  News(<<line>>, tab, new)
<1>1. /\ <<line>> \in Seq(Line) /\ Len(<<line>>) = 1
      /\ 1 \in 1..1
      /\ \A i \in 1..1 : i = 1 /\ <<line>>[i] = line
  OBVIOUS
<1>2. \A i \in Id : About(line, i) => Says(line) = new[i]
  BY DEF Table
<1>3. \A i \in Id : tab[i] # new[i] => About(line, i)
  BY DEF Table
<1>4. Tells(<<line>>, tab, new)
  BY <1>1, <1>2, <1>3, TellsAll
<1> QED BY <1>1, <1>4 DEF News

LEMMA NewsThen ==
  ASSUME NEW a, NEW b, NEW tab, NEW mid, NEW new,
         News(a, tab, mid), News(b, mid, new)
  PROVE  News(a \o b, tab, new)
<1>1. a \in Seq(Line) /\ b \in Seq(Line)
  BY DEF News
<1>2. Tells(a \o b, tab, new)
  BY <1>1, TellsThen DEF News
<1>3. a \o b \in Seq(Line)
  BY <1>1
<1>4. \A i \in 1..Len(a \o b) : (a \o b)[i].op # "reply"
  <2>1. PICK T : T = Line
    OBVIOUS
  <2>2. PICK c \in Seq(T), d \in Seq(T) : c = a /\ d = b
    BY <1>1, <2>1
  <2>3. /\ \A i \in 1..Len(c) : c[i].op # "reply"
        /\ \A i \in 1..Len(d) : d[i].op # "reply"
    BY <2>2 DEF News
  <2>4. \A i \in 1..Len(c \o d) :
          \/ i \in 1..Len(c) /\ (c \o d)[i] = c[i]
          \/ \E k \in 1..Len(d) : /\ (c \o d)[i] = d[k]
                                  /\ i = Len(c \o d) <=> k = Len(d)
    BY InTwo
  <2>5. \A i \in 1..Len(c \o d) : (c \o d)[i].op # "reply"
    BY <2>3, <2>4
  <2> QED BY <2>2, <2>5
<1> QED BY <1>2, <1>3, <1>4 DEF News

-----------------------------------------------------------------------------
(* The invariant, in the parts the steps are about. *)
Owners(P, c) == \A g \in Fds : P[g] # None => \A id \in P[g].owns : c[id] = g
Peers(P, tab) == \A g \in Fds : P[g] # None => PeerInv(P[g], tab)

Parts(b, u, tab, c, P) ==
  /\ b \in Table /\ u \in BOOLEAN /\ tab \in Table
  /\ c \in [Id -> {0} \cup Fds]
  /\ ById(b) /\ ById(tab)
  /\ Sound(P) /\ Owners(P, c) /\ Peers(P, tab)

LEMMA InParts == IInv <=> Parts(bus, uevent, table, claim, peer)
BY DEF IInv, TypeOK, OwnerKeepsClaim, Parts, Sound, Owners, Peers, Open

LEMMA InPartsNext == IInv' <=> Parts(bus', uevent', table', claim', peer')
BY DEF IInv, TypeOK, OwnerKeepsClaim, Parts, Sound, Owners, Peers, Open,
       ById

(* A command that is answered and tells nobody else. *)
LEMMA PlainKeeps ==
  ASSUME IInv, NEW f \in Fds, Open(f), peer[f].cmd # None,
         NEW P, Ready(P, f), NEW answer, Reports(answer, table),
         NEW Q, Q = Send(P, f, answer)
  PROVE  /\ Sound(Q) /\ Peers(Q, table)
         /\ \A g \in Fds : Q[g] # None =>
              peer[g] # None /\ Q[g].owns = P[g].owns
<1>1. Sound(peer) /\ Peers(peer, table)
  BY InParts DEF Parts
<1>2. \A g \in Fds : Open(g) => PeerInv(peer[g], table)
  BY <1>1 DEF Peers, Open
<1>3. Sound(P) /\ answer \in Seq(Line)
  BY DEF Ready, Reports
<1>4. PICK none, ids : none = <<>> /\ ids = {}
  OBVIOUS
<1>5. Sound(Q) /\ Answered(P, Q, f, none, ids, answer)
  BY <1>3, <1>4, SendAnswers
<1>6. News(none, table, table)
  BY <1>4, NoNews
<1>7. ASSUME NEW g \in Fds, Q[g] # None
      PROVE  PeerInv(Q[g], table) /\ peer[g] # None
             /\ Q[g].owns = P[g].owns \ ids
  BY <1>1, <1>2, <1>5, <1>6, <1>7, HandledKeeps
<1> QED BY <1>4, <1>5, <1>7 DEF Peers

(* A command that is answered after events. *)
LEMMA EventsKeep ==
  ASSUME IInv, NEW f \in Fds, Open(f), peer[f].cmd # None,
         NEW new, NEW events, News(events, table, new), NEW ids,
         NEW Q, Sound(Q), Answered(Taken(f), Q, f, events, ids, <<Ok>>)
  PROVE  /\ Peers(Q, new)
         /\ \A g \in Fds : Q[g] # None =>
              peer[g] # None /\ Q[g].owns = peer[g].owns \ ids
<1>1. Sound(peer) /\ Peers(peer, table)
  BY InParts DEF Parts
<1>2. \A g \in Fds : Open(g) => PeerInv(peer[g], table)
  BY <1>1 DEF Peers, Open
<1>3. Ready(Taken(f), f)
      /\ \A g \in Fds : Open(g) => Taken(f)[g].owns = peer[g].owns
  BY <1>1, TakenReady
<1>4. Reports(<<Ok>>, new)
  BY OkReports
<1>5. ASSUME NEW g \in Fds, Q[g] # None
      PROVE  PeerInv(Q[g], new) /\ peer[g] # None
             /\ Q[g].owns = Taken(f)[g].owns \ ids
  BY <1>1, <1>2, <1>3, <1>4, <1>5, HandledKeeps
<1> QED BY <1>3, <1>5 DEF Peers, Open

(* An answer without events by a handler that changes nothing else. *)
LEMMA AnswerKeeps ==
  ASSUME IInv, NEW f \in Fds, Open(f), peer[f].cmd # None,
         NEW answer, Reports(answer, table), peer' = Send(Taken(f), f, answer),
         UNCHANGED <<bus, uevent, table, claim>>
  PROVE  IInv'
<1>1. Parts(bus, uevent, table, claim, peer)
  BY InParts
<1>2. Ready(Taken(f), f)
      /\ \A g \in Fds : Open(g) => Taken(f)[g].owns = peer[g].owns
  BY <1>1, TakenReady DEF Parts
<1>3. /\ Sound(peer') /\ Peers(peer', table)
      /\ \A g \in Fds : peer'[g] # None =>
           peer[g] # None /\ peer'[g].owns = Taken(f)[g].owns
  BY <1>2, PlainKeeps
<1>4. Owners(peer', claim)
  BY <1>1, <1>2, <1>3 DEF Parts, Owners, Open
<1> QED BY <1>1, <1>3, <1>4, InPartsNext DEF Parts

LEMMA CtrlRefusedKeeps ==
  ASSUME IInv, NEW f \in Fds, NEW id \in Id, CtrlRefused(f, id)
  PROVE  IInv'
<1>1. Open(f) /\ peer[f].cmd # None
  BY DEF CtrlRefused, Takes
<1>2. /\ peer' = Send(Taken(f), f, <<Err>>)
      /\ UNCHANGED <<bus, uevent, table, claim>>
  BY DEF CtrlRefused
<1> QED BY <1>1, <1>2, OkReports, AnswerKeeps

LEMMA CtrlSimKeeps ==
  ASSUME IInv, NEW f \in Fds, NEW id \in Id, CtrlSim(f, id)
  PROVE  IInv'
<1>1. Open(f) /\ peer[f].cmd # None
  BY DEF CtrlSim, Takes
<1>2. PICK protocol \in BOOLEAN : protocol = (peer[f].cmd.op = "protocol")
  OBVIOUS
<1>3. /\ peer' = Send(Taken(f), f, <<Reply(TRUE, protocol)>>)
      /\ UNCHANGED <<bus, uevent, table, claim>>
  BY <1>2 DEF CtrlSim
<1>4. Reports(<<Reply(TRUE, protocol)>>, table)
  BY ReplyReports
<1> QED BY <1>1, <1>3, <1>4, AnswerKeeps

LEMMA CtrlRealKeeps ==
  ASSUME IInv, NEW f \in Fds, NEW id \in Id,
         NEW ok \in BOOLEAN, NEW protocol \in BOOLEAN,
         CtrlReal(f, id, ok, protocol)
  PROVE  IInv'
<1>1. Open(f) /\ peer[f].cmd # None
  BY DEF CtrlReal, Takes
<1>2. /\ peer' = Send(Taken(f), f, <<Reply(ok, protocol)>>)
      /\ UNCHANGED <<bus, uevent, table, claim>>
  BY DEF CtrlReal
<1>3. Reports(<<Reply(ok, protocol)>>, table)
  BY ReplyReports
<1> QED BY <1>1, <1>2, <1>3, AnswerKeeps

(* A device that another client owns is not free to claim. *)
LEMMA ClaimKeeps ==
  ASSUME IInv, NEW f \in Fds, NEW id \in Id, Claim(f, id)
  PROVE  IInv'
<1>1. Open(f) /\ peer[f].cmd # None
  BY DEF Claim, Takes
<1>2. Parts(bus, uevent, table, claim, peer)
  BY InParts
<1>3. CASE UNCHANGED claim /\ peer' = Send(Taken(f), f, <<Err>>)
  <2>1. UNCHANGED <<bus, uevent, table, claim>>
    BY <1>3 DEF Claim
  <2> QED BY <1>1, <1>3, <2>1, OkReports, AnswerKeeps
<1>4. CASE /\ claim[id] \in {0, f}
           /\ claim' = [claim EXCEPT ![id] = f]
           /\ peer' = Send([Taken(f) EXCEPT ![f].owns = @ \cup {id}], f, <<Ok>>)
  <2>1. UNCHANGED <<bus, uevent, table>>
    BY DEF Claim
  <2>2. Ready(Taken(f), f) /\ Taken(f)[f].owns = peer[f].owns
    BY <1>1, <1>2, TakenReady DEF Parts
  <2>3. peer[f].owns \cup {id} \in SUBSET Id
    BY <1>1, <1>2, PeerFields DEF Parts, Sound, Open
  <2>4. PICK ids \in SUBSET Id : ids = peer[f].owns \cup {id}
    BY <2>3
  <2>5. PICK P, answer : P = Owning(f, ids) /\ answer = <<Ok>>
    OBVIOUS
  <2>6. /\ Ready(P, f) /\ P[f].owns = peer[f].owns \cup {id}
        /\ \A g \in Fds : g # f /\ Open(g) => P[g].owns = peer[g].owns
    <3>1. Sound(peer)
      BY <1>2 DEF Parts
    <3>2. /\ Ready(P, f) /\ P[f].owns = ids
          /\ \A g \in Fds : g # f /\ Open(g) => P[g].owns = peer[g].owns
      BY <1>1, <2>5, <3>1, OwningReady
    <3> QED BY <2>4, <3>2
  <2>7. /\ Sound(peer') /\ Peers(peer', table)
        /\ \A g \in Fds : peer'[g] # None =>
             peer[g] # None /\ peer'[g].owns = P[g].owns
    <3>1. [Taken(f) EXCEPT ![f].owns = @ \cup {id}] = P
      BY <2>2, <2>4, <2>5 DEF Owning
    <3>2. peer' = Send(P, f, answer)
      BY <1>4, <2>5, <3>1
    <3>3. Reports(answer, table)
      BY <2>5, OkReports
    <3> QED BY <1>1, <2>6, <3>2, <3>3, PlainKeeps
  <2>8. claim' \in [Id -> {0} \cup Fds]
    BY <1>2, <1>4 DEF Parts
  <2>9. ASSUME NEW g \in Fds, peer'[g] # None, NEW i \in peer'[g].owns
        PROVE  claim'[i] = g
    <3>1. Open(g) /\ peer'[g].owns = P[g].owns
      BY <2>7, <2>9 DEF Open
    <3>2. \A j \in peer[g].owns : j \in Id /\ claim[j] = g
      BY <1>2, <3>1, PeerFields DEF Parts, Owners, Sound, Open
    <3>3. CASE g = f
      <4>1. i \in peer[f].owns \/ i = id
        BY <2>6, <2>9, <3>1, <3>3
      <4> QED BY <1>2, <1>4, <3>2, <3>3, <4>1 DEF Parts
    <3>4. CASE g # f
      <4>1. i \in peer[g].owns
        BY <2>6, <2>9, <3>1, <3>4
      <4>2. i \in Id /\ claim[i] = g /\ g # 0
        BY <3>2, <4>1 DEF Fds
      <4>3. i # id
        BY <1>4, <3>4, <4>2
      <4> QED BY <1>2, <1>4, <4>2, <4>3 DEF Parts
    <3> QED BY <3>3, <3>4
  <2> QED BY <1>2, <2>1, <2>7, <2>8, <2>9, InPartsNext DEF Parts, Owners
<1> QED BY <1>3, <1>4 DEF Claim

LEMMA ReleaseKeeps ==
  ASSUME IInv, NEW f \in Fds, NEW id \in Id, Release(f, id)
  PROVE  IInv'
<1>1. Open(f) /\ peer[f].cmd # None
  BY DEF Release, Takes
<1>2. Parts(bus, uevent, table, claim, peer)
  BY InParts
<1>3. CASE UNCHANGED claim /\ peer' = Send(Taken(f), f, <<Err>>)
  <2>1. UNCHANGED <<bus, uevent, table, claim>>
    BY <1>3 DEF Release
  <2> QED BY <1>1, <1>3, <2>1, OkReports, AnswerKeeps
<1>4. CASE /\ claim' = [claim EXCEPT ![id] = IF @ = f THEN 0 ELSE @]
           /\ peer' = Send([Taken(f) EXCEPT ![f].owns = @ \ {id}], f, <<Ok>>)
  <2>1. UNCHANGED <<bus, uevent, table>>
    BY DEF Release
  <2>2. Ready(Taken(f), f) /\ Taken(f)[f].owns = peer[f].owns
    BY <1>1, <1>2, TakenReady DEF Parts
  <2>3. peer[f].owns \ {id} \in SUBSET Id
    BY <1>1, <1>2, PeerFields DEF Parts, Sound, Open
  <2>4. PICK ids \in SUBSET Id : ids = peer[f].owns \ {id}
    BY <2>3
  <2>5. PICK P, answer : P = Owning(f, ids) /\ answer = <<Ok>>
    OBVIOUS
  <2>6. /\ Ready(P, f) /\ P[f].owns = peer[f].owns \ {id}
        /\ \A g \in Fds : g # f /\ Open(g) => P[g].owns = peer[g].owns
    <3>1. Sound(peer)
      BY <1>2 DEF Parts
    <3>2. /\ Ready(P, f) /\ P[f].owns = ids
          /\ \A g \in Fds : g # f /\ Open(g) => P[g].owns = peer[g].owns
      BY <1>1, <2>5, <3>1, OwningReady
    <3> QED BY <2>4, <3>2
  <2>7. /\ Sound(peer') /\ Peers(peer', table)
        /\ \A g \in Fds : peer'[g] # None =>
             peer[g] # None /\ peer'[g].owns = P[g].owns
    <3>1. [Taken(f) EXCEPT ![f].owns = @ \ {id}] = P
      BY <2>2, <2>4, <2>5 DEF Owning
    <3>2. peer' = Send(P, f, answer)
      BY <1>4, <2>5, <3>1
    <3>3. Reports(answer, table)
      BY <2>5, OkReports
    <3> QED BY <1>1, <2>6, <3>2, <3>3, PlainKeeps
  <2>8. claim' \in [Id -> {0} \cup Fds]
    BY <1>2, <1>4 DEF Parts
  <2>9. ASSUME NEW g \in Fds, peer'[g] # None, NEW i \in peer'[g].owns
        PROVE  claim'[i] = g
    <3>1. Open(g) /\ peer'[g].owns = P[g].owns
      BY <2>7, <2>9 DEF Open
    <3>2. \A j \in peer[g].owns : j \in Id /\ claim[j] = g
      BY <1>2, <3>1, PeerFields DEF Parts, Owners, Sound, Open
    <3>3. i \in peer[g].owns /\ (g # f \/ i # id)
      BY <2>6, <2>9, <3>1
    <3> QED BY <1>2, <1>4, <3>2, <3>3 DEF Parts
  <2> QED BY <1>2, <2>1, <2>7, <2>8, <2>9, InPartsNext DEF Parts, Owners
<1> QED BY <1>3, <1>4 DEF Release

-----------------------------------------------------------------------------
(* The commands that change simulated devices. *)
LEMMA DevNews ==
  ASSUME NEW tab \in Table, NEW dev \in Device, dev.id \in Id
  PROVE  /\ [tab EXCEPT ![dev.id] = dev] \in Table
         /\ News(<<DevIs(dev)>>, tab, [tab EXCEPT ![dev.id] = dev])
<1>1. PICK new : new = [tab EXCEPT ![dev.id] = dev]
  OBVIOUS
<1>2. new \in Table
  BY <1>1 DEF Table
<1>3. PICK line : line = DevIs(dev)
  OBVIOUS
<1>4. line \in Line /\ line.op # "reply" /\ Says(line) = dev
  BY <1>3 DEF DevIs, Line, Says
<1>5. \A i \in Id : About(line, i) <=> i = dev.id
  BY <1>3 DEF DevIs, About
<1>6. PICK id \in Id : id = dev.id
  OBVIOUS
<1>7. (\A i \in Id : About(line, i) <=> i = id)
      /\ new = [tab EXCEPT ![id] = Says(line)]
  BY <1>1, <1>4, <1>5, <1>6
<1>8. News(<<line>>, tab, new)
  BY <1>2, <1>4, <1>7, OneLine
<1> QED BY <1>1, <1>2, <1>3, <1>8

LEMMA GoneNews ==
  ASSUME NEW tab \in Table, NEW id \in Id
  PROVE  /\ [tab EXCEPT ![id] = None] \in Table
         /\ News(<<Gone(id)>>, tab, [tab EXCEPT ![id] = None])
<1>1. PICK new : new = [tab EXCEPT ![id] = None]
  OBVIOUS
<1>2. new \in Table
  BY <1>1 DEF Table
<1>3. PICK line : line = Gone(id)
  OBVIOUS
<1>4. line \in Line /\ line.op # "reply" /\ Says(line) = None
  BY <1>3 DEF Gone, Line, Says
<1>5. (\A i \in Id : About(line, i) <=> i = id)
      /\ new = [tab EXCEPT ![id] = Says(line)]
  BY <1>1, <1>3, <1>4 DEF Gone, About
<1>6. News(<<line>>, tab, new)
  BY <1>2, <1>4, <1>5, OneLine
<1> QED BY <1>1, <1>2, <1>3, <1>6

(* A device that comes again in another form is taken away first. *)
LEMMA ReplaceNews ==
  ASSUME NEW tab \in Table, NEW dev \in Device, dev.id \in Id
  PROVE  News(<<Gone(dev.id)>> \o <<DevIs(dev)>>, tab,
              [tab EXCEPT ![dev.id] = dev])
<1>1. PICK mid : mid = [tab EXCEPT ![dev.id] = None]
  OBVIOUS
<1>2. mid \in Table /\ News(<<Gone(dev.id)>>, tab, mid)
  BY <1>1, GoneNews
<1>3. News(<<DevIs(dev)>>, mid, [mid EXCEPT ![dev.id] = dev])
  BY <1>2, DevNews
<1>4. [mid EXCEPT ![dev.id] = dev] = [tab EXCEPT ![dev.id] = dev]
  BY <1>1 DEF Table
<1>5. News(<<DevIs(dev)>>, mid, [tab EXCEPT ![dev.id] = dev])
  BY <1>3, <1>4
<1>6. PICK a, b, new : /\ a = <<Gone(dev.id)>> /\ b = <<DevIs(dev)>>
                       /\ new = [tab EXCEPT ![dev.id] = dev]
  OBVIOUS
<1>7. News(a, tab, mid) /\ News(b, mid, new)
  BY <1>2, <1>5, <1>6
<1>8. News(a \o b, tab, new)
  BY <1>7, NewsThen
<1> QED BY <1>6, <1>8

(* A handler that changes the table tells so, and the claims it clears are *)
(* those its clients lose.                                                 *)
LEMMA TableKeeps ==
  ASSUME IInv, NEW f \in Fds, Open(f), peer[f].cmd # None,
         NEW new \in Table, ById(new),
         NEW events, News(events, table, new), NEW ids,
         Sound(peer'), Answered(Taken(f), peer', f, events, ids, <<Ok>>),
         table' = new, UNCHANGED <<bus, uevent>>,
         claim' \in [Id -> {0} \cup Fds],
         \A i \in Id : i \notin ids => claim'[i] = claim[i]
  PROVE  IInv'
<1>1. Parts(bus, uevent, table, claim, peer)
  BY InParts
<1>2. PICK Q : Q = peer'
  OBVIOUS
<1>3. Sound(Q) /\ Answered(Taken(f), Q, f, events, ids, <<Ok>>)
  BY <1>2
<1>4. /\ Peers(Q, new)
      /\ \A g \in Fds : Q[g] # None =>
           peer[g] # None /\ Q[g].owns = peer[g].owns \ ids
  BY <1>3, EventsKeep
<1>5. Owners(Q, claim')
  <2>1. ASSUME NEW g \in Fds, Q[g] # None, NEW i \in Q[g].owns
        PROVE  claim'[i] = g
    <3>1. peer[g] # None /\ i \in peer[g].owns /\ i \notin ids
      BY <1>4, <2>1
    <3>2. peer[g] \in Peer
      BY <1>1, <3>1 DEF Parts, Sound
    <3>3. i \in Id /\ claim[i] = g
      BY <1>1, <3>1, <3>2, PeerFields DEF Parts, Owners
    <3> QED BY <3>1, <3>3
  <2> QED BY <2>1 DEF Owners
<1>6. Parts(bus', uevent', table', claim', peer')
  BY <1>1, <1>2, <1>3, <1>4, <1>5 DEF Parts
<1> QED BY <1>6, InPartsNext

LEMMA SimPlugKeeps ==
  ASSUME IInv, NEW f \in Fds, NEW id \in SimId, SimPlug(f, id)
  PROVE  IInv'
<1>1. Open(f) /\ peer[f].cmd # None
  BY DEF SimPlug, Takes
<1>2. Parts(bus, uevent, table, claim, peer)
  BY InParts
<1>3. PICK dev : dev = SimDev[id]
  OBVIOUS
<1>4. dev \in Device /\ dev.id = id /\ id \in Id /\ table \in Table
  BY <1>2, <1>3, DriverAssumption DEF Parts
<1>5. PICK new : new = [table EXCEPT ![id] = dev]
  OBVIOUS
<1>6. new \in Table /\ News(<<DevIs(dev)>>, table, new)
      /\ News(<<Gone(id)>> \o <<DevIs(dev)>>, table, new)
  BY <1>4, <1>5, DevNews, ReplaceNews
<1>7. PICK old : old = IF table[id] = None THEN <<>> ELSE <<Gone(id)>>
  OBVIOUS
<1>8. PICK events : events = old \o <<DevIs(dev)>>
  OBVIOUS
<1>9. News(events, table, new)
  <2>1. <<>> \o <<DevIs(dev)>> = <<DevIs(dev)>>
    OBVIOUS
  <2> QED BY <1>6, <1>7, <1>8, <2>1
<1>10. PICK ids, answer : ids = {id} /\ answer = <<Ok>>
  OBVIOUS
<1>11. /\ table' = new
       /\ claim' = [claim EXCEPT ![id] = 0]
       /\ peer' = Send(Lose(Broadcast(Taken(f), events), ids), f, answer)
       /\ UNCHANGED <<bus, uevent>>
  BY <1>3, <1>5, <1>7, <1>8, <1>10 DEF SimPlug
<1>12. ById(new)
  BY <1>2, <1>4, <1>5 DEF Parts, ById, Table
<1>13. claim' \in [Id -> {0} \cup Fds]
       /\ \A i \in Id : i \notin ids => claim'[i] = claim[i]
  BY <1>2, <1>10, <1>11 DEF Parts
<1>14. Sound(Taken(f))
  BY <1>1, <1>2, TakenReady DEF Parts, Ready
<1>15. events \in Seq(Line) /\ answer \in Seq(Line)
  <2>1. Reports(answer, new)
    BY <1>10, OkReports
  <2> QED BY <1>9, <2>1 DEF News, Reports
<1>16. Sound(peer') /\ Answered(Taken(f), peer', f, events, ids, answer)
  BY <1>11, <1>14, <1>15, EventsAnswer
<1>17. Answered(Taken(f), peer', f, events, ids, <<Ok>>)
  BY <1>10, <1>16
<1> QED BY <1>1, <1>6, <1>9, <1>11, <1>12, <1>13, <1>16, <1>17, TableKeeps

LEMMA StartSimKeeps ==
  ASSUME IInv, NEW f \in Fds, NEW id \in Id, StartSim(f, id)
  PROVE  IInv'
<1>1. Open(f) /\ peer[f].cmd # None
  BY DEF StartSim, Takes
<1>2. Parts(bus, uevent, table, claim, peer)
  BY InParts
<1>3. PICK dev : dev = [table[id] EXCEPT !.aoapPid = TRUE, !.adb = FALSE,
                                         !.accessory = TRUE]
  OBVIOUS
<1>4. dev \in Device /\ dev.id = id /\ table \in Table
  <2>1. table[id] \in Device /\ table[id].id = id /\ table \in Table
    BY <1>2 DEF StartSim, MayCtrl, Parts, ById, Table
  <2> QED BY <1>3, <2>1 DEF Device
<1>5. PICK new : new = [table EXCEPT ![id] = dev]
  OBVIOUS
<1>6. News(<<Gone(id)>> \o <<DevIs(dev)>>, table, new) /\ new \in Table
  BY <1>4, <1>5, ReplaceNews, DevNews
<1>7. PICK events, answer, ids :
        events = <<Gone(id), DevIs(dev)>> /\ answer = <<Ok>> /\ ids = {}
  OBVIOUS
<1>8. <<Gone(id), DevIs(dev)>> = <<Gone(id)>> \o <<DevIs(dev)>>
  OBVIOUS
<1>9. News(events, table, new)
  BY <1>6, <1>7, <1>8
<1>10. /\ table' = new
       /\ peer' = Send(Broadcast(Taken(f), events), f, answer)
       /\ UNCHANGED <<bus, uevent, claim>>
  BY <1>3, <1>5, <1>7 DEF StartSim
<1>11. ById(new)
  BY <1>2, <1>4, <1>5 DEF Parts, ById, Table
<1>12. claim' \in [Id -> {0} \cup Fds]
       /\ \A i \in Id : i \notin ids => claim'[i] = claim[i]
  BY <1>2, <1>10 DEF Parts
<1>13. Sound(Taken(f))
  BY <1>1, <1>2, TakenReady DEF Parts, Ready
<1>14. events \in Seq(Line) /\ answer \in Seq(Line)
  <2>1. Reports(answer, new)
    BY <1>7, OkReports
  <2> QED BY <1>9, <2>1 DEF News, Reports
<1>15. Sound(peer') /\ Answered(Taken(f), peer', f, events, ids, <<Ok>>)
  BY <1>7, <1>10, <1>13, <1>14, BroadcastAnswers
<1> QED BY <1>1, <1>6, <1>9, <1>10, <1>11, <1>12, <1>15, TableKeeps

-----------------------------------------------------------------------------
(* Lists of devices. *)

(* No more devices than ids, when each is under its own id. *)
LEMMA FewDevices ==
  ASSUME NEW S, \A dev \in S : dev.id \in Id,
         \A d, e \in S : d.id = e.id => d = e
  PROVE  IsFiniteSet(S) /\ Cardinality(S) <= Cardinality(Id)
<1> DEFINE idOf == [dev \in S |-> dev.id]
<1>1. idOf \in Injection(S, Id)
  BY DEF Injection, IsInjective
<1> HIDE DEF idOf
<1> QED BY <1>1, DumpFits, FS_Injection

(* Lines that are a list of the devices S. *)
Shows(lines, S) ==
  /\ lines \in Seq(Line)
  /\ Len(lines) = Cardinality(S)
  /\ \A i \in 1..Len(lines) : lines[i].op = "dev" /\ lines[i].dev \in S
  /\ \A dev \in S : \E i \in 1..Len(lines) : lines[i] = DevIs(dev)

LEMMA DevLinesShow ==
  ASSUME NEW S \in SUBSET Device, IsFiniteSet(S), NEW devs \in SetToSeqs(S)
  PROVE  Shows(DevLines(devs), S)
<1>1. /\ devs \in Seq(S) /\ Len(devs) = Cardinality(S)
      /\ \A x \in S : \E i \in 1..Len(devs) : devs[i] = x
  BY Listing
<1>2. PICK n \in Nat : n = Len(devs)
  BY <1>1
<1>3. \A i \in 1..n : devs[i] \in S
  BY <1>1, <1>2
<1>4. PICK lines : lines = DevLines(devs)
  OBVIOUS
<1>5. lines = [i \in 1..n |-> DevIs(devs[i])]
  BY <1>2, <1>4 DEF DevLines
<1>6. \A dev \in S : /\ DevIs(dev) \in Line /\ DevIs(dev).op = "dev"
                     /\ DevIs(dev).dev = dev
  BY DEF DevIs, Line
<1>7. lines \in Seq(Line) /\ Len(lines) = n
  BY <1>2, <1>3, <1>5, <1>6
<1>8. \A i \in 1..n : lines[i] = DevIs(devs[i])
  BY <1>5
<1> QED BY <1>1, <1>2, <1>3, <1>4, <1>6, <1>7, <1>8 DEF Shows

LEMMA ShowsBoth ==
  ASSUME NEW A, IsFiniteSet(A), NEW B, IsFiniteSet(B), A \cap B = {},
         NEW a, Shows(a, A), NEW b, Shows(b, B)
  PROVE  Shows(a \o b, A \cup B)
<1>1. a \in Seq(Line) /\ b \in Seq(Line)
  BY DEF Shows
<1>2. PICK l \in Nat, m \in Nat : l = Len(a) /\ m = Len(b)
  BY <1>1
<1>3. PICK c : c = a \o b
  OBVIOUS
<1>4. /\ c \in Seq(Line) /\ Len(c) = l + m
      /\ \A i \in 1..l : c[i] = a[i]
      /\ \A i \in 1..m : c[l + i] = b[i]
      /\ \A i \in l + 1..l + m : i - l \in 1..m /\ c[i] = b[i - l]
  BY <1>1, <1>2, <1>3
<1>5. Cardinality(A \cup B) = l + m
  <2>1. /\ Cardinality(A \cup B)
             = Cardinality(A) + Cardinality(B) - Cardinality(A \cap B)
        /\ Cardinality(A \cap B) = 0
    BY FS_Union, FS_EmptySet
  <2>2. Cardinality(A) = l /\ Cardinality(B) = m
    BY <1>2 DEF Shows
  <2>3. Cardinality(A \cup B) = l + m - 0
    BY <2>1, <2>2
  <2> QED BY <2>3
<1>6. \A i \in 1..l + m : i \in 1..l \/ i \in l + 1..l + m
  OBVIOUS
<1>7. \A i \in 1..l + m : c[i].op = "dev" /\ c[i].dev \in A \cup B
  BY <1>2, <1>4, <1>6, SMTT(30) DEF Shows
<1>8. \A i \in 1..l : i \in 1..l + m
  OBVIOUS
<1>9. \A i \in 1..m : l + i \in 1..l + m
  OBVIOUS
<1>10. \A dev \in A \cup B : \E i \in 1..l + m : c[i] = DevIs(dev)
  BY <1>2, <1>4, <1>8, <1>9 DEF Shows
<1> QED BY <1>3, <1>4, <1>5, <1>7, <1>10 DEF Shows

(* The two tables one after the other are the whole table, and fit. *)
Known(tab) == {tab[id] : id \in Id} \ {None}

LEMMA DumpShows ==
  ASSUME NEW tab \in Table, ById(tab),
         NEW real \in SetToSeqs({tab[id] : id \in RealId} \ {None}),
         NEW sim \in SetToSeqs({tab[id] : id \in SimId} \ {None})
  PROVE  /\ Shows(DevLines(real) \o DevLines(sim), Known(tab))
         /\ Cardinality(Known(tab)) <= Cardinality(Id)
         /\ \A dev \in Known(tab) : dev \in Device /\ tab[dev.id] = dev
<1>1. PICK A : A = {tab[id] : id \in RealId} \ {None}
  OBVIOUS
<1>2. PICK B : B = {tab[id] : id \in SimId} \ {None}
  OBVIOUS
<1>3. SimId \in SUBSET Id /\ Id = RealId \cup SimId /\ RealId \cap SimId = {}
  BY DriverAssumption DEF RealId
<1>4. \A dev \in A : /\ dev \in Device /\ dev.id \in RealId
                     /\ tab[dev.id] = dev
  BY <1>1, <1>3 DEF ById, Table
<1>5. \A dev \in B : /\ dev \in Device /\ dev.id \in SimId
                     /\ tab[dev.id] = dev
  BY <1>2, <1>3 DEF ById, Table
<1>6. A \cap B = {}
  BY <1>3, <1>4, <1>5
<1>7. Known(tab) = A \cup B
  BY <1>1, <1>2, <1>3 DEF Known
<1>8. IsFiniteSet(A) /\ IsFiniteSet(B)
      /\ Cardinality(A \cup B) <= Cardinality(Id)
  <2>1. A \in SUBSET (A \cup B) /\ B \in SUBSET (A \cup B)
    OBVIOUS
  <2>2. PICK S : S = A \cup B
    OBVIOUS
  <2>3. /\ \A dev \in S : dev.id \in Id
        /\ \A d, e \in S : d.id = e.id => d = e
    BY <1>3, <1>4, <1>5, <2>2
  <2>4. IsFiniteSet(S) /\ Cardinality(S) <= Cardinality(Id)
    BY <2>3, FewDevices
  <2> QED BY <2>1, <2>2, <2>4, FS_Subset
<1>9. A \in SUBSET Device /\ B \in SUBSET Device
  BY <1>4, <1>5
<1>10. Shows(DevLines(real), A)
  BY <1>1, <1>8, <1>9, DevLinesShow
<1>11. Shows(DevLines(sim), B)
  BY <1>2, <1>8, <1>9, DevLinesShow
<1>12. PICK a, b : a = DevLines(real) /\ b = DevLines(sim)
  OBVIOUS
<1>13. Shows(a \o b, A \cup B)
  BY <1>6, <1>8, <1>10, <1>11, <1>12, ShowsBoth
<1> QED BY <1>4, <1>5, <1>7, <1>8, <1>12, <1>13

(* The answer `answer` of `sub` and `list`, with n devices. *)
Dumps(answer, tab, n) ==
  /\ Reports(answer, tab)
  /\ n \in Nat /\ n <= Cardinality(Id) /\ Len(answer) = n + 1
  /\ \A i \in 1..n : answer[i].op = "dev"
  /\ answer[n + 1].op = "reply"
  /\ \A id \in Id : tab[id] # None => \E i \in 1..n : About(answer[i], id)

(* The answer to `sub` and `list`: all devices fit an empty buffer, and     *)
(* who knew nothing knows the table from them.                             *)
LEMMA DumpReports ==
  ASSUME NEW tab \in Table, ById(tab),
         NEW d, Shows(d, Known(tab)),
         Cardinality(Known(tab)) <= Cardinality(Id),
         \A dev \in Known(tab) : dev \in Device /\ tab[dev.id] = dev
  PROVE  Dumps(d \o <<Ok>>, tab, Len(d))
<1> PICK answer : answer = d \o <<Ok>>
  OBVIOUS
<1>1. PICK n \in Nat : n = Len(d)
  BY DEF Shows
<1>2. PICK ok : ok = Ok
  OBVIOUS
<1>3. ok \in Line /\ ok.op = "reply"
  BY <1>2 DEF Ok, Reply, Line
<1>4. d \in Seq(Line) /\ answer = d \o <<ok>>
  BY <1>2 DEF Shows
<1>5. /\ answer \in Seq(Line) /\ Len(answer) = n + 1
      /\ \A i \in 1..n : answer[i] = d[i]
      /\ answer[n + 1] = ok
  BY <1>1, <1>3, <1>4
<1>6. \A i \in 1..n + 1 : i \in 1..n \/ i = n + 1
  OBVIOUS
<1>7. \A i \in 1..n : answer[i].op = "dev" /\ answer[i].dev \in Known(tab)
  BY <1>1, <1>5 DEF Shows
<1>8. \A i \in 1..n + 1 : answer[i].op = "reply" => i = n + 1
  BY <1>6, <1>7
<1>9. ASSUME NEW id \in Id, NEW i \in 1..n + 1, About(answer[i], id)
      PROVE  Says(answer[i]) = tab[id]
  <2>1. i \in 1..n
    BY <1>3, <1>5, <1>6, <1>9 DEF About
  <2> QED BY <1>7, <1>9, <2>1 DEF About, Says
<1>10. ASSUME NEW id \in Id, tab[id] # None
       PROVE  \E i \in 1..n : About(answer[i], id)
  <2>1. tab[id] \in Known(tab) /\ tab[id].id = id
    BY <1>10 DEF Known, ById
  <2>2. PICK i \in 1..n : d[i] = DevIs(tab[id])
    BY <1>1, <2>1 DEF Shows
  <2>3. DevIs(tab[id]).op = "dev" /\ DevIs(tab[id]).dev.id = id
    BY <2>1 DEF DevIs
  <2> QED BY <1>5, <2>2, <2>3 DEF About
<1>11. n <= Cardinality(Id)
  BY <1>1 DEF Shows
<1>12. Reports(answer, tab)
  BY <1>5, <1>8, <1>9 DEF Reports
<1>13. Dumps(answer, tab, n)
  BY <1>3, <1>5, <1>7, <1>10, <1>11, <1>12 DEF Dumps
<1> QED BY <1>1, <1>13

LEMMA DumpAnswers ==
  ASSUME table \in Table, ById(table), NEW f, NEW P, Dump(f, P)
  PROVE  \E answer, n : Dumps(answer, table, n) /\ peer' = Send(P, f, answer)
<1>1. PICK real \in SetToSeqs({table[id] : id \in RealId} \ {None}),
           sim  \in SetToSeqs({table[id] : id \in SimId} \ {None}) :
        peer' = Send(P, f, DevLines(real) \o DevLines(sim) \o <<Ok>>)
  BY DEF Dump
<1>2. PICK d : d = DevLines(real) \o DevLines(sim)
  OBVIOUS
<1>3. PICK answer : answer = d \o <<Ok>>
  OBVIOUS
<1>4. PICK tab \in Table : tab = table /\ ById(tab)
  OBVIOUS
<1>5. Shows(d, Known(tab)) /\ Cardinality(Known(tab)) <= Cardinality(Id)
  BY <1>2, <1>4, DumpShows
<1>6. \A dev \in Known(tab) : dev \in Device /\ tab[dev.id] = dev
  BY <1>2, <1>4, DumpShows
<1>7. Dumps(d \o <<Ok>>, tab, Len(d))
  BY <1>4, <1>5, <1>6, DumpReports
<1>8. Dumps(answer, table, Len(d))
  BY <1>3, <1>4, <1>7
<1>9. peer' = Send(P, f, answer)
  BY <1>1, <1>2, <1>3
<1> QED BY <1>8, <1>9

LEMMA ListKeeps ==
  ASSUME IInv, NEW f \in Fds, List(f)
  PROVE  IInv'
<1>1. Open(f) /\ peer[f].cmd # None
  BY DEF List, Takes
<1>2. table \in Table /\ ById(table)
  BY InParts DEF Parts
<1>3. PICK P : P = Taken(f)
  OBVIOUS
<1>4. Dump(f, P) /\ UNCHANGED <<bus, uevent, table, claim>>
  BY <1>3 DEF List
<1>5. PICK answer, n : Dumps(answer, table, n) /\ peer' = Send(P, f, answer)
  BY <1>2, <1>4, DumpAnswers
<1>6. Reports(answer, table)
  BY <1>5 DEF Dumps
<1> QED BY <1>1, <1>3, <1>4, <1>5, <1>6, AnswerKeeps

(* A connection to which nothing was sent. *)
LEMMA SamePeer ==
  ASSUME NEW p \in Peer, NEW q, Carries(q, p, <<>>), NEW tab, PeerInv(p, tab)
  PROVE  PeerInv(q, tab)
<1>1. p.out \o <<>> = p.out
  BY PeerFields
<1>2. /\ q.sub = p.sub /\ q.cmd = p.cmd /\ q.hup = p.hup
      /\ q.waits = p.waits /\ q.view = p.view /\ q.out = p.out
  BY <1>1 DEF Carries
<1> QED BY <1>2 DEF PeerInv, Answers, Waiting, Quiet, ToldTable

(* A new subscriber finds the devices, if perhaps not the reply. *)
LEMMA NewSubscriber ==
  ASSUME NEW p \in Peer, p.sub, p.cmd = None, p.view = NoDevices, p.out = <<>>,
         ~p.hup => p.waits,
         NEW tab, NEW answer, NEW n, Dumps(answer, tab, n),
         NEW part \in Seq(Line), Arrives(p, answer, part),
         NEW q, Carries(q, p, part)
  PROVE  PeerInv(q, tab)
<1>1. /\ q.sub /\ q.cmd = None /\ q.hup = p.hup /\ q.waits = p.waits
      /\ q.view = NoDevices
      /\ p.hup => part = <<>>
  BY DEF Carries
<1>2. q.out = part
  <2>1. <<>> \o part = part
    OBVIOUS
  <2> QED BY <2>1 DEF Carries
<1>3. PICK k \in Nat : k = Len(part)
  OBVIOUS
<1>4. Reports(part, tab)
  BY PartReports DEF Dumps, Arrives
<1>5. Answers(q)
  <2>1. ASSUME NEW i \in 1..k PROVE q.waits
    BY <1>1, <1>3, <2>1
  <2> QED BY <1>1, <1>2, <1>3, <1>4, <2>1 DEF Answers, Reports
<1>6. Waiting(q) /\ Quiet(q)
  BY <1>1, <1>2 DEF Waiting, Quiet
<1>7. ToldTable(q, tab)
  <2> SUFFICES ASSUME ~p.hup PROVE Tells(part, NoDevices, tab)
    BY <1>1, <1>2 DEF ToldTable
  <2>1. n <= k /\ n \in Nat
    <3>1. CASE part = answer
      BY <1>3, <3>1 DEF Dumps
    <3>2. CASE Len(p.out \o part) = Cap
      <4>1. <<>> \o part = part
        OBVIOUS
      <4>2. Cardinality(Id) \in Nat /\ Cap \in Nat
        BY DumpFits, DriverAssumption, FS_CardinalityType
      <4> QED BY <1>3, <3>2, <4>1, <4>2, DumpFits DEF Dumps
    <3> QED BY <3>1, <3>2 DEF Arrives
  <2>2. \A i \in 1..k : part[i] = answer[i]
    BY <1>3 DEF Arrives, Begins
  <2>3. \A i \in 1..n : i \in 1..k
    BY <2>1
  <2>4. \A id \in Id : NoDevices[id] # tab[id] =>
          \E i \in 1..k : About(part[i], id)
    BY <2>2, <2>3 DEF Dumps, NoDevices
  <2> QED BY <1>3, <1>4, <2>4, TellsAll DEF Reports
<1> QED BY <1>5, <1>6, <1>7 DEF PeerInv

Subscribing(f, v) == [Taken(f) EXCEPT ![f].sub = TRUE, ![f].view = v]

Subscribed(P, f, v) ==
  /\ Sound(P)
  /\ \A g \in Fds : g # f => P[g] = peer[g]
  /\ P[f] # None /\ P[f].sub = TRUE /\ P[f].cmd = None
  /\ P[f].out = peer[f].out /\ P[f].hup = peer[f].hup
  /\ P[f].waits = peer[f].waits /\ P[f].view = v
  /\ P[f].owns = peer[f].owns

LEMMA SubscribingSound ==
  ASSUME Sound(peer), NEW f \in Fds, Open(f), NEW v \in Table,
         NEW P, P = Subscribing(f, v)
  PROVE  Subscribed(P, f, v)
<1>1. Ready(Taken(f), f) /\ Taken(f)[f].owns = peer[f].owns
  BY TakenReady
<1>2. PICK T : T = Taken(f)
  OBVIOUS
<1>3. PICK p \in Peer : p = T[f]
  BY <1>1, <1>2 DEF Ready, Sound
<1>4. PICK q : q = [p EXCEPT !.sub = TRUE, !.view = v]
  OBVIOUS
<1>5. /\ q \in Peer /\ q.out = p.out /\ q.sub = TRUE /\ q.cmd = p.cmd
      /\ q.hup = p.hup /\ q.waits = p.waits /\ q.view = v
      /\ q.owns = p.owns /\ q # None
  <2>1. /\ q \in Peer /\ q.out = p.out /\ q.sub = TRUE /\ q.cmd = p.cmd
        /\ q.hup = p.hup /\ q.waits = p.waits /\ q.view = v
        /\ q.owns = p.owns
    BY <1>4 DEF Peer
  <2> QED BY <2>1, PeerFields
<1>6. P = [T EXCEPT ![f] = q]
  BY <1>1, <1>2, <1>3, <1>4 DEF Subscribing, Ready, Sound
<1>7. /\ P \in [Fds -> Peer \cup {None}] /\ P[f] = q
      /\ \A g \in Fds : g # f => P[g] = T[g]
  BY <1>1, <1>2, <1>5, <1>6 DEF Ready, Sound
<1>8. Sound(P)
  BY <1>1, <1>2, <1>3, <1>5, <1>7 DEF Sound, Ready
<1> QED BY <1>1, <1>2, <1>3, <1>5, <1>7, <1>8 DEF Ready, Subscribed

LEMMA SubscribeKeeps ==
  ASSUME IInv, NEW f \in Fds, Subscribe(f)
  PROVE  IInv'
<1>1. Open(f) /\ peer[f].cmd # None
  BY DEF Subscribe, Takes
<1>2. Parts(bus, uevent, table, claim, peer)
  BY InParts
<1>3. table \in Table /\ ById(table) /\ Sound(peer) /\ Peers(peer, table)
  BY <1>2 DEF Parts
<1>4. PICK p \in Peer : p = peer[f]
  BY <1>1, <1>3 DEF Sound, Open
<1>5. /\ p.sub \in BOOLEAN /\ p.view \in Table /\ PeerInv(p, table)
  BY <1>1, <1>3, <1>4, PeerFields DEF Peers, Open
<1>6. PICK v \in Table : v = IF p.sub THEN p.view ELSE NoDevices
  <2>1. NoDevices \in Table
    BY DEF NoDevices, Table
  <2>2. (IF p.sub THEN p.view ELSE NoDevices) \in Table
    BY <1>5, <2>1
  <2> QED BY <2>2
<1>7. PICK P : P = Subscribing(f, v)
  OBVIOUS
<1>8. /\ Sound(P)
      /\ \A g \in Fds : g # f => P[g] = peer[g]
      /\ P[f] # None /\ P[f].sub = TRUE /\ P[f].cmd = None
      /\ P[f].out = peer[f].out /\ P[f].hup = peer[f].hup
      /\ P[f].waits = peer[f].waits /\ P[f].view = v
      /\ P[f].owns = peer[f].owns
  <2>1. Subscribed(P, f, v)
    BY <1>1, <1>3, <1>7, SubscribingSound
  <2> QED BY <2>1 DEF Subscribed
<1>9. Dump(f, P) /\ UNCHANGED <<bus, uevent, table, claim>>
  <2>1. PICK T : T = Taken(f)
    OBVIOUS
  <2>2. T \in [Fds -> Peer \cup {None}] /\ T[f] \in Peer
        /\ T[f].view = peer[f].view
    BY <1>1, <1>3, <2>1, TakenReady DEF Ready, Sound
  <2>3. P = [T EXCEPT ![f].sub = TRUE,
                      ![f].view = IF peer[f].sub THEN @ ELSE NoDevices]
    BY <1>4, <1>6, <1>7, <2>1, <2>2 DEF Subscribing, Peer
  <2> QED BY <2>1, <2>3 DEF Subscribe
<1>10. PICK answer, n : Dumps(answer, table, n) /\ peer' = Send(P, f, answer)
  BY <1>3, <1>9, DumpAnswers
<1>11. PICK Q : Q = peer'
  OBVIOUS
<1>12. /\ Sound(Q) /\ Peers(Q, table)
       /\ \A g \in Fds : Q[g] # None =>
            peer[g] # None /\ Q[g].owns = peer[g].owns
  <2>1. Reports(answer, table)
    BY <1>10 DEF Dumps
  <2>2. CASE p.sub
    <3>1. Ready(P, f)
      BY <1>4, <1>6, <1>8, <2>2 DEF Ready
    <3>2. Q = Send(P, f, answer)
      BY <1>10, <1>11
    <3>3. /\ Sound(Q) /\ Peers(Q, table)
          /\ \A g \in Fds : Q[g] # None =>
               peer[g] # None /\ Q[g].owns = P[g].owns
      BY <1>1, <2>1, <3>1, <3>2, PlainKeeps
    <3> QED BY <1>8, <3>3
  <2>3. CASE ~p.sub
    <3>1. answer \in Seq(Line)
      BY <2>1 DEF Reports
    <3>2. Sound(Q) /\ Sent(P, Q, f, answer)
      BY <1>8, <1>10, <1>11, <3>1, SendStep
    <3>3. ASSUME NEW g \in Fds, Q[g] # None
          PROVE  peer[g] # None /\ Q[g].owns = peer[g].owns
      BY <1>1, <1>8, <3>2, <3>3 DEF Sent, Open
    <3>4. ASSUME NEW g \in Fds, Q[g] # None, g # f
          PROVE  PeerInv(Q[g], table)
      <4>1. PICK r \in Peer : r = peer[g]
        BY <1>3, <3>3, <3>4 DEF Sound
      <4>2. PeerInv(r, table)
        BY <1>3, <3>3, <3>4, <4>1 DEF Peers
      <4>3. Carries(Q[g], r, <<>>)
        BY <1>8, <3>2, <3>4, <4>1 DEF Sent
      <4> QED BY <4>2, <4>3, SamePeer
    <3>5. ASSUME Q[f] # None PROVE PeerInv(Q[f], table)
      <4>1. PICK r \in Peer : r = P[f]
        BY <1>8 DEF Sound
      <4>2. PICK part \in Seq(Line) : Arrives(r, answer, part)
                                      /\ Carries(Q[f], r, part)
        BY <3>2, <3>5, <4>1 DEF Sent
      <4>3. r.sub /\ r.cmd = None /\ r.view = NoDevices /\ r.out = p.out
            /\ r.hup = p.hup /\ r.waits = p.waits
        BY <1>4, <1>6, <1>8, <2>3, <4>1
      <4>4. p.out = <<>> /\ (~p.hup => p.waits)
        BY <1>1, <1>4, <1>5, <2>3 DEF PeerInv, Quiet, Waiting
      <4>5. r.out = <<>> /\ (~r.hup => r.waits)
        BY <4>3, <4>4
      <4> QED BY <1>10, <4>2, <4>3, <4>5, NewSubscriber
    <3> QED BY <3>2, <3>3, <3>4, <3>5 DEF Peers
  <2> QED BY <1>5, <2>2, <2>3
<1>13. Owners(Q, claim)
  BY <1>2, <1>12 DEF Parts, Owners
<1>14. Parts(bus', uevent', table', claim', peer')
  BY <1>2, <1>9, <1>11, <1>12, <1>13 DEF Parts
<1> QED BY <1>14, InPartsNext

-----------------------------------------------------------------------------
(* What disappeared, and what a scan found. *)
LEMMA LostNews ==
  ASSUME NEW tab \in Table,
         NEW lost \in SUBSET Id, NEW gone \in SetToSeqs(lost),
         NEW new, new = [id \in Id |-> IF id \in lost THEN None ELSE tab[id]]
  PROVE  /\ new \in Table /\ News(GoneLines(gone), tab, new)
         /\ Len(GoneLines(gone)) <= Cardinality(Id)
<1>1. IsFiniteSet(lost) /\ Cardinality(lost) <= Cardinality(Id)
  BY DumpFits, FS_Subset
<1>2. /\ gone \in Seq(lost) /\ Len(gone) = Cardinality(lost)
      /\ \A x \in lost : \E i \in 1..Len(gone) : gone[i] = x
  BY <1>1, Listing
<1>3. PICK n \in Nat : n = Len(gone)
  BY <1>2
<1>4. \A i \in 1..n : gone[i] \in lost
  BY <1>2, <1>3
<1>5. PICK lines : lines = GoneLines(gone)
  OBVIOUS
<1>6. lines = [i \in 1..n |-> Gone(gone[i])]
  BY <1>3, <1>5 DEF GoneLines
<1>7. \A id \in Id : /\ Gone(id) \in Line /\ Gone(id).op = "gone"
                     /\ Gone(id).id = id
  BY DEF Gone, Line
<1>8. lines \in Seq(Line) /\ Len(lines) = n
  BY <1>3, <1>4, <1>6, <1>7
<1>9. \A i \in 1..n : lines[i].op = "gone" /\ lines[i].id = gone[i]
  BY <1>4, <1>6, <1>7
<1>10. new \in Table
  BY DEF Table
<1>11. \A id \in Id : \A i \in 1..n :
         About(lines[i], id) => Says(lines[i]) = new[id]
  BY <1>4, <1>9 DEF About, Says
<1>12. \A id \in Id : tab[id] # new[id] =>
         \E i \in 1..n : About(lines[i], id)
  BY <1>2, <1>3, <1>9 DEF About
<1>13. Tells(lines, tab, new)
  BY <1>8, <1>11, <1>12, TellsAll
<1>14. n <= Cardinality(Id)
  BY <1>1, <1>2, <1>3
<1> QED BY <1>5, <1>8, <1>9, <1>10, <1>13, <1>14 DEF News

(* The list of some devices tells what is new, when it lists all changes.  *)
LEMMA SeenNews ==
  ASSUME NEW tab, NEW new \in Table, NEW S \in SUBSET Device,
         \A dev \in S : dev.id \in Id /\ new[dev.id] = dev,
         \A id \in Id : tab[id] # new[id] =>
           \E dev \in S : dev.id = id,
         NEW devs \in SetToSeqs(S)
  PROVE  /\ News(DevLines(devs), tab, new)
         /\ Len(DevLines(devs)) <= Cardinality(Id)
<1>1. IsFiniteSet(S) /\ Cardinality(S) <= Cardinality(Id)
  <2>1. /\ \A dev \in S : dev.id \in Id
        /\ \A d, e \in S : d.id = e.id => d = e
    OBVIOUS
  <2> QED BY <2>1, FewDevices
<1>2. PICK lines : lines = DevLines(devs)
  OBVIOUS
<1>3. Shows(lines, S)
  BY <1>1, <1>2, DevLinesShow
<1>4. PICK n \in Nat : n = Len(lines)
  BY <1>3 DEF Shows
<1>5. /\ lines \in Seq(Line)
      /\ \A i \in 1..n : lines[i].op = "dev" /\ lines[i].dev \in S
      /\ \A dev \in S : \E i \in 1..n : lines[i] = DevIs(dev)
  BY <1>3, <1>4 DEF Shows
<1>6. \A id \in Id : \A i \in 1..n :
        About(lines[i], id) => Says(lines[i]) = new[id]
  BY <1>5 DEF About, Says
<1>7. \A dev \in S : DevIs(dev).op = "dev" /\ DevIs(dev).dev = dev
  BY DEF DevIs
<1>8. \A id \in Id : tab[id] # new[id] =>
        \E i \in 1..n : About(lines[i], id)
  BY <1>5, <1>7 DEF About
<1>9. Tells(lines, tab, new)
  BY <1>4, <1>5, <1>6, <1>8, TellsAll
<1>10. n <= Cardinality(Id)
  BY <1>1, <1>3, <1>4 DEF Shows
<1> QED BY <1>2, <1>4, <1>5, <1>9, <1>10 DEF News

LEMMA SimUnplugKeeps ==
  ASSUME IInv, NEW f \in Fds, SimUnplug(f)
  PROVE  IInv'
<1>1. Open(f) /\ peer[f].cmd # None
  BY DEF SimUnplug, Takes
<1>2. Parts(bus, uevent, table, claim, peer)
  BY InParts
<1>3. PICK lost \in SUBSET Id :
        /\ table' = [id \in Id |-> IF id \in lost THEN None ELSE table[id]]
        /\ claim' = [id \in Id |-> IF id \in lost THEN 0 ELSE claim[id]]
        /\ \E gone \in SetToSeqs(lost) :
             peer' = Send(Lose(Broadcast(Taken(f), GoneLines(gone)), lost),
                          f, <<Ok>>)
        /\ UNCHANGED <<bus, uevent>>
  <2> DEFINE ids  == IF peer[f].cmd.op = "clear" THEN SimId
                     ELSE {peer[f].cmd.id} \cap SimId
             lost == {id \in ids : table[id] # None}
  <2>1. ids \in SUBSET Id /\ lost \in SUBSET Id
    BY DriverAssumption
  <2> QED BY <2>1 DEF SimUnplug
<1>4. PICK gone \in SetToSeqs(lost) :
        peer' = Send(Lose(Broadcast(Taken(f), GoneLines(gone)), lost),
                     f, <<Ok>>)
  BY <1>3
<1>5. PICK events, answer, new :
        events = GoneLines(gone) /\ answer = <<Ok>> /\ new = table'
  OBVIOUS
<1>6. table \in Table
  BY <1>2 DEF Parts
<1>7. new \in Table /\ News(events, table, new)
  BY <1>3, <1>5, <1>6, LostNews
<1>8. ById(new)
  BY <1>2, <1>3, <1>5 DEF Parts, ById, Table
<1>9. claim' \in [Id -> {0} \cup Fds]
      /\ \A i \in Id : i \notin lost => claim'[i] = claim[i]
  BY <1>2, <1>3 DEF Parts
<1>10. Sound(Taken(f))
  BY <1>1, <1>2, TakenReady DEF Parts, Ready
<1>11. events \in Seq(Line) /\ answer \in Seq(Line)
  <2>1. Reports(answer, new)
    BY <1>5, OkReports
  <2> QED BY <1>7, <2>1 DEF News, Reports
<1>12. peer' = Send(Lose(Broadcast(Taken(f), events), lost), f, answer)
  BY <1>4, <1>5
<1>13. Sound(peer') /\ Answered(Taken(f), peer', f, events, lost, answer)
  BY <1>10, <1>11, <1>12, EventsAnswer
<1>14. Answered(Taken(f), peer', f, events, lost, <<Ok>>)
  BY <1>5, <1>13
<1> QED BY <1>1, <1>3, <1>5, <1>7, <1>8, <1>9, <1>13, <1>14, TableKeeps

(* Events without a command. *)
LEMMA BroadcastKeeps ==
  ASSUME IInv, NEW new, NEW events, News(events, table, new), NEW ids,
         NEW P, P = Broadcast(peer, events), NEW Q, Q = Lose(P, ids)
  PROVE  /\ Sound(Q) /\ Peers(Q, new)
         /\ \A g \in Fds : Q[g] # None =>
              peer[g] # None /\ Q[g].owns = peer[g].owns \ ids
<1>1. Sound(peer) /\ Peers(peer, table)
  BY InParts DEF Parts
<1>2. events \in Seq(Line)
  BY DEF News
<1>4. Sound(P) /\ Broadcasted(peer, P, events)
  BY <1>1, <1>2, BroadcastStep
<1>5. Sound(Q) /\ Lost(P, Q, ids)
  BY <1>4, LoseStep
<1>6. ASSUME NEW g \in Fds, Q[g] # None
      PROVE  /\ PeerInv(Q[g], new)
             /\ peer[g] # None /\ Q[g].owns = peer[g].owns \ ids
  <2>1. /\ P[g] # None /\ Carries(Q[g], P[g], <<>>)
        /\ Q[g].owns = P[g].owns \ ids
    BY <1>5, <1>6 DEF Lost
  <2>2. peer[g] # None /\ P[g].owns = peer[g].owns
    BY <1>4, <2>1 DEF Broadcasted
  <2>3. PICK p \in Peer : p = peer[g]
    BY <1>1, <2>2 DEF Sound
  <2> PICK q : q = Q[g]
    OBVIOUS
  <2>4. PICK ev \in Seq(Line) : ev = IF p.sub THEN events ELSE <<>>
    <3>1. (IF p.sub THEN events ELSE <<>>) \in Seq(Line)
      BY <1>2
    <3> QED BY <3>1
  <2>5. Carries(P[g], p, ev)
    BY <1>4, <2>1, <2>3, <2>4 DEF Broadcasted
  <2>6. PICK none : none = <<>>
    OBVIOUS
  <2>7. q.out = (p.out \o ev) \o none
    BY <2>1, <2>3, <2>5, <2>6 DEF Carries
  <2>8. /\ q \in Peer
        /\ q.sub = p.sub /\ q.hup = p.hup /\ q.waits = p.waits
        /\ q.view = p.view /\ q.cmd = p.cmd
        /\ p.hup => ev = <<>>
    BY <2>1, <2>3, <2>5 DEF Carries
  <2>9. q.out = (p.out \o (IF p.sub THEN events ELSE <<>>))
                  \o (IF FALSE THEN none ELSE <<>>)
    BY <2>4, <2>6, <2>7
  <2>10. Follows(q, p, FALSE, events, none)
    BY <2>4, <2>8, <2>9 DEF Follows
  <2>11. Reports(none, new)
    <3>1. none \in Seq(Line) /\ Len(none) = 0
      BY <2>6
    <3> QED BY <3>1 DEF Reports
  <2>12. PeerInv(p, table)
    BY <1>1, <2>2, <2>3 DEF Peers
  <2>13. PeerInv(q, new)
    BY <2>10, <2>11, <2>12, FollowsKeeps
  <2> QED BY <2>1, <2>2, <2>3, <2>13
<1> QED BY <1>5, <1>6 DEF Peers

(* A scan: the events tell the new table, and are not more than two for    *)
(* every device.                                                           *)
Scanned(lost, events) ==
  /\ lost \in SUBSET Id
  /\ News(events, table, table')
  /\ Len(events) <= 2 * Cardinality(Id)
  /\ peer' = Lose(Broadcast(peer, events), lost)
  /\ claim' = [id \in Id |-> IF id \in lost THEN 0 ELSE claim[id]]

LEMMA RefreshTells ==
  ASSUME IInv, Refresh
  PROVE  /\ table' \in Table /\ ById(table')
         /\ uevent' = FALSE /\ UNCHANGED bus
         /\ \E lost, events : Scanned(lost, events)
<1>1. Parts(bus, uevent, table, claim, peer)
  BY InParts
<1>2. PICK tab : tab = table
  OBVIOUS
<1>3. tab \in Table /\ ById(tab) /\ bus \in Table /\ ById(bus)
  BY <1>1, <1>2 DEF Parts
<1>4. PICK lost : lost = {id \in RealId : tab[id] # None /\ Scan[id] = None}
  OBVIOUS
<1>5. PICK news : news = {Scan[id] : id \in {i \in RealId :
                                            Scan[i] \notin {None, tab[i]}}}
  OBVIOUS
<1>6. /\ uevent' = FALSE /\ UNCHANGED bus
      /\ table' = [id \in Id |-> IF id \in RealId THEN Scan[id] ELSE tab[id]]
      /\ claim' = [id \in Id |-> IF id \in lost THEN 0 ELSE claim[id]]
      /\ \E gone \in SetToSeqs(lost), devs \in SetToSeqs(news) :
           peer' = Lose(Broadcast(peer, GoneLines(gone) \o DevLines(devs)), lost)
  BY <1>2, <1>4, <1>5 DEF Refresh
<1>7. PICK gone \in SetToSeqs(lost), devs \in SetToSeqs(news) :
        peer' = Lose(Broadcast(peer, GoneLines(gone) \o DevLines(devs)), lost)
  BY <1>6
<1>8. RealId \in SUBSET Id /\ \A id \in RealId : Scan[id] = bus[id]
  BY DEF RealId, Scan
<1>9. PICK new : new = table'
  OBVIOUS
<1>10. new = [id \in Id |-> IF id \in RealId THEN bus[id] ELSE tab[id]]
  BY <1>6, <1>8, <1>9
<1>11. new \in Table /\ ById(new)
  BY <1>3, <1>10 DEF Table, ById
<1>12. lost \in SUBSET Id
  BY <1>4, <1>8
<1>13. PICK mid : mid = [id \in Id |-> IF id \in lost THEN None ELSE tab[id]]
  OBVIOUS
<1>14. mid \in Table /\ News(GoneLines(gone), tab, mid)
       /\ Len(GoneLines(gone)) <= Cardinality(Id)
  BY <1>3, <1>12, <1>13, LostNews
<1>15. /\ News(DevLines(devs), mid, new)
       /\ Len(DevLines(devs)) <= Cardinality(Id)
  <2>1. \A dev \in news : /\ dev \in Device /\ dev.id \in Id
                          /\ new[dev.id] = dev
    <3> SUFFICES ASSUME NEW id \in RealId, bus[id] # None
                 PROVE  /\ bus[id] \in Device /\ bus[id].id \in Id
                        /\ new[bus[id].id] = bus[id]
      BY <1>5, <1>8
    <3>1. bus[id] \in Device /\ bus[id].id = id
      BY <1>3, <1>8 DEF ById, Table
    <3> QED BY <1>8, <1>10, <3>1
  <2>2. ASSUME NEW id \in Id, mid[id] # new[id]
        PROVE  \E dev \in news : dev.id = id
    <3>1. id \in RealId
      BY <1>4, <1>10, <1>13, <2>2
    <3>2. bus[id] # None /\ bus[id] # tab[id]
      BY <1>4, <1>8, <1>10, <1>13, <2>2, <3>1
    <3>3. Scan[id] = bus[id] /\ Scan[id] \in news
      BY <1>5, <1>8, <3>1, <3>2
    <3>4. bus[id].id = id
      BY <1>3, <3>2 DEF ById
    <3> QED BY <3>3, <3>4
  <2>3. news \in SUBSET Device
    BY <2>1
  <2> QED BY <1>11, <2>1, <2>2, <2>3, SeenNews
<1>16. PICK a, b, events : /\ a = GoneLines(gone) /\ b = DevLines(devs)
                           /\ events = a \o b
  OBVIOUS
<1>17. /\ News(a, tab, mid) /\ News(b, mid, new)
       /\ Len(a) <= Cardinality(Id) /\ Len(b) <= Cardinality(Id)
  BY <1>14, <1>15, <1>16
<1>18. News(events, table, new)
  BY <1>2, <1>16, <1>17, NewsThen
<1>19. Len(events) <= 2 * Cardinality(Id)
  <2>1. a \in Seq(Line) /\ b \in Seq(Line) /\ Cardinality(Id) \in Nat
    BY <1>17, DumpFits, FS_CardinalityType DEF News
  <2>2. Len(a \o b) = Len(a) + Len(b)
    BY <2>1
  <2> QED BY <1>16, <1>17, <2>1, <2>2
<1>20. peer' = Lose(Broadcast(peer, events), lost)
  BY <1>7, <1>16
<1>21. Scanned(lost, events)
  BY <1>6, <1>9, <1>12, <1>18, <1>19, <1>20 DEF Scanned
<1> QED BY <1>6, <1>9, <1>11, <1>21

LEMMA RefreshKeeps ==
  ASSUME IInv, Refresh
  PROVE  IInv'
<1>1. Parts(bus, uevent, table, claim, peer)
  BY InParts
<1>2. PICK new \in Table : new = table' /\ ById(new)
  BY RefreshTells
<1>3. uevent' = FALSE /\ UNCHANGED bus
  BY RefreshTells
<1>4. PICK lost, events : Scanned(lost, events)
  BY RefreshTells
<1>5. PICK P, Q : P = Broadcast(peer, events) /\ Q = Lose(P, lost)
  OBVIOUS
<1>6. /\ lost \in SUBSET Id /\ News(events, table, new)
      /\ claim' = [id \in Id |-> IF id \in lost THEN 0 ELSE claim[id]]
      /\ peer' = Q
  BY <1>2, <1>4, <1>5 DEF Scanned
<1>7. /\ Sound(Q) /\ Peers(Q, new)
      /\ \A g \in Fds : Q[g] # None =>
           peer[g] # None /\ Q[g].owns = peer[g].owns \ lost
  BY <1>5, <1>6, BroadcastKeeps
<1>8. claim' \in [Id -> {0} \cup Fds]
      /\ \A i \in Id : i \notin lost => claim'[i] = claim[i]
  BY <1>1, <1>6 DEF Parts
<1>9. ASSUME NEW g \in Fds, Q[g] # None, NEW i \in Q[g].owns
      PROVE  claim'[i] = g
  <2>1. peer[g] # None /\ i \in peer[g].owns /\ i \notin lost
    BY <1>7, <1>9
  <2>2. peer[g] \in Peer
    BY <1>1, <2>1 DEF Parts, Sound
  <2>3. i \in Id /\ claim[i] = g
    BY <1>1, <2>1, <2>2, PeerFields DEF Parts, Owners
  <2> QED BY <1>8, <2>1, <2>3
<1>10. Parts(bus', uevent', table', claim', peer')
  BY <1>1, <1>2, <1>3, <1>6, <1>7, <1>8, <1>9 DEF Parts, Owners
<1> QED BY <1>10, InPartsNext

-----------------------------------------------------------------------------
(* The remaining steps change one connection, or none. *)
LEMMA OnePeer ==
  ASSUME IInv, NEW f \in Fds,
         NEW q, q = None \/ /\ q \in Peer /\ Len(q.out) <= Cap
                            /\ PeerInv(q, table)
                            /\ \A id \in q.owns : claim'[id] = f,
         peer' = [peer EXCEPT ![f] = q],
         claim' \in [Id -> {0} \cup Fds],
         \A id \in Id : claim[id] # f => claim'[id] = claim[id],
         UNCHANGED <<bus, uevent, table>>
  PROVE  IInv'
<1>1. Parts(bus, uevent, table, claim, peer)
  BY InParts
<1>2. PICK Q : Q = peer'
  OBVIOUS
<1>3. /\ Q \in [Fds -> Peer \cup {None}] /\ Q[f] = q
      /\ \A g \in Fds : g # f => Q[g] = peer[g]
  BY <1>1, <1>2 DEF Parts, Sound
<1>4. Sound(Q)
  BY <1>1, <1>3 DEF Parts, Sound
<1>5. Peers(Q, table)
  BY <1>1, <1>3 DEF Parts, Peers
<1>6. ASSUME NEW g \in Fds, Q[g] # None, NEW id \in Q[g].owns
      PROVE  claim'[id] = g
  <2>1. CASE g = f
    BY <1>3, <1>6, <2>1
  <2>2. CASE g # f
    <3>1. Q[g] = peer[g] /\ peer[g] \in Peer
      BY <1>1, <1>3, <1>6, <2>2 DEF Parts, Sound
    <3>2. id \in Id /\ claim[id] = g
      BY <1>1, <1>6, <3>1, PeerFields DEF Parts, Owners
    <3> QED BY <2>2, <3>2
  <2> QED BY <2>1, <2>2
<1>7. Parts(bus', uevent', table', claim', peer')
  BY <1>1, <1>2, <1>4, <1>5, <1>6 DEF Parts, Owners
<1> QED BY <1>7, InPartsNext

LEMMA AcceptKeeps ==
  ASSUME IInv, Accept
  PROVE  IInv'
<1>1. Parts(bus, uevent, table, claim, peer)
  BY InParts
<1>2. PICK free : free = {f \in Fds : ~Open(f)}
  OBVIOUS
<1>3. /\ free # {} /\ peer' = [peer EXCEPT ![Min(free)] = NewPeer]
      /\ UNCHANGED <<bus, uevent, table, claim>>
  BY <1>2 DEF Accept
<1>4. free \in SUBSET Nat
  BY <1>2, DriverAssumption DEF Fds
<1>5. PICK f \in Fds : f = Min(free)
  BY <1>2, <1>3, <1>4, MinIs
<1>6. PICK q : q = NewPeer
  OBVIOUS
<1>7. /\ q \in Peer /\ q.out = <<>> /\ q.owns = {} /\ q.cmd = None
      /\ q.sub = FALSE /\ q.hup = FALSE /\ q.waits = FALSE
  BY <1>6 DEF NewPeer, Peer, NoDevices, Table
<1>8. Len(q.out) <= Cap
  <2>1. Len(<<>>) = 0
    OBVIOUS
  <2> QED BY <1>7, <2>1, DriverAssumption
<1>9. PeerInv(q, table)
  <2>1. Len(<<>>) = 0
    OBVIOUS
  <2> QED BY <1>7, <2>1 DEF PeerInv, Answers, Waiting, Quiet, ToldTable
<1>10. claim' \in [Id -> {0} \cup Fds]
  BY <1>1, <1>3 DEF Parts
<1>11. peer' = [peer EXCEPT ![f] = q]
  BY <1>3, <1>5, <1>6
<1> QED BY <1>3, <1>7, <1>8, <1>9, <1>10, <1>11, OnePeer

LEMMA EndOfFileKeeps ==
  ASSUME IInv, NEW f \in Fds, EndOfFile(f)
  PROVE  IInv'
<1>1. claim \in [Id -> {0} \cup Fds]
  BY InParts DEF Parts
<1>2. /\ claim' \in [Id -> {0} \cup Fds]
      /\ \A id \in Id : claim[id] # f => claim'[id] = claim[id]
  BY <1>1 DEF EndOfFile, DropClaims
<1>3. PICK q : q = None
  OBVIOUS
<1>4. peer' = [peer EXCEPT ![f] = q] /\ UNCHANGED <<bus, uevent, table>>
  BY <1>3 DEF EndOfFile
<1> QED BY <1>2, <1>3, <1>4, OnePeer

LEMMA KernelKeeps ==
  ASSUME IInv, Kernel
  PROVE  IInv'
<1>1. Parts(bus, uevent, table, claim, peer)
  BY InParts
<1>2. bus' \in Table /\ ById(bus')
  <2>1. CASE \E dev \in BusDevs : Plug(dev)
    <3>1. PICK dev \in BusDevs : bus' = [bus EXCEPT ![dev.id] = dev]
      BY <2>1 DEF Plug
    <3>2. dev \in Device /\ dev.id \in Id
      BY DriverAssumption DEF RealId
    <3> QED BY <1>1, <3>1, <3>2 DEF Parts, Table, ById
  <2>2. CASE \E id \in RealId : Unplug(id)
    <3>1. PICK id \in RealId : bus' = [bus EXCEPT ![id] = None]
      BY <2>2 DEF Unplug
    <3> QED BY <1>1, <3>1 DEF Parts, Table, ById, RealId
  <2> QED BY <2>1, <2>2 DEF Kernel
<1>3. uevent' \in BOOLEAN /\ UNCHANGED <<table, claim, peer>>
  BY DEF Kernel, Plug, Unplug
<1>4. Parts(bus', uevent', table', claim', peer')
  BY <1>1, <1>2, <1>3 DEF Parts
<1> QED BY <1>4, InPartsNext

LEMMA ClientSendKeeps ==
  ASSUME IInv, NEW f \in Fds, NEW cmd \in Command, ClientSend(f, cmd)
  PROVE  IInv'
<1>1. Sound(peer) /\ Owners(peer, claim) /\ Peers(peer, table)
      /\ claim \in [Id -> {0} \cup Fds]
  BY InParts DEF Parts
<1>2. PICK p \in Peer : p = peer[f]
  BY <1>1 DEF Sound, ClientSend, Listens, Open
<1>3. /\ PeerInv(p, table) /\ Len(p.out) <= Cap /\ p # None
      /\ \A id \in p.owns : claim[id] = f
  BY <1>1, <1>2, PeerFields DEF Sound, Peers, Owners
<1>4. ~p.hup /\ ~p.waits
  BY <1>2 DEF ClientSend, Listens
<1>5. cmd \in Command
  OBVIOUS
<1>6. PICK q : q = [p EXCEPT !.cmd = cmd, !.waits = TRUE]
  OBVIOUS
<1>7. /\ q \in Peer /\ q.out = p.out /\ q.sub = p.sub /\ q.cmd = cmd
      /\ q.hup = p.hup /\ q.waits = TRUE /\ q.view = p.view
      /\ q.owns = p.owns
  BY <1>5, <1>6 DEF Peer
<1>8. PeerInv(q, table)
  BY <1>3, <1>4, <1>7
     DEF PeerInv, Answers, Waiting, Quiet, ToldTable
<1>9. peer' = [peer EXCEPT ![f] = q] /\ UNCHANGED <<bus, uevent, table, claim>>
  BY <1>1, <1>2, <1>6 DEF ClientSend, Sound
<1>10. /\ claim' \in [Id -> {0} \cup Fds]
       /\ \A id \in Id : claim[id] # f => claim'[id] = claim[id]
       /\ \A id \in q.owns : claim'[id] = f
       /\ Len(q.out) <= Cap
  BY <1>1, <1>3, <1>7, <1>9
<1> QED BY <1>7, <1>8, <1>9, <1>10, OnePeer

(* Reading a line makes its client believe what it says.                   *)
LEMMA ReadBelieves ==
  ASSUME NEW view \in Table, NEW out \in Seq(Line), out # <<>>,
         NEW tab, Tells(out, view, tab)
  PROVE  Tells(Tail(out), See(view, Head(out)), tab)
<1>1. PICK n \in Nat : n = Len(out)
  OBVIOUS
<1>2. PICK line \in Line, rest \in Seq(Line) :
        line = Head(out) /\ rest = Tail(out)
  <2>1. Head(out) \in Line /\ Tail(out) \in Seq(Line)
    OBVIOUS
  <2> QED BY <2>1
<1>3. /\ n >= 1 /\ line = out[1] /\ Len(rest) = n - 1
      /\ \A i \in 1..n - 1 : rest[i] = out[i + 1]
  BY <1>1, <1>2
<1>4. PICK new : new = See(view, line)
  OBVIOUS
<1>5. ASSUME NEW id \in Id
      PROVE  Believes(new, rest, id, tab[id])
  <2>1. Believes(view, out, id, tab[id])
    BY DEF Tells
  <2>2. new[id] = IF About(line, id) THEN Says(line) ELSE view[id]
    BY <1>4 DEF See, Line, Table, About, Says, Device
  <2>3. \A i \in 1..n - 1 : i + 1 \in 1..n
    BY <1>3
  <2>4. CASE /\ view[id] = tab[id]
             /\ \A i \in 1..n : ~About(out[i], id)
    <3>1. 1 \in 1..n
      BY <1>3
    <3>2. new[id] = tab[id]
      BY <1>3, <2>2, <2>4, <3>1
    <3>3. \A i \in 1..n - 1 : ~About(rest[i], id)
      BY <1>3, <2>3, <2>4
    <3> QED BY <1>3, <3>2, <3>3 DEF Believes
  <2>5. CASE \E i \in 1..n : /\ About(out[i], id)
                             /\ Says(out[i]) = tab[id]
                             /\ \A j \in i + 1..n : ~About(out[j], id)
    <3>1. PICK i \in 1..n : /\ About(out[i], id)
                            /\ Says(out[i]) = tab[id]
                            /\ \A j \in i + 1..n : ~About(out[j], id)
      BY <2>5
    <3>2. \A j \in i..n - 1 : j + 1 \in i + 1..n /\ j \in 1..n - 1
      OBVIOUS
    <3>3. \A j \in i..n - 1 : ~About(rest[j], id)
      BY <1>3, <3>1, <3>2
    <3>4. CASE i = 1
      <4>1. new[id] = tab[id]
        BY <1>3, <2>2, <3>1, <3>4
      <4>2. \A j \in 1..n - 1 : ~About(rest[j], id)
        BY <3>3, <3>4
      <4> QED BY <1>3, <4>1, <4>2 DEF Believes
    <3>5. CASE i # 1
      <4>1. i - 1 \in 1..n - 1 /\ (i - 1) + 1 = i
        BY <3>5
      <4>2. rest[i - 1] = out[i]
        BY <1>3, <4>1
      <4> QED BY <1>3, <3>1, <3>3, <4>1, <4>2 DEF Believes
    <3> QED BY <3>4, <3>5
  <2> QED BY <1>1, <2>1, <2>4, <2>5 DEF Believes
<1> QED BY <1>2, <1>4, <1>5 DEF Tells

LEMMA ClientReadKeeps ==
  ASSUME IInv, NEW f \in Fds, ClientRead(f)
  PROVE  IInv'
<1>1. Sound(peer) /\ Owners(peer, claim) /\ Peers(peer, table)
      /\ claim \in [Id -> {0} \cup Fds]
  BY InParts DEF Parts
<1>2. PICK p \in Peer : p = peer[f]
  BY <1>1 DEF Sound, ClientRead, Listens, Open
<1>3. /\ Answers(p) /\ Waiting(p) /\ Quiet(p) /\ ToldTable(p, table)
      /\ Len(p.out) <= Cap
      /\ \A id \in p.owns : claim[id] = f
  BY <1>1, <1>2, PeerFields DEF Sound, Peers, Owners, PeerInv
<1>4. ~p.hup /\ p.out # <<>>
  BY <1>2 DEF ClientRead, Listens
<1>5. /\ p.out \in Seq(Line) /\ p.view \in Table
      /\ p.sub \in BOOLEAN /\ p.waits \in BOOLEAN
  BY PeerFields
<1>6. PICK line \in Line, rest \in Seq(Line) :
        line = Head(p.out) /\ rest = Tail(p.out)
  <2>1. Head(p.out) \in Line /\ Tail(p.out) \in Seq(Line)
    BY <1>4, <1>5
  <2> QED BY <2>1
<1>7. PICK n \in Nat : n = Len(p.out)
  BY <1>5
<1>8. /\ n >= 1 /\ line = p.out[1] /\ Len(rest) = n - 1
      /\ \A i \in 1..n - 1 : i + 1 \in 1..n /\ rest[i] = p.out[i + 1]
  BY <1>4, <1>5, <1>6, <1>7
<1>9. PICK view \in Table : view = IF p.sub THEN See(p.view, line) ELSE p.view
  <2>1. (IF p.sub THEN See(p.view, line) ELSE p.view) \in Table
    BY <1>5, SeeTells
  <2> QED BY <2>1
<1>10. PICK waits \in BOOLEAN : waits = (p.waits /\ line.op # "reply")
  OBVIOUS
<1>11. PICK q : q = [p EXCEPT !.out = rest, !.view = view, !.waits = waits]
  OBVIOUS
<1>12. /\ q \in Peer /\ q.out = rest /\ q.sub = p.sub /\ q.cmd = p.cmd
       /\ q.hup = p.hup /\ q.waits = waits /\ q.view = view
       /\ q.owns = p.owns
  BY <1>11 DEF Peer
<1>13. ASSUME line.op = "reply"
       PROVE  /\ p.waits /\ p.cmd = None
              /\ \A i \in 1..n - 1 : rest[i].op # "reply"
  <2>1. 1 \in 1..n /\ p.out[1].op = "reply"
    BY <1>8, <1>13
  <2>2. \A i \in 1..n - 1 : i + 1 # 1
    OBVIOUS
  <2> QED BY <1>3, <1>7, <1>8, <2>1, <2>2 DEF Answers
<1>14. Answers(q)
  <2>1. ASSUME NEW i \in 1..n - 1, rest[i].op = "reply"
        PROVE  q.waits /\ q.cmd = None
    <3>1. i + 1 \in 1..n /\ p.out[i + 1].op = "reply"
      BY <1>8, <2>1
    <3>2. p.waits /\ p.cmd = None
      BY <1>3, <1>7, <3>1 DEF Answers
    <3> QED BY <1>10, <1>12, <1>13, <2>1, <3>2
  <2>2. ASSUME NEW i \in 1..n - 1, rest[i].op = "reply",
               NEW j \in 1..n - 1, rest[j].op = "reply"
        PROVE  j = i
    <3>1. /\ i + 1 \in 1..n /\ p.out[i + 1].op = "reply"
          /\ j + 1 \in 1..n /\ p.out[j + 1].op = "reply"
      BY <1>8, <2>2
    <3>2. j + 1 = i + 1
      BY <1>3, <1>7, <3>1 DEF Answers
    <3> QED BY <3>2
  <2> QED BY <1>8, <1>12, <2>1, <2>2 DEF Answers
<1>15. Waiting(q)
  BY <1>3, <1>4, <1>10, <1>12, <1>13 DEF Waiting
<1>16. Quiet(q)
  <2> SUFFICES ASSUME ~p.sub
               PROVE  /\ \A i \in 1..n - 1 :
                           rest[i].op = "reply" => i = n - 1
                      /\ ~waits \/ p.cmd # None => rest = <<>>
    BY <1>8, <1>12 DEF Quiet
  <2>1. /\ \A i \in 1..n : p.out[i].op = "reply" => i = n
        /\ p.waits /\ p.cmd = None
    BY <1>3, <1>4, <1>7 DEF Quiet
  <2>2. ASSUME NEW i \in 1..n - 1, rest[i].op = "reply" PROVE i = n - 1
    <3>1. i + 1 = n
      BY <1>8, <2>1, <2>2
    <3> QED BY <3>1
  <2>3. ASSUME ~waits PROVE rest = <<>>
    <3>1. line.op = "reply"
      BY <1>10, <2>1, <2>3, Zenon
    <3>2. n = 1
      BY <1>8, <2>1, <3>1
    <3> QED BY <1>8, <3>2
  <2> QED BY <2>1, <2>2, <2>3
<1>17. ToldTable(q, table)
  <2> SUFFICES ASSUME p.sub PROVE Tells(rest, See(p.view, line), table)
    BY <1>9, <1>12 DEF ToldTable
  <2>1. Tells(p.out, p.view, table)
    BY <1>3, <1>4 DEF ToldTable
  <2> QED BY <1>4, <1>5, <1>6, <2>1, ReadBelieves
<1>18. PeerInv(q, table)
  BY <1>14, <1>15, <1>16, <1>17 DEF PeerInv
<1>19. UNCHANGED <<bus, uevent, table, claim>>
  BY DEF ClientRead
<1>20. peer' = [peer EXCEPT ![f] = q]
  BY <1>1, <1>2, <1>6, <1>9, <1>10, <1>11 DEF ClientRead, Sound
<1>21. /\ claim' \in [Id -> {0} \cup Fds]
       /\ \A id \in Id : claim[id] # f => claim'[id] = claim[id]
       /\ \A id \in q.owns : claim'[id] = f
       /\ Len(q.out) <= Cap
  <2>1. Cap \in Nat /\ n <= Cap
    BY <1>3, <1>7, DriverAssumption
  <2>2. Len(q.out) <= Cap
    BY <1>8, <1>12, <2>1
  <2> QED BY <1>1, <1>3, <1>12, <1>19, <2>2
<1> QED BY <1>12, <1>18, <1>19, <1>20, <1>21, OnePeer

LEMMA ClientCloseKeeps ==
  ASSUME IInv, NEW f \in Fds, ClientClose(f)
  PROVE  IInv'
<1>1. Sound(peer) /\ Owners(peer, claim) /\ claim \in [Id -> {0} \cup Fds]
  BY InParts DEF Parts
<1>2. PICK p \in Peer : p = peer[f]
  BY <1>1 DEF Sound, ClientClose, Listens, Open
<1>3. \A id \in p.owns : claim[id] = f
  BY <1>1, <1>2, PeerFields DEF Owners
<1>4. PICK q : q = [p EXCEPT !.hup = TRUE, !.out = <<>>, !.waits = FALSE,
                             !.view = NoDevices]
  OBVIOUS
<1>5. /\ q \in Peer /\ q.out = <<>> /\ q.hup = TRUE /\ q.owns = p.owns
  <2>1. NoDevices \in Table /\ <<>> \in Seq(Line)
    BY DEF NoDevices, Table
  <2> QED BY <1>4, <2>1 DEF Peer
<1>6. PeerInv(q, table)
  <2>1. Len(<<>>) = 0
    OBVIOUS
  <2> QED BY <1>5, <2>1 DEF PeerInv, Answers, Waiting, Quiet, ToldTable
<1>7. UNCHANGED <<bus, uevent, table, claim>>
  BY DEF ClientClose
<1>8. peer' = [peer EXCEPT ![f] = q]
  BY <1>1, <1>2, <1>4 DEF ClientClose, Sound
<1>9. /\ claim' \in [Id -> {0} \cup Fds]
      /\ \A id \in Id : claim[id] # f => claim'[id] = claim[id]
      /\ \A id \in q.owns : claim'[id] = f
      /\ Len(q.out) <= Cap
  <2>1. Len(<<>>) = 0
    OBVIOUS
  <2> QED BY <1>1, <1>3, <1>5, <1>7, <2>1, DriverAssumption
<1> QED BY <1>5, <1>6, <1>7, <1>8, <1>9, OnePeer

-----------------------------------------------------------------------------
(* The invariant holds at first and is kept by every step. *)
LEMMA InitKeeps ==
  ASSUME Init
  PROVE  IInv
<1>1. PICK S \in SUBSET BusDevs :
        bus = [id \in Id |-> IF id \in {dev.id : dev \in S}
                             THEN CHOOSE dev \in S : dev.id = id
                             ELSE None]
  BY DEF Init
<1>2. \A dev \in S : dev \in Device
  BY DriverAssumption
<1>3. ASSUME NEW id \in Id
      PROVE  bus[id] # None => bus[id] \in S /\ bus[id].id = id
  <2>1. CASE id \in {dev.id : dev \in S}
    <3>1. \E dev \in S : dev.id = id
      BY <2>1
    <3>2. bus[id] = CHOOSE dev \in S : dev.id = id
      BY <1>1, <2>1
    <3> QED BY <3>1, <3>2
  <2>2. CASE id \notin {dev.id : dev \in S}
    BY <1>1, <2>2
  <2> QED BY <2>1, <2>2
<1>4. bus \in Table
  <2>1. bus = [id \in Id |-> bus[id]]
    BY <1>1
  <2>2. \A id \in Id : bus[id] \in Device \cup {None}
    BY <1>2, <1>3
  <2> QED BY <2>1, <2>2 DEF Table
<1>5. ById(bus)
  BY <1>3 DEF ById
<1>6. /\ uevent = FALSE /\ table = bus /\ claim = [id \in Id |-> 0]
      /\ peer = [f \in Fds |-> None]
  BY DEF Init
<1>7. Sound(peer) /\ Owners(peer, claim) /\ Peers(peer, table)
  BY <1>6 DEF Sound, Owners, Peers
<1>8. Parts(bus, uevent, table, claim, peer)
  BY <1>4, <1>5, <1>6, <1>7 DEF Parts
<1> QED BY <1>8, InParts

LEMMA HandleLineKeeps ==
  ASSUME IInv, NEW f \in Fds, HandleLine(f)
  PROVE  IInv'
<1>1. CASE Subscribe(f)
  BY <1>1, SubscribeKeeps
<1>2. CASE List(f)
  BY <1>2, ListKeeps
<1>3. CASE SimUnplug(f)
  BY <1>3, SimUnplugKeeps
<1>4. CASE \E id \in SimId : SimPlug(f, id)
  BY <1>4, SimPlugKeeps
<1>5. ASSUME NEW id \in Id, Claim(f, id) PROVE IInv'
  BY <1>5, ClaimKeeps
<1>6. ASSUME NEW id \in Id, Release(f, id) PROVE IInv'
  BY <1>6, ReleaseKeeps
<1>7. ASSUME NEW id \in Id, CtrlRefused(f, id) PROVE IInv'
  BY <1>7, CtrlRefusedKeeps
<1>8. ASSUME NEW id \in Id, CtrlSim(f, id) PROVE IInv'
  BY <1>8, CtrlSimKeeps
<1>9. ASSUME NEW id \in Id, StartSim(f, id) PROVE IInv'
  BY <1>9, StartSimKeeps
<1>10. ASSUME NEW id \in Id, NEW ok \in BOOLEAN, NEW protocol \in BOOLEAN,
              CtrlReal(f, id, ok, protocol)
       PROVE  IInv'
  BY <1>10, CtrlRealKeeps
<1> QED BY <1>1, <1>2, <1>3, <1>4, <1>5, <1>6, <1>7, <1>8, <1>9, <1>10
        DEF HandleLine

LEMMA NextKeeps ==
  ASSUME IInv, [Next]_vars
  PROVE  IInv'
<1>1. CASE Refresh
  BY <1>1, RefreshKeeps
<1>2. CASE Accept
  BY <1>2, AcceptKeeps
<1>3. ASSUME NEW f \in Fds, EndOfFile(f) PROVE IInv'
  BY <1>3, EndOfFileKeeps
<1>4. ASSUME NEW f \in Fds, HandleLine(f) PROVE IInv'
  BY <1>4, HandleLineKeeps
<1>5. CASE Kernel
  BY <1>5, KernelKeeps
<1>6. ASSUME NEW f \in Fds, NEW cmd \in Requests[f], ClientSend(f, cmd)
      PROVE  IInv'
  BY <1>6, DriverAssumption, ClientSendKeeps
<1>7. ASSUME NEW f \in Fds, ClientRead(f) PROVE IInv'
  BY <1>7, ClientReadKeeps
<1>8. ASSUME NEW f \in Fds, ClientClose(f) PROVE IInv'
  BY <1>8, ClientCloseKeeps
<1>9. CASE UNCHANGED vars
  <2>1. Parts(bus', uevent', table', claim', peer')
    BY <1>9, InParts DEF vars
  <2> QED BY <2>1, InPartsNext
<1> QED BY <1>1, <1>2, <1>3, <1>4, <1>5, <1>6, <1>7, <1>8, <1>9
        DEF Next, Daemon, Clients

-----------------------------------------------------------------------------
(* What the daemon promises, for every value of the constants. *)

(* The inductive invariant holds in every reachable state.                 *)
THEOREM DriverInvariant == Spec => []IInv
<1>1. Init => IInv
  BY InitKeeps
<1>2. IInv /\ [Next]_vars => IInv'
  BY NextKeeps
<1> QED BY <1>1, <1>2, PTL DEF Spec

(* Types; no handler puts more lines into a socket than it holds.          *)
THEOREM DriverTypeCorrect == Spec => []TypeOK
<1>1. IInv => TypeOK
  BY DEF IInv
<1> QED BY <1>1, DriverInvariant, PTL

(* No rescan, START, or other client takes a granted claim away            *)
(* (refresh_real, sim_add, try_claim, drop_claims of driverd.c).           *)
THEOREM OwnersKeepClaims == Spec => []OwnerKeepsClaim
<1>1. IInv => OwnerKeepsClaim
  BY DEF IInv
<1> QED BY <1>1, DriverInvariant, PTL

(* So a claim is exclusive: no two clients own the same device.            *)
Exclusive ==
  \A f, g \in Fds : Open(f) /\ Open(g) /\ f # g
    => peer[f].owns \cap peer[g].owns = {}

THEOREM ClaimsAreExclusive == Spec => []Exclusive
<1>1. OwnerKeepsClaim => Exclusive
  BY DEF OwnerKeepsClaim, Exclusive
<1> QED BY <1>1, OwnersKeepClaims, PTL

(* What a subscriber has read, and what waits in its socket, amount to the *)
(* table of the daemon, whatever happened since it subscribed.             *)
THEOREM SubscribersCatchUp == Spec => []SubscriberCatchesUp
<1>1. ASSUME IInv PROVE SubscriberCatchesUp
  <2>1. Sound(peer) /\ Peers(peer, table) /\ table \in Table
    BY <1>1, InParts DEF Parts
  <2>2. ASSUME NEW f \in Fds, Open(f), peer[f].sub, ~peer[f].hup
        PROVE  FoldLeft(See, peer[f].view, peer[f].out) = table
    <3>1. peer[f] \in Peer /\ PeerInv(peer[f], table)
      BY <2>1, <2>2 DEF Sound, Peers, Open
    <3>2. PICK view \in Table, out \in Seq(Line) :
            view = peer[f].view /\ out = peer[f].out
      BY <3>1, PeerFields
    <3>3. Tells(out, view, table)
      BY <2>2, <3>1, <3>2 DEF PeerInv, ToldTable
    <3>4. FoldLeft(See, view, out) = table
      BY <2>1, <3>3, OneStory
    <3> QED BY <3>2, <3>4
  <2> QED BY <2>2 DEF SubscriberCatchesUp
<1> QED BY <1>1, DriverInvariant, PTL

(* A client finds at most one reply, and only to a command that was        *)
(* handled.                                                                *)
THEOREM OneReplyEach == Spec => []OneReplyPerCommand
<1>1. ASSUME IInv PROVE OneReplyPerCommand
  <2>1. Sound(peer) /\ Peers(peer, table)
    BY <1>1, InParts DEF Parts
  <2>2. ASSUME NEW f \in Fds, Open(f)
        PROVE  Replies(f) <= IF peer[f].waits /\ peer[f].cmd = None
                             THEN 1 ELSE 0
    <3>1. Answers(peer[f])
      BY <2>1, <2>2 DEF Peers, PeerInv, Open
    <3>2. PICK at : at = {i \in 1..Len(peer[f].out) :
                            peer[f].out[i].op = "reply"}
      OBVIOUS
    <3>3. Replies(f) = Cardinality(at)
      BY <3>2 DEF Replies
    <3>4. CASE at = {}
      <4>1. Cardinality(at) = 0
        BY <3>4, FS_EmptySet
      <4> QED BY <3>3, <4>1
    <3>5. CASE at # {}
      <4>1. PICK i : i \in at
        BY <3>5
      <4>2. peer[f].waits /\ peer[f].cmd = None /\ at = {i}
        BY <3>1, <3>2, <4>1 DEF Answers
      <4>3. Cardinality(at) = 1
        BY <4>2, FS_Singleton
      <4> QED BY <3>3, <4>2, <4>3
    <3> QED BY <3>4, <3>5
  <2> QED BY <2>2 DEF OneReplyPerCommand
<1> QED BY <1>1, DriverInvariant, PTL


-----------------------------------------------------------------------------
(* A client whose socket has room for everything a handler sends: the      *)
(* handler neither disconnects it nor leaves its command without a reply.  *)
Burst == 2 * Cardinality(Id) + 1

HasRoom(f) == ~peer[f].hup /\ Len(peer[f].out) + Burst <= Cap

HasReply(lines) == \E i \in 1..Len(lines) : lines[i].op = "reply"

(* Such a connection before a number of lines is sent to it. *)
Clear(P, f, n) ==
  Sound(P) /\ P[f] # None /\ ~P[f].hup /\ Len(P[f].out) + n <= Cap

LEMMA BroadcastStays ==
  ASSUME NEW P, NEW f \in Fds, NEW lines \in Seq(Line),
         Clear(P, f, Len(lines))
  PROVE  Broadcast(P, lines)[f] # None
<1>1. PICK p \in Peer : p = P[f]
  BY DEF Clear, Sound
<1>2. p.out \in Seq(Line) /\ p # None
  BY PeerFields
<1>3. Fits(p, Len(lines))
  BY <1>1 DEF Clear, Fits
<1>4. PICK o \in Seq(Line) : o = p.out \o lines
  <2>1. p.out \o lines \in Seq(Line)
    BY <1>2
  <2> QED BY <2>1
<1>5. PICK q : q = [p EXCEPT !.out = o]
  OBVIOUS
<1>6. q # None
  BY <1>5, WithOut, PeerFields
<1>7. Broadcast(P, lines)[f] = p \/ Broadcast(P, lines)[f] = q
  BY <1>1, <1>3, <1>4, <1>5 DEF Broadcast, Clear
<1> QED BY <1>2, <1>6, <1>7

LEMMA LoseStays ==
  ASSUME NEW P, Sound(P), NEW f \in Fds, P[f] # None, NEW ids
  PROVE  Lose(P, ids)[f] # None
<1>1. PICK p \in Peer : p = P[f]
  BY DEF Sound
<1>2. PICK o \in SUBSET Id : o = p.owns \ ids
  <2>1. p.owns \ ids \in SUBSET Id
    BY PeerFields
  <2> QED BY <2>1
<1>3. PICK q : q = [p EXCEPT !.owns = o]
  OBVIOUS
<1>4. q # None
  BY <1>3, WithOwns, PeerFields
<1>5. Lose(P, ids)[f] = q
  BY <1>1, <1>2, <1>3 DEF Lose
<1> QED BY <1>4, <1>5

(* All of an answer arrives, its reply included. *)
Delivered(q, p) ==
  /\ q \in Peer
  /\ q.sub = p.sub /\ q.cmd = p.cmd /\ q.hup = p.hup
  /\ q.waits = p.waits /\ q.view = p.view
  /\ HasReply(q.out)

LEMMA SendDelivers ==
  ASSUME NEW P, NEW f \in Fds, NEW answer \in Seq(Line), HasReply(answer),
         Clear(P, f, Len(answer)), NEW Q, Sent(P, Q, f, answer), Q[f] # None
  PROVE  Delivered(Q[f], P[f])
<1>1. PICK p \in Peer : p = P[f]
  BY DEF Clear, Sound
<1>2. PICK part \in Seq(Line) : Arrives(p, answer, part)
                                /\ Carries(Q[f], p, part)
  BY <1>1 DEF Sent
<1>3. p.out \in Seq(Line) /\ ~p.hup /\ Cap \in Nat
  BY <1>1, PeerFields, DriverAssumption DEF Clear
<1>4. PICK l \in Nat, m \in Nat, n \in Nat :
        l = Len(p.out) /\ m = Len(part) /\ n = Len(answer)
  BY <1>3
<1>5. l + n <= Cap /\ m <= n
  BY <1>1, <1>2, <1>4 DEF Clear, Arrives, Begins
<1>6. Len(p.out \o part) = l + m
  BY <1>3, <1>4
<1>7. m = n
  BY <1>2, <1>3, <1>4, <1>5, <1>6 DEF Arrives
<1>8. PICK k \in 1..n : answer[k].op = "reply"
  BY <1>4 DEF HasReply
<1>9. part[k].op = "reply"
  BY <1>2, <1>4, <1>7, <1>8 DEF Arrives, Begins
<1>10. PICK o \in Seq(Line) : o = p.out \o part
  <2>1. p.out \o part \in Seq(Line)
    BY <1>3
  <2> QED BY <2>1
<1>11. l + k \in 1..Len(o) /\ o[l + k] = part[k]
  <2>1. /\ l + k \in l + 1..l + m /\ l + k - l = k
        /\ l + k \in 1..l + m
    BY <1>7
  <2>2. PICK a \in Seq(Line) : a = p.out
    BY <1>3
  <2>3. Len(a \o part) = l + m
        /\ \A i \in l + 1..l + m : (a \o part)[i] = part[i - l]
    BY <1>4, <2>2
  <2>4. (a \o part)[l + k] = part[l + k - l]
    BY <2>1, <2>3
  <2>5. o = a \o part
    BY <1>10, <2>2
  <2>6. o[l + k] = part[k] /\ Len(o) = l + m
    BY <2>1, <2>3, <2>4, <2>5
  <2> QED BY <2>1, <2>6
<1>12. HasReply(o)
  BY <1>9, <1>11 DEF HasReply
<1>13. Q[f].out = o
  BY <1>2, <1>10 DEF Carries
<1> QED BY <1>1, <1>2, <1>12, <1>13 DEF Delivered, Carries

(* Whatever a handler broadcasts and answers, it does not touch the other  *)
(* end.                                                                    *)
Closes(q, p) == q # None => q.hup = p.hup

LEMMA AnswerDelivered ==
  ASSUME NEW P, Sound(P), NEW f \in Fds, P[f] # None,
         NEW answer \in Seq(Line), HasReply(answer),
         NEW Q, Q = Send(P, f, answer)
  PROVE  /\ Closes(Q[f], P[f])
         /\ Clear(P, f, Len(answer)) => Q[f] # None /\ Delivered(Q[f], P[f])
<1>1. Sent(P, Q, f, answer) /\ Q[f] # None
  BY SendStep
<1>2. Closes(Q[f], P[f])
  BY <1>1 DEF Sent, Closes, Carries
<1>3. Clear(P, f, Len(answer)) => Delivered(Q[f], P[f])
  BY <1>1, SendDelivers
<1> QED BY <1>1, <1>2, <1>3

(* With events, which the client may get or not. *)
Alike(q, p) == /\ q.sub = p.sub /\ q.cmd = p.cmd /\ q.hup = p.hup
               /\ q.waits = p.waits /\ q.view = p.view

LEMMA BroadcastClear ==
  ASSUME NEW P, NEW f \in Fds, NEW lines \in Seq(Line), NEW n \in Nat,
         Clear(P, f, Len(lines) + n), NEW Q, Q = Broadcast(P, lines)
  PROVE  Clear(Q, f, n) /\ Alike(Q[f], P[f])
<1>1. PICK p \in Peer : p = P[f]
  BY DEF Clear, Sound
<1>2. PICK l \in Nat, m \in Nat : l = Len(p.out) /\ m = Len(lines)
  BY PeerFields
<1>3. l + (m + n) <= Cap /\ Cap \in Nat
  BY <1>1, <1>2, DriverAssumption DEF Clear
<1>4. Clear(P, f, Len(lines))
  <2>1. l + m <= Cap
    BY <1>3
  <2> QED BY <1>1, <1>2, <2>1 DEF Clear
<1>5. Q[f] # None
  BY <1>4, BroadcastStays
<1>6. Sound(Q) /\ Broadcasted(P, Q, lines)
  BY BroadcastStep DEF Clear
<1>7. PICK ev \in Seq(Line) : ev = IF p.sub THEN lines ELSE <<>>
  <2>1. (IF p.sub THEN lines ELSE <<>>) \in Seq(Line)
    OBVIOUS
  <2> QED BY <2>1
<1>8. Carries(Q[f], p, ev)
  BY <1>1, <1>5, <1>6, <1>7 DEF Broadcasted
<1>9. Len(ev) \in Nat /\ Len(ev) <= m
  <2>1. Len(<<>>) = 0
    OBVIOUS
  <2> QED BY <1>2, <1>7, <2>1
<1>10. Len(Q[f].out) = l + Len(ev)
  <2>1. p.out \in Seq(Line)
    BY PeerFields
  <2>2. Len(p.out \o ev) = Len(p.out) + Len(ev)
    BY <2>1
  <2> QED BY <1>2, <1>8, <2>2 DEF Carries
<1>11. Len(Q[f].out) + n <= Cap
  BY <1>3, <1>9, <1>10
<1> QED BY <1>1, <1>5, <1>6, <1>8, <1>11 DEF Clear, Carries, Alike

LEMMA LoseClear ==
  ASSUME NEW P, NEW f \in Fds, NEW ids, NEW n \in Nat, Clear(P, f, n),
         NEW Q, Q = Lose(P, ids)
  PROVE  Clear(Q, f, n) /\ Alike(Q[f], P[f])
<1>1. PICK p \in Peer : p = P[f]
  BY DEF Clear, Sound
<1>2. Q[f] # None
  BY LoseStays DEF Clear
<1>3. Sound(Q) /\ Lost(P, Q, ids)
  BY LoseStep DEF Clear
<1>4. Carries(Q[f], p, <<>>)
  BY <1>1, <1>2, <1>3 DEF Lost
<1>5. p.out \o <<>> = p.out
  BY PeerFields
<1> QED BY <1>1, <1>2, <1>3, <1>4, <1>5 DEF Clear, Carries, Alike

LEMMA EventsDelivered ==
  ASSUME NEW P, Sound(P), NEW f \in Fds, P[f] # None,
         NEW events \in Seq(Line), NEW ids,
         NEW answer \in Seq(Line), HasReply(answer),
         NEW B, B = Broadcast(P, events), NEW L, L = B \/ L = Lose(B, ids),
         NEW Q, Q = Send(L, f, answer)
  PROVE  /\ Closes(Q[f], P[f])
         /\ Clear(P, f, Len(events) + Len(answer)) =>
              Q[f] # None /\ Delivered(Q[f], P[f])
<1>1. Sound(B) /\ Broadcasted(P, B, events)
  BY BroadcastStep
<1>2. Sound(L) /\ (L[f] # None => B[f] # None /\ L[f].hup = B[f].hup)
  <2>1. CASE L = B
    BY <1>1, <2>1
  <2>2. CASE L = Lose(B, ids)
    <3>1. Sound(L) /\ Lost(B, L, ids)
      BY <1>1, <2>2, LoseStep
    <3> QED BY <3>1 DEF Lost, Carries
  <2> QED BY <2>1, <2>2
<1>3. L[f] # None => L[f].hup = P[f].hup
  BY <1>1, <1>2 DEF Broadcasted, Carries
<1>4. Closes(Q[f], P[f])
  <2>1. CASE L[f] = None
    BY <2>1 DEF Send, Closes
  <2>2. CASE L[f] # None
    <3>1. Closes(Q[f], L[f])
      BY <1>2, <2>2, AnswerDelivered
    <3> QED BY <1>3, <2>2, <3>1 DEF Closes
  <2> QED BY <2>1, <2>2
<1>5. ASSUME Clear(P, f, Len(events) + Len(answer))
      PROVE  Q[f] # None /\ Delivered(Q[f], P[f])
  <2>1. PICK n \in Nat : n = Len(answer)
    OBVIOUS
  <2>2. Clear(P, f, Len(events) + n)
    BY <1>5, <2>1
  <2>3. Clear(B, f, n) /\ Alike(B[f], P[f])
    BY <2>2, BroadcastClear
  <2>4. Clear(L, f, n) /\ Alike(L[f], P[f])
    <3>1. CASE L = B
      BY <2>3, <3>1
    <3>2. CASE L = Lose(B, ids)
      <4>1. Clear(L, f, n) /\ Alike(L[f], B[f])
        BY <2>3, <3>2, LoseClear
      <4> QED BY <2>3, <4>1 DEF Alike
    <3> QED BY <3>1, <3>2
  <2>5. L[f] # None /\ Clear(L, f, Len(answer))
    BY <2>1, <2>4 DEF Clear
  <2>6. Q[f] # None /\ Delivered(Q[f], L[f])
    BY <1>2, <2>5, AnswerDelivered
  <2> QED BY <2>4, <2>6 DEF Delivered, Alike
<1> QED BY <1>4, <1>5

(* What a handler of f's command leaves of the connection p when it has    *)
(* room, and when it has not.                                              *)
Served(q, p) ==
  /\ q \in Peer
  /\ q.hup = p.hup /\ q.waits = p.waits /\ q.cmd = None
  /\ q.sub = (p.sub \/ p.cmd.op = "sub")
  /\ q.view = IF p.sub \/ p.cmd.op # "sub" THEN p.view ELSE NoDevices
  /\ HasReply(q.out)

Serves(f) ==
  /\ Closes(peer'[f], peer[f])
  /\ HasRoom(f) => peer'[f] # None /\ Served(peer'[f], peer[f])

LEMMA BurstNat == Burst \in Nat /\ Cardinality(Id) \in Nat /\ Cap \in Nat
BY DumpFits, FS_CardinalityType, DriverAssumption DEF Burst

LEMMA AnswerServes ==
  ASSUME Sound(peer), NEW f \in Fds, Open(f), peer[f].cmd.op # "sub",
         NEW P, Ready(P, f), NEW answer \in Seq(Line), HasReply(answer),
         Len(answer) <= Burst, peer' = Send(P, f, answer)
  PROVE  Serves(f)
<1>1. PICK Q : Q = peer'
  OBVIOUS
<1>2. Sound(P) /\ P[f] # None
  BY DEF Ready
<1>3. /\ Closes(Q[f], P[f])
      /\ Clear(P, f, Len(answer)) => Q[f] # None /\ Delivered(Q[f], P[f])
  BY <1>1, <1>2, AnswerDelivered
<1>4. ASSUME HasRoom(f) PROVE Clear(P, f, Len(answer))
  <2>1. PICK p \in Peer : p = peer[f]
    BY DEF Sound, Open
  <2>2. PICK l \in Nat, n \in Nat : l = Len(p.out) /\ n = Len(answer)
    BY PeerFields
  <2>3. l + Burst <= Cap /\ n <= Burst
    BY <1>4, <2>1, <2>2 DEF HasRoom
  <2>4. l + n <= Cap
    BY <2>3, BurstNat
  <2> QED BY <1>2, <1>4, <2>1, <2>2, <2>4 DEF Clear, Ready, HasRoom
<1>5. peer[f].sub \in BOOLEAN
  BY PeerFields DEF Sound, Open
<1>6. ASSUME HasRoom(f) PROVE Served(Q[f], peer[f])
  BY <1>3, <1>4, <1>5, <1>6 DEF Served, Delivered, Ready
<1>7. Closes(Q[f], peer[f])
  BY <1>3 DEF Closes, Ready
<1> QED BY <1>1, <1>3, <1>4, <1>6, <1>7 DEF Serves

LEMMA OkLine ==
  ASSUME NEW answer, NEW ok \in BOOLEAN, NEW protocol \in BOOLEAN,
         answer = <<Reply(ok, protocol)>>
  PROVE  answer \in Seq(Line) /\ HasReply(answer) /\ Len(answer) = 1
<1>1. PICK r : r = Reply(ok, protocol)
  OBVIOUS
<1>2. r \in Line /\ r.op = "reply"
  BY <1>1 DEF Reply, Line
<1>3. answer \in Seq(Line) /\ Len(answer) = 1 /\ answer[1] = r /\ 1 \in 1..1
  BY <1>1, <1>2
<1> QED BY <1>2, <1>3 DEF HasReply

LEMMA EventsServe ==
  ASSUME Sound(peer), NEW f \in Fds, Open(f), peer[f].cmd.op # "sub",
         NEW events \in Seq(Line), Len(events) <= 2 * Cardinality(Id),
         NEW ids, NEW B, B = Broadcast(Taken(f), events),
         NEW L, L = B \/ L = Lose(B, ids), peer' = Send(L, f, <<Ok>>)
  PROVE  Serves(f)
<1>1. PICK Q, P, answer : Q = peer' /\ P = Taken(f) /\ answer = <<Ok>>
  OBVIOUS
<1>2. Ready(P, f) /\ Sound(P) /\ P[f] # None
  BY <1>1, TakenReady DEF Ready
<1>3. answer \in Seq(Line) /\ HasReply(answer) /\ Len(answer) = 1
  BY <1>1, OkLine DEF Ok
<1>4. B = Broadcast(P, events) /\ Q = Send(L, f, answer)
  BY <1>1
<1>5. /\ Closes(Q[f], P[f])
      /\ Clear(P, f, Len(events) + Len(answer)) =>
           Q[f] # None /\ Delivered(Q[f], P[f])
  BY <1>2, <1>3, <1>4, EventsDelivered
<1>6. ASSUME HasRoom(f) PROVE Clear(P, f, Len(events) + Len(answer))
  <2>1. PICK p \in Peer : p = peer[f]
    BY DEF Sound, Open
  <2>2. PICK l \in Nat, n \in Nat, c \in Nat :
          l = Len(p.out) /\ n = Len(events) /\ c = Cardinality(Id)
    <3>1. Len(p.out) \in Nat /\ Len(events) \in Nat
      BY PeerFields
    <3> QED BY <3>1, BurstNat
  <2>3. l + (2 * c + 1) <= Cap /\ n <= 2 * c
    BY <1>6, <2>1, <2>2 DEF HasRoom, Burst
  <2>4. l + (n + 1) <= Cap
    BY <2>3, BurstNat
  <2> QED BY <1>2, <1>3, <1>6, <2>1, <2>2, <2>4 DEF Clear, Ready, HasRoom
<1>7. peer[f].sub \in BOOLEAN
  BY PeerFields DEF Sound, Open
<1>8. ASSUME HasRoom(f) PROVE Served(Q[f], peer[f])
  BY <1>2, <1>5, <1>6, <1>7, <1>8 DEF Served, Delivered, Ready
<1>9. Closes(Q[f], peer[f])
  BY <1>2, <1>5 DEF Closes, Ready
<1> QED BY <1>1, <1>5, <1>6, <1>8, <1>9 DEF Serves

LEMMA ReplyServes ==
  ASSUME Sound(peer), NEW f \in Fds, Open(f), peer[f].cmd.op # "sub",
         NEW P, Ready(P, f), NEW ok \in BOOLEAN, NEW protocol \in BOOLEAN,
         peer' = Send(P, f, <<Reply(ok, protocol)>>)
  PROVE  Serves(f)
<1>1. PICK answer : answer = <<Reply(ok, protocol)>>
  OBVIOUS
<1>2. answer \in Seq(Line) /\ HasReply(answer) /\ Len(answer) = 1
  BY <1>1, OkLine
<1>3. Len(answer) <= Burst
  BY <1>2, BurstNat DEF Burst
<1>4. peer' = Send(P, f, answer)
  BY <1>1
<1> QED BY <1>2, <1>3, <1>4, AnswerServes

LEMMA OwnsServes ==
  ASSUME Sound(peer), NEW f \in Fds, Open(f), peer[f].cmd.op # "sub",
         NEW ids \in SUBSET Id,
         peer' = Send([Taken(f) EXCEPT ![f].owns = ids], f, <<Ok>>)
  PROVE  Serves(f)
<1>1. PICK P : P = Owning(f, ids)
  OBVIOUS
<1>2. Ready(P, f)
  BY <1>1, OwningReady
<1>3. peer' = Send(P, f, <<Reply(TRUE, FALSE)>>)
  BY <1>1 DEF Owning, Ok
<1> QED BY <1>2, <1>3, ReplyServes

LEMMA ClaimServes ==
  ASSUME Sound(peer), NEW f \in Fds, NEW id \in Id, Claim(f, id) \/ Release(f, id)
  PROVE  Serves(f)
<1>1. Open(f) /\ peer[f].cmd.op # "sub"
  BY DEF Claim, Release, Takes
<1>2. Ready(Taken(f), f) /\ Taken(f)[f].owns = peer[f].owns
  BY <1>1, TakenReady
<1>3. CASE peer' = Send(Taken(f), f, <<Err>>)
  <2>1. peer' = Send(Taken(f), f, <<Reply(FALSE, FALSE)>>)
    BY <1>3 DEF Err
  <2> QED BY <1>1, <1>2, <2>1, ReplyServes
<1>4. CASE \E ids \in SUBSET Id :
             peer' = Send([Taken(f) EXCEPT ![f].owns = ids], f, <<Ok>>)
  BY <1>1, <1>4, OwnsServes
<1>5. /\ peer[f].owns \cup {id} \in SUBSET Id
      /\ peer[f].owns \ {id} \in SUBSET Id
  BY <1>1, PeerFields DEF Sound, Open
<1>6. /\ [Taken(f) EXCEPT ![f].owns = @ \cup {id}]
           = [Taken(f) EXCEPT ![f].owns = peer[f].owns \cup {id}]
      /\ [Taken(f) EXCEPT ![f].owns = @ \ {id}]
           = [Taken(f) EXCEPT ![f].owns = peer[f].owns \ {id}]
  BY <1>2
<1>7. CASE Claim(f, id)
  BY <1>3, <1>4, <1>5, <1>6, <1>7 DEF Claim
<1>8. CASE Release(f, id)
  BY <1>3, <1>4, <1>5, <1>6, <1>8 DEF Release
<1> QED BY <1>7, <1>8

LEMMA CtrlServes ==
  ASSUME Sound(peer), NEW f \in Fds, NEW id \in Id,
         \/ CtrlRefused(f, id) \/ CtrlSim(f, id)
         \/ \E ok, protocol \in BOOLEAN : CtrlReal(f, id, ok, protocol)
  PROVE  Serves(f)
<1>1. Open(f) /\ peer[f].cmd.op # "sub"
  BY DEF CtrlRefused, CtrlSim, CtrlReal, Takes, Ctrl
<1>2. Ready(Taken(f), f)
  BY <1>1, TakenReady
<1>3. \E ok, protocol \in BOOLEAN :
        peer' = Send(Taken(f), f, <<Reply(ok, protocol)>>)
  BY DEF CtrlRefused, CtrlSim, CtrlReal, Err
<1> QED BY <1>1, <1>2, <1>3, ReplyServes

LEMMA SimPlugServes ==
  ASSUME Sound(peer), NEW f \in Fds, NEW id \in SimId, SimPlug(f, id)
  PROVE  Serves(f)
<1>1. Open(f) /\ peer[f].cmd.op # "sub"
  BY DEF SimPlug, Takes
<1>2. id \in Id /\ SimDev[id] \in Device
  BY DriverAssumption
<1>3. PICK a, b : a = Gone(id) /\ b = DevIs(SimDev[id])
  OBVIOUS
<1>4. a \in Line /\ b \in Line
  BY <1>2, <1>3 DEF Gone, DevIs, Line
<1>5. PICK old \in Seq(Line) : old = IF table[id] = None THEN <<>> ELSE <<a>>
  <2>1. (IF table[id] = None THEN <<>> ELSE <<a>>) \in Seq(Line)
    BY <1>4
  <2> QED BY <2>1
<1>6. Len(old) <= 1 /\ Len(old) \in Nat
  <2>1. Len(<<>>) = 0 /\ Len(<<a>>) = 1
    OBVIOUS
  <2> QED BY <1>5, <2>1
<1>7. PICK events : events = old \o <<b>>
  OBVIOUS
<1>8. events \in Seq(Line) /\ Len(events) = Len(old) + 1
  BY <1>4, <1>7
<1>9. Len(events) <= 2 * Cardinality(Id)
  <2>1. Cardinality(Id) # 0
    BY <1>2, DumpFits, FS_EmptySet
  <2>2. PICK c \in Nat : c = Cardinality(Id)
    BY BurstNat
  <2>3. 2 <= 2 * c
    BY <2>1, <2>2
  <2> QED BY <1>6, <1>8, <2>2, <2>3
<1>10. PICK B, L, ids : /\ ids = {id} /\ B = Broadcast(Taken(f), events)
                        /\ L = Lose(B, ids)
  OBVIOUS
<1>11. peer' = Send(L, f, <<Ok>>)
  BY <1>3, <1>5, <1>7, <1>10 DEF SimPlug
<1> QED BY <1>1, <1>8, <1>9, <1>10, <1>11, EventsServe

LEMMA StartSimServes ==
  ASSUME IInv, NEW f \in Fds, NEW id \in Id, StartSim(f, id)
  PROVE  Serves(f)
<1>1. Open(f) /\ peer[f].cmd.op # "sub"
  BY DEF StartSim, Takes
<1>2. Sound(peer) /\ table \in Table
  BY InParts DEF Parts
<1>3. PICK dev : dev = [table[id] EXCEPT !.aoapPid = TRUE, !.adb = FALSE,
                                         !.accessory = TRUE]
  OBVIOUS
<1>4. dev \in Device
  <2>1. table[id] \in Device
    BY <1>2 DEF StartSim, MayCtrl, Table
  <2> QED BY <1>3, <2>1 DEF Device
<1>5. PICK a, b : a = Gone(id) /\ b = DevIs(dev)
  OBVIOUS
<1>6. a \in Line /\ b \in Line
  BY <1>4, <1>5 DEF Gone, DevIs, Line
<1>7. PICK events : events = <<a, b>>
  OBVIOUS
<1>8. events \in Seq(Line) /\ Len(events) = 2
  BY <1>6, <1>7
<1>9. Len(events) <= 2 * Cardinality(Id)
  <2>1. Cardinality(Id) # 0
    BY DumpFits, FS_EmptySet
  <2>2. PICK c \in Nat : c = Cardinality(Id)
    BY BurstNat
  <2>3. 2 <= 2 * c
    BY <2>1, <2>2
  <2> QED BY <1>8, <2>2, <2>3
<1>10. PICK B, ids : B = Broadcast(Taken(f), events) /\ ids = {}
  OBVIOUS
<1>11. peer' = Send(B, f, <<Ok>>)
  BY <1>3, <1>5, <1>7, <1>10 DEF StartSim
<1> QED BY <1>1, <1>2, <1>8, <1>9, <1>10, <1>11, EventsServe

LEMMA DumpReplies ==
  ASSUME NEW answer, NEW tab, NEW n, Dumps(answer, tab, n)
  PROVE  answer \in Seq(Line) /\ HasReply(answer) /\ Len(answer) <= Burst
<1>1. answer \in Seq(Line) /\ n \in Nat /\ Len(answer) = n + 1
  BY DEF Dumps, Reports
<1>2. n + 1 \in 1..Len(answer)
  BY <1>1
<1>3. HasReply(answer)
  BY <1>2 DEF Dumps, HasReply
<1>4. PICK c \in Nat : c = Cardinality(Id)
  BY BurstNat
<1>5. n <= c
  BY <1>4 DEF Dumps
<1>6. n + 1 <= 2 * c + 1
  BY <1>1, <1>5
<1> QED BY <1>1, <1>3, <1>4, <1>6 DEF Burst

LEMMA ListServes ==
  ASSUME IInv, NEW f \in Fds, List(f)
  PROVE  Serves(f)
<1>1. Open(f) /\ peer[f].cmd.op # "sub"
  BY DEF List, Takes
<1>2. Sound(peer) /\ table \in Table /\ ById(table)
  BY InParts DEF Parts
<1>3. PICK P : P = Taken(f)
  OBVIOUS
<1>4. Ready(P, f) /\ Dump(f, P)
  BY <1>1, <1>2, <1>3, TakenReady DEF List
<1>5. PICK answer, n : Dumps(answer, table, n) /\ peer' = Send(P, f, answer)
  BY <1>2, <1>4, DumpAnswers
<1>6. answer \in Seq(Line) /\ HasReply(answer) /\ Len(answer) <= Burst
  BY <1>5, DumpReplies
<1> QED BY <1>1, <1>2, <1>4, <1>5, <1>6, AnswerServes

LEMMA SimUnplugServes ==
  ASSUME IInv, NEW f \in Fds, SimUnplug(f)
  PROVE  Serves(f)
<1>1. Open(f) /\ peer[f].cmd.op # "sub"
  BY DEF SimUnplug, Takes
<1>2. Sound(peer) /\ table \in Table
  BY InParts DEF Parts
<1>3. PICK lost \in SUBSET Id :
        \E gone \in SetToSeqs(lost) :
          peer' = Send(Lose(Broadcast(Taken(f), GoneLines(gone)), lost),
                       f, <<Ok>>)
  <2> DEFINE ids  == IF peer[f].cmd.op = "clear" THEN SimId
                     ELSE {peer[f].cmd.id} \cap SimId
             lost == {id \in ids : table[id] # None}
  <2>1. ids \in SUBSET Id /\ lost \in SUBSET Id
    BY DriverAssumption
  <2> QED BY <2>1 DEF SimUnplug
<1>4. PICK gone \in SetToSeqs(lost) :
        peer' = Send(Lose(Broadcast(Taken(f), GoneLines(gone)), lost),
                     f, <<Ok>>)
  BY <1>3
<1>5. PICK events, new, tab :
        /\ events = GoneLines(gone) /\ tab = table
        /\ new = [id \in Id |-> IF id \in lost THEN None ELSE tab[id]]
  OBVIOUS
<1>6. News(events, tab, new) /\ Len(events) <= Cardinality(Id)
  BY <1>2, <1>5, LostNews
<1>7. events \in Seq(Line)
  BY <1>6 DEF News
<1>8. Len(events) <= 2 * Cardinality(Id)
  <2>1. PICK c \in Nat, n \in Nat : c = Cardinality(Id) /\ n = Len(events)
    BY <1>7, BurstNat
  <2>2. n <= 2 * c
    BY <1>6, <2>1
  <2> QED BY <2>1, <2>2
<1>9. PICK B, L : B = Broadcast(Taken(f), events) /\ L = Lose(B, lost)
  OBVIOUS
<1>10. peer' = Send(L, f, <<Ok>>)
  BY <1>4, <1>5, <1>9
<1> QED BY <1>1, <1>2, <1>7, <1>8, <1>9, <1>10, EventsServe

LEMMA SubscribeServes ==
  ASSUME IInv, NEW f \in Fds, Subscribe(f)
  PROVE  Serves(f)
<1>1. Open(f) /\ peer[f].cmd.op = "sub"
  BY DEF Subscribe, Takes
<1>2. Sound(peer) /\ table \in Table /\ ById(table)
  BY InParts DEF Parts
<1>3. PICK p \in Peer : p = peer[f]
  BY <1>1, <1>2 DEF Sound, Open
<1>4. PICK v \in Table : v = IF p.sub THEN p.view ELSE NoDevices
  <2>1. NoDevices \in Table
    BY DEF NoDevices, Table
  <2>2. (IF p.sub THEN p.view ELSE NoDevices) \in Table
    BY <2>1, PeerFields
  <2> QED BY <2>2
<1>5. PICK P : P = Subscribing(f, v)
  OBVIOUS
<1>6. Subscribed(P, f, v)
  BY <1>1, <1>2, <1>5, SubscribingSound
<1>7. Dump(f, P)
  <2>1. PICK T : T = Taken(f)
    OBVIOUS
  <2>2. T \in [Fds -> Peer \cup {None}] /\ T[f] \in Peer
        /\ T[f].view = peer[f].view
    BY <1>1, <1>2, <2>1, TakenReady DEF Ready, Sound
  <2>3. P = [T EXCEPT ![f].sub = TRUE,
                      ![f].view = IF peer[f].sub THEN @ ELSE NoDevices]
    BY <1>3, <1>4, <1>5, <2>1, <2>2 DEF Subscribing, Peer
  <2> QED BY <2>1, <2>3 DEF Subscribe
<1>8. PICK answer, n : Dumps(answer, table, n) /\ peer' = Send(P, f, answer)
  BY <1>2, <1>7, DumpAnswers
<1>9. answer \in Seq(Line) /\ HasReply(answer) /\ Len(answer) <= Burst
  BY <1>8, DumpReplies
<1>10. PICK Q : Q = peer'
  OBVIOUS
<1>11. /\ Closes(Q[f], P[f])
       /\ Clear(P, f, Len(answer)) => Q[f] # None /\ Delivered(Q[f], P[f])
  <2>1. Sound(P) /\ P[f] # None /\ Q = Send(P, f, answer)
    BY <1>6, <1>8, <1>10 DEF Subscribed
  <2> QED BY <1>9, <2>1, AnswerDelivered
<1>12. ASSUME HasRoom(f) PROVE Clear(P, f, Len(answer))
  <2>1. PICK l \in Nat, m \in Nat : l = Len(p.out) /\ m = Len(answer)
    <3>1. Len(p.out) \in Nat /\ Len(answer) \in Nat
      BY <1>9, PeerFields
    <3> QED BY <3>1
  <2>2. l + Burst <= Cap /\ m <= Burst
    BY <1>3, <1>9, <1>12, <2>1 DEF HasRoom
  <2>3. l + m <= Cap
    BY <2>2, BurstNat
  <2> QED BY <1>3, <1>6, <1>12, <2>1, <2>3 DEF Clear, Subscribed, HasRoom
<1>13. ASSUME HasRoom(f) PROVE Served(Q[f], peer[f])
  BY <1>1, <1>3, <1>4, <1>6, <1>11, <1>12, <1>13
     DEF Served, Delivered, Subscribed
<1>14. Closes(Q[f], peer[f])
  BY <1>6, <1>11 DEF Closes, Subscribed
<1> QED BY <1>10, <1>11, <1>12, <1>13, <1>14 DEF Serves

LEMMA HandleLineServes ==
  ASSUME IInv, NEW f \in Fds, HandleLine(f)
  PROVE  Open(f) /\ peer[f].cmd # None /\ Serves(f)
<1>1. Open(f) /\ peer[f].cmd # None
  BY DEF HandleLine, Subscribe, List, SimUnplug, SimPlug, Claim, Release,
         CtrlRefused, CtrlSim, StartSim, CtrlReal, Takes
<1>2. Sound(peer)
  BY InParts DEF Parts
<1>3. CASE Subscribe(f) \/ List(f) \/ SimUnplug(f)
  BY <1>1, <1>3, SubscribeServes, ListServes, SimUnplugServes
<1>4. CASE \E id \in SimId : SimPlug(f, id)
  BY <1>1, <1>2, <1>4, SimPlugServes
<1>5. CASE \E id \in Id :
             \/ Claim(f, id) \/ Release(f, id)
             \/ CtrlRefused(f, id) \/ CtrlSim(f, id) \/ StartSim(f, id)
             \/ \E ok, protocol \in BOOLEAN : CtrlReal(f, id, ok, protocol)
  BY <1>1, <1>2, <1>5, ClaimServes, CtrlServes, StartSimServes
<1> QED BY <1>1, <1>3, <1>4, <1>5 DEF HandleLine

(* A scan leaves a connection with room as it is, but for the events.      *)
Watched(q, p) ==
  /\ Alike(q, p)
  /\ HasReply(p.out) => HasReply(q.out)
  /\ ~p.sub => q.out = p.out

LEMMA RefreshServes ==
  ASSUME IInv, Refresh, NEW f \in Fds, Open(f)
  PROVE  /\ peer'[f] # None => Watched(peer'[f], peer[f])
         /\ HasRoom(f) => peer'[f] # None
<1>1. Sound(peer)
  BY InParts DEF Parts
<1>2. PICK lost, events : Scanned(lost, events)
  BY RefreshTells
<1>3. PICK B, Q : B = Broadcast(peer, events) /\ Q = peer'
  OBVIOUS
<1>4. events \in Seq(Line) /\ Q = Lose(B, lost)
  BY <1>2, <1>3 DEF Scanned, News
<1>5. Sound(B) /\ Broadcasted(peer, B, events)
  BY <1>1, <1>3, <1>4, BroadcastStep
<1>6. Sound(Q) /\ Lost(B, Q, lost)
  BY <1>4, <1>5, LoseStep
<1>7. PICK p \in Peer : p = peer[f]
  BY <1>1 DEF Sound, Open
<1>8. ASSUME Q[f] # None PROVE Watched(Q[f], p)
  <2>1. B[f] # None /\ Carries(Q[f], B[f], <<>>)
    BY <1>6, <1>8 DEF Lost
  <2>2. PICK ev \in Seq(Line) : ev = IF p.sub THEN events ELSE <<>>
    <3>1. (IF p.sub THEN events ELSE <<>>) \in Seq(Line)
      BY <1>4
    <3> QED BY <3>1
  <2>3. Carries(B[f], p, ev)
    BY <1>5, <1>7, <2>1, <2>2 DEF Broadcasted
  <2>4. PICK o \in Seq(Line) : o = p.out
    BY PeerFields
  <2>5. Q[f].out = o \o ev
    <3>1. B[f] \in Peer /\ B[f].out = o \o ev
      BY <2>3, <2>4 DEF Carries
    <3>2. B[f].out \o <<>> = B[f].out
      BY <3>1, PeerFields
    <3> QED BY <2>1, <3>1, <3>2 DEF Carries
  <2>6. HasReply(o) => HasReply(o \o ev)
    <3>1. \A i \in 1..Len(o) : i \in 1..Len(o \o ev) /\ (o \o ev)[i] = o[i]
      OBVIOUS
    <3> QED BY <3>1 DEF HasReply
  <2>7. ~p.sub => o \o ev = o
    BY <2>2
  <2>8. Alike(Q[f], p)
    BY <2>1, <2>3 DEF Carries, Alike
  <2> QED BY <2>4, <2>5, <2>6, <2>7, <2>8 DEF Watched
<1>9. ASSUME HasRoom(f) PROVE Q[f] # None
  <2>1. PICK c \in Nat, l \in Nat, n \in Nat :
          c = Cardinality(Id) /\ l = Len(p.out) /\ n = Len(events)
    <3>1. Len(p.out) \in Nat /\ Len(events) \in Nat
      BY <1>4, PeerFields
    <3> QED BY <3>1, BurstNat
  <2>2. l + (2 * c + 1) <= Cap /\ n <= 2 * c
    BY <1>2, <1>7, <1>9, <2>1 DEF HasRoom, Burst, Scanned
  <2>3. l + (n + 0) <= Cap
    BY <2>2, BurstNat
  <2>4. Clear(peer, f, Len(events) + 0)
    BY <1>1, <1>7, <1>9, <2>1, <2>3 DEF Clear, HasRoom, Open
  <2>5. Clear(B, f, 0)
    BY <1>3, <1>4, <2>4, BroadcastClear
  <2> QED BY <1>4, <2>5, LoseStays DEF Clear
<1> QED BY <1>3, <1>7, <1>8, <1>9


-----------------------------------------------------------------------------
(* The client's side of a connection, field by field: what its own steps   *)
(* change, and how it may count replies.                                   *)
Requested(q, p, cmd) ==
  /\ q \in Peer /\ q.cmd = cmd /\ q.waits = TRUE
  /\ q.sub = p.sub /\ q.out = p.out /\ q.hup = p.hup /\ q.view = p.view

LEMMA ClientSendPeer ==
  ASSUME IInv, NEW f \in Fds, NEW cmd \in Command, ClientSend(f, cmd)
  PROVE  Open(f) /\ Requested(peer'[f], peer[f], cmd)
<1>1. Sound(peer)
  BY InParts DEF Parts
<1>2. PICK p \in Peer : p = peer[f]
  BY <1>1 DEF Sound, ClientSend, Listens, Open
<1>3. PICK q : q = [p EXCEPT !.cmd = cmd, !.waits = TRUE]
  OBVIOUS
<1>4. Requested(q, p, cmd)
  BY <1>3 DEF Peer, Requested
<1>5. peer'[f] = q
  BY <1>1, <1>2, <1>3 DEF ClientSend, Sound
<1> QED BY <1>2, <1>4, <1>5 DEF ClientSend, Listens

HasRead(q, p, line) ==
  /\ p.out # <<>> /\ line = Head(p.out)
  /\ q \in Peer /\ q.sub = p.sub /\ q.cmd = p.cmd /\ q.hup = p.hup
  /\ q.out = Tail(p.out)
  /\ q.view = IF p.sub THEN See(p.view, line) ELSE p.view
  /\ q.waits = (p.waits /\ line.op # "reply")

LEMMA ClientReadPeer ==
  ASSUME IInv, NEW f \in Fds, ClientRead(f)
  PROVE  Listens(f) /\ \E line \in Line : HasRead(peer'[f], peer[f], line)
<1>1. Sound(peer)
  BY InParts DEF Parts
<1>2. PICK p \in Peer : p = peer[f]
  BY <1>1 DEF Sound, ClientRead, Listens, Open
<1>3. p.out \in Seq(Line) /\ p.out # <<>> /\ p.view \in Table
      /\ p.waits \in BOOLEAN /\ p.sub \in BOOLEAN
  BY <1>2, PeerFields DEF ClientRead
<1>4. PICK line \in Line, tail \in Seq(Line) :
        line = Head(p.out) /\ tail = Tail(p.out)
  <2>1. Head(p.out) \in Line /\ Tail(p.out) \in Seq(Line)
    BY <1>3
  <2> QED BY <2>1
<1>5. PICK view \in Table : view = IF p.sub THEN See(p.view, line) ELSE p.view
  BY <1>3, SeeTells
<1>6. PICK waits \in BOOLEAN : waits = (p.waits /\ line.op # "reply")
  <2>1. (p.waits /\ line.op # "reply") \in BOOLEAN
    OBVIOUS
  <2> QED BY <2>1
<1>7. PICK q : q = [p EXCEPT !.out = tail, !.view = view, !.waits = waits]
  OBVIOUS
<1>8. /\ q \in Peer /\ q.sub = p.sub /\ q.cmd = p.cmd /\ q.hup = p.hup
      /\ q.out = tail /\ q.view = view /\ q.waits = waits
  BY <1>7 DEF Peer
<1>9. peer'[f] = q
  <2>1. peer' = [peer EXCEPT ![f].out = Tail(@),
                             ![f].view = IF peer[f].sub THEN See(@, line)
                                                        ELSE @,
                             ![f].waits = @ /\ line.op # "reply"]
    BY <1>2, <1>4 DEF ClientRead
  <2>2. peer'[f] = [p EXCEPT !.out = Tail(@),
                             !.view = IF p.sub THEN See(@, line) ELSE @,
                             !.waits = @ /\ line.op # "reply"]
    BY <1>1, <1>2, <2>1 DEF Sound
  <2> QED BY <1>4, <1>5, <1>6, <1>7, <2>2 DEF Peer
<1>10. HasRead(q, p, line)
  BY <1>3, <1>4, <1>5, <1>6, <1>8 DEF HasRead
<1> QED BY <1>2, <1>9, <1>10 DEF ClientRead

LEMMA AcceptPeer ==
  ASSUME IInv, Accept
  PROVE  \E f \in Fds : ~Open(f) /\ peer' = [peer EXCEPT ![f] = NewPeer]
<1>1. PICK free : free = {f \in Fds : ~Open(f)}
  OBVIOUS
<1>2. free # {} /\ peer' = [peer EXCEPT ![Min(free)] = NewPeer]
  BY <1>1 DEF Accept
<1>3. free \in SUBSET Nat
  BY <1>1, DriverAssumption DEF Fds
<1>4. Min(free) \in free
  BY <1>2, <1>3, MinIs
<1> QED BY <1>1, <1>2, <1>4

(* A reply is counted once.                                                *)
LEMMA RepliesCounted ==
  ASSUME IInv, NEW f \in Fds, Open(f)
  PROVE  /\ Replies(f) = 1 <=> HasReply(peer[f].out)
         /\ HasReply(peer[f].out) => peer[f].waits /\ peer[f].cmd = None
<1>1. Answers(peer[f])
  BY InParts DEF Parts, Peers, PeerInv, Open
<1>2. PICK at : at = {i \in 1..Len(peer[f].out) : peer[f].out[i].op = "reply"}
  OBVIOUS
<1>3. Replies(f) = Cardinality(at) /\ (HasReply(peer[f].out) <=> at # {})
  BY <1>2 DEF Replies, HasReply
<1>4. CASE at = {}
  <2>1. Cardinality(at) = 0
    BY <1>4, FS_EmptySet
  <2> QED BY <1>3, <1>4, <2>1
<1>5. CASE at # {}
  <2>1. PICK i : i \in at
    BY <1>5
  <2>2. peer[f].waits /\ peer[f].cmd = None /\ at = {i}
    BY <1>1, <1>2, <2>1 DEF Answers
  <2>3. Cardinality(at) = 1
    BY <2>2, FS_Singleton
  <2> QED BY <1>3, <1>5, <2>2, <2>3
<1> QED BY <1>4, <1>5

(* Who knows at least what `view` says ends up with the devices it tells.  *)
LEMMA OneBelief ==
  ASSUME NEW view \in Table, NEW s \in Seq(Line), NEW id \in Id, NEW d,
         Believes(view, s, id, d)
  PROVE  FoldLeft(See, view, s)[id] = d
<1> PICK read : read = FoldLeft(See, view, s)
  OBVIOUS
<1>1. Believes(view, s, id, read[id])
  BY SeeAll DEF Tells
<1>2. PICK n \in Nat : n = Len(s)
  OBVIOUS
<1>3. \A i, j \in 1..n : i = j \/ j \in i + 1..n \/ i \in j + 1..n
  OBVIOUS
<1> QED BY <1>1, <1>2, <1>3 DEF Believes

(* The assumptions, for the modules that compose this one with others.     *)
LEMMA Constants ==
  /\ IsFiniteSet(Id) /\ Cap \in Nat /\ Cap # 0
  /\ None \notin Device /\ None \notin Command /\ None \notin Peer
  /\ SimId \subseteq Id
  /\ \A dev \in BusDevs : dev \in Device /\ dev.id \in RealId
BY DumpFits, NoneIsNothing, DriverAssumption
===============================================================================
