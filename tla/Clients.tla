------------------------------- MODULE Clients --------------------------------
(***************************************************************************)
(* The clients of usb-manager.sock: the applications that show the session *)
(* (usb-panel and cluster, which share hupi_link), the tool hupi-ctl, and  *)
(* the manager's side of their connections (g_peers, publish, drain_client *)
(* and handle_client).                                                     *)
(*                                                                         *)
(* Lines travel as bytes, so that a read may end in the middle of one: a   *)
(* line is one character and LF here, a state line the session's value, a  *)
(* `stream` or `touch` command the value it gives the session.  On Unix    *)
(* stream sockets a line is sent as a whole or, when the buffer is full or *)
(* the other end closed, not at all.                                       *)
(*                                                                         *)
(* Between two rounds of its poll loop the manager may die and be started  *)
(* again.  All its actions are handlers; their order in a round, and which *)
(* of several ready connections comes first, are left open.                *)
(***************************************************************************)
EXTENDS Wire

CONSTANTS Apps,      \* the applications that subscribe and keep trying
          Tools,     \* runs of hupi-ctl, each one command
          Values,    \* what the session may be: the characters of state lines
          Initial,   \* the session of a manager that has just been started
          MaxPeer,   \* MAX_PEER, slots for clients (8)
          SockBuf,   \* bytes a socket holds in each direction
          Backlog,   \* connections that wait for accept: listen(fd, 8)
          PeerBuf,   \* hupi_peer_t's buffer (2048)
          Presses,   \* how often a button is pressed, and
          Crashes,   \* how often the manager dies (bounds of the model)
          None

Clients == Apps \cup Tools
Slots == 1..MaxPeer

SUB    == 115    \* sub
STATUS == 63     \* status
OK     == 111    \* ok
Text(c) == <<c, LF>>

Bytes == Values \cup {SUB, STATUS, OK, LF}
Rx == [rest : Seq(Bytes), buf : Seq(Bytes)]

(* The two ends of a connection: an element of g_peers, and a hupi_link.   *)
Peer == [owner : Clients \cup {None}, sub : BOOLEAN, rx : Rx]
Link == [rx : Rx, ended : BOOLEAN]

ASSUME ClientsAssumption ==
  /\ Apps \cap Tools = {}
  /\ None \notin Clients /\ None \notin Peer /\ None \notin Link
  /\ Values \subseteq 48..57 /\ Initial \in Values
  /\ MaxPeer \in Nat \ {0} /\ Backlog \in Nat \ {0}
  /\ Presses \in Nat /\ Crashes \in Nat
  /\ SockBuf \in Nat /\ SockBuf >= 2    \* room for a line
  /\ PeerBuf \in Nat /\ PeerBuf >= 2

VARIABLES session,  \* what usbman_state_line says of g_session
          backlog,  \* connections not accepted yet
          slot,     \* g_peers
          link,     \* a client's end: hupi_link, or hupi-ctl's peer
          shown,    \* what an application shows, how a tool ended
          presses,
          crashes

vars == <<session, backlog, slot, link, shown, presses, crashes>>

(* The manager's end of a connection: `owner` is the client at the other    *)
(* end, None once it closed it.                                            *)
NewPeer(c) == [owner |-> c, sub |-> FALSE, rx |-> Receiver(<<>>)]

(* The client's end: the bytes on their way and read, and whether the      *)
(* manager closed the connection.                                          *)
NewLink == [rx |-> Receiver(<<>>), ended |-> FALSE]

Init == /\ session = Initial
        /\ backlog = <<>>
        /\ slot = [s \in Slots |-> None]
        /\ link = [c \in Clients |-> None]
        /\ shown = [c \in Clients |-> None]
        /\ presses = 0
        /\ crashes = 0

Holds(rx, text) == Len(rx.rest) + Len(text) <= SockBuf

-----------------------------------------------------------------------------
(* The manager's globals while a handler runs: [session, slot, link].       *)
Ended(l, c) == IF c = None THEN l ELSE [l EXCEPT ![c].ended = TRUE]

(* close_peer, and the same statements in publish. *)
ClosePeer(g, s) == [g EXCEPT !.slot[s] = None,
                             !.link = Ended(@, g.slot[s].owner)]

Writable(g, s, text) == /\ g.slot[s].owner # None
                        /\ Holds(g.link[g.slot[s].owner].rx, text)

(* A reply is sent to the descriptor the command came from; what becomes of *)
(* it is not looked at.                                                    *)
Answer(g, s, text) ==
  IF g.slot[s] # None /\ Writable(g, s, text)
  THEN [g EXCEPT !.link[g.slot[s].owner].rx.rest = @ \o text] ELSE g

(* publish: a subscriber that cannot be written to is disconnected.        *)
Subscribers(g) == {s \in Slots : g.slot[s] # None /\ g.slot[s].sub}

PublishDrops(g) ==                  \* mutant: a full subscriber misses a line
  LET told == {g.slot[s].owner :
                 s \in {t \in Subscribers(g) : Writable(g, t, Text(g.session))}}
  IN [g EXCEPT !.link = [c \in Clients |->
        IF c \in told THEN [g.link[c] EXCEPT !.rx.rest = @ \o Text(g.session)]
        ELSE g.link[c]]]

Publish(g) ==
  LET reached == {s \in Subscribers(g) : Writable(g, s, Text(g.session))}
      closed  == Subscribers(g) \ reached
      told    == {g.slot[s].owner : s \in reached}
      cut     == {g.slot[s].owner : s \in closed}
  IN [g EXCEPT !.slot = [s \in Slots |-> IF s \in closed THEN None ELSE g.slot[s]],
               !.link = [c \in Clients |->
        IF c \in told THEN [g.link[c] EXCEPT !.rx.rest = @ \o Text(g.session)]
        ELSE IF c \in cut THEN [g.link[c] EXCEPT !.ended = TRUE]
        ELSE g.link[c]]]

(* handle_client.  The peer may have been closed by the publish of an      *)
(* earlier command of the same read; its buffer is empty then.             *)
HandleSubOnly(g, s, line) ==        \* mutant: sub does not send the state
  Answer(IF line[1] = SUB THEN [g EXCEPT !.slot[s].sub = TRUE]
         ELSE IF line[1] = STATUS THEN Answer(g, s, Text(g.session))
         ELSE Publish([g EXCEPT !.session = line[1]]), s, Text(OK))

HandleClient(g, s, line) ==
  Answer(IF line[1] = SUB
         THEN Answer([g EXCEPT !.slot[s].sub = TRUE], s, Text(g.session))
         ELSE IF line[1] = STATUS THEN Answer(g, s, Text(g.session))
         ELSE Publish([g EXCEPT !.session = line[1]]), s, Text(OK))

Globals == [session |-> session, slot |-> slot, link |-> link]

Becomes(g) == /\ session' = g.session
              /\ slot' = g.slot
              /\ link' = g.link

(* accept_client: without a free slot the connection is closed at once.    *)
Accept ==
  LET free == {s \in Slots : slot[s] = None}
      peer == Head(backlog)
  IN /\ backlog # <<>>
     /\ backlog' = Tail(backlog)
     /\ IF free # {} THEN /\ slot' = [slot EXCEPT ![Min(free)] = peer]
                          /\ UNCHANGED link
        ELSE /\ link' = Ended(link, peer.owner)
             /\ UNCHANGED slot
     /\ UNCHANGED <<session, shown, presses, crashes>>

(* drain_client: end of file, or one recv and all lines it completed.      *)
Served(g, s, lines) ==
  LET after[k \in 0..Len(lines)] ==
        IF k = 0 THEN {g}
        ELSE {IF h.slot[s] = None THEN h ELSE HandleClient(h, s, lines[k]) :
                h \in after[k - 1]}
  IN after[Len(lines)]

DrainClient(s) ==
  /\ slot[s] # None
  /\ \/ /\ slot[s].rx.rest = <<>> /\ slot[s].owner = None
        /\ Becomes(ClosePeer(Globals, s))
     \/ /\ slot[s].rx.rest # <<>>
        /\ \E rx \in {Recv(slot[s].rx, PeerBuf)} :
             LET n == Len(Ends(rx.buf))
                 g == [Globals EXCEPT !.slot[s].rx =
                         [rx EXCEPT !.buf = After(@, n)]]
             IN \E h \in Served(g, s, Pull(rx.buf, n, PeerBuf)) : Becomes(h)
  /\ UNCHANGED <<backlog, shown, presses, crashes>>

(* The driver's lines change the session and end in publish. *)
DriverLine(v) == /\ v # session
                 /\ Becomes(Publish([Globals EXCEPT !.session = v]))
                 /\ UNCHANGED <<backlog, shown, presses, crashes>>

(* The manager dies and is started again. *)
Crash == /\ crashes < Crashes
         /\ crashes' = crashes + 1
         /\ session' = Initial
         /\ slot' = [s \in Slots |-> None]
         /\ backlog' = <<>>
         /\ link' = [c \in Clients |->
                       IF link[c] = None THEN None
                       ELSE [link[c] EXCEPT !.ended = TRUE]]
         /\ UNCHANGED <<shown, presses>>

-----------------------------------------------------------------------------
(* The clients.  What a client does to its connection happens to the entry *)
(* of the manager it owns, accepted or not.                                *)
ToPeer(c, F(_)) ==
  LET G(p) == IF p # None /\ p.owner = c THEN F(p) ELSE p
  IN /\ slot' = [s \in Slots |-> G(slot[s])]
     /\ backlog' = [i \in 1..Len(backlog) |-> G(backlog[i])]

Orphan(c) == LET F(p) == [p EXCEPT !.owner = None] IN ToPeer(c, F)

(* hupi_link_close. *)
CloseLink(c) == /\ link' = [link EXCEPT ![c] = None]
                /\ Orphan(c)

(* hupi_link_open, and the first command: an application subscribes.       *)
FirstCommand(c) == IF c \in Apps THEN SUB ELSE STATUS

OpenKeepsBuffer(c) ==               \* mutant: what was read before is kept
  /\ link[c] = None /\ Len(backlog) < Backlog
  /\ link' = [link EXCEPT ![c] = [NewLink EXCEPT !.rx.buf = <<OK>>]]
  /\ backlog' = Append(backlog, [NewPeer(c) EXCEPT
                                   !.rx.rest = Text(FirstCommand(c))])
  /\ UNCHANGED <<session, slot, shown, presses, crashes>>

Open(c) ==
  /\ link[c] = None /\ Len(backlog) < Backlog
  /\ link' = [link EXCEPT ![c] = NewLink]
  /\ backlog' = Append(backlog, [NewPeer(c) EXCEPT
                                   !.rx.rest = Text(FirstCommand(c))])
  /\ UNCHANGED <<session, slot, shown, presses, crashes>>

(* hupi_link_send: a button or a touch; a failing send closes the link.    *)
Unsent(c) ==
  LET peers == {slot[s] : s \in Slots} \cup {backlog[i] : i \in 1..Len(backlog)}
  IN {p \in peers \ {None} : p.owner = c}

Press(c, v) ==
  /\ presses < Presses /\ presses' = presses + 1
  /\ link[c] # None
  /\ LET Sent(p) == [p EXCEPT !.rx.rest = @ \o Text(v)]
         fits == \A p \in Unsent(c) : Holds(p.rx, Text(v))
     IN IF link[c].ended \/ ~fits THEN CloseLink(c)
        ELSE /\ ToPeer(c, Sent)
             /\ UNCHANGED link
  /\ UNCHANGED <<session, shown, crashes>>

(* hupi_link_poll: a line that was read before, or a recv and a line of it. *)
(* hupi-ctl reads the same way.                                            *)
Buffered(c) == Ends(link[c].rx.buf) # <<>>

Filled(c) == IF Buffered(c) THEN link[c].rx ELSE Recv(link[c].rx, PeerBuf)

(* The line read, or <<>> if there is a part of one only. *)
LineOf(rx) == IF Ends(rx.buf) = <<>> THEN <<>> ELSE Pull(rx.buf, 1, PeerBuf)[1]

Keep(c, rx) == link' = [link EXCEPT ![c].rx.rest = rx.rest,
                 ![c].rx.buf = IF Ends(rx.buf) = <<>> THEN rx.buf
                               ELSE After(rx.buf, 1)]

Readable(c) == link[c] # None /\ (Buffered(c) \/ link[c].rx.rest # <<>>)

PollAnyLine(c) ==                   \* mutant: replies are taken for states
  /\ Readable(c)
  /\ \E rx \in {Filled(c)} :
       /\ Keep(c, rx)
       /\ shown' = [shown EXCEPT ![c] =
            IF LineOf(rx) # <<>> THEN LineOf(rx)[1] ELSE @]
  /\ UNCHANGED <<session, backlog, slot, presses, crashes>>

Poll(c) ==
  /\ Readable(c)
  /\ \E rx \in {Filled(c)} :
       /\ Keep(c, rx)
       /\ shown' = [shown EXCEPT ![c] =
            IF \E v \in Values : LineOf(rx) = <<v>> THEN LineOf(rx)[1] ELSE @]
  /\ UNCHANGED <<session, backlog, slot, presses, crashes>>

(* The end of file behind the last line. *)
LinkEnds(c) == /\ link[c] # None
               /\ ~Readable(c)
               /\ link[c].ended
               /\ CloseLink(c)
               /\ UNCHANGED <<session, shown, presses, crashes>>

App(c) == Open(c) \/ Poll(c) \/ LinkEnds(c)

(* hupi-ctl asks once, reads lines up to the reply, and exits with it, at   *)
(* the end of file or after two seconds of silence.                        *)
Exit(c, status) == /\ CloseLink(c)
                   /\ shown' = [shown EXCEPT ![c] = status]
                   /\ UNCHANGED <<session, presses, crashes>>

Tool(c) ==
  \/ shown[c] = None /\ Open(c)
  \/ /\ Readable(c)
     /\ \E rx \in {Filled(c)} :
          \/ LineOf(rx) = <<OK>> /\ Exit(c, 0)
          \/ /\ LineOf(rx) # <<OK>>
             /\ Keep(c, rx)
             /\ UNCHANGED <<session, backlog, slot, shown, presses, crashes>>
  \/ /\ link[c] # None /\ ~Readable(c)
     /\ Exit(c, 1)

-----------------------------------------------------------------------------
Next == \/ Accept
        \/ Crash
        \/ \E v \in Values : DriverLine(v)
        \/ \E s \in Slots : DrainClient(s)
        \/ \E c \in Apps : App(c) \/ \E v \in Values : Press(c, v)
        \/ \E c \in Tools : Tool(c)

(* The manager polls forever, the applications draw frame after frame, and *)
(* a tool runs to its end.  Buttons need not be pressed.                    *)
Fairness == /\ WF_vars(Accept)
            /\ \A s \in Slots : WF_vars(DrainClient(s))
            /\ \A c \in Apps : WF_vars(App(c))
            /\ \A c \in Tools : WF_vars(Tool(c))

Spec == Init /\ [][Next]_vars /\ Fairness

-----------------------------------------------------------------------------
(* Type correctness; sockets and buffers keep their sizes, and no client's  *)
(* buffer is ever full without a line.                                     *)
TypeOK ==
  /\ session \in Values
  /\ backlog \in Seq(Peer)
  /\ slot \in [Slots -> Peer \cup {None}]
  /\ link \in [Clients -> Link \cup {None}]
  /\ shown \in [Clients -> Values \cup {None, 0, 1}]
  /\ presses \in 0..Presses
  /\ crashes \in 0..Crashes
  /\ Len(backlog) <= Backlog
  /\ \A c \in Clients : link[c] # None => /\ Len(link[c].rx.rest) <= SockBuf
                                         /\ Len(link[c].rx.buf) <= PeerBuf
                                         /\ ~Stuck(link[c].rx.buf, PeerBuf)

(* What a client has not parsed yet: always whole lines, because a link    *)
(* that is opened again forgets the half line of the connection before     *)
(* (ui.c:266), and the manager sends whole lines only.                     *)
Pending(c) == link[c].rx.buf \o link[c].rx.rest

WholeLines ==
  \A c \in Clients : link[c] # None =>
    LET text == Pending(c)
    IN /\ Len(text) % 2 = 0
       /\ \A i \in 1..Len(text) : text[i] = LF <=> i % 2 = 0

(* A subscriber is never left with an outdated state: the last state line  *)
(* it was sent is the session's, whether it has read it or not.  One that  *)
(* could not be told is disconnected and subscribes anew (managerd.c:223). *)
Told(c) == LET states == {i \in 1..Len(Pending(c)) : Pending(c)[i] \in Values}
           IN IF states = {} THEN shown[c] ELSE Pending(c)[Max(states)]

SubscribersAreTold ==
  \A s \in Slots :
    slot[s] # None /\ slot[s].sub /\ slot[s].owner # None
      => Told(slot[s].owner) = session

(* Every application shows the session in the end, whatever happened       *)
(* before: full slots, full sockets, half-read lines, a tool that takes a  *)
(* slot, a manager that died.                                              *)
AppsCatchUp ==
  \A c \in Apps : \A v \in Values :
    <>[](session = v) => <>[](shown[c] = v)
=============================================================================
