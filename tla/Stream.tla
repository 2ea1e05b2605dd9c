------------------------------- MODULE Stream --------------------------------
(***************************************************************************)
(* The video path: the frame buffers of usb-managerd, the one consumer of  *)
(* usb-stream.sock and the poll loop that serves them; and the application *)
(* `cluster`, which cuts the stream into frames again and shows them.      *)
(*                                                                         *)
(* A frame is a number of pieces, the first ones its header; a send may    *)
(* stop and a recv may end behind any piece.                               *)
(*                                                                         *)
(* A round of the loop prepares a frame, polls, and then works through the *)
(* array poll filled in: the listening socket of the stream, the driver's  *)
(* connection, whose lines may change the session, the consumer, and the   *)
(* clients.  What poll reported of the consumer is kept in `revents`      *)
(* until its turn; by then the session and the consumer may be others.     *)
(***************************************************************************)
EXTENDS Naturals, Sequences, FiniteSets, FiniteSetsExt

CONSTANTS Sources,   \* the phones a media backend can run for
          MediaLen,  \* pieces of the frames of a phone's backend
          FrameLen,  \* pieces of an RGB frame, the size of every buffer
          Header,    \* pieces of a frame's header
          PipeLen,   \* pieces the socket of a consumer holds
          Consumers, \* the connections clients make to the stream, 1..n
          None

ASSUME StreamAssumption ==
  /\ None \notin Sources /\ None \notin Consumers
  /\ Consumers = 1..Cardinality(Consumers) /\ IsFiniteSet(Consumers)
  /\ Header \in Nat \ {0} /\ PipeLen \in Nat \ {0}
  /\ FrameLen \in Nat /\ FrameLen > Header
  /\ MediaLen \in [Sources -> Header + 1..FrameLen]

VARIABLES source,   \* the phone of the backend; None if not streaming
          ready,    \* g_media_ready and the source of g_media_frame
          frame,    \* g_frame: [src, bit, len], busy and offset
          consumer, \* g_stream_fd, None for -1
          pc,       \* the entry of the poll array the round has got to
          revents,  \* what poll reported of the consumer
          backlog,  \* connections not accepted yet
          sock,     \* per connection: what its client and the kernel know
          app,      \* the cluster: g_stream, g_acc and the frame it shows
          pipe      \* the pieces in the socket of the cluster's connection

manager == <<source, ready, frame, consumer, pc, revents>>
vars == <<manager, backlog, sock, app, pipe>>

NoFrame == [src |-> None, bit |-> 0, len |-> FrameLen, busy |-> FALSE,
            off |-> 0]

(* g_frame_busy = 0: what is left in the buffer is not used again. *)
Idle == [NoFrame EXCEPT !.bit = frame.bit]

(* A connection: made by its client, closed by it, closed by the daemon,   *)
(* its buffer full if it is not the cluster's.                             *)
NewSock == [used |-> FALSE, hup |-> FALSE, cut |-> FALSE, full |-> FALSE]

NewApp == [fd |-> None, acc |-> <<>>, shown |-> None]

Init == /\ source = None
        /\ ready = None
        /\ frame = NoFrame
        /\ consumer = None
        /\ pc = "top"
        /\ revents = {}
        /\ backlog = <<>>
        /\ sock = [c \in Consumers |-> NewSock]
        /\ app = NewApp
        /\ pipe = <<>>

-----------------------------------------------------------------------------
(* consider_frame.  The backend's poll may deliver a frame, which replaces  *)
(* one not taken yet.  Without one the loop draws an RGB frame of its own   *)
(* when 100 ms have gone by.                                               *)
Begin(src, len) == frame' = [src |-> src, bit |-> 1 - frame.bit, len |-> len,
                             busy |-> TRUE, off |-> 0]

(* hu_aa_poll and hu_carplay_poll: every 100 ms a frame. *)
Delivered == IF source = None THEN {ready} ELSE {ready, source}

ConsiderFrame ==
  \E r \in Delivered :
    \/ /\ consumer = None \/ frame.busy \/ source = None
       /\ ready' = r
       /\ UNCHANGED frame
    \/ /\ consumer # None /\ ~frame.busy /\ source # None
       /\ r # None
       /\ Begin(r, MediaLen[r])
       /\ ready' = None
    \/ /\ consumer # None /\ ~frame.busy /\ source # None
       /\ r = None
       /\ ready' = None
       /\ \/ Begin(source, FrameLen)
          \/ UNCHANGED frame

(* The top of the loop up to poll(), which asks for POLLOUT only for a     *)
(* frame on its way.                                                       *)
Full(c) == IF c = app.fd THEN Len(pipe) >= PipeLen ELSE sock[c].full

ReportedClosed(c) == {e \in {"HUP"} : sock[c].hup} \* mutant: no POLLOUT

Reported(c) == {e \in {"HUP", "OUT"} : \/ e = "HUP" /\ sock[c].hup
                                       \/ e = "OUT" /\ frame'.busy
                                                    /\ ~Full(c)}

Poll == /\ pc = "top"
        /\ ConsiderFrame
        /\ revents' = IF consumer = None THEN {} ELSE Reported(consumer)
        /\ pc' = IF backlog # <<>> THEN "accept" ELSE "lines"
        /\ UNCHANGED <<source, consumer, backlog, sock, app, pipe>>

(* accept_stream: the new consumer replaces the old one. *)
Cut(c, S) == IF c = None THEN S
             ELSE [S EXCEPT ![c].cut = TRUE, ![c].full = FALSE]

AcceptStreamMidFrame ==              \* mutant: goes on with the frame
  /\ pc = "accept"
  /\ backlog # <<>>
  /\ consumer' = Head(backlog)
  /\ backlog' = Tail(backlog)
  /\ sock' = Cut(consumer, sock)
  /\ pc' = "lines"
  /\ UNCHANGED <<source, ready, frame, revents, app, pipe>>

AcceptStream ==
  /\ pc = "accept"
  /\ backlog # <<>>
  /\ consumer' = Head(backlog)
  /\ backlog' = Tail(backlog)
  /\ sock' = Cut(consumer, sock)
  /\ frame' = Idle
  /\ pc' = "lines"
  /\ UNCHANGED <<source, ready, revents, app, pipe>>

(* A line of the driver or of a client that ends in publish: media_sync    *)
(* creates the backend of the session or destroys the one there was, with  *)
(* the frame it delivered last.  Clients' lines come after the consumer's  *)
(* entry, at the top of the next round.                                    *)
MediaSyncKeepsFrame(src) ==          \* mutant: the last frame is kept
  /\ pc \in {"top", "lines"}
  /\ src # source
  /\ source' = src
  /\ UNCHANGED <<ready, frame, consumer, pc, revents, backlog, sock, app, pipe>>

MediaSync(src) ==
  /\ pc \in {"top", "lines"}
  /\ src # source
  /\ source' = src
  /\ ready' = None
  /\ UNCHANGED <<frame, consumer, pc, revents, backlog, sock, app, pipe>>

(* The consumer's entry of the array, if it had one. *)
DropKeepsFd ==                       \* mutant: the descriptor stays in use
  /\ sock' = Cut(consumer, sock)
  /\ frame' = Idle
  /\ UNCHANGED <<consumer, pipe>>

Drop == /\ sock' = Cut(consumer, sock)
        /\ consumer' = None
        /\ frame' = Idle
        /\ UNCHANGED pipe

(* drain_stream_write: send() takes some of the rest of the frame.         *)
Piece(k) == [src |-> frame.src, bit |-> frame.bit, len |-> frame.len, part |-> k]

DrainStreamWrite ==
  \E n \in 1..frame.len - frame.off :
    /\ frame' = IF frame.off + n < frame.len THEN [frame EXCEPT !.off = @ + n]
                ELSE Idle
    /\ IF consumer = app.fd
       THEN /\ Len(pipe) + n <= PipeLen
            /\ pipe' = pipe \o [i \in 1..n |-> Piece(frame.off + i)]
            /\ UNCHANGED sock
       ELSE /\ \E full \in BOOLEAN : sock' = [sock EXCEPT ![consumer].full = full]
            /\ UNCHANGED pipe
    /\ UNCHANGED consumer

Writes == consumer # None /\ "OUT" \in revents /\ frame.busy

StreamClient ==
  /\ pc = "lines"
  /\ pc' = "top"
  /\ revents' = {}
  /\ \/ "HUP" \in revents /\ Drop
     \/ "HUP" \notin revents /\ Writes /\ ~sock[consumer].hup
                             /\ DrainStreamWrite
     \/ "HUP" \notin revents /\ Writes /\ sock[consumer].hup /\ Drop
     \/ /\ "HUP" \notin revents /\ ~Writes
        /\ UNCHANGED <<frame, consumer, sock, pipe>>
  /\ UNCHANGED <<source, ready, backlog, app>>

-----------------------------------------------------------------------------
(* Clients of the stream: the cluster, and others that read what comes.    *)
Connect(c) ==
  /\ ~sock[c].used
  /\ \A d \in Consumers : d < c => sock[d].used
  /\ sock' = [sock EXCEPT ![c].used = TRUE]
  /\ backlog' = Append(backlog, c)
  /\ UNCHANGED manager

ClientConnect(c) == Connect(c) /\ UNCHANGED <<app, pipe>>

Others == {c \in Consumers : /\ c # app.fd /\ sock[c].used
                              /\ ~sock[c].hup /\ ~sock[c].cut}

ClientClose(c) ==
  /\ c \in Others
  /\ sock' = [sock EXCEPT ![c].hup = TRUE]
  /\ UNCHANGED <<manager, backlog, app, pipe>>

ClientRead(c) ==
  /\ c \in Others /\ sock[c].full
  /\ sock' = [sock EXCEPT ![c].full = FALSE]
  /\ UNCHANGED <<manager, backlog, app, pipe>>

(* take_stream of the cluster: connects, ...                               *)
AppConnect(c) ==
  /\ app.fd = None
  /\ Connect(c)
  /\ app' = [app EXCEPT !.fd = c, !.acc = <<>>]
  /\ UNCHANGED pipe

(* ... closes at the end of file, ...                                      *)
AppLeaves(a) == /\ sock' = [sock EXCEPT ![app.fd].hup = TRUE]
                /\ app' = a
                /\ pipe' = <<>>
                /\ UNCHANGED <<manager, backlog>>

AppEnds == /\ app.fd # None
           /\ sock[app.fd].cut
           /\ pipe = <<>>
           /\ AppLeaves([app EXCEPT !.fd = None, !.acc = <<>>])

(* ... and works through what it received: a whole frame in front is taken *)
(* and shown, a piece that is no header thrown away.                       *)
IsHeader(acc) == \A k \in 1..Header : acc[k] = [acc[1] EXCEPT !.part = k]

CompleteLate(acc) ==                 \* mutant: waits for one more piece
  Len(acc) >= Header /\ IsHeader(acc) /\ Len(acc) > acc[1].len

Complete(acc) == Len(acc) >= Header /\ IsHeader(acc) /\ Len(acc) >= acc[1].len

Parsed(acc) ==
  IF Len(acc) < Header THEN acc
  ELSE IF ~IsHeader(acc) THEN Tail(acc)
  ELSE IF Complete(acc) THEN SubSeq(acc, acc[1].len + 1, Len(acc)) ELSE acc

TakeStream ==
  /\ app.fd # None
  /\ pipe # <<>>
  /\ Len(app.acc) < FrameLen
  /\ LET n   == Min({Len(pipe), FrameLen - Len(app.acc)})
         acc == app.acc \o SubSeq(pipe, 1, n)
     IN /\ pipe' = SubSeq(pipe, n + 1, Len(pipe))
        /\ app' = [app EXCEPT !.acc = Parsed(acc),
                     !.shown = IF Complete(acc)
                               THEN [src |-> acc[1].src, bit |-> acc[1].bit]
                               ELSE @]
  /\ UNCHANGED <<manager, backlog, sock>>

(* The cluster is closed, and may be started again. *)
AppExits == app.fd # None /\ AppLeaves(NewApp)

Loop == \/ Poll \/ AcceptStream \/ StreamClient

Next == \/ Loop
        \/ \E src \in Sources \cup {None} : MediaSync(src)
        \/ \E c \in Consumers : \/ ClientConnect(c) \/ ClientClose(c)
                                \/ ClientRead(c) \/ AppConnect(c)
        \/ AppEnds \/ TakeStream \/ AppExits

(* The daemon polls forever and time goes by: if again and again a frame   *)
(* could be begun, one is.  The cluster reads the stream in every frame it *)
(* draws while the session streams, other clients all the time.            *)
Fairness == /\ WF_vars(Loop)
            /\ SF_vars(Poll /\ frame'.busy /\ ~frame.busy)
            /\ WF_vars(source # None /\ (AppEnds \/ TakeStream))
            /\ \A c \in Consumers : WF_vars(ClientRead(c))

Spec == Init /\ [][Next]_vars /\ Fairness
-----------------------------------------------------------------------------
Video == [src : Sources, bit : {0, 1}]
Pieces == [src : Sources, bit : {0, 1}, len : 1..FrameLen, part : 1..FrameLen]

(* The video path's globals keep their types, buffers their sizes, and     *)
(* only a connection that the daemon has not closed is the consumer.       *)
TypeOK ==
  /\ source \in Sources \cup {None}
  /\ ready \in Sources \cup {None}
  /\ frame \in [src : Sources \cup {None}, bit : {0, 1}, len : 1..FrameLen,
                busy : BOOLEAN, off : 0..FrameLen]
  /\ consumer \in Consumers \cup {None}
  /\ pc \in {"top", "accept", "lines"}
  /\ revents \subseteq {"HUP", "OUT"}
  /\ backlog \in Seq(Consumers)
  /\ sock \in [Consumers -> [used : BOOLEAN, hup : BOOLEAN, cut : BOOLEAN,
                            full : BOOLEAN]]
  /\ app \in [fd : Consumers \cup {None}, acc : Seq(Pieces),
              shown : Video \cup {None}]
  /\ Len(app.acc) <= FrameLen
  /\ pipe \in Seq(Pieces) /\ Len(pipe) <= PipeLen
  /\ consumer # None => sock[consumer].used /\ ~sock[consumer].cut

(* What the cluster has received and not taken yet is a sequence of whole  *)
(* frames, the last one perhaps on its way: it never meets a piece that is *)
(* no header where a frame should begin, and no frame comes twice or is    *)
(* left out, however consumers replace each other, sessions change in the  *)
(* middle of a frame and the cluster reconnects (managerd.c:732,           *)
(* cluster/main.c:61).                                                     *)
Follows(new, old) ==
  IF old.part < old.len THEN new = [old EXCEPT !.part = @ + 1]
  ELSE new.part = 1 /\ new.bit # old.bit

ReaderInSync ==
  LET stream == app.acc \o pipe
  IN /\ stream # <<>> => stream[1].part = 1
     /\ \A i \in 1..Len(stream) - 1 : Follows(stream[i + 1], stream[i])

(* No frame of a former session is begun: what the backend of another      *)
(* phone delivered is thrown away with it (media_stop, managerd.c:108).    *)
BeginsOwnVideo ==
  frame'.busy /\ ~frame.busy => source # None /\ frame'.src = source

FrameOfSession == [][BeginsOwnVideo]_vars

(* A frame on its way is sent to its end, or given up because its consumer *)
(* went away or was replaced: it cannot block the frames after it, unless  *)
(* the session stops streaming and the cluster reads no more.              *)
FrameEnds == frame.busy /\ source # None ~> ~frame.busy \/ source = None

(* While a phone streams and the cluster stays connected, it shows one new *)
(* frame after the other, frames of any length: its buffer never fills up  *)
(* without a frame in it (cluster/main.c:54).                              *)
VideoFlows ==
  <>[](source # None /\ app.fd # None)
    => \A b \in {0, 1} : []<>(app.shown # None /\ app.shown.bit = b)

(* A consumer is disconnected only if its client closed or a newer one     *)
(* took its place (design/02-usb-manager.md:161, "the new client replaces  *)
(* the old one").                                                          *)
CutsOldOnly ==
  \A c \in Consumers :
    sock'[c].cut /\ ~sock[c].cut
      => sock[c].hup \/ (consumer' # None /\ consumer' > c)

NewConsumerStays == [][CutsOldOnly]_vars
=============================================================================
