------------------------------- MODULE Manager -------------------------------
(***************************************************************************)
(* usb-managerd (managerd.c): the session, the table of plugged devices,   *)
(* the command queue towards usb-driverd and the media backends.           *)
(*                                                                         *)
(* The daemon is one poll loop, so every handler runs to its end before    *)
(* the next one starts and is one action here.  pump() runs at the top and *)
(* the bottom of the loop; it is an action of its own because any number   *)
(* of lines, none included, may be handled between two pumps.              *)
(*                                                                         *)
(* The environment is the other end of usb-driver.sock, of which this      *)
(* module assumes nothing: any line of Devices, any unplug and any reply   *)
(* may arrive at any time.  UsbStack replaces it by the driver daemon.     *)
(***************************************************************************)
EXTENDS Naturals, Sequences, FiniteSets, UsbmanSession, Picking

CONSTANTS Devices,   \* the descriptors `dev` lines may carry
          SimLines,  \* the `sim ...` commands clients send through the manager
          Steps,     \* commands of one AOA handshake (9 in aoa.c)
          QMax,      \* QMAX, slots of the command queue (24)
          KnownMax   \* KNOWN_MAX, slots of the table of devices (8)

VARIABLES session,   \* g_session
          known,     \* g_known[0..g_nknown)
          queue,     \* g_q, from its head
          waiting,   \* g_waiting: the head was sent, its reply is due
          conn,      \* g_driver.fd >= 0
          media,     \* g_aa and g_cp
          linkUp     \* interfaces `ip link set up` ran on (kernel state)

vars == <<session, known, queue, waiting, conn, media, linkUp>>

-----------------------------------------------------------------------------
(* Commands.  A qitem is an AOA command, one step of the handshake with     *)
(* phone `id`, or a plain one: `sub` or a proxied `sim` line.  The steps of *)
(* usbman_aoa_build are numbered: 1 claims the device, 2 is GET_PROTOCOL,   *)
(* the last one is START and those between send the identity strings.      *)
AoaCmd(id, step) == [op |-> "aoa", id |-> id, step |-> step]
Sub == [op |-> "sub", id |-> None, step |-> 0]

AoaCmds == [op : {"aoa"}, id : Id, step : 1..Steps]
PlainCmds == [op : {"sub", "plug", "unplug"}, id : Id \cup {None}, step : {0}]
Cmd == AoaCmds \cup {Sub} \cup SimLines

ClaimStep == 1
ProtocolStep == 2
StartStep == Steps

AoaPlan(id) == [k \in 1..Steps |-> AoaCmd(id, k)]

ASSUME ManagerAssumption ==
  /\ Devices \subseteq Device
  /\ SimLines \subseteq PlainCmds
  /\ Steps \in Nat /\ Steps >= 4       \* claim, protocol, a string, START
  /\ QMax \in Nat /\ QMax >= Steps
  /\ KnownMax \in Nat \ {0}

(* The media backends: {} is the NULL pointer, otherwise the one element is *)
(* what the backend was created with.  A CarPlay backend also records       *)
(* whether its interface had been brought up at that time.                  *)
NoMedia == [aa |-> {}, cp |-> {}]
Media == [aa : SUBSET Id, cp : SUBSET [net : Net \cup {None}, up : BOOLEAN]]

Init == /\ session = SessionInit
        /\ known = <<>>
        /\ queue = <<>>
        /\ waiting = FALSE
        /\ conn = FALSE
        /\ media = NoMedia
        /\ linkUp = {}

-----------------------------------------------------------------------------
(* The queue.  enqueue() refuses a command when all slots are taken; a plan *)
(* that does not fit is queued as far as there is room.                     *)
Room == QMax - Len(queue)

EnqueueFront(cmds) ==                                      \* mutant
  SubSeq(cmds, 1, IF Len(cmds) <= Room THEN Len(cmds) ELSE Room) \o queue

EnqueueOffByOne(cmds) ==                                   \* mutant
  queue \o SubSeq(cmds, 1, IF Len(cmds) < Room THEN Len(cmds) ELSE Room - 1)

Enqueue(cmds) ==
  queue \o SubSeq(cmds, 1, IF Len(cmds) <= Room THEN Len(cmds) ELSE Room)

(* mutant: compacting in place, the command after a dropped one is skipped *)
DropAoaSkipping(q) == Pick(q, {i \in 1..Len(q) : q[i].op # "aoa" \/ i % 2 = 0})

(* drop_aoa_queued, which runs after the head was popped. *)
DropAoa(q) == Pick(q, {i \in 1..Len(q) : q[i].op # "aoa"})

(* The table of devices. *)
RememberUnbounded(dev) ==                                  \* mutant
  IF \E i \in 1..Len(known) : known[i].id = dev.id
  THEN [i \in 1..Len(known) |-> IF known[i].id = dev.id THEN dev ELSE known[i]]
  ELSE Append(known, dev)

RememberEvicting(dev) ==            \* mutant: a full table gives up a slot
  IF \E i \in 1..Len(known) : known[i].id = dev.id
  THEN [i \in 1..Len(known) |-> IF known[i].id = dev.id THEN dev ELSE known[i]]
  ELSE IF Len(known) < KnownMax THEN Append(known, dev)
  ELSE [known EXCEPT ![KnownMax] = dev]

Remember(dev) ==
  IF \E i \in 1..Len(known) : known[i].id = dev.id
  THEN [i \in 1..Len(known) |-> IF known[i].id = dev.id THEN dev ELSE known[i]]
  ELSE IF Len(known) < KnownMax THEN Append(known, dev) ELSE known

ForgetLast(id) ==                   \* mutant: the last entry is not moved
  IF \E i \in 1..Len(known) : known[i].id = id
  THEN SubSeq(known, 1, Len(known) - 1) ELSE known

(* forget_dev moves the last entry into the freed slot. *)
Forget(id) ==
  IF \E i \in 1..Len(known) : known[i].id = id
  THEN [i \in 1..Len(known) - 1 |->
          IF known[i].id = id THEN known[Len(known)] ELSE known[i]]
  ELSE known

(* media_sync: at most one backend lives, and only while video is wanted.   *)
MediaSync(s, m) ==
  IF ~(s.phase = "active" /\ s.streaming) THEN NoMedia
  ELSE IF s.backend = "android" /\ m.aa = {}
       THEN [aa |-> {s.device}, cp |-> {}]
  ELSE IF s.backend = "carplay" /\ m.cp = {}
       THEN [aa |-> {}, cp |-> {[net |-> s.net, up |-> s.net \in linkUp]}]
  ELSE m

-----------------------------------------------------------------------------
(* usbman_on_device, publish and apply_action on the session s and the      *)
(* media m.  start_aoa queues the whole handshake or, when the queue is     *)
(* full, part of it, fails the session and publishes again.                 *)
Admit(s, m, dev) ==
  LET s1 == OnDevice(s, dev)
      m1 == MediaSync(s1, m)
  IN \/ /\ StartsAoa(s, dev)
        /\ queue' = Enqueue(AoaPlan(dev.id))
        /\ IF Steps <= Room
           THEN session' = s1 /\ media' = m1
           ELSE session' = Fail(s1) /\ media' = MediaSync(Fail(s1), m1)
        /\ UNCHANGED linkUp
     \/ /\ ~StartsAoa(s, dev)
        /\ session' = s1
        /\ media' = m1
        /\ linkUp' = IF BringsLinkUp(s, dev) /\ dev.net # None
                     THEN linkUp \cup {dev.net} ELSE linkUp
        /\ UNCHANGED queue

(* A `dev` line: on_driver_dev, second half. *)
DevLine(dev) ==
  /\ conn
  /\ known' = Remember(dev)
  /\ Admit(session, media, dev)
  /\ UNCHANGED <<waiting, conn>>

(* promote_idle looks for the first projection device of the table, with a  *)
(* list of kinds of its own that has to agree with session.c's.            *)
KindIsProjectionReady(dev) ==       \* mutant: only kinds that can start now
  Classify(dev) \in {"android", "android_aoap", "carplay"}

KindIsProjection(dev) ==
  Classify(dev) \in {"android", "android_aoap", "carplay", "apple_wait",
                     "apple_ipheth"}

FirstPhone(t, i) == /\ i \in 1..Len(t) /\ KindIsProjection(t[i])
                    /\ \A j \in 1..i - 1 : ~KindIsProjection(t[j])

(* A `dev gone` line: on_driver_dev, first half. *)
GoneLine(id) ==
  LET s1 == OnGone(session, id)
      m1 == MediaSync(s1, media)
      t  == Forget(id)
  IN /\ conn
     /\ known' = t
     /\ \/ \E i \in 1..Len(t) : /\ s1.phase = "idle"
                                /\ FirstPhone(t, i)
                                /\ Admit(s1, m1, t[i])
        \/ /\ \/ s1.phase # "idle"
              \/ \A i \in 1..Len(t) : ~KindIsProjection(t[i])
           /\ session' = s1
           /\ media' = m1
           /\ UNCHANGED <<queue, linkUp>>
     /\ UNCHANGED <<waiting, conn>>

(* An `ok` or `err` line: finish_driver_reply.  `protocol` tells whether an *)
(* ok line carries a protocol number of at least 1.  A reply nobody waits   *)
(* for is ignored.                                                          *)
ReplyLine(ok, protocol) ==
  LET head   == Head(queue)
      failed == /\ head.op = "aoa"
                /\ ~ok \/ (head.step = ProtocolStep /\ ~protocol)
      s1     == IF failed THEN Fail(session) ELSE session
  IN /\ conn
     /\ waiting
     /\ queue # <<>>
     /\ waiting' = FALSE
     /\ queue' = IF failed THEN DropAoa(Tail(queue)) ELSE Tail(queue)
     /\ session' = s1
     /\ media' = IF failed THEN MediaSync(s1, media) ELSE media
     /\ UNCHANGED <<known, conn, linkUp>>

(* pump.  `sent` is FALSE when hupi_send_line fails: the head stays queued, *)
(* but a START has already marked the session.                              *)
Pump(sent) ==
  /\ conn
  /\ ~waiting
  /\ queue # <<>>
  /\ session' = IF Head(queue).op = "aoa" /\ Head(queue).step = StartStep
                THEN ExpectReenum(session) ELSE session
  /\ waiting' = sent
  /\ UNCHANGED <<known, queue, conn, media, linkUp>>

(* try_connect_driver: `sub` is the first command of a connection. *)
Connect ==
  /\ ~conn
  /\ conn' = TRUE
  /\ queue' = Enqueue(<<Sub>>)
  /\ UNCHANGED <<session, known, waiting, media, linkUp>>

CloseKeepsWaiting ==                                       \* mutant
  /\ conn
  /\ conn' = FALSE
  /\ queue' = <<>>
  /\ UNCHANGED <<session, known, waiting, media, linkUp>>

(* close_driver: the driver hung up or sent a line longer than the buffer. *)
CloseDriver ==
  /\ conn
  /\ conn' = FALSE
  /\ waiting' = FALSE
  /\ queue' = <<>>
  /\ UNCHANGED <<session, known, media, linkUp>>

(* Client commands: `stream on|off`, and a `sim` line for the driver, which *)
(* is refused without a connection or a free slot.                          *)
StreamLine(on) ==
  /\ session' = SetStream(session, on)
  /\ media' = MediaSync(session', media)
  /\ UNCHANGED <<known, queue, waiting, conn, linkUp>>

SimLine(cmd) ==
  /\ conn
  /\ Room > 0
  /\ queue' = Append(queue, cmd)
  /\ UNCHANGED <<session, known, waiting, conn, media, linkUp>>

-----------------------------------------------------------------------------
DriverLine == \/ \E dev \in Devices : DevLine(dev)
              \/ \E id \in Id : GoneLine(id)
              \/ \E ok, protocol \in BOOLEAN : ReplyLine(ok, protocol)

ClientLine == \/ \E on \in BOOLEAN : StreamLine(on)
              \/ \E cmd \in SimLines : SimLine(cmd)

(* Next with a driver that stays up, and Next. *)
Connected == \/ DriverLine
             \/ ClientLine
             \/ \E sent \in BOOLEAN : Pump(sent)
             \/ Connect

Next == Connected \/ CloseDriver

Spec == Init /\ [][Next]_vars
StableSpec == Init /\ [][Connected]_vars

-----------------------------------------------------------------------------
(* Type correctness of the daemon's globals. *)
TypeOK == /\ session \in Session
          /\ known \in Seq(Devices) /\ Len(known) <= KnownMax
          /\ queue \in Seq(Cmd) /\ Len(queue) <= QMax
          /\ waiting \in BOOLEAN
          /\ conn \in BOOLEAN
          /\ media \in Media
          /\ linkUp \subseteq Net

(* After every handler exactly the backend of the session runs: libhu-aa   *)
(* with the session's device, or libhu-carplay, while the session is       *)
(* active and its user did not turn video off; otherwise none.  Not both.  *)
(* Every path that changes the session has to call publish for this        *)
(* (managerd.c:117 "only one backend lives").                              *)
MediaFits(s, m) ==
  LET wanted == s.phase = "active" /\ s.streamUser # "off"
  IN /\ m.aa = IF wanted /\ s.backend = "android" THEN {s.device} ELSE {}
     /\ (m.cp # {}) <=> (wanted /\ s.backend = "carplay")
     /\ s.streaming <=> wanted

MediaFollowsSession == MediaFits(session, media)

(* An idle session means that no plugged projection device is waiting for  *)
(* it: whenever the session is given up, promote_idle hands it to a known  *)
(* phone in the same handler (managerd.c:334).                             *)
IdleMeansNoPhone ==
  session.phase = "idle" => /\ session.backend = "none"
                            /\ session.device = None
                            /\ \A i \in 1..Len(known) : ~Projects(known[i])

(* Commands exist only for a live connection, and a reply is awaited only  *)
(* for a command that is still at the head: a reply of an old connection   *)
(* is never taken for the answer to a command of the new one               *)
(* (close_driver, managerd.c:456).                                         *)
QueueFollowsConnection ==
  /\ ~conn => queue = <<>>
  /\ waiting => queue # <<>>

(* A queued AOA command that is not the first one of its handshake stands  *)
(* right behind its predecessor, or at the head of the queue, where its    *)
(* predecessor was answered with ok.  So START reaches a phone only after  *)
(* its claim, its GET_PROTOCOL and all its strings, whatever failed,       *)
(* overflowed or was proxied in between (drop_aoa_queued, managerd.c:191). *)
InOrder(q) ==
  \A i \in 2..Len(q) :
    q[i].op = "aoa" /\ q[i].step # ClaimStep
      => q[i - 1].op = "aoa" /\ q[i - 1].id = q[i].id
         /\ q[i - 1].step = q[i].step - 1

PlanInOrder == InOrder(queue)

(* While the driver stays up, a session in phase "aoa" is on its way: the  *)
(* START of its handshake is still queued, or was sent and the phone is    *)
(* expected to re-enumerate.  usbman_on_device relies on it when it starts *)
(* no second handshake (session.c:118).                                    *)
HandshakePending ==
  session.phase = "aoa" =>
    \/ session.pendingReenum
    \/ \E i \in 1..Len(queue) : queue[i] = AoaCmd(session.device, StartStep)

(* A session in progress is never taken over by another device: it changes *)
(* its device only in the handler that sees its own device unplugged       *)
(* (session.c:102, "park, do not preempt").                                *)
KeepsOwnDevice ==
  session.backend # "none" /\ session.phase \notin {"idle", "failed"}
    /\ session'.device # session.device
  => \A i \in 1..Len(known') : known'[i].id # session.device

NoPreemption == [][KeepsOwnDevice]_vars

(* What the daemon promises: one phone owns the screen, keeps it while it  *)
(* is plugged and is succeeded at once by a phone that is still there      *)
(* (session.c:90-168, managerd.c:335-374).                                 *)
Phones(t) == {t[i].id : i \in {j \in 1..Len(t) : Projects(t[j])}}

Promise == INSTANCE Projection
             WITH phones  <- Phones(known),
                  owner   <- session.device,
                  serving <- session.phase \notin {"idle", "failed"}

ImplementsProjection == Promise!Spec

(* While a command is due its answer, no step of another handshake is sent *)
(* and the queue's head stays: replies are matched by position only        *)
(* (managerd.c:411).                                                       *)
KeepsHead == waiting /\ waiting' => queue' # <<>> /\ Head(queue') = Head(queue)

HeadStaysWhileWaiting == [][KeepsHead]_vars
=============================================================================
