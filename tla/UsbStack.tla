------------------------------ MODULE UsbStack -------------------------------
(***************************************************************************)
(* The projection stack: usb-managerd as the client of usb-driverd.  The   *)
(* two daemons run concurrently and meet on usb-driver.sock only: a step   *)
(* of one is a step of Manager or of Driver, and where the socket is       *)
(* touched a step of both.  The manager's arbitrary environment is         *)
(* replaced by the driver; what remains outside are the phones, which      *)
(* plug, unplug and re-enumerate, the users, and the crashes of daemons.   *)
(***************************************************************************)
EXTENDS Naturals, Sequences, FiniteSets, SequencesExt, UsbmanSession

CONSTANTS SimId, SimDev, BusDevs, Cap,   \* as in Driver
          SimLines, Steps, QMax, KnownMax, \* as in Manager
          Plugs,      \* the real devices users plug
          Accessory   \* the device a real phone becomes after START

VARIABLES session, known, queue, waiting, conn, media, linkUp, \* of Manager
          bus, uevent, table, claim, peer,                     \* of Driver
          rest,       \* lines left in the socket when the driver died
          started,    \* real phones that took START and will re-enumerate
          restarted,  \* history: a daemon has died and was started again
          dropped     \* history: devices whose last `dev` line the manager's
                      \* full table had no slot for

Devices == Device   \* a line can carry any descriptor

(* The daemons, with the theorems about each of them. *)
M == INSTANCE ManagerProofs
D == INSTANCE DriverProofs WITH MaxPeer <- 1, Requests <- <<{}>>

mvars == <<session, known, queue, waiting, conn, media, linkUp>>
dvars == <<bus, uevent, table, claim, peer>>
vars  == <<mvars, dvars, rest, started, restarted, dropped>>

me == 1   \* the manager's fd in the driver

(* What the daemons assume of their constants.  The manager's table may    *)
(* have fewer slots than there are devices.                                *)
ASSUME StackAssumption ==
  /\ M!ManagerAssumption
  /\ D!DriverAssumption /\ D!DumpFits /\ D!NoneIsNothing
  /\ SimLines \subseteq [op : {"plug", "unplug"}, id : SimId, step : {0}]
  /\ Plugs \subseteq BusDevs
  /\ DOMAIN Accessory \subseteq Plugs
  /\ \A dev \in DOMAIN Accessory : Accessory[dev] \in BusDevs

Init == /\ M!Init
        /\ D!Init
        /\ \A id \in Id : bus[id] \in Plugs \cup {None}
        /\ rest = <<>>
        /\ started = {}
        /\ restarted = FALSE
        /\ dropped = {}

-----------------------------------------------------------------------------
(* The manager's commands as the driver reads them. *)
Command(item) ==
  LET op == IF item.op # "aoa" THEN item.op
            ELSE IF item.step = M!ClaimStep THEN "claim"
            ELSE IF item.step = M!ProtocolStep THEN "protocol"
            ELSE IF item.step = M!StartStep THEN "start" ELSE "string"
  IN [op |-> op, id |-> item.id]

(* connect() and accept(). *)
Connect == /\ M!Connect
           /\ D!Accept
           /\ UNCHANGED <<rest, started, restarted, dropped>>

(* pump sends the head of the queue, or finds the driver gone. *)
Send == \/ /\ D!Listens(me)
           /\ M!Pump(TRUE)
           /\ D!ClientSend(me, Command(Head(queue)))
           /\ UNCHANGED <<rest, started, restarted, dropped>>
        \/ /\ ~D!Listens(me)
           /\ M!Pump(FALSE)
           /\ UNCHANGED <<dvars, rest, started, restarted, dropped>>

(* remember_dev finds neither an entry of the device nor a free slot. *)
NoSlot(dev) == /\ Len(known) = KnownMax
               /\ \A i \in 1..Len(known) : known[i].id # dev.id

(* drain_driver: one line.  A reply nobody waits for changes nothing. *)
Handle(line) ==
  \/ /\ line.op = "dev"
     /\ M!DevLine(line.dev)
     /\ dropped' = IF NoSlot(line.dev) THEN dropped \cup {line.dev.id}
                   ELSE dropped \ {line.dev.id}
  \/ /\ line.op = "gone"
     /\ M!GoneLine(line.id)
     /\ dropped' = dropped \ {line.id}
  \/ /\ line.op = "reply"
     /\ IF waiting /\ queue # <<>>
        THEN M!ReplyLine(line.ok, line.protocol)
        ELSE UNCHANGED mvars
     /\ UNCHANGED dropped

Receive == /\ conn
           /\ D!ClientRead(me)
           /\ Handle(Head(peer[me].out))
           /\ UNCHANGED <<rest, started, restarted>>

(* The lines a dead driver left behind come before the end of file. *)
ReceiveRest == /\ conn
               /\ rest # <<>>
               /\ Handle(Head(rest))
               /\ rest' = Tail(rest)
               /\ UNCHANGED <<dvars, started, restarted>>

HangUp == /\ conn
          /\ ~D!Open(me)
          /\ rest = <<>>
          /\ M!CloseDriver
          /\ UNCHANGED <<dvars, rest, started, restarted, dropped>>

(* A bound of the model: users plug a real phone when no simulated one is  *)
(* there, the other way round, and neither while a command of theirs waits.*)
Alone(ids) ==
  /\ \A id \in Id \ ids : bus[id] = None /\ table[id] = None
  /\ \A i \in 1..Len(queue) : queue[i].op \in {"aoa", "sub"}

Users == /\ \E cmd \in SimLines : M!SimLine(cmd)
         /\ Alone(SimId)
         /\ UNCHANGED <<dvars, rest, started, restarted, dropped>>

-----------------------------------------------------------------------------
(* The driver's handlers.  A handler sends at most as many lines as there   *)
(* are devices, twice, and a reply; it runs when the socket has room for   *)
(* them (Cap bounds it), so a send never fails here: Driver shows that.    *)
Roomy == D!Open(me) => Len(peer[me].out) + 2 * Cardinality(Id) + 1 <= Cap

(* A real phone that answers START will re-enumerate, also when the reply  *)
(* goes to a manager that has died.                                        *)
TakesStart ==
  /\ peer[me].cmd # None /\ peer[me].cmd.op = "start"
  /\ peer[me].cmd.id \notin SimId
  /\ D!MayCtrl(peer[me].cmd.id, me) /\ bus[peer[me].cmd.id] # None

Starts == started \cup {peer[me].cmd.id}

Handler ==
  /\ Roomy
  /\ \/ /\ D!Refresh \/ D!EndOfFile(me)
        /\ UNCHANGED started
     \/ /\ D!HandleLine(me)
        /\ \/ ~TakesStart /\ UNCHANGED started
           \/ TakesStart /\ peer[me].hup /\ started' \in {started, Starts}
           \/ /\ TakesStart /\ ~peer[me].hup
              /\ started' = IF Last(peer'[me].out).ok THEN Starts ELSE started
  /\ UNCHANGED <<mvars, rest, restarted, dropped>>

(* Users plug and unplug; one uevent at a time (a bound of the model). *)
Bus == /\ ~uevent
       /\ \/ \E dev \in Plugs : /\ bus[dev.id] = None
                                /\ Alone(D!RealId)
                                /\ D!Plug(dev)
                                /\ UNCHANGED started
          \/ \E id \in D!RealId : /\ D!Unplug(id)
                                  /\ started' = started \ {id}
       /\ UNCHANGED <<mvars, rest, restarted, dropped>>

(* A phone that took START leaves the bus and comes back as an accessory:  *)
(* under another id, because the kernel numbers every enumeration anew.    *)
Reenumerate(id) ==
  /\ id \in started
  /\ bus[id] \in DOMAIN Accessory
  /\ LET dev == Accessory[bus[id]]
     IN bus' = [bus EXCEPT ![id] = None, ![dev.id] = dev]
  /\ uevent' = TRUE
  /\ started' = started \ {id}
  /\ UNCHANGED <<mvars, table, claim, peer, rest, restarted, dropped>>

(* The driver dies and is started again: it forgets the simulated devices,  *)
(* the claims and the clients, and scans the bus.                          *)
Crash == /\ D!Open(me)
         /\ rest' = IF peer[me].hup THEN <<>> ELSE peer[me].out
         /\ peer' = [peer EXCEPT ![me] = None]
         /\ claim' = [id \in Id |-> 0]
         /\ table' = bus
         /\ uevent' = FALSE
         /\ restarted' = TRUE
         /\ UNCHANGED <<mvars, bus, started, dropped>>

(* The manager dies and is started again: the driver finds its connection  *)
(* closed behind the command it had sent.  The driver serves the end of    *)
(* the old connection before any command of the next one (its poll loop    *)
(* finds both at once), so the same fd stands for both.                    *)
ManagerCrash == /\ conn
                /\ session' = SessionInit
                /\ known' = <<>> /\ queue' = <<>>
                /\ waiting' = FALSE /\ conn' = FALSE
                /\ media' = M!NoMedia /\ UNCHANGED linkUp
                /\ IF D!Listens(me) THEN D!ClientClose(me)
                   ELSE UNCHANGED dvars
                /\ rest' = <<>>
                /\ restarted' = TRUE
                /\ dropped' = {}
                /\ UNCHANGED started

Daemons == Connect \/ Send \/ Receive \/ ReceiveRest \/ HangUp \/ Handler

Step == \/ Daemons
        \/ Users
        \/ Bus
        \/ \E id \in Id : Reenumerate(id)

Next == Step \/ Crash

(* Daemons that stay up, a driver that may crash, and both. *)
StableSpec  == Init /\ [][Step]_vars
CrashSpec   == Init /\ [][Next]_vars
RestartSpec == Init /\ [][Next \/ ManagerCrash]_vars

(* Both daemons poll forever and a phone that accepted START re-enumerates. *)
Fairness == /\ WF_vars(Connect) /\ WF_vars(Send) /\ WF_vars(Receive)
            /\ WF_vars(ReceiveRest) /\ WF_vars(HangUp) /\ WF_vars(Handler)
            /\ \A id \in Id : WF_vars(Reenumerate(id))

FairStableSpec  == StableSpec /\ Fairness

(* Daemons that may crash, and run forever as long as none has.            *)
Upright(A) == ~restarted /\ A

FairRestartSpec ==
  /\ RestartSpec
  /\ WF_vars(Upright(Connect)) /\ WF_vars(Upright(Send))
  /\ WF_vars(Upright(Receive)) /\ WF_vars(Upright(Handler))
  /\ \A id \in Id : WF_vars(Upright(Reenumerate(id)))

(* A driver that crashes finitely often. *)
FairCrashSpec == CrashSpec /\ Fairness /\ <>[][Step]_vars

-----------------------------------------------------------------------------
(* What the manager knows of the devices: its table, and the lines on their *)
(* way.                                                                    *)
KnownView == [id \in Id |->
  IF \E i \in 1..Len(known) : known[i].id = id
  THEN known[CHOOSE i \in 1..Len(known) : known[i].id = id]
  ELSE None]

Incoming == IF D!Open(me) THEN peer[me].out ELSE rest

Expected == FoldLeft(D!See, KnownView, Incoming)

(* The one difference the manager's table may make: remember_dev drops the *)
(* device for want of a slot, and no entry stands for it.                  *)
Knows(id) == \/ Expected[id] = table[id]
             \/ id \in dropped /\ Expected[id] = None

(* The devices the manager remembers are those the driver lists, once the  *)
(* lines on their way are read: promote_idle never hands the session to a  *)
(* phone that left.  It misses a device only if that came while all slots  *)
(* were taken (managerd.c:298, the cache of devices still plugged).        *)
KnownFollowsTable ==
  ~restarted /\ conn /\ D!Open(me) /\ peer[me].sub => \A id \in Id : Knows(id)

(* After restarts of the driver the manager's table may name devices that  *)
(* left while nobody told it (managerd.c:300, simulated ones in            *)
(* particular), but whatever is plugged it knows, and as it is, or had no  *)
(* slot for.                                                               *)
KnownCoversTable ==
  conn /\ D!Listens(me) /\ peer[me].sub
    => \A id \in Id : table[id] # None => Knows(id)

(* A session is idle only as long as no phone is plugged that it could     *)
(* serve (managerd.c:298: the table is there to find another phone then),  *)
(* whatever order two phones come, leave and fail in.  A phone that found  *)
(* all slots of the table taken is left out (managerd.c:311).              *)
NoPhoneIsLeftOut ==
  ~restarted /\ conn /\ D!Open(me) /\ peer[me].sub /\ Incoming = <<>>
    /\ session.phase = "idle"
  => \A id \in Id \ dropped : table[id] = None \/ ~Projects(table[id])

(* A session in progress is with a device that is plugged, or whose unplug *)
(* is on its way to the manager; only a re-enumerating or failed session   *)
(* may outlive its device.                                                 *)
SessionHasDevice ==
  session.phase \in {"aoa", "classified", "active"} /\ conn /\ D!Open(me)
      /\ peer[me].sub
    => \/ table[session.device] # None
       \/ \E i \in 1..Len(Incoming) : Incoming[i] = D!Gone(session.device)

(* While the driver stays up, no session is left in phase aoa without a    *)
(* START queued or sent, also when the queue had room for a part of the    *)
(* handshake only, or holds that of a phone that left (managerd.c:281).    *)
HandshakePending == M!HandshakePending

(* The manager matches replies to commands by position only.  While it is  *)
(* connected it awaits a reply exactly if the driver owes it one, and the  *)
(* command in the driver's hands is the one at the head of its queue, also *)
(* after the driver died with commands and replies in flight.              *)
AnswerMatchesHead ==
  conn /\ D!Open(me) =>
    /\ waiting <=> (peer[me].cmd # None \/ D!Replies(me) = 1)
    /\ peer[me].cmd # None => peer[me].cmd = Command(Head(queue))

(* A session fails only by the answer to a command of its own handshake    *)
(* (design/02-usb-manager.md:91 "aoa --> failed: ctrl/protocol error").    *)
AnswersOwnHandshake ==
  session.phase # "failed" /\ session'.phase = "failed" /\ waiting /\ ~waiting'
    => Head(queue).id = session.device

FailsByOwnHandshake == [][AnswersOwnHandshake]_vars

(* A handshake always ends: with the accessory, a failure or the unplug    *)
(* (design/02-usb-manager.md:89-91).                                       *)
HandshakeEnds == session.phase = "aoa" ~> session.phase # "aoa"

(* The same, of daemons that stay up. *)
HandshakeEndsUnlessRestarted == []~restarted => HandshakeEnds

(* A session that waits for its phone to re-enumerate ends the wait once   *)
(* an accessory appears (design/02-usb-manager.md:90 "reenumerating -->    *)
(* active: AOAP appears").                                                 *)
ReenumerationEnds ==
  (session.phase = "reenumerating" /\ \E i \in 1..Len(known) : IsAoap(known[i]))
    ~> session.phase # "reenumerating"
=============================================================================
