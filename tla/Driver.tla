------------------------------- MODULE Driver --------------------------------
(***************************************************************************)
(* usb-driverd (driverd.c): the table of USB devices, real and simulated,  *)
(* the exclusive claims on them, and the clients of usb-driver.sock.       *)
(*                                                                         *)
(* The daemon is one poll loop; each action is one of its handlers.  The   *)
(* kernel's bus, its uevents and the clients are the environment.  g_real  *)
(* and g_sim are one function from ids here: ids of real devices are       *)
(* "busnum-devnum" and simulated ones have fixed names, so the two tables  *)
(* never share an id.  The order of the tables is readdir's and matters to *)
(* nobody, so lists of devices are sent in any order.                      *)
(***************************************************************************)
EXTENDS Naturals, Sequences, FiniteSets, SequencesExt, FiniteSetsExt,
        UsbmanSession

CONSTANTS SimId,    \* the ids of simulated devices
          SimDev,   \* what `sim plug` adds, per simulated id
          BusDevs,  \* what a scan of sysfs may find
          MaxPeer,  \* MAX_PEER, slots for clients (8)
          Requests, \* the commands the client of each fd sends
          Cap       \* lines the socket buffer of one client holds

Fds == 1..MaxPeer
RealId == Id \ SimId

(* The commands of handle_line; the last three are `ctrl` with the requests *)
(* of AOA: 51 GET_PROTOCOL, 52 SEND_STRING and 53 START.                   *)
Ctrl == {"protocol", "string", "start"}
Command == [op : {"sub", "list", "clear"}, id : {None}]
             \cup [op : {"plug", "unplug"}, id : SimId]
             \cup [op : {"claim", "release"} \cup Ctrl, id : Id]

ASSUME DriverAssumption ==
  /\ SimId \subseteq Id
  /\ SimDev \in [SimId -> Device]
  /\ \A id \in SimId : SimDev[id].id = id /\ SimDev[id].sim
  /\ BusDevs \subseteq {dev \in Device : dev.id \in RealId /\ ~dev.sim}
  /\ Requests \in [Fds -> SUBSET Command]
  /\ MaxPeer \in Nat \ {0}
  /\ Cap \in Nat \ {0}

(* The tables are finite (MAX_DEV), and the empty buffer of a new          *)
(* connection holds a `dev` line for each of their devices.                *)
ASSUME DumpFits == IsFiniteSet(Id) /\ Cardinality(Id) <= Cap

VARIABLES bus,     \* the real devices plugged (kernel)
          uevent,  \* a uevent waits in the netlink socket (kernel)
          table,   \* g_real and g_sim, per id
          claim,   \* claim_fd per id, 0 for none
          peer     \* g_peers and the connections behind them, per fd

vars == <<bus, uevent, table, claim, peer>>

-----------------------------------------------------------------------------
(* Lines the daemon sends. *)
DevIs(dev) == [op |-> "dev", dev |-> dev]
Gone(id)   == [op |-> "gone", id |-> id]
Reply(ok, protocol) == [op |-> "reply", ok |-> ok, protocol |-> protocol]
Ok  == Reply(TRUE, FALSE)
Err == Reply(FALSE, FALSE)

Line == [op : {"dev"}, dev : Device] \cup [op : {"gone"}, id : Id]
          \cup [op : {"reply"}, ok : BOOLEAN, protocol : BOOLEAN]

(* A connection: whether it subscribed, its unread command (None if there  *)
(* is none; the clients of this system wait for the reply to a command     *)
(* before they send the next one), the lines it has not read yet and       *)
(* whether the client closed its end.  `waits`, `view` and `owns` are the  *)
(* client's knowledge: a reply is due, the devices the lines read since    *)
(* `sub` amount to, and the claims it was granted and has not lost.        *)
NoDevices == [id \in Id |-> None]
Table == [Id -> Device \cup {None}]
Peer == [sub : BOOLEAN, cmd : Command \cup {None}, out : Seq(Line),
         hup : BOOLEAN, waits : BOOLEAN, view : Table, owns : SUBSET Id]

(* A closed fd, a missing device and no command are None, which is neither. *)
ASSUME NoneIsNothing == None \notin Device \cup Command \cup Peer

NewPeer == [sub |-> FALSE, cmd |-> None, out |-> <<>>, hup |-> FALSE,
            waits |-> FALSE, view |-> NoDevices, owns |-> {}]

Open(f) == peer[f] # None

Init == /\ bus \in {[id \in Id |-> IF id \in {dev.id : dev \in S}
                                   THEN CHOOSE dev \in S : dev.id = id
                                   ELSE None] : S \in SUBSET BusDevs}
        /\ uevent = FALSE
        /\ table = bus
        /\ claim = [id \in Id |-> 0]
        /\ peer = [f \in Fds |-> None]

-----------------------------------------------------------------------------
(* Sending.  A line that finds no room in the buffer, or the other end      *)
(* closed, fails.  A failed broadcast closes the fd of that client, and     *)
(* nothing else; a failed reply or dump is ignored.                         *)
FitsAlways(p, n) == ~p.hup                                 \* mutant

Fits(p, n) == ~p.hup /\ Len(p.out) + n <= Cap

BroadcastDrops(P, lines) ==         \* mutant: a line that does not fit is lost
  [f \in Fds |-> IF P[f] = None THEN P[f]
                 ELSE IF P[f].sub /\ Fits(P[f], Len(lines))
                      THEN [P[f] EXCEPT !.out = @ \o lines]
                      ELSE P[f]]

Broadcast(P, lines) ==
  [f \in Fds |-> IF P[f] = None \/ lines = <<>> THEN P[f]
                 ELSE IF ~P[f].sub THEN P[f]
                 ELSE IF Fits(P[f], Len(lines))
                      THEN [P[f] EXCEPT !.out = @ \o lines]
                      ELSE None]

Send(P, f, lines) ==
  IF P[f] = None THEN P
  ELSE [P EXCEPT ![f].out =
          IF P[f].hup THEN @
          ELSE @ \o SubSeq(lines, 1, Min({Len(lines), Cap - Len(@)}))]

(* Clients lose their claims on devices that are gone. *)
Lose(P, ids) ==
  [f \in Fds |-> IF P[f] = None THEN None
                 ELSE [P[f] EXCEPT !.owns = @ \ ids]]

(* The emit_gone and emit_dev lines for sequences of ids and devices. *)
GoneLines(ids) == [i \in 1..Len(ids) |-> Gone(ids[i])]
DevLines(devs) == [i \in 1..Len(devs) |-> DevIs(devs[i])]

-----------------------------------------------------------------------------
(* usbdrv_enum_root: one scan of sysfs. *)
Scan == [id \in RealId |-> bus[id]]

(* refresh_real: what disappeared is announced first, then what is new or  *)
(* changed; the claim is kept by id.                                       *)
Refresh ==
  LET lost == {id \in RealId : table[id] # None /\ Scan[id] = None}
      news == {Scan[id] : id \in {i \in RealId : Scan[i] \notin {None, table[i]}}}
  IN /\ uevent
     /\ uevent' = FALSE
     /\ table' = [id \in Id |-> IF id \in RealId THEN Scan[id] ELSE table[id]]
     /\ claim' = [id \in Id |-> IF id \in lost THEN 0 ELSE claim[id]]
     /\ \E gone \in SetToSeqs(lost), devs \in SetToSeqs(news) :
          peer' = Lose(Broadcast(peer, GoneLines(gone) \o DevLines(devs)), lost)
     /\ UNCHANGED bus

(* accept_peer: the kernel hands out the lowest free fd.  Without a free    *)
(* slot the connection is closed at once, which changes nothing here.      *)
Accept ==
  LET free == {f \in Fds : ~Open(f)}
  IN /\ free # {}
     /\ peer' = [peer EXCEPT ![Min(free)] = NewPeer]
     /\ UNCHANGED <<bus, uevent, table, claim>>

(* drain_peer at end of file: close_peer and its drop_claims.              *)
DropClaims(c, f) == [id \in Id |-> IF c[id] = f THEN 0 ELSE c[id]]

EndOfFile(f) ==
  /\ Open(f)
  /\ peer[f].hup
  /\ peer[f].cmd = None
  /\ peer' = [peer EXCEPT ![f] = None]
  /\ claim' = DropClaims(claim, f)
  /\ UNCHANGED <<bus, uevent, table>>

-----------------------------------------------------------------------------
(* handle_line.  Every command is taken from the input and answered, after *)
(* the events it caused.                                                   *)
Takes(f, op) == Open(f) /\ peer[f].cmd # None /\ peer[f].cmd.op = op

TakenTwice(f) == peer               \* mutant: the line stays in the input

Taken(f) == [peer EXCEPT ![f].cmd = None]

(* sub and list dump both tables; the result of the sends is not looked at.*)
Dump(f, P) ==
  \E real \in SetToSeqs({table[id] : id \in RealId} \ {None}),
     sim  \in SetToSeqs({table[id] : id \in SimId} \ {None}) :
       peer' = Send(P, f, DevLines(real) \o DevLines(sim) \o <<Ok>>)

SubscribeSilently(f) ==             \* mutant: no dump, events only
  /\ Takes(f, "sub")
  /\ peer' = Send([Taken(f) EXCEPT ![f].sub = TRUE], f, <<Ok>>)
  /\ UNCHANGED <<bus, uevent, table, claim>>

Subscribe(f) ==
  /\ Takes(f, "sub")
  /\ Dump(f, [Taken(f) EXCEPT ![f].sub = TRUE,
                              ![f].view = IF peer[f].sub THEN @ ELSE NoDevices])
  /\ UNCHANGED <<bus, uevent, table, claim>>

List(f) ==
  /\ Takes(f, "list")
  /\ Dump(f, Taken(f))
  /\ UNCHANGED <<bus, uevent, table, claim>>

(* sim_add replaces a device of the same id, and its claim. *)
SimPlug(f, id) ==
  LET old == IF table[id] = None THEN <<>> ELSE <<Gone(id)>>
      P   == Broadcast(Taken(f), old \o <<DevIs(SimDev[id])>>)
  IN /\ Takes(f, "plug")
     /\ peer[f].cmd.id = id
     /\ table' = [table EXCEPT ![id] = SimDev[id]]
     /\ claim' = [claim EXCEPT ![id] = 0]
     /\ peer' = Send(Lose(P, {id}), f, <<Ok>>)
     /\ UNCHANGED <<bus, uevent>>

(* sim_remove_id and sim_clear. *)
SimUnplug(f) ==
  LET ids  == IF peer[f].cmd.op = "clear" THEN SimId
              ELSE {peer[f].cmd.id} \cap SimId
      lost == {id \in ids : table[id] # None}
  IN /\ Takes(f, "unplug") \/ Takes(f, "clear")
     /\ table' = [id \in Id |-> IF id \in lost THEN None ELSE table[id]]
     /\ claim' = [id \in Id |-> IF id \in lost THEN 0 ELSE claim[id]]
     /\ \E gone \in SetToSeqs(lost) :
          peer' = Send(Lose(Broadcast(Taken(f), GoneLines(gone)), lost),
                       f, <<Ok>>)
     /\ UNCHANGED <<bus, uevent>>

Claim(f, id) ==
  LET granted == table[id] # None /\ claim[id] \in {0, f}
  IN /\ Takes(f, "claim")
     /\ peer[f].cmd.id = id
     /\ \/ /\ granted
           /\ claim' = [claim EXCEPT ![id] = f]
           /\ peer' = Send([Taken(f) EXCEPT ![f].owns = @ \cup {id}], f, <<Ok>>)
        \/ /\ ~granted
           /\ peer' = Send(Taken(f), f, <<Err>>)
           /\ UNCHANGED claim
     /\ UNCHANGED <<bus, uevent, table>>

ReleaseOfAnyone(f, id) ==           \* mutant: releases another client's claim
  /\ Takes(f, "release")
  /\ peer[f].cmd.id = id
  /\ table[id] # None
  /\ claim' = [claim EXCEPT ![id] = 0]
  /\ peer' = Send([Taken(f) EXCEPT ![f].owns = @ \ {id}], f, <<Ok>>)
  /\ UNCHANGED <<bus, uevent, table>>

Release(f, id) ==
  /\ Takes(f, "release")
  /\ peer[f].cmd.id = id
  /\ \/ /\ table[id] # None
        /\ claim' = [claim EXCEPT ![id] = IF @ = f THEN 0 ELSE @]
        /\ peer' = Send([Taken(f) EXCEPT ![f].owns = @ \ {id}], f, <<Ok>>)
     \/ /\ table[id] = None
        /\ peer' = Send(Taken(f), f, <<Err>>)
        /\ UNCHANGED claim
  /\ UNCHANGED <<bus, uevent, table>>

(* handle_ctrl.  A simulated phone answers GET_PROTOCOL with 2 and takes    *)
(* strings; START turns it into an accessory under the same id.  A real     *)
(* one may fail the transfer, and does when it is no longer on the bus.     *)
MayCtrl(id, f) == table[id] # None /\ claim[id] = f

CtrlRefused(f, id) ==
  /\ \E op \in Ctrl : Takes(f, op)
  /\ peer[f].cmd.id = id
  /\ ~MayCtrl(id, f)
  /\ peer' = Send(Taken(f), f, <<Err>>)
  /\ UNCHANGED <<bus, uevent, table, claim>>

CtrlSim(f, id) ==
  /\ \E op \in {"protocol", "string"} : Takes(f, op)
  /\ peer[f].cmd.id = id
  /\ MayCtrl(id, f)
  /\ table[id].sim
  /\ peer' = Send(Taken(f), f, <<Reply(TRUE, peer[f].cmd.op = "protocol")>>)
  /\ UNCHANGED <<bus, uevent, table, claim>>

StartSimQuiet(f, id) ==             \* mutant: the new descriptor is not sent
  /\ Takes(f, "start")
  /\ peer[f].cmd.id = id
  /\ MayCtrl(id, f)
  /\ table[id].sim
  /\ table' = [table EXCEPT ![id].aoapPid = TRUE, ![id].adb = FALSE,
                            ![id].accessory = TRUE]
  /\ peer' = Send(Taken(f), f, <<Ok>>)
  /\ UNCHANGED <<bus, uevent, claim>>

StartSim(f, id) ==
  LET dev == [table[id] EXCEPT !.aoapPid = TRUE, !.adb = FALSE,
                               !.accessory = TRUE]
  IN /\ Takes(f, "start")
     /\ peer[f].cmd.id = id
     /\ MayCtrl(id, f)
     /\ table[id].sim
     /\ table' = [table EXCEPT ![id] = dev]
     /\ peer' = Send(Broadcast(Taken(f), <<Gone(id), DevIs(dev)>>), f, <<Ok>>)
     /\ UNCHANGED <<bus, uevent, claim>>

(* usbdrv_usbfs_control: the transfer goes to the device node of the id. *)
Transfers(id, ok) == ok => bus[id] # None

CtrlReal(f, id, ok, protocol) ==
  /\ \E op \in Ctrl : Takes(f, op)
  /\ peer[f].cmd.id = id
  /\ MayCtrl(id, f)
  /\ ~table[id].sim
  /\ Transfers(id, ok)
  /\ protocol => ok /\ peer[f].cmd.op = "protocol"
  /\ peer' = Send(Taken(f), f, <<Reply(ok, protocol)>>)
  /\ UNCHANGED <<bus, uevent, table, claim>>

HandleLine(f) ==
  \/ Subscribe(f) \/ List(f) \/ SimUnplug(f)
  \/ \E id \in SimId : SimPlug(f, id)
  \/ \E id \in Id : \/ Claim(f, id) \/ Release(f, id)
                    \/ CtrlRefused(f, id) \/ CtrlSim(f, id) \/ StartSim(f, id)
                    \/ \E ok, protocol \in BOOLEAN :
                         CtrlReal(f, id, ok, protocol)

-----------------------------------------------------------------------------
(* The environment: the bus, and the clients. *)
Plug(dev) == /\ bus[dev.id] # dev
             /\ bus' = [bus EXCEPT ![dev.id] = dev]
             /\ uevent' = TRUE
             /\ UNCHANGED <<table, claim, peer>>

Unplug(id) == /\ bus[id] # None
              /\ bus' = [bus EXCEPT ![id] = None]
              /\ uevent' = TRUE
              /\ UNCHANGED <<table, claim, peer>>

Listens(f) == Open(f) /\ ~peer[f].hup

ClientSend(f, cmd) ==
  /\ Listens(f)
  /\ ~peer[f].waits
  /\ peer' = [peer EXCEPT ![f].cmd = cmd, ![f].waits = TRUE]
  /\ UNCHANGED <<bus, uevent, table, claim>>

(* What a line says of the devices. *)
See(view, line) == IF line.op = "dev" THEN [view EXCEPT ![line.dev.id] = line.dev]
                   ELSE IF line.op = "gone" THEN [view EXCEPT ![line.id] = None]
                   ELSE view

ClientRead(f) ==
  /\ Listens(f)
  /\ peer[f].out # <<>>
  /\ LET line == Head(peer[f].out)
     IN peer' = [peer EXCEPT ![f].out = Tail(@),
                             ![f].view = IF peer[f].sub THEN See(@, line)
                                                        ELSE @,
                             ![f].waits = @ /\ line.op # "reply"]
  /\ UNCHANGED <<bus, uevent, table, claim>>

ClientClose(f) ==
  /\ Listens(f)
  /\ peer' = [peer EXCEPT ![f].hup = TRUE, ![f].out = <<>>,
                          ![f].waits = FALSE, ![f].view = NoDevices]
  /\ UNCHANGED <<bus, uevent, table, claim>>

-----------------------------------------------------------------------------
Daemon == \/ Refresh
          \/ Accept
          \/ \E f \in Fds : EndOfFile(f) \/ HandleLine(f)

Kernel == \/ \E dev \in BusDevs : Plug(dev)
          \/ \E id \in RealId : Unplug(id)

Clients == \E f \in Fds : \/ \E cmd \in Requests[f] : ClientSend(f, cmd)
                          \/ ClientRead(f)
                          \/ ClientClose(f)

Next == Daemon \/ Kernel \/ Clients

Spec == Init /\ [][Next]_vars

-----------------------------------------------------------------------------
(* Type correctness, and the socket buffers stay within their size. *)
TypeOK == /\ bus \in Table
          /\ uevent \in BOOLEAN
          /\ table \in Table
          /\ claim \in [Id -> {0} \cup Fds]
          /\ peer \in [Fds -> Peer \cup {None}]
          /\ \A f \in Fds : Open(f) => Len(peer[f].out) <= Cap

(* A subscriber is never left with a wrong picture: what it has read since *)
(* `sub`, and what waits in its socket, amount exactly to the driver's     *)
(* table, whatever was plugged, simulated, started or dumped in between    *)
(* (driverd.c:179, 470).  A line that cannot be delivered costs the        *)
(* subscriber its connection instead.                                      *)
SubscriberCatchesUp ==
  \A f \in Fds :
    Open(f) /\ peer[f].sub /\ ~peer[f].hup
      => FoldLeft(See, peer[f].view, peer[f].out) = table

(* A client keeps the claim it was granted until it releases it, goes      *)
(* away, or the device is gone: neither a rescan (which copies the claim   *)
(* by id, driverd.c:222), nor another client's claim, release or           *)
(* disconnect, nor the descriptor change of START takes it away.  So two   *)
(* clients never both own a device.                                        *)
OwnerKeepsClaim ==
  \A f \in Fds : Open(f) => \A id \in peer[f].owns : claim[id] = f

(* A client finds at most one reply, and only when it sent a command that  *)
(* was handled: usb-managerd matches replies by position.                  *)
Replies(f) ==
  Cardinality({i \in 1..Len(peer[f].out) : peer[f].out[i].op = "reply"})

OneReplyPerCommand ==
  \A f \in Fds : Open(f) =>
    Replies(f) <= IF peer[f].waits /\ peer[f].cmd = None THEN 1 ELSE 0

(* When the client that claimed a device is gone its claim is released     *)
(* (close_peer, driverd.c:256: no claim may hang after its client died):   *)
(* every claim belongs to a connection that was granted it.                *)
ClaimDiesWithClient ==
  \A id \in Id : claim[id] # 0 =>
    Open(claim[id]) /\ id \in peer[claim[id]].owns
=============================================================================
