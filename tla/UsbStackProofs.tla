---------------------------- MODULE UsbStackProofs ----------------------------
(***************************************************************************)
(* Proofs about UsbStack, for every set of devices and every size of the   *)
(* queue, of the manager's table, which may be smaller than that set, and  *)
(* of the socket buffer, with the daemons' own invariants and the lemmas   *)
(* about their handlers taken from ManagerProofs and DriverProofs.         *)
(*                                                                         *)
(* StackInv is the inductive invariant: the daemons' own ones, and what    *)
(* they count on of each other.  Handled says what the manager does with   *)
(* any line, Follows what a handler of the driver owes a manager that is   *)
(* there; with them each step has one short lemma.                         *)
(***************************************************************************)
EXTENDS UsbStack, TLAPS, FiniteSetTheorems, FunctionTheorems, SequenceTheorems

-----------------------------------------------------------------------------
(* The inductive invariant. *)

(* The connection has two ends, and the lines of a dead driver are read    *)
(* before the next connection.                                             *)
Ends ==
  /\ rest \in Seq(D!Line)
  /\ rest # <<>> => conn /\ ~D!Open(me)
  /\ D!Open(me) => (peer[me].hup <=> ~conn)

(* Command and reply alternate on it, `sub` first. *)
Alternates(p) ==
  /\ waiting = p.waits
  /\ waiting /\ p.cmd = None => D!HasReply(p.out)
  /\ p.cmd # None => p.cmd = Command(Head(queue))
  /\ ~p.sub => queue # <<>> /\ Head(queue) = M!Sub /\ p.out = <<>>

Exchange == conn /\ D!Open(me) => Alternates(peer[me])

(* The devices the manager was told of: those of its table, and those it   *)
(* had no slot for.  The phone it is bringing up or serving is one of them.*)
Told == {id \in Id : KnownView[id] # None} \cup dropped

Devs == /\ dropped \subseteq Id
        /\ \A id \in dropped : KnownView[id] = None
        /\ M!OwnerIn(session, Told)

(* What it read on this connection the manager has not forgotten. *)
Agrees(view) ==
  \A id \in Id \ dropped : view[id] # None => KnownView[id] = view[id]

Remembers == conn /\ D!Open(me) /\ peer[me].sub => Agrees(peer[me].view)

(* Until a daemon dies there is one connection, which tells the manager     *)
(* all it knows.                                                           *)
Mirrors(view) ==
  \A id \in Id : IF id \in dropped THEN view[id] # None
                 ELSE KnownView[id] = view[id]

FirstTime ==
  ~restarted =>
    /\ rest = <<>>
    /\ conn => D!Open(me)
    /\ IF conn /\ peer[me].sub THEN Mirrors(peer[me].view)
       ELSE known = <<>> /\ dropped = {}

StackInv == /\ D!IInv
            /\ M!Inv
            /\ Devs
            /\ Ends
            /\ Exchange
            /\ Remembers
            /\ FirstTime

-----------------------------------------------------------------------------
(* The instances have their own names for what the modules they extend      *)
(* define.                                                                 *)
LEMMA SameNames ==
  /\ D!Device = Device /\ M!Device = Device /\ Devices = Device
  /\ D!Cardinality(Id) = Cardinality(Id) /\ M!Cardinality(Id) = Cardinality(Id)
  /\ D!IsFiniteSet(Id) <=> IsFiniteSet(Id)
  /\ M!IsFiniteSet(Id) <=> IsFiniteSet(Id)
<1>1. D!Device = Device /\ M!Device = Device /\ Devices = Device
  BY DEF D!Device, M!Device, Device, Devices
<1>2. D!Cardinality(Id) = Cardinality(Id) /\ M!Cardinality(Id) = Cardinality(Id)
  BY DEF D!Cardinality, M!Cardinality, Cardinality
<1>3. /\ D!IsFiniteSet(Id) <=> IsFiniteSet(Id)
      /\ M!IsFiniteSet(Id) <=> IsFiniteSet(Id)
  BY DEF D!IsFiniteSet, M!IsFiniteSet, IsFiniteSet
<1> QED BY <1>1, <1>2, <1>3

(* The assumptions, in this module's names. *)
LEMMA Assumed ==
  /\ M!ManagerAssumption /\ D!DriverAssumption /\ D!DumpFits /\ D!NoneIsNothing
  /\ None \notin Id /\ None \notin Net
  /\ IsFiniteSet(Id) /\ Cap \in Nat
  /\ me \in D!Fds /\ \A f \in D!Fds : f = me
<1>1. me \in D!Fds /\ \A f \in D!Fds : f = me
  BY DEF D!Fds, me
<1> QED BY <1>1, StackAssumption, NoneIsNoName, D!Constants, SameNames

(* What the invariant says of one connection. *)
LEMMA OneEnd ==
  ASSUME D!IInv, D!Open(me)
  PROVE  /\ peer[me] \in D!Peer /\ D!PeerInv(peer[me], table)
         /\ peer[me] # None
BY Assumed, D!InParts DEF D!Parts, D!Sound, D!Peers, D!Open

(* A handler of the driver's that runs on a connection of the manager's    *)
(* has room.                                                               *)
LEMMA RoomyHasRoom ==
  ASSUME D!IInv, Roomy, D!Open(me), ~peer[me].hup
  PROVE  D!HasRoom(me)
<1>1. peer[me] \in D!Peer
  BY OneEnd
<1>2. PICK l \in Nat, c \in Nat : l = Len(peer[me].out) /\ c = Cardinality(Id)
  <2>1. peer[me].out \in Seq(D!Line)
    BY <1>1 DEF D!Peer
  <2>2. Cardinality(Id) \in Nat
    BY Assumed, FS_CardinalityType
  <2> QED BY <2>1, <2>2
<1>3. Cap \in Nat /\ 2 * D!Cardinality(Id) + 1 = 2 * c + 1
  BY <1>2, Assumed, SameNames
<1>4. l + 2 * c + 1 <= Cap
  BY <1>2 DEF Roomy
<1>5. l + (2 * c + 1) <= Cap
  BY <1>3, <1>4
<1>6. l + (2 * D!Cardinality(Id) + 1) <= Cap
  BY <1>3, <1>5
<1> QED BY <1>2, <1>6 DEF D!HasRoom, D!Burst

(* The manager's commands are commands of the driver's.                    *)
LEMMA CommandType ==
  ASSUME NEW item \in M!Cmd
  PROVE  Command(item) \in D!Command /\ Command(item) # None
<1>1. Command(item) \in D!Command
  <2>1. CASE item \in M!AoaCmds
    BY <2>1 DEF M!AoaCmds, Command, D!Command, D!Ctrl
  <2>2. CASE item = M!Sub
    BY <2>2 DEF M!Sub, Command, D!Command
  <2>3. CASE item \in SimLines
    BY <2>3, StackAssumption DEF Command, D!Command
  <2> QED BY <2>1, <2>2, <2>3 DEF M!Cmd
<1> QED BY <1>1, Assumed, D!Constants

LEMMA SubIs == Command(M!Sub).op = "sub"
BY DEF M!Sub, Command

-----------------------------------------------------------------------------
(* KnownView is what a line makes of it. *)
ViewOf(t) == [id \in Id |-> IF \E i \in 1..Len(t) : t[i].id = id
                            THEN t[CHOOSE i \in 1..Len(t) : t[i].id = id]
                            ELSE None]

LEMMA KnownViewIs == KnownView = ViewOf(known) /\ KnownView' = ViewOf(known')
BY DEF KnownView, ViewOf

LEMMA ViewRows ==
  ASSUME NEW t, M!Table(t), NEW id \in Id
  PROVE  /\ (\A d \in M!Rows(t) : d.id # id) => ViewOf(t)[id] = None
         /\ \A d \in M!Rows(t) : d.id = id => ViewOf(t)[id] = d
<1>1. \A i, j \in 1..Len(t) : t[i].id = t[j].id => i = j
  BY DEF M!Table, M!Unique
<1>2. ASSUME \A d \in M!Rows(t) : d.id # id PROVE ViewOf(t)[id] = None
  BY <1>2 DEF ViewOf, M!Rows
<1>3. ASSUME NEW d \in M!Rows(t), d.id = id PROVE ViewOf(t)[id] = d
  <2>1. PICK i \in 1..Len(t) : t[i] = d
    BY DEF M!Rows
  <2>2. PICK k : k = CHOOSE j \in 1..Len(t) : t[j].id = id
    OBVIOUS
  <2>3. k \in 1..Len(t) /\ t[k].id = id
    BY <1>3, <2>1, <2>2
  <2>4. k = i
    BY <1>1, <1>3, <2>1, <2>3
  <2> QED BY <1>3, <2>1, <2>2, <2>4 DEF ViewOf
<1> QED BY <1>2, <1>3

LEMMA ViewType ==
  ASSUME NEW t, M!Table(t)
  PROVE  ViewOf(t) \in D!Table
<1>1. \A d \in M!Rows(t) : d \in Device
  BY DEF M!Table, M!Rows, Devices
<1>2. \A id \in Id : ViewOf(t)[id] \in Device \cup {None}
  BY <1>1, ViewRows
<1>3. ViewOf(t) = [id \in Id |-> ViewOf(t)[id]]
  BY DEF ViewOf
<1> QED BY <1>2, <1>3, SameNames DEF D!Table

LEMMA ViewOfNothing == ViewOf(<<>>) = D!NoDevices
<1>1. Len(<<>>) = 0
  OBVIOUS
<1> QED BY <1>1 DEF ViewOf, D!NoDevices

LEMMA RememberView ==
  ASSUME M!Table(known), NEW dev \in Device, ~NoSlot(dev)
  PROVE  ViewOf(M!Remember(dev)) = [ViewOf(known) EXCEPT ![dev.id] = dev]
<1>1. PICK t, u : t = known /\ u = M!Remember(dev)
  OBVIOUS
<1>2. M!Table(t) /\ M!Table(u)
  BY <1>1, Assumed, M!RememberProperties DEF Devices
<1>3. M!Rows(u) = {d \in M!Rows(t) : d.id # dev.id} \cup {dev}
  <2>1. \/ Len(known) # KnownMax
        \/ \E i \in 1..Len(known) : known[i].id = dev.id
    BY DEF NoSlot
  <2> QED BY <1>1, <2>1, Assumed, SameNames, M!RememberRows
<1>4. ASSUME NEW id \in Id
      PROVE  ViewOf(u)[id] = IF id = dev.id THEN dev ELSE ViewOf(t)[id]
  <2>1. CASE id = dev.id
    BY <1>2, <1>3, <2>1, ViewRows
  <2>2. CASE id # dev.id /\ \E d \in M!Rows(t) : d.id = id
    BY <1>2, <1>3, <2>2, ViewRows
  <2>3. CASE id # dev.id /\ \A d \in M!Rows(t) : d.id # id
    BY <1>2, <1>3, <2>3, ViewRows
  <2> QED BY <2>1, <2>2, <2>3
<1>5. ViewOf(u) = [id \in Id |-> ViewOf(u)[id]]
      /\ ViewOf(t) = [id \in Id |-> ViewOf(t)[id]]
  BY DEF ViewOf
<1> QED BY <1>1, <1>4, <1>5

LEMMA ForgetView ==
  ASSUME M!Table(known), NEW gone \in Id
  PROVE  ViewOf(M!Forget(gone)) = [ViewOf(known) EXCEPT ![gone] = None]
<1>1. PICK t, u : t = known /\ u = M!Forget(gone)
  OBVIOUS
<1>2. M!Table(t) /\ M!Table(u)
  BY <1>1, Assumed, M!ForgetProperties
<1>3. M!Rows(u) = {d \in M!Rows(t) : d.id # gone}
  BY <1>1, Assumed, M!ForgetRows
<1>4. ASSUME NEW id \in Id
      PROVE  ViewOf(u)[id] = IF id = gone THEN None ELSE ViewOf(t)[id]
  <2>1. CASE id = gone
    BY <1>2, <1>3, <2>1, ViewRows
  <2>2. CASE id # gone /\ \E d \in M!Rows(t) : d.id = id
    BY <1>2, <1>3, <2>2, ViewRows
  <2>3. CASE id # gone /\ \A d \in M!Rows(t) : d.id # id
    BY <1>2, <1>3, <2>3, ViewRows
  <2> QED BY <2>1, <2>2, <2>3
<1>5. ViewOf(u) = [id \in Id |-> ViewOf(u)[id]]
      /\ ViewOf(t) = [id \in Id |-> ViewOf(t)[id]]
  BY DEF ViewOf
<1> QED BY <1>1, <1>4, <1>5

-----------------------------------------------------------------------------
(* What the manager knows after a line: what the line says, unless it has  *)
(* no slot for the device.                                                 *)
Learns(line) ==
  \/ /\ line.op = "dev" /\ KnownView[line.dev.id] = None
     /\ KnownView' = KnownView /\ dropped' = dropped \cup {line.dev.id}
  \/ /\ line.op = "dev"
     /\ KnownView' = [KnownView EXCEPT ![line.dev.id] = line.dev]
     /\ dropped' = dropped \ {line.dev.id}
  \/ /\ line.op = "gone"
     /\ KnownView' = [KnownView EXCEPT ![line.id] = None]
     /\ dropped' = dropped \ {line.id}
  \/ line.op = "reply" /\ KnownView' = KnownView /\ dropped' = dropped

LEMMA Learned ==
  ASSUME KnownView \in D!Table, NEW line \in D!Line, Learns(line), Devs
  PROVE  /\ dropped' \subseteq Id /\ \A id \in dropped' : KnownView'[id] = None
         /\ line.op = "dev" => line.dev.id \in Told' /\ Told \subseteq Told'
         /\ line.op = "gone" => Told \ {line.id} \subseteq Told'
         /\ line.op = "reply" => Told' = Told
<1>1. line.op = "dev" => line.dev \in Device /\ line.dev.id \in Id
                         /\ line.dev # None
  BY Assumed, D!Constants, SameNames DEF D!Line, Device
<1>2. line.op = "gone" => line.id \in Id
  BY DEF D!Line
<1>3. PICK k, n, t, u : k = KnownView /\ n = KnownView' /\ t = Told /\ u = Told'
  OBVIOUS
<1>4. /\ t = {id \in Id : k[id] # None} \cup dropped
      /\ u = {id \in Id : n[id] # None} \cup dropped'
  BY <1>3 DEF Told
<1>5. k \in D!Table /\ dropped \subseteq Id /\ \A id \in dropped : k[id] = None
  BY <1>3 DEF Devs
<1>6. CASE /\ line.op = "dev" /\ k[line.dev.id] = None
           /\ n = k /\ dropped' = dropped \cup {line.dev.id}
  BY <1>1, <1>3, <1>4, <1>5, <1>6
<1>7. CASE /\ line.op = "dev" /\ n = [k EXCEPT ![line.dev.id] = line.dev]
           /\ dropped' = dropped \ {line.dev.id}
  <2>1. n[line.dev.id] = line.dev
        /\ \A id \in Id : id # line.dev.id => n[id] = k[id]
    BY <1>1, <1>5, <1>7 DEF D!Table
  <2> QED BY <1>1, <1>3, <1>4, <1>5, <1>7, <2>1
<1>8. CASE /\ line.op = "gone" /\ n = [k EXCEPT ![line.id] = None]
           /\ dropped' = dropped \ {line.id}
  <2>1. \A id \in Id : n[id] = IF id = line.id THEN None ELSE k[id]
    BY <1>2, <1>5, <1>8 DEF D!Table
  <2> QED BY <1>2, <1>3, <1>4, <1>5, <1>8, <2>1
<1>9. CASE line.op = "reply" /\ n = k /\ dropped' = dropped
  BY <1>3, <1>4, <1>5, <1>9
<1> QED BY <1>3, <1>6, <1>7, <1>8, <1>9 DEF Learns

(* A line makes of two pictures that agree two that agree. *)
LEMMA LearnsAlike ==
  ASSUME KnownView \in D!Table, NEW line \in D!Line, Learns(line),
         NEW view \in D!Table, NEW new, new = D!See(view, line)
  PROVE  /\ Agrees(view) =>
              \A id \in Id \ dropped' : new[id] # None => KnownView'[id] = new[id]
         /\ Mirrors(view) =>
              \A id \in Id : IF id \in dropped' THEN new[id] # None
                             ELSE KnownView'[id] = new[id]
<1>1. line.op = "dev" => line.dev.id \in Id /\ line.dev # None
  BY Assumed, D!Constants, SameNames DEF D!Line, Device
<1>2. line.op = "gone" => line.id \in Id
  BY DEF D!Line
<1>3. PICK k, n : k = KnownView /\ n = KnownView'
  OBVIOUS
<1>4. \A id \in Id :
        new[id] = IF line.op = "dev" /\ id = line.dev.id THEN line.dev
                  ELSE IF line.op = "gone" /\ id = line.id THEN None
                  ELSE view[id]
  BY <1>1, <1>2 DEF D!See, D!Table
<1>5. /\ Agrees(view) => \A id \in Id \ dropped : view[id] # None => k[id] = view[id]
      /\ Mirrors(view) => \A id \in Id : IF id \in dropped THEN view[id] # None
                                         ELSE k[id] = view[id]
  BY <1>3 DEF Agrees, Mirrors
<1>6. CASE /\ line.op = "dev"
           /\ n = k /\ dropped' = dropped \cup {line.dev.id}
  BY <1>1, <1>3, <1>4, <1>5, <1>6
<1>7. CASE /\ line.op = "dev" /\ n = [k EXCEPT ![line.dev.id] = line.dev]
           /\ dropped' = dropped \ {line.dev.id}
  <2>1. \A id \in Id : n[id] = IF id = line.dev.id THEN line.dev ELSE k[id]
    BY <1>1, <1>3, <1>7 DEF D!Table
  <2> QED BY <1>1, <1>3, <1>4, <1>5, <1>7, <2>1
<1>8. CASE /\ line.op = "gone" /\ n = [k EXCEPT ![line.id] = None]
           /\ dropped' = dropped \ {line.id}
  <2>1. \A id \in Id : n[id] = IF id = line.id THEN None ELSE k[id]
    BY <1>2, <1>3, <1>8 DEF D!Table
  <2> QED BY <1>2, <1>3, <1>4, <1>5, <1>8, <2>1
<1>9. CASE line.op = "reply" /\ n = k /\ dropped' = dropped
  BY <1>3, <1>4, <1>5, <1>9
<1> QED BY <1>3, <1>6, <1>7, <1>8, <1>9 DEF Learns

(* The manager handles a line, and only a reply ends its wait. *)
Handled(line) ==
  /\ M!Inv' /\ Devs'
  /\ conn' = conn
  /\ Learns(line)
  /\ waiting' = (waiting /\ line.op # "reply")
  /\ line.op # "reply" => M!KeepsHead

LEMMA ManagerStep ==
  ASSUME M!Inv, M!Next
  PROVE  M!Inv' /\ M!KeepsHead
<1>1. M!Inv /\ [M!Next]_(M!vars)
         => M!Inv' /\ [M!KeepsOwnDevice /\ M!KeepsHead]_(M!vars)
  BY Assumed, M!NextStep
<1>2. M!Inv' /\ (M!KeepsHead \/ UNCHANGED M!vars)
  BY <1>1
<1>3. UNCHANGED M!vars => M!KeepsHead
  BY DEF M!vars, M!KeepsHead, M!Inv
<1> QED BY <1>2, <1>3

LEMMA KnownTable ==
  ASSUME M!Inv
  PROVE  KnownView \in D!Table /\ M!Table(known)
BY ViewType, KnownViewIs DEF M!Inv

(* What there is to show of a table without a slot for `dev`. *)
LEMMA FullView ==
  ASSUME M!Inv, NEW dev \in Device, NoSlot(dev)
  PROVE  M!Remember(dev) = known /\ KnownView[dev.id] = None
<1>1. M!Remember(dev) = known
  BY Assumed, M!NotRemembered DEF NoSlot
<1>2. dev.id \in Id /\ \A d \in M!Rows(known) : d.id # dev.id
  BY DEF NoSlot, M!Rows, Device
<1>3. ViewOf(known)[dev.id] = None
  BY <1>2, KnownTable, ViewRows
<1> QED BY <1>1, <1>3, KnownViewIs

LEMMA DevHandled ==
  ASSUME M!Inv, Devs, NEW line \in D!Line,
         line.op = "dev", M!DevLine(line.dev),
         dropped' = IF NoSlot(line.dev) THEN dropped \cup {line.dev.id}
                    ELSE dropped \ {line.dev.id}
  PROVE  Handled(line)
<1>1. line.dev \in Device /\ line.dev.id \in Id
  BY SameNames DEF D!Line, Device
<1>2. M!Next
  BY <1>1, SameNames DEF M!Next, M!Connected, M!DriverLine
<1>3. known' = M!Remember(line.dev) /\ conn' = conn /\ waiting' = waiting
  BY DEF M!DevLine
<1>4. M!Table(known) /\ waiting \in BOOLEAN /\ KnownView \in D!Table
  BY KnownTable DEF M!Inv
<1>5. Learns(line)
  <2>1. CASE NoSlot(line.dev)
    BY <1>1, <1>3, <2>1, FullView, KnownViewIs DEF Learns
  <2>2. CASE ~NoSlot(line.dev)
    <3>1. KnownView' = [KnownView EXCEPT ![line.dev.id] = line.dev]
      BY <1>1, <1>3, <1>4, <2>2, RememberView, KnownViewIs
    <3> QED BY <2>2, <3>1 DEF Learns
  <2> QED BY <2>1, <2>2
<1>6. Devs'
  <2>1. PICK t, u : t = Told /\ u = Told'
    OBVIOUS
  <2>2. /\ line.dev.id \in u /\ t \subseteq u
        /\ dropped' \subseteq Id /\ \A id \in dropped' : KnownView'[id] = None
    BY <1>4, <1>5, <2>1, Learned
  <2>3. M!OwnerIn(session, u)
    BY <2>1, <2>2 DEF Devs, M!OwnerIn
  <2>4. M!OwnerIn(session', u)
    BY <1>1, <2>2, <2>3, Assumed, SameNames, M!DevLineOwner
  <2>5. M!OwnerIn(session, Told)'
    BY <2>1, <2>4 DEF M!OwnerIn
  <2> QED BY <2>2, <2>5 DEF Devs
<1>7. waiting' = (waiting /\ line.op # "reply")
  <2>1. line.op # "reply"
    OBVIOUS
  <2> QED BY <1>3, <1>4, <2>1
<1> QED BY <1>2, <1>3, <1>5, <1>6, <1>7, ManagerStep DEF Handled

LEMMA GoneHandled ==
  ASSUME M!Inv, Devs, NEW line \in D!Line,
         line.op = "gone", M!GoneLine(line.id),
         dropped' = dropped \ {line.id}
  PROVE  Handled(line)
<1>1. line.id \in Id
  BY DEF D!Line
<1>2. M!Next
  BY <1>1 DEF M!Next, M!Connected, M!DriverLine
<1>3. known' = M!Forget(line.id) /\ conn' = conn /\ waiting' = waiting
  BY DEF M!GoneLine
<1>4. M!Table(known) /\ waiting \in BOOLEAN /\ KnownView \in D!Table
  BY KnownTable DEF M!Inv
<1>5. Learns(line)
  <2>1. KnownView' = [KnownView EXCEPT ![line.id] = None]
    BY <1>1, <1>3, <1>4, ForgetView, KnownViewIs
  <2> QED BY <2>1 DEF Learns
<1>6. Devs'
  <2>1. PICK t, u : t = Told /\ u = Told'
    OBVIOUS
  <2>2. /\ t \ {line.id} \subseteq u
        /\ dropped' \subseteq Id /\ \A id \in dropped' : KnownView'[id] = None
    BY <1>4, <1>5, <2>1, Learned
  <2>3. ASSUME NEW d \in M!Rows(known) PROVE d.id \in t
    <3>1. d \in Device /\ d.id \in Id
      <4>1. d \in Device
        BY <1>4, <2>3 DEF M!Table, M!Rows, Devices
      <4> QED BY <4>1 DEF Device
    <3>2. ViewOf(known)[d.id] = d
      BY <1>4, <2>3, <3>1, ViewRows
    <3>3. d # None
      BY <3>1, Assumed, D!Constants, SameNames
    <3> QED BY <2>1, <3>1, <3>2, <3>3, KnownViewIs DEF Told
  <2>4. M!OwnerIn(session, t)
    BY <2>1 DEF Devs
  <2>5. M!OwnerIn(session', t \ {line.id})
    BY <1>1, <2>3, <2>4, Assumed, M!GoneLineOwner
  <2>6. M!OwnerIn(session, Told)'
    BY <2>1, <2>2, <2>5 DEF M!OwnerIn
  <2> QED BY <2>2, <2>6 DEF Devs
<1>7. waiting' = (waiting /\ line.op # "reply")
  <2>1. line.op # "reply"
    OBVIOUS
  <2> QED BY <1>3, <1>4, <2>1
<1> QED BY <1>2, <1>3, <1>5, <1>6, <1>7, ManagerStep DEF Handled

(* The owner, when nothing becomes of the devices. *)
LEMMA SameDevs ==
  ASSUME Devs, known' = known, dropped' = dropped,
         \A ids : M!OwnerIn(session, ids) => M!OwnerIn(session', ids)
  PROVE  Devs' /\ KnownView' = KnownView
<1>1. KnownView' = KnownView
  BY KnownViewIs
<1>2. Told' = Told
  BY <1>1 DEF Told
<1>3. M!OwnerIn(session', Told')
  BY <1>2 DEF Devs
<1>4. M!OwnerIn(session, Told)'
  BY <1>3 DEF M!OwnerIn
<1> QED BY <1>1, <1>4 DEF Devs

LEMMA ReplyHandled ==
  ASSUME M!Inv, Devs, NEW line \in D!Line, line.op = "reply",
         IF waiting /\ queue # <<>>
         THEN M!ReplyLine(line.ok, line.protocol)
         ELSE UNCHANGED mvars,
         dropped' = dropped
  PROVE  Handled(line)
<1>1. waiting \in BOOLEAN /\ (waiting => queue # <<>>)
  BY DEF M!Inv
<1>2. CASE waiting /\ queue # <<>>
  <2>1. line.ok \in BOOLEAN /\ line.protocol \in BOOLEAN
    BY DEF D!Line
  <2>2. M!ReplyLine(line.ok, line.protocol)
    BY <1>2
  <2>3. M!Next
    BY <2>1, <2>2 DEF M!Next, M!Connected, M!DriverLine
  <2>4. \A ids : M!OwnerIn(session, ids) => M!OwnerIn(session', ids)
    BY <2>2, Assumed, M!ReplyLineOwner
  <2>5. known' = known /\ conn' = conn /\ waiting' = FALSE
    BY <2>2, Zenon DEF M!ReplyLine
  <2>6. Devs' /\ KnownView' = KnownView
    BY <2>4, <2>5, SameDevs
  <2>7. waiting' = (waiting /\ line.op # "reply")
    BY <2>5
  <2> QED BY <2>3, <2>5, <2>6, <2>7, ManagerStep DEF Handled, Learns
<1>3. CASE ~waiting
  <2>1. UNCHANGED mvars
    BY <1>3
  <2>2. UNCHANGED <<session, known, queue, waiting, conn, media, linkUp>>
    BY <2>1 DEF mvars
  <2>3. M!Inv'
    <3>1. M!Inv /\ [M!Next]_(M!vars)
            => M!Inv' /\ [M!KeepsOwnDevice /\ M!KeepsHead]_(M!vars)
      BY Assumed, M!NextStep
    <3> QED BY <2>2, <3>1 DEF M!vars
  <2>4. Devs' /\ KnownView' = KnownView
    BY <2>2, SameDevs
  <2>5. waiting' = (waiting /\ line.op # "reply")
    BY <1>1, <1>3, <2>2
  <2> QED BY <2>2, <2>3, <2>4, <2>5 DEF Handled, Learns
<1> QED BY <1>1, <1>2, <1>3

LEMMA HandleStep ==
  ASSUME M!Inv, Devs, NEW line \in D!Line, Handle(line)
  PROVE  Handled(line)
BY DevHandled, GoneHandled, ReplyHandled DEF Handle

-----------------------------------------------------------------------------
(* The steps. *)

(* One daemon stands still. *)
LEMMA SameManager ==
  ASSUME M!Inv, Devs, UNCHANGED mvars, dropped' = dropped
  PROVE  M!Inv' /\ Devs' /\ KnownView' = KnownView
<1>1. UNCHANGED <<session, known, queue, waiting, conn, media, linkUp>>
  BY DEF mvars
<1>2. M!Inv /\ [M!Next]_(M!vars)
        => M!Inv' /\ [M!KeepsOwnDevice /\ M!KeepsHead]_(M!vars)
  BY Assumed, M!NextStep
<1>3. M!Inv'
  BY <1>1, <1>2 DEF M!vars
<1> QED BY <1>1, <1>3, SameDevs

LEMMA SameDriver ==
  ASSUME D!IInv, UNCHANGED dvars
  PROVE  D!IInv'
<1>1. UNCHANGED <<bus, uevent, table, claim, peer>>
  BY DEF dvars
<1> QED BY <1>1, Assumed, D!InParts, D!InPartsNext

(* A connection after a step. *)
LEMMA OneEndNext ==
  ASSUME D!IInv', peer'[me] # None
  PROVE  peer'[me] \in D!Peer /\ D!PeerInv(peer'[me], table')
BY Assumed, D!InPartsNext DEF D!Parts, D!Sound, D!Peers

LEMMA ConnectKeeps ==
  ASSUME StackInv, Connect
  PROVE  StackInv'
<1>1. /\ ~conn /\ conn' /\ waiting' = waiting
      /\ known' = known /\ session' = session
      /\ queue' = M!Enqueue(<<M!Sub>>) /\ UNCHANGED <<rest, restarted, dropped>>
  BY DEF Connect, M!Connect
<1>2. D!IInv'
  BY Assumed, D!AcceptKeeps DEF Connect, StackInv
<1>3. ~D!Open(me) /\ peer'[me] = D!NewPeer
  <2>1. \E f \in D!Fds : ~D!Open(f) /\ peer' = [peer EXCEPT ![f] = D!NewPeer]
    BY Assumed, D!AcceptPeer DEF Connect, StackInv
  <2>2. peer \in [D!Fds -> D!Peer \cup {None}]
    BY DEF StackInv, D!IInv, D!TypeOK
  <2> QED BY <2>1, <2>2, Assumed
<1>4. D!NewPeer # None /\ D!NewPeer.sub = FALSE /\ D!NewPeer.cmd = None
      /\ D!NewPeer.hup = FALSE /\ D!NewPeer.waits = FALSE
      /\ D!NewPeer.out = <<>>
  <2>1. D!NewPeer \in D!Peer
    BY DEF D!NewPeer, D!Peer, D!NoDevices, D!Table
  <2>2. D!NewPeer # None
    BY <2>1, Assumed, D!Constants
  <2> QED BY <2>2 DEF D!NewPeer
<1>5. M!Inv' /\ Devs' /\ KnownView' = KnownView
  <2>1. M!Next
    BY DEF Connect, M!Next, M!Connected
  <2> QED BY <1>1, <2>1, ManagerStep, SameDevs DEF StackInv
<1>6. queue = <<>> /\ waiting = FALSE
  BY <1>1 DEF StackInv, M!Inv
<1>7. queue' = <<M!Sub>>
  BY <1>1, <1>6, Assumed, M!FirstCommand DEF M!Cmd
<1>8. Head(queue') = M!Sub /\ queue' # <<>>
  BY <1>7
<1>9. rest = <<>> /\ (~restarted => known = <<>> /\ dropped = {})
  BY <1>1 DEF StackInv, Ends, FirstTime
<1>10. Ends'
  BY <1>1, <1>3, <1>4, <1>9 DEF Ends, StackInv
<1>11. Exchange'
  BY <1>1, <1>3, <1>4, <1>6, <1>8 DEF Exchange, Alternates
<1>12. Remembers' /\ FirstTime'
  BY <1>1, <1>3, <1>4, <1>9 DEF Remembers, FirstTime, D!Open
<1> QED BY <1>2, <1>5, <1>10, <1>11, <1>12 DEF StackInv

LEMMA SendKeeps ==
  ASSUME StackInv, Send
  PROVE  StackInv'
<1>1. CASE /\ D!Listens(me) /\ M!Pump(TRUE)
           /\ D!ClientSend(me, Command(Head(queue)))
           /\ UNCHANGED <<rest, started, restarted, dropped>>
  <2>1. /\ conn /\ queue # <<>> /\ conn' = conn /\ waiting' = TRUE
        /\ queue' = queue /\ known' = known
        /\ rest' = rest /\ restarted' = restarted /\ dropped' = dropped
    BY <1>1 DEF M!Pump
  <2>2. PICK cmd \in D!Command : cmd = Command(Head(queue)) /\ cmd # None
    <3>1. queue \in Seq(M!Cmd)
      BY DEF StackInv, M!Inv, M!GoodQueue
    <3>2. Head(queue) \in M!Cmd
      BY <2>1, <3>1
    <3> QED BY <3>2, CommandType
  <2>3. D!ClientSend(me, cmd)
    BY <1>1, <2>2
  <2>4. D!IInv'
    BY <2>3, Assumed, D!ClientSendKeeps DEF StackInv
  <2>5. PICK p, q : p = peer[me] /\ q = peer'[me]
    OBVIOUS
  <2>6. D!Requested(q, p, cmd) /\ p # None /\ ~p.hup
    BY <1>1, <2>3, <2>5, Assumed, D!ClientSendPeer
    DEF StackInv, D!Listens, D!Open
  <2>7. q # None
    BY <2>6, Assumed, D!Constants DEF D!Requested
  <2>8. M!Inv' /\ Devs' /\ KnownView' = KnownView
    <3>1. M!Next
      BY <1>1 DEF M!Next, M!Connected
    <3>2. \A ids : M!OwnerIn(session, ids) => M!OwnerIn(session', ids)
      BY <1>1, Assumed, M!PumpOwner DEF StackInv
    <3> QED BY <2>1, <3>1, <3>2, ManagerStep, SameDevs DEF StackInv
  <2>9. Ends'
    BY <2>1, <2>5, <2>6, <2>7 DEF StackInv, Ends, D!Open, D!Requested
  <2>10. Exchange'
    BY <2>1, <2>2, <2>5, <2>6, <2>7
    DEF StackInv, Exchange, Alternates, D!Open, D!Requested
  <2>11. Remembers' /\ FirstTime'
    BY <2>1, <2>5, <2>6, <2>7, <2>8
    DEF StackInv, Remembers, Agrees, FirstTime, Mirrors, D!Open, D!Requested
  <2> QED BY <2>4, <2>8, <2>9, <2>10, <2>11 DEF StackInv
<1>2. CASE /\ ~D!Listens(me) /\ M!Pump(FALSE)
           /\ UNCHANGED <<dvars, rest, started, restarted, dropped>>
  <2>1. /\ conn /\ conn' = conn /\ known' = known /\ dropped' = dropped
        /\ rest' = rest /\ restarted' = restarted /\ peer' = peer
    BY <1>2 DEF M!Pump, dvars
  <2>2. D!IInv'
    BY <1>2, SameDriver DEF StackInv
  <2>3. ~D!Open(me) /\ restarted
    BY <1>2, <2>1 DEF StackInv, Ends, FirstTime, D!Listens
  <2>4. M!Inv' /\ Devs'
    <3>1. M!Next
      BY <1>2 DEF M!Next, M!Connected
    <3>2. \A ids : M!OwnerIn(session, ids) => M!OwnerIn(session', ids)
      BY <1>2, Assumed, M!PumpOwner DEF StackInv
    <3> QED BY <2>1, <3>1, <3>2, ManagerStep, SameDevs DEF StackInv
  <2>5. Ends' /\ Exchange' /\ Remembers' /\ FirstTime'
    BY <2>1, <2>3
    DEF StackInv, Ends, Exchange, Remembers, FirstTime, D!Open
  <2> QED BY <2>2, <2>4, <2>5 DEF StackInv
<1> QED BY <1>1, <1>2 DEF Send

LEMMA ReceiveKeeps ==
  ASSUME StackInv, Receive
  PROVE  StackInv'
<1>1. PICK p, q : p = peer[me] /\ q = peer'[me]
  OBVIOUS
<1>2. D!IInv'
  BY Assumed, D!ClientReadKeeps DEF StackInv, Receive
<1>3. /\ D!Listens(me)
      /\ \E line \in D!Line : D!HasRead(peer'[me], peer[me], line)
  BY Assumed, D!ClientReadPeer DEF StackInv, Receive
<1>4. PICK line \in D!Line : D!HasRead(q, p, line)
  BY <1>1, <1>3
<1>5. p # None /\ ~p.hup /\ p \in D!Peer /\ D!PeerInv(p, table)
  BY <1>1, <1>3, OneEnd DEF StackInv, D!Listens, D!Open
<1>6. q # None /\ q \in D!Peer
  BY <1>4, Assumed, D!Constants DEF D!HasRead
<1>7. Handled(line)
  <2>1. Handle(line)
    BY <1>1, <1>4 DEF Receive, D!HasRead
  <2> QED BY <2>1, HandleStep DEF StackInv
<1>8. conn /\ conn' = conn /\ rest' = rest /\ restarted' = restarted
  BY <1>7 DEF Receive, Handled
<1>9. Alternates(p) /\ p.sub
  <2>1. Alternates(p)
    BY <1>1, <1>5, <1>8 DEF StackInv, Exchange, D!Open
  <2> QED BY <1>4, <2>1 DEF Alternates, D!HasRead
<1>10. Alternates(q)'
  <2>1. p.out \in Seq(D!Line) /\ p.out # <<>> /\ line = Head(p.out)
        /\ q.out = Tail(p.out)
    BY <1>4, <1>5 DEF D!HasRead, D!Peer
  <2>2. waiting' = q.waits
    BY <1>4, <1>7, <1>9 DEF Handled, Alternates, D!HasRead
  <2>3. ASSUME waiting', q.cmd = None PROVE D!HasReply(q.out)
    <3>1. waiting /\ line.op # "reply" /\ p.cmd = None
      BY <1>4, <1>7, <2>3 DEF Handled, D!HasRead
    <3>2. PICK i \in 1..Len(p.out) : p.out[i].op = "reply"
      BY <1>9, <3>1 DEF Alternates, D!HasReply
    <3>3. i # 1
      BY <2>1, <3>1, <3>2
    <3>4. i - 1 \in 1..Len(Tail(p.out)) /\ Tail(p.out)[i - 1] = p.out[i]
      BY <2>1, <3>3
    <3> QED BY <2>1, <3>2, <3>4 DEF D!HasReply
  <2>4. ASSUME q.cmd # None PROVE q.cmd = Command(Head(queue'))
    <3>1. p.cmd # None /\ p.cmd = q.cmd /\ waiting
      BY <1>4, <1>5, <1>9, <2>4
      DEF D!HasRead, D!PeerInv, D!Waiting, Alternates
    <3>2. line.op # "reply"
      <4>1. 1 \in 1..Len(p.out) /\ p.out[1] = line
        BY <2>1
      <4> QED BY <1>5, <3>1, <4>1 DEF D!PeerInv, D!Answers
    <3>3. waiting' /\ M!KeepsHead
      BY <1>7, <3>1, <3>2 DEF Handled
    <3>4. Head(queue') = Head(queue)
      BY <3>1, <3>3 DEF M!KeepsHead
    <3> QED BY <1>9, <3>1, <3>4 DEF Alternates
  <2>5. q.sub
    BY <1>4, <1>9 DEF D!HasRead
  <2> QED BY <2>2, <2>3, <2>4, <2>5 DEF Alternates
<1>11. q.view = D!See(p.view, line) /\ q.sub = p.sub /\ q.hup = p.hup
  BY <1>4, <1>9 DEF D!HasRead
<1>12. Learns(line) /\ KnownView \in D!Table /\ p.view \in D!Table
  BY <1>5, <1>7, KnownTable DEF Handled, StackInv, D!Peer
<1>13. /\ Agrees(p.view) => Remembers'
       /\ Mirrors(p.view) => Mirrors(q.view)'
  <2>1. PICK new : new = q.view /\ new = D!See(p.view, line)
    BY <1>11
  <2>2. /\ Agrees(p.view) =>
             \A id \in Id \ dropped' : new[id] # None => KnownView'[id] = new[id]
        /\ Mirrors(p.view) =>
             \A id \in Id : IF id \in dropped' THEN new[id] # None
                            ELSE KnownView'[id] = new[id]
    BY <1>12, <2>1, LearnsAlike
  <2> QED BY <1>1, <2>1, <2>2 DEF Remembers, Agrees, Mirrors
<1>14. Ends' /\ Remembers' /\ FirstTime'
  <2>1. Agrees(p.view)
    BY <1>1, <1>5, <1>8, <1>9 DEF StackInv, Remembers, D!Open
  <2>2. ~restarted => Mirrors(q.view)'
    BY <1>1, <1>8, <1>9, <1>13 DEF StackInv, FirstTime
  <2>3. Ends'
    BY <1>1, <1>5, <1>6, <1>8, <1>11 DEF StackInv, Ends, D!Open
  <2>4. FirstTime'
    BY <1>1, <1>6, <1>8, <1>9, <1>11, <2>2
    DEF StackInv, FirstTime, Mirrors, D!Open
  <2> QED BY <1>13, <2>1, <2>3, <2>4
<1>15. Exchange'
  BY <1>1, <1>10 DEF Exchange, Alternates
<1>16. M!Inv' /\ Devs'
  BY <1>7 DEF Handled
<1> QED BY <1>2, <1>14, <1>15, <1>16 DEF StackInv

LEMMA ReceiveRestKeeps ==
  ASSUME StackInv, ReceiveRest
  PROVE  StackInv'
<1>1. rest \in Seq(D!Line) /\ rest # <<>> /\ conn /\ ~D!Open(me)
  BY DEF StackInv, Ends, ReceiveRest
<1>2. restarted
  BY <1>1 DEF StackInv, FirstTime
<1>3. /\ rest' = Tail(rest) /\ restarted' = restarted /\ peer' = peer
      /\ UNCHANGED dvars
  BY DEF ReceiveRest, dvars
<1>4. D!IInv'
  BY <1>3, SameDriver DEF StackInv
<1>5. Handled(Head(rest))
  <2>1. Head(rest) \in D!Line
    BY <1>1
  <2>2. PICK line \in D!Line : line = Head(rest)
    BY <2>1
  <2> QED BY <2>2, HandleStep DEF ReceiveRest, StackInv
<1>6. conn' = conn /\ M!Inv' /\ Devs'
  BY <1>5 DEF Handled
<1>7. Ends'
  <2>1. Tail(rest) \in Seq(D!Line)
    BY <1>1
  <2> QED BY <1>1, <1>3, <1>6, <2>1 DEF Ends, D!Open
<1>8. Exchange' /\ Remembers' /\ FirstTime'
  BY <1>1, <1>2, <1>3 DEF Exchange, Remembers, FirstTime, D!Open
<1> QED BY <1>4, <1>6, <1>7, <1>8 DEF StackInv

LEMMA HangUpKeeps ==
  ASSUME StackInv, HangUp
  PROVE  StackInv'
<1>1. /\ conn /\ ~conn' /\ ~D!Open(me) /\ rest = <<>> /\ rest' = rest
      /\ restarted' = restarted /\ peer' = peer /\ known' = known
      /\ session' = session /\ dropped' = dropped /\ UNCHANGED dvars
  BY DEF HangUp, M!CloseDriver, dvars
<1>2. restarted
  BY <1>1 DEF StackInv, FirstTime
<1>3. D!IInv'
  BY <1>1, SameDriver DEF StackInv
<1>4. M!Inv'
  <2>1. M!Next
    BY DEF HangUp, M!Next
  <2> QED BY <2>1, ManagerStep DEF StackInv
<1>5. Devs'
  BY <1>1, SameDevs DEF StackInv
<1>6. Ends'
  BY <1>1 DEF StackInv, Ends, D!Open
<1>7. Exchange' /\ Remembers' /\ FirstTime'
  BY <1>1, <1>2 DEF Exchange, Remembers, FirstTime, D!Open
<1> QED BY <1>3, <1>4, <1>5, <1>6, <1>7 DEF StackInv

(* A step of the driver's.  A connection whose manager is gone may go; one  *)
(* whose manager is there stays, and keeps what the manager counts on.     *)
Follows(q) ==
  /\ Alternates(q)
  /\ q.sub => Agrees(q.view)
  /\ ~restarted => IF q.sub THEN Mirrors(q.view)
                  ELSE known = <<>> /\ dropped = {}

LEMMA Followed ==
  ASSUME StackInv, conn, D!Open(me)
  PROVE  ~peer[me].hup /\ Follows(peer[me])
BY DEF StackInv, Ends, Exchange, Remembers, FirstTime, Follows

LEMMA DriverMoves ==
  ASSUME StackInv, D!IInv', UNCHANGED mvars, rest' = rest,
         restarted' = restarted, dropped' = dropped,
         peer[me] = None => peer'[me] = None,
         peer[me] # None /\ peer'[me] # None => peer'[me].hup = peer[me].hup,
         conn /\ peer[me] # None => peer'[me] # None /\ Follows(peer'[me])
  PROVE  StackInv'
<1>1. UNCHANGED <<session, known, queue, waiting, conn, media, linkUp>>
  BY DEF mvars
<1>2. M!Inv' /\ Devs' /\ KnownView' = KnownView
  BY SameManager DEF StackInv
<1>3. PICK q : q = peer'[me]
  OBVIOUS
<1>4. Ends'
  BY <1>1 DEF StackInv, Ends, D!Open
<1>5. ASSUME conn, q # None PROVE Follows(q)
  BY <1>3, <1>5
<1>6. Exchange'
  BY <1>1, <1>3, <1>5 DEF Exchange, Follows, Alternates, D!Open
<1>7. Remembers'
  BY <1>1, <1>2, <1>3, <1>5 DEF Remembers, Follows, Agrees, D!Open
<1>8. FirstTime'
  <2>1. ASSUME ~restarted, conn PROVE peer'[me] # None
    BY <2>1 DEF StackInv, FirstTime, D!Open
  <2> QED BY <1>1, <1>2, <1>3, <1>5, <2>1
          DEF StackInv, FirstTime, Mirrors, Follows, D!Open
<1> QED BY <1>2, <1>4, <1>6, <1>7, <1>8 DEF StackInv

LEMMA RefreshMoves ==
  ASSUME StackInv, Roomy, D!Refresh, UNCHANGED mvars, rest' = rest,
         restarted' = restarted, dropped' = dropped
  PROVE  StackInv'
<1>1. D!IInv'
  BY Assumed, D!RefreshKeeps DEF StackInv
<1>2. PICK p, q : p = peer[me] /\ q = peer'[me]
  OBVIOUS
<1>3. ASSUME p = None PROVE q = None
  <2>1. PICK lost, events : D!Scanned(lost, events)
    BY Assumed, D!RefreshTells DEF StackInv
  <2>2. peer' = D!Lose(D!Broadcast(peer, events), lost)
    BY <2>1 DEF D!Scanned
  <2>3. D!Broadcast(peer, events)[me] = None
    BY <1>2, <1>3, Assumed DEF D!Broadcast
  <2> QED BY <1>2, <2>2, <2>3, Assumed DEF D!Lose
<1>4. ASSUME p # None, q # None PROVE D!Watched(q, p)
  BY <1>2, <1>4, Assumed, D!RefreshServes DEF StackInv, D!Open
<1>5. ASSUME p # None, conn PROVE q # None /\ Follows(q)
  <2>1. ~p.hup /\ Follows(p)
    BY <1>2, <1>5, Followed DEF D!Open
  <2>2. D!HasRoom(me)
    BY <1>2, <1>5, <2>1, RoomyHasRoom DEF StackInv, D!Open
  <2>3. q # None
    BY <1>2, <1>5, <2>2, Assumed, D!RefreshServes DEF StackInv, D!Open
  <2>4. Follows(q)
    BY <1>4, <1>5, <2>1, <2>3
    DEF Follows, Alternates, D!Watched, D!Alike
  <2> QED BY <2>3, <2>4
<1> QED BY <1>1, <1>2, <1>3, <1>4, <1>5, DriverMoves DEF D!Watched, D!Alike

LEMMA EndOfFileMoves ==
  ASSUME StackInv, D!EndOfFile(me), UNCHANGED mvars, rest' = rest,
         restarted' = restarted, dropped' = dropped
  PROVE  StackInv'
<1>1. D!IInv'
  BY Assumed, D!EndOfFileKeeps DEF StackInv
<1>2. peer[me] # None /\ peer[me].hup
  BY DEF D!EndOfFile, D!Open
<1>3. peer'[me] = None
  <2>1. peer \in [D!Fds -> D!Peer \cup {None}]
    BY DEF StackInv, D!IInv, D!TypeOK
  <2> QED BY <2>1, Assumed DEF D!EndOfFile
<1>4. ~conn
  BY <1>2 DEF StackInv, Ends, D!Open
<1> QED BY <1>1, <1>2, <1>3, <1>4, DriverMoves

LEMMA HandleLineMoves ==
  ASSUME StackInv, Roomy, D!HandleLine(me), UNCHANGED mvars, rest' = rest,
         restarted' = restarted, dropped' = dropped
  PROVE  StackInv'
<1>1. D!IInv'
  BY Assumed, D!HandleLineKeeps DEF StackInv
<1>2. PICK p, q : p = peer[me] /\ q = peer'[me]
  OBVIOUS
<1>3. p # None /\ p.cmd # None /\ D!Serves(me)
  BY <1>2, Assumed, D!HandleLineServes DEF StackInv, D!Open
<1>4. q # None => q.hup = p.hup
  BY <1>2, <1>3 DEF D!Serves, D!Closes
<1>5. ASSUME conn PROVE q # None /\ Follows(q)
  <2>1. ~p.hup /\ Follows(p)
    BY <1>2, <1>3, <1>5, Followed DEF D!Open
  <2>2. D!HasRoom(me)
    BY <1>2, <1>3, <2>1, RoomyHasRoom DEF StackInv, D!Open
  <2>3. q # None /\ D!Served(q, p)
    BY <1>2, <1>3, <2>2 DEF D!Serves
  <2>4. ~p.sub => p.cmd.op = "sub"
    BY <1>3, <2>1, SubIs DEF Follows, Alternates
  <2>5. q.sub /\ q.cmd = None /\ q.waits = p.waits /\ D!HasReply(q.out)
    BY <2>3, <2>4 DEF D!Served
  <2>6. q.view = IF p.sub THEN p.view ELSE D!NoDevices
    BY <2>3, <2>4 DEF D!Served
  <2>7. Alternates(q)
    BY <2>1, <2>5 DEF Follows, Alternates
  <2>8. Agrees(q.view)
    <3>1. \A id \in Id : D!NoDevices[id] = None
      BY DEF D!NoDevices
    <3> QED BY <2>1, <2>6, <3>1 DEF Follows, Agrees
  <2>9. ASSUME ~restarted PROVE Mirrors(q.view)
    <3>1. CASE p.sub
      BY <2>1, <2>6, <2>9, <3>1 DEF Follows
    <3>2. CASE ~p.sub
      <4>1. known = <<>> /\ dropped = {} /\ q.view = D!NoDevices
        BY <2>1, <2>6, <2>9, <3>2 DEF Follows
      <4>2. KnownView = q.view
        BY <4>1, KnownViewIs, ViewOfNothing
      <4> QED BY <4>1, <4>2 DEF Mirrors
    <3> QED BY <3>1, <3>2
  <2> QED BY <2>3, <2>5, <2>7, <2>8, <2>9 DEF Follows
<1> QED BY <1>1, <1>2, <1>3, <1>4, <1>5, DriverMoves

LEMMA HandlerKeeps ==
  ASSUME StackInv, Handler
  PROVE  StackInv'
<1>1. /\ Roomy /\ UNCHANGED mvars /\ rest' = rest /\ restarted' = restarted
      /\ dropped' = dropped
      /\ D!Refresh \/ D!EndOfFile(me) \/ D!HandleLine(me)
  BY DEF Handler
<1> QED BY <1>1, RefreshMoves, EndOfFileMoves, HandleLineMoves

LEMMA UsersKeep ==
  ASSUME StackInv, Users
  PROVE  StackInv'
<1>1. PICK cmd \in SimLines : M!SimLine(cmd)
  BY DEF Users
<1>2. /\ conn /\ conn' = conn /\ waiting' = waiting /\ known' = known
      /\ session' = session /\ queue' = Append(queue, cmd) /\ dropped' = dropped
      /\ rest' = rest /\ restarted' = restarted /\ peer' = peer
      /\ UNCHANGED dvars
  BY <1>1 DEF Users, M!SimLine, dvars
<1>3. D!IInv'
  BY <1>2, SameDriver DEF StackInv
<1>4. M!Inv' /\ Devs' /\ KnownView' = KnownView
  <2>1. M!Next
    BY <1>1 DEF M!Next, M!Connected, M!ClientLine
  <2> QED BY <1>2, <2>1, ManagerStep, SameDevs DEF StackInv
<1>5. queue # <<>> => queue' # <<>> /\ Head(queue') = Head(queue)
  <2>1. queue \in Seq(M!Cmd) /\ cmd \in M!Cmd
    BY DEF StackInv, M!Inv, M!GoodQueue, M!Cmd
  <2> QED BY <1>2, <2>1
<1>6. Exchange'
  <2>1. ASSUME D!Open(me) PROVE Alternates(peer[me])'
    <3>1. PICK p : p = peer[me]
      OBVIOUS
    <3>2. Alternates(p) /\ ~p.hup /\ D!PeerInv(p, table)
      BY <1>2, <2>1, <3>1, Followed, OneEnd DEF Follows, StackInv
    <3>3. p.cmd # None => queue # <<>>
      BY <3>2 DEF Alternates, D!PeerInv, D!Waiting, StackInv, M!Inv
    <3>4. Alternates(p)'
      BY <1>2, <1>5, <3>2, <3>3 DEF Alternates
    <3> QED BY <1>2, <3>1, <3>4 DEF Alternates
  <2> QED BY <1>2, <2>1 DEF Exchange, D!Open
<1>7. Ends' /\ Remembers' /\ FirstTime'
  BY <1>2, <1>4
  DEF StackInv, Ends, Remembers, Agrees, FirstTime, Mirrors, D!Open
<1> QED BY <1>3, <1>4, <1>6, <1>7 DEF StackInv

(* The bus, which touches no connection. *)
LEMMA ElsewhereKeeps ==
  ASSUME StackInv, D!IInv', UNCHANGED mvars, rest' = rest,
         restarted' = restarted, dropped' = dropped, peer' = peer
  PROVE  StackInv'
<1>1. ASSUME conn, peer[me] # None PROVE Follows(peer[me])
  BY <1>1, Followed DEF D!Open
<1> QED BY <1>1, DriverMoves

LEMMA BusKeeps ==
  ASSUME StackInv, Bus
  PROVE  StackInv'
<1>1. D!Kernel
  BY StackAssumption DEF Bus, D!Kernel
<1>2. D!IInv'
  BY <1>1, Assumed, D!KernelKeeps DEF StackInv
<1>3. /\ UNCHANGED mvars /\ rest' = rest /\ restarted' = restarted
      /\ dropped' = dropped /\ peer' = peer
  BY DEF Bus, D!Plug, D!Unplug
<1> QED BY <1>2, <1>3, ElsewhereKeeps

LEMMA ReenumerateKeeps ==
  ASSUME StackInv, NEW id \in Id, Reenumerate(id)
  PROVE  StackInv'
<1>1. PICK dev : dev = Accessory[bus[id]]
  OBVIOUS
<1>2. dev \in D!Device /\ dev.id \in Id
  <2>1. dev \in BusDevs
    BY <1>1, StackAssumption DEF Reenumerate
  <2> QED BY <2>1, Assumed, D!Constants DEF D!RealId
<1>3. /\ bus' = [bus EXCEPT ![id] = None, ![dev.id] = dev] /\ uevent' = TRUE
      /\ UNCHANGED <<mvars, table, claim, peer, rest, restarted, dropped>>
  BY <1>1 DEF Reenumerate
<1>4. D!Parts(bus, uevent, table, claim, peer)
  BY Assumed, D!InParts DEF StackInv
<1>5. bus' \in D!Table /\ D!ById(bus')
  BY <1>2, <1>3, <1>4 DEF D!Parts, D!Table, D!ById
<1>6. D!Parts(bus', uevent', table', claim', peer')
  BY <1>3, <1>4, <1>5 DEF D!Parts
<1>7. D!IInv'
  BY <1>6, Assumed, D!InPartsNext
<1> QED BY <1>3, <1>7, ElsewhereKeeps

(* The crashes. *)
LEMMA CrashKeeps ==
  ASSUME StackInv, Crash
  PROVE  StackInv'
<1>1. PICK p : p = peer[me]
  OBVIOUS
<1>2. /\ p # None /\ rest' = IF p.hup THEN <<>> ELSE p.out
      /\ peer' = [peer EXCEPT ![me] = None]
      /\ claim' = [id \in Id |-> 0] /\ table' = bus /\ uevent' = FALSE
      /\ restarted' = TRUE /\ bus' = bus /\ UNCHANGED <<mvars, dropped>>
  BY <1>1 DEF Crash, D!Open
<1>3. D!Parts(bus, uevent, table, claim, peer)
  BY Assumed, D!InParts DEF StackInv
<1>4. peer \in [D!Fds -> D!Peer \cup {None}]
  BY <1>3 DEF D!Parts, D!Sound
<1>5. \A f \in D!Fds : peer'[f] = None
  BY <1>2, <1>4, Assumed
<1>6. peer' \in [D!Fds -> D!Peer \cup {None}]
  BY <1>2, <1>4
<1>7. D!Parts(bus', uevent', table', claim', peer')
  BY <1>2, <1>3, <1>5, <1>6
  DEF D!Parts, D!Sound, D!Owners, D!Peers
<1>8. D!IInv'
  BY <1>7, Assumed, D!InPartsNext
<1>9. M!Inv' /\ Devs'
  BY <1>2, SameManager DEF StackInv
<1>10. peer'[me] = None /\ conn' = conn
  BY <1>2, <1>5, Assumed DEF mvars
<1>11. rest' \in Seq(D!Line) /\ (rest' # <<>> => conn)
  <2>1. p.out \in Seq(D!Line)
    BY <1>1, <1>2, OneEnd DEF StackInv, D!Open, D!Peer
  <2>2. ~p.hup => conn
    BY <1>1, <1>2 DEF StackInv, Ends, D!Open
  <2> QED BY <1>2, <2>1, <2>2
<1>12. Ends' /\ Exchange' /\ Remembers' /\ FirstTime'
  BY <1>2, <1>10, <1>11 DEF Ends, Exchange, Remembers, FirstTime, D!Open
<1> QED BY <1>8, <1>9, <1>12 DEF StackInv

LEMMA ManagerCrashKeeps ==
  ASSUME StackInv, ManagerCrash
  PROVE  StackInv'
<1>1. /\ conn /\ ~conn' /\ rest' = <<>> /\ restarted' = TRUE
  BY DEF ManagerCrash
<1>2. M!Inv' /\ Devs'
  <2>1. SessionInit = M!SessionInit
    BY DEF SessionInit, M!SessionInit
  <2>2. /\ session' = M!SessionInit /\ known' = <<>> /\ queue' = <<>>
        /\ waiting' = FALSE /\ conn' = FALSE /\ media' = M!NoMedia
        /\ linkUp' = linkUp
    BY <2>1 DEF ManagerCrash
  <2>3. M!Inv' /\ session'.phase = "idle" /\ dropped' = {}
    BY <2>2, Assumed, M!StartInv DEF StackInv, ManagerCrash
  <2> QED BY <2>3 DEF Devs, M!OwnerIn
<1>3. D!IInv' /\ (peer'[me] # None => peer'[me].hup)
  <2>1. CASE D!Listens(me)
    <3>1. D!ClientClose(me)
      BY <2>1 DEF ManagerCrash
    <3>2. D!IInv'
      BY <3>1, Assumed, D!ClientCloseKeeps DEF StackInv
    <3>3. peer \in [D!Fds -> D!Peer \cup {None}] /\ peer[me] # None
      BY <2>1 DEF StackInv, D!IInv, D!TypeOK, D!Listens, D!Open
    <3>4. PICK p \in D!Peer : p = peer[me]
      BY <3>3, Assumed
    <3>5. peer'[me] = [p EXCEPT !.hup = TRUE, !.out = <<>>, !.waits = FALSE,
                                !.view = D!NoDevices]
      BY <3>1, <3>3, <3>4, Assumed DEF D!ClientClose
    <3>6. peer'[me].hup
      BY <3>5 DEF D!Peer
    <3> QED BY <3>2, <3>6
  <2>2. CASE ~D!Listens(me)
    <3>1. UNCHANGED dvars
      BY <2>2 DEF ManagerCrash
    <3>2. D!IInv'
      BY <3>1, SameDriver DEF StackInv
    <3>3. peer[me] = None
      BY <1>1, <2>2 DEF StackInv, Ends, D!Listens, D!Open
    <3> QED BY <3>1, <3>2, <3>3 DEF dvars
  <2> QED BY <2>1, <2>2
<1>4. Ends' /\ Exchange' /\ Remembers' /\ FirstTime'
  <2>1. rest' \in Seq(D!Line)
    BY <1>1
  <2> QED BY <1>1, <1>3, <2>1
          DEF Ends, Exchange, Remembers, FirstTime, D!Open
<1> QED BY <1>2, <1>3, <1>4 DEF StackInv

LEMMA StackInit == Init => StackInv
<1> SUFFICES ASSUME Init PROVE StackInv
  OBVIOUS
<1>1. D!IInv
  BY Assumed, D!InitKeeps DEF Init
<1>2. M!Inv
  BY Assumed, M!InitInv DEF Init
<1>3. Devs
  BY DEF Init, M!Init, M!SessionInit, Devs, M!OwnerIn
<1>4. /\ peer[me] = None /\ conn = FALSE /\ known = <<>> /\ rest = <<>>
      /\ dropped = {}
  BY Assumed DEF Init, M!Init, D!Init
<1>5. rest \in Seq(D!Line)
  BY <1>4
<1>6. Ends /\ Exchange /\ Remembers /\ FirstTime
  BY <1>4, <1>5 DEF Ends, Exchange, Remembers, FirstTime, D!Open
<1> QED BY <1>1, <1>2, <1>3, <1>6 DEF StackInv

LEMMA StepKeeps ==
  ASSUME StackInv, [Next \/ ManagerCrash]_vars
  PROVE  StackInv'
<1>1. CASE Daemons
  BY <1>1, ConnectKeeps, SendKeeps, ReceiveKeeps, ReceiveRestKeeps,
     HangUpKeeps, HandlerKeeps DEF Daemons
<1>2. CASE Users \/ Bus \/ \E id \in Id : Reenumerate(id)
  BY <1>2, UsersKeep, BusKeeps, ReenumerateKeeps
<1>3. CASE Crash \/ ManagerCrash
  BY <1>3, CrashKeeps, ManagerCrashKeeps
<1>4. CASE UNCHANGED vars
  <2>1. UNCHANGED <<mvars, dvars, rest, restarted, dropped>> /\ peer' = peer
    BY <1>4 DEF vars, dvars
  <2> QED BY <2>1, SameDriver, ElsewhereKeeps DEF StackInv
<1> QED BY <1>1, <1>2, <1>3, <1>4 DEF Next, Step

(* Whatever restarts: the two daemons' own invariants, and what they may   *)
(* count on of each other.                                                 *)
THEOREM StackInvariant == RestartSpec => []StackInv
<1>1. StackInv /\ [Next \/ ManagerCrash]_vars => StackInv'
  BY StepKeeps
<1> QED BY StackInit, <1>1, PTL DEF RestartSpec

-----------------------------------------------------------------------------
(* What follows from it. *)
LEMMA SameFold ==
  ASSUME NEW view, NEW s
  PROVE  FoldLeft(D!See, view, s) = D!FoldLeft(D!See, view, s)
BY DEF FoldLeft, D!FoldLeft, MapThenFoldSet, D!MapThenFoldSet, Max, D!Max

(* A live connection, and the lines on it. *)
LEMMA Connection ==
  ASSUME StackInv, conn, D!Open(me)
  PROVE  /\ peer[me] \in D!Peer /\ ~peer[me].hup
         /\ D!PeerInv(peer[me], table) /\ Follows(peer[me])
         /\ peer[me].out \in Seq(D!Line) /\ Incoming = peer[me].out
         /\ peer[me].view \in D!Table /\ KnownView \in D!Table
         /\ table \in D!Table
<1>1. peer[me] \in D!Peer /\ ~peer[me].hup
      /\ D!PeerInv(peer[me], table) /\ Follows(peer[me])
  BY OneEnd, Followed DEF StackInv
<1>2. KnownView \in D!Table
  BY ViewType, KnownViewIs DEF StackInv, M!Inv
<1>3. table \in D!Table
  BY DEF StackInv, D!IInv, D!TypeOK
<1> QED BY <1>1, <1>2, <1>3 DEF D!Peer, Incoming

(* The lines on their way, read on top of a picture that agrees with the    *)
(* subscriber's, or of a table that has no slot for the device.            *)
LEMMA Foretold ==
  ASSUME StackInv, conn, D!Open(me), peer[me].sub, NEW id \in Id,
         id \notin dropped =>
           \/ peer[me].view[id] = KnownView[id]
           \/ peer[me].view[id] = None /\ table[id] # None
  PROVE  Knows(id)
<1>1. PICK k \in D!Table, p \in D!Table, s \in Seq(D!Line) :
        k = KnownView /\ p = peer[me].view /\ s = peer[me].out
  BY Connection
<1>2. PICK d : d = table[id]
  OBVIOUS
<1>3. D!Believes(p, s, id, d)
  BY <1>1, <1>2, Connection DEF D!PeerInv, D!ToldTable, D!Tells
<1>4. Expected = D!FoldLeft(D!See, k, s)
  BY <1>1, Connection, SameFold DEF Expected
<1>5. \A e : D!Believes(k, s, id, e) => D!FoldLeft(D!See, k, s)[id] = e
  BY Assumed, D!OneBelief
<1>6. CASE D!Believes(k, s, id, d)
  BY <1>2, <1>4, <1>5, <1>6 DEF Knows
<1>7. CASE ~D!Believes(k, s, id, d)
  <2>1. id \in dropped /\ k[id] = None
    <3>1. id \notin dropped => p[id] = k[id] \/ (p[id] = None /\ d # None)
      BY <1>1, <1>2
    <3>2. id \in dropped
      BY <1>3, <1>7, <3>1 DEF D!Believes
    <3> QED BY <1>1, <3>2 DEF StackInv, Devs
  <2>2. D!Believes(k, s, id, None)
    BY <1>3, <1>7, <2>1 DEF D!Believes
  <2> QED BY <1>4, <1>5, <2>1, <2>2 DEF Knows
<1> QED BY <1>6, <1>7

(* Until a daemon dies: what the manager knows of the devices, once it has *)
(* read the lines on their way, is the driver's table, but for those that  *)
(* found all slots taken (managerd.c:298).                                 *)
THEOREM KnowsTheTable == RestartSpec => []KnownFollowsTable
<1>1. StackInv => KnownFollowsTable
  <2> SUFFICES ASSUME StackInv, ~restarted, conn, D!Open(me), peer[me].sub,
                      NEW id \in Id
               PROVE  Knows(id)
    BY DEF KnownFollowsTable
  <2>1. id \notin dropped =>
          \/ peer[me].view[id] = KnownView[id]
          \/ peer[me].view[id] = None /\ table[id] # None
    BY Connection DEF Follows, Mirrors
  <2> QED BY <2>1, Foretold
<1> QED BY <1>1, StackInvariant, PTL

(* After any restarts: whatever is plugged the manager knows, as it is, or *)
(* had no slot for (managerd.c:300).                                       *)
THEOREM KnowsWhatIsPlugged == RestartSpec => []KnownCoversTable
<1>1. StackInv => KnownCoversTable
  <2> SUFFICES ASSUME StackInv, conn, D!Listens(me), peer[me].sub,
                      NEW id \in Id, table[id] # None
               PROVE  Knows(id)
    BY DEF KnownCoversTable
  <2>1. D!Open(me)
    BY DEF D!Listens
  <2>2. id \notin dropped =>
          (peer[me].view[id] # None => KnownView[id] = peer[me].view[id])
    BY <2>1, Connection DEF Follows, Agrees
  <2> QED BY <2>1, <2>2, Foretold
<1> QED BY <1>1, StackInvariant, PTL

(* Until a daemon dies: as long as a phone is plugged for which the        *)
(* manager's table had a slot, the session is not idle once the lines on   *)
(* their way are read (promote_idle, managerd.c:335).                      *)
THEOREM NobodyIsLeftOut == RestartSpec => []NoPhoneIsLeftOut
<1>1. StackInv => NoPhoneIsLeftOut
  <2> SUFFICES ASSUME StackInv, ~restarted, conn, D!Open(me), peer[me].sub,
                      Incoming = <<>>, session.phase = "idle",
                      NEW id \in Id, id \notin dropped, table[id] # None
               PROVE  ~Projects(table[id])
    BY DEF NoPhoneIsLeftOut
  <2>1. peer[me].view[id] = table[id]
    <3>1. peer[me].out = <<>> /\ Len(peer[me].out) = 0
      BY Connection
    <3>2. D!Believes(peer[me].view, peer[me].out, id, table[id])
      BY Connection DEF D!PeerInv, D!ToldTable, D!Tells
    <3> QED BY <3>1, <3>2 DEF D!Believes
  <2>2. KnownView[id] = table[id]
    BY <2>1 DEF StackInv, FirstTime, Mirrors
  <2>3. \E i \in 1..Len(known) : known[i] = table[id]
    BY <2>2 DEF KnownView
  <2>4. \A i \in 1..Len(known) : ~M!Projects(known[i])
    BY DEF StackInv, M!Inv, M!NoPhone
  <2>5. Projects(table[id]) => M!Projects(table[id])
    BY DEF Projects, M!Projects, Classify, M!Classify, AppleKind, M!AppleKind,
           IsAoap, M!IsAoap, IsApple, M!IsApple
  <2> QED BY <2>3, <2>4, <2>5
<1> QED BY <1>1, StackInvariant, PTL

(* After any restarts, with commands and replies in flight: the reply that *)
(* comes next is that to the command at the head of the queue              *)
(* (managerd.c:411).                                                       *)
THEOREM RepliesMatch == RestartSpec => []AnswerMatchesHead
<1>1. StackInv => AnswerMatchesHead
  <2> SUFFICES ASSUME StackInv, conn, D!Open(me)
               PROVE  /\ waiting <=> peer[me].cmd # None \/ D!Replies(me) = 1
                      /\ peer[me].cmd # None
                           => peer[me].cmd = Command(Head(queue))
    BY DEF AnswerMatchesHead
  <2>1. Alternates(peer[me]) /\ D!Waiting(peer[me]) /\ ~peer[me].hup
    BY Connection DEF Follows, D!PeerInv
  <2>2. /\ D!Replies(me) = 1 <=> D!HasReply(peer[me].out)
        /\ D!HasReply(peer[me].out) => peer[me].waits /\ peer[me].cmd = None
    BY Assumed, D!RepliesCounted DEF StackInv
  <2> QED BY <2>1, <2>2 DEF Alternates, D!Waiting
<1> QED BY <1>1, StackInvariant, PTL

-----------------------------------------------------------------------------
(* The driver is one of the environments the manager allows for. *)
LEMMA HandleIsLine ==
  ASSUME NEW line \in D!Line, Handle(line)
  PROVE  M!Connected \/ UNCHANGED M!vars
<1>1. CASE line.op = "dev" /\ M!DevLine(line.dev)
  <2>1. line.dev \in Devices
    BY <1>1, SameNames DEF D!Line
  <2> QED BY <1>1, <2>1 DEF M!Connected, M!DriverLine
<1>2. CASE line.op = "gone" /\ M!GoneLine(line.id)
  <2>1. line.id \in Id
    BY <1>2 DEF D!Line
  <2> QED BY <1>2, <2>1 DEF M!Connected, M!DriverLine
<1>3. CASE line.op = "reply"
  <2>1. line.ok \in BOOLEAN /\ line.protocol \in BOOLEAN
    BY <1>3 DEF D!Line
  <2>2. M!ReplyLine(line.ok, line.protocol) \/ UNCHANGED mvars
    BY <1>3 DEF Handle
  <2>3. UNCHANGED mvars => UNCHANGED M!vars
    BY DEF mvars, M!vars
  <2> QED BY <2>1, <2>2, <2>3 DEF M!Connected, M!DriverLine
<1> QED BY <1>1, <1>2, <1>3 DEF Handle

LEMMA ManagerRuns ==
  ASSUME StackInv, [Next]_vars
  PROVE  M!Connected \/ (HangUp /\ M!CloseDriver) \/ UNCHANGED M!vars
<1>1. CASE Connect \/ Send \/ Users
  BY <1>1 DEF Connect, Send, Users, M!Connected, M!ClientLine
<1>2. CASE Receive
  <2>1. /\ D!Listens(me)
        /\ \E line \in D!Line : D!HasRead(peer'[me], peer[me], line)
    BY <1>2, Assumed, D!ClientReadPeer DEF Receive, StackInv
  <2>2. \E line \in D!Line : Handle(line)
    BY <1>2, <2>1 DEF Receive, D!HasRead
  <2> QED BY <2>2, HandleIsLine
<1>3. CASE ReceiveRest
  <2>1. rest \in Seq(D!Line) /\ rest # <<>> /\ Handle(Head(rest))
    BY <1>3 DEF ReceiveRest, StackInv, Ends
  <2>2. PICK line \in D!Line : line = Head(rest)
    BY <2>1
  <2> QED BY <2>1, <2>2, HandleIsLine
<1>4. CASE HangUp
  BY <1>4 DEF HangUp
<1>5. CASE Handler \/ Bus \/ Crash \/ \E id \in Id : Reenumerate(id)
  BY <1>5 DEF Handler, Bus, Crash, Reenumerate, mvars, M!vars
<1>6. CASE UNCHANGED vars
  BY <1>6 DEF vars, mvars, M!vars
<1> QED BY <1>1, <1>2, <1>3, <1>4, <1>5, <1>6 DEF Next, Step, Daemons

(* As long as the manager itself stays up, everything it does in the stack *)
(* is a behaviour of Manager, also when the driver dies and lines of the   *)
(* old connection are still read: what is proved of Manager holds here,    *)
(* its refinement of Projection included.                                  *)
THEOREM StackRunsManager == CrashSpec => M!Spec
<1>1. StackInv /\ [Next]_vars => StackInv' /\ [M!Next]_(M!vars)
  BY StepKeeps, ManagerRuns DEF M!Next
<1>2. Init => M!Init
  BY DEF Init
<1> QED BY StackInit, <1>1, <1>2, PTL DEF CrashSpec, M!Spec

THEOREM StackImplementsProjection == CrashSpec => M!ImplementsProjection
<1>1. M!Spec => M!ImplementsProjection
  BY Assumed, M!Refines
<1> QED BY <1>1, StackRunsManager, PTL

-----------------------------------------------------------------------------
(* While no daemon dies. *)
StableInv == StackInv /\ ~restarted /\ M!Pending

(* The manager is then never hung up on, so each of its steps is one of    *)
(* those that keep a handshake pending.                                    *)
LEMMA StableStep == StableInv /\ [Step]_vars => StableInv'
<1> SUFFICES ASSUME StableInv, [Step]_vars PROVE StableInv'
  OBVIOUS
<1>1. StackInv'
  BY StepKeeps DEF StableInv, Next
<1>2. restarted' = restarted
  BY DEF Step, Daemons, Connect, Send, Receive, ReceiveRest, HangUp, Handler,
         Users, Bus, Reenumerate, vars
<1>3. ~HangUp /\ ~ReceiveRest
  BY DEF StableInv, StackInv, FirstTime, HangUp, ReceiveRest
<1>4. M!Connected \/ UNCHANGED M!vars
  <2>1. [Next]_vars
    BY DEF Next
  <2> QED BY <1>3, <2>1, ManagerRuns DEF StableInv
<1>5. M!Pending'
  BY <1>4, Assumed, M!PendingStep DEF StableInv, StackInv
<1> QED BY <1>1, <1>2, <1>5 DEF StableInv

THEOREM StableInvariant == StableSpec => []StableInv
<1>1. Init => StableInv
  BY StackInit DEF StableInv, Init, M!Init, M!SessionInit, M!Pending
<1> QED BY <1>1, StableStep, PTL DEF StableSpec

(* No session stays in phase aoa without a START queued or sent           *)
(* (managerd.c:281).                                                       *)
THEOREM HandshakeStaysPending == StableSpec => []HandshakePending
<1>1. StableInv => HandshakePending
  BY Assumed, M!PendingImplies DEF StableInv, HandshakePending
<1> QED BY <1>1, StableInvariant, PTL

(* The device of a session in progress is plugged, or the line that it is  *)
(* gone is on its way (session.c:144).                                     *)
THEOREM SessionsHaveDevices == StableSpec => []SessionHasDevice
<1>1. StableInv => SessionHasDevice
  <2> SUFFICES ASSUME StableInv, conn, D!Open(me), peer[me].sub,
                      session.phase \in {"aoa", "classified", "active"},
                      table[session.device] = None
               PROVE  \E i \in 1..Len(Incoming) :
                        Incoming[i] = D!Gone(session.device)
    BY DEF SessionHasDevice
  <2>1. StackInv /\ ~restarted
    BY DEF StableInv
  <2>2. PICK id : id = session.device /\ id \in Told
    BY <2>1 DEF StackInv, Devs, M!OwnerIn
  <2>3. id \in Id
    BY <2>1, <2>2 DEF Told, StackInv, Devs
  <2>4. peer[me].view[id] # None
    <3>1. Mirrors(peer[me].view)
      BY <2>1, Connection DEF Follows
    <3> QED BY <2>2, <2>3, <3>1 DEF Told, Mirrors
  <2>6. PICK out \in Seq(D!Line) :
          /\ out = Incoming
          /\ \E view : view[id] # None /\ D!Believes(view, out, id, None)
    <3>1. D!Tells(peer[me].out, peer[me].view, table)
      BY <2>1, Connection DEF D!PeerInv, D!ToldTable
    <3>2. D!Believes(peer[me].view, peer[me].out, id, None)
      BY <2>2, <2>3, <3>1 DEF D!Tells
    <3> QED BY <2>1, <2>4, <3>2, Connection
  <2>7. PICK j \in 1..Len(out) : D!About(out[j], id) /\ D!Says(out[j]) = None
    BY <2>6 DEF D!Believes
  <2>8. out[j] \in D!Line
    BY <2>6, <2>7
  <2>9. out[j].op = "gone" /\ out[j].id = id
    <3>1. None \notin D!Device
      BY Assumed, D!Constants
    <3> QED BY <2>7, <2>8, <3>1 DEF D!About, D!Says, D!Line
  <2>10. out[j] = D!Gone(id)
    <3>1. out[j] \in [op : {"gone"}, id : Id]
      BY <2>8, <2>9 DEF D!Line
    <3> QED BY <2>9, <3>1 DEF D!Gone
  <2> QED BY <2>2, <2>6, <2>7, <2>10
<1> QED BY <1>1, StableInvariant, PTL
===============================================================================
