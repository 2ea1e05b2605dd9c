----------------------------- MODULE Enumeration ------------------------------
(***************************************************************************)
(* How usb-driverd learns of real devices: the kernel changes sysfs and    *)
(* announces it with uevents, the daemon takes a uevent as a signal to     *)
(* read all of sysfs again (usbdrv_enum_root), compares the result with    *)
(* its table (refresh_real) and tells the subscribers the difference.      *)
(*                                                                         *)
(* Reading sysfs is a sequence of separate file accesses between which the *)
(* kernel goes on: a device may lose its interfaces, vanish or be replaced *)
(* by another one in the same port while it is read.  The uevents wait in  *)
(* a netlink socket that overruns.                                         *)
(*                                                                         *)
(* An id is busnum-devnum, the pair <<bus, num>>; a number that could not  *)
(* be read is 0.  There is one bus, whose numbers are given again when the *)
(* last one is reached.  Strings are sequences of characters; the sizes of *)
(* the buffers they pass through are constants.  The lists of interfaces   *)
(* and drivers are compared but left out of the line.                      *)
(***************************************************************************)
EXTENDS Wire

CONSTANTS Order,     \* the ports, in the order in which readdir lists them
          Hubs,      \* the ports that are root hubs
          Descs,     \* what may be plugged in: [kind, serial, classes]
          HubKind,   \* the ids of a root hub (vendor 1d6b)
          AccKinds,  \* the ids of a phone in accessory mode
          NoKind,    \* the ids of a device that could not be read
          MaxDev,    \* MAX_DEV, the capacity of the table (48)
          QueueLen,  \* uevents the netlink socket holds
          Nums,      \* devnum runs through 1..Nums (127)
          StrLen,    \* USBDRV_STR_LEN (128) and
          NameLen,   \* USBDRV_NAME_LEN (64): strings in the driver
          RawLen,    \* a value as it stands in the line (192)
          ManStr,    \* USBMAN_STR_LEN (96): a serial number and
          ManNet,    \* a network interface (32) in the manager
          Early,     \* the ports that may have a device at the start,
          Attaches,  \* how often a device is plugged in,
          Alike,     \* how many of one description at a time,
          Renames,   \* how often a network interface is renamed
                     \* (bounds of the model)
          None

Ports == {Order[k] : k \in 1..Len(Order)}
Kinds == {d.kind : d \in Descs} \cup {HubKind, NoKind}
Serials == {Cut(d.serial, StrLen) : d \in Descs} \cup {<<>>}

Classes == {"ncm", "ecm", "rndis", "storage", "hid", "adb", "vendor"}

ASSUME EnumerationAssumption ==
  /\ Order \in Seq(Ports) /\ IsInjective(Order) /\ Hubs \subseteq Ports
  /\ \A d \in Descs : d.classes \in Seq(Classes) /\ d.serial \in Seq(1..255)
  /\ HubKind \notin {d.kind : d \in Descs} \cup {NoKind}
  /\ MaxDev \in Nat \ {0} /\ QueueLen \in Nat \ {0} /\ Nums \in Nat \ {0}
  /\ Attaches \in Nat /\ Renames \in Nat /\ Alike \in Nat
  /\ StrLen \in Nat \ {0} /\ NameLen \in Nat /\ NameLen > 2
  /\ RawLen \in Nat /\ RawLen > 2
  /\ ManStr \in Nat \ {0} /\ ManNet \in Nat /\ ManNet > 2

VARIABLES sysfs,      \* /sys/bus/usb/devices
          lastnum,    \* the device number given last
          queue,      \* the uevents in the socket: "usb" or "net"
          congested,  \* the socket drops uevents until it is empty
          error,      \* the next recv fails with ENOBUFS
          scan,       \* refresh_real and usbdrv_enum_root while they run
          table,      \* g_real
          view,       \* what a subscriber knows of each id
          attaches, renames,
          missed,     \* history: a usb uevent was lost since a scan began
          stayed,     \* history: the devices there since the scan began
          doubled     \* history: the ids that had two entries at once, of
                      \* which no line told since

kernel == <<sysfs, lastnum, attaches, renames>>
socket == <<queue, congested, error>>
daemon == <<scan, table, view>>
vars == <<kernel, socket, daemon, missed, stayed, doubled>>

-----------------------------------------------------------------------------
(* The kernel (external).  An interface is added, probed by its driver,    *)
(* which registers its network interface, and then bound.                  *)
DriverOf(class) ==
  CASE class = "ncm" -> "cdc_ncm"
    [] class = "ecm" -> "cdc_ether"
    [] class = "rndis" -> "rndis_host"
    [] class = "storage" -> "usb-storage"
    [] class = "hid" -> "usbhid"
    [] class = "vendor" -> "ipheth"
    [] OTHER -> ""

HasNet(class) == class \in {"ncm", "ecm", "rndis", "vendor"}

Usb0 == <<117, 48>>      \* the name the kernel gives,
Enx  == <<101, 110>>     \* the name udev gives
NetName(iface) == IF iface.renamed THEN Enx ELSE Usb0

HubDesc == [kind |-> HubKind, serial |-> <<>>, classes |-> <<>>]

Interface == [stage : {"added", "probed", "bound"}, renamed : BOOLEAN]
Attached == [desc : Descs \cup {HubDesc}, num : 1..Nums, leaving : BOOLEAN,
             ifaces : Seq(Interface \cup {None})]

Device(desc, num) == [desc |-> desc, num |-> num, leaving |-> FALSE,
                      ifaces |-> [i \in 1..Len(desc.classes) |-> None]]

Plugged == {p \in Ports : sysfs[p] # None}
NumsOf(files) == {files[p].num : p \in {q \in Ports \ Hubs : files[q] # None}}

(* A uevent for the daemon's socket. *)
Send(event) ==
  IF congested \/ Len(queue) = QueueLen
  THEN /\ congested' = TRUE
       /\ error' = (error \/ ~congested)
       /\ missed' = (missed \/ event = "usb")
       /\ UNCHANGED queue
  ELSE /\ queue' = Append(queue, event)
       /\ UNCHANGED <<congested, error, missed>>

Changes(files) == /\ sysfs' = files
                  /\ stayed' = stayed \cap NumsOf(files)
                  /\ UNCHANGED <<daemon, doubled>>

(* A device gets the next number that is free, after the highest the first. *)
Ahead(n) == (n + Nums - lastnum - 1) % Nums

Attach(p, desc) ==
  /\ sysfs[p] = None /\ attaches < Attaches
  /\ Cardinality({q \in Plugged : sysfs[q].desc = desc}) < Alike
  /\ attaches' = attaches + 1
  /\ lastnum' \in 1..Nums \ NumsOf(sysfs)
  /\ \A n \in 1..Nums \ NumsOf(sysfs) : Ahead(lastnum') <= Ahead(n)
  /\ Changes([sysfs EXCEPT ![p] = Device(desc, lastnum')])
  /\ Send("usb")
  /\ UNCHANGED renames

SetIface(p, i, iface) == Changes([sysfs EXCEPT ![p].ifaces[i] = iface])

AddIface(p, i) ==
  /\ ~sysfs[p].leaving
  /\ sysfs[p].ifaces[i] = None
  /\ \A j \in 1..i - 1 : sysfs[p].ifaces[j] # None
  /\ SetIface(p, i, [stage |-> "added", renamed |-> FALSE])
  /\ Send("usb")
  /\ UNCHANGED <<lastnum, attaches, renames>>

InStage(p, i, stage) == /\ ~sysfs[p].leaving
                        /\ sysfs[p].ifaces[i] # None
                        /\ sysfs[p].ifaces[i].stage = stage

Probe(p, i) ==
  /\ InStage(p, i, "added")
  /\ DriverOf(sysfs[p].desc.classes[i]) # ""
  /\ SetIface(p, i, [sysfs[p].ifaces[i] EXCEPT !.stage = "probed"])
  /\ IF HasNet(sysfs[p].desc.classes[i]) THEN Send("net")
     ELSE UNCHANGED <<socket, missed>>
  /\ UNCHANGED <<lastnum, attaches, renames>>

Bind(p, i) ==
  /\ InStage(p, i, "probed")
  /\ SetIface(p, i, [sysfs[p].ifaces[i] EXCEPT !.stage = "bound"])
  /\ Send("usb")
  /\ UNCHANGED <<lastnum, attaches, renames>>

Rename(p, i) ==
  /\ renames < Renames /\ renames' = renames + 1
  /\ InStage(p, i, "probed") \/ InStage(p, i, "bound")
  /\ HasNet(sysfs[p].desc.classes[i]) /\ ~sysfs[p].ifaces[i].renamed
  /\ SetIface(p, i, [sysfs[p].ifaces[i] EXCEPT !.renamed = TRUE])
  /\ Send("net")
  /\ UNCHANGED <<lastnum, attaches>>

(* A device that was pulled loses its interfaces, then its directory.      *)
RemoveIface(p, i) ==
  /\ sysfs[p].ifaces[i] # None
  /\ \A j \in 1..i - 1 : sysfs[p].ifaces[j] = None
  /\ Changes([sysfs EXCEPT ![p].leaving = TRUE, ![p].ifaces[i] = None])
  /\ Send("usb")
  /\ UNCHANGED <<lastnum, attaches, renames>>

Detach(p) ==
  /\ \A i \in DOMAIN sysfs[p].ifaces : sysfs[p].ifaces[i] = None
  /\ Changes([sysfs EXCEPT ![p] = None])
  /\ Send("usb")
  /\ UNCHANGED <<lastnum, attaches, renames>>

Kernel ==
  \/ \E p \in Ports, desc \in Descs : Attach(p, desc)
  \/ \E p \in Plugged \ Hubs :
       \/ Detach(p)
       \/ \E i \in DOMAIN sysfs[p].ifaces :
            \/ AddIface(p, i) \/ Probe(p, i) \/ Bind(p, i)
            \/ Rename(p, i) \/ RemoveIface(p, i)

-----------------------------------------------------------------------------
(* usbdrv_enum_root: the port it is at, what it reads there next, the      *)
(* interfaces it has listed, and what it found so far.                     *)
Begin == [port |-> 1, reads |-> "access", dev |-> None, todo |-> <<>>,
          out |-> <<>>]

Blank == [kind |-> NoKind, serial |-> <<>>, bus |-> 0, num |-> 0,
          ifaces |-> <<>>, flags |-> {}, net |-> <<>>]

Entry == [kind : Kinds, serial : Serials, bus : {0, 1}, num : 0..Nums,
          ifaces : Seq(Classes \cup {"none"}), net : {<<>>, Usb0, Enx},
          flags : SUBSET (Classes \cup {"accessory", "ipheth"})]

Scanning == [port : 1..Len(Order) + 1,
             reads : {"access", "ids", "serial", "bus", "num", "list", "class",
                      "driver"},
             dev : Entry \cup {None}, todo : Seq(Nat), out : Seq(Entry)]

Line == [kind : Kinds, flags : SUBSET (Classes \cup {"accessory", "ipheth"}),
         serial : Seq(1..255), net : Seq(1..255)]

ASSUME NoneIsNothing ==
  None \notin Interface \cup Attached \cup Entry \cup Scanning \cup Line

Here == sysfs[Order[scan.port]]
NextPort == [scan EXCEPT !.port = @ + 1, !.reads = "access", !.dev = None,
                         !.todo = <<>>]

Reads(what) == /\ scan # None
               /\ scan.port <= Len(Order)
               /\ scan.reads = what

Goes(s) == /\ scan' = s
           /\ UNCHANGED <<kernel, socket, table, view, missed, stayed, doubled>>

(* Only directories with an idVendor are devices; the first MaxDev count.  *)
(* A root hub is read and left out; its files do not change.               *)
CountedHub(out, dev) == Append(out, dev)     \* mutant: the hub is counted

Counted(out, dev) == IF dev.kind = HubKind THEN out ELSE Append(out, dev)

Finish(dev) == [NextPort EXCEPT !.out = Counted(@, dev)]

Access ==
  /\ Reads("access")
  /\ Goes(IF Here = None THEN NextPort
          ELSE IF Len(scan.out) >= MaxDev
          THEN [scan EXCEPT !.port = Len(Order) + 1]
          ELSE IF Order[scan.port] \in Hubs
          THEN Finish([Blank EXCEPT !.kind = HubKind])
          ELSE [scan EXCEPT !.reads = "ids", !.dev = Blank])

(* read_device: what cannot be read stays zero. *)
ReadIds ==
  /\ Reads("ids")
  /\ LET kind == IF Here = None THEN NoKind ELSE Here.desc.kind
     IN Goes([scan EXCEPT !.reads = "serial", !.dev.kind = kind])

ReadSerial ==
  /\ Reads("serial")
  /\ Goes([scan EXCEPT !.reads = "bus",
             !.dev.serial = IF Here = None THEN <<>>
                            ELSE Cut(Here.desc.serial, StrLen)])

ReadBus ==
  /\ Reads("bus")
  /\ Goes([scan EXCEPT !.reads = "num",
             !.dev.bus = IF Here = None THEN 0 ELSE 1])

ReadNumKeepsLast ==                 \* mutant: the number of the last device
  /\ Reads("num")                     \* stays when it cannot be read
  /\ Goes([scan EXCEPT !.reads = "list",
             !.dev.num = IF Here # None THEN Here.num
                         ELSE IF scan.out = <<>> THEN 0 ELSE Last(scan.out).num,
             !.dev.flags = IF scan.dev.kind \in AccKinds THEN {"accessory"}
                           ELSE {}])

ReadNum ==
  /\ Reads("num")
  /\ Goes([scan EXCEPT !.reads = "list",
             !.dev.num = IF Here = None THEN 0 ELSE Here.num,
             !.dev.flags = IF scan.dev.kind \in AccKinds THEN {"accessory"}
                           ELSE {}])

Listed(dev) == Ranked({i \in DOMAIN dev.ifaces : dev.ifaces[i] # None})

NextIface(dev, todo) ==
  IF todo = <<>> THEN Finish(dev)
  ELSE [scan EXCEPT !.reads = "class", !.todo = todo, !.dev = dev]

ListIfaces ==
  /\ Reads("list")
  /\ Goes(NextIface(scan.dev, IF Here = None THEN <<>> ELSE Listed(Here)))

(* The interface that is read, None if it has gone since it was listed.    *)
Iface(i) == IF Here = None \/ i \notin DOMAIN Here.ifaces THEN None
            ELSE Here.ifaces[i]

(* note_iface: an interface is listed whatever it is, and what it is sets  *)
(* flags, by its class and by its driver.                                  *)
ByClass(class) == {class} \cap (Classes \ {"vendor"})

ByDriver(driver) ==
  CASE driver = "cdc_ncm" -> {"ncm"}
    [] driver = "cdc_ether" -> {"ecm"}
    [] driver = "rndis_host" -> {"rndis"}
    [] driver = "ipheth" -> {"ipheth"}
    [] driver = "usb-storage" -> {"storage"}
    [] driver = "usbhid" -> {"hid"}
    [] OTHER -> {}

ReadClass ==
  /\ Reads("class")
  /\ LET i == Head(scan.todo)
         class == IF Iface(i) = None THEN "none" ELSE Here.desc.classes[i]
     IN Goes([scan EXCEPT !.reads = "driver",
                          !.dev.ifaces = Append(@, class),
                          !.dev.flags = @ \cup ByClass(class)])

(* read_driver_name and find_net, which keeps the first network interface. *)
ReadDriver ==
  /\ Reads("driver")
  /\ LET i == Head(scan.todo)
         bound == /\ Iface(i) # None
                  /\ Iface(i).stage # "added"
         driver == IF bound THEN DriverOf(Here.desc.classes[i]) ELSE ""
         net == IF bound /\ HasNet(Here.desc.classes[i])
                THEN NetName(Iface(i)) ELSE <<>>
     IN Goes(NextIface([scan.dev EXCEPT
                          !.flags = @ \cup ByDriver(driver),
                          !.net = IF @ = <<>> THEN net ELSE @],
                       Tail(scan.todo)))

-----------------------------------------------------------------------------
(* refresh_real.                                                            *)
Id(d) == <<d.bus, d.num>>
IdsIn(t) == {Id(t[k]) : k \in 1..Len(t)}
AllIds == {0, 1} \X (0..Nums)

First(t, id) == t[Min({k \in 1..Len(t) : Id(t[k]) = id})]

(* same_payload; the node follows from the id. *)
SamePayload(a, b) ==
  /\ a.kind = b.kind /\ a.flags = b.flags
  /\ a.net = b.net /\ a.ifaces = b.ifaces
  /\ a.serial = b.serial

(* format_dev, and usbman_parse_dev at the other end. *)
SerialKey == <<115>>
NetKey == <<110>>

FormatDev(d) == SerialKey \o <<EQ>> \o Escape(d.serial, 3 * StrLen) \o <<SP>>
                \o NetKey \o <<EQ>> \o Escape(d.net, 3 * NameLen)

Parsed(d) == [kind |-> d.kind, flags |-> d.flags,
              serial |-> Take(FormatDev(d), SerialKey, RawLen, ManStr),
              net |-> Take(FormatDev(d), NetKey, RawLen, ManNet)]

NumberedAll(out) == out             \* mutant: 0-0 is kept

Numbered(out) == Pick(out, {k \in 1..Len(out) : Id(out[k]) # <<0, 0>>})

(* The entries whose dev line is sent, and the view of a subscriber that   *)
(* reads the gone lines and then these.                                    *)
EmitsNew(old, next) ==              \* mutant: changes are not announced
  {k \in 1..Len(next) : Id(next[k]) \notin IdsIn(old)}

Emits(old, next) ==
  {k \in 1..Len(next) : \/ Id(next[k]) \notin IdsIn(old)
                        \/ ~SamePayload(First(old, Id(next[k])), next[k])}

LinesOf(old, next, id) == {k \in Emits(old, next) : Id(next[k]) = id}

Told(old, next) ==
  [id \in AllIds |->
     IF LinesOf(old, next, id) # {}
     THEN Parsed(next[Max(LinesOf(old, next, id))])
     ELSE IF id \in IdsIn(old) \ IdsIn(next) THEN None ELSE view[id]]

Twice(t) == {id \in AllIds : \E i, j \in 1..Len(t) :
                               i # j /\ Id(t[i]) = id /\ Id(t[j]) = id}

Refresh ==
  /\ scan # None /\ scan.port > Len(Order)
  /\ table' = Numbered(scan.out)
  /\ view' = Told(table, table')
  /\ doubled' = Twice(table') \cup {id \in doubled \cap IdsIn(table') :
                                     LinesOf(table, table', id) = {}}
  /\ scan' = None
  /\ UNCHANGED <<kernel, socket, missed, stayed>>

(* The main loop: a failed recv and a uevent of another subsystem are      *)
(* passed over.                                                            *)
RecvFails == /\ scan = None /\ error
             /\ error' = FALSE
             /\ UNCHANGED <<kernel, queue, congested, daemon, missed, stayed,
                            doubled>>

Pops == /\ queue' = Tail(queue)
        /\ congested' = (congested /\ Len(queue) > 1)
        /\ UNCHANGED <<kernel, error, table, view, doubled>>

RecvIgnoresBursts ==                \* mutant: the uevents behind are dropped
  /\ scan = None /\ ~error /\ queue # <<>>
  /\ queue' = <<>>
  /\ congested' = FALSE
  /\ IF Head(queue) = "usb"
     THEN scan' = Begin /\ missed' = FALSE /\ stayed' = NumsOf(sysfs)
     ELSE UNCHANGED <<scan, missed, stayed>>
  /\ UNCHANGED <<kernel, error, table, view, doubled>>

Recv1 == /\ scan = None /\ ~error /\ queue # <<>>
         /\ Pops
         /\ IF Head(queue) = "usb"
            THEN scan' = Begin /\ missed' = FALSE /\ stayed' = NumsOf(sysfs)
            ELSE UNCHANGED <<scan, missed, stayed>>

Scans == \/ Access \/ ReadIds \/ ReadSerial \/ ReadBus \/ ReadNum
         \/ ListIfaces \/ ReadClass \/ ReadDriver \/ Refresh

Daemon == Scans \/ RecvFails \/ Recv1

(* The socket is opened before the first scan.  Devices may have been      *)
(* plugged in, and others pulled, before the daemon starts.                *)
Init ==
  /\ sysfs \in [Ports -> {None, Device(HubDesc, 1)} \cup
                        {Device(desc, num) : desc \in Descs, num \in 1..Nums}]
  /\ \A p \in Ports : p \in Hubs <=> sysfs[p] = Device(HubDesc, 1)
  /\ \A p, q \in Plugged \ Hubs : sysfs[p].num = sysfs[q].num => p = q
  /\ Plugged \subseteq Hubs \cup Early
  /\ attaches \in 0..Attaches /\ attaches = Cardinality(Plugged \ Hubs)
  /\ renames = 0
  /\ IF attaches = 0 THEN lastnum = 0 ELSE lastnum \in 1..Nums
  /\ queue = <<>> /\ congested = FALSE /\ error = FALSE
  /\ scan = Begin /\ table = <<>>
  /\ view = [id \in AllIds |-> None]
  /\ missed = FALSE /\ stayed = NumsOf(sysfs) /\ doubled = {}

Next == Kernel \/ Daemon

Spec == Init /\ [][Next]_vars

-----------------------------------------------------------------------------
(* Type correctness; the table keeps its capacity, holds no root hub and   *)
(* no device whose number could not be read at all (driverd.c:199).        *)
TypeOK ==
  /\ sysfs \in [Ports -> Attached \cup {None}]
  /\ lastnum \in 0..Nums /\ attaches \in 0..Attaches /\ renames \in 0..Renames
  /\ queue \in Seq({"usb", "net"}) /\ Len(queue) <= QueueLen
  /\ congested \in BOOLEAN /\ error \in BOOLEAN
  /\ missed \in BOOLEAN /\ stayed \subseteq NumsOf(sysfs)
  /\ scan \in Scanning \cup {None}
  /\ DOMAIN view = AllIds /\ doubled \subseteq AllIds
  /\ table \in Seq(Entry) /\ Len(table) <= MaxDev
  /\ \A k \in 1..Len(table) : /\ table[k].kind # HubKind
                              /\ Id(table[k]) # <<0, 0>>

Idle == scan = None /\ \A k \in 1..Len(queue) : queue[k] # "usb"
Settled == \A p \in Plugged : \A i \in DOMAIN sysfs[p].ifaces :
             sysfs[p].ifaces[i] = None \/ sysfs[p].ifaces[i].stage # "probed"

(* The devices that belong in the table, and how an entry describes one.   *)
Present == Pick(Order, {k \in 1..Len(Order) : Order[k] \in Plugged \ Hubs})

Describes(d, dev) ==
  LET there == Listed(dev)
      class(k) == dev.desc.classes[there[k]]
      bound == {k \in 1..Len(there) :
                  dev.ifaces[there[k]].stage = "bound"}
      nets == {k \in bound : HasNet(class(k))}
  IN /\ d.kind = dev.desc.kind /\ d.serial = Cut(dev.desc.serial, StrLen)
     /\ Id(d) = <<1, dev.num>>
     /\ d.ifaces = [k \in 1..Len(there) |-> class(k)]
     /\ d.flags = UNION ({ByClass(class(k)) : k \in 1..Len(there)} \cup
                         {ByDriver(DriverOf(class(k))) : k \in bound} \cup
                         {IF d.kind \in AccKinds THEN {"accessory"} ELSE {}})
     /\ IF nets = {} THEN d.net = <<>>
        ELSE \/ d.net = NetName(dev.ifaces[there[Min(nets)]])
             \/ d.net = Usb0       \* a rename is not noticed by itself

(* When the daemon has nothing left to do, its table is sysfs: whatever    *)
(* half-read, half-bound or replaced device a scan picked up is corrected  *)
(* by the scan of a later uevent.  What is excepted: a uevent lost in an   *)
(* overrun after which no other arrives (uevent.c:125), and the name of a  *)
(* network interface that is renamed after the last one (driverd.c:712).   *)
Matches == /\ Len(table) = Min({MaxDev, Len(Present)})
           /\ \A k \in 1..Len(table) : Describes(table[k], sysfs[Present[k]])

TableCatchesUp == Idle /\ Settled /\ ~missed => Matches

(* A subscriber knows the table: every id that is gone was announced, and  *)
(* what it parsed of the last line of an id is what the table says, with   *)
(* any characters in the strings (driverd.c:205-233, wire.c:258).  Of a    *)
(* serial number it keeps what its buffer holds, and "-" reads as empty;   *)
(* nothing is claimed if the codes of these characters are longer than the *)
(* buffer for the raw value (classify.c:72), which may cut one in half.     *)
(* Nor is anything claimed of an id that was given again while a scan ran  *)
(* and stands twice in the table: the next scan compares with its first    *)
(* entry, while the subscriber remembers the last.                         *)
Reading(s) == IF s = <<Dash>> THEN <<>> ELSE Cut(s, ManStr)
Clear(s) == Width(s, Len(Cut(s, ManStr))) < RawLen

ViewFollowsTable ==
  /\ \A id \in AllIds : id \notin IdsIn(table) => view[id] = None
  /\ \A k \in 1..Len(table) :
       table[k].num # 0 /\ Id(table[k]) \notin doubled =>
         LET v == view[Id(table[k])]
         IN /\ v # None
            /\ v.kind = table[k].kind /\ v.flags = table[k].flags
            /\ v.net = table[k].net
            /\ Clear(table[k].serial) => v.serial = Reading(table[k].serial)

(* A device that is there all through a scan is not announced as gone by   *)
(* it, whatever happens in the other ports meanwhile: its session would    *)
(* end for nothing.  There must be room for all devices.                   *)
PresentIsKept ==
  [][scan # None /\ scan' = None /\ Len(Order) - Cardinality(Hubs) <= MaxDev
       => \A n \in stayed : <<1, n>> \in IdsIn(table')]_vars

(* Nor does it stand twice in the table: an id names two entries only if   *)
(* its number was given again while the scan ran (driverd.c:188-199).      *)
StayersOnce ==
  [][scan # None /\ scan' = None
       => \A n \in stayed : <<1, n>> \notin Twice(table')]_vars
=============================================================================
