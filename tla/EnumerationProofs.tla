--------------------------- MODULE EnumerationProofs --------------------------
(***************************************************************************)
(* Proofs about Enumeration, for any ports, hubs and devices, a table and  *)
(* a netlink socket of any size, buffers of any sizes, and any number of   *)
(* plugs and renames.                                                      *)
(*                                                                         *)
(* A scan is no snapshot.  What makes its result right in the end is that   *)
(* a change which could spoil it sends a uevent: as long as none waits and *)
(* none was lost (Clean), everything read so far is still so, device by     *)
(* device and field by field, except for interfaces whose driver has just  *)
(* been probed, which sends none.                                          *)
(*                                                                         *)
(* What a subscriber makes of the lines of a refresh rests on WireProofs.  *)
(* A number may be given again at any time: what is claimed of an id fails *)
(* only while it names two entries, and never for a device that stays.     *)
(***************************************************************************)
EXTENDS Enumeration, WireProofs

(* The positions of the ports in which a device may be, of those in which   *)
(* one is, and of those among the first m.                                 *)
Positions == 1..Len(Order)
Free == {k \in Positions : Order[k] \notin Hubs}
There(files) == {k \in Free : files[Order[k]] # None}
Taken(files, m) == UpTo(There(files), m)

(* An attached device is as it was described when it was plugged in.       *)
KernelSound ==
  /\ sysfs \in [Ports -> Attached \cup {None}]
  /\ lastnum \in 0..Nums /\ attaches \in 0..Attaches /\ renames \in 0..Renames
  /\ \A p \in Ports \ Hubs : sysfs[p] # None =>
       /\ sysfs[p].desc \in Descs
       /\ Len(sysfs[p].ifaces) = Len(sysfs[p].desc.classes)
  /\ stayed \subseteq NumsOf(sysfs)

SocketSound ==
  /\ queue \in Seq({"usb", "net"}) /\ Len(queue) <= QueueLen
  /\ congested \in BOOLEAN /\ error \in BOOLEAN /\ missed \in BOOLEAN

(* Where the scan is. *)
ScanSound ==
  /\ scan \in Scanning \cup {None}
  /\ scan # None =>
       /\ Len(scan.out) <= MaxDev
       /\ \A j \in 1..Len(scan.out) : scan.out[j].kind # HubKind
       /\ scan.reads # "access" =>
            /\ scan.port \in Free /\ Len(scan.out) < MaxDev
            /\ scan.dev # None /\ scan.dev.kind # HubKind
       /\ scan.reads \in {"class", "driver"} => scan.todo # <<>>

TableSound ==
  /\ DOMAIN view = AllIds /\ doubled \subseteq AllIds
  /\ table \in Seq(Entry) /\ Len(table) <= MaxDev
  /\ \A j \in 1..Len(table) : /\ table[j].kind # HubKind
                              /\ Id(table[j]) # <<0, 0>>

(* A device that has been there since the scan began is in what the scan   *)
(* found, or will be when it is read.                                      *)
Room == Cardinality(Free) <= MaxDev

Found ==
  /\ Len(scan.out) <= Cardinality(UpTo(Free, scan.port - 1))
  /\ \A k \in There(sysfs) : sysfs[Order[k]].num \in stayed =>
       /\ k < scan.port => <<1, sysfs[Order[k]].num>> \in IdsIn(scan.out)
       /\ k = scan.port =>
            /\ scan.reads \in {"num", "list", "class", "driver"}
                 => scan.dev.bus = 1
            /\ scan.reads \in {"list", "class", "driver"}
                 => scan.dev.num = sysfs[Order[k]].num

(* No usb uevent waits or was lost. *)
Clean == ~missed /\ \A k \in 1..Len(queue) : queue[k] # "usb"

(* No driver is between its probe and its uevent. *)
Calm(dev) == \A i \in DOMAIN dev.ifaces :
               dev.ifaces[i] = None \/ dev.ifaces[i].stage # "probed"

(* What an entry says of the first m interfaces, of the class of the first *)
(* c, when it is read.                                                     *)
Class(dev, k) == dev.desc.classes[Listed(dev)[k]]
Bound(dev, m) == {k \in 1..m : dev.ifaces[Listed(dev)[k]].stage = "bound"}
Nets(dev, m) == {k \in Bound(dev, m) : HasNet(Class(dev, k))}

Accessory(kind) == IF kind \in AccKinds THEN {"accessory"} ELSE {}
Flags == Classes \cup {"accessory", "ipheth"}

Reports(d, dev, c, m) ==
  /\ d.ifaces = [k \in 1..c |-> Class(dev, k)]
  /\ \A f \in Flags : f \in d.flags <=>
       \/ f \in Accessory(d.kind)
       \/ \E k \in 1..c : f \in ByClass(Class(dev, k))
       \/ \E k \in Bound(dev, m) : f \in ByDriver(DriverOf(Class(dev, k)))
  /\ IF Nets(dev, m) = {} THEN d.net = <<>>
     ELSE \/ d.net = NetName(dev.ifaces[Listed(dev)[Min(Nets(dev, m))]])
          \/ d.net = Usb0

Tells(d, dev) ==
  /\ d.kind = dev.desc.kind /\ d.serial = Cut(dev.desc.serial, StrLen)
  /\ d.bus = 1 /\ d.num = dev.num
  /\ Calm(dev) => Reports(d, dev, Len(Listed(dev)), Len(Listed(dev)))

(* What was found so far is what the ports up to m hold, as far as it fits. *)
Covers(t, files, m) ==
  /\ Len(t) = Min({MaxDev, Cardinality(Taken(files, m))})
  /\ \A k \in Taken(files, m) :
       LET j == Cardinality(Taken(files, k))
       IN j <= MaxDev => Tells(t[j], files[Order[k]])

(* What has been read of the device the scan is at. *)
Partly ==
  LET dev == scan.dev
      all == Listed(Here)
      m == Len(all) - Len(scan.todo)
      read(what) == scan.reads \notin what
  IN /\ Here # None
     /\ read({"ids"}) => dev.kind = Here.desc.kind
     /\ read({"ids", "serial"}) => dev.serial = Cut(Here.desc.serial, StrLen)
     /\ read({"ids", "serial", "bus"}) => dev.bus = 1
     /\ read({"ids", "serial", "bus", "num"}) => dev.num = Here.num
     /\ scan.reads = "list" => /\ dev.ifaces = <<>> /\ dev.net = <<>>
                               /\ dev.flags = Accessory(dev.kind)
     /\ scan.reads \in {"ids", "serial", "bus", "num"} =>
          dev.ifaces = <<>> /\ dev.net = <<>>
     /\ scan.reads \in {"class", "driver"} =>
          /\ Len(scan.todo) <= Len(all)
          /\ \A i \in 1..Len(scan.todo) : scan.todo[i] = all[m + i]
          /\ Calm(Here) =>
               Reports(dev, Here, IF scan.reads = "class" THEN m ELSE m + 1, m)

CleanSound ==
  Clean =>
    IF scan = None THEN Covers(table, sysfs, Len(Order))
    ELSE /\ Covers(scan.out, sysfs, scan.port - 1)
         /\ scan.reads # "access" => Partly

IInv == /\ KernelSound /\ SocketSound /\ ScanSound /\ TableSound
        /\ Room /\ scan # None => Found
        /\ CleanSound


-----------------------------------------------------------------------------
(* Ports and their positions. *)
LEMMA OrderFacts ==
  /\ Len(Order) \in Nat /\ Order \in Seq(Ports)
  /\ \A k \in Positions : Order[k] \in Ports
  /\ \A j, k \in Positions : Order[j] = Order[k] => j = k
  /\ \A p \in Ports : \E k \in Positions : Order[k] = p
  /\ Free \in SUBSET (1..Len(Order))
  /\ \A k \in Free : k \in Positions /\ Order[k] \in Ports \ Hubs
  /\ \A p \in Ports \ Hubs : \E k \in Free : Order[k] = p
<1>1. Len(Order) \in Nat /\ Order \in Seq(Ports)
  BY EnumerationAssumption
<1>2. DOMAIN Order = 1..Len(Order)
  BY <1>1
<1>3. \A j, k \in Positions : Order[j] = Order[k] => j = k
  BY <1>2, EnumerationAssumption DEF IsInjective, Positions
<1>4. \A p \in Ports : \E k \in Positions : Order[k] = p
  BY DEF Ports, Positions
<1>5. \A k \in Positions : Order[k] \in Ports
  BY DEF Ports, Positions
<1> QED BY <1>1, <1>3, <1>4, <1>5 DEF Free, Positions

LEMMA ThereFacts ==
  ASSUME NEW files
  PROVE  /\ There(files) \in SUBSET (1..Len(Order))
         /\ There(files) \subseteq Free
         /\ Cardinality(There(files)) \in Nat
BY OrderFacts, FiniteSub DEF There

LEMMA TakenFacts ==
  ASSUME NEW files, NEW m
  PROVE  /\ Taken(files, m) \in SUBSET (1..Len(Order))
         /\ IsFiniteSet(Taken(files, m))
         /\ Cardinality(Taken(files, m)) \in Nat
<1>1. Taken(files, m) \in SUBSET (1..Len(Order))
  BY ThereFacts DEF Taken, UpTo
<1> QED BY <1>1, OrderFacts, FiniteSub

-----------------------------------------------------------------------------
(* What the kernel does.  A device that changes keeps its description, its *)
(* number and the number of its interfaces.                                *)
Alters(p, dev) ==
  /\ p \in Ports \ Hubs /\ sysfs[p] # None /\ dev \in Attached
  /\ dev.desc = sysfs[p].desc /\ dev.num = sysfs[p].num
  /\ Len(dev.ifaces) = Len(sysfs[p].ifaces)
  /\ sysfs' = [sysfs EXCEPT ![p] = dev]

LEMMA AttachedFacts ==
  ASSUME KernelSound, NEW p \in Ports \ Hubs, sysfs[p] # None
  PROVE  /\ sysfs[p] \in Attached
         /\ sysfs[p].desc \in Descs /\ sysfs[p].desc.classes \in Seq(Classes)
         /\ sysfs[p].num \in 1..Nums
         /\ sysfs[p].ifaces \in Seq(Interface \cup {None})
         /\ DOMAIN sysfs[p].ifaces = 1..Len(sysfs[p].ifaces)
         /\ DOMAIN sysfs[p].desc.classes = DOMAIN sysfs[p].ifaces
         /\ Len(sysfs[p].ifaces) \in Nat
<1>1. sysfs[p] \in Attached
  BY DEF KernelSound
<1>2. sysfs[p].desc \in Descs /\ Len(sysfs[p].ifaces) = Len(sysfs[p].desc.classes)
  BY DEF KernelSound
<1>3. sysfs[p].num \in 1..Nums /\ sysfs[p].ifaces \in Seq(Interface \cup {None})
  BY <1>1 DEF Attached
<1>4. sysfs[p].desc.classes \in Seq(Classes)
  BY <1>2, EnumerationAssumption
<1> QED BY <1>1, <1>2, <1>3, <1>4

(* Setting an interface alters a device, whether it is leaving or not.     *)
LEMMA IfaceAlters ==
  ASSUME KernelSound, NEW p \in Plugged \ Hubs, NEW i \in DOMAIN sysfs[p].ifaces,
         NEW x \in Interface \cup {None}, NEW files,
         \/ files = [sysfs EXCEPT ![p].ifaces[i] = x]
         \/ files = [sysfs EXCEPT ![p].leaving = TRUE, ![p].ifaces[i] = x],
         Changes(files)
  PROVE  \E dev : /\ Alters(p, dev)
                  /\ dev.ifaces = [sysfs[p].ifaces EXCEPT ![i] = x]
<1> DEFINE old == sysfs[p]
           dev == files[p]
<1>1. p \in Ports \ Hubs /\ old # None
  BY DEF Plugged
<1>2. old \in Attached /\ old.ifaces \in Seq(Interface \cup {None})
  BY <1>1, AttachedFacts
<1>m. i \in 1..Len(old.ifaces)
  BY <1>1, AttachedFacts
<1>3. sysfs \in [Ports -> Attached \cup {None}]
  BY DEF KernelSound
<1>4. /\ files = [sysfs EXCEPT ![p] = dev]
      /\ dev.desc = old.desc /\ dev.num = old.num
      /\ dev.ifaces = [old.ifaces EXCEPT ![i] = x]
      /\ dev \in Attached
  <2>1. CASE files = [sysfs EXCEPT ![p].ifaces[i] = x]
    <3>1. dev = [old EXCEPT !.ifaces[i] = x]
      BY <1>1, <1>3, <2>1
    <3>2. files = [sysfs EXCEPT ![p] = dev]
      BY <1>1, <1>3, <2>1, <3>1
    <3> HIDE DEF dev, old
    <3>3. dev.desc = old.desc /\ dev.num = old.num
      BY <3>1, <1>2 DEF Attached
    <3>4. dev.ifaces = [old.ifaces EXCEPT ![i] = x]
      BY <3>1, <1>2 DEF Attached
    <3>5. [old.ifaces EXCEPT ![i] = x] \in Seq(Interface \cup {None})
      BY <1>2, <1>m, ExceptSeq
    <3>6. dev \in Attached
      BY <3>1, <3>3, <3>4, <3>5, <1>2 DEF Attached
    <3> QED BY <3>2, <3>3, <3>4, <3>6
  <2>2. CASE files = [sysfs EXCEPT ![p].leaving = TRUE, ![p].ifaces[i] = x]
    <3>1. dev = [old EXCEPT !.leaving = TRUE, !.ifaces[i] = x]
      BY <1>1, <1>3, <2>2
    <3>2. files = [sysfs EXCEPT ![p] = dev]
      BY <1>1, <1>3, <2>2, <3>1
    <3> HIDE DEF dev, old
    <3>3. dev.desc = old.desc /\ dev.num = old.num
      BY <3>1, <1>2 DEF Attached
    <3>4. dev.ifaces = [old.ifaces EXCEPT ![i] = x]
      BY <3>1, <1>2 DEF Attached
    <3>5. [old.ifaces EXCEPT ![i] = x] \in Seq(Interface \cup {None})
      BY <1>2, <1>m, ExceptSeq
    <3>6. dev \in Attached
      BY <3>1, <3>3, <3>4, <3>5, <1>2 DEF Attached
    <3> QED BY <3>2, <3>3, <3>4, <3>6
  <2> QED BY <2>1, <2>2
<1>5. Len(dev.ifaces) = Len(old.ifaces)
  BY <1>2, <1>4, <1>m, ExceptSeq
<1>6. sysfs' = files
  BY DEF Changes
<1>7. Alters(p, dev)
  BY <1>1, <1>4, <1>5, <1>6 DEF Alters
<1> QED BY <1>4, <1>7

(* What stays true of sysfs and of the devices that stay. *)
Remains ==
  \A k \in There(sysfs') : sysfs'[Order[k]].num \in stayed' =>
    /\ k \in There(sysfs) /\ sysfs[Order[k]].num = sysfs'[Order[k]].num
    /\ sysfs'[Order[k]].num \in stayed

LEMMA AlteredSound ==
  ASSUME KernelSound, NEW p, NEW dev, Alters(p, dev),
         Changes(sysfs'), lastnum' \in 0..Nums, attaches' \in 0..Attaches,
         renames' \in 0..Renames
  PROVE  KernelSound' /\ Remains /\ There(sysfs') = There(sysfs)
<1>1. /\ p \in Ports \ Hubs /\ sysfs[p] # None /\ dev \in Attached /\ dev # None
      /\ dev.desc = sysfs[p].desc /\ dev.num = sysfs[p].num
      /\ Len(dev.ifaces) = Len(sysfs[p].ifaces)
  BY NoneIsNothing DEF Alters
<1>2. /\ sysfs' \in [Ports -> Attached \cup {None}] /\ sysfs'[p] = dev
      /\ \A q \in Ports : q # p => sysfs'[q] = sysfs[q]
  BY <1>1 DEF Alters, KernelSound
<1>3. \A q \in Ports \ Hubs : sysfs'[q] # None =>
       /\ sysfs'[q].desc \in Descs
       /\ Len(sysfs'[q].ifaces) = Len(sysfs'[q].desc.classes)
  BY <1>1, <1>2 DEF KernelSound
<1>4. stayed' = stayed \cap NumsOf(sysfs')
  BY DEF Changes
<1>5. KernelSound'
  BY <1>2, <1>3, <1>4 DEF KernelSound
<1>6. There(sysfs') = There(sysfs)
  BY <1>1, <1>2, OrderFacts, ZenonT(60) DEF There
<1>7. \A k \in There(sysfs) : sysfs'[Order[k]].num = sysfs[Order[k]].num
  BY <1>1, <1>2, OrderFacts DEF There
<1> QED BY <1>4, <1>5, <1>6, <1>7 DEF Remains


(* A uevent of the subsystem usb that is sent waits or is lost. *)
LEMMA SendSound ==
  ASSUME SocketSound, NEW e \in {"usb", "net"}, Send(e)
  PROVE  SocketSound' /\ (Clean' => Clean /\ e # "usb")
<1>1. /\ queue \in Seq({"usb", "net"}) /\ Len(queue) <= QueueLen
      /\ congested \in BOOLEAN /\ error \in BOOLEAN /\ missed \in BOOLEAN
      /\ Len(queue) \in Nat /\ QueueLen \in Nat
  BY EnumerationAssumption DEF SocketSound
<1>2. CASE congested \/ Len(queue) = QueueLen
  <2>1. /\ congested' = TRUE
        /\ error' = (error \/ ~congested)
        /\ missed' = (missed \/ e = "usb")
        /\ queue' = queue
    BY <1>2 DEF Send
  <2>2. error' \in BOOLEAN /\ missed' \in BOOLEAN
    BY <2>1, <1>1
  <2>3. ~missed' => ~missed /\ e # "usb"
    BY <2>1
  <2> QED BY <1>1, <2>1, <2>2, <2>3 DEF SocketSound, Clean
<1>3. CASE ~(congested \/ Len(queue) = QueueLen)
  <2>1. /\ queue' = Append(queue, e)
        /\ congested' = congested /\ error' = error /\ missed' = missed
    BY <1>3 DEF Send
  <2>2. /\ queue' \in Seq({"usb", "net"}) /\ Len(queue') = Len(queue) + 1
        /\ queue'[Len(queue) + 1] = e
        /\ \A k \in 1..Len(queue) : queue'[k] = queue[k]
    BY <1>1, <2>1
  <2>3. SocketSound'
    BY <1>1, <1>3, <2>1, <2>2 DEF SocketSound
  <2>4. Clean' => Clean /\ e # "usb"
    BY <1>1, <2>1, <2>2 DEF Clean
  <2> QED BY <2>3, <2>4
<1> QED BY <1>2, <1>3

(* The changes that no uevent of usb announces: a driver is probed, and a  *)
(* network interface is renamed.                                           *)
Renamed(old, dev, i) ==
  /\ i \in DOMAIN old.ifaces /\ old.ifaces[i] \in Interface
  /\ ~old.ifaces[i].renamed
  /\ dev.ifaces = [old.ifaces EXCEPT ![i] = [@ EXCEPT !.renamed = TRUE]]

Quietly == \E p, dev : /\ Alters(p, dev) /\ Listed(dev) = Listed(sysfs[p])
                       /\ \/ ~Calm(dev)
                          \/ \E i : Renamed(sysfs[p], dev, i)

KernelStep == /\ KernelSound' /\ SocketSound' /\ Remains /\ UNCHANGED <<daemon, doubled>>
              /\ Clean' => Clean /\ Quietly

LEMMA AttachSound ==
  ASSUME KernelSound, SocketSound, NEW p \in Ports, NEW desc \in Descs,
         Attach(p, desc)
  PROVE  KernelStep
<1> DEFINE n == lastnum'
           dev == Device(desc, n)
<1>1. n \in 1..Nums
  BY DEF Attach
<1>2. dev \in Attached /\ Len(dev.ifaces) = Len(desc.classes) /\ dev.num = n
      /\ dev.desc = desc
  <2>1. desc.classes \in Seq(Classes) /\ Len(desc.classes) \in Nat
    BY EnumerationAssumption
  <2>2. dev = [desc |-> desc, num |-> n, leaving |-> FALSE,
               ifaces |-> [i \in 1..Len(desc.classes) |-> None]]
    BY DEF Device
  <2>3. dev.desc = desc /\ dev.num = n /\ dev.leaving = FALSE
        /\ dev.ifaces = [i \in 1..Len(desc.classes) |-> None]
    BY <2>2
  <2>4. dev.ifaces \in Seq(Interface \cup {None}) /\ Len(dev.ifaces) = Len(desc.classes)
    BY <2>1, <2>3
  <2>5. dev \in Attached
    <3> HIDE DEF n
    <3> QED BY <1>1, <2>2, <2>3, <2>4 DEF Attached
  <2> QED BY <2>3, <2>4, <2>5
<1>3. /\ sysfs[p] = None /\ sysfs' = [sysfs EXCEPT ![p] = dev] /\ n \notin NumsOf(sysfs)
      /\ UNCHANGED <<daemon, doubled>> /\ stayed' = stayed \cap NumsOf(sysfs')
      /\ attaches' = attaches + 1 /\ attaches < Attaches /\ renames' = renames
      /\ Send("usb")
  BY DEF Attach, Changes
<1> HIDE DEF n, dev
<1>4. /\ sysfs' \in [Ports -> Attached \cup {None}] /\ sysfs'[p] = dev
      /\ \A q \in Ports : q # p => sysfs'[q] = sysfs[q]
  BY <1>2, <1>3 DEF KernelSound
<1>5. KernelSound'
  <2>1. \A q \in Ports \ Hubs : sysfs'[q] # None =>
          /\ sysfs'[q].desc \in Descs
          /\ Len(sysfs'[q].ifaces) = Len(sysfs'[q].desc.classes)
    BY <1>2, <1>4 DEF KernelSound
  <2>2. attaches' \in 0..Attaches
    BY <1>3, EnumerationAssumption DEF KernelSound
  <2>3. lastnum' \in 0..Nums
    BY <1>1 DEF n
  <2> QED BY <1>3, <1>4, <2>1, <2>2, <2>3 DEF KernelSound
<1>6. Remains
  <2> SUFFICES ASSUME NEW k \in There(sysfs'), sysfs'[Order[k]].num \in stayed'
               PROVE /\ k \in There(sysfs)
                     /\ sysfs[Order[k]].num = sysfs'[Order[k]].num
                     /\ sysfs'[Order[k]].num \in stayed
    BY DEF Remains
  <2>1. sysfs'[Order[k]].num \in stayed
    BY <1>3
  <2>2. Order[k] # p
    BY <2>1, <1>2, <1>3, <1>4 DEF KernelSound
  <2>3. k \in Free /\ Order[k] \in Ports \ Hubs
    BY OrderFacts DEF There
  <2>4. sysfs'[Order[k]] = sysfs[Order[k]]
    BY <2>2, <2>3, <1>4
  <2> QED BY <2>1, <2>3, <2>4 DEF There
<1>7. SocketSound' /\ ~Clean'
  BY <1>3, SendSound
<1> QED BY <1>3, <1>5, <1>6, <1>7 DEF KernelStep

LEMMA DetachSound ==
  ASSUME KernelSound, SocketSound, NEW p \in Plugged \ Hubs, Detach(p)
  PROVE  KernelStep
<1>1. /\ sysfs' = [sysfs EXCEPT ![p] = None]
      /\ UNCHANGED <<daemon, doubled>> /\ stayed' = stayed \cap NumsOf(sysfs')
      /\ lastnum' = lastnum /\ attaches' = attaches /\ renames' = renames
      /\ Send("usb")
  BY DEF Detach, Changes
<1>2. /\ sysfs' \in [Ports -> Attached \cup {None}] /\ sysfs'[p] = None
      /\ \A q \in Ports : q # p => sysfs'[q] = sysfs[q]
  BY <1>1 DEF KernelSound, Plugged
<1>3. KernelSound'
  BY <1>1, <1>2 DEF KernelSound
<1>4. Remains
  <2> SUFFICES ASSUME NEW k \in There(sysfs'), sysfs'[Order[k]].num \in stayed'
               PROVE /\ k \in There(sysfs)
                     /\ sysfs[Order[k]].num = sysfs'[Order[k]].num
                     /\ sysfs'[Order[k]].num \in stayed
    BY DEF Remains
  <2>1. k \in Free /\ Order[k] \in Ports \ Hubs /\ sysfs'[Order[k]] # None
    BY OrderFacts DEF There
  <2>2. sysfs'[Order[k]] = sysfs[Order[k]]
    BY <2>1, <1>2
  <2> QED BY <2>1, <2>2, <1>1 DEF There
<1>5. SocketSound' /\ ~Clean'
  BY <1>1, SendSound
<1> QED BY <1>1, <1>3, <1>4, <1>5 DEF KernelStep


LEMMA IfaceFacts ==
  ASSUME KernelSound, NEW p \in Plugged \ Hubs, NEW i \in DOMAIN sysfs[p].ifaces
  PROVE  /\ p \in Ports \ Hubs /\ sysfs[p] # None
         /\ sysfs[p].ifaces[i] # None => sysfs[p].ifaces[i] \in Interface
         /\ i \in 1..Len(sysfs[p].ifaces)
<1>1. p \in Ports \ Hubs /\ sysfs[p] # None
  BY DEF Plugged
<1>2. sysfs[p].ifaces \in Seq(Interface \cup {None}) /\ i \in 1..Len(sysfs[p].ifaces)
  BY <1>1, AttachedFacts
<1>3. sysfs[p].ifaces[i] \in Interface \cup {None}
  BY <1>2
<1> QED BY <1>1, <1>2, <1>3

LEMMA AddIfaceSound ==
  ASSUME KernelSound, SocketSound, NEW p \in Plugged \ Hubs,
         NEW i \in DOMAIN sysfs[p].ifaces,
         AddIface(p, i) \/ Bind(p, i) \/ RemoveIface(p, i)
  PROVE  KernelStep
<1>1. /\ lastnum' = lastnum /\ attaches' = attaches /\ renames' = renames
      /\ Send("usb")
  BY DEF AddIface, Bind, RemoveIface
<1>2. \E dev : Alters(p, dev)
  <2>1. CASE AddIface(p, i)
    <3> DEFINE x == [stage |-> "added", renamed |-> FALSE]
    <3>1. x \in Interface
      BY DEF Interface
    <3> HIDE DEF x
    <3>2. Changes([sysfs EXCEPT ![p].ifaces[i] = x])
      BY <2>1 DEF AddIface, SetIface, x
    <3> QED BY <3>1, <3>2, IfaceAlters
  <2>2. CASE Bind(p, i)
    <3> DEFINE x == [sysfs[p].ifaces[i] EXCEPT !.stage = "bound"]
    <3>1. x \in Interface
      BY <2>2, IfaceFacts DEF Interface, Bind, InStage
    <3> HIDE DEF x
    <3>2. Changes([sysfs EXCEPT ![p].ifaces[i] = x])
      BY <2>2 DEF Bind, SetIface, x
    <3> QED BY <3>1, <3>2, IfaceAlters
  <2>3. CASE RemoveIface(p, i)
    <3>1. Changes([sysfs EXCEPT ![p].leaving = TRUE, ![p].ifaces[i] = None])
      BY <2>3 DEF RemoveIface
    <3> QED BY <3>1, IfaceAlters
  <2> QED BY <2>1, <2>2, <2>3
<1>3. Changes(sysfs')
  BY DEF AddIface, Bind, RemoveIface, SetIface, Changes
<1>4. KernelSound' /\ Remains
  BY <1>1, <1>2, <1>3, AlteredSound DEF KernelSound
<1>5. UNCHANGED <<daemon, doubled>>
  BY <1>3 DEF Changes
<1>6. SocketSound' /\ ~Clean'
  BY <1>1, SendSound
<1> QED BY <1>4, <1>5, <1>6 DEF KernelStep

LEMMA SameListed ==
  ASSUME NEW old, NEW dev, NEW i \in DOMAIN old.ifaces, NEW x,
         old.ifaces[i] # None, x # None, dev.ifaces = [old.ifaces EXCEPT ![i] = x]
  PROVE  Listed(dev) = Listed(old)
<1>1. DOMAIN dev.ifaces = DOMAIN old.ifaces
  OBVIOUS
<1>2. \A j \in DOMAIN old.ifaces : dev.ifaces[j] # None <=> old.ifaces[j] # None
  OBVIOUS
<1>3. {j \in DOMAIN dev.ifaces : dev.ifaces[j] # None}
        = {j \in DOMAIN old.ifaces : old.ifaces[j] # None}
  BY <1>1, <1>2
<1> QED BY <1>3 DEF Listed

LEMMA ProbeSound ==
  ASSUME KernelSound, SocketSound, NEW p \in Plugged \ Hubs,
         NEW i \in DOMAIN sysfs[p].ifaces, Probe(p, i)
  PROVE  KernelStep
<1> DEFINE x == [sysfs[p].ifaces[i] EXCEPT !.stage = "probed"]
<1>1. x \in Interface /\ x.stage = "probed" /\ x # None
  BY IfaceFacts, NoneIsNothing DEF Interface, Probe, InStage
<1> HIDE DEF x
<1>2. Changes([sysfs EXCEPT ![p].ifaces[i] = x])
  BY DEF Probe, SetIface, x
<1>3. PICK dev : Alters(p, dev) /\ dev.ifaces = [sysfs[p].ifaces EXCEPT ![i] = x]
  BY <1>1, <1>2, IfaceAlters
<1>4. ~Calm(dev)
  <2>1. i \in DOMAIN dev.ifaces /\ dev.ifaces[i] = x
    BY <1>3
  <2> QED BY <2>1, <1>1 DEF Calm
<1>5. Changes(sysfs')
  BY <1>2 DEF Changes
<1>6. /\ lastnum' = lastnum /\ attaches' = attaches /\ renames' = renames
      /\ Send("net") \/ UNCHANGED <<socket, missed>>
  BY DEF Probe
<1>7. KernelSound' /\ Remains
  BY <1>3, <1>5, <1>6, AlteredSound DEF KernelSound
<1>8. UNCHANGED <<daemon, doubled>>
  BY <1>5 DEF Changes
<1>9. SocketSound' /\ (Clean' => Clean)
  <2>1. CASE Send("net")
    BY <2>1, SendSound
  <2>2. CASE UNCHANGED <<socket, missed>>
    BY <2>2 DEF SocketSound, Clean, socket
  <2> QED BY <2>1, <2>2, <1>6
<1>10. Quietly
  <2>1. sysfs[p].ifaces[i] # None
    BY DEF Probe, InStage
  <2>2. Listed(dev) = Listed(sysfs[p])
    BY <2>1, <1>1, <1>3, SameListed
  <2> QED BY <2>2, <1>3, <1>4 DEF Quietly
<1> QED BY <1>7, <1>8, <1>9, <1>10 DEF KernelStep

LEMMA RenameSound ==
  ASSUME KernelSound, SocketSound, NEW p \in Plugged \ Hubs,
         NEW i \in DOMAIN sysfs[p].ifaces, Rename(p, i)
  PROVE  KernelStep
<1> DEFINE x == [sysfs[p].ifaces[i] EXCEPT !.renamed = TRUE]
<1>1. sysfs[p].ifaces[i] \in Interface /\ ~sysfs[p].ifaces[i].renamed
  BY IfaceFacts DEF Rename, InStage
<1>2. x \in Interface
  BY <1>1 DEF Interface
<1> HIDE DEF x
<1>3. Changes([sysfs EXCEPT ![p].ifaces[i] = x])
  BY DEF Rename, SetIface, x
<1>4. PICK dev : Alters(p, dev) /\ dev.ifaces = [sysfs[p].ifaces EXCEPT ![i] = x]
  BY <1>2, <1>3, IfaceAlters
<1>5. Renamed(sysfs[p], dev, i)
  BY <1>1, <1>4 DEF Renamed, x
<1>6. Changes(sysfs')
  BY <1>3 DEF Changes
<1>7. /\ lastnum' = lastnum /\ attaches' = attaches /\ renames' \in 0..Renames
      /\ Send("net")
  <2>1. renames' = renames + 1 /\ renames < Renames /\ renames \in 0..Renames
    BY DEF Rename, KernelSound
  <2> QED BY <2>1, EnumerationAssumption DEF Rename
<1>8. KernelSound' /\ Remains
  BY <1>4, <1>6, <1>7, AlteredSound DEF KernelSound
<1>9. UNCHANGED <<daemon, doubled>>
  BY <1>6 DEF Changes
<1>10. SocketSound' /\ (Clean' => Clean)
  BY <1>7, SendSound
<1>11. Quietly
  <2>1. sysfs[p].ifaces[i] # None /\ x # None
    BY <1>1, <1>2, NoneIsNothing
  <2>2. Listed(dev) = Listed(sysfs[p])
    BY <2>1, <1>4, SameListed
  <2> QED BY <2>2, <1>4, <1>5 DEF Quietly
<1> QED BY <1>8, <1>9, <1>10, <1>11 DEF KernelStep

LEMMA KernelSteps ==
  ASSUME KernelSound, SocketSound, Kernel
  PROVE  KernelStep
<1>1. ASSUME NEW p \in Ports, NEW desc \in Descs, Attach(p, desc)
      PROVE  KernelStep
  BY <1>1, AttachSound
<1>2. ASSUME NEW p \in Plugged \ Hubs, Detach(p)
      PROVE  KernelStep
  BY <1>2, DetachSound
<1>3. ASSUME NEW p \in Plugged \ Hubs, NEW i \in DOMAIN sysfs[p].ifaces,
             AddIface(p, i) \/ Bind(p, i) \/ RemoveIface(p, i)
      PROVE  KernelStep
  BY <1>3, AddIfaceSound
<1>4. ASSUME NEW p \in Plugged \ Hubs, NEW i \in DOMAIN sysfs[p].ifaces, Probe(p, i)
      PROVE  KernelStep
  BY <1>4, ProbeSound
<1>5. ASSUME NEW p \in Plugged \ Hubs, NEW i \in DOMAIN sysfs[p].ifaces, Rename(p, i)
      PROVE  KernelStep
  BY <1>5, RenameSound
<1> QED BY <1>1, <1>2, <1>3, <1>4, <1>5 DEF Kernel


-----------------------------------------------------------------------------
(* What an entry says of a device, before and after a quiet change.        *)
LEMMA ListedFacts ==
  ASSUME NEW dev \in Attached
  PROVE  /\ Listed(dev) \in Seq(Nat) /\ Len(Listed(dev)) \in Nat
         /\ \A k \in 1..Len(Listed(dev)) :
              /\ Listed(dev)[k] \in 1..Len(dev.ifaces)
              /\ Listed(dev)[k] \in DOMAIN dev.ifaces
              /\ dev.ifaces[Listed(dev)[k]] \in Interface
              /\ dev.ifaces[Listed(dev)[k]] # None
<1> DEFINE K == {i \in DOMAIN dev.ifaces : dev.ifaces[i] # None}
<1>1. dev.ifaces \in Seq(Interface \cup {None}) /\ Len(dev.ifaces) \in Nat
      /\ DOMAIN dev.ifaces = 1..Len(dev.ifaces)
  BY DEF Attached
<1>2. K \in SUBSET (1..Len(dev.ifaces))
  BY <1>1
<1>3. \A i \in K : i \in 1..Len(dev.ifaces) /\ dev.ifaces[i] \in Interface
                   /\ dev.ifaces[i] # None
  BY <1>1
<1>4. Listed(dev) = Ranked(K)
  BY DEF Listed
<1> HIDE DEF K
<1>5. /\ Ranked(K) \in Seq(Nat) /\ Len(Ranked(K)) = Cardinality(K)
      /\ Len(Ranked(K)) \in Nat
      /\ \A k \in 1..Len(Ranked(K)) : Ranked(K)[k] \in K
  BY <1>1, <1>2, RankedIs
<1> QED BY <1>1, <1>3, <1>4, <1>5

LEMMA NetsFacts ==
  ASSUME NEW dev, NEW m \in Nat, Nets(dev, m) # {}
  PROVE  /\ Min(Nets(dev, m)) \in Nets(dev, m)
         /\ Min(Nets(dev, m)) \in 1..m
         /\ \A k \in Nets(dev, m) : Min(Nets(dev, m)) <= k
<1>1. Nets(dev, m) \in SUBSET Nat /\ Nets(dev, m) \subseteq 1..m
  BY DEF Nets, Bound
<1> QED BY <1>1, MinIs

LEMMA RenamedFacts ==
  ASSUME NEW old \in Attached, NEW dev \in Attached, NEW i, Renamed(old, dev, i)
  PROVE  /\ DOMAIN dev.ifaces = DOMAIN old.ifaces
         /\ \A j \in DOMAIN old.ifaces :
              /\ dev.ifaces[j] = None <=> old.ifaces[j] = None
              /\ old.ifaces[j] # None => dev.ifaces[j].stage = old.ifaces[j].stage
              /\ j # i => dev.ifaces[j] = old.ifaces[j]
         /\ NetName(old.ifaces[i]) = Usb0
         /\ Calm(dev) => Calm(old)
<1>1. /\ i \in DOMAIN old.ifaces /\ old.ifaces[i] \in Interface
      /\ ~old.ifaces[i].renamed
      /\ dev.ifaces = [old.ifaces EXCEPT ![i] = [old.ifaces[i] EXCEPT !.renamed = TRUE]]
  BY DEF Renamed
<1>2. PICK x : /\ dev.ifaces = [old.ifaces EXCEPT ![i] = x]
               /\ x \in Interface /\ x.stage = old.ifaces[i].stage
  <2>1. /\ [old.ifaces[i] EXCEPT !.renamed = TRUE] \in Interface
        /\ [old.ifaces[i] EXCEPT !.renamed = TRUE].stage = old.ifaces[i].stage
    BY <1>1 DEF Interface
  <2> QED BY <1>1, <2>1
<1>3. x # None /\ old.ifaces[i] # None
  BY <1>1, <1>2, NoneIsNothing
<1>4. /\ DOMAIN dev.ifaces = DOMAIN old.ifaces
      /\ \A j \in DOMAIN old.ifaces :
           /\ dev.ifaces[j] = None <=> old.ifaces[j] = None
           /\ old.ifaces[j] # None => dev.ifaces[j].stage = old.ifaces[j].stage
           /\ j # i => dev.ifaces[j] = old.ifaces[j]
  BY <1>1, <1>2, <1>3
<1>5. Calm(dev) => Calm(old)
  BY <1>4 DEF Calm
<1>6. NetName(old.ifaces[i]) = Usb0
  BY <1>1 DEF NetName
<1> QED BY <1>4, <1>5, <1>6

LEMMA RenamedReports ==
  ASSUME NEW old \in Attached, NEW dev \in Attached, NEW i, Renamed(old, dev, i),
         dev.desc = old.desc, Listed(dev) = Listed(old),
         NEW c \in 0..Len(Listed(old)), NEW m \in 0..Len(Listed(old)),
         NEW d, Reports(d, old, c, m)
  PROVE  Reports(d, dev, c, m)
<1>1. \A k : Class(dev, k) = Class(old, k)
  BY DEF Class
<1>2. \A k \in 1..m : /\ k \in 1..Len(Listed(old))
                      /\ Listed(old)[k] \in DOMAIN old.ifaces
                      /\ old.ifaces[Listed(old)[k]] # None
  <2>1. Len(Listed(old)) \in Nat
    BY ListedFacts
  <2>2. \A k \in 1..m : k \in 1..Len(Listed(old))
    BY <2>1
  <2> QED BY <2>2, ListedFacts
<1>3. \A k \in 1..m :
        dev.ifaces[Listed(dev)[k]].stage = old.ifaces[Listed(old)[k]].stage
  BY <1>2, RenamedFacts
<1>4. Bound(dev, m) = Bound(old, m)
  BY <1>3 DEF Bound
<1>5. Nets(dev, m) = Nets(old, m)
  BY <1>1, <1>4 DEF Nets
<1>6. d.ifaces = [k \in 1..c |-> Class(dev, k)]
  BY <1>1 DEF Reports
<1>7. \A f \in Flags : f \in d.flags <=>
       \/ f \in Accessory(d.kind)
       \/ \E k \in 1..c : f \in ByClass(Class(dev, k))
       \/ \E k \in Bound(dev, m) : f \in ByDriver(DriverOf(Class(dev, k)))
  BY <1>1, <1>4 DEF Reports
<1>8. IF Nets(dev, m) = {} THEN d.net = <<>>
      ELSE \/ d.net = NetName(dev.ifaces[Listed(dev)[Min(Nets(dev, m))]])
           \/ d.net = Usb0
  <2>1. CASE Nets(old, m) = {}
    BY <2>1, <1>5 DEF Reports
  <2>2. CASE Nets(old, m) # {}
    <3>1. PICK k \in 1..m : k = Min(Nets(old, m))
      BY <2>2, NetsFacts
    <3>2. PICK j \in DOMAIN old.ifaces : j = Listed(old)[k]
      BY <1>2
    <3>3. d.net = NetName(old.ifaces[j]) \/ d.net = Usb0
      BY <2>2, <3>1, <3>2 DEF Reports
    <3>4. d.net = NetName(dev.ifaces[j]) \/ d.net = Usb0
      BY <3>3, RenamedFacts
    <3> QED BY <2>2, <3>1, <3>2, <3>4, <1>5
  <2> QED BY <2>1, <2>2
<1> QED BY <1>6, <1>7, <1>8 DEF Reports

LEMMA TellsAltered ==
  ASSUME NEW old \in Attached, NEW dev \in Attached, NEW d,
         dev.desc = old.desc, dev.num = old.num, Listed(dev) = Listed(old),
         ~Calm(dev) \/ \E i : Renamed(old, dev, i),
         Tells(d, old)
  PROVE  Tells(d, dev)
<1>1. /\ d.kind = dev.desc.kind /\ d.serial = Cut(dev.desc.serial, StrLen)
      /\ d.bus = 1 /\ d.num = dev.num
  BY DEF Tells
<1>2. ASSUME Calm(dev)
      PROVE  Reports(d, dev, Len(Listed(dev)), Len(Listed(dev)))
  <2>1. PICK i : Renamed(old, dev, i)
    BY <1>2
  <2>2. Calm(old)
    BY <1>2, <2>1, RenamedFacts
  <2>3. Reports(d, old, Len(Listed(old)), Len(Listed(old)))
    BY <2>2 DEF Tells
  <2>4. Len(Listed(old)) \in 0..Len(Listed(old))
    BY ListedFacts
  <2> QED BY <2>1, <2>3, <2>4, RenamedReports
<1> QED BY <1>1, <1>2 DEF Tells

LEMMA QuietCovers ==
  ASSUME KernelSound, Quietly, NEW t, NEW m, Covers(t, sysfs, m)
  PROVE  Covers(t, sysfs', m)
<1>1. PICK p, dev : /\ Alters(p, dev) /\ Listed(dev) = Listed(sysfs[p])
                    /\ ~Calm(dev) \/ \E i : Renamed(sysfs[p], dev, i)
  BY DEF Quietly
<1>2. /\ p \in Ports \ Hubs /\ sysfs[p] # None /\ dev \in Attached /\ dev # None
      /\ dev.desc = sysfs[p].desc /\ dev.num = sysfs[p].num
      /\ sysfs[p] \in Attached
  BY <1>1, NoneIsNothing, AttachedFacts DEF Alters
<1>3. sysfs'[p] = dev /\ \A q \in Ports : q # p => sysfs'[q] = sysfs[q]
  BY <1>1, <1>2 DEF Alters, KernelSound
<1>4. There(sysfs') = There(sysfs)
  <2>1. \A q \in Ports : sysfs'[q] # None <=> sysfs[q] # None
    BY <1>2, <1>3
  <2>2. \A k \in Free : Order[k] \in Ports
    BY OrderFacts
  <2> QED BY <2>1, <2>2 DEF There
<1>5. \A k : Taken(sysfs', k) = Taken(sysfs, k)
  BY <1>4 DEF Taken
<1>6. ASSUME NEW k \in Taken(sysfs, m), NEW d, Tells(d, sysfs[Order[k]])
      PROVE  Tells(d, sysfs'[Order[k]])
  <2>1. Order[k] \in Ports
    BY OrderFacts DEF Taken, UpTo, There
  <2>2. CASE Order[k] = p
    BY <2>2, <1>1, <1>2, <1>3, <1>6, TellsAltered
  <2>3. CASE Order[k] # p
    BY <2>1, <2>3, <1>3, <1>6
  <2> QED BY <2>2, <2>3
<1>7. Len(t) = Min({MaxDev, Cardinality(Taken(sysfs', m))})
  BY <1>5 DEF Covers
<1>8. \A k \in Taken(sysfs', m) :
         Cardinality(Taken(sysfs', k)) <= MaxDev
           => Tells(t[Cardinality(Taken(sysfs', k))], sysfs'[Order[k]])
  <2> TAKE k \in Taken(sysfs', m)
  <2>1. k \in Taken(sysfs, m) /\ Taken(sysfs', k) = Taken(sysfs, k)
    BY <1>5
  <2>2. Cardinality(Taken(sysfs, k)) <= MaxDev
          => Tells(t[Cardinality(Taken(sysfs, k))], sysfs[Order[k]])
    BY <2>1 DEF Covers
  <2> QED BY <2>1, <2>2, <1>6
<1> QED BY <1>7, <1>8 DEF Covers


LEMMA ScanFacts ==
  ASSUME ScanSound, scan # None
  PROVE  /\ scan \in Scanning
         /\ scan.port \in 1..Len(Order) + 1 /\ scan.port \in Nat
         /\ scan.todo \in Seq(Nat) /\ Len(scan.todo) \in Nat
         /\ scan.out \in Seq(Entry) /\ Len(scan.out) \in 0..MaxDev
         /\ MaxDev \in Nat /\ MaxDev > 0
         /\ scan.reads # "access" => /\ scan.dev \in Entry
                                     /\ scan.port \in Free
                                     /\ Order[scan.port] \in Ports \ Hubs
<1>1. scan \in Scanning
  BY DEF ScanSound
<1>2. /\ scan.port \in 1..Len(Order) + 1
      /\ scan.todo \in Seq(Nat) /\ scan.out \in Seq(Entry)
      /\ scan.dev \in Entry \cup {None}
  BY <1>1 DEF Scanning
<1>3. Len(scan.out) \in Nat /\ Len(scan.out) <= MaxDev /\ MaxDev \in Nat /\ MaxDev > 0
  BY <1>2, EnumerationAssumption DEF ScanSound
<1>4. scan.port \in Nat
  BY <1>2, OrderFacts
<1>5. scan.reads # "access" => scan.dev # None /\ scan.port \in Free
  BY DEF ScanSound
<1> QED BY <1>1, <1>2, <1>3, <1>4, <1>5, OrderFacts

LEMMA QuietPartly ==
  ASSUME KernelSound, ScanSound, scan # None, scan.reads # "access",
         scan' = scan, Quietly, Partly
  PROVE  Partly'
<1>1. PICK p, dev : /\ Alters(p, dev) /\ Listed(dev) = Listed(sysfs[p])
                    /\ ~Calm(dev) \/ \E i : Renamed(sysfs[p], dev, i)
  BY DEF Quietly
<1>2. /\ p \in Ports \ Hubs /\ sysfs[p] # None /\ dev \in Attached /\ dev # None
      /\ dev.desc = sysfs[p].desc /\ dev.num = sysfs[p].num
      /\ sysfs[p] \in Attached
  BY <1>1, NoneIsNothing, AttachedFacts DEF Alters
<1>3. sysfs'[p] = dev /\ \A q \in Ports : q # p => sysfs'[q] = sysfs[q]
  BY <1>1, <1>2 DEF Alters, KernelSound
<1>4. Order[scan.port] \in Ports
  BY ScanFacts
<1>5. CASE Order[scan.port] # p
  <2>1. Here' = Here
    BY <1>3, <1>4, <1>5 DEF Here
  <2> QED BY <2>1 DEF Partly
<1>6. CASE Order[scan.port] = p
  <2>1. Here = sysfs[p] /\ Here' = dev
    BY <1>3, <1>6 DEF Here
  <2>2. /\ Here' # None /\ Here'.desc = Here.desc /\ Here'.num = Here.num
        /\ Listed(Here') = Listed(Here) /\ Here \in Attached /\ Here' \in Attached
        /\ ~Calm(Here') \/ \E i : Renamed(Here, Here', i)
    BY <1>1, <1>2, <2>1
  <2> DEFINE m == Len(Listed(Here)) - Len(scan.todo)
             c == IF scan.reads = "class" THEN m ELSE m + 1
  <2>3. ASSUME scan.reads \in {"class", "driver"}, Calm(Here')
        PROVE  Reports(scan.dev, Here', c, m)
    <3>1. PICK i : Renamed(Here, Here', i)
      BY <2>2, <2>3
    <3>2. Calm(Here)
      BY <2>2, <2>3, <3>1, RenamedFacts
    <3>3. Reports(scan.dev, Here, c, m) /\ Len(scan.todo) <= Len(Listed(Here))
      BY <2>3, <3>2 DEF Partly
    <3>4. Len(scan.todo) \in Nat /\ scan.todo # <<>> /\ scan.todo \in Seq(Nat)
      BY <2>3, ScanFacts DEF ScanSound
    <3>5. Len(scan.todo) > 0
      BY <3>4
    <3>6. Len(Listed(Here)) \in Nat
      BY <2>2, ListedFacts
    <3>7. c \in 0..Len(Listed(Here)) /\ m \in 0..Len(Listed(Here))
      BY <3>3, <3>4, <3>5, <3>6
    <3> QED BY <2>2, <3>1, <3>3, <3>7, RenamedReports
  <2>4. scan.reads \in {"class", "driver"} =>
          /\ Len(scan.todo) <= Len(Listed(Here))
          /\ \A i \in 1..Len(scan.todo) : scan.todo[i] = Listed(Here)[m + i]
    BY DEF Partly
  <2> HIDE DEF Here
  <2> QED BY <2>2, <2>3, <2>4 DEF Partly
<1> QED BY <1>5, <1>6

(* A step of the kernel keeps the invariant. *)
LEMMA KernelKeeps ==
  ASSUME IInv, Kernel
  PROVE  IInv'
<1>1. /\ KernelSound /\ SocketSound /\ ScanSound /\ TableSound
      /\ Room /\ scan # None => Found
      /\ CleanSound
  BY DEF IInv
<1>2. KernelStep
  BY <1>1, KernelSteps
<1>3. /\ KernelSound' /\ SocketSound' /\ Remains
      /\ scan' = scan /\ table' = table /\ view' = view /\ doubled' = doubled
      /\ Clean' => Clean /\ Quietly
  BY <1>2 DEF KernelStep, daemon
<1>4. ScanSound' /\ TableSound'
  BY <1>1, <1>3 DEF ScanSound, TableSound
<1>5. Room' /\ scan' # None => Found'
  <2>1. ASSUME Room, scan # None
        PROVE  Found'
    <3>1. Found
      BY <1>1, <2>1
    <3> QED BY <3>1, <1>3 DEF Found, Remains
  <2> QED BY <2>1, <1>3 DEF Room
<1>6. CleanSound'
  <2> SUFFICES ASSUME Clean' PROVE CleanSound'
    BY DEF CleanSound
  <2>1. Clean /\ Quietly
    BY <1>3
  <2>2. CASE scan = None
    <3>1. Covers(table, sysfs, Len(Order))
      BY <1>1, <2>1, <2>2 DEF CleanSound
    <3>2. Covers(table, sysfs', Len(Order))
      BY <1>1, <2>1, <3>1, QuietCovers
    <3> QED BY <1>3, <2>2, <3>2 DEF CleanSound
  <2>3. CASE scan # None
    <3>1. /\ Covers(scan.out, sysfs, scan.port - 1)
          /\ scan.reads # "access" => Partly
      BY <1>1, <2>1, <2>3 DEF CleanSound
    <3>2. Covers(scan.out, sysfs', scan.port - 1)
      BY <1>1, <2>1, <3>1, QuietCovers
    <3>3. scan.reads # "access" => Partly'
      BY <1>1, <1>3, <2>1, <2>3, <3>1, QuietPartly
    <3> QED BY <1>3, <2>3, <3>2, <3>3 DEF CleanSound
  <2> QED BY <2>2, <2>3
<1> QED BY <1>3, <1>4, <1>5, <1>6 DEF IInv


-----------------------------------------------------------------------------
(* What was found so far grows with the ports that were passed. *)
LEMMA TakenGrows ==
  ASSUME NEW files, NEW a \in 0..Len(Order), NEW b \in 0..Len(Order), a <= b
  PROVE  /\ Taken(files, a) \subseteq Taken(files, b)
         /\ Cardinality(Taken(files, a)) <= Cardinality(Taken(files, b))
         /\ \A k \in Taken(files, b) :
              k > a => Cardinality(Taken(files, a)) < Cardinality(Taken(files, k))
<1>1. \A k \in There(files) : k \in Nat
  BY ThereFacts
<1>2. \A c \in 0..Len(Order) : a <= c => Taken(files, a) \subseteq Taken(files, c)
  BY <1>1, OrderFacts DEF Taken, UpTo
<1>3. Cardinality(Taken(files, a)) <= Cardinality(Taken(files, b))
  BY <1>2, TakenFacts, FS_Subset
<1>4. ASSUME NEW k \in Taken(files, b), k > a
      PROVE  Cardinality(Taken(files, a)) < Cardinality(Taken(files, k))
  <2>1. k \in There(files) /\ k \in 0..Len(Order) /\ a <= k
    BY <1>4, <1>1, OrderFacts, ThereFacts DEF Taken, UpTo
  <2>2. k \in Taken(files, k) /\ k \notin Taken(files, a)
    BY <2>1, <1>4 DEF Taken, UpTo
  <2>3. Taken(files, a) \subseteq Taken(files, k) /\ Taken(files, a) # Taken(files, k)
    BY <2>1, <2>2, <1>2
  <2> QED BY <2>3, TakenFacts, FS_Subset
<1> QED BY <1>2, <1>3, <1>4

LEMMA CoversNothing ==
  ASSUME NEW files
  PROVE  Covers(<<>>, files, 0)
<1>1. Taken(files, 0) = {}
  BY OrderFacts, ThereFacts, RankEnds DEF Taken
<1>2. Cardinality(Taken(files, 0)) = 0
  BY <1>1, FS_EmptySet
<1>3. MaxDev \in Int /\ MaxDev > 0
  BY EnumerationAssumption
<1>4. Min({MaxDev, 0}) = 0
  BY <1>3, MinOfTwo
<1>5. Len(<<>>) = 0
  OBVIOUS
<1> QED BY <1>1, <1>2, <1>4, <1>5 DEF Covers

LEMMA CoversSkip ==
  ASSUME NEW files, NEW t, NEW p \in 1..Len(Order), p \notin There(files),
         Covers(t, files, p - 1)
  PROVE  Covers(t, files, p)
<1>1. Taken(files, p) = Taken(files, p - 1)
  <2>1. Len(Order) \in Nat /\ There(files) \in SUBSET (1..Len(Order))
    BY OrderFacts, ThereFacts
  <2>2. \A k \in There(files) : k <= p <=> k <= p - 1
    BY <2>1
  <2> QED BY <2>2 DEF Taken, UpTo
<1> QED BY <1>1 DEF Covers

LEMMA CoversAdd ==
  ASSUME NEW files, NEW t \in Seq(Entry), Len(t) < MaxDev,
         NEW p \in There(files), NEW d \in Entry, Tells(d, files[Order[p]]),
         Covers(t, files, p - 1)
  PROVE  Covers(Append(t, d), files, p)
<1> DEFINE c == Cardinality(Taken(files, p - 1))
<1>1. p \in 1..Len(Order) /\ Len(Order) \in Nat /\ p - 1 \in 0..Len(Order)
  BY OrderFacts, ThereFacts
<1>2. /\ Taken(files, p) = Taken(files, p - 1) \cup {p}
      /\ p \notin Taken(files, p - 1)
  BY <1>1, ThereFacts, RankStep DEF Taken
<1>3. c \in Nat /\ Cardinality(Taken(files, p)) = c + 1
  BY <1>2, TakenFacts, FS_AddElement
<1>4. MaxDev \in Nat /\ Len(t) \in Nat
  BY EnumerationAssumption
<1>5. Len(t) = c /\ c + 1 <= MaxDev
  BY <1>3, <1>4, MinOfTwo DEF Covers
<1>6. Len(Append(t, d)) = c + 1
  BY <1>5
<1>7. Min({MaxDev, c + 1}) = c + 1
  BY <1>3, <1>4, <1>5, MinOfTwo
<1>8. ASSUME NEW k \in Taken(files, p - 1)
      PROVE  /\ Cardinality(Taken(files, k)) \in 1..c
             /\ Tells(t[Cardinality(Taken(files, k))], files[Order[k]])
  <2>1. k \in There(files) /\ k < p
    BY <1>1, ThereFacts DEF Taken, UpTo
  <2>2. Cardinality(UpTo(There(files), k)) \in 1..Cardinality(There(files))
    BY <1>1, <2>1, ThereFacts, RankOf
  <2>3. Cardinality(UpTo(There(files), k)) < Cardinality(UpTo(There(files), p))
    BY <1>1, <2>1, ThereFacts, RankOf
  <2>4. Cardinality(Taken(files, k)) \in 1..c
    BY <2>2, <2>3, <1>3, ThereFacts DEF Taken
  <2>5. Cardinality(Taken(files, k)) <= MaxDev
    BY <2>4, <1>3, <1>4, <1>5
  <2> QED BY <2>4, <2>5 DEF Covers
<1>9. ASSUME NEW k \in Taken(files, p), Cardinality(Taken(files, k)) <= MaxDev
      PROVE  Tells(Append(t, d)[Cardinality(Taken(files, k))], files[Order[k]])
  <2>1. CASE k = p
    <3>1. Append(t, d)[c + 1] = d
      BY <1>5
    <3> QED BY <2>1, <3>1, <1>3
  <2>2. CASE k # p
    <3>1. k \in Taken(files, p - 1)
      BY <2>2, <1>2
    <3>2. PICK j \in 1..c : j = Cardinality(Taken(files, k)) /\ Tells(t[j], files[Order[k]])
      BY <3>1, <1>8
    <3>3. Append(t, d)[j] = t[j]
      BY <1>5, <1>3
    <3> QED BY <3>2, <3>3
  <2> QED BY <2>1, <2>2
<1>10. Len(Append(t, d)) = Min({MaxDev, Cardinality(Taken(files, p))})
  BY <1>3, <1>6, <1>7
<1> QED BY <1>9, <1>10 DEF Covers

LEMMA CoversFull ==
  ASSUME NEW files, NEW t \in Seq(Entry), Len(t) >= MaxDev,
         NEW p \in 0..Len(Order), Covers(t, files, p)
  PROVE  Covers(t, files, Len(Order))
<1> DEFINE c == Cardinality(Taken(files, p))
           n == Cardinality(Taken(files, Len(Order)))
<1>1. Len(Order) \in Nat /\ MaxDev \in Nat /\ Len(t) \in Nat /\ c \in Nat /\ n \in Nat
  BY OrderFacts, EnumerationAssumption, TakenFacts
<1>2. Len(t) = Min({MaxDev, c})
  BY DEF Covers
<1>3. Len(t) = MaxDev /\ MaxDev <= c
  BY <1>1, <1>2, MinOfTwo
<1>4. c <= n
  BY <1>1, TakenGrows
<1>5. Len(t) = Min({MaxDev, n})
  BY <1>1, <1>3, <1>4, MinOfTwo
<1>6. ASSUME NEW k \in Taken(files, Len(Order)), Cardinality(Taken(files, k)) <= MaxDev
      PROVE  Tells(t[Cardinality(Taken(files, k))], files[Order[k]])
  <2>1. Cardinality(Taken(files, k)) \in Nat /\ k \in Nat
    BY TakenFacts
  <2>2. ~(k > p)
    <3>1. k > p => c < Cardinality(Taken(files, k))
      BY <1>1, TakenGrows
    <3> QED BY <3>1, <1>1, <1>3, <1>6, <2>1
  <2>3. k \in Taken(files, p)
    BY <2>1, <2>2 DEF Taken, UpTo
  <2> QED BY <2>3, <1>6 DEF Covers
<1> QED BY <1>5, <1>6 DEF Covers


-----------------------------------------------------------------------------
(* The scan: what it knows of the device in the port it is at. *)
AtPort ==
  Here # None /\ Here.num \in stayed =>
    /\ scan.reads \in {"num", "list", "class", "driver"} => scan.dev.bus = 1
    /\ scan.reads \in {"list", "class", "driver"} => scan.dev.num = Here.num

LEMMA InvariantParts ==
  ASSUME IInv
  PROVE  /\ KernelSound /\ SocketSound /\ ScanSound /\ TableSound
         /\ Room /\ scan # None => Found
         /\ CleanSound
BY DEF IInv

(* It reads on in the same port, ... *)
LEMMA StaysAtPort ==
  ASSUME IInv, scan # None, scan.port \in Free, Len(scan.out) < MaxDev,
         UNCHANGED <<kernel, socket, table, view, missed, stayed, doubled>>,
         scan' \in Scanning, scan'.port = scan.port, scan'.out = scan.out,
         scan'.reads # "access", scan'.dev # None, scan'.dev.kind # HubKind,
         scan'.reads \in {"class", "driver"} => scan'.todo # <<>>,
         Room /\ AtPort => AtPort',
         Clean /\ (scan.reads # "access" => Partly) => Partly'
  PROVE  IInv' /\ scan' # None
<1>1. /\ KernelSound /\ SocketSound /\ ScanSound /\ TableSound
      /\ Room => Found
      /\ CleanSound
  BY InvariantParts
<1>2. /\ sysfs' = sysfs /\ lastnum' = lastnum /\ attaches' = attaches
      /\ renames' = renames /\ queue' = queue /\ congested' = congested
      /\ error' = error /\ table' = table /\ view' = view /\ doubled' = doubled
      /\ missed' = missed /\ stayed' = stayed
  BY DEF kernel, socket
<1>3. KernelSound' /\ SocketSound' /\ TableSound'
  BY <1>1, <1>2 DEF KernelSound, SocketSound, TableSound
<1>4. scan' # None
  BY NoneIsNothing
<1>5. ScanSound'
  BY <1>1, <1>4 DEF ScanSound
<1>6. Here' = Here
  BY <1>2 DEF Here
<1>7. ASSUME Room PROVE Found'
  <2>1. Found
    BY <1>1, <1>7
  <2>2. AtPort
    BY <2>1 DEF Found, AtPort, Here, There
  <2>3. AtPort'
    BY <1>7, <2>2
  <2>4. scan.port \in Nat
    BY <1>1, ScanFacts
  <2>5. Len(scan'.out) <= Cardinality(UpTo(Free, scan'.port - 1))
    BY <2>1 DEF Found
  <2>6. ASSUME NEW k \in There(sysfs'), sysfs'[Order[k]].num \in stayed'
        PROVE  /\ k < scan'.port => <<1, sysfs'[Order[k]].num>> \in IdsIn(scan'.out)
               /\ k = scan'.port =>
                    /\ scan'.reads \in {"num", "list", "class", "driver"}
                         => scan'.dev.bus = 1
                    /\ scan'.reads \in {"list", "class", "driver"}
                         => scan'.dev.num = sysfs'[Order[k]].num
    <3>1. k < scan'.port => <<1, sysfs'[Order[k]].num>> \in IdsIn(scan'.out)
      BY <2>1, <2>6, <1>2 DEF Found
    <3>2. k = scan'.port => Here # None /\ Here.num \in stayed
                            /\ Here = sysfs'[Order[k]]
      BY <2>6, <1>2 DEF Here, There
    <3> QED BY <3>1, <3>2, <2>3, <1>2, <1>6 DEF AtPort
  <2> QED BY <2>5, <2>6 DEF Found
<1>8. CleanSound'
  <2>1. ASSUME Clean PROVE Covers(scan.out, sysfs, scan.port - 1) /\ Partly'
    BY <1>1, <2>1 DEF CleanSound
  <2> QED BY <2>1, <1>2, <1>4 DEF CleanSound, Clean
<1>9. Room' <=> Room
  BY DEF Room
<1> QED BY <1>3, <1>4, <1>5, <1>7, <1>8, <1>9 DEF IInv

(* ... or goes on to the next one, with an entry for this one or without.  *)
GoesOn(o) ==
  /\ scan' \in Scanning
  /\ scan'.port = scan.port + 1 /\ scan'.reads = "access" /\ scan'.out = o

LEMMA PassesPort ==
  ASSUME IInv, scan # None, scan.port \in 1..Len(Order),
         UNCHANGED <<kernel, socket, table, view, missed, stayed, doubled>>,
         NEW o, GoesOn(o),
         \/ o = scan.out /\ scan.port \notin There(sysfs)
         \/ \E d \in Entry :
              /\ o = Append(scan.out, d)
              /\ scan.port \in Free /\ Len(scan.out) < MaxDev /\ d.kind # HubKind
              /\ Room /\ Here # None /\ Here.num \in stayed => Id(d) = <<1, Here.num>>
              /\ Clean => Here # None /\ Tells(d, Here)
  PROVE  IInv' /\ scan' # None
<1>1. /\ KernelSound /\ SocketSound /\ ScanSound /\ TableSound
      /\ Room => Found
      /\ CleanSound
  BY InvariantParts
<1>2. /\ sysfs' = sysfs /\ lastnum' = lastnum /\ attaches' = attaches
      /\ renames' = renames /\ queue' = queue /\ congested' = congested
      /\ error' = error /\ table' = table /\ view' = view /\ doubled' = doubled
      /\ missed' = missed /\ stayed' = stayed
  BY DEF kernel, socket
<1>3. KernelSound' /\ SocketSound' /\ TableSound'
  BY <1>1, <1>2 DEF KernelSound, SocketSound, TableSound
<1>4. /\ scan' \in Scanning /\ scan' # None
      /\ scan'.port = scan.port + 1 /\ scan'.reads = "access" /\ scan'.out = o
  BY NoneIsNothing DEF GoesOn
<1>5. /\ scan.port \in 1..Len(Order) /\ scan.port \in Nat /\ Len(Order) \in Nat
      /\ scan.out \in Seq(Entry) /\ Len(scan.out) \in 0..MaxDev
      /\ MaxDev \in Nat
      /\ scan'.port - 1 = scan.port
      /\ \A j \in 1..Len(scan.out) : scan.out[j].kind # HubKind
      /\ Free \in SUBSET (1..Len(Order))
  BY <1>1, <1>4, ScanFacts, OrderFacts DEF ScanSound
<1>6. CASE o = scan.out /\ scan.port \notin There(sysfs)
  <2>1. ScanSound'
    BY <1>4, <1>5, <1>6 DEF ScanSound
  <2>2. ASSUME Room PROVE Found'
    <3>1. Found
      BY <1>1, <2>2
    <3>2. UpTo(Free, scan.port - 1) \subseteq UpTo(Free, scan.port)
      BY <1>5, RankStep
    <3>3. IsFiniteSet(UpTo(Free, scan.port))
          /\ Cardinality(UpTo(Free, scan.port)) \in Nat
      <4>1. UpTo(Free, scan.port) \in SUBSET (1..Len(Order))
        BY <1>5 DEF UpTo
      <4> QED BY <4>1, <1>5, FiniteSub
    <3>4. Cardinality(UpTo(Free, scan.port - 1)) <= Cardinality(UpTo(Free, scan.port))
          /\ Cardinality(UpTo(Free, scan.port - 1)) \in Nat
      BY <3>2, <3>3, FS_Subset, FS_CardinalityType
    <3>5. Len(scan'.out) <= Cardinality(UpTo(Free, scan'.port - 1))
      BY <3>1, <3>3, <3>4, <1>4, <1>5, <1>6 DEF Found
    <3>6. ASSUME NEW k \in There(sysfs), sysfs[Order[k]].num \in stayed
          PROVE  k < scan'.port => <<1, sysfs[Order[k]].num>> \in IdsIn(scan.out)
      <4>1. k \in Nat /\ k # scan.port
        BY <1>5, <1>6, ThereFacts
      <4>2. k < scan'.port => k < scan.port
        BY <4>1, <1>4, <1>5
      <4> QED BY <4>2, <1>5, <3>1, <3>6 DEF Found
    <3> QED BY <3>5, <3>6, <1>2, <1>4, <1>6 DEF Found
  <2>3. CleanSound'
    <3>1. Clean => Covers(o, sysfs, scan.port)
      BY <1>1, <1>5, <1>6, CoversSkip DEF CleanSound
    <3> QED BY <3>1, <1>2, <1>4, <1>5 DEF CleanSound, Clean
  <2> QED BY <1>3, <1>4, <2>1, <2>2, <2>3 DEF IInv, Room
<1>7. CASE \E d \in Entry :
              /\ o = Append(scan.out, d)
              /\ scan.port \in Free /\ Len(scan.out) < MaxDev /\ d.kind # HubKind
              /\ Room /\ Here # None /\ Here.num \in stayed => Id(d) = <<1, Here.num>>
              /\ Clean => Here # None /\ Tells(d, Here)
  <2>1. PICK d \in Entry :
              /\ o = Append(scan.out, d)
              /\ scan.port \in Free /\ Len(scan.out) < MaxDev /\ d.kind # HubKind
              /\ Room /\ Here # None /\ Here.num \in stayed => Id(d) = <<1, Here.num>>
              /\ Clean => Here # None /\ Tells(d, Here)
    BY <1>7
  <2>2. PICK n \in Nat : n = Len(scan.out)
    BY <1>5
  <2>3. /\ o \in Seq(Entry) /\ Len(o) = n + 1 /\ o[n + 1] = d
        /\ \A j \in 1..n : o[j] = scan.out[j]
    BY <1>5, <2>1, <2>2
  <2>4. ScanSound'
    <3>1. \A j \in 1..n + 1 : o[j].kind # HubKind
      <4> TAKE j \in 1..n + 1
      <4>1. j = n + 1 \/ j \in 1..n
        BY <2>2
      <4> QED BY <4>1, <2>1, <2>2, <2>3, <1>5
    <3> QED BY <1>4, <1>5, <2>1, <2>2, <2>3, <3>1 DEF ScanSound
  <2>5. ASSUME Room PROVE Found'
    <3>1. Found
      BY <1>1, <2>5
    <3>2. /\ UpTo(Free, scan.port) = UpTo(Free, scan.port - 1) \cup {scan.port}
          /\ scan.port \notin UpTo(Free, scan.port - 1)
      <4>1. PICK q \in 1..Len(Order) : q = scan.port
        BY <1>5
      <4>2. q \in Free => UpTo(Free, q) = UpTo(Free, q - 1) \cup {q}
        BY <1>5, RankStep
      <4>3. q \notin UpTo(Free, q - 1)
        BY <1>5, RankStep
      <4> QED BY <2>1, <4>1, <4>2, <4>3
    <3>3. IsFiniteSet(UpTo(Free, scan.port - 1))
          /\ Cardinality(UpTo(Free, scan.port - 1)) \in Nat
      <4>1. UpTo(Free, scan.port - 1) \in SUBSET (1..Len(Order))
        BY <1>5 DEF UpTo
      <4> QED BY <4>1, <1>5, FiniteSub
    <3>4. Cardinality(UpTo(Free, scan.port)) = Cardinality(UpTo(Free, scan.port - 1)) + 1
      BY <3>2, <3>3, FS_AddElement
    <3>5. n <= Cardinality(UpTo(Free, scan.port - 1))
      BY <3>1, <2>2 DEF Found
    <3>6. Len(scan'.out) <= Cardinality(UpTo(Free, scan'.port - 1))
      BY <3>3, <3>4, <3>5, <1>4, <1>5, <2>3
    <3>7. ASSUME NEW k \in There(sysfs), sysfs[Order[k]].num \in stayed
          PROVE  k < scan'.port => <<1, sysfs[Order[k]].num>> \in IdsIn(o)
      <4>1. CASE k = scan.port
        <5>1. Id(d) = <<1, sysfs[Order[k]].num>>
          BY <2>1, <2>5, <3>7, <4>1 DEF Here, There
        <5>2. n + 1 \in 1..Len(o) /\ Id(o[n + 1]) = <<1, sysfs[Order[k]].num>>
          BY <5>1, <2>2, <2>3
        <5> QED BY <5>2 DEF IdsIn
      <4>2. CASE k # scan.port
        <5>1. k \in Nat
          BY <1>5, ThereFacts
        <5>2. k < scan'.port => <<1, sysfs[Order[k]].num>> \in IdsIn(scan.out)
          BY <5>1, <4>2, <1>4, <1>5, <3>1, <3>7 DEF Found
        <5>3. \A j \in 1..n : j \in 1..Len(o) /\ Id(o[j]) = Id(scan.out[j])
          BY <2>2, <2>3
        <5>4. IdsIn(scan.out) \subseteq IdsIn(o)
          BY <5>3, <2>2 DEF IdsIn
        <5> QED BY <5>2, <5>4
      <4> QED BY <4>1, <4>2
    <3> QED BY <3>6, <3>7, <1>2, <1>4 DEF Found
  <2>6. CleanSound'
    <3>1. ASSUME Clean PROVE Covers(o, sysfs, scan.port)
      <4>1. scan.port \in There(sysfs)
        BY <2>1, <3>1 DEF Here, There
      <4>2. Tells(d, sysfs[Order[scan.port]])
        BY <2>1, <3>1 DEF Here
      <4>3. Covers(scan.out, sysfs, scan.port - 1)
        BY <1>1, <3>1 DEF CleanSound
      <4> QED BY <4>1, <4>2, <4>3, <1>5, <2>1, CoversAdd
    <3> QED BY <3>1, <1>2, <1>4, <1>5 DEF CleanSound, Clean
  <2> QED BY <1>3, <1>4, <2>4, <2>5, <2>6 DEF IInv, Room
<1> QED BY <1>6, <1>7


LEMMA NextPortFacts ==
  ASSUME scan \in Scanning, scan.port \in 1..Len(Order), NEW s, NEW d,
         s = NextPort \/ s = Finish(d)
  PROVE  /\ s.port = scan.port + 1 /\ s.reads = "access"
         /\ s = NextPort => s.out = scan.out
         /\ s = Finish(d) => s.out = Counted(scan.out, d)
         /\ s.out \in Seq(Entry) => s \in Scanning
<1>1. scan.port + 1 \in 1..Len(Order) + 1 /\ <<>> \in Seq(Nat)
  BY OrderFacts
<1>2. /\ NextPort.port = scan.port + 1 /\ NextPort.reads = "access"
      /\ NextPort.out = scan.out
  BY DEF NextPort, Scanning
<1>3. NextPort.out \in Seq(Entry) => NextPort \in Scanning
  BY <1>1 DEF NextPort, Scanning
<1>4. NextPort \in Scanning
  BY <1>2, <1>3 DEF Scanning
<1>5. /\ Finish(d).port = scan.port + 1 /\ Finish(d).reads = "access"
      /\ Finish(d).out = Counted(scan.out, d)
  <2> HIDE DEF NextPort
  <2> QED BY <1>2, <1>4 DEF Finish, Scanning
<1>6. Finish(d).out \in Seq(Entry) => Finish(d) \in Scanning
  <2> HIDE DEF NextPort
  <2> QED BY <1>4, <1>5 DEF Finish, Scanning
<1> QED BY <1>2, <1>3, <1>5, <1>6

LEMMA HereFacts ==
  ASSUME KernelSound, scan.port \in Free, Here # None
  PROVE  /\ scan.port \in There(sysfs)
         /\ Here \in Attached /\ Here.desc \in Descs
         /\ Here.desc.kind \in Kinds /\ Here.desc.kind # HubKind
         /\ Cut(Here.desc.serial, StrLen) \in Serials
         /\ Here.num \in 1..Nums /\ Here.num \in 0..Nums
         /\ Here.desc.classes \in Seq(Classes)
         /\ DOMAIN Here.desc.classes = DOMAIN Here.ifaces
         /\ Here.ifaces \in Seq(Interface \cup {None})
         /\ DOMAIN Here.ifaces = 1..Len(Here.ifaces)
<1>1. PICK p \in Ports \ Hubs : p = Order[scan.port]
  BY OrderFacts
<1>2. Here = sysfs[p] /\ sysfs[p] # None
  BY <1>1 DEF Here
<1>3. /\ sysfs[p] \in Attached
      /\ sysfs[p].desc \in Descs /\ sysfs[p].desc.classes \in Seq(Classes)
      /\ sysfs[p].num \in 1..Nums
      /\ DOMAIN sysfs[p].desc.classes = DOMAIN sysfs[p].ifaces
      /\ sysfs[p].ifaces \in Seq(Interface \cup {None})
      /\ DOMAIN sysfs[p].ifaces = 1..Len(sysfs[p].ifaces)
  BY <1>2, AttachedFacts
<1>4. sysfs[p].desc.kind \in Kinds /\ sysfs[p].desc.kind # HubKind
      /\ Cut(sysfs[p].desc.serial, StrLen) \in Serials
  BY <1>3, EnumerationAssumption DEF Kinds, Serials
<1>5. sysfs[p].num \in 0..Nums
  BY <1>3, EnumerationAssumption
<1>6. scan.port \in There(sysfs)
  BY <1>2 DEF There, Here
<1> QED BY <1>2, <1>3, <1>4, <1>5, <1>6

LEMMA BlankFacts ==
  /\ Blank \in Entry /\ Blank.kind = NoKind /\ Blank.kind # HubKind /\ Blank # None
  /\ Blank.ifaces = <<>> /\ Blank.net = <<>>
  /\ [Blank EXCEPT !.kind = HubKind].kind = HubKind
<1>1. <<>> \in Seq(Classes \cup {"none"}) /\ NoKind \in Kinds /\ <<>> \in Serials
      /\ 0 \in 0..Nums /\ NoKind # HubKind
  BY EnumerationAssumption DEF Kinds, Serials
<1>2. Blank \in Entry
  BY <1>1 DEF Blank, Entry
<1>3. /\ Blank.kind = NoKind /\ Blank.ifaces = <<>> /\ Blank.net = <<>>
      /\ [Blank EXCEPT !.kind = HubKind].kind = HubKind
  BY DEF Blank
<1>4. Blank # None
  BY <1>2, NoneIsNothing
<1> QED BY <1>1, <1>2, <1>3, <1>4


LEMMA AccessKeeps ==
  ASSUME IInv, Access
  PROVE  IInv' /\ scan' # None
<1>1. /\ KernelSound /\ SocketSound /\ ScanSound /\ TableSound
      /\ Room => Found
      /\ CleanSound
  BY InvariantParts DEF Access, Reads
<1>2. /\ scan # None /\ scan.port <= Len(Order) /\ scan.reads = "access"
      /\ scan \in Scanning /\ scan.port \in 1..Len(Order) + 1
      /\ scan.port \in 1..Len(Order)
      /\ scan.out \in Seq(Entry) /\ Len(scan.out) \in 0..MaxDev /\ MaxDev \in Nat
      /\ Len(Order) \in Nat
  BY <1>1, ScanFacts, OrderFacts DEF Access, Reads
<1>3. UNCHANGED <<kernel, socket, table, view, missed, stayed, doubled>>
  BY DEF Access, Goes
<1>4. CASE Here = None
  <2>1. scan' = NextPort
    BY <1>4 DEF Access, Goes
  <2>2. GoesOn(scan.out)
    BY <1>2, <2>1, NextPortFacts DEF GoesOn
  <2>3. scan.port \notin There(sysfs)
    BY <1>4 DEF There, Here
  <2> QED BY <1>2, <1>3, <2>2, <2>3, PassesPort
<1>5. CASE Here # None /\ Len(scan.out) >= MaxDev
  <2>1. scan' = [scan EXCEPT !.port = Len(Order) + 1]
    BY <1>5 DEF Access, Goes
  <2>2. /\ scan'.port = Len(Order) + 1 /\ scan'.reads = "access"
        /\ scan'.out = scan.out /\ scan' \in Scanning /\ scan' # None
    <3>1. Len(Order) + 1 \in 1..Len(Order) + 1
      BY <1>2
    <3>2. scan' \in Scanning
      BY <1>2, <2>1, <3>1 DEF Scanning
    <3> QED BY <1>2, <2>1, <3>2, NoneIsNothing DEF Scanning
  <2>3. /\ sysfs' = sysfs /\ lastnum' = lastnum /\ attaches' = attaches
        /\ renames' = renames /\ queue' = queue /\ congested' = congested
        /\ error' = error /\ table' = table /\ view' = view /\ doubled' = doubled
        /\ missed' = missed /\ stayed' = stayed
    BY <1>3 DEF kernel, socket
  <2>4. KernelSound' /\ SocketSound' /\ TableSound' /\ ScanSound'
    BY <1>1, <1>2, <2>2, <2>3 DEF KernelSound, SocketSound, TableSound, ScanSound
  <2>5. ASSUME Room PROVE Found'
    <3>1. Found
      BY <1>1, <2>5
    <3> DEFINE U == UpTo(Free, scan.port - 1)
    <3>2. Free \in SUBSET (1..Len(Order)) /\ U \subseteq Free /\ U \in SUBSET (1..Len(Order))
      BY OrderFacts DEF UpTo
    <3>3. /\ IsFiniteSet(Free) /\ Cardinality(Free) \in Nat
          /\ IsFiniteSet(U) /\ Cardinality(U) \in Nat
      BY <1>2, <3>2, FiniteSub
    <3>4. MaxDev <= Cardinality(U) /\ Cardinality(Free) <= MaxDev
      BY <1>2, <1>5, <2>5, <3>1, <3>3 DEF Found, Room
    <3>5. Cardinality(U) <= Cardinality(Free)
          /\ (Cardinality(U) = Cardinality(Free) => U = Free)
      BY <3>2, <3>3, FS_Subset
    <3>6. U = Free
      BY <3>3, <3>4, <3>5, <1>2
    <3>7. \A k \in Free : k < scan.port
      <4>1. \A k \in U : k \in Nat /\ k <= scan.port - 1
        BY <3>2 DEF UpTo
      <4> QED BY <4>1, <3>6, <1>2
    <3>8. UpTo(Free, scan'.port - 1) = Free
      <4>1. scan'.port - 1 = Len(Order)
        BY <2>2, <1>2
      <4> QED BY <4>1, <3>2, <1>2, RankEnds
    <3>9. Len(scan'.out) <= Cardinality(UpTo(Free, scan'.port - 1))
      BY <3>1, <3>6, <3>8, <2>2 DEF Found
    <3>10. \A k \in There(sysfs) : sysfs[Order[k]].num \in stayed =>
             <<1, sysfs[Order[k]].num>> \in IdsIn(scan.out)
      BY <3>1, <3>7, ThereFacts DEF Found
    <3> QED BY <3>9, <3>10, <2>2, <2>3 DEF Found
  <2>6. CleanSound'
    <3>1. ASSUME Clean PROVE Covers(scan.out, sysfs, Len(Order))
      <4>1. Covers(scan.out, sysfs, scan.port - 1) /\ scan.port - 1 \in 0..Len(Order)
        BY <1>1, <1>2, <3>1 DEF CleanSound
      <4> QED BY <4>1, <1>2, <1>5, CoversFull
    <3>2. scan'.port - 1 = Len(Order)
      BY <2>2, <1>2
    <3> QED BY <3>1, <3>2, <2>2, <2>3 DEF CleanSound, Clean
  <2> QED BY <2>2, <2>4, <2>5, <2>6 DEF IInv, Room
<1>6. CASE Here # None /\ ~(Len(scan.out) >= MaxDev) /\ Order[scan.port] \in Hubs
  <2> DEFINE d == [Blank EXCEPT !.kind = HubKind]
  <2>1. scan' = Finish(d) /\ d.kind = HubKind
    BY <1>6, BlankFacts DEF Access, Goes
  <2> HIDE DEF d
  <2>2. Counted(scan.out, d) = scan.out
    BY <2>1 DEF Counted
  <2>3. GoesOn(scan.out)
    BY <1>2, <2>1, <2>2, NextPortFacts DEF GoesOn
  <2>4. scan.port \notin There(sysfs)
    BY <1>6 DEF There, Free
  <2> QED BY <1>2, <1>3, <2>3, <2>4, PassesPort
<1>7. CASE Here # None /\ ~(Len(scan.out) >= MaxDev) /\ Order[scan.port] \notin Hubs
  <2>1. scan' = [scan EXCEPT !.reads = "ids", !.dev = Blank]
    BY <1>7 DEF Access, Goes
  <2>2. /\ scan'.port = scan.port /\ scan'.reads = "ids" /\ scan'.dev = Blank
        /\ scan'.out = scan.out /\ scan' \in Scanning
    <3>1. /\ scan'.port = scan.port /\ scan'.reads = "ids" /\ scan'.dev = Blank
          /\ scan'.out = scan.out
      BY <1>2, <2>1 DEF Scanning
    <3>2. scan' \in Scanning
      BY <1>2, <2>1, <3>1, BlankFacts DEF Scanning
    <3> QED BY <3>1, <3>2
  <2>3. scan.port \in Free /\ Len(scan.out) < MaxDev
    BY <1>2, <1>7 DEF Free, Positions
  <2>4. AtPort'
    BY <2>2 DEF AtPort
  <2>5. Partly'
    <3>1. Here' # None
      BY <1>3, <1>7, <2>2 DEF Here, kernel
    <3> QED BY <2>2, <3>1, BlankFacts DEF Partly
  <2> QED BY <1>2, <1>3, <2>2, <2>3, <2>4, <2>5, BlankFacts, StaysAtPort
<1> QED BY <1>4, <1>5, <1>6, <1>7


(* Reading a field: what the steps of read_device have in common. *)
LEMMA ReadFacts ==
  ASSUME IInv, scan # None, scan.reads # "access",
         UNCHANGED <<kernel, socket, table, view, missed, stayed, doubled>>
  PROVE  /\ KernelSound /\ ScanSound
         /\ scan \in Scanning /\ scan.port \in Free /\ scan.port \in 1..Len(Order)
         /\ Len(scan.out) < MaxDev
         /\ scan.dev \in Entry /\ scan.dev.kind # HubKind
         /\ scan.todo \in Seq(Nat)
         /\ sysfs' = sysfs /\ stayed' = stayed
         /\ scan'.port = scan.port => Here' = Here
<1>1. KernelSound /\ ScanSound
  BY InvariantParts
<1>2. scan.port \in 1..Len(Order)
  BY <1>1, ScanFacts, OrderFacts
<1>3. sysfs' = sysfs /\ stayed' = stayed
  BY DEF kernel
<1>4. scan'.port = scan.port => Here' = Here
  BY <1>3 DEF Here
<1> QED BY <1>1, <1>2, <1>3, <1>4, ScanFacts DEF ScanSound

LEMMA ReadIdsKeeps ==
  ASSUME IInv, ReadIds
  PROVE  IInv' /\ scan' # None
<1> DEFINE x == IF Here = None THEN NoKind ELSE Here.desc.kind
           d == [scan.dev EXCEPT !.kind = x]
<1>1. UNCHANGED <<kernel, socket, table, view, missed, stayed, doubled>>
  BY DEF ReadIds, Goes
<1>2. /\ scan # None /\ scan.reads = "ids"
      /\ scan' = [scan EXCEPT !.reads = "serial", !.dev.kind = x]
  BY DEF ReadIds, Reads, Goes
<1>3. /\ KernelSound /\ ScanSound
      /\ scan \in Scanning /\ scan.port \in Free
      /\ Len(scan.out) < MaxDev
      /\ scan.dev \in Entry /\ scan.dev.kind # HubKind
      /\ sysfs' = sysfs /\ stayed' = stayed
      /\ scan'.port = scan.port => Here' = Here
  BY <1>1, <1>2, ReadFacts
<1>4. x \in Kinds /\ x # HubKind
  BY <1>3, HereFacts, EnumerationAssumption DEF Kinds, Serials
<1> HIDE DEF x
<1>5. /\ d \in Entry /\ d.kind = x
      /\ d.serial = scan.dev.serial /\ d.bus = scan.dev.bus /\ d.num = scan.dev.num
      /\ d.ifaces = scan.dev.ifaces /\ d.net = scan.dev.net
  BY <1>3, <1>4 DEF Entry
<1>6. /\ scan'.port = scan.port /\ scan'.reads = "serial" /\ scan'.out = scan.out
      /\ scan'.dev = d
  BY <1>2, <1>3 DEF Scanning
<1>7. scan' \in Scanning
  BY <1>2, <1>3, <1>5, <1>6 DEF Scanning
<1> HIDE DEF d
<1>8. scan'.dev # None /\ scan'.dev.kind # HubKind
  BY <1>3, <1>4, <1>5, <1>6, NoneIsNothing
<1>9. AtPort => AtPort'
  BY <1>2, <1>3, <1>5, <1>6 DEF AtPort, x
<1>10. Partly => Partly'
  BY <1>2, <1>3, <1>5, <1>6 DEF Partly, x
<1> QED BY <1>1, <1>2, <1>3, <1>6, <1>7, <1>8, <1>9, <1>10, StaysAtPort

LEMMA ReadSerialKeeps ==
  ASSUME IInv, ReadSerial
  PROVE  IInv' /\ scan' # None
<1> DEFINE x == IF Here = None THEN <<>> ELSE Cut(Here.desc.serial, StrLen)
           d == [scan.dev EXCEPT !.serial = x]
<1>1. UNCHANGED <<kernel, socket, table, view, missed, stayed, doubled>>
  BY DEF ReadSerial, Goes
<1>2. /\ scan # None /\ scan.reads = "serial"
      /\ scan' = [scan EXCEPT !.reads = "bus", !.dev.serial = x]
  BY DEF ReadSerial, Reads, Goes
<1>3. /\ KernelSound /\ ScanSound
      /\ scan \in Scanning /\ scan.port \in Free
      /\ Len(scan.out) < MaxDev
      /\ scan.dev \in Entry /\ scan.dev.kind # HubKind
      /\ sysfs' = sysfs /\ stayed' = stayed
      /\ scan'.port = scan.port => Here' = Here
  BY <1>1, <1>2, ReadFacts
<1>4. x \in Serials
  BY <1>3, HereFacts, EnumerationAssumption DEF Kinds, Serials
<1> HIDE DEF x
<1>5. /\ d \in Entry /\ d.serial = x
      /\ d.kind = scan.dev.kind /\ d.bus = scan.dev.bus /\ d.num = scan.dev.num
      /\ d.ifaces = scan.dev.ifaces /\ d.net = scan.dev.net
  BY <1>3, <1>4 DEF Entry
<1>6. /\ scan'.port = scan.port /\ scan'.reads = "bus" /\ scan'.out = scan.out
      /\ scan'.dev = d
  BY <1>2, <1>3 DEF Scanning
<1>7. scan' \in Scanning
  BY <1>2, <1>3, <1>5, <1>6 DEF Scanning
<1> HIDE DEF d
<1>8. scan'.dev # None /\ scan'.dev.kind # HubKind
  BY <1>3, <1>4, <1>5, <1>6, NoneIsNothing
<1>9. AtPort => AtPort'
  BY <1>2, <1>3, <1>5, <1>6 DEF AtPort, x
<1>10. Partly => Partly'
  BY <1>2, <1>3, <1>5, <1>6 DEF Partly, x
<1> QED BY <1>1, <1>2, <1>3, <1>6, <1>7, <1>8, <1>9, <1>10, StaysAtPort

LEMMA ReadBusKeeps ==
  ASSUME IInv, ReadBus
  PROVE  IInv' /\ scan' # None
<1> DEFINE x == IF Here = None THEN 0 ELSE 1
           d == [scan.dev EXCEPT !.bus = x]
<1>1. UNCHANGED <<kernel, socket, table, view, missed, stayed, doubled>>
  BY DEF ReadBus, Goes
<1>2. /\ scan # None /\ scan.reads = "bus"
      /\ scan' = [scan EXCEPT !.reads = "num", !.dev.bus = x]
  BY DEF ReadBus, Reads, Goes
<1>3. /\ KernelSound /\ ScanSound
      /\ scan \in Scanning /\ scan.port \in Free
      /\ Len(scan.out) < MaxDev
      /\ scan.dev \in Entry /\ scan.dev.kind # HubKind
      /\ sysfs' = sysfs /\ stayed' = stayed
      /\ scan'.port = scan.port => Here' = Here
  BY <1>1, <1>2, ReadFacts
<1>4. x \in {0, 1}
  BY <1>3, HereFacts, EnumerationAssumption DEF Kinds, Serials
<1> HIDE DEF x
<1>5. /\ d \in Entry /\ d.bus = x
      /\ d.kind = scan.dev.kind /\ d.serial = scan.dev.serial /\ d.num = scan.dev.num
      /\ d.ifaces = scan.dev.ifaces /\ d.net = scan.dev.net
  BY <1>3, <1>4 DEF Entry
<1>6. /\ scan'.port = scan.port /\ scan'.reads = "num" /\ scan'.out = scan.out
      /\ scan'.dev = d
  BY <1>2, <1>3 DEF Scanning
<1>7. scan' \in Scanning
  BY <1>2, <1>3, <1>5, <1>6 DEF Scanning
<1> HIDE DEF d
<1>8. scan'.dev # None /\ scan'.dev.kind # HubKind
  BY <1>3, <1>4, <1>5, <1>6, NoneIsNothing
<1>9. AtPort => AtPort'
  BY <1>2, <1>3, <1>5, <1>6 DEF AtPort, x
<1>10. Partly => Partly'
  BY <1>2, <1>3, <1>5, <1>6 DEF Partly, x
<1> QED BY <1>1, <1>2, <1>3, <1>6, <1>7, <1>8, <1>9, <1>10, StaysAtPort


LEMMA ReadNumKeeps ==
  ASSUME IInv, ReadNum
  PROVE  IInv' /\ scan' # None
<1> DEFINE x == IF Here = None THEN 0 ELSE Here.num
           y == IF scan.dev.kind \in AccKinds THEN {"accessory"} ELSE {}
           d == [scan.dev EXCEPT !.num = x, !.flags = y]
<1>1. UNCHANGED <<kernel, socket, table, view, missed, stayed, doubled>>
  BY DEF ReadNum, Goes
<1>2. /\ scan # None /\ scan.reads = "num"
      /\ scan' = [scan EXCEPT !.reads = "list", !.dev.num = x, !.dev.flags = y]
  BY DEF ReadNum, Reads, Goes
<1>3. /\ KernelSound /\ ScanSound
      /\ scan \in Scanning /\ scan.port \in Free
      /\ Len(scan.out) < MaxDev
      /\ scan.dev \in Entry /\ scan.dev.kind # HubKind
      /\ sysfs' = sysfs /\ stayed' = stayed
      /\ scan'.port = scan.port => Here' = Here
  BY <1>1, <1>2, ReadFacts
<1>4. x \in 0..Nums /\ y \in SUBSET (Classes \cup {"accessory", "ipheth"})
  BY <1>3, HereFacts, EnumerationAssumption
<1> HIDE DEF x, y
<1>5. /\ d \in Entry /\ d.num = x /\ d.flags = y
      /\ d.kind = scan.dev.kind /\ d.serial = scan.dev.serial /\ d.bus = scan.dev.bus
      /\ d.ifaces = scan.dev.ifaces /\ d.net = scan.dev.net
  BY <1>3, <1>4 DEF Entry
<1>6. /\ scan'.port = scan.port /\ scan'.reads = "list" /\ scan'.out = scan.out
      /\ scan'.dev = d
  BY <1>2, <1>3 DEF Scanning
<1>7. scan' \in Scanning
  BY <1>2, <1>3, <1>5, <1>6 DEF Scanning
<1> HIDE DEF d
<1>8. scan'.dev # None /\ scan'.dev.kind # HubKind
  BY <1>3, <1>4, <1>5, <1>6, NoneIsNothing
<1>9. AtPort => AtPort'
  BY <1>2, <1>3, <1>5, <1>6 DEF AtPort, x
<1>10. Partly => Partly'
  BY <1>2, <1>3, <1>5, <1>6 DEF Partly, x, y, Accessory
<1> QED BY <1>1, <1>2, <1>3, <1>6, <1>7, <1>8, <1>9, <1>10, StaysAtPort

(* What is reported of a device grows interface by interface. *)
LEMMA ReportsNothing ==
  ASSUME NEW d, NEW dev,
         d.ifaces = <<>>, d.net = <<>>, d.flags = Accessory(d.kind)
  PROVE  Reports(d, dev, 0, 0)
<1>1. 1..0 = {}
  OBVIOUS
<1>2. Bound(dev, 0) = {} /\ Nets(dev, 0) = {}
  BY <1>1 DEF Bound, Nets
<1>3. d.ifaces = [k \in 1..0 |-> Class(dev, k)]
  BY <1>1
<1> QED BY <1>1, <1>2, <1>3 DEF Reports

LEMMA ReportsClass ==
  ASSUME NEW d, NEW e, NEW dev, NEW m \in Nat, Reports(d, dev, m, m),
         e.ifaces = Append(d.ifaces, Class(dev, m + 1)),
         e.flags = d.flags \cup ByClass(Class(dev, m + 1)),
         e.kind = d.kind, e.net = d.net
  PROVE  Reports(e, dev, m + 1, m)
<1>1. e.ifaces = [k \in 1..m + 1 |-> Class(dev, k)]
  <2>1. d.ifaces = [k \in 1..m |-> Class(dev, k)]
    BY DEF Reports
  <2>2. Len(d.ifaces) = m
    BY <2>1
  <2> QED BY <2>1, <2>2
<1>2. \A k : k \in 1..m + 1 <=> k \in 1..m \/ k = m + 1
  OBVIOUS
<1>3. \A f \in Flags : f \in e.flags <=>
       \/ f \in Accessory(e.kind)
       \/ \E k \in 1..m + 1 : f \in ByClass(Class(dev, k))
       \/ \E k \in Bound(dev, m) : f \in ByDriver(DriverOf(Class(dev, k)))
  BY <1>2 DEF Reports
<1>4. IF Nets(dev, m) = {} THEN e.net = <<>>
      ELSE \/ e.net = NetName(dev.ifaces[Listed(dev)[Min(Nets(dev, m))]])
           \/ e.net = Usb0
  BY DEF Reports
<1> QED BY <1>1, <1>3, <1>4 DEF Reports

LEMMA OneMore ==
  ASSUME NEW m \in Nat
  PROVE  /\ m + 1 \in Nat
         /\ \A k : k \in 1..m + 1 <=> k \in 1..m \/ k = m + 1
         /\ \A a \in 1..m, b \in 1..m + 1 :
              b <= a => b # m + 1 /\ (a <= b => a = b)
OBVIOUS

LEMMA ReportsDriver ==
  ASSUME NEW d, NEW e, NEW dev \in Attached, NEW m \in Nat,
         m + 1 \in 1..Len(Listed(dev)), Calm(dev),
         Reports(d, dev, m + 1, m),
         NEW iface, iface = dev.ifaces[Listed(dev)[m + 1]],
         NEW bound, bound <=> iface.stage # "added",
         e.flags = d.flags \cup
                     ByDriver(IF bound THEN DriverOf(Class(dev, m + 1)) ELSE ""),
         e.net = IF d.net = <<>>
                 THEN IF bound /\ HasNet(Class(dev, m + 1)) THEN NetName(iface)
                      ELSE <<>>
                 ELSE d.net,
         e.kind = d.kind, e.ifaces = d.ifaces
  PROVE  Reports(e, dev, m + 1, m + 1)
<1>1. iface \in Interface /\ iface.stage \in {"added", "probed", "bound"}
  BY ListedFacts DEF Interface
<1>2. bound <=> iface.stage = "bound"
  <2>1. iface.stage # "probed"
    BY ListedFacts DEF Calm
  <2> QED BY <1>1, <2>1
<1>3. /\ m + 1 \in Nat
      /\ \A k : k \in 1..m + 1 <=> k \in 1..m \/ k = m + 1
  BY OneMore
<1>4. \A k : k \in Bound(dev, m + 1) <=> k \in Bound(dev, m) \/ (k = m + 1 /\ bound)
  BY <1>2, <1>3 DEF Bound
<1>5. \A k : k \in Nets(dev, m + 1) <=>
               \/ k \in Nets(dev, m)
               \/ k = m + 1 /\ bound /\ HasNet(Class(dev, m + 1))
  BY <1>4 DEF Nets
<1>6. \A f : f \in ByDriver(IF bound THEN DriverOf(Class(dev, m + 1)) ELSE "")
               <=> bound /\ f \in ByDriver(DriverOf(Class(dev, m + 1)))
  BY DEF ByDriver
<1>7. \A f \in Flags : f \in e.flags <=>
       \/ f \in Accessory(e.kind)
       \/ \E k \in 1..m + 1 : f \in ByClass(Class(dev, k))
       \/ \E k \in Bound(dev, m + 1) : f \in ByDriver(DriverOf(Class(dev, k)))
  <2> TAKE f \in Flags
  <2>1. f \in d.flags <=>
          \/ f \in Accessory(d.kind)
          \/ \E k \in 1..m + 1 : f \in ByClass(Class(dev, k))
          \/ \E k \in Bound(dev, m) : f \in ByDriver(DriverOf(Class(dev, k)))
    BY DEF Reports
  <2>2. f \in e.flags <=>
          f \in d.flags \/ (bound /\ f \in ByDriver(DriverOf(Class(dev, m + 1))))
    BY <1>6
  <2>3. (\E k \in Bound(dev, m + 1) : f \in ByDriver(DriverOf(Class(dev, k))))
          <=> \/ \E k \in Bound(dev, m) : f \in ByDriver(DriverOf(Class(dev, k)))
              \/ bound /\ f \in ByDriver(DriverOf(Class(dev, m + 1)))
    BY <1>4
  <2> QED BY <2>1, <2>2, <2>3
<1>8. IF Nets(dev, m + 1) = {} THEN e.net = <<>>
      ELSE \/ e.net = NetName(dev.ifaces[Listed(dev)[Min(Nets(dev, m + 1))]])
           \/ e.net = Usb0
  <2>1. Nets(dev, m) \subseteq 1..m
    BY DEF Nets, Bound
  <2>2. CASE Nets(dev, m) = {}
    <3>1. d.net = <<>>
      BY <2>2 DEF Reports
    <3>2. CASE bound /\ HasNet(Class(dev, m + 1))
      <4>1. Nets(dev, m + 1) = {m + 1}
        BY <1>5, <2>2, <3>2
      <4>2. Min(Nets(dev, m + 1)) = m + 1
        BY <4>1, <1>3, NetsFacts
      <4> QED BY <3>1, <3>2, <4>1, <4>2
    <3>3. CASE ~(bound /\ HasNet(Class(dev, m + 1)))
      <4>1. Nets(dev, m + 1) = {}
        BY <1>5, <2>2, <3>3
      <4> QED BY <3>1, <3>3, <4>1
    <3> QED BY <3>2, <3>3
  <2>3. CASE Nets(dev, m) # {}
    <3>1. /\ Min(Nets(dev, m)) \in Nets(dev, m) /\ Min(Nets(dev, m)) \in 1..m
          /\ \A k \in Nets(dev, m) : Min(Nets(dev, m)) <= k
      BY <2>3, NetsFacts
    <3>2. Nets(dev, m + 1) # {}
      BY <1>5, <3>1
    <3>3. /\ Min(Nets(dev, m + 1)) \in Nets(dev, m + 1)
          /\ Min(Nets(dev, m + 1)) \in 1..m + 1
          /\ \A k \in Nets(dev, m + 1) : Min(Nets(dev, m + 1)) <= k
      BY <3>2, <1>3, NetsFacts
    <3>4. PICK a, b : /\ a = Min(Nets(dev, m)) /\ b = Min(Nets(dev, m + 1))
                      /\ a \in 1..m /\ b \in 1..m + 1
                      /\ a \in Nets(dev, m) /\ b \in Nets(dev, m + 1)
      BY <3>1, <3>3
    <3>5. b <= a
      BY <1>5, <3>3, <3>4
    <3>6. Min(Nets(dev, m + 1)) = Min(Nets(dev, m))
      <4>1. b # m + 1 /\ (a <= b => a = b)
        BY <3>4, <3>5, OneMore
      <4>2. b \in Nets(dev, m)
        BY <1>5, <3>4, <4>1
      <4>3. a <= b
        BY <3>1, <3>4, <4>2
      <4>4. a = b
        BY <4>1, <4>3
      <4> QED BY <3>4, <4>4
    <3>7. d.net = NetName(dev.ifaces[Listed(dev)[Min(Nets(dev, m))]]) \/ d.net = Usb0
      BY <2>3 DEF Reports
    <3>8. d.net # <<>>
      <4>1. \A i : NetName(i) # <<>>
        BY DEF NetName, Usb0, Enx
      <4>2. Usb0 # <<>>
        BY DEF Usb0
      <4> QED BY <3>7, <4>1, <4>2
    <3>9. e.net = d.net
      BY <3>8
    <3> QED BY <3>2, <3>6, <3>7, <3>9
  <2> QED BY <2>2, <2>3
<1>9. e.ifaces = [k \in 1..m + 1 |-> Class(dev, k)]
  BY DEF Reports
<1> QED BY <1>7, <1>8, <1>9 DEF Reports


LEMMA KnowsPort ==
  ASSUME IInv, scan # None, scan.reads # "access"
  PROVE  (Room => AtPort) /\ (Clean => Partly)
<1>1. (Room => Found) /\ CleanSound /\ scan.port \in Free
  BY InvariantParts DEF ScanSound
<1>2. ASSUME Room PROVE AtPort
  BY <1>1, <1>2 DEF Found, AtPort, Here, There
<1>3. ASSUME Clean PROVE Partly
  BY <1>1, <1>3 DEF CleanSound
<1> QED BY <1>2, <1>3

LEMMA FinishKeeps ==
  ASSUME IInv, scan # None, scan.reads # "access",
         UNCHANGED <<kernel, socket, table, view, missed, stayed, doubled>>,
         NEW d \in Entry, d.kind # HubKind, scan' = Finish(d),
         AtPort /\ Here # None /\ Here.num \in stayed => d.bus = 1 /\ d.num = Here.num,
         Partly => Here # None /\ Tells(d, Here)
  PROVE  IInv' /\ scan' # None
<1>1. /\ scan \in Scanning /\ scan.port \in 1..Len(Order) /\ scan.port \in Free
      /\ Len(scan.out) < MaxDev
  BY ReadFacts
<1>2. Counted(scan.out, d) = Append(scan.out, d)
  BY DEF Counted
<1>3. scan.out \in Seq(Entry)
  BY <1>1 DEF Scanning
<1>4. GoesOn(Append(scan.out, d))
  <2>1. Append(scan.out, d) \in Seq(Entry)
    BY <1>3
  <2> QED BY <1>1, <1>2, <2>1, NextPortFacts DEF GoesOn
<1>5. Room /\ Here # None /\ Here.num \in stayed => Id(d) = <<1, Here.num>>
  BY KnowsPort DEF Id
<1>6. Clean => Here # None /\ Tells(d, Here)
  BY KnowsPort
<1> QED BY <1>1, <1>4, <1>5, <1>6, PassesPort

LEMMA ListIfacesKeeps ==
  ASSUME IInv, ListIfaces
  PROVE  IInv' /\ scan' # None
<1> DEFINE t == IF Here = None THEN <<>> ELSE Listed(Here)
<1>1. UNCHANGED <<kernel, socket, table, view, missed, stayed, doubled>>
  BY DEF ListIfaces, Goes
<1>2. scan # None /\ scan.reads = "list" /\ scan' = NextIface(scan.dev, t)
  BY DEF ListIfaces, Reads, Goes
<1>3. /\ KernelSound /\ ScanSound
      /\ scan \in Scanning /\ scan.port \in Free
      /\ Len(scan.out) < MaxDev
      /\ scan.dev \in Entry /\ scan.dev.kind # HubKind
      /\ sysfs' = sysfs /\ stayed' = stayed
      /\ scan'.port = scan.port => Here' = Here
  BY <1>1, <1>2, ReadFacts
<1>4. t \in Seq(Nat)
  <2>1. Here # None => Listed(Here) \in Seq(Nat)
    BY <1>3, HereFacts, ListedFacts
  <2> QED BY <2>1
<1>5. AtPort /\ Here # None /\ Here.num \in stayed
        => scan.dev.bus = 1 /\ scan.dev.num = Here.num
  BY <1>2 DEF AtPort
<1>6. Partly => /\ Here # None /\ t = Listed(Here)
                /\ scan.dev.kind = Here.desc.kind /\ scan.dev.serial = Cut(Here.desc.serial, StrLen)
                /\ scan.dev.bus = 1 /\ scan.dev.num = Here.num
                /\ Reports(scan.dev, Here, 0, 0)
  BY <1>2, ReportsNothing DEF Partly
<1> HIDE DEF t
<1>7. CASE t = <<>>
  <2>1. scan' = Finish(scan.dev)
    BY <1>2, <1>7 DEF NextIface
  <2>2. Partly => Here # None /\ Tells(scan.dev, Here)
    <3>1. t = Listed(Here) => Len(Listed(Here)) = 0
      BY <1>7
    <3> QED BY <1>6, <3>1 DEF Tells
  <2> QED BY <1>1, <1>2, <1>3, <1>5, <2>1, <2>2, FinishKeeps
<1>8. CASE t # <<>>
  <2>1. scan' = [scan EXCEPT !.reads = "class", !.todo = t, !.dev = scan.dev]
    BY <1>2, <1>8 DEF NextIface
  <2>2. /\ scan'.port = scan.port /\ scan'.reads = "class" /\ scan'.out = scan.out
        /\ scan'.dev = scan.dev /\ scan'.todo = t
    BY <1>3, <2>1 DEF Scanning
  <2>3. scan' \in Scanning
    BY <1>3, <1>4, <2>1, <2>2 DEF Scanning
  <2>4. scan'.dev # None /\ scan'.dev.kind # HubKind
    BY <1>3, <2>2, NoneIsNothing
  <2>5. AtPort => AtPort'
    BY <1>2, <1>3, <2>2 DEF AtPort
  <2>6. ASSUME Partly PROVE Partly'
    <3>1. Here' = Here /\ Here # None /\ scan'.todo = Listed(Here)
      BY <1>3, <1>6, <2>2, <2>6
    <3>2. Len(Listed(Here)) \in Nat /\ Len(Listed(Here)) - Len(scan'.todo) = 0
      BY <1>4, <1>6, <2>6, <3>1, LenProperties
    <3>3. \A i \in 1..Len(scan'.todo) : scan'.todo[i] = Listed(Here)[0 + i]
      BY <3>1, <3>2
    <3>4. /\ Here' # None /\ scan'.reads = "class"
          /\ scan'.dev.kind = Here'.desc.kind /\ scan'.dev.serial = Cut(Here'.desc.serial, StrLen)
          /\ scan'.dev.bus = 1 /\ scan'.dev.num = Here'.num
          /\ Reports(scan'.dev, Here', 0, 0)
      BY <1>6, <2>2, <2>6, <3>1
    <3>5. /\ Len(Listed(Here')) - Len(scan'.todo) = 0
          /\ Len(scan'.todo) <= Len(Listed(Here'))
          /\ \A i \in 1..Len(scan'.todo) : scan'.todo[i] = Listed(Here')[0 + i]
      BY <3>1, <3>2, <3>3
    <3> HIDE DEF Here
    <3> QED BY <3>4, <3>5 DEF Partly
  <2> QED BY <1>1, <1>2, <1>3, <1>8, <2>2, <2>3, <2>4, <2>5, <2>6, StaysAtPort
<1> QED BY <1>7, <1>8


(* The interface that is read next. *)
LEMMA NextRead ==
  ASSUME IInv, scan # None, scan.reads \in {"class", "driver"}
  PROVE  /\ scan.todo # <<>> /\ Head(scan.todo) \in Nat /\ Tail(scan.todo) \in Seq(Nat)
         /\ Len(Tail(scan.todo)) = Len(scan.todo) - 1
         /\ Len(scan.todo) \in Nat \ {0}
         /\ \A i \in 1..Len(Tail(scan.todo)) : Tail(scan.todo)[i] = scan.todo[i + 1]
         /\ Head(scan.todo) = scan.todo[1]
<1>1. scan.todo \in Seq(Nat) /\ scan.todo # <<>>
  BY ReadFacts, InvariantParts, ScanFacts DEF ScanSound
<1> QED BY <1>1

LEMMA NextListed ==
  ASSUME IInv, scan # None, scan.reads \in {"class", "driver"}, Partly,
         NEW m, m = Len(Listed(Here)) - Len(scan.todo)
  PROVE  /\ Here # None /\ Here \in Attached
         /\ m \in Nat /\ m + 1 \in 1..Len(Listed(Here))
         /\ Head(scan.todo) = Listed(Here)[m + 1]
         /\ Iface(Head(scan.todo)) = Here.ifaces[Listed(Here)[m + 1]]
         /\ Iface(Head(scan.todo)) # None
         /\ Here.desc.classes[Head(scan.todo)] = Class(Here, m + 1)
<1>1. KernelSound /\ scan.port \in Free
  BY InvariantParts DEF ScanSound
<1>2. Here # None
  BY DEF Partly
<1>3. Here \in Attached
  BY <1>1, <1>2, HereFacts
<1>4. Len(Listed(Here)) \in Nat
  BY <1>3, ListedFacts
<1>5. /\ Len(scan.todo) <= Len(Listed(Here))
      /\ \A i \in 1..Len(scan.todo) : scan.todo[i] = Listed(Here)[m + i]
  BY DEF Partly
<1>6. Len(scan.todo) \in Nat \ {0}
  BY NextRead
<1>7. m \in Nat /\ m + 1 \in 1..Len(Listed(Here)) /\ 1 \in 1..Len(scan.todo)
  BY <1>4, <1>5, <1>6
<1>8. Head(scan.todo) = Listed(Here)[m + 1]
  BY <1>5, <1>7, NextRead
<1>9. /\ Listed(Here)[m + 1] \in DOMAIN Here.ifaces
      /\ Here.ifaces[Listed(Here)[m + 1]] # None
  BY <1>3, <1>7, ListedFacts
<1>10. Iface(Head(scan.todo)) = Here.ifaces[Listed(Here)[m + 1]]
  BY <1>2, <1>8, <1>9 DEF Iface
<1> QED BY <1>2, <1>3, <1>7, <1>8, <1>9, <1>10 DEF Class

LEMMA ReadClassKeeps ==
  ASSUME IInv, ReadClass
  PROVE  IInv' /\ scan' # None
<1> DEFINE i == Head(scan.todo)
           x == IF Iface(i) = None THEN "none" ELSE Here.desc.classes[i]
           s == Append(scan.dev.ifaces, x)
           f == scan.dev.flags \cup ByClass(x)
           d == [scan.dev EXCEPT !.ifaces = s, !.flags = f]
<1>1. UNCHANGED <<kernel, socket, table, view, missed, stayed, doubled>>
  BY DEF ReadClass, Goes
<1>2. /\ scan # None /\ scan.reads = "class"
      /\ scan' = [scan EXCEPT !.reads = "driver",
                              !.dev.ifaces = Append(@, x),
                              !.dev.flags = @ \cup ByClass(x)]
  BY DEF ReadClass, Reads, Goes
<1>3. /\ KernelSound /\ ScanSound
      /\ scan \in Scanning /\ scan.port \in Free
      /\ Len(scan.out) < MaxDev
      /\ scan.dev \in Entry /\ scan.dev.kind # HubKind
      /\ sysfs' = sysfs /\ stayed' = stayed
      /\ scan'.port = scan.port => Here' = Here
  BY <1>1, <1>2, ReadFacts
<1>4. x \in Classes \cup {"none"}
  <2>1. Iface(i) # None => Here # None /\ i \in DOMAIN Here.ifaces
    BY DEF Iface
  <2>2. Iface(i) # None => Here.desc.classes[i] \in Classes
    BY <2>1, <1>3, HereFacts
  <2> QED BY <2>2
<1>5. s \in Seq(Classes \cup {"none"})
  <2>1. scan.dev.ifaces \in Seq(Classes \cup {"none"})
    BY <1>3 DEF Entry
  <2> QED BY <2>1, <1>4
<1>6. f \in SUBSET (Classes \cup {"accessory", "ipheth"})
  <2>1. scan.dev.flags \in SUBSET (Classes \cup {"accessory", "ipheth"})
    BY <1>3 DEF Entry
  <2> QED BY <2>1 DEF ByClass
<1>7. scan'.dev = d
  BY <1>2, <1>3 DEF Scanning
<1>8. /\ scan'.port = scan.port /\ scan'.reads = "driver" /\ scan'.out = scan.out
      /\ scan'.todo = scan.todo
  BY <1>2, <1>3 DEF Scanning
<1> HIDE DEF s, f
<1>9. /\ d \in Entry /\ d.ifaces = s /\ d.flags = f
      /\ d.kind = scan.dev.kind /\ d.serial = scan.dev.serial /\ d.bus = scan.dev.bus
      /\ d.num = scan.dev.num /\ d.net = scan.dev.net
  BY <1>3, <1>5, <1>6 DEF Entry
<1> HIDE DEF d
<1>10. scan' \in Scanning
  BY <1>2, <1>3, <1>7, <1>8, <1>9 DEF Scanning
<1>11. scan'.dev # None /\ scan'.dev.kind # HubKind /\ scan'.todo # <<>>
  BY <1>2, <1>3, <1>7, <1>8, <1>9, NextRead, NoneIsNothing
<1>12. AtPort => AtPort'
  BY <1>2, <1>3, <1>7, <1>8, <1>9 DEF AtPort
<1>13. ASSUME Partly PROVE Partly'
  <2> DEFINE m == Len(Listed(Here)) - Len(scan.todo)
  <2>1. /\ m \in Nat /\ Iface(i) # None /\ Here.desc.classes[i] = Class(Here, m + 1)
        /\ Here # None
    BY <1>2, <1>13, NextListed
  <2>2. x = Class(Here, m + 1)
    BY <2>1
  <2>3. ASSUME Calm(Here) PROVE Reports(d, Here, m + 1, m)
    <3>1. Reports(scan.dev, Here, m, m)
      BY <1>2, <1>13, <2>3 DEF Partly
    <3> HIDE DEF m, x
    <3> QED BY <3>1, <1>9, <2>1, <2>2, ReportsClass DEF s, f
  <2>4. /\ Here' = Here /\ scan'.dev = d /\ scan'.reads = "driver"
        /\ scan'.todo = scan.todo
    BY <1>3, <1>7, <1>8
  <2>5. /\ Len(scan.todo) <= Len(Listed(Here))
        /\ \A k \in 1..Len(scan.todo) : scan.todo[k] = Listed(Here)[m + k]
        /\ d.kind = Here.desc.kind /\ d.serial = Cut(Here.desc.serial, StrLen)
        /\ d.bus = 1 /\ d.num = Here.num
    BY <1>2, <1>9, <1>13 DEF Partly
  <2> HIDE DEF Here, x
  <2> QED BY <2>1, <2>3, <2>4, <2>5 DEF Partly
<1> QED BY <1>1, <1>2, <1>3, <1>8, <1>10, <1>11, <1>12, <1>13, StaysAtPort


LEMMA ReadDriverKeeps ==
  ASSUME IInv, ReadDriver
  PROVE  IInv' /\ scan' # None
<1> DEFINE i == Head(scan.todo)
           bound == /\ Iface(i) # None
                    /\ Iface(i).stage # "added"
           driver == IF bound THEN DriverOf(Here.desc.classes[i]) ELSE ""
           net == IF bound /\ HasNet(Here.desc.classes[i])
                  THEN NetName(Iface(i)) ELSE <<>>
           f == scan.dev.flags \cup ByDriver(driver)
           n == IF scan.dev.net = <<>> THEN net ELSE scan.dev.net
           d == [scan.dev EXCEPT !.flags = f, !.net = n]
           t == Tail(scan.todo)
<1>1. UNCHANGED <<kernel, socket, table, view, missed, stayed, doubled>>
  BY DEF ReadDriver, Goes
<1>2. scan # None /\ scan.reads = "driver" /\ scan' = NextIface(d, t)
  BY DEF ReadDriver, Reads, Goes
<1>3. /\ KernelSound /\ ScanSound
      /\ scan \in Scanning /\ scan.port \in Free
      /\ Len(scan.out) < MaxDev
      /\ scan.dev \in Entry /\ scan.dev.kind # HubKind
      /\ sysfs' = sysfs /\ stayed' = stayed
      /\ scan'.port = scan.port => Here' = Here
  BY <1>1, <1>2, ReadFacts
<1>4. f \in SUBSET (Classes \cup {"accessory", "ipheth"})
  <2>1. scan.dev.flags \in SUBSET (Classes \cup {"accessory", "ipheth"})
    BY <1>3 DEF Entry
  <2>2. \A r : ByDriver(r) \in SUBSET (Classes \cup {"accessory", "ipheth"})
    BY DEF ByDriver, Classes
  <2> HIDE DEF driver
  <2> QED BY <2>1, <2>2
<1>5. n \in {<<>>, Usb0, Enx}
  <2>1. scan.dev.net \in {<<>>, Usb0, Enx}
    BY <1>3 DEF Entry
  <2>2. \A r : NetName(r) \in {<<>>, Usb0, Enx}
    BY DEF NetName
  <2>3. net \in {<<>>, Usb0, Enx}
    <3> HIDE DEF bound
    <3> QED BY <2>2
  <2> HIDE DEF net
  <2> QED BY <2>1, <2>3
<1> HIDE DEF f, n
<1>6. /\ d \in Entry /\ d.flags = f /\ d.net = n
      /\ d.kind = scan.dev.kind /\ d.serial = scan.dev.serial /\ d.bus = scan.dev.bus
      /\ d.num = scan.dev.num /\ d.ifaces = scan.dev.ifaces
  BY <1>3, <1>4, <1>5 DEF Entry
<1> HIDE DEF d
<1>7. t \in Seq(Nat) /\ (t # <<>> => Len(t) # 0) /\ Len(t) = Len(scan.todo) - 1
      /\ Len(scan.todo) \in Nat \ {0} /\ Len(t) \in Nat
      /\ (t = <<>> => Len(t) = 0)
      /\ \A k \in 1..Len(t) : t[k] = scan.todo[k + 1]
  BY <1>2, NextRead, EmptySeq, LenProperties
<1> HIDE DEF t
<1>8. ASSUME Partly
      PROVE  /\ Here # None /\ d.kind = Here.desc.kind /\ d.serial = Cut(Here.desc.serial, StrLen)
             /\ d.bus = 1 /\ d.num = Here.num
             /\ Len(t) <= Len(Listed(Here)) /\ Len(Listed(Here)) \in Nat
             /\ \A k \in 1..Len(t) : t[k] = Listed(Here)[Len(Listed(Here)) - Len(t) + k]
             /\ Calm(Here) => Reports(d, Here, Len(Listed(Here)) - Len(t),
                                      Len(Listed(Here)) - Len(t))
  <2>1. PICK m, l : m = l - Len(scan.todo) /\ l = Len(Listed(Here))
    OBVIOUS
  <2>2. /\ Here # None /\ Here \in Attached
        /\ m \in Nat /\ m + 1 \in 1..Len(Listed(Here))
        /\ Iface(i) = Here.ifaces[Listed(Here)[m + 1]]
        /\ Iface(i) # None
        /\ Here.desc.classes[i] = Class(Here, m + 1)
    BY <1>2, <1>8, <2>1, NextListed
  <2>3. l \in Nat
    BY <2>1, <2>2, ListedFacts
  <2>4. Len(t) <= l /\ l - Len(t) = m + 1
    BY <1>7, <2>1, <2>2, <2>3
  <2>5. /\ d.kind = Here.desc.kind /\ d.serial = Cut(Here.desc.serial, StrLen)
        /\ d.bus = 1 /\ d.num = Here.num
        /\ \A k \in 1..Len(scan.todo) : scan.todo[k] = Listed(Here)[m + k]
        /\ Calm(Here) => Reports(scan.dev, Here, m + 1, m)
    BY <1>2, <1>6, <1>8, <2>1 DEF Partly
  <2>6. \A k \in 1..Len(t) : t[k] = Listed(Here)[(m + 1) + k]
    <3> SUFFICES ASSUME NEW k \in 1..Len(t) PROVE t[k] = Listed(Here)[(m + 1) + k]
      OBVIOUS
    <3>1. k + 1 \in 1..Len(scan.todo) /\ m + (k + 1) = (m + 1) + k
      <4>1. PICK a, b : /\ a = Len(t) /\ b = Len(scan.todo)
                        /\ a \in Nat /\ b \in Nat /\ a = b - 1
        BY <1>7
      <4>2. m \in Nat /\ k \in 1..a
        BY <2>2, <4>1
      <4>3. k + 1 \in 1..b
        BY <4>1, <4>2
      <4>4. m + (k + 1) = (m + 1) + k
        BY <4>2
      <4> QED BY <4>1, <4>3, <4>4
    <3> QED BY <3>1, <2>5, <1>7
  <2>7. ASSUME Calm(Here) PROVE Reports(d, Here, m + 1, m + 1)
    <3> DEFINE iface == Iface(i)
               c == Class(Here, m + 1)
    <3>1. bound <=> iface.stage # "added"
      BY <2>2
    <3>2. /\ driver = IF bound THEN DriverOf(c) ELSE ""
          /\ net = IF bound /\ HasNet(c) THEN NetName(iface) ELSE <<>>
      BY <2>2
    <3>3. iface = Here.ifaces[Listed(Here)[m + 1]]
      BY <2>2
    <3> HIDE DEF bound, driver, net, iface
    <3>4. d.flags = scan.dev.flags \cup ByDriver(IF bound THEN DriverOf(c) ELSE "")
      BY <1>6, <3>2 DEF f
    <3>5. d.net = IF scan.dev.net = <<>>
                  THEN IF bound /\ HasNet(c) THEN NetName(iface) ELSE <<>>
                  ELSE scan.dev.net
      BY <1>6, <3>2 DEF n
    <3>6. Reports(scan.dev, Here, m + 1, m)
      BY <2>5, <2>7
    <3> QED BY <1>6, <2>2, <2>7, <3>1, <3>3, <3>4, <3>5, <3>6, ReportsDriver
  <2> HIDE DEF Here
  <2> QED BY <2>1, <2>2, <2>3, <2>4, <2>5, <2>6, <2>7
<1>9. CASE t = <<>>
  <2>1. scan' = Finish(d)
    BY <1>2, <1>9 DEF NextIface
  <2>2. AtPort /\ Here # None /\ Here.num \in stayed => d.bus = 1 /\ d.num = Here.num
    BY <1>2, <1>6 DEF AtPort
  <2>3. Partly => Here # None /\ Tells(d, Here)
    <3>1. Len(t) = 0
      BY <1>7, <1>9
    <3>2. Len(Listed(Here)) \in Nat => Len(Listed(Here)) - Len(t) = Len(Listed(Here))
      BY <3>1
    <3> QED BY <1>8, <3>2 DEF Tells
  <2>4. d.kind # HubKind
    BY <1>3, <1>6
  <2> QED BY <1>1, <1>2, <1>6, <2>1, <2>2, <2>3, <2>4, FinishKeeps
<1>10. CASE t # <<>>
  <2>1. scan' = [scan EXCEPT !.reads = "class", !.todo = t, !.dev = d]
    BY <1>2, <1>10 DEF NextIface
  <2>2. /\ scan'.port = scan.port /\ scan'.reads = "class" /\ scan'.out = scan.out
        /\ scan'.dev = d /\ scan'.todo = t
    BY <1>3, <2>1 DEF Scanning
  <2>3. scan' \in Scanning
    BY <1>3, <1>6, <1>7, <2>1, <2>2 DEF Scanning
  <2>4. scan'.dev # None /\ scan'.dev.kind # HubKind
    BY <1>3, <1>6, <2>2, NoneIsNothing
  <2>5. AtPort => AtPort'
    BY <1>2, <1>3, <1>6, <2>2 DEF AtPort
  <2>6. ASSUME Partly PROVE Partly'
    <3>1. Here' = Here
      BY <1>3, <2>2
    <3> HIDE DEF Here
    <3> QED BY <1>8, <2>2, <2>6, <3>1 DEF Partly
  <2> QED BY <1>1, <1>2, <1>3, <1>10, <2>2, <2>3, <2>4, <2>5, <2>6, StaysAtPort
<1> QED BY <1>9, <1>10


-----------------------------------------------------------------------------
(* The end of a scan. *)
LEMMA NumberedFacts ==
  ASSUME NEW out \in Seq(Entry)
  PROVE  /\ Numbered(out) \in Seq(Entry)
         /\ Len(Numbered(out)) <= Len(out) /\ Len(Numbered(out)) \in Nat
         /\ \A j \in 1..Len(Numbered(out)) :
              /\ Id(Numbered(out)[j]) # <<0, 0>>
              /\ \E k \in 1..Len(out) : Numbered(out)[j] = out[k]
         /\ \A k \in 1..Len(out) : Id(out[k]) # <<0, 0>> =>
              Id(out[k]) \in IdsIn(Numbered(out))
         /\ (\A k \in 1..Len(out) : Id(out[k]) # <<0, 0>>) => Numbered(out) = out
<1> DEFINE K == {k \in 1..Len(out) : Id(out[k]) # <<0, 0>>}
<1>1. Numbered(out) = Pick(out, K) /\ K \in SUBSET (1..Len(out))
  BY DEF Numbered
<1>2. \A k \in K : k \in 1..Len(out) /\ Id(out[k]) # <<0, 0>>
  OBVIOUS
<1>3. \A k \in 1..Len(out) : Id(out[k]) # <<0, 0>> => k \in K
  OBVIOUS
<1>4. (\A k \in 1..Len(out) : Id(out[k]) # <<0, 0>>) => K = 1..Len(out)
  OBVIOUS
<1> HIDE DEF K
<1>5. /\ Pick(out, K) \in Seq(Entry)
      /\ Len(Pick(out, K)) <= Len(out)
      /\ \A j \in 1..Len(Pick(out, K)) :
           Ranked(K)[j] \in K /\ Pick(out, K)[j] = out[Ranked(K)[j]]
  BY <1>1, PickProperties
<1>6. \A j \in 1..Len(Pick(out, K)) :
        /\ Id(Pick(out, K)[j]) # <<0, 0>>
        /\ \E k \in 1..Len(out) : Pick(out, K)[j] = out[k]
  BY <1>2, <1>5
<1>7. ASSUME NEW k \in K PROVE Id(out[k]) \in IdsIn(Pick(out, K))
  <2>1. PICK j \in 1..Len(Pick(out, K)) : Pick(out, K)[j] = out[k]
    BY <1>1, PickKeeps
  <2> QED BY <2>1 DEF IdsIn
<1>8. K = 1..Len(out) => Pick(out, K) = out
  BY PickAll
<1>9. Len(Pick(out, K)) \in Nat
  BY <1>5, LenProperties
<1> QED BY <1>1, <1>3, <1>4, <1>5, <1>6, <1>7, <1>8, <1>9

LEMMA RefreshKeeps ==
  ASSUME IInv, Refresh
  PROVE  IInv'
<1>1. /\ KernelSound /\ SocketSound /\ ScanSound /\ TableSound /\ CleanSound
      /\ scan # None /\ scan.port > Len(Order)
  BY InvariantParts DEF Refresh
<1>2. /\ table' = Numbered(scan.out) /\ view' = Told(table, table')
      /\ scan' = None
      /\ sysfs' = sysfs /\ lastnum' = lastnum /\ attaches' = attaches
      /\ renames' = renames /\ queue' = queue /\ congested' = congested
      /\ error' = error /\ missed' = missed /\ stayed' = stayed
  BY DEF Refresh, kernel, socket
<1>3. /\ scan.out \in Seq(Entry) /\ Len(scan.out) \in 0..MaxDev /\ MaxDev \in Nat
      /\ \A j \in 1..Len(scan.out) : scan.out[j].kind # HubKind
      /\ scan.port - 1 = Len(Order)
  BY <1>1, ScanFacts, OrderFacts DEF ScanSound
<1>4. /\ table' \in Seq(Entry) /\ Len(table') <= Len(scan.out) /\ Len(table') \in Nat
      /\ \A j \in 1..Len(table') :
           /\ Id(table'[j]) # <<0, 0>>
           /\ \E k \in 1..Len(scan.out) : table'[j] = scan.out[k]
  BY <1>2, <1>3, NumberedFacts
<1>5. TableSound'
  <2>1. \A j \in 1..Len(table') : table'[j].kind # HubKind
    BY <1>3, <1>4
  <2>2. DOMAIN view' = AllIds /\ doubled' \subseteq AllIds
    <3>1. DOMAIN view' = AllIds
      BY <1>2 DEF Told
    <3>2. doubled' \subseteq Twice(table') \cup doubled
      BY DEF Refresh
    <3> QED BY <1>1, <3>1, <3>2 DEF TableSound, Twice
  <2>3. Len(table') <= MaxDev
    BY <1>3, <1>4
  <2> QED BY <1>4, <2>1, <2>2, <2>3 DEF TableSound
<1>6. KernelSound' /\ SocketSound' /\ ScanSound'
  BY <1>1, <1>2 DEF KernelSound, SocketSound, ScanSound
<1>7. CleanSound'
  <2>1. ASSUME Clean PROVE Covers(table', sysfs, Len(Order))
    <3>1. Covers(scan.out, sysfs, Len(Order))
      BY <1>1, <1>3, <2>1 DEF CleanSound
    <3>2. \A j \in 1..Len(scan.out) : Id(scan.out[j]) # <<0, 0>>
      <4> SUFFICES ASSUME NEW j \in 1..Len(scan.out)
                   PROVE  Id(scan.out[j]) # <<0, 0>>
        OBVIOUS
      <4> DEFINE K == There(sysfs)
      <4>1. Len(Order) \in Nat /\ K \in SUBSET (1..Len(Order)) /\ Cardinality(K) \in Nat
        BY OrderFacts, ThereFacts
      <4>2. Taken(sysfs, Len(Order)) = K
        BY <4>1, RankEnds DEF Taken
      <4>3. Len(scan.out) = Min({MaxDev, Cardinality(K)})
        BY <3>1, <4>2 DEF Covers
      <4>4. j \in 1..Cardinality(K) /\ j <= MaxDev
        BY <4>1, <4>3, <1>3, MinOfTwo
      <4>5. PICK k \in K : Cardinality(UpTo(K, k)) = j
        <5> HIDE DEF K
        <5> QED BY <4>1, <4>4, RankExists
      <4>6. Tells(scan.out[j], sysfs[Order[k]])
        BY <3>1, <4>2, <4>4, <4>5 DEF Covers, Taken
      <4> QED BY <4>6 DEF Tells, Id
    <3>3. Numbered(scan.out) = scan.out
      BY <1>3, <3>2, NumberedFacts
    <3> QED BY <1>2, <3>1, <3>3
  <2> QED BY <2>1, <1>2 DEF CleanSound, Clean
<1> QED BY <1>2, <1>5, <1>6, <1>7 DEF IInv

(* The main loop. *)
LEMMA RecvFailsKeeps ==
  ASSUME IInv, RecvFails
  PROVE  IInv'
<1>1. /\ scan = None /\ scan' = scan /\ table' = table /\ view' = view /\ doubled' = doubled
      /\ sysfs' = sysfs /\ lastnum' = lastnum /\ attaches' = attaches
      /\ renames' = renames /\ queue' = queue /\ congested' = congested
      /\ error' = FALSE /\ missed' = missed /\ stayed' = stayed
  BY DEF RecvFails, kernel, daemon
<1>2. KernelSound' /\ SocketSound' /\ ScanSound' /\ TableSound'
  BY <1>1 DEF IInv, KernelSound, SocketSound, ScanSound, TableSound
<1>3. CleanSound'
  BY <1>1 DEF IInv, CleanSound, Clean
<1> QED BY <1>1, <1>2, <1>3 DEF IInv

LEMMA BeginFacts ==
  /\ Begin \in Scanning /\ Begin # None /\ Begin.port = 1 /\ Begin.reads = "access"
  /\ Begin.out = <<>> /\ Len(Begin.out) = 0
<1>1. 1 \in 1..Len(Order) + 1
  BY OrderFacts
<1>2. <<>> \in Seq(Nat) /\ <<>> \in Seq(Entry) /\ Len(<<>>) = 0
  OBVIOUS
<1>3. Begin \in Scanning
  BY <1>1, <1>2 DEF Begin, Scanning
<1>4. Begin.port = 1 /\ Begin.reads = "access" /\ Begin.out = <<>>
  BY DEF Begin
<1> QED BY <1>2, <1>3, <1>4, NoneIsNothing

(* A scan that begins has found nothing yet, and nothing is wrong with it. *)
LEMMA BeginSound ==
  ASSUME KernelSound, scan = Begin
  PROVE  /\ ScanSound /\ (Room => Found)
         /\ CleanSound
<1>1. MaxDev \in Nat
  BY EnumerationAssumption
<1>2. ScanSound
  BY <1>1, BeginFacts DEF ScanSound
<1>3. Found
  <2>1. UpTo(Free, scan.port - 1) = {}
    <3>1. scan.port - 1 = 0
      BY BeginFacts
    <3> QED BY <3>1, OrderFacts, RankEnds
  <2>2. Cardinality(UpTo(Free, scan.port - 1)) = 0
    BY <2>1, FS_EmptySet
  <2>3. \A k \in There(sysfs) : ~(k < scan.port)
    BY BeginFacts, ThereFacts
  <2> QED BY <2>2, <2>3, BeginFacts DEF Found
<1>4. CleanSound
  <2>1. scan.port - 1 = 0
    BY BeginFacts
  <2>2. Covers(scan.out, sysfs, scan.port - 1)
    BY <2>1, BeginFacts, CoversNothing
  <2> QED BY <2>2, BeginFacts DEF CleanSound
<1> QED BY <1>2, <1>3, <1>4


LEMMA Recv1Keeps ==
  ASSUME IInv, Recv1
  PROVE  IInv'
<1>1. /\ KernelSound /\ SocketSound /\ ScanSound /\ TableSound /\ CleanSound
      /\ scan = None /\ queue # <<>>
  BY DEF IInv, Recv1
<1>2. /\ queue' = Tail(queue)
      /\ congested' = (congested /\ Len(queue) > 1)
      /\ sysfs' = sysfs /\ lastnum' = lastnum /\ attaches' = attaches
      /\ renames' = renames /\ error' = error /\ table' = table /\ view' = view /\ doubled' = doubled
  BY DEF Recv1, Pops, kernel
<1>3. /\ queue \in Seq({"usb", "net"}) /\ Head(queue) \in {"usb", "net"}
      /\ queue' \in Seq({"usb", "net"}) /\ Len(queue') = Len(queue) - 1
      /\ Len(queue) \in Nat /\ Len(queue) > 0 /\ Len(queue) <= QueueLen
      /\ queue[1] = Head(queue)
      /\ \A k \in 1..Len(queue) - 1 : queue'[k] = queue[k + 1]
  BY <1>1, <1>2 DEF SocketSound
<1>4. congested' \in BOOLEAN
  BY <1>2
<1>5. TableSound'
  BY <1>1, <1>2 DEF TableSound
<1>6. CASE Head(queue) = "usb"
  <2>1. scan' = Begin /\ missed' = FALSE /\ stayed' = NumsOf(sysfs)
    BY <1>6 DEF Recv1
  <2>2. KernelSound'
    BY <1>1, <1>2, <2>1 DEF KernelSound
  <2>3. SocketSound'
    <3>1. error' \in BOOLEAN /\ missed' \in BOOLEAN
      BY <1>1, <1>2, <2>1 DEF SocketSound
    <3>2. Len(queue') <= QueueLen
      BY <1>3, EnumerationAssumption
    <3> QED BY <1>3, <1>4, <3>1, <3>2 DEF SocketSound
  <2>4. ScanSound'
    BY <2>1, BeginFacts, EnumerationAssumption DEF ScanSound
  <2>5. Found'
    <3>1. UpTo(Free, scan'.port - 1) = {}
      <4>1. scan'.port - 1 = 0
        BY <2>1, BeginFacts
      <4> QED BY <4>1, OrderFacts, RankEnds
    <3>2. Cardinality(UpTo(Free, scan'.port - 1)) = 0
      BY <3>1, FS_EmptySet
    <3>3. \A k \in There(sysfs') : ~(k < scan'.port)
      BY <2>1, BeginFacts, ThereFacts
    <3> QED BY <2>1, <3>2, <3>3, BeginFacts DEF Found
  <2>6. CleanSound'
    <3>1. scan'.port - 1 = 0
      BY <2>1, BeginFacts
    <3>2. Covers(scan'.out, sysfs', scan'.port - 1)
      BY <2>1, <3>1, BeginFacts, CoversNothing
    <3> QED BY <2>1, <3>2, BeginFacts DEF CleanSound
  <2> QED BY <1>5, <2>2, <2>3, <2>4, <2>5, <2>6 DEF IInv
<1>7. CASE Head(queue) # "usb"
  <2>1. scan' = None /\ missed' = missed /\ stayed' = stayed
    BY <1>1, <1>7 DEF Recv1
  <2>2. KernelSound' /\ ScanSound'
    BY <1>1, <1>2, <2>1 DEF KernelSound, ScanSound
  <2>3. SocketSound'
    BY <1>1, <1>2, <1>3, <1>4, <2>1, EnumerationAssumption DEF SocketSound
  <2>4. CleanSound'
    <3>1. ASSUME Clean' PROVE Clean
      <4>1. \A k \in 1..Len(queue) : k = 1 \/ (k - 1 \in 1..Len(queue) - 1 /\ k = (k - 1) + 1)
        BY <1>3
      <4>2. \A k \in 1..Len(queue) : queue[k] # "usb"
        BY <4>1, <1>3, <1>7, <3>1 DEF Clean
      <4> QED BY <2>1, <3>1, <4>2 DEF Clean
    <3> QED BY <3>1, <1>1, <1>2, <2>1 DEF CleanSound
  <2> QED BY <1>5, <2>1, <2>2, <2>3, <2>4 DEF IInv
<1> QED BY <1>6, <1>7

(* A device that has just been plugged in.                                 *)
LEMMA NewDevice ==
  ASSUME NEW desc \in Descs \cup {HubDesc}, NEW num \in 1..Nums
  PROVE  /\ Device(desc, num) \in Attached
         /\ Device(desc, num).desc = desc /\ Device(desc, num).num = num
         /\ Len(Device(desc, num).ifaces) = Len(desc.classes)
<1> DEFINE dev == Device(desc, num)
<1>1. desc.classes \in Seq(Classes) /\ Len(desc.classes) \in Nat
  <2>1. HubDesc.classes = <<>> /\ <<>> \in Seq(Classes)
    BY DEF HubDesc
  <2>2. desc.classes \in Seq(Classes)
    BY <2>1, EnumerationAssumption
  <2> QED BY <2>2
<1>2. dev = [desc |-> desc, num |-> num, leaving |-> FALSE,
             ifaces |-> [i \in 1..Len(desc.classes) |-> None]]
  BY DEF Device
<1>3. /\ [i \in 1..Len(desc.classes) |-> None] \in Seq(Interface \cup {None})
      /\ Len([i \in 1..Len(desc.classes) |-> None]) = Len(desc.classes)
  BY <1>1
<1> HIDE DEF dev
<1>4. /\ dev.desc = desc /\ dev.num = num /\ dev.leaving = FALSE
      /\ dev.ifaces \in Seq(Interface \cup {None})
      /\ Len(dev.ifaces) = Len(desc.classes)
  BY <1>2, <1>3
<1>5. dev \in Attached
  BY <1>2, <1>3, <1>4 DEF Attached
<1> QED BY <1>4, <1>5 DEF dev

LEMMA InitSound ==
  ASSUME Init
  PROVE  IInv
<1>2. KernelSound
  <2>1. 1 \in 1..Nums
    BY EnumerationAssumption
  <2>2. ASSUME NEW p \in Ports, sysfs[p] # None
        PROVE  \E desc \in Descs \cup {HubDesc}, num \in 1..Nums :
                 sysfs[p] = Device(desc, num) /\ (p \notin Hubs => desc \in Descs)
    <3>1. CASE p \in Hubs
      BY <2>1, <3>1 DEF Init
    <3>2. CASE p \notin Hubs
      <4>1. sysfs[p] # Device(HubDesc, 1)
        BY <3>2 DEF Init
      <4>2. sysfs[p] \in {None, Device(HubDesc, 1)} \cup
                         {Device(desc, num) : desc \in Descs, num \in 1..Nums}
        BY DEF Init
      <4> QED BY <2>2, <4>1, <4>2
    <3> QED BY <3>1, <3>2
  <2>3. \A p \in Ports : sysfs[p] \in Attached \cup {None}
    BY <2>2, NewDevice
  <2>4. \A p \in Ports \ Hubs : sysfs[p] # None =>
          /\ sysfs[p].desc \in Descs
          /\ Len(sysfs[p].ifaces) = Len(sysfs[p].desc.classes)
    BY <2>2, NewDevice
  <2>5. sysfs \in [Ports -> Attached \cup {None}]
    BY <2>3 DEF Init
  <2>6. lastnum \in 0..Nums /\ attaches \in 0..Attaches /\ renames \in 0..Renames
        /\ stayed = NumsOf(sysfs)
    BY EnumerationAssumption DEF Init
  <2> QED BY <2>4, <2>5, <2>6 DEF KernelSound
<1>3. SocketSound
  <2>1. <<>> \in Seq({"usb", "net"}) /\ Len(<<>>) = 0
    OBVIOUS
  <2>2. queue = <<>> /\ congested = FALSE /\ error = FALSE /\ missed = FALSE
    BY DEF Init
  <2>3. congested \in BOOLEAN /\ error \in BOOLEAN /\ missed \in BOOLEAN
    BY <2>2
  <2>4. 0 <= QueueLen
    BY EnumerationAssumption
  <2> QED BY <2>1, <2>2, <2>3, <2>4 DEF SocketSound
<1>4. ScanSound /\ (Room => Found) /\ CleanSound
  BY <1>2, BeginSound DEF Init
<1>5. TableSound
  <2>1. <<>> \in Seq(Entry) /\ Len(<<>>) = 0
    OBVIOUS
  <2> QED BY <2>1, EnumerationAssumption DEF TableSound, Init
<1> QED BY <1>2, <1>3, <1>4, <1>5 DEF IInv

LEMMA StepKeeps ==
  ASSUME IInv, [Next]_vars
  PROVE  IInv'
<1>1. ASSUME Kernel PROVE IInv'
  BY <1>1, KernelKeeps
<1>2. ASSUME Access PROVE IInv'
  BY <1>2, AccessKeeps
<1>3. ASSUME ReadIds PROVE IInv'
  BY <1>3, ReadIdsKeeps
<1>4. ASSUME ReadSerial PROVE IInv'
  BY <1>4, ReadSerialKeeps
<1>5. ASSUME ReadBus PROVE IInv'
  BY <1>5, ReadBusKeeps
<1>6. ASSUME ReadNum PROVE IInv'
  BY <1>6, ReadNumKeeps
<1>7. ASSUME ListIfaces PROVE IInv'
  BY <1>7, ListIfacesKeeps
<1>8. ASSUME ReadClass PROVE IInv'
  BY <1>8, ReadClassKeeps
<1>9. ASSUME ReadDriver PROVE IInv'
  BY <1>9, ReadDriverKeeps
<1>10. ASSUME Refresh PROVE IInv'
  BY <1>10, RefreshKeeps
<1>11. ASSUME RecvFails PROVE IInv'
  BY <1>11, RecvFailsKeeps
<1>12. ASSUME Recv1 PROVE IInv'
  BY <1>12, Recv1Keeps
<1>13. ASSUME UNCHANGED vars PROVE IInv'
  <2>1. /\ sysfs' = sysfs /\ lastnum' = lastnum /\ attaches' = attaches
        /\ renames' = renames /\ queue' = queue /\ congested' = congested
        /\ error' = error /\ scan' = scan /\ table' = table /\ view' = view /\ doubled' = doubled
        /\ missed' = missed /\ stayed' = stayed
    BY <1>13 DEF vars, kernel, socket, daemon
  <2>2. KernelSound' /\ SocketSound' /\ ScanSound' /\ TableSound'
    BY <2>1 DEF IInv, KernelSound, SocketSound, ScanSound, TableSound
  <2>3. Room' /\ scan' # None => Found'
    BY <2>1 DEF IInv, Room, Found
  <2>4. CleanSound'
    BY <2>1 DEF IInv, CleanSound, Clean, Partly, Here
  <2> QED BY <2>2, <2>3, <2>4 DEF IInv
<1> QED BY <1>1, <1>2, <1>3, <1>4, <1>5, <1>6, <1>7, <1>8, <1>9, <1>10,
           <1>11, <1>12, <1>13 DEF Next, Daemon, Scans


(* Every reachable state has what is right of a scan: as long as no uevent *)
(* of usb waits or was lost, it is right for ever, and a device that stays *)
(* is found.                                                               *)
THEOREM EnumerationInvariant == Spec => []IInv
<1>1. Init => IInv
  BY InitSound
<1>2. IInv /\ [Next]_vars => IInv'
  BY StepKeeps
<1> QED BY <1>1, <1>2, PTL DEF Spec

-----------------------------------------------------------------------------
(* Variables keep their types, the table keeps its capacity and holds      *)
(* neither a root hub nor the id 0-0 (driverd.c:199), and only devices     *)
(* that are attached count as having stayed.                               *)
THEOREM EnumerationTypes == Spec => []TypeOK
<1>1. IInv => TypeOK
  BY DEF IInv, KernelSound, SocketSound, ScanSound, TableSound, TypeOK
<1> QED BY <1>1, EnumerationInvariant, PTL

-----------------------------------------------------------------------------
(* An entry that tells what a calm device is describes it. *)
LEMMA ByFlags ==
  /\ \A c : ByClass(c) \subseteq Flags
  /\ \A r : ByDriver(r) \subseteq Flags
  /\ \A k : Accessory(k) \subseteq Flags
  /\ \A e \in Entry : e.flags \subseteq Flags
<1>1. \A c : ByClass(c) \subseteq Flags
  BY DEF ByClass, Flags
<1>2. \A r : ByDriver(r) \subseteq Flags
  BY DEF ByDriver, Flags, Classes
<1>3. \A k : Accessory(k) \subseteq Flags
  BY DEF Accessory, Flags
<1>4. \A e \in Entry : e.flags \subseteq Flags
  BY DEF Entry, Flags
<1> QED BY <1>1, <1>2, <1>3, <1>4

LEMMA TellsDescribes ==
  ASSUME NEW dev, Calm(dev), NEW d \in Entry, Tells(d, dev)
  PROVE  Describes(d, dev)
<1> DEFINE l == Len(Listed(dev))
<1>1. /\ d.kind = dev.desc.kind /\ d.serial = Cut(dev.desc.serial, StrLen)
      /\ d.bus = 1 /\ d.num = dev.num
      /\ Reports(d, dev, l, l)
  BY DEF Tells
<1>2. Id(d) = <<1, dev.num>>
  BY <1>1 DEF Id
<1>3. d.ifaces = [k \in 1..l |-> Class(dev, k)]
  BY <1>1 DEF Reports
<1>4. d.flags = UNION ({ByClass(Class(dev, k)) : k \in 1..l} \cup
                       {ByDriver(DriverOf(Class(dev, k))) : k \in Bound(dev, l)} \cup
                       {Accessory(d.kind)})
  <2> DEFINE A == {ByClass(Class(dev, k)) : k \in 1..l}
             B == {ByDriver(DriverOf(Class(dev, k))) : k \in Bound(dev, l)}
             U == UNION (A \cup B \cup {Accessory(d.kind)})
  <2>1. \A f : f \in U <=>
          \/ f \in Accessory(d.kind)
          \/ \E k \in 1..l : f \in ByClass(Class(dev, k))
          \/ \E k \in Bound(dev, l) : f \in ByDriver(DriverOf(Class(dev, k)))
    OBVIOUS
  <2>2. \A f \in Flags : f \in d.flags <=>
          \/ f \in Accessory(d.kind)
          \/ \E k \in 1..l : f \in ByClass(Class(dev, k))
          \/ \E k \in Bound(dev, l) : f \in ByDriver(DriverOf(Class(dev, k)))
    BY <1>1 DEF Reports
  <2>3. U \subseteq Flags /\ d.flags \subseteq Flags
    BY <2>1, ByFlags
  <2> HIDE DEF U
  <2>4. U = d.flags
    BY <2>1, <2>2, <2>3
  <2> QED BY <2>4 DEF U
<1>5. IF Nets(dev, l) = {} THEN d.net = <<>>
      ELSE \/ d.net = NetName(dev.ifaces[Listed(dev)[Min(Nets(dev, l))]])
           \/ d.net = Usb0
  BY <1>1 DEF Reports
<1> QED BY <1>1, <1>2, <1>3, <1>4, <1>5
        DEF Describes, Class, Bound, Nets, Accessory

LEMMA CoversMatches ==
  ASSUME KernelSound, TableSound, Settled, Covers(table, sysfs, Len(Order))
  PROVE  Matches
<1> DEFINE K == There(sysfs)
<1>1. /\ Len(Order) \in Nat /\ Order \in Seq(Ports) /\ K \in SUBSET (1..Len(Order))
      /\ Cardinality(K) \in Nat
  BY OrderFacts, ThereFacts
<1>2. Taken(sysfs, Len(Order)) = K
  BY <1>1, RankEnds DEF Taken
<1>3. Present = Pick(Order, K)
  <2>1. {k \in 1..Len(Order) : Order[k] \in Plugged \ Hubs} = K
    BY OrderFacts DEF There, Free, Positions, Plugged
  <2> QED BY <2>1 DEF Present
<1>4. /\ Len(Present) = Cardinality(K)
      /\ \A j \in 1..Len(Present) :
           Ranked(K)[j] \in K /\ Present[j] = Order[Ranked(K)[j]]
  <2> HIDE DEF K
  <2> QED BY <1>1, <1>3, PickProperties
<1>5. Len(table) = Min({MaxDev, Len(Present)})
  BY <1>2, <1>4 DEF Covers
<1>6. MaxDev \in Nat /\ table \in Seq(Entry)
  BY EnumerationAssumption DEF TableSound
<1>7. ASSUME NEW j \in 1..Len(table)
      PROVE  Describes(table[j], sysfs[Present[j]])
  <2>1. j \in 1..Cardinality(K) /\ j \in 1..Len(Present) /\ j <= MaxDev
    BY <1>1, <1>4, <1>5, <1>6, MinOfTwo
  <2>2. PICK k \in K : k = Ranked(K)[j] /\ Present[j] = Order[k]
    BY <2>1, <1>4
  <2>3. Cardinality(UpTo(K, k)) = j
    <3> HIDE DEF K
    <3> QED BY <1>1, <2>1, <2>2, RankedIs
  <2>4. Tells(table[j], sysfs[Order[k]])
    BY <1>2, <2>1, <2>2, <2>3 DEF Covers, Taken
  <2>5. Order[k] \in Plugged
    BY OrderFacts DEF There, Plugged
  <2>6. Calm(sysfs[Order[k]])
    BY <2>5 DEF Settled, Calm
  <2>7. table[j] \in Entry
    BY <1>6
  <2> QED BY <2>2, <2>4, <2>6, <2>7, TellsDescribes
<1> QED BY <1>5, <1>7 DEF Matches

(* A daemon with nothing left to do knows sysfs: whatever half-read,       *)
(* half-bound or replaced device a scan picked up was corrected by the     *)
(* scan of a later uevent (uevent.c:125, driverd.c:712 are the exceptions  *)
(* the property names).                                                    *)
THEOREM TableFollowsSysfs == Spec => []TableCatchesUp
<1>1. ASSUME IInv PROVE TableCatchesUp
  <2> SUFFICES ASSUME Idle, Settled, ~missed PROVE Matches
    BY DEF TableCatchesUp
  <2>1. Clean /\ scan = None
    BY DEF Idle, Clean
  <2>2. Covers(table, sysfs, Len(Order))
    BY <1>1, <2>1 DEF IInv, CleanSound
  <2> QED BY <1>1, <2>2, CoversMatches DEF IInv
<1>2. IInv => TableCatchesUp
  BY <1>1
<1> QED BY <1>2, EnumerationInvariant, PTL


-----------------------------------------------------------------------------
(* There is room when there are no more ports than entries. *)
LEMMA RoomForAll ==
  ASSUME Len(Order) - Cardinality(Hubs) <= MaxDev
  PROVE  Room
<1> DEFINE H == {k \in Positions : Order[k] \in Hubs}
           f == [k \in H |-> Order[k]]
<1>1. /\ Len(Order) \in Nat /\ IsFiniteSet(Positions)
      /\ Cardinality(Positions) = Len(Order)
  <2>1. PICK n \in Nat : n = Len(Order)
    BY OrderFacts
  <2>2. IsFiniteSet(1..n) /\ Cardinality(1..n) = n
    BY FS_Interval
  <2> QED BY <2>1, <2>2 DEF Positions
<1>2. H \in SUBSET (1..Len(Order)) /\ H \subseteq Positions
  BY DEF Positions
<1>3. IsFiniteSet(H) /\ Cardinality(H) \in Nat
  <2> HIDE DEF H
  <2> QED BY <1>1, <1>2, FiniteSub
<1>4. IsFiniteSet(Hubs) /\ Cardinality(Hubs) <= Cardinality(H)
  <2>1. f \in [H -> Hubs]
    OBVIOUS
  <2>2. \A p \in Hubs : \E k \in H : f[k] = p
    BY OrderFacts, EnumerationAssumption
  <2>3. f \in Surjection(H, Hubs)
    <3> HIDE DEF f, H
    <3> QED BY <2>1, <2>2 DEF Surjection
  <2> HIDE DEF f, H
  <2> QED BY <2>3, <1>3, FS_Surjection
<1>5. Cardinality(Free) = Len(Order) - Cardinality(H)
  <2>1. Free = Positions \ H
    BY DEF Free
  <2>2. Positions \cap H = H
    BY <1>2
  <2> HIDE DEF H
  <2>3. Cardinality(Positions \ H) = Cardinality(Positions) - Cardinality(Positions \cap H)
    BY <1>1, FS_Difference
  <2> QED BY <1>1, <2>1, <2>2, <2>3
<1>6. Cardinality(Hubs) \in Nat /\ MaxDev \in Nat
  BY <1>4, FS_CardinalityType, EnumerationAssumption
<1> HIDE DEF H
<1> QED BY <1>1, <1>3, <1>4, <1>5, <1>6 DEF Room

(* Only refresh_real ends a scan. *)
LEMMA ScanEnds ==
  ASSUME IInv, Next, scan # None, scan' = None
  PROVE  Refresh
<1>1. ASSUME Kernel PROVE FALSE
  <2>1. KernelStep
    BY <1>1, InvariantParts, KernelSteps
  <2> QED BY <2>1 DEF KernelStep, daemon
<1>2. ~Access /\ ~ReadIds /\ ~ReadSerial /\ ~ReadBus
  BY AccessKeeps, ReadIdsKeeps, ReadSerialKeeps, ReadBusKeeps
<1>3. ~ReadNum /\ ~ListIfaces /\ ~ReadClass /\ ~ReadDriver
  BY ReadNumKeeps, ListIfacesKeeps, ReadClassKeeps, ReadDriverKeeps
<1>4. ~RecvFails /\ ~Recv1
  BY DEF RecvFails, Recv1
<1> QED BY <1>1, <1>2, <1>3, <1>4 DEF Next, Daemon, Scans

(* A device that is there all through a scan is in the table after it,     *)
(* however the devices in the other ports come and go meanwhile            *)
(* (driverd.c:199-233): its session is not ended for nothing.              *)
THEOREM StayersAreKept == Spec => PresentIsKept
<1> DEFINE Stayed == scan # None /\ scan' = None
                     /\ Len(Order) - Cardinality(Hubs) <= MaxDev
                   => \A n \in stayed : <<1, n>> \in IdsIn(table')
<1>1. ASSUME IInv, Next PROVE Stayed
  <2> SUFFICES ASSUME scan # None, scan' = None,
                      Len(Order) - Cardinality(Hubs) <= MaxDev,
                      NEW n \in stayed
               PROVE  <<1, n>> \in IdsIn(table')
    OBVIOUS
  <2>1. Refresh
    BY <1>1, ScanEnds
  <2>2. /\ KernelSound /\ ScanSound /\ Found
        /\ scan.port > Len(Order)
    BY <1>1, <2>1, RoomForAll, InvariantParts DEF Refresh
  <2>3. PICK p \in Ports \ Hubs : sysfs[p] # None /\ sysfs[p].num = n
    BY <2>2 DEF KernelSound, NumsOf
  <2>4. PICK k \in Free : Order[k] = p
    BY OrderFacts
  <2>5. k \in There(sysfs) /\ k < scan.port
    <3>1. k \in 1..Len(Order) /\ Len(Order) \in Nat /\ scan.port \in Nat
      BY <2>2, OrderFacts, ScanFacts
    <3> QED BY <2>2, <2>3, <2>4, <3>1 DEF There
  <2>6. <<1, n>> \in IdsIn(scan.out)
    BY <2>2, <2>3, <2>4, <2>5 DEF Found
  <2>7. PICK j \in 1..Len(scan.out) : Id(scan.out[j]) = <<1, n>>
    BY <2>6 DEF IdsIn
  <2>8. <<1, n>> # <<0, 0>>
    OBVIOUS
  <2>9. Id(scan.out[j]) \in IdsIn(Numbered(scan.out))
    BY <2>2, <2>7, <2>8, ScanFacts, NumberedFacts
  <2> QED BY <2>1, <2>7, <2>9 DEF Refresh
<1>2. IInv /\ [Next]_vars => [Stayed]_vars
  BY <1>1
<1> QED BY <1>2, EnumerationInvariant, PTL DEF Spec, PresentIsKept

-----------------------------------------------------------------------------
(* The code of a character has at most three characters.                   *)
LEMMA WidthBound ==
  ASSUME NEW s \in Seq(Char), NEW k \in 0..Len(s)
  PROVE  Width(s, k) <= 3 * k
<1> DEFINE K == {i \in 1..k : ~Plain(s[i])}
<1>1. k \in Nat /\ IsFiniteSet(1..k) /\ Cardinality(1..k) = k
  BY FS_Interval
<1>2. K \in SUBSET (1..k) /\ Width(s, k) = k + 2 * Cardinality(K)
  BY DEF Width
<1> HIDE DEF K
<1>3. Cardinality(K) \in Nat /\ Cardinality(K) <= k
  BY <1>1, <1>2, FS_Subset, FS_CardinalityType
<1> QED BY <1>1, <1>2, <1>3

(* The driver has room for the codes of every serial number it keeps.      *)
LEMMA SerialIs ==
  ASSUME NEW s \in Serials
  PROVE  s \in Seq(Char) /\ Width(s, Len(s)) < 3 * StrLen
<1>1. StrLen \in Nat \ {0}
  BY EnumerationAssumption
<1>2. s \in Seq(Char) /\ Len(s) < StrLen
  <2>1. CASE s = <<>>
    <3>1. <<>> \in Seq(Char) /\ Len(<<>>) = 0
      OBVIOUS
    <3> QED BY <1>1, <2>1, <3>1
  <2>2. CASE s # <<>>
    <3>1. PICK d \in Descs : s = Cut(d.serial, StrLen)
      BY <2>2 DEF Serials
    <3>2. d.serial \in Seq(Char)
      BY EnumerationAssumption DEF Char
    <3> DEFINE w == d.serial
    <3>3. /\ Cut(w, StrLen) \in Seq(Char)
          /\ Len(Cut(w, StrLen)) = IF Len(w) < StrLen THEN Len(w) ELSE StrLen - 1
      BY <1>1, <3>2, CutIs
    <3> QED BY <1>1, <3>1, <3>3
  <2> QED BY <2>1, <2>2
<1>3. Len(s) \in Nat /\ Len(s) \in 0..Len(s)
  BY <1>2
<1>4. Width(s, Len(s)) \in Nat /\ Width(s, Len(s)) <= 3 * Len(s)
  BY <1>2, <1>3, WidthIs, WidthBound
<1> DEFINE w == Width(s, Len(s))
           l == Len(s)
<1>5. w \in Nat /\ l \in Nat /\ w <= 3 * l /\ l < StrLen
  BY <1>2, <1>3, <1>4
<1> HIDE DEF w, l
<1>6. w < 3 * StrLen
  BY <1>1, <1>5
<1> QED BY <1>2, <1>6 DEF w

(* A plain value of two characters passes through every buffer.            *)
LEMMA TwoPlain ==
  ASSUME NEW a \in Char, NEW b \in Char, Plain(a), Plain(b)
  PROVE  /\ <<a, b>> \in Seq(Char)
         /\ Reaches(<<a, b>>, 3 * NameLen, RawLen, ManNet)
         /\ Cut(<<a, b>>, ManNet) = <<a, b>>
<1> DEFINE s == <<a, b>>
<1>1. s \in Seq(Char) /\ Len(s) = 2 /\ s[1] = a /\ s[2] = b
  OBVIOUS
<1> HIDE DEF s
<1>2. 1 \in 1..Len(s) /\ 2 \in 1..Len(s) /\ 1 - 1 = 0 /\ 2 - 1 = 1
  BY <1>1
<1>3. Width(s, 0) = 0
  BY <1>1, WidthIs
<1>4. Width(s, 1) = 1
  <2>1. Width(s, 1) = Width(s, 1 - 1) + Code(s[1])
    BY <1>1, <1>2, WidthStep
  <2> QED BY <1>1, <1>2, <1>3, <2>1 DEF Code
<1>5. Width(s, 2) = 2
  <2>1. Width(s, 2) = Width(s, 2 - 1) + Code(s[2])
    BY <1>1, <1>2, WidthStep
  <2> QED BY <1>1, <1>2, <1>4, <2>1 DEF Code
<1>6. /\ NameLen \in Nat /\ NameLen > 2 /\ RawLen \in Nat /\ RawLen > 2
      /\ ManNet \in Nat /\ ManNet > 2
  BY EnumerationAssumption
<1>7. Cut(s, ManNet) = s
  BY <1>1, <1>6, NotCut
<1>8. Width(s, Len(s)) = 2 /\ Width(s, Len(Cut(s, ManNet))) = 2
  BY <1>1, <1>5, <1>7
<1>9. Width(s, Len(s)) < 3 * NameLen /\ Width(s, Len(Cut(s, ManNet))) < RawLen
  BY <1>6, <1>8
<1>10. Reaches(s, 3 * NameLen, RawLen, ManNet)
  BY <1>1, <1>9 DEF Reaches
<1> QED BY <1>1, <1>7, <1>10 DEF s

LEMMA NetsReach ==
  ASSUME NEW s \in {<<>>, Usb0, Enx}
  PROVE  /\ s \in Seq(Char) /\ Reaches(s, 3 * NameLen, RawLen, ManNet)
         /\ Kept(s, ManNet) = s
<1>1. CASE s = <<>>
  <2>1. <<>> \in Seq(Char) /\ Len(<<>>) = 0 /\ <<>> # <<Dash>>
    OBVIOUS
  <2>2. Width(<<>>, 0) = 0
    BY <2>1, WidthIs
  <2>3. ManNet \in Nat /\ 0 < ManNet /\ 0 < 3 * NameLen /\ 0 < RawLen
    BY EnumerationAssumption
  <2>4. Cut(<<>>, ManNet) = <<>>
    BY <2>1, <2>3, NotCut
  <2> QED BY <1>1, <2>1, <2>2, <2>3, <2>4 DEF Reaches, Kept
<1>2. CASE s = Usb0
  <2>1. 117 \in Char /\ 48 \in Char /\ Plain(117) /\ Plain(48)
    BY DEF Char, Plain
  <2>2. <<117, 48>> # <<Dash>>
    OBVIOUS
  <2> QED BY <1>2, <2>1, <2>2, TwoPlain DEF Usb0, Kept
<1>3. CASE s = Enx
  <2>1. 101 \in Char /\ 110 \in Char /\ Plain(101) /\ Plain(110)
    BY DEF Char, Plain
  <2>2. <<101, 110>> # <<Dash>>
    OBVIOUS
  <2> QED BY <1>3, <2>1, <2>2, TwoPlain DEF Enx, Kept
<1> QED BY <1>1, <1>2, <1>3

(* What a subscriber reads of a dev line is what the entry says, as far as *)
(* it has room for it.                                                     *)
Says(v, d) == /\ v # None
              /\ v.kind = d.kind /\ v.flags = d.flags /\ v.net = d.net
              /\ Clear(d.serial) => v.serial = Reading(d.serial)

LEMMA ParsedSays ==
  ASSUME NEW d \in Entry
  PROVE  Says(Parsed(d), d)
<1> DEFINE s == d.serial
           r == d.net
           n == 3 * StrLen
           p == 3 * NameLen
           a == 115
           b == 110
           line == Fields(a, Escape(s, n), b, Escape(r, p))
<1>1. s \in Serials /\ r \in {<<>>, Usb0, Enx} /\ d.kind \in Kinds
      /\ d.flags \in SUBSET (Classes \cup {"accessory", "ipheth"})
  BY DEF Entry
<1>2. FormatDev(d) = line
  BY DEF FormatDev, SerialKey, NetKey, Fields
<1> HIDE DEF s, r
<1>3. s \in Seq(Char) /\ Width(s, Len(s)) < n
  BY <1>1, SerialIs
<1>4. /\ r \in Seq(Char) /\ Reaches(r, p, RawLen, ManNet)
      /\ Kept(r, ManNet) = r
  BY <1>1, NetsReach
<1>5. /\ a \in Char /\ b \in Char /\ a # b /\ a # SP
      /\ RawLen \in Nat /\ RawLen > 2
      /\ n \in Nat \ {0} /\ ManStr \in Nat \ {0}
      /\ p \in Nat \ {0} /\ ManNet \in Nat \ {0}
  BY EnumerationAssumption DEF Char, SP
<1> HIDE DEF n, p, a, b
<1>6. /\ Take(line, <<a>>, RawLen, ManStr) \in Seq(Char)
      /\ Reaches(s, n, RawLen, ManStr)
           => Take(line, <<a>>, RawLen, ManStr) = Kept(s, ManStr)
      /\ Take(line, <<b>>, RawLen, ManNet) = r
  <2>1. Returns(line, <<a>>, s, n, RawLen, ManStr)
    BY <1>3, <1>4, <1>5, FieldsTaken
  <2>2. Returns(line, <<b>>, r, p, RawLen, ManNet)
    BY <1>3, <1>4, <1>5, FieldsTaken
  <2> HIDE DEF line
  <2> QED BY <1>4, <2>1, <2>2 DEF Returns
<1> HIDE DEF line
<1>7. /\ Parsed(d).kind = d.kind /\ Parsed(d).flags = d.flags
      /\ Parsed(d).serial = Take(line, <<a>>, RawLen, ManStr)
      /\ Parsed(d).net = Take(line, <<b>>, RawLen, ManNet)
      /\ Parsed(d) = [kind |-> Parsed(d).kind, flags |-> Parsed(d).flags,
                      serial |-> Parsed(d).serial, net |-> Parsed(d).net]
  BY <1>2 DEF Parsed, SerialKey, NetKey, a, b
<1>8. Clear(s) => Parsed(d).serial = Reading(s)
  BY <1>3, <1>6, <1>7 DEF Clear, Reaches, Reading, Kept
<1>9. Parsed(d) # None
  <2>1. Parsed(d).serial \in Seq(1..255) /\ Parsed(d).net \in Seq(1..255)
    BY <1>4, <1>6, <1>7 DEF Char
  <2>2. Parsed(d) \in Line
    BY <1>1, <1>7, <2>1 DEF Line
  <2> QED BY <2>2, NoneIsNothing
<1> QED BY <1>6, <1>7, <1>8, <1>9 DEF Says, s, r

-----------------------------------------------------------------------------
(* The view v follows the table t, but for the ids in dbl.                 *)
Follows(v, t, dbl) ==
  /\ \A id \in AllIds : id \notin IdsIn(t) => v[id] = None
  /\ \A k \in 1..Len(t) : t[k].num # 0 /\ Id(t[k]) \notin dbl =>
                            Says(v[Id(t[k])], t[k])

LEMMA FollowsIs == ViewFollowsTable <=> Follows(view, table, doubled)
BY DEF ViewFollowsTable, Follows, Says

LEMMA FirstIs ==
  ASSUME NEW t \in Seq(Entry), NEW id \in IdsIn(t)
  PROVE  \E m \in 1..Len(t) : First(t, id) = t[m] /\ Id(t[m]) = id
<1> DEFINE T == {m \in 1..Len(t) : Id(t[m]) = id}
<1>1. T \in SUBSET Nat /\ T # {} /\ First(t, id) = t[Min(T)]
  BY DEF IdsIn, First
<1>2. Min(T) \in T
  BY <1>1, MinIs
<1> QED BY <1>1, <1>2

(* The lines of a refresh bring the view up to date, whatever the table    *)
(* was, but for the ids that are doubled in the new one and those that      *)
(* were and of which no line tells.                                        *)
LEMMA ToldFollows ==
  ASSUME NEW dbl, Follows(view, table, dbl), table \in Seq(Entry),
         NEW next \in Seq(Entry), NEW left,
         Twice(next) \subseteq left,
         \A id \in dbl \cap IdsIn(next) : LinesOf(table, next, id) = {} => id \in left
  PROVE  Follows(Told(table, next), next, left)
<1> DEFINE lines(id) == LinesOf(table, next, id)
           v == Told(table, next)
<1>1. \A id \in AllIds :
        v[id] = IF lines(id) # {} THEN Parsed(next[Max(lines(id))])
                ELSE IF id \in IdsIn(table) \ IdsIn(next) THEN None ELSE view[id]
  BY DEF Told
<1>2. \A id : lines(id) \subseteq {k \in 1..Len(next) : Id(next[k]) = id}
  BY DEF Emits, LinesOf
<1>3. \A k : k \in Emits(table, next) <=> k \in lines(Id(next[k]))
  BY DEF LinesOf
<1>4. \A id \in dbl \cap IdsIn(next) : lines(id) = {} => id \in left
  OBVIOUS
<1> HIDE DEF lines, v
<1>5. ASSUME NEW id \in AllIds, id \notin IdsIn(next)
      PROVE  v[id] = None
  <2>1. lines(id) = {}
    BY <1>2, <1>5 DEF IdsIn
  <2>2. CASE id \in IdsIn(table)
    BY <1>1, <1>5, <2>1, <2>2
  <2>3. CASE id \notin IdsIn(table)
    <3>1. v[id] = view[id]
      BY <1>1, <2>1, <2>3
    <3> QED BY <2>3, <3>1 DEF Follows
  <2> QED BY <2>2, <2>3
<1>6. ASSUME NEW k \in 1..Len(next), next[k].num # 0, Id(next[k]) \notin left
      PROVE  Says(v[Id(next[k])], next[k])
  <2> DEFINE id == Id(next[k])
             d == next[k]
  <2>1. d \in Entry /\ d.num # 0
    BY <1>6
  <2>2. id \in AllIds /\ id \in IdsIn(next)
    BY <2>1 DEF AllIds, Id, Entry, IdsIn
  <2>3. \A j \in 1..Len(next) : Id(next[j]) = id => j = k
    BY <1>6, <2>2 DEF Twice
  <2>4. lines(id) \subseteq {k}
    BY <1>2, <2>3
  <2>5. ASSUME k \in Emits(table, next) PROVE Says(v[id], d)
    <3>1. lines(id) = {k}
      BY <1>3, <2>4, <2>5
    <3>2. Max(lines(id)) = k
      <4>1. k \in Int /\ lines(id) \in SUBSET Int /\ \A y \in lines(id) : y <= k
        BY <3>1
      <4> QED BY <3>1, <4>1, MaxIs
    <3>3. v[id] = Parsed(d)
      BY <1>1, <2>2, <3>1, <3>2
    <3> QED BY <2>1, <3>3, ParsedSays
  <2>6. ASSUME k \notin Emits(table, next) PROVE Says(v[id], d)
    <3>1. id \in IdsIn(table) /\ SamePayload(First(table, id), d)
      BY <2>6 DEF Emits
    <3>2. lines(id) = {}
      BY <1>3, <2>4, <2>6
    <3>3. v[id] = view[id] /\ id \notin dbl
      BY <1>1, <1>4, <1>6, <2>2, <3>2
    <3>4. PICK m \in 1..Len(table) : First(table, id) = table[m] /\ Id(table[m]) = id
      BY <3>1, FirstIs
    <3>5. table[m].num # 0
      BY <2>1, <3>4 DEF Id
    <3>6. Says(view[id], table[m])
      BY <3>3, <3>4, <3>5 DEF Follows
    <3>7. SamePayload(table[m], d)
      BY <3>1, <3>4
    <3> QED BY <3>3, <3>6, <3>7 DEF Says, SamePayload
  <2> QED BY <2>5, <2>6
<1> QED BY <1>5, <1>6 DEF Follows, v

(* Only a refresh changes the table, and sends lines.                      *)
LEMMA OnlyRefresh ==
  ASSUME IInv, [Next]_vars, ~Refresh
  PROVE  UNCHANGED <<table, view, doubled>>
<1>1. ASSUME Kernel PROVE UNCHANGED <<table, view, doubled>>
  <2>1. KernelStep
    BY <1>1, InvariantParts, KernelSteps
  <2> QED BY <2>1 DEF KernelStep, daemon
<1>2. ASSUME Scans PROVE UNCHANGED <<table, view, doubled>>
  BY <1>2 DEF Scans, Access, ReadIds, ReadSerial, ReadBus, ReadNum, ListIfaces,
              ReadClass, ReadDriver, Goes
<1>3. ASSUME RecvFails PROVE UNCHANGED <<table, view, doubled>>
  BY <1>3 DEF RecvFails, daemon
<1>4. ASSUME Recv1 PROVE UNCHANGED <<table, view, doubled>>
  BY <1>4 DEF Recv1, Pops
<1>5. ASSUME UNCHANGED vars PROVE UNCHANGED <<table, view, doubled>>
  BY <1>5 DEF vars, daemon
<1> QED BY <1>1, <1>2, <1>3, <1>4, <1>5 DEF Next, Daemon

LEMMA ViewKeeps ==
  ASSUME IInv, ViewFollowsTable, [Next]_vars
  PROVE  ViewFollowsTable'
<1>1. ASSUME ~Refresh PROVE ViewFollowsTable'
  BY <1>1, OnlyRefresh DEF ViewFollowsTable
<1>2. ASSUME Refresh PROVE ViewFollowsTable'
  <2> DEFINE next == Numbered(scan.out)
             left == Twice(next) \cup {id \in doubled \cap IdsIn(next) :
                                         LinesOf(table, next, id) = {}}
  <2>1. /\ scan # None /\ table' = next /\ view' = Told(table, next)
        /\ doubled' = left
    BY <1>2 DEF Refresh
  <2>2. scan.out \in Seq(Entry) /\ table \in Seq(Entry)
    BY <2>1, InvariantParts, ScanFacts DEF TableSound
  <2>3. next \in Seq(Entry)
    BY <2>2, NumberedFacts
  <2>4. /\ Twice(next) \subseteq left
        /\ \A id \in doubled \cap IdsIn(next) :
             LinesOf(table, next, id) = {} => id \in left
    OBVIOUS
  <2> HIDE DEF next, left
  <2>5. Follows(view, table, doubled)
    BY FollowsIs
  <2>6. Follows(view', table', doubled')
    BY <2>1, <2>2, <2>3, <2>4, <2>5, ToldFollows
  <2> QED BY <2>6 DEF ViewFollowsTable, Follows, Says
<1> QED BY <1>1, <1>2

(* A subscriber knows the table (driverd.c:205-233), whatever the strings  *)
(* contain, whatever the sizes of the buffers and however the kernel's      *)
(* changes interleave with the scans: numbers may be given again any time. *)
THEOREM ViewIsTable == Spec => []ViewFollowsTable
<1>1. Init => ViewFollowsTable
  <2>1. Len(<<>>) = 0
    OBVIOUS
  <2> QED BY <2>1 DEF Init, ViewFollowsTable
<1>2. IInv /\ ViewFollowsTable /\ [Next]_vars => ViewFollowsTable'
  BY ViewKeeps
<1> QED BY <1>1, <1>2, EnumerationInvariant, PTL DEF Spec

-----------------------------------------------------------------------------
(* The steps of a scan, as far as numbers go: it passes over a port, it    *)
(* stays with a device whose number it knows, it learns the number, or it  *)
(* adds the device to what it found.                                       *)
Knows == {"list", "class", "driver"}

Passes == /\ scan'.out = scan.out /\ scan'.port >= scan.port
          /\ scan'.reads \notin Knows

Stays == /\ scan'.out = scan.out /\ scan'.port = scan.port
         /\ scan.reads \in Knows /\ scan'.dev.num = scan.dev.num

Learns == /\ scan'.out = scan.out /\ scan'.port = scan.port /\ Reads("num")
          /\ scan'.dev.num = IF Here = None THEN 0 ELSE Here.num

Adds == /\ scan.reads \in Knows /\ scan'.reads \notin Knows
        /\ scan'.port = scan.port + 1
        /\ Len(scan'.out) = Len(scan.out) + 1
        /\ \A j \in 1..Len(scan.out) : scan'.out[j] = scan.out[j]
        /\ scan'.out[Len(scan.out) + 1].num = scan.dev.num

LEMMA Appending ==
  ASSUME NEW q \in Seq(Entry), NEW d
  PROVE  /\ Len(Append(q, d)) = Len(q) + 1
         /\ \A j \in 1..Len(q) : Append(q, d)[j] = q[j]
         /\ Append(q, d)[Len(q) + 1] = d
OBVIOUS

LEMMA IfaceStep ==
  ASSUME IInv, scan # None, scan.reads \in Knows, NEW d,
         d.kind # HubKind, d.num = scan.dev.num, NEW todo,
         scan' = NextIface(d, todo)
  PROVE  Stays \/ Adds
<1>1. scan \in Scanning /\ scan.port \in 1..Len(Order) /\ scan.out \in Seq(Entry)
  <2>1. ScanSound /\ scan.reads # "access"
    BY InvariantParts DEF Knows
  <2> QED BY <2>1, ScanFacts, OrderFacts
<1>2. CASE todo = <<>>
  <2>1. scan' = Finish(d)
    BY <1>2 DEF NextIface
  <2>2. /\ scan'.port = scan.port + 1 /\ scan'.reads = "access"
        /\ scan'.out = Counted(scan.out, d)
    BY <1>1, <2>1, NextPortFacts
  <2>3. scan'.out = Append(scan.out, d)
    BY <2>2 DEF Counted
  <2> QED BY <1>1, <2>2, <2>3, Appending DEF Adds, Knows
<1>3. CASE todo # <<>>
  <2>1. scan' = [scan EXCEPT !.reads = "class", !.todo = todo, !.dev = d]
    BY <1>3 DEF NextIface
  <2>2. scan'.out = scan.out /\ scan'.port = scan.port /\ scan'.dev = d
    BY <1>1, <2>1 DEF Scanning
  <2> QED BY <2>2 DEF Stays
<1> QED BY <1>2, <1>3

LEMMA ScanStep ==
  ASSUME IInv, Scans, ~Refresh
  PROVE  /\ scan # None /\ scan' # None /\ UNCHANGED <<kernel, stayed>>
         /\ Passes \/ Stays \/ Learns \/ Adds
<1>1. scan # None /\ UNCHANGED <<kernel, stayed>>
  BY DEF Scans, Access, ReadIds, ReadSerial, ReadBus, ReadNum, ListIfaces,
         ReadClass, ReadDriver, Reads, Goes
<1>2. scan' # None
  BY AccessKeeps, ReadIdsKeeps, ReadSerialKeeps, ReadBusKeeps, ReadNumKeeps,
     ListIfacesKeeps, ReadClassKeeps, ReadDriverKeeps DEF Scans
<1>3. /\ scan \in Scanning /\ Len(Order) \in Nat /\ scan.port \in 1..Len(Order) + 1
      /\ scan.port \in Nat /\ scan.out \in Seq(Entry)
  BY <1>1, InvariantParts, ScanFacts, OrderFacts
<1>4. ASSUME scan.reads # "access"
      PROVE  scan.dev \in Entry /\ scan.dev.kind # HubKind
  BY <1>1, <1>4, InvariantParts, ScanFacts DEF ScanSound
<1>5. ASSUME Access PROVE Passes
  <2>1. scan.port \in 1..Len(Order) /\ scan.reads = "access"
    BY <1>3, <1>5 DEF Access, Reads
  <2>2. CASE Here = None
    <3>1. scan' = NextPort
      BY <1>5, <2>2 DEF Access, Goes
    <3>2. /\ scan'.port = scan.port + 1 /\ scan'.reads = "access"
          /\ scan'.out = scan.out
      BY <1>3, <2>1, <3>1, NextPortFacts
    <3> QED BY <1>3, <3>2 DEF Passes, Knows
  <2>3. CASE Here # None /\ Len(scan.out) >= MaxDev
    <3>1. scan' = [scan EXCEPT !.port = Len(Order) + 1]
      BY <1>5, <2>3 DEF Access, Goes
    <3>2. /\ scan'.port = Len(Order) + 1 /\ scan'.reads = scan.reads
          /\ scan'.out = scan.out
      BY <1>3, <3>1 DEF Scanning
    <3> QED BY <1>3, <2>1, <3>2 DEF Passes, Knows
  <2>4. CASE Here # None /\ ~(Len(scan.out) >= MaxDev) /\ Order[scan.port] \in Hubs
    <3> DEFINE d == [Blank EXCEPT !.kind = HubKind]
    <3>1. scan' = Finish(d) /\ d.kind = HubKind
      BY <1>5, <2>4, BlankFacts DEF Access, Goes
    <3> HIDE DEF d
    <3>2. Counted(scan.out, d) = scan.out
      BY <3>1 DEF Counted
    <3>3. /\ scan'.port = scan.port + 1 /\ scan'.reads = "access"
          /\ scan'.out = scan.out
      BY <1>3, <2>1, <3>1, <3>2, NextPortFacts
    <3> QED BY <1>3, <3>3 DEF Passes, Knows
  <2>5. CASE Here # None /\ ~(Len(scan.out) >= MaxDev) /\ Order[scan.port] \notin Hubs
    <3>1. scan' = [scan EXCEPT !.reads = "ids", !.dev = Blank]
      BY <1>5, <2>5 DEF Access, Goes
    <3>2. scan'.port = scan.port /\ scan'.reads = "ids" /\ scan'.out = scan.out
      BY <1>3, <3>1 DEF Scanning
    <3> QED BY <1>3, <3>2 DEF Passes, Knows
  <2> QED BY <2>2, <2>3, <2>4, <2>5
<1>6. ASSUME ReadIds PROVE Passes
  <2> DEFINE x == IF Here = None THEN NoKind ELSE Here.desc.kind
  <2>1. scan' = [scan EXCEPT !.reads = "serial", !.dev.kind = x]
    BY <1>6 DEF ReadIds, Goes
  <2> HIDE DEF x
  <2>2. scan'.port = scan.port /\ scan'.reads = "serial" /\ scan'.out = scan.out
    BY <1>3, <2>1 DEF Scanning
  <2> QED BY <1>3, <2>2 DEF Passes, Knows
<1>7. ASSUME ReadSerial PROVE Passes
  <2> DEFINE x == IF Here = None THEN <<>> ELSE Cut(Here.desc.serial, StrLen)
  <2>1. scan' = [scan EXCEPT !.reads = "bus", !.dev.serial = x]
    BY <1>7 DEF ReadSerial, Goes
  <2> HIDE DEF x
  <2>2. scan'.port = scan.port /\ scan'.reads = "bus" /\ scan'.out = scan.out
    BY <1>3, <2>1 DEF Scanning
  <2> QED BY <1>3, <2>2 DEF Passes, Knows
<1>8. ASSUME ReadBus PROVE Passes
  <2> DEFINE x == IF Here = None THEN 0 ELSE 1
  <2>1. scan' = [scan EXCEPT !.reads = "num", !.dev.bus = x]
    BY <1>8 DEF ReadBus, Goes
  <2> HIDE DEF x
  <2>2. scan'.port = scan.port /\ scan'.reads = "num" /\ scan'.out = scan.out
    BY <1>3, <2>1 DEF Scanning
  <2> QED BY <1>3, <2>2 DEF Passes, Knows
<1>9. ASSUME ReadNum PROVE Learns
  <2> DEFINE n == IF Here = None THEN 0 ELSE Here.num
             f == IF scan.dev.kind \in AccKinds THEN {"accessory"} ELSE {}
  <2>1. scan' = [scan EXCEPT !.reads = "list", !.dev.num = n, !.dev.flags = f]
    BY <1>9 DEF ReadNum, Goes
  <2>2. Reads("num") /\ scan.dev \in Entry
    BY <1>4, <1>9 DEF ReadNum, Reads
  <2> HIDE DEF n, f
  <2>3. scan'.port = scan.port /\ scan'.out = scan.out /\ scan'.dev.num = n
    BY <1>3, <2>1, <2>2 DEF Scanning, Entry
  <2> QED BY <2>2, <2>3 DEF Learns, n
<1>10. ASSUME ListIfaces PROVE Stays \/ Adds
  <2> DEFINE t == IF Here = None THEN <<>> ELSE Listed(Here)
  <2>1. scan' = NextIface(scan.dev, t)
    BY <1>10 DEF ListIfaces, Goes
  <2>2. scan.reads = "list"
    BY <1>10 DEF ListIfaces, Reads
  <2>3. scan.reads \in Knows /\ scan.dev.kind # HubKind
    BY <1>4, <2>2 DEF Knows
  <2> HIDE DEF t
  <2> QED BY <1>1, <2>1, <2>3, IfaceStep
<1>11. ASSUME ReadClass PROVE Stays
  <2> DEFINE i == Head(scan.todo)
             c == IF Iface(i) = None THEN "none" ELSE Here.desc.classes[i]
             f == ByClass(c)
  <2>1. scan' = [scan EXCEPT !.reads = "driver",
                             !.dev.ifaces = Append(@, c),
                             !.dev.flags = @ \cup f]
    BY <1>11 DEF ReadClass, Goes
  <2>2. scan.reads = "class" /\ scan.dev \in Entry
    BY <1>4, <1>11 DEF ReadClass, Reads
  <2> HIDE DEF f, c, i
  <2>3. /\ scan'.port = scan.port /\ scan'.out = scan.out
        /\ scan'.dev.num = scan.dev.num
    BY <1>3, <2>1, <2>2 DEF Scanning, Entry
  <2> QED BY <2>2, <2>3 DEF Stays, Knows
<1>12. ASSUME ReadDriver PROVE Stays \/ Adds
  <2> DEFINE i == Head(scan.todo)
             bound == /\ Iface(i) # None
                      /\ Iface(i).stage # "added"
             driver == IF bound THEN DriverOf(Here.desc.classes[i]) ELSE ""
             net == IF bound /\ HasNet(Here.desc.classes[i])
                    THEN NetName(Iface(i)) ELSE <<>>
             f == scan.dev.flags \cup ByDriver(driver)
             n == IF scan.dev.net = <<>> THEN net ELSE scan.dev.net
             d == [scan.dev EXCEPT !.flags = f, !.net = n]
             t == Tail(scan.todo)
  <2>1. scan.reads = "driver" /\ scan' = NextIface(d, t)
    BY <1>12 DEF ReadDriver, Reads, Goes
  <2>2. scan.reads \in Knows /\ scan.dev \in Entry /\ scan.dev.kind # HubKind
    BY <1>4, <2>1 DEF Knows
  <2> HIDE DEF f, n, t
  <2>3. d.num = scan.dev.num /\ d.kind # HubKind
    BY <2>2 DEF Entry
  <2> HIDE DEF d
  <2> QED BY <1>1, <2>1, <2>2, <2>3, IfaceStep
<1> QED BY <1>1, <1>2, <1>5, <1>6, <1>7, <1>8, <1>9, <1>10, <1>11, <1>12
        DEF Scans

-----------------------------------------------------------------------------
(* The kernel gives no number that is in use, so no two devices have the    *)
(* same, and the device in the port p is the only one that may get a new   *)
(* number in a step.                                                       *)
NumsDiffer ==
  \A j, k \in There(sysfs) :
    sysfs[Order[j]].num = sysfs[Order[k]].num => j = k

Gives(p) ==
  \A k \in There(sysfs') :
    \/ k \in There(sysfs) /\ sysfs'[Order[k]].num = sysfs[Order[k]].num
    \/ Order[k] = p /\ sysfs'[Order[k]].num \notin NumsOf(sysfs)

LEMMA AttachGives ==
  ASSUME KernelSound, NEW p \in Ports, NEW desc \in Descs, Attach(p, desc)
  PROVE  Gives(p)
<1>1. sysfs' = [sysfs EXCEPT ![p] = Device(desc, lastnum')]
      /\ lastnum' \notin NumsOf(sysfs)
  BY DEF Attach, Changes
<1>2. /\ sysfs'[p] = Device(desc, lastnum')
      /\ \A q \in Ports : q # p => sysfs'[q] = sysfs[q]
  BY <1>1 DEF KernelSound
<1>3. sysfs'[p].num = lastnum'
  BY <1>2 DEF Device
<1> SUFFICES ASSUME NEW k \in There(sysfs')
             PROVE  \/ k \in There(sysfs) /\ sysfs'[Order[k]].num = sysfs[Order[k]].num
                    \/ Order[k] = p /\ sysfs'[Order[k]].num \notin NumsOf(sysfs)
  BY DEF Gives
<1>4. k \in Free /\ Order[k] \in Ports /\ sysfs'[Order[k]] # None
  BY OrderFacts DEF There
<1>5. CASE Order[k] = p
  BY <1>1, <1>3, <1>5
<1>6. CASE Order[k] # p
  <2>1. sysfs'[Order[k]] = sysfs[Order[k]]
    BY <1>2, <1>4, <1>6
  <2> QED BY <1>4, <2>1 DEF There
<1> QED BY <1>5, <1>6

LEMMA AlteredGives ==
  ASSUME KernelSound, NEW p \in Ports, NEW dev, dev = None \/ dev.num = sysfs[p].num,
         sysfs[p] # None, sysfs' = [sysfs EXCEPT ![p] = dev]
  PROVE  Gives(p)
<1>1. /\ sysfs'[p] = dev
      /\ \A q \in Ports : q # p => sysfs'[q] = sysfs[q]
  BY DEF KernelSound
<1> SUFFICES ASSUME NEW k \in There(sysfs')
             PROVE  k \in There(sysfs) /\ sysfs'[Order[k]].num = sysfs[Order[k]].num
  BY DEF Gives
<1>2. k \in Free /\ Order[k] \in Ports /\ sysfs'[Order[k]] # None
  BY OrderFacts DEF There
<1>3. CASE Order[k] = p
  <2>1. sysfs[Order[k]] # None /\ sysfs'[Order[k]].num = sysfs[Order[k]].num
    BY <1>1, <1>2, <1>3
  <2> QED BY <1>2, <2>1 DEF There
<1>4. CASE Order[k] # p
  <2>1. sysfs'[Order[k]] = sysfs[Order[k]]
    BY <1>1, <1>2, <1>4
  <2> QED BY <1>2, <2>1 DEF There
<1> QED BY <1>3, <1>4

LEMMA ProbeSets ==
  ASSUME NEW p, NEW i, Probe(p, i)
  PROVE  /\ sysfs[p].ifaces[i] # None
         /\ SetIface(p, i, [sysfs[p].ifaces[i] EXCEPT !.stage = "probed"])
<1> DEFINE x == [sysfs[p].ifaces[i] EXCEPT !.stage = "probed"]
<1>1. InStage(p, i, "added") /\ SetIface(p, i, x)
  BY Zenon DEF Probe
<1>2. sysfs[p].ifaces[i] # None
  BY <1>1 DEF InStage
<1> HIDE DEF x
<1> QED BY <1>1, <1>2 DEF x

LEMMA IfaceGives ==
  ASSUME KernelSound, NEW p \in Plugged \ Hubs,
         NEW i \in DOMAIN sysfs[p].ifaces,
         \/ AddIface(p, i) \/ Probe(p, i) \/ Bind(p, i)
         \/ Rename(p, i) \/ RemoveIface(p, i)
  PROVE  Gives(p)
<1>1. sysfs[p].ifaces[i] # None => sysfs[p].ifaces[i] \in Interface
  BY IfaceFacts
<1>2. \E dev : Alters(p, dev)
  <2>1. ASSUME NEW x \in Interface, SetIface(p, i, x)
        PROVE  \E dev : Alters(p, dev)
    BY <2>1, IfaceAlters DEF SetIface
  <2>2. CASE AddIface(p, i)
    <3> DEFINE x == [stage |-> "added", renamed |-> FALSE]
    <3>1. x \in Interface
      BY DEF Interface
    <3> QED BY <2>1, <2>2, <3>1 DEF AddIface
  <2>3. CASE Probe(p, i)
    <3> DEFINE x == [sysfs[p].ifaces[i] EXCEPT !.stage = "probed"]
    <3>1. sysfs[p].ifaces[i] \in Interface
      BY <1>1, <2>3, ProbeSets
    <3>2. x \in Interface
      BY <3>1 DEF Interface
    <3>3. SetIface(p, i, x)
      BY <2>3, ProbeSets
    <3> HIDE DEF x
    <3> QED BY <2>1, <3>2, <3>3
  <2>4. CASE Bind(p, i)
    <3> DEFINE x == [sysfs[p].ifaces[i] EXCEPT !.stage = "bound"]
    <3>1. sysfs[p].ifaces[i] \in Interface
      BY <1>1, <2>4 DEF Bind, InStage
    <3>2. x \in Interface
      BY <3>1 DEF Interface
    <3>3. SetIface(p, i, x)
      BY <2>4 DEF Bind
    <3> HIDE DEF x
    <3> QED BY <2>1, <3>2, <3>3
  <2>5. CASE Rename(p, i)
    <3> DEFINE x == [sysfs[p].ifaces[i] EXCEPT !.renamed = TRUE]
    <3>1. sysfs[p].ifaces[i] \in Interface
      BY <1>1, <2>5 DEF Rename, InStage
    <3>2. x \in Interface
      BY <3>1 DEF Interface
    <3>3. SetIface(p, i, x)
      BY <2>5 DEF Rename
    <3> HIDE DEF x
    <3> QED BY <2>1, <3>2, <3>3
  <2>6. CASE RemoveIface(p, i)
    <3>1. Changes([sysfs EXCEPT ![p].leaving = TRUE, ![p].ifaces[i] = None])
      BY <2>6 DEF RemoveIface
    <3> QED BY <3>1, IfaceAlters
  <2> QED BY <2>2, <2>3, <2>4, <2>5, <2>6
<1>3. PICK dev : Alters(p, dev)
  BY <1>2
<1>4. /\ p \in Ports /\ sysfs[p] # None /\ dev.num = sysfs[p].num
      /\ sysfs' = [sysfs EXCEPT ![p] = dev]
  BY <1>3 DEF Alters
<1> QED BY <1>4, AlteredGives

LEMMA KernelGives ==
  ASSUME KernelSound, Kernel
  PROVE  \E p : Gives(p)
<1>1. ASSUME NEW p \in Ports, NEW desc \in Descs, Attach(p, desc)
      PROVE  Gives(p)
  BY <1>1, AttachGives
<1>2. ASSUME NEW p \in Plugged \ Hubs, Detach(p)
      PROVE  Gives(p)
  <2>1. p \in Ports /\ sysfs[p] # None
    BY DEF Plugged
  <2>2. sysfs' = [sysfs EXCEPT ![p] = None]
    BY <1>2 DEF Detach, Changes
  <2> QED BY <2>1, <2>2, AlteredGives
<1>3. ASSUME NEW p \in Plugged \ Hubs, NEW i \in DOMAIN sysfs[p].ifaces,
             \/ AddIface(p, i) \/ Probe(p, i) \/ Bind(p, i)
             \/ Rename(p, i) \/ RemoveIface(p, i)
      PROVE  Gives(p)
  BY <1>3, IfaceGives
<1> QED BY <1>1, <1>2, <1>3 DEF Kernel

LEMMA NumsThere ==
  ASSUME KernelSound
  PROVE  /\ \A k \in There(sysfs) : sysfs[Order[k]].num \in Nat \ {0}
         /\ There(sysfs) \subseteq Nat
<1>1. ASSUME NEW k \in There(sysfs)
      PROVE  sysfs[Order[k]].num \in Nat \ {0} /\ k \in Nat
  <2>1. k \in Free /\ Order[k] \in Ports \ Hubs /\ sysfs[Order[k]] # None
    BY OrderFacts DEF There
  <2>2. sysfs[Order[k]].num \in 1..Nums
    BY <2>1, AttachedFacts
  <2>3. k \in Nat
    BY <2>1, OrderFacts
  <2> QED BY <2>2, <2>3, EnumerationAssumption
<1> QED BY <1>1

LEMMA NumsStayDifferent ==
  ASSUME KernelSound, NumsDiffer, Kernel
  PROVE  NumsDiffer'
<1>1. PICK p : Gives(p)
  BY KernelGives
<1> DEFINE T == There(sysfs)
           num(k) == sysfs[Order[k]].num
           numNext(k) == sysfs'[Order[k]].num
<1>2. \A k \in T : num(k) \in NumsOf(sysfs)
  <2> SUFFICES ASSUME NEW k \in T PROVE num(k) \in NumsOf(sysfs)
    OBVIOUS
  <2>1. Order[k] \in Ports \ Hubs /\ sysfs[Order[k]] # None
    BY OrderFacts DEF There
  <2> QED BY <2>1 DEF NumsOf
<1>3. \A k \in There(sysfs') : \/ k \in T /\ numNext(k) = num(k)
                               \/ Order[k] = p /\ numNext(k) \notin NumsOf(sysfs)
  BY <1>1 DEF Gives
<1>4. \A j, k \in There(sysfs') : Order[j] = Order[k] => j = k
  BY OrderFacts DEF There
<1>5. \A j, k \in T : num(j) = num(k) => j = k
  BY DEF NumsDiffer
<1> HIDE DEF T, num, numNext
<1>6. \A j, k \in There(sysfs') : numNext(j) = numNext(k) => j = k
  BY <1>2, <1>3, <1>4, <1>5
<1> QED BY <1>6 DEF NumsDiffer, numNext

-----------------------------------------------------------------------------
(* An entry of what the scan has found with the number of a device that    *)
(* stays is that device's, and there is no other.                          *)
Single(t) == \A i, j \in 1..Len(t) :
               t[i].num \in stayed /\ t[i].num = t[j].num => i = j

Once ==
  /\ Single(scan.out)
  /\ \A k \in There(sysfs) : sysfs[Order[k]].num \in stayed =>
       /\ \A j \in 1..Len(scan.out) :
            scan.out[j].num = sysfs[Order[k]].num => k < scan.port
       /\ scan.reads \in Knows /\ scan.dev.num = sysfs[Order[k]].num
            => k = scan.port

OnceInv == NumsDiffer /\ (scan # None => Once)

(* Where a device that stays is. *)
LEMMA StayedIs ==
  ASSUME KernelSound, NEW n \in stayed
  PROVE  \E k \in There(sysfs) : sysfs[Order[k]].num = n
<1>1. PICK p \in Ports \ Hubs : sysfs[p] # None /\ sysfs[p].num = n
  BY DEF KernelSound, NumsOf
<1>2. PICK k \in Free : Order[k] = p
  BY <1>1, OrderFacts
<1> QED BY <1>1, <1>2 DEF There

LEMMA AddsOnce ==
  ASSUME IInv, Once, Adds, scan # None, UNCHANGED <<kernel, stayed>>
  PROVE  Once'
<1> DEFINE n == Len(scan.out)
           t == scan'.out
           x == scan.dev.num
<1>1. n \in Nat /\ Len(t) = n + 1 /\ scan.port \in Nat /\ scan'.port = scan.port + 1
  BY InvariantParts, ScanFacts DEF Adds
<1>2. (\A j \in 1..n : t[j] = scan.out[j]) /\ t[n + 1].num = x
  BY DEF Adds
<1>3. scan.reads \in Knows /\ scan'.reads \notin Knows
  BY DEF Adds
<1>4. sysfs' = sysfs /\ stayed' = stayed
  BY DEF kernel
<1>5. ASSUME NEW j \in 1..n, x \in stayed PROVE t[j].num # x
  <2>1. PICK k \in There(sysfs) : sysfs[Order[k]].num = x
    BY <1>5, StayedIs, InvariantParts
  <2>2. k = scan.port
    BY <1>3, <1>5, <2>1 DEF Once
  <2>3. ~(k < scan.port)
    BY <1>1, <2>2
  <2> QED BY <1>2, <1>5, <2>1, <2>3 DEF Once
<1>6. \A i, j \in 1..n : t[i].num \in stayed /\ t[i].num = t[j].num => i = j
  BY <1>2 DEF Once, Single
<1>7. \A k \in There(sysfs) : sysfs[Order[k]].num \in stayed =>
        /\ \A j \in 1..n : t[j].num = sysfs[Order[k]].num => k < scan.port
        /\ x = sysfs[Order[k]].num => k = scan.port
  BY <1>2, <1>3 DEF Once
<1>8. There(sysfs) \subseteq Nat
  BY InvariantParts, NumsThere
<1> HIDE DEF n, t, x
<1>9. \A j \in 1..Len(t) : j \in 1..n \/ j = n + 1
  BY <1>1
<1>10. ASSUME NEW i \in 1..Len(t), NEW j \in 1..Len(t),
              t[i].num \in stayed, t[i].num = t[j].num
       PROVE  i = j
  BY <1>2, <1>5, <1>6, <1>9, <1>10
<1>11. ASSUME NEW k \in There(sysfs), sysfs[Order[k]].num \in stayed,
              NEW j \in 1..Len(t), t[j].num = sysfs[Order[k]].num
       PROVE  k < scan.port + 1
  <2>1. k \in Nat
    BY <1>8
  <2>2. k < scan.port \/ k = scan.port
    BY <1>2, <1>7, <1>9, <1>11
  <2> QED BY <1>1, <2>1, <2>2
<1> QED BY <1>1, <1>3, <1>4, <1>10, <1>11 DEF Once, Single, t

LEMMA OnceKeeps ==
  ASSUME IInv, OnceInv, [Next]_vars
  PROVE  OnceInv'
<1>1. ASSUME UNCHANGED <<sysfs, scan, stayed>> PROVE OnceInv'
  BY <1>1 DEF OnceInv, NumsDiffer, Once, Single
<1>2. ASSUME Kernel PROVE OnceInv'
  <2>1. Remains /\ scan' = scan /\ NumsDiffer' /\ stayed' \subseteq stayed
    <3>1. KernelStep /\ NumsDiffer'
      BY <1>2, InvariantParts, KernelSteps, NumsStayDifferent DEF OnceInv
    <3>2. stayed' \subseteq stayed
      <4>1. ASSUME NEW f, Changes(f) PROVE stayed' \subseteq stayed
        BY <4>1 DEF Changes
      <4>2. ASSUME NEW p, NEW desc, Attach(p, desc) PROVE \E f : Changes(f)
        BY <4>2, Zenon DEF Attach
      <4>3. ASSUME NEW p, Detach(p) PROVE \E f : Changes(f)
        BY <4>3, Zenon DEF Detach
      <4>4. ASSUME NEW p, NEW i, \/ AddIface(p, i) \/ Probe(p, i) \/ Bind(p, i)
                                 \/ Rename(p, i) \/ RemoveIface(p, i)
            PROVE  \E f : Changes(f)
        BY <4>4, Zenon DEF AddIface, Probe, Bind, Rename, RemoveIface, SetIface
      <4>5. \E f : Changes(f)
        BY <1>2, <4>2, <4>3, <4>4 DEF Kernel
      <4> QED BY <4>1, <4>5
    <3> QED BY <3>1, <3>2 DEF KernelStep, daemon
  <2>2. ASSUME scan # None, Once PROVE Once'
    BY <2>1, <2>2 DEF Remains, Once, Single
  <2> QED BY <2>1, <2>2 DEF OnceInv
<1>3. ASSUME Scans, ~Refresh PROVE OnceInv'
  <2>1. /\ scan # None /\ scan' # None /\ sysfs' = sysfs /\ stayed' = stayed
        /\ UNCHANGED <<kernel, stayed>>
        /\ Passes \/ Stays \/ Learns \/ Adds
    BY <1>3, ScanStep DEF kernel
  <2>2. Once /\ NumsDiffer
    BY <2>1 DEF OnceInv
  <2>3. NumsDiffer'
    BY <2>1, <2>2 DEF NumsDiffer
  <2>4. ASSUME Passes PROVE Once'
    <3>1. There(sysfs) \subseteq Nat /\ scan.port \in Nat
      BY <2>1, InvariantParts, NumsThere, ScanFacts
    <3>2. scan'.port \in Nat \/ scan'.port \in Int
      <4>1. ScanSound'
        BY StepKeeps DEF IInv
      <4> QED BY <2>1, <4>1, OrderFacts DEF ScanSound, Scanning
    <3>3. \A k \in There(sysfs) : k < scan.port => k < scan'.port
      BY <2>4, <3>1, <3>2 DEF Passes
    <3> QED BY <2>1, <2>2, <2>4, <3>3 DEF Once, Single, Passes
  <2>5. ASSUME Stays PROVE Once'
    BY <2>1, <2>2, <2>5 DEF Once, Single, Stays
  <2>6. ASSUME Learns PROVE Once'
    <3>1. ASSUME NEW k \in There(sysfs), scan'.dev.num = sysfs[Order[k]].num
          PROVE  k = scan.port
      <4>1. sysfs[Order[k]].num \in Nat \ {0}
        BY InvariantParts, NumsThere
      <4>2. Here # None /\ Here.num = sysfs[Order[k]].num
        BY <2>6, <3>1, <4>1 DEF Learns
      <4>3. scan.port \in Free
        BY <2>1, <2>6, InvariantParts, ScanFacts DEF Learns, Reads
      <4>4. scan.port \in There(sysfs) /\ Here = sysfs[Order[scan.port]]
        BY <4>2, <4>3 DEF There, Here
      <4> QED BY <2>2, <4>2, <4>4 DEF NumsDiffer
    <3> QED BY <2>1, <2>2, <2>6, <3>1 DEF Once, Single, Learns
  <2>7. ASSUME Adds PROVE Once'
    BY <2>1, <2>2, <2>7, AddsOnce
  <2> QED BY <2>1, <2>3, <2>4, <2>5, <2>6, <2>7 DEF OnceInv
<1>4. ASSUME Refresh PROVE OnceInv'
  BY <1>4 DEF Refresh, OnceInv, NumsDiffer, kernel
<1>5. ASSUME RecvFails PROVE OnceInv'
  BY <1>1, <1>5 DEF RecvFails, daemon, kernel
<1>6. ASSUME Recv1 PROVE OnceInv'
  <2>1. sysfs' = sysfs /\ (scan' = Begin \/ (scan' = scan /\ stayed' = stayed))
    BY <1>6 DEF Recv1, Pops, kernel
  <2>2. CASE scan' = Begin
    <3>1. scan'.out = <<>> /\ Len(scan'.out) = 0 /\ scan'.reads \notin Knows
      BY <2>2, BeginFacts DEF Knows
    <3>2. Once'
      BY <3>1 DEF Once, Single
    <3> QED BY <2>1, <3>2 DEF OnceInv, NumsDiffer
  <2> QED BY <1>1, <2>1, <2>2
<1>7. ASSUME UNCHANGED vars PROVE OnceInv'
  BY <1>1, <1>7 DEF vars, daemon, kernel
<1> QED BY <1>2, <1>3, <1>4, <1>5, <1>6, <1>7 DEF Next, Daemon

(* What is numbered stays single. *)
LEMMA NumberedSingle ==
  ASSUME NEW out \in Seq(Entry), Single(out)
  PROVE  Single(Numbered(out))
<1> DEFINE K == {k \in 1..Len(out) : Id(out[k]) # <<0, 0>>}
           t == Numbered(out)
<1>1. K \in SUBSET (1..Len(out)) /\ Len(out) \in Nat
  OBVIOUS
<1>2. t = Pick(out, K)
  BY DEF Numbered
<1> HIDE DEF K, t
<1>3. /\ Len(t) = Cardinality(K)
      /\ \A j \in 1..Len(t) : Ranked(K)[j] \in K /\ t[j] = out[Ranked(K)[j]]
  BY <1>1, <1>2, PickProperties
<1>4. \A j \in 1..Cardinality(K) : Cardinality(UpTo(K, Ranked(K)[j])) = j
  BY <1>1, RankedIs
<1>5. ASSUME NEW i \in 1..Len(t), NEW j \in 1..Len(t),
             t[i].num \in stayed, t[i].num = t[j].num
      PROVE  i = j
  <2>1. PICK a \in 1..Len(out) : a = Ranked(K)[i] /\ t[i] = out[a]
    BY <1>1, <1>3
  <2>2. PICK b \in 1..Len(out) : b = Ranked(K)[j] /\ t[j] = out[b]
    BY <1>1, <1>3
  <2>3. Cardinality(UpTo(K, a)) = i /\ Cardinality(UpTo(K, b)) = j
    BY <1>3, <1>4, <2>1, <2>2
  <2>4. a = b
    BY <1>5, <2>1, <2>2 DEF Single
  <2> QED BY <2>3, <2>4
<1> QED BY <1>5 DEF Single, t

(* A device that is there all through a scan has one entry after it        *)
(* (driverd.c:188-199), however often numbers are given again meanwhile.   *)
THEOREM StayersAreSingle == Spec => StayersOnce
<1> DEFINE Stayed == scan # None /\ scan' = None
                   => \A n \in stayed : <<1, n>> \notin Twice(table')
<1>1. Init => OnceInv
  <2> SUFFICES ASSUME Init PROVE OnceInv
    OBVIOUS
  <2>1. scan.out = <<>> /\ Len(scan.out) = 0 /\ scan.reads \notin Knows
    BY BeginFacts DEF Init, Knows
  <2>2. ASSUME NEW j \in There(sysfs), NEW k \in There(sysfs),
               sysfs[Order[j]].num = sysfs[Order[k]].num
        PROVE  j = k
    <3>1. /\ j \in Positions /\ k \in Positions
          /\ Order[j] \in Plugged \ Hubs /\ Order[k] \in Plugged \ Hubs
      BY OrderFacts DEF There, Plugged
    <3>2. Order[j] = Order[k]
      BY <2>2, <3>1 DEF Init
    <3> QED BY <3>1, <3>2, OrderFacts
  <2> QED BY <2>1, <2>2 DEF OnceInv, NumsDiffer, Once, Single
<1>2. IInv /\ OnceInv /\ [Next]_vars => OnceInv'
  BY OnceKeeps
<1>3. ASSUME IInv, OnceInv, Next PROVE Stayed
  <2> SUFFICES ASSUME scan # None, scan' = None, NEW n \in stayed
               PROVE  <<1, n>> \notin Twice(table')
    OBVIOUS
  <2>1. Refresh
    BY <1>3, ScanEnds
  <2>2. Single(scan.out) /\ scan.out \in Seq(Entry)
    BY <1>3, InvariantParts, ScanFacts DEF OnceInv, Once
  <2>3. Single(table')
    BY <2>1, <2>2, NumberedSingle DEF Refresh
  <2> QED BY <2>3 DEF Twice, Single, Id
<1>4. IInv /\ OnceInv /\ [Next]_vars => [Stayed]_vars
  BY <1>3
<1> QED BY <1>1, <1>2, <1>4, EnumerationInvariant, PTL DEF Spec, StayersOnce
=============================================================================
