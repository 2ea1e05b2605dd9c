# Verification of the HUPI projection stack

TLA+ models, TLC runs and TLAPS proofs for the program logic of this repository:
the two daemons that decide which phone projects to the head unit's screen, the line
protocol between them, and the applications at their sockets.

    tlc -workers 2 -config ManagerPhones.cfg ManagerMC.tla   # check one run
    tlapm ManagerProofs.tla                                  # check the proofs
    tlapm SequenceFacts.tla
    tlapm DriverProofs.tla
    tlapm UsbStackProofs.tla
    tlapm StreamProofs.tla
    tlapm ClientsProofs.tla
    tlapm EnumerationProofs.tla
    tlapm WireProofs.tla

`PROJECT.json` lists the components, the runs, a mutant of the code for every
property, the source lines of every definition, the findings, the hazards and
the theorems.

## 1. The system

```
  USB bus ──uevent──► usb-driverd ◄──usb-driver.sock──► usb-managerd ◄──usb-manager.sock── panel, ctl
  (phones)◄──usbfs─── table, claims                     session, queue   ──usb-stream.sock─► cluster
                                                        libusbman, libhu-aa, libhu-carplay
```

Both daemons are single-threaded `poll` loops written in C. They share nothing but
the line protocol on `usb-driver.sock`: the manager sends a command (`sub`, `list`,
`sim ...`, `claim`, `release`, `ctrl ...`) and gets one `ok` or `err` line; the
driver sends `dev` and `dev gone` lines to whoever subscribed, at any time. The
applications (usb-panel, cluster) and `hupi-ctl` talk to the manager in the same way,
and the cluster reads frames from `usb-stream.sock`.

### Inventory

| Component | State | Operations | What is hard | What makes it correct |
|---|---|---|---|---|
| libusbman (`session.c`, `classify.c`, `aoa.c`) | the session record | classify, on_device, on_gone, expect_reenum, fail, set_stream, aoa_build | parking, re-enumeration, repeated lines | a session is not preempted; a phone is not forgotten |
| usb-managerd, driver side (`managerd.c`) | command queue, `g_waiting`, table of plugged devices, connection | pump, lines from the driver, reconnect, promote_idle | replies matched by position, a full queue, a driver that dies in a handshake | handshakes stay in order; each answer meets its command |
| usb-managerd, media | `g_aa`, `g_cp` | media_sync | must run after every change of the session | exactly the session's backend runs |
| usb-managerd, video stream | frame buffers, one consumer | consider_frame, accept_stream, drain_stream_write | consumer and session change in mid-frame; stale `revents` | whole frames, of the session; no frame blocks the next |
| usb-managerd, clients | peers, subscriptions | sub, status, stream, sim, touch, publish | full slots, full sockets, a peer closed by its own command | a subscriber is told the latest state or disconnected |
| usb-driverd (`driverd.c`) | tables of real and simulated devices, claims, peers | refresh, accept, all commands, broadcast | clients that do not read, claims of clients that go, events between dump and subscription | a subscriber's view is the table; claims are exclusive and end with their owner |
| enum, uevent | the netlink socket | scan sysfs, read a uevent | sysfs changes under the scan; uevents overrun | the table becomes what sysfs is; a device that stays is never announced gone |
| usbfs | none | control transfer | a phone that leaves during a transfer | a failure is reported |
| wire (`wire.c`) | receive buffer of a peer | send_line, peer_recv, peer_pull, kv_get, escape, hex | lines cut at a buffer's end, values that look like fields | lines arrive whole and in order, values unchanged |
| libhu-aa, libhu-carplay | running flag, clock | create, start, stop, destroy, poll | stubs today | see media and stream |
| applications, `hupi-ctl` | the link and its half line; the cluster's frame buffer | open, send, poll, close; take_stream | the manager dies or closes the link; frames cut by `recv` | they show the session; the frame boundaries are kept |
| logger, H.264 stub, drawing, tests, Yocto layers | — | I/O, UI, build | — | not modelled |

The behaviours a test hardly reaches come from a few places: the two daemons
interleave freely; a phone plugs, unplugs and re-enumerates whenever it likes;
either daemon may die between any two steps; one poll round works through an
array that its own handlers make stale; and the kernel changes sysfs while it is read. `PROJECT.json` lists each hazard at its
line with the properties that cover it, or the reason why none does yet.

## 2. The modules

| Module | Models | Actions |
|---|---|---|
| `UsbmanSession` | `classify.c`, `session.c`, `aoa.c` as operators on a session record | none: pure operators |
| `Projection` | abstract: who owns the screen | `Arrive`, `Other`, `Leave`, `Fails` |
| `Manager` | the driver side of `managerd.c`, media included, against an arbitrary driver; implements `Projection` | `DevLine`, `GoneLine`, `ReplyLine`, `Pump`, `Connect`, `CloseDriver`, `StreamLine`, `SimLine` |
| `Driver` | `driverd.c` with the results of enum, uevent and usbfs, against arbitrary clients and an arbitrary bus | `Refresh`, `Accept`, `EndOfFile`, one action per command, and the environment `Plug`, `Unplug`, `ClientSend`, `ClientRead`, `ClientClose` |
| `Enumeration` | `enum.c`, `uevent.c` and `refresh_real` file by file against a kernel that goes on | the scan (`Access`, `ReadIds`, ..., `Refresh`), `Recv1`, `RecvFails`, and the kernel's `Attach`, `AddIface`, `Probe`, `Bind`, `Rename`, `RemoveIface`, `Detach` |
| `Wire` | `wire.c` on sequences of characters | none: pure operators |
| `Clients` | the manager's clients at both ends: `g_peers`, `publish`, `hupi_link`, `hupi-ctl` | `Accept`, `DrainClient`, `DriverLine`, `Crash`; `Open`, `Press`, `Poll`, `LinkEnds`, `Tool` |
| `UsbStack` | both daemons, the socket between them, phones that re-enumerate, crash and restart of either | steps of `M == INSTANCE ManagerProofs` and `D == INSTANCE DriverProofs`, joined where the socket is touched; the proof modules are instantiated, and not `Manager` and `Driver` alone, so that `UsbStackProofs` can cite the theorems about each daemon |
| `Stream` | the video path of `managerd.c` and the cluster's `take_stream` | `Poll`, `AcceptStream`, `MediaSync`, `StreamClient`; `AppConnect`, `TakeStream`, `AppEnds`, `AppExits` and other consumers |
| `Picking` | what is left of a sequence when some positions are kept: the loops of `drop_aoa_queued`, `usbdrv_enum_root` and `hupi_peer_pull` | none: pure operators |
| `ManagerProofs`, `DriverProofs`, `UsbStackProofs`, `StreamProofs`, `ClientsProofs`, `EnumerationProofs`, `WireProofs` | theorems about `Manager`, `Driver`, `UsbStack`, `Stream`, `Clients`, `Enumeration` and `Wire` | |
| `SequenceFacts` | lemmas on positions of sequences and the ranks of `Picking`, on bytes that move between two buffers and on the orders in which a finite set is listed, used by all other proof modules | |
| `ManagerMC`, `DriverMC`, `EnumerationMC`, `ClientsMC`, `UsbStackMC`, `StreamMC` | the instances TLC checks | |

How state and actions correspond to the code:

* A handler of a poll loop runs to its end before the next, so it is one action
  with everything it calls: `DevLine` is `on_driver_dev` with `remember_dev`,
  `usbman_on_device`, `publish` (`media_sync`), `apply_action` and the handshake
  that queues, or the failure when the queue is full; `GoneLine` includes
  `promote_idle`. `pump` runs at both ends of the loop and is an action of its own,
  since any number of lines may come between two of its calls. A drain of several
  lines without a `pump` in between is one of the model's behaviours.
* `queue` is the ring `g_q` from its head, `waiting` is `g_waiting`: the head has
  been sent and its reply is due. An AOA command is `[op, id, step]`; the steps of
  `usbman_aoa_build` are 1 claim, 2 GET_PROTOCOL, the strings, and `Steps` START.
* `known` is the array `g_known` in its order, because `forget_dev` moves the last
  entry and `promote_idle` takes the first match. `Forget` and `Remember` are those
  array operations, not set operations.
* In `Driver` the two tables are one function from ids. The order of a table is
  `readdir`'s, so dumps and bursts are sent in any order. A connection is a record
  with what the kernel buffers (`out`, at most `Cap` lines) and, as history, what its
  client has learnt: `view` (devices), `owns` (claims granted), `waits`.
* `Fits` and `Broadcast` model a `send` that fails because the client does not read:
  the client is closed, as in `broadcast`, while `Send` (replies and dumps) loses the
  rest silently, because the code does not look at those results.
* `UsbStack` joins `M!Pump` with `D!ClientSend` and the manager's line handlers with
  `D!ClientRead`. `Crash` empties the driver and leaves the lines already in the
  socket (`rest`) to be read before the end of file. `ManagerCrash` starts the manager
  anew; the driver finds the end of the old connection behind the command it had sent.
  `dropped` is history: the devices whose last `dev` line found no slot in `g_known`.
* `Enumeration` has one action per file the scan reads, because the kernel may act
  between any two of them: a device may lose its interfaces, vanish, or another may
  take its port while it is read. What cannot be read stays zero. `queue`, `congested`
  and `error` are the netlink socket, which once full drops everything until it has
  been emptied and reports one error. The table is a sequence here (readdir's order
  decides which devices fit), and the subscriber's `view` is what it parses from the
  line `format_dev` writes, through `Wire`. A string passes four buffers, whose sizes are
  constants: the driver's own (`StrLen` 128, `NameLen` 64), the writer's of three times that
  size, the reader's for the raw value (`RawLen` 192, `classify.c:72`) and the manager's
  (`ManStr` 96 for a serial number, `ManNet` 32). The kernel gives device numbers as Linux
  does, the next free one, beginning again after the last. Devices may have been
  plugged in, and others pulled, before the daemon starts (`Early` bounds the ports). `missed`, `stayed` and `doubled`
  (the ids that stood twice in the table) are history.
* In `Wire` a string is the sequence of its characters without the NUL; a buffer of n
  has room for n - 1. `Clients` uses its receiver on a socket of bytes; a line there is
  one character and LF, so that a read can end in mid-line. A peer of the manager and
  the client that owns it are the two ends of one connection; an entry whose `owner` is
  `None` has been closed at the other end.
* In `Stream`, `pc` is the entry of the poll array the round has reached and
  `revents` what `poll` reported of the consumer at its start. A frame is `len` pieces,
  of which the first `Header` are the 20 bytes the cluster looks at; a piece carries the
  frame's `src` and an alternating `bit`, so that a lost or repeated one shows. `app` is
  the cluster: `acc` is `g_acc` up to `g_have`, `shown` the frame it drew last.

## 3. What TLC checks

Runs that pass:

| Run | Question | Bounds | Properties |
|---|---|---|---|
| `manager_phones` | Does the manager stay consistent whatever the driver says? | an Android phone in both forms, an iPhone in two forms, a memory stick; handshake of 4, queue of 5, table of 2 | `TypeOK`, `MediaFollowsSession`, `IdleMeansNoPhone`, `QueueFollowsConnection`, `PlanInOrder`, `NoPreemption`, `HeadStaysWhileWaiting`, `ImplementsProjection` |
| `driver_peers` | Do views follow the table, and claims stay with their owner? | two clients, an iPhone with changing descriptor, one simulated phone, buffers of 3 lines | `TypeOK`, `SubscriberCatchesUp`, `OwnerKeepsClaim`, `OneReplyPerCommand` |
| `stack_phones` | Do the daemons agree while two phones come and go? | two real Android phones, queue of 5, table of 2 | `KnownFollowsTable`, `SessionHasDevice`, `HandshakePending`, `NoPhoneIsLeftOut` |
| `stack_restart` | Does the stack recover from the death of either daemon? | one real phone that re-enumerates, one simulated; any number of crashes of both; table of one slot | `KnownFollowsTable`, `KnownCoversTable`, `AnswerMatchesHead`, `HandshakeEndsUnlessRestarted` |
| `stream_frames` | Does the cluster see every phone's video, and no one else's? | two phones, frames of 3 and of 4 pieces, sockets of 2 pieces, two connections | `TypeOK`, `ReaderInSync`, `FrameOfSession`, `FrameEnds`, `VideoFlows` |
| `clients` | Does every application learn the session in the end? | the panel and one run of `hupi-ctl`, one slot, sockets of two lines, buffers of 3 bytes, two presses, one crash of the manager | `TypeOK`, `WholeLines`, `SubscribersAreTold`, `AppsCatchUp` |
| `enum` | Does the table catch up with sysfs, and a subscriber with the table? | two ports with a root hub between them, two descriptors, netlink socket of 2 uevents, two plugs of which one may precede the start, one device of a description at a time, two device numbers, one rename; serial numbers of 3 and 4 characters in buffers of 4 (driver), 6 (raw value) and 3 (manager) | `TypeOK`, `TableCatchesUp`, `ViewFollowsTable`, `PresentIsKept`, `StayersOnce` |

Why the bounds are enough to meet the interesting cases. A handshake of 4 steps has
one of each kind (claim, GET_PROTOCOL, a string, START); the code's 9 only repeat
strings. A queue of 5 holds a handshake and one more command, so a second one is cut
short at every possible place; 24 slots show the same after more re-plugs. A table of
2 with three ids overflows; so does one of a single slot in `stack_restart`, where the phone and
the simulated one can be there at once. Buffers of 3 lines hold a dump and fill up when a client
does not read. In `UsbStack` the buffer is 9 lines and the driver runs a handler only
when there is room for the most a handler sends (`Roomy`: a `dev` and a `dev gone` line
for every device, and a reply): lost lines are the subject of `Driver`. Consumers
of the stream replace each other once; three and four pieces give a frame a middle, let
a short frame follow a long one in the cluster's buffer, and neither divides the pieces
a socket of 2 can take. One slot for two clients makes every connection
compete; a buffer of 3 bytes ends in the middle of a line; two presses fill a
socket. Two plugs suffice for a device that replaces another while it is read (also by one of the same description once the
first has gone; with two of them at once, `Alike` = 2, the run passes as well, in almost three times as many states), and a
queue of 2 overruns as soon as an interface is bound. The buffers of `enum` meet each of their ends:
the driver cuts the serial number of four characters, the raw value ends in the code of the third character
of the other, and the manager keeps two. A device that is there at the start may have any of the two numbers,
and any may be the last one given; so it may vanish behind the scan and its number be given to another in
front of it. Bounds of the environment: one
uevent at a time in `UsbStack` (`Bus`), real and simulated phones one after the other
(`Alone`), one outstanding command per client of the driver (the clients in the
repository wait for the answer), finitely many plugs, renames, presses and connections
where a constant says so.

Deadlock is checked everywhere except in `enum`, whose kernel stops when its
plugs are used up.

Fairness.
* `HandshakeEndsUnlessRestarted`, `HandshakeEnds` and `ReenumerationEnds` assume that both
  daemons go on polling (`WF` of each daemon's step: the loops of `driverd.c:673` and
  `managerd.c:787` end on a signal only) and that a phone that accepted START
  re-enumerates; nothing is assumed of users. `FairRestartSpec` assumes it only as long
  as no daemon died (`Upright`), `FairCrashSpec` that crashes come to an end.
* `FrameEnds` and `VideoFlows` assume that the loop runs, that the cluster reads in every
  frame it draws while the session streams (`cluster/main.c:243`) and that other clients
  read. Time appears as strong fairness of the round that begins a frame: the 100 ms
  pass again and again, so a round in which nothing is on its way does begin one.
* `AppsCatchUp` assumes that the manager accepts and reads, that the applications run
  their loop, which reconnects and polls, and that `hupi-ctl` runs to its end
  (two seconds of silence end it at the latest). Buttons need not be pressed.

Every property of these runs has a mutant in `PROJECT.json`: an operator next to the
definition it replaces, marked `mutant`, with which the run fails. They are the
plausible bugs of that code (a skipped entry, a missed reset, an off-by-one).

### Findings: runs that show a violation

| Run | What happens |
|---|---|
| `stack_reenum` | A real phone comes back from START under a new device number. The accessory's `dev` line has another id than the session, which is `reenumerating` and so counts as occupied: the phone is parked (`session.c:103`), and the session never becomes active. With the simulator, which keeps the id, it works. |
| `stack_replug` | A phone unplugged during its handshake leaves its commands in the queue (`usbman_on_gone` and `on_driver_dev` do not touch it). The `err` that answers one of them fails whichever session exists then (`managerd.c:415`). |
| `stack_crash` | After one crash of the driver in a handshake, `close_driver` has emptied the queue but the session stays in `aoa`. The `dev` line after the reconnect is taken for a repetition (`session.c:118`), so no handshake is queued again. |
| `driver_claims` | A client that a broadcast cannot write to is closed without `drop_claims` (`driverd.c:100`): its claim survives it, and may be inherited by the next client with the same descriptor. |
| `stream_replace` | The hang-up that `poll` reported of the old consumer is applied to `g_stream_fd`, which by then is the new one (`managerd.c:843`). |

## 4. What is proved

`ManagerProofs` proves, for every set of devices and ids, every length of handshake,
every size of the queue and of the table:

| Theorem | Statement |
|---|---|
| `TypeCorrect` | `Spec => []TypeOK` |
| `MediaSafe` | `Spec => []MediaFollowsSession` |
| `NoPhoneForgotten` | `Spec => []IdleMeansNoPhone` |
| `QueueSafe` | `Spec => []QueueFollowsConnection` |
| `PlanSafe` | `Spec => []PlanInOrder` |
| `NeverPreempts`, `HeadStays` | the action properties `NoPreemption`, `HeadStaysWhileWaiting` |
| `HandshakeSafe` | `StableSpec => []HandshakePending` |
| `Refines` | `Spec => ImplementsProjection`: `Manager` implements `Projection` |

Assumptions: `NoneIsNoName` (the empty string is no id and no interface) and
`ManagerAssumption` (a handshake has at least 4 steps, the queue has room for one, the
table has a slot). TLC evaluates both in `manager_phones`.

The argument. None of the invariants is inductive alone. `MediaFollowsSession` needs
`Shape`: a session has a backend exactly if it has a device, a live phase has one, an
idle phase has none, and `streaming` is what the phase and the user's choice amount to. `IdleMeansNoPhone` and
`NoPreemption` need `Unique`: the table lists an id once, or `forget_dev`, which
removes one entry, would leave another of the same device behind. `PlanInOrder` and
`HeadStays` need `QueueFollowsConnection`. `Inv` is the conjunction; `NextStep` shows
that it is inductive, one lemma per handler, each from one lemma per operator
(`OnDeviceProperties`, `EnqueueProperties`, `DropProperties`, `ForgetProperties`, ...).
`drop_aoa_queued` compacts the ring, which the model states by rank (`Pick`);
`RankExists` (in `SequenceFacts`) proves that the picked positions exist. A START in
the queue is worth something only as long as it has not been sent, because its reply
removes it; `HandshakePending` is therefore strengthened to `Pending`, in which that
START is not the command awaiting its reply.

The refinement. `Promise == INSTANCE Projection` maps `phones` to the phones in `known`,
`owner` to the session's device (`None` when it is idle) and `serving` to its not having
failed. TLC checks it in `manager_phones`; `Refines` proves it. `RememberPhones` and `ForgetPhones`
say that an operation on the table changes the set of phones by one id; `OnDeviceTakes`
and `AdmitTakes` that a phone's line gives it a free screen or leaves the owner alone,
also when its handshake does not fit into the queue; `GoneOwner` with `promote_idle`
that an owner who leaves is kept, replaced by another known phone, or by nobody if
there is none, which is where `IdleMeansNoPhone` is needed. One lemma per line
(`DevLineRefines`, `GoneLineRefines`, `ReplyLineRefines`), stutters for the rest, and
`RefinesStep` puts them together.

`StreamProofs` proves, for any phones and number of clients, frames of any length longer than
their header and a socket of any size:

| Theorem | Statement |
|---|---|
| `StreamTypes` | `Spec => []TypeOK`, the consumer an open connection included |
| `StreamInSync` | `Spec => []ReaderInSync` |
| `FrameOfSessionOnly` | `Spec => FrameOfSession` |

It assumes `StreamAssumption`, which TLC evaluates in `stream_frames` and `stream_replace`.
`ReaderInSync` only compares neighbours and says nothing of the daemon. The invariant behind
it, `IInv`, says where in its frame every piece received stands (`InSync`: its `Runs` lets a
frame taken from the front leave the rest in order), and ties the last piece to the daemon:
while the cluster is the consumer and a frame is under way, that piece is the one at the
frame's offset, otherwise it ends a frame whose bit the next one will not have (`Writer`). A
consumer that has just been accepted has received nothing (`NotYet`), because connections
wait in `backlog` once each and none of them has been the consumer before (`Queued`).
`AppendBlock` is the lemma for a send, `MovePieces` and `ParsedInSync` for a receive; that
the parser never finds a piece that is no header is `FrontIsHeader`. `OwnVideo` (a frame the
backend delivered is of the session's phone) carries `FrameOfSession`. TLC found `IInv` to
hold in the instance of `stream_frames` before it was proved; `IInv` adds that only
connections in use are closed, without which it is not inductive.

`ClientsProofs` proves, for any number of applications, runs of `hupi-ctl` and slots, sockets
and buffers of any size that holds a line, any number of presses and of crashes of the manager:

| Theorem | Statement |
|---|---|
| `ClientTypes` | `Spec => []TypeOK`, the sizes of sockets and buffers included |
| `ClientsWholeLines` | `Spec => []WholeLines` |
| `NobodyOutdated` | `Spec => []SubscribersAreTold` |

Assumption: `ClientsAssumption`, which TLC evaluates in `clients`. Of its bounds one matters: a
socket holds a line (`SockBuf >= 2`; a state line has at most 512 bytes, and a Unix socket's
buffer takes hundreds of them). In a smaller socket a subscriber could miss the state it is sent in answer to
`sub`, whose result nobody looks at (`managerd.c:609`).

The argument. A state line reaches whoever is subscribed or `publish` disconnects it; what is
not obvious is the moment of subscribing, when the state is sent without a check. The
invariant `IInv` therefore follows `sub` from the client's `send` to `handle_client`: while it is
still to be read, it is the first line of its connection and the client has not been sent
anything (`PeerSound`), so that its socket has room. That needs each connection to have one entry
at the manager (`OneEntry`), in a slot or waiting: an answer to another entry would fill the
socket, and an entry left behind by `close` has no owner. Both ends carry whole lines (`Whole`);
`EndsOfLines` says where `Ends` finds their ends, `Parsed` what `Pull` and `After` make of
them, `StateTaken` that a state is either still to be read or the one shown. `HandleKeeps` is
the lemma for one command, `ServedKeeps` for all commands of a read, after any of which the peer may
have been closed by its own `publish`: it goes to the first command after which the globals
would not be consistent. TLC found `IInv` to hold with one and two applications and
slots before it was proved.

`WireProofs` proves what a value goes through on its way from one daemon to the other:

| Theorem | Statement |
|---|---|
| `HexRoundTrip` | `hupi_hex_decode` undoes `hupi_hex_encode` for every sequence of bytes within the capacity, so the strings of AOA reach the phone as they are written in `aoa.c` |
| `EscapeRoundTrip` | what `take` makes of a value that `hupi_escape` wrote, for any characters and any sizes of the writer's buffer, the raw buffer and the destination: the characters whose codes had room in the first two come back as they were, behind them stands what the raw buffer left of one code, and the destination cuts the rest. With a raw buffer at least as large as the writer's nothing is left of a code that was cut |
| `FieldsRoundTrip` | `take` reads from a line of two fields what was written into each, up to what the destination holds, whatever spaces, `=`, `%` or imitated keys it contains, if the writer's buffer held all of it and the raw buffer the codes of what the destination keeps (`Reaches`); a field of which less comes through does not spoil the other |

In the last two, a value of a single "-" reads as empty. The argument. `Escape` flattens a sequence of
codes and `Unescape` walks through them, both by recursion. Instead of an induction theorem, which cannot be
instantiated here, `JoinsExist` and `DecodesExist` take the least argument for which the recursive function
would not be defined by its equation, and find that there is none. `Width` adds up the lengths of
the codes; `FlattenSpells` says where the code of each character stands, `DecodesAll` that
a decoder which stands at the start of one goes on to the start of the next. `ComesThrough` says which codes are
whole in the raw buffer and that at most two characters of the next one are left, whichever buffer is the smaller. For a line, `WhereSpaces` shows that its
only space is the one between the fields, because no code contains any; hence `FirstField` and `SecondField`.

`DriverProofs` proves, for any ids, any number of clients and slots, any commands they may
send and any size of their buffers that holds a dump:

| Theorem | Statement |
|---|---|
| `DriverTypeCorrect` | `Spec => []TypeOK` |
| `SubscribersCatchUp` | `Spec => []SubscriberCatchesUp` |
| `OwnersKeepClaims` | `Spec => []OwnerKeepsClaim` |
| `ClaimsAreExclusive` | two clients never own the same device |
| `OneReplyEach` | `Spec => []OneReplyPerCommand` |

Assumptions, evaluated by TLC in `driver_peers`: `DriverAssumption` (simulated and real
ids are apart, a scan finds each device under its id); `DumpFits`: the ids are finitely many
and the empty buffer of a new connection holds a line for each of them. Bus and device
numbers have bounded ranges, and a Unix socket's buffer is much larger than the lines of the 56
devices for which `driverd.c:27` has room. Without it a subscriber could start with a part of the dump and not
be told, because the results of those sends are not looked at. `NoneIsNothing`: the value that stands for a
closed slot is no connection, no device and no command.

The argument. `SubscriberCatchesUp` is stated with a fold over the lines on their way. To
reason about them one by one, `Believes(view, out, id, d)` says what a reader will hold of one
device: the last line about it counts, or else what it knew. `Tells` is that for all
devices, `OneStory` shows that `Tells` determines the fold (by the shortest prefix for
which it would not), and `TellsThen` that two bursts in a row tell what the second one
says. Each handler then owes one fact: its burst tells the new table from the old one
(`News`), whatever order `SetToSeqs` lists it in, and its answer, which may be cut when the
buffer fills, does not contradict the table (`Reports`). `FollowsKeeps` carries a
subscriber from one to the other or to a closed connection. The invariant `IInv` adds
that tables list a device under its own id (`ById`), that a reply is unread only while its
client waits (`Answers`, `Waiting`), and that before `sub` a client has nothing but its
answers to read (`Quiet`), without which a dump could meet lines of an older picture.

`UsbStackProofs` puts the two daemons together, for any devices, any phones and any
queue and buffer that can hold what `Roomy` asks for:

| Theorem | Statement |
|---|---|
| `KnowsTheTable` | `RestartSpec => []KnownFollowsTable` |
| `KnowsWhatIsPlugged` | `RestartSpec => []KnownCoversTable`, after any crashes of both daemons |
| `NobodyIsLeftOut` | `RestartSpec => []NoPhoneIsLeftOut` |
| `RepliesMatch` | `RestartSpec => []AnswerMatchesHead`, after any crashes of both daemons |
| `HandshakeStaysPending` | `StableSpec => []HandshakePending` |
| `SessionsHaveDevices` | `StableSpec => []SessionHasDevice` |
| `StackRunsManager` | `CrashSpec => M!Spec`: what the manager does in the stack is a behaviour of `Manager` |
| `StackImplementsProjection` | `CrashSpec => M!ImplementsProjection`, from `Refines` |

`StackAssumption` adds to those of the daemons only what the instance of users and phones must look like. In particular
the manager's table may be smaller than the number of devices, as it is in the code (`KNOWN_MAX` is 8, the driver
lists up to 56). What `remember_dev` drops for want of a slot is in the history variable `dropped`, and
`Knows` lets the manager miss such a device and no other, and only miss it: an entry of an older state of the device would
violate both `KnownFollowsTable` and `KnownCoversTable`. `NoPhoneIsLeftOut` makes the same exception: a phone that found the table
full is not promoted later (section 5). TLC evaluates the assumption in every `stack_` run.

The argument. `StackInv` is the daemons' own invariants (`D!IInv`, `M!Inv`), of which the
lemmas about their handlers are cited and not proved again, and what they count on of each
other. `Exchange`: on a live connection command and reply alternate. The manager waits
exactly if the driver has its command or the reply is on its way, the command is that of the queue's
head, and before `sub` has been served `sub` is that head: this is why a handshake cannot
overtake the subscription and why positions suffice to match replies. `Remembers`: of what it has read on this
connection the manager has forgotten nothing but what it dropped, which survives a restart of the driver, while
`FirstTime`, that it knows nothing else (`Mirrors`), does not; the first gives
`KnownCoversTable`, the second `KnownFollowsTable`, both through `Foretold`, which takes one device from what was read of it to
what will be. `Ends`: the driver sees the
hang-up exactly if the manager is gone, and lines of a dead driver are read before the next
connection. `Devs` says that no entry stands for a dropped device and that the device of a session in progress is
one the manager was told of, remembered or dropped (`Told`: a session can be taken by a phone for which the table has no
slot); with `KnownFollowsTable`'s argument it gives `SessionHasDevice`. `NoPhoneIsLeftOut` joins `FirstTime` to the manager's own `NoPhone`: an idle session has no phone in the table. While no daemon dies the manager never sees a hang-up
(`StableStep`), so `M!Pending` carries over. `Roomy` enters through `D!HandleLineServes` and
`D!RefreshServes`: a handler that has room neither disconnects the manager nor loses its reply. TLC found `StackInv` to hold in the
instances of `stack_phones` and `stack_restart` before it was proved.

`EnumerationProofs` proves, for any ports, hubs and descriptors, a table and a netlink socket
of any size and any number of plugs and renames:

| Theorem | Statement |
|---|---|
| `EnumerationTypes` | `Spec => []TypeOK` |
| `TableFollowsSysfs` | `Spec => []TableCatchesUp` |
| `StayersAreKept` | `Spec => PresentIsKept` |
| `ViewIsTable` | `Spec => []ViewFollowsTable` |
| `StayersAreSingle` | `Spec => StayersOnce` |

Assumptions, evaluated by TLC in `enum`: `EnumerationAssumption` (the ports are listed once
each, a root hub has a kind of its own, a buffer has room for a character, those of the name of a network interface and
of the raw value for two) and `NoneIsNothing`: the value that stands for an empty port, no scan and no line is no device,
no interface, no entry and nothing that can be read from a line.

Two things `ViewFollowsTable` does not claim, because the code does not give them. A serial number is compared
only if the codes of the characters that the manager keeps fit into the raw buffer (`Clear`): otherwise `take` may cut a code in half
and what is left of it is read as characters. With the code's sizes that is a serial number whose first 95
characters need more than 191, which takes 49 or more characters that are no letters or digits and not one of `_.:/-`. And an id that stood twice in the table is excepted
until a line about it is sent again (`doubled`): that happens when the kernel's numbers come round within one scan, and there
the next scan compares with the first entry while the subscriber remembers the last (section 5). `StayersOnce` says
that it does not happen to a device that stays.

The argument. A scan is no snapshot: it reads file after file while devices come and go. What
makes its result right in the end is that a change which could spoil what was read sends a uevent.
The invariant `IInv` therefore says nothing of the table while a uevent of `usb` waits or was lost
to an overrun; as long as none does (`Clean`), everything read so far still is so. `Covers`
says it of the entries found up to a port, `Partly` of the fields of the one that is being read. What a
scan has found is matched with the ports by rank: the entry of a port is the j-th if j
devices are attached up to it, so that the table's capacity cuts off the last ones and no other
(`CoversAdd`, `CoversSkip`, `CoversFull`). Two changes send no uevent of `usb`, the probe of a
driver and the renaming of a network interface (`Quietly`). `Tells` is what an entry says
of a device in spite of them: everything but what depends on drivers while one is between
its probe and its uevent, and for the network interface the name before or after. That is also why
`TableCatchesUp` is about settled devices. `KernelKeeps` shows that the kernel's steps
preserve `Covers` and `Partly` or end `Clean`; `ReportsNothing`, `ReportsClass` and `ReportsDriver` follow
the reading of one interface. `Found` carries `PresentIsKept`: a device that stays is among the
entries, or still to be read, or its bus and number have been read as they are; `RoomForAll` shows that with
room for every port the scan never stops early. `NumberedFacts` says that an entry with a number is still
in the table when those without one have been dropped. TLC found `IInv` to hold in the instance of
`enum` before it was proved.

`ViewFollowsTable` is about the difference a refresh announces. `ToldFollows`: if the view followed the old
table, it follows the new one after the lines of the refresh. An entry that is announced is read back as it was written
(`ParsedSays`, from `FieldsRoundTrip`); one that is not has the payload of the old entry, and the subscriber
knows that; an id that is gone is announced as gone. Of two entries with one id the subscriber knows the last that was
announced, and `doubled` holds exactly the ids of which that may not be the entry the next scan compares with; `LinesOf` is the
reason why one more line is enough to leave it. `ScanStep` sums up what a step of a scan does to numbers, and `OnceInv` is the
invariant behind `StayersAreSingle`: an entry with the number of a device that stays was read in that device's port, because the
kernel gives no number that is in use (`NumsDiffer`) and `stayed` loses a device when it goes. TLC found `OnceInv` to hold in the
instance of `enum` before it was proved.

What stays with TLC: the liveness properties (`HandshakeEndsUnlessRestarted`, `FrameEnds`, `VideoFlows`, `AppsCatchUp`),
because fairness and `ENABLED` are beyond the prover. Every other property of the passing runs is stated by a theorem.
The library's induction theorems cannot be instantiated here: where a fold is used in a property (`SubscriberCatchesUp`,
`Expected`), a recursive function in an action (`Served`) or a recursion over strings (`Escape`, `Unescape`),
the least counterexample of a well-founded order takes the place of induction.

## 5. Observations

What the models show or had to reproduce, without a document that forbids it:

* `link_up` runs after `publish` has created CarPlay's backend (`managerd.c:372`), although
  the comment at `managerd.c:248` wants the interface up first. A backend keeps the
  interface it was created with when a later line names another one (`managerd.c:134`).
* After a restart of the driver the manager keeps simulated devices that no longer
  exist, since no `dev gone` will ever name them (`KnownCoversTable` is an implication one way, so no property catches them).
* A uevent of subsystem `net` causes no scan (`driverd.c:712`): a network interface that
  is renamed after the last uevent of subsystem `usb` keeps its old name in the table. `TableCatchesUp` excepts the name. An overrun after which no other
  uevent comes leaves the table old too (`missed`).
* A device whose number could not be read is announced as `1-0` until the next scan.
  `same_payload` does not compare manufacturer, product and drivers.
* A value "-" is read as the empty string. Of a serial number the driver keeps 127
  characters (`usbdrv.h`), which its 384 bytes for the escaped form always hold; the manager
  reads 191 bytes of that and keeps 95 characters (31 of a network interface). If the 191
  bytes end inside an escape, its first one or two bytes are read as characters, so
  `take` is not quite the inverse of `hupi_escape` that `classify.c:69` calls it.
* When device numbers come round within one scan, the table can list an id twice: a device
  that was read has gone, and its number is another's, in a port that the scan reached
  later. The next scan compares an entry with the first one of its id (`driverd.c:221`), so
  a subscriber may keep the other until something about that device changes.
* A phone for which `g_known` had no slot stays unknown when slots become free, until
  another line about it comes. So the screen stays free when the session's phone leaves, although
  `managerd.c:298` keeps the table to promote another one and `00-system-overview.md:181` promises "idle → promote
  parked/known". There are 8 slots, and every device but a hub takes one, so it needs nine devices.
  If such a phone owns the session it is served nevertheless.
* The array of the table has room for 48 devices (`driverd.c:27`): later ports are left out.
* The cluster takes at most one frame per `recv`; a whole frame left in its buffer waits
  for the next bytes. Its last picture stays when the phone changes, until a frame of the
  new one comes. While nothing streams it does not read, and a frame waits in the daemon.
  An RGB frame drawn by the daemon can come between H.264 frames of the backend when
  that is late (`managerd.c:552`).

## 6. What is not modelled, and why

* The eight slots for simulated devices (`driverd.c:297`): the commands add two fixed ids,
  so they never fill up.
* `dev` lines of more than 1398 bytes, which cannot be sent and would disconnect every
  subscriber: that takes seven fields of hundreds of bytes.
* `same_payload`'s fields and `usbman_dev_t`'s are reduced to those something depends on.
* `usbfs.c`'s ioctl and timeout: a transfer succeeds or fails, and a phone may leave during it.
* `touch` in the backends (a stub), pixels, the text of `reason`, clocks.
* The logger, the H.264 stub, the drawing of the applications, the command line of
  `hupi-ctl`, the tests and the Yocto layers: pure I/O, user interface or packaging.

Each module leaves the other parts of a daemon to chance: the session is a value
that changes at will in `Clients`, the phone of the backend in `Stream`. `Manager` shows
how they change.

## 7. Plan

All modules of the plan are written, and every safety and action property of their passing runs is proved. What could
follow: lines of more than two fields in `Wire` (a `dev` line of more than 1398 bytes, `wire.c:109`),
a START that outlives its phone in `UsbStack` (`managerd.c:440`), and the backends of
`libhu-aa` and `libhu-carplay` once they are more than stubs.
