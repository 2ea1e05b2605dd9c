---------------------------- MODULE ManagerProofs ----------------------------
(***************************************************************************)
(* Proofs about Manager, for every set of devices, every handshake length, *)
(* and every size of the queue and of the table of devices.                *)
(*                                                                         *)
(* The invariants are not inductive one by one: MediaFollowsSession needs  *)
(* to know that a live session has a backend and a device (Shape), and     *)
(* IdleMeansNoPhone and NoPreemption that the table of devices lists an id *)
(* once (Unique).  Inv is their conjunction.  Each operator of the policy  *)
(* has one lemma that says what it preserves of a session, and each        *)
(* handler one lemma (its name and Step) that NextStep puts together.      *)
(* HandshakePending holds for a driver that stays up only; its             *)
(* strengthening is Pending.                                               *)
(*                                                                         *)
(* At the end: the daemon implements Projection, from the same invariant   *)
(* and from one lemma per handler that names the abstract step it is.      *)
(***************************************************************************)
EXTENDS Manager, SequenceFacts

-----------------------------------------------------------------------------
(* What the operators of the policy preserve. *)

(* A session has a backend exactly when it has a device, an idle one has   *)
(* neither, only a failed one may lack them, and `streaming` is up to date. *)
Shape(s) ==
  /\ s.backend = "none" <=> s.device = None
  /\ s.phase = "idle" => s.backend = "none"
  /\ s.phase \notin {"idle", "failed"} => s.backend # "none"
  /\ s.streaming <=> StreamingNow(s)

(* From s to t an active session does not change hands. *)
KeepsDevice(s, t) ==
  s.phase = "active" /\ t.phase = "active" => t.device = s.device

(* From s to t a session in progress is not taken over. *)
KeepsOwner(s, t) ==
  s.backend # "none" /\ s.phase \notin {"idle", "failed"}
    => t.device = s.device

LEMMA RefreshType ==
  ASSUME NEW s \in Session
  PROVE  RefreshStream(s) \in Session
BY DEF Session, RefreshStream, StreamingNow

LEMMA AdoptType ==
  ASSUME NEW s \in Session, NEW dev \in Device,
         NEW b \in {"android", "carplay"},
         NEW p \in {"aoa", "classified", "active", "failed"}
  PROVE  /\ Adopt(s, dev, b, p) \in Session
         /\ Adopt(s, dev, b, p).phase = p
         /\ Adopt(s, dev, b, p).backend = b
         /\ Adopt(s, dev, b, p).device = dev.id
         /\ Adopt(s, dev, b, p).pendingReenum = s.pendingReenum
         /\ Shape(Adopt(s, dev, b, p))
<1> DEFINE m == IF s.parked = dev.id THEN None ELSE s.parked
           t == [s EXCEPT !.backend = b, !.phase = p, !.device = dev.id,
                          !.net = dev.net, !.parked = m]
<1>1. dev.id \in Id /\ dev.net \in Net \cup {None} /\ dev.id # None
  BY NoneIsNoName DEF Device
<1>2. m \in Id \cup {None}
  BY DEF Session
<1> HIDE DEF m
<1>3. /\ t \in Session
      /\ t.phase = p /\ t.backend = b /\ t.device = dev.id
      /\ t.pendingReenum = s.pendingReenum
  BY <1>1, <1>2 DEF Session
<1>4. Adopt(s, dev, b, p) = RefreshStream(t)
  BY DEF Adopt, m
<1> HIDE DEF t
<1>5. RefreshStream(t) \in Session
  BY <1>3, RefreshType
<1>6. /\ RefreshStream(t).phase = p
      /\ RefreshStream(t).backend = b
      /\ RefreshStream(t).device = dev.id
      /\ RefreshStream(t).pendingReenum = s.pendingReenum
      /\ RefreshStream(t).streamUser = t.streamUser
      /\ RefreshStream(t).streaming = StreamingNow(t)
  BY <1>3 DEF RefreshStream, Session
<1>7. Shape(RefreshStream(t))
  BY <1>1, <1>3, <1>6 DEF Shape, StreamingNow
<1> QED
  BY <1>4, <1>5, <1>6, <1>7

(* What taking the session does, kind by kind. *)
LEMMA TakeProperties ==
  ASSUME NEW s \in Session, Shape(s), NEW dev \in Device, Projects(dev),
         ~Parks(s, dev)
  PROVE  /\ TakeSession(s, dev) \in Session
         /\ Shape(TakeSession(s, dev))
         /\ TakeSession(s, dev).phase # "idle"
         /\ TakeSession(s, dev).device = dev.id
         /\ TakeSession(s, dev).phase = "aoa"
              => TakeSession(s, dev) = s \/ StartsAoa(s, dev)
<1> DEFINE t == TakeSession(s, dev)
           A(b, p) == Adopt(s, dev, b, p)
<1>1. Classify(dev) \in {"android", "android_aoap", "carplay", "apple_wait",
                         "apple_ipheth"}
  BY DEF Projects
<1>2. /\ A("android", "active") \in Session /\ Shape(A("android", "active"))
      /\ A("android", "active").phase = "active"
      /\ A("android", "active").device = dev.id
  BY AdoptType
<1>3. /\ A("android", "aoa") \in Session /\ Shape(A("android", "aoa"))
      /\ A("android", "aoa").phase = "aoa"
      /\ A("android", "aoa").device = dev.id
  BY AdoptType
<1>4a. /\ A("carplay", "active") \in Session /\ Shape(A("carplay", "active"))
       /\ A("carplay", "active").phase = "active"
       /\ A("carplay", "active").device = dev.id
  BY AdoptType
<1>4b. /\ A("carplay", "classified") \in Session
       /\ Shape(A("carplay", "classified"))
       /\ A("carplay", "classified").phase = "classified"
       /\ A("carplay", "classified").device = dev.id
  BY AdoptType
<1>4c. /\ A("carplay", "failed") \in Session /\ Shape(A("carplay", "failed"))
       /\ A("carplay", "failed").phase = "failed"
       /\ A("carplay", "failed").device = dev.id
  BY AdoptType
<1>5. t = CASE Classify(dev) = "android_aoap" ->
                 [A("android", "active") EXCEPT !.pendingReenum = FALSE]
            [] Classify(dev) = "android" /\ RepeatsAoa(s, dev) -> s
            [] Classify(dev) = "android" /\ ~RepeatsAoa(s, dev) ->
                 A("android", "aoa")
            [] Classify(dev) = "carplay" /\ RepeatsActive(s, dev) ->
                 [s EXCEPT !.net = dev.net]
            [] Classify(dev) = "carplay" /\ ~RepeatsActive(s, dev) ->
                 A("carplay", "active")
            [] Classify(dev) = "apple_wait" -> A("carplay", "classified")
            [] Classify(dev) = "apple_ipheth" -> A("carplay", "failed")
  BY DEF TakeSession
<1>6. Classify(dev) = "android" /\ ~RepeatsAoa(s, dev) => StartsAoa(s, dev)
  BY DEF StartsAoa
<1> HIDE DEF t, A
<1> SUFFICES /\ t \in Session /\ Shape(t)
             /\ t.phase # "idle"
             /\ t.device = dev.id
             /\ t.phase = "aoa" => t = s \/ StartsAoa(s, dev)
  BY DEF t
<1>7. CASE Classify(dev) = "android_aoap"
  <2> DEFINE u == A("android", "active")
  <2>1. t = [u EXCEPT !.pendingReenum = FALSE]
    BY <1>5, <1>7
  <2>2. /\ u \in Session /\ Shape(u) /\ u.phase = "active"
        /\ u.device = dev.id
    BY <1>2
  <2> HIDE DEF u
  <2> QED
    BY <2>1, <2>2 DEF Session, Shape, StreamingNow
<1>8. CASE Classify(dev) = "android" /\ RepeatsAoa(s, dev)
  <2>1. t = s
    BY <1>5, <1>8
  <2> QED
    BY <2>1, <1>8 DEF RepeatsAoa, Same
<1>9. CASE Classify(dev) = "android" /\ ~RepeatsAoa(s, dev)
  BY <1>3, <1>5, <1>6, <1>9
<1>10. CASE Classify(dev) = "carplay" /\ RepeatsActive(s, dev)
  <2>1. t = [s EXCEPT !.net = dev.net]
    BY <1>5, <1>10
  <2>2. dev.net \in Net \cup {None}
    BY DEF Device
  <2>3. s.phase = "active" /\ s.device = dev.id
    BY <1>10 DEF RepeatsActive, Same
  <2> QED
    BY <2>1, <2>2, <2>3 DEF Session, Shape, StreamingNow
<1>11. CASE Classify(dev) = "carplay" /\ ~RepeatsActive(s, dev)
  BY <1>4a, <1>5, <1>11
<1>12. CASE Classify(dev) \in {"apple_wait", "apple_ipheth"}
  BY <1>4b, <1>4c, <1>5, <1>12
<1> QED
  BY <1>1, <1>7, <1>8, <1>9, <1>10, <1>11, <1>12

(* usbman_on_device keeps the session well-formed, never makes it idle,    *)
(* never takes it from another device, and enters the handshake only when  *)
(* it also asks for the commands.                                          *)
LEMMA OnDeviceProperties ==
  ASSUME NEW s \in Session, Shape(s), NEW dev \in Device
  PROVE  /\ OnDevice(s, dev) \in Session
         /\ Shape(OnDevice(s, dev))
         /\ KeepsDevice(s, OnDevice(s, dev))
         /\ KeepsOwner(s, OnDevice(s, dev))
         /\ OnDevice(s, dev).phase = "idle" => s.phase = "idle" /\ ~Projects(dev)
         /\ StartsAoa(s, dev) => OnDevice(s, dev).device = dev.id
         /\ OnDevice(s, dev).phase = "aoa"
              => \/ StartsAoa(s, dev)
                 \/ /\ s.phase = "aoa"
                    /\ OnDevice(s, dev).device = s.device
                    /\ OnDevice(s, dev).pendingReenum = s.pendingReenum
<1> DEFINE t == OnDevice(s, dev)
<1>1. dev.id \in Id
  BY DEF Device
<1>2. CASE ~Projects(dev)
  <2>1. t = [s EXCEPT !.other = dev.id]
    BY <1>2 DEF OnDevice
  <2>2. ~StartsAoa(s, dev)
    BY <1>2 DEF StartsAoa, Projects
  <2> HIDE DEF t
  <2>3. /\ t \in Session /\ t.phase = s.phase /\ t.device = s.device
        /\ t.backend = s.backend /\ t.pendingReenum = s.pendingReenum
        /\ t.streaming = s.streaming /\ t.streamUser = s.streamUser
    BY <1>1, <2>1 DEF Session
  <2> QED
    BY <1>2, <2>2, <2>3 DEF Shape, KeepsDevice, KeepsOwner, StreamingNow, t
<1>3. CASE Projects(dev) /\ Parks(s, dev)
  <2>1. t = [s EXCEPT !.parked = dev.id]
    BY <1>3 DEF OnDevice
  <2>2. ~StartsAoa(s, dev) /\ s.phase # "idle"
    BY <1>3 DEF StartsAoa, Parks
  <2> HIDE DEF t
  <2>3. /\ t \in Session /\ t.phase = s.phase /\ t.device = s.device
        /\ t.backend = s.backend /\ t.pendingReenum = s.pendingReenum
        /\ t.streaming = s.streaming /\ t.streamUser = s.streamUser
    BY <1>1, <2>1 DEF Session
  <2> QED
    BY <1>3, <2>2, <2>3 DEF Shape, KeepsDevice, KeepsOwner, StreamingNow, t
<1>4. CASE Projects(dev) /\ ~Parks(s, dev)
  <2>1. t = TakeSession(s, dev)
    BY <1>4 DEF OnDevice
  <2>2. /\ t \in Session /\ Shape(t) /\ t.phase # "idle"
        /\ t.device = dev.id
        /\ t.phase = "aoa" => t = s \/ StartsAoa(s, dev)
    BY <1>4, <2>1, TakeProperties
  <2>3. s.backend # "none" /\ s.phase \notin {"idle", "failed"}
          => s.device = dev.id
    BY <1>4 DEF Parks, Same
  <2>4. s.phase = "active" => s.backend # "none"
    BY DEF Shape
  <2> HIDE DEF t
  <2> QED
    BY <2>2, <2>3, <2>4 DEF KeepsDevice, KeepsOwner, t
<1> QED
  BY <1>2, <1>3, <1>4

LEMMA OnGoneProperties ==
  ASSUME NEW s \in Session, Shape(s), NEW id \in Id
  PROVE  /\ OnGone(s, id) \in Session
         /\ Shape(OnGone(s, id))
         /\ KeepsDevice(s, OnGone(s, id))
         /\ s.device # id => /\ OnGone(s, id).device = s.device
                             /\ OnGone(s, id).phase = s.phase
         /\ OnGone(s, id).phase = "aoa"
              => /\ s.phase = "aoa"
                 /\ OnGone(s, id).device = s.device
                 /\ OnGone(s, id).pendingReenum = s.pendingReenum
<1> DEFINE t == [s EXCEPT !.parked = IF @ = id THEN None ELSE @,
                          !.other  = IF @ = id THEN None ELSE @]
<1>1. /\ t \in Session /\ t.phase = s.phase /\ t.device = s.device
      /\ t.backend = s.backend /\ t.pendingReenum = s.pendingReenum
      /\ t.streaming = s.streaming /\ t.streamUser = s.streamUser
  BY DEF Session
<1>2. OnGone(s, id) = IF s.device # id THEN t
                      ELSE IF s.pendingReenum
                           THEN [t EXCEPT !.phase = "reenumerating",
                                          !.streaming = FALSE]
                           ELSE SetIdle(t)
  BY DEF OnGone
<1> HIDE DEF t
<1>3. CASE s.device # id
  BY <1>1, <1>2, <1>3 DEF Shape, KeepsDevice, StreamingNow
<1>4. CASE s.device = id /\ s.pendingReenum
  <2> DEFINE u == [t EXCEPT !.phase = "reenumerating", !.streaming = FALSE]
  <2>1. /\ u \in Session /\ u.phase = "reenumerating" /\ ~u.streaming
        /\ u.backend = s.backend /\ u.device = s.device
    BY <1>1, ZenonT(60) DEF Session
  <2>2. OnGone(s, id) = u
    BY <1>2, <1>4
  <2>3. s.device # None /\ s.backend # "none"
    BY <1>4, NoneIsNoName DEF Shape
  <2> HIDE DEF u
  <2> QED
    BY <2>1, <2>2, <2>3, <1>4 DEF Shape, KeepsDevice, StreamingNow
<1>5. CASE s.device = id /\ ~s.pendingReenum
  <2>1. /\ SetIdle(t) \in Session /\ SetIdle(t).phase = "idle"
        /\ SetIdle(t).backend = "none" /\ SetIdle(t).device = None
        /\ SetIdle(t).streaming = FALSE
    BY <1>1, ZenonT(60) DEF SetIdle, Session
  <2> QED
    BY <1>2, <1>5, <2>1 DEF Shape, KeepsDevice, StreamingNow
<1> QED
  BY <1>3, <1>4, <1>5

LEMMA FailProperties ==
  ASSUME NEW s \in Session, Shape(s)
  PROVE  /\ Fail(s) \in Session /\ Shape(Fail(s))
         /\ Fail(s).phase = "failed" /\ Fail(s).device = s.device
<1> DEFINE t == Fail(s)
<1>1. /\ t \in Session /\ t.phase = "failed" /\ ~t.streaming
      /\ t.device = s.device /\ t.backend = s.backend
  BY DEF Fail, Session
<1> HIDE DEF t
<1>2. Shape(t)
  BY <1>1 DEF Shape, StreamingNow
<1> QED
  BY <1>1, <1>2 DEF t

LEMMA SetStreamProperties ==
  ASSUME NEW s \in Session, Shape(s), NEW on \in BOOLEAN
  PROVE  /\ SetStream(s, on) \in Session /\ Shape(SetStream(s, on))
         /\ SetStream(s, on).phase = s.phase
         /\ SetStream(s, on).device = s.device
         /\ SetStream(s, on).backend = s.backend
         /\ SetStream(s, on).pendingReenum = s.pendingReenum
<1> DEFINE u == [s EXCEPT !.streamUser = IF on THEN "on" ELSE "off"]
           t == RefreshStream(u)
<1>1. /\ u \in Session /\ u.phase = s.phase /\ u.device = s.device
      /\ u.backend = s.backend /\ u.pendingReenum = s.pendingReenum
  BY DEF Session
<1>2. SetStream(s, on) = t
  BY DEF SetStream
<1> HIDE DEF u
<1>3. /\ t \in Session /\ t.phase = u.phase /\ t.device = u.device
      /\ t.backend = u.backend /\ t.pendingReenum = u.pendingReenum
      /\ t.streamUser = u.streamUser /\ t.streaming = StreamingNow(u)
  BY <1>1, RefreshType DEF RefreshStream, Session
<1> HIDE DEF t
<1>4. Shape(t)
  BY <1>1, <1>3 DEF Shape, StreamingNow
<1> QED
  BY <1>1, <1>2, <1>3, <1>4

LEMMA ExpectReenumProperties ==
  ASSUME NEW s \in Session, Shape(s)
  PROVE  /\ ExpectReenum(s) \in Session /\ Shape(ExpectReenum(s))
         /\ ExpectReenum(s).phase = s.phase
         /\ ExpectReenum(s).device = s.device
         /\ ExpectReenum(s).backend = s.backend
         /\ ExpectReenum(s).pendingReenum
         /\ ExpectReenum(s).streaming = s.streaming
         /\ ExpectReenum(s).streamUser = s.streamUser
<1> DEFINE t == ExpectReenum(s)
<1>1. /\ t \in Session /\ t.phase = s.phase /\ t.device = s.device
      /\ t.backend = s.backend /\ t.pendingReenum
      /\ t.streaming = s.streaming /\ t.streamUser = s.streamUser
  BY DEF ExpectReenum, Session
<1> HIDE DEF t
<1>2. Shape(t)
  BY <1>1 DEF Shape, StreamingNow
<1> QED
  BY <1>1, <1>2 DEF t

-----------------------------------------------------------------------------
(* The media backends follow one change of the session.                    *)
LEMMA SyncProperties ==
  ASSUME NEW s \in Session, NEW t \in Session, NEW m \in Media,
         MediaFits(s, m), KeepsDevice(s, t), Shape(t)
  PROVE  /\ MediaSync(t, m) \in Media
         /\ MediaFits(t, MediaSync(t, m))
<1>1. t.phase = "active" => t.device \in Id
  BY DEF Shape, Session
<1>2. MediaSync(t, m) \in Media
  BY <1>1 DEF Media, Session, MediaSync, NoMedia
<1>3. MediaFits(t, MediaSync(t, m))
  BY DEF Media, Session, MediaSync, NoMedia, MediaFits, KeepsDevice, Shape,
         StreamingNow
<1> QED
  BY <1>2, <1>3

-----------------------------------------------------------------------------
(* The queue. *)
GoodQueue(q) == q \in Seq(Cmd) /\ Len(q) <= QMax /\ InOrder(q)

(* A sequence of commands that may follow anything. *)
Starts(cmds) == /\ cmds \in Seq(Cmd) /\ cmds # <<>> /\ InOrder(cmds)
                /\ cmds[1].op = "aoa" => cmds[1].step = ClaimStep

LEMMA PlanProperties ==
  ASSUME NEW id \in Id
  PROVE  /\ Starts(AoaPlan(id))
         /\ Len(AoaPlan(id)) = Steps
         /\ AoaPlan(id)[Steps] = AoaCmd(id, StartStep)
<1> DEFINE p == AoaPlan(id)
<1>1. Steps \in Nat /\ Steps >= 4
  BY ManagerAssumption
<1>2. /\ p \in Seq(Cmd) /\ Len(p) = Steps
      /\ \A i \in 1..Steps : p[i] = AoaCmd(id, i)
  BY <1>1 DEF AoaPlan, AoaCmd, Cmd, AoaCmds
<1>3. \A i \in 1..Steps : p[i].op = "aoa" /\ p[i].id = id /\ p[i].step = i
  BY <1>2 DEF AoaCmd
<1> HIDE DEF p
<1>4. InOrder(p)
  BY <1>1, <1>2, <1>3 DEF InOrder, ClaimStep
<1>5. p # <<>> /\ p[1].step = ClaimStep
  BY <1>1, <1>2, <1>3 DEF ClaimStep
<1> QED
  BY <1>1, <1>2, <1>4, <1>5 DEF Starts, StartStep, p

LEMMA EnqueueProperties ==
  ASSUME GoodQueue(queue), NEW cmds, Starts(cmds)
  PROVE  /\ GoodQueue(Enqueue(cmds))
         /\ Len(queue) <= Len(Enqueue(cmds))
         /\ \A i \in 1..Len(queue) : Enqueue(cmds)[i] = queue[i]
         /\ Len(cmds) <= Room =>
              /\ Len(Enqueue(cmds)) = Len(queue) + Len(cmds)
              /\ Enqueue(cmds)[Len(queue) + Len(cmds)] = cmds[Len(cmds)]
<1> DEFINE n == IF Len(cmds) <= Room THEN Len(cmds) ELSE Room
           c == SubSeq(cmds, 1, n)
           e == queue \o c
<1>1. QMax \in Nat /\ Room \in Nat /\ Room = QMax - Len(queue)
  BY ManagerAssumption DEF GoodQueue, Room
<1>2. /\ cmds \in Seq(Cmd) /\ Len(cmds) \in Nat /\ Len(cmds) >= 1
      /\ queue \in Seq(Cmd) /\ Len(queue) \in Nat
  BY DEF Starts, GoodQueue
<1>3. n \in 0..Len(cmds) /\ n <= Room /\ (Len(cmds) <= Room => n = Len(cmds))
  BY <1>1, <1>2
<1> HIDE DEF n
<1>4. c \in Seq(Cmd) /\ Len(c) = n /\ \A i \in 1..n : c[i] = cmds[i]
  BY <1>2, <1>3
<1> HIDE DEF c
<1>5. /\ e \in Seq(Cmd) /\ Len(e) = Len(queue) + n
      /\ \A i \in 1..Len(queue) : e[i] = queue[i]
      /\ \A i \in 1..n : e[Len(queue) + i] = cmds[i]
  BY <1>2, <1>3, <1>4, SMTT(30)
<1> HIDE DEF e
<1>6. InOrder(e)
  <2> SUFFICES ASSUME NEW i \in 2..Len(e),
                      e[i].op = "aoa", e[i].step # ClaimStep
               PROVE  /\ e[i - 1].op = "aoa" /\ e[i - 1].id = e[i].id
                      /\ e[i - 1].step = e[i].step - 1
    BY DEF InOrder
  <2>1. CASE i <= Len(queue)
    <3>1. i \in 2..Len(queue) /\ e[i] = queue[i] /\ e[i - 1] = queue[i - 1]
      BY <1>2, <1>5, <2>1
    <3> QED
      BY <3>1 DEF GoodQueue, InOrder
  <2>2. CASE i = Len(queue) + 1
    <3>1. e[i] = cmds[1]
      BY <1>2, <1>3, <1>5, <2>2
    <3> QED
      BY <3>1 DEF Starts
  <2>3. CASE i > Len(queue) + 1
    <3> DEFINE j == i - Len(queue)
    <3>1. j \in 2..n /\ i = Len(queue) + j
      BY <1>2, <1>3, <1>5, <2>3
    <3> HIDE DEF j
    <3>2. e[i] = cmds[j] /\ e[i - 1] = cmds[j - 1] /\ j \in 2..Len(cmds)
      <4>1. i - 1 = Len(queue) + (j - 1) /\ j - 1 \in 1..n
        BY <1>2, <1>3, <3>1
      <4>2. j \in 1..n /\ j \in 2..Len(cmds)
        BY <1>2, <1>3, <3>1
      <4> QED
        BY <1>5, <3>1, <4>1, <4>2
    <3> QED
      BY <3>2 DEF Starts, InOrder
  <2> QED
    BY <1>2, <2>1, <2>2, <2>3
<1>7. GoodQueue(e)
  BY <1>1, <1>2, <1>3, <1>5, <1>6 DEF GoodQueue
<1>8. /\ Len(queue) <= Len(e)
      /\ Len(cmds) <= Room =>
           /\ Len(e) = Len(queue) + Len(cmds)
           /\ e[Len(queue) + Len(cmds)] = cmds[Len(cmds)]
  <2>1. Len(queue) <= Len(e)
    BY <1>2, <1>3, <1>5
  <2>2. Len(cmds) <= Room => n = Len(cmds) /\ n \in 1..n
    BY <1>2, <1>3
  <2> QED
    BY <1>5, <2>1, <2>2
<1>9. e = Enqueue(cmds)
  BY DEF Enqueue, e, c, n
<1> QED
  BY <1>5, <1>7, <1>8, <1>9

LEMMA TailProperties ==
  ASSUME NEW q, GoodQueue(q), q # <<>>
  PROVE  /\ GoodQueue(Tail(q)) /\ Len(Tail(q)) = Len(q) - 1
         /\ \A i \in 1..Len(Tail(q)) : Tail(q)[i] = q[i + 1]
<1>1. q \in Seq(Cmd) /\ Len(q) \in Nat /\ QMax \in Nat
  BY ManagerAssumption DEF GoodQueue
<1>2. /\ Tail(q) \in Seq(Cmd) /\ Len(Tail(q)) = Len(q) - 1
      /\ \A i \in 1..Len(Tail(q)) : Tail(q)[i] = q[i + 1]
  BY <1>1
<1>3. ASSUME NEW i \in 2..Len(Tail(q))
      PROVE  /\ i + 1 \in 2..Len(q)
             /\ Tail(q)[i] = q[i + 1] /\ Tail(q)[i - 1] = q[(i + 1) - 1]
  BY <1>1, <1>2
<1>4. InOrder(Tail(q))
  BY <1>3 DEF InOrder, GoodQueue
<1> QED
  BY <1>1, <1>2, <1>4 DEF GoodQueue

(* What drop_aoa_queued leaves holds no step of a handshake. *)
LEMMA DropProperties ==
  ASSUME NEW q, GoodQueue(q)
  PROVE  GoodQueue(DropAoa(q))
<1> DEFINE K == {i \in 1..Len(q) : q[i].op # "aoa"}
           d == Pick(q, K)
<1>1. q \in Seq(Cmd) /\ Len(q) \in Nat /\ QMax \in Nat /\ Len(q) <= QMax
  BY ManagerAssumption DEF GoodQueue
<1>2. K \in SUBSET (1..Len(q)) /\ \A i \in K : q[i].op # "aoa"
  OBVIOUS
<1> HIDE DEF K
<1>3. /\ d \in Seq(Cmd) /\ Len(d) <= Len(q)
      /\ \A j \in 1..Len(d) : Ranked(K)[j] \in K /\ d[j] = q[Ranked(K)[j]]
  BY <1>1, <1>2, PickProperties
<1> HIDE DEF d
<1>4. \A j \in 1..Len(d) : d[j].op # "aoa"
  BY <1>2, <1>3
<1>5. InOrder(d)
  BY <1>3, <1>4 DEF InOrder
<1>6. Len(d) <= QMax
  BY <1>1, <1>3
<1> QED
  BY <1>3, <1>5, <1>6 DEF GoodQueue, DropAoa, d, K

-----------------------------------------------------------------------------
(* The table of devices lists an id once, and forget_dev removes it. *)
Unique(t) == \A i, j \in 1..Len(t) : t[i].id = t[j].id => i = j

NoPhone(t) == \A i \in 1..Len(t) : ~Projects(t[i])

Table(t) == t \in Seq(Devices) /\ Len(t) <= KnownMax /\ Unique(t)

LEMMA RememberProperties ==
  ASSUME Table(known), NEW dev \in Devices
  PROVE  /\ Table(Remember(dev))
         /\ NoPhone(known) /\ ~Projects(dev) => NoPhone(Remember(dev))
<1> DEFINE t == Remember(dev)
<1>1. KnownMax \in Nat /\ known \in Seq(Devices) /\ Len(known) \in Nat
  BY ManagerAssumption DEF Table
<1>2. CASE \E i \in 1..Len(known) : known[i].id = dev.id
  <2>1. t = [i \in 1..Len(known) |->
               IF known[i].id = dev.id THEN dev ELSE known[i]]
    BY <1>2 DEF Remember
  <2> HIDE DEF t
  <2>2. t \in Seq(Devices) /\ Len(t) = Len(known)
    BY <1>1, <2>1
  <2>3. \A i \in 1..Len(t) : t[i] = IF known[i].id = dev.id THEN dev
                                                          ELSE known[i]
    BY <2>1, <2>2
  <2>4. \A i \in 1..Len(t) : t[i].id = known[i].id
    BY <2>3
  <2>5. Unique(t)
    BY <2>2, <2>4 DEF Unique, Table
  <2> QED
    BY <1>1, <2>2, <2>3, <2>5 DEF Table, NoPhone, t
<1>3. CASE /\ ~ \E i \in 1..Len(known) : known[i].id = dev.id
           /\ Len(known) < KnownMax
  <2>1. t = Append(known, dev)
    BY <1>3 DEF Remember
  <2> HIDE DEF t
  <2>2. /\ t \in Seq(Devices) /\ Len(t) = Len(known) + 1
        /\ \A i \in 1..Len(known) : t[i] = known[i]
        /\ t[Len(known) + 1] = dev
    BY <1>1, <2>1
  <2>3. Unique(t)
    BY <1>1, <1>3, <2>2 DEF Unique, Table
  <2>4. Len(t) <= KnownMax
    BY <1>1, <1>3, <2>2
  <2>5. NoPhone(known) /\ ~Projects(dev) => NoPhone(t)
    BY <1>1, <2>2 DEF NoPhone
  <2> QED
    BY <2>2, <2>3, <2>4, <2>5 DEF Table, t
<1>4. CASE /\ ~ \E i \in 1..Len(known) : known[i].id = dev.id
           /\ ~ (Len(known) < KnownMax)
  BY <1>4 DEF Remember
<1> QED
  BY <1>2, <1>3, <1>4

LEMMA ForgetProperties ==
  ASSUME Table(known), NEW id
  PROVE  /\ Table(Forget(id))
         /\ \A i \in 1..Len(Forget(id)) : Forget(id)[i].id # id
<1> DEFINE t == Forget(id)
           n == Len(known)
<1>1. KnownMax \in Nat /\ known \in Seq(Devices) /\ n \in Nat
  BY ManagerAssumption DEF Table
<1>2. CASE \E i \in 1..n : known[i].id = id
  <2>1. t = [i \in 1..n - 1 |-> IF known[i].id = id THEN known[n] ELSE known[i]]
    BY <1>2 DEF Forget
  <2>2. n >= 1
    BY <1>1, <1>2
  <2> HIDE DEF t
  <2>3. t \in Seq(Devices) /\ Len(t) = n - 1
    BY <1>1, <2>1, <2>2
  <2>4. \A i \in 1..n - 1 : t[i] = IF known[i].id = id THEN known[n]
                                                      ELSE known[i]
    BY <2>1
  <2>5. \A i, j \in 1..n : known[i].id = known[j].id => i = j
    BY DEF Table, Unique
  <2>6. \A i \in 1..n - 1 : i \in 1..n /\ n \in 1..n /\ i # n
    BY <1>1, <2>2
  <2>7. \A i \in 1..n - 1 : t[i].id # id
    BY <2>4, <2>5, <2>6
  <2>8. \A i, j \in 1..n - 1 : t[i].id = t[j].id => i = j
    BY <2>4, <2>5, <2>6
  <2>9. Len(t) <= KnownMax
    BY <1>1, <2>3 DEF Table
  <2> QED
    BY <2>3, <2>7, <2>8, <2>9 DEF Table, Unique, t
<1>3. CASE ~ \E i \in 1..n : known[i].id = id
  BY <1>3 DEF Forget
<1> QED
  BY <1>2, <1>3

-----------------------------------------------------------------------------
(* One device is admitted: the session takes it, parks it or ignores it,   *)
(* the media backends follow, and a handshake is queued as a whole if the  *)
(* session waits for one.                                                  *)
LEMMA AdmitProperties ==
  ASSUME NEW STATE s, s \in Session, Shape(s),
         NEW STATE m, m \in Media, MediaFits(s, m),
         NEW STATE dev, dev \in Devices, GoodQueue(queue), linkUp \subseteq Net,
         Admit(s, m, dev)
  PROVE  /\ session' \in Session /\ Shape(session')
         /\ media' \in Media /\ MediaFits(session', media')
         /\ GoodQueue(queue') /\ Len(queue) <= Len(queue')
         /\ \A i \in 1..Len(queue) : queue'[i] = queue[i]
         /\ linkUp' \subseteq Net
         /\ KeepsOwner(s, session')
         /\ session'.phase = "idle" => s.phase = "idle" /\ ~Projects(dev)
         /\ session'.phase = "aoa" =>
              \/ /\ Len(queue) < Len(queue')
                 /\ queue'[Len(queue')] = AoaCmd(session'.device, StartStep)
              \/ /\ s.phase = "aoa"
                 /\ session'.device = s.device
                 /\ session'.pendingReenum = s.pendingReenum
<1> DEFINE s1 == OnDevice(s, dev)
           m1 == MediaSync(s1, m)
           s2 == Fail(s1)
           m2 == MediaSync(s2, m1)
<1>1. dev \in Device /\ dev.id \in Id /\ dev.net \in Net \cup {None}
  BY ManagerAssumption DEF Device
<1>2. /\ s1 \in Session /\ Shape(s1) /\ KeepsDevice(s, s1) /\ KeepsOwner(s, s1)
      /\ s1.phase = "idle" => s.phase = "idle" /\ ~Projects(dev)
      /\ StartsAoa(s, dev) => s1.device = dev.id
      /\ s1.phase = "aoa"
           => \/ StartsAoa(s, dev)
              \/ /\ s.phase = "aoa" /\ s1.device = s.device
                 /\ s1.pendingReenum = s.pendingReenum
  BY <1>1, OnDeviceProperties
<1>3. \/ /\ StartsAoa(s, dev)
         /\ queue' = Enqueue(AoaPlan(dev.id))
         /\ IF Steps <= Room THEN session' = s1 /\ media' = m1
                             ELSE session' = s2 /\ media' = m2
         /\ linkUp' = linkUp
      \/ /\ ~StartsAoa(s, dev) /\ session' = s1 /\ media' = m1
         /\ linkUp' = IF BringsLinkUp(s, dev) /\ dev.net # None
                      THEN linkUp \cup {dev.net} ELSE linkUp
         /\ queue' = queue
  BY DEF Admit
<1> HIDE DEF s1
<1>4. m1 \in Media /\ MediaFits(s1, m1)
  BY <1>2, SyncProperties
<1> HIDE DEF m1
<1>5. /\ s2 \in Session /\ Shape(s2) /\ s2.phase = "failed"
      /\ s2.device = s1.device
  BY <1>2, FailProperties
<1> HIDE DEF s2
<1>6. m2 \in Media /\ MediaFits(s2, m2)
  <2>1. KeepsDevice(s1, s2)
    BY <1>5 DEF KeepsDevice
  <2> QED
    BY <1>2, <1>4, <1>5, <2>1, SyncProperties
<1> HIDE DEF m2
<1>7. CASE StartsAoa(s, dev)
  <2>1. /\ GoodQueue(queue') /\ Len(queue) <= Len(queue')
        /\ \A i \in 1..Len(queue) : queue'[i] = queue[i]
        /\ Steps <= Room =>
             /\ Len(queue') = Len(queue) + Steps
             /\ queue'[Len(queue')] = AoaCmd(dev.id, StartStep)
    BY <1>1, <1>3, <1>7, PlanProperties, EnqueueProperties
  <2>2. Len(queue) < Len(queue) + Steps
    BY ManagerAssumption DEF GoodQueue
  <2>3. CASE Steps <= Room
    <3>1. session' = s1 /\ media' = m1 /\ linkUp' = linkUp
      BY <1>3, <1>7, <2>3
    <3> QED
      BY <1>2, <1>4, <1>7, <2>1, <2>2, <2>3, <3>1
  <2>4. CASE ~ (Steps <= Room)
    <3>1. session' = s2 /\ media' = m2 /\ linkUp' = linkUp
      BY <1>3, <1>7, <2>4
    <3>2. KeepsOwner(s, s2)
      BY <1>2, <1>5 DEF KeepsOwner
    <3> QED
      BY <1>5, <1>6, <2>1, <3>1, <3>2
  <2> QED
    BY <2>3, <2>4
<1>8. CASE ~StartsAoa(s, dev)
  <2>1. session' = s1 /\ media' = m1 /\ queue' = queue
    BY <1>3, <1>8
  <2>2. linkUp' \subseteq Net
    BY <1>1, <1>3, <1>8
  <2>3. Len(queue) <= Len(queue)
    BY DEF GoodQueue
  <2> QED
    BY <1>2, <1>4, <1>8, <2>1, <2>2, <2>3
<1> QED
  BY <1>7, <1>8

-----------------------------------------------------------------------------
(* The inductive invariant, and the invariants of Manager it implies. *)
Inv == /\ session \in Session /\ Shape(session)
       /\ Table(known)
       /\ GoodQueue(queue)
       /\ waiting \in BOOLEAN /\ conn \in BOOLEAN
       /\ media \in Media /\ MediaFits(session, media)
       /\ linkUp \subseteq Net
       /\ session.phase = "idle" => NoPhone(known)
       /\ ~conn => queue = <<>>
       /\ waiting => queue # <<>>

LEMMA InvImplies ==
  Inv => /\ TypeOK /\ MediaFollowsSession /\ IdleMeansNoPhone
         /\ QueueFollowsConnection /\ PlanInOrder
BY DEF Inv, TypeOK, Shape, Table, GoodQueue, MediaFollowsSession,
       IdleMeansNoPhone, QueueFollowsConnection, PlanInOrder, NoPhone

LEMMA InitInv == Init => Inv
<1> SUFFICES ASSUME Init PROVE Inv
  OBVIOUS
<1>1. SessionInit \in Session /\ Shape(SessionInit)
  BY DEF SessionInit, Session, Shape, StreamingNow
<1>2. MediaFits(SessionInit, NoMedia) /\ NoMedia \in Media
  BY DEF MediaFits, NoMedia, Media, SessionInit
<1>3. KnownMax \in Nat /\ QMax \in Nat
  BY ManagerAssumption
<1>4. Table(<<>>) /\ NoPhone(<<>>)
  BY <1>3 DEF Table, Unique, NoPhone
<1>5. GoodQueue(<<>>)
  BY <1>3 DEF GoodQueue, InOrder
<1> QED
  BY <1>1, <1>2, <1>4, <1>5 DEF Init, Inv

(* The head of the queue is untouched by what is appended. *)
LEMMA HeadKept ==
  ASSUME GoodQueue(queue), GoodQueue(queue'), Len(queue) <= Len(queue'),
         \A i \in 1..Len(queue) : queue'[i] = queue[i], queue # <<>>
  PROVE  queue' # <<>> /\ Head(queue') = Head(queue)
BY DEF GoodQueue

LEMMA DevLineStep ==
  ASSUME Inv, NEW dev \in Devices, DevLine(dev)
  PROVE  Inv' /\ KeepsOwnDevice /\ KeepsHead
<1>1. /\ conn /\ known' = Remember(dev) /\ Admit(session, media, dev)
      /\ waiting' = waiting /\ conn' = conn
  BY DEF DevLine
<1>2. /\ session \in Session /\ Shape(session) /\ Table(known)
      /\ GoodQueue(queue) /\ media \in Media /\ MediaFits(session, media)
      /\ linkUp \subseteq Net /\ waiting \in BOOLEAN /\ conn \in BOOLEAN
      /\ session.phase = "idle" => NoPhone(known)
      /\ waiting => queue # <<>>
  BY DEF Inv
<1>3. /\ session' \in Session /\ Shape(session')
      /\ media' \in Media /\ MediaFits(session', media')
      /\ GoodQueue(queue') /\ Len(queue) <= Len(queue')
      /\ \A i \in 1..Len(queue) : queue'[i] = queue[i]
      /\ linkUp' \subseteq Net
      /\ KeepsOwner(session, session')
      /\ session'.phase = "idle" => session.phase = "idle" /\ ~Projects(dev)
  BY <1>1, <1>2, AdmitProperties
<1>4. /\ Table(known')
      /\ session'.phase = "idle" => NoPhone(known')
  BY <1>1, <1>2, <1>3, RememberProperties
<1>5. queue # <<>> => queue' # <<>> /\ Head(queue') = Head(queue)
  BY <1>2, <1>3, HeadKept
<1>6. Inv'
  BY <1>1, <1>2, <1>3, <1>4, <1>5 DEF Inv
<1>7. KeepsOwnDevice
  BY <1>3 DEF KeepsOwnDevice, KeepsOwner
<1>8. KeepsHead
  BY <1>2, <1>5 DEF KeepsHead
<1> QED
  BY <1>6, <1>7, <1>8

(* managerd.c and session.c list the same kinds. *)
LEMMA SameKinds ==
  ASSUME NEW dev
  PROVE  KindIsProjection(dev) <=> Projects(dev)
BY DEF KindIsProjection, Projects

LEMMA GoneLineStep ==
  ASSUME Inv, NEW id \in Id, GoneLine(id)
  PROVE  Inv' /\ KeepsOwnDevice /\ KeepsHead
<1> DEFINE s1 == OnGone(session, id)
           m1 == MediaSync(s1, media)
           t  == Forget(id)
<1>1. /\ conn /\ known' = t /\ waiting' = waiting /\ conn' = conn
      /\ \/ \E i \in 1..Len(t) : /\ s1.phase = "idle"
                                 /\ FirstPhone(t, i)
                                 /\ Admit(s1, m1, t[i])
         \/ /\ s1.phase # "idle" \/ \A i \in 1..Len(t) : ~Projects(t[i])
            /\ session' = s1 /\ media' = m1
            /\ queue' = queue /\ linkUp' = linkUp
  BY SameKinds DEF GoneLine
<1>2. /\ session \in Session /\ Shape(session) /\ Table(known)
      /\ GoodQueue(queue) /\ media \in Media /\ MediaFits(session, media)
      /\ linkUp \subseteq Net /\ waiting \in BOOLEAN /\ conn \in BOOLEAN
      /\ waiting => queue # <<>>
  BY DEF Inv
<1>3. Table(t) /\ \A i \in 1..Len(t) : t[i].id # id
  BY <1>2, ForgetProperties
<1>4. /\ s1 \in Session /\ Shape(s1) /\ KeepsDevice(session, s1)
      /\ session.device # id =>
           s1.device = session.device /\ s1.phase = session.phase
  BY <1>2, OnGoneProperties
<1> HIDE DEF s1, t
<1>5. m1 \in Media /\ MediaFits(s1, m1)
  BY <1>2, <1>4, SyncProperties
<1> HIDE DEF m1
<1>6. /\ session' \in Session /\ Shape(session')
      /\ media' \in Media /\ MediaFits(session', media')
      /\ GoodQueue(queue') /\ Len(queue) <= Len(queue')
      /\ \A i \in 1..Len(queue) : queue'[i] = queue[i]
      /\ linkUp' \subseteq Net
      /\ session'.phase = "idle" => NoPhone(t)
      /\ s1.phase = "idle" \/ session' = s1
  <2>1. CASE \E i \in 1..Len(t) : /\ s1.phase = "idle"
                                 /\ FirstPhone(t, i)
                                 /\ Admit(s1, m1, t[i])
    <3>1. PICK i \in 1..Len(t) : /\ s1.phase = "idle"
                                 /\ FirstPhone(t, i)
                                 /\ Admit(s1, m1, t[i])
      BY <2>1
    <3>2. t[i] \in Devices /\ Projects(t[i])
      BY <1>3, <3>1, SameKinds DEF Table, FirstPhone
    <3> QED
      BY <1>2, <1>4, <1>5, <3>1, <3>2, AdmitProperties
  <2>2. CASE /\ s1.phase # "idle" \/ \A i \in 1..Len(t) : ~Projects(t[i])
             /\ session' = s1 /\ media' = m1
             /\ queue' = queue /\ linkUp' = linkUp
    <3>1. Len(queue) <= Len(queue)
      BY <1>2 DEF GoodQueue
    <3> QED
      BY <1>2, <1>4, <1>5, <2>2, <3>1 DEF NoPhone
  <2> QED
    BY <1>1, <2>1, <2>2
<1>7. queue # <<>> => queue' # <<>> /\ Head(queue') = Head(queue)
  BY <1>2, <1>6, HeadKept
<1>8. Inv'
  BY <1>1, <1>2, <1>3, <1>6, <1>7 DEF Inv
<1>9. KeepsOwnDevice
  BY <1>1, <1>3, <1>4, <1>6 DEF KeepsOwnDevice
<1>10. KeepsHead
  BY <1>2, <1>7 DEF KeepsHead
<1> QED
  BY <1>8, <1>9, <1>10

LEMMA ReplyLineStep ==
  ASSUME Inv, NEW ok \in BOOLEAN, NEW protocol \in BOOLEAN,
         ReplyLine(ok, protocol)
  PROVE  Inv' /\ KeepsOwnDevice /\ KeepsHead
<1>1. /\ session \in Session /\ Shape(session) /\ Table(known)
      /\ GoodQueue(queue) /\ media \in Media /\ MediaFits(session, media)
      /\ linkUp \subseteq Net /\ conn \in BOOLEAN
      /\ session.phase = "idle" => NoPhone(known)
  BY DEF Inv
<1>2. /\ conn /\ queue # <<>> /\ waiting' = FALSE
      /\ known' = known /\ conn' = conn /\ linkUp' = linkUp
  BY DEF ReplyLine
<1>3. \/ /\ queue' = DropAoa(Tail(queue))
         /\ session' = Fail(session) /\ media' = MediaSync(Fail(session), media)
      \/ queue' = Tail(queue) /\ session' = session /\ media' = media
  BY Zenon DEF ReplyLine
<1>4. GoodQueue(Tail(queue)) /\ GoodQueue(DropAoa(Tail(queue)))
  BY <1>1, <1>2, TailProperties, DropProperties
<1>5. /\ Fail(session) \in Session /\ Shape(Fail(session))
      /\ Fail(session).phase = "failed"
      /\ Fail(session).device = session.device
  BY <1>1, FailProperties
<1>6. /\ MediaSync(Fail(session), media) \in Media
      /\ MediaFits(Fail(session), MediaSync(Fail(session), media))
  <2>1. KeepsDevice(session, Fail(session))
    BY <1>5 DEF KeepsDevice
  <2> QED
    BY <1>1, <1>5, <2>1, SyncProperties
<1>7. /\ session' \in Session /\ Shape(session')
      /\ media' \in Media /\ MediaFits(session', media')
      /\ GoodQueue(queue') /\ session'.device = session.device
      /\ session'.phase = "idle" => NoPhone(known)
  BY <1>1, <1>3, <1>4, <1>5, <1>6
<1>8. Inv'
  BY <1>1, <1>2, <1>7 DEF Inv
<1> QED
  BY <1>2, <1>7, <1>8 DEF KeepsOwnDevice, KeepsHead

LEMMA PumpStep ==
  ASSUME Inv, NEW sent \in BOOLEAN, Pump(sent)
  PROVE  Inv' /\ KeepsOwnDevice /\ KeepsHead
<1>1. /\ session \in Session /\ Shape(session) /\ Table(known)
      /\ GoodQueue(queue) /\ media \in Media /\ MediaFits(session, media)
      /\ linkUp \subseteq Net /\ conn \in BOOLEAN
      /\ session.phase = "idle" => NoPhone(known)
  BY DEF Inv
<1>2. /\ conn /\ ~waiting /\ queue # <<>> /\ waiting' = sent
      /\ known' = known /\ conn' = conn /\ linkUp' = linkUp
      /\ queue' = queue /\ media' = media
      /\ session' \in {session, ExpectReenum(session)}
  BY DEF Pump
<1>3. /\ session' \in Session /\ Shape(session')
      /\ session'.phase = session.phase /\ session'.device = session.device
      /\ MediaFits(session', media)
  BY <1>1, <1>2, ExpectReenumProperties DEF MediaFits
<1>4. Inv'
  BY <1>1, <1>2, <1>3 DEF Inv
<1> QED
  BY <1>2, <1>3, <1>4 DEF KeepsOwnDevice, KeepsHead

LEMMA StreamLineStep ==
  ASSUME Inv, NEW on \in BOOLEAN, StreamLine(on)
  PROVE  Inv' /\ KeepsOwnDevice /\ KeepsHead
<1> DEFINE s1 == SetStream(session, on)
<1>1. /\ session \in Session /\ Shape(session) /\ Table(known)
      /\ GoodQueue(queue) /\ media \in Media /\ MediaFits(session, media)
      /\ linkUp \subseteq Net /\ conn \in BOOLEAN /\ waiting \in BOOLEAN
      /\ session.phase = "idle" => NoPhone(known)
      /\ ~conn => queue = <<>>
      /\ waiting => queue # <<>>
  BY DEF Inv
<1>2. /\ session' = s1 /\ media' = MediaSync(s1, media)
      /\ known' = known /\ queue' = queue /\ waiting' = waiting
      /\ conn' = conn /\ linkUp' = linkUp
  BY DEF StreamLine
<1>3. /\ s1 \in Session /\ Shape(s1) /\ s1.phase = session.phase
      /\ s1.device = session.device
  BY <1>1, SetStreamProperties
<1> HIDE DEF s1
<1>4. MediaSync(s1, media) \in Media /\ MediaFits(s1, MediaSync(s1, media))
  <2>1. KeepsDevice(session, s1)
    BY <1>3 DEF KeepsDevice
  <2> QED
    BY <1>1, <1>3, <2>1, SyncProperties
<1>5. Inv'
  BY <1>1, <1>2, <1>3, <1>4 DEF Inv
<1> QED
  BY <1>1, <1>2, <1>3, <1>5 DEF KeepsOwnDevice, KeepsHead

(* One command is appended, by a client or by a new connection. *)
LEMMA AppendStep ==
  ASSUME Inv, NEW cmd \in {Sub} \cup SimLines, queue' = Enqueue(<<cmd>>),
         conn', waiting' = waiting,
         UNCHANGED <<session, known, media, linkUp>>
  PROVE  Inv' /\ KeepsOwnDevice /\ KeepsHead
<1>1. /\ session \in Session /\ Shape(session) /\ Table(known)
      /\ GoodQueue(queue) /\ media \in Media /\ MediaFits(session, media)
      /\ linkUp \subseteq Net /\ waiting \in BOOLEAN
      /\ session.phase = "idle" => NoPhone(known)
      /\ waiting => queue # <<>>
  BY DEF Inv
<1>2. Starts(<<cmd>>)
  <2>1. cmd.op # "aoa" /\ cmd \in Cmd
    BY ManagerAssumption DEF PlainCmds, Cmd, Sub
  <2> QED
    BY <2>1 DEF Starts, InOrder
<1>3. /\ GoodQueue(queue') /\ Len(queue) <= Len(queue')
      /\ \A i \in 1..Len(queue) : queue'[i] = queue[i]
  BY <1>1, <1>2, EnqueueProperties
<1>4. queue # <<>> => queue' # <<>> /\ Head(queue') = Head(queue)
  BY <1>1, <1>3, HeadKept
<1>5. Inv'
  BY <1>1, <1>3, <1>4 DEF Inv
<1> QED
  BY <1>1, <1>4, <1>5 DEF KeepsOwnDevice, KeepsHead

(* A step of the daemon, with the properties of the step itself. *)
LEMMA NextStep == Inv /\ [Next]_vars => Inv' /\ [KeepsOwnDevice /\ KeepsHead]_vars
<1> SUFFICES ASSUME Inv, [Next]_vars
             PROVE  Inv' /\ [KeepsOwnDevice /\ KeepsHead]_vars
  OBVIOUS
<1>1. CASE \E dev \in Devices : DevLine(dev)
  BY <1>1, DevLineStep
<1>2. CASE \E id \in Id : GoneLine(id)
  BY <1>2, GoneLineStep
<1>3. CASE \E ok, protocol \in BOOLEAN : ReplyLine(ok, protocol)
  BY <1>3, ReplyLineStep
<1>4. CASE \E on \in BOOLEAN : StreamLine(on)
  BY <1>4, StreamLineStep
<1>5. CASE \E cmd \in SimLines : SimLine(cmd)
  <2>1. PICK cmd \in SimLines : SimLine(cmd)
    BY <1>5
  <2>2. cmd \in {Sub} \cup SimLines
    OBVIOUS
  <2>3. Append(queue, cmd) = Enqueue(<<cmd>>)
    <3>1. /\ queue \in Seq(Cmd) /\ Room > 0 /\ Len(queue) \in Nat
          /\ QMax \in Nat
      BY <2>1, ManagerAssumption DEF Inv, GoodQueue, SimLine
    <3>2. Len(<<cmd>>) = 1 /\ Len(<<cmd>>) <= Room
      BY <3>1 DEF Room
    <3>3. Enqueue(<<cmd>>) = queue \o SubSeq(<<cmd>>, 1, 1)
      BY <3>2 DEF Enqueue
    <3>4. cmd \in Cmd
      BY <2>2 DEF Cmd
    <3>5. SubSeq(<<cmd>>, 1, 1) = <<cmd>>
      <4>1. <<cmd>> \in Seq(Cmd) /\ Len(<<cmd>>) = 1
        BY <3>4
      <4> QED
        BY <4>1, SubSeqFull
    <3> QED
      BY <3>1, <3>3, <3>4, <3>5
  <2> QED
    BY <2>1, <2>2, <2>3, AppendStep DEF SimLine
<1>6. CASE \E sent \in BOOLEAN : Pump(sent)
  BY <1>6, PumpStep
<1>7. CASE Connect
  <2>1. Sub \in {Sub} \cup SimLines
    OBVIOUS
  <2> QED
    BY <1>7, <2>1, AppendStep DEF Connect
<1>8. CASE CloseDriver
  <2>1. GoodQueue(<<>>)
    BY ManagerAssumption DEF GoodQueue, InOrder
  <2>2. Inv'
    BY <1>8, <2>1 DEF CloseDriver, Inv
  <2>3. KeepsOwnDevice /\ KeepsHead
    BY <1>8 DEF CloseDriver, KeepsOwnDevice, KeepsHead
  <2> QED
    BY <2>2, <2>3
<1>9. CASE UNCHANGED vars
  BY <1>9 DEF vars, Inv
<1> QED
  BY <1>1, <1>2, <1>3, <1>4, <1>5, <1>6, <1>7, <1>8, <1>9
     DEF Next, Connected, DriverLine, ClientLine

-----------------------------------------------------------------------------
(* The invariant holds in every reachable state, whatever the devices and  *)
(* however the driver's lines, replies and hang-ups are interleaved.       *)
THEOREM Invariance == Spec => []Inv
<1>1. Init => Inv
  BY InitInv
<1>2. Inv /\ [Next]_vars => Inv'
  BY NextStep
<1> QED
  BY <1>1, <1>2, PTL DEF Spec

(* The globals of the daemon keep their types, the queue and the table of  *)
(* devices stay within QMAX and KNOWN_MAX slots.                           *)
THEOREM TypeCorrect == Spec => []TypeOK
BY Invariance, InvImplies, PTL

(* At most one media backend lives, and it is the active session's.        *)
THEOREM MediaSafe == Spec => []MediaFollowsSession
BY Invariance, InvImplies, PTL

(* The session is never left idle while a known phone waits for it.        *)
THEOREM NoPhoneForgotten == Spec => []IdleMeansNoPhone
BY Invariance, InvImplies, PTL

(* A reply is awaited only for the head of a live connection's queue.      *)
THEOREM QueueSafe == Spec => []QueueFollowsConnection
BY Invariance, InvImplies, PTL

(* The steps of a handshake are queued in their order, without gaps.       *)
THEOREM PlanSafe == Spec => []PlanInOrder
BY Invariance, InvImplies, PTL

(* No other device takes over a session in progress. *)
THEOREM NeverPreempts == Spec => NoPreemption
<1>1. Inv /\ [Next]_vars => [KeepsOwnDevice]_vars
  BY NextStep
<1> QED
  BY <1>1, Invariance, PTL DEF Spec, NoPreemption

(* A command that waits for its reply stays at the head of the queue. *)
THEOREM HeadStays == Spec => HeadStaysWhileWaiting
<1>1. Inv /\ [Next]_vars => [KeepsHead]_vars
  BY NextStep
<1> QED
  BY <1>1, Invariance, PTL DEF Spec, HeadStaysWhileWaiting

-----------------------------------------------------------------------------
(* With a driver that stays up.  HandshakePending is strengthened: a START *)
(* that was sent does not count, because sending it marks the session.     *)
Pending ==
  session.phase = "aoa" =>
    \/ session.pendingReenum
    \/ \E i \in 1..Len(queue) : /\ waiting => i > 1
                               /\ queue[i] = AoaCmd(session.device, StartStep)

LEMMA PendingImplies == Pending => HandshakePending
BY DEF Pending, HandshakePending

(* The session keeps what Pending reads of it, and the queue grows at its  *)
(* end only.                                                               *)
LEMMA PendingKept ==
  ASSUME Pending, GoodQueue(queue), Len(queue) <= Len(queue'),
         GoodQueue(queue'), waiting' = waiting,
         \A i \in 1..Len(queue) : queue'[i] = queue[i],
         session.phase = "aoa", session'.device = session.device,
         session'.pendingReenum = session.pendingReenum
  PROVE  Pending'
<1>1. Len(queue) \in Nat /\ Len(queue') \in Nat
  BY DEF GoodQueue
<1>2. CASE session.pendingReenum
  BY <1>2 DEF Pending
<1>3. CASE ~session.pendingReenum
  <2>1. PICK i \in 1..Len(queue) : /\ waiting => i > 1
                                   /\ queue[i] = AoaCmd(session.device, StartStep)
    BY <1>3 DEF Pending
  <2>2. i \in 1..Len(queue') /\ queue'[i] = queue[i]
    BY <1>1
  <2>3. queue'[i] = AoaCmd(session'.device, StartStep)
    BY <2>1, <2>2
  <2> QED
    BY <2>1, <2>2, <2>3 DEF Pending
<1> QED
  BY <1>2, <1>3

(* A handshake was queued behind everything else. *)
LEMMA PendingNew ==
  ASSUME GoodQueue(queue), GoodQueue(queue'),
         waiting' => queue # <<>>, Len(queue) < Len(queue'),
         queue'[Len(queue')] = AoaCmd(session'.device, StartStep)
  PROVE  Pending'
<1> DEFINE i == Len(queue')
<1>1. /\ Len(queue) \in Nat /\ i \in Nat /\ i > Len(queue)
      /\ queue # <<>> => Len(queue) > 0
  BY DEF GoodQueue
<1> HIDE DEF i
<1>2. i \in 1..Len(queue') /\ (waiting' => i > 1)
  BY <1>1 DEF i
<1>3. queue'[i] = AoaCmd(session'.device, StartStep)
  BY DEF i
<1> QED
  BY <1>2, <1>3 DEF Pending

LEMMA PendingStep == Inv /\ Pending /\ [Connected]_vars => Pending'
<1> SUFFICES ASSUME Inv, Pending, [Connected]_vars PROVE Pending'
  OBVIOUS
<1>1. /\ session \in Session /\ Shape(session) /\ Table(known)
      /\ GoodQueue(queue) /\ media \in Media /\ MediaFits(session, media)
      /\ linkUp \subseteq Net
      /\ waiting => queue # <<>>
  BY DEF Inv
<1>2. GoodQueue(queue')
  BY NextStep DEF Next, Inv
<1>3. ASSUME session'.phase # "aoa" PROVE Pending'
  BY <1>3 DEF Pending
<1>4. CASE \E dev \in Devices : DevLine(dev)
  <2>1. PICK dev \in Devices : DevLine(dev)
    BY <1>4
  <2>2. waiting' = waiting /\ Admit(session, media, dev)
    BY <2>1 DEF DevLine
  <2>3. /\ Len(queue) <= Len(queue')
        /\ \A i \in 1..Len(queue) : queue'[i] = queue[i]
    BY <1>1, <2>1, <2>2, AdmitProperties
  <2>4. session'.phase = "aoa" =>
             \/ /\ Len(queue) < Len(queue')
                /\ queue'[Len(queue')] = AoaCmd(session'.device, StartStep)
             \/ /\ session.phase = "aoa"
                /\ session'.device = session.device
                /\ session'.pendingReenum = session.pendingReenum
    BY <1>1, <2>1, <2>2, AdmitProperties, Zenon
  <2>5. CASE /\ Len(queue) < Len(queue')
             /\ queue'[Len(queue')] = AoaCmd(session'.device, StartStep)
    <3>1. waiting' => queue # <<>>
      BY <1>1, <2>2
    <3> QED
      BY <1>1, <1>2, <2>5, <3>1, PendingNew
  <2>6. CASE /\ session.phase = "aoa"
             /\ session'.device = session.device
             /\ session'.pendingReenum = session.pendingReenum
    BY <1>1, <1>2, <2>2, <2>3, <2>6, PendingKept
  <2> QED
    BY <1>3, <2>4, <2>5, <2>6
<1>5. CASE \E id \in Id : GoneLine(id)
  <2>1. PICK id \in Id : GoneLine(id)
    BY <1>5
  <2> DEFINE s1 == OnGone(session, id)
             m1 == MediaSync(s1, media)
             t  == Forget(id)
  <2>2. /\ waiting' = waiting
        /\ \/ \E i \in 1..Len(t) : s1.phase = "idle" /\ Admit(s1, m1, t[i])
           \/ session' = s1 /\ queue' = queue
    BY <2>1 DEF GoneLine
  <2>3. /\ s1 \in Session /\ Shape(s1) /\ KeepsDevice(session, s1)
        /\ s1.phase = "aoa" =>
             /\ session.phase = "aoa" /\ s1.device = session.device
             /\ s1.pendingReenum = session.pendingReenum
    BY <1>1, OnGoneProperties
  <2>4. Table(t)
    BY <1>1, ForgetProperties
  <2> HIDE DEF s1, t
  <2>5. m1 \in Media /\ MediaFits(s1, m1)
    BY <1>1, <2>3, SyncProperties
  <2> HIDE DEF m1
  <2>6. CASE \E i \in 1..Len(t) : s1.phase = "idle" /\ Admit(s1, m1, t[i])
    <3>1. PICK i \in 1..Len(t) : s1.phase = "idle" /\ Admit(s1, m1, t[i])
      BY <2>6
    <3>2. t[i] \in Devices
      BY <2>4 DEF Table
    <3>3. session'.phase = "aoa" =>
             /\ Len(queue) < Len(queue')
             /\ queue'[Len(queue')] = AoaCmd(session'.device, StartStep)
      <4>1. session'.phase = "aoa" =>
              \/ /\ Len(queue) < Len(queue')
                 /\ queue'[Len(queue')] = AoaCmd(session'.device, StartStep)
              \/ /\ s1.phase = "aoa" /\ session'.device = s1.device
                 /\ session'.pendingReenum = s1.pendingReenum
        BY <1>1, <2>3, <2>5, <3>1, <3>2, AdmitProperties, Zenon
      <4> QED
        BY <3>1, <4>1
    <3>4. CASE session'.phase = "aoa"
      <4>1. waiting' => queue # <<>>
        BY <1>1, <2>2
      <4> QED
        BY <1>1, <1>2, <3>3, <3>4, <4>1, PendingNew
    <3> QED
      BY <1>3, <3>4
  <2>7. CASE session' = s1 /\ queue' = queue
    <3>1. Len(queue) <= Len(queue)
      BY <1>1 DEF GoodQueue
    <3> QED
      BY <1>1, <1>2, <1>3, <2>2, <2>3, <2>7, <3>1, PendingKept
  <2> QED
    BY <2>2, <2>6, <2>7
<1>6. CASE \E ok, protocol \in BOOLEAN : ReplyLine(ok, protocol)
  <2>1. /\ waiting /\ waiting' = FALSE
        /\ \/ session' = Fail(session)
           \/ session' = session /\ queue' = Tail(queue)
    BY <1>6, Zenon DEF ReplyLine
  <2>2. CASE session' = Fail(session)
    BY <1>1, <1>3, <2>2, FailProperties
  <2>3. CASE session' = session /\ queue' = Tail(queue)
    <3>1. CASE session.phase = "aoa" /\ ~session.pendingReenum
      <4>1. PICK i \in 1..Len(queue) :
               i > 1 /\ queue[i] = AoaCmd(session.device, StartStep)
        BY <2>1, <3>1 DEF Pending
      <4>2. /\ Len(Tail(queue)) = Len(queue) - 1 /\ Len(queue) \in Nat
            /\ \A j \in 1..Len(Tail(queue)) : Tail(queue)[j] = queue[j + 1]
        BY <1>1, <2>1, TailProperties DEF GoodQueue
      <4>3. i - 1 \in 1..Len(queue') /\ queue'[i - 1] = queue[i]
        BY <2>3, <4>1, <4>2
      <4>4. queue'[i - 1] = AoaCmd(session'.device, StartStep)
        BY <2>3, <4>1, <4>3
      <4> QED
        BY <2>1, <4>3, <4>4 DEF Pending
    <3>2. CASE ~ (session.phase = "aoa" /\ ~session.pendingReenum)
      BY <2>3, <3>2 DEF Pending
    <3> QED
      BY <3>1, <3>2
  <2> QED
    BY <2>1, <2>2, <2>3
<1>7. CASE \E on \in BOOLEAN : StreamLine(on)
  <2>1. PICK on \in BOOLEAN : StreamLine(on)
    BY <1>7
  <2>2. /\ session' = SetStream(session, on)
        /\ queue' = queue /\ waiting' = waiting
    BY <2>1 DEF StreamLine
  <2>3. /\ session'.phase = session.phase
        /\ session'.device = session.device
        /\ session'.pendingReenum = session.pendingReenum
    BY <1>1, <2>2, SetStreamProperties
  <2>4. Len(queue) <= Len(queue)
    BY <1>1 DEF GoodQueue
  <2> QED
    BY <1>1, <1>2, <1>3, <2>2, <2>3, <2>4, PendingKept
<1>8. CASE \E cmd \in SimLines : SimLine(cmd)
  <2>1. PICK cmd \in SimLines : SimLine(cmd)
    BY <1>8
  <2>2. /\ queue' = Append(queue, cmd) /\ waiting' = waiting
        /\ session' = session
    BY <2>1 DEF SimLine
  <2>3. cmd \in Cmd
    BY DEF Cmd
  <2>4. Len(queue) <= Len(queue') /\ \A i \in 1..Len(queue) : queue'[i] = queue[i]
    BY <1>1, <2>2, <2>3 DEF GoodQueue
  <2> QED
    BY <1>1, <1>2, <1>3, <2>2, <2>4, PendingKept
<1>9. CASE \E sent \in BOOLEAN : Pump(sent)
  <2>1. PICK sent \in BOOLEAN : Pump(sent)
    BY <1>9
  <2>2. /\ queue' = queue /\ queue # <<>> /\ waiting' = sent
        /\ session' = IF Head(queue).op = "aoa" /\ Head(queue).step = StartStep
                      THEN ExpectReenum(session) ELSE session
    BY <2>1 DEF Pump
  <2>3. CASE Head(queue).op = "aoa" /\ Head(queue).step = StartStep
    <3>1. session' = ExpectReenum(session)
      BY <2>2, <2>3
    <3>2. session'.pendingReenum
      BY <1>1, <3>1, ExpectReenumProperties
    <3> QED
      BY <3>2 DEF Pending
  <2>4. CASE ~ (Head(queue).op = "aoa" /\ Head(queue).step = StartStep)
    <3>1. session' = session
      BY <2>2, <2>4
    <3>2. CASE session.phase = "aoa" /\ ~session.pendingReenum
      <4>1. PICK i \in 1..Len(queue) :
               queue[i] = AoaCmd(session.device, StartStep)
        BY <3>2 DEF Pending
      <4>2. queue[i].op = "aoa" /\ queue[i].step = StartStep
        BY <4>1 DEF AoaCmd
      <4>3. Head(queue) = queue[1] /\ Len(queue) \in Nat
        BY <1>1, <2>2 DEF GoodQueue
      <4>4. i > 1
        BY <2>4, <4>2, <4>3
      <4>5. i \in 1..Len(queue') /\ queue'[i] = AoaCmd(session'.device, StartStep)
        BY <2>2, <3>1, <4>1
      <4> QED
        BY <4>4, <4>5 DEF Pending
    <3>3. CASE ~ (session.phase = "aoa" /\ ~session.pendingReenum)
      BY <3>1, <3>3 DEF Pending
    <3> QED
      BY <3>2, <3>3
  <2> QED
    BY <2>3, <2>4
<1>10. CASE Connect
  <2>1. session' = session /\ queue = <<>>
    BY <1>10 DEF Connect, Inv
  <2>2. session.phase = "aoa" => session.pendingReenum
    BY <2>1 DEF Pending
  <2> QED
    BY <2>1, <2>2 DEF Pending
<1>11. CASE UNCHANGED vars
  BY <1>11 DEF vars, Pending
<1> QED
  BY <1>4, <1>5, <1>6, <1>7, <1>8, <1>9, <1>10, <1>11
     DEF Connected, DriverLine, ClientLine

(* While the driver stays up a session in phase "aoa" is on its way: the   *)
(* START of its own handshake is still to be sent, or has been.            *)
THEOREM HandshakeSafe == StableSpec => []HandshakePending
<1>1. Init => Inv /\ Pending
  <2>1. Init => Pending
    BY DEF Init, Pending, SessionInit
  <2> QED
    BY <2>1, InitInv
<1>2. Inv /\ Pending /\ [Connected]_vars => Inv' /\ Pending'
  <2>1. [Connected]_vars => [Next]_vars
    BY DEF Next
  <2> QED
    BY <2>1, NextStep, PendingStep
<1> QED
  BY <1>1, <1>2, PendingImplies, PTL DEF StableSpec
-----------------------------------------------------------------------------
(* Manager implements Projection.  First the set of phones of the table,    *)
(* then who has the session after a device was admitted.                   *)
LEMMA RememberPhones ==
  ASSUME Table(known), NEW dev \in Devices
  PROVE  /\ Projects(dev) => Phones(Remember(dev)) \in
                               {Phones(known), Phones(known) \cup {dev.id}}
         /\ ~Projects(dev) => Phones(Remember(dev)) \in
                               {Phones(known), Phones(known) \ {dev.id}}
<1> DEFINE t == Remember(dev)
<1>1. known \in Seq(Devices) /\ Len(known) \in Nat /\ Unique(known)
  BY DEF Table
<1>2. CASE \E i \in 1..Len(known) : known[i].id = dev.id
  <2>1. t = [i \in 1..Len(known) |->
               IF known[i].id = dev.id THEN dev ELSE known[i]]
    BY <1>2 DEF Remember
  <2>2. PICK k \in 1..Len(known) : known[k].id = dev.id
    BY <1>2
  <2> HIDE DEF t
  <2>3. /\ Len(t) = Len(known)
        /\ t[k] = dev
        /\ \A i \in 1..Len(known) : i # k => t[i] = known[i]
    BY <1>1, <2>1, <2>2 DEF Unique
  <2>4. \A i \in 1..Len(known) : i # k => known[i].id # dev.id
    BY <1>1, <2>2 DEF Unique
  <2>5. Projects(dev) => Phones(t) = Phones(known) \cup {dev.id}
    BY <2>2, <2>3, <2>4 DEF Phones
  <2>6. ~Projects(dev) => Phones(t) = Phones(known) \ {dev.id}
    BY <2>2, <2>3, <2>4 DEF Phones
  <2> QED
    BY <2>5, <2>6 DEF t
<1>3. CASE /\ ~ \E i \in 1..Len(known) : known[i].id = dev.id
           /\ Len(known) < KnownMax
  <2>1. t = Append(known, dev)
    BY <1>3 DEF Remember
  <2> HIDE DEF t
  <2>2. /\ Len(t) = Len(known) + 1
        /\ \A i \in 1..Len(known) : t[i] = known[i]
        /\ t[Len(known) + 1] = dev
        /\ \A i \in 1..Len(t) : i \in 1..Len(known) \/ i = Len(known) + 1
        /\ \A i \in 1..Len(known) : i \in 1..Len(t)
        /\ Len(known) + 1 \in 1..Len(t)
    BY <1>1, <2>1
  <2>3. Projects(dev) => Phones(t) = Phones(known) \cup {dev.id}
    BY <2>2, Zenon DEF Phones
  <2>4. ~Projects(dev) => Phones(t) = Phones(known)
    BY <2>2, Zenon DEF Phones
  <2> QED
    BY <2>3, <2>4 DEF t
<1>4. CASE /\ ~ \E i \in 1..Len(known) : known[i].id = dev.id
           /\ ~ (Len(known) < KnownMax)
  BY <1>4 DEF Remember
<1> QED
  BY <1>2, <1>3, <1>4

LEMMA ForgetPhones ==
  ASSUME Table(known), NEW id
  PROVE  Phones(Forget(id)) = Phones(known) \ {id}
<1> DEFINE t == Forget(id)
           n == Len(known)
<1>1. known \in Seq(Devices) /\ n \in Nat /\ Unique(known)
  BY DEF Table
<1>2. CASE \E i \in 1..n : known[i].id = id
  <2>1. t = [i \in 1..n - 1 |-> IF known[i].id = id THEN known[n] ELSE known[i]]
    BY <1>2 DEF Forget
  <2>2. PICK k \in 1..n : known[k].id = id
    BY <1>2
  <2> HIDE DEF t
  <2>3. Len(t) = n - 1
    BY <1>1, <2>1, <2>2
  <2>4. \A i \in 1..n - 1 : /\ i \in 1..n /\ i # n
                            /\ t[i] = IF i = k THEN known[n] ELSE known[i]
    BY <1>1, <2>1, <2>2 DEF Unique
  <2>5. /\ n \in 1..n
        /\ \A i \in 1..n : i # n => i \in 1..n - 1
        /\ \A i \in 1..n : known[i].id = id <=> i = k
    BY <1>1, <2>2 DEF Unique
  <2> HIDE DEF n
  <2>6. ASSUME NEW x \in Phones(t) PROVE x \in Phones(known) /\ x # id
    <3>1. PICK i \in 1..n - 1 : Projects(t[i]) /\ x = t[i].id
      BY <2>3 DEF Phones
    <3>2. PICK j \in 1..n : j # k /\ t[i] = known[j]
      BY <2>2, <2>4, <2>5
    <3> QED
      BY <2>5, <3>1, <3>2 DEF Phones, n
  <2>7. ASSUME NEW x \in Phones(known), x # id PROVE x \in Phones(t)
    <3>1. PICK i \in 1..n : Projects(known[i]) /\ x = known[i].id
      BY DEF Phones, n
    <3>2. PICK j \in 1..n - 1 : t[j] = known[i]
      BY <2>2, <2>4, <2>5, <2>7, <3>1
    <3> QED
      BY <2>3, <3>1, <3>2 DEF Phones
  <2> QED
    BY <2>6, <2>7 DEF t
<1>3. CASE ~ \E i \in 1..n : known[i].id = id
  <2>1. t = known
    BY <1>3 DEF Forget
  <2>2. id \notin Phones(known)
    BY <1>3 DEF Phones
  <2> QED
    BY <2>1, <2>2
<1> QED
  BY <1>2, <1>3

Serving(s) == s.phase \notin {"idle", "failed"}

(* From s to t, a device that projects takes a free session or waits, any  *)
(* other one changes nothing.                                              *)
Takes(s, t, dev) ==
  /\ ~Projects(dev) => t.device = s.device /\ t.phase = s.phase
  /\ Projects(dev) =>
       \/ /\ s.device \in {None, dev.id} \/ ~Serving(s)
          /\ t.device = dev.id
       \/ /\ s.device \notin {None, dev.id} /\ Serving(s)
          /\ t.device = s.device /\ t.phase = s.phase

LEMMA OnDeviceTakes ==
  ASSUME NEW s \in Session, Shape(s), NEW dev \in Device
  PROVE  /\ Takes(s, OnDevice(s, dev), dev)
         /\ StartsAoa(s, dev) => Projects(dev) /\ ~Parks(s, dev)
<1> DEFINE t == OnDevice(s, dev)
<1>1. dev.id \in Id
  BY DEF Device
<1>2. StartsAoa(s, dev) => Projects(dev) /\ ~Parks(s, dev)
  BY DEF StartsAoa, Projects
<1>3. CASE ~Projects(dev)
  <2>1. t = [s EXCEPT !.other = dev.id]
    BY <1>3 DEF OnDevice
  <2> HIDE DEF t
  <2>2. t.device = s.device /\ t.phase = s.phase
    BY <2>1 DEF Session
  <2> QED
    BY <1>2, <1>3, <2>2 DEF Takes, t
<1>4. CASE Projects(dev) /\ Parks(s, dev)
  <2>1. t = [s EXCEPT !.parked = dev.id]
    BY <1>4 DEF OnDevice
  <2> HIDE DEF t
  <2>2. t.device = s.device /\ t.phase = s.phase
    BY <2>1 DEF Session
  <2>3. s.device \notin {None, dev.id} /\ Serving(s)
    BY <1>4 DEF Parks, Same, Serving, Shape
  <2> QED
    BY <1>2, <1>4, <2>2, <2>3 DEF Takes, t
<1>5. CASE Projects(dev) /\ ~Parks(s, dev)
  <2>1. t = TakeSession(s, dev)
    BY <1>5 DEF OnDevice
  <2> HIDE DEF t
  <2>2. t.device = dev.id
    BY <1>5, <2>1, TakeProperties
  <2>3. s.device \in {None, dev.id} \/ ~Serving(s)
    BY <1>5 DEF Parks, Same, Serving, Shape
  <2> QED
    BY <1>2, <1>5, <2>2, <2>3 DEF Takes, t
<1> QED
  BY <1>3, <1>4, <1>5

LEMMA AdmitTakes ==
  ASSUME NEW STATE s, s \in Session, Shape(s), NEW STATE m,
         NEW STATE dev, dev \in Devices, Admit(s, m, dev)
  PROVE  Takes(s, session', dev)
<1> DEFINE s1 == OnDevice(s, dev)
<1>1. dev \in Device /\ dev.id \in Id
  BY ManagerAssumption DEF Device
<1>2. /\ Takes(s, s1, dev) /\ s1 \in Session /\ Shape(s1)
      /\ StartsAoa(s, dev) => Projects(dev) /\ ~Parks(s, dev)
  BY <1>1, OnDeviceTakes, OnDeviceProperties
<1>3. \/ session' = s1
      \/ StartsAoa(s, dev) /\ session' = Fail(s1)
  BY DEF Admit
<1>4. CASE StartsAoa(s, dev) /\ session' = Fail(s1)
  <2>1. session'.device = s1.device
    BY <1>2, <1>4, FailProperties
  <2>2. s1.device = dev.id
    BY <1>1, <1>4, OnDeviceProperties
  <2>3. Projects(dev) /\ (s.device \in {None, dev.id} \/ ~Serving(s))
    BY <1>2, <1>4 DEF Parks, Same, Serving, Shape
  <2> QED
    BY <2>1, <2>2, <2>3 DEF Takes
<1> QED
  BY <1>2, <1>3, <1>4

LEMMA GoneOwner ==
  ASSUME NEW s \in Session, NEW id \in Id, s.device = id
  PROVE  \/ OnGone(s, id).device = id /\ OnGone(s, id).phase = "reenumerating"
         \/ OnGone(s, id).device = None /\ OnGone(s, id).phase = "idle"
<1> DEFINE t == [s EXCEPT !.parked = IF @ = id THEN None ELSE @,
                          !.other  = IF @ = id THEN None ELSE @]
<1>1. t \in Session /\ t.device = id
  BY DEF Session
<1>2. OnGone(s, id) = IF s.pendingReenum
                      THEN [t EXCEPT !.phase = "reenumerating",
                                     !.streaming = FALSE]
                      ELSE SetIdle(t)
  BY DEF OnGone
<1> HIDE DEF t
<1> QED
  BY <1>1, <1>2 DEF Session, SetIdle


(* The steps: a `dev` line is an arrival, a `dev gone` line a departure, a  *)
(* bad reply a failure; the other handlers do not change who has the screen. *)
LEMMA DevLineRefines ==
  ASSUME Inv, NEW dev \in Devices, DevLine(dev)
  PROVE  Promise!Arrive(dev.id) \/ Promise!Other(dev.id)
<1>1. known' = Remember(dev) /\ Admit(session, media, dev)
  BY DEF DevLine
<1>2. session \in Session /\ Shape(session) /\ Table(known)
  BY DEF Inv
<1>3. Takes(session, session', dev)
  BY <1>1, <1>2, AdmitTakes
<1>4. /\ Phones(known)' = Phones(known')
      /\ Phones(known') = Phones(Remember(dev))
  BY <1>1 DEF Phones
<1>5. CASE Projects(dev)
  BY <1>2, <1>3, <1>4, <1>5, RememberPhones
     DEF Takes, Serving, Promise!Arrive, Promise!Free
<1>6. CASE ~Projects(dev)
  BY <1>2, <1>3, <1>4, <1>6, RememberPhones DEF Takes, Promise!Other
<1> QED
  BY <1>5, <1>6

LEMMA GoneLineRefines ==
  ASSUME Inv, NEW id \in Id, GoneLine(id)
  PROVE  Promise!Leave(id)
<1> DEFINE s1 == OnGone(session, id)
           m1 == MediaSync(s1, media)
           t  == Forget(id)
<1>1. /\ known' = t
      /\ \/ \E i \in 1..Len(t) : /\ s1.phase = "idle"
                                 /\ FirstPhone(t, i)
                                 /\ Admit(s1, m1, t[i])
         \/ /\ s1.phase # "idle" \/ \A i \in 1..Len(t) : ~Projects(t[i])
            /\ session' = s1
  BY SameKinds DEF GoneLine
<1>2. /\ session \in Session /\ Shape(session) /\ Table(known)
      /\ session.phase = "idle" => NoPhone(known)
  BY DEF Inv
<1>3. /\ Phones(known)' = Phones(t) /\ Phones(t) = Phones(known) \ {id}
      /\ Table(t)
  BY <1>1, <1>2, ForgetPhones, ForgetProperties DEF Phones
<1>4. /\ s1 \in Session /\ Shape(s1)
      /\ session.device # id =>
           s1.device = session.device /\ s1.phase = session.phase
      /\ session.device = id =>
           \/ s1.device = id /\ s1.phase = "reenumerating"
           \/ s1.device = None /\ s1.phase = "idle"
  BY <1>2, OnGoneProperties, GoneOwner
<1> HIDE DEF s1, m1, t
<1>5. CASE \E i \in 1..Len(t) : /\ s1.phase = "idle"
                                /\ FirstPhone(t, i)
                                /\ Admit(s1, m1, t[i])
  <2>1. PICK i \in 1..Len(t) : /\ s1.phase = "idle"
                               /\ FirstPhone(t, i)
                               /\ Admit(s1, m1, t[i])
    BY <1>5
  <2>2. t[i] \in Devices /\ Projects(t[i]) /\ t[i].id \in Phones(t)
    BY <1>3, <2>1, SameKinds DEF Table, FirstPhone, Phones
  <2>3. session.device = id
    <3>1. SUFFICES ASSUME session.device # id PROVE FALSE
      OBVIOUS
    <3>2. NoPhone(known)
      BY <1>2, <1>4, <2>1, <3>1
    <3>3. Phones(known) = {}
      BY <3>2 DEF NoPhone, Phones
    <3> QED
      BY <1>3, <2>2, <3>3
  <2>4. Takes(s1, session', t[i])
    BY <1>4, <2>1, <2>2, AdmitTakes
  <2>5. session'.device = t[i].id
    BY <2>1, <2>2, <2>4 DEF Takes, Serving
  <2> QED
    BY <1>3, <2>2, <2>3, <2>5 DEF Promise!Leave
<1>6. CASE /\ s1.phase # "idle" \/ \A i \in 1..Len(t) : ~Projects(t[i])
           /\ session' = s1
  <2>1. CASE session.device # id
    BY <1>3, <1>4, <1>6, <2>1 DEF Promise!Leave
  <2>2. CASE session.device = id /\ s1.phase = "reenumerating"
    BY <1>3, <1>4, <1>6, <2>2 DEF Promise!Leave
  <2>3. CASE session.device = id /\ s1.phase = "idle"
    <3>1. s1.device = None
      BY <1>4, <2>3
    <3>2. Phones(t) = {}
      BY <1>6, <2>3 DEF Phones
    <3> QED
      BY <1>3, <1>6, <2>3, <3>1, <3>2 DEF Promise!Leave
  <2> QED
    BY <1>4, <2>1, <2>2, <2>3
<1> QED
  BY <1>1, <1>5, <1>6

LEMMA ReplyLineRefines ==
  ASSUME Inv, NEW ok \in BOOLEAN, NEW protocol \in BOOLEAN,
         ReplyLine(ok, protocol)
  PROVE  Promise!Fails \/ UNCHANGED Promise!vars
<1>1. known' = known /\ session' \in {session, Fail(session)}
  BY Zenon DEF ReplyLine
<1>2. Phones(known)' = Phones(known)
  BY <1>1 DEF Phones
<1>3. CASE session' = session
  BY <1>2, <1>3 DEF Promise!vars
<1>4. CASE session' = Fail(session)
  <2>1. session'.phase = "failed" /\ session'.device = session.device
    BY <1>4, FailProperties DEF Inv
  <2> QED
    BY <1>2, <2>1 DEF Promise!Fails
<1> QED
  BY <1>1, <1>3, <1>4

(* A handler that leaves the table and the session's device and phase. *)
LEMMA Stutters ==
  ASSUME known' = known, session'.device = session.device,
         session'.phase = session.phase
  PROVE  UNCHANGED Promise!vars
<1>1. Phones(known)' = Phones(known)
  BY DEF Phones
<1> QED
  BY <1>1 DEF Promise!vars

LEMMA RefinesStep == Inv /\ [Next]_vars => [Promise!Next]_(Promise!vars)
<1> SUFFICES ASSUME Inv, [Next]_vars PROVE [Promise!Next]_(Promise!vars)
  OBVIOUS
<1>0. session \in Session /\ Shape(session)
  BY DEF Inv
<1>1. CASE \E dev \in Devices : DevLine(dev)
  <2>1. PICK dev \in Devices : DevLine(dev)
    BY <1>1
  <2>2. dev.id \in Id
    BY ManagerAssumption DEF Device
  <2> QED
    BY <2>1, <2>2, DevLineRefines DEF Promise!Next
<1>2. CASE \E id \in Id : GoneLine(id)
  BY <1>2, GoneLineRefines DEF Promise!Next
<1>3. CASE \E ok, protocol \in BOOLEAN : ReplyLine(ok, protocol)
  BY <1>3, ReplyLineRefines DEF Promise!Next
<1>4. CASE \E on \in BOOLEAN : StreamLine(on)
  BY <1>0, <1>4, SetStreamProperties, Stutters DEF StreamLine
<1>5. CASE \E cmd \in SimLines : SimLine(cmd)
  BY <1>5, Stutters DEF SimLine
<1>6. CASE \E sent \in BOOLEAN : Pump(sent)
  <2>1. known' = known /\ session' \in {session, ExpectReenum(session)}
    BY <1>6 DEF Pump
  <2> QED
    BY <1>0, <2>1, ExpectReenumProperties, Stutters
<1>7. CASE Connect \/ CloseDriver
  BY <1>7, Stutters DEF Connect, CloseDriver
<1>8. CASE UNCHANGED vars
  BY <1>8, Stutters DEF vars
<1> QED
  BY <1>1, <1>2, <1>3, <1>4, <1>5, <1>6, <1>7, <1>8
     DEF Next, Connected, DriverLine, ClientLine

(* The daemon keeps the promise of Projection: one phone owns the screen,  *)
(* keeps it while it is plugged, and a phone that is still there follows   *)
(* at once (session.c:90-168, managerd.c:335-374).                         *)
THEOREM Refines == Spec => ImplementsProjection
<1>1. Init => Promise!Init
  BY DEF Init, SessionInit, Phones, Promise!Init
<1>2. Inv /\ [Next]_vars => [Promise!Next]_(Promise!vars)
  BY RefinesStep
<1> QED
  BY <1>1, <1>2, Invariance, PTL DEF Spec, ImplementsProjection, Promise!Spec

-----------------------------------------------------------------------------
(* What the table and the owner of the session become, line by line:       *)
(* UsbStack composes the daemon with a driver.                             *)
Rows(t) == {t[i] : i \in 1..Len(t)}

(* A full table does not take a device it does not hold. *)
LEMMA NotRemembered ==
  ASSUME NEW dev, Len(known) = KnownMax,
         \A i \in 1..Len(known) : known[i].id # dev.id
  PROVE  Remember(dev) = known
<1>1. KnownMax \in Nat
  BY ManagerAssumption
<1>2. ~(Len(known) < KnownMax)
  BY <1>1
<1> QED BY <1>2 DEF Remember

LEMMA RememberRows ==
  ASSUME Table(known), NEW dev \in Devices,
         \/ Len(known) # KnownMax
         \/ \E i \in 1..Len(known) : known[i].id = dev.id
  PROVE  Rows(Remember(dev)) = {d \in Rows(known) : d.id # dev.id} \cup {dev}
<1>2. PICK t \in Seq(Devices) : t = known
  BY DEF Table
<1>3. PICK n \in Nat : n = Len(t)
  OBVIOUS
<1>4. CASE \E i \in 1..n : t[i].id = dev.id
  <2>1. PICK k \in 1..n : t[k].id = dev.id
    BY <1>4
  <2>2. PICK u : u = [i \in 1..n |-> IF t[i].id = dev.id THEN dev ELSE t[i]]
    OBVIOUS
  <2>3. Len(u) = n /\ u[k] = dev
        /\ \A i \in 1..n : u[i] = IF t[i].id = dev.id THEN dev ELSE t[i]
    BY <2>1, <2>2
  <2>4. Rows(u) = {d \in Rows(t) : d.id # dev.id} \cup {dev}
    BY <1>3, <2>3 DEF Rows
  <2> QED BY <1>2, <1>3, <1>4, <2>2, <2>4 DEF Remember
<1>5. CASE \A i \in 1..n : t[i].id # dev.id
  <2>1. n < KnownMax
    <3>1. n # KnownMax
      BY <1>2, <1>3, <1>5
    <3>2. n <= KnownMax /\ KnownMax \in Nat
      BY <1>2, <1>3, ManagerAssumption DEF Table
    <3> QED BY <3>1, <3>2
  <2>2. PICK u : u = Append(t, dev)
    OBVIOUS
  <2>3. /\ Len(u) = n + 1 /\ u[n + 1] = dev /\ n + 1 \in 1..n + 1
        /\ \A i \in 1..n : u[i] = t[i] /\ i \in 1..n + 1
        /\ \A i \in 1..n + 1 : i \in 1..n \/ i = n + 1
    BY <1>3, <2>2
  <2>4. Rows(u) = Rows(t) \cup {dev}
    BY <1>3, <2>3 DEF Rows
  <2>5. \A d \in Rows(t) : d.id # dev.id
    BY <1>3, <1>5 DEF Rows
  <2> QED BY <1>2, <1>3, <1>5, <2>1, <2>2, <2>4, <2>5 DEF Remember
<1> QED BY <1>4, <1>5

LEMMA ForgetRows ==
  ASSUME Table(known), NEW id
  PROVE  Rows(Forget(id)) = {d \in Rows(known) : d.id # id}
<1>1. PICK t \in Seq(Devices) : t = known
  BY DEF Table
<1>2. PICK n \in Nat : n = Len(t)
  OBVIOUS
<1>3. \A i, j \in 1..n : t[i].id = t[j].id => i = j
  BY <1>1, <1>2 DEF Table, Unique
<1>4. CASE \E i \in 1..n : t[i].id = id
  <2>1. PICK k \in 1..n : t[k].id = id
    BY <1>4
  <2>2. PICK u : u = [i \in 1..n - 1 |-> IF t[i].id = id THEN t[n] ELSE t[i]]
    OBVIOUS
  <2>3. /\ Len(u) = n - 1
        /\ \A i \in 1..n - 1 : u[i] = IF t[i].id = id THEN t[n] ELSE t[i]
    <3>1. n - 1 \in Nat
      BY <2>1
    <3> QED BY <2>2, <3>1
  <2>4. \A i \in 1..n - 1 : i \in 1..n /\ n \in 1..n /\ i # n
    OBVIOUS
  <2>5. \A i \in 1..n - 1 : u[i] \in Rows(t) /\ u[i].id # id
    BY <1>2, <1>3, <2>3, <2>4, ZenonT(60) DEF Rows
  <2>6. ASSUME NEW i \in 1..n, t[i].id # id
        PROVE  \E j \in 1..n - 1 : u[j] = t[i]
    <3>1. CASE i = n
      <4>1. k \in 1..n - 1
        BY <2>1, <2>6, <3>1
      <4> QED BY <2>1, <2>3, <3>1, <4>1
    <3>2. CASE i # n
      <4>1. i \in 1..n - 1
        BY <3>2
      <4> QED BY <2>3, <2>6, <4>1
    <3> QED BY <3>1, <3>2
  <2>7. Rows(u) = {d \in Rows(t) : d.id # id}
    BY <1>2, <2>3, <2>5, <2>6 DEF Rows
  <2> QED BY <1>1, <1>2, <1>4, <2>2, <2>7 DEF Forget
<1>5. CASE \A i \in 1..n : t[i].id # id
  <2>1. \A d \in Rows(t) : d.id # id
    BY <1>2, <1>5 DEF Rows
  <2> QED BY <1>1, <1>2, <1>5, <2>1 DEF Forget
<1> QED BY <1>4, <1>5

(* The phone that is being brought up or served is one of `ids`. *)
OwnerIn(s, ids) ==
  s.phase \in {"aoa", "classified", "active"} => s.device \in ids

LEMMA TakesOwner ==
  ASSUME NEW s, NEW u, NEW dev, Takes(s, u, dev), NEW ids, dev.id \in ids,
         OwnerIn(s, ids)
  PROVE  OwnerIn(u, ids)
BY DEF Takes, OwnerIn

LEMMA DevLineOwner ==
  ASSUME Inv, NEW dev \in Devices, DevLine(dev), NEW ids, dev.id \in ids,
         OwnerIn(session, ids)
  PROVE  OwnerIn(session', ids)
<1>1. session \in Session /\ Shape(session)
  BY DEF Inv
<1>2. Takes(session, session', dev)
  BY <1>1, AdmitTakes DEF DevLine
<1> QED BY <1>2, TakesOwner

(* A `gone` line takes `id` out of the set, of which the table names a part. *)
LEMMA GoneLineOwner ==
  ASSUME Inv, NEW id \in Id, GoneLine(id), NEW ids,
         \A d \in Rows(known) : d.id \in ids, OwnerIn(session, ids)
  PROVE  OwnerIn(session', ids \ {id})
<1>1. Table(known) /\ session \in Session /\ Shape(session)
  BY DEF Inv
<1>2. PICK t : t = Forget(id)
  OBVIOUS
<1>3. PICK s1 : s1 = OnGone(session, id)
  OBVIOUS
<1>4. PICK m1 : m1 = MediaSync(s1, media)
  OBVIOUS
<1>5. \/ \E i \in 1..Len(t) : /\ s1.phase = "idle" /\ Admit(s1, m1, t[i])
      \/ session' = s1
  BY <1>2, <1>3, <1>4 DEF GoneLine
<1>6. Rows(t) = {d \in Rows(known) : d.id # id} /\ Table(t)
  BY <1>1, <1>2, ForgetRows, ForgetProperties
<1>7. /\ s1 \in Session /\ Shape(s1)
      /\ session.device # id =>
           s1.device = session.device /\ s1.phase = session.phase
      /\ session.device = id => s1.phase \in {"reenumerating", "idle"}
  BY <1>1, <1>3, OnGoneProperties, GoneOwner
<1>8. OwnerIn(s1, ids \ {id})
  <2>1. CASE session.device = id
    BY <1>7, <2>1 DEF OwnerIn
  <2>2. CASE session.device # id
    BY <1>7, <2>2 DEF OwnerIn
  <2> QED BY <2>1, <2>2
<1>9. CASE session' = s1
  BY <1>8, <1>9
<1>10. CASE \E i \in 1..Len(t) : Admit(s1, m1, t[i])
  <2>1. PICK i \in 1..Len(t) : Admit(s1, m1, t[i])
    BY <1>10
  <2>2. t[i] \in Devices /\ t[i] \in Rows(t)
    BY <1>6 DEF Table, Rows
  <2>3. Takes(s1, session', t[i])
    BY <1>7, <2>1, <2>2, AdmitTakes
  <2>4. t[i].id \in ids \ {id}
    BY <1>6, <2>2
  <2> QED BY <1>8, <2>3, <2>4, TakesOwner
<1> QED BY <1>5, <1>9, <1>10

LEMMA ReplyLineOwner ==
  ASSUME Inv, NEW ok, NEW protocol, ReplyLine(ok, protocol), NEW ids,
         OwnerIn(session, ids)
  PROVE  OwnerIn(session', ids)
<1>1. session' = session \/ session' = Fail(session)
  BY Zenon DEF ReplyLine
<1>2. Fail(session).phase = "failed"
  BY FailProperties DEF Inv
<1>3. CASE session' = session
  BY <1>3
<1>4. CASE session' = Fail(session)
  BY <1>2, <1>4 DEF OwnerIn
<1> QED BY <1>1, <1>3, <1>4

LEMMA PumpOwner ==
  ASSUME Inv, NEW sent, Pump(sent), NEW ids, OwnerIn(session, ids)
  PROVE  OwnerIn(session', ids)
<1>1. session' = session \/ session' = ExpectReenum(session)
  BY DEF Pump
<1>2. session'.phase = session.phase /\ session'.device = session.device
  BY <1>1, ExpectReenumProperties DEF Inv
<1> QED BY <1>2 DEF OwnerIn

(* A queue that was empty has room. *)
LEMMA FirstCommand ==
  ASSUME queue = <<>>, NEW cmd \in Cmd
  PROVE  Enqueue(<<cmd>>) = <<cmd>>
<1>1. Len(<<>>) = 0 /\ Len(<<cmd>>) = 1 /\ <<cmd>> \in Seq(Cmd)
  OBVIOUS
<1>2. QMax \in Nat /\ QMax >= 1
  BY ManagerAssumption
<1>3. Len(<<cmd>>) <= Room
  BY <1>1, <1>2 DEF Room
<1>4. Enqueue(<<cmd>>) = <<>> \o SubSeq(<<cmd>>, 1, 1)
  BY <1>1, <1>3 DEF Enqueue
<1>5. SubSeq(<<cmd>>, 1, 1) = <<cmd>>
  BY <1>1, SubSeqFull
<1>6. <<>> \o <<cmd>> = <<cmd>>
  BY <1>1
<1> QED BY <1>4, <1>5, <1>6

(* A manager that starts finds the interfaces as the last one left them.   *)
LEMMA StartInv ==
  ASSUME Inv, session' = SessionInit, known' = <<>>, queue' = <<>>,
         waiting' = FALSE, conn' = FALSE, media' = NoMedia, linkUp' = linkUp
  PROVE  Inv' /\ session'.phase = "idle"
<1>1. known' = <<>> /\ Len(known') = 0 /\ queue' = <<>> /\ Len(queue') = 0
  OBVIOUS
<1>2. session' \in Session /\ Shape(session')
  BY DEF SessionInit, Session, Shape, StreamingNow
<1>3. Table(known') /\ NoPhone(known') /\ GoodQueue(queue')
  BY <1>1, ManagerAssumption DEF Table, Unique, NoPhone, GoodQueue, InOrder
<1>4. media' \in Media /\ MediaFits(session', media')
  BY DEF NoMedia, Media, MediaFits, SessionInit
<1>5. linkUp' \subseteq Net
  BY DEF Inv
<1>6. session'.phase = "idle"
  BY DEF SessionInit
<1> QED BY <1>1, <1>2, <1>3, <1>4, <1>5, <1>6 DEF Inv
===============================================================================
