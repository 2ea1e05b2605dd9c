---------------------------- MODULE UsbmanSession ----------------------------
(***************************************************************************)
(* libusbman: the projection policy of the head unit, as pure operators on *)
(* a session record.  usbman_classify (classify.c) turns the descriptor of *)
(* a `dev` line into a kind; the operators below are the functions of      *)
(* session.c, which the manager daemon calls and which do no I/O.          *)
(*                                                                         *)
(* Left out of the session record: `reason` (wording of the state line)    *)
(* and the last touch (module-level counters nothing else reads).          *)
(***************************************************************************)
CONSTANTS Id,    \* device ids, "busnum-devnum" or a simulator name
          Net,   \* names of network interfaces
          None   \* the empty or "-" string of the C structs

ASSUME NoneIsNoName == None \notin Id /\ None \notin Net

(* What a `dev` line says of a device, as far as the policy reads it. *)
Device == [id : Id, vendor : {"google", "apple", "other"}, aoapPid : BOOLEAN,
           accessory : BOOLEAN, apple : BOOLEAN, ncm : BOOLEAN,
           ipheth : BOOLEAN, adb : BOOLEAN, storage : BOOLEAN,
           hid : BOOLEAN, sim : BOOLEAN, net : Net \cup {None}]

Session == [backend : {"none", "android", "carplay"},
            phase : {"idle", "aoa", "reenumerating", "classified",
                     "active", "failed"},
            device : Id \cup {None}, parked : Id \cup {None},
            other : Id \cup {None}, net : Net \cup {None},
            streaming : BOOLEAN, streamUser : {"auto", "on", "off"},
            pendingReenum : BOOLEAN]

-----------------------------------------------------------------------------
(* classify.c: the first test that applies decides. *)
IsAoap(dev)  == dev.accessory \/ (dev.vendor = "google" /\ dev.aoapPid)
IsApple(dev) == dev.apple \/ dev.vendor = "apple"

AppleKind(dev) == IF dev.ncm THEN "carplay"
                  ELSE IF dev.ipheth THEN "apple_ipheth" ELSE "apple_wait"

Classify(dev) ==
  IF IsAoap(dev) THEN "android_aoap"
  ELSE IF IsApple(dev) THEN AppleKind(dev)
  ELSE IF dev.adb \/ dev.vendor = "google" THEN "android"
  ELSE IF dev.storage THEN "storage"
  ELSE IF dev.hid THEN "hid" ELSE "other"

(* The kinds that compete for the session (projection, kind_is_projection). *)
Projects(dev) == Classify(dev) \in {"android", "android_aoap", "carplay",
                                    "apple_wait", "apple_ipheth"}

-----------------------------------------------------------------------------
SetIdle(s) ==
  [s EXCEPT !.backend = "none", !.phase = "idle", !.device = None,
            !.net = None, !.streaming = FALSE, !.pendingReenum = FALSE,
            !.streamUser = "auto"]

StreamingNow(s) == s.phase = "active" /\ s.streamUser # "off"

RefreshStream(s) == [s EXCEPT !.streaming = StreamingNow(s)]

SessionInit ==
  [backend |-> "none", phase |-> "idle", device |-> None, parked |-> None,
   other |-> None, net |-> None, streaming |-> FALSE, streamUser |-> "auto",
   pendingReenum |-> FALSE]

Adopt(s, dev, backend, phase) ==
  RefreshStream([s EXCEPT !.backend = backend, !.phase = phase,
                          !.device = dev.id, !.net = dev.net,
                          !.parked = IF @ = dev.id THEN None ELSE @])

(* usbman_on_device. A projection device that is not the session's own is   *)
(* parked while the session is occupied; otherwise it takes the session.    *)
Same(s, dev) == s.device = dev.id

ParksUnlessWaiting(s, dev) ==       \* mutant: classified does not occupy
  /\ Projects(dev)
  /\ ~Same(s, dev)
  /\ s.backend # "none"
  /\ s.phase \notin {"idle", "failed", "classified"}

Parks(s, dev) == /\ Projects(dev)
                 /\ ~Same(s, dev)
                 /\ s.backend # "none"
                 /\ s.phase \notin {"idle", "failed"}

(* The line repeats what the session already is: no handshake is started    *)
(* again for a phone in it, and only the interface name is updated for a    *)
(* running CarPlay session.                                                 *)
RepeatsAoa(s, dev)    == Same(s, dev) /\ s.phase = "aoa"
RepeatsActive(s, dev) == Same(s, dev) /\ s.phase = "active"

TakeSession(s, dev) ==
  LET kind == Classify(dev) IN
  CASE kind = "android_aoap" ->
         [Adopt(s, dev, "android", "active") EXCEPT !.pendingReenum = FALSE]
    [] kind = "android" /\ RepeatsAoa(s, dev) -> s
    [] kind = "android" /\ ~RepeatsAoa(s, dev) ->
         Adopt(s, dev, "android", "aoa")
    [] kind = "carplay" /\ RepeatsActive(s, dev) -> [s EXCEPT !.net = dev.net]
    [] kind = "carplay" /\ ~RepeatsActive(s, dev) ->
         Adopt(s, dev, "carplay", "active")
    [] kind = "apple_wait" -> Adopt(s, dev, "carplay", "classified")
    [] kind = "apple_ipheth" -> Adopt(s, dev, "carplay", "failed")

OnDevice(s, dev) ==
  IF ~Projects(dev) THEN [s EXCEPT !.other = dev.id]
  ELSE IF Parks(s, dev) THEN [s EXCEPT !.parked = dev.id]
  ELSE TakeSession(s, dev)

(* The action usbman_on_device returns: USBMAN_ACT_AOA, USBMAN_ACT_LINK_UP  *)
(* or neither.                                                              *)
StartsAoa(s, dev) == /\ Classify(dev) = "android"
                     /\ ~Parks(s, dev)
                     /\ ~RepeatsAoa(s, dev)

BringsLinkUp(s, dev) == Classify(dev) = "carplay" /\ ~Parks(s, dev) /\ ~dev.sim

(* mutant: the unplug in the middle of a handshake is taken for the        *)
(* re-enumeration although no START was sent                               *)
OnGoneAoa(s, id) ==
  IF s.device = id /\ s.phase = "aoa" THEN s
  ELSE IF s.device = id THEN SetIdle(s) ELSE s

OnGone(s, id) ==
  LET t == [s EXCEPT !.parked = IF @ = id THEN None ELSE @,
                     !.other  = IF @ = id THEN None ELSE @]
  IN  IF s.device # id THEN t
      ELSE IF s.pendingReenum
           THEN [t EXCEPT !.phase = "reenumerating", !.streaming = FALSE]
           ELSE SetIdle(t)

ExpectReenum(s) == [s EXCEPT !.pendingReenum = TRUE]

FailKeepsStreaming(s) == [s EXCEPT !.phase = "failed",      \* mutant
                                   !.pendingReenum = FALSE]

Fail(s) == [s EXCEPT !.phase = "failed", !.pendingReenum = FALSE,
                     !.streaming = FALSE]

SetStream(s, on) ==
  RefreshStream([s EXCEPT !.streamUser = IF on THEN "on" ELSE "off"])
=============================================================================
