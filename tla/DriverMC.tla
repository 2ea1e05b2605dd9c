------------------------------ MODULE DriverMC -------------------------------
(***************************************************************************)
(* Small instances of Driver: a real iPhone whose network interface comes  *)
(* and goes, a simulated Android phone, and two clients.                   *)
(***************************************************************************)
EXTENDS Driver

CONSTANTS real, sim, usb0

Phone(id) == [id |-> id, vendor |-> "other", aoapPid |-> FALSE,
              accessory |-> FALSE, apple |-> FALSE, ncm |-> FALSE,
              ipheth |-> FALSE, adb |-> FALSE, storage |-> FALSE,
              hid |-> FALSE, sim |-> FALSE, net |-> None]

Apple == [Phone(real) EXCEPT !.vendor = "apple", !.apple = TRUE]
Ncm   == [Apple EXCEPT !.ncm = TRUE, !.net = usb0]

MCId == {real, sim}
MCNet == {usb0}
MCSimId == {sim}
MCSimDev == [id \in MCSimId |-> [Phone(id) EXCEPT !.vendor = "google",
                                                  !.adb = TRUE, !.sim = TRUE]]
MCBusDevs == {Apple, Ncm}

(* A subscriber that competes with another client for the real phone; the *)
(* other client sends everything but what the subscriber already does.     *)
Subscriber == [op : {"sub"}, id : {None}]
Claimant   == [op : {"claim", "release"}, id : {real}]
Watcher    == Subscriber \cup Claimant
Everything == {cmd \in Command : cmd.op \notin {"sub", "release", "string"}}
MCRequests == <<Watcher, Everything>>

Claims == Subscriber \cup [op : {"claim"}, id : {real}]
BothClaim == <<Claims, Claims>>
==============================================================================
