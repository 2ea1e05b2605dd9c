------------------------------ MODULE ManagerMC ------------------------------
(***************************************************************************)
(* Small instances of Manager: two phones and a memory stick on real USB.  *)
(***************************************************************************)
EXTENDS Manager

CONSTANTS p1, p2, stick, usb0

Blank == [id |-> p1, vendor |-> "other", aoapPid |-> FALSE,
          accessory |-> FALSE, apple |-> FALSE, ncm |-> FALSE,
          ipheth |-> FALSE, adb |-> FALSE, storage |-> FALSE,
          hid |-> FALSE, sim |-> FALSE, net |-> None]

Google(id) == [Blank EXCEPT !.id = id, !.vendor = "google"]
Adb(id)    == [Google(id) EXCEPT !.adb = TRUE]
Aoap(id)   == [Google(id) EXCEPT !.aoapPid = TRUE, !.accessory = TRUE]
Apple(id)  == [Blank EXCEPT !.id = id, !.vendor = "apple", !.apple = TRUE]
Tether(id) == [Apple(id) EXCEPT !.ipheth = TRUE]
Ncm(id, n) == [Apple(id) EXCEPT !.ncm = TRUE, !.net = n]
Stick(id)  == [Blank EXCEPT !.id = id, !.storage = TRUE]

MCId  == {p1, p2, stick}
MCNet == {usb0}

(* An Android phone that re-enumerates and an iPhone whose NCM function     *)
(* and network interface appear one after the other.                       *)
MCPhones == {Adb(p1), Aoap(p1), Apple(p2), Ncm(p2, usb0), Stick(stick)}

NoSim == {}
=============================================================================
