------------------------------ MODULE UsbStackMC -----------------------------
(***************************************************************************)
(* Small instances of UsbStack: the simulated phone, and one real Android  *)
(* phone that comes back under another id after START.                     *)
(***************************************************************************)
EXTENDS UsbStack

CONSTANTS real, again, sim, usb0

Blank(id) == [id |-> id, vendor |-> "other", aoapPid |-> FALSE,
              accessory |-> FALSE, apple |-> FALSE, ncm |-> FALSE,
              ipheth |-> FALSE, adb |-> FALSE, storage |-> FALSE,
              hid |-> FALSE, sim |-> FALSE, net |-> None]
Adb(id)  == [Blank(id) EXCEPT !.vendor = "google", !.adb = TRUE]
Aoap(id) == [Blank(id) EXCEPT !.vendor = "google", !.aoapPid = TRUE,
                              !.accessory = TRUE]

MCId == {real, again, sim}
MCNet == {usb0}
MCSimId == {sim}
MCSimDev == [id \in MCSimId |-> [Adb(id) EXCEPT !.sim = TRUE]]
SimLine(op) == [op |-> op, id |-> sim, step |-> 0]
SimUsers == {SimLine("plug"), SimLine("unplug")}
NoUsers  == {}

Phone == {Adb(real)}
TwoPlugs == {Adb(real), Adb(again)}
PhoneForms == {Adb(real), Aoap(again)}
Becomes == [dev \in Phone |-> Aoap(again)]
NothingBecomes == [dev \in {} |-> Aoap(again)]
==============================================================================
