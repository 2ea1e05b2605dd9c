---------------------------- MODULE EnumerationMC -----------------------------
(***************************************************************************)
(* A small instance of Enumeration: a root hub, listed between two ports,  *)
(* and a table with room for two devices.  A phone with a network interface *)
(* and one in accessory mode are plugged in, with serial numbers that      *)
(* would break an unescaped field.  The buffers are so small that each of  *)
(* their ends is met: the driver keeps three characters of a serial number, *)
(* the raw value ends in the code of the third, and the manager keeps two. *)
(* A device that is there at the start may have got the number before the  *)
(* last one, so that numbers come round with the first that is plugged in. *)
(***************************************************************************)
EXTENDS Enumeration

CONSTANTS p1, p2, hub, phone, acc, hubs, nothing

MCOrder == <<p1, hub, p2>>
MCHubs  == {hub}
MCEarly == {p1}

(* " n=" imitates the field behind it, "%41" an escape.                   *)
MCDescs == {[kind |-> phone, serial |-> <<32, 110, 61>>,
             classes |-> <<"vendor">>],
            [kind |-> acc, serial |-> <<37, 52, 49, 65>>, classes |-> <<>>]}

MCAcc   == {acc}
===============================================================================
