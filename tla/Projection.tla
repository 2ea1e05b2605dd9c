------------------------------ MODULE Projection ------------------------------
(***************************************************************************)
(* What the projection stack promises about the screen, without queues,    *)
(* handshakes and backends: at most one phone owns it.  A phone gets it    *)
(* when it is free, keeps it until it is unplugged, and then it is passed   *)
(* on to a phone that is still plugged, if there is one.                   *)
(*                                                                         *)
(* An owner that failed is no longer served; any phone may take its place. *)
(***************************************************************************)
CONSTANTS Id,      \* the names of devices
          None

VARIABLES phones,  \* the phones that are plugged
          owner,   \* the phone the screen was given to
          serving  \* the owner has not failed

vars == <<phones, owner, serving>>

Init == phones = {} /\ owner = None /\ serving = FALSE

Free == owner = None \/ ~serving

(* A phone appears or changes: it takes a free screen, or waits.  `phones' *)
(* has a limited size.                                                     *)
Arrive(p) ==
  /\ phones' \in {phones, phones \cup {p}}
  /\ \/ /\ Free \/ owner = p
        /\ owner' = p
        /\ serving' \in BOOLEAN
     \/ /\ ~Free /\ owner # p
        /\ UNCHANGED <<owner, serving>>

(* A device that is no phone, or no longer one, changes nothing else. *)
Other(p) == /\ phones' \in {phones, phones \ {p}}
            /\ UNCHANGED <<owner, serving>>

(* A device is unplugged.  An owner that is expected to come back keeps    *)
(* the screen; otherwise another phone gets it at once.                    *)
Leave(p) ==
  /\ phones' = phones \ {p}
  /\ \/ /\ owner # p
        /\ UNCHANGED <<owner, serving>>
     \/ /\ owner = p /\ owner' = p
        /\ serving'
     \/ /\ owner = p /\ phones' = {}
        /\ owner' = None /\ ~serving'
     \/ /\ owner = p
        /\ owner' \in phones'
        /\ serving' \in BOOLEAN

Fails == ~serving' /\ UNCHANGED <<phones, owner>>

Next == \/ \E p \in Id : Arrive(p) \/ Other(p) \/ Leave(p)
        \/ Fails

Spec == Init /\ [][Next]_vars
=============================================================================
