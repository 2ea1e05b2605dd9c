------------------------------ MODULE StreamMC -------------------------------
(***************************************************************************)
(* A small instance of Stream: two phones one after the other, one with a  *)
(* backend of short frames and one of RGB frames, and connections that     *)
(* replace each other.                                                     *)
(***************************************************************************)
EXTENDS Stream, TLC

CONSTANTS p1, p2, Connections

MCSources == {p1, p2}
MCMediaLen == p1 :> 3 @@ p2 :> 4
MCConsumers == 1..Connections
=============================================================================
