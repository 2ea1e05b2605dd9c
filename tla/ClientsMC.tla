------------------------------ MODULE ClientsMC ------------------------------
(***************************************************************************)
(* A small instance of Clients: the panel and one run of hupi-ctl, which    *)
(* compete for a single slot.                                              *)
(***************************************************************************)
EXTENDS Clients

CONSTANTS panel, ctl

MCApps   == {panel}
MCTools  == {ctl}
MCValues == {48, 49}
==============================================================================
