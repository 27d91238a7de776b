------------------------------ MODULE MCNetIf ------------------------------
(***************************************************************************)
(* The model of NetIf for TLC: a mailbox and a pool as small as the        *)
(* relation between their sizes in lwipopts.h allows.                      *)
(***************************************************************************)
EXTENDS NetIf
=============================================================================
