------------------------------ MODULE MCBoard ------------------------------
(***************************************************************************)
(* The model of Board for TLC: tables of three entries and three tries, so *)
(* that a write can fail, be repeated and be given up.                     *)
(***************************************************************************)
EXTENDS Board
=============================================================================
