------------------------------ MODULE MCTcpSend -----------------------------
(***************************************************************************)
(* The model of TcpSend for TLC.                                           *)
(***************************************************************************)
EXTENDS TcpSend
=============================================================================
