---------------------------- MODULE MCTcpReceive ----------------------------
(***************************************************************************)
(* The model of TcpReceive for TLC.                                        *)
(***************************************************************************)
EXTENDS TcpReceive
=============================================================================
