---------------------------- MODULE MCHttpServer ----------------------------
(***************************************************************************)
(* HttpServer for TLC: the listening netconn and two more, as many         *)
(* connections as those need and a mailbox that a second request fills.    *)
(***************************************************************************)
EXTENDS HttpServer
=============================================================================
