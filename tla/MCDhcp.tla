------------------------------ MODULE MCDhcp -------------------------------
(***************************************************************************)
(* The model of Dhcp for TLC: one free address and one in use; a short     *)
(* lease, an infinite one, and one of less than half a tick; counters just *)
(* wide enough for every limit in dhcp.c to be reached before they wrap.   *)
(***************************************************************************)
EXTENDS Dhcp

MCAddr == {"a1", "a2"}
MCTaken == {"a2"}
Defaults(t) == [t0 |-> t, t1 |-> NotGiven, t2 |-> NotGiven]
MCLeases == {Defaults(4), Defaults(7), Defaults(0)}
=============================================================================
