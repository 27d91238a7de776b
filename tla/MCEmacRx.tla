------------------------------ MODULE MCEmacRx ------------------------------
(* EmacRx on a small ring and small pools. *)
EXTENDS EmacRx

(* The last frame is shorter than its CRC: the length that is left wraps  *)
(* around and asks for more pbufs than the pool has.                       *)
MCFrames ==
  { [type |-> "IP",    last |-> TRUE,  chain |-> 1, id |-> 1],
    [type |-> "IP",    last |-> TRUE,  chain |-> 2, id |-> 2],
    [type |-> "OTHER", last |-> TRUE,  chain |-> 1, id |-> 3],
    [type |-> "RUNT",  last |-> TRUE,  chain |-> 1, id |-> 4],
    [type |-> "IP",    last |-> FALSE, chain |-> 1, id |-> 5],
    [type |-> "RUNT",  last |-> TRUE,  chain |-> 0, id |-> 6],
    [type |-> "RUNT",  last |-> TRUE,  chain |-> 4, id |-> 7] }

(* For FrameIsReadOut: a frame for the stack and one that is skipped. *)
MCFewFrames ==
  { [type |-> "IP",    last |-> TRUE,  chain |-> 1, id |-> 1],
    [type |-> "IP",    last |-> FALSE, chain |-> 1, id |-> 5] }
=============================================================================
