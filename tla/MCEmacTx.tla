------------------------------ MODULE MCEmacTx ------------------------------
(* EmacTx on a small ring. *)
EXTENDS EmacTx

CONSTANTS a, b

MCPayload == {a, b}

(* All chains of up to two pbufs, and one that is too long for a buffer. *)
MCFrames == (UNION {[1 .. n -> MCPayload] : n \in 1 .. 2}) \cup {<<a, b, a>>}
=============================================================================
