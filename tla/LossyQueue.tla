----------------------------- MODULE LossyQueue -----------------------------
(***************************************************************************)
(* What the receive half of the network interface promises to lwIP: frames *)
(* may be dropped anywhere on the way, but those that reach the stack      *)
(* reach it whole, once, and in the order of their arrival: the queue only *)
(* grows at its end, by an arriving frame, and its frames never change.    *)
(***************************************************************************)
EXTENDS Naturals, Sequences, SequencesExt

CONSTANTS Frames

VARIABLE queue       \* frames on their way, oldest first

Init == queue = <<>>

Arrive(f) == queue' = Append(queue, f)

(* A frame is dropped, or the oldest one is given to the stack. *)
Leave(i) == queue' = RemoveAt(queue, i)

Next == \/ \E f \in Frames : Arrive(f)
        \/ \E i \in 1 .. Len(queue) : Leave(i)

Spec == Init /\ [][Next]_queue
=============================================================================
