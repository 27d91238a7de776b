------------------------------ MODULE Mailbox ------------------------------
(***************************************************************************)
(* What a FreeRTOS queue promises to its tasks and interrupts: a bounded   *)
(* first-in first-out store.  Who waits for it, and for how long, is not   *)
(* part of the promise.                                                    *)
(***************************************************************************)
EXTENDS Naturals, Sequences

CONSTANTS Messages,   \* the items that are sent
          Capacity,   \* the length of the queue
          Nothing     \* what "taken" holds before the first receive

VARIABLES queue,      \* the items in the queue, oldest first
          taken       \* the item received last

Init == queue = <<>> /\ taken = Nothing

Put(m) == Len(queue) < Capacity /\ queue' = Append(queue, m) /\ UNCHANGED taken

Take == queue # <<>> /\ taken' = Head(queue) /\ queue' = Tail(queue)

Next == Take \/ \E m \in Messages : Put(m)

Spec == Init /\ [][Next]_<<queue, taken>>
=============================================================================
